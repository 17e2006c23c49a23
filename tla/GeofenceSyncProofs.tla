--------------------------- MODULE GeofenceSyncProofs ---------------------------
(***************************************************************************)
(* The loader reports a fence only if PX4 holds it, for any fences, any    *)
(* number of settings, attempts, lost messages, and restarts of PX4, the   *)
(* fleet API and its link, as long as no answer comes after its time-out   *)
(* and no socket error or restart leaves one behind.                       *)
(*                                                                         *)
(* Then at most one message is under way, and it is of the request that    *)
(* the worker waits for; answers carry no mark of it.  So what is read     *)
(* back is what PX4 holds, item by item, unless PX4 lost it meanwhile.     *)
(***************************************************************************)
EXTENDS GeofenceSync, TLAPS

Contents == Wants \cup {Nothing} \cup (Fences \X (Nat \ {0}))
Messages == [kind : {"count", "item", "clear", "list", "get", "param", "request", "ack", "value"},
             n : Nat, x : Contents]
Stages == {"wait", "upload", "clear", "list", "get", "param"}
Statuses == [hash : Wants \cup {Nothing}, error : BOOLEAN]

Apis == [fence : Wants, home : BOOLEAN, heard : Statuses \cup {Nothing}, linked : {"none", "up", "dead"},
         push : [Pushers -> Wants \cup {Nothing}]]
ApiTyped ==
  /\ api \in Apis
  /\ pushed \in [msg : Wants \cup {Nothing}, new : BOOLEAN]
  /\ report \in [msg : Statuses \cup {Nothing}, new : BOOLEAN]
NodeTyped == node \in [want : Wants \cup {Nothing}, dirty : BOOLEAN, status : Statuses,
                       stale : Statuses \cup {Nothing}]
Works == [at : Stages, doing : {"nothing", "apply", "verify"}, job : Wants, back : Seq(Contents),
          count : Nat, loaded : Seq(Contents), try : Nat, sent : SUBSET Nat]
WorkTyped == work \in Works
Px4Typed == px4 \in [store : Seq(Contents), ceiling : Contents,
                     transfer : [n : Nat, got : Seq(Contents)] \cup {Nothing}]
Typed == ApiTyped /\ NodeTyped /\ WorkTyped /\ Px4Typed /\ lost \in BOOLEAN

Staged ==
  /\ work.doing = "nothing" <=> work.at = "wait"
  /\ work.at \in {"upload", "clear", "param"} => work.doing = "apply"
  /\ work.at = "upload" => work.job \in Fences
  /\ work.at = "list" => work.back = <<>>

(* At most one message is under way, and only while the worker waits.      *)
Empty == toPx4 = <<>> /\ fromPx4 = <<>>
Asked(m) == toPx4 = <<m>> /\ fromPx4 = <<>>
Told(m) == toPx4 = <<>> /\ fromPx4 = <<m>>

(* Its question is of the worker's stage; to be told is to be told true.   *)
Apt(m) ==
  \/ work.at = "upload" /\ m.kind \in {"count", "item"}
  \/ work.at \in {"clear", "list", "get", "param"} /\ m.kind = work.at
Truthful(m) ==
  /\ work.at # "wait"
  /\ work.at = "list" /\ m.kind = "count" /\ ~lost => m.n = Len(px4.store)
  /\ work.at = "get" /\ m.kind = "item" /\ ~lost => m.n < Len(px4.store) /\ m.x = px4.store[m.n + 1]
  /\ work.at = "param" /\ m.kind = "value" => m.x = px4.ceiling
Line == \/ Empty
        \/ \E m \in Messages : Asked(m) /\ Apt(m)
        \/ \E m \in Messages : Told(m) /\ Truthful(m)

(* What was read back so far is what PX4 holds.                            *)
ReadSoFar ==
  work.at = "get" /\ ~lost =>
    /\ Len(work.back) < work.count /\ work.count = Len(px4.store)
    /\ \A i \in 1 .. Len(work.back) : work.back[i] = px4.store[i]
ReadAll == work.at = "param" /\ ~lost => px4.store = Items(work.job)

FenceInv == Typed /\ Staged /\ Line /\ ReadSoFar /\ ReadAll /\ ReportedIsLoaded

-----------------------------------------------------------------------------
(* Messages.                                                               *)

LEMMA ItemsAreContents ==
  ASSUME NEW f \in Wants PROVE Items(f) \in Seq(Contents)
<1>1. CASE f = NoFence
  BY <1>1 DEF Items
<1>2. CASE f # NoFence
  <2>1. f \in Fences /\ Size[f] \in Nat
    BY <1>2, SyncAssumption DEF Wants
  <2>2. \A i \in 1 .. Size[f] : <<f, i>> \in Contents
    BY <2>1 DEF Contents
  <2> QED
    BY <1>2, <2>1, <2>2 DEF Items
<1> QED
  BY <1>1, <1>2

LEMMA RequestIsApt ==
  ASSUME NEW w \in Works, w.at # "wait", w.at = "upload" => w.job \in Fences
  PROVE /\ Request(w) \in Messages
        /\ \/ w.at = "upload" /\ Request(w).kind = "count"
           \/ w.at # "upload" /\ Request(w).kind = w.at
<1>1. Nothing \in Contents /\ w.job \in Contents /\ Len(w.back) \in Nat
  BY DEF Contents, Works
<1>2. CASE w.at = "upload"
  <2>1. Size[w.job] \in Nat
    BY <1>2, SyncAssumption
  <2> QED
    BY <1>1, <1>2, <2>1 DEF Request, Message, Messages
<1>3. CASE w.at = "clear"
  BY <1>1, <1>3 DEF Request, Message, Messages
<1>4. CASE w.at = "list"
  BY <1>1, <1>4 DEF Request, Message, Messages
<1>5. CASE w.at = "get"
  BY <1>1, <1>5 DEF Request, Message, Messages
<1>6. CASE w.at = "param"
  BY <1>1, <1>6 DEF Request, Message, Messages
<1> QED
  BY <1>2, <1>3, <1>4, <1>5, <1>6 DEF Works, Stages

LEMMA AsksLine ==
  ASSUME NEW w \in Works, w.at # "wait", w.at = "upload" => w.job \in Fences,
         toPx4 = <<>>, Asks(w), fromPx4' = <<>>
  PROVE Line'
<1>1. toPx4' = <<Request(w)>> /\ work' = w
  BY DEF Asks
<1>2. Request(w) \in Messages /\ Apt(Request(w))'
  BY <1>1, RequestIsApt DEF Apt, Works, Stages
<1> QED
  BY <1>1, <1>2 DEF Line, Asked

(* The next thing to ask, and the same again.                              *)
LEMMA AtWorks ==
  ASSUME NEW w \in Works, NEW stage \in Stages
  PROVE At(w, stage) \in Works /\ At(w, stage).at = stage /\ At(w, stage).doing = w.doing
        /\ At(w, stage).job = w.job /\ At(w, stage).back = w.back /\ At(w, stage).count = w.count
BY DEF At, Works

LEMMA AgainWorks ==
  ASSUME NEW w \in Works, NEW sent \in SUBSET Nat
  PROVE LET v == [w EXCEPT !.try = @ + 1, !.sent = sent]
        IN v \in Works /\ v.at = w.at /\ v.doing = w.doing /\ v.job = w.job
           /\ v.back = w.back /\ v.count = w.count
<1>1. w.try + 1 \in Nat
  BY DEF Works
<1> QED
  BY <1>1 DEF Works

LEMMA DownloadWorks ==
  ASSUME NEW w \in Works
  PROVE Download(w) \in Works /\ Download(w).at = "list" /\ Download(w).doing = w.doing
        /\ Download(w).job = w.job /\ Download(w).back = <<>>
<1> DEFINE none == [w EXCEPT !.back = <<>>]
<1>1. none \in Works /\ none.doing = w.doing /\ none.job = w.job /\ none.back = <<>>
  <2>1. <<>> \in Seq(Contents)
    OBVIOUS
  <2> QED
    BY <2>1 DEF Works
<1> HIDE DEF none
<1>2. Download(w) = At(none, "list")
  BY DEF Download, none
<1> QED
  BY <1>1, <1>2, AtWorks DEF Stages

(* Who receives takes the only message there is.                           *)
LEMMA Received ==
  ASSUME Line, Receive
  PROVE \E m \in Messages :
          /\ Told(m) /\ Truthful(m) /\ Answer = m /\ m.kind \in Awaited
          /\ toPx4 = <<>> /\ fromPx4' = <<>>
<1>1. fromPx4 # <<>>
  BY DEF Receive, Arrived
<1>2. PICK m \in Messages : Told(m) /\ Truthful(m)
  BY <1>1 DEF Line, Empty, Asked
<1>3. fromPx4 = <<m>> /\ Len(fromPx4) = 1 /\ fromPx4[1] = m /\ toPx4 = <<>>
  BY <1>2 DEF Told
<1>4. Arrived = {1} /\ m.kind \in Awaited
  BY <1>3 DEF Receive, Arrived
<1>5. First = 1
  BY <1>4 DEF First
<1>6. fromPx4' = SubSeq(fromPx4, 2, 1)
  BY <1>3, <1>5 DEF Receive
<1>7. fromPx4' = <<>>
  BY <1>3, <1>6
<1> QED
  BY <1>2, <1>3, <1>4, <1>5, <1>7 DEF Answer

-----------------------------------------------------------------------------
(* Steps.                                                                  *)

(* A step away from the worker and PX4 that reports no other fence.        *)
LEMMA ElsewhereKeeps ==
  ASSUME FenceInv, UNCHANGED <<work, px4, link, lost>>, ApiTyped', NodeTyped',
         node'.status = node.status \/ node'.status.error
  PROVE FenceInv'
<1>1. Typed' /\ Staged'
  BY DEF FenceInv, Typed, WorkTyped, Px4Typed, Staged
<1>2. Line'
  <2> USE DEF link
  <2>1. CASE Empty
    BY <2>1 DEF Line, Empty
  <2>2. ASSUME NEW m \in Messages, Asked(m), Apt(m)
        PROVE Line'
    BY <2>2 DEF Line, Asked, Apt
  <2>3. ASSUME NEW m \in Messages, Told(m), Truthful(m)
        PROVE Line'
    BY <2>3 DEF Line, Told, Truthful
  <2> QED
    BY <2>1, <2>2, <2>3 DEF FenceInv, Line
<1>3. ReadSoFar' /\ ReadAll'
  BY DEF FenceInv, ReadSoFar, ReadAll
<1>4. ReportedIsLoaded'
  BY DEF FenceInv, ReportedIsLoaded, Holds
<1> QED
  BY <1>1, <1>2, <1>3, <1>4 DEF FenceInv

LEMMA ApiKeeps ==
  ASSUME FenceInv, SetFence \/ Pushes \/ HearStatus \/ ApiRestarts \/ Reconnects \/ HomeChanges
  PROVE FenceInv'
<1>1. ApiTyped /\ NodeTyped
  BY DEF FenceInv, Typed
<1>2. UNCHANGED <<node, work, px4, link, lost>>
  BY DEF SetFence, Pushes, Compare, Publish, HearStatus, ApiRestarts, Reconnects, HomeChanges, link
<1>3. NodeTyped' /\ node'.status = node.status
  BY <1>1, <1>2 DEF NodeTyped
<1> SUFFICES ApiTyped'
  BY <1>2, <1>3, ElsewhereKeeps
<1>4. CASE SetFence
  BY <1>1, <1>4 DEF SetFence, ApiTyped, Apis
<1>5. CASE Pushes
  <2>1. PICK p \in Pushers : Compare(p) \/ Publish(p)
    BY <1>5 DEF Pushes
  <2>2. Wanted \in Wants
    BY <1>1 DEF ApiTyped, Wanted, Wants, Apis
  <2>3. CASE Compare(p)
    BY <1>1, <2>2, <2>3 DEF Compare, ApiTyped, Apis
  <2>4. CASE Publish(p)
    <3>1. api' \in Apis
      BY <1>1, <2>4 DEF Publish, ApiTyped, Apis
    <3>2. api.push[p] \in Wants \cup {Nothing}
      BY <1>1 DEF ApiTyped, Apis
    <3>3. pushed' \in [msg : Wants \cup {Nothing}, new : BOOLEAN]
      BY <1>1, <2>4, <3>2 DEF Publish, ApiTyped, Topic
    <3>4. report' \in [msg : Statuses \cup {Nothing}, new : BOOLEAN]
      BY <1>1, <2>4 DEF Publish, ApiTyped, Apis
    <3> QED
      BY <3>1, <3>3, <3>4 DEF ApiTyped
  <2> QED
    BY <2>1, <2>3, <2>4
<1>6. CASE HearStatus
  BY <1>1, <1>6 DEF HearStatus, ApiTyped, Apis
<1>7. CASE ApiRestarts
  <2>1. Status(Nothing, FALSE) \in Statuses
    BY DEF Status, Statuses
  <2> QED
    BY <1>1, <1>7, <2>1 DEF ApiRestarts, ApiTyped, Apis
<1>8. CASE Reconnects
  BY <1>1, <1>8 DEF Reconnects, ApiTyped, Apis
<1>9. CASE HomeChanges
  BY <1>1, <1>9 DEF HomeChanges, ApiTyped, Apis
<1> QED
  BY <1>4, <1>5, <1>6, <1>7, <1>8, <1>9

LEMMA RosKeeps ==
  ASSUME FenceInv, RosThread \/ TimerReports
  PROVE FenceInv'
<1>1. ApiTyped /\ NodeTyped
  BY DEF FenceInv, Typed
<1>2. CASE OnFence
  <2>1. UNCHANGED <<work, px4, link, lost, api, report>>
    BY <1>2 DEF OnFence, link
  <2>2. NodeTyped' /\ node'.status = node.status
    BY <1>1, <1>2 DEF OnFence, NodeTyped, ApiTyped
  <2>3. ApiTyped'
    BY <1>1, <1>2 DEF OnFence, ApiTyped
  <2> QED
    BY <2>1, <2>2, <2>3, ElsewhereKeeps
<1>3. CASE TellRefused
  <2> DEFINE st == Status(node.stale.hash, TRUE)
  <2>1. UNCHANGED <<work, px4, link, lost, api, pushed>>
    BY <1>3 DEF TellRefused, link
  <2>2. st \in Statuses /\ st.error
    BY <1>1, <1>3 DEF TellRefused, NodeTyped, Status, Statuses
  <2>3. node' = [node EXCEPT !.stale = Nothing, !.status = st] /\ report' = Topic(st)
    BY <1>3 DEF TellRefused, Report
  <2> HIDE DEF st
  <2>4. NodeTyped' /\ node'.status = st
    BY <1>1, <2>2, <2>3 DEF NodeTyped
  <2>5. ApiTyped'
    BY <1>1, <2>1, <2>2, <2>3 DEF ApiTyped, Topic
  <2> QED
    BY <2>1, <2>2, <2>4, <2>5, ElsewhereKeeps
<1>4. CASE TimerReports
  <2>1. UNCHANGED <<work, px4, link, lost, api, pushed, node>>
    BY <1>4 DEF TimerReports, link
  <2>2. NodeTyped' /\ node'.status = node.status
    BY <1>1, <2>1 DEF NodeTyped
  <2>3. ApiTyped'
    BY <1>1, <1>4, <2>1 DEF TimerReports, Report, Topic, ApiTyped, NodeTyped
  <2> QED
    BY <2>1, <2>2, <2>3, ElsewhereKeeps
<1> QED
  BY <1>2, <1>3, <1>4 DEF RosThread

(* A worker that gives up what it does reports an error, or goes on as     *)
(* before when it only verified.                                           *)
LEMMA FailKeeps ==
  ASSUME FenceInv, Fails, toPx4' = <<>>, fromPx4' = <<>>, UNCHANGED <<api, pushed, px4, lost>>
  PROVE FenceInv'
<1>1. Typed /\ ReportedIsLoaded
  BY DEF FenceInv
<1>2. work' = Rest /\ WorkTyped' /\ work'.at = "wait" /\ work'.doing = "nothing"
  <2>1. <<>> \in Seq(Contents)
    OBVIOUS
  <2>2. work.loaded \in Seq(Contents) /\ NoFence \in Wants
    BY <1>1 DEF Typed, WorkTyped, Works, Wants
  <2> QED
    BY <2>1, <2>2 DEF Fails, Rest, Idle, WorkTyped, Works, Stages
<1>3. /\ NodeTyped' /\ ApiTyped'
      /\ \/ work.doing = "verify" /\ node' = node
         \/ node'.status.hash = Nothing
  <2>1. CASE work.doing = "verify"
    BY <1>1, <2>1 DEF Fails, Typed, NodeTyped, ApiTyped
  <2>2. CASE work.doing # "verify"
    <3>1. node' = [node EXCEPT !.status = Status(Nothing, TRUE)] /\ report' = Topic(Status(Nothing, TRUE))
      BY <2>2 DEF Fails, Tell, Report
    <3>2. Status(Nothing, TRUE) \in Statuses /\ Status(Nothing, TRUE).hash = Nothing
      BY DEF Status, Statuses
    <3>3. NodeTyped' /\ node'.status.hash = Nothing
      BY <1>1, <3>1, <3>2 DEF Typed, NodeTyped
    <3>4. ApiTyped'
      BY <1>1, <3>1, <3>2 DEF Typed, ApiTyped, Topic
    <3> QED
      BY <3>3, <3>4
  <2> QED
    BY <2>1, <2>2
<1>4. Typed'
  BY <1>1, <1>2, <1>3 DEF Typed, Px4Typed
<1>5. Staged' /\ Line' /\ ReadSoFar' /\ ReadAll'
  BY <1>2 DEF Staged, Line, Empty, ReadSoFar, ReadAll
<1>6. ReportedIsLoaded'
  BY <1>1, <1>2, <1>3 DEF ReportedIsLoaded, Holds
<1> QED
  BY <1>4, <1>5, <1>6 DEF FenceInv

(* A worker that begins to apply a fence sends the first message.          *)
LEMMA BeginKeeps ==
  ASSUME FenceInv, NEW want \in Wants, BeginApply(want), toPx4 = <<>>, fromPx4' = <<>>,
         UNCHANGED <<api, pushed, report, px4>>, NodeTyped'
  PROVE FenceInv'
<1> DEFINE stage == IF want = NoFence THEN "clear" ELSE "upload"
           w == At([work EXCEPT !.doing = "apply", !.job = want], stage)
<1>1. work \in Works /\ stage \in {"clear", "upload"} /\ (stage = "upload" => want \in Fences)
  BY DEF FenceInv, Typed, WorkTyped, Wants
<1>2. Asks(w) /\ work' = w /\ lost' = FALSE
  BY DEF BeginApply, Asks
<1> HIDE DEF stage
<1>3. w \in Works /\ w.at = stage /\ w.doing = "apply" /\ w.job = want
  <2>1. [work EXCEPT !.doing = "apply", !.job = want] \in Works
    BY <1>1 DEF Works
  <2> QED
    BY <1>1, <2>1 DEF At, Works, Stages
<1> HIDE DEF w
<1>4. Line'
  BY <1>1, <1>2, <1>3, AsksLine
<1>5. Typed'
  BY <1>2, <1>3 DEF FenceInv, Typed, ApiTyped, WorkTyped, Px4Typed
<1>6. Staged' /\ ReadSoFar' /\ ReadAll' /\ ReportedIsLoaded'
  BY <1>1, <1>2, <1>3 DEF Staged, ReadSoFar, ReadAll, ReportedIsLoaded
<1> QED
  BY <1>4, <1>5, <1>6 DEF FenceInv

(* A worker that asks again, or for the next thing, reports nothing yet.   *)
LEMMA AskKeeps ==
  ASSUME FenceInv, NEW w \in Works, Asks(w), toPx4 = <<>>, fromPx4' = <<>>,
         UNCHANGED <<api, pushed, report, node, px4, lost>>,
         work.at # "wait", w.at # "wait", w.doing = work.doing, w.job = work.job,
         w.at \in {"list", "get"} \/ w.at = work.at \/ (w.at = "param" /\ work.doing = "apply"),
         w.at = "list" => w.back = <<>>,
         ReadSoFar', ReadAll'
  PROVE FenceInv'
<1>1. work' = w
  BY DEF Asks
<1>2. Staged /\ Typed /\ ReportedIsLoaded
  BY DEF FenceInv
<1>3. Line'
  BY <1>2, AsksLine DEF Staged
<1>4. Typed'
  BY <1>1, <1>2 DEF Typed, ApiTyped, NodeTyped, WorkTyped, Px4Typed
<1>5. Staged'
  BY <1>1, <1>2 DEF Staged
<1>6. ReportedIsLoaded'
  BY <1>1, <1>2 DEF ReportedIsLoaded, Holds
<1> QED
  BY <1>3, <1>4, <1>5, <1>6 DEF FenceInv

LEMMA AskAgainKeeps ==
  ASSUME FenceInv, NEW sent \in SUBSET Nat, Asks([work EXCEPT !.try = @ + 1, !.sent = sent]),
         work.at # "wait", toPx4 = <<>>, fromPx4' = <<>>,
         UNCHANGED <<api, pushed, report, node, px4, lost>>
  PROVE FenceInv'
<1> DEFINE w == [work EXCEPT !.try = @ + 1, !.sent = sent]
<1>1. work \in Works /\ ReadSoFar /\ ReadAll /\ (work.at = "list" => work.back = <<>>)
  BY DEF FenceInv, Typed, WorkTyped, Staged
<1>2. w \in Works /\ w.at = work.at /\ w.doing = work.doing /\ w.job = work.job
      /\ w.back = work.back /\ w.count = work.count
  BY <1>1, AgainWorks
<1>3. Asks(w) /\ work' = w
  BY DEF Asks
<1> HIDE DEF w
<1>4. ReadSoFar' /\ ReadAll'
  BY <1>1, <1>2, <1>3 DEF ReadSoFar, ReadAll
<1> QED
  BY <1>1, <1>2, <1>3, <1>4, AskKeeps

LEMMA WakeKeeps ==
  ASSUME FenceInv, WakeToApply \/ WakeToVerify
  PROVE FenceInv'
<1>1. Typed /\ Staged /\ Line /\ ReportedIsLoaded
  BY DEF FenceInv
<1>2. work.at = "wait"
  BY DEF WakeToApply, WakeToVerify
<1>3. Empty
  BY <1>1, <1>2 DEF Line, Apt, Truthful
<1>4. fromPx4' = <<>>
  BY <1>3 DEF WakeToApply, WakeToVerify, Connect, Empty
<1>5. node.want \in Wants
  BY <1>1 DEF WakeToApply, WakeToVerify, Typed, NodeTyped
<1>6. CASE WakeToApply
  <2>1. NodeTyped'
    BY <1>1, <1>6 DEF WakeToApply, Typed, NodeTyped
  <2> QED
    BY <1>3, <1>4, <1>5, <1>6, <2>1, BeginKeeps DEF WakeToApply, Empty
<1>7. CASE WakeToVerify
  <2> DEFINE w == Download([work EXCEPT !.doing = "verify", !.job = node.want])
  <2>1. Asks(w) /\ work' = w /\ UNCHANGED <<api, pushed, report, node, px4, lost>>
    BY <1>7 DEF WakeToVerify, Asks
  <2>2. w \in Works /\ w.at = "list" /\ w.doing = "verify" /\ w.back = <<>>
    <3> DEFINE v == [work EXCEPT !.doing = "verify", !.job = node.want]
    <3>1. v \in Works /\ v.doing = "verify"
      BY <1>1, <1>5 DEF Typed, WorkTyped, Works
    <3>2. w = Download(v)
      OBVIOUS
    <3> HIDE DEF v, w
    <3> QED
      BY <3>1, <3>2, DownloadWorks
  <2> HIDE DEF w
  <2>3. Line'
    BY <1>3, <1>4, <2>1, <2>2, AsksLine DEF Empty
  <2>4. Typed'
    BY <1>1, <2>1, <2>2 DEF Typed, ApiTyped, NodeTyped, WorkTyped, Px4Typed
  <2>5. Staged' /\ ReadSoFar' /\ ReadAll'
    BY <2>1, <2>2 DEF Staged, ReadSoFar, ReadAll
  <2>6. ReportedIsLoaded'
    BY <1>1, <1>2, <2>1 DEF ReportedIsLoaded, Holds, Staged
  <2> QED
    BY <2>3, <2>4, <2>5, <2>6 DEF FenceInv
<1> QED
  BY <1>6, <1>7

LEMMA UploadKeeps ==
  ASSUME FenceInv, Uploads
  PROVE FenceInv'
<1>1. Typed /\ Staged /\ Line /\ ReportedIsLoaded /\ work.at = "upload" /\ work.job \in Fences /\ work.doing = "apply"
  BY DEF FenceInv, Uploads, Staged
<1>2. PICK m \in Messages : Answer = m /\ toPx4 = <<>> /\ fromPx4' = <<>>
  BY <1>1, Received DEF Uploads
<1>3. UNCHANGED <<api, pushed, px4, lost>>
  BY DEF Uploads
<1>4. CASE AskedForItem /\ work' = [work EXCEPT !.sent = @ \cup {Answer.n}]
           /\ toPx4' = Append(toPx4, Message("item", Answer.n, Items(work.job)[Answer.n + 1]))
           /\ UNCHANGED <<node, report>>
  <2> DEFINE item == Message("item", m.n, Items(work.job)[m.n + 1])
  <2>1. m.n \in Nat /\ m.n < Size[work.job] /\ Size[work.job] \in Nat
    BY <1>1, <1>2, <1>4, SyncAssumption DEF AskedForItem, Messages
  <2>2. Items(work.job)[m.n + 1] = <<work.job, m.n + 1>>
    BY <1>1, <2>1, SyncAssumption DEF Items
  <2>3. item \in Messages /\ item.kind = "item"
    BY <1>1, <2>1, <2>2 DEF Message, Messages, Contents
  <2>4. toPx4' = <<item>>
    BY <1>2, <1>4
  <2> HIDE DEF item
  <2>5. WorkTyped' /\ work'.at = "upload" /\ work'.doing = "apply" /\ work'.job = work.job
    BY <1>1, <1>2, <1>4, <2>1 DEF Typed, WorkTyped, Works
  <2>6. Line'
    BY <1>2, <2>3, <2>4, <2>5 DEF Line, Asked, Apt
  <2>7. Typed'
    BY <1>1, <1>3, <1>4, <2>5 DEF Typed, ApiTyped, NodeTyped, Px4Typed
  <2>8. Staged' /\ ReadSoFar' /\ ReadAll' /\ ReportedIsLoaded'
    BY <1>1, <2>5 DEF Staged, ReadSoFar, ReadAll, ReportedIsLoaded
  <2> QED
    BY <2>6, <2>7, <2>8 DEF FenceInv
<1>5. CASE Asks(Download(work)) /\ UNCHANGED <<node, report>>
  <2>1. Download(work) \in Works /\ Download(work).at = "list" /\ Download(work).doing = work.doing
        /\ Download(work).job = work.job /\ Download(work).back = <<>> /\ work' = Download(work)
    BY <1>1, <1>5, DownloadWorks DEF Typed, WorkTyped, Asks
  <2>2. ReadSoFar' /\ ReadAll'
    BY <2>1 DEF ReadSoFar, ReadAll
  <2> QED
    BY <1>1, <1>2, <1>3, <1>5, <2>1, <2>2, AskKeeps
<1>6. CASE Fails /\ UNCHANGED toPx4
  BY <1>2, <1>3, <1>6, FailKeeps
<1> QED
  BY <1>4, <1>5, <1>6 DEF Uploads

LEMMA ClearKeeps ==
  ASSUME FenceInv, Clears
  PROVE FenceInv'
<1>1. Typed /\ Staged /\ Line /\ ReportedIsLoaded /\ work.at = "clear" /\ work.doing = "apply"
  BY DEF FenceInv, Clears, Staged
<1>2. PICK m \in Messages : Answer = m /\ toPx4 = <<>> /\ fromPx4' = <<>>
  BY <1>1, Received DEF Clears
<1>3. UNCHANGED <<api, pushed, px4, lost>>
  BY DEF Clears
<1>4. CASE Asks(Download(work)) /\ UNCHANGED <<node, report>>
  <2>1. Download(work) \in Works /\ Download(work).at = "list" /\ Download(work).doing = work.doing
        /\ Download(work).job = work.job /\ Download(work).back = <<>> /\ work' = Download(work)
    BY <1>1, <1>4, DownloadWorks DEF Typed, WorkTyped, Asks
  <2>2. ReadSoFar' /\ ReadAll'
    BY <2>1 DEF ReadSoFar, ReadAll
  <2> QED
    BY <1>1, <1>2, <1>3, <1>4, <2>1, <2>2, AskKeeps
<1>5. CASE Asks([work EXCEPT !.try = @ + 1]) /\ UNCHANGED <<node, report>>
  <2>1. work.sent \in SUBSET Nat /\ work = [work EXCEPT !.sent = work.sent]
    BY <1>1 DEF Typed, WorkTyped, Works
  <2>2. Asks([work EXCEPT !.try = @ + 1, !.sent = work.sent])
    <3>1. [work EXCEPT !.try = @ + 1, !.sent = work.sent] = [work EXCEPT !.try = @ + 1]
      BY <1>1 DEF Typed, WorkTyped, Works
    <3> QED
      BY <1>5, <3>1
  <2>3. UNCHANGED <<api, pushed, report, node, px4, lost>>
    BY <1>3, <1>5
  <2> QED
    BY <1>1, <1>2, <2>1, <2>2, <2>3, AskAgainKeeps
<1>6. CASE Fails /\ UNCHANGED toPx4
  BY <1>2, <1>3, <1>6, FailKeeps
<1> QED
  BY <1>4, <1>5, <1>6 DEF Clears

LEMMA TimesOutKeeps ==
  ASSUME FenceInv, TimesOut, "late" \notin Faults
  PROVE FenceInv'
<1>1. Typed /\ Staged /\ ReadSoFar /\ ReadAll
  BY DEF FenceInv
<1>2. toPx4 = <<>> /\ fromPx4' = <<>> /\ UNCHANGED <<api, pushed, px4, lost>>
  BY DEF TimesOut, May
<1>3. CASE Fails /\ UNCHANGED toPx4
  BY <1>2, <1>3, FailKeeps
<1>4. CASE Asks([work EXCEPT !.try = @ + 1, !.sent = IF work.at = "upload" THEN {} ELSE @])
           /\ UNCHANGED <<node, report>>
  <2> DEFINE sent == IF work.at = "upload" THEN {} ELSE work.sent
  <2>1. work.at # "wait" /\ sent \in SUBSET Nat
    BY <1>1 DEF TimesOut, Awaited, Typed, WorkTyped, Works
  <2>2. Asks([work EXCEPT !.try = @ + 1, !.sent = sent]) /\ UNCHANGED <<api, pushed, report, node, px4, lost>>
    BY <1>2, <1>4
  <2> HIDE DEF sent
  <2> QED
    BY <1>2, <2>1, <2>2, AskAgainKeeps
<1> QED
  BY <1>3, <1>4 DEF TimesOut

(* What was read back is compared, and is what PX4 holds.                  *)
LEMMA ReadBackKeeps ==
  ASSUME FenceInv, NEW back \in Seq(Contents), ReadBack(back), work.at \in {"list", "get"},
         toPx4 = <<>>, fromPx4' = <<>>, UNCHANGED <<api, pushed, px4>>, ~lost => back = px4.store
  PROVE FenceInv'
<1>1. Typed /\ work \in Works
  BY DEF FenceInv, Typed, WorkTyped
<1>2. CASE work' = Rest /\ work.doing = "verify" /\ UNCHANGED <<toPx4, node, report, lost>>
  <2>1. Fails
    BY <1>2 DEF Fails
  <2> QED
    BY <1>2, <2>1, FailKeeps
<1>3. CASE BeginApply(work.job) /\ UNCHANGED <<node, report>>
  <2>1. work.job \in Wants /\ NodeTyped'
    BY <1>1, <1>3 DEF Works, Typed, NodeTyped
  <2> QED
    BY <1>3, <2>1, BeginKeeps
<1>4. CASE /\ work.doing = "apply" /\ back = Items(work.job)
           /\ Asks(At([work EXCEPT !.back = back], "param")) /\ UNCHANGED <<node, report, lost>>
  <2> DEFINE v == [work EXCEPT !.back = back]
             w == At(v, "param")
  <2>1. v \in Works /\ v.doing = work.doing /\ v.job = work.job
    BY <1>1 DEF Works
  <2> HIDE DEF v
  <2>2. w \in Works /\ w.at = "param" /\ w.doing = work.doing /\ w.job = work.job
    BY <2>1, AtWorks DEF Stages
  <2>3. Asks(w) /\ work' = w
    BY <1>4 DEF Asks, v
  <2> HIDE DEF w
  <2>4. ReadSoFar' /\ ReadAll'
    BY <1>4, <2>2, <2>3 DEF ReadSoFar, ReadAll
  <2> QED
    BY <1>4, <2>2, <2>3, <2>4, AskKeeps
<1>5. CASE Fails /\ UNCHANGED <<toPx4, lost>>
  BY <1>5, FailKeeps
<1> QED
  BY <1>2, <1>3, <1>4, <1>5 DEF ReadBack

LEMMA ListKeeps ==
  ASSUME FenceInv, Downloads, work.at = "list"
  PROVE FenceInv'
<1>1. Typed /\ Line /\ work \in Works /\ work.back = <<>>
  BY DEF FenceInv, Typed, WorkTyped, Staged
<1>2. PICK m \in Messages : /\ Answer = m /\ toPx4 = <<>> /\ fromPx4' = <<>>
                            /\ m.kind \in Awaited /\ Truthful(m)
  BY <1>1, Received DEF Downloads
<1>3. m.n \in Nat /\ (~lost => m.n = Len(px4.store))
  BY <1>2 DEF Awaited, Truthful, Messages
<1>4. UNCHANGED <<api, pushed, px4>>
  BY DEF Downloads
<1>5. CASE m.n = 0
  <2>1. ReadBack(<<>>)
    BY <1>2, <1>5 DEF Downloads
  <2>2. <<>> \in Seq(Contents) /\ px4.store \in Seq(Contents)
    BY <1>1 DEF Typed, Px4Typed
  <2>3. ~lost => <<>> = px4.store
    BY <1>3, <1>5, <2>2
  <2> QED
    BY <1>2, <1>4, <2>1, <2>2, <2>3, ReadBackKeeps
<1>6. CASE m.n # 0
  <2> DEFINE v == [work EXCEPT !.count = m.n]
             w == At(v, "get")
  <2>1. v \in Works /\ v.doing = work.doing /\ v.job = work.job /\ v.back = <<>> /\ v.count = m.n
    BY <1>1, <1>3 DEF Works
  <2>2. Asks(w) /\ UNCHANGED <<node, report, lost>>
    BY <1>2, <1>6 DEF Downloads
  <2> HIDE DEF v
  <2>3. /\ w \in Works /\ w.at = "get" /\ w.doing = work.doing /\ w.job = work.job
        /\ w.back = <<>> /\ w.count = m.n
    BY <2>1, AtWorks DEF Stages
  <2> HIDE DEF w
  <2>4. work' = w
    BY <2>2 DEF Asks
  <2>5. ReadSoFar' /\ ReadAll'
    BY <1>3, <1>4, <1>6, <2>2, <2>3, <2>4 DEF ReadSoFar, ReadAll
  <2> QED
    BY <1>2, <1>4, <2>2, <2>3, <2>5, AskKeeps
<1> QED
  BY <1>5, <1>6

LEMMA GetKeeps ==
  ASSUME FenceInv, Downloads, work.at = "get"
  PROVE FenceInv'
<1>1. Typed /\ Line /\ work \in Works /\ ReadSoFar
  BY DEF FenceInv, Typed, WorkTyped
<1>2. PICK m \in Messages : /\ Answer = m /\ toPx4 = <<>> /\ fromPx4' = <<>>
                            /\ m.kind \in Awaited /\ Truthful(m)
  BY <1>1, Received DEF Downloads
<1>3. /\ m.x \in Contents
      /\ ~lost => m.n < Len(px4.store) /\ m.x = px4.store[m.n + 1]
  BY <1>2 DEF Awaited, Truthful, Messages
<1>4. UNCHANGED <<api, pushed, px4>>
  BY DEF Downloads
<1> DEFINE longer == Append(work.back, m.x)
<1>5. work.back \in Seq(Contents) /\ px4.store \in Seq(Contents) /\ work.count \in Nat
  BY <1>1 DEF Works, Typed, Px4Typed
<1>6. longer \in Seq(Contents) /\ Len(longer) = Len(work.back) + 1
      /\ \A i \in 1 .. Len(longer) : longer[i] = IF i <= Len(work.back) THEN work.back[i] ELSE m.x
  BY <1>3, <1>5
<1>7. CASE m.n = Len(work.back)
  <2>1. ~lost => /\ Len(longer) <= work.count /\ work.count = Len(px4.store)
                 /\ \A i \in 1 .. Len(longer) : longer[i] = px4.store[i]
    <3> SUFFICES ASSUME ~lost PROVE /\ Len(longer) <= work.count /\ work.count = Len(px4.store)
                                    /\ \A i \in 1 .. Len(longer) : longer[i] = px4.store[i]
      OBVIOUS
    <3>1. /\ Len(work.back) < work.count /\ work.count = Len(px4.store)
          /\ \A i \in 1 .. Len(work.back) : work.back[i] = px4.store[i]
      BY <1>1 DEF ReadSoFar
    <3>2. Len(work.back) \in Nat /\ Len(px4.store) \in Nat
      BY <1>5
    <3> HIDE DEF longer
    <3>3. ASSUME NEW i \in 1 .. Len(longer) PROVE longer[i] = px4.store[i]
      <4>1. CASE i <= Len(work.back)
        BY <1>6, <3>1, <3>2, <4>1
      <4>2. CASE i = Len(work.back) + 1
        BY <1>3, <1>6, <1>7, <3>2, <4>2
      <4> QED
        BY <1>6, <3>2, <4>1, <4>2
    <3> QED
      BY <1>6, <3>1, <3>2, <3>3
  <2>2. CASE Len(work.back) + 1 = work.count
    <3>1. ReadBack(longer)
      BY <1>2, <1>7, <2>2 DEF Downloads
    <3> HIDE DEF longer
    <3>2. ~lost => longer = px4.store
      BY <1>5, <1>6, <2>1, <2>2
    <3> QED
      BY <1>2, <1>4, <1>6, <3>1, <3>2, ReadBackKeeps
  <2>3. CASE Len(work.back) + 1 # work.count
    <3> DEFINE w == [work EXCEPT !.back = longer, !.try = 1]
    <3>1. Asks(w) /\ UNCHANGED <<node, report, lost>>
      BY <1>2, <1>7, <2>3 DEF Downloads
    <3>2. Len(work.back) \in Nat
      BY <1>5
    <3> HIDE DEF longer
    <3>3. /\ w \in Works /\ w.at = "get" /\ w.doing = work.doing /\ w.job = work.job
          /\ w.back = longer /\ w.count = work.count
      BY <1>1, <1>6 DEF Works
    <3> HIDE DEF w
    <3>4. work' = w
      BY <3>1 DEF Asks
    <3>5. ReadSoFar'
      BY <1>4, <1>5, <1>6, <2>1, <2>3, <3>1, <3>2, <3>3, <3>4 DEF ReadSoFar
    <3>6. ReadAll'
      BY <3>3, <3>4 DEF ReadAll
    <3> QED
      BY <1>2, <1>4, <3>1, <3>3, <3>5, <3>6, AskKeeps
  <2> QED
    BY <2>2, <2>3
<1>8. CASE m.n # Len(work.back)
  <2>1. \/ Fails /\ UNCHANGED <<toPx4, lost>>
        \/ Asks([work EXCEPT !.try = @ + 1]) /\ UNCHANGED <<node, report, lost>>
    BY <1>2, <1>8 DEF Downloads
  <2>2. CASE Fails /\ UNCHANGED <<toPx4, lost>>
    BY <1>2, <1>4, <2>2, FailKeeps
  <2>3. CASE Asks([work EXCEPT !.try = @ + 1]) /\ UNCHANGED <<node, report, lost>>
    <3>1. [work EXCEPT !.try = @ + 1, !.sent = work.sent] = [work EXCEPT !.try = @ + 1]
          /\ work.sent \in SUBSET Nat
      BY <1>1 DEF Works
    <3>2. Asks([work EXCEPT !.try = @ + 1, !.sent = work.sent])
      BY <2>3, <3>1
    <3> QED
      BY <1>2, <1>4, <2>3, <3>1, <3>2, AskAgainKeeps
  <2> QED
    BY <2>1, <2>2, <2>3
<1> QED
  BY <1>7, <1>8

(* PX4 says the value it has: the fence read back is loaded, height and    *)
(* all.                                                                    *)
LEMMA ParamKeeps ==
  ASSUME FenceInv, SetsParam
  PROVE FenceInv'
<1>1. Typed /\ Staged /\ Line /\ ReadAll /\ ReportedIsLoaded /\ work \in Works /\ work.at = "param"
  BY DEF FenceInv, Typed, WorkTyped, SetsParam
<1>2. PICK m \in Messages : /\ Answer = m /\ toPx4 = <<>> /\ fromPx4' = <<>>
                            /\ m.kind \in Awaited /\ Truthful(m)
  BY <1>1, Received DEF SetsParam
<1>3. m.x = px4.ceiling
  BY <1>1, <1>2 DEF Awaited, Truthful
<1>4. UNCHANGED <<api, pushed, px4, lost>> /\ toPx4' = <<>>
  BY <1>2 DEF SetsParam
<1>5. CASE m.x = work.job
  <2> DEFINE st == Status(work.job, FALSE)
  <2>1. work' = [Idle EXCEPT !.loaded = work.back] /\ node' = [node EXCEPT !.status = st] /\ report' = Topic(st)
    BY <1>2, <1>5 DEF SetsParam, Tell, Report
  <2>2. st \in Statuses /\ st.hash = work.job
    BY <1>1 DEF Status, Statuses, Works
  <2> HIDE DEF st
  <2>3. WorkTyped' /\ work'.at = "wait" /\ work'.doing = "nothing"
    <3>1. <<>> \in Seq(Contents) /\ NoFence \in Wants
      BY DEF Wants
    <3> QED
      BY <1>1, <2>1, <3>1 DEF Idle, WorkTyped, Works, Stages
  <2>4. NodeTyped' /\ node'.status = st
    BY <1>1, <2>1, <2>2 DEF Typed, NodeTyped
  <2>5. Typed'
    BY <1>1, <1>4, <2>1, <2>2, <2>3, <2>4 DEF Typed, ApiTyped, Px4Typed, Topic
  <2>6. Staged' /\ Line' /\ ReadSoFar' /\ ReadAll'
    BY <1>2, <1>4, <2>3 DEF Staged, Line, Empty, ReadSoFar, ReadAll
  <2>7. Holds(work.job) \/ lost
    BY <1>1, <1>3, <1>5 DEF ReadAll, Holds, Typed
  <2>8. ReportedIsLoaded'
    BY <1>4, <2>2, <2>4, <2>7 DEF ReportedIsLoaded, Holds
  <2> QED
    BY <2>5, <2>6, <2>8 DEF FenceInv
<1>6. CASE m.x # work.job
  <2>1. UNCHANGED <<work, node, report>>
    BY <1>2, <1>6 DEF SetsParam
  <2>2. Line'
    BY <1>2, <1>4 DEF Line, Empty
  <2> QED
    BY <1>1, <1>4, <2>1, <2>2 DEF FenceInv, Typed, ApiTyped, NodeTyped, WorkTyped, Px4Typed, Staged,
                                  ReadSoFar, ReadAll, ReportedIsLoaded, Holds
<1> QED
  BY <1>5, <1>6

-----------------------------------------------------------------------------
(* PX4.                                                                    *)

(* PX4 changes its fence only when it is sent one or told to clear it, and *)
(* its answer is true.                                                     *)
LEMMA HandleSound ==
  ASSUME FenceInv, NEW m \in Messages, Apt(m), Handle(m), fromPx4 = <<>>, UNCHANGED <<work, lost>>
  PROVE /\ Px4Typed'
        /\ \/ fromPx4' = <<>>
           \/ \E a \in Messages : fromPx4' = <<a>> /\ Truthful(a)'
        /\ work.at \in {"list", "get"} => px4' = px4
        /\ work.at = "param" => px4'.store = px4.store
<1>1. Px4Typed /\ work \in Works /\ Staged
  BY DEF FenceInv, Typed, WorkTyped
<1>2. m.n \in Nat /\ m.x \in Contents /\ Nothing \in Contents
  BY DEF Messages, Contents
<1> DEFINE Says(kind, n, x) == fromPx4' = <<Message(kind, n, x)>>
<1>3. ASSUME NEW kind, NEW n, NEW x, Say(Message(kind, n, x)) PROVE Says(kind, n, x)
  BY <1>3 DEF Say
<1>4. ASSUME NEW kind \in {"request", "ack"}, NEW n \in Nat, Says(kind, n, Nothing), work.at # "wait"
      PROVE \E a \in Messages : fromPx4' = <<a>> /\ Truthful(a)'
  <2>1. Message(kind, n, Nothing) \in Messages /\ Truthful(Message(kind, n, Nothing))'
    BY <1>2, <1>4 DEF Message, Messages, Truthful
  <2> QED
    BY <1>4, <2>1
<1>5. work.at # "wait"
  BY DEF Apt
<1>6. CASE m.kind = "count"
  <2>1. work.at = "upload"
    BY <1>6 DEF Apt
  <2>2. px4' = [px4 EXCEPT !.transfer = [n |-> m.n, got |-> <<>>]] /\ Says("request", 0, Nothing)
    BY <1>3, <1>6 DEF Handle
  <2>3. <<>> \in Seq(Contents)
    OBVIOUS
  <2>4. Px4Typed'
    BY <1>1, <1>2, <2>2, <2>3 DEF Px4Typed
  <2> QED
    BY <1>4, <1>5, <2>1, <2>2, <2>4
<1>7. CASE m.kind = "item" /\ px4.transfer = Nothing
  <2>1. UNCHANGED <<px4, fromPx4>>
    BY <1>7 DEF Handle
  <2> QED
    BY <1>1, <2>1 DEF Px4Typed
<1>8. CASE m.kind = "item" /\ px4.transfer # Nothing
  <2> DEFINE t == px4.transfer
             got == IF m.n = Len(t.got) THEN Append(t.got, m.x) ELSE t.got
  <2>1. work.at = "upload"
    BY <1>8 DEF Apt
  <2>2. got \in Seq(Contents) /\ t.n \in Nat /\ t \in [n : Nat, got : Seq(Contents)]
    BY <1>1, <1>2, <1>8 DEF Px4Typed
  <2>3. IF Len(got) = t.n
        THEN px4' = [px4 EXCEPT !.transfer = Nothing, !.store = got] /\ Say(Message("ack", 0, Nothing))
        ELSE px4' = [px4 EXCEPT !.transfer.got = got] /\ Say(Message("request", Len(got), Nothing))
    BY <1>8 DEF Handle
  <2> HIDE DEF got
  <2>4. Len(got) \in Nat
    BY <2>2
  <2>5. CASE Len(got) = t.n
    <3>1. px4' = [px4 EXCEPT !.transfer = Nothing, !.store = got] /\ Says("ack", 0, Nothing)
      BY <1>3, <2>3, <2>5
    <3>2. Px4Typed'
      BY <1>1, <2>2, <3>1 DEF Px4Typed
    <3> QED
      BY <1>4, <1>5, <2>1, <3>1, <3>2
  <2>6. CASE Len(got) # t.n
    <3>1. px4' = [px4 EXCEPT !.transfer.got = got] /\ Says("request", Len(got), Nothing)
      BY <1>3, <2>3, <2>6
    <3>2. Px4Typed'
      BY <1>1, <2>2, <3>1 DEF Px4Typed
    <3> QED
      BY <1>4, <1>5, <2>1, <2>4, <3>1, <3>2
  <2> QED
    BY <2>5, <2>6
<1>9. CASE m.kind = "clear"
  <2>1. work.at = "clear"
    BY <1>9 DEF Apt
  <2>2. px4' = [px4 EXCEPT !.store = <<>>] /\ Says("ack", 0, Nothing)
    BY <1>3, <1>9 DEF Handle
  <2>3. <<>> \in Seq(Contents)
    OBVIOUS
  <2>4. Px4Typed'
    BY <1>1, <2>2, <2>3 DEF Px4Typed
  <2> QED
    BY <1>4, <1>5, <2>1, <2>2, <2>4
<1>10. CASE m.kind = "list"
  <2>1. Len(px4.store) \in Nat
    BY <1>1 DEF Px4Typed
  <2>2. PICK a \in Messages : a = Message("count", Len(px4.store), Nothing)
    BY <1>2, <2>1 DEF Message, Messages
  <2>3. work.at = "list" /\ UNCHANGED px4 /\ fromPx4' = <<a>>
    BY <1>3, <1>10, <2>2 DEF Handle, Apt
  <2>4. a.kind = "count" /\ a.n = Len(px4.store)
    BY <2>2 DEF Message
  <2>5. Truthful(a)'
    BY <2>3, <2>4 DEF Truthful
  <2> QED
    BY <1>1, <2>3, <2>5 DEF Px4Typed
<1>11. CASE m.kind = "get" /\ m.n < Len(px4.store)
  <2>1. px4.store[m.n + 1] \in Contents
    BY <1>1, <1>2, <1>11 DEF Px4Typed
  <2>2. PICK a \in Messages : a = Message("item", m.n, px4.store[m.n + 1])
    BY <1>2, <2>1 DEF Message, Messages
  <2>3. UNCHANGED px4 /\ Say(Message("item", m.n, px4.store[m.n + 1]))
    <3>1. Len(px4.store) \in Nat
      BY <1>1 DEF Px4Typed
    <3>2. ~(m.n >= Len(px4.store))
      BY <1>2, <1>11, <3>1
    <3> QED
      BY <1>11, <3>2 DEF Handle
  <2>4. work.at = "get" /\ fromPx4' = <<a>>
    BY <1>3, <1>11, <2>2, <2>3 DEF Apt
  <2>5. a.kind = "item" /\ a.n = m.n /\ a.x = px4.store[m.n + 1]
    BY <2>2 DEF Message
  <2>6. Truthful(a)'
    BY <1>11, <2>3, <2>4, <2>5 DEF Truthful
  <2> QED
    BY <1>1, <2>3, <2>4, <2>6 DEF Px4Typed
<1>12. CASE m.kind = "get" /\ m.n >= Len(px4.store)
  <2>1. work.at = "get" /\ UNCHANGED px4 /\ Says("ack", 1, Nothing)
    <3>1. Len(px4.store) \in Nat
      BY <1>1 DEF Px4Typed
    <3>2. ~(m.n < Len(px4.store))
      BY <1>2, <1>12, <3>1
    <3> QED
      BY <1>3, <1>12, <3>2 DEF Handle, Apt
  <2> QED
    BY <1>1, <1>4, <1>5, <2>1 DEF Px4Typed
<1>13. CASE m.kind = "param"
  <2> DEFINE a == Message("value", 0, m.x)
  <2>1. work.at = "param" /\ px4' = [px4 EXCEPT !.ceiling = m.x] /\ fromPx4' = <<a>>
    BY <1>3, <1>13 DEF Handle, Apt
  <2>2. a \in Messages /\ a.kind = "value" /\ a.x = m.x
    BY <1>2 DEF Message, Messages
  <2> HIDE DEF a
  <2>3. Px4Typed' /\ px4'.ceiling = m.x /\ px4'.store = px4.store
    BY <1>1, <1>2, <2>1 DEF Px4Typed
  <2>4. Truthful(a)'
    BY <2>1, <2>2, <2>3 DEF Truthful
  <2> QED
    BY <2>1, <2>2, <2>3, <2>4
<1>14. m.kind = "get" => m.n < Len(px4.store) \/ m.n >= Len(px4.store)
  BY <1>1, <1>2 DEF Px4Typed
<1> QED
  BY <1>6, <1>7, <1>8, <1>9, <1>10, <1>11, <1>12, <1>13, <1>14 DEF Apt

LEMMA Px4Keeps ==
  ASSUME FenceInv, Px4Takes
  PROVE FenceInv'
<1>1. Typed /\ Staged /\ Line /\ ReadSoFar /\ ReadAll /\ ReportedIsLoaded
  BY DEF FenceInv
<1>2. PICK m \in Messages : Asked(m) /\ Apt(m)
  BY <1>1 DEF Px4Takes, Line, Empty, Told
<1>3. Handle(m) /\ toPx4' = <<>> /\ fromPx4 = <<>>
  BY <1>2 DEF Px4Takes, Asked
<1>4. UNCHANGED <<api, pushed, report, node, work, lost>>
  BY DEF Px4Takes
<1>5. /\ Px4Typed'
      /\ \/ fromPx4' = <<>>
         \/ \E a \in Messages : fromPx4' = <<a>> /\ Truthful(a)'
      /\ work.at \in {"list", "get"} => px4' = px4
      /\ work.at = "param" => px4'.store = px4.store
  BY <1>2, <1>3, <1>4, HandleSound
<1>6. Line'
  BY <1>3, <1>5 DEF Line, Empty, Told
<1>7. Typed' /\ Staged'
  BY <1>1, <1>4, <1>5 DEF Typed, ApiTyped, NodeTyped, WorkTyped, Staged
<1>8. ReadSoFar' /\ ReadAll'
  BY <1>1, <1>4, <1>5 DEF ReadSoFar, ReadAll
<1>9. ReportedIsLoaded'
  <2>1. CASE work.doing = "apply"
    BY <1>4, <2>1 DEF ReportedIsLoaded
  <2>2. CASE work.doing # "apply"
    <3>1. px4' = px4
      BY <1>1, <1>2, <1>5, <2>2 DEF Apt, Staged
    <3> QED
      BY <1>1, <1>4, <3>1 DEF ReportedIsLoaded, Holds
  <2> QED
    BY <2>1, <2>2
<1> QED
  BY <1>6, <1>7, <1>8, <1>9 DEF FenceInv

LEMMA LosesKeeps ==
  ASSUME FenceInv, Loses
  PROVE FenceInv'
<1>1. Empty'
  <2>1. CASE \E m \in Messages : Asked(m)
    BY <2>1 DEF Loses, Asked, Empty
  <2>2. CASE \E m \in Messages : Told(m)
    BY <2>2 DEF Loses, Told, Empty
  <2> QED
    BY <2>1, <2>2 DEF FenceInv, Line, Loses, Empty
<1>2. UNCHANGED <<api, pushed, report, node, work, px4, lost>>
  BY DEF Loses
<1> QED
  BY <1>1, <1>2 DEF FenceInv, Typed, ApiTyped, NodeTyped, WorkTyped, Px4Typed, Staged, Line,
                    ReadSoFar, ReadAll, ReportedIsLoaded, Holds

LEMMA RestartKeeps ==
  ASSUME FenceInv, Px4Restarts
  PROVE FenceInv'
<1>1. Typed /\ Staged /\ Line
  BY DEF FenceInv
<1>2. /\ lost' = TRUE /\ toPx4' = <<>> /\ fromPx4' = fromPx4
      /\ px4' = [px4 EXCEPT !.store = <<>>, !.transfer = Nothing]
      /\ UNCHANGED <<api, pushed, report, node, work>>
  BY DEF Px4Restarts
<1>3. Px4Typed' /\ px4'.ceiling = px4.ceiling
  <2>1. <<>> \in Seq(Contents)
    OBVIOUS
  <2> QED
    BY <1>1, <1>2, <2>1 DEF Typed, Px4Typed
<1>4. Line'
  <2>1. ASSUME NEW m \in Messages, Told(m), Truthful(m) PROVE Line'
    <3>1. Told(m)' /\ Truthful(m)'
      BY <1>2, <1>3, <2>1 DEF Told, Truthful
    <3> QED
      BY <3>1 DEF Line
  <2>2. CASE fromPx4 = <<>>
    BY <1>2, <2>2 DEF Line, Empty
  <2> QED
    BY <1>1, <2>1, <2>2 DEF Line, Empty, Asked
<1> QED
  BY <1>1, <1>2, <1>3, <1>4 DEF FenceInv, Typed, ApiTyped, NodeTyped, WorkTyped, Staged, ReadSoFar,
                                ReadAll, ReportedIsLoaded

-----------------------------------------------------------------------------
(* No answer is late, and none is left behind by a socket error or by a    *)
(* loader that restarts.                                                   *)
InTime == Faults \cap {"late", "socket", "loader"} = {}

LEMMA StepKeeps ==
  ASSUME FenceInv, Next, InTime
  PROVE FenceInv'
<1>1. ~LoaderRestarts /\ ~SocketFails /\ "late" \notin Faults
  BY DEF InTime, LoaderRestarts, SocketFails, May
<1>2. CASE SetFence \/ Pushes \/ HearStatus \/ ApiRestarts \/ Reconnects \/ HomeChanges
  BY <1>2, ApiKeeps
<1>3. CASE RosThread \/ TimerReports
  BY <1>3, RosKeeps
<1>4. CASE Worker
  <2>1. CASE Downloads
    <3>1. work.at \in {"list", "get"}
      BY <2>1 DEF Downloads
    <3> QED
      BY <2>1, <3>1, ListKeeps, GetKeeps
  <2> QED
    BY <1>1, <1>4, <2>1, WakeKeeps, UploadKeeps, ClearKeeps, ParamKeeps, TimesOutKeeps DEF Worker
<1>5. CASE Px4Takes
  BY <1>5, Px4Keeps
<1>6. CASE Loses
  BY <1>6, LosesKeeps
<1>7. CASE Px4Restarts
  BY <1>7, RestartKeeps
<1> QED
  BY <1>1, <1>2, <1>3, <1>4, <1>5, <1>6, <1>7 DEF Next, Fault

LEMMA StutterKeeps ==
  ASSUME FenceInv, UNCHANGED vars
  PROVE FenceInv'
<1>1. UNCHANGED <<api, pushed, report, node, work, px4, link, lost>>
  BY DEF vars, link
<1>2. ApiTyped' /\ NodeTyped' /\ node'.status = node.status
  BY <1>1 DEF FenceInv, Typed, ApiTyped, NodeTyped
<1> QED
  BY <1>1, <1>2, ElsewhereKeeps

LEMMA InitFence == Init => FenceInv
<1> SUFFICES ASSUME Init PROVE FenceInv
  OBVIOUS
<1>1. PICK f \in Wants :
        api = [fence |-> f, home |-> TRUE, heard |-> Status(Nothing, FALSE), linked |-> "none",
               push |-> [p \in Pushers |-> Nothing]]
  BY DEF Init
<1>2. Status(Nothing, FALSE) \in Statuses
  BY DEF Status, Statuses
<1>3. <<>> \in Seq(Contents) /\ NoFence \in Wants /\ NoFence \in Contents
  BY DEF Wants, Contents
<1>4. ApiTyped
  BY <1>1, <1>2 DEF Init, ApiTyped, Apis
<1>5. NodeTyped /\ node.status.hash = Nothing
  BY <1>2 DEF Init, NodeTyped, Fresh, Status
<1>6. WorkTyped /\ work.at = "wait" /\ work.doing = "nothing"
  BY <1>3 DEF Init, WorkTyped, Works, Stages, Idle
<1>7. Px4Typed
  BY <1>3 DEF Init, Px4Typed
<1> QED
  BY <1>4, <1>5, <1>6, <1>7 DEF Init, FenceInv, Typed, Staged, Line, Empty, ReadSoFar, ReadAll,
                                ReportedIsLoaded

(* apply and worker: a fence is reported only once all of it was read back *)
(* and its height confirmed, and then PX4 holds it until another is being  *)
(* applied or PX4 loses it: whatever is set, cleared or pushed meanwhile,  *)
(* messages that get lost and restarts of PX4, the fleet API and its link. *)
THEOREM ReportsWhatIsLoaded ==
  ASSUME InTime
  PROVE  Spec => []ReportedIsLoaded
<1>1. FenceInv /\ [Next]_vars => FenceInv'
  BY StepKeeps, StutterKeeps
<1>2. FenceInv => ReportedIsLoaded
  BY DEF FenceInv
<1> QED
  BY <1>1, <1>2, InitFence, PTL DEF Spec
=============================================================================
