------------------------------ MODULE GeofenceSync ------------------------------
(***************************************************************************)
(* The property geofence of one drone on its way to PX4: the fleet API     *)
(* pushes the fence it has on a latched topic, geofence_loader uploads it  *)
(* over the MAVLink mission protocol, reads it back and reports the hash   *)
(* that PX4 holds, and the fleet API compares that hash with its own.      *)
(*                                                                         *)
(* A fence stands for its polygons, height and hash; it has Size[f] items. *)
(* Messages are lost, answers come after their time-out, PX4, the loader,  *)
(* the fleet API and its rosbridge link restart; Faults says which, and    *)
(* MaxFaults how many of them.                                             *)
(***************************************************************************)
EXTENDS Integers, Sequences, FiniteSets

CONSTANTS
  Fences,       \* fences an admin may set
  Big,          \* those of them with more vertices than PX4 takes
  NoFence,      \* the fence of a drone that has none
  Nothing,      \* no message, no status, no hash
  Size,         \* Fences -> number of items
  Tries,        \* attempts of each request to PX4
  Pushers,      \* threads of the fleet API that push: the watchdog and the handlers
  Faults, MaxFaults, MaxSets

ASSUME SyncAssumption ==
  /\ NoFence \notin Fences /\ Nothing \notin Fences \cup {NoFence} /\ Big \subseteq Fences
  /\ Size \in [Fences -> Nat \ {0}] /\ Tries \in Nat \ {0}
  /\ MaxFaults \in Nat /\ MaxSets \in Nat

VARIABLES
  api,      \* [fence, home, heard, linked, push]: the fleet API
  pushed,   \* [msg, new]: topic /<drone>/geofence, latched
  report,   \* [msg, new]: topic /<drone>/geofence_status, latched
  node,     \* [want, dirty, status, stale]: the loader's fields and its ROS thread
  work,     \* [at, doing, job, back, count, loaded, try, sent]: its worker
  px4,      \* [store, ceiling, transfer]: PX4's fence and the upload in progress
  toPx4, fromPx4,   \* MAVLink messages under way, in order
  faults, sets,     \* bounds: faults and settings so far
  lost      \* history: PX4 restarted since the worker last began to apply a fence

vars == <<api, pushed, report, node, work, px4, toPx4, fromPx4, faults, sets, lost>>
link == <<toPx4, fromPx4>>

Wants == Fences \cup {NoFence}
Items(f) == IF f = NoFence THEN <<>> ELSE [i \in 1 .. Size[f] |-> <<f, i>>]
Status(h, e) == [hash |-> h, error |-> e]
Topic(m) == [msg |-> m, new |-> TRUE]
Idle == [at |-> "wait", doing |-> "nothing", job |-> NoFence, back |-> <<>>, count |-> 0, loaded |-> <<>>, try |-> 0, sent |-> {}]
Fresh == [want |-> Nothing, dirty |-> FALSE, status |-> Status(Nothing, FALSE), stale |-> Nothing]

Init ==
  /\ \E f \in Wants :
       api = [fence |-> f, home |-> TRUE, heard |-> Status(Nothing, FALSE), linked |-> "none",
              push |-> [p \in Pushers |-> Nothing]]
  /\ pushed = [msg |-> Nothing, new |-> FALSE] /\ report = [msg |-> Nothing, new |-> FALSE]
  /\ node = Fresh /\ work = Idle
  /\ px4 = [store |-> <<>>, ceiling |-> NoFence, transfer |-> Nothing]
  /\ toPx4 = <<>> /\ fromPx4 = <<>>
  /\ faults = 0 /\ sets = 0 /\ lost = FALSE

May(fault) == fault \in Faults /\ faults < MaxFaults
-----------------------------------------------------------------------------
(* The fleet API.                                                          *)

(* What the drone should have: the fence if its home is known and inside.  *)
Wanted == IF api.home THEN api.fence ELSE NoFence

(* An admin sets or clears the fence; the handler's own push comes after.  *)
SetFence ==
  \E f \in Wants :
    /\ sets < MaxSets /\ sets' = sets + 1
    /\ f # api.fence /\ api' = [api EXCEPT !.fence = f]
    /\ UNCHANGED <<pushed, report, node, work, px4, link, faults, lost>>

(* The drone's position, and with it its home, is unknown for a while.     *)
HomeChanges ==
  /\ (api.home => May("home")) /\ faults' = IF api.home THEN faults + 1 ELSE faults
  /\ api' = [api EXCEPT !.home = ~@]
  /\ UNCHANGED <<pushed, report, node, work, px4, link, sets, lost>>

(* push_fences compares the wanted hash with the one last heard of ...     *)
Compare(p) ==
  /\ api.push[p] = Nothing
  /\ api.heard.hash # Wanted
  /\ api' = [api EXCEPT !.push[p] = Wanted]
  /\ UNCHANGED <<pushed, report, node, work, px4, link, faults, sets, lost>>

(* ... and publishes. The first push subscribes to the status as well. A   *)
(* publisher of a link that is gone sends nothing.                         *)
Publish(p) ==
  /\ api.push[p] # Nothing
  /\ api' = [api EXCEPT !.push[p] = Nothing, !.linked = IF @ = "none" THEN "up" ELSE @]
  /\ pushed' = IF api.linked = "dead" THEN pushed ELSE Topic(api.push[p])
  /\ report' = IF api.linked = "none" THEN [report EXCEPT !.new = report.msg # Nothing] ELSE report
  /\ UNCHANGED <<node, work, px4, link, faults, sets, lost>>

HearStatus ==
  /\ api.linked = "up" /\ report.new
  /\ api' = [api EXCEPT !.heard = report.msg] /\ report' = [report EXCEPT !.new = FALSE]
  /\ UNCHANGED <<pushed, node, work, px4, link, faults, sets, lost>>

(* The fleet API restarts: the fence comes from its file.                  *)
ApiRestarts ==
  /\ May("api") /\ faults' = faults + 1
  /\ api' = [api EXCEPT !.heard = Status(Nothing, FALSE), !.linked = "none", !.push = [p \in Pushers |-> Nothing]]
  /\ pushed' = [msg |-> Nothing, new |-> FALSE]
  /\ UNCHANGED <<report, node, work, px4, link, sets, lost>>

(* The link to rosbridge is built anew. The fence's publisher and the      *)
(* subscription to its status are of the old one and are kept.             *)
Reconnects ==
  /\ May("link") /\ faults' = faults + 1
  /\ api' = [api EXCEPT !.linked = IF @ = "none" THEN @ ELSE "dead"]
  /\ UNCHANGED <<pushed, report, node, work, px4, link, sets, lost>>

-----------------------------------------------------------------------------
(* The loader's ROS thread.                                                *)

Report(st) == report' = Topic(st)

(* A fence arrives. One that to_items refuses changes only the error; the  *)
(* hash kept with it is read before the status is written (TellRefused).   *)
OnFence ==
  /\ pushed.new /\ node.stale = Nothing /\ pushed' = [pushed EXCEPT !.new = FALSE]
  /\ node' = IF pushed.msg \in Big THEN [node EXCEPT !.stale = node.status]
             ELSE [node EXCEPT !.want = pushed.msg, !.dirty = TRUE]
  /\ UNCHANGED <<api, report, work, px4, link, faults, sets, lost>>

TellRefused ==
  /\ node.stale # Nothing
  /\ LET st == Status(node.stale.hash, TRUE)
     IN node' = [node EXCEPT !.stale = Nothing, !.status = st] /\ Report(st)
  /\ UNCHANGED <<api, pushed, work, px4, link, faults, sets, lost>>

TimerReports ==
  /\ report.msg # node.status /\ Report(node.status)
  /\ UNCHANGED <<api, pushed, node, work, px4, link, faults, sets, lost>>

LoaderRestarts ==
  /\ May("loader") /\ faults' = faults + 1
  /\ node' = Fresh /\ work' = Idle /\ fromPx4' = <<>> /\ pushed' = [pushed EXCEPT !.new = pushed.msg # Nothing]
  /\ report' = [msg |-> Nothing, new |-> FALSE]
  /\ UNCHANGED <<api, px4, toPx4, sets, lost>>
-----------------------------------------------------------------------------
(* The worker. Every request to PX4 is sent again when its answer is not   *)
(* there in time; what it is doing fails after Tries of them.              *)

Message(kind, n, x) == [kind |-> kind, n |-> n, x |-> x]

Awaited == CASE work.at = "upload" -> {"request", "ack"}
             [] work.at = "clear"  -> {"ack"}
             [] work.at = "list"   -> {"count"}
             [] work.at = "get"    -> {"item"}
             [] work.at = "param"  -> {"value"}
             [] OTHER -> {}

(* recv_match: the oldest message of an awaited kind; older ones are gone. *)
Arrived == {i \in 1 .. Len(fromPx4) : fromPx4[i].kind \in Awaited}
First == CHOOSE i \in Arrived : \A j \in Arrived : i <= j
Answer == fromPx4[First]
Receive == Arrived # {} /\ fromPx4' = SubSeq(fromPx4, First + 1, Len(fromPx4))

(* What a worker at a stage asks, at first and again.                      *)
Request(w) == CASE w.at = "upload" -> Message("count", Size[w.job], Nothing)
                [] w.at = "clear"  -> Message("clear", 0, Nothing)
                [] w.at = "list"   -> Message("list", 0, Nothing)
                [] w.at = "get"    -> Message("get", Len(w.back), Nothing)
                [] w.at = "param"  -> Message("param", 0, w.job)
Asks(w) == work' = w /\ toPx4' = Append(toPx4, Request(w))
At(w, stage) == [w EXCEPT !.at = stage, !.try = 1, !.sent = {}]
Download(w) == At([w EXCEPT !.back = <<>>], "list")
Rest == [Idle EXCEPT !.loaded = work.loaded]

(* connect reads up to a heartbeat and leaves later messages in line.      *)
Connect == \E k \in 0 .. Len(fromPx4) : fromPx4' = SubSeq(fromPx4, k + 1, Len(fromPx4))

Tell(st) == node' = [node EXCEPT !.status = st] /\ Report(st)

(* A failed verification is only logged; a failed apply takes the hash.    *)
Fails ==
  /\ work' = Rest
  /\ IF work.doing = "verify" THEN UNCHANGED <<node, report>> ELSE Tell(Status(Nothing, TRUE))

BeginApply(want) ==
  /\ Asks(At([work EXCEPT !.doing = "apply", !.job = want], IF want = NoFence THEN "clear" ELSE "upload"))
  /\ lost' = FALSE

WakeToApply ==
  /\ work.at = "wait" /\ node.want # Nothing /\ (node.dirty \/ node.status.hash # node.want)
  /\ node' = [node EXCEPT !.dirty = FALSE] /\ BeginApply(node.want) /\ Connect
  /\ UNCHANGED <<api, pushed, report, px4, faults, sets>>

WakeToVerify ==
  /\ work.at = "wait" /\ node.want # Nothing /\ ~node.dirty /\ node.status.hash = node.want
  /\ Asks(Download([work EXCEPT !.doing = "verify", !.job = node.want])) /\ Connect
  /\ UNCHANGED <<api, pushed, report, node, px4, faults, sets, lost>>

(* upload: PX4 asks for the items and accepts them when all were sent.     *)
Accepted == Answer.kind = "ack" /\ Answer.n = 0 /\ Cardinality(work.sent) = Size[work.job]
AskedForItem == Answer.kind = "request" /\ Answer.n < Size[work.job]

Uploads ==
  /\ work.at = "upload" /\ Receive
  /\ \/ /\ AskedForItem /\ work' = [work EXCEPT !.sent = @ \cup {Answer.n}]
        /\ toPx4' = Append(toPx4, Message("item", Answer.n, Items(work.job)[Answer.n + 1]))
        /\ UNCHANGED <<node, report>>
     \/ Accepted /\ Asks(Download(work)) /\ UNCHANGED <<node, report>>
     \/ ~AskedForItem /\ ~Accepted /\ Fails /\ UNCHANGED toPx4
  /\ UNCHANGED <<api, pushed, px4, faults, sets, lost>>

Clears ==
  /\ work.at = "clear" /\ Receive
  /\ \/ Answer.n = 0 /\ Asks(Download(work)) /\ UNCHANGED <<node, report>>
     \/ Answer.n # 0 /\ work.try < Tries /\ Asks([work EXCEPT !.try = @ + 1]) /\ UNCHANGED <<node, report>>
     \/ Answer.n # 0 /\ work.try = Tries /\ Fails /\ UNCHANGED toPx4
  /\ UNCHANGED <<api, pushed, px4, faults, sets, lost>>

(* A verification that never sees a difference.                            *)
ReadBackTrusts(back) ==
  \/ work.doing = "verify" /\ work' = Rest /\ UNCHANGED <<toPx4, node, report, lost>>
  \/ /\ work.doing = "apply" /\ back = Items(work.job)
     /\ Asks(At([work EXCEPT !.back = back], "param")) /\ UNCHANGED <<node, report, lost>>
  \/ /\ work.doing = "apply" /\ back # Items(work.job)
     /\ Fails /\ UNCHANGED <<toPx4, lost>>

(* What was read back is compared: with what was loaded last, by a         *)
(* verification, which applies the fence again if it differs; with the     *)
(* fence just sent, by an apply, which goes on to the height.              *)
ReadBack(back) ==
  \/ /\ work.doing = "verify" /\ back = work.loaded
     /\ work' = Rest /\ UNCHANGED <<toPx4, node, report, lost>>
  \/ /\ work.doing = "verify" /\ back # work.loaded
     /\ BeginApply(work.job) /\ UNCHANGED <<node, report>>
  \/ /\ work.doing = "apply" /\ back = Items(work.job)
     /\ Asks(At([work EXCEPT !.back = back], "param")) /\ UNCHANGED <<node, report, lost>>
  \/ /\ work.doing = "apply" /\ back # Items(work.job)
     /\ Fails /\ UNCHANGED <<toPx4, lost>>

Downloads ==
  /\ Receive
  /\ \/ /\ work.at = "list"
        /\ IF Answer.n = 0 THEN ReadBack(<<>>)
           ELSE /\ Asks(At([work EXCEPT !.count = Answer.n], "get")) /\ UNCHANGED <<node, report, lost>>
     \/ /\ work.at = "get" /\ Answer.n = Len(work.back)
        /\ IF Len(work.back) + 1 = work.count THEN ReadBack(Append(work.back, Answer.x))
           ELSE /\ Asks([work EXCEPT !.back = Append(@, Answer.x), !.try = 1])
                /\ UNCHANGED <<node, report, lost>>
     \/ /\ work.at = "get" /\ Answer.n # Len(work.back)
        /\ IF work.try = Tries THEN Fails /\ UNCHANGED <<toPx4, lost>>
           ELSE Asks([work EXCEPT !.try = @ + 1]) /\ UNCHANGED <<node, report, lost>>
  /\ UNCHANGED <<api, pushed, px4, faults, sets>>

(* It would be wrong to report the fence wanted by then.                   *)
SetsParamLatest ==
  /\ work.at = "param" /\ Receive
  /\ IF Answer.x = work.job
     THEN work' = [Idle EXCEPT !.loaded = work.back] /\ Tell(Status(node.want, FALSE))
     ELSE UNCHANGED <<work, node, report>>
  /\ UNCHANGED <<api, pushed, px4, toPx4, faults, sets, lost>>

(* The height is set once PX4 says the value; then the fence is loaded.    *)
SetsParam ==
  /\ work.at = "param" /\ Receive
  /\ IF Answer.x = work.job
     THEN work' = [Idle EXCEPT !.loaded = work.back] /\ Tell(Status(work.job, FALSE))
     ELSE UNCHANGED <<work, node, report>>
  /\ UNCHANGED <<api, pushed, px4, toPx4, faults, sets, lost>>

(* An answer does not come in time. It comes later, or never when nothing  *)
(* is under way any more; the messages read while waiting are gone.        *)
TimesOut ==
  /\ Awaited # {}
  /\ \/ toPx4 = <<>> /\ Arrived = {} /\ faults' = faults
     \/ May("late") /\ faults' = faults + 1
  /\ fromPx4' = IF Arrived = {} THEN <<>> ELSE fromPx4
  /\ IF work.try = Tries THEN Fails /\ UNCHANGED toPx4
     ELSE Asks([work EXCEPT !.try = @ + 1, !.sent = IF work.at = "upload" THEN {} ELSE @])
          /\ UNCHANGED <<node, report>>
  /\ UNCHANGED <<api, pushed, px4, sets, lost>>

(* A socket error. apply reports it; a verification does not catch it, and *)
(* the worker's thread ends.                                               *)
SocketFails ==
  /\ May("socket") /\ faults' = faults + 1 /\ work.doing # "nothing"
  /\ IF work.doing = "verify" THEN work' = [Rest EXCEPT !.at = "dead"] /\ UNCHANGED <<node, report>> ELSE Fails
  /\ UNCHANGED <<api, pushed, px4, link, sets, lost>>
-----------------------------------------------------------------------------
(* PX4's mission manager, as the loader uses it: it takes messages in      *)
(* order, keeps the items of an upload apart and swaps them in at the end. *)

Say(m) == fromPx4' = Append(fromPx4, m)
Handle(m) ==
  CASE m.kind = "count" -> px4' = [px4 EXCEPT !.transfer = [n |-> m.n, got |-> <<>>]] /\ Say(Message("request", 0, Nothing))
    [] m.kind = "item" /\ px4.transfer = Nothing -> UNCHANGED <<px4, fromPx4>>
    [] m.kind = "item" /\ px4.transfer # Nothing ->
         LET t == px4.transfer
             got == IF m.n = Len(t.got) THEN Append(t.got, m.x) ELSE t.got
         IN IF Len(got) = t.n
            THEN px4' = [px4 EXCEPT !.transfer = Nothing, !.store = got] /\ Say(Message("ack", 0, Nothing))
            ELSE px4' = [px4 EXCEPT !.transfer.got = got] /\ Say(Message("request", Len(got), Nothing))
    [] m.kind = "clear" -> px4' = [px4 EXCEPT !.store = <<>>] /\ Say(Message("ack", 0, Nothing))
    [] m.kind = "list"  -> UNCHANGED px4 /\ Say(Message("count", Len(px4.store), Nothing))
    [] m.kind = "get" /\ m.n < Len(px4.store)  -> UNCHANGED px4 /\ Say(Message("item", m.n, px4.store[m.n + 1]))
    [] m.kind = "get" /\ m.n >= Len(px4.store) -> UNCHANGED px4 /\ Say(Message("ack", 1, Nothing))
    [] m.kind = "param" -> px4' = [px4 EXCEPT !.ceiling = m.x] /\ Say(Message("value", 0, m.x))

Px4Takes ==
  /\ toPx4 # <<>> /\ Handle(Head(toPx4)) /\ toPx4' = Tail(toPx4)
  /\ UNCHANGED <<api, pushed, report, node, work, faults, sets, lost>>

(* A message is lost, to PX4 or from it.                                   *)
Loses ==
  /\ May("loss") /\ faults' = faults + 1
  /\ \/ toPx4 # <<>> /\ toPx4' = Tail(toPx4) /\ UNCHANGED fromPx4
     \/ fromPx4 # <<>> /\ fromPx4' = Tail(fromPx4) /\ UNCHANGED toPx4
  /\ UNCHANGED <<api, pushed, report, node, work, px4, sets, lost>>

(* PX4 restarts without its fence; parameters are kept.                    *)
Px4Restarts ==
  /\ May("px4") /\ faults' = faults + 1 /\ lost' = TRUE
  /\ px4' = [px4 EXCEPT !.store = <<>>, !.transfer = Nothing] /\ toPx4' = <<>>
  /\ UNCHANGED <<api, pushed, report, node, work, fromPx4, sets>>
-----------------------------------------------------------------------------
Pushes == \E p \in Pushers : Compare(p) \/ Publish(p)
Fault == HomeChanges \/ ApiRestarts \/ Reconnects \/ LoaderRestarts \/ SocketFails \/ Loses \/ Px4Restarts

RosThread == OnFence \/ TellRefused
Worker == WakeToApply \/ WakeToVerify \/ Uploads \/ Clears \/ Downloads \/ SetsParam \/ TimesOut

Next == SetFence \/ Pushes \/ HearStatus \/ RosThread \/ TimerReports \/ Worker \/ Px4Takes \/ Fault

Spec == Init /\ [][Next]_vars

(* Timers, threads, topics and PX4 go on; nobody need set a fence and      *)
(* nothing need fail. An answer that is lost times out.                    *)
Fairness ==
  /\ \A p \in Pushers : WF_vars(Compare(p) \/ Publish(p))
  /\ WF_vars(HearStatus) /\ WF_vars(RosThread) /\ WF_vars(TimerReports)
  /\ WF_vars(Worker) /\ WF_vars(Px4Takes) /\ WF_vars(~api.home /\ HomeChanges)
FairSpec == Spec /\ Fairness
-----------------------------------------------------------------------------
Holds(f) == px4.store = Items(f) /\ px4.ceiling = f

(* The loader reports a fence without an error only if PX4 holds all of it *)
(* and its height, but while another one is being applied and after PX4    *)
(* lost its fence by itself.                                               *)
ReportedIsLoaded ==
  node.status.hash # Nothing /\ ~node.status.error =>
    Holds(node.status.hash) \/ work.doing = "apply" \/ lost

(* Whatever is lost, late or restarted: in the end PX4 holds the fence the *)
(* fleet API wants and the fleet API knows it, unless the fence is too big *)
(* for PX4, the link was built anew or the worker's thread is dead.        *)
InStep == Holds(Wanted) /\ api.heard.hash = Wanted
Settles == <>[](InStep \/ Wanted \in Big \/ api.linked = "dead" \/ work.at = "dead")

(* app.py:255 of watch_jobs: "keeps each drone's onboard fence in step     *)
(* with the fleet API's".                                                  *)
KeptInStep == <>[](InStep \/ Wanted \in Big)
================================================================================
