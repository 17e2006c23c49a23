-------------------------- MODULE PatrolMissionProofs --------------------------
(***************************************************************************)
(* Three invariants of PatrolMission, for every route, request and fault:  *)
(* a mission is in one phase (Sound), skips no item (IInv), and everything *)
(* stays in its type (TInv).                                               *)
(***************************************************************************)
EXTENDS PatrolMission, TLAPS

(* The fields of MissionManager that an update leaves alone are there.     *)
Shaped(m) ==
  {"valid", "running", "paused", "finished", "failed", "item", "id", "route", "delegated", "engaged",
   "timer", "seq", "next"} = DOMAIN m

Flags(m) == /\ m.valid \in BOOLEAN /\ m.running \in BOOLEAN /\ m.paused \in BOOLEAN
            /\ m.finished \in BOOLEAN /\ m.failed \in BOOLEAN
            /\ m.delegated \in BOOLEAN /\ m.timer \in BOOLEAN

(* A valid mission has a route; the rest is OnePhase.                      *)
Phased(m) ==
  /\ m.valid => m.route # <<>>
  /\ m.running => /\ m.valid /\ ~m.paused /\ ~m.finished /\ ~m.failed
                  /\ m.timer = ~m.delegated
  /\ m.paused => m.valid /\ ~m.finished /\ ~m.failed

Sound(m) == Shaped(m) /\ Flags(m) /\ Phased(m)

-----------------------------------------------------------------------------
(* What the methods of MissionManager keep.                                *)

LEMMA NothingYet == Sound(NoMission)
BY DEF Sound, Shaped, Flags, Phased, NoMission

LEMMA UploadSound ==
  ASSUME NEW m, Sound(m), NEW route, route # <<>>
  PROVE Sound(Upload(m, route))
BY DEF Sound, Shaped, Flags, Phased, Upload

LEMMA StartSound ==
  ASSUME NEW m, Sound(m), MayStart(m)
  PROVE Sound(StartMission(m))
BY DEF Sound, Shaped, Flags, Phased, MayStart, StartMission, Runs

LEMMA ResumeSound ==
  ASSUME NEW m, Sound(m), MayResume(m)
  PROVE Sound(ResumeMission(m))
BY DEF Sound, Shaped, Flags, Phased, MayResume, ResumeMission, Runs

LEMMA DelegateSound ==
  ASSUME NEW m, Sound(m), NEW resume \in BOOLEAN, MayDelegate(m, resume)
  PROVE Sound(StartDelegated(m, resume))
BY DEF Sound, Shaped, Flags, Phased, MayDelegate, StartDelegated, Runs

LEMMA PauseSound == ASSUME NEW m, Sound(m) PROVE Sound(PauseMission(m))
BY DEF Sound, Shaped, Flags, Phased, PauseMission

LEMMA StopSound == ASSUME NEW m, Sound(m) PROVE Sound(StopMission(m))
BY DEF Sound, Shaped, Flags, Phased, StopMission

LEMMA FailSound == ASSUME NEW m, Sound(m) PROVE Sound(FailMission(m))
BY DEF Sound, Shaped, Flags, Phased, FailMission

LEMMA ClearSound == ASSUME NEW m, Sound(m) PROVE Sound(ClearMission(m))
BY DEF Sound, Shaped, Flags, Phased, ClearMission

LEMMA GotoSound == ASSUME NEW m, Sound(m), NEW i PROVE Sound(GotoItem(m, i))
BY DEF Sound, Shaped, Flags, Phased, GotoItem

(* Both ends of a leg come while the mission runs.                         *)
LEMMA FinishSound == ASSUME NEW m, Sound(m), m.running PROVE Sound(FinishMission(m))
BY DEF Sound, Shaped, Flags, Phased, FinishMission

LEMMA EngageSound == ASSUME NEW m, Sound(m) PROVE Sound([m EXCEPT !.engaged = TRUE])
BY DEF Sound, Shaped, Flags, Phased

LEMMA ReachSound == ASSUME NEW m, Sound(m), m.running PROVE Sound(Reach(m))
<1> DEFINE next == [m EXCEPT !.item = @ + 1, !.engaged = TRUE]
<1>1. Sound(next) /\ next.running
  BY DEF Sound, Shaped, Flags, Phased
<1>2. Sound(FinishMission(next))
  BY <1>1, FinishSound
<1> QED
  BY <1>1, <1>2 DEF Reach

LEMMA AdvanceSound ==
  ASSUME NEW m, Sound(m), NEW s
  PROVE Sound(Advance(m, s)) /\ Advance(m, s).running = m.running
BY DEF Sound, Shaped, Flags, Phased, Advance

LEMMA StatusSound ==
  ASSUME NEW m, Sound(m), NEW s, NEW inHold
  PROVE Sound(ApplyStatus(m, s, inHold))
<1> DEFINE n == Advance(m, s)
<1>1. CASE ~IsForUs(m, s)
  BY <1>1 DEF ApplyStatus
<1>2. CASE IsForUs(m, s)
  <2>1. Sound(n) /\ n.running
    BY <1>2, AdvanceSound DEF IsForUs, Sound, Flags
  <2> HIDE DEF n
  <2>2. Sound(FailMission(n))
    BY <2>1, FailSound
  <2>3. Sound([n EXCEPT !.running = FALSE, !.finished = TRUE])
    BY <2>1 DEF Sound, Shaped, Flags, Phased
  <2>4. Sound([n EXCEPT !.running = FALSE, !.paused = TRUE])
    BY <2>1 DEF Sound, Shaped, Flags, Phased
  <2> QED
    BY <1>2, <2>1, <2>2, <2>3, <2>4 DEF ApplyStatus, n
<1> QED
  BY <1>1, <1>2

-----------------------------------------------------------------------------
(* The steps that change the mission.                                      *)

LEMMA UploadStep == ASSUME Sound(mission), UploadMission PROVE Sound(mission')
BY UploadSound, ConstantsAssumption DEF UploadMission

LEMMA StartStep ==
  ASSUME Sound(mission), NEW resume \in BOOLEAN, StartPatrol(resume) \/ StartOffboard(resume)
  PROVE Sound(mission')
<1>1. CASE StartPatrol(resume)
  BY <1>1, DelegateSound DEF StartPatrol
<1>2. CASE StartOffboard(resume)
  BY <1>2, StartSound, ResumeSound DEF StartOffboard
<1> QED
  BY <1>1, <1>2

LEMMA ReleaseStep == ASSUME Sound(mission), NEW what, Release(what) PROVE Sound(mission')
BY PauseSound, StopSound DEF Release

LEMMA ServiceStep == ASSUME Sound(mission), Service PROVE Sound(mission')
<1>1. PICK op \in Ops : Does(op)
  BY DEF Service
<1>2. op \in AllOps
  BY ConstantsAssumption
<1>3. CASE op = "upload"
  BY <1>1, <1>3, UploadStep DEF Does
<1>4. CASE op \in {"start", "resume"}
  <2>1. PICK resume \in BOOLEAN : StartPatrol(resume) \/ StartOffboard(resume)
    BY <1>1, <1>4 DEF Does, Start, Resume
  <2> QED
    BY <2>1, StartStep
<1>5. CASE op = "pause"
  <2>1. mission' = PauseMission(mission)
    BY <1>1, <1>5 DEF Does, Interrupt
  <2> QED
    BY <2>1, PauseSound
<1>6. CASE op = "stop"
  <2>1. mission' = StopMission(mission)
    BY <1>1, <1>6 DEF Does, Interrupt
  <2> QED
    BY <2>1, StopSound
<1>7. CASE op = "clear"
  BY <1>1, <1>7, ClearSound DEF Does, Clear
<1>8. CASE op = "goto"
  BY <1>1, <1>8, GotoSound DEF Does, GotoMissionItem
<1>9. CASE op \in {"hold", "rtl"}
  BY <1>1, <1>9, ReleaseStep DEF Does
<1> QED
  BY <1>2, <1>3, <1>4, <1>5, <1>6, <1>7, <1>8, <1>9 DEF AllOps

LEMMA AnsweredStep == ASSUME Sound(mission), NEW ok, Answered(ok) PROVE Sound(mission')
BY FailSound DEF Answered, FailAndHold

LEMMA CheckStep == ASSUME Sound(mission), CheckWaypoint PROVE Sound(mission')
<1>0. mission.running
  BY DEF CheckWaypoint
<1>1. CASE HandOver \/ mission' = FinishMission(mission)
  BY <1>0, <1>1, FinishSound DEF HandOver
<1>2. CASE FlyLeg
  BY <1>0, <1>2, FailSound, EngageSound, ReachSound DEF FlyLeg, FailAndHold
<1> QED
  BY <1>1, <1>2 DEF CheckWaypoint

LEMMA CoreKeeps == ASSUME Sound(mission), CoreStep PROVE Sound(mission')
<1>1. CASE RunLater \/ HeartbeatStale
  BY <1>1 DEF RunLater, HeartbeatStale
<1>2. CASE Ack \/ NoAck
  BY <1>2, AnsweredStep DEF Ack, NoAck, Unanswered
<1>3. CASE CheckWaypoint
  BY <1>3, CheckStep
<1>4. CASE OffboardGuard
  BY <1>4, FailSound DEF OffboardGuard
<1>5. ASSUME NEW late \in BOOLEAN, NEW stuck \in BOOLEAN, NEW idle \in BOOLEAN,
             PostFlightCheck(late, stuck, idle)
      PROVE Sound(mission')
  BY <1>5, FailSound DEF PostFlightCheck
<1> QED
  BY <1>1, <1>2, <1>3, <1>4, <1>5 DEF CoreStep, ByCore

LEMMA Kept == ASSUME Sound(mission), [Next]_vars PROVE Sound(mission')
<1>1. CASE Service
  BY <1>1, ServiceStep
<1>2. CASE CoreStep
  BY <1>2, CoreKeeps
<1>3. CASE ReceiveStatus
  BY <1>3, StatusSound DEF ReceiveStatus
<1>4. CASE CoreRestarts
  BY <1>4, NothingYet DEF CoreRestarts
<1>5. CASE SeeNav \/ PatrolStep \/ Px4Takes \/ Failsafe \/ OffboardLost \/ Lands \/ Fault \/ NodeStarts
  BY <1>5 DEF SeeNav, PatrolStep, Px4Takes, Failsafe, OffboardLost, Lands, Fault, NodeStarts, core
<1>6. CASE UNCHANGED vars
  BY <1>6 DEF vars, core
<1> QED
  BY <1>1, <1>2, <1>3, <1>4, <1>5, <1>6 DEF Next

(* A mission is in one phase, whatever the interleaving of services, late  *)
(* answers, statuses, timers and restarts (drone_core's mission handlers). *)
THEOREM InOnePhase == Spec => []OnePhase
<1>1. Init => Sound(mission)
  BY NothingYet DEF Init
<1>2. Sound(mission) /\ [Next]_vars => Sound(mission)'
  BY Kept
<1>3. Sound(mission) => OnePhase
  BY DEF Sound, Flags, Phased, OnePhase
<1> QED
  BY <1>1, <1>2, <1>3, PTL DEF Spec

-----------------------------------------------------------------------------
(* NothingSkipped.  While drone_core has not restarted, whatever tells the *)
(* progress of the plan it sent last (the latched plan, drone_patrol, each *)
(* status on its way) is behind no item that was not covered; plans and    *)
(* missions are numbered upwards, so a new one is nobody's yet.            *)

Typed == /\ latched \in Plans /\ progress \in Progresses /\ status \in Seq(Statuses)
         /\ cause \in Reasons /\ charge \in BOOLEAN /\ epoch \in Nat

Numbered(m) == /\ m.item \in Nat /\ m.id \in Nat /\ m.seq \in Nat /\ m.next \in Nat /\ m.id < m.next
               /\ m.valid => m.id > 0
               /\ m.delegated => m.seq > 0
               /\ m.route \in Seq(Commands)

(* What is said of a plan's progress, of mission m with c covered.         *)
Numbers(m, id, seq) == seq <= m.seq /\ id < m.next /\ (seq > 0 => id > 0)
Ours(m, id, seq) == m.delegated /\ id = m.id /\ seq = m.seq
Sane(m, c, id, seq, item) == Numbers(m, id, seq) /\ (Ours(m, id, seq) => 0 .. item - 1 \subseteq c)

LatchedSane == Sane(mission, covered, latched.id, latched.seq, latched.start) /\ latched.epoch = 0
ProgressSane == Sane(mission, covered, progress.plan.id, progress.plan.seq, progress.item) /\ progress.plan.epoch = 0
StatusSane == \A i \in 1 .. Len(status) : Sane(mission, covered, status[i].id, status[i].seq, status[i].item)
ItemCovered == 0 .. mission.item - 1 \subseteq covered
AllSane == LatchedSane /\ ProgressSane /\ StatusSane /\ ItemCovered

Good(m) == Shaped(m) /\ Flags(m) /\ Numbered(m)

IInv == /\ Good(mission) /\ Typed
        /\ epoch = 0 => AllSane

-----------------------------------------------------------------------------
(* drone_patrol's functions keep the plan and the item.                    *)

Same(q, p) == q \in Progresses /\ q.plan = p.plan /\ q.item = p.item

LEMMA FailSame == ASSUME NEW p \in Progresses PROVE Same(FailPlan(p), p)
BY DEF Same, FailPlan, Progresses, States, Reasons

LEMMA HoldSame == ASSUME NEW p \in Progresses PROVE Same(HoldOn(p), p)
BY DEF Same, HoldOn, Progresses, States, Reasons

LEMMA StepSame == ASSUME NEW p \in Progresses PROVE Same(StepFailed(p), p)
<1>1. Same(IF p.failed THEN p ELSE FailPlan(p), p)
  BY FailSame DEF Same
<1> QED
  BY <1>1, HoldSame DEF StepFailed, Same

LEMMA ActivateSame == ASSUME NEW p \in Progresses, NEW landed \in BOOLEAN PROVE Same(OnActivate(p, landed), p)
<1>1. CASE MayFly(p, landed)
  BY <1>1 DEF OnActivate, Same, Progresses, States
<1>2. CASE ~MayFly(p, landed)
  <2>1. Same(HoldOn(p), p) /\ Same(HoldOn(FailPlan(p)), p)
    BY HoldSame, FailSame DEF Same
  <2> QED
    BY <1>2, <2>1 DEF OnActivate
<1> QED
  BY <1>1, <1>2

LEMMA DeactivateSame == ASSUME NEW p \in Progresses, NEW why \in Reasons PROVE Same(OnDeactivate(p, why), p)
BY DEF Same, OnDeactivate, Progresses, States

LEMMA FinishSame == ASSUME NEW p \in Progresses PROVE Same(FinishPlan(p), p)
BY DEF Same, FinishPlan, Progresses, States

(* A published status says of the plan what its progress says.             *)
LEMMA PublishedTyped ==
  ASSUME Typed, NEW p \in Progresses, Publish(p)
  PROVE status' \in Seq(Statuses)
<1> DEFINE s == StatusOf(p, node = "registered")
           kept == IF Len(status) < Depth THEN status ELSE Tail(status)
<1>1. s \in Statuses
  BY DEF StatusOf, Progresses, Plans, Statuses
<1>2. kept \in Seq(Statuses)
  <2>1. status # <<>> \/ Len(status) < Depth
    BY ConstantsAssumption DEF Typed
  <2> QED
    BY <2>1 DEF Typed
<1> QED
  BY <1>1, <1>2 DEF Publish

LEMMA SaneGrows ==
  ASSUME NEW m, NEW c, NEW d, c \subseteq d, NEW id, NEW seq, NEW item, Sane(m, c, id, seq, item)
  PROVE Sane(m, d, id, seq, item)
BY DEF Sane, Numbers, Ours

(* The queue holds the new status and some of those it held.               *)
LEMMA PublishedFrom ==
  ASSUME Typed, NEW p \in Progresses, Publish(p), NEW i \in 1 .. Len(status')
  PROVE \/ status'[i] = StatusOf(p, node = "registered")
        \/ \E j \in 1 .. Len(status) : status'[i] = status[j]
<1> DEFINE s == StatusOf(p, node = "registered")
           kept == IF Len(status) < Depth THEN status ELSE Tail(status)
<1>1. /\ kept \in Seq(Statuses) /\ s \in Statuses
      /\ \A k \in 1 .. Len(kept) : \E j \in 1 .. Len(status) : kept[k] = status[j]
  <2>1. status # <<>> \/ Len(status) < Depth
    BY ConstantsAssumption DEF Typed
  <2>2. CASE Len(status) < Depth
    BY <2>2 DEF Typed, StatusOf, Progresses, Plans, Statuses
  <2>3. CASE ~(Len(status) < Depth)
    <3>1. kept = Tail(status) /\ kept \in Seq(Statuses) /\ Len(kept) = Len(status) - 1
      BY <2>1, <2>3 DEF Typed
    <3>2. ASSUME NEW k \in 1 .. Len(kept)
          PROVE k + 1 \in 1 .. Len(status) /\ kept[k] = status[k + 1]
      BY <2>1, <3>1 DEF Typed
    <3> QED
      BY <3>1, <3>2 DEF StatusOf, Progresses, Plans, Statuses
  <2> QED
    BY <2>2, <2>3
<1>2. status' = Append(kept, s)
  BY DEF Publish
<1> HIDE DEF kept, s
<1>3. CASE i = Len(kept) + 1
  BY <1>1, <1>2, <1>3 DEF s
<1>4. CASE i # Len(kept) + 1
  <2>1. i \in 1 .. Len(kept) /\ status'[i] = kept[i]
    BY <1>1, <1>2, <1>4
  <2> QED
    BY <1>1, <2>1
<1> QED
  BY <1>3, <1>4

LEMMA PublishedSane ==
  ASSUME Typed, NEW p \in Progresses, Publish(p), UNCHANGED mission, covered \subseteq covered',
         StatusSane, Sane(mission', covered', p.plan.id, p.plan.seq, p.item)
  PROVE StatusSane'
<1> SUFFICES ASSUME NEW i \in 1 .. Len(status')
             PROVE Sane(mission', covered', status'[i].id, status'[i].seq, status'[i].item)
  BY DEF StatusSane
<1>1. CASE status'[i] = StatusOf(p, node = "registered")
  BY <1>1 DEF StatusOf
<1>2. ASSUME NEW j \in 1 .. Len(status), status'[i] = status[j]
      PROVE Sane(mission', covered', status'[i].id, status'[i].seq, status'[i].item)
  BY <1>2, SaneGrows DEF StatusSane
<1> QED
  BY <1>1, <1>2, PublishedFrom

(* A step of drone_patrol: what it publishes is its plan and item.         *)
LEMMA PatrolKeeps ==
  ASSUME IInv, UNCHANGED <<mission, latched, epoch>>, covered \subseteq covered',
         cause' \in Reasons, charge' \in BOOLEAN, progress' \in Progresses,
         epoch = 0 => ProgressSane',
         \/ UNCHANGED status
         \/ \E q : Same(q, progress') /\ Publish(q)
  PROVE IInv'
<1>1. Typed /\ Typed'
  BY PublishedTyped DEF IInv, Typed, Same
<1>2. ASSUME epoch = 0
      PROVE AllSane'
  <2>1. AllSane
    BY <1>2 DEF IInv
  <2>2. LatchedSane' /\ ItemCovered' /\ ProgressSane'
    BY <1>2, <2>1, SaneGrows DEF AllSane, LatchedSane, ItemCovered
  <2>3. CASE UNCHANGED status
    <3>1. ASSUME NEW i \in 1 .. Len(status)
          PROVE Sane(mission', covered', status[i].id, status[i].seq, status[i].item)
      BY <2>1, <2>3, SaneGrows DEF AllSane, StatusSane
    <3> QED
      BY <2>2, <2>3, <3>1 DEF AllSane, StatusSane
  <2>4. ASSUME NEW q, Same(q, progress'), Publish(q)
        PROVE AllSane'
    <3>1. Sane(mission', covered', q.plan.id, q.plan.seq, q.item)
      BY <2>2, <2>4 DEF ProgressSane, Same
    <3>2. StatusSane'
      BY <1>1, <2>1, <2>4, <3>1, PublishedSane DEF AllSane, Same
    <3> QED
      BY <2>2, <3>2 DEF AllSane
  <2> QED
    BY <2>3, <2>4
<1> QED
  BY <1>1, <1>2 DEF IInv

LEMMA SameKeeps ==
  ASSUME IInv, UNCHANGED <<mission, latched, epoch, covered>>,
         cause' \in Reasons, charge' \in BOOLEAN, Same(progress', progress),
         \/ UNCHANGED status
         \/ \E q : Same(q, progress) /\ Publish(q)
  PROVE IInv'
<1>1. epoch = 0 => ProgressSane'
  BY SaneGrows DEF IInv, AllSane, ProgressSane, Same
<1>2. \A q : Same(q, progress) => Same(q, progress')
  BY DEF Same
<1> QED
  BY <1>1, <1>2, PatrolKeeps DEF Same

LEMMA NothingTyped == NoPlan \in Plans /\ NoProgress \in Progresses
BY DEF NoPlan, NoProgress, Plans, Progresses, States, Reasons, Commands

LEMMA NoProgressSane ==
  ASSUME IInv
  PROVE \A c : Sane(mission, c, NoProgress.plan.id, NoProgress.plan.seq, NoProgress.item)
BY NothingTyped DEF NoPlan, NoProgress, Sane, Numbers, Ours, IInv, Good, Numbered, Flags

-----------------------------------------------------------------------------
(* The steps of drone_patrol and PX4.                                      *)

LEMMA ReadPlanKeeps == ASSUME IInv, ReadPlan, UNCHANGED <<mission, epoch>> PROVE IInv'
<1>1. progress' = OnPlan(progress, latched, charge) /\ latched \in Plans /\ charge \in BOOLEAN
  BY DEF ReadPlan, IInv, Typed
<1>2. progress' \in Progresses /\ progress'.plan = latched /\ progress'.item = latched.start
  BY <1>1 DEF OnPlan, Progresses, Plans, States, Reasons
<1>3. epoch = 0 => ProgressSane'
  BY <1>2 DEF ReadPlan, IInv, AllSane, LatchedSane, ProgressSane
<1>4. Same(progress', progress') /\ Publish(progress')
  BY <1>2 DEF ReadPlan, Same
<1> QED
  BY <1>2, <1>3, <1>4, PatrolKeeps DEF ReadPlan, IInv, Typed, px4

LEMMA ReachKeeps ==
  ASSUME IInv, ReachPoint, UNCHANGED <<mission, epoch, latched, cause, charge>>
  PROVE IInv'
<1>1. /\ progress \in Progresses
      /\ progress' = ReachItem(progress)
  BY DEF ReachPoint, IInv, Typed
<1>2. progress' \in Progresses /\ progress'.plan = progress.plan /\ progress'.item = progress.item + 1
  BY <1>1 DEF ReachItem, Progresses
<1>3. covered \subseteq covered' /\ (OfThisRun(progress.plan) => progress.item \in covered')
  BY DEF ReachPoint
<1>4. epoch = 0 => ProgressSane'
  <2>1. SUFFICES ASSUME epoch = 0 PROVE ProgressSane'
    OBVIOUS
  <2>2. ProgressSane
    BY <2>1 DEF IInv, AllSane
  <2>3. Ours(mission, progress.plan.id, progress.plan.seq) => OfThisRun(progress.plan)
    BY <2>1, <2>2 DEF Ours, OfThisRun, ProgressSane
  <2>4. progress.item \in Nat
    BY <1>1 DEF Progresses
  <2> QED
    BY <1>2, <1>3, <2>2, <2>3, <2>4 DEF ProgressSane, Sane
<1>5. Same(progress', progress') /\ Publish(progress')
  BY <1>2 DEF ReachPoint, Same
<1> QED
  BY <1>2, <1>3, <1>4, <1>5, PatrolKeeps DEF IInv, Typed

LEMMA FlyKeeps == ASSUME IInv, Fly, UNCHANGED <<mission, epoch>> PROVE IInv'
<1>1. progress \in Progresses /\ cause' \in Reasons /\ charge' \in BOOLEAN /\ UNCHANGED <<latched, cause, charge>>
  BY DEF Fly, IInv, Typed, px4
<1>2. CASE ReachPoint
  BY <1>1, <1>2, ReachKeeps
<1>3. CASE NothingToFly \/ LegFails
  <2>1. Same(progress, progress) /\ Same(FailPlan(progress), progress)
    BY <1>1, FailSame DEF Same
  <2> QED
    BY <1>1, <1>3, <2>1, SameKeeps DEF NothingToFly, LegFails
<1> QED
  BY <1>2, <1>3 DEF Fly

LEMMA NodeKeeps ==
  ASSUME IInv, UNCHANGED <<mission, epoch>>,
         Heartbeat \/ Register \/ Activate \/ Deactivate \/ TakenOff \/ Completed
  PROVE IInv'
<1>1. /\ progress \in Progresses /\ cause \in Reasons /\ charge \in BOOLEAN
      /\ Same(progress, progress)
  BY DEF IInv, Typed, Same
<1>2. CASE Heartbeat \/ Register
  BY <1>1, <1>2, SameKeeps DEF Heartbeat, Register, patrol, px4, topics
<1>3. CASE Activate
  <2>1. Same(progress', progress)
    BY <1>1, <1>3, ActivateSame DEF Activate
  <2> QED
    BY <1>1, <1>3, <2>1, SameKeeps DEF Activate
<1>4. CASE Deactivate
  <2>1. Same(progress', progress)
    BY <1>1, <1>4, DeactivateSame DEF Deactivate
  <2> QED
    BY <1>1, <1>4, <2>1, SameKeeps DEF Deactivate, px4, topics
<1>5. CASE TakenOff
  <2>1. Same([progress EXCEPT !.state = "PATROL"], progress) /\ Same(StepFailed(progress), progress)
        /\ Same(FailPlan(progress), progress)
    BY <1>1, StepSame, FailSame DEF Same, Progresses, States
  <2> QED
    BY <1>1, <1>5, <2>1, SameKeeps DEF TakenOff
<1>6. CASE Completed
  <2>1. Same(FinishPlan(progress), progress) /\ Same(StepFailed(progress), progress)
        /\ Same(FailPlan(progress), progress)
    BY <1>1, FinishSame, StepSame, FailSame
  <2> QED
    BY <1>1, <1>6, <2>1, SameKeeps DEF Completed
<1> QED
  BY <1>2, <1>3, <1>4, <1>5, <1>6

LEMMA PatrolStepKeeps == ASSUME IInv, PatrolStep PROVE IInv'
BY ReadPlanKeeps, FlyKeeps, NodeKeeps DEF PatrolStep, core

LEMMA OutsideKeeps ==
  ASSUME IInv, Px4Takes \/ Failsafe \/ OffboardLost \/ Lands \/ NodeStarts \/ SeeNav \/ UNCHANGED vars
  PROVE IInv'
<1>1. Same(progress, progress) /\ cause \in Reasons /\ charge \in BOOLEAN
  BY DEF IInv, Typed, Same
<1>2. cause' \in Reasons
  BY <1>1 DEF Px4Takes, Accepts, Failsafe, OffboardLost, Lands, NodeStarts, SeeNav, Leave, Select, px4,
              vars, Reasons
<1>3. UNCHANGED <<mission, latched, status, progress, charge, covered, epoch>>
  BY DEF Px4Takes, Failsafe, OffboardLost, Lands, NodeStarts, SeeNav, vars, core, topics, patrol, history
<1> QED
  BY <1>1, <1>2, <1>3, SameKeeps

LEMMA FaultKeeps == ASSUME IInv, Fault PROVE IInv'
<1>1. UNCHANGED <<mission, latched, status, covered, epoch>>
  BY DEF Fault, core, history
<1>2. CASE ModeFault
  <2>1. Same(progress', progress) /\ cause' \in Reasons /\ charge' \in BOOLEAN
    BY <1>2 DEF ModeFault, Select, Leave, patrol, IInv, Typed, Same, Reasons
  <2> QED
    BY <1>1, <2>1, SameKeeps
<1>3. CASE PatrolDies
  <2>1. progress' = NoProgress /\ charge' \in BOOLEAN /\ cause' \in Reasons
    BY <1>3 DEF PatrolDies, px4, IInv, Typed
  <2>2. ProgressSane'
    BY <1>1, <2>1, NoProgressSane DEF ProgressSane, NoProgress, NoPlan
  <2> QED
    BY <1>1, <2>1, <2>2, NothingTyped, PatrolKeeps
<1> QED
  BY <1>2, <1>3 DEF Fault

-----------------------------------------------------------------------------
(* The steps of drone_core: what its methods do to the numbers.            *)

Moves(n, m) == /\ Good(n) /\ n.seq = m.seq /\ n.next >= m.next
               /\ n.delegated => m.delegated /\ n.id \in {m.id, 0}
Calm(n, m) == Moves(n, m) /\ n.item = m.item

LEMMA CalmMethods ==
  ASSUME NEW m, Good(m)
  PROVE /\ Calm(m, m) /\ Calm(PauseMission(m), m) /\ Calm(StopMission(m), m) /\ Calm(FailMission(m), m)
        /\ Calm(FinishMission(m), m) /\ Calm(ResumeMission(m), m)
        /\ Calm([m EXCEPT !.engaged = TRUE], m)
<1> USE DEF Good, Shaped, Flags, Numbered, Calm, Moves
<1>1. Calm(m, m) /\ Calm([m EXCEPT !.engaged = TRUE], m)
  OBVIOUS
<1>2. Calm(PauseMission(m), m)
  <2>1. CASE m.running
    BY <2>1 DEF PauseMission
  <2>2. CASE ~(m.running)
    BY <1>1, <2>2 DEF PauseMission
  <2> QED
    BY <2>1, <2>2
<1>3. Calm(StopMission(m), m)
  <2>1. CASE m.running \/ m.valid
    <3> DEFINE n == [m EXCEPT !.running = FALSE, !.finished = TRUE, !.paused = FALSE, !.timer = FALSE]
    <3>1. Shaped(n) /\ Flags(n)
      OBVIOUS
    <3>2. /\ n.item = m.item /\ n.id = m.id /\ n.seq = m.seq /\ n.next = m.next
          /\ n.valid = m.valid /\ n.delegated = m.delegated /\ n.route = m.route
      OBVIOUS
    <3> HIDE DEF n
    <3>3. Calm(n, m)
      BY <3>1, <3>2
    <3> QED
      BY <2>1, <3>3 DEF StopMission, n
  <2>2. CASE ~(m.running \/ m.valid)
    BY <1>1, <2>2 DEF StopMission
  <2> QED
    BY <2>1, <2>2
<1>4. Calm(FailMission(m), m)
  <2>1. CASE m.running
    BY <2>1 DEF FailMission
  <2>2. CASE ~(m.running)
    BY <1>1, <2>2 DEF FailMission
  <2> QED
    BY <2>1, <2>2
<1>5. Calm(FinishMission(m), m)
  BY DEF FinishMission
<1>6. Calm(ResumeMission(m), m)
  BY DEF ResumeMission, Runs
<1> QED
  BY <1>1, <1>2, <1>3, <1>4, <1>5, <1>6

LEMMA CalmAfter ==
  ASSUME NEW m, Good(m), NEW n, Moves(n, m), NEW k, Calm(k, n)
  PROVE Moves(k, m) /\ k.item = n.item
BY DEF Moves, Calm, Good, Numbered

LEMMA UploadMoves ==
  ASSUME NEW m, Good(m), NEW route \in Seq(Commands)
  PROVE Moves(Upload(m, route), m) /\ Upload(m, route).item = 0 /\ ~Upload(m, route).delegated
<1> DEFINE n == Upload(m, route)
<1>1. Shaped(n) /\ Flags(n) /\ n.item = 0 /\ ~n.delegated /\ n.seq = m.seq
  BY DEF Good, Shaped, Flags, Upload
<1>2. n.id = m.next /\ n.next = m.next + 1 /\ n.route = route
  BY DEF Good, Shaped, Upload
<1> QED
  BY <1>1, <1>2 DEF Good, Numbered, Moves

LEMMA StartMoves ==
  ASSUME NEW m, Good(m)
  PROVE Moves(StartMission(m), m) /\ StartMission(m).item = 0 /\ ~StartMission(m).delegated
BY DEF Good, Shaped, Flags, Numbered, Moves, StartMission, Runs

LEMMA ClearMoves ==
  ASSUME NEW m, Good(m)
  PROVE Moves(ClearMission(m), m) /\ ClearMission(m).item = 0
BY DEF Good, Shaped, Flags, Numbered, Moves, ClearMission, Commands

LEMMA GotoMoves ==
  ASSUME NEW m, Good(m), NEW i \in Nat
  PROVE Moves(GotoItem(m, i), m) /\ GotoItem(m, i).item \in {m.item, i}
BY DEF Good, Shaped, Flags, Numbered, Moves, GotoItem

LEMMA ReachMoves ==
  ASSUME NEW m, Good(m)
  PROVE Moves(Reach(m), m) /\ Reach(m).item = m.item + 1
<1> DEFINE next == [m EXCEPT !.item = @ + 1, !.engaged = TRUE]
<1>1. Moves(next, m) /\ next.item = m.item + 1
  BY DEF Good, Shaped, Flags, Numbered, Moves
<1> HIDE DEF next
<1>2. Calm(FinishMission(next), next)
  BY <1>1, CalmMethods DEF Moves
<1>3. Moves(FinishMission(next), m) /\ FinishMission(next).item = m.item + 1
  BY <1>1, <1>2, CalmAfter
<1> QED
  BY <1>1, <1>3 DEF Reach, next

(* Only a status of the plan sent last moves the mission on.               *)
LEMMA StatusMoves ==
  ASSUME NEW m, Good(m), NEW s \in Statuses, NEW inHold
  PROVE /\ Moves(ApplyStatus(m, s, inHold), m)
        /\ \/ ApplyStatus(m, s, inHold).item = m.item
           \/ Ours(m, s.id, s.seq) /\ ApplyStatus(m, s, inHold).item = s.item
<1> DEFINE n == Advance(m, s)
<1>1. CASE ~IsForUs(m, s)
  BY <1>1, CalmMethods DEF ApplyStatus, Calm
<1>2. CASE IsForUs(m, s)
  <2>1. Moves(n, m) /\ n.item \in {m.item, s.item}
    BY <1>2 DEF Good, Shaped, Flags, Numbered, Moves, Advance, Statuses
  <2>2. Ours(m, s.id, s.seq)
    BY <1>2 DEF Ours, IsForUs
  <2> HIDE DEF n
  <2> DEFINE Result(r) == Moves(r, m) /\ r.item = n.item
  <2>3. Result(n)
    BY <2>1
  <2>4. Result(FailMission(n))
    BY <2>1, CalmMethods, CalmAfter DEF Moves
  <2>5. Result([n EXCEPT !.running = FALSE, !.finished = TRUE])
    BY <2>1 DEF Moves, Good, Shaped, Flags, Numbered
  <2>6. Result([n EXCEPT !.running = FALSE, !.paused = TRUE])
    BY <2>1 DEF Moves, Good, Shaped, Flags, Numbered
  <2>7. ApplyStatus(m, s, inHold) \in {n, FailMission(n), [n EXCEPT !.running = FALSE, !.finished = TRUE],
                                      [n EXCEPT !.running = FALSE, !.paused = TRUE]}
    BY <1>2 DEF ApplyStatus, n
  <2>8. Result(ApplyStatus(m, s, inHold))
    BY <2>3, <2>4, <2>5, <2>6, <2>7
  <2> QED
    BY <2>1, <2>2, <2>8
<1> QED
  BY <1>1, <1>2

LEMMA SaneMoves ==
  ASSUME NEW m, NEW n, Good(m), Moves(n, m), NEW c, NEW d, n.delegated => c \subseteq d,
         NEW id \in Nat, NEW seq \in Nat, NEW item, Sane(m, c, id, seq, item)
  PROVE Sane(n, d, id, seq, item)
BY DEF Sane, Numbers, Ours, Moves, Good, Numbered

(* A step that moves the mission and leaves plan, patrol and status alone. *)
LEMMA MissionKeeps ==
  ASSUME IInv, UNCHANGED <<latched, progress, status, charge, cause, epoch>>,
         Moves(mission', mission), mission'.delegated => covered \subseteq covered',
         epoch = 0 => ItemCovered'
  PROVE IInv'
<1>1. Good(mission) /\ Typed /\ Typed' /\ Good(mission')
  BY DEF IInv, Typed, Moves
<1>2. ASSUME epoch = 0
      PROVE AllSane'
  <2>1. AllSane
    BY <1>2 DEF IInv
  <2>2. LatchedSane'
    BY <1>1, <2>1, SaneMoves DEF AllSane, LatchedSane, Typed, Plans
  <2>3. ProgressSane'
    BY <1>1, <2>1, SaneMoves DEF AllSane, ProgressSane, Typed, Plans, Progresses
  <2>4. StatusSane'
    <3>1. ASSUME NEW i \in 1 .. Len(status)
          PROVE Sane(mission', covered', status[i].id, status[i].seq, status[i].item)
      <4>1. status[i] \in Statuses
        BY <1>1 DEF Typed
      <4> QED
        BY <1>1, <2>1, <4>1, SaneMoves DEF AllSane, StatusSane, Statuses
    <3> QED
      BY <3>1 DEF StatusSane
  <2> QED
    BY <1>2, <2>2, <2>3, <2>4 DEF AllSane
<1> QED
  BY <1>1, <1>2 DEF IInv

LEMMA CalmKeeps ==
  ASSUME IInv, UNCHANGED <<latched, progress, status, charge, cause, epoch, covered>>,
         Calm(mission', mission)
  PROVE IInv'
BY MissionKeeps DEF Calm, IInv, AllSane, ItemCovered

LEMMA UploadKeeps ==
  ASSUME IInv, UploadMission, UNCHANGED <<progress, status, charge, cause, epoch>>
  PROVE IInv'
<1>1. PICK route \in Routes : mission' = Upload(mission, route)
  BY DEF UploadMission
<1>2. route \in Seq(Commands) /\ Good(mission)
  BY ConstantsAssumption DEF IInv
<1>3. Moves(mission', mission) /\ mission'.item = 0 /\ ~mission'.delegated
  BY <1>1, <1>2, UploadMoves
<1> QED
  BY <1>3, MissionKeeps DEF UploadMission, ItemCovered

(* A new plan has a number nobody has told of.                             *)
LEMMA DelegateKeeps ==
  ASSUME IInv, NEW resume \in BOOLEAN, StartPatrol(resume), UNCHANGED <<progress, status, charge, cause, epoch>>
  PROVE IInv'
<1> DEFINE m == mission
           n == StartDelegated(m, resume)
<1>1. Good(m) /\ Typed /\ MayDelegate(m, resume) /\ mission' = n /\ latched' = Plan(n)
  BY DEF IInv, StartPatrol
<1>2. /\ Good(n) /\ n.seq = m.seq + 1 /\ n.next = m.next /\ n.id = m.id /\ n.id > 0
      /\ n.item = FirstItem(m, resume)
  <2>1. Shaped(n) /\ Flags(n)
    BY <1>1 DEF Good, Shaped, Flags, StartDelegated, Runs
  <2>2. /\ n.seq = m.seq + 1 /\ n.next = m.next /\ n.id = m.id /\ n.route = m.route
        /\ n.valid = m.valid /\ n.item = FirstItem(m, resume)
    BY <1>1 DEF Good, Shaped, StartDelegated, Runs
  <2>3. n.item \in Nat
    BY <1>1, <2>2 DEF FirstItem, Good, Numbered
  <2> QED
    BY <1>1, <2>1, <2>2, <2>3 DEF MayDelegate, Good, Numbered
<1> HIDE DEF n
<1>3. latched' \in Plans /\ latched'.id = n.id /\ latched'.seq = n.seq /\ latched'.start = n.item
      /\ latched'.epoch = epoch
  BY <1>1, <1>2 DEF Plan, Plans, Good, Numbered, Typed
<1>4. Typed'
  BY <1>1, <1>3 DEF Typed
<1>5. ASSUME epoch = 0
      PROVE AllSane'
  <2>1. AllSane
    BY <1>5 DEF IInv
  <2>2. ItemCovered'
    BY <1>1, <1>2, <2>1 DEF StartPatrol, AllSane, ItemCovered, FirstItem
  <2>3. LatchedSane'
    BY <1>1, <1>2, <1>3, <1>5, <2>2 DEF LatchedSane, ItemCovered, Sane, Numbers, Good, Numbered
  <2>4. ASSUME NEW id \in Nat, NEW seq \in Nat, NEW item, Sane(m, covered, id, seq, item)
        PROVE Sane(mission', covered', id, seq, item)
    BY <1>1, <1>2, <2>4 DEF Sane, Numbers, Ours, Good, Numbered
  <2>5. ProgressSane'
    BY <1>1, <2>1, <2>4 DEF AllSane, ProgressSane, Typed, Plans, Progresses
  <2>6. StatusSane'
    <3>1. ASSUME NEW i \in 1 .. Len(status)
          PROVE Sane(mission', covered', status[i].id, status[i].seq, status[i].item)
      <4>1. status[i] \in Statuses
        BY <1>1 DEF Typed
      <4> QED
        BY <2>1, <2>4, <4>1 DEF AllSane, StatusSane, Statuses
    <3> QED
      BY <3>1 DEF StatusSane
  <2> QED
    BY <1>5, <2>2, <2>3, <2>5, <2>6 DEF AllSane
<1> QED
  BY <1>1, <1>2, <1>4, <1>5 DEF IInv

LEMMA OffboardKeeps ==
  ASSUME IInv, NEW resume \in BOOLEAN, StartOffboard(resume),
         UNCHANGED <<progress, status, charge, cause, epoch>>
  PROVE IInv'
<1>1. Good(mission) /\ UNCHANGED latched
  BY DEF IInv, StartOffboard
<1>2. CASE mission' = StartMission(mission) /\ covered' = {}
  BY <1>1, <1>2, StartMoves, MissionKeeps DEF ItemCovered
<1>3. CASE mission' \in {mission, ResumeMission(mission)} /\ UNCHANGED covered
  BY <1>1, <1>3, CalmMethods, CalmKeeps
<1> QED
  BY <1>2, <1>3 DEF StartOffboard

LEMMA ServiceKeeps == ASSUME IInv, Service PROVE IInv'
<1>1. PICK op \in Ops : Does(op)
  BY DEF Service
<1>2. op \in AllOps /\ Good(mission)
  BY ConstantsAssumption DEF IInv
<1>3. UNCHANGED <<progress, status, charge, cause, epoch>>
  BY DEF Service, patrol, px4
<1>4. CASE op = "upload"
  BY <1>1, <1>3, <1>4, UploadKeeps DEF Does
<1>5. CASE op \in {"start", "resume"}
  <2>1. PICK resume \in BOOLEAN : StartPatrol(resume) \/ StartOffboard(resume)
    BY <1>1, <1>5 DEF Does, Start, Resume
  <2> QED
    BY <1>3, <2>1, DelegateKeeps, OffboardKeeps
<1>6. CASE op \in {"pause", "stop", "hold", "rtl"}
  <2>1. mission' \in {mission, PauseMission(mission), StopMission(mission)} /\ UNCHANGED <<latched, covered>>
    BY <1>1, <1>6 DEF Does, Interrupt, Release
  <2> QED
    BY <1>2, <1>3, <2>1, CalmMethods, CalmKeeps
<1>7. CASE op = "clear"
  <2>1. mission' = ClearMission(mission) /\ UNCHANGED <<latched, covered>>
    BY <1>1, <1>7 DEF Does, Clear
  <2> QED
    BY <1>2, <1>3, <2>1, ClearMoves, MissionKeeps DEF ItemCovered
<1>8. CASE op = "goto"
  <2>1. PICK i \in 0 .. Len(mission.route) - 1 :
             mission' = GotoItem(mission, i) /\ covered' = covered \cup 0 .. i - 1 /\ UNCHANGED latched
    BY <1>1, <1>8 DEF Does, GotoMissionItem
  <2>2. i \in Nat
    BY <1>2 DEF Good, Numbered
  <2>3. epoch = 0 => ItemCovered'
    BY <1>2, <2>1, <2>2, GotoMoves DEF ItemCovered, IInv, AllSane
  <2> QED
    BY <1>2, <1>3, <2>1, <2>2, <2>3, GotoMoves, MissionKeeps
<1> QED
  BY <1>2, <1>4, <1>5, <1>6, <1>7, <1>8 DEF AllOps

LEMMA CoreStepKeeps == ASSUME IInv, CoreStep PROVE IInv'
<1>1. UNCHANGED <<latched, progress, status, charge, cause, epoch>> /\ Good(mission)
  BY DEF CoreStep, ByCore, topics, patrol, px4, IInv
<1>2. CASE mission' \in {mission, FailMission(mission), FinishMission(mission), [mission EXCEPT !.engaged = TRUE]}
           /\ UNCHANGED covered
  BY <1>1, <1>2, CalmMethods, CalmKeeps
<1>3. CASE mission' = Reach(mission) /\ covered' = covered \cup {mission.item}
  <2>1. epoch = 0 => ItemCovered'
    BY <1>1, <1>3, ReachMoves DEF ItemCovered, IInv, AllSane, Good, Numbered
  <2> QED
    BY <1>1, <1>3, <2>1, ReachMoves, MissionKeeps
<1>4. CASE RunLater \/ Ack \/ NoAck \/ HeartbeatStale \/ OffboardGuard
  BY <1>2, <1>4 DEF RunLater, Ack, NoAck, Answered, Unanswered, FailAndHold, HeartbeatStale, OffboardGuard
<1>5. CASE CheckWaypoint
  BY <1>2, <1>3, <1>5 DEF CheckWaypoint, HandOver, FlyLeg, FailAndHold
<1>6. CASE \E late, stuck, idle \in BOOLEAN : PostFlightCheck(late, stuck, idle)
  BY <1>2, <1>6 DEF PostFlightCheck
<1> QED
  BY <1>4, <1>5, <1>6 DEF CoreStep, ByCore

LEMMA ReceiveKeeps == ASSUME IInv, ReceiveStatus PROVE IInv'
<1> DEFINE s == Head(status)
<1>1. Good(mission) /\ Typed /\ status # <<>>
  BY DEF IInv, ReceiveStatus
<1>2. s \in Statuses /\ s = status[1] /\ 1 \in 1 .. Len(status)
  BY <1>1 DEF Typed
<1>3. /\ mission' = ApplyStatus(mission, s, seen.nav = "hold") /\ status' = Tail(status)
      /\ UNCHANGED <<latched, progress, charge, cause, epoch, covered>>
  BY DEF ReceiveStatus, patrol, px4, history
<1>4. Tail(status) \in Seq(Statuses) /\ Len(Tail(status)) = Len(status) - 1
      /\ \A i \in 1 .. Len(status) - 1 : Tail(status)[i] = status[i + 1]
  BY <1>1 DEF Typed
<1> HIDE DEF s
<1>5. /\ Moves(mission', mission)
      /\ mission'.item = mission.item \/ (Ours(mission, s.id, s.seq) /\ mission'.item = s.item)
  BY <1>1, <1>2, <1>3, StatusMoves
<1>6. Typed' /\ Good(mission')
  BY <1>1, <1>3, <1>4, <1>5 DEF Typed, Moves
<1>7. ASSUME epoch = 0
      PROVE AllSane'
  <2>1. AllSane
    BY <1>7 DEF IInv
  <2>2. ItemCovered'
    BY <1>2, <1>3, <1>5, <2>1 DEF AllSane, ItemCovered, StatusSane, Sane
  <2>3. LatchedSane' /\ ProgressSane'
    BY <1>1, <1>3, <1>5, <2>1, SaneMoves
       DEF AllSane, LatchedSane, ProgressSane, Typed, Plans, Progresses
  <2>4. ASSUME NEW i \in 1 .. Len(status')
        PROVE Sane(mission', covered', status'[i].id, status'[i].seq, status'[i].item)
    <3>1. i + 1 \in 1 .. Len(status) /\ status'[i] = status[i + 1] /\ status[i + 1] \in Statuses
      BY <1>1, <1>3, <1>4 DEF Typed
    <3> QED
      BY <1>1, <1>3, <1>5, <2>1, <3>1, SaneMoves DEF AllSane, StatusSane, Statuses
  <2> QED
    BY <1>3, <1>7, <2>2, <2>3, <2>4 DEF AllSane, StatusSane
<1> QED
  BY <1>3, <1>6, <1>7 DEF IInv

LEMMA RestartKeeps == ASSUME IInv, CoreRestarts PROVE IInv'
<1>1. Good(mission')
  BY DEF CoreRestarts, NoMission, Good, Shaped, Flags, Numbered, Commands
<1>2. Typed' /\ epoch' # 0
  BY NothingTyped DEF CoreRestarts, IInv, Typed, patrol, px4
<1> QED
  BY <1>1, <1>2 DEF IInv

LEMMA Inductive == Spec => []IInv
<1>1. Init => IInv
  <2> SUFFICES ASSUME Init PROVE IInv
    OBVIOUS
  <2>1. Good(mission) /\ mission = NoMission
    BY DEF Init, NoMission, Good, Shaped, Flags, Numbered, Commands
  <2>2. Typed
    <3>1. latched \in Plans /\ progress \in Progresses
      BY NothingTyped DEF Init
    <3>2. status = <<>> /\ cause = "none" /\ charge = FALSE /\ epoch = 0
      BY DEF Init
    <3>3. <<>> \in Seq(Statuses)
      OBVIOUS
    <3>4. cause \in Reasons /\ charge \in BOOLEAN /\ epoch \in Nat
      BY <3>2 DEF Reasons
    <3> QED
      BY <3>1, <3>2, <3>3, <3>4 DEF Typed
  <2>3. AllSane
    BY DEF Init, AllSane, LatchedSane, ProgressSane, StatusSane, ItemCovered, Sane, Numbers, Ours,
           NoMission, NoPlan, NoProgress
  <2> QED
    BY <2>1, <2>2, <2>3 DEF IInv
<1>2. IInv /\ [Next]_vars => IInv'
  BY ServiceKeeps, CoreStepKeeps, ReceiveKeeps, RestartKeeps, PatrolStepKeeps, OutsideKeeps, FaultKeeps DEF Next
<1> QED
  BY <1>1, <1>2, PTL DEF Spec

(* No item before the one a mission is at was skipped, for every route,    *)
(* queue depth and number of requests, deaths and late or lost statuses of *)
(* drone_patrol (apply_patrol_status and the numbers of plans).            *)
THEOREM SkipsNothing == Spec => []NothingSkipped
<1>1. IInv => NothingSkipped
  BY DEF IInv, AllSane, ItemCovered, NothingSkipped
<1> QED
  BY <1>1, Inductive, PTL

-----------------------------------------------------------------------------
(* TypeOK. A mission's id and plan numbers are bounded by the requests so  *)
(* far, since only an upload and a start take a new one.                   *)

Counted(item, route, id, next, seq, n) == OnRoute(item, route) /\ id < next /\ next <= n + 1 /\ seq <= n
MTyped(m, n) == m \in Missions(Routes, MaxControls) /\ Counted(m.item, m.route, m.id, m.next, m.seq, n)

TInv == TypeOK /\ MTyped(mission, asked)

LEMMA RouteTyped == ASSUME NEW route \in Routes \cup {<<>>} PROVE route \in Seq(Commands) /\ Len(route) \in Nat
<1>1. CASE route \in Routes
  BY <1>1, ConstantsAssumption
<1>2. CASE route = <<>>
  BY <1>2
<1> QED
  BY <1>1, <1>2

LEMMA MoreRequests ==
  ASSUME NEW n \in Nat, NEW m, MTyped(m, n), n < MaxControls
  PROVE MTyped(m, n + 1)
BY DEF MTyped, Missions, Counted

LEMMA StartTyped == ASSUME NEW n \in Nat, NEW m, MTyped(m, n) PROVE MTyped(StartMission(m), n)
<1>0. Len(m.route) \in Nat
  BY RouteTyped DEF MTyped, Counted, OnRoute
<1>1. m \in Missions(Routes, MaxControls)
  BY DEF MTyped
<1> DEFINE q == StartMission(m)
<1>2. q \in Missions(Routes, MaxControls)
  BY <1>1 DEF Missions, StartMission, Runs
<1>3. q.item = 0 /\ q.route = m.route /\ q.id = m.id /\ q.next = m.next /\ q.seq = m.seq
  BY <1>0 DEF MTyped, Missions, StartMission, Runs
<1>4. Counted(0, m.route, m.id, m.next, m.seq, n)
  BY <1>0 DEF MTyped, Missions, Counted, OnRoute
<1> HIDE DEF q
<1>5. MTyped(q, n)
  BY <1>2, <1>3, <1>4 DEF MTyped
<1> QED
  BY <1>5 DEF q

LEMMA ClearTyped == ASSUME NEW n \in Nat, NEW m, MTyped(m, n) PROVE MTyped(ClearMission(m), n)
<1>0. Len(m.route) \in Nat
  BY RouteTyped DEF MTyped, Counted, OnRoute
<1>1. m \in Missions(Routes, MaxControls)
  BY DEF MTyped
<1> DEFINE q == ClearMission(m)
<1>2. 0 \in 0 .. MaxControls
  BY ConstantsAssumption
<1>3. q \in Missions(Routes, MaxControls)
  BY <1>2, <1>1 DEF Missions, ClearMission
<1>4. q.item = 0 /\ q.route = <<>> /\ q.id = 0 /\ q.next = m.next /\ q.seq = m.seq
  BY <1>0 DEF MTyped, Missions, ClearMission
<1>5. Counted(0, <<>>, 0, m.next, m.seq, n)
  BY <1>0, RouteTyped DEF MTyped, Missions, Counted, OnRoute
<1> HIDE DEF q
<1>6. MTyped(q, n)
  BY <1>3, <1>4, <1>5 DEF MTyped
<1> QED
  BY <1>6 DEF q

LEMMA GotoTyped == ASSUME NEW n \in Nat, NEW m, MTyped(m, n), NEW i \in Nat PROVE MTyped(GotoItem(m, i), n)
<1>0. Len(m.route) \in Nat
  BY RouteTyped DEF MTyped, Counted, OnRoute
<1> DEFINE q == GotoItem(m, i)
<1>1. q \in Missions(Routes, MaxControls)
  BY <1>0 DEF MTyped, Missions, GotoItem
<1>2. q.item = (IF m.valid /\ i < Len(m.route) THEN i ELSE m.item) /\ q.route = m.route /\ q.id = m.id /\ q.next = m.next /\ q.seq = m.seq
  BY <1>0 DEF MTyped, Missions, GotoItem
<1>3. Counted(IF m.valid /\ i < Len(m.route) THEN i ELSE m.item, m.route, m.id, m.next, m.seq, n)
  BY <1>0 DEF MTyped, Missions, Counted, OnRoute
<1> HIDE DEF q
<1>4. MTyped(q, n)
  BY <1>1, <1>2, <1>3 DEF MTyped
<1> QED
  BY <1>4 DEF q

LEMMA AdvanceTyped == ASSUME NEW n \in Nat, NEW m, MTyped(m, n), NEW s \in Statuses PROVE MTyped(Advance(m, s), n)
<1>0. Len(m.route) \in Nat
  BY RouteTyped DEF MTyped, Counted, OnRoute
<1> DEFINE q == Advance(m, s)
<1>1. q \in Missions(Routes, MaxControls)
  BY <1>0 DEF MTyped, Missions, Advance, Statuses
<1>2. q.item = (IF s.item <= Len(m.route) THEN s.item ELSE m.item) /\ q.route = m.route /\ q.id = m.id /\ q.next = m.next /\ q.seq = m.seq
  BY <1>0 DEF MTyped, Missions, Advance, Statuses
<1>3. Counted(IF s.item <= Len(m.route) THEN s.item ELSE m.item, m.route, m.id, m.next, m.seq, n)
  BY <1>0 DEF MTyped, Missions, Counted, OnRoute
<1> HIDE DEF q
<1>4. MTyped(q, n)
  BY <1>1, <1>2, <1>3 DEF MTyped
<1> QED
  BY <1>4 DEF q

LEMMA CalmTyped ==
  ASSUME NEW n \in Nat, NEW m, MTyped(m, n)
  PROVE /\ MTyped(PauseMission(m), n) /\ MTyped(StopMission(m), n) /\ MTyped(FailMission(m), n)
        /\ MTyped(FinishMission(m), n) /\ MTyped(ResumeMission(m), n) /\ MTyped([m EXCEPT !.engaged = TRUE], n)
        /\ MTyped([m EXCEPT !.running = FALSE, !.finished = TRUE], n)
        /\ MTyped([m EXCEPT !.running = FALSE, !.paused = TRUE], n)
<1> USE DEF MTyped, Missions
<1>1. MTyped(PauseMission(m), n) /\ MTyped(StopMission(m), n) /\ MTyped(FailMission(m), n)
  BY DEF PauseMission, StopMission, FailMission
<1>2. MTyped(FinishMission(m), n) /\ MTyped(ResumeMission(m), n) /\ MTyped([m EXCEPT !.engaged = TRUE], n)
  BY DEF FinishMission, ResumeMission, Runs
<1>3. /\ MTyped([m EXCEPT !.running = FALSE, !.finished = TRUE], n)
      /\ MTyped([m EXCEPT !.running = FALSE, !.paused = TRUE], n)
  OBVIOUS
<1> QED
  BY <1>1, <1>2, <1>3

LEMMA ReachTyped ==
  ASSUME NEW n \in Nat, NEW m, MTyped(m, n), m.item < Len(m.route)
  PROVE MTyped(Reach(m), n)
<1> DEFINE q == [m EXCEPT !.item = @ + 1, !.engaged = TRUE]
<1>0. Len(m.route) \in Nat
  BY RouteTyped DEF MTyped, Counted, OnRoute
<1>1. m \in Missions(Routes, MaxControls)
  BY DEF MTyped
<1>2. m.item \in Nat /\ m.item + 1 \in Nat
  BY <1>1 DEF Missions
<1>3. q \in Missions(Routes, MaxControls)
  BY <1>1, <1>2 DEF Missions
<1>4. q.item = m.item + 1 /\ q.route = m.route /\ q.id = m.id /\ q.next = m.next /\ q.seq = m.seq
  BY <1>1 DEF Missions
<1>5. Counted(m.item + 1, m.route, m.id, m.next, m.seq, n)
  BY <1>0, <1>1 DEF MTyped, Missions, Counted, OnRoute
<1> HIDE DEF q
<1>6. MTyped(q, n)
  BY <1>3, <1>4, <1>5 DEF MTyped
<1> QED
  BY <1>6, CalmTyped DEF Reach, q

LEMMA StatusTyped ==
  ASSUME NEW n \in Nat, NEW m, MTyped(m, n), NEW s \in Statuses, NEW inHold \in BOOLEAN
  PROVE MTyped(ApplyStatus(m, s, inHold), n)
<1> DEFINE a == Advance(m, s)
<1>1. MTyped(a, n)
  BY AdvanceTyped
<1> HIDE DEF a
<1>2. /\ MTyped(FailMission(a), n) /\ MTyped([a EXCEPT !.running = FALSE, !.finished = TRUE], n)
      /\ MTyped([a EXCEPT !.running = FALSE, !.paused = TRUE], n)
  BY <1>1, CalmTyped
<1> QED
  BY <1>1, <1>2 DEF ApplyStatus, a

LEMMA UploadTyped ==
  ASSUME NEW n \in Nat, n < MaxControls, NEW m, MTyped(m, n), NEW route \in Routes
  PROVE MTyped(Upload(m, route), n + 1)
<1>0. Len(route) \in Nat /\ MaxControls \in Nat
  BY RouteTyped, ConstantsAssumption
<1>1. m.next \in 0 .. MaxControls /\ m.next + 1 \in 1 .. MaxControls + 1
  BY <1>0 DEF MTyped, Missions, Counted
<1>2. m \in Missions(Routes, MaxControls)
  BY DEF MTyped
<1> DEFINE q == Upload(m, route)
<1>3. q \in Missions(Routes, MaxControls)
  BY <1>1, <1>2 DEF Missions, Upload
<1>4. q.item = 0 /\ q.route = route /\ q.id = m.next /\ q.next = m.next + 1 /\ q.seq = m.seq
  BY <1>0 DEF MTyped, Missions, Upload
<1>5. Counted(0, route, m.next, m.next + 1, m.seq, n + 1)
  BY <1>0 DEF MTyped, Missions, Counted, OnRoute
<1> HIDE DEF q
<1>6. MTyped(q, n + 1)
  BY <1>3, <1>4, <1>1, <1>5 DEF MTyped
<1> QED
  BY <1>6 DEF q

LEMMA DelegateTyped ==
  ASSUME NEW n \in Nat, n < MaxControls, NEW m, MTyped(m, n), NEW resume \in BOOLEAN, MayDelegate(m, resume)
  PROVE MTyped(StartDelegated(m, resume), n + 1)
<1>0. Len(m.route) \in Nat /\ MaxControls \in Nat
  BY RouteTyped, ConstantsAssumption DEF MTyped, Counted, OnRoute
<1> DEFINE q == StartDelegated(m, resume)
<1>1. FirstItem(m, resume) \in Nat /\ FirstItem(m, resume) <= Len(m.route)
  BY <1>0 DEF FirstItem, MTyped, Counted, OnRoute, Missions
<1>2. m.seq + 1 \in 0 .. MaxControls
  BY <1>0 DEF MTyped, Missions, Counted
<1>3. q \in Missions(Routes, MaxControls)
  BY <1>1, <1>2 DEF MTyped, Missions, StartDelegated, Runs
<1>4. q.item = FirstItem(m, resume) /\ q.route = m.route /\ q.id = m.id /\ q.next = m.next /\ q.seq = m.seq + 1
  BY DEF MTyped, Missions, StartDelegated, Runs
<1>5. Counted(FirstItem(m, resume), m.route, m.id, m.next, m.seq + 1, n + 1)
  BY <1>0, <1>1 DEF MTyped, Missions, Counted, OnRoute
<1> HIDE DEF q
<1>6. MTyped(q, n + 1)
  BY <1>1, <1>2, <1>3, <1>4, <1>5 DEF MTyped
<1> QED
  BY <1>6 DEF q

LEMMA ServiceMTyped == ASSUME TInv, Service PROVE MTyped(mission', asked')
<1>1. PICK op \in Ops : Does(op)
  BY DEF Service
<1>2. /\ op \in AllOps /\ asked \in Nat /\ asked < MaxControls /\ asked' = asked + 1
      /\ MTyped(mission, asked)
  BY ConstantsAssumption DEF TInv, TypeOK, HistoryTyped, Service
<1>3. CASE op = "upload"
  BY <1>1, <1>2, <1>3, UploadTyped DEF Does, UploadMission
<1>4. ASSUME MTyped(mission', asked) PROVE MTyped(mission', asked')
  BY <1>2, <1>4, MoreRequests
<1>5. CASE op \in {"start", "resume"}
  <2>1. PICK resume \in BOOLEAN : StartPatrol(resume) \/ StartOffboard(resume)
    BY <1>1, <1>5 DEF Does, Start, Resume
  <2>2. CASE StartPatrol(resume)
    BY <1>2, <2>2, DelegateTyped DEF StartPatrol
  <2>3. CASE StartOffboard(resume)
    BY <1>2, <1>4, <2>3, StartTyped, CalmTyped DEF StartOffboard
  <2> QED
    BY <2>1, <2>2, <2>3
<1>6. CASE op \in {"pause", "stop", "hold", "rtl"}
  <2>1. mission' \in {mission, PauseMission(mission), StopMission(mission)}
    BY <1>1, <1>6 DEF Does, Interrupt, Release
  <2> QED
    BY <1>2, <1>4, <2>1, CalmTyped
<1>7. CASE op = "clear"
  BY <1>1, <1>2, <1>4, <1>7, ClearTyped DEF Does, Clear
<1>8. CASE op = "goto"
  <2>1. PICK i \in 0 .. Len(mission.route) - 1 : mission' = GotoItem(mission, i)
    BY <1>1, <1>8 DEF Does, GotoMissionItem
  <2>2. i \in Nat
    BY <1>2, <2>1, RouteTyped DEF MTyped, Counted, OnRoute
  <2> QED
    BY <1>2, <1>4, <2>1, <2>2, GotoTyped
<1> QED
  BY <1>2, <1>3, <1>5, <1>6, <1>7, <1>8 DEF AllOps

LEMMA CoreMTyped == ASSUME TInv, CoreStep PROVE MTyped(mission', asked')
<1>1. MTyped(mission, asked) /\ asked \in Nat /\ UNCHANGED asked
  BY ConstantsAssumption DEF TInv, TypeOK, HistoryTyped, CoreStep, ByCore
<1>2. \/ mission' \in {mission, FailMission(mission), FinishMission(mission), [mission EXCEPT !.engaged = TRUE]}
      \/ mission' = Reach(mission) /\ mission.item < Len(mission.route)
  <2>1. CASE RunLater \/ Ack \/ NoAck \/ HeartbeatStale \/ OffboardGuard
    BY <2>1 DEF RunLater, Ack, NoAck, Answered, Unanswered, FailAndHold, HeartbeatStale, OffboardGuard
  <2>2. CASE CheckWaypoint
    BY <2>2 DEF CheckWaypoint, HandOver, FlyLeg, FailAndHold
  <2>3. CASE \E late, stuck, idle \in BOOLEAN : PostFlightCheck(late, stuck, idle)
    BY <2>3 DEF PostFlightCheck
  <2> QED
    BY <2>1, <2>2, <2>3 DEF CoreStep, ByCore
<1> QED
  BY <1>1, <1>2, CalmTyped, ReachTyped

LEMMA NothingMTyped == ASSUME NEW n \in Nat PROVE MTyped(NoMission, n)
<1>1. <<>> \in Routes \cup {<<>>} /\ 0 <= Len(<<>>) /\ 0 \in 0 .. MaxControls /\ 1 \in 1 .. MaxControls + 1
  BY ConstantsAssumption
<1>2. NoMission \in Missions(Routes, MaxControls)
  BY <1>1 DEF NoMission, Missions
<1>3. Counted(0, <<>>, 0, 1, 0, n)
  BY <1>1 DEF Counted, OnRoute
<1> QED
  BY <1>2, <1>3 DEF MTyped, NoMission

LEMMA MissionStep == ASSUME TInv, [Next]_vars PROVE MTyped(mission', asked') /\ MissionTyped'
<1> SUFFICES MTyped(mission', asked')
  BY DEF MTyped, MissionTyped, Counted
<1>0. MTyped(mission, asked) /\ asked \in Nat
  BY ConstantsAssumption DEF TInv, TypeOK, HistoryTyped
<1>1. CASE Service
  BY <1>1, ServiceMTyped
<1>2. CASE CoreStep
  BY <1>2, CoreMTyped
<1>3. CASE ReceiveStatus
  <2>1. Head(status) \in Statuses
    BY <1>3 DEF ReceiveStatus, TInv, TypeOK, TopicsTyped
  <2> QED
    BY <1>0, <1>3, <2>1, StatusTyped DEF ReceiveStatus, bounds
<1>4. CASE CoreRestarts
  BY <1>0, <1>4, NothingMTyped DEF CoreRestarts
<1>5. CASE SeeNav \/ PatrolStep \/ Px4Takes \/ Failsafe \/ OffboardLost \/ Lands \/ Fault \/ NodeStarts
  BY <1>0, <1>5 DEF SeeNav, PatrolStep, Px4Takes, Failsafe, OffboardLost, Lands, Fault, NodeStarts, core, bounds
<1>6. CASE UNCHANGED vars
  BY <1>0, <1>6 DEF vars, core, bounds
<1> QED
  BY <1>1, <1>2, <1>3, <1>4, <1>5, <1>6 DEF Next

-----------------------------------------------------------------------------
LEMMA Queues ==
  ASSUME NEW s \in Seq(Queued)
  PROVE /\ \A what \in {"hold", "patrol", "arm", "offboard", "rtl", "none"} : Append(s, Command(what)) \in Seq(Queued)
        /\ \A e \in Queued : Append(s, e) \in Seq(Queued)
        /\ s # <<>> => Tail(s) \in Seq(Queued) /\ Head(s) \in Queued
        /\ \A i \in 1 .. Len(s) : s[i] \in Queued /\ RemoveAt(s, i) \in Seq(Queued)
        /\ <<>> \in Seq(Queued)
<1>1. \A what \in {"hold", "patrol", "arm", "offboard", "rtl", "none"} : Command(what) \in Queued
  BY DEF Command, Queued
<1>2. ASSUME NEW i \in 1 .. Len(s) PROVE RemoveAt(s, i) \in Seq(Queued)
  BY DEF RemoveAt
<1> QED
  BY <1>1, <1>2

LEMMA ServiceCTyped == ASSUME TypeOK, Service PROVE CoreTyped'
<1>1. PICK op \in Ops : Does(op)
  BY DEF Service
<1>2. op \in AllOps /\ CoreTyped /\ UNCHANGED <<lastOff, heard, known, answer>>
  BY ConstantsAssumption DEF TypeOK, Service
<1>3. stream' \in BOOLEAN
  BY <1>1, <1>2 DEF Does, AllOps, CoreTyped, UploadMission, Start, Resume, StartPatrol, StartOffboard, Interrupt,
                    Clear, GotoMissionItem, Release
<1>4. later' \in Seq(Queued)
  <2>1. \A what \in {"patrol", "offboard"}, arm \in BOOLEAN : [Command(what) EXCEPT !.arm = arm] \in Queued
    BY DEF Command, Queued
  <2>2. \/ UNCHANGED later
        \/ \E arm \in BOOLEAN : later' = Append(later, [Command("patrol") EXCEPT !.arm = arm])
        \/ later' = Append(later, Command("offboard"))
    BY <1>1, <1>2 DEF Does, AllOps, UploadMission, Start, Resume, StartPatrol, StartOffboard, Interrupt,
                      Clear, GotoMissionItem, Release
  <2> QED
    BY <1>2, <2>1, <2>2, Queues DEF CoreTyped
<1>5. cmds' \in Seq(Queued)
  <2>1. \/ UNCHANGED cmds
        \/ \E what \in {"hold", "rtl", "none"} : cmds' = Append(cmds, Command(what))
    BY <1>1, <1>2 DEF Does, AllOps, UploadMission, Start, Resume, StartPatrol, StartOffboard, Interrupt,
                      Clear, GotoMissionItem, Release
  <2> QED
    BY <1>2, <2>1, Queues DEF CoreTyped
<1> QED
  BY <1>2, <1>3, <1>4, <1>5 DEF CoreTyped

LEMMA AnsweredCTyped ==
  ASSUME TypeOK, cmds # <<>>, NEW ok, Answered(ok)
  PROVE CoreTyped'
<1>1. CoreTyped /\ mission.running \in BOOLEAN /\ UNCHANGED <<lastOff, heard, known, later>> /\ answer' = "none"
  BY DEF TypeOK, MissionTyped, Missions, Answered, link
<1>2. stream' \in BOOLEAN
  BY <1>1 DEF Answered, FailAndHold, CoreTyped
<1>3. Tail(cmds) \in Seq(Queued)
  BY <1>1, Queues DEF CoreTyped
<1>4. cmds' \in {Tail(cmds), Append(Tail(cmds), Command("hold")), Append(Tail(cmds), Command("arm"))}
  BY DEF Answered, FailAndHold
<1>5. cmds' \in Seq(Queued)
  BY <1>3, <1>4, Queues
<1> QED
  BY <1>1, <1>2, <1>5 DEF CoreTyped

LEMMA UnansweredCTyped ==
  ASSUME TypeOK, cmds # <<>>, Unanswered
  PROVE CoreTyped'
<1>1. CoreTyped /\ UNCHANGED <<lastOff, heard, known, later>> /\ stream' = stream
      /\ cmds' = Tail(cmds) /\ answer' = "none"
  BY DEF TypeOK, Unanswered, link
<1>2. cmds' \in Seq(Queued)
  BY <1>1, Queues DEF CoreTyped
<1> QED
  BY <1>1, <1>2 DEF CoreTyped

LEMMA CheckCTyped == ASSUME TypeOK, CheckWaypoint PROVE CoreTyped'
<1>1. CoreTyped /\ UNCHANGED <<lastOff, heard, known, later, answer>>
  BY DEF TypeOK, CheckWaypoint, link
<1>2. stream' \in BOOLEAN
  BY <1>1 DEF CheckWaypoint, HandOver, FlyLeg, FailAndHold, CoreTyped
<1>3. cmds' \in {cmds, Append(cmds, Command("rtl")), Append(cmds, Command("hold"))}
  BY DEF CheckWaypoint, HandOver, FlyLeg, FailAndHold
<1>4. cmds' \in Seq(Queued)
  BY <1>1, <1>3, Queues DEF CoreTyped
<1> QED
  BY <1>1, <1>2, <1>4 DEF CoreTyped

LEMMA CoreCTyped == ASSUME TypeOK, CoreStep PROVE CoreTyped'
<1>1. CoreTyped
  BY DEF TypeOK
<1>2. CASE RunLater
  <2>1. PICK i \in 1 .. Len(later) : later' = RemoveAt(later, i) /\ cmds' \in {cmds, Append(cmds, later[i])}
    BY <1>2 DEF RunLater
  <2>2. later' \in Seq(Queued) /\ cmds' \in Seq(Queued)
    BY <1>1, <2>1, Queues DEF CoreTyped
  <2> QED
    BY <1>1, <1>2, <2>2 DEF CoreTyped, RunLater, link
<1>3. CASE Ack \/ NoAck
  BY <1>3, AnsweredCTyped, UnansweredCTyped DEF Ack, NoAck
<1>4. CASE CheckWaypoint
  BY <1>4, CheckCTyped
<1>5. CASE OffboardGuard
  BY <1>1, <1>5 DEF OffboardGuard, CoreTyped
<1>6. CASE HeartbeatStale
  BY <1>1, <1>6 DEF HeartbeatStale, CoreTyped
<1>7. ASSUME NEW late \in BOOLEAN, NEW stuck \in BOOLEAN, NEW idle \in BOOLEAN,
             PostFlightCheck(late, stuck, idle)
      PROVE CoreTyped'
  <2>1. cmds' \in Seq(Queued)
    BY <1>1, <1>7, Queues DEF PostFlightCheck, CoreTyped
  <2>2. stream' \in BOOLEAN
    BY <1>1, <1>7 DEF PostFlightCheck, CoreTyped
  <2> QED
    BY <1>1, <1>7, <2>1, <2>2 DEF PostFlightCheck, CoreTyped, link
<1> QED
  BY <1>2, <1>3, <1>4, <1>5, <1>6, <1>7 DEF CoreStep, ByCore

LEMMA CoreTypedKept == ASSUME TypeOK, [Next]_vars PROVE CoreTyped'
<1>0. CoreTyped
  BY DEF TypeOK
<1>1. CASE Service \/ CoreStep
  BY <1>1, ServiceCTyped, CoreCTyped
<1>2. CASE ReceiveStatus
  <2>1. Head(status) \in Statuses
    BY <1>2 DEF ReceiveStatus, TypeOK, TopicsTyped
  <2> QED
    BY <1>0, <1>2, <2>1 DEF ReceiveStatus, CoreTyped, Statuses
<1>3. CASE CoreRestarts
  <2>1. <<>> \in Seq(Queued)
    OBVIOUS
  <2> QED
    BY <1>3, <2>1 DEF CoreRestarts, CoreTyped
<1>4. CASE Px4Takes
  BY <1>0, <1>4 DEF Px4Takes, CoreTyped
<1>5. CASE SeeNav \/ PatrolStep \/ Failsafe \/ OffboardLost \/ Lands \/ Fault \/ NodeStarts \/ UNCHANGED vars
  <2>1. UNCHANGED core
    BY <1>5 DEF SeeNav, PatrolStep, Failsafe, OffboardLost, Lands, Fault, NodeStarts, vars
  <2> QED
    BY <1>0, <2>1 DEF core, CoreTyped
<1> QED
  BY <1>1, <1>2, <1>3, <1>4, <1>5 DEF Next

-----------------------------------------------------------------------------
(* Topics, drone_patrol, PX4 and the history; IInv has the types it needs. *)

LEMMA PublishedShort == ASSUME IInv, Len(status) <= Depth, NEW p, Publish(p) PROVE Len(status') <= Depth
<1>1. status \in Seq(Statuses) /\ Depth \in Nat \ {0}
  BY ConstantsAssumption DEF IInv, Typed
<1>2. CASE Len(status) < Depth
  BY <1>1, <1>2 DEF Publish
<1>3. CASE Len(status) = Depth
  <2>1. status # <<>>
    BY <1>1, <1>3
  <2>2. Len(Tail(status)) = Depth - 1
    BY <1>1, <1>3, <2>1
  <2> QED
    BY <1>1, <1>3, <2>2 DEF Publish
<1> QED
  BY <1>1, <1>2, <1>3

LEMMA PatrolPublishes ==
  ASSUME PatrolStep
  PROVE UNCHANGED status \/ \E p : Publish(p)
BY DEF PatrolStep, ReadPlan, Heartbeat, Register, Activate, Deactivate, TakenOff, Fly, NothingToFly, ReachPoint,
       LegFails, Completed, topics

LEMMA TopicsTypedKept == ASSUME TInv, IInv, IInv', [Next]_vars PROVE TopicsTyped'
<1>0. TopicsTyped /\ Typed /\ Typed' /\ MTyped(mission', asked')
  BY MissionStep DEF TInv, TypeOK, IInv
<1>1. CASE UNCHANGED topics
  BY <1>0, <1>1 DEF TopicsTyped, topics
<1>2. CASE Service
  <2>1. PICK op \in Ops : Does(op)
    BY <1>2 DEF Service
  <2>2. op \in AllOps /\ UNCHANGED status
    BY <1>2, ConstantsAssumption DEF Service
  <2>3. unread' \in BOOLEAN /\ (UNCHANGED latched \/ latched' = Plan(mission'))
    BY <1>0, <2>1, <2>2
       DEF Does, AllOps, UploadMission, Start, Resume, StartPatrol, StartOffboard, Interrupt, Clear,
           GotoMissionItem, Release, TopicsTyped
  <2>4. OnRoute(latched'.start, latched'.route)
    BY <1>0, <2>3 DEF Plan, MTyped, Counted, TopicsTyped
  <2> QED
    BY <1>0, <2>2, <2>3, <2>4 DEF TopicsTyped, Typed
<1>3. CASE ReceiveStatus
  <2>1. status' = Tail(status) /\ status # <<>> /\ UNCHANGED <<latched, unread>>
    BY <1>3 DEF ReceiveStatus
  <2>2. Len(status') <= Depth
    BY <1>0, <2>1, ConstantsAssumption DEF TopicsTyped
  <2> QED
    BY <1>0, <2>1, <2>2 DEF TopicsTyped, Typed
<1>4. CASE CoreRestarts
  <2>1. <<>> \in Routes \cup {<<>>} /\ 0 <= Len(<<>>) /\ Len(<<>>) <= Depth
    BY ConstantsAssumption
  <2> QED
    BY <1>0, <1>4, <2>1 DEF CoreRestarts, TopicsTyped, Typed, NoPlan, OnRoute
<1>5. CASE PatrolStep
  <2>1. Len(status') <= Depth
    BY <1>0, <1>5, PatrolPublishes, PublishedShort DEF TopicsTyped
  <2>2. UNCHANGED latched /\ unread' \in BOOLEAN
    BY <1>0, <1>5 DEF PatrolStep, ReadPlan, Heartbeat, Register, Activate, Deactivate, TakenOff, Fly,
                      Completed, topics, TopicsTyped
  <2> QED
    BY <1>0, <2>1, <2>2 DEF TopicsTyped, Typed
<1>6. CASE Fault \/ NodeStarts
  <2>1. UNCHANGED <<latched, status>> /\ unread' \in BOOLEAN
    BY <1>0, <1>6 DEF Fault, ModeFault, PatrolDies, NodeStarts, TopicsTyped
  <2> QED
    BY <1>0, <2>1 DEF TopicsTyped
<1>7. CASE CoreStep \/ SeeNav \/ Px4Takes \/ Failsafe \/ OffboardLost \/ Lands \/ UNCHANGED vars
  BY <1>1, <1>7 DEF CoreStep, ByCore, SeeNav, Px4Takes, Failsafe, OffboardLost, Lands, vars
<1> QED
  BY <1>2, <1>3, <1>4, <1>5, <1>6, <1>7 DEF Next

LEMMA PatrolTypedKept == ASSUME TInv, IInv, IInv', [Next]_vars PROVE PatrolTyped'
<1>0. PatrolTyped /\ Typed /\ Typed' /\ TopicsTyped
  BY DEF TInv, TypeOK, IInv
<1>1. CASE UNCHANGED patrol
  BY <1>0, <1>1 DEF PatrolTyped, patrol
<1>2. ASSUME Same(progress', progress) PROVE OnRoute(progress'.item, progress'.plan.route)
  BY <1>0, <1>2 DEF Same, PatrolTyped
<1>3. CASE PatrolStep
  <2>1. OnRoute(progress'.item, progress'.plan.route)
    <3>1. CASE ReadPlan
      BY <1>0, <3>1 DEF ReadPlan, OnPlan, TopicsTyped
    <3>2. CASE ReachPoint
      <4>1. progress'.item = progress.item + 1 /\ progress'.plan = progress.plan /\ progress.item \in Nat
        BY <1>0, <3>2 DEF ReachPoint, ReachItem, Typed, Progresses
      <4>2. Len(progress.plan.route) \in Nat /\ ~(progress.item >= Len(progress.plan.route))
        BY <1>0, <3>2, RouteTyped DEF ReachPoint, AtEnd, PatrolTyped, OnRoute
      <4> QED
        BY <1>0, <4>1, <4>2 DEF PatrolTyped, OnRoute
    <3>3. CASE Heartbeat \/ Register
      BY <1>0, <3>3 DEF Heartbeat, Register, patrol, PatrolTyped
    <3>4. CASE Activate \/ Deactivate \/ NothingToFly \/ LegFails
      <4>1. \/ \E landed \in BOOLEAN : progress' = OnActivate(progress, landed)
            \/ progress' \in {progress, OnDeactivate(progress, cause), FailPlan(progress)}
        BY <3>4 DEF Activate, Deactivate, NothingToFly, LegFails
      <4>2. Same(progress', progress)
        <5>1. Same(progress, progress) /\ progress \in Progresses /\ cause \in Reasons
          BY DEF IInv, Typed, Same
        <5> QED
          BY <4>1, <5>1, ActivateSame, DeactivateSame, FailSame
      <4> QED
        BY <1>2, <4>2
    <3>5. CASE TakenOff \/ Completed
      <4>1. progress' \in {[progress EXCEPT !.state = "PATROL"], StepFailed(progress), FinishPlan(progress)}
        BY <3>5 DEF TakenOff, Completed
      <4>2. Same([progress EXCEPT !.state = "PATROL"], progress)
        BY <1>0 DEF Same, Typed, Progresses, States
      <4> QED
        BY <1>0, <1>2, <4>1, <4>2, StepSame, FinishSame DEF Typed
    <3> QED
      BY <1>3, <3>1, <3>2, <3>3, <3>4, <3>5 DEF PatrolStep, Fly
  <2>2. node' \in {"down", "up", "registered"} /\ completed' \in {"none", "ok", "failed"}
    BY <1>0, <1>3
       DEF PatrolStep, ReadPlan, Heartbeat, Register, Activate, Deactivate, TakenOff, Fly, NothingToFly,
           ReachPoint, LegFails, Completed, patrol, PatrolTyped
  <2> QED
    BY <1>0, <2>1, <2>2 DEF PatrolTyped, Typed
<1>4. CASE Fault
  <2>1. CASE ModeFault
    BY <1>1, <2>1 DEF ModeFault
  <2>2. CASE PatrolDies
    <3>1. <<>> \in Routes \cup {<<>>} /\ 0 <= Len(<<>>)
      OBVIOUS
    <3> QED
      BY <1>0, <2>2, <3>1 DEF PatrolDies, PatrolTyped, Typed, NoProgress, NoPlan, OnRoute
  <2> QED
    BY <1>4, <2>1, <2>2 DEF Fault
<1>5. CASE NodeStarts
  BY <1>0, <1>5 DEF NodeStarts, PatrolTyped
<1>6. CASE Service \/ CoreStep \/ ReceiveStatus \/ CoreRestarts \/ SeeNav \/ Px4Takes \/ Failsafe \/ OffboardLost
           \/ Lands \/ UNCHANGED vars
  BY <1>1, <1>6 DEF Service, CoreStep, ByCore, ReceiveStatus, CoreRestarts, SeeNav, Px4Takes, Failsafe,
                    OffboardLost, Lands, vars
<1> QED
  BY <1>3, <1>4, <1>5, <1>6 DEF Next

LEMMA Px4TypedKept == ASSUME TypeOK, [Next]_vars PROVE Px4Typed'
<1>0. Px4Typed /\ CoreTyped
  BY DEF TypeOK
<1>1. CASE UNCHANGED <<px4, seen>>
  BY <1>0, <1>1 DEF Px4Typed, px4
<1>2. CASE PatrolStep
  BY <1>0, <1>2
     DEF PatrolStep, ReadPlan, Heartbeat, Register, Activate, Deactivate, TakenOff, Fly, Completed, px4, Px4Typed,
         Modes
<1>3. CASE Px4Takes
  <2>1. UNCHANGED px4 \/ Accepts(Head(cmds).what)
    BY <1>3 DEF Px4Takes
  <2>2. UNCHANGED seen
    BY <1>3 DEF Px4Takes
  <2>3. ASSUME NEW what, Accepts(what)
        PROVE /\ nav' \in Modes /\ intent' \in Modes /\ air' \in {"disarmed", "armed", "flying"}
              /\ exec' \in BOOLEAN /\ cause' \in Reasons
    <3>1. CASE what \in {"hold", "rtl", "offboard"} /\ Select(what) /\ UNCHANGED air
      BY <1>0, <3>1 DEF Select, Leave, Px4Typed, Modes, Reasons
    <3>2. CASE nav' = "patrol" /\ intent' = "patrol" /\ exec' = (air # "disarmed") /\ UNCHANGED <<air, cause>>
      BY <1>0, <3>2 DEF Px4Typed, Modes
    <3>3. CASE /\ air' = IF air = "disarmed" THEN "armed" ELSE air
               /\ exec' = (exec \/ nav = "patrol") /\ UNCHANGED <<nav, intent, cause>>
      BY <1>0, <3>3 DEF Px4Typed
    <3> QED
      BY <2>3, <3>1, <3>2, <3>3 DEF Accepts
  <2> QED
    BY <1>0, <1>1, <2>1, <2>2, <2>3 DEF Px4Typed
<1>4. CASE Failsafe \/ OffboardLost \/ Lands \/ Fault
  BY <1>0, <1>4 DEF Failsafe, OffboardLost, Lands, Fault, ModeFault, PatrolDies, Select, Leave, px4, Px4Typed,
                    Modes, Reasons
<1>5. CASE SeeNav
  BY <1>0, <1>5 DEF SeeNav, px4, Px4Typed
<1>6. CASE Service \/ CoreStep \/ ReceiveStatus \/ CoreRestarts \/ NodeStarts \/ UNCHANGED vars
  BY <1>1, <1>6 DEF Service, CoreStep, ByCore, ReceiveStatus, CoreRestarts, NodeStarts, vars
<1> QED
  BY <1>2, <1>3, <1>4, <1>5, <1>6 DEF Next

(* An item before the end of a route is an item.                           *)
LEMMA OfRoute ==
  ASSUME NEW route \in Routes \cup {<<>>}, NEW i \in Nat, i < Len(route)
  PROVE 0 .. i \subseteq Items
<1>1. route \in Routes
  OBVIOUS
<1>2. Len(route) \in Nat
  BY RouteTyped
<1>3. 0 .. i \subseteq 0 .. Len(route) - 1
  BY <1>2
<1> QED
  BY <1>1, <1>3 DEF Items

LEMMA HistoryTypedKept == ASSUME TInv, IInv, IInv', [Next]_vars PROVE HistoryTyped'
<1>0. /\ HistoryTyped /\ Typed' /\ MTyped(mission, asked) /\ PatrolTyped /\ MaxControls \in Nat
      /\ MaxFaults \in Nat /\ charge \in BOOLEAN
  BY ConstantsAssumption DEF TInv, TypeOK, IInv, Typed
<1>1. CASE UNCHANGED <<history, bounds>>
  BY <1>0, <1>1 DEF HistoryTyped, history, bounds
<1>2. CASE Service
  <2>1. PICK op \in Ops : Does(op)
    BY <1>2 DEF Service
  <2>2. op \in AllOps
    BY ConstantsAssumption
  <2>3. covered' \subseteq Items
    <3>1. CASE op = "goto"
      <4>1. PICK i \in 0 .. Len(mission.route) - 1 : covered' = covered \cup 0 .. i - 1
        BY <2>1, <3>1 DEF Does, GotoMissionItem
      <4>2. i \in Nat /\ i < Len(mission.route) /\ mission.route \in Routes \cup {<<>>}
        BY <1>0, <4>1, RouteTyped DEF MTyped, Counted, OnRoute
      <4> QED
        BY <1>0, <4>1, <4>2, OfRoute DEF HistoryTyped
    <3>2. CASE op # "goto"
      BY <1>0, <2>1, <2>2, <3>2
         DEF Does, AllOps, UploadMission, Start, Resume, StartPatrol, StartOffboard, Interrupt, Clear, Release,
             HistoryTyped
    <3> QED
      BY <3>1, <3>2
  <2> QED
    BY <1>0, <1>2, <2>3 DEF Service, HistoryTyped
<1>3. CASE CoreStep
  <2>1. CASE CheckWaypoint /\ covered' = covered \cup {mission.item}
    <3>1. mission.item < Len(mission.route) \/ UNCHANGED covered
      BY <2>1 DEF CheckWaypoint, HandOver, FlyLeg
    <3>2. mission.item \in Nat /\ mission.route \in Routes \cup {<<>>}
      BY <1>0 DEF MTyped, Counted, OnRoute, Missions
    <3>3. covered' \subseteq Items
      BY <1>0, <2>1, <3>1, <3>2, OfRoute DEF HistoryTyped
    <3> QED
      BY <1>0, <1>3, <2>1, <3>3 DEF CheckWaypoint, CoreStep, ByCore, HistoryTyped
  <2>2. CASE UNCHANGED covered
    <3>1. faults' \in {faults, faults + 1} /\ (faults' = faults \/ faults < MaxFaults)
      BY <1>3 DEF CoreStep, ByCore, RunLater, Ack, NoAck, CheckWaypoint, OffboardGuard, PostFlightCheck, HeartbeatStale
    <3>2. faults' \in 0 .. MaxFaults
      BY <1>0, <3>1 DEF HistoryTyped
    <3> QED
      BY <1>0, <1>3, <2>2, <3>2 DEF CoreStep, ByCore, HistoryTyped
  <2>3. UNCHANGED covered \/ (CheckWaypoint /\ covered' = covered \cup {mission.item})
    BY <1>3 DEF CoreStep, ByCore, RunLater, Ack, NoAck, Answered, Unanswered, CheckWaypoint, HandOver, FlyLeg, OffboardGuard,
                PostFlightCheck, HeartbeatStale
  <2> QED
    BY <2>1, <2>2, <2>3
<1>4. CASE CoreRestarts
  BY <1>0, <1>4 DEF CoreRestarts, HistoryTyped, Typed
<1>5. CASE PatrolStep
  <2>1. replaced' \in BOOLEAN
    BY <1>0, <1>5 DEF PatrolStep, ReadPlan, Heartbeat, Register, Activate, Deactivate, TakenOff, Fly, Completed,
                      HistoryTyped
  <2>2. covered' \subseteq Items
    <3>1. CASE ReachPoint
      <4>1. progress.item \in Nat /\ progress.plan.route \in Routes \cup {<<>>}
        BY <1>0 DEF PatrolTyped, OnRoute, Progresses
      <4>2. progress.item < Len(progress.plan.route)
        BY <3>1, <4>1, RouteTyped DEF ReachPoint, AtEnd
      <4> QED
        BY <1>0, <3>1, <4>1, <4>2, OfRoute DEF ReachPoint, HistoryTyped
    <3>2. CASE UNCHANGED covered
      BY <1>0, <3>2 DEF HistoryTyped
    <3> QED
      BY <1>5, <3>1, <3>2 DEF PatrolStep, ReadPlan, Heartbeat, Register, Activate, Deactivate, TakenOff, Fly,
                              NothingToFly, LegFails, Completed
  <2> QED
    BY <1>0, <1>5, <2>1, <2>2 DEF PatrolStep, bounds, HistoryTyped
<1>6. CASE Px4Takes \/ Fault
  <2>1. faults' \in {faults, faults + 1} /\ (faults' = faults \/ faults < MaxFaults)
    BY <1>6 DEF Px4Takes, Refused, Fault
  <2>2. UNCHANGED <<history, last, asked>>
    BY <1>6 DEF Px4Takes, Fault
  <2> QED
    BY <1>0, <2>1, <2>2 DEF HistoryTyped, history
<1>7. CASE ReceiveStatus \/ SeeNav \/ Failsafe \/ OffboardLost \/ Lands \/ NodeStarts \/ UNCHANGED vars
  BY <1>1, <1>7 DEF ReceiveStatus, SeeNav, Failsafe, OffboardLost, Lands, NodeStarts, vars
<1> QED
  BY <1>2, <1>3, <1>4, <1>5, <1>6, <1>7 DEF Next

(* Every variable stays in its type, and every item on its route, for any  *)
(* routes, requests and faults (the handlers of drone_core, drone_patrol). *)
THEOREM TypeCorrect == Spec => []TypeOK
<1>1. Init => TInv
  <2> SUFFICES ASSUME Init PROVE TInv
    OBVIOUS
  <2>1. MTyped(mission, asked) /\ MissionTyped
    BY NothingMTyped DEF Init, MTyped, MissionTyped, Counted
  <2>2. <<>> \in Seq(Queued) /\ <<>> \in Seq(Statuses) /\ <<>> \in Routes \cup {<<>>}
        /\ Len(<<>>) <= Depth /\ 0 <= Len(<<>>)
    BY ConstantsAssumption
  <2>3. CoreTyped
    BY <2>2 DEF Init, CoreTyped
  <2>4. TopicsTyped
    BY <2>2, NothingTyped DEF Init, TopicsTyped, NoPlan, OnRoute
  <2>5. PatrolTyped
    BY <2>2, NothingTyped, ConstantsAssumption DEF Init, PatrolTyped, NoProgress, NoPlan, OnRoute
  <2>6. Px4Typed
    <3>1. air \in {"disarmed", "flying"}
      BY ConstantsAssumption DEF Init
    <3> QED
      BY <3>1 DEF Init, Px4Typed, Modes, Reasons
  <2>7. HistoryTyped
    <3>1. covered = {} /\ replaced = FALSE /\ epoch = 0 /\ last = "none" /\ asked = 0 /\ faults = 0
      BY DEF Init
    <3>2. 0 \in 0 .. MaxControls /\ 0 \in 0 .. MaxFaults
      BY ConstantsAssumption
    <3> QED
      BY <3>1, <3>2 DEF HistoryTyped
  <2> QED
    BY <2>1, <2>3, <2>4, <2>5, <2>6, <2>7 DEF TInv, TypeOK
<1>2. TInv /\ IInv /\ IInv' /\ [Next]_vars => TInv'
  BY MissionStep, CoreTypedKept, TopicsTypedKept, PatrolTypedKept, Px4TypedKept, HistoryTypedKept DEF TInv, TypeOK
<1>3. TInv => TypeOK
  BY DEF TInv
<1> QED
  BY <1>1, <1>2, <1>3, Inductive, PTL DEF Spec
=============================================================================
