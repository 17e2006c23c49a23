-------------------------- MODULE PatrolPromiseProofs --------------------------
(***************************************************************************)
(* Two promises to those who fly missions, for every set of routes and any *)
(* number of requests: a mission that finishes by itself was flown (also   *)
(* with faults and restarts of drone_patrol), and a hold wins.             *)
(***************************************************************************)
EXTENDS PatrolMissionProofs

(***************************************************************************)
(* What finished was flown.                                                *)
(*                                                                         *)
(* NothingSkipped says what lies behind the item a mission is at.  That a  *)
(* finished plan is at an end of its route needs three more facts: plans   *)
(* of the run drone_core is in have the mission's route, whoever says that *)
(* such a plan is finished has its item at an end, and a result of the     *)
(* mode is heard by the executor before it loses its charge.               *)
(***************************************************************************)

(* Nothing of the route is left to fly at this item.                       *)
EndAt(route, item) == item >= Len(route) \/ IsEnd(route, item)

(* What is said of a plan's end, of mission m.                             *)
RouteOf(m, id, seq, route) == Ours(m, id, seq) => route = m.route
Ended(m, id, seq, item, over) == Ours(m, id, seq) /\ over => EndAt(m.route, item)

Over == progress.finished \/ completed = "ok"
LatchedRoute == RouteOf(mission, latched.id, latched.seq, latched.route)
ProgressRoute == RouteOf(mission, progress.plan.id, progress.plan.seq, progress.plan.route)
ProgressEnded == Ended(mission, progress.plan.id, progress.plan.seq, progress.item, Over)
StatusEnded == \A i \in 1 .. Len(status) :
                 Ended(mission, status[i].id, status[i].seq, status[i].item, status[i].finished)
AllEnded == LatchedRoute /\ ProgressRoute /\ ProgressEnded /\ StatusEnded

HeardInCharge == completed # "none" => charge
FlownInv == /\ HeardInCharge /\ replaced \in BOOLEAN
            /\ epoch = 0 /\ ~replaced => AllEnded

-----------------------------------------------------------------------------
(* The points of a route before an item at its end.                        *)
LEMMA PointsBefore ==
  ASSUME NEW route \in Seq(Commands), NEW item \in Nat, EndAt(route, item)
  PROVE Points(route) \subseteq 0 .. item - 1
<1> SUFFICES ASSUME NEW i \in Points(route) PROVE i \in 0 .. item - 1
  OBVIOUS
<1>0. Len(route) \in Nat
  OBVIOUS
<1>1. CASE item >= Len(route)
  BY <1>0, <1>1 DEF Points
<1>2. CASE IsEnd(route, item)
  <2>1. \A j \in 0 .. i : ~IsEnd(route, j)
    BY DEF Points
  <2>2. i \in Nat
    BY <1>0 DEF Points
  <2> QED
    BY <1>2, <2>1, <2>2
<1> QED
  BY <1>1, <1>2 DEF EndAt

(* A mission keeps its route for as long as it keeps its id and number.    *)
KeepsRoute(n, m) == n.delegated /\ n.id = m.id /\ n.id > 0 => n.route = m.route

LEMMA EndedMoves ==
  ASSUME NEW m, NEW n, Good(m), Moves(n, m), KeepsRoute(n, m),
         NEW id \in Nat, NEW seq \in Nat, Numbers(m, id, seq)
  PROVE /\ \A route : RouteOf(m, id, seq, route) => RouteOf(n, id, seq, route)
        /\ \A item, over : Ended(m, id, seq, item, over) => Ended(n, id, seq, item, over)
<1>1. Ours(n, id, seq) => Ours(m, id, seq) /\ n.route = m.route
  BY DEF Ours, Moves, KeepsRoute, Good, Numbered, Numbers
<1> QED
  BY <1>1 DEF RouteOf, Ended

(* A step of drone_core that keeps the route; plan, patrol and status stay. *)
LEMMA MissionEnds ==
  ASSUME IInv, FlownInv, UNCHANGED <<latched, progress, status, charge, completed, replaced, epoch>>,
         Moves(mission', mission), KeepsRoute(mission', mission)
  PROVE FlownInv'
<1>1. Good(mission) /\ Typed
  BY DEF IInv
<1>2. HeardInCharge' /\ replaced' \in BOOLEAN
  BY DEF FlownInv, HeardInCharge
<1>3. ASSUME epoch = 0, ~replaced
      PROVE AllEnded'
  <2>1. AllEnded /\ AllSane
    BY <1>3 DEF FlownInv, IInv
  <2>2. LatchedRoute'
    BY <1>1, <2>1, EndedMoves DEF AllEnded, LatchedRoute, AllSane, LatchedSane, Sane, Typed, Plans
  <2>3. ProgressRoute' /\ ProgressEnded'
    BY <1>1, <2>1, EndedMoves
       DEF AllEnded, ProgressRoute, ProgressEnded, Over, AllSane, ProgressSane, Sane, Typed, Plans, Progresses
  <2>4. StatusEnded'
    <3>1. ASSUME NEW i \in 1 .. Len(status)
          PROVE Ended(mission', status[i].id, status[i].seq, status[i].item, status[i].finished)
      <4>1. status[i] \in Statuses
        BY <1>1 DEF Typed
      <4> QED
        BY <1>1, <2>1, <4>1, EndedMoves DEF AllEnded, StatusEnded, AllSane, StatusSane, Sane, Statuses
    <3> QED
      BY <3>1 DEF StatusEnded
  <2> QED
    BY <2>2, <2>3, <2>4 DEF AllEnded
<1> QED
  BY <1>2, <1>3 DEF FlownInv

(* A step of drone_patrol: what it publishes of its plan is so of it.      *)
SaidOf(q, p) == Same(q, p) /\ (q.finished => p.finished)

LEMMA PatrolEnds ==
  ASSUME IInv, FlownInv, UNCHANGED <<mission, latched, epoch>>, HeardInCharge', replaced' \in BOOLEAN,
         replaced => replaced', progress' \in Progresses,
         epoch = 0 /\ ~replaced' => ProgressRoute' /\ ProgressEnded',
         \/ UNCHANGED status
         \/ \E q : SaidOf(q, progress') /\ Publish(q)
  PROVE FlownInv'
<1>1. Typed
  BY DEF IInv
<1>2. ASSUME epoch = 0, ~replaced'
      PROVE AllEnded'
  <2>1. AllEnded /\ ProgressRoute' /\ ProgressEnded'
    BY <1>2 DEF FlownInv
  <2>2. LatchedRoute'
    BY <2>1 DEF AllEnded, LatchedRoute
  <2>3. CASE UNCHANGED status
    BY <2>1, <2>2, <2>3 DEF AllEnded, StatusEnded
  <2>4. ASSUME NEW q, SaidOf(q, progress'), Publish(q)
        PROVE AllEnded'
    <3>1. Ended(mission', q.plan.id, q.plan.seq, q.item, q.finished)
      BY <2>1, <2>4 DEF ProgressEnded, Ended, Over, SaidOf, Same
    <3>2. ASSUME NEW i \in 1 .. Len(status')
          PROVE Ended(mission', status'[i].id, status'[i].seq, status'[i].item, status'[i].finished)
      <4>1. q \in Progresses
        BY <2>4 DEF SaidOf, Same
      <4>2. CASE status'[i] = StatusOf(q, node = "registered")
        BY <3>1, <4>2 DEF StatusOf
      <4>3. ASSUME NEW j \in 1 .. Len(status), status'[i] = status[j]
            PROVE Ended(mission', status'[i].id, status'[i].seq, status'[i].item, status'[i].finished)
        BY <2>1, <4>3 DEF AllEnded, StatusEnded
      <4> QED
        BY <1>1, <2>4, <4>1, <4>2, <4>3, PublishedFrom
    <3> QED
      BY <2>1, <2>2, <3>2 DEF AllEnded, StatusEnded
  <2> QED
    BY <2>3, <2>4
<1> QED
  BY <1>2 DEF FlownInv

(* Most steps of drone_patrol end nothing.                                 *)
LEMMA SameEnds ==
  ASSUME IInv, FlownInv, UNCHANGED <<mission, latched, epoch, replaced>>,
         completed' \in {"none", "failed", completed}, completed' # "none" => charge',
         SaidOf(progress', progress),
         \/ UNCHANGED status
         \/ \E q : SaidOf(q, progress') /\ Publish(q)
  PROVE FlownInv'
<1>1. progress' \in Progresses /\ progress'.plan = progress.plan /\ progress'.item = progress.item
  BY DEF SaidOf, Same
<1>2. Over' => Over
  BY DEF Over, SaidOf
<1>3. epoch = 0 /\ ~replaced' => ProgressRoute' /\ ProgressEnded'
  BY <1>1, <1>2 DEF FlownInv, AllEnded, ProgressRoute, ProgressEnded, Ended
<1> QED
  BY <1>1, <1>3, PatrolEnds DEF HeardInCharge, FlownInv

LEMMA FailSaid == ASSUME NEW p \in Progresses PROVE SaidOf(FailPlan(p), p)
BY FailSame DEF SaidOf, FailPlan, Progresses

LEMMA HoldSaid == ASSUME NEW p \in Progresses PROVE SaidOf(HoldOn(p), p)
BY HoldSame DEF SaidOf, HoldOn, Progresses

LEMMA StepSaid == ASSUME NEW p \in Progresses PROVE SaidOf(StepFailed(p), p) /\ SaidOf(FailPlan(p), StepFailed(p))
<1> DEFINE q == IF p.failed THEN p ELSE FailPlan(p)
<1>1. SaidOf(q, p) /\ q \in Progresses /\ q.finished = p.finished
  BY FailSaid DEF SaidOf, Same, FailPlan, Progresses
<1> HIDE DEF q
<1>2. SaidOf(HoldOn(q), q) /\ HoldOn(q).finished = q.finished
  BY <1>1, HoldSaid DEF HoldOn, Progresses
<1>3. SaidOf(FailPlan(p), p)
  BY FailSaid
<1> QED
  BY <1>1, <1>2, <1>3 DEF StepFailed, SaidOf, Same, q

LEMMA ActivateSaid == ASSUME NEW p \in Progresses, NEW landed \in BOOLEAN PROVE SaidOf(OnActivate(p, landed), p)
<1>1. CASE MayFly(p, landed)
  BY <1>1, ActivateSame DEF OnActivate, SaidOf, Progresses
<1>2. CASE ~MayFly(p, landed)
  <2>1. SaidOf(HoldOn(p), p) /\ SaidOf(FailPlan(p), p)
    BY HoldSaid, FailSaid
  <2>2. FailPlan(p) \in Progresses
    BY <2>1 DEF SaidOf, Same
  <2>3. SaidOf(HoldOn(FailPlan(p)), FailPlan(p))
    BY <2>2, HoldSaid
  <2>4. SaidOf(HoldOn(FailPlan(p)), p)
    BY <2>1, <2>3 DEF SaidOf, Same
  <2> QED
    BY <1>2, <2>1, <2>4 DEF OnActivate
<1> QED
  BY <1>1, <1>2

LEMMA DeactivateSaid == ASSUME NEW p \in Progresses, NEW why \in Reasons PROVE SaidOf(OnDeactivate(p, why), p)
BY DeactivateSame DEF SaidOf, OnDeactivate, Progresses

-----------------------------------------------------------------------------
(* The steps of drone_patrol.                                              *)

LEMMA ReadPlanEnds == ASSUME IInv, FlownInv, ReadPlan, UNCHANGED <<mission, epoch>> PROVE FlownInv'
<1>1. /\ progress' = OnPlan(progress, latched, charge) /\ latched \in Plans /\ charge \in BOOLEAN
      /\ UNCHANGED <<latched, charge, completed>> /\ replaced' = (replaced \/ charge) /\ replaced \in BOOLEAN
  BY DEF ReadPlan, IInv, Typed, FlownInv
<1>2. progress' \in Progresses /\ progress'.plan = latched /\ ~progress'.finished
  BY <1>1 DEF OnPlan, Progresses, Plans, States, Reasons
<1>3. epoch = 0 /\ ~replaced' => ProgressRoute' /\ ProgressEnded'
  <2>1. SUFFICES ASSUME epoch = 0, ~replaced' PROVE ProgressRoute' /\ ProgressEnded'
    OBVIOUS
  <2>2. ~Over'
    BY <1>1, <1>2, <2>1 DEF Over, FlownInv, HeardInCharge
  <2> QED
    BY <1>1, <1>2, <2>1, <2>2 DEF FlownInv, AllEnded, LatchedRoute, ProgressRoute, ProgressEnded, Ended
<1>4. SaidOf(progress', progress') /\ Publish(progress')
  BY <1>2 DEF ReadPlan, SaidOf, Same
<1> QED
  BY <1>1, <1>2, <1>3, <1>4, PatrolEnds DEF FlownInv, HeardInCharge

(* The mode's result says that the item is at an end of the plan's route.  *)
LEMMA AtEndOfPlan ==
  ASSUME NEW p \in Progresses, NEW m, RouteOf(m, p.plan.id, p.plan.seq, p.plan.route),
         Ours(m, p.plan.id, p.plan.seq), AtEnd(p)
  PROVE EndAt(m.route, p.item)
<1>1. p.plan.route \in Seq(Commands) /\ p.item \in Nat /\ m.route = p.plan.route
  BY DEF Progresses, Plans, RouteOf
<1>2. Len(p.plan.route) \in Nat
  BY <1>1
<1> QED
  BY <1>1, <1>2 DEF AtEnd, EndAt, IsEnd

LEMMA ReachEnds ==
  ASSUME IInv, FlownInv, ReachPoint, UNCHANGED <<mission, epoch, latched, charge, replaced>>
  PROVE FlownInv'
<1>1. /\ progress \in Progresses /\ progress' = ReachItem(progress)
      /\ ~progress.finished /\ completed' = IF AtEnd(progress') THEN "ok" ELSE "none"
      /\ Publish(progress') /\ charge
  BY DEF ReachPoint, IInv, Typed, Flyable, Flies
<1>2. progress' \in Progresses /\ progress'.plan = progress.plan /\ ~progress'.finished
  BY <1>1 DEF ReachItem, Progresses
<1>3. epoch = 0 /\ ~replaced' => ProgressRoute' /\ ProgressEnded'
  <2>1. SUFFICES ASSUME epoch = 0, ~replaced PROVE ProgressRoute' /\ ProgressEnded'
    OBVIOUS
  <2>2. ProgressRoute'
    BY <1>2, <2>1 DEF FlownInv, AllEnded, ProgressRoute
  <2>3. Over' => AtEnd(progress')
    BY <1>1, <1>2 DEF Over
  <2> QED
    BY <1>2, <2>2, <2>3, AtEndOfPlan DEF ProgressRoute, ProgressEnded, Ended
<1>4. SaidOf(progress', progress')
  BY <1>2 DEF SaidOf, Same
<1> QED
  BY <1>1, <1>2, <1>3, <1>4, PatrolEnds DEF FlownInv, HeardInCharge

LEMMA NothingLeftEnds ==
  ASSUME IInv, FlownInv, NothingToFly, UNCHANGED <<mission, epoch, latched, charge, replaced>>
  PROVE FlownInv'
<1>1. progress \in Progresses /\ charge
  BY DEF NothingToFly, Flies, IInv, Typed
<1>2. CASE Flyable
  <2>1. AtEnd(progress) /\ completed' = "ok" /\ UNCHANGED <<progress, status>>
    BY <1>2 DEF NothingToFly, Flyable
  <2>2. epoch = 0 /\ ~replaced' => ProgressRoute' /\ ProgressEnded'
    BY <1>1, <2>1, AtEndOfPlan DEF FlownInv, AllEnded, ProgressRoute, ProgressEnded, Ended
  <2> QED
    BY <1>1, <2>1, <2>2, PatrolEnds DEF FlownInv, HeardInCharge
<1>3. CASE ~Flyable
  <2>1. completed' = "failed"
    BY <1>3 DEF NothingToFly
  <2>2. CASE UNCHANGED <<progress, status>>
    <3>1. SaidOf(progress', progress)
      BY <1>1, <2>2 DEF SaidOf, Same
    <3> QED
      BY <1>1, <2>1, <2>2, <3>1, SameEnds
  <2>3. CASE progress' = FailPlan(progress) /\ Publish(progress')
    <3>1. SaidOf(progress', progress) /\ SaidOf(progress', progress')
      BY <1>1, <2>3, FailSaid DEF SaidOf, Same
    <3> QED
      BY <1>1, <2>1, <2>3, <3>1, SameEnds
  <2> QED
    BY <2>2, <2>3 DEF NothingToFly
<1> QED
  BY <1>2, <1>3

LEMMA FlyEnds == ASSUME IInv, FlownInv, Fly, UNCHANGED <<mission, epoch>> PROVE FlownInv'
<1>1. progress \in Progresses /\ UNCHANGED <<latched, charge, replaced>>
  BY DEF Fly, IInv, Typed
<1>2. CASE ReachPoint
  BY <1>1, <1>2, ReachEnds
<1>3. CASE NothingToFly
  BY <1>1, <1>3, NothingLeftEnds
<1>4. CASE LegFails
  <2>1. completed' = "failed" /\ charge /\ progress' = FailPlan(progress) /\ Publish(progress')
    BY <1>4 DEF LegFails, Flies
  <2>2. SaidOf(progress', progress) /\ SaidOf(progress', progress')
    BY <1>1, <2>1, FailSaid DEF SaidOf, Same
  <2> QED
    BY <1>1, <2>1, <2>2, SameEnds
<1> QED
  BY <1>2, <1>3, <1>4 DEF Fly

LEMMA CompletedEnds == ASSUME IInv, FlownInv, Completed, UNCHANGED <<mission, epoch>> PROVE FlownInv'
<1>1. /\ progress \in Progresses /\ UNCHANGED <<latched, charge, replaced>> /\ completed' = "none"
  BY DEF Completed, IInv, Typed
<1>2. CASE completed = "ok"
  <2>1. progress' = FinishPlan(progress) /\ UNCHANGED status
    BY <1>2 DEF Completed
  <2>2. Same(progress', progress)
    BY <1>1, <2>1, FinishSame
  <2>3. epoch = 0 /\ ~replaced' => ProgressRoute' /\ ProgressEnded'
    BY <1>1, <1>2, <2>2
       DEF FlownInv, AllEnded, ProgressRoute, ProgressEnded, Ended, Over, Same
  <2> QED
    BY <1>1, <2>1, <2>2, <2>3, PatrolEnds DEF FlownInv, HeardInCharge, Same
<1>3. CASE completed # "ok"
  <2>1. SaidOf(progress', progress) /\ SaidOf(FailPlan(progress), progress')
    BY <1>1, <1>3, StepSaid DEF Completed
  <2> QED
    BY <1>1, <2>1, SameEnds DEF Completed
<1> QED
  BY <1>2, <1>3

LEMMA NodeEnds ==
  ASSUME IInv, FlownInv, UNCHANGED <<mission, epoch>>,
         Heartbeat \/ Register \/ Activate \/ Deactivate \/ TakenOff
  PROVE FlownInv'
<1>1. /\ progress \in Progresses /\ cause \in Reasons /\ SaidOf(progress, progress)
      /\ (completed # "none" => charge)
  BY DEF IInv, Typed, SaidOf, Same, FlownInv, HeardInCharge
<1>2. CASE Heartbeat \/ Register
  BY <1>1, <1>2, SameEnds DEF Heartbeat, Register, patrol, px4, topics
<1>3. CASE Activate
  <2>1. SaidOf(progress', progress) /\ SaidOf(progress', progress')
    BY <1>1, <1>3, ActivateSaid DEF Activate, SaidOf, Same
  <2> QED
    BY <1>1, <1>3, <2>1, SameEnds DEF Activate
<1>4. CASE Deactivate
  <2>1. SaidOf(progress', progress)
    BY <1>1, <1>4, DeactivateSaid DEF Deactivate
  <2> QED
    BY <1>1, <1>4, <2>1, SameEnds DEF Deactivate, px4, topics
<1>5. CASE TakenOff
  <2>1. CASE progress' = [progress EXCEPT !.state = "PATROL"] /\ UNCHANGED status
    <3>1. SaidOf(progress', progress)
      BY <1>1, <2>1 DEF SaidOf, Same, Progresses, States
    <3> QED
      BY <1>1, <1>5, <2>1, <3>1, SameEnds DEF TakenOff
  <2>2. CASE progress' = StepFailed(progress)
             /\ IF progress.failed THEN UNCHANGED status ELSE Publish(FailPlan(progress))
    <3>1. SaidOf(progress', progress) /\ SaidOf(FailPlan(progress), progress')
      BY <1>1, <2>2, StepSaid
    <3> QED
      BY <1>1, <1>5, <2>2, <3>1, SameEnds DEF TakenOff
  <2> QED
    BY <1>5, <2>1, <2>2 DEF TakenOff
<1> QED
  BY <1>2, <1>3, <1>4, <1>5

LEMMA PatrolStepEnds == ASSUME IInv, FlownInv, PatrolStep PROVE FlownInv'
BY ReadPlanEnds, FlyEnds, CompletedEnds, NodeEnds DEF PatrolStep, core

LEMMA OutsideEnds ==
  ASSUME IInv, FlownInv, Px4Takes \/ Failsafe \/ OffboardLost \/ Lands \/ NodeStarts \/ SeeNav \/ UNCHANGED vars
  PROVE FlownInv'
<1>1. SaidOf(progress, progress)
  BY DEF IInv, Typed, SaidOf, Same
<1>2. UNCHANGED <<mission, latched, status, progress, charge, completed, replaced, epoch>>
  BY DEF Px4Takes, Failsafe, OffboardLost, Lands, NodeStarts, SeeNav, vars, core, topics, patrol, history
<1> QED
  BY <1>1, <1>2, SameEnds DEF FlownInv, HeardInCharge

LEMMA FaultEnds == ASSUME IInv, FlownInv, Fault PROVE FlownInv'
<1>1. UNCHANGED <<mission, latched, status, replaced, epoch>>
  BY DEF Fault, core, history
<1>2. CASE ModeFault
  <2>1. SaidOf(progress', progress) /\ UNCHANGED <<charge, completed>>
    BY <1>2 DEF ModeFault, patrol, IInv, Typed, SaidOf, Same
  <2> QED
    BY <1>1, <2>1, SameEnds DEF FlownInv, HeardInCharge
<1>3. CASE PatrolDies
  <2>1. progress' = NoProgress /\ completed' = "none"
    BY <1>3 DEF PatrolDies
  <2>2. progress' \in Progresses /\ ~Over'
    BY <2>1, NothingTyped DEF Over, NoProgress
  <2>3. ~Ours(mission, progress'.plan.id, progress'.plan.seq)
    BY <2>1 DEF NoProgress, NoPlan, Ours, IInv, Good, Numbered
  <2> QED
    BY <1>1, <2>1, <2>2, <2>3, PatrolEnds
       DEF FlownInv, HeardInCharge, ProgressRoute, ProgressEnded, RouteOf, Ended
<1> QED
  BY <1>2, <1>3 DEF Fault

-----------------------------------------------------------------------------
(* The steps of drone_core.                                                *)

LEMMA RouteMethods ==
  ASSUME NEW m, Good(m)
  PROVE /\ KeepsRoute(m, m) /\ KeepsRoute(PauseMission(m), m) /\ KeepsRoute(StopMission(m), m)
        /\ KeepsRoute(FailMission(m), m) /\ KeepsRoute(FinishMission(m), m)
        /\ KeepsRoute(ResumeMission(m), m) /\ KeepsRoute(StartMission(m), m)
        /\ KeepsRoute([m EXCEPT !.engaged = TRUE], m) /\ KeepsRoute(Reach(m), m)
        /\ KeepsRoute(ClearMission(m), m)
        /\ \A i : KeepsRoute(GotoItem(m, i), m)
        /\ \A s, inHold : KeepsRoute(ApplyStatus(m, s, inHold), m)
<1> USE DEF Good, Shaped, KeepsRoute
<1>1. KeepsRoute(PauseMission(m), m) /\ KeepsRoute(StopMission(m), m) /\ KeepsRoute(FailMission(m), m)
  BY DEF PauseMission, StopMission, FailMission
<1>2. KeepsRoute(FinishMission(m), m) /\ KeepsRoute(ResumeMission(m), m) /\ KeepsRoute(StartMission(m), m)
  BY DEF FinishMission, ResumeMission, StartMission, Runs
<1>3. KeepsRoute([m EXCEPT !.engaged = TRUE], m) /\ KeepsRoute(Reach(m), m)
  BY DEF Reach, FinishMission
<1>4. KeepsRoute(ClearMission(m), m) /\ \A i : KeepsRoute(GotoItem(m, i), m)
  BY DEF ClearMission, GotoItem
<1>5. ASSUME NEW s, NEW inHold
      PROVE KeepsRoute(ApplyStatus(m, s, inHold), m)
  <2> DEFINE n == Advance(m, s)
  <2>1. n.route = m.route /\ n.id = m.id /\ Shaped(n)
    BY DEF Advance
  <2> HIDE DEF n
  <2>2. KeepsRoute(n, m) /\ KeepsRoute(FailMission(n), m)
        /\ KeepsRoute([n EXCEPT !.running = FALSE, !.finished = TRUE], m)
        /\ KeepsRoute([n EXCEPT !.running = FALSE, !.paused = TRUE], m)
    BY <2>1 DEF FailMission
  <2> QED
    BY <2>2 DEF ApplyStatus, n
<1> QED
  BY <1>1, <1>2, <1>3, <1>4, <1>5

(* A new plan has the mission's route, and a number nobody has told of.    *)
LEMMA DelegateEnds ==
  ASSUME IInv, FlownInv, NEW resume \in BOOLEAN, StartPatrol(resume),
         UNCHANGED <<progress, status, charge, completed, replaced, epoch>>
  PROVE FlownInv'
<1>1. Good(mission) /\ Typed /\ mission' = StartDelegated(mission, resume) /\ latched' = Plan(mission')
  BY DEF IInv, StartPatrol
<1>2. mission'.seq = mission.seq + 1 /\ latched'.route = mission'.route
  BY <1>1 DEF StartDelegated, Runs, Good, Shaped, Plan
<1>3. LatchedRoute'
  BY <1>2 DEF LatchedRoute, RouteOf
<1>4. ASSUME epoch = 0, ~replaced
      PROVE AllEnded'
  <2>1. AllSane
    BY <1>4 DEF IInv
  <2>2. ASSUME NEW id \in Nat, NEW seq \in Nat, Numbers(mission, id, seq)
        PROVE ~Ours(mission', id, seq)
    BY <1>1, <1>2, <2>2 DEF Ours, Numbers, Good, Numbered
  <2>3. ProgressRoute' /\ ProgressEnded'
    BY <1>1, <2>1, <2>2
       DEF ProgressRoute, ProgressEnded, RouteOf, Ended, AllSane, ProgressSane, Sane, Typed, Plans, Progresses
  <2>4. StatusEnded'
    <3>1. ASSUME NEW i \in 1 .. Len(status)
          PROVE Ended(mission', status[i].id, status[i].seq, status[i].item, status[i].finished)
      <4>1. status[i] \in Statuses
        BY <1>1 DEF Typed
      <4> QED
        BY <2>1, <2>2, <4>1 DEF AllSane, StatusSane, Sane, Statuses, Ended
    <3> QED
      BY <3>1 DEF StatusEnded
  <2> QED
    BY <1>3, <2>3, <2>4 DEF AllEnded
<1> QED
  BY <1>4 DEF FlownInv, HeardInCharge

LEMMA ServiceEnds == ASSUME IInv, FlownInv, Service PROVE FlownInv'
<1>1. PICK op \in Ops : Does(op)
  BY DEF Service
<1>2. op \in AllOps /\ Good(mission)
  BY ConstantsAssumption DEF IInv
<1>3. UNCHANGED <<progress, status, charge, completed, replaced, epoch>>
  BY DEF Service, patrol
<1>4. CASE op = "upload"
  <2>1. PICK route \in Routes : mission' = Upload(mission, route) /\ UNCHANGED latched
    BY <1>1, <1>4 DEF Does, UploadMission
  <2>2. route \in Seq(Commands)
    BY ConstantsAssumption
  <2>3. Moves(mission', mission) /\ ~mission'.delegated
    BY <1>2, <2>1, <2>2, UploadMoves
  <2> QED
    BY <1>3, <2>1, <2>3, MissionEnds DEF KeepsRoute
<1>5. CASE op \in {"start", "resume"}
  <2>1. PICK resume \in BOOLEAN : StartPatrol(resume) \/ StartOffboard(resume)
    BY <1>1, <1>5 DEF Does, Start, Resume
  <2>2. CASE StartOffboard(resume)
    <3>1. mission' \in {StartMission(mission), ResumeMission(mission), mission} /\ UNCHANGED latched
      BY <2>2 DEF StartOffboard
    <3>2. Moves(mission', mission) /\ KeepsRoute(mission', mission)
      BY <1>2, <3>1, CalmMethods, StartMoves, RouteMethods DEF Calm
    <3> QED
      BY <1>3, <3>1, <3>2, MissionEnds
  <2> QED
    BY <1>3, <2>1, <2>2, DelegateEnds
<1>6. CASE op \in {"pause", "stop", "hold", "rtl"}
  <2>1. mission' \in {mission, PauseMission(mission), StopMission(mission)} /\ UNCHANGED latched
    BY <1>1, <1>6 DEF Does, Interrupt, Release
  <2>2. Moves(mission', mission) /\ KeepsRoute(mission', mission)
    BY <1>2, <2>1, CalmMethods, RouteMethods DEF Calm
  <2> QED
    BY <1>3, <2>1, <2>2, MissionEnds
<1>7. CASE op = "clear"
  <2>1. mission' = ClearMission(mission) /\ UNCHANGED latched
    BY <1>1, <1>7 DEF Does, Clear
  <2> QED
    BY <1>2, <1>3, <2>1, ClearMoves, RouteMethods, MissionEnds
<1>8. CASE op = "goto"
  <2>1. PICK i \in 0 .. Len(mission.route) - 1 : mission' = GotoItem(mission, i) /\ UNCHANGED latched
    BY <1>1, <1>8 DEF Does, GotoMissionItem
  <2>2. i \in Nat
    BY <1>2 DEF Good, Numbered
  <2> QED
    BY <1>2, <1>3, <2>1, <2>2, GotoMoves, RouteMethods, MissionEnds
<1> QED
  BY <1>2, <1>4, <1>5, <1>6, <1>7, <1>8 DEF AllOps

LEMMA CoreStepEnds == ASSUME IInv, FlownInv, CoreStep PROVE FlownInv'
<1>1. UNCHANGED <<latched, progress, status, charge, completed, replaced, epoch>> /\ Good(mission)
  BY DEF CoreStep, ByCore, topics, patrol, IInv
<1>2. mission' \in {mission, FailMission(mission), FinishMission(mission), [mission EXCEPT !.engaged = TRUE],
                    Reach(mission)}
  <2>1. CASE RunLater \/ Ack \/ NoAck \/ HeartbeatStale \/ OffboardGuard
    BY <2>1 DEF RunLater, Ack, NoAck, Answered, Unanswered, FailAndHold, HeartbeatStale, OffboardGuard
  <2>2. CASE CheckWaypoint
    BY <2>2 DEF CheckWaypoint, HandOver, FlyLeg, FailAndHold
  <2>3. CASE \E late, stuck, idle \in BOOLEAN : PostFlightCheck(late, stuck, idle)
    BY <2>3 DEF PostFlightCheck
  <2> QED
    BY <2>1, <2>2, <2>3 DEF CoreStep, ByCore
<1>3. Moves(mission', mission) /\ KeepsRoute(mission', mission)
  BY <1>1, <1>2, CalmMethods, ReachMoves, RouteMethods DEF Calm
<1> QED
  BY <1>1, <1>3, MissionEnds

LEMMA ReceiveEnds == ASSUME IInv, FlownInv, ReceiveStatus PROVE FlownInv'
<1> DEFINE s == Head(status)
<1>1. Good(mission) /\ Typed /\ status # <<>>
  BY DEF IInv, ReceiveStatus
<1>2. /\ s \in Statuses /\ Len(Tail(status)) = Len(status) - 1
      /\ \A i \in 1 .. Len(status) - 1 : Tail(status)[i] = status[i + 1]
  BY <1>1 DEF Typed
<1>3. /\ mission' = ApplyStatus(mission, s, seen.nav = "hold") /\ status' = Tail(status)
      /\ UNCHANGED <<latched, progress, charge, completed, replaced, epoch>>
  BY DEF ReceiveStatus, patrol, history
<1> HIDE DEF s
<1>4. Moves(mission', mission) /\ KeepsRoute(mission', mission)
  BY <1>1, <1>2, <1>3, StatusMoves, RouteMethods
<1>5. ASSUME epoch = 0, ~replaced
      PROVE AllEnded'
  <2>1. AllEnded /\ AllSane
    BY <1>5 DEF FlownInv, IInv
  <2>2. LatchedRoute'
    BY <1>1, <1>3, <1>4, <2>1, EndedMoves DEF AllEnded, LatchedRoute, AllSane, LatchedSane, Sane, Typed, Plans
  <2>3. ProgressRoute' /\ ProgressEnded'
    BY <1>1, <1>3, <1>4, <2>1, EndedMoves
       DEF AllEnded, ProgressRoute, ProgressEnded, Over, AllSane, ProgressSane, Sane, Typed, Plans, Progresses
  <2>4. ASSUME NEW i \in 1 .. Len(status')
        PROVE Ended(mission', status'[i].id, status'[i].seq, status'[i].item, status'[i].finished)
    <3>1. i + 1 \in 1 .. Len(status) /\ status'[i] = status[i + 1] /\ status[i + 1] \in Statuses
      BY <1>1, <1>2, <1>3 DEF Typed
    <3> QED
      BY <1>1, <1>4, <2>1, <3>1, EndedMoves DEF AllEnded, StatusEnded, AllSane, StatusSane, Sane, Statuses
  <2> QED
    BY <2>2, <2>3, <2>4 DEF AllEnded, StatusEnded
<1> QED
  BY <1>3, <1>5 DEF FlownInv, HeardInCharge

LEMMA RestartEnds == ASSUME IInv, FlownInv, CoreRestarts PROVE FlownInv'
BY DEF CoreRestarts, patrol, IInv, Typed, FlownInv, HeardInCharge

LEMMA FlownInductive == Spec => []FlownInv
<1>1. Init => FlownInv
  <2> SUFFICES ASSUME Init PROVE FlownInv
    OBVIOUS
  <2>1. mission = NoMission /\ completed = "none" /\ replaced = FALSE
    BY DEF Init
  <2>2. \A id, seq : ~Ours(mission, id, seq)
    BY <2>1 DEF Ours, NoMission
  <2> QED
    BY <2>1, <2>2
       DEF FlownInv, HeardInCharge, AllEnded, LatchedRoute, ProgressRoute, ProgressEnded, StatusEnded, RouteOf, Ended
<1>2. IInv /\ FlownInv /\ [Next]_vars => FlownInv'
  BY ServiceEnds, CoreStepEnds, ReceiveEnds, RestartEnds, PatrolStepEnds, OutsideEnds, FaultEnds DEF Next
<1> QED
  BY <1>1, <1>2, Inductive, PTL DEF Spec

-----------------------------------------------------------------------------
(* The steps that finish a mission.                                        *)

LEMMA FlownAtEnd ==
  ASSUME Good(mission), ItemCovered, EndAt(mission.route, mission.item)
  PROVE Points(mission.route) \subseteq covered
<1>1. Points(mission.route) \subseteq 0 .. mission.item - 1
  BY PointsBefore DEF Good, Numbered
<1> QED
  BY <1>1 DEF ItemCovered

(* drone_core's own timer: the hand-over, the place behind the last item,  *)
(* and the last leg.                                                       *)
LEMMA CheckFinishes ==
  ASSUME Good(mission), ItemCovered, CheckWaypoint, mission'.finished, ~mission.finished
  PROVE Points(mission.route) \subseteq covered'
<1>1. mission.item \in Nat /\ mission.route \in Seq(Commands) /\ Len(mission.route) \in Nat
  BY DEF Good, Numbered
<1>2. CASE UNCHANGED covered /\ EndAt(mission.route, mission.item)
  BY <1>2, FlownAtEnd
<1>3. CASE mission' \in {FailMission(mission), [mission EXCEPT !.engaged = TRUE]}
  BY <1>3 DEF FailMission, Good, Shaped
<1>4. CASE mission' = Reach(mission) /\ covered' = covered \cup {mission.item}
  <2>1. mission.item + 1 >= Len(mission.route)
    BY <1>1, <1>4 DEF Reach, Good, Shaped
  <2>2. Points(mission.route) \subseteq 0 .. mission.item
    BY <1>1, <2>1 DEF Points
  <2> QED
    BY <1>1, <1>4, <2>2 DEF ItemCovered
<1> QED
  BY <1>2, <1>3, <1>4 DEF CheckWaypoint, HandOver, FlyLeg, FailAndHold, EndAt

(* drone_patrol's word that the plan sent last is finished.                *)
LEMMA StatusFinishes ==
  ASSUME IInv, FlownInv, epoch = 0, ~replaced, ReceiveStatus, mission'.finished, ~mission.finished
  PROVE Points(mission.route) \subseteq covered'
<1> DEFINE s == Head(status)
           n == Advance(mission, s)
<1>1. Good(mission) /\ Typed /\ status # <<>> /\ AllSane /\ AllEnded /\ UNCHANGED covered
  BY DEF IInv, ReceiveStatus, FlownInv, history
<1>2. s = status[1] /\ 1 \in 1 .. Len(status) /\ s \in Statuses
  BY <1>1 DEF Typed
<1>3. mission' = ApplyStatus(mission, s, seen.nav = "hold")
  BY DEF ReceiveStatus
<1>4. Shaped(n) /\ n.finished = mission.finished
  BY <1>1 DEF Advance, Good, Shaped
<1> HIDE DEF s, n
<1>5. IsForUs(mission, s) /\ s.finished
  BY <1>1, <1>3, <1>4 DEF ApplyStatus, n, FailMission, Shaped
<1>6. Ours(mission, s.id, s.seq)
  BY <1>5 DEF IsForUs, Ours
<1>7. EndAt(mission.route, s.item) /\ 0 .. s.item - 1 \subseteq covered
  BY <1>1, <1>2, <1>5, <1>6 DEF AllEnded, StatusEnded, Ended, AllSane, StatusSane, Sane
<1>8. Points(mission.route) \subseteq 0 .. s.item - 1
  BY <1>1, <1>2, <1>7, PointsBefore DEF Good, Numbered, Statuses
<1> QED
  BY <1>1, <1>7, <1>8

LEMMA FlownStep ==
  ASSUME IInv, FlownInv, TypeOK, [Next]_vars
  PROVE FinishesFlown
<1> SUFFICES ASSUME mission'.finished, ~mission.finished, asked' = asked, epoch = 0, ~replaced
             PROVE Points(mission.route) \subseteq covered'
  BY DEF FinishesFlown
<1>1. Good(mission) /\ ItemCovered /\ asked \in Nat
  BY ConstantsAssumption DEF IInv, AllSane, TypeOK, HistoryTyped
<1>2. CASE Service
  BY <1>1, <1>2 DEF Service
<1>3. CASE CoreStep
  <2>1. CASE CheckWaypoint
    BY <1>1, <2>1, CheckFinishes
  <2>2. CASE mission' \in {mission, FailMission(mission)}
    BY <1>1, <2>2 DEF FailMission, Good, Shaped
  <2>3. CASE RunLater \/ Ack \/ NoAck \/ HeartbeatStale \/ OffboardGuard
    BY <2>2, <2>3 DEF RunLater, Ack, NoAck, Answered, Unanswered, FailAndHold, HeartbeatStale, OffboardGuard
  <2>4. CASE \E late, stuck, idle \in BOOLEAN : PostFlightCheck(late, stuck, idle)
    BY <2>2, <2>4 DEF PostFlightCheck
  <2> QED
    BY <1>3, <2>1, <2>3, <2>4 DEF CoreStep, ByCore
<1>4. CASE ReceiveStatus
  BY <1>4, StatusFinishes
<1>5. CASE CoreRestarts
  BY <1>5 DEF CoreRestarts, NoMission
<1>6. CASE SeeNav \/ PatrolStep \/ Px4Takes \/ Failsafe \/ OffboardLost \/ Lands \/ Fault \/ NodeStarts
           \/ UNCHANGED vars
  BY <1>6 DEF SeeNav, PatrolStep, Px4Takes, Failsafe, OffboardLost, Lands, Fault, NodeStarts, core, vars
<1> QED
  BY <1>2, <1>3, <1>4, <1>5, <1>6 DEF Next

(* A mission that finishes by itself, told so by its own timer or by a     *)
(* status of drone_patrol, has flown every point before its end: also when *)
(* drone_patrol died and came back, and statuses were lost or came late.   *)
THEOREM FinishesOnlyFlown == Spec => FinishedMeansFlown
<1>1. IInv /\ FlownInv /\ TypeOK /\ [Next]_vars => [FinishesFlown]_vars
  BY FlownStep
<1> QED
  BY <1>1, Inductive, FlownInductive, TypeCorrect, PTL DEF Spec, FinishedMeansFlown

-----------------------------------------------------------------------------
(***************************************************************************)
(* A hold wins.                                                            *)
(*                                                                         *)
(* HoldIsObeyed speaks of the moment when no command is left to be sent.   *)
(* Until then the hold is under way: it is in the command queue, and what  *)
(* was queued behind it selects no mode.                                   *)
(***************************************************************************)

(* Behind place i no command selects another mode.                         *)
HoldsOn(queue, i) == \A j \in i + 1 .. Len(queue) : queue[j].what \in {"arm", "hold"}

HoldUnderWay ==
  \E i \in 1 .. Len(cmds) :
    /\ cmds[i].what = "hold" /\ HoldsOn(cmds, i)
    /\ i = 1 => answer = "none"
Holding == nav = "hold" /\ intent = "hold" /\ ~exec /\ HoldsOn(cmds, 0)
Obeys == HoldUnderWay \/ Holding
Quiet == ~mission.running /\ ~stream /\ Obeys

HoldInv == /\ answer # "none" => cmds # <<>>
           /\ last = "hold" /\ faults = 0 => Quiet

-----------------------------------------------------------------------------
(* The command queue.                                                      *)

LEMMA AppendHoldsOn ==
  ASSUME NEW queue \in Seq(Queued), NEW i \in Nat, HoldsOn(queue, i), NEW what \in {"arm", "hold"}
  PROVE HoldsOn(Append(queue, Command(what)), i)
<1> DEFINE longer == Append(queue, Command(what))
<1>1. Command(what) \in Queued /\ Command(what).what = what
  BY DEF Command, Queued
<1>2. Len(longer) = Len(queue) + 1 /\ longer[Len(queue) + 1] = Command(what)
      /\ \A j \in 1 .. Len(queue) : longer[j] = queue[j]
  BY <1>1
<1> HIDE DEF longer
<1>3. ASSUME NEW j \in i + 1 .. Len(longer)
      PROVE longer[j].what \in {"arm", "hold"}
  <2>1. CASE j = Len(queue) + 1
    BY <1>1, <1>2, <2>1
  <2>2. CASE j # Len(queue) + 1
    <3>1. j \in i + 1 .. Len(queue) /\ j \in 1 .. Len(queue)
      BY <1>2, <2>2
    <3> QED
      BY <1>2, <3>1 DEF HoldsOn
  <2> QED
    BY <2>1, <2>2
<1> QED
  BY <1>3 DEF HoldsOn, longer

LEMMA TailHoldsOn ==
  ASSUME NEW queue \in Seq(Queued), queue # <<>>, NEW i \in Nat, HoldsOn(queue, i)
  PROVE HoldsOn(Tail(queue), IF i = 0 THEN 0 ELSE i - 1)
<1>1. Len(Tail(queue)) = Len(queue) - 1 /\ \A j \in 1 .. Len(queue) - 1 : Tail(queue)[j] = queue[j + 1]
  OBVIOUS
<1>2. Len(queue) \in Nat
  OBVIOUS
<1>3. ASSUME NEW j \in (IF i = 0 THEN 0 ELSE i - 1) + 1 .. Len(Tail(queue))
      PROVE Tail(queue)[j].what \in {"arm", "hold"}
  <2>1. j + 1 \in i + 1 .. Len(queue) /\ j \in 1 .. Len(queue) - 1
    BY <1>1, <1>2
  <2> QED
    BY <1>1, <2>1 DEF HoldsOn
<1> QED
  BY <1>3 DEF HoldsOn

(* A hold that is queued is under way.                                     *)
LEMMA HoldAppended ==
  ASSUME cmds \in Seq(Queued), HoldInv, cmds' = Append(cmds, Command("hold")), UNCHANGED answer
  PROVE HoldUnderWay'
<1> DEFINE n == Len(cmds) + 1
<1>1. Command("hold") \in Queued /\ Command("hold").what = "hold"
  BY DEF Command, Queued
<1>2. Len(cmds') = n /\ cmds'[n] = Command("hold") /\ n \in 1 .. Len(cmds')
  BY <1>1
<1>3. HoldsOn(cmds', n)
  BY <1>2 DEF HoldsOn
<1>4. n = 1 => answer' = "none"
  BY DEF HoldInv
<1> QED
  BY <1>1, <1>2, <1>3, <1>4 DEF HoldUnderWay

(* The command in flight was answered; an arm may follow it.               *)
LEMMA HeadDropped ==
  ASSUME cmds \in Seq(Queued), cmds # <<>>, answer # "none", Obeys, answer' = "none",
         UNCHANGED <<nav, intent, exec>>,
         cmds' \in {Tail(cmds), Append(Tail(cmds), Command("arm"))}
  PROVE Obeys'
<1>1. Tail(cmds) \in Seq(Queued) /\ Len(Tail(cmds)) = Len(cmds) - 1 /\ Len(cmds) \in Nat
      /\ \A j \in 1 .. Len(cmds) - 1 : Tail(cmds)[j] = cmds[j + 1]
  OBVIOUS
<1>2. \A i \in Nat : HoldsOn(Tail(cmds), i) => HoldsOn(cmds', i)
  BY <1>1, AppendHoldsOn
<1>3. CASE Holding
  <2>1. HoldsOn(cmds', 0)
    BY <1>2, <1>3, TailHoldsOn DEF Holding
  <2> QED
    BY <1>3, <2>1 DEF Holding, Obeys
<1>4. CASE HoldUnderWay
  <2>1. PICK i \in 1 .. Len(cmds) : cmds[i].what = "hold" /\ HoldsOn(cmds, i) /\ i # 1
    BY <1>4 DEF HoldUnderWay
  <2>2. i \in Nat /\ i - 1 \in Nat /\ i - 1 \in 1 .. Len(cmds) - 1
    BY <1>1, <2>1
  <2>3. HoldsOn(cmds', i - 1)
    BY <1>2, <2>1, <2>2, TailHoldsOn
  <2>4. Tail(cmds)[i - 1] = cmds[i]
    BY <1>1, <2>2
  <2>5. i - 1 \in 1 .. Len(cmds') /\ cmds'[i - 1] = Tail(cmds)[i - 1]
    <3>1. Command("arm") \in Queued
      BY DEF Command, Queued
    <3> QED
      BY <1>1, <2>2, <3>1
  <2> QED
    BY <2>1, <2>3, <2>4, <2>5 DEF HoldUnderWay, Obeys
<1> QED
  BY <1>3, <1>4 DEF Obeys

LEMMA SameHolding == ASSUME Holding, UNCHANGED <<cmds, nav, intent, exec>> PROVE Holding'
BY DEF Holding, HoldsOn

(* PX4 takes the command in flight: a hold that it takes it obeys.         *)
LEMMA HeadTaken ==
  ASSUME TypeOK, Obeys, Px4Takes, faults' = faults
  PROVE Obeys'
<1>1. cmds \in Seq(Queued) /\ cmds # <<>> /\ answer = "none" /\ UNCHANGED cmds /\ faults \in Nat
  BY ConstantsAssumption DEF Px4Takes, TypeOK, CoreTyped, HistoryTyped
<1>2. Head(cmds) = cmds[1] /\ 1 \in 1 .. Len(cmds) /\ Len(cmds) \in Nat
  BY <1>1
<1>3. Accepts(cmds[1].what) \/ (Impossible(cmds[1].what) /\ UNCHANGED px4)
  BY <1>1, <1>2 DEF Px4Takes, Refused
<1>4. CASE Holding
  <2>1. cmds[1].what \in {"arm", "hold"}
    BY <1>2, <1>4 DEF Holding, HoldsOn
  <2>2. CASE UNCHANGED px4
    BY <1>1, <1>4, <2>2, SameHolding DEF px4, Obeys
  <2>3. CASE Accepts(cmds[1].what)
    <3>1. nav' = "hold" /\ intent' = "hold" /\ (exec' = FALSE \/ exec' = (exec \/ nav = "patrol"))
      BY <1>4, <2>1, <2>3 DEF Holding, Accepts, Select, Leave
    <3>2. ~exec'
      BY <1>4, <3>1 DEF Holding
    <3> QED
      BY <1>1, <1>4, <3>1, <3>2 DEF Holding, Obeys
  <2> QED
    BY <1>3, <2>2, <2>3
<1>5. CASE HoldUnderWay
  <2>1. PICK i \in 1 .. Len(cmds) : cmds[i].what = "hold" /\ HoldsOn(cmds, i)
    BY <1>5 DEF HoldUnderWay
  <2>2. CASE i = 1
    <3>1. nav' = "hold" /\ intent' = "hold" /\ ~exec'
      BY <1>3, <2>1, <2>2 DEF Accepts, Impossible, Select, Leave
    <3>2. HoldsOn(cmds, 0)
      <4>1. \A j \in 1 .. Len(cmds) : j = 1 \/ j \in 1 + 1 .. Len(cmds)
        BY <1>2
      <4> QED
        BY <2>1, <2>2, <4>1 DEF HoldsOn
    <3> QED
      BY <1>1, <3>1, <3>2 DEF Holding, Obeys
  <2>3. CASE i # 1
    BY <1>1, <2>1, <2>3 DEF HoldUnderWay, Obeys
  <2> QED
    BY <2>2, <2>3
<1> QED
  BY <1>4, <1>5 DEF Obeys

LEMMA SameObeys ==
  ASSUME Obeys, UNCHANGED <<cmds, answer, nav, intent, exec>>
  PROVE Obeys'
BY SameHolding DEF Obeys, HoldUnderWay, HoldsOn

-----------------------------------------------------------------------------
(* The steps, once a hold was asked for.                                   *)

LEMMA AskedToHold == ASSUME TypeOK, HoldInv, Service, last' = "hold" PROVE Quiet'
<1>1. Release("hold") /\ UNCHANGED answer /\ cmds \in Seq(Queued)
  BY DEF Service, Does, TypeOK, CoreTyped
<1>2. ~mission'.running
  BY <1>1 DEF Release, PauseMission, TypeOK, MissionTyped, Missions
<1>3. HoldUnderWay'
  BY <1>1, HoldAppended DEF Release
<1> QED
  BY <1>1, <1>2, <1>3 DEF Release, Quiet, Obeys

LEMMA CoreQuiet ==
  ASSUME TypeOK, HoldInv, Quiet, CoreStep, faults' = faults
  PROVE Quiet'
<1>1. cmds \in Seq(Queued) /\ faults \in Nat /\ ~mission.running /\ ~stream /\ Obeys
      /\ UNCHANGED <<nav, intent, exec>>
  BY ConstantsAssumption DEF TypeOK, CoreTyped, HistoryTyped, Quiet, CoreStep, ByCore, px4
<1>2. CASE RunLater
  <2>1. UNCHANGED <<mission, stream, cmds, answer>>
    BY <1>1, <1>2 DEF RunLater
  <2> QED
    BY <1>1, <2>1, SameObeys DEF Quiet
<1>3. CASE Ack
  <2>1. mission' = mission /\ ~stream' /\ answer' = "none"
        /\ cmds' \in {Tail(cmds), Append(Tail(cmds), Command("arm"))}
    BY <1>1, <1>3 DEF Ack, Answered, FailAndHold, FailMission
  <2> QED
    BY <1>1, <1>3, <2>1, HeadDropped DEF Ack, Quiet
<1>4. CASE NoAck
  BY <1>1, <1>4 DEF NoAck
<1>5. CASE CheckWaypoint
  BY <1>1, <1>5 DEF CheckWaypoint
<1>6. CASE OffboardGuard \/ HeartbeatStale
  <2>1. mission' = mission /\ ~stream' /\ UNCHANGED <<cmds, answer>>
    <3>1. FailMission(mission) = mission
      BY <1>1 DEF FailMission
    <3>2. CASE OffboardGuard
      <4>1. PICK stale \in BOOLEAN :
                 /\ stream' = (stream /\ ~(stale \/ (lastOff /\ seen.nav # "offboard")))
                 /\ mission' \in {mission, FailMission(mission)}
                 /\ UNCHANGED <<cmds, answer>>
        BY <3>2 DEF OffboardGuard
      <4>2. ~stream'
        BY <1>1, <4>1
      <4> QED
        BY <3>1, <4>1, <4>2
    <3>3. CASE HeartbeatStale
      BY <1>1, <3>3 DEF HeartbeatStale
    <3> QED
      BY <1>6, <3>2, <3>3
  <2> QED
    BY <1>1, <2>1, SameObeys DEF Quiet
<1>7. ASSUME NEW late \in BOOLEAN, NEW stuck \in BOOLEAN, NEW idle \in BOOLEAN,
             PostFlightCheck(late, stuck, idle)
      PROVE Quiet'
  <2>1. mission' = mission /\ ~stream' /\ UNCHANGED answer
        /\ (cmds' = cmds \/ cmds' = Append(cmds, Command("hold")))
    BY <1>1, <1>7 DEF PostFlightCheck, Abandoned
  <2> QED
    BY <1>1, <2>1, SameObeys, HoldAppended DEF Quiet, Obeys
<1> QED
  BY <1>2, <1>3, <1>4, <1>5, <1>6, <1>7 DEF CoreStep, ByCore

(* drone_patrol moves the vehicle only while its executor is in charge.    *)
LEMMA PatrolObeys ==
  ASSUME Obeys, PatrolStep
  PROVE Obeys'
<1>1. UNCHANGED <<cmds, answer>>
  BY DEF PatrolStep, core
<1>2. CASE HoldUnderWay
  BY <1>1, <1>2 DEF HoldUnderWay, HoldsOn, Obeys
<1>3. CASE Holding
  <2>1. UNCHANGED <<nav, intent, exec>>
    BY <1>3 DEF Holding, PatrolStep, ReadPlan, Heartbeat, Register, Activate, Deactivate, TakenOff, Fly,
                Completed, px4
  <2> QED
    BY <1>1, <1>3, <2>1, SameObeys DEF Obeys
<1> QED
  BY <1>2, <1>3 DEF Obeys

LEMMA Px4Obeys ==
  ASSUME Obeys, Failsafe \/ OffboardLost \/ Lands
  PROVE Obeys'
<1>1. UNCHANGED <<cmds, answer>>
  BY DEF Failsafe, OffboardLost, Lands, core
<1>2. ~Holding
  BY DEF Holding, Failsafe, OffboardLost, Lands
<1> QED
  BY <1>1, <1>2 DEF Obeys, HoldUnderWay, HoldsOn

LEMMA QuietKept ==
  ASSUME TypeOK, HoldInv, [Next]_vars, last' = "hold", faults' = 0
  PROVE Quiet'
<1>1. CASE Service
  BY <1>1, AskedToHold
<1> SUFFICES ASSUME ~Service PROVE Quiet'
  BY <1>1
<1>2. faults \in Nat
  BY ConstantsAssumption DEF TypeOK, HistoryTyped
<1>3. last = "hold" /\ faults' = faults
  <2>1. UNCHANGED last /\ faults' \in {faults, faults + 1}
    BY DEF Next, CoreStep, ByCore, RunLater, Ack, NoAck, CheckWaypoint, OffboardGuard, PostFlightCheck,
           HeartbeatStale, ReceiveStatus, SeeNav, CoreRestarts, PatrolStep, Px4Takes, Refused, Failsafe,
           OffboardLost, Lands, Fault, NodeStarts, vars, bounds
  <2> QED
    BY <1>2, <2>1
<1>4. Quiet
  BY <1>3 DEF HoldInv
<1>5. CASE CoreStep
  BY <1>3, <1>4, <1>5, CoreQuiet
<1>6. CASE ReceiveStatus
  <2>1. mission' = mission /\ UNCHANGED <<stream, cmds, answer, nav, intent, exec>>
    BY <1>4, <1>6 DEF ReceiveStatus, ApplyStatus, IsForUs, Quiet, px4
  <2> QED
    BY <1>4, <2>1, SameObeys DEF Quiet
<1>7. CASE CoreRestarts \/ Fault
  BY <1>2, <1>3, <1>7 DEF CoreRestarts, Fault
<1>8. CASE PatrolStep
  BY <1>4, <1>8, PatrolObeys DEF Quiet, PatrolStep, core
<1>9. CASE Px4Takes
  BY <1>3, <1>4, <1>9, HeadTaken DEF Quiet, Px4Takes
<1>10. CASE Failsafe \/ OffboardLost \/ Lands
  BY <1>4, <1>10, Px4Obeys DEF Quiet, Failsafe, OffboardLost, Lands, core
<1>11. CASE SeeNav \/ NodeStarts \/ UNCHANGED vars
  BY <1>4, <1>11, SameObeys DEF Quiet, SeeNav, NodeStarts, vars, core, px4
<1> QED
  BY <1>5, <1>6, <1>7, <1>8, <1>9, <1>10, <1>11 DEF Next

(* Only a command in flight has an answer.                                 *)
LEMMA AnswersKept ==
  ASSUME TypeOK, HoldInv, [Next]_vars, answer' # "none"
  PROVE cmds' # <<>>
<1>1. cmds \in Seq(Queued) /\ (answer # "none" => cmds # <<>>)
  BY DEF TypeOK, CoreTyped, HoldInv
<1>2. \A e : Append(cmds, e) # <<>>
  BY <1>1
<1>3. CASE UNCHANGED answer /\ (cmds' = cmds \/ \E e : cmds' = Append(cmds, e))
  BY <1>1, <1>2, <1>3
<1>4. CASE Service
  <2>1. PICK op \in Ops : Does(op)
    BY <1>4 DEF Service
  <2>2. op \in AllOps /\ UNCHANGED answer
    BY <1>4, ConstantsAssumption DEF Service
  <2> QED
    BY <1>3, <2>1, <2>2 DEF Does, AllOps, UploadMission, Start, Resume, StartPatrol, StartOffboard, Interrupt,
                            Clear, GotoMissionItem, Release
<1>5. CASE CoreStep
  <2>1. CASE Ack \/ NoAck
    BY <2>1 DEF Ack, NoAck, Answered, Unanswered
  <2>2. CASE RunLater \/ OffboardGuard \/ HeartbeatStale
    BY <1>3, <2>2 DEF RunLater, OffboardGuard, HeartbeatStale
  <2>3. CASE CheckWaypoint
    BY <1>3, <2>3 DEF CheckWaypoint, HandOver, FlyLeg, FailAndHold
  <2>4. CASE \E late, stuck, idle \in BOOLEAN : PostFlightCheck(late, stuck, idle)
    BY <1>3, <2>4 DEF PostFlightCheck
  <2> QED
    BY <1>5, <2>1, <2>2, <2>3, <2>4 DEF CoreStep, ByCore
<1>6. CASE Px4Takes \/ CoreRestarts
  BY <1>6 DEF Px4Takes, CoreRestarts
<1>7. CASE ReceiveStatus \/ SeeNav \/ PatrolStep \/ Failsafe \/ OffboardLost \/ Lands \/ Fault \/ NodeStarts
           \/ UNCHANGED vars
  BY <1>3, <1>7 DEF ReceiveStatus, SeeNav, PatrolStep, Failsafe, OffboardLost, Lands, Fault, NodeStarts, vars, core
<1> QED
  BY <1>4, <1>5, <1>6, <1>7 DEF Next

(* After a hold, without faults, drone_core neither runs a mission nor     *)
(* streams setpoints, and once its commands are sent the vehicle is in     *)
(* none of the modes that fly one: late one-shots, answers and executor    *)
(* callbacks included (release_control_to_px4, run_after, DroneAgent).     *)
THEOREM HoldObeyed == Spec => []HoldIsObeyed
<1>1. Init => HoldInv
  BY DEF Init, HoldInv
<1>2. TypeOK /\ HoldInv /\ [Next]_vars => HoldInv'
  BY QuietKept, AnswersKept DEF HoldInv
<1>3. TypeOK /\ HoldInv => HoldIsObeyed
  <2> SUFFICES ASSUME TypeOK, HoldInv, last = "hold", faults = 0, cmds = <<>>
               PROVE ~mission.running /\ nav = "hold"
    BY DEF HoldIsObeyed
  <2>1. Quiet /\ ~HoldUnderWay
    BY DEF HoldInv, HoldUnderWay
  <2> QED
    BY <2>1 DEF Quiet, Obeys, Holding
<1> QED
  BY <1>1, <1>2, <1>3, TypeCorrect, PTL DEF Spec
=============================================================================
