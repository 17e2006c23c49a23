------------------------------ MODULE PatrolNode ------------------------------
(***************************************************************************)
(* drone_patrol (drone_patrol/src/patrol_node.cpp): struct Progress as a   *)
(* record, the callbacks of PatrolNode, PatrolMode and PatrolExecutor as   *)
(* functions on it.  One thread runs them all.                             *)
(***************************************************************************)
EXTENDS Integers, Sequences

(* PatrolPlan; `ground` says that it has a take-off altitude.  `epoch` is  *)
(* no field of the message: it tells the plans of two lives of drone_core  *)
(* apart.                                                                  *)
NoPlan == [id |-> 0, seq |-> 0, start |-> 0, route |-> <<>>, ground |-> FALSE, epoch |-> 0]
NoProgress == [plan |-> NoPlan, item |-> 0, state |-> "IDLE", running |-> FALSE,
               finished |-> FALSE, failed |-> FALSE, why |-> "none"]

States == {"IDLE", "TAKEOFF", "PATROL", "RTL", "HOLD", "DONE", "FAILED", "DEACTIVATED"}
Reasons == {"none", "mode", "failsafe", "other"}

PlanValid(p) == p.plan.route # <<>>
AtEnd(p) == p.item >= Len(p.plan.route) \/ p.plan.route[p.item + 1] = "end"

(* PatrolNode::onPlan.                                                     *)
OnPlanKept(p, plan, inCharge) ==
  [p EXCEPT !.plan = plan, !.item = plan.start, !.state = IF inCharge THEN "PATROL" ELSE "IDLE",
            !.running = inCharge]
OnPlan(p, plan, inCharge) ==
  [plan |-> plan, item |-> plan.start, state |-> IF inCharge THEN "PATROL" ELSE "IDLE",
   running |-> inCharge, finished |-> FALSE, failed |-> FALSE, why |-> "none"]

FailPlan(p) == [p EXCEPT !.failed = TRUE, !.running = FALSE, !.why = "other", !.state = "FAILED"]

(* PatrolExecutor::hold.                                                   *)
HoldOn(p) == IF p.state = "DONE" THEN p
             ELSE [p EXCEPT !.state = IF p.failed THEN "FAILED" ELSE "HOLD"]

(* PatrolExecutor::onActivate: hold, take off, or fly the route at once.   *)
MayFly(p, landed) == PlanValid(p) /\ ~p.finished /\ ~p.failed /\ (landed => p.plan.ground)
OnActivate(p, landed) ==
  CASE MayFly(p, landed) ->
         [p EXCEPT !.running = TRUE, !.state = IF landed THEN "TAKEOFF" ELSE "PATROL"]
    [] ~MayFly(p, landed) /\ PlanValid(p) /\ (p.finished \/ p.failed) -> HoldOn(p)
    [] OTHER -> HoldOn(FailPlan(p))

OnDeactivate(p, cause) ==
  IF p.running THEN [p EXCEPT !.running = FALSE, !.state = "DEACTIVATED", !.why = cause] ELSE p

ReachItem(p) == [p EXCEPT !.item = @ + 1]

(* PatrolExecutor::finish: an "end" item returns home (or lands), else     *)
(* hold, which leaves DONE as it is.                                       *)
FinishPlan(p) ==
  [p EXCEPT !.running = FALSE, !.finished = TRUE,
            !.state = IF p.item < Len(p.plan.route) /\ p.plan.route[p.item + 1] = "end"
                      THEN "RTL" ELSE "DONE"]

(* PatrolExecutor::onStepFailed.                                           *)
StepFailed(p) == HoldOn(IF p.failed THEN p ELSE FailPlan(p))

(* PatrolNode::publishStatus.                                              *)
StatusOf(p, registered) ==
  [id |-> p.plan.id, seq |-> p.plan.seq, item |-> p.item, state |-> p.state,
   finished |-> p.finished, failed |-> p.failed, why |-> p.why, registered |-> registered]
=============================================================================
