---------------------------- MODULE MissionManager ----------------------------
(***************************************************************************)
(* class MissionManager (drone_core/mission_manager.cpp): its fields as a  *)
(* record, its methods as functions from the record to the record.  A      *)
(* mission is flown by drone_core in OFFBOARD or delegated to the onboard  *)
(* mode PATROL.  Times, speeds and coordinates are left out: a waypoint is *)
(* "point", the item that hands over to PX4 (RTL or LAND) is "end".        *)
(***************************************************************************)
EXTENDS Integers, Sequences

Commands == {"point", "end"}

(* engaged stands for offboard_engaged_ and delegated_engaged_: each start *)
(* clears its own, and only the one of the current run is read.            *)
NoMission ==
  [valid |-> FALSE, running |-> FALSE, paused |-> FALSE, finished |-> FALSE, failed |-> FALSE,
   item |-> 0, id |-> 0, route |-> <<>>, delegated |-> FALSE, engaged |-> FALSE,
   timer |-> FALSE, seq |-> 0, next |-> 1]

Missions(routes, MaxId) ==
  [valid : BOOLEAN, running : BOOLEAN, paused : BOOLEAN, finished : BOOLEAN, failed : BOOLEAN,
   item : Nat, id : 0 .. MaxId, route : routes \cup {<<>>}, delegated : BOOLEAN, engaged : BOOLEAN,
   timer : BOOLEAN, seq : 0 .. MaxId, next : 1 .. MaxId + 1]

(* Items count from 0.                                                     *)
IsEnd(route, i) == i < Len(route) /\ route[i + 1] = "end"

(* busy_reason (drone_controller.cpp): one mission at a time.              *)
Busy(m) == m.running \/ m.paused

Upload(m, route) ==
  [m EXCEPT !.valid = TRUE, !.running = FALSE, !.paused = FALSE, !.finished = FALSE,
            !.failed = FALSE, !.item = 0, !.route = route, !.delegated = FALSE,
            !.id = m.next, !.next = m.next + 1]

Runs(m) == [m EXCEPT !.running = TRUE, !.paused = FALSE, !.failed = FALSE, !.engaged = FALSE]

MayStart(m) == m.valid /\ ~m.running
StartMission(m) ==
  [Runs(m) EXCEPT !.finished = FALSE, !.item = 0, !.delegated = FALSE, !.timer = TRUE]

MayResume(m) == m.valid /\ ~m.running /\ ~m.finished
ResumeMission(m) == [Runs(m) EXCEPT !.delegated = FALSE, !.timer = TRUE]

(* start_delegated: a plan number of its own for every start and resume.   *)
FirstItem(m, resume) == IF resume THEN m.item ELSE 0
MayDelegate(m, resume) ==
  /\ m.valid /\ m.route # <<>> /\ ~m.running
  /\ resume => ~m.finished
  /\ FirstItem(m, resume) < Len(m.route)
StartDelegated(m, resume) ==
  [Runs(m) EXCEPT !.finished = FALSE, !.item = FirstItem(m, resume), !.delegated = TRUE,
                  !.timer = FALSE, !.seq = m.seq + 1]

PauseAlways(m) == [m EXCEPT !.running = FALSE, !.paused = TRUE, !.timer = FALSE]
PauseMission(m) ==
  IF m.running THEN [m EXCEPT !.running = FALSE, !.paused = TRUE, !.timer = FALSE] ELSE m

StopMission(m) ==
  IF m.running \/ m.valid
  THEN [m EXCEPT !.running = FALSE, !.finished = TRUE, !.paused = FALSE, !.timer = FALSE]
  ELSE m

FailMission(m) ==
  IF m.running
  THEN [m EXCEPT !.running = FALSE, !.finished = FALSE, !.failed = TRUE, !.timer = FALSE]
  ELSE m

(* The status starts over; the timer and the delegation stay as they are.  *)
ClearMission(m) ==
  [m EXCEPT !.valid = FALSE, !.running = FALSE, !.paused = FALSE, !.finished = FALSE,
            !.failed = FALSE, !.item = 0, !.id = 0, !.route = <<>>]

GotoItem(m, i) == IF m.valid /\ i < Len(m.route) THEN [m EXCEPT !.item = i] ELSE m

FinishMission(m) == [m EXCEPT !.running = FALSE, !.finished = TRUE, !.timer = FALSE]

(* check_waypoint_completion, the current waypoint being reached.          *)
Reach(m) ==
  LET next == [m EXCEPT !.item = @ + 1, !.engaged = TRUE]
  IN IF next.item < Len(m.route) THEN next ELSE FinishMission(next)

(* apply_patrol_status: progress of the plan sent last, while it runs.     *)
OfAnyPlan(m, s) == m.delegated /\ s.id = m.id /\ m.running
IsForUs(m, s) == m.delegated /\ s.seq = m.seq /\ s.id = m.id /\ m.running
Advance(m, s) ==
  [m EXCEPT !.item = IF s.item <= Len(m.route) THEN s.item ELSE @,
            !.engaged = @ \/ s.state \in {"TAKEOFF", "PATROL"}]
ApplyStatus(m, s, inHold) ==
  LET n == Advance(m, s)
  IN CASE ~IsForUs(m, s) -> m
       [] IsForUs(m, s) /\ s.failed -> FailMission(n)
       [] IsForUs(m, s) /\ ~s.failed /\ s.finished ->
            [n EXCEPT !.running = FALSE, !.finished = TRUE]
       [] IsForUs(m, s) /\ ~s.failed /\ ~s.finished ->
            IF n.engaged /\ s.state = "DEACTIVATED"
            THEN IF s.why = "mode" /\ inHold
                 THEN [n EXCEPT !.running = FALSE, !.paused = TRUE]
                 ELSE FailMission(n)
            ELSE n
=============================================================================
