----------------------------- MODULE PatrolMission -----------------------------
(***************************************************************************)
(* A mission of one drone: drone_core's mission handlers                   *)
(* (drone_controller.cpp over MissionManager), drone_patrol (PatrolNode),  *)
(* the two topics between them, and PX4 as both see it.                    *)
(*                                                                         *)
(* drone_core and drone_patrol are one thread each, so a callback is a     *)
(* step.  Vehicle commands go through DroneAgent: one at a time, in order, *)
(* each callback called once.  PX4 has a mode, an arming state, and an     *)
(* executor in charge (drone_patrol's, or none).                           *)
(***************************************************************************)
EXTENDS MissionManager, PatrolNode, SequencesExt

CONSTANTS
  Begins,       (* where the vehicle and drone_patrol are at first          *)
  Routes,       (* what operators upload                                    *)
  Ops,          (* what operators ask for, a subset of AllOps               *)
  MaxControls,  (* bound: requests of operators                             *)
  MaxFaults,    (* bound: deaths, mode switches, failsafes, lost commands   *)
  Depth         (* depth of the status topic's queue (10 in the code)       *)

AllOps == {"upload", "start", "resume", "pause", "stop", "clear", "goto", "hold", "rtl"}

ASSUME ConstantsAssumption ==
  /\ Begins \subseteq {"disarmed", "flying"} \X {"down", "registered"}
  /\ Routes \subseteq Seq(Commands) /\ <<>> \notin Routes /\ Ops \subseteq AllOps
  /\ MaxControls \in Nat /\ MaxFaults \in Nat /\ Depth \in Nat \ {0}

VARIABLES
  mission,    (* MissionManager                                             *)
  stream,     (* OffboardControl::is_active                                 *)
  lastOff,    (* last_nav_state_ = OFFBOARD                                 *)
  heard,      (* patrol_status_: "no" (not fresh), "fresh", "registered"    *)
  known,      (* patrol_nav_state_ # 0: which nav_state PATROL is           *)
  later,      (* one-shots of run_after that are due                        *)
  cmds,       (* DroneAgent's queue, its head in flight                     *)
  answer,     (* PX4's answer to the command in flight                      *)
  latched,    (* the plan on /patrol/plan                                   *)
  unread,     (* drone_patrol has yet to read it                            *)
  status,     (* /patrol/status, sent and not received                      *)
  progress,   (* drone_patrol: Progress                                     *)
  node,       (* drone_patrol: "down", "up", "registered"                   *)
  charge,     (* drone_patrol: the executor knows it is in charge           *)
  completed,  (* drone_patrol: the mode's result the executor hasn't heard  *)
  nav,        (* PX4: nav_state                                             *)
  intent,     (* PX4: nav_state_user_intention, the mode last selected      *)
  seen,       (* both as drone_core last received them                      *)
  air,        (* PX4: "disarmed", "armed" (on the ground), "flying"         *)
  exec,       (* PX4: drone_patrol's executor is in charge                  *)
  cause,      (* PX4: why it last was not any more                          *)
  covered,    (* history: items of this mission reached, or jumped over     *)
  replaced,   (* history: a plan came while the executor was in charge      *)
  epoch,      (* history: restarts of drone_core                            *)
  last, asked, faults

core == <<mission, stream, lastOff, heard, known, later, cmds, answer>>
topics == <<latched, unread, status>>
patrol == <<progress, node, charge, completed>>
px4 == <<nav, intent, air, exec, cause>>
link == <<lastOff, heard, known>>
history == <<covered, replaced, epoch>>
bounds == <<last, asked, faults>>
vars == <<core, topics, patrol, px4, seen, history, bounds>>

Init ==
  /\ mission = NoMission /\ stream = FALSE /\ lastOff = FALSE /\ heard = "no" /\ known = FALSE
  /\ later = <<>> /\ cmds = <<>> /\ answer = "none"
  /\ latched = NoPlan /\ unread = FALSE /\ status = <<>>
  /\ progress = NoProgress /\ \E begin \in Begins : air = begin[1] /\ node = begin[2]
  /\ charge = FALSE /\ completed = "none"
  /\ exec = FALSE /\ nav = "hold" /\ intent = "hold" /\ seen = [nav |-> "hold", intent |-> "hold"]
  /\ cause = "none"
  /\ covered = {} /\ replaced = FALSE /\ epoch = 0
  /\ last = "none" /\ asked = 0 /\ faults = 0

Command(what) == [what |-> what, arm |-> FALSE]

(* fail_mission with request_hold: the failure handler asks PX4 to hold.   *)
FailAndHold(queue) ==
  /\ mission' = FailMission(mission)
  /\ cmds' = IF mission.running THEN Append(queue, Command("hold")) ELSE queue
  /\ stream' = (stream /\ (mission.running => seen.nav = "offboard"))

-----------------------------------------------------------------------------
(* The services: upload_mission, mission_control, hold, return_to_launch.  *)

UploadMission ==
  /\ ~Busy(mission)
  /\ \E route \in Routes : mission' = Upload(mission, route)
  /\ covered' = {}
  /\ UNCHANGED <<stream, later, cmds, latched, unread>>

(* patrol_start: publish the plan, select PATROL 300 ms later.             *)
Plan(m) == [id |-> m.id, seq |-> m.seq, start |-> m.item, route |-> m.route,
            ground |-> air # "flying", epoch |-> epoch]
StartPatrol(resume) ==
  /\ heard = "registered" /\ MayDelegate(mission, resume)
  /\ mission' = StartDelegated(mission, resume)
  /\ latched' = Plan(mission') /\ unread' = (node # "down")
  /\ later' = Append(later, [Command("patrol") EXCEPT !.arm = (air = "disarmed")])
  /\ stream' = FALSE
  /\ covered' = IF resume THEN covered ELSE {}
  /\ UNCHANGED cmds

(* Without drone_patrol: fly it in OFFBOARD, switching to it 1.1 s later.  *)
(* A RESUME of a mission that runs is accepted and switches all the same.  *)
StartOffboard(resume) ==
  /\ heard # "registered" /\ (seen.nav = "offboard" \/ air = "flying")
  /\ \/ ~resume /\ MayStart(mission) /\ mission' = StartMission(mission) /\ covered' = {}
     \/ resume /\ MayResume(mission) /\ mission' = ResumeMission(mission) /\ UNCHANGED covered
     \/ resume /\ mission.running /\ UNCHANGED <<mission, covered>>
  /\ IF seen.nav = "offboard" THEN UNCHANGED <<stream, later>>
     ELSE stream' = TRUE /\ later' = Append(later, Command("offboard"))
  /\ UNCHANGED <<cmds, latched, unread>>

Start == ~Busy(mission) /\ (StartPatrol(FALSE) \/ StartOffboard(FALSE))
Resume == StartPatrol(TRUE) \/ StartOffboard(TRUE)

(* PAUSE and STOP hold the drone if vehicle_status says PATROL.            *)
Interrupt(halted) ==
  /\ mission' = halted
  /\ cmds' = IF known /\ seen.nav = "patrol" THEN Append(cmds, Command("hold")) ELSE cmds
  /\ UNCHANGED <<stream, later, latched, unread, covered>>

Clear == mission' = ClearMission(mission) /\ UNCHANGED <<stream, later, cmds, latched, unread, covered>>

(* Sends MISSION_START to PX4, which has no mission of its own.            *)
GotoMissionItem ==
  \E i \in 0 .. Len(mission.route) - 1 :
    /\ mission.valid /\ mission' = GotoItem(mission, i)
    /\ cmds' = Append(cmds, Command("none"))
    /\ covered' = covered \cup 0 .. i - 1
    /\ UNCHANGED <<stream, later, latched, unread>>

(* release_control_to_px4, then the command.                               *)
Release(what) ==
  /\ mission' = IF what = "hold" THEN PauseMission(mission)
                ELSE IF Busy(mission) THEN StopMission(mission) ELSE mission
  /\ stream' = FALSE
  /\ cmds' = Append(cmds, Command(what))
  /\ UNCHANGED <<later, latched, unread, covered>>

Does(op) ==
  CASE op = "upload" -> UploadMission
    [] op = "start"  -> Start
    [] op = "resume" -> Resume
    [] op = "pause"  -> Interrupt(PauseMission(mission))
    [] op = "stop"   -> Interrupt(StopMission(mission))
    [] op = "clear"  -> Clear
    [] op = "goto"   -> GotoMissionItem
    [] op = "hold"   -> Release("hold")
    [] op = "rtl"    -> Release("rtl")

Service ==
  \E op \in Ops :
    /\ asked < MaxControls /\ asked' = asked + 1 /\ last' = op
    /\ Does(op)
    /\ UNCHANGED <<lastOff, heard, known, answer, status, patrol, px4, seen, replaced, epoch, faults>>

-----------------------------------------------------------------------------
(* drone_core: timers, messages and the callbacks of its commands.         *)

(* run_after's one-shots look again whether they are still wanted.         *)
RunLaterUnasked ==
  \E i \in 1 .. Len(later) :
    /\ later' = RemoveAt(later, i) /\ cmds' = Append(cmds, later[i])
    /\ UNCHANGED <<mission, stream, answer, covered, faults>> /\ UNCHANGED link
RunLater ==
  \E i \in 1 .. Len(later) :
    /\ later' = RemoveAt(later, i)
    /\ cmds' = IF \/ later[i].what = "patrol" /\ mission.running /\ mission.delegated
                  \/ later[i].what = "offboard" /\ mission.running /\ stream
               THEN Append(cmds, later[i]) ELSE cmds
    /\ UNCHANGED <<mission, stream, answer, covered, faults>> /\ UNCHANGED link

(* The callback of the command in flight: no look at the mission's state.  *)
Answered(ok) ==
  LET rest == Tail(cmds)  what == Head(cmds).what
  IN /\ answer' = "none"
     /\ IF what = "arm" /\ ~ok THEN FailAndHold(rest)
        ELSE /\ mission' = IF what = "patrol" /\ ~ok THEN FailMission(mission) ELSE mission
             /\ cmds' = IF what = "patrol" /\ ok /\ Head(cmds).arm
                        THEN Append(rest, Command("arm")) ELSE rest
             /\ UNCHANGED stream
     /\ UNCHANGED <<later, covered>> /\ UNCHANGED link

Ack == cmds # <<>> /\ answer # "none" /\ Answered(answer = "ok") /\ UNCHANGED faults

(* The command or its answer was lost.  Commands of missions are sent      *)
(* plain: their callback is called if vehicle_status shows the effect, and *)
(* never if it does not.                                                   *)
EffectSeen(what) == IF what = "arm" THEN air # "disarmed" ELSE what \in {seen.nav, seen.intent}
Unanswered == /\ cmds' = Tail(cmds) /\ answer' = "none"
              /\ UNCHANGED <<mission, stream, later, covered>> /\ UNCHANGED link
NoAck == /\ cmds # <<>> /\ faults < MaxFaults /\ faults' = faults + 1
         /\ IF EffectSeen(Head(cmds).what) THEN Answered(TRUE) ELSE Unanswered

(* The 5 s to engage are over: so are the one-shots, of at most 1.1 s.     *)
Late == later = <<>> /\ ~mission.engaged

(* check_waypoint_completion, once a second while the timer runs.          *)
HandOver ==
  /\ IsEnd(mission.route, mission.item)
  /\ mission' = FinishMission(mission)
  /\ cmds' = Append(cmds, Command("rtl")) /\ stream' = (stream /\ seen.nav # "offboard")
  /\ UNCHANGED covered
FlyLeg ==
  /\ mission.item < Len(mission.route) /\ ~IsEnd(mission.route, mission.item)
  /\ \/ seen.nav # "offboard" /\ Late /\ FailAndHold(cmds) /\ UNCHANGED covered
     \/ seen.nav = "offboard" /\ FailAndHold(cmds) /\ UNCHANGED covered
     \/ /\ seen.nav = "offboard" /\ ~mission.engaged
        /\ mission' = [mission EXCEPT !.engaged = TRUE] /\ UNCHANGED <<cmds, stream, covered>>
     \/ /\ seen.nav = "offboard" /\ mission' = Reach(mission)
        /\ covered' = covered \cup {mission.item} /\ UNCHANGED <<cmds, stream>>
CheckWaypoint ==
  /\ mission.timer /\ mission.running /\ mission.route # <<>>
  /\ \/ HandOver
     \/ /\ mission.item >= Len(mission.route)
        /\ mission' = FinishMission(mission) /\ UNCHANGED <<cmds, stream, covered>>
     \/ FlyLeg
  /\ UNCHANGED <<later, answer, faults>> /\ UNCHANGED link

(* offboard_guard_check: PX4 left OFFBOARD, or the position is stale.      *)
OffboardGuard ==
  \E stale \in BOOLEAN :
    LET abort == stale \/ (lastOff /\ seen.nav # "offboard")
    IN /\ stale => air # "disarmed"
       /\ lastOff' = (seen.nav = "offboard")
       /\ stream' = (stream /\ ~abort)
       /\ mission' = IF abort /\ ~mission.delegated THEN FailMission(mission) ELSE mission
       /\ UNCHANGED <<heard, known, later, cmds, answer, covered, faults>>

(* post_flight_check, once a second: check_delegated (the heartbeat is     *)
(* lost, or PATROL did not engage in time, `late`), external_mode_recovery *)
(* (`stuck` for 3 ticks in PATROL on the ground; PX4's can_arm is free, so *)
(* a running mission does not rule it out), and the OFFBOARD stream nobody *)
(* uses (`idle`).                                                          *)
AbandonedIfLate(late) == mission.delegated /\ mission.running /\ late /\ Late
Abandoned(late) == mission.delegated /\ mission.running /\ (heard = "no" \/ (late /\ Late))
StuckAlive == air = "disarmed" /\ seen.intent = "patrol" /\ heard = "registered"
Stuck == air = "disarmed" /\ seen.intent = "patrol"
HoldQueued == \E i \in 1 .. Len(cmds) : cmds[i].what = "hold"
PostFlightCheck(late, stuck, idle) ==
  LET gives == Abandoned(late) /\ heard # "no"
      streams == stream /\ ~(gives /\ seen.nav # "offboard")
      holds == \/ gives
               \/ stuck /\ Stuck /\ ~HoldQueued
               \/ idle /\ air = "disarmed" /\ seen.nav = "offboard" /\ ~streams /\ ~HoldQueued
  IN /\ mission' = IF Abandoned(late) THEN FailMission(mission) ELSE mission
     /\ stream' = (streams /\ ~(idle /\ air = "disarmed"))
     /\ cmds' = IF holds THEN Append(cmds, Command("hold")) ELSE cmds
     /\ UNCHANGED <<later, answer, covered, faults>> /\ UNCHANGED link

(* No status for PATROL_HEARTBEAT_TIMEOUT_S: drone_patrol is not there.    *)
HeartbeatStale ==
  /\ node = "down" /\ status = <<>> /\ heard' = "no"
  /\ UNCHANGED <<mission, stream, lastOff, known, later, cmds, answer, covered, faults>>

ByCore(A) == A /\ UNCHANGED <<topics, patrol, px4, seen, replaced, epoch, last, asked>>
CoreStep == ByCore(\/ RunLater \/ Ack \/ NoAck \/ CheckWaypoint \/ OffboardGuard \/ HeartbeatStale
                   \/ \E late, stuck, idle \in BOOLEAN : PostFlightCheck(late, stuck, idle))

ReceiveStatus ==
  /\ status # <<>>
  /\ status' = Tail(status)
  /\ heard' = IF Head(status).registered THEN "registered" ELSE "fresh"
  /\ known' = (known \/ Head(status).registered)
  /\ mission' = ApplyStatus(mission, Head(status), seen.nav = "hold")
  /\ UNCHANGED <<stream, lastOff, later, cmds, answer, latched, unread, patrol, px4, seen, history, bounds>>

SeeNav == seen' = [nav |-> nav, intent |-> intent] /\ UNCHANGED <<core, topics, patrol, px4, history, bounds>>

(* Its state starts over, the latched plan is gone with its publisher.     *)
CoreRestarts ==
  /\ faults < MaxFaults /\ faults' = faults + 1 /\ epoch' = epoch + 1
  /\ mission' = NoMission /\ stream' = FALSE /\ lastOff' = FALSE /\ heard' = "no" /\ known' = FALSE
  /\ later' = <<>> /\ cmds' = <<>> /\ answer' = "none"
  /\ latched' = NoPlan /\ unread' = FALSE /\ status' = <<>>
  /\ covered' = {}
  /\ UNCHANGED <<patrol, px4, seen, replaced, last, asked>>

-----------------------------------------------------------------------------
(* drone_patrol.                                                           *)

PublishKeepAll(p) == status' = Append(status, StatusOf(p, node = "registered"))
Publish(p) == status' = Append(IF Len(status) < Depth THEN status ELSE Tail(status),
                               StatusOf(p, node = "registered"))

ReadPlan ==
  /\ unread /\ node # "down"
  /\ unread' = FALSE
  /\ progress' = OnPlan(progress, latched, charge) /\ Publish(progress')
  /\ replaced' = (replaced \/ charge)
  /\ UNCHANGED <<latched, node, charge, completed, px4, covered>>

(* A heartbeat that tells drone_core nothing new is left out (bound).      *)
Tells(s) == \/ heard # IF s.registered THEN "registered" ELSE "fresh"
            \/ mission # ApplyStatus(mission, s, seen.nav = "hold")
Heartbeat == /\ node # "down" /\ status = <<>> /\ Tells(StatusOf(progress, node = "registered"))
             /\ Publish(progress)
             /\ UNCHANGED <<latched, unread, patrol, px4, covered, replaced>>

(* PX4 has noticed the death of the previous one by then.                  *)
Register == /\ node = "up" /\ ~exec /\ node' = "registered"
            /\ UNCHANGED <<topics, progress, charge, completed, px4, covered, replaced>>

(* PatrolExecutor::onActivate.                                             *)
Activate ==
  /\ node = "registered" /\ exec /\ ~charge
  /\ charge' = TRUE
  /\ progress' = OnActivate(progress, air # "flying")
  /\ IF progress'.failed /\ ~progress.failed THEN Publish(progress') ELSE UNCHANGED status
  /\ nav' = IF ~MayFly(progress, air # "flying") THEN "hold"
            ELSE IF air # "flying" THEN "takeoff" ELSE "patrol"
  /\ UNCHANGED <<latched, unread, node, completed, intent, air, exec, cause, covered, replaced>>

Deactivate ==
  /\ charge /\ ~exec
  /\ charge' = FALSE /\ completed' = "none"
  /\ progress' = OnDeactivate(progress, cause)
  /\ UNCHANGED <<topics, node, px4, covered, replaced>>

(* The take-off is over: runPatrol, or onStepFailed.                       *)
TakenOff ==
  /\ charge /\ exec /\ nav = "takeoff"
  /\ \/ /\ nav' = "patrol" /\ air' = "flying"
        /\ progress' = [progress EXCEPT !.state = "PATROL"]
        /\ UNCHANGED status
     \/ /\ nav' = "hold" /\ UNCHANGED air
        /\ progress' = StepFailed(progress)
        /\ IF progress.failed THEN UNCHANGED status ELSE Publish(FailPlan(progress))
  /\ UNCHANGED <<latched, unread, node, charge, completed, intent, exec, cause, covered, replaced>>

(* PatrolMode::updateSetpoint.                                             *)
Flies == charge /\ exec /\ nav = "patrol" /\ air = "flying" /\ completed = "none"
Flyable == PlanValid(progress) /\ ~progress.failed /\ ~progress.finished

NothingToFly ==
  /\ Flies /\ (Flyable => AtEnd(progress))
  /\ completed' = IF Flyable THEN "ok" ELSE "failed"
  /\ IF PlanValid(progress) THEN UNCHANGED <<progress, status>>
     ELSE progress' = FailPlan(progress) /\ Publish(progress')
  /\ UNCHANGED covered

OfThisRun(plan) == plan.id = mission.id /\ plan.seq = mission.seq /\ plan.epoch = epoch
ReachPoint ==
  /\ Flies /\ Flyable /\ ~AtEnd(progress)
  /\ progress' = ReachItem(progress) /\ Publish(progress')
  /\ completed' = IF AtEnd(progress') THEN "ok" ELSE "none"
  /\ covered' = IF OfThisRun(progress.plan) THEN covered \cup {progress.item} ELSE covered

(* The leg timed out or the position is invalid.                           *)
LegFails ==
  /\ Flies /\ Flyable /\ ~AtEnd(progress)
  /\ progress' = FailPlan(progress) /\ Publish(progress')
  /\ completed' = "failed"
  /\ UNCHANGED covered

Fly == /\ NothingToFly \/ ReachPoint \/ LegFails
       /\ UNCHANGED <<latched, unread, node, charge, px4, replaced>>

(* The executor hears of it: finish, or onStepFailed.                      *)
Completed ==
  /\ completed # "none" /\ charge
  /\ completed' = "none"
  /\ progress' = IF completed = "ok" THEN FinishPlan(progress) ELSE StepFailed(progress)
  /\ nav' = IF ~exec THEN nav ELSE IF progress'.state = "RTL" THEN "rtl" ELSE "hold"
  /\ IF completed = "failed" /\ ~progress.failed THEN Publish(FailPlan(progress)) ELSE UNCHANGED status
  /\ UNCHANGED <<latched, unread, node, charge, intent, air, exec, cause, covered, replaced>>

PatrolStep ==
  /\ ReadPlan \/ Heartbeat \/ Register \/ Activate \/ Deactivate \/ TakenOff \/ Fly \/ Completed
  /\ UNCHANGED <<core, seen, epoch, bounds>>

-----------------------------------------------------------------------------
(* PX4 and faults.                                                         *)

Leave(mode, why) == nav' = mode /\ exec' = FALSE /\ cause' = IF exec THEN why ELSE cause
Select(mode) == Leave(mode, "mode") /\ intent' = mode

Accepts(what) ==
  \/ what \in {"hold", "rtl"} /\ Select(what) /\ UNCHANGED air
  \/ what = "offboard" /\ stream /\ Select(what) /\ UNCHANGED air
  \/ /\ what = "patrol" /\ node = "registered" /\ nav' = "patrol" /\ intent' = "patrol"
     /\ exec' = (air # "disarmed") /\ UNCHANGED <<air, cause>>
  \/ /\ what = "arm" /\ (intent = "patrol" => node = "registered")
     /\ air' = IF air = "disarmed" THEN "armed" ELSE air
     /\ exec' = (exec \/ nav = "patrol") /\ UNCHANGED <<nav, intent, cause>>

Impossible(what) ==
  \/ what = "none"
  \/ what = "offboard" /\ ~stream
  \/ what = "patrol" /\ node # "registered"
  \/ what = "arm" /\ node # "registered" /\ intent = "patrol"
Refused(what) == \/ Impossible(what) /\ UNCHANGED faults
                 \/ what \in {"patrol", "arm"} /\ faults < MaxFaults /\ faults' = faults + 1

Px4Takes ==
  /\ cmds # <<>> /\ answer = "none"
  /\ \/ answer' = "ok" /\ Accepts(Head(cmds).what) /\ UNCHANGED faults
     \/ answer' = "no" /\ Refused(Head(cmds).what) /\ UNCHANGED px4
  /\ UNCHANGED <<mission, stream, lastOff, heard, known, later, cmds, topics, patrol, seen, history, last, asked>>

(* PX4 notices within 1 s that the mode in charge is dead.                 *)
Failsafe ==
  /\ exec /\ node # "registered" /\ Leave("rtl", "failsafe") /\ UNCHANGED <<intent, air>>
  /\ UNCHANGED <<core, topics, patrol, seen, history, bounds>>

(* OFFBOARD without setpoints: the offboard-loss failsafe.                 *)
OffboardLost ==
  /\ nav = "offboard" /\ ~stream /\ Leave("hold", "failsafe") /\ UNCHANGED <<intent, air>>
  /\ UNCHANGED <<core, topics, patrol, seen, history, bounds>>

(* Disarmed after the return, PX4 falls back to PATROL if it was selected  *)
(* and keeps it, dead or not.                                              *)
Lands ==
  /\ nav = "rtl" /\ air # "disarmed" /\ air' = "disarmed"
  /\ intent' = IF intent = "patrol" THEN "patrol" ELSE "hold"
  /\ Leave(intent', "mode")
  /\ UNCHANGED <<core, topics, patrol, seen, history, bounds>>

(* Somebody selects Hold, or a failsafe returns the vehicle.               *)
ModeFault == /\ air = "flying"
             /\ \/ Select("hold")
                \/ Leave("rtl", "failsafe") /\ UNCHANGED intent
             /\ UNCHANGED <<air, patrol, unread>>
PatrolDies == /\ node # "down" /\ node' = "down"
              /\ progress' = NoProgress /\ charge' = FALSE /\ completed' = "none" /\ unread' = FALSE
              /\ UNCHANGED px4
Fault ==
  /\ faults < MaxFaults /\ faults' = faults + 1
  /\ ModeFault \/ PatrolDies
  /\ UNCHANGED <<core, latched, status, seen, history, last, asked>>

(* A new drone_patrol reads the latched plan again.                        *)
NodeStarts ==
  /\ node = "down" /\ node' = "up" /\ unread' = (latched # NoPlan)
  /\ UNCHANGED <<core, latched, status, progress, charge, completed, px4, seen, history, bounds>>

Next ==
  \/ Service \/ CoreStep \/ ReceiveStatus \/ SeeNav \/ CoreRestarts
  \/ PatrolStep
  \/ Px4Takes \/ Failsafe \/ OffboardLost \/ Lands \/ Fault \/ NodeStarts

Spec == Init /\ [][Next]_vars

(* Timers fire, messages and commands arrive, both nodes' threads run and  *)
(* PX4 reacts; operators, faults and the legs' progress are not fair.      *)
Fairness ==
  /\ WF_vars(ByCore(RunLater)) /\ WF_vars(ByCore(Ack)) /\ WF_vars(ByCore(HeartbeatStale))
  /\ WF_vars(ByCore(PostFlightCheck(TRUE, TRUE, TRUE)))
  /\ WF_vars(ReceiveStatus) /\ WF_vars(SeeNav) /\ WF_vars(PatrolStep)
  /\ WF_vars(Px4Takes) /\ WF_vars(Failsafe) /\ WF_vars(OffboardLost)
FairSpec == Spec /\ Fairness

-----------------------------------------------------------------------------
Modes == {"hold", "patrol", "takeoff", "rtl", "offboard"}
Queued == [what : {"hold", "patrol", "arm", "offboard", "rtl", "none"}, arm : BOOLEAN]

Plans == [id : Nat, seq : Nat, start : Nat, route : Seq(Commands), ground : BOOLEAN, epoch : Nat]
Progresses == [plan : Plans, item : Nat, state : States, running : BOOLEAN, finished : BOOLEAN,
               failed : BOOLEAN, why : Reasons]
Statuses == [id : Nat, seq : Nat, item : Nat, state : States, finished : BOOLEAN, failed : BOOLEAN,
             why : Reasons, registered : BOOLEAN]

(* An item of an uploaded route, or the place behind the last one.         *)
OnRoute(item, route) == route \in Routes \cup {<<>>} /\ item <= Len(route)
Items == UNION {0 .. Len(route) - 1 : route \in Routes}

MissionTyped == mission \in Missions(Routes, MaxControls) /\ OnRoute(mission.item, mission.route)
CoreTyped ==
  /\ stream \in BOOLEAN /\ lastOff \in BOOLEAN /\ known \in BOOLEAN
  /\ heard \in {"no", "fresh", "registered"}
  /\ later \in Seq(Queued) /\ cmds \in Seq(Queued) /\ answer \in {"none", "ok", "no"}
TopicsTyped ==
  /\ latched \in Plans /\ OnRoute(latched.start, latched.route) /\ unread \in BOOLEAN
  /\ status \in Seq(Statuses) /\ Len(status) <= Depth
PatrolTyped ==
  /\ progress \in Progresses /\ OnRoute(progress.item, progress.plan.route)
  /\ node \in {"down", "up", "registered"} /\ charge \in BOOLEAN /\ completed \in {"none", "ok", "failed"}
Px4Typed ==
  /\ nav \in Modes /\ intent \in Modes /\ seen \in [nav : Modes, intent : Modes]
  /\ air \in {"disarmed", "armed", "flying"} /\ exec \in BOOLEAN /\ cause \in Reasons
HistoryTyped ==
  /\ covered \subseteq Items /\ replaced \in BOOLEAN /\ epoch \in Nat
  /\ last \in Ops \cup {"none"} /\ asked \in 0 .. MaxControls /\ faults \in 0 .. MaxFaults

(* Every variable stays in its type; items stay on their routes, and the   *)
(* status queue is no longer than its depth.                               *)
TypeOK == MissionTyped /\ CoreTyped /\ TopicsTyped /\ PatrolTyped /\ Px4Typed /\ HistoryTyped

(* However services, statuses, timers and late command answers interleave, *)
(* a mission is in one phase, and one that runs is watched: in OFFBOARD by *)
(* its timer, delegated by none of its own.                                *)
OnePhase ==
  /\ mission.running => /\ mission.valid /\ mission.route # <<>>
                        /\ ~mission.paused /\ ~mission.finished /\ ~mission.failed
                        /\ mission.timer = ~mission.delegated
  /\ mission.paused => mission.valid /\ ~mission.finished /\ ~mission.failed

(* The item a mission is at lies behind no item nobody reached or jumped   *)
(* over: no old plan, restarted drone_patrol or late status moves it on.   *)
NothingSkipped == epoch = 0 => 0 .. mission.item - 1 \subseteq covered

(* A mission that finishes by itself has flown every point before its end. *)
Points(route) == {i \in 0 .. Len(route) - 1 : \A j \in 0 .. i : ~IsEnd(route, j)}
FinishesFlown ==
  (mission'.finished /\ ~mission.finished /\ asked' = asked /\ epoch = 0 /\ ~replaced)
     => Points(mission.route) \subseteq covered'
FinishedMeansFlown == [][FinishesFlown]_vars

(* A delegated mission nobody flies is not reported as running for ever:   *)
(* PATROL never engaged, or drone_patrol is dead.                          *)
NeverAbandoned ==
  []<>~(mission.running /\ mission.delegated /\ (~mission.engaged \/ node = "down"))

(* A vehicle on the ground does not stay in the mode of a dead             *)
(* drone_patrol, in which it cannot be armed.                              *)
LeavesDeadMode == []<>~(air = "disarmed" /\ intent = "patrol" /\ node = "down")

(* A hold wins over the START or RESUME under way, whatever is still       *)
(* pending: due one-shots, queued commands, plans and executor callbacks.  *)
HoldIsObeyed ==
  last = "hold" /\ faults = 0 /\ cmds = <<>> => ~mission.running /\ nav \notin {"patrol", "takeoff", "offboard"}

(* "Hold where the drone is": when PAUSE has been done, PATROL flies no    *)
(* mission that drone_core has paused.                                     *)
PauseHolds ==
  last = "pause" /\ faults = 0 /\ mission.paused /\ cmds = <<>> => nav \notin {"patrol", "takeoff"}
=============================================================================
