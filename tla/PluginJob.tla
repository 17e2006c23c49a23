------------------------------- MODULE PluginJob -------------------------------
(***************************************************************************)
(* The jobs of one SDK plugin on one drone: the thread that runs the job   *)
(* function, the listener that calls back on sightings, the service that   *)
(* the fleet API calls, operators who step in, and the report that is      *)
(* kept of each job.                                                       *)
(*                                                                         *)
(* A step is what a thread does between two HTTP calls. The fleet API is   *)
(* as the plugin meets it: a call to it is one step, but an operator's     *)
(* request, which acts first and ends the job later. FleetApi has the rest *)
(* of its interleavings.                                                   *)
(***************************************************************************)
EXTENDS Integers, FiniteSets

CONSTANTS
  MaxJobs,     \* jobs 1 .. MaxJobs are begun in this order
  None,
  Faults,      \* subset of {"restart", "lost", "silent", "refused", "look", "failsafe"}
  MaxEvents    \* faults and deeds of operators, at most

ASSUME PluginAssumption ==
  /\ MaxJobs \in Nat /\ MaxEvents \in Nat
  /\ None \notin Int /\ None \notin {"completed", "failed", "stopped"}

Jobs == 1 .. MaxJobs
Threads == {"job", "listener"}

VARIABLES
  fleet,    \* [job, holder, at]: the fleet API's view, and where the drone is
  desk,     \* an operator's request has acted and is still to end the job
  jobs,     \* [Jobs -> [post, known, stop, outcome, report, stuck]]
  run,      \* [Jobs -> [pc, cmd, result]]: the job's thread
  ear,      \* [Jobs -> stage of the job's listener]
  late,     \* history: [Jobs -> [Threads -> commands accepted after the job was
            \* stopped, 2 for two or more]]
  strays,   \* history: jobs that got a command through without being the drone's,
            \* whose listener did while the thread was past its work, or
            \* whose failed start took the drone from a person
  events

vars == <<fleet, desk, jobs, run, ear, late, strays, events>>
past == <<late, strays>>

NewJob == [post |-> "none", known |-> FALSE, stop |-> "no", outcome |-> None, report |-> None, stuck |-> FALSE]
NoThread == [pc |-> "none", cmd |-> None, result |-> None]

Init ==
  /\ fleet = [job |-> None, holder |-> None, at |-> "ground"] /\ desk = FALSE
  /\ jobs = [j \in Jobs |-> NewJob] /\ run = [j \in Jobs |-> NoThread]
  /\ ear = [j \in Jobs |-> "none"] /\ late = [j \in Jobs |-> [t \in Threads |-> 0]]
  /\ strays = {} /\ events = 0

Event == events < MaxEvents /\ events' = events + 1
Fails(kind) == kind \in Faults /\ Event
Calm == events' = events

(* A drone is "rising" from the command that has it fly until its state    *)
(* shows it in the air: armed, and for PX4 still on the ground.            *)
Armed == fleet.at # "ground"
Down(at) == IF at = "ground" THEN at ELSE "home"
Freed(holder) == IF holder = "plugin" THEN None ELSE holder
Stopped(j) == jobs[j].stop = "told"
-----------------------------------------------------------------------------
(* The fleet API begins, stops and ends jobs.                              *)

StartJob(j) ==
  /\ fleet.job = None /\ jobs[j].post = "none" /\ \A k \in Jobs : k < j => jobs[k].post # "none"
  /\ fleet' = [fleet EXCEPT !.job = j, !.holder = "plugin"]
  /\ jobs' = [jobs EXCEPT ![j].post = "sent"]
  /\ UNCHANGED <<desk, run, ear, past, events>>

(* POST /jobs fails: the fleet API ends the job that the drone then has,   *)
(* whichever it is, and releases the drone, whoever holds it.              *)
StartFails(j, post) ==
  /\ fleet' = [fleet EXCEPT !.job = None, !.holder = None]
  /\ jobs' = [k \in Jobs |-> [jobs[k] EXCEPT
       !.post = IF k = j THEN post ELSE @, !.outcome = IF k = fleet.job THEN "failed" ELSE @]]
  /\ strays' = (IF fleet.holder = "person" THEN strays \cup {j} ELSE strays) /\ UNCHANGED late

(* The request reaches the plugin, which starts the job's thread or        *)
(* refuses (bad arguments), or it does not reach it ...                    *)
PostJob(j) ==
  /\ jobs[j].post = "sent"
  /\ \/ /\ jobs' = [jobs EXCEPT ![j] = [@ EXCEPT !.post = "taken", !.known = TRUE, !.report = "running"]]
        /\ run' = [run EXCEPT ![j].pc = "work"] /\ UNCHANGED <<fleet, past>>
     \/ StartFails(j, "refused") /\ UNCHANGED run
  /\ UNCHANGED <<desk, ear, events>>

(* ... and its answer the fleet API. A lost one is a failed start, of a    *)
(* job that the plugin runs.                                               *)
PostAnswered(j) ==
  /\ jobs[j].post = "taken"
  /\ \/ Calm /\ jobs[j].known /\ jobs' = [jobs EXCEPT ![j].post = "running"] /\ UNCHANGED <<fleet, past>>
     \/ StartFails(j, "failed") /\ ((Calm /\ ~jobs[j].known) \/ Fails("lost"))
  /\ UNCHANGED <<desk, run, ear>>

(* An operator takes the drone, sends it down or ends the job: first what  *)
(* was asked for ...                                                       *)
StepIn ==
  /\ Event /\ fleet.job # None /\ ~desk /\ desk' = TRUE
  /\ \/ fleet' = [fleet EXCEPT !.holder = "person"]
     \/ fleet' = [fleet EXCEPT !.at = Down(@)]
     \/ UNCHANGED fleet
  /\ UNCHANGED <<jobs, run, ear, past>>

(* ... and then stop_job ends the job the drone has by then.               *)
StopJob ==
  /\ desk /\ desk' = FALSE
  /\ IF fleet.job = None THEN UNCHANGED <<fleet, jobs>>
     ELSE /\ jobs' = [jobs EXCEPT ![fleet.job] = [@ EXCEPT !.outcome = "stopped", !.stop = "sent"]]
          /\ fleet' = [fleet EXCEPT !.job = None, !.holder = Freed(@)]
  /\ UNCHANGED <<run, ear, past, events>>

(* POST /jobs/{id}/stopped reaches a plugin that has the job, or nobody.   *)
Tell(j) == [jobs EXCEPT ![j].stop = IF jobs[j].known THEN "told" ELSE "missed"]

JobStopped(j) ==
  /\ jobs[j].stop = "sent"
  /\ \/ Calm /\ jobs' = Tell(j)
     \/ Fails("lost") /\ jobs' = [jobs EXCEPT ![j].stop = "missed"]
  /\ UNCHANGED <<fleet, desk, run, ear, past>>

(* The job watchdog has had no good answer to GET /jobs/{id} for long      *)
(* enough: it ends the job, sends an armed drone home, and then tells the  *)
(* plugin, should it be alive.                                             *)
WatchdogEnds(j) ==
  /\ fleet.job = j /\ jobs[j].post = "running"
  /\ fleet' = [fleet EXCEPT !.job = None, !.holder = Freed(@)]
  /\ jobs' = [jobs EXCEPT ![j] = [@ EXCEPT !.outcome = "failed", !.stop = IF Armed THEN "home" ELSE "sent"]]
  /\ UNCHANGED <<desk, run, ear, past>>

(* 404: the plugin does not know the job any more ...                      *)
PluginLost(j) == Calm /\ ~jobs[j].known /\ WatchdogEnds(j)

(* ... or it runs the job, but does not answer or answers 5xx.             *)
PluginSilent(j) == Fails("silent") /\ jobs[j].known /\ WatchdogEnds(j)

WatchdogSendsHome(j) ==
  /\ jobs[j].stop = "home"
  /\ \/ /\ Calm /\ fleet' = [fleet EXCEPT !.at = Down(@)]
        /\ jobs' = [jobs EXCEPT ![j].stop = "sent"]
     \/ /\ Fails("refused") /\ UNCHANGED fleet
        /\ jobs' = [jobs EXCEPT ![j] = [@ EXCEPT !.stop = "sent", !.stuck = TRUE]]
  /\ UNCHANGED <<desk, run, ear, past>>

(* The job watchdog: the drone stays down, and nobody ends the job; its    *)
(* plugin may be hanging in POST /jobs.                                    *)
OrphanEnds(j) ==
  /\ fleet.job = j /\ ~Armed
  /\ fleet' = [fleet EXCEPT !.job = None, !.holder = Freed(@)]
  /\ jobs' = [jobs EXCEPT ![j].outcome = "failed"]
  /\ UNCHANGED <<desk, run, ear, past>>

StaysDown(j) ==
  /\ Calm /\ ((run[j].pc = "work" /\ run[j].cmd # None) \/ run[j].pc \in {"over", "dead"})
  /\ OrphanEnds(j)

StartHangs(j) == Fails("silent") /\ jobs[j].post = "sent" /\ OrphanEnds(j)

(* PX4 brings the drone down by itself, for its battery or its link.       *)
Failsafe ==
  /\ Fails("failsafe") /\ Armed /\ fleet.at # "home" /\ fleet' = [fleet EXCEPT !.at = "home"]
  /\ UNCHANGED <<desk, jobs, run, ear, past>>

(* What was to fly is in the air, or PX4 disarms it before it gets there.  *)
LiftsOff ==
  /\ fleet.at = "rising" /\ \E at \in {"air", "ground"} : fleet' = [fleet EXCEPT !.at = at]
  /\ UNCHANGED <<desk, jobs, run, ear, past, events>>

Lands ==
  /\ fleet.at = "home" /\ fleet' = [fleet EXCEPT !.at = "ground"]
  /\ UNCHANGED <<desk, jobs, run, ear, past, events>>

(* An operator takes a drone that has no job, flies it and lets go of it,  *)
(* but does not leave it up in the air.                                    *)
PersonFlies ==
  /\ Event /\ fleet.job = None
  /\ \/ \E at \in {"air", "home"} : Armed /\ fleet' = [fleet EXCEPT !.holder = "person", !.at = at]
     \/ fleet.holder = "person" /\ fleet.at \in {"ground", "home"} /\ fleet' = [fleet EXCEPT !.holder = None]
  /\ UNCHANGED <<desk, jobs, run, ear, past>>
-----------------------------------------------------------------------------
(* Commands: a job climbs, goes on, and is sent home. Only the last is a   *)
(* safety command; the others are refused while a person has the drone.    *)

Accepts(cmd) ==
  /\ cmd # "home" => fleet.holder # "person"
  /\ cmd # "climb" => Armed

Obeyed(cmd) ==
  fleet' = [fleet EXCEPT !.holder = IF @ = None THEN "plugin" ELSE @,
                         !.at = IF cmd = "home" THEN Down(@) ELSE IF @ = "air" THEN @ ELSE "rising"]

Working(j) == run[j].pc \in {"work", "send"} /\ run[j].cmd # "home"

Command(j, thread, cmd) ==
  /\ Accepts(cmd) /\ Obeyed(cmd)
  /\ late' = IF Stopped(j) /\ late[j][thread] < 2 THEN [late EXCEPT ![j][thread] = @ + 1] ELSE late
  /\ strays' = IF fleet.job # j \/ (thread = "listener" /\ ~Working(j)) THEN strays \cup {j} ELSE strays

CheckNothing(j) == TRUE

(* Job._check, before every request that is not a GET.                     *)
Check(j) == ~Stopped(j)
-----------------------------------------------------------------------------
(* The thread of a job: _run.                                              *)

Becomes(j, r) == run' = [run EXCEPT ![j] = r]
RaisesBare(j) == Becomes(j, [run[j] EXCEPT !.pc = "look"])
Raises(j) == Becomes(j, [run[j] EXCEPT !.pc = "look", !.result = "failed"])

(* The job function has a command sent, after its check ...                *)
Sends(j) ==
  /\ run[j].pc = "work" /\ run[j].cmd # "home" /\ Check(j)
  /\ \E cmd \in IF run[j].cmd = None THEN {"climb"} ELSE {"go", "home"} : Becomes(j, [run[j] EXCEPT !.pc = "send", !.cmd = cmd])
  /\ UNCHANGED <<fleet, desk, jobs, ear, past, events>>

(* ... and the fleet API takes it, or the job function fails. A command    *)
(* that got no answer in time may have been obeyed all the same.           *)
Sent(j) ==
  /\ run[j].pc = "send"
  /\ \/ Command(j, "job", run[j].cmd) /\ Becomes(j, [run[j] EXCEPT !.pc = "work"]) /\ Calm
     \/ ~Accepts(run[j].cmd) /\ Raises(j) /\ Calm /\ UNCHANGED <<fleet, past>>
     \/ Fails("refused") /\ Raises(j) /\ (Command(j, "job", run[j].cmd) \/ UNCHANGED <<fleet, past>>)
  /\ UNCHANGED <<desk, jobs, ear>>

(* A read, a wait or the function's own logic goes wrong.                  *)
Breaks(j) ==
  /\ run[j].pc = "work" /\ Raises(j)
  /\ UNCHANGED <<fleet, desk, jobs, ear, past, events>>

(* A job function ends by sending the drone home.                          *)
Returns(j) ==
  /\ run[j].pc = "work" /\ run[j].cmd = "home" /\ Check(j)
  /\ Becomes(j, [run[j] EXCEPT !.pc = "close", !.result = "completed"])
  /\ UNCHANGED <<fleet, desk, jobs, ear, past, events>>

Unwinds(j) ==
  /\ run[j].pc = "work" /\ ~Check(j)
  /\ Becomes(j, [run[j] EXCEPT !.pc = "close", !.result = "stopped"])
  /\ UNCHANGED <<fleet, desk, jobs, ear, past, events>>

(* _send_home: only a drone that is up and not coming down already. If it  *)
(* cannot be done, that is noted in the report.                            *)
CannotSendHome(j) == Becomes(j, [run[j] EXCEPT !.pc = "close"]) /\ jobs' = [jobs EXCEPT ![j].stuck = TRUE]

Looks(j, up) ==
  /\ run[j].pc = "look"
  /\ \/ /\ Calm /\ Becomes(j, [run[j] EXCEPT !.pc = IF ~Stopped(j) /\ up THEN "back" ELSE "close"])
        /\ jobs' = [jobs EXCEPT ![j].stuck = @ \/ (~Stopped(j) /\ fleet.at = "rising")]
     \/ Fails("look") /\ CannotSendHome(j)
  /\ UNCHANGED <<fleet, desk, ear, past>>

LooksHomeNot(j) == Looks(j, Armed /\ run[j].cmd # "climb")

LooksHome(j) == Looks(j, fleet.at = "air")

SendsHome(j) ==
  /\ run[j].pc = "back"
  /\ \/ Command(j, "job", "home") /\ Becomes(j, [run[j] EXCEPT !.pc = "close"]) /\ Calm /\ UNCHANGED jobs
     \/ ~Accepts("home") /\ CannotSendHome(j) /\ Calm /\ UNCHANGED <<fleet, past>>
     \/ Fails("refused") /\ CannotSendHome(j) /\ (Command(j, "job", "home") \/ UNCHANGED <<fleet, past>>)
  /\ UNCHANGED <<desk, ear>>

CloseUnsaved(j) ==
  /\ run[j].pc = "close"
  /\ Becomes(j, [run[j] EXCEPT !.pc = IF run[j].result # "stopped" /\ ~Stopped(j) THEN "delete" ELSE "over"])
  /\ UNCHANGED <<fleet, desk, jobs, ear, past, events>>

(* The report is saved; a job that was not stopped is to be ended.         *)
Close(j) ==
  /\ run[j].pc = "close" /\ jobs' = [jobs EXCEPT ![j].report = run[j].result]
  /\ Becomes(j, [run[j] EXCEPT !.pc = IF run[j].result # "stopped" /\ ~Stopped(j) THEN "delete" ELSE "over"])
  /\ UNCHANGED <<fleet, desk, ear, past, events>>

EndsJob(j) ==
  /\ run[j].pc = "delete" /\ Becomes(j, [run[j] EXCEPT !.pc = "over"])
  /\ \/ /\ fleet.job = j /\ Calm
        /\ fleet' = [fleet EXCEPT !.job = None, !.holder = Freed(@)]
        /\ jobs' = [jobs EXCEPT ![j].outcome = run[j].result]
     \/ fleet.job # j /\ Calm /\ UNCHANGED <<fleet, jobs>>
     \/ Fails("lost") /\ UNCHANGED <<fleet, jobs>>
  /\ UNCHANGED <<desk, ear, past>>
-----------------------------------------------------------------------------
(* The listener: its own thread, until the job is over or stopped. It      *)
(* looks for that before it waits for a sighting, so that one callback may *)
(* still come.                                                             *)

Closing(j) == run[j].pc \in {"close", "delete", "over"}

Listens(j) ==
  /\ run[j].pc = "work" /\ ear[j] = "none" /\ ear' = [ear EXCEPT ![j] = "wait"]
  /\ UNCHANGED <<fleet, desk, jobs, run, past, events>>

(* A callback may fly the drone.                                           *)
CallsBack(j) ==
  /\ ear[j] = "wait" /\ ear' = [ear EXCEPT ![j] = IF Check(j) THEN "send" ELSE "off"]
  /\ UNCHANGED <<fleet, desk, jobs, run, past, events>>

CalledBack(j) ==
  /\ ear[j] = "send" /\ ear' = [ear EXCEPT ![j] = IF Closing(j) THEN "off" ELSE "wait"]
  /\ Command(j, "listener", "go") \/ (~Accepts("go") /\ UNCHANGED <<fleet, past>>)
  /\ UNCHANGED <<desk, jobs, run, events>>

StopsListening(j) ==
  /\ ear[j] = "wait" /\ Closing(j) /\ ear' = [ear EXCEPT ![j] = "off"]
  /\ UNCHANGED <<fleet, desk, jobs, run, past, events>>

RestartsKnown ==
  /\ Fails("restart") /\ UNCHANGED jobs
  /\ run' = [j \in Jobs |-> [run[j] EXCEPT !.pc = IF @ \in {"none", "over"} THEN @ ELSE "dead"]]
  /\ ear' = [j \in Jobs |-> IF ear[j] = "none" THEN "none" ELSE "off"]
  /\ UNCHANGED <<fleet, desk, past>>

(* The plugin's process ends and comes back: threads and `running` are     *)
(* gone, reports stay as they are on disk.                                 *)
Restarts ==
  /\ Fails("restart")
  /\ jobs' = [j \in Jobs |-> [jobs[j] EXCEPT !.known = FALSE]]
  /\ run' = [j \in Jobs |-> [run[j] EXCEPT !.pc = IF @ \in {"none", "over"} THEN @ ELSE "dead"]]
  /\ ear' = [j \in Jobs |-> IF ear[j] = "none" THEN "none" ELSE "off"]
  /\ UNCHANGED <<fleet, desk, past>>
-----------------------------------------------------------------------------
Thread(j) ==
  \/ Sends(j) \/ Sent(j) \/ Breaks(j) \/ Returns(j) \/ Unwinds(j)
  \/ LooksHome(j) \/ SendsHome(j) \/ Close(j) \/ EndsJob(j)
Listener(j) == CallsBack(j) \/ CalledBack(j) \/ StopsListening(j)

Next ==
  \/ \E j \in Jobs : StartJob(j) \/ PostJob(j) \/ PostAnswered(j) \/ JobStopped(j)
  \/ \E j \in Jobs : PluginLost(j) \/ PluginSilent(j) \/ WatchdogSendsHome(j) \/ StaysDown(j) \/ StartHangs(j)
  \/ StepIn \/ StopJob \/ Failsafe \/ LiftsOff \/ Lands \/ PersonFlies
  \/ \E j \in Jobs : Thread(j) \/ Listens(j) \/ Listener(j)
  \/ Restarts

Spec == Init /\ [][Next]_vars

(* Threads, requests under way, the watchdog and a drone on its way down   *)
(* go on; operators and faults need do nothing.                            *)
Fairness ==
  /\ \A j \in Jobs : WF_vars(PostJob(j)) /\ WF_vars(PostAnswered(j)) /\ WF_vars(JobStopped(j))
  /\ \A j \in Jobs : WF_vars(Thread(j)) /\ WF_vars(Listener(j))
  /\ \A j \in Jobs : WF_vars(PluginLost(j)) /\ WF_vars(WatchdogSendsHome(j)) /\ WF_vars(StaysDown(j))
  /\ WF_vars(StopJob) /\ WF_vars(LiftsOff) /\ WF_vars(Lands)
FairSpec == Spec /\ Fairness
-----------------------------------------------------------------------------
Places == {"ground", "rising", "air", "home"}
Outcomes == {None, "completed", "failed", "stopped"}

TypeOK ==
  /\ fleet \in [job: Jobs \cup {None}, holder: {None, "plugin", "person"}, at: Places]
  /\ desk \in BOOLEAN
  /\ jobs \in [Jobs -> [post: {"none", "sent", "taken", "running", "refused", "failed"}, known: BOOLEAN,
                        stop: {"no", "home", "sent", "told", "missed"}, outcome: Outcomes, report: Outcomes \cup {"running"},
                        stuck: BOOLEAN]]
  /\ run \in [Jobs -> [pc: {"none", "work", "send", "look", "back", "close", "delete", "over", "dead"},
                       cmd: {None, "climb", "go", "home"}, result: Outcomes]]
  /\ \A j \in Jobs : run[j].pc \in {"look", "back", "close", "delete", "over"} => run[j].result # None
  /\ ear \in [Jobs -> {"none", "wait", "send", "off"}]
  /\ late \in [Jobs -> [Threads -> 0 .. 2]] /\ strays \subseteq Jobs /\ events \in 0 .. MaxEvents

(* Once the plugin is told that a job is stopped, each of its two threads  *)
(* gets at most the one command through that was under way.                *)
AtMostOneLate == \A j \in Jobs, t \in Threads : late[j][t] <= 1

(* The report and the fleet API's record of a job do not contradict each   *)
(* other: what is recorded as completed is reported so, and only a job     *)
(* that operators or the watchdog ended, which is recorded as stopped or   *)
(* as failed, reports that it was stopped.                                 *)
ResultsAgree ==
  \A j \in Jobs :
    /\ jobs[j].outcome = "completed" => jobs[j].report = "completed"
    /\ jobs[j].report = "stopped" => jobs[j].stop = "told" /\ jobs[j].outcome \in {"stopped", "failed"}

(* A job whose plugin was told to stop ends, and its listener too.         *)
StoppedEnds ==
  \A j \in Jobs : jobs[j].stop = "told" ~> run[j].pc \in {"over", "dead"} /\ ear[j] \in {"none", "off"}

(* A job or the watchdog could not send the drone home, as is noted; or    *)
(* the job saw it rising and so left it; or a command went through when    *)
(* its job was no longer to fly. Nobody undoes any of these.               *)
Astray(j) == jobs[j].stuck \/ strays # {}

(* A job whose thread is over leaves the fleet API, though the request     *)
(* that ends it is lost or the plugin restarts: its drone comes down.      *)
JobLeavesFleet ==
  \A j \in Jobs : fleet.job = j /\ run[j].pc \in {"over", "dead"} ~> fleet.job # j \/ Astray(j)

(* plugin.py:479 of _send_home: "A failed job must not leave the drone     *)
(* hovering with nobody flying it."                                        *)
Hovers(j) ==
  /\ jobs[j].outcome = "failed" /\ jobs[j].report = "failed"
  /\ \A k \in Jobs : k > j => jobs[k].post = "none"
  /\ fleet.at = "air" /\ fleet.job = None /\ fleet.holder # "person"
FailedComesDown == \A j \in Jobs : ~<>[](Hovers(j) /\ ~Astray(j))
================================================================================
