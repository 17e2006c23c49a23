-------------------------------- MODULE Dispatch --------------------------------
(***************************************************************************)
(* The dispatch service: incidents, the jobs that send drones to them, the *)
(* thread that flies a job, the monitor of arrivals, operators who resolve *)
(* incidents, and the bridge that hands new incidents to an AI dispatcher. *)
(*                                                                         *)
(* Nothing is locked. The event loop is one thread; a job's start and then *)
(* its flight are another, and so is each resolution. A step ends where a  *)
(* thread has read of an incident what it goes by, and where it has called *)
(* or written: others come between. The fleet API and the drones are as    *)
(* the service meets them: FleetApi has the fleet API's own interleavings. *)
(***************************************************************************)
EXTENDS Integers, FiniteSets

CONSTANTS
  MaxIncidents,   \* incidents 1 .. MaxIncidents are made in this order
  Drones,
  MaxJobs,        \* dispatch jobs 1 .. MaxJobs are started in this order
  None,
  Resolvers,      \* threads that resolve: the monitor's and those of operators
  Monitor,
  People,         \* may operators fly a drone themselves?
  Faults,         \* subset of {"restart", "delete", "timeout", "refused"}
  MaxEvents       \* faults, stops, resolutions, clearings and flights of people, at most

ASSUME DispatchAssumption ==
  /\ MaxIncidents \in Nat /\ MaxJobs \in Nat /\ MaxEvents \in Nat
  /\ Monitor \in Resolvers /\ People \in BOOLEAN
  /\ None \notin Drones /\ None \notin Int /\ None \notin {"dispatched", "on_scene", "resolved"}

Incidents == 1 .. MaxIncidents
Jobs == 1 .. MaxJobs

(* Where a drone is, or is going: home, up, or at an incident's scene.     *)
Ground == 0
Air == -1
Places == {Ground, Air} \cup Incidents

VARIABLES
  inc,        \* [Incidents -> [listed, status, drone, job]]
  counter,    \* Incident._counter
  fly,        \* [Jobs -> stage of the job's thread: start_job, then _fly_to]
  visit,      \* [left, at, drone, near]: the monitor's pass
  arrived,    \* incidents in the monitor's arrival_times
  resolving,  \* [Resolvers -> [pc, inc, drone, job]]
  loop,       \* [at, inc, status, drone]: what the event loop is about to write
  seen, asked,  \* the bridge's seen_incidents, and those the AI works on
  fleet,      \* [Drones -> [job, holder, goal, at]]: the fleet API and the drone
  jobs,       \* [Jobs -> [drone, inc, post, stop]]: a job's calls to the service
  strays,     \* history: jobs a resolution missed, or left when it was cut off
  events      \* bound: how many of them there were

memory == <<counter, visit, arrived, seen, asked>>
vars == <<inc, memory, fly, resolving, loop, fleet, jobs, strays, events>>

NoIncident == [listed |-> FALSE, status |-> "none", drone |-> None, job |-> None]
Resting == [pc |-> "idle", inc |-> None, drone |-> None, job |-> None]
Sleeping == [left |-> {}, at |-> None, drone |-> None]
Free == [at |-> "free", inc |-> None, status |-> None, drone |-> None]

Init ==
  /\ inc = [i \in Incidents |-> NoIncident] /\ counter = 0
  /\ fly = [j \in Jobs |-> "none"]
  /\ visit = Sleeping /\ arrived = {}
  /\ resolving = [r \in Resolvers |-> Resting] /\ loop = Free /\ strays = {}
  /\ seen = {} /\ asked = {}
  /\ fleet = [d \in Drones |-> [job |-> None, holder |-> None, goal |-> None, at |-> Ground]]
  /\ jobs = [j \in Jobs |-> [drone |-> None, inc |-> None, post |-> "none", stop |-> "no"]]
  /\ events = 0

Event == events < MaxEvents /\ events' = events + 1
Fails(kind) == kind \in Faults /\ Event
Calm == events' = events
-----------------------------------------------------------------------------
(* Incidents.                                                              *)

Rank(status) == CASE status = "new" -> 0 [] status = "dispatched" -> 1 [] status = "on_scene" -> 2 [] status = "resolved" -> 4

(* update_status looks at the status, then writes: only forward; a drone   *)
(* is noted whatever the status.                                           *)
Forward(i, status) == IF Rank(status) > Rank(inc[i].status) THEN status ELSE None
Updated(i, status, drone) ==
  [inc EXCEPT ![i].status = IF status = None THEN @ ELSE status, ![i].drone = IF drone = None THEN @ ELSE drone]

(* _reopen: an incident that is not over is new again, without its drone;  *)
(* then, whatever it is, it has no job any more.                           *)
ReopensAlways(i) == "reopen"
Reopens(i) == IF inc[i].status = "resolved" THEN "letgo" ELSE "reopen"
Renewed(i, drone) == [inc EXCEPT ![i].status = "new", ![i].drone = drone]
LetGoIfOver(i) == IF inc[i].status = "resolved" THEN [inc EXCEPT ![i].job = None] ELSE inc
LetGo(i) == [inc EXCEPT ![i].job = None]

LoopFree == loop.at = "free"

(* The event loop does what it has decided on.                             *)
LoopWrites ==
  LET i == loop.inc
  IN /\ \/ /\ loop.at = "update" /\ loop' = Free
           /\ inc' = Updated(i, loop.status, loop.drone)
        \/ /\ loop.at = "reopen" /\ loop' = [loop EXCEPT !.at = "letgo"]
           /\ inc' = Renewed(i, None)
        \/ /\ loop.at = "letgo" /\ loop' = Free /\ inc' = LetGo(i)
     /\ UNCHANGED <<memory, fly, resolving, fleet, jobs, strays, events>>

Trigger ==
  /\ LoopFree /\ counter < MaxIncidents /\ counter' = counter + 1
  /\ inc' = [inc EXCEPT ![counter + 1] = [NoIncident EXCEPT !.listed = TRUE, !.status = "new"]]
  /\ UNCHANGED <<fly, visit, arrived, resolving, loop, seen, asked, fleet, jobs, strays, events>>

(* The list is emptied; threads and coroutines keep the incidents they have. *)
ClearIncidents ==
  /\ Event /\ LoopFree
  /\ \E i \in Incidents : inc[i].listed
  /\ inc' = [i \in Incidents |-> [inc[i] EXCEPT !.listed = FALSE]]
  /\ UNCHANGED <<memory, fly, resolving, loop, fleet, jobs, strays>>

(* The service's process ends and starts anew, with nothing but the id     *)
(* 001: also when a call of the monitor is not answered in time.           *)
Restart ==
  /\ Fails("restart")
  /\ inc' = [i \in Incidents |-> NoIncident] /\ counter' = 0
  /\ fly' = [j \in Jobs |-> IF fly[j] = "none" THEN "none" ELSE "over"]
  /\ visit' = Sleeping /\ arrived' = {} /\ resolving' = [r \in Resolvers |-> Resting] /\ loop' = Free
  /\ UNCHANGED <<seen, asked, fleet, jobs, strays>>
-----------------------------------------------------------------------------
(* The fleet API and the drones.                                           *)

Holds(j) == jobs[j].drone # None /\ fleet[jobs[j].drone].job = j

GoesHome(f) == IF f.at = Ground THEN f ELSE [f EXCEPT !.goal = Ground]

(* The fleet API ends a job; the plugin's hold on the drone goes with it.  *)
Ended(f) == [f EXCEPT !.job = None, !.holder = IF @ = "dispatch" THEN None ELSE @]

StartJob(d, i) ==
  /\ Event /\ i <= counter /\ fleet[d].job = None
  /\ \E j \in Jobs :
       /\ jobs[j].post = "none" /\ \A k \in Jobs : k < j => jobs[k].post # "none"
       /\ jobs' = [jobs EXCEPT ![j] = [drone |-> d, inc |-> i, post |-> "sent", stop |-> "no"]]
       /\ fleet' = [fleet EXCEPT ![d].job = j, ![d].holder = "dispatch"]
  /\ UNCHANGED <<inc, memory, fly, resolving, loop, strays>>

(* The service refuses POST /jobs, or it is not answered (its process has  *)
(* ended). That ends the job the drone has by then and frees the drone,    *)
(* whoever holds it.                                                       *)
Refuses(j) ==
  LET d == jobs[j].drone
  IN /\ jobs' = [jobs EXCEPT ![j].post = "refused"] /\ UNCHANGED <<inc, strays>>
     /\ fleet' = [fleet EXCEPT ![d].job = None, ![d].holder = None]

PostFails(j) ==
  /\ jobs[j].post = "sent"
  /\ \/ fly[j] = "over" /\ Calm
     \/ Fails("timeout")
  /\ Refuses(j)
  /\ UNCHANGED <<memory, fly, resolving, loop>>

(* start_job: it looks at the incident's status, then at its job ...       *)
LooksUp(j) ==
  LET i == jobs[j].inc
  IN /\ jobs[j].post = "sent" /\ fly[j] = "none"
     /\ \/ /\ inc[i].listed /\ inc[i].status # "resolved"
           /\ fly' = [fly EXCEPT ![j] = "open"] /\ UNCHANGED <<inc, fleet, jobs, strays>>
        \/ (~inc[i].listed \/ inc[i].status = "resolved") /\ fly' = [fly EXCEPT ![j] = "over"] /\ Refuses(j)
     /\ UNCHANGED <<memory, resolving, loop, events>>

LooksForJob(j) ==
  /\ fly[j] = "open"
  /\ \/ inc[jobs[j].inc].job = None /\ fly' = [fly EXCEPT ![j] = "free"] /\ UNCHANGED <<inc, fleet, jobs, strays>>
     \/ inc[jobs[j].inc].job # None /\ fly' = [fly EXCEPT ![j] = "over"] /\ Refuses(j)
  /\ UNCHANGED <<memory, resolving, loop, events>>

(* ... notes its job, makes the incident new with its drone, and updates   *)
(* it. A resolution that has read of no job by now misses this one.        *)
Missed(r, i) == resolving[r].pc \in {"update", "write"} /\ resolving[r].inc = i /\ resolving[r].job = None

Claims(j) ==
  LET i == jobs[j].inc
  IN /\ fly[j] = "free" /\ fly' = [fly EXCEPT ![j] = "claimed"]
     /\ inc' = [inc EXCEPT ![i].job = j]
     /\ strays' = IF \E r \in Resolvers : Missed(r, i) THEN strays \cup {j} ELSE strays
     /\ UNCHANGED <<memory, resolving, loop, fleet, jobs, events>>

Renews(j) ==
  /\ fly[j] = "claimed" /\ fly' = [fly EXCEPT ![j] = "new"]
  /\ inc' = Renewed(jobs[j].inc, jobs[j].drone)
  /\ UNCHANGED <<memory, resolving, loop, fleet, jobs, strays, events>>

Checks(j) ==
  LET i == jobs[j].inc
  IN /\ fly[j] = "new"
     /\ fly' = [fly EXCEPT ![j] = IF ~inc[i].listed THEN "gone" ELSE IF Forward(i, "dispatched") = None THEN "keep" ELSE "dispatch"]
     /\ UNCHANGED <<inc, memory, resolving, loop, fleet, jobs, strays, events>>

(* The flight's thread starts and POST /jobs is answered.                  *)
Dispatches(j) ==
  LET i == jobs[j].inc
  IN /\ fly[j] \in {"dispatch", "keep", "gone"} /\ fly' = [fly EXCEPT ![j] = "begin"]
     /\ inc' = IF fly[j] = "gone" THEN inc
               ELSE Updated(i, IF fly[j] = "dispatch" THEN "dispatched" ELSE None, jobs[j].drone)
     /\ jobs' = [jobs EXCEPT ![j].post = IF @ = "sent" THEN "running" ELSE @]
     /\ UNCHANGED <<memory, resolving, loop, fleet, strays, events>>

Starting == {"open", "free", "claimed", "new", "dispatch", "keep", "gone"}
PostJob(j) == LooksUp(j) \/ LooksForJob(j) \/ Claims(j) \/ Renews(j) \/ Checks(j) \/ Dispatches(j)

(* An operator stops the job, sends its drone home or takes it over.       *)
StopJob(j) ==
  /\ Event
  /\ Holds(j)
  /\ LET d == jobs[j].drone
     IN \/ fleet' = [fleet EXCEPT ![d] = Ended(@)]
        \/ fleet' = [fleet EXCEPT ![d] = GoesHome(Ended(@))]
        \/ People /\ fleet' = [fleet EXCEPT ![d].job = None, ![d].holder = "person"]
  /\ jobs' = [jobs EXCEPT ![j].stop = "sent"]
  /\ UNCHANGED <<inc, memory, fly, resolving, loop, strays>>

(* POST /jobs/{id}/stopped reaches the service.                            *)
JobStopped(j) ==
  LET i == jobs[j].inc
  IN /\ LoopFree /\ jobs[j].stop = "sent"
     /\ jobs' = [jobs EXCEPT ![j].stop = "told"]
     /\ loop' = IF inc[i].listed /\ inc[i].job = j THEN [Free EXCEPT !.at = Reopens(i), !.inc = i] ELSE loop
     /\ UNCHANGED <<inc, memory, fly, resolving, fleet, strays, events>>

GetJobAny(j) == \E i \in Incidents : inc[i].job = j

(* GET /jobs/{id}: does an incident have this job?                         *)
GetJob(j) == \E i \in Incidents : inc[i].listed /\ inc[i].job = j

(* The job watchdog: a job the service does not know ends and its drone    *)
(* goes home; so ends a job whose drone stays on the ground.               *)
WatchdogEnds(j) ==
  /\ LoopFree /\ Holds(j) /\ jobs[j].post = "running" /\ ~GetJob(j)
  /\ fleet' = [fleet EXCEPT ![jobs[j].drone] = GoesHome(Ended(@))]
  /\ jobs' = [jobs EXCEPT ![j].stop = "sent"]
  /\ UNCHANGED <<inc, memory, fly, resolving, loop, strays, events>>

OrphanEnds(j) ==
  /\ Holds(j) /\ fleet[jobs[j].drone].at = Ground /\ fly[j] = "over"
  /\ fleet' = [fleet EXCEPT ![jobs[j].drone] = Ended(@)]
  /\ UNCHANGED <<inc, memory, fly, resolving, loop, jobs, strays, events>>

Moves(d) ==
  /\ fleet[d].goal # None
  /\ fleet' = [fleet EXCEPT ![d].goal = None, ![d].at = fleet[d].goal]
  /\ UNCHANGED <<inc, memory, fly, resolving, loop, jobs, strays, events>>

(* An operator flies a drone nobody has a job for, or leaves it.           *)
PersonFlies(d) ==
  /\ Event
  /\ People /\ fleet[d].job = None
  /\ \/ fleet[d].holder # "person" /\ fleet' = [fleet EXCEPT ![d].holder = "person"]
     \/ fleet[d].holder = "person" /\ fleet' = [fleet EXCEPT ![d].holder = None]
  /\ UNCHANGED <<inc, memory, fly, resolving, loop, jobs, strays>>

(* DELETE of a job by the service: only the job it names.                  *)
Delete(f, j) == [d \in Drones |-> IF f[d].job = j THEN Ended(f[d]) ELSE f[d]]
-----------------------------------------------------------------------------
(* _fly_to: the thread that flies a job. It asks for the drone's state,    *)
(* takes off if it is low, waits until it is up, and sends it on.          *)

(* A command that is not a safety command: refused if another has control. *)
MayCommand(d) == fleet[d].holder # "person"
Commands(d, goal) == fleet' = [fleet EXCEPT ![d].holder = "dispatch", ![d].goal = goal]

Flown(j, stage) == fly' = [fly EXCEPT ![j] = stage]
FlightFails(j) == Flown(j, "fails") /\ UNCHANGED fleet

TakeOff(j) ==
  LET d == jobs[j].drone
  IN /\ fly[j] = "begin"
     /\ \/ fleet[d].at # Ground /\ Flown(j, "goto") /\ Calm /\ UNCHANGED fleet
        \/ fleet[d].at = Ground /\ MayCommand(d) /\ Flown(j, "climb") /\ Commands(d, Air) /\ Calm
        \/ fleet[d].at = Ground /\ ~MayCommand(d) /\ FlightFails(j) /\ Calm
        \/ fleet[d].at = Ground /\ Fails("refused") /\ FlightFails(j)
     /\ UNCHANGED <<inc, memory, resolving, loop, jobs, strays>>

Climbs(j) ==
  LET d == jobs[j].drone
  IN /\ fly[j] = "climb"
     /\ \/ fleet[d].at # Ground /\ Flown(j, "goto") /\ UNCHANGED fleet
        \/ fleet[d].goal # Air /\ FlightFails(j)
     /\ UNCHANGED <<inc, memory, resolving, loop, jobs, strays, events>>

GoTo(j) ==
  LET d == jobs[j].drone
  IN /\ fly[j] = "goto"
     /\ \/ MayCommand(d) /\ fleet[d].at # Ground /\ Flown(j, "over") /\ Commands(d, jobs[j].inc) /\ Calm
        \/ ~MayCommand(d) /\ FlightFails(j) /\ Calm
        \/ fleet[d].at = Ground /\ FlightFails(j) /\ Calm
        \/ Fails("refused") /\ FlightFails(j)
     /\ UNCHANGED <<inc, memory, resolving, loop, jobs, strays>>

(* A flight that fails reopens its incident, then ends its job.            *)
FlightReopens(j) ==
  LET i == jobs[j].inc
  IN /\ \/ fly[j] = "fails" /\ Flown(j, Reopens(i)) /\ UNCHANGED inc
        \/ fly[j] = "reopen" /\ Flown(j, "letgo") /\ inc' = Renewed(i, None)
        \/ fly[j] = "letgo" /\ Flown(j, "end") /\ inc' = LetGo(i)
     /\ UNCHANGED <<memory, resolving, loop, fleet, jobs, strays, events>>

(* A call that is not answered in time is no DroneError: the thread ends.  *)
FlightHangs(j) ==
  /\ fly[j] \in {"begin", "climb", "goto"} /\ Fails("timeout") /\ Flown(j, "over")
  /\ UNCHANGED <<inc, memory, resolving, loop, fleet, jobs, strays>>

FlightEndsJob(j) ==
  /\ fly[j] = "end" /\ Flown(j, "over")
  /\ \/ Calm /\ fleet' = Delete(fleet, j)
     \/ Fails("delete") /\ UNCHANGED fleet
  /\ UNCHANGED <<inc, memory, resolving, loop, jobs, strays>>
-----------------------------------------------------------------------------
(* Resolving: the incident is resolved, then its drone is sent home, then  *)
(* its job ends. The drone and the job are the ones read at first.         *)

(* An operator's request has looked at the status before its thread starts. *)
AskToResolve(r, i) ==
  /\ Event /\ LoopFree
  /\ r # Monitor /\ resolving[r].pc = "idle" /\ inc[i].listed /\ inc[i].status # "resolved"
  /\ resolving' = [resolving EXCEPT ![r] = [Resting EXCEPT !.pc = "begin", !.inc = i]]
  /\ UNCHANGED <<inc, memory, fly, loop, fleet, jobs, strays>>

(* An incident that has left the list is not updated.                      *)
Resolve(r) ==
  LET i == resolving[r].inc
  IN /\ \/ /\ resolving[r].pc = "begin" /\ UNCHANGED inc
           /\ resolving' = [resolving EXCEPT ![r] = [pc |-> "update", inc |-> i, drone |-> inc[i].drone, job |-> inc[i].job]]
        \/ /\ resolving[r].pc = "update" /\ UNCHANGED inc
           /\ resolving' = [resolving EXCEPT ![r].pc =
                IF ~inc[i].listed THEN "home" ELSE IF Forward(i, "resolved") = None THEN "keep" ELSE "write"]
        \/ /\ resolving[r].pc \in {"write", "keep"} /\ resolving' = [resolving EXCEPT ![r].pc = "home"]
           /\ inc' = Updated(i, IF resolving[r].pc = "write" THEN "resolved" ELSE None, resolving[r].drone)
     /\ UNCHANGED <<memory, fly, loop, fleet, jobs, strays, events>>

Taken(f) == [f EXCEPT !.holder = IF @ = None THEN "dispatch" ELSE @]
KeepsJob(r) ==
  /\ resolving' = IF resolving[r].job = None THEN [resolving EXCEPT ![r] = Resting] ELSE [resolving EXCEPT ![r].pc = "delete"]
  /\ UNCHANGED <<inc, strays>>
LetsGo(r) ==
  LET j == resolving[r].job
  IN /\ inc' = IF j = None THEN inc ELSE LetGo(resolving[r].inc)
     /\ resolving' = IF j = None THEN [resolving EXCEPT ![r] = Resting] ELSE [resolving EXCEPT ![r].pc = "delete"]
     /\ UNCHANGED strays

(* Return home is accepted whoever has the drone. The job is let go of     *)
(* before the fleet API is asked to end it.                                *)
SendHome(r) ==
  LET d == resolving[r].drone
  IN /\ resolving[r].pc = "home" /\ LetsGo(r)
     /\ \/ d = None /\ Calm /\ UNCHANGED fleet
        \/ d # None /\ Calm /\ fleet' = [fleet EXCEPT ![d] = GoesHome(Taken(@))]
        \/ d # None /\ Fails("refused") /\ UNCHANGED fleet
     /\ UNCHANGED <<memory, fly, loop, jobs>>

(* No answer in time is no DroneError: the operator's request fails there  *)
(* and the incident keeps its job. (The monitor's ends the process.)       *)
ResolveHangs(r) ==
  LET d == resolving[r].drone
  IN /\ r # Monitor /\ resolving[r].pc = "home" /\ d # None /\ Fails("timeout")
     /\ fleet' \in {fleet, [fleet EXCEPT ![d] = GoesHome(Taken(@))]}
     /\ resolving' = [resolving EXCEPT ![r] = Resting]
     /\ strays' = strays \cup ({inc[resolving[r].inc].job} \ {None})
     /\ UNCHANGED <<inc, memory, fly, loop, jobs>>

ResolverEndsJob(r) ==
  /\ resolving[r].pc = "delete" /\ resolving' = [resolving EXCEPT ![r] = Resting]
  /\ \/ Calm /\ fleet' = Delete(fleet, resolving[r].job)
     \/ Fails("delete") /\ UNCHANGED fleet
  /\ UNCHANGED <<inc, memory, fly, loop, jobs, strays>>
-----------------------------------------------------------------------------
ToVisitAll(left) == {i \in left : inc[i].status # "resolved"}
ToVisitJobs(left) == {i \in left : inc[i].status # "resolved" /\ inc[i].drone # None /\ inc[i].job # None}

(* The monitor passes over the incidents there are when a pass begins.     *)
ToVisit(left) == {i \in left : inc[i].status # "resolved" /\ inc[i].drone # None}

(* It reads which drone to ask for ...                                     *)
AskPosition ==
  /\ LoopFree /\ visit.at = None /\ resolving[Monitor].pc = "idle"
  /\ LET pass == IF ToVisit(visit.left) # {} THEN visit.left ELSE {i \in Incidents : inc[i].listed}
     IN \E i \in ToVisit(pass) :
          /\ \A k \in ToVisit(pass) : i <= k
          /\ visit' = [left |-> {k \in pass : k > i}, at |-> i, drone |-> inc[i].drone]
  /\ UNCHANGED <<inc, counter, fly, arrived, resolving, loop, seen, asked, fleet, jobs, strays, events>>

(* ... and with its position notes an arrival, or resolves after a while.  *)
HearPosition ==
  LET i == visit.at
  IN /\ LoopFree /\ i # None /\ visit' = [visit EXCEPT !.at = None, !.drone = None]
     /\ \/ /\ fleet[visit.drone].at # i
           /\ arrived' = arrived \ {i} /\ UNCHANGED <<resolving, loop>>
        \/ /\ fleet[visit.drone].at = i /\ i \notin arrived
           /\ arrived' = arrived \cup {i} /\ UNCHANGED resolving
           /\ loop' = IF inc[i].status = "dispatched" /\ inc[i].listed
                      THEN [at |-> "update", inc |-> i, status |-> "on_scene", drone |-> visit.drone] ELSE loop
        \/ /\ fleet[visit.drone].at = i /\ i \in arrived
           /\ arrived' = arrived \ {i} /\ UNCHANGED loop
           /\ resolving' = [resolving EXCEPT ![Monitor] = [Resting EXCEPT !.pc = "begin", !.inc = i]]
     /\ UNCHANGED <<inc, counter, fly, seen, asked, fleet, jobs, strays, events>>
-----------------------------------------------------------------------------
(* The bridge hands every incident that is new to the AI once, and notes   *)
(* the drone the AI says it sent.                                          *)

HandToAI(i) ==
  /\ Event /\ LoopFree /\ inc[i].listed /\ inc[i].status = "new" /\ i \notin seen
  /\ seen' = seen \cup {i} /\ asked' = asked \cup {i}
  /\ UNCHANGED <<inc, counter, fly, visit, arrived, resolving, loop, fleet, jobs, strays>>

SentTo(i) == {jobs[j].drone : j \in {k \in Jobs : jobs[k].inc = i /\ jobs[k].post = "running"}}

AIAnswers(i) ==
  /\ LoopFree /\ i \in asked /\ asked' = asked \ {i}
  /\ \/ UNCHANGED loop
     \/ \E d \in SentTo(i) :
          inc[i].listed /\ loop' = [at |-> "update", inc |-> i, status |-> Forward(i, "dispatched"), drone |-> d]
  /\ UNCHANGED <<inc, counter, fly, visit, arrived, resolving, seen, fleet, jobs, strays, events>>
-----------------------------------------------------------------------------
Flight(j) == TakeOff(j) \/ Climbs(j) \/ GoTo(j) \/ FlightReopens(j) \/ FlightEndsJob(j)
Resolver(r) == Resolve(r) \/ SendHome(r) \/ ResolverEndsJob(r)
Monitoring == AskPosition \/ HearPosition

Next ==
  \/ Trigger \/ ClearIncidents \/ Restart \/ LoopWrites
  \/ \E d \in Drones, i \in Incidents : StartJob(d, i)
  \/ \E j \in Jobs : PostJob(j) \/ PostFails(j) \/ StopJob(j) \/ JobStopped(j) \/ WatchdogEnds(j) \/ OrphanEnds(j)
  \/ \E d \in Drones : Moves(d) \/ PersonFlies(d)
  \/ \E j \in Jobs : Flight(j) \/ FlightHangs(j)
  \/ \E r \in Resolvers, i \in Incidents : AskToResolve(r, i)
  \/ \E r \in Resolvers : Resolver(r) \/ ResolveHangs(r)
  \/ Monitoring
  \/ \E i \in Incidents : HandToAI(i) \/ AIAnswers(i)

Spec == Init /\ [][Next]_vars

(* The threads, requests and watchdog of a job go on (each of their steps  *)
(* happens once), so do those who resolve, the monitor and the drones.     *)
(* Nobody need make, clear, start, stop or resolve anything.               *)
Fairness ==
  /\ \A j \in Jobs : WF_vars(PostJob(j) \/ JobStopped(j) \/ WatchdogEnds(j) \/ Flight(j))
  /\ \A r \in Resolvers : WF_vars(Resolver(r))
  /\ WF_vars(LoopWrites) /\ WF_vars(Monitoring) /\ \A d \in Drones : WF_vars(Moves(d))
FairSpec == Spec /\ Fairness
-----------------------------------------------------------------------------
TypeOK ==
  /\ inc \in [Incidents -> [listed: BOOLEAN, status: {"none", "new", "dispatched", "on_scene", "resolved"},
                            drone: Drones \cup {None}, job: Jobs \cup {None}]]
  /\ counter \in 0 .. MaxIncidents
  /\ fly \in [Jobs -> Starting \cup {"none", "begin", "climb", "goto", "fails", "reopen", "letgo", "end", "over"}]
  /\ visit \in [left: SUBSET Incidents, at: Incidents \cup {None}, drone: Drones \cup {None}]
  /\ visit.at # None => visit.drone # None
  /\ arrived \subseteq Incidents /\ seen \subseteq Incidents /\ asked \subseteq Incidents
  /\ resolving \in [Resolvers -> [pc: {"idle", "begin", "update", "write", "keep", "home", "delete"}, inc: Incidents \cup {None},
                                  drone: Drones \cup {None}, job: Jobs \cup {None}]]
  /\ loop \in [at: {"free", "update", "reopen", "letgo"}, inc: Incidents \cup {None},
              status: {None, "dispatched", "on_scene"}, drone: Drones \cup {None}]
  /\ strays \subseteq Jobs
  /\ fleet \in [Drones -> [job: Jobs \cup {None}, holder: {None, "dispatch", "person"},
                           goal: Places \cup {None}, at: Places]]
  /\ jobs \in [Jobs -> [drone: Drones \cup {None}, inc: Incidents \cup {None},
                        post: {"none", "sent", "running", "refused"}, stop: {"no", "sent", "told"}]]
  /\ events \in 0 .. MaxEvents

(* Who is between a look at incident i and a write that says it is open,   *)
(* or has yet to let go of the job of one that is new again.               *)
Opening(i) ==
  \/ \E j \in Jobs : jobs[j].inc = i /\ fly[j] \in {"open", "free", "claimed", "new", "dispatch", "reopen"}
  \/ loop.inc = i /\ (loop.at = "reopen" \/ (loop.at = "update" /\ loop.status # None))
Clearing(i) ==
  \/ \E j \in Jobs : jobs[j].inc = i /\ fly[j] \in {"claimed", "new", "dispatch", "letgo"}
  \/ loop.inc = i /\ loop.at = "letgo"

(* A drone can be sent to an incident that shows as new: but while a start *)
(* or a reopening is at it, it has no job to refuse another one by.        *)
NewIsFree ==
  \A i \in Incidents : inc[i].listed /\ inc[i].status = "new" /\ inc[i].job # None => Clearing(i)

(* A resolved incident has a job only while somebody is about to take it   *)
(* away or to open the incident again, or if the resolution missed it: its *)
(* job came after resolve had read that there was none, or resolve was cut *)
(* off by a call that was not answered.                                    *)
ResolvedIsOver ==
  \A i \in Incidents : inc[i].status = "resolved" /\ inc[i].job # None =>
    \/ inc[i].job \in strays \/ fly[inc[i].job] = "claimed"
    \/ \E r \in Resolvers : resolving[r].pc \in {"keep", "home"} /\ resolving[r].inc = i /\ resolving[r].job # None

(* Once nobody who saw it open is about to write, a resolved incident is   *)
(* over for good: no later start, flight, stop or answer opens it again.   *)
Settled(i) == inc[i].status = "resolved" /\ ~Opening(i)
ResolvedStays ==
  [][\A i \in Incidents : Settled(i) => Settled(i)' \/ inc'[i].status = "none"]_vars

(* A job that no resolution missed does not outlive its incident, though   *)
(* the request that ends it is lost, the service restarts or the list is   *)
(* cleared.                                                                *)
Over(i) == ~inc[i].listed \/ inc[i].status = "resolved"
JobEndsWithIncident ==
  \A j \in Jobs : ~<>[](Holds(j) /\ jobs[j].post = "running" /\ Over(jobs[j].inc) /\ j \notin strays)

(* No incident stays open for ever with its drone on the scene.            *)
StayerResolves ==
  \A i \in Incidents, d \in Drones :
    ~<>[](inc[i].listed /\ inc[i].status # "resolved" /\ inc[i].drone = d /\ fleet[d].at = i)
================================================================================
