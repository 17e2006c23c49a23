------------------------------- MODULE FleetApi -------------------------------
(***************************************************************************)
(* The control desk of the fleet API (fleet_api/app.py, fleet_api/jobs.py) *)
(* for one drone: who holds the drone (class Control), its one job (class  *)
(* JobStore), the handlers that read and change them, the job watchdog.    *)
(*                                                                         *)
(* Handlers declared `def` run in a thread pool, run_command is async and  *)
(* runs on the event loop, the watchdog is a thread.  Control and JobStore *)
(* take their lock for every read or write, so a step of the model is one  *)
(* locked section, one call to a plugin or one command to the drone, and   *)
(* anything may interleave between two of them.  Both classes are keyed by *)
(* the drone: one drone is enough.  A client has one request at a time.    *)
(***************************************************************************)
EXTENDS Integers, FiniteSets

CONSTANTS
  People,        (* pilots: humans or agents                                *)
  Plugins,       (* installed plugins; a plugin is also its own operator    *)
  Onboard,       (* the plugins whose manifest names an onboard_mode        *)
  Watchdog,      (* the watch_jobs thread                                   *)
  None,          (* nobody, no plugin                                       *)
  MaxJobs,       (* bound: jobs begun in a behaviour                        *)
  Kinds,         (* what clients ask for, a subset of AllKinds              *)
  Forces,        (* values of `force` in people's requests                  *)
  Faults,        (* how a plugin's service may fail, subset of FaultKinds   *)
  Watches,       (* FALSE: behaviours whose watchdog is never scheduled     *)
  MayRefuse,     (* may PX4 refuse a command, or a plugin a start?          *)
  HoldsExpire,   (* do 15 idle minutes happen?                              *)
  MaxCrashes,    (* bound: restarts of the fleet API                        *)
  LostPasses,    (* watchdog passes that make PLUGIN_LOST_S                 *)
  OrphanPasses   (* watchdog passes that make JOB_ORPHAN_S                  *)

AllKinds == {"take", "release", "start", "end", "move", "hold", "land", "remove"}
FaultKinds == {"down", "hung"}
Clients == People \cup Plugins
Actors == Clients \cup {Watchdog}
JobIds == 1 .. MaxJobs
NoJob == 0

ASSUME ConstantsAssumption ==
  /\ People \cap Plugins = {} /\ Onboard \subseteq Plugins
  /\ Watchdog \notin Clients /\ None \notin Actors
  /\ MaxJobs \in Nat /\ MaxCrashes \in Nat
  /\ Kinds \subseteq AllKinds /\ Faults \subseteq FaultKinds
  /\ Watches \in BOOLEAN /\ Forces \subseteq BOOLEAN /\ MayRefuse \in BOOLEAN /\ HoldsExpire \in BOOLEAN
  /\ LostPasses \in Nat \ {0} /\ OrphanPasses \in Nat \ {0}

VARIABLES
  holder,     (* Control._holders[drone]["operator"], on disk               *)
  active,     (* JobStore._active[drone], on disk                           *)
  jobs,       (* every job's record, on disk                                *)
  starting,   (* jobs whose plugin hasn't answered POST /jobs               *)
  installed,  (* PluginRegistry: the manifests the fleet API knows          *)
  req,        (* where each actor's handler is, and its local variables     *)
  knows,      (* what the job's plugin knows of it                          *)
  svc,        (* the plugins' HTTP services                                 *)
  armed,      (* the drone's arming state                                   *)
  goal,       (* the command the drone carries out, and for which job       *)
  landedFor,  (* landed_since, counted in watchdog passes; 0: not in it     *)
  lostFor,    (* lost_since, counted in watchdog passes; 0: not in it       *)
  old,        (* jobs started more than JOB_ORPHAN_S ago                    *)
  crashes

store == <<active, jobs>>
drone == <<armed, goal>>
timers == <<landedFor, lostFor, old>>
vars == <<holder, store, starting, installed, req, knows, svc, drone, timers, crashes>>

(* Why a job ended: the code writes refused, orphaned and lost as "failed" *)
(* with different reasons.                                                 *)
Results == {"none", "completed", "stopped", "refused", "orphaned", "lost"}
NewJob == [plugin |-> None, status |-> "none", result |-> "none"]
NoGoal == [cmd |-> "none", job |-> NoJob]
Idle == [pc |-> "idle", kind |-> "none", force |-> FALSE, seen |-> None, job |-> NoJob,
         plug |-> None, result |-> "none", armed |-> FALSE]

Init ==
  /\ holder = None /\ installed = Plugins
  /\ active = NoJob /\ jobs = [j \in JobIds |-> NewJob]
  /\ req = [a \in Actors |-> Idle] /\ starting = {}
  /\ knows = [j \in JobIds |-> "no"] /\ svc = [p \in Plugins |-> "up"]
  /\ armed = FALSE /\ goal = NoGoal
  /\ landedFor = [j \in JobIds |-> 0] /\ lostFor = [j \in JobIds |-> 0]
  /\ old = {} /\ crashes = 0

At(a, pc) == req[a].pc = pc
Go(a, pc) == req' = [req EXCEPT ![a].pc = pc, ![a].seen = None]
Done(a) == req' = [req EXCEPT ![a] = Idle]
PluginOf(j) == IF j # NoJob /\ jobs[j].plugin \in installed THEN jobs[j].plugin ELSE None

-----------------------------------------------------------------------------
(* Requests.  run_command is on the event loop except while it awaits the  *)
(* command; whoever is on the loop keeps new requests from being accepted. *)

Commands == {"move", "hold", "land"}
OnLoop(c) == req[c].kind \in Commands /\ req[c].pc \notin {"exec", "executed"}
LoopFree == \A c \in Clients : ~OnLoop(c)

FirstStep == [take |-> "claimRead", release |-> "relRead", start |-> "startCheck",
              end |-> "endRead", move |-> "claimRead", hold |-> "safety",
              land |-> "safety", remove |-> "removeCheck"]

Ask(c, kind, force, job, plug) ==
  /\ kind \in Kinds
  /\ At(c, "idle") /\ LoopFree
  /\ req' = [req EXCEPT ![c] = [Idle EXCEPT !.pc = FirstStep[kind], !.kind = kind,
                                !.force = force, !.job = job, !.plug = plug]]

(* A plugin that is not installed can neither be started nor removed.      *)
PersonAsks(c) ==
  \/ \E force \in Forces, kind \in {"take", "release"} : Ask(c, kind, force, NoJob, None)
  \/ \E kind \in Commands \cup {"end"} : Ask(c, kind, FALSE, NoJob, None)
  \/ \E p \in installed, kind \in {"start", "remove"} : Ask(c, kind, FALSE, NoJob, p)

(* A job's thread sends a command after _check found the job not stopped;  *)
(* removing the plugin revokes its token.                                  *)
PluginCommands(p) ==
  \E j \in JobIds, kind \in {"move", "land"} :
    /\ jobs[j].plugin = p /\ p \in installed
    /\ knows[j] \in {"starting", "running"}
    /\ Ask(p, kind, FALSE, j, None)

(* The job function returned or raised: _run ends the job with DELETE.  An *)
(* SDK job may be that short that POST /jobs isn't answered yet.           *)
PluginFinishes(p) ==
  \E j \in JobIds :
    /\ jobs[j].plugin = p /\ p \in installed
    /\ knows[j] = "running" \/ (knows[j] = "starting" /\ p \notin Onboard)
    /\ Ask(p, "end", FALSE, j, None)
    /\ knows' = [knows EXCEPT ![j] = "done"]

-----------------------------------------------------------------------------
(* Control.claim and Control.release read the holder under the lock, let   *)
(* the lock go, and take it again to write.                                *)

ReadHolder(c) ==
  \/ At(c, "claimRead") /\ req' = [req EXCEPT ![c].seen = holder, ![c].pc = "claimWrite"]
  \/ At(c, "relRead") /\ req' = [req EXCEPT ![c].seen = holder, ![c].pc = "relPop"]

MayClaim(c) == req[c].seen \in {None, c} \/ req[c].force

ClaimRefused(c) == At(c, "claimWrite") /\ ~MayClaim(c) /\ Done(c)

(* claim returned a previous holder: take_control stops the job.           *)
NeverTakesOver(c) == FALSE
TakesOver(c) == req[c].kind = "take" /\ req[c].seen \notin {None, c}

ClaimWrite(c) ==
  /\ At(c, "claimWrite") /\ MayClaim(c)
  /\ holder' = c
  /\ \/ req[c].kind = "take" /\ ~TakesOver(c) /\ Done(c)
     \/ TakesOver(c) /\ Go(c, "stopRead")
     \/ req[c].kind \in Commands /\ Go(c, "exec")

(* Nothing to release, a 409, or the entry is popped whoever is in it now. *)
ReleasePop(c) ==
  /\ At(c, "relPop")
  /\ holder' = IF req[c].seen # None /\ (req[c].seen = c \/ req[c].force) THEN None ELSE holder
  /\ Done(c)

(* 15 minutes without a command.  A request of the holder, or the start of *)
(* its job, refreshes the hold and is over in less than 15 minutes.        *)
HoldExpires ==
  /\ HoldsExpire /\ holder # None
  /\ \A c \in Clients : At(c, "idle") \/ (c # holder /\ req[c].plug # holder)
  /\ holder' = None
  /\ UNCHANGED <<store, starting, installed, req, knows, svc, drone, timers, crashes>>

-----------------------------------------------------------------------------
(* JobStore.begin and JobStore.end, and what follows an end.               *)

BeginUnchecked(j, p) ==
  /\ jobs[j].status = "none" /\ \A i \in JobIds : i < j => jobs[i].status # "none"
  /\ active' = j
  /\ jobs' = [jobs EXCEPT ![j] = [plugin |-> p, status |-> "running", result |-> "none"]]

Begin(j, p) ==
  /\ active = NoJob
  /\ jobs[j].status = "none" /\ \A i \in JobIds : i < j => jobs[i].status # "none"
  /\ active' = j
  /\ jobs' = [jobs EXCEPT ![j] = [plugin |-> p, status |-> "running", result |-> "none"]]

EndKeepsActive(result, id) ==
  IF active # NoJob /\ id \in {NoJob, active}
  THEN /\ jobs' = [jobs EXCEPT ![active].status = "ended", ![active].result = result]
       /\ UNCHANGED active
  ELSE UNCHANGED store

(* Ends whatever job the drone has now; an id is only compared if given.   *)
End(result, id) ==
  IF active # NoJob /\ id \in {NoJob, active}
  THEN /\ active' = NoJob
       /\ jobs' = [jobs EXCEPT ![active].status = "ended", ![active].result = result]
  ELSE UNCHANGED store

(* Only check_plugins names the job it ends, and goes on only if it did.   *)
EndJob(a) ==
  LET lost == req[a].result = "lost"
  IN /\ At(a, "end")
     /\ End(req[a].result, IF lost THEN req[a].job ELSE NoJob)
     /\ IF lost /\ active # req[a].job THEN Done(a)
        ELSE Go(a, IF req[a].result = "refused" THEN "pop" ELSE "free")

AfterFreeUntold(a) == IF req[a].result = "lost" THEN Go(a, "goHome") ELSE Done(a)
AfterFreeStays(a) == IF req[a].result \in {"stopped", "lost"} THEN Go(a, "tell") ELSE Done(a)
AfterFree(a) == CASE req[a].result = "stopped" -> Go(a, "tell")
                  [] req[a].result = "lost" -> Go(a, "goHome")
                  [] OTHER -> Done(a)

(* If the holder is the job's plugin ...                                   *)
FreeCheck(a) ==
  /\ At(a, "free")
  /\ IF req[a].plug # None /\ holder = req[a].plug THEN Go(a, "pop") ELSE AfterFree(a)

(* ... its hold is dropped: release(force=True) pops any holder.           *)
FreePop(a) == At(a, "pop") /\ holder' = None /\ AfterFree(a)

-----------------------------------------------------------------------------
(* start_job.                                                              *)

StartCheck(c) ==
  /\ At(c, "startCheck")
  /\ IF holder \in {None, c, req[c].plug} THEN Go(c, "begin") ELSE Done(c)

StartBegin(c) ==
  /\ At(c, "begin")
  /\ \E j \in JobIds : Begin(j, req[c].plug)
                       /\ req' = [req EXCEPT ![c].job = j, ![c].pc = "claimForce"]

(* The drone already has a job (or MaxJobs, the bound, is used up).        *)
StartConflict(c) ==
  /\ At(c, "begin")
  /\ active # NoJob \/ \A j \in JobIds : jobs[j].status # "none"
  /\ Done(c)

(* A forced claim does not depend on the holder it reads first.            *)
StartClaim(c) ==
  /\ At(c, "claimForce")
  /\ holder' = req[c].plug
  /\ starting' = starting \cup {req[c].job}
  /\ Go(c, "post")

(* POST /jobs reaches the plugin's service, which may fly at once.         *)
PostArrives(c) ==
  /\ At(c, "post") /\ svc[req[c].plug] = "up"
  /\ knows' = [knows EXCEPT ![req[c].job] = "starting"]
  /\ Go(c, "answer")
  /\ UNCHANGED starting

PostAccepted(c) ==
  /\ At(c, "answer") /\ svc[req[c].plug] = "up"
  /\ knows[req[c].job] \in {"starting", "stopped", "done"}
  /\ knows' = [knows EXCEPT ![req[c].job] = IF @ = "starting" THEN "running" ELSE @]
  /\ starting' = starting \ {req[c].job}
  /\ Done(c)

PostRefusedLeaks(c) ==
  /\ \/ At(c, "post") /\ svc[req[c].plug] = "down" /\ UNCHANGED knows
     \/ /\ At(c, "answer") /\ svc[req[c].plug] = "up" /\ MayRefuse
        /\ knows[req[c].job] = "starting"
        /\ knows' = [knows EXCEPT ![req[c].job] = "no"]
  /\ req' = [req EXCEPT ![c].result = "refused", ![c].pc = "end"]
  /\ UNCHANGED starting

(* Nothing listens, or the plugin answers 4xx.                             *)
PostRefused(c) ==
  /\ \/ At(c, "post") /\ svc[req[c].plug] = "down" /\ UNCHANGED knows
     \/ /\ At(c, "answer") /\ svc[req[c].plug] = "up" /\ MayRefuse
        /\ knows[req[c].job] = "starting"
        /\ knows' = [knows EXCEPT ![req[c].job] = "no"]
  /\ starting' = starting \ {req[c].job}
  /\ req' = [req EXCEPT ![c].result = "refused", ![c].pc = "end"]

PostFailsLeaks(c) ==
  /\ \/ At(c, "post") /\ svc[req[c].plug] = "hung"
     \/ At(c, "answer") /\ (svc[req[c].plug] # "up" \/ knows[req[c].job] = "no")
  /\ Done(c)
  /\ UNCHANGED <<knows, starting>>

(* No answer in 180 s or a broken connection: the error is no PluginError, *)
(* so only the `finally` runs.                                             *)
PostFails(c) ==
  /\ \/ At(c, "post") /\ svc[req[c].plug] = "hung"
     \/ At(c, "answer") /\ (svc[req[c].plug] # "up" \/ knows[req[c].job] = "no")
  /\ starting' = starting \ {req[c].job}
  /\ Done(c)
  /\ UNCHANGED knows

-----------------------------------------------------------------------------
(* end_job and stop_job.                                                   *)

(* An id is compared with the job read here; End is then called without.   *)
EndRead(c) ==
  /\ At(c, "endRead")
  /\ IF active = NoJob \/ req[c].job \notin {NoJob, active} THEN Done(c)
     ELSE IF c # PluginOf(active) THEN Go(c, "stopRead")
     ELSE req' = [req EXCEPT ![c].plug = c, ![c].result = "completed", ![c].pc = "end"]

(* Someone other than the job's plugin stepped in.                         *)
StopRead(c) ==
  /\ At(c, "stopRead")
  /\ IF active = NoJob \/ c = PluginOf(active) THEN Done(c)
     ELSE req' = [req EXCEPT ![c].job = active, ![c].plug = PluginOf(active),
                             ![c].result = "stopped", ![c].pc = "end"]

(* POST /jobs/{id}/stopped.  An SDK job stops at its next call; the patrol *)
(* plugin writes a note into its running report, and before it answers it  *)
(* reads the drone's state for it from the fleet API.                      *)
Tell(a) ==
  LET p == req[a].plug  j == req[a].job
      listens == p # None /\ svc[p] = "up"
      stops == listens /\ p \notin Onboard /\ knows[j] \in {"starting", "running"}
      notes == listens /\ p \in Onboard /\ knows[j] = "running"
  IN /\ At(a, "tell")
     /\ knows' = IF stops THEN [knows EXCEPT ![j] = "stopped"] ELSE knows
     /\ IF notes THEN Go(a, "noting") ELSE Done(a)
     /\ UNCHANGED starting

NoteServed(a) ==
  /\ At(a, "noting") /\ LoopFree
  /\ knows' = [knows EXCEPT ![req[a].job] = IF @ = "running" THEN "stopped" ELSE @]
  /\ Done(a)
  /\ UNCHANGED starting

NoteWaits(a) == FALSE
(* The plugin's read times out in 5 s and its handler fails: no note.      *)
NoteTimesOut(a) == At(a, "noting") /\ ~LoopFree /\ Done(a)

-----------------------------------------------------------------------------
(* run_command.  land stands for land, return_home and kill; hold for hold *)
(* and patrol_pause; move for every command that needs control.            *)

(* A safety command claims the drone only if nobody else holds it.         *)
Safety(c) ==
  At(c, "safety") /\ Go(c, IF holder \in {None, c} THEN "claimRead" ELSE "exec")

(* The command runs in a thread while the handler awaits it.               *)
CommandRuns(c) ==
  LET kind == req[c].kind
      cmd == IF kind # "move" THEN kind ELSE IF c \in Onboard THEN "patrol" ELSE "goto"
  IN /\ At(c, "exec")
     /\ armed' = (armed \/ kind = "move")
     /\ goal' = IF armed' THEN [cmd |-> cmd, job |-> req[c].job] ELSE goal
     /\ IF kind = "land" THEN Go(c, "executed") ELSE Done(c)

CommandRefused(c) == At(c, "exec") /\ MayRefuse /\ Done(c)

(* Back on the loop, a command of JOB_ENDING stops the job.                *)
CommandResumes(c) == At(c, "executed") /\ LoopFree /\ Go(c, "stopRead")

-----------------------------------------------------------------------------
(* remove_plugin: refused if one of its jobs runs, as read before.         *)

RemoveCheck(c) ==
  /\ At(c, "removeCheck")
  /\ IF PluginOf(active) = req[c].plug THEN Done(c) ELSE Go(c, "removeDo")

RemoveDo(c) == At(c, "removeDo") /\ installed' = installed \ {req[c].plug} /\ Done(c)

-----------------------------------------------------------------------------
(* The job watchdog: check_orphans, then check_plugins, every 5 s.         *)

(* check_orphans: the drone is landed and the job is not young.  Anything  *)
(* else, and the end of the job, starts the count anew.                    *)
Landed(j) == ~armed /\ j \in old
Orphan(j) == Landed(j) /\ landedFor[j] >= OrphanPasses
NextLandedOnce(j) == IF j = active /\ Landed(j) /\ ~Orphan(j) THEN 1 ELSE 0
NextLandedKept(j) == IF j = active /\ Landed(j) THEN landedFor[j] + 1 ELSE 0
NextLanded(j) == IF j # active THEN landedFor[j]
                 ELSE IF Landed(j) /\ ~Orphan(j) THEN landedFor[j] + 1 ELSE 0

(* check_plugins leaves a starting job alone, but the time it was first    *)
(* missed at, if any, is kept and moves into the past.                     *)
NextLost(j) == IF j # active \/ lostFor[j] = 0 THEN 0
               ELSE IF lostFor[j] > LostPasses THEN lostFor[j] ELSE lostFor[j] + 1
AlwaysAsked(j) == FALSE
NotAsked(j) == j \in starting

(* Passes are WATCH_EVERY_S apart, and a start handler takes less than     *)
(* that from begin to starting.add and from starting.discard to jobs.end:  *)
(* a job first missed there is not looked at again before it is over.      *)
Between(c) == req[c].kind = "start" /\ req[c].pc \in {"claimForce", "end"}

WatchLook ==
  LET orphan == active # NoJob /\ Orphan(active)
  IN /\ Watches /\ At(Watchdog, "idle")
     /\ \A c \in Clients : Between(c) => lostFor[req[c].job] \in {0, LostPasses + 1}
     /\ landedFor' = [j \in JobIds |-> NextLanded(j)]
     /\ lostFor' = [j \in JobIds |-> NextLost(j)]
     /\ req' = IF active = NoJob \/ (NotAsked(active) /\ ~orphan) THEN req
               ELSE [req EXCEPT ![Watchdog] =
                       [Idle EXCEPT !.job = active, !.plug = PluginOf(active),
                                    !.result = IF orphan THEN "orphaned" ELSE "none",
                                    !.pc = IF orphan THEN "end" ELSE "ask"]]

(* GET /jobs/{id} is answered with 2xx.  The SDK knows a job before it     *)
(* answers POST /jobs, the patrol plugin after the drone took the route.   *)
Answers(p, j) == /\ p # None /\ svc[p] = "up"
                 /\ \/ knows[j] \in {"running", "stopped", "done"}
                    \/ knows[j] = "starting" /\ p \notin Onboard

(* PLUGIN_LOST_S after the first miss.                                     *)
LongLost(j) == lostFor[j] > LostPasses

(* A service that accepts the connection and does not answer in 3 s raises *)
(* TimeoutError, which plugin_alive does not catch: it ends this pass.     *)
WatchAsk ==
  LET j == req[Watchdog].job  p == req[Watchdog].plug
      hangs == p # None /\ svc[p] = "hung"
      misses == ~Answers(p, j) /\ ~hangs
  IN /\ At(Watchdog, "ask")
     /\ lostFor' = IF hangs THEN lostFor
                   ELSE [lostFor EXCEPT ![j] = IF misses /\ @ = 0 THEN 1 ELSE IF misses THEN @ ELSE 0]
     /\ IF misses /\ LongLost(j) THEN Go(Watchdog, "lostCheck") ELSE Done(Watchdog)
     /\ UNCHANGED landedFor

(* onboard_flying: the onboard part goes on without the service.           *)
WatchLostCheck ==
  LET j == req[Watchdog].job
  IN /\ At(Watchdog, "lostCheck")
     /\ IF req[Watchdog].plug \in Onboard /\ goal.cmd = "patrol"
        THEN Done(Watchdog) /\ UNCHANGED lostFor
        ELSE /\ lostFor' = [lostFor EXCEPT ![j] = 0]
             /\ req' = [req EXCEPT ![Watchdog].armed = armed, ![Watchdog].result = "lost",
                                   ![Watchdog].pc = "end"]
     /\ UNCHANGED landedFor

(* return_home is sent once, if the drone was armed; a CommandError is     *)
(* only logged.                                                            *)
WatchGoHome ==
  /\ At(Watchdog, "goHome")
  /\ \/ req[Watchdog].armed /\ goal' = IF armed THEN [NoGoal EXCEPT !.cmd = "land"] ELSE goal
     \/ (~req[Watchdog].armed \/ MayRefuse) /\ UNCHANGED goal
  /\ Go(Watchdog, "tell")

-----------------------------------------------------------------------------
(* The world: the drone, the plugins' services, time, API restarts.        *)

Lands == armed /\ goal.cmd = "land" /\ armed' = FALSE /\ goal' = NoGoal

(* The onboard patrol's last item is "return home and land".               *)
PatrolEnds == goal.cmd = "patrol" /\ goal' = [goal EXCEPT !.cmd = "land"] /\ UNCHANGED armed

(* JOB_ORPHAN_S passed since begin, which matters to a landed drone only.  *)
(* A start request takes less than that.                                   *)
JobAges(j) ==
  /\ jobs[j].status = "running" /\ j \notin old /\ ~armed
  /\ \A c \in Clients : ~(req[c].kind = "start" /\ req[c].job = j)
  /\ old' = old \cup {j}
  /\ UNCHANGED <<holder, store, starting, installed, req, knows, svc, drone, landedFor, lostFor, crashes>>

(* The service dies and its job threads with it; a restart knows none.     *)
PluginDown(p) ==
  /\ "down" \in Faults /\ svc[p] # "down"
  /\ svc' = [svc EXCEPT ![p] = "down"]
  /\ knows' = [j \in JobIds |-> IF jobs[j].plugin = p THEN "no" ELSE knows[j]]

(* The service accepts connections but no longer answers.                  *)
PluginHangs(p) == "hung" \in Faults /\ svc[p] = "up" /\ svc' = [svc EXCEPT ![p] = "hung"]
                  /\ UNCHANGED knows

PluginUp(p) == svc[p] # "up" /\ svc' = [svc EXCEPT ![p] = "up"] /\ UNCHANGED knows

(* A start whose caller is gone (timeout, API restart) still succeeds.     *)
PluginStartsLate(p) ==
  \E j \in JobIds :
    /\ jobs[j].plugin = p /\ knows[j] = "starting"
    /\ \A c \in Clients : ~(At(c, "answer") /\ req[c].job = j)
    /\ knows' = [knows EXCEPT ![j] = "running"]
    /\ UNCHANGED svc

(* Control and JobStore come back from disk; everything else starts over.  *)
Crash ==
  /\ crashes < MaxCrashes
  /\ crashes' = crashes + 1
  /\ req' = [a \in Actors |-> Idle]
  /\ starting' = {}
  /\ landedFor' = [j \in JobIds |-> 0] /\ lostFor' = [j \in JobIds |-> 0]
  /\ UNCHANGED <<holder, store, installed, knows, svc, drone, old>>

-----------------------------------------------------------------------------
(* What each group of steps leaves alone.                                  *)

LocalStep(a) ==
  /\ \/ ReadHolder(a) \/ ClaimRefused(a) \/ Safety(a) \/ StartCheck(a) \/ StartConflict(a)
     \/ EndRead(a) \/ StopRead(a) \/ FreeCheck(a) \/ NoteTimesOut(a)
     \/ CommandRefused(a) \/ CommandResumes(a) \/ RemoveCheck(a)
  /\ UNCHANGED <<holder, store, starting, installed, knows, drone>>

HolderStep(a) == /\ ClaimWrite(a) \/ ReleasePop(a) \/ FreePop(a)
                 /\ UNCHANGED <<store, starting, installed, knows, drone>>

StoreStep(a) == /\ StartBegin(a) \/ EndJob(a)
                /\ UNCHANGED <<holder, starting, installed, knows, drone>>

PluginStep(a) ==
  /\ \/ PostArrives(a) \/ PostAccepted(a) \/ PostRefused(a) \/ PostFails(a)
     \/ Tell(a) \/ NoteServed(a)
  /\ UNCHANGED <<holder, store, installed, drone>>

Handle(a) ==
  /\ \/ LocalStep(a) \/ HolderStep(a) \/ StoreStep(a) \/ PluginStep(a)
     \/ StartClaim(a) /\ UNCHANGED <<store, installed, knows, drone>>
     \/ CommandRuns(a) /\ UNCHANGED <<holder, store, starting, installed, knows>>
     \/ RemoveDo(a) /\ UNCHANGED <<holder, store, starting, knows, drone>>
  /\ UNCHANGED <<svc, timers, crashes>>

Watch ==
  \/ Handle(Watchdog)
  \/ /\ WatchLook \/ WatchAsk \/ WatchLostCheck
     /\ UNCHANGED <<holder, store, starting, installed, knows, svc, drone, old, crashes>>
  \/ /\ WatchGoHome
     /\ UNCHANGED <<holder, store, starting, installed, knows, svc, armed, timers, crashes>>

Asking ==
  \/ /\ \/ \E c \in People : PersonAsks(c)
        \/ \E p \in Plugins : PluginCommands(p)
     /\ UNCHANGED <<holder, store, starting, installed, knows, svc, drone, timers, crashes>>
  \/ /\ \E p \in Plugins : PluginFinishes(p)
     /\ UNCHANGED <<holder, store, starting, installed, svc, drone, timers, crashes>>

Flight == /\ Lands \/ PatrolEnds
          /\ UNCHANGED <<holder, store, starting, installed, req, knows, svc, timers, crashes>>

Service(p) == /\ PluginDown(p) \/ PluginHangs(p) \/ PluginUp(p) \/ PluginStartsLate(p)
              /\ UNCHANGED <<holder, store, starting, installed, req, drone, timers, crashes>>

Next ==
  \/ \E c \in Clients : Handle(c)
  \/ Watch \/ Asking \/ Flight \/ HoldExpires \/ Crash
  \/ \E j \in JobIds : JobAges(j)
  \/ \E p \in Plugins : Service(p)

Spec == Init /\ [][Next]_vars

(* The API's own threads, the drone and time go on; people, plugins and    *)
(* faults may do nothing.  The event loop runs what is ready in order, so  *)
(* a handler that waits for the loop gets it (strong fairness).            *)
Fairness ==
  /\ \A c \in Clients : SF_vars(Handle(c))
  /\ WF_vars(Watch) /\ WF_vars(Flight)
  /\ \A j \in JobIds : WF_vars(JobAges(j))

FairSpec == Spec /\ Fairness
-----------------------------------------------------------------------------
Operators == Clients \cup {None}
Pcs == {"idle", "claimRead", "claimWrite", "relRead", "relPop", "startCheck", "begin",
        "claimForce", "post", "answer", "end", "free", "pop", "endRead", "stopRead",
        "tell", "noting", "safety", "exec", "executed", "removeCheck", "removeDo",
        "ask", "lostCheck", "goHome"}
Requests == [pc : Pcs, kind : AllKinds \cup {"none"}, force : BOOLEAN, seen : Operators,
             job : JobIds \cup {NoJob}, plug : Plugins \cup {None}, result : Results,
             armed : BOOLEAN]

TypeOK ==
  /\ holder \in Operators
  /\ active \in JobIds \cup {NoJob}
  /\ jobs \in [JobIds -> [plugin : Plugins \cup {None},
                          status : {"none", "running", "ended"}, result : Results]]
  /\ starting \in SUBSET JobIds
  /\ installed \in SUBSET Plugins
  /\ req \in [Actors -> Requests]
  /\ knows \in [JobIds -> {"no", "starting", "running", "stopped", "done"}]
  /\ svc \in [Plugins -> {"up", "down", "hung"}]
  /\ armed \in BOOLEAN
  /\ goal \in [cmd : {"none", "goto", "patrol", "hold", "land"}, job : JobIds \cup {NoJob}]
  /\ landedFor \in [JobIds -> 0 .. OrphanPasses]
  /\ lostFor \in [JobIds -> 0 .. LostPasses + 1]
  /\ old \in SUBSET JobIds
  /\ crashes \in 0 .. MaxCrashes

(* The job the store calls active is the one job whose record runs.        *)
StoreConsistent ==
  \A j \in JobIds : jobs[j].status = "running" <=> j = active

(* The store is a job ledger: one job at a time, ended once, with an       *)
(* outcome that stays.                                                     *)
Ledger == INSTANCE JobLedger WITH Jobs <- JobIds, Workers <- Plugins,
                                  Outcomes <- Results \ {"none"}, ledger <- jobs
LedgerSpec == Ledger!Spec

(* A job is exempt from the plugin check exactly while its POST /jobs is   *)
(* in progress: a leaked entry would switch the check off for good.        *)
StartingSound ==
  starting = {req[c].job : c \in {d \in Clients : req[d].pc \in {"post", "answer"}}}

(* A takeover ends the job (app.py:652-654): a person comes to             *)
(* hold the drone of a job that nobody is about to end by two steps only,  *)
(* a claim that had read the drone as free, or as the person's own (the    *)
(* job's hold had expired, had been released, or was not there yet), and a *)
(* restart of the fleet API between a takeover and the end of the job.     *)
Ends(a) ==
  \/ At(a, "claimForce")
  \/ At(a, "stopRead") /\ a # PluginOf(active)
  \/ At(a, "end") /\ (req[a].result = "lost" => req[a].job = active)
Unended == active # NoJob /\ holder \in People /\ ~ \E a \in Actors : Ends(a)
FoundFree == \E c \in People : ClaimWrite(c) /\ req[c].seen \in {None, c}
Dropped == Crash /\ \E a \in Actors : Ends(a)
TakeoverEndsJob == [][Unended' => Unended \/ FoundFree \/ Dropped]_vars

(* A plugin comes to fly on, with a job the fleet API ended and nobody is  *)
(* about to tell it of, by four steps only: its POST /jobs arrives after   *)
(* the end; a handler ends it in place of the job it had looked at; a      *)
(* restart of the fleet API forgets to tell; the plugin is removed or      *)
(* hangs when it is told.  (An orphan's plugin is not told, and the patrol *)
(* plugin only writes a note.)                                             *)
Alive(j) == knows[j] \in {"starting", "running"}
Tells(a, j) ==
  /\ req[a].job = j /\ req[a].pc \in {"free", "pop", "goHome", "tell"}
  /\ req[a].result \in {"stopped", "lost"}
FliesOn(j) ==
  /\ jobs[j].status = "ended" /\ jobs[j].result # "orphaned" /\ jobs[j].plugin \notin Onboard
  /\ Alive(j) /\ ~ \E a \in Actors : Tells(a, j)
StartsLate(j) == \E c \in Clients : PostArrives(c) /\ req[c].job = j
EndsAnother(j) == \E a \in Actors : EndJob(a) /\ active = j /\ req[a].job # j
Forgets(j) == Crash /\ \E a \in Actors : Tells(a, j)
Unheard(j) == \E a \in Actors : Tell(a) /\ req[a].job = j /\ (req[a].plug = None \/ svc[req[a].plug] = "hung")
NoZombie ==
  [][\A j \in JobIds : FliesOn(j)' =>
       FliesOn(j) \/ StartsLate(j) \/ EndsAnother(j) \/ Forgets(j) \/ Unheard(j)]_vars

(* A job whose plugin is up and runs it is not ended by check_plugins.     *)
HealthyJobSurvives ==
  \A j \in JobIds : jobs[j].result = "lost" => knows[j] \notin {"starting", "running"}

(* check_orphans frees the drone of a job nobody ends: no job runs forever *)
(* on a drone that stays landed, though API restarts start the count anew. *)
LandedJobEnds == \A j \in JobIds : []<>(jobs[j].status # "running" \/ armed)

(* check_plugins ends the job of a plugin that never answers GET /jobs/id, *)
(* unless the onboard part of the job still flies.                         *)
LostJobEnds ==
  \A j \in JobIds : []<>(\/ jobs[j].status # "running"
                         \/ Answers(jobs[j].plugin, j)
                         \/ jobs[j].plugin \in Onboard /\ goal.cmd = "patrol")

(* The drone of a job that check_plugins ended comes down, if PX4 refuses  *)
(* nothing: return_home is sent once.  A restart between the end of the    *)
(* job and return_home forgets it.                                         *)
LostDroneComesDown ==
  (At(Watchdog, "free") /\ req[Watchdog].result = "lost" /\ req[Watchdog].armed)
    ~> (goal.cmd = "land" \/ ~armed \/ crashes > 0)

(* Every handler of app.py and every pass of the watchdog comes to an end, *)
(* also those that wait for a plugin which calls the API or hangs.         *)
RequestsEnd == \A a \in Actors : []<>At(a, "idle")

=============================================================================
