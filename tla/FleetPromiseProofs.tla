--------------------------- MODULE FleetPromiseProofs --------------------------
(***************************************************************************)
(* What the fleet API promises its jobs, its people and its plugins, for   *)
(* any people, plugins, jobs, faults and restarts.                         *)
(*                                                                         *)
(* First, check_plugins never ends the job of a plugin that is up and runs *)
(* it, where no plugin is removed and none can hang in a start it has      *)
(* accepted.  The watchdog ends a job for a miss it saw PLUGIN_LOST_S ago, *)
(* so the danger is a miss that was none: one from before the plugin had   *)
(* the job.  The inductive invariant follows a job from begin on: a miss   *)
(* seen before its POST /jobs is a first one (Unseen), so that it is never *)
(* old enough while the job is being started, and a job whose plugin does  *)
(* not know it once it was posted is one the plugin never takes up again.  *)
(*                                                                         *)
(* Then, for every behaviour: which steps leave a person with the drone    *)
(* of a job that nobody ends (TakeoversEndJobs), and which leave a plugin  *)
(* that flies on with a job that has ended (NobodyFliesOn).                *)
(***************************************************************************)
EXTENDS FleetApiProofs

(* Every plugin stays installed.                                           *)
AllStay ==
  /\ installed = Plugins
  /\ \A a \in Actors : req[a].kind # "remove" /\ req[a].pc \notin {"removeCheck", "removeDo"}

JobsSound ==
  /\ \A j \in JobIds : jobs[j].status = "none" =>
       knows[j] = "no" /\ lostFor[j] = 0 /\ jobs[j].result = "none"
  /\ \A j \in JobIds : jobs[j].status # "none" =>
       jobs[j].plugin \in Plugins /\ (svc[jobs[j].plugin] = "down" => knows[j] = "no")
  /\ \A c \in Clients : Starts(c) => jobs[req[c].job].plugin = req[c].plug

(* Onboard plugins do not answer for a job they are starting: there is a   *)
(* handler that waits for them.                                            *)
Handled ==
  \A j \in JobIds : knows[j] = "starting" /\ jobs[j].plugin \in Onboard =>
    /\ \E c \in Clients : At(c, "answer") /\ req[c].job = j
    /\ "hung" \notin Faults /\ MaxCrashes = 0
NoneHangs == "hung" \notin Faults => \A p \in Plugins : svc[p] # "hung"

(* A miss seen while the job is being started is the first one.            *)
Unseen ==
  \A c \in Clients :
    \/ At(c, "claimForce")
    \/ /\ req[c].pc \in {"post", "answer"}
       /\ At(Watchdog, "ask") /\ req[Watchdog].job = req[c].job
    => lostFor[req[c].job] \in {0, 1}

(* The plugin has given the job up and never hears of it again.            *)
Dead(j) ==
  /\ knows[j] \notin {"starting", "running"}
  /\ \A c \in Clients : req[c].pc \in {"claimForce", "post"} => req[c].job # j

Loses == At(Watchdog, "lostCheck") \/ (At(Watchdog, "end") /\ req[Watchdog].result = "lost")

LostAreDead ==
  /\ \A c \in Clients : req[c].result # "lost"
  /\ At(Watchdog, "ask") \/ Loses =>
       req[Watchdog].job \in JobIds /\ jobs[req[Watchdog].job].status # "none"
  /\ At(Watchdog, "ask") => req[Watchdog].plug = jobs[req[Watchdog].job].plugin
  /\ Loses => Dead(req[Watchdog].job)
  /\ \A j \in JobIds : jobs[j].result = "lost" => Dead(j)

HealthInv == AllStay /\ JobsSound /\ Handled /\ NoneHangs /\ Unseen /\ LostAreDead

-----------------------------------------------------------------------------
(* What a step does to the request of the actor that takes it, if it does  *)
(* not begin a job.                                                        *)
Same(r, s) == s.kind = r.kind /\ s.job = r.job /\ s.plug = r.plug

Moves(r, s) ==
  \/ s = Idle
  \/ Same(r, s) /\ s.result = r.result /\ s.pc \notin StartPcs \cup {"end", "ask", "lostCheck", "removeCheck", "removeDo"}
  \/ Same(r, s) /\ s.result = r.result /\ r.pc = "removeCheck" /\ s.pc = "removeDo"
  \/ s.kind = r.kind /\ s.pc = "end" /\ s.result \in {"refused", "completed", "stopped"}
  \/ Same(r, s) /\ s.result = r.result /\ r.pc = "claimForce" /\ s.pc = "post"
  \/ Same(r, s) /\ s.result = r.result /\ r.pc = "post" /\ s.pc = "answer"

OneMoves(a) == Moves(req[a], req'[a]) /\ \A b \in Actors \ {a} : req'[b] = req[b]

LEMMA DoneMoves == ASSUME RequestsSound, NEW a \in Actors, Done(a) PROVE OneMoves(a)
BY DEF Done, RequestsSound, OneMoves, Moves

LEMMA GoSame ==
  ASSUME RequestsSound, NEW a \in Actors, NEW pc, Go(a, pc)
  PROVE  /\ Same(req[a], req'[a]) /\ req'[a].result = req[a].result /\ req'[a].pc = pc
         /\ \A b \in Actors \ {a} : req'[b] = req[b]
<1>1. req[a] \in Requests BY DEF RequestsSound
<1>2. req'[a] = [req[a] EXCEPT !.pc = pc, !.seen = None] /\ \A b \in Actors \ {a} : req'[b] = req[b]
  BY <1>1 DEF Go, RequestsSound, Requests
<1>. QED BY <1>1, <1>2 DEF Requests, Same

LEMMA GoMoves ==
  ASSUME RequestsSound, NEW a \in Actors, NEW pc, Go(a, pc),
         pc \notin StartPcs \cup {"end", "ask", "lostCheck", "removeCheck", "removeDo"}
  PROVE  OneMoves(a)
BY GoSame DEF OneMoves, Moves

LEMMA EndsMoves ==
  ASSUME RequestsSound, NEW a \in Actors, NEW r \in Requests, req' = [req EXCEPT ![a] = r],
         r.kind = req[a].kind, r.pc = "end", r.result \in {"refused", "completed", "stopped"}
  PROVE  OneMoves(a)
BY DEF RequestsSound, OneMoves, Moves

LEMMA LocalMoves ==
  ASSUME RequestsSound, StoreSound, OthersTyped, NEW a \in Actors, LocalStep(a) PROVE OneMoves(a)
<1>. USE DEF StartPcs
<1>0. req[a] \in Requests BY DEF RequestsSound
<1>1. CASE ReadHolder(a)
  <2>1. PICK pc \in {"claimWrite", "relPop"} : req' = [req EXCEPT ![a].seen = holder, ![a].pc = pc]
    BY <1>1 DEF ReadHolder
  <2>2. req'[a] = [req[a] EXCEPT !.seen = holder, !.pc = pc] /\ \A b \in Actors \ {a} : req'[b] = req[b]
    BY <1>0, <2>1 DEF RequestsSound, Requests
  <2>. QED BY <1>0, <2>2 DEF Requests, Same, OneMoves, Moves
<1>2. CASE ClaimRefused(a) \/ StartConflict(a) \/ NoteTimesOut(a) \/ CommandRefused(a)
  BY <1>2, DoneMoves DEF ClaimRefused, StartConflict, NoteTimesOut, CommandRefused
<1>3. CASE Safety(a) \/ StartCheck(a) \/ CommandResumes(a)
  BY <1>3, DoneMoves, GoMoves DEF Safety, StartCheck, CommandResumes
<1>4. CASE FreeCheck(a) BY <1>4, DoneMoves, GoMoves DEF FreeCheck, AfterFree
<1>5. CASE EndRead(a)
  <2>1. CASE Done(a) \/ Go(a, "stopRead") BY <2>1, DoneMoves, GoMoves
  <2>2. CASE a = PluginOf(active)
             /\ req' = [req EXCEPT ![a].plug = a, ![a].result = "completed", ![a].pc = "end"]
    <3>. DEFINE r == [req[a] EXCEPT !.plug = a, !.result = "completed", !.pc = "end"]
    <3>1. req' = [req EXCEPT ![a] = r] BY <1>0, <2>2 DEF RequestsSound, Requests
    <3>2. a \in Plugins \cup {None} BY <2>2, PluginOfType
    <3>3. r \in Requests /\ r.kind = req[a].kind /\ r.pc = "end" /\ r.result = "completed"
      BY <1>0, <3>2 DEF Requests, Pcs, Results
    <3>. HIDE DEF r
    <3>. QED BY <3>1, <3>3, EndsMoves
  <2>. QED BY <1>5, <2>1, <2>2 DEF EndRead
<1>6. CASE StopRead(a)
  <2>1. CASE Done(a) BY <2>1, DoneMoves
  <2>2. CASE req' = [req EXCEPT ![a].job = active, ![a].plug = PluginOf(active),
                                ![a].result = "stopped", ![a].pc = "end"]
    <3>. DEFINE p == PluginOf(active)
                r == [req[a] EXCEPT !.job = active, !.plug = p, !.result = "stopped", !.pc = "end"]
    <3>1. req' = [req EXCEPT ![a] = r] BY <1>0, <2>2 DEF RequestsSound, Requests
    <3>2. p \in Plugins \cup {None} BY PluginOfType
    <3>. HIDE DEF p
    <3>3. r \in Requests /\ r.kind = req[a].kind /\ r.pc = "end" /\ r.result = "stopped"
      BY <1>0, <3>2 DEF Requests, Pcs, Results, StoreSound
    <3>. HIDE DEF r
    <3>. QED BY <3>1, <3>3, EndsMoves
  <2>. QED BY <1>6, <2>1, <2>2 DEF StopRead
<1>7. CASE RemoveCheck(a)
  <2>1. CASE Done(a) BY <2>1, DoneMoves
  <2>2. CASE Go(a, "removeDo") BY <1>7, <2>2, GoSame DEF RemoveCheck, At, OneMoves, Moves
  <2>. QED BY <1>7, <2>1, <2>2 DEF RemoveCheck
<1>. QED BY <1>1, <1>2, <1>3, <1>4, <1>5, <1>6, <1>7 DEF LocalStep

LEMMA HandleMoves ==
  ASSUME IInv, NEW a \in Actors, Handle(a), ~StartBegin(a) PROVE OneMoves(a)
<1>. USE DEF IInv, StartPcs
<1>0. req[a] \in Requests BY DEF RequestsSound
<1>1. CASE LocalStep(a) BY <1>1, LocalMoves
<1>2. CASE HolderStep(a)
  BY <1>2, DoneMoves, GoMoves DEF HolderStep, ClaimWrite, ReleasePop, FreePop, AfterFree
<1>3. CASE EndJob(a) BY <1>3, DoneMoves, GoMoves DEF EndJob
<1>4. CASE PostArrives(a) BY <1>4, GoSame DEF PostArrives, At, OneMoves, Moves
<1>5. CASE PostAccepted(a) \/ PostFails(a) \/ Tell(a) \/ NoteServed(a)
  BY <1>5, DoneMoves, GoMoves DEF PostAccepted, PostFails, Tell, NoteServed
<1>6. CASE PostRefused(a)
  <2>. DEFINE r == [req[a] EXCEPT !.result = "refused", !.pc = "end"]
  <2>1. req' = [req EXCEPT ![a] = r] BY <1>0, <1>6 DEF PostRefused, RequestsSound, Requests
  <2>2. r \in Requests /\ r.kind = req[a].kind /\ r.pc = "end" /\ r.result = "refused"
    BY <1>0 DEF Requests, Pcs, Results
  <2>. HIDE DEF r
  <2>. QED BY <2>1, <2>2, EndsMoves
<1>7. CASE StartClaim(a) BY <1>7, GoSame DEF StartClaim, At, OneMoves, Moves
<1>8. CASE CommandRuns(a) \/ RemoveDo(a) BY <1>8, DoneMoves, GoMoves DEF CommandRuns, RemoveDo
<1>. QED BY <1>1, <1>2, <1>3, <1>4, <1>5, <1>6, <1>7, <1>8 DEF Handle, StoreStep, PluginStep

(* What a handler does to what the plugins know: a job is known from its   *)
(* POST /jobs on, and starts once.                                         *)
LEMMA HandleKnows ==
  ASSUME IInv, NEW a \in Actors, Handle(a), NEW j \in JobIds
  PROVE  \/ knows'[j] = knows[j]
         \/ PostArrives(a) /\ req[a].job = j
         \/ knows[j] \in {"starting", "running"} /\ knows'[j] # "starting"
<1>. USE DEF IInv, OthersTyped
<1>1. CASE PostArrives(a) BY <1>1 DEF PostArrives
<1>2. CASE PostAccepted(a) BY <1>2 DEF PostAccepted
<1>3. CASE PostRefused(a) BY <1>3 DEF PostRefused
<1>4. CASE PostFails(a) BY <1>4 DEF PostFails
<1>5. CASE Tell(a) BY <1>5 DEF Tell
<1>6. CASE NoteServed(a) BY <1>6 DEF NoteServed
<1>7. CASE UNCHANGED knows BY <1>7
<1>. QED BY <1>1, <1>2, <1>3, <1>4, <1>5, <1>6, <1>7
         DEF Handle, LocalStep, HolderStep, StoreStep, PluginStep

(* A handler waits for the plugin's answer until the plugin has given it.  *)
LEMMA AnswerEnds ==
  ASSUME IInv, StartsSound, JobsSound, NoneHangs, NEW a \in Clients, Handle(a), At(a, "answer"),
         "hung" \notin Faults
  PROVE  knows'[req[a].job] # "starting"
<1>. USE DEF IInv, At
<1>. DEFINE j == req[a].job
<1>1. j \in JobIds /\ req[a].plug \in Plugins BY DEF RequestsSound, Sound, Actors
<1>2. Starts(a) BY DEF Starts, StartPcs
<1>3. jobs[j].plugin = req[a].plug /\ jobs[j].status # "none" BY <1>2 DEF JobsSound, StartsSound
<1>4. CASE PostAccepted(a) BY <1>1, <1>4 DEF PostAccepted, OthersTyped
<1>5. CASE PostRefused(a) BY <1>1, <1>5 DEF PostRefused, OthersTyped
<1>6. CASE PostFails(a)
  <2>1. svc[req[a].plug] # "up" \/ knows[j] = "no" BY <1>6 DEF PostFails
  <2>2. knows[j] = "no" BY <1>1, <1>3, <2>1 DEF NoneHangs, OthersTyped, JobsSound
  <2>. QED BY <1>6, <2>2 DEF PostFails
<1>. QED BY <1>4, <1>5, <1>6
  DEF Handle, LocalStep, HolderStep, StoreStep, PluginStep, ReadHolder, ClaimRefused, Safety, StartCheck,
      StartConflict, EndRead, StopRead, FreeCheck, NoteTimesOut, CommandRefused, CommandResumes,
      RemoveCheck, ClaimWrite, ReleasePop, FreePop, StartBegin, EndJob, PostArrives, Tell, NoteServed,
      StartClaim, CommandRuns, RemoveDo

-----------------------------------------------------------------------------
(* The steps of handlers.                                                  *)
Unmoved == UNCHANGED <<svc, timers, crashes>>

(* A start begins a job nobody has heard of or missed.                     *)
LEMMA BeginKeepsHealth ==
  ASSUME IInv, StartsSound, HealthInv, NEW a \in Actors, StartBegin(a), Unmoved,
         UNCHANGED <<installed, knows>>
  PROVE  HealthInv'
<1>. USE DEF IInv, HealthInv, At
<1>0. UNCHANGED <<svc, lostFor>> BY DEF Unmoved, timers
<1>1. req[a] \in Requests /\ req[a].pc = "begin" /\ req[a].plug \in Plugins /\ a \in Clients
      /\ a # Watchdog /\ Watchdog \in Actors
  BY ConstantsAssumption DEF StartBegin, RequestsSound, Sound, Actors
<1>2. PICK j \in JobIds : /\ Begin(j, req[a].plug)
                          /\ req' = [req EXCEPT ![a].job = j, ![a].pc = "claimForce"]
  BY DEF StartBegin
<1>3. \A b \in Actors \ {a} : req'[b] = req[b] BY <1>2 DEF RequestsSound
<1>4. req'[a].pc = "claimForce" /\ req'[a].job = j /\ req'[a].plug = req[a].plug
      /\ req'[a].kind = req[a].kind /\ req'[a].result = req[a].result
  <2>1. req'[a] = [req[a] EXCEPT !.job = j, !.pc = "claimForce"]
    BY <1>1, <1>2 DEF RequestsSound, Requests
  <2>. QED BY <1>1, <2>1 DEF Requests
<1>5. /\ jobs[j].status = "none"
      /\ jobs'[j] = [plugin |-> req[a].plug, status |-> "running", result |-> "none"]
      /\ \A i \in JobIds \ {j} : jobs'[i] = jobs[i]
  BY <1>2 DEF Begin, StoreSound
<1>6. knows[j] = "no" /\ lostFor[j] = 0 BY <1>5 DEF JobsSound
<1>7. \A c \in Clients : Starts(c)' => c = a \/ (Starts(c) /\ req'[c] = req[c])
  BY <1>3 DEF Starts, Actors
<1>8. \A c \in Clients : Starts(c) => req[c].job \in JobIds \ {j}
  BY <1>5 DEF StartsSound, Starts, StartPcs, RequestsSound, Sound, Actors
<1>9. AllStay' BY <1>1, <1>3, <1>4 DEF AllStay, Actors
<1>10. JobsSound'
  <2>1. \A c \in Clients : Starts(c)' => jobs'[req'[c].job].plugin = req'[c].plug
    BY <1>4, <1>5, <1>7, <1>8 DEF JobsSound
  <2>. QED BY <1>0, <1>1, <1>5, <1>6, <2>1 DEF JobsSound
<1>11. Handled'
  <2>1. \A i \in JobIds : knows'[i] = "starting" => i # j BY <1>6
  <2>2. \A c \in Clients : req[c].pc = "answer" => req'[c] = req[c] BY <1>1, <1>3 DEF Actors
  <2>. QED BY <1>5, <2>1, <2>2 DEF Handled
<1>12. Unseen'
  <2>1. req'[Watchdog] = req[Watchdog] BY <1>1, <1>3
  <2>2. \A c \in Clients \ {a} : req'[c] = req[c] BY <1>3 DEF Actors
  <2>. QED BY <1>0, <1>4, <1>6, <2>1, <2>2 DEF Unseen
<1>13. LostAreDead'
  <2>1. req'[Watchdog] = req[Watchdog] BY <1>1, <1>3
  <2>2. \A c \in Clients : req'[c].result # "lost" BY <1>3, <1>4 DEF LostAreDead, Actors
  <2>3. \A i \in JobIds \ {j} : Dead(i) => Dead(i)'
    <3>1. \A c \in Clients : req'[c] = req[c] \/ req'[c].job = j BY <1>3, <1>4 DEF Actors
    <3>. QED BY <3>1 DEF Dead
  <2>4. (At(Watchdog, "ask") \/ Loses) => req[Watchdog].job \in JobIds \ {j}
    BY <1>5 DEF LostAreDead
  <2>5. \A i \in JobIds : jobs'[i].result = "lost" => i # j /\ jobs[i].result = "lost" BY <1>5
  <2>6. Loses' = Loses BY <2>1 DEF Loses
  <2>. QED BY <1>5, <2>1, <2>2, <2>3, <2>4, <2>5, <2>6 DEF LostAreDead
<1>. QED BY <1>0, <1>9, <1>10, <1>11, <1>12, <1>13 DEF NoneHangs

(* What a handler that begins no job does to the records.                  *)
LEMMA HandleJobs ==
  ASSUME IInv, HealthInv, NEW a \in Actors, Handle(a), ~StartBegin(a), NEW j \in JobIds
  PROVE  /\ jobs'[j].plugin = jobs[j].plugin
         /\ jobs'[j].status = "none" <=> jobs[j].status = "none"
         /\ jobs[j].status = "none" => jobs'[j].result = jobs[j].result
         /\ jobs'[j].result = "lost" => jobs[j].result = "lost" \/ (Loses /\ req[Watchdog].job = j)
<1>. USE DEF IInv, StoreSound
<1>1. CASE UNCHANGED store BY <1>1 DEF store
<1>2. CASE EndJob(a)
  <2>0. req[a].result = "lost" => Loses /\ a = Watchdog /\ req[a].job # NoJob
    BY <1>2 DEF HealthInv, LostAreDead, Actors, EndJob, At, Loses, JobIds, NoJob
  <2>1. CASE UNCHANGED store BY <2>1 DEF store
  <2>2. CASE /\ active # NoJob
             /\ req[a].result = "lost" => req[a].job = active
             /\ jobs' = [jobs EXCEPT ![active].status = "ended", ![active].result = req[a].result]
    <3>1. active \in JobIds /\ jobs[active].status = "running" BY <2>2 DEF StoreConsistent
    <3>2. \A i \in JobIds \ {active} : jobs'[i] = jobs[i] BY <2>2, <3>1
    <3>3. jobs'[active] = [jobs[active] EXCEPT !.status = "ended", !.result = req[a].result]
      BY <2>2, <3>1
    <3>4. jobs'[active].plugin = jobs[active].plugin /\ jobs'[active].status = "ended"
          /\ jobs'[active].result = req[a].result
      BY <3>1, <3>3
    <3>. QED BY <2>0, <2>2, <3>1, <3>2, <3>4
  <2>. QED BY <1>2, <2>0, <2>1, <2>2 DEF EndJob, End
<1>. QED BY <1>1, <1>2 DEF Handle, LocalStep, HolderStep, StoreStep, PluginStep

LEMMA HandleKeepsHealth ==
  ASSUME IInv, StartsSound, HealthInv, NEW a \in Actors, Handle(a),
         Onboard = {} \/ ("hung" \notin Faults /\ MaxCrashes = 0)
  PROVE  HealthInv'
<1>. USE DEF IInv, HealthInv, At, StartPcs
<1>1. Unmoved BY DEF Handle, Unmoved
<1>2. CASE StartBegin(a)
  <2>1. UNCHANGED <<installed, knows>>
    BY <1>2 DEF Handle, LocalStep, HolderStep, StoreStep, PluginStep, StartBegin, ReadHolder, ClaimRefused,
        Safety, StartCheck, StartConflict, EndRead, StopRead, FreeCheck, NoteTimesOut, CommandRefused,
        CommandResumes, RemoveCheck, PostArrives, PostAccepted, PostRefused, PostFails, Tell,
        NoteServed, RemoveDo
  <2>. QED BY <1>1, <1>2, <2>1, BeginKeepsHealth
<1>3. CASE ~StartBegin(a)
  <2>1. OneMoves(a) BY <1>3, HandleMoves
  <2>2. \A b \in Actors \ {a} : req'[b] = req[b] BY <2>1 DEF OneMoves
  <2>3. UNCHANGED <<svc, lostFor, installed>>
    BY <1>1 DEF Unmoved, timers, AllStay, Handle, LocalStep, HolderStep, StoreStep, PluginStep, RemoveDo
  <2>4. \A j \in JobIds :
          /\ jobs'[j].plugin = jobs[j].plugin
          /\ jobs'[j].status = "none" <=> jobs[j].status = "none"
          /\ jobs[j].status = "none" => jobs'[j].result = jobs[j].result
          /\ jobs'[j].result = "lost" => jobs[j].result = "lost" \/ (Loses /\ req[Watchdog].job = j)
    BY <1>3, HandleJobs
  <2>5. \A j \in JobIds :
          \/ knows'[j] = knows[j]
          \/ PostArrives(a) /\ req[a].job = j
          \/ knows[j] \in {"starting", "running"} /\ knows'[j] # "starting"
    BY HandleKnows
  <2>6. PostArrives(a) =>
          /\ a \in Clients /\ Starts(a) /\ req[a].pc = "post" /\ req[a].job \in JobIds
          /\ jobs[req[a].job].status # "none" /\ svc[jobs[req[a].job].plugin] = "up"
    BY DEF PostArrives, Starts, StartsSound, JobsSound, RequestsSound, Sound
  <2>7. \A c \in Clients :
          /\ req'[c].pc = "claimForce" => req'[c] = req[c]
          /\ req'[c].pc = "post" => req[c].pc \in {"claimForce", "post"} /\ Same(req[c], req'[c])
          /\ req'[c].pc = "answer" => req[c].pc \in {"post", "answer"} /\ Same(req[c], req'[c])
    BY <2>1 DEF OneMoves, Moves, Actors, Idle, Same
  <2>8. AllStay' BY <2>1, <2>3 DEF AllStay, OneMoves, Moves, Idle, Same
  <2>9. JobsSound'
    <3>1. \A j \in JobIds : jobs[j].status = "none" => knows'[j] = "no"
      BY <2>5, <2>6 DEF JobsSound
    <3>2. \A j \in JobIds : jobs[j].status # "none" /\ svc[jobs[j].plugin] = "down" => knows'[j] = "no"
      BY <2>5, <2>6 DEF JobsSound
    <3>3. \A c \in Clients : Starts(c)' => Starts(c) /\ Same(req[c], req'[c])
      BY <2>7 DEF Starts, Same
    <3>4. \A c \in Clients : Starts(c) => req[c].job \in JobIds
      BY DEF Starts, RequestsSound, Sound, Actors
    <3>. QED BY <2>3, <2>4, <3>1, <3>2, <3>3, <3>4 DEF JobsSound, Same
  <2>10. Handled'
    <3>. SUFFICES ASSUME NEW j \in JobIds, knows'[j] = "starting", jobs'[j].plugin \in Onboard
                  PROVE  /\ \E c \in Clients : req'[c].pc = "answer" /\ req'[c].job = j
                         /\ "hung" \notin Faults /\ MaxCrashes = 0
      BY DEF Handled
    <3>1. "hung" \notin Faults /\ MaxCrashes = 0 OBVIOUS
    <3>2. CASE knows[j] = "starting"
      <4>1. PICK c \in Clients : req[c].pc = "answer" /\ req[c].job = j BY <2>4, <3>2 DEF Handled
      <4>2. c # a BY <3>1, <4>1, AnswerEnds DEF Actors
      <4>. QED BY <2>2, <3>1, <4>1, <4>2 DEF Actors
    <3>3. CASE PostArrives(a) /\ req[a].job = j
      <4>1. Go(a, "answer") BY <3>3 DEF PostArrives
      <4>2. req'[a].pc = "answer" /\ req'[a].job = j BY <3>3, <4>1, GoSame DEF Same
      <4>. QED BY <2>6, <3>1, <3>3, <4>2
    <3>. QED BY <2>5, <3>2, <3>3
  <2>11. req'[Watchdog].pc \in {"ask", "lostCheck"}
         \/ (req'[Watchdog].pc = "end" /\ req'[Watchdog].result = "lost")
         => req'[Watchdog] = req[Watchdog]
    BY <2>1 DEF OneMoves, Moves, Actors, Idle, StartPcs
  <2>12. Unseen' BY <2>3, <2>7, <2>11 DEF Unseen, Same
  <2>13. LostAreDead'
    <3>1. \A c \in Clients : req'[c].result # "lost"
      BY <2>1 DEF LostAreDead, OneMoves, Moves, Actors, Idle
    <3>2. \A j \in JobIds : Dead(j) => Dead(j)'
      <4>1. \A j \in JobIds : Dead(j) => knows'[j] \notin {"starting", "running"}
        BY <2>5, <2>6 DEF Dead
      <4>2. \A c \in Clients : req'[c].pc \in {"claimForce", "post"} =>
              req[c].pc \in {"claimForce", "post"} /\ req'[c].job = req[c].job
        BY <2>7 DEF Same
      <4>. QED BY <4>1, <4>2 DEF Dead
    <3>. QED BY <2>4, <2>11, <3>1, <3>2 DEF LostAreDead, Loses
  <2>. QED BY <2>3, <2>8, <2>9, <2>10, <2>12, <2>13 DEF NoneHangs
<1>. QED BY <1>2, <1>3

-----------------------------------------------------------------------------
(* The watchdog.  A pass is never begun while a job first missed is being  *)
(* claimed, and does not ask for a job that is being posted.               *)
LEMMA LookKeepsHealth ==
  ASSUME IInv, StartsSound, HealthInv, WatchLook, UNCHANGED <<store, installed, knows, svc>>
  PROVE  HealthInv'
<1>. USE DEF IInv, HealthInv, At
<1>0. LostPasses \in Nat \ {0} /\ Watchdog \in Actors /\ Watchdog \notin Clients
  BY ConstantsAssumption DEF Actors
<1>1. UNCHANGED <<active, jobs, installed, knows, svc>> BY DEF store
<1>2. \A c \in Clients : req'[c] = req[c] BY <1>0 DEF WatchLook, RequestsSound, Actors
<1>3. \/ UNCHANGED req
      \/ /\ active # NoJob /\ req'[Watchdog].job = active /\ req'[Watchdog].plug = PluginOf(active)
         /\ req'[Watchdog].kind = "none"
         /\ \/ req'[Watchdog].pc = "ask" /\ active \notin starting
            \/ req'[Watchdog].pc = "end" /\ req'[Watchdog].result = "orphaned"
  BY <1>0 DEF WatchLook, RequestsSound, Idle, NotAsked
<1>4. req[Watchdog].pc = "idle" BY DEF WatchLook
<1>5. \A j \in JobIds : lostFor[j] = 0 => lostFor'[j] = 0 BY DEF WatchLook, NextLost
<1>6. \A c \in Clients : req[c].pc = "claimForce" =>
        req[c].job \in JobIds /\ lostFor[req[c].job] = 0
  BY <1>0 DEF WatchLook, Between, Unseen, RequestsSound, Sound, Actors
<1>7. active # NoJob => active \in JobIds /\ jobs[active].status # "none"
  BY DEF StoreSound, StoreConsistent
<1>8. AllStay' BY <1>1, <1>2, <1>3 DEF AllStay, Actors
<1>9. JobsSound' BY <1>1, <1>2, <1>5 DEF JobsSound, Starts
<1>10. Handled' BY <1>1, <1>2 DEF Handled
<1>11. Unseen'
  <2>. SUFFICES ASSUME NEW c \in Clients,
                       \/ req'[c].pc = "claimForce"
                       \/ /\ req'[c].pc \in {"post", "answer"}
                          /\ req'[Watchdog].pc = "ask" /\ req'[Watchdog].job = req'[c].job
                PROVE  lostFor'[req'[c].job] \in {0, 1}
    BY DEF Unseen
  <2>1. CASE req'[c].pc = "claimForce" BY <1>2, <1>5, <1>6, <2>1
  <2>2. CASE /\ req'[c].pc \in {"post", "answer"}
             /\ req'[Watchdog].pc = "ask" /\ req'[Watchdog].job = req'[c].job
    <3>1. active \notin starting /\ req[c].job = active BY <1>2, <1>3, <1>4, <2>2
    <3>2. req[c].job \in starting BY <1>2, <2>2 DEF StartsSound, StartingSound
    <3>. QED BY <3>1, <3>2
  <2>. QED BY <2>1, <2>2
<1>12. LostAreDead'
  <2>1. \A j \in JobIds : Dead(j)' = Dead(j) BY <1>1, <1>2 DEF Dead
  <2>2. Loses' => FALSE BY <1>3, <1>4 DEF Loses
  <2>3. req'[Watchdog].pc = "ask" =>
          /\ req'[Watchdog].job \in JobIds /\ jobs[req'[Watchdog].job].status # "none"
          /\ req'[Watchdog].plug = jobs[req'[Watchdog].job].plugin
    BY <1>3, <1>4, <1>7 DEF PluginOf, AllStay, JobsSound
  <2>. QED BY <1>1, <1>2, <2>1, <2>2, <2>3 DEF LostAreDead
<1>. QED BY <1>1, <1>8, <1>9, <1>10, <1>11, <1>12 DEF NoneHangs

(* What the watchdog counts as a miss PLUGIN_LOST_S after the first one is *)
(* a job that its plugin does not know and will not start.                 *)
LEMMA LongMissedIsDead ==
  ASSUME IInv, HealthInv, At(Watchdog, "ask"), LongLost(req[Watchdog].job),
         ~Answers(req[Watchdog].plug, req[Watchdog].job),
         ~(req[Watchdog].plug # None /\ svc[req[Watchdog].plug] = "hung")
  PROVE  Dead(req[Watchdog].job)
<1>. USE DEF IInv, HealthInv, At
<1>. DEFINE j == req[Watchdog].job
            p == req[Watchdog].plug
<1>1. j \in JobIds /\ jobs[j].status # "none" /\ p = jobs[j].plugin BY DEF LostAreDead
<1>2. p \in Plugins /\ p # None BY <1>1, ConstantsAssumption DEF JobsSound, Actors, Clients
<1>3. lostFor[j] \notin {0, 1} BY ConstantsAssumption DEF LongLost
<1>4. \A c \in Clients : req[c].pc \in {"claimForce", "post", "answer"} => req[c].job # j
  BY <1>3 DEF Unseen
<1>5. knows[j] \notin {"starting", "running"}
  <2>1. CASE svc[p] = "down" BY <1>1, <2>1 DEF JobsSound
  <2>2. CASE svc[p] = "up"
    <3>1. knows[j] # "running" /\ (knows[j] = "starting" => p \in Onboard)
      BY <1>2, <2>2 DEF Answers
    <3>2. knows[j] # "starting" BY <1>1, <1>4, <3>1 DEF Handled
    <3>. QED BY <3>1, <3>2
  <2>. QED BY <1>2, <2>1, <2>2 DEF OthersTyped
<1>. QED BY <1>4, <1>5 DEF Dead

LEMMA AskPassKeepsHealth ==
  ASSUME IInv, StartsSound, HealthInv, WatchAsk, UNCHANGED <<store, installed, knows, svc>>
  PROVE  HealthInv'
<1>. USE DEF IInv, HealthInv, At
<1>. DEFINE j == req[Watchdog].job
<1>0. Watchdog \in Actors /\ Watchdog \notin Clients BY ConstantsAssumption DEF Actors
<1>1. UNCHANGED <<jobs, installed, knows, svc>> BY DEF store
<1>2. req[Watchdog].pc = "ask" /\ j \in JobIds /\ jobs[j].status # "none"
  BY DEF WatchAsk, LostAreDead
<1>3. \/ Done(Watchdog)
      \/ Go(Watchdog, "lostCheck") /\ Dead(j)
  BY LongMissedIsDead DEF WatchAsk
<1>4. \A c \in Clients : req'[c] = req[c] BY <1>0, <1>3, GoSame DEF Done, RequestsSound, Actors
<1>5. \/ req'[Watchdog] = Idle
      \/ Same(req[Watchdog], req'[Watchdog]) /\ req'[Watchdog].pc = "lostCheck" /\ Dead(j)
  BY <1>0, <1>3, GoSame DEF Done, RequestsSound
<1>6. lostFor'[j] \in {0, 1, lostFor[j]} /\ \A i \in JobIds \ {j} : lostFor'[i] = lostFor[i]
  BY <1>2 DEF WatchAsk, TimersTyped
<1>7. AllStay' BY <1>1, <1>4, <1>5 DEF AllStay, Actors, Idle, Same
<1>8. JobsSound' BY <1>1, <1>2, <1>4, <1>6 DEF JobsSound, Starts
<1>9. Handled' BY <1>1, <1>4 DEF Handled
<1>10. Unseen'
  <2>1. \A c \in Clients : req[c].pc = "claimForce" =>
          req[c].job \in JobIds /\ lostFor'[req[c].job] \in {0, 1}
    BY <1>6 DEF Unseen, RequestsSound, Sound, Actors
  <2>2. req'[Watchdog].pc # "ask" BY <1>5 DEF Idle
  <2>. QED BY <1>4, <2>1, <2>2 DEF Unseen
<1>11. LostAreDead'
  <2>1. \A i \in JobIds : Dead(i)' = Dead(i) BY <1>1, <1>4 DEF Dead
  <2>. QED BY <1>1, <1>2, <1>4, <1>5, <2>1 DEF LostAreDead, Loses, Idle, Same
<1>. QED BY <1>1, <1>7, <1>8, <1>9, <1>10, <1>11 DEF NoneHangs

LEMMA LostCheckKeepsHealth ==
  ASSUME IInv, HealthInv, WatchLostCheck, UNCHANGED <<store, installed, knows, svc>>
  PROVE  HealthInv'
<1>. USE DEF IInv, HealthInv, At
<1>. DEFINE j == req[Watchdog].job
<1>0. Watchdog \in Actors /\ Watchdog \notin Clients BY ConstantsAssumption DEF Actors
<1>1. UNCHANGED <<jobs, installed, knows, svc>> BY DEF store
<1>2. req[Watchdog].pc = "lostCheck" /\ j \in JobIds /\ jobs[j].status # "none" /\ Dead(j)
  BY DEF WatchLostCheck, LostAreDead, Loses
<1>3. \/ Done(Watchdog)
      \/ req' = [req EXCEPT ![Watchdog].armed = armed, ![Watchdog].result = "lost",
                            ![Watchdog].pc = "end"]
  BY DEF WatchLostCheck
<1>4. \A c \in Clients : req'[c] = req[c] BY <1>0, <1>3 DEF Done, RequestsSound, Actors
<1>5. \/ req'[Watchdog] = Idle
      \/ Same(req[Watchdog], req'[Watchdog]) /\ req'[Watchdog].pc = "end"
  <2>1. req[Watchdog] \in Requests BY <1>0 DEF RequestsSound
  <2>2. \/ req'[Watchdog] = Idle
        \/ req'[Watchdog] = [req[Watchdog] EXCEPT !.armed = armed, !.result = "lost", !.pc = "end"]
    BY <1>0, <1>3, <2>1 DEF Done, RequestsSound, Requests
  <2>. QED BY <2>1, <2>2 DEF Requests, Same
<1>6. \A i \in JobIds : lostFor'[i] \in {0, lostFor[i]} BY DEF WatchLostCheck, TimersTyped
<1>7. AllStay' BY <1>1, <1>4, <1>5 DEF AllStay, Actors, Idle, Same
<1>8. JobsSound' BY <1>1, <1>4, <1>6 DEF JobsSound, Starts
<1>9. Handled' BY <1>1, <1>4 DEF Handled
<1>10. Unseen'
  <2>1. \A c \in Clients : req[c].pc = "claimForce" =>
          req[c].job \in JobIds /\ lostFor'[req[c].job] \in {0, 1}
    BY <1>6 DEF Unseen, RequestsSound, Sound, Actors
  <2>. QED BY <1>4, <1>5, <2>1 DEF Unseen, Idle
<1>11. LostAreDead'
  <2>1. \A i \in JobIds : Dead(i)' = Dead(i) BY <1>1, <1>4 DEF Dead
  <2>. QED BY <1>1, <1>2, <1>4, <1>5, <2>1 DEF LostAreDead, Loses, Idle, Same
<1>. QED BY <1>1, <1>7, <1>8, <1>9, <1>10, <1>11 DEF NoneHangs

LEMMA WatchKeepsHealth ==
  ASSUME IInv, StartsSound, HealthInv, Watch,
         Onboard = {} \/ ("hung" \notin Faults /\ MaxCrashes = 0)
  PROVE  HealthInv'
<1>0. Watchdog \in Actors /\ Watchdog \notin Clients BY ConstantsAssumption DEF Actors
<1>1. CASE Handle(Watchdog) BY <1>0, <1>1, HandleKeepsHealth
<1>2. CASE /\ WatchLook \/ WatchAsk \/ WatchLostCheck
           /\ UNCHANGED <<store, installed, knows, svc>>
  BY <1>2, LookKeepsHealth, AskPassKeepsHealth, LostCheckKeepsHealth
<1>3. CASE WatchGoHome /\ UNCHANGED <<store, installed, knows, svc, timers>>
  <2>. USE DEF IInv, HealthInv
  <2>1. UNCHANGED <<jobs, installed, knows, svc, lostFor>> BY <1>3 DEF store, timers
  <2>2. Go(Watchdog, "tell") BY <1>3 DEF WatchGoHome
  <2>3. /\ req'[Watchdog].pc = "tell" /\ req'[Watchdog].kind = req[Watchdog].kind
        /\ \A c \in Clients : req'[c] = req[c]
    BY <1>0, <2>2, GoSame DEF Same, Actors
  <2>4. AllStay' BY <2>1, <2>3 DEF AllStay, Actors
  <2>5. JobsSound' BY <2>1, <2>3 DEF JobsSound, Starts
  <2>6. Handled' BY <2>1, <2>3 DEF Handled, At
  <2>7. Unseen' BY <2>1, <2>3 DEF Unseen, At
  <2>8. LostAreDead' BY <2>1, <2>3 DEF LostAreDead, Loses, Dead, At
  <2>. QED BY <2>1, <2>4, <2>5, <2>6, <2>7, <2>8 DEF NoneHangs
<1>. QED BY <1>1, <1>2, <1>3 DEF Watch

-----------------------------------------------------------------------------
(* Requests, the world, restarts.                                          *)
LEMMA AskMoves ==
  ASSUME RequestsSound, NEW c \in Clients, NEW kind \in AllKinds \ {"remove"}, NEW force, NEW job, NEW plug,
         Ask(c, kind, force, job, plug)
  PROVE  /\ req[c].pc = "idle" /\ \A b \in Actors \ {c} : req'[b] = req[b]
         /\ req'[c].pc \in {"claimRead", "relRead", "startCheck", "endRead", "safety"}
         /\ req'[c].kind = kind /\ req'[c].result = "none"
<1>. DEFINE pc == FirstStep[kind]
            r == [Idle EXCEPT !.pc = pc, !.kind = kind, !.force = force, !.job = job, !.plug = plug]
<1>1. req' = [req EXCEPT ![c] = r] /\ req[c].pc = "idle" BY DEF Ask, At
<1>2. pc \in {"claimRead", "relRead", "startCheck", "endRead", "safety"} BY DEF FirstStep, AllKinds
<1>. HIDE DEF pc
<1>3. r.pc = pc /\ r.kind = kind /\ r.result = "none" BY DEF Idle
<1>. HIDE DEF r
<1>. QED BY <1>1, <1>2, <1>3 DEF RequestsSound, Actors

LEMMA AskingKeepsHealth ==
  ASSUME IInv, HealthInv, "remove" \notin Kinds, Asking PROVE HealthInv'
<1>. USE DEF IInv, HealthInv, At
<1>0. Watchdog \in Actors /\ Watchdog \notin Clients BY ConstantsAssumption DEF Actors
<1>1. UNCHANGED <<jobs, installed, svc, lostFor>> BY DEF Asking, store, timers
<1>2. PICK c \in Clients : \E kind, force, job, plug : Ask(c, kind, force, job, plug)
  BY DEF Asking, PersonAsks, PluginCommands, PluginFinishes, Clients
<1>3. PICK kind, force, job, plug : Ask(c, kind, force, job, plug) BY <1>2
<1>4. kind \in AllKinds \ {"remove"} BY <1>3, ConstantsAssumption DEF Ask
<1>5. /\ req[c].pc = "idle" /\ \A b \in Actors \ {c} : req'[b] = req[b]
      /\ req'[c].pc \in {"claimRead", "relRead", "startCheck", "endRead", "safety"}
      /\ req'[c].kind # "remove" /\ req'[c].result = "none"
  BY <1>3, <1>4, AskMoves
<1>6. /\ req'[Watchdog] = req[Watchdog]
      /\ \A d \in Clients : req'[d].pc \in StartPcs => req'[d] = req[d]
      /\ \A d \in Clients : req[d].pc = "answer" => req'[d] = req[d]
  BY <1>0, <1>5 DEF Actors, StartPcs
<1>7. \A j \in JobIds : knows'[j] = knows[j] \/ (knows[j] # "no" /\ knows'[j] = "done")
  BY DEF Asking, PluginFinishes, OthersTyped
<1>8. AllStay' BY <1>1, <1>5 DEF AllStay, Actors
<1>9. JobsSound' BY <1>1, <1>6, <1>7 DEF JobsSound, Starts
<1>10. Handled' BY <1>1, <1>6, <1>7 DEF Handled
<1>11. Unseen' BY <1>1, <1>6 DEF Unseen, StartPcs
<1>12. LostAreDead'
  <2>1. \A d \in Clients : req'[d].result # "lost" BY <1>5 DEF LostAreDead, Actors
  <2>2. \A j \in JobIds : Dead(j) => Dead(j)' BY <1>6, <1>7 DEF Dead, StartPcs
  <2>. QED BY <1>1, <1>6, <2>1, <2>2 DEF LostAreDead, Loses
<1>. QED BY <1>1, <1>8, <1>9, <1>10, <1>11, <1>12 DEF NoneHangs

LEMMA ServiceKeepsHealth ==
  ASSUME IInv, HealthInv, NEW p \in Plugins, Service(p) PROVE HealthInv'
<1>. USE DEF IInv, HealthInv, At
<1>1. UNCHANGED <<jobs, installed, req, lostFor>> BY DEF Service, store, timers
<1>2. \A j \in JobIds : \/ knows'[j] = knows[j]
                        \/ knows'[j] = "no"
                        \/ knows[j] = "starting" /\ knows'[j] = "running" /\ UNCHANGED svc
  BY DEF Service, PluginDown, PluginHangs, PluginUp, PluginStartsLate, OthersTyped
<1>3. \A j \in JobIds : jobs[j].status # "none" /\ svc'[jobs[j].plugin] = "down" => knows'[j] = "no"
  BY DEF Service, PluginDown, PluginHangs, PluginUp, PluginStartsLate, OthersTyped, JobsSound
<1>4. NoneHangs'
  BY DEF Service, PluginDown, PluginHangs, PluginUp, PluginStartsLate, OthersTyped, NoneHangs
<1>5. AllStay' BY <1>1 DEF AllStay
<1>6. JobsSound' BY <1>1, <1>2, <1>3 DEF JobsSound, Starts
<1>7. Handled' BY <1>1, <1>2 DEF Handled
<1>8. Unseen' BY <1>1 DEF Unseen
<1>9. LostAreDead'
  <2>1. \A j \in JobIds : Dead(j) => Dead(j)' BY <1>1, <1>2 DEF Dead
  <2>. QED BY <1>1, <2>1 DEF LostAreDead, Loses
<1>. QED BY <1>4, <1>5, <1>6, <1>7, <1>8, <1>9

(* After a restart nobody waits for the plugin's answer any more.          *)
LEMMA CrashKeepsHealth == ASSUME IInv, HealthInv, Crash PROVE HealthInv'
<1>. USE DEF IInv, HealthInv, At
<1>0. Watchdog \in Actors BY DEF Actors
<1>1. UNCHANGED <<jobs, installed, knows, svc>> BY DEF Crash, store
<1>2. \A a \in Actors : req'[a] = Idle BY DEF Crash
<1>3. \A j \in JobIds : lostFor'[j] = 0 BY DEF Crash
<1>4. MaxCrashes # 0 BY ConstantsAssumption DEF Crash, TimersTyped
<1>5. AllStay' BY <1>1, <1>2 DEF AllStay, Idle
<1>6. JobsSound' BY <1>1, <1>2, <1>3 DEF JobsSound, Starts, StartPcs, Idle, Actors
<1>7. Handled' BY <1>1, <1>4 DEF Handled
<1>8. Unseen' BY <1>2 DEF Unseen, Idle, Actors
<1>9. LostAreDead'
  <2>1. \A j \in JobIds : Dead(j) => Dead(j)' BY <1>1, <1>2 DEF Dead, Idle, Actors
  <2>. QED BY <1>0, <1>1, <1>2, <2>1 DEF LostAreDead, Loses, Idle, Actors
<1>. QED BY <1>1, <1>5, <1>6, <1>7, <1>8, <1>9 DEF NoneHangs

LEMMA InitHealth == Init => HealthInv
<1>. SUFFICES ASSUME Init PROVE HealthInv OBVIOUS
<1>. USE DEF Init, Idle, At
<1>0. Watchdog \in Actors BY DEF Actors
<1>1. AllStay BY DEF AllStay
<1>2. JobsSound BY DEF JobsSound, NewJob, Starts, StartPcs, Actors
<1>3. Handled BY DEF Handled
<1>4. NoneHangs BY DEF NoneHangs
<1>5. Unseen BY DEF Unseen, Actors
<1>6. LostAreDead BY <1>0 DEF LostAreDead, Loses, Dead, NewJob, Actors
<1>. QED BY <1>1, <1>2, <1>3, <1>4, <1>5, <1>6 DEF HealthInv

LEMMA NextHealth ==
  ASSUME "remove" \notin Kinds, Onboard = {} \/ ("hung" \notin Faults /\ MaxCrashes = 0),
         IInv, StartsSound, HealthInv, [Next]_vars
  PROVE  HealthInv'
<1>1. CASE \E c \in Clients : Handle(c) BY <1>1, HandleKeepsHealth DEF Actors
<1>2. CASE Watch BY <1>2, WatchKeepsHealth
<1>3. CASE Asking BY <1>3, AskingKeepsHealth
<1>4. CASE \E p \in Plugins : Service(p) BY <1>4, ServiceKeepsHealth
<1>5. CASE Crash BY <1>5, CrashKeepsHealth
<1>6. CASE Flight \/ HoldExpires \/ (\E j \in JobIds : JobAges(j)) \/ UNCHANGED vars
  <2>1. UNCHANGED <<installed, req, knows, svc, jobs, lostFor>>
    BY <1>6 DEF Flight, HoldExpires, JobAges, vars, store, timers
  <2>. QED BY <2>1 DEF HealthInv, AllStay, JobsSound, Starts, Handled, NoneHangs, Unseen, LostAreDead,
                       Loses, Dead, At
<1>. QED BY <1>1, <1>2, <1>3, <1>4, <1>5, <1>6 DEF Next

(* check_plugins: a job whose plugin is up and runs it is not ended as     *)
(* lost, however its start, the passes of the watchdog, faults and         *)
(* restarts of the fleet API interleave.  An onboard plugin that the API   *)
(* no longer waits for does not answer for a job it is starting: without   *)
(* restarts and hung services the API waits.                               *)
THEOREM HealthySurvive ==
  ASSUME "remove" \notin Kinds, Onboard = {} \/ ("hung" \notin Faults /\ MaxCrashes = 0)
  PROVE  Spec => []HealthyJobSurvives
<1>1. IInv /\ StartsSound /\ HealthInv /\ [Next]_vars => HealthInv' BY NextHealth
<1>2. HealthInv => HealthyJobSurvives BY DEF HealthInv, LostAreDead, Dead, HealthyJobSurvives
<1>. QED BY <1>1, <1>2, InitStarts, InitHealth, NextStarts, Inductive, PTL DEF Spec
-----------------------------------------------------------------------------
(* What a handler's local variables say of the job it deals with.          *)
Pending == {"claimForce", "post"}

(* The plugin is to be told of the end of the job, or may be.              *)
ToTell(r) ==
  \/ r.pc \in {"ask", "lostCheck"}
  \/ r.pc \in {"end", "free", "pop", "goHome", "tell"} /\ r.result \in {"stopped", "lost"}

(* The job is to be ended without its plugin being told.                   *)
Untold(a, r) ==
  \/ r.pc = "endRead" /\ a \in Plugins
  \/ r.pc = "end" /\ r.result \in {"completed", "refused"}

Fact(a, r) ==
  /\ r.pc \in StartPcs => r.job \in JobIds /\ jobs[r.job].status # "none" /\ jobs[r.job].plugin = r.plug
  /\ Untold(a, r) => r.job \in JobIds /\ jobs[r.job].status # "none" /\ Dead(r.job)
  /\ ToTell(r) => r.job \in JobIds /\ jobs[r.job].status # "none" /\ r.plug \in {None, jobs[r.job].plugin}
  /\ r.force => r.kind \in {"take", "release"}

KnowsSound ==
  \A j \in JobIds :
    /\ jobs[j].status = "none" => knows[j] = "no"
    /\ jobs[j].status # "none" => jobs[j].plugin \in Plugins /\ (svc[jobs[j].plugin] = "down" => knows[j] = "no")

(* No plugin has a job whose POST /jobs is still to come.                  *)
Unposted == \A c \in Clients : req[c].pc \in Pending => ~Alive(req[c].job)

FlyInv == KnowsSound /\ Unposted /\ \A a \in Actors : Fact(a, req[a])

(* A step forgets no job, and revives none: a plugin takes a job up when   *)
(* its POST /jobs arrives, and only a new one is posted.                   *)
RevivesNone ==
  /\ \A j \in JobIds : jobs[j].status # "none" => jobs'[j].status # "none" /\ jobs'[j].plugin = jobs[j].plugin
  /\ \A j \in JobIds : Alive(j)' => Alive(j) \/ StartsLate(j)
  /\ \A c \in Clients : req'[c].pc \in Pending =>
       \/ req[c].pc \in Pending /\ req'[c].job = req[c].job
       \/ req'[c].job \in JobIds /\ jobs[req'[c].job].status = "none"

LEMMA DeadStays ==
  ASSUME RevivesNone, NEW j \in JobIds, jobs[j].status # "none", Dead(j) PROVE Dead(j)'
BY DEF RevivesNone, Dead, Alive, Pending, StartsLate, PostArrives, At

LEMMA FactKept ==
  ASSUME RevivesNone, NEW a \in Actors, Fact(a, req[a]), req'[a] = req[a] PROVE Fact(a, req[a])'
<1>1. \A j \in JobIds : jobs[j].status # "none" => jobs'[j].status # "none" /\ jobs'[j].plugin = jobs[j].plugin
  BY DEF RevivesNone
<1>2. \A j \in JobIds : jobs[j].status # "none" /\ Dead(j) => Dead(j)' BY DeadStays
<1>. QED BY <1>1, <1>2 DEF Fact, ToTell, Untold

LEMMA IdleFact == ASSUME NEW a, NEW b PROVE Fact(a, Idle)'
BY DEF Fact, Idle, ToTell, Untold, StartPcs

(* What Go does.                                                           *)
LEMMA GoIs ==
  ASSUME RequestsSound, NEW a \in Actors, NEW pc, Go(a, pc)
  PROVE  /\ req'[a].pc = pc /\ req'[a].kind = req[a].kind /\ req'[a].job = req[a].job
         /\ req'[a].plug = req[a].plug /\ req'[a].result = req[a].result /\ req'[a].force = req[a].force
         /\ \A b \in Actors \ {a} : req'[b] = req[b]
<1>1. req[a] \in Requests BY DEF RequestsSound
<1>2. req'[a] = [req[a] EXCEPT !.pc = pc, !.seen = None] /\ \A b \in Actors \ {a} : req'[b] = req[b]
  BY <1>1 DEF Go, RequestsSound, Requests
<1>. QED BY <1>1, <1>2 DEF Requests

LEMMA DoneIs ==
  ASSUME RequestsSound, NEW a \in Actors, Done(a)
  PROVE  req'[a] = Idle /\ \A b \in Actors \ {a} : req'[b] = req[b]
BY DEF Done, RequestsSound

-----------------------------------------------------------------------------
(* Handlers.                                                               *)
(* A handler that begins no job; PostArrives may be its step.              *)
LEMMA HandleRevives ==
  ASSUME IInv, NEW a \in Actors, Handle(a), ~StartBegin(a)
  PROVE  /\ RevivesNone /\ \A b \in Actors \ {a} : req'[b] = req[b]
         /\ \A j \in JobIds : jobs[j].status # "running" => jobs'[j] = jobs[j]
<1>. USE DEF IInv
<1>1. \A j \in JobIds : Alive(j)' => Alive(j) \/ StartsLate(j)
  <2>. SUFFICES ASSUME NEW j \in JobIds, Alive(j)', ~Alive(j) PROVE StartsLate(j) OBVIOUS
  <2>1. PostArrives(a) /\ req[a].job = j BY HandleKnows DEF Alive
  <2>2. a \in Clients BY <2>1 DEF PostArrives, At, RequestsSound, Sound
  <2>. QED BY <2>1, <2>2 DEF StartsLate
<1>2. \A c \in Clients : req'[c].pc \in Pending => req[c].pc \in Pending /\ req'[c].job = req[c].job
  BY HandleMoves DEF OneMoves, Moves, Same, Actors, Idle, StartPcs, Pending
<1>3. ASSUME NEW j \in JobIds
      PROVE  /\ jobs[j].status # "none" => jobs'[j].status # "none" /\ jobs'[j].plugin = jobs[j].plugin
             /\ jobs[j].status # "running" => jobs'[j] = jobs[j]
  <2>1. CASE UNCHANGED store BY <2>1 DEF store
  <2>2. CASE active # NoJob /\ jobs' = [jobs EXCEPT ![active].status = "ended", ![active].result = req[a].result]
    <3>1. active \in JobIds /\ jobs[active].status = "running" BY <2>2 DEF StoreSound, StoreConsistent
    <3>2. jobs'[active] = [jobs[active] EXCEPT !.status = "ended", !.result = req[a].result]
          /\ \A i \in JobIds \ {active} : jobs'[i] = jobs[i]
      BY <2>2, <3>1 DEF StoreSound
    <3>3. jobs'[active].plugin = jobs[active].plugin /\ jobs'[active].status = "ended"
      BY <3>1, <3>2 DEF StoreSound
    <3>. QED BY <3>1, <3>2, <3>3
  <2>. QED BY <2>1, <2>2 DEF Handle, LocalStep, HolderStep, StoreStep, PluginStep, EndJob, End
<1>4. \A b \in Actors \ {a} : req'[b] = req[b] BY HandleMoves DEF OneMoves
<1>. QED BY <1>1, <1>2, <1>3, <1>4 DEF RevivesNone

LEMMA AfterFreeFact ==
  ASSUME IInv, RevivesNone, NEW a \in Actors, Fact(a, req[a]), req[a].pc \in {"free", "pop"}, AfterFree(a)
  PROVE  Fact(a, req[a])'
<1>. USE DEF IInv
<1>1. CASE Done(a) BY <1>1, DoneIs, IdleFact
<1>2. CASE Go(a, "tell") \/ Go(a, "goHome")
  <2>1. req'[a].pc \in {"tell", "goHome"} /\ req'[a].kind = req[a].kind /\ req'[a].job = req[a].job
        /\ req'[a].plug = req[a].plug /\ req'[a].result = req[a].result /\ req'[a].force = req[a].force
    BY <1>2, GoIs
  <2>. QED BY <2>1 DEF Fact, RevivesNone, ToTell, Untold, StartPcs
<1>. QED BY <1>1, <1>2 DEF AfterFree

LEMMA LocalFact ==
  ASSUME IInv, FlyInv, RevivesNone, NEW a \in Actors, LocalStep(a) PROVE Fact(a, req[a])'
<1>. USE DEF IInv, At
<1>0. /\ req[a] \in Requests /\ Fact(a, req[a]) /\ UNCHANGED <<active, jobs, installed, knows>>
      /\ None \notin Actors /\ NoJob \notin JobIds
  BY ConstantsAssumption DEF RequestsSound, FlyInv, LocalStep, store, NoJob, JobIds
<1>1. CASE ReadHolder(a)
  <2>1. PICK pc \in {"claimWrite", "relPop"} : req' = [req EXCEPT ![a].seen = holder, ![a].pc = pc]
    BY <1>1 DEF ReadHolder
  <2>2. req'[a] = [req[a] EXCEPT !.seen = holder, !.pc = pc] BY <1>0, <2>1 DEF RequestsSound, Requests
  <2>3. req'[a].pc = pc /\ req'[a].kind = req[a].kind /\ req'[a].force = req[a].force
    BY <1>0, <2>2 DEF Requests
  <2>. QED BY <1>0, <2>1, <2>3 DEF Fact, ToTell, Untold, StartPcs
<1>2. CASE Done(a) BY <1>2, DoneIs, IdleFact
<1>3. CASE \E pc \in {"claimRead", "exec", "stopRead", "begin", "removeDo"} : Go(a, pc)
  <2>1. req'[a].pc \in {"claimRead", "exec", "stopRead", "begin", "removeDo"} /\ req'[a].kind = req[a].kind
        /\ req'[a].force = req[a].force
    BY <1>3, GoIs
  <2>. QED BY <1>0, <2>1 DEF Fact, ToTell, Untold, StartPcs
<1>4. CASE req[a].pc = "free" /\ (Go(a, "pop") \/ AfterFree(a))
  <2>1. CASE AfterFree(a) BY <1>0, <1>4, <2>1, AfterFreeFact
  <2>2. CASE Go(a, "pop")
    <3>1. req'[a].pc = "pop" /\ req'[a].kind = req[a].kind /\ req'[a].job = req[a].job
          /\ req'[a].plug = req[a].plug /\ req'[a].result = req[a].result /\ req'[a].force = req[a].force
      BY <2>2, GoIs
    <3>. QED BY <1>0, <1>4, <3>1 DEF Fact, ToTell, Untold, StartPcs
  <2>. QED BY <1>4, <2>1, <2>2
<1>5. CASE /\ req[a].pc = "endRead" /\ active # NoJob /\ a = PluginOf(active)
           /\ req' = [req EXCEPT ![a].plug = a, ![a].result = "completed", ![a].pc = "end"]
  <2>1. req'[a] = [req[a] EXCEPT !.plug = a, !.result = "completed", !.pc = "end"]
    BY <1>0, <1>5 DEF RequestsSound, Requests
  <2>2. /\ req'[a].pc = "end" /\ req'[a].kind = req[a].kind /\ req'[a].force = req[a].force
        /\ req'[a].job = req[a].job /\ req'[a].result = "completed"
    BY <1>0, <2>1 DEF Requests
  <2>3. a \in Plugins BY <1>0, <1>5, PluginOfType
  <2>4. PICK j \in JobIds : j = req[a].job /\ jobs[j].status # "none" /\ Dead(j)
    BY <1>0, <1>5, <2>3 DEF Fact, Untold
  <2>5. Dead(j)' BY <2>4, DeadStays
  <2>6. Dead(req[a].job)' BY <2>2, <2>4, <2>5
  <2>. QED BY <1>0, <2>2, <2>4, <2>6 DEF Fact, ToTell, Untold, StartPcs
<1>6. CASE StopRead(a) /\ ~Done(a)
  <2>. DEFINE p == PluginOf(active)
  <2>1. /\ active # NoJob
        /\ req' = [req EXCEPT ![a].job = active, ![a].plug = p, ![a].result = "stopped", ![a].pc = "end"]
    BY <1>6 DEF StopRead
  <2>2. active \in JobIds /\ jobs[active].status # "none" /\ p \in {None, jobs[active].plugin}
    BY <2>1 DEF StoreSound, StoreConsistent, PluginOf
  <2>. HIDE DEF p
  <2>3. req'[a] = [req[a] EXCEPT !.job = active, !.plug = p, !.result = "stopped", !.pc = "end"]
    BY <1>0, <2>1 DEF RequestsSound, Requests
  <2>4. /\ req'[a].pc = "end" /\ req'[a].kind = req[a].kind /\ req'[a].force = req[a].force
        /\ req'[a].job = active /\ req'[a].plug = p /\ req'[a].result = "stopped"
    BY <1>0, <2>3 DEF Requests
  <2>. QED BY <1>0, <2>2, <2>4 DEF Fact, ToTell, Untold, StartPcs
<1>. QED BY <1>1, <1>2, <1>3, <1>4, <1>5, <1>6
  DEF LocalStep, ClaimRefused, Safety, StartCheck, StartConflict, EndRead, FreeCheck, NoteTimesOut,
      CommandRefused, CommandResumes, RemoveCheck

LEMMA HolderFact ==
  ASSUME IInv, FlyInv, RevivesNone, NEW a \in Actors, HolderStep(a) PROVE Fact(a, req[a])'
<1>. USE DEF IInv, At
<1>0. Fact(a, req[a]) BY DEF FlyInv
<1>1. CASE Done(a) BY <1>1, DoneIs, IdleFact
<1>2. CASE Go(a, "stopRead") \/ Go(a, "exec")
  <2>1. req'[a].pc \in {"stopRead", "exec"} /\ req'[a].kind = req[a].kind /\ req'[a].force = req[a].force
    BY <1>2, GoIs
  <2>. QED BY <1>0, <2>1 DEF Fact, ToTell, Untold, StartPcs
<1>3. CASE FreePop(a) BY <1>0, <1>3, AfterFreeFact DEF FreePop
<1>. QED BY <1>1, <1>2, <1>3 DEF HolderStep, ClaimWrite, ReleasePop

LEMMA EndFact ==
  ASSUME IInv, FlyInv, RevivesNone, NEW a \in Actors, EndJob(a) PROVE Fact(a, req[a])'
<1>. USE DEF IInv, At
<1>0. Fact(a, req[a]) BY DEF FlyInv
<1>1. CASE Done(a) BY <1>1, DoneIs, IdleFact
<1>2. CASE ~Done(a)
  <2>1. req[a].pc = "end" /\ \E pc \in {"pop", "free"} : Go(a, pc) BY <1>2 DEF EndJob
  <2>2. req'[a].pc \in {"pop", "free"} /\ req'[a].kind = req[a].kind /\ req'[a].job = req[a].job
        /\ req'[a].plug = req[a].plug /\ req'[a].result = req[a].result /\ req'[a].force = req[a].force
    BY <2>1, GoIs
  <2>. QED BY <1>0, <2>1, <2>2 DEF Fact, RevivesNone, ToTell, Untold, StartPcs
<1>. QED BY <1>1, <1>2

(* A refused start: the plugin does not have the job, nor will it.         *)
LEMMA RefusedFact ==
  ASSUME IInv, StartsSound, FlyInv, RevivesNone, NEW a \in Actors, PostRefused(a), UNCHANGED <<jobs, svc>>
  PROVE  Fact(a, req[a])'
<1>. USE DEF IInv, At
<1>0. req[a] \in Requests /\ Fact(a, req[a]) BY DEF FlyInv, RequestsSound
<1>1. a \in Clients /\ req[a].pc \in {"post", "answer"} BY DEF PostRefused, RequestsSound, Sound
<1>2. PICK j \in JobIds : j = req[a].job /\ jobs[j].status # "none" /\ jobs[j].plugin = req[a].plug
  BY <1>0, <1>1 DEF Fact, StartPcs
<1>3. req'[a] = [req[a] EXCEPT !.result = "refused", !.pc = "end"] /\ \A b \in Actors \ {a} : req'[b] = req[b]
  BY <1>0 DEF PostRefused, RequestsSound, Requests
<1>4. req'[a].pc = "end" /\ req'[a].kind = req[a].kind /\ req'[a].job = j
      /\ req'[a].result = "refused" /\ req'[a].force = req[a].force
  BY <1>0, <1>3, <1>2 DEF Requests
<1>5. knows'[j] = "no" BY <1>2 DEF PostRefused, FlyInv, KnowsSound, OthersTyped
<1>6. \A c \in Clients \ {a} : req'[c].pc \in Pending => req'[c].job # j
  BY <1>1, <1>2, <1>3 DEF StartsSound, Starts, StartPcs, Actors, Pending
<1>7. Dead(j)' BY <1>4, <1>5, <1>6 DEF Dead, Pending
<1>8. Dead(req[a].job)' BY <1>4, <1>7
<1>. QED BY <1>0, <1>4, <1>2, <1>8 DEF Fact, ToTell, Untold, StartPcs

LEMMA PluginFact ==
  ASSUME IInv, StartsSound, FlyInv, RevivesNone, NEW a \in Actors, PluginStep(a), UNCHANGED svc
  PROVE  Fact(a, req[a])'
<1>. USE DEF IInv, At
<1>0. Fact(a, req[a]) /\ UNCHANGED <<active, jobs, installed>> BY DEF FlyInv, PluginStep, store
<1>1. CASE Done(a) BY <1>1, DoneIs, IdleFact
<1>2. CASE (req[a].pc = "tell" /\ Go(a, "noting")) \/ (req[a].pc = "post" /\ Go(a, "answer"))
  <2>1. req'[a].pc \in {"noting", "answer"} /\ req'[a].kind = req[a].kind /\ req'[a].job = req[a].job
        /\ req'[a].plug = req[a].plug /\ req'[a].force = req[a].force
        /\ (req'[a].pc = "answer" => req[a].pc = "post")
    BY <1>2, GoIs
  <2>. QED BY <1>0, <2>1 DEF Fact, ToTell, Untold, StartPcs
<1>3. CASE PostRefused(a) BY <1>0, <1>3, RefusedFact
<1>. QED BY <1>1, <1>2, <1>3 DEF PluginStep, PostArrives, PostAccepted, PostFails, Tell, NoteServed

(* A handler that begins no job.                                           *)
LEMMA HandleFact ==
  ASSUME IInv, StartsSound, FlyInv, RevivesNone, NEW a \in Actors, Handle(a), ~StartBegin(a)
  PROVE  Fact(a, req[a])'
<1>. USE DEF IInv, At
<1>0. Fact(a, req[a]) /\ UNCHANGED svc BY DEF FlyInv, Handle
<1>1. CASE LocalStep(a) BY <1>1, LocalFact
<1>2. CASE HolderStep(a) BY <1>2, HolderFact
<1>3. CASE EndJob(a) BY <1>3, EndFact
<1>4. CASE PluginStep(a) BY <1>0, <1>4, PluginFact
<1>5. CASE StartClaim(a)
  <2>1. req[a].pc = "claimForce" /\ Go(a, "post") BY <1>5 DEF StartClaim
  <2>2. req'[a].pc = "post" /\ req'[a].kind = req[a].kind /\ req'[a].job = req[a].job
        /\ req'[a].plug = req[a].plug /\ req'[a].force = req[a].force
    BY <2>1, GoIs
  <2>. QED BY <1>0, <2>1, <2>2 DEF Fact, RevivesNone, ToTell, Untold, StartPcs
<1>6. CASE Done(a) BY <1>6, DoneIs, IdleFact
<1>7. CASE Go(a, "executed")
  <2>1. req'[a].pc = "executed" /\ req'[a].kind = req[a].kind /\ req'[a].force = req[a].force
    BY <1>7, GoIs
  <2>. QED BY <1>0, <2>1 DEF Fact, ToTell, Untold, StartPcs
<1>. QED BY <1>1, <1>2, <1>3, <1>4, <1>5, <1>6, <1>7 DEF Handle, StoreStep, CommandRuns, RemoveDo

(* A start begins a job no plugin has heard of.                            *)
LEMMA BeginFly ==
  ASSUME IInv, StartsSound, FlyInv, NEW a \in Actors, StartBegin(a), UNCHANGED <<knows, svc>>
  PROVE  FlyInv' /\ RevivesNone
<1>. USE DEF IInv, At
<1>1. a \in Clients /\ req[a] \in Requests /\ Fact(a, req[a]) /\ req[a].pc = "begin" /\ req[a].plug \in Plugins
  BY DEF RequestsSound, Sound, FlyInv, StartBegin
<1>2. PICK j \in JobIds : /\ Begin(j, req[a].plug)
                          /\ req' = [req EXCEPT ![a].job = j, ![a].pc = "claimForce"]
  BY DEF StartBegin
<1>3. \A b \in Actors \ {a} : req'[b] = req[b] BY <1>2 DEF RequestsSound
<1>4. req'[a].pc = "claimForce" /\ req'[a].job = j /\ req'[a].plug = req[a].plug
      /\ req'[a].kind = req[a].kind /\ req'[a].force = req[a].force
  <2>1. req'[a] = [req[a] EXCEPT !.job = j, !.pc = "claimForce"]
    BY <1>1, <1>2 DEF RequestsSound, Requests
  <2>. QED BY <1>1, <2>1 DEF Requests
<1>5. /\ jobs[j].status = "none"
      /\ jobs'[j] = [plugin |-> req[a].plug, status |-> "running", result |-> "none"]
      /\ \A i \in JobIds \ {j} : jobs'[i] = jobs[i]
  BY <1>2 DEF Begin, StoreSound
<1>6. knows[j] = "no" BY <1>5 DEF FlyInv, KnowsSound
<1>7. RevivesNone BY <1>3, <1>4, <1>5 DEF RevivesNone, Alive, Actors
<1>8. Fact(a, req[a])' BY <1>1, <1>4, <1>5 DEF Fact, ToTell, Untold, StartPcs
<1>9. \A b \in Actors \ {a} : Fact(b, req[b])' BY <1>3, <1>7, FactKept DEF FlyInv
<1>10. KnowsSound' BY <1>1, <1>5, <1>6 DEF FlyInv, KnowsSound
<1>11. Unposted'
  <2>1. ~Alive(j)' BY <1>6 DEF Alive
  <2>. QED BY <1>3, <1>4, <2>1 DEF FlyInv, Unposted, Alive, Actors
<1>. QED BY <1>7, <1>8, <1>9, <1>10, <1>11 DEF FlyInv

LEMMA HandleFly ==
  ASSUME IInv, StartsSound, FlyInv, NEW a \in Actors, Handle(a) PROVE FlyInv' /\ RevivesNone
<1>. USE DEF IInv, At
<1>0. UNCHANGED svc /\ Fact(a, req[a]) BY DEF Handle, FlyInv
<1>1. CASE StartBegin(a)
  <2>1. UNCHANGED knows
    BY <1>1 DEF Handle, LocalStep, HolderStep, StoreStep, PluginStep, StartBegin, PostArrives, PostAccepted,
        PostRefused, PostFails, Tell, NoteServed
  <2>. QED BY <1>0, <1>1, <2>1, BeginFly
<1>2. CASE ~StartBegin(a)
  <2>1. /\ RevivesNone /\ \A b \in Actors \ {a} : req'[b] = req[b]
        /\ \A j \in JobIds : jobs[j].status # "running" => jobs'[j] = jobs[j]
    BY <1>2, HandleRevives
  <2>2. \A b \in Actors : Fact(b, req[b])' BY <1>2, <2>1, HandleFact, FactKept DEF FlyInv
  <2>3. ASSUME NEW j \in JobIds, PostArrives(a), req[a].job = j
        PROVE  /\ svc[jobs[j].plugin] = "up" /\ jobs[j].status # "none"
               /\ \A c \in Clients : req'[c].pc \in Pending => req'[c].job # j
    <3>1. a \in Clients /\ req[a].pc = "post" /\ svc[req[a].plug] = "up" /\ Go(a, "answer")
      BY <2>3 DEF PostArrives, RequestsSound, Sound
    <3>2. jobs[j].plugin = req[a].plug /\ jobs[j].status # "none" BY <1>0, <2>3, <3>1 DEF Fact, StartPcs
    <3>3. req'[a].pc = "answer" BY <3>1, GoIs
    <3>4. \A c \in Clients \ {a} : req'[c].pc \in Pending => req'[c].job # j
      BY <2>1, <2>3, <3>1 DEF StartsSound, Starts, StartPcs, Actors, Pending
    <3>. QED BY <3>1, <3>2, <3>3, <3>4 DEF Pending
  <2>4. KnowsSound'
    <3>1. \A j \in JobIds : knows[j] = "no" => knows'[j] = "no" \/ (PostArrives(a) /\ req[a].job = j)
      BY HandleKnows
    <3>. QED BY <1>0, <2>1, <2>3, <3>1 DEF FlyInv, KnowsSound, RevivesNone
  <2>5. Unposted'
    <3>. SUFFICES ASSUME NEW c \in Clients, req'[c].pc \in Pending, Alive(req[c].job)' PROVE FALSE
      BY DEF Unposted
    <3>1. PICK j \in JobIds : j = req'[c].job BY <2>2 DEF Fact, Pending, StartPcs, Actors
    <3>2. req[c].pc \in Pending /\ req[c].job = j
      BY <1>2, <3>1, HandleMoves DEF OneMoves, Moves, Same, Actors, Idle, StartPcs, Pending
    <3>3. ~Alive(j) /\ Alive(j)' BY <3>1, <3>2 DEF FlyInv, Unposted
    <3>4. PostArrives(a) /\ req[a].job = j BY <3>3, HandleKnows DEF Alive
    <3>. QED BY <2>3, <3>1, <3>4
  <2>. QED BY <2>1, <2>2, <2>4, <2>5 DEF FlyInv
<1>. QED BY <1>1, <1>2

-----------------------------------------------------------------------------
(* The watchdog, requests, the world, restarts.                            *)

(* A step of one actor that leaves the records alone.                      *)
LEMMA OneFly ==
  ASSUME IInv, FlyInv, NEW a \in Actors, Fact(a, req[a])', a \in Clients => req'[a].pc \notin Pending,
         \A b \in Actors \ {a} : req'[b] = req[b], UNCHANGED <<jobs, svc>>,
         \A j \in JobIds : knows'[j] = knows[j] \/ (Alive(j) /\ knows'[j] = "done")
  PROVE  FlyInv' /\ RevivesNone
<1>1. RevivesNone BY DEF RevivesNone, Alive, Actors
<1>2. \A b \in Actors \ {a} : Fact(b, req[b])' BY <1>1, FactKept DEF FlyInv
<1>3. KnowsSound' BY DEF FlyInv, KnowsSound, Alive
<1>4. Unposted'
  <2>. SUFFICES ASSUME NEW c \in Clients, req'[c].pc \in Pending, Alive(req[c].job)' PROVE FALSE
    BY DEF Unposted
  <2>1. PICK j \in JobIds : j = req'[c].job BY <1>2 DEF Fact, Pending, StartPcs, Actors
  <2>2. req'[c] = req[c] BY DEF Actors
  <2>. QED BY <2>1, <2>2 DEF FlyInv, Unposted, Alive
<1>. QED BY <1>1, <1>2, <1>3, <1>4 DEF FlyInv

LEMMA WatchFly == ASSUME IInv, StartsSound, FlyInv, Watch PROVE FlyInv' /\ RevivesNone
<1>. USE DEF IInv, At
<1>. DEFINE w == Watchdog
<1>0. w \in Actors /\ w \notin Clients /\ req[w] \in Requests /\ Fact(w, req[w])
  BY ConstantsAssumption DEF Actors, RequestsSound, FlyInv
<1>1. CASE Handle(Watchdog) BY <1>0, <1>1, HandleFly
<1>2. CASE WatchLook /\ UNCHANGED <<store, knows, svc>>
  <2>1. UNCHANGED <<active, jobs, knows, svc>> BY <1>2 DEF store
  <2>2. CASE req' = req BY <1>0, <2>1, <2>2, OneFly DEF Fact, ToTell, Untold, Dead, Alive
  <2>3. CASE active # NoJob /\ \E result \in {"orphaned", "none"}, pc \in {"end", "ask"} :
               /\ pc = "end" => result = "orphaned"
               /\ req' = [req EXCEPT ![Watchdog] = [Idle EXCEPT !.job = active, !.plug = PluginOf(active),
                                                               !.result = result, !.pc = pc]]
    <3>1. PICK result \in {"orphaned", "none"}, pc \in {"end", "ask"} :
            /\ pc = "end" => result = "orphaned"
            /\ req' = [req EXCEPT ![Watchdog] = [Idle EXCEPT !.job = active, !.plug = PluginOf(active),
                                                            !.result = result, !.pc = pc]]
      BY <2>3
    <3>2. \A b \in Actors \ {w} : req'[b] = req[b] BY <3>1 DEF RequestsSound
    <3>3. req'[w].pc = pc /\ req'[w].job = active /\ req'[w].plug = PluginOf(active)
          /\ req'[w].result = result /\ req'[w].force = FALSE
      BY <1>0, <3>1 DEF RequestsSound, Idle
    <3>4. active \in JobIds /\ jobs[active].status # "none" /\ PluginOf(active) \in {None, jobs[active].plugin}
      BY <2>3 DEF StoreSound, StoreConsistent, PluginOf
    <3>5. Fact(w, req[w])' BY <2>1, <3>1, <3>3, <3>4 DEF Fact, ToTell, Untold, StartPcs
    <3>. QED BY <1>0, <2>1, <3>2, <3>5, OneFly
  <2>. QED BY <1>2, <2>2, <2>3 DEF WatchLook
<1>3. CASE WatchAsk /\ UNCHANGED <<store, knows, svc>>
  <2>1. UNCHANGED <<active, jobs, knows, svc>> BY <1>3 DEF store
  <2>2. Done(w) \/ Go(w, "lostCheck") BY <1>3 DEF WatchAsk
  <2>3. \A b \in Actors \ {w} : req'[b] = req[b] BY <1>0, <2>2, DoneIs, GoIs
  <2>4. Fact(w, req[w])'
    <3>1. CASE Done(w) BY <1>0, <3>1, DoneIs, IdleFact
    <3>2. CASE Go(w, "lostCheck")
      <4>1. req'[w].pc = "lostCheck" /\ req'[w].kind = req[w].kind /\ req'[w].job = req[w].job
            /\ req'[w].plug = req[w].plug /\ req'[w].force = req[w].force
        BY <1>0, <3>2, GoIs
      <4>. QED BY <1>0, <1>3, <2>1, <4>1 DEF WatchAsk, Fact, ToTell, Untold, StartPcs
    <3>. QED BY <2>2, <3>1, <3>2
  <2>. QED BY <1>0, <2>1, <2>3, <2>4, OneFly
<1>4. CASE WatchLostCheck /\ UNCHANGED <<store, knows, svc>>
  <2>1. UNCHANGED <<active, jobs, knows, svc>> BY <1>4 DEF store
  <2>2. \/ Done(w)
        \/ req' = [req EXCEPT ![Watchdog].armed = armed, ![Watchdog].result = "lost",
                              ![Watchdog].pc = "end"]
    BY <1>4 DEF WatchLostCheck
  <2>3. \A b \in Actors \ {w} : req'[b] = req[b] BY <1>0, <2>2, DoneIs DEF RequestsSound
  <2>4. Fact(w, req[w])'
    <3>1. CASE Done(w) BY <1>0, <3>1, DoneIs, IdleFact
    <3>2. CASE ~Done(w)
      <4>1. req'[w] = [req[w] EXCEPT !.armed = armed, !.result = "lost", !.pc = "end"]
        BY <1>0, <2>2, <3>2 DEF RequestsSound, Requests
      <4>2. req'[w].pc = "end" /\ req'[w].kind = req[w].kind /\ req'[w].job = req[w].job
            /\ req'[w].plug = req[w].plug /\ req'[w].force = req[w].force /\ req'[w].result = "lost"
        BY <1>0, <4>1 DEF Requests
      <4>. QED BY <1>0, <1>4, <2>1, <4>2 DEF WatchLostCheck, Fact, ToTell, Untold, StartPcs
    <3>. QED BY <3>1, <3>2
  <2>. QED BY <1>0, <2>1, <2>3, <2>4, OneFly
<1>5. CASE WatchGoHome /\ UNCHANGED <<store, knows, svc>>
  <2>1. UNCHANGED <<active, jobs, knows, svc>> BY <1>5 DEF store
  <2>2. req[w].pc = "goHome" /\ Go(w, "tell") BY <1>5 DEF WatchGoHome
  <2>3. /\ req'[w].pc = "tell" /\ req'[w].kind = req[w].kind /\ req'[w].job = req[w].job
        /\ req'[w].plug = req[w].plug /\ req'[w].force = req[w].force /\ req'[w].result = req[w].result
        /\ \A b \in Actors \ {w} : req'[b] = req[b]
    BY <1>0, <2>2, GoIs
  <2>4. Fact(w, req[w])' BY <1>0, <2>1, <2>2, <2>3 DEF Fact, ToTell, Untold, StartPcs
  <2>. QED BY <1>0, <2>1, <2>3, <2>4, OneFly
<1>. QED BY <1>1, <1>2, <1>3, <1>4, <1>5 DEF Watch

LEMMA AskIs ==
  ASSUME RequestsSound, NEW c \in Clients, NEW kind \in AllKinds, NEW force, NEW job, NEW plug,
         Ask(c, kind, force, job, plug)
  PROVE  /\ req'[c].pc = FirstStep[kind] /\ req'[c].force = force /\ req'[c].job = job
         /\ req'[c].plug = plug /\ req'[c].kind = kind /\ req'[c].result = "none"
         /\ req[c].pc = "idle" /\ \A b \in Actors \ {c} : req'[b] = req[b]
<1>. DEFINE pc == FirstStep[kind]
            r == [Idle EXCEPT !.pc = pc, !.kind = kind, !.force = force, !.job = job, !.plug = plug]
<1>1. req' = [req EXCEPT ![c] = r] /\ req[c].pc = "idle" BY DEF Ask, At
<1>. HIDE DEF pc
<1>2. r.pc = pc /\ r.force = force /\ r.job = job /\ r.plug = plug /\ r.kind = kind /\ r.result = "none"
  BY DEF Idle
<1>. HIDE DEF r
<1>. QED BY <1>1, <1>2 DEF RequestsSound, Actors, pc

LEMMA AskingFly == ASSUME IInv, FlyInv, Asking PROVE FlyInv' /\ RevivesNone
<1>. USE DEF IInv
<1>1. UNCHANGED <<jobs, svc>> BY DEF Asking, store
<1>2. \A j \in JobIds : knows'[j] = knows[j] \/ (Alive(j) /\ knows'[j] = "done")
  BY DEF Asking, PluginFinishes, OthersTyped, Alive
<1>3. PICK c \in Clients, kind \in AllKinds, force \in BOOLEAN, job \in JobIds \cup {NoJob}, plug \in Plugins \cup {None} :
        /\ Ask(c, kind, force, job, plug)
        /\ force => kind \in {"take", "release"}
        /\ kind = "end" /\ c \in Plugins => job \in JobIds /\ Alive(job) /\ knows'[job] = "done"
  <2>1. CASE \E c \in People : PersonAsks(c)
    <3>1. PICK c \in People : PersonAsks(c) BY <2>1
    <3>2. c \in Clients /\ c \notin Plugins BY ConstantsAssumption DEF Clients
    <3>3. CASE \E force \in Forces, kind \in {"take", "release"} : Ask(c, kind, force, NoJob, None)
      BY <3>2, <3>3, ConstantsAssumption DEF AllKinds
    <3>4. CASE \E kind \in Commands \cup {"end"} : Ask(c, kind, FALSE, NoJob, None)
      BY <3>2, <3>4 DEF Commands, AllKinds
    <3>5. CASE \E p \in installed, kind \in {"start", "remove"} : Ask(c, kind, FALSE, NoJob, p)
      <4>1. installed \subseteq Plugins BY DEF OthersTyped
      <4>2. PICK p \in installed, kind \in {"start", "remove"} : Ask(c, kind, FALSE, NoJob, p) BY <3>5
      <4>3. p \in Plugins \cup {None} /\ kind \in AllKinds /\ kind \notin {"take", "release", "end"} BY <4>1 DEF AllKinds
      <4>. QED BY <3>2, <4>2, <4>3
    <3>. QED BY <3>1, <3>3, <3>4, <3>5 DEF PersonAsks
  <2>2. CASE \E p \in Plugins : PluginCommands(p)
    <3>1. PICK p \in Plugins : PluginCommands(p) BY <2>2
    <3>2. PICK j \in JobIds, kind \in {"move", "land"} : Ask(p, kind, FALSE, j, None)
      BY <3>1 DEF PluginCommands
    <3>. QED BY <3>2 DEF Clients, AllKinds
  <2>3. CASE \E p \in Plugins : PluginFinishes(p)
    <3>1. PICK p \in Plugins : PluginFinishes(p) BY <2>3
    <3>2. PICK j \in JobIds :
            Ask(p, "end", FALSE, j, None) /\ knows' = [knows EXCEPT ![j] = "done"] /\ Alive(j)
      BY <3>1 DEF PluginFinishes, Alive
    <3>3. knows'[j] = "done" BY <3>2 DEF OthersTyped
    <3>. QED BY <3>2, <3>3 DEF Clients, AllKinds
  <2>. QED BY <2>1, <2>2, <2>3 DEF Asking
<1>4. /\ req'[c].pc = FirstStep[kind] /\ req'[c].force = force /\ req'[c].job = job
      /\ req'[c].plug = plug /\ req'[c].kind = kind /\ \A b \in Actors \ {c} : req'[b] = req[b]
  BY <1>3, AskIs
<1>5. /\ req'[c].pc \in {"claimRead", "relRead", "startCheck", "endRead", "safety", "removeCheck"}
      /\ req'[c].pc = "endRead" => kind = "end"
  BY <1>4 DEF FirstStep, AllKinds
<1>6. Fact(c, req[c])'
  <2>1. CASE kind = "end" /\ c \in Plugins
    <3>1. job \in JobIds /\ Alive(job) /\ knows'[job] = "done" BY <1>3, <2>1
    <3>2. jobs[job].status # "none" BY <3>1 DEF FlyInv, KnowsSound, Alive
    <3>3. Dead(job)'
      BY <1>4, <1>5, <3>1 DEF Dead, FlyInv, Unposted, Pending, Actors
    <3>4. Dead(req[c].job)' BY <1>4, <3>3
    <3>. QED BY <1>1, <1>3, <1>4, <1>5, <3>1, <3>2, <3>4 DEF Fact, ToTell, Untold, StartPcs
  <2>2. CASE ~(kind = "end" /\ c \in Plugins)
    BY <1>3, <1>4, <1>5, <2>2 DEF Fact, ToTell, Untold, StartPcs
  <2>. QED BY <2>1, <2>2
<1>. QED BY <1>1, <1>2, <1>4, <1>5, <1>6, OneFly DEF Actors, Pending

LEMMA ServiceFly == ASSUME IInv, FlyInv, NEW p \in Plugins, Service(p) PROVE FlyInv' /\ RevivesNone
<1>. USE DEF IInv
<1>1. UNCHANGED <<jobs, req>> BY DEF Service, store
<1>2. \A j \in JobIds : Alive(j)' => Alive(j)
  BY DEF Service, PluginDown, PluginHangs, PluginUp, PluginStartsLate, OthersTyped, Alive
<1>3. RevivesNone BY <1>1, <1>2 DEF RevivesNone
<1>4. \A a \in Actors : Fact(a, req[a])' BY <1>1, <1>3, FactKept DEF FlyInv
<1>5. KnowsSound'
  BY <1>1 DEF FlyInv, KnowsSound, Service, PluginDown, PluginHangs, PluginUp, PluginStartsLate, OthersTyped
<1>6. Unposted'
  <2>1. \A c \in Clients : req[c].pc \in Pending => req[c].job \in JobIds
    BY DEF FlyInv, Fact, Pending, StartPcs, Actors
  <2>. QED BY <1>1, <1>2, <2>1 DEF FlyInv, Unposted, Alive
<1>. QED BY <1>3, <1>4, <1>5, <1>6 DEF FlyInv

LEMMA InitFly == Init => FlyInv
<1>. SUFFICES ASSUME Init PROVE FlyInv OBVIOUS
<1>. USE DEF Init, Idle
<1>1. KnowsSound BY DEF KnowsSound, NewJob
<1>2. Unposted BY DEF Unposted, Pending, Actors
<1>3. \A a \in Actors : Fact(a, req[a]) BY DEF Fact, ToTell, Untold, StartPcs
<1>. QED BY <1>1, <1>2, <1>3 DEF FlyInv

LEMMA NextFly == IInv /\ StartsSound /\ FlyInv /\ [Next]_vars => FlyInv' /\ RevivesNone
<1>. SUFFICES ASSUME IInv, StartsSound, FlyInv, [Next]_vars PROVE FlyInv' /\ RevivesNone OBVIOUS
<1>1. CASE \E c \in Clients : Handle(c) BY <1>1, HandleFly DEF Actors
<1>2. CASE Watch BY <1>2, WatchFly
<1>3. CASE Asking BY <1>3, AskingFly
<1>4. CASE \E p \in Plugins : Service(p) BY <1>4, ServiceFly
<1>5. CASE Crash
  <2>1. \A a \in Actors : req'[a] = Idle BY <1>5 DEF Crash
  <2>2. UNCHANGED <<jobs, knows, svc>> BY <1>5 DEF Crash, store
  <2>3. \A a \in Actors : Fact(a, req[a])' BY <2>1, IdleFact
  <2>4. Unposted' BY <2>1 DEF Unposted, Pending, Idle, Actors
  <2>5. RevivesNone BY <2>1, <2>2 DEF RevivesNone, Alive, Pending, Idle, Actors
  <2>. QED BY <2>2, <2>3, <2>4, <2>5 DEF FlyInv, KnowsSound
<1>6. CASE Flight \/ HoldExpires \/ (\E j \in JobIds : JobAges(j)) \/ UNCHANGED vars
  <2>1. UNCHANGED <<jobs, req, knows, svc>> BY <1>6 DEF Flight, HoldExpires, JobAges, vars, store
  <2>2. RevivesNone BY <2>1 DEF RevivesNone, Alive
  <2>. QED BY <2>1, <2>2 DEF FlyInv, KnowsSound, Unposted, Alive, Fact, ToTell, Untold, Dead
<1>. QED BY <1>1, <1>2, <1>3, <1>4, <1>5, <1>6 DEF Next
-----------------------------------------------------------------------------
(* Takeovers.                                                              *)
LEMMA WhoMoves ==
  ASSUME IInv, [Next]_vars, ~Crash, NEW a \in Actors
  PROVE  \/ req'[a] = req[a]
         \/ Handle(a)
         \/ req[a].pc \in {"idle", "ask", "lostCheck"}
         \/ a = Watchdog /\ WatchGoHome /\ UNCHANGED <<store, knows>>
<1>. USE DEF IInv, At
<1>1. CASE \E c \in Clients : Handle(c)
  <2>1. PICK c \in Clients : Handle(c) BY <1>1
  <2>2. CASE StartBegin(c) BY <2>1, <2>2 DEF StartBegin, RequestsSound
  <2>3. CASE ~StartBegin(c) BY <2>1, <2>3, HandleMoves DEF OneMoves, Actors
  <2>. QED BY <2>2, <2>3
<1>2. CASE Watch
  <2>1. CASE Handle(Watchdog)
    <3>1. CASE StartBegin(Watchdog) BY <3>1, <2>1 DEF StartBegin, RequestsSound
    <3>2. CASE ~StartBegin(Watchdog) BY <2>1, <3>2, HandleMoves DEF OneMoves, Actors
    <3>. QED BY <3>1, <3>2
  <2>2. CASE WatchLook BY <2>2 DEF WatchLook, RequestsSound
  <2>3. CASE WatchAsk BY <2>3, DoneIs, GoIs DEF WatchAsk, Actors
  <2>4. CASE WatchLostCheck BY <2>4, DoneIs DEF WatchLostCheck, Actors, RequestsSound
  <2>5. CASE WatchGoHome /\ UNCHANGED <<store, knows>> BY <2>5, GoIs DEF WatchGoHome, Actors
  <2>. QED BY <1>2, <2>1, <2>2, <2>3, <2>4, <2>5 DEF Watch
<1>3. CASE Asking
  <2>1. PICK c \in Clients : \E kind, force, job, plug : Ask(c, kind, force, job, plug)
    BY <1>3 DEF Asking, PersonAsks, PluginCommands, PluginFinishes, Clients
  <2>2. PICK kind, force, job, plug : Ask(c, kind, force, job, plug) BY <2>1
  <2>3. kind \in AllKinds BY <2>2, ConstantsAssumption DEF Ask
  <2>. QED BY <2>2, <2>3, AskIs
<1>4. CASE UNCHANGED req BY <1>4
<1>. QED BY <1>1, <1>2, <1>3, <1>4 DEF Next, Service, Flight, HoldExpires, JobAges, vars

(* The drone gets a job by a start only.                                   *)
LEMMA ActiveSteps ==
  ASSUME IInv, [Next]_vars
  PROVE  /\ installed' \subseteq installed
         /\ \/ active' \in {active, NoJob}
            \/ active = NoJob /\ \E c \in Clients : req'[c].pc = "claimForce"
<1>. USE DEF IInv
<1>1. ASSUME NEW a \in Actors, Handle(a)
      PROVE  /\ installed' \subseteq installed
             /\ \/ active' \in {active, NoJob}
                \/ active = NoJob /\ \E c \in Clients : req'[c].pc = "claimForce"
  <2>1. installed' \subseteq installed
    BY <1>1 DEF Handle, LocalStep, HolderStep, StoreStep, PluginStep, RemoveDo
  <2>2. CASE StartBegin(a)
    <3>1. a \in Clients /\ req[a] \in Requests BY <2>2 DEF StartBegin, At, RequestsSound, Sound
    <3>2. PICK j \in JobIds : Begin(j, req[a].plug) /\ req' = [req EXCEPT ![a].job = j, ![a].pc = "claimForce"]
      BY <2>2 DEF StartBegin
    <3>3. req'[a] = [req[a] EXCEPT !.job = j, !.pc = "claimForce"] BY <3>1, <3>2 DEF RequestsSound, Requests
    <3>4. req'[a].pc = "claimForce" BY <3>1, <3>3 DEF Requests
    <3>. QED BY <2>1, <3>1, <3>2, <3>4 DEF Begin
  <2>3. CASE EndJob(a) BY <2>1, <2>3 DEF EndJob, End, store
  <2>4. CASE UNCHANGED store BY <2>1, <2>4 DEF store
  <2>. QED BY <1>1, <2>2, <2>3, <2>4 DEF Handle, LocalStep, HolderStep, StoreStep, PluginStep
<1>2. CASE \E a \in Actors : Handle(a) BY <1>1, <1>2
<1>3. CASE UNCHANGED <<store, installed>> BY <1>3 DEF store
<1>. QED BY <1>2, <1>3
  DEF Next, Watch, Asking, Service, Flight, HoldExpires, Crash, JobAges, vars, Actors

(* A person gets the drone by a claim only.                                *)
LEMMA HolderSteps ==
  ASSUME IInv, [Next]_vars, holder' \in People, holder' # holder
  PROVE  \E c \in People : ClaimWrite(c)
<1>. USE DEF IInv
<1>0. None \notin People /\ People \cap Plugins = {} BY ConstantsAssumption DEF Actors, Clients
<1>1. PICK a \in Actors : Handle(a) /\ (HolderStep(a) \/ StartClaim(a))
  BY <1>0 DEF Next, Watch, Asking, Service, Flight, HoldExpires, Crash, JobAges, vars, Actors,
              Handle, LocalStep, StoreStep, PluginStep
<1>2. ~StartClaim(a) BY <1>0 DEF StartClaim, At, RequestsSound, Sound
<1>. QED BY <1>0, <1>1, <1>2 DEF HolderStep, ClaimWrite, ReleasePop, FreePop

(* Who is to end the drone's job goes on to, unless the plugin has the     *)
(* drone again.                                                            *)
LEMMA EndsOn ==
  ASSUME IInv, NEW a \in Actors, Handle(a), Ends(a), active # NoJob, active' = active
  PROVE  Ends(a)' \/ holder' \in Plugins
<1>. USE DEF IInv, At
<1>0. req[a] \in Requests BY DEF RequestsSound
<1>1. CASE req[a].pc = "stopRead" /\ a # PluginOf(active)
  <2>1. StopRead(a)
    BY <1>1 DEF Handle, LocalStep, HolderStep, StoreStep, PluginStep, ReadHolder, ClaimRefused, Safety,
        StartCheck, StartConflict, EndRead, FreeCheck, NoteTimesOut, CommandRefused, CommandResumes,
        RemoveCheck, ClaimWrite, ReleasePop, FreePop, StartBegin, EndJob, PostArrives, PostAccepted,
        PostRefused, PostFails, Tell, NoteServed, StartClaim, CommandRuns, RemoveDo
  <2>. DEFINE p == PluginOf(active)
  <2>2. req' = [req EXCEPT ![a].job = active, ![a].plug = p, ![a].result = "stopped", ![a].pc = "end"]
    BY <1>1, <2>1 DEF StopRead
  <2>. HIDE DEF p
  <2>3. req'[a] = [req[a] EXCEPT !.job = active, !.plug = p, !.result = "stopped", !.pc = "end"]
    BY <1>0, <2>2 DEF RequestsSound, Requests
  <2>4. req'[a].pc = "end" /\ req'[a].result = "stopped" BY <1>0, <2>3 DEF Requests
  <2>. QED BY <2>4 DEF Ends
<1>2. CASE req[a].pc = "end" /\ (req[a].result = "lost" => req[a].job = active)
  <2>1. EndJob(a)
    BY <1>2 DEF Handle, LocalStep, HolderStep, StoreStep, PluginStep, ReadHolder, ClaimRefused, Safety,
        StartCheck, StartConflict, EndRead, StopRead, FreeCheck, NoteTimesOut, CommandRefused,
        CommandResumes, RemoveCheck, ClaimWrite, ReleasePop, FreePop, StartBegin, PostArrives,
        PostAccepted, PostRefused, PostFails, Tell, NoteServed, StartClaim, CommandRuns, RemoveDo
  <2>2. active' = NoJob BY <1>2, <2>1 DEF EndJob, End, store
  <2>. QED BY <2>2
<1>3. CASE req[a].pc = "claimForce"
  <2>1. StartClaim(a)
    BY <1>3 DEF Handle, LocalStep, HolderStep, StoreStep, PluginStep, ReadHolder, ClaimRefused, Safety,
        StartCheck, StartConflict, EndRead, StopRead, FreeCheck, NoteTimesOut, CommandRefused,
        CommandResumes, RemoveCheck, ClaimWrite, ReleasePop, FreePop, StartBegin, EndJob, PostArrives,
        PostAccepted, PostRefused, PostFails, Tell, NoteServed, CommandRuns, RemoveDo
  <2>. QED BY <1>3, <2>1 DEF StartClaim, RequestsSound, Sound
<1>. QED BY <1>1, <1>2, <1>3 DEF Ends

LEMMA TakeoverStep ==
  ASSUME IInv, FlyInv, RevivesNone, [Next]_vars, Unended' PROVE Unended \/ FoundFree \/ Dropped
<1>. USE DEF IInv, At
<1>. SUFFICES ASSUME ~FoundFree, ~Dropped PROVE Unended OBVIOUS
<1>0. /\ People \cap Plugins = {} /\ None \notin Actors /\ People \subseteq Clients /\ Clients \subseteq Actors
      /\ active' # NoJob /\ holder' \in People /\ \A a \in Actors : ~Ends(a)'
  BY ConstantsAssumption DEF Unended, Clients, Actors
<1>1. active' = active /\ installed' \subseteq installed
  BY <1>0, ActiveSteps DEF Ends
<1>2. active \in JobIds /\ jobs[active].status = "running" /\ PluginOf(active)' \in {PluginOf(active), None}
  BY <1>0, <1>1 DEF StoreSound, StoreConsistent, RevivesNone, PluginOf
<1>3. ASSUME NEW a \in Actors, Ends(a) PROVE FALSE
  <2>1. ~Crash BY <1>3 DEF Dropped
  <2>2. CASE Handle(a) BY <1>0, <1>1, <1>3, <2>2, EndsOn
  <2>3. CASE req'[a] = req[a]
    <3>1. Ends(a)' BY <1>0, <1>1, <1>2, <1>3, <2>3 DEF Ends
    <3>. QED BY <1>0, <3>1
  <2>. QED BY <1>3, <2>1, <2>2, <2>3, WhoMoves DEF Ends, WatchGoHome
<1>4. holder \in People
  <2>. SUFFICES ASSUME holder \notin People PROVE FALSE OBVIOUS
  <2>1. PICK c \in People : ClaimWrite(c) BY <1>0, HolderSteps
  <2>2. c \in Actors /\ req[c].seen \notin {None, c} /\ req[c].force /\ req[c].pc = "claimWrite"
    BY <1>0, <2>1 DEF FoundFree, ClaimWrite, MayClaim
  <2>3. req[c].kind \in {"take", "release"} BY <2>2 DEF FlyInv, Fact
  <2>4. Go(c, "stopRead") BY <2>1, <2>2, <2>3 DEF ClaimWrite, TakesOver, Commands
  <2>5. req'[c].pc = "stopRead" BY <2>2, <2>4, GoIs
  <2>6. c # PluginOf(active)' BY <1>0, <1>2, <2>2, PluginOfType
  <2>7. Ends(c)' BY <2>5, <2>6 DEF Ends
  <2>. QED BY <1>0, <2>2, <2>7
<1>. QED BY <1>0, <1>1, <1>3, <1>4 DEF Unended

(* Takeovers are safe: a person comes to hold the drone of a job nobody is *)
(* about to end only by a claim that had read the drone as free or as the  *)
(* person's own, or by a restart of the fleet API between a takeover and   *)
(* the end of the job.  For any people, plugins, jobs, faults and          *)
(* restarts, with forced requests, expiring holds and removed plugins.     *)
THEOREM TakeoversEndJobs == Spec => TakeoverEndsJob
<1>1. IInv /\ StartsSound /\ FlyInv /\ [Next]_vars => [Unended' => Unended \/ FoundFree \/ Dropped]_vars
  BY NextFly, TakeoverStep
<1>2. IInv /\ StartsSound /\ FlyInv /\ [Next]_vars => FlyInv' BY NextFly
<1>. QED BY <1>1, <1>2, Inductive, InitStarts, InitFly, NextStarts, PTL DEF Spec, TakeoverEndsJob
-----------------------------------------------------------------------------
(* Stops.                                                                  *)
(* Who is to tell the plugin goes on to, and then does.                    *)
LEMMA TellsOn ==
  ASSUME IInv, FlyInv, NEW a \in Actors, Handle(a), NEW j \in JobIds, Tells(a, j), Alive(j),
         jobs[j].plugin \notin Onboard, ~Unheard(j)
  PROVE  Tells(a, j)' \/ ~Alive(j)'
<1>. USE DEF IInv, At
<1>0. Fact(a, req[a]) /\ req[a] \in Requests BY DEF FlyInv, RequestsSound
<1>1. CASE FreeCheck(a) \/ FreePop(a)
  <2>1. \E pc \in {"pop", "tell", "goHome"} : Go(a, pc)
    BY <1>1 DEF FreeCheck, FreePop, AfterFree, Tells
  <2>2. req'[a].pc \in {"pop", "tell", "goHome"} /\ req'[a].job = req[a].job /\ req'[a].result = req[a].result
    BY <2>1, GoIs
  <2>. QED BY <2>2 DEF Tells
<1>2. CASE Tell(a)
  <2>1. req[a].plug # None /\ svc[req[a].plug] # "hung" BY <1>2 DEF Unheard, Tells
  <2>2. jobs[j].status # "none" /\ req[a].plug = jobs[j].plugin
    BY <1>0, <2>1 DEF Tells, Fact, ToTell
  <2>3. jobs[j].plugin \in Plugins /\ svc[jobs[j].plugin] # "down" BY <2>2 DEF FlyInv, KnowsSound, Alive
  <2>4. svc[req[a].plug] = "up" BY <2>1, <2>2, <2>3 DEF OthersTyped
  <2>5. knows' = [knows EXCEPT ![j] = "stopped"] BY <1>2, <2>1, <2>2, <2>4 DEF Tell, Tells, Alive
  <2>. QED BY <2>5 DEF OthersTyped, Alive
<1>. QED BY <1>1, <1>2
  DEF Tells, Handle, LocalStep, HolderStep, StoreStep, PluginStep, ReadHolder, ClaimRefused, Safety,
      StartCheck, StartConflict, EndRead, StopRead, NoteTimesOut, CommandRefused, CommandResumes,
      RemoveCheck, ClaimWrite, ReleasePop, StartBegin, EndJob, PostArrives, PostAccepted, PostRefused,
      PostFails, NoteServed, StartClaim, CommandRuns, RemoveDo

(* Who ends the job it had looked at is to tell the plugin, if the plugin  *)
(* goes on with the job.                                                   *)
LEMMA EndTells ==
  ASSUME IInv, FlyInv, RevivesNone, NEW a \in Actors, EndJob(a), active # NoJob, active' = NoJob,
         NEW j \in JobIds, active = j, req[a].job = j, req[a].result # "orphaned", Alive(j)'
  PROVE  Tells(a, j)'
<1>. USE DEF IInv, At
<1>1. Fact(a, req[a]) /\ req[a] \in Requests /\ req[a].pc = "end" /\ req[a].result # "none"
  BY DEF FlyInv, RequestsSound, Sound, EndJob
<1>2. req[a].result \notin {"completed", "refused"}
  <2>. SUFFICES ASSUME req[a].result \in {"completed", "refused"} PROVE FALSE OBVIOUS
  <2>1. jobs[j].status # "none" /\ Dead(j) BY <1>1 DEF Fact, Untold
  <2>2. Dead(j)' BY <2>1, DeadStays
  <2>. QED BY <2>2 DEF Dead, Alive
<1>3. req[a].result \in {"stopped", "lost"} BY <1>1, <1>2 DEF Requests, Results
<1>4. Go(a, "free") BY <1>3 DEF EndJob
<1>5. req'[a].pc = "free" /\ req'[a].job = j /\ req'[a].result \in {"stopped", "lost"} BY <1>3, <1>4, GoIs
<1>. QED BY <1>5 DEF Tells

(* What a step does to the records.                                        *)
LEMMA JobSteps ==
  ASSUME IInv, [Next]_vars, NEW j \in JobIds
  PROVE  \/ jobs'[j] = jobs[j]
         \/ jobs'[j].status = "running"
         \/ \E a \in Actors : /\ EndJob(a) /\ active = j /\ active # NoJob /\ active' = NoJob
                             /\ jobs'[j].result = req[a].result
<1>. USE DEF IInv
<1>0. NoJob \notin JobIds BY DEF NoJob, JobIds
<1>1. ASSUME NEW a \in Actors, StartBegin(a) PROVE jobs'[j] = jobs[j] \/ jobs'[j].status = "running"
  BY <1>1 DEF StartBegin, Begin, StoreSound
<1>2. ASSUME NEW a \in Actors, EndJob(a), jobs'[j] # jobs[j]
      PROVE  active = j /\ active' = NoJob /\ jobs'[j].result = req[a].result
  <2>1. /\ active # NoJob /\ active' = NoJob
        /\ jobs' = [jobs EXCEPT ![active].status = "ended", ![active].result = req[a].result]
    BY <1>2 DEF EndJob, End, store
  <2>2. active = j BY <1>2, <2>1 DEF StoreSound
  <2>3. jobs'[j] = [jobs[j] EXCEPT !.status = "ended", !.result = req[a].result]
    BY <2>1, <2>2 DEF StoreSound
  <2>4. jobs'[j].result = req[a].result BY <2>3 DEF StoreSound
  <2>. QED BY <2>1, <2>2, <2>4
<1>3. CASE \E a \in Actors : StartBegin(a) BY <1>1, <1>3
<1>4. CASE \E a \in Actors : EndJob(a) BY <1>0, <1>2, <1>4
<1>5. CASE UNCHANGED store BY <1>5 DEF store
<1>. QED BY <1>3, <1>4, <1>5
  DEF Next, Watch, Asking, Service, Flight, HoldExpires, Crash, JobAges, vars, Actors,
      Handle, LocalStep, HolderStep, StoreStep, PluginStep

LEMMA ZombieStep ==
  ASSUME IInv, FlyInv, RevivesNone, [Next]_vars, NEW j \in JobIds, FliesOn(j)'
  PROVE  FliesOn(j) \/ StartsLate(j) \/ EndsAnother(j) \/ Forgets(j) \/ Unheard(j)
<1>. USE DEF IInv, At
<1>. SUFFICES ASSUME ~StartsLate(j), ~EndsAnother(j), ~Forgets(j), ~Unheard(j) PROVE FliesOn(j) OBVIOUS
<1>1. Alive(j) /\ Alive(j)' BY DEF RevivesNone, FliesOn
<1>2. jobs'[j] = jobs[j]
  <2>. SUFFICES ASSUME jobs'[j] # jobs[j] PROVE FALSE OBVIOUS
  <2>1. PICK a \in Actors : /\ EndJob(a) /\ active = j /\ active # NoJob /\ active' = NoJob
                            /\ jobs'[j].result = req[a].result
    BY JobSteps DEF FliesOn
  <2>2. req[a].job = j BY <2>1 DEF EndsAnother
  <2>3. Tells(a, j)' BY <1>1, <2>1, <2>2, EndTells DEF FliesOn
  <2>. QED BY <2>3 DEF FliesOn
<1>3. ASSUME NEW a \in Actors, Tells(a, j) PROVE FALSE
  <2>1. ~Crash BY <1>3 DEF Forgets
  <2>2. ~Tells(a, j)' BY DEF FliesOn
  <2>3. CASE req'[a] = req[a] BY <1>3, <2>2, <2>3 DEF Tells
  <2>4. CASE Handle(a)
    <3>1. jobs[j].plugin \notin Onboard BY <1>2 DEF FliesOn
    <3>. QED BY <1>1, <1>3, <2>2, <2>4, <3>1, TellsOn
  <2>5. CASE a = Watchdog /\ WatchGoHome
    <3>1. Go(a, "tell") BY <2>5 DEF WatchGoHome
    <3>2. req'[a].pc = "tell" /\ req'[a].job = req[a].job /\ req'[a].result = req[a].result BY <3>1, GoIs
    <3>. QED BY <1>3, <2>2, <3>2 DEF Tells
  <2>. QED BY <1>3, <2>1, <2>3, <2>4, <2>5, WhoMoves DEF Tells
<1>. QED BY <1>1, <1>2, <1>3 DEF FliesOn

(* stop_job: a plugin comes to fly on with a job the fleet API ended, and  *)
(* nobody is about to tell it, by four steps only: its POST /jobs arrives  *)
(* after the end, a handler ends it in place of the job it had looked at,  *)
(* a restart of the fleet API forgets to tell, or the plugin is removed or *)
(* hangs when it is told.  For every interleaving of lands, takeovers,     *)
(* ends, starts, the watchdog, faults and restarts.                        *)
THEOREM NobodyFliesOn == Spec => NoZombie
<1>1. IInv /\ StartsSound /\ FlyInv /\ [Next]_vars =>
        [\A j \in JobIds : FliesOn(j)' =>
           FliesOn(j) \/ StartsLate(j) \/ EndsAnother(j) \/ Forgets(j) \/ Unheard(j)]_vars
  BY NextFly, ZombieStep
<1>2. IInv /\ StartsSound /\ FlyInv /\ [Next]_vars => FlyInv' BY NextFly
<1>. QED BY <1>1, <1>2, Inductive, InitStarts, InitFly, NextStarts, PTL DEF Spec, NoZombie
=============================================================================
