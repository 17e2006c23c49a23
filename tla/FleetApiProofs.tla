---------------------------- MODULE FleetApiProofs ----------------------------
(***************************************************************************)
(* Proofs about FleetApi, for any people, plugins and number of jobs: the  *)
(* types, that the job store is consistent, and that it is a job ledger.   *)
(*                                                                         *)
(* What a step does to the store depends on what the handler wrote down in *)
(* its request before: the plugin it starts, the job it began, the reason  *)
(* it ends a job for.  So the inductive invariant says of every request    *)
(* that it has, at each point, what the steps from there on use.           *)
(***************************************************************************)
EXTENDS FleetApi, TLAPS

Sound(a, r) ==
  /\ r \in Requests
  /\ r.kind # "none" => a \in Clients
  /\ r.pc \in {"startCheck", "begin", "claimForce", "post", "answer"} => r.kind = "start" /\ r.plug \in Plugins
  /\ r.pc \in {"claimForce", "post", "answer"} => r.job \in JobIds
  /\ r.pc = "end" => r.result # "none"
  /\ r.pc \in {"safety", "exec"} => r.kind \in Commands

RequestsSound == req \in [Actors -> Requests] /\ \A a \in Actors : Sound(a, req[a])

StoreSound ==
  /\ active \in JobIds \cup {NoJob}
  /\ jobs \in [JobIds -> [plugin : Plugins \cup {None},
                          status : {"none", "running", "ended"}, result : Results]]
  /\ StoreConsistent

OthersTyped ==
  /\ holder \in Operators
  /\ starting \in SUBSET JobIds
  /\ installed \in SUBSET Plugins
  /\ knows \in [JobIds -> {"no", "starting", "running", "stopped", "done"}]
  /\ svc \in [Plugins -> {"up", "down", "hung"}]

DroneTyped ==
  /\ armed \in BOOLEAN
  /\ goal \in [cmd : {"none", "goto", "patrol", "hold", "land"}, job : JobIds \cup {NoJob}]

TimersTyped ==
  /\ landedFor \in [JobIds -> 0 .. OrphanPasses]
  /\ lostFor \in [JobIds -> 0 .. LostPasses + 1]
  /\ old \in SUBSET JobIds
  /\ crashes \in 0 .. MaxCrashes

IInv == RequestsSound /\ StoreSound /\ OthersTyped /\ DroneTyped /\ TimersTyped

-----------------------------------------------------------------------------
(* Requests: an actor's request is replaced by a sound one.                *)
LEMMA Replaced ==
  ASSUME RequestsSound, NEW a \in Actors, NEW r, Sound(a, r), req' = [req EXCEPT ![a] = r]
  PROVE  RequestsSound'
<1>1. r \in Requests BY DEF Sound
<1>2. req' \in [Actors -> Requests] BY <1>1 DEF RequestsSound
<1>3. \A b \in Actors : req'[b] = IF b = a THEN r ELSE req[b] BY DEF RequestsSound
<1>4. \A b \in Actors : Sound(b, req'[b]) BY <1>3 DEF RequestsSound, Sound
<1>. QED BY <1>2, <1>4 DEF RequestsSound, Sound

LEMMA IdleSound == ASSUME NEW a PROVE Sound(a, Idle)
BY DEF Sound, Idle, Requests, Pcs, Operators, Results

LEMMA DoneSound == ASSUME RequestsSound, NEW a \in Actors, Done(a) PROVE RequestsSound'
BY IdleSound, Replaced DEF Done

LEMMA GoSound ==
  ASSUME RequestsSound, NEW a \in Actors, NEW pc \in Pcs, Go(a, pc),
         pc \in {"startCheck", "begin", "claimForce", "post", "answer"} =>
           req[a].kind = "start" /\ req[a].plug \in Plugins,
         pc \in {"claimForce", "post", "answer"} => req[a].job \in JobIds,
         pc = "end" => req[a].result # "none",
         pc \in {"safety", "exec"} => req[a].kind \in Commands
  PROVE  RequestsSound'
<1>. DEFINE r == [req[a] EXCEPT !.pc = pc, !.seen = None]
<1>1. req[a] \in Requests BY DEF RequestsSound
<1>2. r \in Requests /\ r.pc = pc /\ r.plug = req[a].plug /\ r.job = req[a].job
      /\ r.result = req[a].result /\ r.kind = req[a].kind
  BY <1>1 DEF Requests, Operators
<1>3. req' = [req EXCEPT ![a] = r] BY <1>1 DEF Go, Requests, RequestsSound
<1>. HIDE DEF r
<1>4. Sound(a, r) BY <1>2 DEF Sound, RequestsSound
<1>. QED BY <1>3, <1>4, Replaced

LEMMA PluginOfType == ASSUME StoreSound, OthersTyped, NEW j PROVE PluginOf(j) \in Plugins \cup {None}
BY DEF StoreSound, OthersTyped, PluginOf

-----------------------------------------------------------------------------
(* The handlers' steps, by what they do to the request.                    *)
LEMMA ReadHolderSound ==
  ASSUME RequestsSound, holder \in Operators, NEW a \in Actors, ReadHolder(a)
  PROVE  RequestsSound'
<1>1. PICK pc \in {"claimWrite", "relPop"} :
        req' = [req EXCEPT ![a].seen = holder, ![a].pc = pc]
  BY DEF ReadHolder
<1>. DEFINE r == [req[a] EXCEPT !.seen = holder, !.pc = pc]
<1>2. req[a] \in Requests BY DEF RequestsSound
<1>3. r \in Requests /\ r.pc = pc /\ r.kind = req[a].kind BY <1>2 DEF Requests, Pcs
<1>4. req' = [req EXCEPT ![a] = r] BY <1>1, <1>2 DEF RequestsSound, Requests
<1>. HIDE DEF r
<1>5. Sound(a, r) BY <1>3 DEF Sound, RequestsSound
<1>. QED BY <1>4, <1>5, Replaced

LEMMA SafetySound == ASSUME RequestsSound, NEW a \in Actors, Safety(a) PROVE RequestsSound'
<1>1. req[a].kind \in Commands BY DEF Safety, At, RequestsSound, Sound
<1>2. PICK pc \in {"claimRead", "exec"} : Go(a, pc) BY DEF Safety
<1>. QED BY <1>1, <1>2, GoSound DEF Pcs

LEMMA StartCheckSound == ASSUME RequestsSound, NEW a \in Actors, StartCheck(a) PROVE RequestsSound'
<1>1. req[a].kind = "start" /\ req[a].plug \in Plugins BY DEF StartCheck, At, RequestsSound, Sound
<1>2. CASE Go(a, "begin") BY <1>1, <1>2, GoSound DEF Pcs
<1>3. CASE Done(a) BY <1>3, DoneSound
<1>. QED BY <1>2, <1>3 DEF StartCheck

LEMMA StopReadSound ==
  ASSUME RequestsSound, StoreSound, OthersTyped, NEW a \in Actors, StopRead(a)
  PROVE  RequestsSound'
<1>1. CASE Done(a) BY <1>1, DoneSound
<1>2. CASE req' = [req EXCEPT ![a].job = active, ![a].plug = PluginOf(active),
                              ![a].result = "stopped", ![a].pc = "end"]
  <2>. DEFINE p == PluginOf(active)
              r == [req[a] EXCEPT !.job = active, !.plug = p, !.result = "stopped", !.pc = "end"]
  <2>1. req[a] \in Requests BY DEF RequestsSound
  <2>2. p \in Plugins \cup {None} BY PluginOfType
  <2>3. req' = [req EXCEPT ![a] = r] BY <1>2, <2>1 DEF RequestsSound, Requests
  <2>. HIDE DEF p
  <2>4. r \in Requests /\ r.pc = "end" /\ r.result = "stopped" /\ r.kind = req[a].kind
    BY <2>1, <2>2 DEF Requests, Pcs, Results, StoreSound
  <2>. HIDE DEF r
  <2>5. Sound(a, r) BY <2>4 DEF Sound, RequestsSound
  <2>. QED BY <2>3, <2>5, Replaced
<1>. QED BY <1>1, <1>2 DEF StopRead

LEMMA EndReadSound ==
  ASSUME RequestsSound, StoreSound, OthersTyped, NEW a \in Actors, EndRead(a)
  PROVE  RequestsSound'
<1>1. CASE Done(a) BY <1>1, DoneSound
<1>2. CASE Go(a, "stopRead") BY <1>2, GoSound DEF Pcs
<1>3. CASE /\ a = PluginOf(active)
           /\ req' = [req EXCEPT ![a].plug = a, ![a].result = "completed", ![a].pc = "end"]
  <2>. DEFINE r == [req[a] EXCEPT !.plug = a, !.result = "completed", !.pc = "end"]
  <2>1. req[a] \in Requests BY DEF RequestsSound
  <2>2. a \in Plugins \cup {None} BY <1>3, PluginOfType
  <2>3. req' = [req EXCEPT ![a] = r] BY <1>3, <2>1 DEF RequestsSound, Requests
  <2>4. r \in Requests /\ r.pc = "end" /\ r.result = "completed" /\ r.kind = req[a].kind
    BY <2>1, <2>2 DEF Requests, Pcs, Results
  <2>. HIDE DEF r
  <2>5. Sound(a, r) BY <2>4 DEF Sound, RequestsSound
  <2>. QED BY <2>3, <2>5, Replaced
<1>. QED BY <1>1, <1>2, <1>3 DEF EndRead

LEMMA AfterFreeSound == ASSUME RequestsSound, NEW a \in Actors, AfterFree(a) PROVE RequestsSound'
<1>1. CASE Done(a) BY <1>1, DoneSound
<1>2. CASE Go(a, "tell") BY <1>2, GoSound DEF Pcs
<1>3. CASE Go(a, "goHome") BY <1>3, GoSound DEF Pcs
<1>. QED BY <1>1, <1>2, <1>3 DEF AfterFree

LEMMA FreeCheckSound == ASSUME RequestsSound, NEW a \in Actors, FreeCheck(a) PROVE RequestsSound'
<1>1. CASE Go(a, "pop") BY <1>1, GoSound DEF Pcs
<1>2. CASE AfterFree(a) BY <1>2, AfterFreeSound
<1>. QED BY <1>1, <1>2 DEF FreeCheck

LEMMA LocalKeepsIInv == ASSUME IInv, NEW a \in Actors, LocalStep(a), UNCHANGED <<svc, timers, crashes>>
                        PROVE  IInv'
<1>. USE DEF IInv
<1>1. RequestsSound'
  <2>1. CASE ReadHolder(a) BY <2>1, ReadHolderSound DEF OthersTyped
  <2>2. CASE ClaimRefused(a) BY <2>2, DoneSound DEF ClaimRefused
  <2>3. CASE Safety(a) BY <2>3, SafetySound
  <2>4. CASE StartCheck(a) BY <2>4, StartCheckSound
  <2>5. CASE StartConflict(a) BY <2>5, DoneSound DEF StartConflict
  <2>6. CASE EndRead(a) BY <2>6, EndReadSound
  <2>7. CASE StopRead(a) BY <2>7, StopReadSound
  <2>8. CASE FreeCheck(a) BY <2>8, FreeCheckSound
  <2>9. CASE NoteTimesOut(a) BY <2>9, DoneSound DEF NoteTimesOut
  <2>10. CASE CommandRefused(a) BY <2>10, DoneSound DEF CommandRefused
  <2>11. CASE CommandResumes(a) BY <2>11, GoSound DEF CommandResumes, Pcs
  <2>12. CASE RemoveCheck(a)
    <3>1. CASE Done(a) BY <3>1, DoneSound
    <3>2. CASE Go(a, "removeDo") BY <3>2, GoSound DEF Pcs
    <3>. QED BY <2>12, <3>1, <3>2 DEF RemoveCheck
  <2>. QED BY <2>1, <2>2, <2>3, <2>4, <2>5, <2>6, <2>7, <2>8, <2>9, <2>10, <2>11, <2>12
           DEF LocalStep
<1>2. UNCHANGED <<holder, store, starting, installed, knows, drone, svc, timers, crashes>>
  BY DEF LocalStep
<1>. QED BY <1>1, <1>2 DEF StoreSound, StoreConsistent, OthersTyped, DroneTyped, TimersTyped,
                           store, drone, timers
(* Whoever claims is a client (the watchdog's requests have no kind), and  *)
(* the plugin of a start is a plugin.                                      *)
LEMMA HolderKeepsIInv == ASSUME IInv, NEW a \in Actors, HolderStep(a), UNCHANGED <<svc, timers, crashes>>
                         PROVE  IInv'
<1>. USE DEF IInv
<1>1. RequestsSound' /\ holder' \in Operators
  <2>1. CASE ClaimWrite(a)
    <3>1. a \in Clients BY <2>1 DEF ClaimWrite, TakesOver, Commands, RequestsSound, Sound
    <3>2. CASE Done(a) BY <3>1, <3>2, <2>1, DoneSound DEF ClaimWrite, Operators
    <3>3. CASE Go(a, "stopRead") BY <3>1, <3>3, <2>1, GoSound DEF ClaimWrite, Operators, Pcs
    <3>4. CASE req[a].kind \in Commands /\ Go(a, "exec")
      BY <3>1, <3>4, <2>1, GoSound DEF ClaimWrite, Operators, Pcs
    <3>. QED BY <2>1, <3>2, <3>3, <3>4 DEF ClaimWrite
  <2>2. CASE ReleasePop(a) BY <2>2, DoneSound DEF ReleasePop, OthersTyped, Operators
  <2>3. CASE FreePop(a) BY <2>3, AfterFreeSound DEF FreePop, Operators
  <2>. QED BY <2>1, <2>2, <2>3 DEF HolderStep
<1>2. UNCHANGED <<store, starting, installed, knows, drone, svc, timers, crashes>> BY DEF HolderStep
<1>. QED BY <1>1, <1>2 DEF StoreSound, StoreConsistent, OthersTyped, DroneTyped, TimersTyped,
                           store, drone, timers

-----------------------------------------------------------------------------
(* The job store: a begin opens an entry of the ledger, an end closes one. *)
LEMMA BeginSound ==
  ASSUME StoreSound, NEW j \in JobIds, NEW p \in Plugins, Begin(j, p)
  PROVE  StoreSound' /\ Ledger!Open(j, p)
<1>. DEFINE new == [plugin |-> p, status |-> "running", result |-> "none"]
<1>1. jobs' = [jobs EXCEPT ![j] = new] /\ active' = j /\ active = NoJob /\ jobs[j].status = "none"
  BY DEF Begin
<1>2. \A i \in JobIds : jobs[i].status # "running"
  BY <1>1 DEF StoreSound, StoreConsistent, JobIds, NoJob
<1>3. Ledger!Open(j, p) BY <1>1, <1>2 DEF Ledger!Open, Ledger!Running
<1>4. jobs' \in [JobIds -> [plugin : Plugins \cup {None},
                           status : {"none", "running", "ended"}, result : Results]]
  BY <1>1 DEF StoreSound, Results
<1>5. \A i \in JobIds : jobs'[i] = IF i = j THEN new ELSE jobs[i] BY <1>1 DEF StoreSound
<1>6. StoreConsistent' BY <1>1, <1>2, <1>5 DEF StoreConsistent
<1>. QED BY <1>1, <1>3, <1>4, <1>6 DEF StoreSound

LEMMA EndSound ==
  ASSUME StoreSound, NEW result \in Results \ {"none"}, NEW id, End(result, id)
  PROVE  StoreSound' /\ (jobs' = jobs \/ \E j \in JobIds : Ledger!Close(j, result))
<1>1. CASE UNCHANGED store BY <1>1 DEF store, StoreSound, StoreConsistent
<1>2. CASE /\ active # NoJob /\ active' = NoJob
           /\ jobs' = [jobs EXCEPT ![active].status = "ended", ![active].result = result]
  <2>1. active \in JobIds /\ jobs[active].status = "running"
    BY <1>2 DEF StoreSound, StoreConsistent
  <2>2. Ledger!Close(active, result) BY <1>2, <2>1 DEF Ledger!Close, Ledger!Running
  <2>. DEFINE r == [jobs[active] EXCEPT !.status = "ended", !.result = result]
  <2>3. r \in [plugin : Plugins \cup {None}, status : {"none", "running", "ended"}, result : Results]
        /\ r.status = "ended"
    BY <2>1 DEF StoreSound
  <2>4. jobs' = [jobs EXCEPT ![active] = r] BY <1>2, <2>1 DEF StoreSound
  <2>. HIDE DEF r
  <2>5. jobs' \in [JobIds -> [plugin : Plugins \cup {None},
                             status : {"none", "running", "ended"}, result : Results]]
    BY <2>1, <2>3, <2>4 DEF StoreSound
  <2>6. \A i \in JobIds : jobs'[i] = IF i = active THEN r ELSE jobs[i] BY <2>4 DEF StoreSound
  <2>7. NoJob \notin JobIds BY DEF NoJob, JobIds
  <2>8. StoreConsistent' BY <1>2, <2>3, <2>6, <2>7 DEF StoreConsistent, StoreSound
  <2>. QED BY <1>2, <2>1, <2>2, <2>5, <2>8 DEF StoreSound
<1>. QED BY <1>1, <1>2 DEF End

LEMMA StoreKeepsIInv ==
  ASSUME IInv, NEW a \in Actors, StoreStep(a), UNCHANGED <<svc, timers, crashes>>
  PROVE  IInv' /\ [Ledger!Next]_jobs
<1>. USE DEF IInv
<1>1. UNCHANGED <<holder, starting, installed, knows, drone, svc, timers, crashes>> BY DEF StoreStep
<1>2. OthersTyped' /\ DroneTyped' /\ TimersTyped'
  BY <1>1 DEF OthersTyped, DroneTyped, TimersTyped, drone, timers
<1>3. CASE StartBegin(a)
  <2>1. PICK j \in JobIds : /\ Begin(j, req[a].plug)
                            /\ req' = [req EXCEPT ![a].job = j, ![a].pc = "claimForce"]
    BY <1>3 DEF StartBegin
  <2>2. req[a] \in Requests /\ req[a].kind = "start" /\ req[a].plug \in Plugins
    BY <1>3 DEF StartBegin, At, RequestsSound, Sound
  <2>3. StoreSound' /\ Ledger!Open(j, req[a].plug) BY <2>1, <2>2, BeginSound
  <2>. DEFINE r == [req[a] EXCEPT !.job = j, !.pc = "claimForce"]
  <2>4. r \in Requests /\ r.pc = "claimForce" /\ r.job = j /\ r.plug = req[a].plug /\ r.kind = req[a].kind
    BY <2>2 DEF Requests, Pcs
  <2>5. req' = [req EXCEPT ![a] = r] BY <2>1, <2>2 DEF RequestsSound, Requests
  <2>. HIDE DEF r
  <2>6. Sound(a, r) BY <2>2, <2>4 DEF Sound, RequestsSound
  <2>7. RequestsSound' BY <2>5, <2>6, Replaced
  <2>. QED BY <1>2, <2>2, <2>3, <2>7 DEF Ledger!Next
<1>4. CASE EndJob(a)
  <2>1. req[a].result \in Results \ {"none"}
    BY <1>4 DEF EndJob, At, RequestsSound, Sound, Requests
  <2>2. PICK id : End(req[a].result, id) BY <1>4 DEF EndJob
  <2>3. StoreSound' /\ (jobs' = jobs \/ \E j \in JobIds : Ledger!Close(j, req[a].result))
    BY <2>1, <2>2, EndSound
  <2>4. RequestsSound'
    <3>1. CASE Done(a) BY <3>1, DoneSound
    <3>2. CASE \E pc \in {"pop", "free"} : Go(a, pc) BY <3>2, GoSound DEF Pcs
    <3>. QED BY <1>4, <3>1, <3>2 DEF EndJob
  <2>. QED BY <1>2, <2>1, <2>3, <2>4 DEF Ledger!Next
<1>. QED BY <1>3, <1>4 DEF StoreStep
-----------------------------------------------------------------------------
(* Calls to a plugin, the claim of a start, commands, removal.             *)
LEMMA PluginSound ==
  ASSUME RequestsSound, OthersTyped, NEW a \in Actors,
         PostArrives(a) \/ PostAccepted(a) \/ PostRefused(a) \/ PostFails(a) \/ Tell(a) \/ NoteServed(a)
  PROVE  /\ RequestsSound'
         /\ starting' \in SUBSET JobIds
         /\ knows' \in [JobIds -> {"no", "starting", "running", "stopped", "done"}]
<1>. USE DEF OthersTyped
<1>1. CASE PostArrives(a)
  <2>1. req[a].kind = "start" /\ req[a].plug \in Plugins /\ req[a].job \in JobIds
    BY <1>1 DEF PostArrives, At, RequestsSound, Sound
  <2>. QED BY <1>1, <2>1, GoSound DEF PostArrives, Pcs
<1>2. CASE PostAccepted(a) BY <1>2, DoneSound DEF PostAccepted
<1>3. CASE PostRefused(a)
  <2>. DEFINE r == [req[a] EXCEPT !.result = "refused", !.pc = "end"]
  <2>1. req[a] \in Requests BY DEF RequestsSound
  <2>2. req' = [req EXCEPT ![a] = r] BY <1>3, <2>1 DEF PostRefused, RequestsSound, Requests
  <2>3. r \in Requests /\ r.pc = "end" /\ r.result = "refused" /\ r.kind = req[a].kind
    BY <2>1 DEF Requests, Pcs, Results
  <2>. HIDE DEF r
  <2>4. Sound(a, r) BY <2>3 DEF Sound, RequestsSound
  <2>. QED BY <1>3, <2>2, <2>4, Replaced DEF PostRefused
<1>4. CASE PostFails(a) BY <1>4, DoneSound DEF PostFails
<1>5. CASE Tell(a)
  <2>1. CASE Go(a, "noting") BY <2>1, <1>5, GoSound DEF Tell, Pcs
  <2>2. CASE Done(a) BY <2>2, <1>5, DoneSound DEF Tell
  <2>. QED BY <1>5, <2>1, <2>2 DEF Tell
<1>6. CASE NoteServed(a) BY <1>6, DoneSound DEF NoteServed
<1>. QED BY <1>1, <1>2, <1>3, <1>4, <1>5, <1>6

LEMMA CommandSound ==
  ASSUME RequestsSound, DroneTyped, NEW a \in Actors, CommandRuns(a)
  PROVE  RequestsSound' /\ DroneTyped'
<1>1. req[a] \in Requests /\ req[a].kind \in Commands
  BY DEF CommandRuns, At, RequestsSound, Sound
<1>2. RequestsSound'
  <2>1. CASE Go(a, "executed") BY <2>1, GoSound DEF Pcs
  <2>2. CASE Done(a) BY <2>2, DoneSound
  <2>. QED BY <2>1, <2>2 DEF CommandRuns
<1>3. armed' \in BOOLEAN BY DEF CommandRuns, DroneTyped
<1>4. req[a].job \in JobIds \cup {NoJob} BY <1>1 DEF Requests
<1>5. goal' \in [cmd : {"none", "goto", "patrol", "hold", "land"}, job : JobIds \cup {NoJob}]
  BY <1>1, <1>4 DEF CommandRuns, DroneTyped, Commands
<1>. QED BY <1>2, <1>3, <1>5 DEF DroneTyped

(* A handler's step, which at most does to the store what a ledger allows. *)
LEMMA HandleKeepsIInv ==
  ASSUME IInv, NEW a \in Actors, Handle(a) PROVE IInv' /\ [Ledger!Next]_jobs
<1>. USE DEF IInv
<1>1. UNCHANGED <<svc, timers, crashes>> /\ TimersTyped'
  BY DEF Handle, TimersTyped, timers
<1>2. CASE LocalStep(a) BY <1>1, <1>2, LocalKeepsIInv DEF LocalStep, store
<1>3. CASE HolderStep(a) BY <1>1, <1>3, HolderKeepsIInv DEF HolderStep, store
<1>4. CASE StoreStep(a) BY <1>1, <1>4, StoreKeepsIInv
<1>5. CASE PluginStep(a)
  <2>1. UNCHANGED <<holder, store, installed, drone>> BY <1>5 DEF PluginStep
  <2>2. RequestsSound' /\ OthersTyped' BY <1>1, <1>5, <2>1, PluginSound DEF PluginStep, OthersTyped
  <2>. QED BY <1>1, <2>1, <2>2 DEF StoreSound, StoreConsistent, DroneTyped, store, drone
<1>6. CASE StartClaim(a) /\ UNCHANGED <<store, installed, knows, drone>>
  <2>1. req[a].kind = "start" /\ req[a].plug \in Plugins /\ req[a].job \in JobIds
    BY <1>6 DEF StartClaim, At, RequestsSound, Sound
  <2>2. RequestsSound' BY <1>6, <2>1, GoSound DEF StartClaim, Pcs
  <2>3. OthersTyped' BY <1>1, <1>6, <2>1 DEF StartClaim, OthersTyped, Operators, Clients
  <2>. QED BY <1>1, <1>6, <2>2, <2>3 DEF StoreSound, StoreConsistent, DroneTyped, store, drone
<1>7. CASE CommandRuns(a) /\ UNCHANGED <<holder, store, starting, installed, knows>>
  <2>1. RequestsSound' /\ DroneTyped' BY <1>7, CommandSound
  <2>. QED BY <1>1, <1>7, <2>1 DEF StoreSound, StoreConsistent, OthersTyped, store
<1>8. CASE RemoveDo(a) /\ UNCHANGED <<holder, store, starting, knows, drone>>
  <2>1. RequestsSound' BY <1>8, DoneSound DEF RemoveDo
  <2>2. OthersTyped' BY <1>1, <1>8 DEF RemoveDo, OthersTyped
  <2>. QED BY <1>1, <1>8, <2>1, <2>2 DEF StoreSound, StoreConsistent, DroneTyped, store, drone
<1>. QED BY <1>2, <1>3, <1>4, <1>5, <1>6, <1>7, <1>8 DEF Handle
-----------------------------------------------------------------------------
(* The watchdog.                                                           *)
LEMMA CountsTyped ==
  ASSUME TimersTyped, NEW j \in JobIds
  PROVE  NextLanded(j) \in 0 .. OrphanPasses /\ NextLost(j) \in 0 .. LostPasses + 1
<1>1. OrphanPasses \in Nat \ {0} /\ LostPasses \in Nat \ {0} BY ConstantsAssumption
<1>2. landedFor[j] \in 0 .. OrphanPasses /\ lostFor[j] \in 0 .. LostPasses + 1 BY DEF TimersTyped
<1>3. NextLanded(j) \in 0 .. OrphanPasses BY <1>1, <1>2 DEF NextLanded, Orphan
<1>4. NextLost(j) \in 0 .. LostPasses + 1 BY <1>1, <1>2 DEF NextLost
<1>. QED BY <1>3, <1>4

LEMMA WatchLookSound ==
  ASSUME IInv, WatchLook, UNCHANGED <<old, crashes>> PROVE RequestsSound' /\ TimersTyped'
<1>. USE DEF IInv
<1>1. TimersTyped' BY CountsTyped DEF WatchLook, TimersTyped
<1>2. Watchdog \in Actors BY DEF Actors
<1>3. CASE UNCHANGED req BY <1>1, <1>3 DEF RequestsSound, Sound
<1>4. CASE req' # req
  <2>. DEFINE orphan == Orphan(active)
              r == [Idle EXCEPT !.job = active, !.plug = PluginOf(active),
                                !.result = IF orphan THEN "orphaned" ELSE "none",
                                !.pc = IF orphan THEN "end" ELSE "ask"]
  <2>1. req' = [req EXCEPT ![Watchdog] = r] BY <1>4 DEF WatchLook
  <2>2. PluginOf(active) \in Plugins \cup {None} BY PluginOfType
  <2>. HIDE DEF orphan
  <2>3. /\ r \in Requests /\ r.kind = "none" /\ r.pc \in {"end", "ask"}
        /\ r.pc = "end" => r.result = "orphaned"
    BY <2>2 DEF Idle, Requests, Pcs, Results, Operators, StoreSound
  <2>. HIDE DEF r
  <2>4. Sound(Watchdog, r) BY <2>3 DEF Sound
  <2>. QED BY <1>1, <1>2, <2>1, <2>4, Replaced
<1>. QED BY <1>1, <1>3, <1>4

LEMMA WatchAskSound ==
  ASSUME IInv, WatchAsk, UNCHANGED <<old, crashes>> PROVE RequestsSound' /\ TimersTyped'
<1>. USE DEF IInv
<1>1. Watchdog \in Actors BY DEF Actors
<1>2. RequestsSound'
  <2>1. CASE Go(Watchdog, "lostCheck") BY <1>1, <2>1, GoSound DEF Pcs
  <2>2. CASE Done(Watchdog) BY <1>1, <2>2, DoneSound
  <2>. QED BY <2>1, <2>2 DEF WatchAsk
<1>3. LostPasses \in Nat \ {0} BY ConstantsAssumption
<1>4. PICK v : /\ lostFor' = [lostFor EXCEPT ![req[Watchdog].job] = v] \/ lostFor' = lostFor
               /\ v \in {0, 1, lostFor[req[Watchdog].job]}
  BY DEF WatchAsk
<1>5. lostFor' \in [JobIds -> 0 .. LostPasses + 1] BY <1>3, <1>4 DEF TimersTyped
<1>. QED BY <1>2, <1>5 DEF WatchAsk, TimersTyped

LEMMA WatchLostCheckSound ==
  ASSUME IInv, WatchLostCheck, UNCHANGED <<old, crashes>> PROVE RequestsSound' /\ TimersTyped'
<1>. USE DEF IInv
<1>1. Watchdog \in Actors BY DEF Actors
<1>2. CASE Done(Watchdog) /\ UNCHANGED <<lostFor, landedFor>>
  BY <1>1, <1>2, DoneSound DEF TimersTyped
<1>3. CASE /\ lostFor' = [lostFor EXCEPT ![req[Watchdog].job] = 0]
           /\ req' = [req EXCEPT ![Watchdog].armed = armed, ![Watchdog].result = "lost",
                                 ![Watchdog].pc = "end"]
           /\ UNCHANGED landedFor
  <2>1. TimersTyped'
    <3>1. 0 \in 0 .. LostPasses + 1 BY ConstantsAssumption
    <3>. QED BY <1>3, <3>1 DEF TimersTyped
  <2>. DEFINE r == [req[Watchdog] EXCEPT !.armed = armed, !.result = "lost", !.pc = "end"]
  <2>2. req[Watchdog] \in Requests BY <1>1 DEF RequestsSound
  <2>3. req' = [req EXCEPT ![Watchdog] = r] BY <1>1, <1>3, <2>2 DEF RequestsSound, Requests
  <2>4. r \in Requests /\ r.pc = "end" /\ r.result = "lost" /\ r.kind = req[Watchdog].kind
    BY <2>2 DEF Requests, Pcs, Results, DroneTyped
  <2>. HIDE DEF r
  <2>5. Sound(Watchdog, r) BY <1>1, <2>4 DEF Sound, RequestsSound
  <2>. QED BY <1>1, <2>1, <2>3, <2>5, Replaced
<1>. QED BY <1>2, <1>3 DEF WatchLostCheck

LEMMA WatchKeepsIInv == ASSUME IInv, Watch PROVE IInv' /\ [Ledger!Next]_jobs
<1>. USE DEF IInv
<1>1. Watchdog \in Actors BY DEF Actors
<1>2. CASE Handle(Watchdog) BY <1>1, <1>2, HandleKeepsIInv
<1>3. CASE /\ WatchLook \/ WatchAsk \/ WatchLostCheck
           /\ UNCHANGED <<holder, store, starting, installed, knows, svc, drone, old, crashes>>
  <2>1. RequestsSound' /\ TimersTyped'
    BY <1>3, WatchLookSound, WatchAskSound, WatchLostCheckSound
  <2>. QED BY <1>3, <2>1 DEF StoreSound, StoreConsistent, OthersTyped, DroneTyped, store, drone
<1>4. CASE /\ WatchGoHome
           /\ UNCHANGED <<holder, store, starting, installed, knows, svc, armed, timers, crashes>>
  <2>1. RequestsSound' BY <1>1, <1>4, GoSound DEF WatchGoHome, Pcs
  <2>2. DroneTyped' BY <1>4 DEF WatchGoHome, DroneTyped, NoGoal
  <2>. QED BY <1>4, <2>1, <2>2 DEF StoreSound, StoreConsistent, OthersTyped, TimersTyped, store, timers
<1>. QED BY <1>2, <1>3, <1>4 DEF Watch
-----------------------------------------------------------------------------
(* Requests, the world, restarts.                                          *)
LEMMA AskSound ==
  ASSUME RequestsSound, NEW c \in Clients, NEW kind \in AllKinds, NEW force \in BOOLEAN,
         NEW job \in JobIds \cup {NoJob}, NEW plug \in Plugins \cup {None},
         kind = "start" => plug \in Plugins, Ask(c, kind, force, job, plug)
  PROVE  RequestsSound'
<1>. DEFINE pc == FirstStep[kind]
            r == [Idle EXCEPT !.pc = pc, !.kind = kind, !.force = force, !.job = job, !.plug = plug]
<1>1. /\ pc \in {"claimRead", "relRead", "startCheck", "endRead", "safety", "removeCheck"}
      /\ pc = "startCheck" => kind = "start"
      /\ pc = "safety" => kind \in Commands
  BY DEF FirstStep, AllKinds, Commands
<1>2. req' = [req EXCEPT ![c] = r] BY DEF Ask
<1>. HIDE DEF pc
<1>3. r \in Requests /\ r.pc = pc /\ r.kind = kind /\ r.plug = plug
  BY <1>1 DEF Idle, Requests, Pcs, Operators, Results
<1>. HIDE DEF r
<1>4. Sound(c, r) BY <1>1, <1>3 DEF Sound
<1>. QED BY <1>2, <1>4, Replaced DEF Actors

LEMMA AskingKeepsIInv == ASSUME IInv, Asking PROVE IInv' /\ UNCHANGED jobs
<1>. USE DEF IInv
<1>1. Kinds \subseteq AllKinds /\ Forces \subseteq BOOLEAN BY ConstantsAssumption
<1>2. UNCHANGED <<holder, store, starting, installed, svc, drone, timers, crashes>> BY DEF Asking
<1>3. RequestsSound' /\ OthersTyped'
  <2>1. ASSUME NEW c \in People, PersonAsks(c) PROVE RequestsSound'
    <3>1. PICK kind \in AllKinds, force \in BOOLEAN, plug \in Plugins \cup {None} :
            Ask(c, kind, force, NoJob, plug) /\ (kind = "start" => plug \in Plugins)
      BY <2>1, <1>1 DEF PersonAsks, AllKinds, Commands, OthersTyped
    <3>. QED BY <3>1, AskSound DEF Clients
  <2>2. ASSUME NEW p \in Plugins, PluginCommands(p) PROVE RequestsSound'
    <3>1. PICK j \in JobIds, kind \in {"move", "land"} : Ask(p, kind, FALSE, j, None)
      BY <2>2 DEF PluginCommands
    <3>. QED BY <3>1, AskSound DEF Clients, AllKinds
  <2>3. ASSUME NEW p \in Plugins, PluginFinishes(p)
        PROVE  RequestsSound' /\ knows' \in [JobIds -> {"no", "starting", "running", "stopped", "done"}]
    <3>1. PICK j \in JobIds :
            Ask(p, "end", FALSE, j, None) /\ knows' = [knows EXCEPT ![j] = "done"]
      BY <2>3 DEF PluginFinishes
    <3>2. RequestsSound' BY <3>1, AskSound DEF Clients, AllKinds
    <3>. QED BY <3>1, <3>2 DEF OthersTyped
  <2>. QED BY <1>2, <2>1, <2>2, <2>3 DEF Asking, OthersTyped
<1>. QED BY <1>2, <1>3 DEF StoreSound, StoreConsistent, DroneTyped, TimersTyped, store, drone, timers

LEMMA WorldKeepsIInv ==
  ASSUME IInv,
         \/ Flight \/ HoldExpires
         \/ \E j \in JobIds : JobAges(j)
         \/ \E p \in Plugins : Service(p)
  PROVE  IInv' /\ UNCHANGED jobs
<1>. USE DEF IInv
<1>1. CASE Flight
  <2>1. DroneTyped'
    <3>1. CASE Lands BY <3>1 DEF Lands, DroneTyped, NoGoal
    <3>2. CASE PatrolEnds BY <3>2 DEF PatrolEnds, DroneTyped
    <3>. QED BY <1>1, <3>1, <3>2 DEF Flight
  <2>. QED BY <1>1, <2>1 DEF Flight, RequestsSound, Sound, StoreSound, StoreConsistent, OthersTyped,
                             TimersTyped, store, timers
<1>2. CASE HoldExpires
  <2>1. OthersTyped' BY <1>2 DEF HoldExpires, OthersTyped, Operators
  <2>. QED BY <1>2, <2>1 DEF HoldExpires, RequestsSound, Sound, StoreSound, StoreConsistent,
                             DroneTyped, TimersTyped, store, drone, timers
<1>3. CASE \E j \in JobIds : JobAges(j)
  <2>1. TimersTyped' BY <1>3 DEF JobAges, TimersTyped
  <2>2. UNCHANGED <<holder, store, starting, installed, req, knows, svc, drone>> BY <1>3 DEF JobAges
  <2>. QED BY <2>1, <2>2 DEF RequestsSound, Sound, StoreSound, StoreConsistent, OthersTyped,
                             DroneTyped, store, drone
<1>4. CASE \E p \in Plugins : Service(p)
  <2>1. OthersTyped'
    BY <1>4 DEF Service, PluginDown, PluginHangs, PluginUp, PluginStartsLate, OthersTyped
  <2>. QED BY <1>4, <2>1 DEF Service, RequestsSound, Sound, StoreSound, StoreConsistent, DroneTyped,
                             TimersTyped, store, drone, timers
<1>. QED BY <1>1, <1>2, <1>3, <1>4

LEMMA CrashKeepsIInv == ASSUME IInv, Crash PROVE IInv' /\ UNCHANGED jobs
<1>. USE DEF IInv
<1>1. MaxCrashes \in Nat /\ OrphanPasses \in Nat \ {0} /\ LostPasses \in Nat \ {0}
  BY ConstantsAssumption
<1>2. RequestsSound'
  <2>1. \A a \in Actors : req'[a] = Idle BY DEF Crash
  <2>2. \A a \in Actors : Sound(a, Idle) BY IdleSound
  <2>3. req' \in [Actors -> Requests] BY <2>2 DEF Crash, Sound
  <2>4. \A a \in Actors : Sound(a, req'[a]) BY <2>1, <2>2
  <2>. QED BY <2>3, <2>4 DEF RequestsSound, Sound
<1>3. TimersTyped' BY <1>1 DEF Crash, TimersTyped
<1>. QED BY <1>2, <1>3 DEF Crash, StoreSound, StoreConsistent, OthersTyped, DroneTyped, store, drone

-----------------------------------------------------------------------------
(* The invariant, and what follows from it.                                *)
LEMMA InitIInv == Init => IInv
<1>. SUFFICES ASSUME Init PROVE IInv OBVIOUS
<1>1. MaxCrashes \in Nat /\ OrphanPasses \in Nat \ {0} /\ LostPasses \in Nat \ {0}
  BY ConstantsAssumption
<1>2. RequestsSound
  <2>1. \A a \in Actors : Sound(a, Idle) BY IdleSound
  <2>. QED BY <2>1 DEF Init, RequestsSound, Sound
<1>3. StoreSound
  <2>1. NoJob \notin JobIds BY DEF NoJob, JobIds
  <2>. QED BY <2>1 DEF Init, StoreSound, StoreConsistent, NewJob, Results
<1>4. OthersTyped BY DEF Init, OthersTyped, Operators
<1>5. DroneTyped BY DEF Init, DroneTyped, NoGoal
<1>6. TimersTyped BY <1>1 DEF Init, TimersTyped
<1>. QED BY <1>2, <1>3, <1>4, <1>5, <1>6 DEF IInv

LEMMA NextIInv == IInv /\ [Next]_vars => IInv' /\ [Ledger!Next]_jobs
<1>. SUFFICES ASSUME IInv, [Next]_vars PROVE IInv' /\ [Ledger!Next]_jobs OBVIOUS
<1>1. CASE \E c \in Clients : Handle(c) BY <1>1, HandleKeepsIInv DEF Actors
<1>2. CASE Watch BY <1>2, WatchKeepsIInv
<1>3. CASE Asking BY <1>3, AskingKeepsIInv
<1>4. CASE \/ Flight \/ HoldExpires
           \/ \E j \in JobIds : JobAges(j)
           \/ \E p \in Plugins : Service(p)
  BY <1>4, WorldKeepsIInv
<1>5. CASE Crash BY <1>5, CrashKeepsIInv
<1>6. CASE UNCHANGED vars
  BY <1>6 DEF IInv, RequestsSound, Sound, StoreSound, StoreConsistent, OthersTyped, DroneTyped,
              TimersTyped, vars, store, drone, timers
<1>. QED BY <1>1, <1>2, <1>3, <1>4, <1>5, <1>6 DEF Next

(* The inductive invariant holds in every state the fleet API reaches.     *)
THEOREM Inductive == Spec => []IInv
<1>1. IInv /\ [Next]_vars => IInv' BY NextIInv
<1>. QED BY <1>1, InitIInv, PTL DEF Spec

(* Every variable keeps its type: no handler, interleaved with any others, *)
(* leaves a request, a job or a timer the next step could not read.        *)
THEOREM TypeCorrect == Spec => []TypeOK
<1>1. IInv => TypeOK
  BY DEF IInv, RequestsSound, StoreSound, OthersTyped, DroneTyped, TimersTyped, TypeOK
<1>. QED BY <1>1, Inductive, PTL

(* JobStore: the job the store calls active is the one job whose record    *)
(* runs, whatever handlers begin and end jobs at the same time.            *)
THEOREM StoreIsConsistent == Spec => []StoreConsistent
<1>1. IInv => StoreConsistent BY DEF IInv, StoreSound
<1>. QED BY <1>1, Inductive, PTL

(* The fleet API implements a job ledger: start_job, end_job, stop_job and *)
(* the watchdog never run two jobs of a drone at once, never end one twice *)
(* and never change the outcome of one.                                    *)
THEOREM ImplementsLedger == Spec => LedgerSpec
<1>1. Init => Ledger!Init BY DEF Init, Ledger!Init, NewJob
<1>2. IInv /\ [Next]_vars => [Ledger!Next]_jobs BY NextIInv
<1>. QED BY <1>1, <1>2, Inductive, PTL DEF Spec, LedgerSpec, Ledger!Spec
-----------------------------------------------------------------------------
(* The set `starting`.  A handler takes its own job out of it, so that the *)
(* set stays that of the jobs being posted needs the handlers that start   *)
(* jobs to have different ones: each has just begun its job, and a job is  *)
(* begun once.                                                             *)
StartPcs == {"claimForce", "post", "answer"}
Starts(c) == req[c].pc \in StartPcs

StartsSound ==
  /\ StartingSound
  /\ \A c \in Clients : Starts(c) => jobs[req[c].job].status # "none"
  /\ \A c, d \in Clients : Starts(c) /\ Starts(d) /\ req[c].job = req[d].job => c = d

NoneForgotten == \A j \in JobIds : jobs[j].status # "none" => jobs'[j].status # "none"

(* No start is touched.                                                    *)
KeepsStarts == \A c \in Clients : req'[c] = req[c] \/ (~Starts(c) /\ ~Starts(c)')

LEMMA StartsKept ==
  ASSUME RequestsSound, StartsSound, KeepsStarts, UNCHANGED starting, NoneForgotten
  PROVE  StartsSound'
<1>1. \A c \in Clients : Starts(c)' => Starts(c) /\ req'[c] = req[c] /\ req[c].job \in JobIds
  BY DEF KeepsStarts, Starts, StartPcs, RequestsSound, Sound, Actors
<1>2. \A c \in Clients : Starts(c) => req'[c] = req[c] BY DEF KeepsStarts
<1>3. StartingSound' BY <1>1, <1>2 DEF StartsSound, StartingSound, Starts, StartPcs
<1>4. \A c \in Clients : Starts(c)' => jobs'[req'[c].job].status # "none"
  BY <1>1 DEF StartsSound, NoneForgotten
<1>5. \A c, d \in Clients : Starts(c)' /\ Starts(d)' /\ req'[c].job = req'[d].job => c = d
  BY <1>1 DEF StartsSound
<1>. QED BY <1>3, <1>4, <1>5 DEF StartsSound

(* Only one actor's request changes in a handler's step.                   *)
LEMMA OneChanges ==
  ASSUME RequestsSound, NEW a \in Actors,
         \/ Done(a) \/ (\E pc \in Pcs : Go(a, pc)) \/ (\E r : req' = [req EXCEPT ![a] = r])
  PROVE  \A c \in Clients \ {a} : req'[c] = req[c]
BY DEF Done, Go, RequestsSound, Actors

LEMMA LeavesAlone ==
  ASSUME RequestsSound, NEW a \in Actors, ~Starts(a),
         Done(a) \/ \E pc \in Pcs \ StartPcs : Go(a, pc)
  PROVE  KeepsStarts
<1>1. CASE Done(a) BY <1>1 DEF Done, Idle, KeepsStarts, Starts, StartPcs, RequestsSound, Actors
<1>2. CASE \E pc \in Pcs \ StartPcs : Go(a, pc)
  <2>1. PICK pc \in Pcs \ StartPcs : Go(a, pc) BY <1>2
  <2>2. req'[a].pc = pc
    <3>1. req[a] \in Requests BY DEF RequestsSound
    <3>2. req'[a] = [req[a] EXCEPT !.pc = pc, !.seen = None]
      BY <2>1, <3>1 DEF Go, RequestsSound, Requests
    <3>. QED BY <3>1, <3>2 DEF Requests
  <2>3. \A c \in Clients \ {a} : req'[c] = req[c] BY <2>1, OneChanges
  <2>. QED BY <2>2, <2>3 DEF KeepsStarts, Starts
<1>. QED BY <1>1, <1>2

LEMMA LocalKeepsStarts == ASSUME RequestsSound, NEW a \in Actors, LocalStep(a) PROVE KeepsStarts
<1>. USE DEF At, Pcs
<1>1. CASE \E pc \in {"claimWrite", "relPop"} :
             req' = [req EXCEPT ![a].seen = holder, ![a].pc = pc] /\ ~Starts(a)
  <2>1. PICK pc \in {"claimWrite", "relPop"} :
          req' = [req EXCEPT ![a].seen = holder, ![a].pc = pc] /\ ~Starts(a) BY <1>1
  <2>. QED BY <2>1 DEF KeepsStarts, Starts, StartPcs, RequestsSound, Requests, Actors
<1>2. CASE ~Starts(a) /\ (Done(a) \/ \E pc \in Pcs \ StartPcs : Go(a, pc)) BY <1>2, LeavesAlone
<1>3. CASE /\ ~Starts(a)
           /\ \/ req' = [req EXCEPT ![a].plug = a, ![a].result = "completed", ![a].pc = "end"]
              \/ req' = [req EXCEPT ![a].job = active, ![a].plug = PluginOf(active),
                                    ![a].result = "stopped", ![a].pc = "end"]
  BY <1>3 DEF KeepsStarts, Starts, StartPcs, RequestsSound, Requests, Actors
<1>4. ~Starts(a)
  BY DEF LocalStep, ReadHolder, ClaimRefused, Safety, StartCheck, StartConflict, EndRead, StopRead,
         FreeCheck, NoteTimesOut, CommandRefused, CommandResumes, RemoveCheck, Starts, StartPcs
<1>. QED
  <2>1. CASE ReadHolder(a) BY <2>1, <1>1, <1>4 DEF ReadHolder
  <2>2. CASE Safety(a) \/ StartCheck(a) \/ CommandResumes(a) \/ RemoveCheck(a)
    BY <2>2, <1>2, <1>4 DEF Safety, StartCheck, CommandResumes, RemoveCheck, StartPcs
  <2>3. CASE ClaimRefused(a) \/ StartConflict(a) \/ NoteTimesOut(a) \/ CommandRefused(a)
    BY <2>3, <1>2, <1>4 DEF ClaimRefused, StartConflict, NoteTimesOut, CommandRefused
  <2>4. CASE FreeCheck(a) BY <2>4, <1>2, <1>4 DEF FreeCheck, AfterFree, StartPcs
  <2>5. CASE EndRead(a) \/ StopRead(a) BY <2>5, <1>2, <1>3, <1>4 DEF EndRead, StopRead, StartPcs
  <2>. QED BY <2>1, <2>2, <2>3, <2>4, <2>5 DEF LocalStep
(* A handler that is no longer posting its job takes it out of the set.    *)
LEMMA StartLeft ==
  ASSUME RequestsSound, StartsSound, NEW a \in Clients, req[a].pc \in {"post", "answer"},
         ~Starts(a)', \A c \in Clients \ {a} : req'[c] = req[c],
         starting' = starting \ {req[a].job}, UNCHANGED jobs
  PROVE  StartsSound'
<1>1. \A c \in Clients : Starts(c)' => c # a /\ Starts(c) /\ req'[c] = req[c]
  BY DEF Starts
<1>2. \A c \in Clients : Starts(c) /\ c # a => req[c].job # req[a].job
  BY DEF StartsSound, Starts, StartPcs
<1>3. StartingSound'
  <2>1. \A j : j \in starting' <=> \E c \in Clients : req'[c].pc \in {"post", "answer"} /\ req'[c].job = j
    BY <1>1, <1>2 DEF StartsSound, StartingSound, Starts, StartPcs
  <2>. QED BY <2>1 DEF StartingSound
<1>4. \A c \in Clients : Starts(c)' => jobs'[req'[c].job].status # "none" BY <1>1 DEF StartsSound
<1>5. \A c, d \in Clients : Starts(c)' /\ Starts(d)' /\ req'[c].job = req'[d].job => c = d
  BY <1>1 DEF StartsSound
<1>. QED BY <1>3, <1>4, <1>5 DEF StartsSound

(* A handler that posts its job puts it into the set, or goes on posting.  *)
LEMMA StartGoesOn ==
  ASSUME RequestsSound, StartsSound, NEW a \in Clients, Starts(a),
         req'[a].pc \in {"post", "answer"}, req'[a].job = req[a].job,
         \A c \in Clients \ {a} : req'[c] = req[c],
         starting' = starting \cup {req[a].job}, UNCHANGED jobs
  PROVE  StartsSound'
<1>1. \A c \in Clients : (Starts(c)' <=> Starts(c)) /\ req'[c].job = req[c].job
  BY DEF Starts, StartPcs
<1>2. StartingSound'
  <2>1. \A j : j \in starting' <=> \E c \in Clients : req'[c].pc \in {"post", "answer"} /\ req'[c].job = j
    BY <1>1 DEF StartsSound, StartingSound, Starts, StartPcs
  <2>. QED BY <2>1 DEF StartingSound
<1>3. \A c \in Clients : Starts(c)' => jobs'[req'[c].job].status # "none" BY <1>1 DEF StartsSound
<1>4. \A c, d \in Clients : Starts(c)' /\ Starts(d)' /\ req'[c].job = req'[d].job => c = d
  BY <1>1 DEF StartsSound
<1>. QED BY <1>2, <1>3, <1>4 DEF StartsSound

(* A start begins: its job had no status, so no other start has it.        *)
LEMMA StartBegun ==
  ASSUME RequestsSound, StoreSound, StartsSound, NEW a \in Clients, StartBegin(a), UNCHANGED starting
  PROVE  StartsSound'
<1>1. PICK j \in JobIds : /\ Begin(j, req[a].plug)
                          /\ req' = [req EXCEPT ![a].job = j, ![a].pc = "claimForce"]
  BY DEF StartBegin
<1>2. req[a] \in Requests /\ req[a].pc = "begin" BY DEF StartBegin, At, RequestsSound, Actors
<1>3. req'[a].job = j /\ req'[a].pc = "claimForce"
  <2>1. req'[a] = [req[a] EXCEPT !.job = j, !.pc = "claimForce"]
    BY <1>1, <1>2 DEF RequestsSound, Requests, Actors
  <2>. QED BY <2>1, <1>2 DEF Requests
<1>4. \A c \in Clients \ {a} : req'[c] = req[c] BY <1>1 DEF RequestsSound, Actors
<1>5. jobs[j].status = "none" /\ jobs'[j].status = "running"
      /\ \A i \in JobIds \ {j} : jobs'[i] = jobs[i]
  BY <1>1 DEF Begin, StoreSound
<1>6. \A c \in Clients : Starts(c) => req[c].job \in JobIds \ {j}
  BY <1>5 DEF StartsSound, Starts, StartPcs, RequestsSound, Sound, Actors
<1>7. StartingSound' BY <1>2, <1>3, <1>4 DEF StartsSound, StartingSound
<1>8. \A c \in Clients : Starts(c)' => jobs'[req'[c].job].status # "none"
  BY <1>3, <1>4, <1>5, <1>6 DEF StartsSound, Starts
<1>9. \A c, d \in Clients : Starts(c)' /\ Starts(d)' /\ req'[c].job = req'[d].job => c = d
  BY <1>3, <1>4, <1>6 DEF StartsSound, Starts
<1>. QED BY <1>7, <1>8, <1>9 DEF StartsSound
(* A ledger's step, or one that leaves the jobs, forgets no job.           *)
LEMMA LedgerForgetsNone == ASSUME StoreSound, [Ledger!Next]_jobs PROVE NoneForgotten
<1>1. CASE UNCHANGED jobs BY <1>1 DEF NoneForgotten
<1>2. CASE \E j \in JobIds, p \in Plugins : Ledger!Open(j, p)
  BY <1>2 DEF Ledger!Open, NoneForgotten, StoreSound
<1>3. CASE \E j \in JobIds, outcome \in Results \ {"none"} : Ledger!Close(j, outcome)
  <2>1. PICK j \in JobIds, outcome \in Results \ {"none"} : Ledger!Close(j, outcome) BY <1>3
  <2>2. jobs' = [jobs EXCEPT ![j].status = "ended", ![j].result = outcome] BY <2>1 DEF Ledger!Close
  <2>. QED BY <2>2 DEF NoneForgotten, StoreSound
<1>. QED BY <1>1, <1>2, <1>3 DEF Ledger!Next

LEMMA EndKeepsStarts == ASSUME RequestsSound, NEW a \in Actors, EndJob(a) PROVE KeepsStarts
<1>1. ~Starts(a) BY DEF EndJob, At, Starts, StartPcs
<1>2. Done(a) \/ \E pc \in {"pop", "free"} : Go(a, pc) BY DEF EndJob
<1>. QED BY <1>1, <1>2, LeavesAlone DEF Pcs, StartPcs

LEMMA HolderKeepsStarts == ASSUME RequestsSound, NEW a \in Actors, HolderStep(a) PROVE KeepsStarts
<1>1. ~Starts(a) BY DEF HolderStep, ClaimWrite, ReleasePop, FreePop, At, Starts, StartPcs
<1>2. Done(a) \/ \E pc \in {"exec", "stopRead", "tell", "goHome"} : Go(a, pc)
  BY DEF HolderStep, ClaimWrite, ReleasePop, FreePop, AfterFree
<1>. QED BY <1>1, <1>2, LeavesAlone DEF Pcs, StartPcs

LEMMA PluginKeepsStarts ==
  ASSUME RequestsSound, StartsSound, NEW a \in Actors, PluginStep(a) PROVE StartsSound'
<1>. USE DEF At
<1>1. UNCHANGED jobs /\ NoneForgotten BY DEF PluginStep, store, NoneForgotten
<1>2. CASE Tell(a) \/ NoteServed(a)
  <2>1. ~Starts(a) /\ UNCHANGED starting BY <1>2 DEF Tell, NoteServed, Starts, StartPcs
  <2>2. Done(a) \/ Go(a, "noting") BY <1>2 DEF Tell, NoteServed
  <2>3. KeepsStarts BY <2>1, <2>2, LeavesAlone DEF Pcs, StartPcs
  <2>. QED BY <1>1, <2>1, <2>3, StartsKept
<1>3. CASE PostArrives(a) \/ PostAccepted(a) \/ PostRefused(a) \/ PostFails(a)
  <2>1. req[a].pc \in {"post", "answer"} /\ req[a] \in Requests
    BY <1>3 DEF PostArrives, PostAccepted, PostRefused, PostFails, RequestsSound
  <2>2. a \in Clients BY <2>1 DEF RequestsSound, Sound
  <2>3. CASE PostArrives(a)
    <3>1. Go(a, "answer") /\ UNCHANGED starting BY <2>3 DEF PostArrives
    <3>2. \A c \in Clients \ {a} : req'[c] = req[c] BY <3>1, OneChanges DEF Pcs
    <3>3. req'[a] = [req[a] EXCEPT !.pc = "answer", !.seen = None]
      BY <2>1, <3>1 DEF Go, RequestsSound, Requests
    <3>4. req'[a].pc = "answer" /\ req'[a].job = req[a].job BY <2>1, <3>3 DEF Requests
    <3>5. starting = starting \cup {req[a].job} BY <2>1, <2>2 DEF StartsSound, StartingSound
    <3>. QED BY <1>1, <2>1, <2>2, <3>1, <3>2, <3>4, <3>5, StartGoesOn DEF Starts, StartPcs
  <2>4. CASE PostAccepted(a) \/ PostFails(a)
    <3>1. Done(a) /\ starting' = starting \ {req[a].job} BY <2>4 DEF PostAccepted, PostFails
    <3>2. \A c \in Clients \ {a} : req'[c] = req[c] BY <3>1, OneChanges
    <3>3. ~Starts(a)' BY <3>1 DEF Done, Idle, Starts, StartPcs, RequestsSound
    <3>. QED BY <1>1, <2>1, <2>2, <3>1, <3>2, <3>3, StartLeft
  <2>5. CASE PostRefused(a)
    <3>1. /\ starting' = starting \ {req[a].job}
          /\ req' = [req EXCEPT ![a].result = "refused", ![a].pc = "end"]
      BY <2>5 DEF PostRefused
    <3>2. \A c \in Clients \ {a} : req'[c] = req[c] BY <3>1 DEF RequestsSound, Actors
    <3>3. req'[a] = [req[a] EXCEPT !.result = "refused", !.pc = "end"]
      BY <2>1, <3>1 DEF RequestsSound, Requests
    <3>4. ~Starts(a)' BY <2>1, <3>3 DEF Starts, StartPcs, Requests
    <3>. QED BY <1>1, <2>1, <2>2, <3>1, <3>2, <3>4, StartLeft
  <2>. QED BY <1>3, <2>3, <2>4, <2>5
<1>. QED BY <1>2, <1>3 DEF PluginStep

LEMMA HandleKeepsStarts ==
  ASSUME IInv, StartsSound, NEW a \in Actors, Handle(a) PROVE StartsSound'
<1>. USE DEF At
<1>1. RequestsSound /\ StoreSound /\ NoneForgotten
  BY HandleKeepsIInv, LedgerForgetsNone DEF IInv
<1>2. CASE LocalStep(a) BY <1>1, <1>2, LocalKeepsStarts, StartsKept DEF LocalStep
<1>3. CASE HolderStep(a) BY <1>1, <1>3, HolderKeepsStarts, StartsKept DEF HolderStep
<1>4. CASE StoreStep(a)
  <2>1. CASE StartBegin(a)
    <3>1. a \in Clients BY <1>1, <2>1 DEF StartBegin, RequestsSound, Sound
    <3>. QED BY <1>1, <1>4, <2>1, <3>1, StartBegun DEF StoreStep
  <2>2. CASE EndJob(a) BY <1>1, <1>4, <2>2, EndKeepsStarts, StartsKept DEF StoreStep
  <2>. QED BY <1>4, <2>1, <2>2 DEF StoreStep
<1>5. CASE PluginStep(a) BY <1>1, <1>5, PluginKeepsStarts
<1>6. CASE StartClaim(a) /\ UNCHANGED <<store, installed, knows, drone>>
  <2>1. req[a].pc = "claimForce" /\ req[a] \in Requests BY <1>1, <1>6 DEF StartClaim, RequestsSound
  <2>2. a \in Clients BY <1>1, <2>1 DEF RequestsSound, Sound
  <2>3. Go(a, "post") /\ starting' = starting \cup {req[a].job} BY <1>6 DEF StartClaim
  <2>4. \A c \in Clients \ {a} : req'[c] = req[c] BY <1>1, <2>3, OneChanges DEF Pcs
  <2>5. req'[a] = [req[a] EXCEPT !.pc = "post", !.seen = None]
    BY <1>1, <2>1, <2>3 DEF Go, RequestsSound, Requests
  <2>6. req'[a].pc = "post" /\ req'[a].job = req[a].job BY <2>1, <2>5 DEF Requests
  <2>. QED BY <1>1, <1>6, <2>1, <2>2, <2>3, <2>4, <2>6, StartGoesOn DEF Starts, StartPcs, store
<1>7. CASE CommandRuns(a) /\ UNCHANGED <<holder, store, starting, installed, knows>>
  <2>1. ~Starts(a) BY <1>7 DEF CommandRuns, Starts, StartPcs
  <2>2. Done(a) \/ Go(a, "executed") BY <1>7 DEF CommandRuns
  <2>. QED BY <1>1, <1>7, <2>1, <2>2, LeavesAlone, StartsKept DEF Pcs, StartPcs
<1>8. CASE RemoveDo(a) /\ UNCHANGED <<holder, store, starting, knows, drone>>
  <2>1. ~Starts(a) BY <1>8 DEF RemoveDo, Starts, StartPcs
  <2>. QED BY <1>1, <1>8, <2>1, LeavesAlone, StartsKept DEF RemoveDo
<1>. QED BY <1>2, <1>3, <1>4, <1>5, <1>6, <1>7, <1>8 DEF Handle

LEMMA AskKeepsStarts ==
  ASSUME RequestsSound, NEW c \in Clients, NEW kind, NEW force, NEW job, NEW plug,
         Ask(c, kind, force, job, plug)
  PROVE  KeepsStarts
<1>. DEFINE r == [Idle EXCEPT !.pc = FirstStep[kind], !.kind = kind, !.force = force,
                              !.job = job, !.plug = plug]
<1>1. req' = [req EXCEPT ![c] = r] /\ kind \in AllKinds /\ ~Starts(c)
  BY ConstantsAssumption DEF Ask, At, Starts, StartPcs
<1>2. r.pc \notin StartPcs BY <1>1 DEF Idle, FirstStep, AllKinds, StartPcs
<1>. HIDE DEF r
<1>. QED BY <1>1, <1>2 DEF KeepsStarts, Starts, RequestsSound, Actors

LEMMA NextStarts == IInv /\ StartsSound /\ [Next]_vars => StartsSound'
<1>. SUFFICES ASSUME IInv, StartsSound, [Next]_vars PROVE StartsSound' OBVIOUS
<1>1. RequestsSound /\ StoreSound /\ NoneForgotten BY NextIInv, LedgerForgetsNone DEF IInv
<1>2. CASE \E c \in Clients : Handle(c) BY <1>2, HandleKeepsStarts DEF Actors
<1>3. CASE Watch
  <2>1. CASE Handle(Watchdog) BY <2>1, HandleKeepsStarts DEF Actors
  <2>2. CASE (WatchLook \/ WatchAsk \/ WatchLostCheck \/ WatchGoHome) /\ UNCHANGED starting
    <3>1. \A c \in Clients : req'[c] = req[c]
      BY <1>1, <2>2, ConstantsAssumption
      DEF WatchLook, WatchAsk, WatchLostCheck, WatchGoHome, Go, Done, RequestsSound, Actors
    <3>. QED BY <1>1, <2>2, <3>1, StartsKept DEF KeepsStarts
  <2>. QED BY <1>3, <2>1, <2>2 DEF Watch
<1>4. CASE Asking
  <2>1. UNCHANGED starting BY <1>4 DEF Asking
  <2>2. PICK c \in Clients : \E kind, force, job, plug : Ask(c, kind, force, job, plug)
    BY <1>4 DEF Asking, PersonAsks, PluginCommands, PluginFinishes, Clients
  <2>. QED BY <1>1, <2>1, <2>2, AskKeepsStarts, StartsKept
<1>5. CASE Crash
  <2>1. \A c \in Clients : ~Starts(c)' BY <1>5 DEF Crash, Starts, StartPcs, Idle, Actors
  <2>2. starting' = {} BY <1>5 DEF Crash
  <2>. QED BY <2>1, <2>2 DEF StartsSound, StartingSound, Starts, StartPcs
<1>6. CASE \/ Flight \/ HoldExpires \/ UNCHANGED vars
           \/ \E j \in JobIds : JobAges(j)
           \/ \E p \in Plugins : Service(p)
  <2>1. UNCHANGED <<req, starting>> BY <1>6 DEF Flight, HoldExpires, JobAges, Service, vars
  <2>. QED BY <1>1, <2>1, StartsKept DEF KeepsStarts
<1>. QED BY <1>2, <1>3, <1>4, <1>5, <1>6 DEF Next

LEMMA InitStarts == Init => StartsSound
<1>. SUFFICES ASSUME Init PROVE StartsSound OBVIOUS
<1>1. \A c \in Clients : ~Starts(c) BY DEF Init, Starts, StartPcs, Idle, Actors
<1>2. starting = {} BY DEF Init
<1>. QED BY <1>1, <1>2 DEF StartsSound, StartingSound, Starts, StartPcs

(* start_job: a job is exempt from the plugin check exactly while its POST *)
(* /jobs is in progress, whatever starts, ends and restarts interleave.    *)
THEOREM StartingIsSound == Spec => []StartingSound
<1>1. StartsSound => StartingSound BY DEF StartsSound
<1>. QED BY <1>1, InitStarts, NextStarts, Inductive, PTL DEF Spec
=============================================================================
