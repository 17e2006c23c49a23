---------------------------- MODULE PluginJobProofs ----------------------------
(***************************************************************************)
(* Proofs about PluginJob for any number of jobs, faults and operators'    *)
(* deeds.                                                                  *)
(*                                                                         *)
(* Sound(j) is what keeps the two threads, the stop of a job and its two   *)
(* records in line: a stop happens once and to the job the drone has; a    *)
(* command under way once the plugin is told is the thread's only one; the *)
(* report is written before the request that ends the job. Each kind of    *)
(* step changes one job, or none, and keeps Sound.                         *)
(***************************************************************************)
EXTENDS PluginJob, TLAPS

AFleet == [job: Jobs \cup {None}, holder: {None, "plugin", "person"}, at: Places]
Posts == {"none", "sent", "taken", "running", "refused", "failed"}
Stops == {"no", "home", "sent", "told", "missed"}
AJob == [post: Posts, known: BOOLEAN, stop: Stops, outcome: Outcomes, report: Outcomes \cup {"running"}, stuck: BOOLEAN]
ARun == [pc: {"none", "work", "send", "look", "back", "close", "delete", "over", "dead"},
         cmd: {None, "climb", "go", "home"}, result: Outcomes]
Ears == {"none", "wait", "send", "off"}
Counts == [Threads -> 0 .. 2]

Types ==
  /\ fleet \in AFleet /\ desk \in BOOLEAN
  /\ jobs \in [Jobs -> AJob] /\ run \in [Jobs -> ARun] /\ ear \in [Jobs -> Ears]
  /\ late \in [Jobs -> Counts] /\ strays \subseteq Jobs /\ events \in 0 .. MaxEvents

(* What is said of one job x, its thread r, its listener e and the late    *)
(* commands l; has: is it the drone's job?                                 *)
Sound(x, r, e, l, has) ==
  /\ r.pc \in {"look", "back", "close", "delete", "over"} => r.result # None
  /\ has => x.outcome = None /\ x.post # "none"
  /\ x.stop # "no" => x.outcome \in {"stopped", "failed"} /\ ~has
  /\ x.post = "none" => x.stop = "no" /\ x.outcome = None
  /\ x.post \in {"none", "sent"} => x.report = None /\ x.outcome # "completed"
  /\ x.post \in {"none", "sent", "refused"} => r.pc = "none"
  /\ r.pc = "none" => r.result = None
  /\ x.outcome = "completed" => x.report = "completed" /\ r.pc \in {"over", "dead"}
  /\ r.result = "stopped" \/ x.report = "stopped" => x.stop = "told"
  /\ r.pc = "delete" => x.report = r.result
  /\ l["job"] <= 1 /\ (l["job"] = 1 => x.stop = "told" /\ r.pc \notin {"send", "back"})
  /\ l["listener"] <= 1 /\ (l["listener"] = 1 => x.stop = "told" /\ e # "send")

Soundness == \A j \in Jobs : Sound(jobs[j], run[j], ear[j], late[j], fleet.job = j)

Inv == Types /\ Soundness
-----------------------------------------------------------------------------
LEMMA CountsEvents ==
  ASSUME Types, Event \/ Calm
  PROVE  events' \in 0 .. MaxEvents
BY PluginAssumption DEF Types, Event, Calm

LEMMA InvMeans == Inv => TypeOK /\ AtMostOneLate /\ ResultsAgree
<1>. SUFFICES ASSUME Inv PROVE TypeOK /\ AtMostOneLate /\ ResultsAgree
  OBVIOUS
<1>1. TypeOK BY DEF Inv, Types, Soundness, Sound, TypeOK, AFleet, AJob, Posts, Stops, ARun, Ears, Counts
<1>2. AtMostOneLate BY DEF Inv, Soundness, Sound, AtMostOneLate, Threads
<1>3. ResultsAgree BY DEF Inv, Soundness, Sound, ResultsAgree
<1>. QED BY <1>1, <1>2, <1>3

(* A step that changes what is kept of one job, and leaves the drone's job *)
(* as it is, takes it away or gives it to this one, keeps Inv if that job  *)
(* stays sound.                                                            *)
Others(j) == \A k \in Jobs \ {j} : jobs'[k] = jobs[k] /\ run'[k] = run[k] /\ ear'[k] = ear[k] /\ late'[k] = late[k]

LEMMA OneJob ==
  ASSUME Inv, Types', NEW j \in Jobs, Others(j),
         fleet'.job = fleet.job \/ fleet'.job = None \/ fleet'.job = j,
         Sound(jobs'[j], run'[j], ear'[j], late'[j], fleet'.job = j)
  PROVE  Inv'
<1>1. ASSUME NEW k \in Jobs PROVE Sound(jobs'[k], run'[k], ear'[k], late'[k], fleet'.job = k)
  <2>1. CASE k = j BY <2>1
  <2>2. CASE k # j
    <3>1. jobs'[k] = jobs[k] /\ run'[k] = run[k] /\ ear'[k] = ear[k] /\ late'[k] = late[k] BY <2>2 DEF Others
    <3>2. Sound(jobs[k], run[k], ear[k], late[k], fleet.job = k) BY DEF Inv, Soundness
    <3>3. fleet'.job = k => fleet.job = k BY <2>2, PluginAssumption DEF Jobs
    <3>. QED BY <3>1, <3>2, <3>3 DEF Sound
  <2>. QED BY <2>1, <2>2
<1>. QED BY <1>1 DEF Inv, Soundness

LEMMA NoJob ==
  ASSUME Inv, Types', UNCHANGED <<jobs, run, ear, late>>, fleet'.job = fleet.job \/ fleet'.job = None
  PROVE  Inv'
<1>1. ASSUME NEW k \in Jobs PROVE Sound(jobs'[k], run'[k], ear'[k], late'[k], fleet'.job = k)
  <2>1. Sound(jobs[k], run[k], ear[k], late[k], fleet.job = k) BY DEF Inv, Soundness
  <2>2. fleet'.job = k => fleet.job = k BY PluginAssumption DEF Jobs
  <2>. QED BY <2>1, <2>2 DEF Sound
<1>. QED BY <1>1 DEF Inv, Soundness

(* A command changes the drone and counts as late only once it is told.    *)
LEMMA CommandTyped ==
  ASSUME Types, NEW j \in Jobs, NEW t \in Threads, NEW cmd, Command(j, t, cmd)
  PROVE  /\ fleet' \in AFleet /\ fleet'.job = fleet.job /\ strays' \subseteq Jobs
         /\ late' \in [Jobs -> Counts] /\ \A k \in Jobs \ {j} : late'[k] = late[k]
         /\ \A u \in Threads \ {t} : late'[j][u] = late[j][u]
         /\ jobs[j].stop # "told" => late'[j] = late[j]
         /\ late[j][t] = 0 => late'[j][t] <= 1
<1>1. fleet' \in AFleet /\ fleet'.job = fleet.job
  BY DEF Types, Command, Obeyed, Down, AFleet, Places
<1>2. strays' \subseteq Jobs BY DEF Types, Command
<1>3. late[j] \in Counts /\ late[j][t] \in 0 .. 2 BY DEF Types, Counts
<1>4. CASE Stopped(j) /\ late[j][t] < 2
  <2>. DEFINE l == [late[j] EXCEPT ![t] = late[j][t] + 1]
  <2>1. late[j][t] + 1 \in 0 .. 2 BY <1>3, <1>4
  <2>2. l \in Counts /\ (\A u \in Threads \ {t} : l[u] = late[j][u]) /\ l[t] = late[j][t] + 1 BY <1>3, <2>1 DEF Counts
  <2>3. late' = [late EXCEPT ![j] = l] BY <1>4 DEF Command, Types
  <2>. HIDE DEF l
  <2>4. late' \in [Jobs -> Counts] /\ late'[j] = l /\ \A k \in Jobs \ {j} : late'[k] = late[k] BY <2>2, <2>3 DEF Types
  <2>. QED BY <1>1, <1>2, <1>4, <2>2, <2>4 DEF Stopped
<1>5. CASE ~(Stopped(j) /\ late[j][t] < 2)
  <2>1. late' = late BY <1>5 DEF Command
  <2>. QED BY <1>1, <1>2, <1>3, <2>1 DEF Types
<1>. QED BY <1>4, <1>5
-----------------------------------------------------------------------------
(* Steps of operators, of the drone, and of its flight.                    *)
LEMMA OfOperators ==
  ASSUME Inv, StepIn \/ Failsafe \/ LiftsOff \/ Lands \/ PersonFlies
  PROVE  Inv'
<1>1. Types BY DEF Inv
<1>2. UNCHANGED <<jobs, run, ear, late, strays>> BY DEF StepIn, Failsafe, LiftsOff, Lands, PersonFlies, past
<1>3. fleet' \in AFleet /\ fleet'.job = fleet.job
  BY <1>1 DEF Types, StepIn, Failsafe, LiftsOff, Lands, PersonFlies, Down, AFleet, Places
<1>4. desk' \in BOOLEAN /\ events' \in 0 .. MaxEvents
  BY <1>1, CountsEvents DEF Types, StepIn, Failsafe, LiftsOff, Lands, PersonFlies, Fails, Calm
<1>5. Types' BY <1>1, <1>2, <1>3, <1>4 DEF Types
<1>. QED BY <1>2, <1>3, <1>5, NoJob

(* A job's record becomes x.                                               *)
LEMMA Recorded ==
  ASSUME Inv, NEW j \in Jobs, NEW x \in AJob, jobs' = [jobs EXCEPT ![j] = x],
         UNCHANGED <<desk, run, ear, past>>, fleet' \in AFleet, events' \in 0 .. MaxEvents,
         fleet'.job = fleet.job \/ fleet'.job = None \/ fleet'.job = j,
         Sound(x, run[j], ear[j], late[j], fleet'.job = j)
  PROVE  Inv'
<1>1. Types BY DEF Inv
<1>2. jobs' \in [Jobs -> AJob] /\ jobs'[j] = x /\ \A k \in Jobs \ {j} : jobs'[k] = jobs[k] BY <1>1 DEF Types
<1>3. Types' BY <1>1, <1>2 DEF Types, past
<1>4. Others(j) BY <1>2 DEF Others, past
<1>. QED BY <1>2, <1>3, <1>4, OneJob DEF past

(* A job begins, and its stop is under way, told, or never heard of.       *)
LEMMA OfFleet ==
  ASSUME Inv, NEW j \in Jobs, StartJob(j) \/ JobStopped(j) \/ WatchdogSendsHome(j)
  PROVE  Inv'
<1>1. /\ Types /\ jobs[j] \in AJob /\ fleet \in AFleet
      /\ Sound(jobs[j], run[j], ear[j], late[j], fleet.job = j)
  BY DEF Inv, Types, Soundness
<1>2. UNCHANGED <<run, ear, past, desk>> BY DEF StartJob, JobStopped, WatchdogSendsHome
<1>3. events' \in 0 .. MaxEvents BY <1>1, CountsEvents DEF Types, StartJob, JobStopped, WatchdogSendsHome, Fails
<1>4. CASE StartJob(j)
  <2>. DEFINE x == [jobs[j] EXCEPT !.post = "sent"]
  <2>1. /\ x \in AJob /\ x.post = "sent" /\ x.stop = jobs[j].stop /\ x.outcome = jobs[j].outcome
        /\ x.report = jobs[j].report
    BY <1>1, Zenon DEF AJob, Posts
  <2>2. jobs' = [jobs EXCEPT ![j] = x] /\ jobs[j].post = "none" BY <1>4 DEF StartJob
  <2>3. fleet' \in AFleet /\ fleet'.job = j BY <1>1, <1>4 DEF StartJob, AFleet
  <2>. HIDE DEF x
  <2>4. Sound(x, run[j], ear[j], late[j], fleet'.job = j) BY <1>1, <2>1, <2>2, <2>3 DEF Sound
  <2>. QED BY <1>2, <1>3, <2>1, <2>2, <2>3, <2>4, Recorded
<1>5. ASSUME NEW t \in {"sent", "told", "missed"}, NEW b \in BOOLEAN, jobs[j].stop # "no",
             jobs[j].stop # "told", fleet' \in AFleet, fleet'.job = fleet.job,
             jobs' = [jobs EXCEPT ![j] = [jobs[j] EXCEPT !.stop = t, !.stuck = b]]
      PROVE  Inv'
  <2>. DEFINE x == [jobs[j] EXCEPT !.stop = t, !.stuck = b]
  <2>1. /\ x \in AJob /\ x.post = jobs[j].post /\ x.stop = t /\ x.outcome = jobs[j].outcome
        /\ x.report = jobs[j].report
    <3>1. t \in Stops BY DEF Stops
    <3>. QED BY <1>1, <3>1, Zenon DEF AJob
  <2>2. jobs' = [jobs EXCEPT ![j] = x] BY <1>5
  <2>. HIDE DEF x
  <2>3. Sound(x, run[j], ear[j], late[j], fleet'.job = j) BY <1>1, <1>5, <2>1 DEF Sound
  <2>. QED BY <1>2, <1>3, <1>5, <2>1, <2>2, <2>3, Recorded
<1>7. ASSUME NEW t \in {"sent", "told", "missed"}, jobs' = [jobs EXCEPT ![j].stop = t]
      PROVE  jobs' = [jobs EXCEPT ![j] = [jobs[j] EXCEPT !.stop = t, !.stuck = jobs[j].stuck]]
  <2>1. [jobs[j] EXCEPT !.stop = t] = [jobs[j] EXCEPT !.stop = t, !.stuck = jobs[j].stuck] BY <1>1 DEF AJob
  <2>. QED BY <1>7, <2>1
<1>8. jobs[j].stuck \in BOOLEAN BY <1>1 DEF AJob
<1>9. CASE JobStopped(j)
  <2>1. jobs[j].stop = "sent" /\ fleet' = fleet BY <1>9 DEF JobStopped
  <2>2. \E t \in {"told", "missed"} : jobs' = [jobs EXCEPT ![j].stop = t] BY <1>9 DEF JobStopped, Tell
  <2>. QED BY <1>1, <1>5, <1>7, <1>8, <2>1, <2>2
<1>10. CASE WatchdogSendsHome(j)
  <2>1. jobs[j].stop = "home" /\ fleet' \in AFleet /\ fleet'.job = fleet.job
    BY <1>1, <1>10 DEF WatchdogSendsHome, Down, AFleet, Places
  <2>2. jobs' = [jobs EXCEPT ![j].stop = "sent"] \/ jobs' = [jobs EXCEPT ![j] = [jobs[j] EXCEPT !.stop = "sent", !.stuck = TRUE]]
    BY <1>10 DEF WatchdogSendsHome
  <2>. QED BY <1>5, <1>7, <1>8, <2>1, <2>2
<1>. QED BY <1>4, <1>9, <1>10

(* The watchdog ends the drone's job, and may still have to tell of it.    *)
LEMMA OfWatchdog ==
  ASSUME Inv, NEW j \in Jobs, PluginLost(j) \/ PluginSilent(j) \/ StaysDown(j) \/ StartHangs(j)
  PROVE  Inv'
<1>1. /\ Types /\ jobs[j] \in AJob /\ fleet \in AFleet /\ None \notin Jobs
      /\ Sound(jobs[j], run[j], ear[j], late[j], fleet.job = j)
  BY PluginAssumption DEF Inv, Types, Soundness, Jobs
<1>2. WatchdogEnds(j) \/ OrphanEnds(j) BY DEF PluginLost, PluginSilent, StaysDown, StartHangs
<1>3. UNCHANGED <<run, ear, past, desk>> BY <1>2 DEF WatchdogEnds, OrphanEnds
<1>4. events' \in 0 .. MaxEvents BY <1>1, CountsEvents DEF PluginLost, PluginSilent, StaysDown, StartHangs, Fails
<1>5. fleet' \in AFleet /\ fleet'.job = None /\ fleet.job = j
  BY <1>1, <1>2 DEF WatchdogEnds, OrphanEnds, Freed, AFleet
<1>6. ASSUME NEW x \in AJob, jobs' = [jobs EXCEPT ![j] = x], x.post = jobs[j].post, x.report = jobs[j].report,
             x.outcome = "failed", x.stop \in {jobs[j].stop, "home", "sent"}
      PROVE  Inv'
  <2>1. Sound(x, run[j], ear[j], late[j], FALSE) BY <1>1, <1>5, <1>6, PluginAssumption DEF Sound
  <2>. QED BY <1>1, <1>3, <1>4, <1>5, <1>6, <2>1, Recorded
<1>7. CASE WatchdogEnds(j)
  <2>1. PICK t \in {"home", "sent"} : jobs' = [jobs EXCEPT ![j] = [jobs[j] EXCEPT !.outcome = "failed", !.stop = t]]
    BY <1>7 DEF WatchdogEnds
  <2>. DEFINE x == [jobs[j] EXCEPT !.outcome = "failed", !.stop = t]
  <2>2. x \in AJob /\ x.post = jobs[j].post /\ x.report = jobs[j].report /\ x.outcome = "failed" /\ x.stop = t
    <3>1. t \in Stops /\ "failed" \in Outcomes BY DEF Stops, Outcomes
    <3>. QED BY <1>1, <3>1, Zenon DEF AJob
  <2>3. jobs' = [jobs EXCEPT ![j] = x] BY <2>1
  <2>. HIDE DEF x
  <2>. QED BY <1>6, <2>2, <2>3
<1>8. CASE OrphanEnds(j)
  <2>. DEFINE x == [jobs[j] EXCEPT !.outcome = "failed"]
  <2>1. /\ x \in AJob /\ x.post = jobs[j].post /\ x.report = jobs[j].report /\ x.outcome = "failed"
        /\ x.stop = jobs[j].stop
    <3>1. "failed" \in Outcomes BY DEF Outcomes
    <3>. QED BY <1>1, <3>1, Zenon DEF AJob
  <2>2. jobs' = [jobs EXCEPT ![j] = x] BY <1>8 DEF OrphanEnds
  <2>. HIDE DEF x
  <2>. QED BY <1>6, <2>1, <2>2
<1>. QED BY <1>2, <1>7, <1>8

(* A stop ends the job the drone has, once.                                *)
LEMMA OfStops ==
  ASSUME Inv, StopJob
  PROVE  Inv'
<1>1. Types BY DEF Inv
<1>2. UNCHANGED <<run, ear, late, strays, events>> /\ desk' = FALSE BY DEF StopJob, past
<1>3. CASE fleet.job = None
  <2>1. UNCHANGED <<fleet, jobs>> BY <1>3 DEF StopJob
  <2>2. Types' BY <1>1, <1>2, <2>1 DEF Types
  <2>. QED BY <1>2, <2>1, <2>2, NoJob
<1>4. CASE fleet.job # None
  <2>1. PICK j \in Jobs : j = fleet.job BY <1>1, <1>4 DEF Types, AFleet
  <2>. DEFINE x == [jobs[j] EXCEPT !.outcome = "stopped", !.stop = "sent"]
  <2>2. jobs' = [jobs EXCEPT ![j] = x] BY <1>4, <2>1 DEF StopJob
  <2>3. x \in AJob /\ jobs' \in [Jobs -> AJob]
    <3>1. x \in AJob BY <1>1 DEF Types, AJob, Stops, Outcomes
    <3>. QED BY <1>1, <2>2, <3>1 DEF Types
  <2>4. jobs'[j] = x /\ (\A k \in Jobs \ {j} : jobs'[k] = jobs[k]) /\ jobs[j] \in AJob BY <1>1, <2>2 DEF Types
  <2>5. fleet' \in AFleet /\ fleet'.job = None BY <1>1, <1>4 DEF Types, StopJob, Freed, AFleet
  <2>6. Types' BY <1>1, <1>2, <2>3, <2>5 DEF Types
  <2>7. Sound(jobs[j], run[j], ear[j], late[j], TRUE) BY <2>1 DEF Inv, Soundness
  <2>8. None \notin Jobs BY PluginAssumption DEF Jobs
  <2>9. Sound(jobs'[j], run'[j], ear'[j], late'[j], fleet'.job = j) BY <1>2, <2>4, <2>5, <2>7, <2>8 DEF Sound, AJob
  <2>10. Others(j) BY <1>2, <2>4 DEF Others
  <2>. QED BY <2>5, <2>6, <2>9, <2>10, OneJob
<1>. QED BY <1>3, <1>4

(* A failed start ends what the drone then has.                            *)
FailedStart(j, p, k) ==
  /\ jobs'[k].post = (IF k = j THEN p ELSE jobs[k].post)
  /\ jobs'[k].outcome = (IF k = fleet.job THEN "failed" ELSE jobs[k].outcome)
  /\ jobs'[k].stop = jobs[k].stop /\ jobs'[k].report = jobs[k].report /\ jobs'[k] \in AJob

LEMMA OfFailedStart ==
  ASSUME Types, NEW j \in Jobs, NEW p \in {"refused", "failed"}, StartFails(j, p)
  PROVE  /\ jobs' \in [Jobs -> AJob] /\ fleet' \in AFleet /\ fleet'.job = None
         /\ strays' \subseteq Jobs /\ UNCHANGED late
         /\ \A k \in Jobs : FailedStart(j, p, k)
<1>. DEFINE P(k) == IF k = j THEN p ELSE jobs[k].post
            O(k) == IF k = fleet.job THEN "failed" ELSE jobs[k].outcome
            y(k) == [jobs[k] EXCEPT !.post = P(k), !.outcome = O(k)]
<1>1. ASSUME NEW k \in Jobs
      PROVE  /\ y(k) \in AJob /\ y(k).post = P(k) /\ y(k).outcome = O(k)
             /\ y(k).stop = jobs[k].stop /\ y(k).report = jobs[k].report
  <2>1. jobs[k] \in AJob BY DEF Types
  <2>2. P(k) \in Posts /\ O(k) \in Outcomes BY <2>1 DEF AJob, Outcomes, Posts
  <2>. HIDE DEF P, O
  <2>. QED BY <2>1, <2>2 DEF AJob
<1>2. jobs' = [k \in Jobs |-> y(k)] BY DEF StartFails
<1>3. \A k \in Jobs : jobs'[k] = y(k) BY <1>2
<1>4. jobs' \in [Jobs -> AJob]
  <2>. HIDE DEF y
  <2>. QED BY <1>1, <1>2
<1>5. fleet' \in AFleet /\ fleet'.job = None BY DEF Types, AFleet, StartFails
<1>6. strays' \subseteq Jobs /\ UNCHANGED late BY DEF Types, StartFails
<1>. HIDE DEF y
<1>7. \A k \in Jobs : FailedStart(j, p, k) BY <1>1, <1>3 DEF FailedStart
<1>. QED BY <1>4, <1>5, <1>6, <1>7

(* POST /jobs is taken or refused, and its answer comes or is lost.        *)
LEMMA OfPost ==
  ASSUME Inv, NEW j \in Jobs, PostJob(j) \/ PostAnswered(j)
  PROVE  Inv'
<1>1. Types /\ \A k \in Jobs : Sound(jobs[k], run[k], ear[k], late[k], fleet.job = k) BY DEF Inv, Soundness
<1>2. UNCHANGED <<desk, ear>> /\ events' \in 0 .. MaxEvents
  BY <1>1, CountsEvents DEF PostJob, PostAnswered, Fails, Types
<1>3. None \notin Jobs /\ jobs[j] \in AJob /\ run[j] \in ARun /\ fleet \in AFleet
  BY <1>1, PluginAssumption DEF Jobs, Types
<1>4. CASE /\ jobs[j].post = "sent" /\ UNCHANGED <<fleet, past>>
           /\ jobs' = [jobs EXCEPT ![j] = [jobs[j] EXCEPT !.post = "taken", !.known = TRUE, !.report = "running"]]
           /\ run' = [run EXCEPT ![j].pc = "work"]
  <2>. DEFINE x == [jobs[j] EXCEPT !.post = "taken", !.known = TRUE, !.report = "running"]
              r == [run[j] EXCEPT !.pc = "work"]
  <2>1. x \in AJob /\ x.post = "taken" /\ x.report = "running" /\ x.stop = jobs[j].stop /\ x.outcome = jobs[j].outcome
    BY <1>3, Zenon DEF AJob, Posts
  <2>2. r \in ARun /\ r.pc = "work" /\ r.result = run[j].result BY <1>3 DEF ARun
  <2>3. jobs' = [jobs EXCEPT ![j] = x] /\ run' = [run EXCEPT ![j] = r] BY <1>4
  <2>. HIDE DEF x, r
  <2>4. Sound(x, r, ear[j], late[j], fleet'.job = j) BY <1>1, <1>4, <2>1, <2>2 DEF Sound
  <2>5. jobs' \in [Jobs -> AJob] /\ run' \in [Jobs -> ARun] /\ jobs'[j] = x /\ run'[j] = r
        /\ \A k \in Jobs \ {j} : jobs'[k] = jobs[k] /\ run'[k] = run[k]
    BY <1>1, <2>1, <2>2, <2>3 DEF Types
  <2>6. Types' BY <1>1, <1>2, <1>4, <2>5 DEF Types, past
  <2>7. Others(j) BY <1>2, <1>4, <2>5 DEF Others, past
  <2>. QED BY <1>2, <1>4, <2>4, <2>5, <2>6, <2>7, OneJob DEF past
<1>5. CASE jobs' = [jobs EXCEPT ![j].post = "running"] /\ jobs[j].post = "taken" /\ UNCHANGED <<run, fleet, past>>
  <2>. DEFINE x == [jobs[j] EXCEPT !.post = "running"]
  <2>1. /\ x \in AJob /\ x.post = "running" /\ x.report = jobs[j].report /\ x.stop = jobs[j].stop
        /\ x.outcome = jobs[j].outcome
    BY <1>3, Zenon DEF AJob, Posts
  <2>2. jobs' = [jobs EXCEPT ![j] = x] BY <1>5
  <2>. HIDE DEF x
  <2>3. Sound(x, run[j], ear[j], late[j], fleet'.job = j) BY <1>1, <1>5, <2>1 DEF Sound
  <2>. QED BY <1>2, <1>3, <1>5, <2>1, <2>2, <2>3, Recorded
<1>6. ASSUME NEW p \in {"refused", "failed"}, StartFails(j, p), UNCHANGED run,
             p = "refused" => jobs[j].post = "sent", p = "failed" => jobs[j].post = "taken"
      PROVE  Inv'
  <2>1. /\ jobs' \in [Jobs -> AJob] /\ fleet' \in AFleet /\ fleet'.job = None
        /\ strays' \subseteq Jobs /\ UNCHANGED late /\ \A k \in Jobs : FailedStart(j, p, k)
    BY <1>1, <1>6, OfFailedStart
  <2>2. Types' BY <1>1, <1>2, <1>6, <2>1 DEF Types
  <2>3. ASSUME NEW k \in Jobs PROVE Sound(jobs'[k], run'[k], ear'[k], late'[k], fleet'.job = k)
    <3>1. FailedStart(j, p, k) /\ UNCHANGED <<run, ear, late>> /\ fleet'.job # k BY <1>2, <1>3, <1>6, <2>1
    <3>. QED BY <1>1, <1>6, <3>1, PluginAssumption DEF Sound, FailedStart
  <2>. QED BY <2>2, <2>3 DEF Inv, Soundness
<1>. QED BY <1>4, <1>5, <1>6 DEF PostJob, PostAnswered
-----------------------------------------------------------------------------
(* Steps of a job's thread: it becomes r, and its record may change.       *)
LEMMA Ran ==
  ASSUME Inv, NEW j \in Jobs, NEW r \in ARun, Becomes(j, r), UNCHANGED <<desk, ear>>,
         jobs' \in [Jobs -> AJob], \A k \in Jobs \ {j} : jobs'[k] = jobs[k],
         fleet' \in AFleet, fleet'.job = fleet.job \/ fleet'.job = None,
         late' \in [Jobs -> Counts], \A k \in Jobs \ {j} : late'[k] = late[k],
         strays' \subseteq Jobs, events' \in 0 .. MaxEvents,
         Sound(jobs'[j], r, ear[j], late'[j], fleet'.job = j)
  PROVE  Inv'
<1>1. Types BY DEF Inv
<1>2. run' \in [Jobs -> ARun] /\ run'[j] = r /\ \A k \in Jobs \ {j} : run'[k] = run[k] BY <1>1 DEF Becomes, Types
<1>3. Types' BY <1>1, <1>2 DEF Types
<1>4. Others(j) BY <1>1, <1>2 DEF Others
<1>. QED BY <1>2, <1>3, <1>4, OneJob

LEMMA Alone ==
  ASSUME Inv, NEW j \in Jobs, NEW r \in ARun, Becomes(j, r), UNCHANGED <<fleet, desk, jobs, ear, past>>,
         Event \/ Calm, Sound(jobs[j], r, ear[j], late[j], fleet.job = j)
  PROVE  Inv'
<1>1. Types BY DEF Inv
<1>2. events' \in 0 .. MaxEvents BY <1>1, CountsEvents
<1>. QED BY <1>1, <1>2, Ran DEF Types, past

(* The job function goes on, fails, returns or is stopped.                 *)
LEMMA OfFunction ==
  ASSUME Inv, NEW j \in Jobs, Sends(j) \/ Breaks(j) \/ Returns(j) \/ Unwinds(j)
  PROVE  Inv'
<1>1. Types /\ run[j] \in ARun /\ late[j] \in Counts /\ Sound(jobs[j], run[j], ear[j], late[j], fleet.job = j)
  BY DEF Inv, Types, Soundness
<1>2. run[j].pc = "work" /\ UNCHANGED <<fleet, desk, jobs, ear, past>> /\ Calm
  BY DEF Sends, Breaks, Returns, Unwinds, Calm
<1>3. CASE Sends(j)
  <2>1. PICK c \in {"climb", "go", "home"} : Becomes(j, [run[j] EXCEPT !.pc = "send", !.cmd = c])
    BY <1>3 DEF Sends
  <2>. DEFINE r == [run[j] EXCEPT !.pc = "send", !.cmd = c]
  <2>2. r \in ARun /\ r.pc = "send" /\ r.result = run[j].result BY <1>1 DEF ARun
  <2>. HIDE DEF r
  <2>3. jobs[j].stop # "told" BY <1>3 DEF Sends, Check, Stopped
  <2>4. Sound(jobs[j], r, ear[j], late[j], fleet.job = j) BY <1>1, <1>2, <2>2, <2>3 DEF Sound
  <2>5. Becomes(j, r) BY <2>1 DEF r
  <2>. QED BY <1>2, <2>2, <2>4, <2>5, Alone
<1>4. CASE Breaks(j)
  <2>. DEFINE r == [run[j] EXCEPT !.pc = "look", !.result = "failed"]
  <2>1. r \in ARun /\ r.pc = "look" /\ r.result = "failed" BY <1>1 DEF ARun, Outcomes
  <2>2. Becomes(j, r) BY <1>4 DEF Breaks, Raises
  <2>. HIDE DEF r
  <2>3. "failed" # None BY PluginAssumption
  <2>4. Sound(jobs[j], r, ear[j], late[j], fleet.job = j) BY <1>1, <1>2, <2>1, <2>3 DEF Sound
  <2>. QED BY <1>2, <2>1, <2>2, <2>4, Alone
<1>5. CASE Returns(j)
  <2>. DEFINE r == [run[j] EXCEPT !.pc = "close", !.result = "completed"]
  <2>1. r \in ARun /\ r.pc = "close" /\ r.result = "completed" BY <1>1 DEF ARun, Outcomes
  <2>2. Becomes(j, r) BY <1>5 DEF Returns
  <2>. HIDE DEF r
  <2>4. Sound(jobs[j], r, ear[j], late[j], fleet.job = j) BY <1>1, <1>2, <2>1, PluginAssumption DEF Sound
  <2>. QED BY <1>2, <2>1, <2>2, <2>4, Alone
<1>6. CASE Unwinds(j)
  <2>. DEFINE r == [run[j] EXCEPT !.pc = "close", !.result = "stopped"]
  <2>1. r \in ARun /\ r.pc = "close" /\ r.result = "stopped" BY <1>1 DEF ARun, Outcomes
  <2>2. Becomes(j, r) BY <1>6 DEF Unwinds
  <2>. HIDE DEF r
  <2>3. jobs[j].stop = "told" BY <1>6 DEF Unwinds, Check, Stopped
  <2>4. Sound(jobs[j], r, ear[j], late[j], fleet.job = j) BY <1>1, <1>2, <2>1, <2>3, PluginAssumption DEF Sound
  <2>. QED BY <1>2, <2>1, <2>2, <2>4, Alone
<1>. QED BY <1>3, <1>4, <1>5, <1>6

(* The thread goes on, and notes whether its drone is left as it is.       *)
LEMMA OfNote ==
  ASSUME Inv, NEW j \in Jobs, NEW pc \in {"back", "close"}, NEW b \in BOOLEAN,
         run[j].pc \in {"look", "back"}, pc = "back" => ~Stopped(j),
         Becomes(j, [run[j] EXCEPT !.pc = pc]), jobs' = [jobs EXCEPT ![j].stuck = b],
         UNCHANGED <<desk, ear>>, events' \in 0 .. MaxEvents,
         UNCHANGED <<fleet, past>> \/ (run[j].pc = "back" /\ pc = "close" /\ Command(j, "job", "home"))
  PROVE  Inv'
<1>1. /\ Types /\ run[j] \in ARun /\ jobs[j] \in AJob /\ late[j] \in Counts
      /\ Sound(jobs[j], run[j], ear[j], late[j], fleet.job = j)
  BY DEF Inv, Types, Soundness
<1>. DEFINE r == [run[j] EXCEPT !.pc = pc]
            x == [jobs[j] EXCEPT !.stuck = b]
<1>2. r \in ARun /\ r.pc = pc /\ r.result = run[j].result BY <1>1 DEF ARun
<1>3. x \in AJob /\ x.post = jobs[j].post /\ x.stop = jobs[j].stop /\ x.outcome = jobs[j].outcome /\ x.report = jobs[j].report
  BY <1>1, Zenon DEF AJob
<1>4. Becomes(j, r) /\ jobs' = [jobs EXCEPT ![j] = x] OBVIOUS
<1>. HIDE DEF r, x
<1>5. jobs' \in [Jobs -> AJob] /\ jobs'[j] = x /\ \A k \in Jobs \ {j} : jobs'[k] = jobs[k] BY <1>1, <1>3, <1>4 DEF Types
<1>6. CASE UNCHANGED <<fleet, past>>
  <2>1. Sound(jobs'[j], r, ear[j], late'[j], fleet'.job = j) BY <1>1, <1>2, <1>3, <1>5, <1>6 DEF Sound, Stopped, past
  <2>. QED BY <1>1, <1>2, <1>4, <1>5, <1>6, <2>1, Ran DEF Types, past
<1>7. CASE run[j].pc = "back" /\ pc = "close" /\ Command(j, "job", "home")
  <2>1. "job" \in Threads /\ late[j]["job"] = 0
    <3>1. late[j]["job"] \in 0 .. 2 BY <1>1 DEF Counts, Threads
    <3>. QED BY <1>1, <1>7, <3>1 DEF Sound, Threads
  <2>2. /\ fleet' \in AFleet /\ fleet'.job = fleet.job /\ strays' \subseteq Jobs
        /\ late' \in [Jobs -> Counts] /\ \A k \in Jobs \ {j} : late'[k] = late[k]
        /\ late'[j]["listener"] = late[j]["listener"]
        /\ (jobs[j].stop # "told" => late'[j] = late[j]) /\ late'[j]["job"] <= 1
    BY <1>1, <1>7, <2>1, CommandTyped DEF Threads
  <2>3. Sound(jobs'[j], r, ear[j], late'[j], fleet'.job = j) BY <1>1, <1>2, <1>3, <1>5, <1>7, <2>1, <2>2 DEF Sound
  <2>. QED BY <1>1, <1>2, <1>4, <1>5, <2>2, <2>3, Ran DEF Types
<1>. QED BY <1>6, <1>7

(* A command of the thread is taken, or refused.                           *)
LEMMA OfCommands ==
  ASSUME Inv, NEW j \in Jobs, Sent(j) \/ SendsHome(j)
  PROVE  Inv'
<1>1. /\ Types /\ run[j] \in ARun /\ jobs[j] \in AJob /\ late[j] \in Counts
      /\ Sound(jobs[j], run[j], ear[j], late[j], fleet.job = j)
  BY DEF Inv, Types, Soundness
<1>2. UNCHANGED <<desk, ear>> /\ events' \in 0 .. MaxEvents BY <1>1, CountsEvents DEF Sent, SendsHome, Fails
<1>3. "job" \in Threads /\ late[j]["job"] = 0
  <2>1. late[j]["job"] \in 0 .. 2 BY <1>1 DEF Counts, Threads
  <2>2. run[j].pc \in {"send", "back"} BY DEF Sent, SendsHome
  <2>. QED BY <1>1, <2>1, <2>2 DEF Sound, Threads
<1>4. ASSUME NEW c, Command(j, "job", c), jobs' = jobs, NEW r \in ARun, Becomes(j, r),
             r.pc \in {"work", "look", "close"}, r.result \in {run[j].result, "failed"},
             r.result = run[j].result \/ r.pc = "look", r.pc = "look" => r.result = "failed",
             r.pc = "close" => run[j].pc = "back"
      PROVE  Inv'
  <2>1. /\ fleet' \in AFleet /\ fleet'.job = fleet.job /\ strays' \subseteq Jobs
        /\ late' \in [Jobs -> Counts] /\ \A k \in Jobs \ {j} : late'[k] = late[k]
        /\ late'[j]["listener"] = late[j]["listener"]
        /\ (jobs[j].stop # "told" => late'[j] = late[j]) /\ late'[j]["job"] <= 1
    BY <1>1, <1>3, <1>4, CommandTyped DEF Threads
  <2>2. run[j].pc \in {"send", "back"} BY DEF Sent, SendsHome
  <2>3. Sound(jobs[j], r, ear[j], late'[j], fleet'.job = j)
    BY <1>1, <1>3, <1>4, <2>1, <2>2, PluginAssumption DEF Sound
  <2>. QED BY <1>1, <1>2, <1>4, <2>1, <2>3, Ran DEF Types
<1>. DEFINE f == [run[j] EXCEPT !.pc = "look", !.result = "failed"]
<1>5. f \in ARun /\ f.pc = "look" /\ f.result = "failed" BY <1>1 DEF ARun, Outcomes
<1>6. Raises(j) => Becomes(j, f) BY DEF Raises
<1>7. ASSUME NEW pc \in {"work", "close"}
      PROVE  LET r == [run[j] EXCEPT !.pc = pc] IN r \in ARun /\ r.pc = pc /\ r.result = run[j].result
  BY <1>1 DEF ARun
<1>. HIDE DEF f
<1>8. ASSUME Raises(j), run[j].pc = "send", UNCHANGED <<fleet, jobs, past>> PROVE Inv'
  <2>1. Sound(jobs[j], f, ear[j], late[j], fleet.job = j) BY <1>1, <1>5, <1>8, PluginAssumption DEF Sound
  <2>2. UNCHANGED <<late, strays>> BY <1>8 DEF past
  <2>. QED BY <1>1, <1>2, <1>5, <1>6, <1>8, <2>1, <2>2, Ran DEF Types
<1>9. CASE Sent(j)
  <2>1. run[j].pc = "send" /\ jobs' = jobs BY <1>9 DEF Sent
  <2>2. CASE Command(j, "job", run[j].cmd) /\ Becomes(j, [run[j] EXCEPT !.pc = "work"])
    BY <1>4, <1>7, <2>1, <2>2
  <2>3. CASE Command(j, "job", run[j].cmd) /\ Raises(j)
    BY <1>4, <1>5, <1>6, <2>1, <2>3
  <2>4. CASE Raises(j) /\ UNCHANGED <<fleet, past>> BY <1>8, <2>1, <2>4
  <2>. QED BY <1>9, <2>2, <2>3, <2>4 DEF Sent
<1>10. CASE SendsHome(j)
  <2>1. run[j].pc = "back" BY <1>10 DEF SendsHome
  <2>2. CASE Command(j, "job", "home") /\ Becomes(j, [run[j] EXCEPT !.pc = "close"]) /\ UNCHANGED jobs
    BY <1>4, <1>7, <2>1, <2>2
  <2>3. CASE CannotSendHome(j) /\ (UNCHANGED <<fleet, past>> \/ Command(j, "job", "home"))
    BY <1>2, <2>1, <2>3, OfNote DEF CannotSendHome
  <2>. QED BY <1>10, <2>2, <2>3 DEF SendsHome
<1>. QED BY <1>9, <1>10

(* A failed job looks where its drone is.                                  *)
LEMMA OfLooks ==
  ASSUME Inv, NEW j \in Jobs, LooksHome(j)
  PROVE  Inv'
<1>1. Types /\ jobs[j] \in AJob BY DEF Inv, Types
<1>2. /\ UNCHANGED <<desk, ear>> /\ UNCHANGED <<fleet, past>> /\ run[j].pc = "look"
      /\ events' \in 0 .. MaxEvents
  BY <1>1, CountsEvents DEF LooksHome, Looks, Fails
<1>3. jobs[j].stuck \in BOOLEAN BY <1>1 DEF AJob
<1>4. CASE CannotSendHome(j)
  BY <1>2, <1>4, OfNote DEF CannotSendHome
<1>5. CASE /\ Becomes(j, [run[j] EXCEPT !.pc = IF ~Stopped(j) /\ fleet.at = "air" THEN "back" ELSE "close"])
           /\ jobs' = [jobs EXCEPT ![j].stuck = jobs[j].stuck \/ (~Stopped(j) /\ fleet.at = "rising")]
  <2>1. PICK pc \in {"back", "close"} : Becomes(j, [run[j] EXCEPT !.pc = pc]) /\ (pc = "back" => ~Stopped(j))
    <3>1. CASE ~Stopped(j) /\ fleet.at = "air" BY <1>5, <3>1
    <3>2. CASE ~(~Stopped(j) /\ fleet.at = "air") BY <1>5, <3>2
    <3>. QED BY <3>1, <3>2
  <2>2. PICK b \in BOOLEAN : jobs' = [jobs EXCEPT ![j].stuck = b]
    <3>. DEFINE b == jobs[j].stuck \/ (~Stopped(j) /\ fleet.at = "rising")
    <3>1. b \in BOOLEAN BY <1>3, Zenon
    <3>2. jobs' = [jobs EXCEPT ![j].stuck = b] BY <1>5
    <3>. QED BY <3>1, <3>2
  <2>. QED BY <1>2, <2>1, <2>2, OfNote
<1>. QED BY <1>4, <1>5 DEF LooksHome, Looks

(* The report is saved, then the fleet API is asked to end the job.        *)
LEMMA OfEnd ==
  ASSUME Inv, NEW j \in Jobs, Close(j) \/ EndsJob(j)
  PROVE  Inv'
<1>1. /\ Types /\ run[j] \in ARun /\ jobs[j] \in AJob /\ None \notin Jobs
      /\ Sound(jobs[j], run[j], ear[j], late[j], fleet.job = j)
  BY PluginAssumption DEF Inv, Types, Soundness, Jobs
<1>2. UNCHANGED <<desk, ear, late, strays>> /\ events' \in 0 .. MaxEvents
  BY <1>1, CountsEvents DEF Close, EndsJob, Fails, past, Types
<1>3. CASE Close(j)
  <2>1. PICK pc \in {"delete", "over"} : Becomes(j, [run[j] EXCEPT !.pc = pc]) BY <1>3 DEF Close
  <2>. DEFINE r == [run[j] EXCEPT !.pc = pc]
              x == [jobs[j] EXCEPT !.report = run[j].result]
  <2>2. r \in ARun /\ r.pc = pc /\ r.result = run[j].result BY <1>1 DEF ARun
  <2>3. /\ x \in AJob /\ x.post = jobs[j].post /\ x.stop = jobs[j].stop /\ x.outcome = jobs[j].outcome
        /\ x.report = run[j].result
    BY <1>1 DEF AJob, ARun
  <2>4. Becomes(j, r) /\ jobs' = [jobs EXCEPT ![j] = x] /\ UNCHANGED fleet /\ run[j].pc = "close" BY <1>3, <2>1 DEF Close
  <2>. HIDE DEF r, x
  <2>5. jobs' \in [Jobs -> AJob] /\ jobs'[j] = x /\ \A k \in Jobs \ {j} : jobs'[k] = jobs[k] BY <1>1, <2>3, <2>4 DEF Types
  <2>6. Sound(jobs'[j], r, ear[j], late[j], fleet.job = j) BY <1>1, <2>2, <2>3, <2>4, <2>5 DEF Sound
  <2>. QED BY <1>1, <1>2, <2>2, <2>4, <2>5, <2>6, Ran DEF Types
<1>4. CASE EndsJob(j)
  <2>. DEFINE r == [run[j] EXCEPT !.pc = "over"]
  <2>1. r \in ARun /\ r.pc = "over" /\ r.result = run[j].result BY <1>1 DEF ARun
  <2>2. Becomes(j, r) /\ run[j].pc = "delete" BY <1>4 DEF EndsJob
  <2>. HIDE DEF r
  <2>3. CASE UNCHANGED <<fleet, jobs>>
    <3>1. Sound(jobs[j], r, ear[j], late[j], fleet.job = j) BY <1>1, <2>1, <2>2 DEF Sound
    <3>. QED BY <1>1, <1>2, <2>1, <2>2, <2>3, <3>1, Ran DEF Types
  <2>4. CASE /\ fleet.job = j /\ fleet' = [fleet EXCEPT !.job = None, !.holder = Freed(fleet.holder)]
             /\ jobs' = [jobs EXCEPT ![j].outcome = run[j].result]
    <3>. DEFINE x == [jobs[j] EXCEPT !.outcome = run[j].result]
    <3>1. /\ x \in AJob /\ x.post = jobs[j].post /\ x.stop = jobs[j].stop /\ x.report = jobs[j].report
          /\ x.outcome = run[j].result
      BY <1>1 DEF AJob, ARun
    <3>2. jobs' = [jobs EXCEPT ![j] = x] BY <2>4
    <3>. HIDE DEF x
    <3>3. jobs' \in [Jobs -> AJob] /\ jobs'[j] = x /\ \A k \in Jobs \ {j} : jobs'[k] = jobs[k] BY <1>1, <3>1, <3>2 DEF Types
    <3>4. fleet' \in AFleet /\ fleet'.job = None BY <1>1, <2>4 DEF Types, Freed, AFleet
    <3>5. Sound(jobs'[j], r, ear[j], late[j], fleet'.job = j) BY <1>1, <2>1, <2>2, <2>4, <3>1, <3>3, <3>4 DEF Sound
    <3>. QED BY <1>1, <1>2, <2>1, <2>2, <3>3, <3>4, <3>5, Ran DEF Types
  <2>. QED BY <1>4, <2>3, <2>4 DEF EndsJob
<1>. QED BY <1>3, <1>4
-----------------------------------------------------------------------------
(* The listener.                                                           *)
LEMMA OfListener ==
  ASSUME Inv, NEW j \in Jobs, Listens(j) \/ Listener(j)
  PROVE  Inv'
<1>1. /\ Types /\ late[j] \in Counts /\ ear[j] \in Ears
      /\ Sound(jobs[j], run[j], ear[j], late[j], fleet.job = j)
  BY DEF Inv, Types, Soundness
<1>2. UNCHANGED <<desk, jobs, run, events>>
  BY DEF Listens, Listener, CallsBack, CalledBack, StopsListening
<1>3. /\ ear' \in [Jobs -> Ears] /\ \A k \in Jobs \ {j} : ear'[k] = ear[k]
  BY <1>1 DEF Types, Ears, Listens, Listener, CallsBack, CalledBack, StopsListening
<1>4. CASE UNCHANGED <<fleet, past>> /\ (ear'[j] = "send" => ~Stopped(j))
  <2>1. Types' BY <1>1, <1>2, <1>3, <1>4 DEF Types, past
  <2>2. Others(j) BY <1>2, <1>3, <1>4 DEF Others, past
  <2>3. Sound(jobs'[j], run'[j], ear'[j], late'[j], fleet'.job = j) BY <1>1, <1>2, <1>4 DEF Sound, past, Stopped
  <2>. QED BY <1>4, <2>1, <2>2, <2>3, OneJob
<1>5. CASE ear[j] = "send" /\ ear'[j] # "send" /\ Command(j, "listener", "go")
  <2>1. "listener" \in Threads /\ late[j]["listener"] = 0
    <3>1. late[j]["listener"] \in 0 .. 2 BY <1>1 DEF Counts, Threads
    <3>. QED BY <1>1, <1>5, <3>1 DEF Sound, Threads
  <2>2. /\ fleet' \in AFleet /\ fleet'.job = fleet.job /\ strays' \subseteq Jobs
        /\ late' \in [Jobs -> Counts] /\ \A k \in Jobs \ {j} : late'[k] = late[k]
        /\ late'[j]["job"] = late[j]["job"]
        /\ (jobs[j].stop # "told" => late'[j] = late[j]) /\ late'[j]["listener"] <= 1
    BY <1>1, <1>5, <2>1, CommandTyped DEF Threads
  <2>3. Types' BY <1>1, <1>2, <1>3, <2>2 DEF Types
  <2>4. Others(j) BY <1>2, <1>3, <2>2 DEF Others
  <2>5. Sound(jobs'[j], run'[j], ear'[j], late'[j], fleet'.job = j) BY <1>1, <1>2, <1>5, <2>1, <2>2 DEF Sound
  <2>. QED BY <2>2, <2>3, <2>4, <2>5, OneJob
<1>6. ear'[j] = "send" => ~Stopped(j) /\ UNCHANGED <<fleet, past>>
  BY <1>1 DEF Types, Check, Listens, Listener, CallsBack, CalledBack, StopsListening
<1>7. UNCHANGED <<fleet, past>> \/ (ear[j] = "send" /\ Command(j, "listener", "go"))
  BY DEF Listens, Listener, CallsBack, CalledBack, StopsListening
<1>. QED BY <1>4, <1>5, <1>6, <1>7

LEMMA OfRestarts ==
  ASSUME Inv, Restarts
  PROVE  Inv'
<1>1. Types BY DEF Inv
<1>2. UNCHANGED <<fleet, desk, late, strays>> /\ events' \in 0 .. MaxEvents
  BY <1>1, CountsEvents DEF Restarts, Fails, past
<1>. DEFINE x(j) == [jobs[j] EXCEPT !.known = FALSE]
            pc(j) == IF run[j].pc \in {"none", "over"} THEN run[j].pc ELSE "dead"
            r(j) == [run[j] EXCEPT !.pc = pc(j)]
            e(j) == IF ear[j] = "none" THEN "none" ELSE "off"
<1>3. ASSUME NEW j \in Jobs
      PROVE  /\ x(j) \in AJob /\ x(j).post = jobs[j].post /\ x(j).stop = jobs[j].stop
             /\ x(j).outcome = jobs[j].outcome /\ x(j).report = jobs[j].report
  <2>1. jobs[j] \in AJob BY <1>1 DEF Types
  <2>. QED BY <2>1, Zenon DEF AJob
<1>4. ASSUME NEW j \in Jobs
      PROVE  /\ r(j) \in ARun /\ r(j).pc = pc(j) /\ r(j).result = run[j].result /\ e(j) \in Ears
  <2>1. run[j] \in ARun BY <1>1 DEF Types
  <2>2. pc(j) \in {"none", "over", "dead"} OBVIOUS
  <2>. HIDE DEF pc
  <2>. QED BY <2>1, <2>2 DEF ARun, Ears
<1>5. jobs' = [j \in Jobs |-> x(j)] /\ run' = [j \in Jobs |-> r(j)] /\ ear' = [j \in Jobs |-> e(j)] BY DEF Restarts
<1>. HIDE DEF x, r, e
<1>6. jobs' \in [Jobs -> AJob] /\ run' \in [Jobs -> ARun] /\ ear' \in [Jobs -> Ears] BY <1>3, <1>4, <1>5
<1>7. Types' BY <1>1, <1>2, <1>6 DEF Types
<1>8. ASSUME NEW j \in Jobs PROVE Sound(jobs'[j], run'[j], ear'[j], late'[j], fleet'.job = j)
  <2>1. jobs'[j] = x(j) /\ run'[j] = r(j) /\ ear'[j] = e(j) BY <1>5
  <2>2. Sound(jobs[j], run[j], ear[j], late[j], fleet.job = j) BY DEF Inv, Soundness
  <2>3. e(j) # "send" BY DEF e
  <2>. QED BY <1>2, <1>3, <1>4, <2>1, <2>2, <2>3 DEF Sound
<1>. QED BY <1>7, <1>8 DEF Inv, Soundness
-----------------------------------------------------------------------------
LEMMA Starts == Init => Inv
<1>. SUFFICES ASSUME Init PROVE Inv
  OBVIOUS
<1>1. NewJob \in AJob /\ NewJob.post = "none" /\ NewJob.stop = "no" /\ NewJob.outcome = None /\ NewJob.report = None
  BY Zenon DEF NewJob, AJob, Posts, Stops, Outcomes
<1>2. NoThread \in ARun /\ NoThread.pc = "none" /\ NoThread.result = None BY DEF NoThread, ARun, Outcomes
<1>3. [t \in Threads |-> 0] \in Counts BY DEF Counts
<1>4. fleet \in AFleet /\ fleet.job = None /\ events \in 0 .. MaxEvents
  BY PluginAssumption DEF Init, AFleet, Places
<1>5. Types BY <1>1, <1>2, <1>3, <1>4 DEF Init, Types, Ears
<1>6. ASSUME NEW j \in Jobs PROVE Sound(jobs[j], run[j], ear[j], late[j], fleet.job = j)
  <2>1. jobs[j] = NewJob /\ run[j] = NoThread /\ ear[j] = "none" /\ late[j]["job"] = 0 /\ late[j]["listener"] = 0
    BY DEF Init, Threads
  <2>2. fleet.job # j BY <1>4, PluginAssumption DEF Jobs
  <2>. QED BY <1>1, <1>2, <2>1, <2>2, PluginAssumption DEF Sound
<1>. QED BY <1>5, <1>6 DEF Inv, Soundness

LEMMA Keeps == Inv /\ [Next]_vars => Inv'
<1>. SUFFICES ASSUME Inv, [Next]_vars PROVE Inv'
  OBVIOUS
<1>1. CASE UNCHANGED vars BY <1>1 DEF vars, past, Inv, Types, Soundness
<1>2. CASE Next
  BY <1>2, OfFleet, OfWatchdog, OfPost, OfStops, OfOperators, OfFunction, OfCommands, OfLooks, OfEnd, OfListener, OfRestarts
  DEF Next, Thread
<1>. QED BY <1>1, <1>2

LEMMA Invariant == Spec => []Inv
BY Starts, Keeps, PTL DEF Spec

(* Every variable stays in its type, and a job that is past its work has a *)
(* result.                                                                 *)
THEOREM TypeCorrect == Spec => []TypeOK
BY Invariant, InvMeans, PTL

(* Job._check and the two threads of plugin.py: once the plugin is told of *)
(* a stop, each thread has at most the command under way still taken.      *)
THEOREM OneLateCommand == Spec => []AtMostOneLate
BY Invariant, InvMeans, PTL

(* _run of plugin.py and end_job of the fleet API: the two records of a    *)
(* job never contradict each other, whatever is lost, stopped or restarted. *)
THEOREM RecordsAgree == Spec => []ResultsAgree
BY Invariant, InvMeans, PTL
-----------------------------------------------------------------------------
(* The fleet API as the plugin meets it keeps what FleetApi is proved to   *)
(* promise of it: it is a job ledger, in which a job is begun once, ends   *)
(* when the drone gets free of it, and keeps its outcome.                  *)
JobEnds == {"completed", "failed", "stopped"}
Record(j) ==
  [plugin |-> IF jobs[j].post = "none" THEN None ELSE "plugin",
   status |-> IF jobs[j].post = "none" THEN "none" ELSE IF fleet.job = j THEN "running" ELSE "ended",
   result |-> IF jobs[j].outcome = None THEN "none" ELSE jobs[j].outcome]
Records == [j \in Jobs |-> Record(j)]
Promise == INSTANCE JobLedger WITH Workers <- {"plugin"}, Outcomes <- JobEnds, ledger <- Records

(* A job that was begun and is over has an outcome.                        *)
Accounted == \A j \in Jobs : jobs[j].post # "none" /\ fleet.job # j => jobs[j].outcome # None

(* What the ledger does not see of a step.                                 *)
SameRecord(k) == (jobs'[k].post = "none" <=> jobs[k].post = "none") /\ jobs'[k].outcome = jobs[k].outcome

LEMMA Untouched ==
  ASSUME Accounted, fleet'.job = fleet.job, \A k \in Jobs : SameRecord(k)
  PROVE  Accounted' /\ UNCHANGED Records
BY DEF Accounted, SameRecord, Records, Record

LEMMA Opened ==
  ASSUME Inv, Accounted, NEW j \in Jobs, StartJob(j)
  PROVE  Accounted' /\ Promise!Open(j, "plugin")
<1>1. Types /\ Sound(jobs[j], run[j], ear[j], late[j], fleet.job = j) BY DEF Inv, Soundness
<1>2. /\ fleet.job = None /\ fleet'.job = j /\ jobs[j].post = "none"
      /\ \A k \in Jobs \ {j} : jobs'[k] = jobs[k]
      /\ jobs'[j].post = "sent" /\ jobs'[j].outcome = jobs[j].outcome
  <2>1. jobs[j] \in AJob /\ jobs'[j] = [jobs[j] EXCEPT !.post = "sent"] BY <1>1 DEF Types, StartJob
  <2>2. jobs'[j].post = "sent" /\ jobs'[j].outcome = jobs[j].outcome BY <2>1, Zenon DEF AJob
  <2>. QED BY <1>1, <2>2 DEF Types, AFleet, StartJob
<1>3. jobs[j].outcome = None BY <1>1, <1>2 DEF Sound
<1>4. None \notin Jobs BY PluginAssumption DEF Jobs
<1>5. Records' = [Records EXCEPT ![j] = [plugin |-> "plugin", status |-> "running", result |-> "none"]]
  <2>1. Record(j)' = [plugin |-> "plugin", status |-> "running", result |-> "none"]
    BY <1>2, <1>3 DEF Record
  <2>2. \A k \in Jobs \ {j} : Record(k)' = Record(k) BY <1>2, <1>4 DEF Record
  <2>. QED BY <2>1, <2>2 DEF Records
<1>6. Records[j].status = "none" /\ \A k \in Jobs : Records[k].status # "running"
  BY <1>2, <1>4 DEF Records, Record
<1>. QED BY <1>2, <1>4, <1>5, <1>6 DEF Accounted, Promise!Open, Promise!Running

LEMMA Closed ==
  ASSUME Inv, Accounted, NEW j \in Jobs, fleet.job = j, fleet'.job = None, NEW o \in JobEnds,
         jobs'[j].outcome = o, jobs'[j].post # "none", \A k \in Jobs \ {j} : SameRecord(k)
  PROVE  Accounted' /\ Promise!Close(j, o)
<1>1. jobs[j].post # "none" BY DEF Inv, Soundness, Sound
<1>2. None \notin Jobs /\ o # None BY PluginAssumption DEF Jobs, JobEnds
<1>3. Record(j).status = "running" BY <1>1 DEF Record
<1>4. Record(j)' = [Record(j) EXCEPT !.status = "ended", !.result = o]
  <2>1. Record(j)' \in [plugin : {"plugin"}, status : {"ended"}, result : {o}] BY <1>2 DEF Record
  <2>2. \E r : Record(j) \in [plugin : {"plugin"}, status : {"running", "ended"}, result : {r, o}] BY <1>1 DEF Record
  <2>. HIDE DEF Record
  <2>3. [Record(j) EXCEPT !.status = "ended", !.result = o] \in [plugin : {"plugin"}, status : {"ended"}, result : {o}]
    BY <2>2
  <2>4. \A R, S \in [plugin : {"plugin"}, status : {"ended"}, result : {o}] : R = S OBVIOUS
  <2>. QED BY <2>1, <2>3, <2>4, Zenon
<1>5. \A k \in Jobs \ {j} : Record(k)' = Record(k) BY <1>2 DEF Record, SameRecord
<1>6. Records' = [Records EXCEPT ![j].status = "ended", ![j].result = o]
  <2>. HIDE DEF Record
  <2>. QED BY <1>4, <1>5 DEF Records
<1>. QED BY <1>2, <1>3, <1>6 DEF Accounted, SameRecord, Records, Promise!Close, Promise!Running

(* What ends a job, and with which outcome; no other step is seen.         *)
LEMMA Accounts ==
  ASSUME Inv, Inv', Accounted, [Next]_vars
  PROVE  Accounted' /\ [Promise!Next]_Records
<1>0. Types /\ None \notin Jobs /\ fleet \in AFleet
      /\ \A j \in Jobs : jobs[j] \in AJob /\ jobs'[j] \in AJob /\ (fleet.job = j => jobs[j].post # "none")
  BY PluginAssumption DEF Inv, Types, Jobs, Soundness, Sound
<1>1. CASE \E j \in Jobs : StartJob(j) BY <1>1, Opened DEF Promise!Next
<1>2. ASSUME NEW j \in Jobs, fleet.job = j, fleet'.job = None, NEW o \in JobEnds, jobs'[j].outcome = o,
             jobs'[j].post # "none", \A k \in Jobs \ {j} : SameRecord(k)
      PROVE  Accounted' /\ [Promise!Next]_Records
  BY <1>2, Closed DEF Promise!Next
<1>3. ASSUME NEW j \in Jobs, PostJob(j) \/ PostAnswered(j) PROVE Accounted' /\ [Promise!Next]_Records
  <2>0. jobs[j].post \in {"sent", "taken"} BY <1>3 DEF PostJob, PostAnswered
  <2>1. ASSUME NEW x \in AJob, jobs' = [jobs EXCEPT ![j] = x], x.post # "none", x.outcome = jobs[j].outcome,
               UNCHANGED fleet
        PROVE  Accounted' /\ [Promise!Next]_Records
    <3>1. jobs'[j] = x /\ \A k \in Jobs \ {j} : jobs'[k] = jobs[k] BY <1>0, <2>1 DEF Types
    <3>. QED BY <2>0, <2>1, <3>1, Untouched DEF SameRecord
  <2>2. CASE jobs' = [jobs EXCEPT ![j] = [jobs[j] EXCEPT !.post = "taken", !.known = TRUE, !.report = "running"]]
             /\ UNCHANGED fleet
    <3>. DEFINE x == [jobs[j] EXCEPT !.post = "taken", !.known = TRUE, !.report = "running"]
    <3>1. x \in AJob /\ x.post = "taken" /\ x.outcome = jobs[j].outcome BY <1>0, Zenon DEF AJob, Posts
    <3>2. jobs' = [jobs EXCEPT ![j] = x] BY <2>2
    <3>. HIDE DEF x
    <3>. QED BY <2>1, <2>2, <3>1, <3>2
  <2>3. CASE jobs' = [jobs EXCEPT ![j].post = "running"] /\ UNCHANGED fleet
    <3>. DEFINE x == [jobs[j] EXCEPT !.post = "running"]
    <3>1. x \in AJob /\ x.post = "running" /\ x.outcome = jobs[j].outcome BY <1>0, Zenon DEF AJob, Posts
    <3>2. jobs' = [jobs EXCEPT ![j] = x] BY <2>3
    <3>. HIDE DEF x
    <3>. QED BY <2>1, <2>3, <3>1, <3>2
  <2>4. ASSUME NEW p \in {"refused", "failed"}, StartFails(j, p)
        PROVE  Accounted' /\ [Promise!Next]_Records
    <3>1. fleet'.job = None /\ \A k \in Jobs : FailedStart(j, p, k) BY <1>0, <2>4, OfFailedStart
    <3>2. \A k \in Jobs : jobs'[k].post = "none" <=> jobs[k].post = "none" BY <2>0, <3>1 DEF FailedStart
    <3>3. CASE fleet.job = None
      <4>1. \A k \in Jobs : SameRecord(k) BY <1>0, <3>1, <3>2, <3>3 DEF SameRecord, FailedStart
      <4>. QED BY <3>1, <3>3, <4>1, Untouched
    <3>4. CASE fleet.job # None
      <4>1. PICK k \in Jobs : k = fleet.job BY <1>0, <3>4 DEF AFleet
      <4>2. jobs'[k].outcome = "failed" /\ jobs'[k].post # "none" BY <1>0, <3>1, <3>2, <4>1 DEF FailedStart
      <4>3. \A i \in Jobs \ {k} : SameRecord(i) BY <3>1, <3>2, <4>1 DEF SameRecord, FailedStart
      <4>. QED BY <1>2, <3>1, <4>1, <4>2, <4>3 DEF JobEnds
    <3>. QED BY <3>3, <3>4
  <2>. QED BY <1>3, <2>2, <2>3, <2>4 DEF PostJob, PostAnswered
<1>4. CASE StopJob
  <2>1. CASE fleet.job = None BY <1>4, <2>1, Untouched DEF StopJob, SameRecord
  <2>2. CASE fleet.job # None
    <3>1. PICK j \in Jobs : j = fleet.job BY <1>0, <2>2 DEF AFleet
    <3>2. jobs' = [jobs EXCEPT ![j] = [jobs[j] EXCEPT !.outcome = "stopped", !.stop = "sent"]]
          /\ fleet'.job = None
      BY <1>0, <1>4, <2>2, <3>1 DEF StopJob, AFleet
    <3>3. jobs'[j] = [jobs[j] EXCEPT !.outcome = "stopped", !.stop = "sent"]
          /\ \A k \in Jobs \ {j} : jobs'[k] = jobs[k]
      BY <1>0, <3>2 DEF Types
    <3>4. jobs'[j].outcome = "stopped" /\ jobs'[j].post = jobs[j].post BY <1>0, <3>3, Zenon DEF AJob
    <3>. QED BY <1>0, <1>2, <3>1, <3>2, <3>3, <3>4 DEF SameRecord, JobEnds
  <2>. QED BY <2>1, <2>2
<1>5. ASSUME NEW j \in Jobs, PluginLost(j) \/ PluginSilent(j) \/ StaysDown(j) \/ StartHangs(j)
      PROVE  Accounted' /\ [Promise!Next]_Records
  <2>1. WatchdogEnds(j) \/ OrphanEnds(j) BY <1>5 DEF PluginLost, PluginSilent, StaysDown, StartHangs
  <2>2. fleet.job = j /\ fleet'.job = None BY <1>0, <2>1 DEF WatchdogEnds, OrphanEnds, AFleet
  <2>3. \E t : jobs' = [jobs EXCEPT ![j] = [jobs[j] EXCEPT !.outcome = "failed", !.stop = t]]
    <3>1. CASE WatchdogEnds(j) BY <3>1 DEF WatchdogEnds
    <3>2. CASE OrphanEnds(j)
      <4>1. [jobs[j] EXCEPT !.outcome = "failed"] = [jobs[j] EXCEPT !.outcome = "failed", !.stop = jobs[j].stop]
        BY <1>0 DEF AJob
      <4>. QED BY <3>2, <4>1 DEF OrphanEnds
    <3>. QED BY <2>1, <3>1, <3>2
  <2>4. PICK t : /\ jobs'[j] = [jobs[j] EXCEPT !.outcome = "failed", !.stop = t]
                 /\ \A k \in Jobs \ {j} : jobs'[k] = jobs[k]
    BY <1>0, <2>3 DEF Types
  <2>5. jobs'[j].outcome = "failed" /\ jobs'[j].post = jobs[j].post BY <1>0, <2>4, Zenon DEF AJob
  <2>6. \A k \in Jobs \ {j} : SameRecord(k) BY <2>4 DEF SameRecord
  <2>. QED BY <1>0, <1>2, <2>2, <2>5, <2>6 DEF JobEnds
<1>6. ASSUME NEW j \in Jobs, EndsJob(j) PROVE Accounted' /\ [Promise!Next]_Records
  <2>1. CASE UNCHANGED <<fleet, jobs>> BY <2>1, Untouched DEF SameRecord
  <2>2. CASE ~UNCHANGED <<fleet, jobs>>
    <3>1. fleet.job = j /\ fleet'.job = None /\ jobs' = [jobs EXCEPT ![j].outcome = run[j].result]
          /\ run[j].pc = "delete"
      BY <1>0, <1>6, <2>2 DEF EndsJob, AFleet
    <3>2. jobs'[j] = [jobs[j] EXCEPT !.outcome = run[j].result] /\ \A k \in Jobs \ {j} : jobs'[k] = jobs[k]
      BY <1>0, <3>1 DEF Types
    <3>3. jobs'[j].outcome = run[j].result /\ jobs'[j].post = jobs[j].post BY <1>0, <3>2, Zenon DEF AJob
    <3>4. run[j].result \in JobEnds
      <4>1. run[j] \in ARun /\ run[j].result # None
        BY <1>0, <3>1 DEF Types, Inv, Soundness, Sound
      <4>. QED BY <4>1 DEF ARun, Outcomes, JobEnds
    <3>5. \A k \in Jobs \ {j} : SameRecord(k) BY <3>2 DEF SameRecord
    <3>. QED BY <1>0, <1>2, <3>1, <3>3, <3>4, <3>5
  <2>. QED BY <2>1, <2>2
<1>7. ASSUME fleet'.job = fleet.job, \A k \in Jobs : SameRecord(k)
      PROVE  Accounted' /\ [Promise!Next]_Records
  BY <1>7, Untouched
<1>8. ASSUME NEW j \in Jobs, JobStopped(j) \/ WatchdogSendsHome(j) PROVE Accounted' /\ [Promise!Next]_Records
  <2>1. fleet'.job = fleet.job BY <1>0, <1>8 DEF JobStopped, WatchdogSendsHome, AFleet
  <2>2. \A t, b : /\ [jobs[j] EXCEPT !.stop = t].outcome = jobs[j].outcome
                  /\ [jobs[j] EXCEPT !.stop = t].post = jobs[j].post
                  /\ [jobs[j] EXCEPT !.stop = t, !.stuck = b].outcome = jobs[j].outcome
                  /\ [jobs[j] EXCEPT !.stop = t, !.stuck = b].post = jobs[j].post
    BY <1>0, Zenon DEF AJob
  <2>3. \/ \E t : jobs' = [jobs EXCEPT ![j].stop = t]
        \/ \E t, b : jobs' = [jobs EXCEPT ![j] = [jobs[j] EXCEPT !.stop = t, !.stuck = b]]
    <3>1. CASE JobStopped(j) BY <3>1, Zenon DEF JobStopped, Tell
    <3>2. CASE WatchdogSendsHome(j) BY <3>2, Zenon DEF WatchdogSendsHome
    <3>. QED BY <1>8, <3>1, <3>2
  <2>4. /\ jobs'[j].outcome = jobs[j].outcome /\ jobs'[j].post = jobs[j].post
        /\ \A k \in Jobs \ {j} : jobs'[k] = jobs[k]
    <3>1. CASE \E t : jobs' = [jobs EXCEPT ![j].stop = t]
      <4>1. PICK t : jobs' = [jobs EXCEPT ![j].stop = t] BY <3>1
      <4>2. jobs'[j] = [jobs[j] EXCEPT !.stop = t] /\ \A k \in Jobs \ {j} : jobs'[k] = jobs[k]
        BY <1>0, <4>1 DEF Types
      <4>. QED BY <2>2, <4>2
    <3>2. CASE \E t, b : jobs' = [jobs EXCEPT ![j] = [jobs[j] EXCEPT !.stop = t, !.stuck = b]]
      <4>1. PICK t, b : jobs' = [jobs EXCEPT ![j] = [jobs[j] EXCEPT !.stop = t, !.stuck = b]] BY <3>2
      <4>2. jobs'[j] = [jobs[j] EXCEPT !.stop = t, !.stuck = b] /\ \A k \in Jobs \ {j} : jobs'[k] = jobs[k]
        BY <1>0, <4>1 DEF Types
      <4>. QED BY <2>2, <4>2
    <3>. QED BY <2>3, <3>1, <3>2
  <2>. QED BY <1>7, <2>1, <2>4 DEF SameRecord
<1>9. CASE StepIn \/ Failsafe \/ LiftsOff \/ Lands \/ PersonFlies
  <2>1. jobs' = jobs /\ fleet'.job = fleet.job
    BY <1>0, <1>9 DEF StepIn, Failsafe, LiftsOff, Lands, PersonFlies, AFleet
  <2>. QED BY <1>7, <2>1 DEF SameRecord
<1>10. ASSUME NEW j \in Jobs, Thread(j) \/ Listens(j) \/ Listener(j), ~EndsJob(j)
       PROVE  Accounted' /\ [Promise!Next]_Records
  <2>1. fleet'.job = fleet.job
    <3>1. fleet' = fleet \/ \E t \in Threads : \E c : Command(j, t, c)
      BY <1>10 DEF Thread, Listens, Listener, CallsBack, CalledBack, StopsListening, Sends, Sent, Breaks,
                   Returns, Unwinds, LooksHome, Looks, SendsHome, CannotSendHome, Close, Threads
    <3>. QED BY <1>0, <3>1, CommandTyped
  <2>2. \/ jobs' = jobs
        \/ \E b : jobs' = [jobs EXCEPT ![j].stuck = b]
        \/ jobs' = [jobs EXCEPT ![j].report = run[j].result]
    BY <1>10 DEF Thread, Listens, Listener, CallsBack, CalledBack, StopsListening, Sends, Sent, Breaks,
                 Returns, Unwinds, LooksHome, Looks, SendsHome, CannotSendHome, Close
  <2>3. \A k \in Jobs : SameRecord(k)
    <3>1. CASE jobs' = jobs BY <3>1 DEF SameRecord
    <3>2. CASE \E b : jobs' = [jobs EXCEPT ![j].stuck = b]
      <4>1. PICK b : jobs'[j] = [jobs[j] EXCEPT !.stuck = b] /\ \A k \in Jobs \ {j} : jobs'[k] = jobs[k]
        BY <1>0, <3>2 DEF Types
      <4>2. jobs'[j].post = jobs[j].post /\ jobs'[j].outcome = jobs[j].outcome BY <1>0, <4>1, Zenon DEF AJob
      <4>. QED BY <4>1, <4>2 DEF SameRecord
    <3>3. CASE jobs' = [jobs EXCEPT ![j].report = run[j].result]
      <4>1. jobs'[j] = [jobs[j] EXCEPT !.report = run[j].result] /\ \A k \in Jobs \ {j} : jobs'[k] = jobs[k]
        BY <1>0, <3>3 DEF Types
      <4>2. jobs'[j].post = jobs[j].post /\ jobs'[j].outcome = jobs[j].outcome BY <1>0, <4>1, Zenon DEF AJob
      <4>. QED BY <4>1, <4>2 DEF SameRecord
    <3>. QED BY <2>2, <3>1, <3>2, <3>3
  <2>. QED BY <1>7, <2>1, <2>3
<1>11. CASE Restarts
  <2>1. fleet' = fleet /\ jobs' = [j \in Jobs |-> [jobs[j] EXCEPT !.known = FALSE]] BY <1>11 DEF Restarts
  <2>2. \A k \in Jobs : SameRecord(k) BY <1>0, <2>1 DEF AJob, SameRecord
  <2>. QED BY <1>7, <2>1, <2>2
<1>12. CASE UNCHANGED vars BY <1>7, <1>12 DEF vars, SameRecord
<1>. QED BY <1>1, <1>3, <1>4, <1>5, <1>6, <1>8, <1>9, <1>10, <1>11, <1>12 DEF Next, Thread

(* The fleet API of this module is the job ledger that FleetApi is proved  *)
(* to be: however the plugin's threads, operators, watchdog and faults     *)
(* interleave, no two jobs run at once, none ends twice, and the outcome   *)
(* of a job stays.                                                         *)
THEOREM KeepsThePromise == Spec => Promise!Spec
<1>1. Init => Accounted /\ Promise!Init
  <2>1. NewJob.post = "none" /\ NewJob.outcome = None BY DEF NewJob
  <2>. QED BY <2>1 DEF Init, Accounted, Promise!Init, Records, Record
<1>2. Inv /\ Inv' /\ Accounted /\ [Next]_vars => Accounted' /\ [Promise!Next]_Records BY Accounts
<1>. QED BY <1>1, <1>2, Invariant, PTL DEF Spec, Promise!Spec
================================================================================
