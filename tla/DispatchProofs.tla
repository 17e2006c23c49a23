---------------------------- MODULE DispatchProofs ----------------------------
(***************************************************************************)
(* Proofs about Dispatch for any number of incidents, jobs, drones and     *)
(* threads that resolve.                                                   *)
(*                                                                         *)
(* Inv is TypeOK in parts and the two invariants, with what they rest on:  *)
(* only incidents that were made are touched, an incident's job was        *)
(* started for it, and the job of an incident that a resolution has read   *)
(* to have none is a stray. Steps that leave the incidents alone and move  *)
(* nobody between a look and a write are Quiet; each other one is taken    *)
(* by itself. Stays says that a settled incident is over for good.         *)
(***************************************************************************)
EXTENDS Dispatch, TLAPS

Statuses == {"none", "new", "dispatched", "on_scene", "resolved"}
Writes == {None, "dispatched", "on_scene", "resolved"}
AnIncident == [listed: BOOLEAN, status: Statuses, drone: Drones \cup {None}, job: Jobs \cup {None}]
AVisit == [left: SUBSET Incidents, at: Incidents \cup {None}, drone: Drones \cup {None}]
AResolver == [pc: {"idle", "begin", "update", "write", "keep", "home", "delete"}, inc: Incidents \cup {None},
              drone: Drones \cup {None}, job: Jobs \cup {None}]
ALoop == [at: {"free", "update", "reopen", "letgo"}, inc: Incidents \cup {None},
          status: {None, "dispatched", "on_scene"}, drone: Drones \cup {None}]
ADrone == [job: Jobs \cup {None}, holder: {None, "dispatch", "person"}, goal: Places \cup {None}, at: Places]
AJob == [drone: Drones \cup {None}, inc: Incidents \cup {None},
         post: {"none", "sent", "running", "refused"}, stop: {"no", "sent", "told"}]
Stages == Starting \cup {"none", "begin", "climb", "goto", "fails", "reopen", "letgo", "end", "over"}
(* Stages of a thread that owes its incident nothing.                      *)
Neutral == {"none", "begin", "climb", "goto", "fails", "end", "over", "keep", "gone"}

Types ==
  /\ inc \in [Incidents -> AnIncident] /\ counter \in 0 .. MaxIncidents
  /\ fly \in [Jobs -> Stages]
  /\ visit \in AVisit /\ (visit.at # None => visit.drone # None)
  /\ arrived \subseteq Incidents /\ seen \subseteq Incidents /\ asked \subseteq Incidents
  /\ resolving \in [Resolvers -> AResolver] /\ loop \in ALoop /\ strays \subseteq Jobs
  /\ fleet \in [Drones -> ADrone] /\ jobs \in [Jobs -> AJob]
  /\ events \in 0 .. MaxEvents
  /\ \A j \in Jobs : jobs[j].post # "none" \/ jobs[j].drone # None \/ jobs[j].stop # "no" => jobs[j].inc \in Incidents

MonitorWaits == visit.at # None => resolving[Monitor].pc = "idle"

(* Only incidents that were made are flown to, resolved, visited, written. *)
Made(i) == i \in Incidents /\ i <= counter
MadeOnly ==
  /\ \A i \in Incidents : inc[i].status # "none" \/ inc[i].listed \/ inc[i].drone # None => Made(i)
  /\ \A j \in Jobs : fly[j] # "none" => jobs[j].post # "none"
  /\ \A j \in Jobs : fly[j] \notin {"none", "end", "over"} => Made(jobs[j].inc)
  /\ \A r \in Resolvers : resolving[r].pc # "idle" => Made(resolving[r].inc)
  /\ visit.at # None => Made(visit.at)
  /\ loop.at # "free" => Made(loop.inc)

(* An incident's job was started for it.                                   *)
Owned == \A i \in Incidents : inc[i].job # None => jobs[inc[i].job].inc = i /\ fly[inc[i].job] # "none"

(* A job that came after a resolution had read that there was none.        *)
Missing ==
  \A r \in Resolvers : resolving[r].pc \in {"update", "write"} /\ resolving[r].job = None =>
    inc[resolving[r].inc].job \in strays \cup {None}

Inv == Types /\ MadeOnly /\ Owned /\ MonitorWaits /\ Missing /\ NewIsFree /\ ResolvedIsOver

Stays == \A i \in Incidents : Settled(i) => Settled(i)' \/ inc'[i].status = "none"
-----------------------------------------------------------------------------
LEMMA TypesAreTypeOK == Types => TypeOK
BY DEF Types, TypeOK, AnIncident, Statuses, AVisit, AResolver, ALoop, ADrone, AJob, Stages

LEMMA NoneIsApart == None \notin Jobs /\ None \notin Drones /\ None \notin Incidents
BY DispatchAssumption DEF Jobs, Incidents

LEMMA CountsEvents ==
  ASSUME Types, Event \/ Calm
  PROVE  events' \in 0 .. MaxEvents
BY DispatchAssumption DEF Types, Event, Calm

LEMMA Ranked == Rank("new") = 0 /\ Rank("dispatched") = 1 /\ Rank("on_scene") = 2 /\ Rank("resolved") = 4
BY DEF Rank

(* What the writes of one incident leave.                                  *)
LEMMA UpdatedIs ==
  ASSUME Types, NEW i \in Incidents, NEW status \in Writes, NEW drone \in Drones \cup {None}
  PROVE  /\ Updated(i, status, drone) \in [Incidents -> AnIncident]
         /\ \A k \in Incidents \ {i} : Updated(i, status, drone)[k] = inc[k]
         /\ Updated(i, status, drone)[i].listed = inc[i].listed
         /\ Updated(i, status, drone)[i].job = inc[i].job
         /\ Updated(i, status, drone)[i].status = IF status = None THEN inc[i].status ELSE status
<1>1. inc[i] \in AnIncident BY DEF Types
<1>. DEFINE s == IF status = None THEN inc[i].status ELSE status
            d == IF drone = None THEN inc[i].drone ELSE drone
            y == [inc[i] EXCEPT !.status = s, !.drone = d]
<1>2. s \in Statuses /\ d \in Drones \cup {None} BY <1>1 DEF AnIncident, Statuses, Writes
<1>3. Updated(i, status, drone) = [inc EXCEPT ![i] = y] BY <1>1 DEF Updated, Types, AnIncident
<1>. HIDE DEF s, d
<1>4. y \in AnIncident /\ y.listed = inc[i].listed /\ y.job = inc[i].job /\ y.status = s BY <1>1, <1>2 DEF AnIncident
<1>. HIDE DEF y
<1>. QED BY <1>3, <1>4 DEF Types, s

LEMMA RenewedIs ==
  ASSUME Types, NEW i \in Incidents, NEW drone \in Drones \cup {None}
  PROVE  /\ Renewed(i, drone) \in [Incidents -> AnIncident]
         /\ \A k \in Incidents \ {i} : Renewed(i, drone)[k] = inc[k]
         /\ Renewed(i, drone)[i].listed = inc[i].listed
         /\ Renewed(i, drone)[i].job = inc[i].job
         /\ Renewed(i, drone)[i].status = "new"
<1>1. inc[i] \in AnIncident BY DEF Types
<1>. DEFINE y == [inc[i] EXCEPT !.status = "new", !.drone = drone]
<1>2. Renewed(i, drone) = [inc EXCEPT ![i] = y] BY <1>1 DEF Renewed, Types, AnIncident
<1>3. y \in AnIncident /\ y.listed = inc[i].listed /\ y.job = inc[i].job /\ y.status = "new"
  BY <1>1 DEF AnIncident, Statuses
<1>. HIDE DEF y
<1>. QED BY <1>2, <1>3 DEF Types

LEMMA JobSet ==
  ASSUME Types, NEW i \in Incidents, NEW job \in Jobs \cup {None}
  PROVE  /\ [inc EXCEPT ![i].job = job] \in [Incidents -> AnIncident]
         /\ \A k \in Incidents \ {i} : [inc EXCEPT ![i].job = job][k] = inc[k]
         /\ [inc EXCEPT ![i].job = job][i].listed = inc[i].listed
         /\ [inc EXCEPT ![i].job = job][i].drone = inc[i].drone
         /\ [inc EXCEPT ![i].job = job][i].job = job
         /\ [inc EXCEPT ![i].job = job][i].status = inc[i].status
<1>1. inc[i] \in AnIncident BY DEF Types
<1>. DEFINE y == [inc[i] EXCEPT !.job = job]
<1>2. [inc EXCEPT ![i].job = job] = [inc EXCEPT ![i] = y] BY <1>1 DEF Types, AnIncident
<1>3. y \in AnIncident /\ y.listed = inc[i].listed /\ y.job = job /\ y.status = inc[i].status /\ y.drone = inc[i].drone
  BY <1>1 DEF AnIncident
<1>. HIDE DEF y
<1>. QED BY <1>2, <1>3 DEF Types

LEMMA EndedTyped ==
  ASSUME NEW f \in ADrone
  PROVE  Ended(f) \in ADrone /\ GoesHome(f) \in ADrone
BY DEF Ended, GoesHome, ADrone, Places

LEMMA TakenTyped ==
  ASSUME NEW f \in ADrone
  PROVE  GoesHome(Taken(f)) \in ADrone
<1>1. Taken(f) \in ADrone BY DEF Taken, ADrone
<1>. QED BY <1>1, EndedTyped
-----------------------------------------------------------------------------
(* A step that leaves alone the incidents and those who resolve, and moves *)
(* nobody to where the others would have to know of it.                    *)
LEMMA Quiet ==
  ASSUME Inv, Types', MadeOnly', UNCHANGED <<inc, resolving, loop, strays>>,
         visit'.at # None => visit.at # None \/ resolving[Monitor].pc = "idle",
         \A j \in Jobs : jobs'[j].inc = jobs[j].inc \/ (fly[j] = "none" /\ fly'[j] = "none"),
         \A j \in Jobs : \/ fly'[j] = fly[j]
                         \/ fly[j] \in Neutral \cup {"open", "free"} /\ fly'[j] \in Neutral \ {"none"}
                         \/ fly[j] = "open" /\ fly'[j] = "free"
                         \/ fly[j] = "none" /\ fly'[j] = "open" /\ inc[jobs[j].inc].status # "resolved"
  PROVE  Inv' /\ Stays
<1>1. Types BY DEF Inv
<1>2. Owned' BY <1>1 DEF Inv, Owned, Neutral, Types, AnIncident
<1>3. MonitorWaits' BY DEF Inv, MonitorWaits
<1>4. Missing' BY DEF Inv, Missing
<1>5. NewIsFree' BY <1>1 DEF Inv, NewIsFree, Clearing, Neutral
<1>6. ResolvedIsOver' BY <1>1 DEF Inv, ResolvedIsOver, Neutral, Types, AnIncident
<1>7. Stays BY DEF Stays, Settled, Opening, Neutral
<1>. QED BY <1>2, <1>3, <1>4, <1>5, <1>6, <1>7 DEF Inv

(* The stages of the one thread that moves.                                *)
LEMMA FlownIs ==
  ASSUME Types, NEW j \in Jobs, NEW s \in Stages, fly' = [fly EXCEPT ![j] = s]
  PROVE  fly' \in [Jobs -> Stages] /\ fly'[j] = s /\ \A k \in Jobs \ {j} : fly'[k] = fly[k]
BY DEF Types

(* A drone is freed of its job and of who holds it.                        *)
LEMMA Unheld ==
  ASSUME Types, NEW d, fleet' = [fleet EXCEPT ![d].job = None, ![d].holder = None]
  PROVE  fleet' \in [Drones -> ADrone]
<1>1. CASE d \in Drones
  <2>. DEFINE y == [fleet[d] EXCEPT !.job = None, !.holder = None]
  <2>1. y \in ADrone BY <1>1 DEF Types, ADrone
  <2>2. fleet' = [fleet EXCEPT ![d] = y] BY <1>1 DEF Types, ADrone
  <2>. QED BY <2>1, <2>2 DEF Types
<1>2. CASE d \notin Drones BY <1>2 DEF Types
<1>. QED BY <1>1, <1>2

(* The fleet API, the drones and the bridge's memory.                      *)
LEMMA OfFleet ==
  ASSUME Inv,
         \/ \E d \in Drones, i \in Incidents : StartJob(d, i)
         \/ \E j \in Jobs : StopJob(j) \/ WatchdogEnds(j) \/ OrphanEnds(j) \/ PostFails(j)
         \/ \E d \in Drones : Moves(d) \/ PersonFlies(d)
         \/ \E i \in Incidents : HandToAI(i)
         \/ AskPosition
  PROVE  Inv' /\ Stays
<1>0. Types /\ MadeOnly BY DEF Inv
<1>1. ASSUME NEW d \in Drones, NEW i \in Incidents, StartJob(d, i) PROVE Inv' /\ Stays
  <2>1. PICK j \in Jobs : /\ jobs[j].post = "none"
                          /\ jobs' = [jobs EXCEPT ![j] = [drone |-> d, inc |-> i, post |-> "sent", stop |-> "no"]]
                          /\ fleet' = [fleet EXCEPT ![d].job = j, ![d].holder = "dispatch"]
    BY <1>1 DEF StartJob
  <2>2. /\ jobs' \in [Jobs -> AJob]
        /\ \A k \in Jobs : jobs'[k].post # "none" \/ jobs'[k].drone # None \/ jobs'[k].stop # "no" => jobs'[k].inc \in Incidents
    BY <1>0, <2>1 DEF Types, AJob
  <2>3. fleet' \in [Drones -> ADrone] BY <1>0, <2>1 DEF Types, ADrone
  <2>4. UNCHANGED <<inc, memory, fly, resolving, loop, strays>> /\ Event BY <1>1 DEF StartJob
  <2>5. Types' BY <1>0, <2>2, <2>3, <2>4, CountsEvents DEF Types, memory
  <2>6. fly[j] = "none" BY <1>0, <2>1 DEF MadeOnly
  <2>7. jobs'[j].post = "sent" /\ \A k \in Jobs \ {j} : jobs'[k] = jobs[k] BY <1>0, <2>1 DEF Types
  <2>8. MadeOnly' BY <1>0, <2>4, <2>6, <2>7 DEF MadeOnly, Made, memory
  <2>. QED BY <2>4, <2>5, <2>6, <2>7, <2>8, Quiet DEF memory
<1>2. ASSUME NEW j \in Jobs, StopJob(j) PROVE Inv' /\ Stays
  <2>1. jobs' \in [Jobs -> AJob] BY <1>0, <1>2 DEF Types, StopJob, AJob
  <2>2. PICK d \in Drones \cup {None} : d = jobs[j].drone BY <1>0 DEF Types, AJob
  <2>3. ASSUME d \in Drones
        PROVE  /\ Ended(fleet[d]) \in ADrone /\ GoesHome(Ended(fleet[d])) \in ADrone
               /\ [fleet[d] EXCEPT !.job = None, !.holder = "person"] \in ADrone
    <3>1. fleet[d] \in ADrone BY <1>0, <2>3 DEF Types
    <3>2. [fleet[d] EXCEPT !.job = None, !.holder = "person"] \in ADrone BY <3>1 DEF ADrone
    <3>. QED BY <3>1, <3>2, EndedTyped
  <2>4. fleet' \in [Drones -> ADrone] BY <1>0, <1>2, <2>2, <2>3 DEF Types, StopJob
  <2>5. UNCHANGED <<inc, memory, fly, resolving, loop, strays>> /\ Event BY <1>2 DEF StopJob
  <2>6. \A k \in Jobs : /\ jobs'[k].inc = jobs[k].inc /\ jobs'[k].post = jobs[k].post /\ jobs'[k].drone = jobs[k].drone
                        /\ jobs'[k].stop = jobs[k].stop \/ jobs[k].drone # None
    BY <1>0, <1>2 DEF StopJob, Holds, Types, AJob
  <2>7. Types' BY <1>0, <2>1, <2>4, <2>5, <2>6, CountsEvents DEF Types, memory
  <2>8. MadeOnly' BY <1>0, <2>5, <2>6 DEF MadeOnly, Made, memory
  <2>. QED BY <2>5, <2>6, <2>7, <2>8, Quiet DEF memory
<1>3. ASSUME NEW j \in Jobs, WatchdogEnds(j) PROVE Inv' /\ Stays
  <2>1. jobs' \in [Jobs -> AJob] BY <1>0, <1>3 DEF Types, WatchdogEnds, AJob
  <2>2. fleet' \in [Drones -> ADrone] BY <1>0, <1>3, EndedTyped DEF Types, WatchdogEnds
  <2>3. UNCHANGED <<inc, memory, fly, resolving, loop, strays, events>> BY <1>3 DEF WatchdogEnds
  <2>4. \A k \in Jobs : /\ jobs'[k].inc = jobs[k].inc /\ jobs'[k].post = jobs[k].post /\ jobs'[k].drone = jobs[k].drone
                        /\ jobs'[k].stop = jobs[k].stop \/ jobs[k].drone # None
    BY <1>0, <1>3 DEF WatchdogEnds, Holds, Types, AJob
  <2>5. Types' BY <1>0, <2>1, <2>2, <2>3, <2>4 DEF Types, memory
  <2>6. MadeOnly' BY <1>0, <2>3, <2>4 DEF MadeOnly, Made, memory
  <2>. QED BY <2>3, <2>4, <2>5, <2>6, Quiet DEF memory
<1>4. ASSUME NEW j \in Jobs, OrphanEnds(j) PROVE Inv' /\ Stays
  <2>1. fleet' \in [Drones -> ADrone] BY <1>0, <1>4, EndedTyped DEF Types, OrphanEnds
  <2>2. Types' BY <1>0, <1>4, <2>1 DEF Types, OrphanEnds, memory
  <2>3. MadeOnly' BY <1>0, <1>4 DEF MadeOnly, Made, Types, OrphanEnds, memory
  <2>. QED BY <1>4, <2>2, <2>3, Quiet DEF OrphanEnds, memory
<1>5. ASSUME NEW j \in Jobs, PostFails(j) PROVE Inv' /\ Stays
  <2>1. jobs' \in [Jobs -> AJob] BY <1>0, <1>5 DEF Types, PostFails, Refuses, AJob
  <2>2. fleet' \in [Drones -> ADrone] BY <1>0, <1>5 DEF Types, PostFails, Refuses, ADrone
  <2>3. UNCHANGED <<inc, memory, fly, resolving, loop, strays>> /\ (Event \/ Calm)
    BY <1>5 DEF PostFails, Refuses, Fails
  <2>4. \A k \in Jobs : /\ jobs'[k].inc = jobs[k].inc /\ jobs'[k].drone = jobs[k].drone /\ jobs'[k].stop = jobs[k].stop
                        /\ jobs'[k].post = jobs[k].post \/ (jobs[k].post = "sent" /\ jobs'[k].post = "refused")
    <3>1. jobs' = [jobs EXCEPT ![j].post = "refused"] /\ jobs[j].post = "sent" BY <1>5 DEF PostFails, Refuses
    <3>. QED BY <1>0, <3>1 DEF Types, AJob
  <2>5. Types' BY <1>0, <2>1, <2>2, <2>3, <2>4, CountsEvents DEF Types, memory
  <2>6. MadeOnly' BY <1>0, <2>3, <2>4 DEF MadeOnly, Made, memory
  <2>. QED BY <2>3, <2>4, <2>5, <2>6, Quiet DEF memory
<1>6. ASSUME NEW d \in Drones, Moves(d) PROVE Inv' /\ Stays
  <2>1. fleet' \in [Drones -> ADrone] BY <1>0, <1>6 DEF Types, Moves, ADrone
  <2>2. Types' BY <1>0, <1>6, <2>1 DEF Types, Moves, memory
  <2>3. MadeOnly' BY <1>0, <1>6 DEF MadeOnly, Made, Types, Moves, memory
  <2>. QED BY <1>6, <2>2, <2>3, Quiet DEF Moves, memory
<1>7. ASSUME NEW d \in Drones, PersonFlies(d) PROVE Inv' /\ Stays
  <2>1. fleet' \in [Drones -> ADrone] BY <1>0, <1>7 DEF Types, PersonFlies, ADrone
  <2>2. Types' BY <1>0, <1>7, <2>1, CountsEvents DEF Types, PersonFlies, memory
  <2>3. MadeOnly' BY <1>0, <1>7 DEF MadeOnly, Made, Types, PersonFlies, memory
  <2>. QED BY <1>7, <2>2, <2>3, Quiet DEF PersonFlies, memory
<1>8. ASSUME NEW i \in Incidents, HandToAI(i) PROVE Inv' /\ Stays
  <2>1. Types' BY <1>0, <1>8, CountsEvents DEF Types, HandToAI
  <2>2. MadeOnly' BY <1>0, <1>8 DEF MadeOnly, Made, Types, HandToAI
  <2>. QED BY <1>8, <2>1, <2>2, Quiet DEF HandToAI
<1>9. CASE AskPosition
  <2>1. PICK pass \in SUBSET Incidents, i \in Incidents :
          i \in ToVisit(pass) /\ visit' = [left |-> {k \in pass : k > i}, at |-> i, drone |-> inc[i].drone]
    BY <1>0, <1>9 DEF Types, AskPosition, AVisit, ToVisit
  <2>2. i \in Incidents /\ inc[i].drone # None BY <2>1 DEF ToVisit
  <2>3. inc[i] \in AnIncident BY <1>0, <2>2 DEF Types
  <2>4. visit' \in AVisit /\ visit'.drone # None BY <2>1, <2>2, <2>3 DEF AVisit, AnIncident
  <2>5. Types' BY <1>0, <1>9, <2>4 DEF Types, AskPosition
  <2>6. visit'.at = i /\ Made(i) BY <1>0, <2>1, <2>2 DEF MadeOnly
  <2>7. MadeOnly' BY <1>0, <1>9, <2>6 DEF MadeOnly, Made, AskPosition
  <2>. QED BY <1>9, <2>5, <2>7, Quiet DEF AskPosition
<1>. QED BY <1>1, <1>2, <1>3, <1>4, <1>5, <1>6, <1>7, <1>8, <1>9
-----------------------------------------------------------------------------
(* Steps of a flight's thread that leave its incident alone.               *)
LEMMA OfFlights ==
  ASSUME Inv, NEW j \in Jobs,
         TakeOff(j) \/ Climbs(j) \/ GoTo(j) \/ FlightHangs(j) \/ FlightEndsJob(j)
  PROVE  Inv' /\ Stays
<1>0. Types /\ MadeOnly BY DEF Inv
<1>1. UNCHANGED <<inc, memory, resolving, loop, jobs, strays>> /\ (Event \/ Calm)
  BY DEF TakeOff, Climbs, GoTo, FlightHangs, FlightEndsJob, Fails, Calm
<1>2. PICK s \in {"climb", "goto", "fails", "over"} :
        /\ fly' = [fly EXCEPT ![j] = s]
        /\ fly[j] \in {"begin", "climb", "goto"} \/ (fly[j] = "end" /\ s = "over")
  BY DEF TakeOff, Climbs, GoTo, FlightHangs, FlightEndsJob, Flown, FlightFails
<1>3. fly' \in [Jobs -> Stages] /\ fly'[j] = s /\ \A k \in Jobs \ {j} : fly'[k] = fly[k]
  BY <1>0, <1>2, FlownIs DEF Stages
<1>4. fleet' \in [Drones -> ADrone]
  <2>1. ASSUME NEW e, NEW goal \in Places, Commands(e, goal) PROVE fleet' \in [Drones -> ADrone]
    BY <1>0, <2>1 DEF Commands, Types, ADrone
  <2>2. CASE TakeOff(j) BY <1>0, <2>1, <2>2 DEF TakeOff, FlightFails, Types, Places
  <2>3. CASE GoTo(j)
    <3>1. jobs[j].inc \in Places BY <1>0, <2>3 DEF GoTo, MadeOnly, Made, Places
    <3>. QED BY <1>0, <2>1, <2>3, <3>1 DEF GoTo, FlightFails, Types
  <2>4. CASE FlightEndsJob(j) BY <1>0, <2>4, EndedTyped DEF FlightEndsJob, Delete, Types
  <2>5. CASE Climbs(j) \/ FlightHangs(j) BY <1>0, <2>5 DEF Climbs, FlightHangs, FlightFails, Types
  <2>. QED BY <2>2, <2>3, <2>4, <2>5
<1>5. Types' BY <1>0, <1>1, <1>3, <1>4, CountsEvents DEF Types, memory
<1>6. MadeOnly' BY <1>0, <1>1, <1>2, <1>3 DEF MadeOnly, Made, memory
<1>. QED BY <1>1, <1>2, <1>3, <1>5, <1>6, Quiet DEF memory, Neutral

(* start_job looks the incident up: it is refused, or it goes on.          *)
LEMMA OfLooks ==
  ASSUME Inv, NEW j \in Jobs, LooksUp(j) \/ LooksForJob(j)
  PROVE  Inv' /\ Stays
<1>0. Types /\ MadeOnly BY DEF Inv
<1>1. UNCHANGED <<inc, memory, resolving, loop, strays, events>>
  BY DEF LooksUp, LooksForJob, Refuses
<1>2. jobs[j].post # "none" /\ jobs[j].inc \in Incidents
  BY <1>0 DEF Types, MadeOnly, LooksUp, LooksForJob
<1>3. PICK s \in {"open", "free", "over"} :
        /\ fly' = [fly EXCEPT ![j] = s]
        /\ \/ s = "over" /\ fly[j] \in {"none", "open"}
           \/ s = "open" /\ fly[j] = "none" /\ inc[jobs[j].inc].listed /\ inc[jobs[j].inc].status # "resolved"
           \/ s = "free" /\ fly[j] = "open"
  BY DEF LooksUp, LooksForJob
<1>4. fly' \in [Jobs -> Stages] /\ fly'[j] = s /\ \A k \in Jobs \ {j} : fly'[k] = fly[k]
  BY <1>0, <1>3, FlownIs DEF Stages, Starting
<1>5. jobs' \in [Jobs -> AJob] BY <1>0 DEF LooksUp, LooksForJob, Refuses, Types, AJob
<1>6. fleet' \in [Drones -> ADrone]
  <2>1. fleet' = fleet \/ \E d : fleet' = [fleet EXCEPT ![d].job = None, ![d].holder = None]
    BY DEF LooksUp, LooksForJob, Refuses
  <2>2. CASE fleet' = fleet BY <1>0, <2>2 DEF Types
  <2>. QED BY <1>0, <2>1, <2>2, Unheld
<1>7. \A k \in Jobs : /\ jobs'[k].inc = jobs[k].inc /\ jobs'[k].drone = jobs[k].drone /\ jobs'[k].stop = jobs[k].stop
                      /\ jobs'[k].post = "none" <=> jobs[k].post = "none"
  <2>1. jobs' = jobs \/ jobs' = [jobs EXCEPT ![j].post = "refused"] BY DEF LooksUp, LooksForJob, Refuses
  <2>. QED BY <1>0, <1>2, <2>1 DEF Types, AJob
<1>8. Types' BY <1>0, <1>1, <1>4, <1>5, <1>6, <1>7 DEF Types, memory
<1>9. MadeOnly' BY <1>0, <1>1, <1>2, <1>3, <1>4, <1>7 DEF MadeOnly, Made, memory
<1>. QED BY <1>1, <1>3, <1>4, <1>7, <1>8, <1>9, Quiet DEF memory, Neutral
-----------------------------------------------------------------------------
(* Making, clearing and losing incidents.                                  *)
LEMMA OfList ==
  ASSUME Inv, Trigger \/ ClearIncidents \/ Restart
  PROVE  Inv' /\ Stays
<1>0. Types /\ MadeOnly /\ Owned /\ MonitorWaits /\ Missing /\ NewIsFree /\ ResolvedIsOver BY DEF Inv
<1>1. CASE Trigger
  <2>1. counter' \in 0 .. MaxIncidents /\ counter' = counter + 1 /\ counter \in Nat /\ counter + 1 \in Incidents
    BY <1>0, <1>1, DispatchAssumption DEF Types, Trigger, Incidents
  <2>. DEFINE y == [NoIncident EXCEPT !.listed = TRUE, !.status = "new"]
  <2>2. y \in AnIncident /\ y.status = "new" /\ y.drone = None /\ y.job = None BY DEF NoIncident, AnIncident, Statuses
  <2>3. inc' = [inc EXCEPT ![counter + 1] = y] BY <1>1 DEF Trigger
  <2>. HIDE DEF y
  <2>4. inc' \in [Incidents -> AnIncident] BY <1>0, <2>2, <2>3 DEF Types
  <2>5. Types' BY <1>0, <1>1, <2>1, <2>4 DEF Types, Trigger
  <2>6. \A k \in Incidents : inc'[k] = (IF k = counter + 1 THEN y ELSE inc[k]) BY <1>0, <2>3 DEF Types
  <2>7. inc[counter + 1].status = "none" BY <1>0, <2>1 DEF MadeOnly, Made
  <2>8. UNCHANGED <<resolving, visit, fly, jobs, loop, strays>> BY <1>1 DEF Trigger
  <2>9. \A k \in Incidents : Made(k) => Made(k)' BY <2>1 DEF Made, Incidents
  <2>10. MadeOnly' BY <1>0, <2>1, <2>6, <2>8, <2>9 DEF MadeOnly, Made
  <2>11. NewIsFree' /\ ResolvedIsOver' /\ Owned'
    BY <1>0, <2>2, <2>6, <2>8 DEF NewIsFree, ResolvedIsOver, Owned, Clearing
  <2>12. Missing' /\ MonitorWaits'
    <3>1. \A r \in Resolvers : resolving[r].pc \in {"update", "write"} => resolving[r].inc \in Incidents
      BY <1>0 DEF MadeOnly, Made
    <3>. QED BY <1>0, <2>2, <2>6, <2>8, <3>1 DEF Missing, MonitorWaits
  <2>13. Stays BY <2>6, <2>7, <2>8 DEF Stays, Settled, Opening
  <2>. QED BY <2>5, <2>10, <2>11, <2>12, <2>13 DEF Inv
<1>2. CASE ClearIncidents
  <2>1. inc' \in [Incidents -> AnIncident] BY <1>0, <1>2 DEF Types, ClearIncidents, AnIncident
  <2>2. \A i \in Incidents : /\ inc'[i].status = inc[i].status /\ inc'[i].drone = inc[i].drone
                             /\ inc'[i].job = inc[i].job /\ ~inc'[i].listed
    BY <1>0, <1>2 DEF Types, ClearIncidents, AnIncident
  <2>3. Types' BY <1>0, <1>2, <2>1, CountsEvents DEF Types, ClearIncidents, memory
  <2>4. UNCHANGED <<resolving, visit, fly, jobs, counter, loop, strays>> BY <1>2 DEF ClearIncidents, memory
  <2>5. MadeOnly' BY <1>0, <2>2, <2>4 DEF MadeOnly, Made
  <2>6. Owned' /\ MonitorWaits' /\ NewIsFree' BY <1>0, <2>2, <2>4 DEF Owned, MonitorWaits, NewIsFree
  <2>7. Missing'
    <3>1. \A r \in Resolvers : resolving[r].pc \in {"update", "write"} => resolving[r].inc \in Incidents
      BY <1>0 DEF MadeOnly, Made
    <3>. QED BY <1>0, <2>2, <2>4, <3>1 DEF Missing
  <2>8. ResolvedIsOver' BY <1>0, <2>2, <2>4 DEF ResolvedIsOver
  <2>9. Stays BY <2>2, <2>4 DEF Stays, Settled, Opening
  <2>. QED BY <2>3, <2>5, <2>6, <2>7, <2>8, <2>9 DEF Inv
<1>3. CASE Restart
  <2>1. NoIncident \in AnIncident /\ NoIncident.status = "none" /\ ~NoIncident.listed
        /\ NoIncident.drone = None /\ NoIncident.job = None
    BY DEF NoIncident, AnIncident, Statuses
  <2>2. Resting \in AResolver /\ Resting.pc = "idle" BY DEF Resting, AResolver
  <2>3. Sleeping \in AVisit /\ Sleeping.at = None BY DEF Sleeping, AVisit
  <2>4. Free \in ALoop /\ Free.at = "free" BY DEF Free, ALoop
  <2>5. fly' \in [Jobs -> Stages] /\ \A j \in Jobs : fly'[j] \in {"none", "over"} /\ (fly'[j] # "none" => fly[j] # "none")
    BY <1>3 DEF Restart, Stages
  <2>6. /\ \A i \in Incidents : inc'[i] = NoIncident
        /\ \A r \in Resolvers : resolving'[r] = Resting
        /\ visit' = Sleeping /\ loop' = Free /\ UNCHANGED jobs
    BY <1>3 DEF Restart
  <2>7. inc' \in [Incidents -> AnIncident] /\ resolving' \in [Resolvers -> AResolver] BY <1>3, <2>1, <2>2 DEF Restart
  <2>8. counter' \in 0 .. MaxIncidents BY <1>3, DispatchAssumption DEF Restart
  <2>9. Types' BY <1>0, <1>3, <2>3, <2>4, <2>5, <2>7, <2>8, CountsEvents DEF Types, Restart, Fails
  <2>10. MadeOnly' BY <1>0, <2>1, <2>2, <2>3, <2>4, <2>5, <2>6 DEF MadeOnly
  <2>11. NewIsFree' /\ ResolvedIsOver' /\ Owned' /\ MonitorWaits' /\ Missing'
    BY <2>1, <2>2, <2>3, <2>6 DEF NewIsFree, ResolvedIsOver, Owned, MonitorWaits, Missing
  <2>12. Stays BY <2>1, <2>6 DEF Stays
  <2>. QED BY <2>9, <2>10, <2>11, <2>12 DEF Inv
<1>. QED BY <1>1, <1>2, <1>3

(* One thread writes of the incident of its job, and goes on to stage s.   *)
LEMMA OneWrite ==
  ASSUME Inv, NEW j \in Jobs, NEW s \in Stages \ {"none"}, NEW i \in Incidents, i = jobs[j].inc,
         fly[j] # "none", Made(i), fly' = [fly EXCEPT ![j] = s], inc' \in [Incidents -> AnIncident],
         \A k \in Incidents \ {i} : inc'[k] = inc[k],
         UNCHANGED <<memory, resolving, loop, fleet, events>>, jobs' \in [Jobs -> AJob],
         \A k \in Jobs : /\ jobs'[k].inc = jobs[k].inc /\ jobs'[k].drone = jobs[k].drone /\ jobs'[k].stop = jobs[k].stop
                         /\ jobs'[k].post = "none" <=> jobs[k].post = "none",
         strays \subseteq strays', strays' \subseteq Jobs,
         \* what it makes of the incident
         inc'[i].job \in {None, inc[i].job, j},
         inc'[i].job = j /\ inc[i].job # j => strays' = strays \cup {j} \/ \A r \in Resolvers : ~Missed(r, i),
         inc'[i].listed /\ inc'[i].status = "new" /\ inc'[i].job # None => Clearing(i)',
         inc'[i].status = "resolved" /\ inc'[i].job # None =>
           \/ s = "claimed" /\ inc'[i].job = j
           \/ inc[i].status = "resolved" /\ inc'[i].job = inc[i].job /\ (fly[j] = "claimed" => inc[i].job # j),
         Settled(i) => Settled(i)'
  PROVE  Inv' /\ Stays
<1>0. Types /\ MadeOnly /\ Owned /\ MonitorWaits /\ Missing /\ NewIsFree /\ ResolvedIsOver BY DEF Inv
<1>1. fly' \in [Jobs -> Stages] /\ fly'[j] = s /\ \A k \in Jobs \ {j} : fly'[k] = fly[k] BY <1>0, FlownIs
<1>2. Types' BY <1>0, <1>1 DEF Types, memory
<1>3. MadeOnly' BY <1>0, <1>1 DEF MadeOnly, Made, memory
<1>4. Owned' BY <1>0, <1>1 DEF Owned, Types, AnIncident
<1>5. MonitorWaits' BY <1>0 DEF MonitorWaits, memory
<1>6. Missing'
  <2>1. SUFFICES ASSUME NEW r \in Resolvers, resolving[r].pc \in {"update", "write"}, resolving[r].job = None
                 PROVE  inc'[resolving[r].inc].job \in strays' \cup {None}
    BY DEF Missing
  <2>2. inc[resolving[r].inc].job \in strays \cup {None} /\ resolving[r].inc \in Incidents
    BY <1>0, <2>1 DEF Missing, MadeOnly, Made
  <2>3. CASE resolving[r].inc # i BY <2>2, <2>3
  <2>4. CASE resolving[r].inc = i
    <3>1. Missed(r, i) BY <2>1, <2>4 DEF Missed
    <3>. QED BY <2>2, <2>4, <3>1
  <2>. QED BY <2>3, <2>4
<1>7. NewIsFree'
  <2>1. ASSUME NEW k \in Incidents \ {i}, Clearing(k) PROVE Clearing(k)' BY <1>1, <2>1 DEF Clearing
  <2>. QED BY <1>0, <2>1 DEF NewIsFree
<1>8. ResolvedIsOver'
  <2>1. SUFFICES ASSUME NEW k \in Incidents, inc'[k].status = "resolved", inc'[k].job # None
                 PROVE  \/ inc'[k].job \in strays' \/ fly'[inc'[k].job] = "claimed"
                        \/ \E r \in Resolvers : resolving[r].pc \in {"keep", "home"} /\ resolving[r].inc = k /\ resolving[r].job # None
    BY DEF ResolvedIsOver
  <2>2. CASE s = "claimed" /\ inc'[k].job = j BY <1>1, <2>2
  <2>3. CASE inc[k].status = "resolved" /\ inc'[k].job = inc[k].job /\ (fly[j] = "claimed" => inc[k].job # j)
    <3>1. inc[k].job \in Jobs BY <1>0, <2>1, <2>3 DEF Types, AnIncident
    <3>2. \/ inc[k].job \in strays \/ fly[inc[k].job] = "claimed"
          \/ \E r \in Resolvers : resolving[r].pc \in {"keep", "home"} /\ resolving[r].inc = k /\ resolving[r].job # None
      BY <1>0, <2>1, <2>3 DEF ResolvedIsOver
    <3>3. fly[inc[k].job] = "claimed" => fly'[inc[k].job] = "claimed" BY <1>1, <2>3, <3>1
    <3>. QED BY <2>3, <3>2, <3>3
  <2>4. k # i => inc'[k] = inc[k] /\ inc[k].job # j BY <1>0, <2>1 DEF Owned
  <2>. QED BY <2>1, <2>2, <2>3, <2>4
<1>9. Stays
  <2>1. ASSUME NEW k \in Incidents \ {i}, Settled(k) PROVE Settled(k)' BY <1>1, <2>1 DEF Settled, Opening
  <2>. QED BY <2>1 DEF Stays
<1>. QED BY <1>2, <1>3, <1>4, <1>5, <1>6, <1>7, <1>8, <1>9 DEF Inv

(* start_job and _fly_to write of their incident.                          *)
LEMMA OfJobs ==
  ASSUME Inv, NEW j \in Jobs,
         Claims(j) \/ Renews(j) \/ Checks(j) \/ Dispatches(j) \/ FlightReopens(j)
  PROVE  Inv' /\ Stays
<1>0. Types /\ MadeOnly /\ Owned /\ NewIsFree /\ ResolvedIsOver BY DEF Inv
<1>1. fly[j] \notin {"none", "end", "over"}
  BY DEF Claims, Renews, Checks, Dispatches, FlightReopens
<1>2. PICK i \in Incidents : i = jobs[j].inc /\ Made(i) /\ jobs[j].post # "none" BY <1>0, <1>1 DEF MadeOnly, Made
<1>3. jobs[j].drone \in Drones \cup {None} /\ inc[i] \in AnIncident BY <1>0, <1>2 DEF Types, AJob
<1>4. CASE Claims(j)
  <2>1. /\ fly[j] = "free" /\ fly' = [fly EXCEPT ![j] = "claimed"] /\ inc' = [inc EXCEPT ![i].job = j]
        /\ UNCHANGED <<memory, resolving, loop, fleet, jobs, events>>
        /\ strays' \in {strays, strays \cup {j}}
        /\ strays' = strays \cup {j} \/ \A r \in Resolvers : ~Missed(r, i)
    BY <1>4, <1>2 DEF Claims
  <2>2. inc' \in [Incidents -> AnIncident] /\ (\A k \in Incidents \ {i} : inc'[k] = inc[k]) /\ inc'[i].job = j
    BY <1>0, <1>2, <2>1, JobSet
  <2>3. Clearing(i)'
    <3>1. fly'[j] = "claimed" BY <1>0, <2>1 DEF Types
    <3>. QED BY <2>1, <3>1, <1>2 DEF Clearing
  <2>4. ~Settled(i) BY <2>1, <1>2 DEF Settled, Opening
  <2>5. jobs' \in [Jobs -> AJob] /\ strays' \subseteq Jobs /\ strays \subseteq strays' BY <1>0, <2>1 DEF Types
  <2>6. "claimed" \in Stages \ {"none"} BY DEF Stages, Starting
  <2>. QED BY <1>1, <1>2, <2>1, <2>2, <2>3, <2>4, <2>5, <2>6, OneWrite
<1>5. CASE Renews(j)
  <2>1. /\ fly[j] = "claimed" /\ fly' = [fly EXCEPT ![j] = "new"] /\ inc' = Renewed(i, jobs[j].drone)
        /\ UNCHANGED <<memory, resolving, loop, fleet, jobs, strays, events>>
    BY <1>5, <1>2 DEF Renews
  <2>2. /\ inc' \in [Incidents -> AnIncident] /\ \A k \in Incidents \ {i} : inc'[k] = inc[k]
        /\ inc'[i].job = inc[i].job /\ inc'[i].status = "new"
    BY <1>0, <1>2, <1>3, <2>1, RenewedIs
  <2>3. Clearing(i)'
    <3>1. fly'[j] = "new" BY <1>0, <2>1 DEF Types
    <3>. QED BY <2>1, <3>1, <1>2 DEF Clearing
  <2>4. ~Settled(i) BY <2>1, <1>2 DEF Settled, Opening
  <2>5. jobs' \in [Jobs -> AJob] /\ strays' \subseteq Jobs BY <1>0, <2>1 DEF Types
  <2>6. "new" \in Stages \ {"none"} BY DEF Stages, Starting
  <2>. QED BY <1>1, <1>2, <2>1, <2>2, <2>3, <2>4, <2>5, <2>6, OneWrite
<1>6. CASE Checks(j)
  <2>1. PICK s \in {"gone", "keep", "dispatch"} :
          /\ fly[j] = "new" /\ fly' = [fly EXCEPT ![j] = s]
          /\ s = (IF ~inc[i].listed THEN "gone" ELSE IF Forward(i, "dispatched") = None THEN "keep" ELSE "dispatch")
          /\ UNCHANGED <<inc, memory, resolving, loop, fleet, jobs, strays, events>>
    BY <1>6, <1>2 DEF Checks
  <2>2. inc[i].listed /\ inc[i].status = "new" => Clearing(i)'
    <3>1. inc[i].listed /\ inc[i].status = "new" => s = "dispatch"
      <4>1. inc[i].status = "new" => Forward(i, "dispatched") = "dispatched" BY Ranked DEF Forward
      <4>. QED BY <2>1, <4>1, DispatchAssumption
    <3>2. fly'[j] = s BY <1>0, <2>1 DEF Types
    <3>. QED BY <2>1, <3>1, <3>2, <1>2 DEF Clearing
  <2>3. ~Settled(i) BY <2>1, <1>2 DEF Settled, Opening
  <2>4. jobs' \in [Jobs -> AJob] /\ strays' \subseteq Jobs /\ inc' \in [Incidents -> AnIncident] BY <1>0, <2>1 DEF Types
  <2>5. s \in Stages \ {"none"} BY DEF Stages, Starting
  <2>. QED BY <1>1, <1>2, <2>1, <2>2, <2>3, <2>4, <2>5, OneWrite
<1>7. CASE Dispatches(j)
  <2>1. /\ fly[j] \in {"dispatch", "keep", "gone"} /\ fly' = [fly EXCEPT ![j] = "begin"]
        /\ \/ inc' = Updated(i, "dispatched", jobs[j].drone) /\ fly[j] = "dispatch"
           \/ inc' = Updated(i, None, jobs[j].drone) /\ fly[j] = "keep"
           \/ inc' = inc /\ fly[j] = "gone"
        /\ jobs' = [jobs EXCEPT ![j].post = IF @ = "sent" THEN "running" ELSE @]
        /\ UNCHANGED <<memory, resolving, loop, fleet, strays, events>>
    BY <1>7, <1>2 DEF Dispatches
  <2>2. /\ inc' \in [Incidents -> AnIncident] /\ \A k \in Incidents \ {i} : inc'[k] = inc[k]
        /\ inc'[i].job = inc[i].job /\ inc'[i].listed = inc[i].listed
        /\ inc'[i].status = inc[i].status \/ (inc'[i].status = "dispatched" /\ fly[j] = "dispatch")
    <3>1. {"dispatched", None} \subseteq Writes BY DEF Writes
    <3>2. CASE inc' = inc BY <1>0, <3>2 DEF Types
    <3>3. CASE inc' # inc BY <1>0, <1>2, <1>3, <2>1, <3>1, <3>3, UpdatedIs, DispatchAssumption
    <3>. QED BY <3>2, <3>3
  <2>3. jobs' \in [Jobs -> AJob] BY <1>0, <2>1 DEF Types, AJob
  <2>4. \A k \in Jobs : /\ jobs'[k].inc = jobs[k].inc /\ jobs'[k].drone = jobs[k].drone /\ jobs'[k].stop = jobs[k].stop
                        /\ jobs'[k].post = "none" <=> jobs[k].post = "none"
    BY <1>0, <2>1 DEF Types, AJob
  <2>5. fly'[j] = "begin" /\ \A k \in Jobs \ {j} : fly'[k] = fly[k] BY <1>0, <2>1 DEF Types
  <2>6. inc'[i].listed /\ inc'[i].status = "new" /\ inc'[i].job # None => Clearing(i)'
    <3>1. SUFFICES ASSUME inc'[i].listed, inc'[i].status = "new", inc'[i].job # None PROVE Clearing(i)'
      OBVIOUS
    <3>2. Clearing(i) /\ fly[j] # "dispatch"
      <4>1. inc[i].status = "new" BY <2>2, <3>1
      <4>2. Clearing(i) BY <1>0, <1>2, <2>2, <3>1, <4>1 DEF NewIsFree
      <4>3. fly[j] # "dispatch"
        <5>1. fly[j] = "dispatch" => inc' = Updated(i, "dispatched", jobs[j].drone) BY <2>1
        <5>2. "dispatched" \in Writes BY DEF Writes
        <5>3. Updated(i, "dispatched", jobs[j].drone)[i].status = "dispatched"
          BY <1>0, <1>2, <1>3, <5>2, UpdatedIs, DispatchAssumption
        <5>. QED BY <3>1, <5>1, <5>3
      <4>. QED BY <4>2, <4>3
    <3>. QED BY <2>1, <2>4, <2>5, <3>2 DEF Clearing
  <2>7. Settled(i) => Settled(i)'
    <3>1. Settled(i) => fly[j] # "dispatch" BY <1>2 DEF Settled, Opening
    <3>. QED BY <2>1, <2>2, <2>4, <2>5, <3>1 DEF Settled, Opening
  <2>8. "begin" \in Stages \ {"none"} BY DEF Stages
  <2>9. strays' \subseteq Jobs BY <1>0, <2>1 DEF Types
  <2>. QED BY <1>1, <1>2, <2>1, <2>2, <2>3, <2>4, <2>6, <2>7, <2>8, <2>9, OneWrite
<1>8. CASE FlightReopens(j)
  <2>1. PICK s \in {"reopen", "letgo", "end"} :
          /\ fly' = [fly EXCEPT ![j] = s]
          /\ \/ fly[j] = "fails" /\ s = Reopens(i) /\ inc' = inc
             \/ fly[j] = "reopen" /\ s = "letgo" /\ inc' = Renewed(i, None)
             \/ fly[j] = "letgo" /\ s = "end" /\ inc' = LetGo(i)
          /\ UNCHANGED <<memory, resolving, loop, fleet, jobs, strays, events>>
    BY <1>8, <1>2 DEF FlightReopens, Flown, Reopens
  <2>2. /\ inc' \in [Incidents -> AnIncident] /\ \A k \in Incidents \ {i} : inc'[k] = inc[k]
        /\ inc'[i].job \in {None, inc[i].job}
        /\ inc' = inc \/ (inc'[i].status = "new" /\ s = "letgo" /\ fly[j] = "reopen")
                      \/ (inc'[i].job = None /\ inc'[i].status = inc[i].status)
        /\ fly[j] = "letgo" => inc'[i].job = None
    <3>1. CASE inc' = inc /\ fly[j] = "fails" BY <1>0, <3>1 DEF Types
    <3>2. CASE inc' = Renewed(i, None) /\ s = "letgo" /\ fly[j] = "reopen" BY <1>0, <1>2, <3>2, RenewedIs
    <3>3. CASE inc' = LetGo(i) BY <1>0, <1>2, <3>3, JobSet DEF LetGo
    <3>4. fly[j] = "letgo" => inc' = LetGo(i) BY <2>1
    <3>. QED BY <2>1, <3>1, <3>2, <3>3, <3>4
  <2>3. fly'[j] = s /\ \A k \in Jobs \ {j} : fly'[k] = fly[k] BY <1>0, <2>1 DEF Types
  <2>4. inc'[i].listed /\ inc'[i].status = "new" /\ inc'[i].job # None => Clearing(i)'
    <3>1. SUFFICES ASSUME inc'[i].listed, inc'[i].status = "new", inc'[i].job # None PROVE Clearing(i)'
      OBVIOUS
    <3>2. CASE s = "letgo" BY <2>1, <2>3, <3>2, <1>2 DEF Clearing
    <3>3. CASE inc' = inc /\ s # "letgo"
      <4>1. Clearing(i) /\ fly[j] = "fails" BY <1>0, <1>2, <2>1, <3>1, <3>3, <2>2 DEF NewIsFree
      <4>. QED BY <2>1, <2>3, <4>1 DEF Clearing
    <3>. QED BY <2>2, <3>1, <3>2, <3>3
  <2>5. Settled(i) => Settled(i)'
    <3>1. SUFFICES ASSUME Settled(i) PROVE Settled(i)'
      OBVIOUS
    <3>2. inc[i].status = "resolved" /\ fly[j] # "reopen" BY <2>1, <3>1, <1>2 DEF Settled, Opening
    <3>3. inc'[i].status = "resolved" BY <2>2, <3>2
    <3>4. s # "reopen" BY <2>1, <3>2 DEF Reopens
    <3>. QED BY <2>1, <2>3, <3>1, <3>3, <3>4 DEF Settled, Opening
  <2>6. jobs' \in [Jobs -> AJob] /\ strays' \subseteq Jobs BY <1>0, <2>1 DEF Types
  <2>7. s \in Stages \ {"none"} BY DEF Stages
  <2>8. inc'[i].job # None /\ inc'[i].status = "resolved" => inc[i].status = "resolved" /\ inc'[i].job = inc[i].job
    BY <2>2
  <2>9. inc'[i].job \in {None, inc[i].job, j} /\ ~(inc'[i].job = j /\ inc[i].job # j) /\ fly[j] \notin {"none", "claimed"}
    BY <2>1, <2>2, NoneIsApart
  <2>10. UNCHANGED <<memory, resolving, loop, fleet, jobs, strays, events>> /\ fly' = [fly EXCEPT ![j] = s] BY <2>1
  <2>. QED BY <1>2, <2>2, <2>4, <2>5, <2>6, <2>7, <2>8, <2>9, <2>10, OneWrite
<1>. QED BY <1>4, <1>5, <1>6, <1>7, <1>8
-----------------------------------------------------------------------------
(* The event loop decides on a write.                                      *)
LEMMA Decides ==
  ASSUME Inv, Types', UNCHANGED <<inc, counter, fly, resolving, strays>>, LoopFree,
         \A k \in Jobs : jobs'[k].inc = jobs[k].inc /\ (jobs'[k].post = "none" <=> jobs[k].post = "none"),
         visit'.at # None => visit' = visit,
         loop'.at # "free" => Made(loop'.inc),
         \A i \in Incidents : inc[i].status = "resolved" /\ loop'.inc = i =>
           ~(loop'.at = "reopen" \/ (loop'.at = "update" /\ loop'.status # None))
  PROVE  Inv' /\ Stays
<1>0. Types /\ MadeOnly /\ Owned /\ MonitorWaits /\ Missing /\ NewIsFree /\ ResolvedIsOver BY DEF Inv
<1>1. MadeOnly' BY <1>0 DEF MadeOnly, Made
<1>2. Owned' BY <1>0 DEF Owned, Types, AnIncident
<1>3. MonitorWaits' /\ Missing' /\ ResolvedIsOver' BY <1>0 DEF MonitorWaits, Missing, ResolvedIsOver
<1>4. NewIsFree'
  <2>1. ASSUME NEW i \in Incidents, Clearing(i) PROVE Clearing(i)' BY <2>1 DEF Clearing, LoopFree
  <2>. QED BY <1>0, <2>1 DEF NewIsFree
<1>5. Stays BY DEF Stays, Settled, Opening
<1>. QED BY <1>1, <1>2, <1>3, <1>4, <1>5 DEF Inv

(* It hears of a stop, of an arrival and from the AI.                      *)
LEMMA OfLoop ==
  ASSUME Inv,
         \/ \E j \in Jobs : JobStopped(j)
         \/ \E i \in Incidents : AIAnswers(i)
         \/ HearPosition /\ UNCHANGED resolving
  PROVE  Inv' /\ Stays
<1>0. Types /\ MadeOnly BY DEF Inv
<1>1. ASSUME NEW j \in Jobs, JobStopped(j) PROVE Inv' /\ Stays
  <2>1. PICK i : i = jobs[j].inc OBVIOUS
  <2>2. /\ LoopFree /\ UNCHANGED <<inc, memory, fly, resolving, fleet, strays, events>>
        /\ jobs' = [jobs EXCEPT ![j].stop = "told"] /\ jobs[j].stop = "sent"
        /\ \/ inc[i].listed /\ loop' = [Free EXCEPT !.at = Reopens(i), !.inc = i]
           \/ loop' = loop
    BY <1>1, <2>1 DEF JobStopped
  <2>3. \A k \in Jobs : /\ jobs'[k].inc = jobs[k].inc /\ jobs'[k].post = jobs[k].post /\ jobs'[k].drone = jobs[k].drone
                        /\ jobs'[k].stop = jobs[k].stop \/ jobs[k].stop = "sent"
    BY <1>0, <2>2 DEF Types, AJob
  <2>4. jobs' \in [Jobs -> AJob] BY <1>0, <2>2 DEF Types, AJob
  <2>5. CASE loop' = loop
    <3>1. Types' BY <1>0, <2>2, <2>3, <2>4, <2>5 DEF Types, memory
    <3>. QED BY <2>2, <2>3, <2>5, <3>1, Decides DEF memory, LoopFree
  <2>6. CASE loop' # loop
    <3>1. i \in Incidents \cup {None} BY <1>0, <2>1 DEF Types, AJob
    <3>2. i \in Incidents BY <1>0, <2>1, <2>2, <2>6 DEF Types
    <3>3. Made(i) BY <1>0, <2>2, <2>6, <3>2 DEF MadeOnly
    <3>4. loop'.inc = i /\ loop'.at = Reopens(i) /\ loop' \in ALoop BY <2>2, <2>6, <3>1 DEF Free, ALoop, Reopens
    <3>5. Types' BY <1>0, <2>2, <2>3, <2>4, <3>4 DEF Types, memory
    <3>6. inc[i].status = "resolved" => loop'.at = "letgo" BY <3>4 DEF Reopens
    <3>. QED BY <2>2, <2>3, <3>3, <3>4, <3>5, <3>6, Decides DEF memory
  <2>. QED BY <2>5, <2>6
<1>2. ASSUME NEW i \in Incidents, AIAnswers(i) PROVE Inv' /\ Stays
  <2>1. /\ LoopFree /\ UNCHANGED <<inc, counter, fly, visit, arrived, resolving, seen, fleet, jobs, strays, events>>
        /\ asked' \subseteq asked
        /\ \/ loop' = loop
           \/ inc[i].listed /\ \E d \in SentTo(i) : loop' = [at |-> "update", inc |-> i, status |-> Forward(i, "dispatched"), drone |-> d]
    BY <1>2 DEF AIAnswers
  <2>2. CASE loop' = loop
    <3>1. Types' BY <1>0, <2>1, <2>2 DEF Types
    <3>. QED BY <2>1, <2>2, <3>1, Decides DEF LoopFree
  <2>3. CASE loop' # loop
    <3>1. PICK d \in SentTo(i) : loop' = [at |-> "update", inc |-> i, status |-> Forward(i, "dispatched"), drone |-> d]
      BY <2>1, <2>3
    <3>2. d \in Drones \cup {None} BY <1>0 DEF SentTo, Types, AJob
    <3>3. Made(i) BY <1>0, <2>1, <2>3 DEF MadeOnly
    <3>4. loop'.inc = i /\ loop'.at = "update" /\ loop'.status = Forward(i, "dispatched") /\ loop' \in ALoop
      BY <3>1, <3>2 DEF ALoop, Forward
    <3>5. Types' BY <1>0, <2>1, <3>4 DEF Types
    <3>6. inc[i].status = "resolved" => loop'.status = None BY <3>4, Ranked DEF Forward
    <3>. QED BY <2>1, <3>3, <3>4, <3>5, <3>6, Decides
  <2>. QED BY <2>2, <2>3
<1>3. CASE HearPosition /\ UNCHANGED resolving
  <2>1. PICK i \in Incidents : i = visit.at /\ Made(i) /\ visit.drone \in Drones
    BY <1>0, <1>3, NoneIsApart DEF HearPosition, Types, AVisit, MadeOnly, Made
  <2>2. /\ LoopFree /\ UNCHANGED <<inc, counter, fly, resolving, seen, asked, fleet, jobs, strays, events>>
        /\ visit' = [visit EXCEPT !.at = None, !.drone = None] /\ arrived' \subseteq arrived \cup {i}
        /\ \/ loop' = loop
           \/ /\ inc[i].status = "dispatched"
              /\ loop' = [at |-> "update", inc |-> i, status |-> "on_scene", drone |-> visit.drone]
    BY <1>3, <2>1 DEF HearPosition
  <2>3. visit' \in AVisit /\ visit'.at = None BY <1>0, <2>2 DEF Types, AVisit
  <2>4. CASE loop' = loop
    <3>1. Types' BY <1>0, <2>2, <2>3, <2>4 DEF Types
    <3>. QED BY <2>2, <2>3, <2>4, <3>1, Decides DEF LoopFree
  <2>5. CASE loop' # loop
    <3>1. loop'.inc = i /\ loop' \in ALoop BY <2>1, <2>2, <2>5 DEF ALoop
    <3>2. Types' BY <1>0, <2>2, <2>3, <3>1 DEF Types
    <3>. QED BY <2>1, <2>2, <2>3, <2>5, <3>1, <3>2, Decides
  <2>. QED BY <2>4, <2>5
<1>. QED BY <1>1, <1>2, <1>3

(* ... and does what it has decided on.                                    *)
LEMMA OfLoopWrites ==
  ASSUME Inv, LoopWrites
  PROVE  Inv' /\ Stays
<1>0. Types /\ MadeOnly /\ Owned /\ MonitorWaits /\ Missing /\ NewIsFree /\ ResolvedIsOver BY DEF Inv
<1>1. PICK i \in Incidents : i = loop.inc /\ Made(i) BY <1>0 DEF LoopWrites, MadeOnly, Made
<1>2. loop \in ALoop /\ UNCHANGED <<memory, fly, resolving, fleet, jobs, strays, events>> BY <1>0 DEF LoopWrites, Types
<1>3. \/ loop.at = "update" /\ loop' = Free /\ inc' = Updated(i, loop.status, loop.drone)
      \/ loop.at = "reopen" /\ loop' = [loop EXCEPT !.at = "letgo"] /\ inc' = Renewed(i, None)
      \/ loop.at = "letgo" /\ loop' = Free /\ inc' = LetGo(i)
  BY <1>1 DEF LoopWrites
<1>4. /\ loop' \in ALoop /\ (loop'.at = "free" \/ loop.at = "reopen")
      /\ loop.at = "reopen" => loop'.at = "letgo" /\ loop'.inc = i
  BY <1>1, <1>2, <1>3 DEF Free, ALoop
<1>5. /\ inc' \in [Incidents -> AnIncident] /\ \A k \in Incidents \ {i} : inc'[k] = inc[k]
      /\ inc'[i].job \in {None, inc[i].job} /\ inc'[i].listed = inc[i].listed
      /\ loop.at = "update" => inc'[i].status = (IF loop.status = None THEN inc[i].status ELSE loop.status)
      /\ loop.at = "reopen" => inc'[i].status = "new"
      /\ loop.at = "letgo" => inc'[i].status = inc[i].status /\ inc'[i].job = None
  <2>1. CASE loop.at = "update"
    <3>1. loop.status \in Writes /\ loop.drone \in Drones \cup {None} BY <1>2 DEF ALoop, Writes
    <3>. QED BY <1>0, <1>1, <1>3, <2>1, <3>1, UpdatedIs
  <2>2. CASE loop.at = "reopen" BY <1>0, <1>1, <1>3, <2>2, RenewedIs
  <2>3. CASE loop.at = "letgo"
    <3>1. inc' = [inc EXCEPT ![i].job = None] BY <1>3, <2>3 DEF LetGo
    <3>. QED BY <1>0, <1>1, <2>3, <3>1, JobSet
  <2>. QED BY <1>3, <2>1, <2>2, <2>3
<1>6. Types' BY <1>0, <1>2, <1>4, <1>5 DEF Types, memory
<1>7. MadeOnly' BY <1>0, <1>1, <1>2, <1>4, <1>5 DEF MadeOnly, Made, memory
<1>8. Owned' BY <1>0, <1>2, <1>5 DEF Owned
<1>9. MonitorWaits' BY <1>0, <1>2 DEF MonitorWaits, memory
<1>10. Missing'
  <2>1. \A r \in Resolvers : resolving[r].pc \in {"update", "write"} => resolving[r].inc \in Incidents
    BY <1>0 DEF MadeOnly, Made
  <2>. QED BY <1>0, <1>2, <1>5, <2>1 DEF Missing
<1>11. loop.status \in {None, "dispatched", "on_scene"} BY <1>2 DEF ALoop
<1>12. NewIsFree'
  <2>1. SUFFICES ASSUME NEW k \in Incidents, inc'[k].listed, inc'[k].status = "new", inc'[k].job # None
                 PROVE  Clearing(k)'
    BY DEF NewIsFree
  <2>2. CASE k # i \/ loop.at = "update"
    <3>1. Clearing(k) /\ ~(loop.inc = k /\ loop.at = "letgo")
      <4>1. inc[k].listed /\ inc[k].status = "new" /\ inc[k].job # None
        BY <1>5, <1>11, <2>1, <2>2, NoneIsApart DEF ALoop
      <4>. QED BY <1>0, <1>1, <2>2, <4>1 DEF NewIsFree
    <3>. QED BY <1>2, <3>1 DEF Clearing
  <2>3. CASE k = i /\ loop.at = "reopen" BY <1>4, <2>3 DEF Clearing
  <2>4. CASE k = i /\ loop.at = "letgo" BY <1>5, <2>1, <2>4
  <2>. QED BY <1>3, <2>2, <2>3, <2>4
<1>13. ResolvedIsOver'
  <2>1. \A k \in Incidents : inc'[k].status = "resolved" /\ inc'[k].job # None =>
          inc[k].status = "resolved" /\ inc'[k].job = inc[k].job
    BY <1>3, <1>5, <1>11
  <2>. QED BY <1>0, <1>2, <2>1 DEF ResolvedIsOver
<1>14. Stays
  <2>1. SUFFICES ASSUME NEW k \in Incidents, Settled(k) PROVE Settled(k)'
    BY DEF Stays
  <2>2. inc'[k].status = "resolved"
    <3>1. CASE k = i
      <4>1. loop.at # "reopen" /\ (loop.at = "update" => loop.status = None) BY <1>1, <2>1, <3>1 DEF Settled, Opening
      <4>. QED BY <1>3, <1>5, <2>1, <3>1, <4>1 DEF Settled
    <3>2. CASE k # i BY <1>5, <2>1, <3>2 DEF Settled
    <3>. QED BY <3>1, <3>2
  <2>. QED BY <1>2, <1>4, <2>1, <2>2 DEF Settled, Opening
<1>. QED BY <1>6, <1>7, <1>8, <1>9, <1>10, <1>12, <1>13, <1>14 DEF Inv
-----------------------------------------------------------------------------
(* A thread that resolves becomes x, and the incident it has may change.   *)
LEMMA OneResolver ==
  ASSUME Inv, NEW r \in Resolvers, NEW x \in AResolver, resolving' = [resolving EXCEPT ![r] = x],
         UNCHANGED <<counter, fly, loop, seen, asked, jobs>>,
         visit' = visit \/ (visit' \in AVisit /\ visit'.at = None), arrived' \subseteq Incidents,
         events' \in 0 .. MaxEvents, strays \subseteq strays', strays' \subseteq Jobs,
         fleet' \in [Drones -> ADrone],
         NEW i \in Incidents, Made(i) \/ inc' = inc, inc' \in [Incidents -> AnIncident],
         \A k \in Incidents \ {i} : inc'[k] = inc[k],
         r = Monitor /\ x.pc # "idle" => visit'.at = None,
         x.pc # "idle" => x.inc = i /\ Made(i),
         \* what it makes of the incident
         inc'[i].job \in {None, inc[i].job}, inc'[i].listed = inc[i].listed,
         inc'[i].status \in {inc[i].status, "resolved"},
         x.pc \in {"update", "write"} /\ x.job = None => inc[i].job \in strays' \cup {None},
         resolving[r].pc \in {"keep", "home"} /\ resolving[r].job # None => resolving[r].inc = i,
         inc'[i].status = "resolved" /\ inc'[i].job # None =>
           \/ inc[i].job \in strays'
           \/ x.pc \in {"keep", "home"} /\ x.job # None
           \/ inc[i].status = "resolved" /\ ~(resolving[r].pc \in {"keep", "home"} /\ resolving[r].job # None)
  PROVE  Inv' /\ Stays
<1>0. Types /\ MadeOnly /\ Owned /\ MonitorWaits /\ Missing /\ NewIsFree /\ ResolvedIsOver BY DEF Inv
<1>1. resolving'[r] = x /\ \A q \in Resolvers \ {r} : resolving'[q] = resolving[q] BY <1>0 DEF Types
<1>2. resolving' \in [Resolvers -> AResolver] BY <1>0 DEF Types
<1>3. Types' BY <1>0, <1>2 DEF Types
<1>4. MadeOnly' BY <1>0, <1>1 DEF MadeOnly, Made
<1>5. Owned' BY <1>0 DEF Owned
<1>6. MonitorWaits' BY <1>0, <1>1, DispatchAssumption DEF MonitorWaits
<1>7. Missing'
  <2>1. SUFFICES ASSUME NEW q \in Resolvers, resolving'[q].pc \in {"update", "write"}, resolving'[q].job = None
                 PROVE  inc'[resolving'[q].inc].job \in strays' \cup {None}
    BY DEF Missing
  <2>2. resolving'[q].inc \in Incidents BY <1>4, <2>1 DEF MadeOnly, Made
  <2>3. inc[resolving'[q].inc].job \in strays' \cup {None}
    <3>1. CASE q = r BY <1>1, <2>1, <3>1
    <3>2. CASE q # r BY <1>0, <1>1, <2>1, <3>2 DEF Missing
    <3>. QED BY <3>1, <3>2
  <2>4. inc'[resolving'[q].inc].job \in {None, inc[resolving'[q].inc].job} BY <2>2
  <2>. QED BY <2>3, <2>4
<1>8. NewIsFree'
  <2>1. ASSUME NEW k \in Incidents, inc'[k].listed, inc'[k].status = "new", inc'[k].job # None
        PROVE  inc[k].listed /\ inc[k].status = "new" /\ inc[k].job # None
    BY <2>1
  <2>. QED BY <1>0, <2>1 DEF NewIsFree, Clearing
<1>9. ResolvedIsOver'
  <2>1. SUFFICES ASSUME NEW k \in Incidents, inc'[k].status = "resolved", inc'[k].job # None
                 PROVE  \/ inc'[k].job \in strays' \/ fly[inc'[k].job] = "claimed"
                        \/ \E q \in Resolvers : resolving'[q].pc \in {"keep", "home"} /\ resolving'[q].inc = k /\ resolving'[q].job # None
    BY DEF ResolvedIsOver
  <2>2. inc'[k].job = inc[k].job BY <2>1
  <2>3. CASE k = i /\ inc[i].job \in strays' BY <2>2, <2>3
  <2>4. CASE k = i /\ x.pc \in {"keep", "home"} /\ x.job # None BY <1>1, <2>4
  <2>5. CASE inc[k].status = "resolved" /\ ~(k = i /\ resolving[r].pc \in {"keep", "home"} /\ resolving[r].job # None)
    <3>1. \/ inc[k].job \in strays \/ fly[inc[k].job] = "claimed"
          \/ \E q \in Resolvers : resolving[q].pc \in {"keep", "home"} /\ resolving[q].inc = k /\ resolving[q].job # None
      BY <1>0, <2>1, <2>2, <2>5 DEF ResolvedIsOver
    <3>2. ASSUME NEW q \in Resolvers, resolving[q].pc \in {"keep", "home"}, resolving[q].inc = k, resolving[q].job # None
          PROVE  q # r
      BY <2>5, <3>2
    <3>. QED BY <1>1, <2>2, <3>1, <3>2
  <2>. QED BY <2>1, <2>3, <2>4, <2>5
<1>10. Stays
  <2>1. \A k \in Incidents : inc[k].status = "resolved" => inc'[k].status = "resolved" OBVIOUS
  <2>. QED BY <2>1 DEF Stays, Settled, Opening
<1>. QED BY <1>3, <1>4, <1>5, <1>6, <1>7, <1>8, <1>9, <1>10 DEF Inv

LEMMA RestingIs == Resting \in AResolver /\ Resting.pc = "idle" /\ Resting.job = None
BY DEF Resting, AResolver

(* Somebody asks for a resolution.                                         *)
LEMMA OfAsking ==
  ASSUME Inv,
         (\E r \in Resolvers, i \in Incidents : AskToResolve(r, i)) \/ (HearPosition /\ resolving' # resolving)
  PROVE  Inv' /\ Stays
<1>0. Types /\ MadeOnly /\ MonitorWaits BY DEF Inv
<1>1. \A i \in Incidents : /\ [Resting EXCEPT !.pc = "begin", !.inc = i] \in AResolver
                           /\ [Resting EXCEPT !.pc = "begin", !.inc = i].pc = "begin"
                           /\ [Resting EXCEPT !.pc = "begin", !.inc = i].inc = i
  BY DEF Resting, AResolver
<1>2. ASSUME NEW r \in Resolvers, NEW i \in Incidents, AskToResolve(r, i) PROVE Inv' /\ Stays
  <2>. DEFINE x == [Resting EXCEPT !.pc = "begin", !.inc = i]
  <2>1. /\ UNCHANGED <<inc, memory, fly, loop, fleet, jobs, strays>> /\ Event /\ r # Monitor
        /\ resolving[r].pc = "idle" /\ inc[i].listed /\ resolving' = [resolving EXCEPT ![r] = x]
    BY <1>2 DEF AskToResolve
  <2>2. x \in AResolver /\ x.pc = "begin" /\ x.inc = i BY <1>1
  <2>3. Made(i) BY <1>0, <2>1 DEF MadeOnly
  <2>4. inc' \in [Incidents -> AnIncident] /\ fleet' \in [Drones -> ADrone] /\ strays' \subseteq Jobs /\ arrived' \subseteq Incidents
    BY <1>0, <2>1 DEF Types, memory
  <2>5. events' \in 0 .. MaxEvents BY <1>0, <2>1, CountsEvents
  <2>6. UNCHANGED <<inc, counter, visit, fly, loop, seen, asked, jobs, strays>> BY <2>1 DEF memory
  <2>. HIDE DEF x
  <2>. QED BY <2>1, <2>2, <2>3, <2>4, <2>5, <2>6, OneResolver
<1>3. CASE HearPosition /\ resolving' # resolving
  <2>1. PICK i \in Incidents : i = visit.at /\ Made(i) BY <1>0, <1>3 DEF HearPosition, MadeOnly, Made
  <2>. DEFINE x == [Resting EXCEPT !.pc = "begin", !.inc = i]
  <2>2. /\ UNCHANGED <<inc, counter, fly, loop, seen, asked, fleet, jobs, strays, events>>
        /\ visit' = [visit EXCEPT !.at = None, !.drone = None] /\ arrived' \subseteq arrived
        /\ resolving' = [resolving EXCEPT ![Monitor] = x]
    BY <1>3, <2>1 DEF HearPosition
  <2>3. x \in AResolver /\ x.pc = "begin" /\ x.inc = i BY <1>1
  <2>4. resolving[Monitor].pc = "idle" /\ Monitor \in Resolvers BY <1>0, <2>1, NoneIsApart, DispatchAssumption DEF MonitorWaits
  <2>5. visit' \in AVisit /\ visit'.at = None BY <1>0, <2>2 DEF Types, AVisit
  <2>6. inc' \in [Incidents -> AnIncident] /\ fleet' \in [Drones -> ADrone] /\ strays' \subseteq Jobs /\ arrived' \subseteq Incidents
        /\ events' \in 0 .. MaxEvents
    BY <1>0, <2>2 DEF Types
  <2>. HIDE DEF x
  <2>. QED BY <2>1, <2>2, <2>3, <2>4, <2>5, <2>6, OneResolver
<1>. QED BY <1>2, <1>3

(* The thread resolves, sends home and ends the job, or is cut off.        *)
LEMMA OfResolvers ==
  ASSUME Inv, NEW r \in Resolvers,
         Resolve(r) \/ SendHome(r) \/ ResolveHangs(r) \/ ResolverEndsJob(r)
  PROVE  Inv' /\ Stays
<1>0. Types /\ MadeOnly /\ MonitorWaits /\ Missing BY DEF Inv
<1>1. resolving[r] \in AResolver BY <1>0 DEF Types
<1>2. /\ UNCHANGED <<memory, fly, loop, jobs>> /\ (Event \/ Calm)
      /\ resolving[r].pc # "idle" /\ resolving[r].inc \in Incidents /\ Made(resolving[r].inc)
  BY <1>0 DEF Resolve, SendHome, ResolveHangs, ResolverEndsJob, LetsGo, Fails, Calm, MadeOnly, Made
<1>3. /\ UNCHANGED <<counter, visit, fly, loop, seen, asked, jobs>> /\ arrived' \subseteq Incidents
      /\ events' \in 0 .. MaxEvents /\ (r = Monitor => visit'.at = None)
  <2>1. r = Monitor => visit.at = None BY <1>0, <1>2 DEF MonitorWaits
  <2>. QED BY <1>0, <1>2, <2>1, CountsEvents DEF Types, memory
<1>4. CASE Resolve(r)
  <2>1. PICK i \in Incidents : i = resolving[r].inc /\ Made(i) BY <1>2, <1>4 DEF Resolve
  <2>2. UNCHANGED <<fleet, strays>> /\ fleet' \in [Drones -> ADrone] /\ strays' \subseteq Jobs BY <1>0, <1>4 DEF Resolve, Types
  <2>3. CASE resolving[r].pc = "begin"
    <3>. DEFINE x == [pc |-> "update", inc |-> i, drone |-> inc[i].drone, job |-> inc[i].job]
    <3>1. resolving' = [resolving EXCEPT ![r] = x] /\ inc' = inc BY <1>4, <2>1, <2>3 DEF Resolve
    <3>2. inc[i] \in AnIncident /\ inc' \in [Incidents -> AnIncident] BY <1>0, <3>1 DEF Types
    <3>3. x \in AResolver /\ x.pc = "update" /\ x.inc = i /\ x.job = inc[i].job BY <3>2 DEF AnIncident, AResolver
    <3>. HIDE DEF x
    <3>. QED BY <1>3, <2>1, <2>2, <2>3, <3>1, <3>2, <3>3, OneResolver
  <2>4. CASE resolving[r].pc = "update"
    <3>1. PICK pc \in {"home", "keep", "write"} : resolving' = [resolving EXCEPT ![r].pc = pc] /\ inc' = inc
      BY <1>4, <2>4 DEF Resolve
    <3>. DEFINE x == [resolving[r] EXCEPT !.pc = pc]
    <3>2. resolving' = [resolving EXCEPT ![r] = x] BY <1>0, <1>1, <3>1 DEF Types
    <3>3. x \in AResolver /\ x.pc = pc /\ x.inc = i /\ x.job = resolving[r].job BY <1>1, <2>1 DEF AResolver
    <3>. HIDE DEF x
    <3>4. inc' \in [Incidents -> AnIncident] BY <1>0, <3>1 DEF Types
    <3>5. resolving[r].job = None => inc[i].job \in strays \cup {None} BY <1>0, <2>1, <2>4 DEF Missing
    <3>. QED BY <1>3, <2>1, <2>2, <2>4, <3>1, <3>2, <3>3, <3>4, <3>5, OneResolver
  <2>5. CASE resolving[r].pc \in {"write", "keep"}
    <3>. DEFINE x == [resolving[r] EXCEPT !.pc = "home"]
                s == IF resolving[r].pc = "write" THEN "resolved" ELSE None
    <3>1. resolving' = [resolving EXCEPT ![r].pc = "home"] /\ inc' = Updated(i, s, resolving[r].drone)
      BY <1>4, <2>1, <2>5 DEF Resolve
    <3>2. resolving' = [resolving EXCEPT ![r] = x] BY <1>0, <1>1, <3>1 DEF Types
    <3>3. x \in AResolver /\ x.pc = "home" /\ x.inc = i /\ x.job = resolving[r].job BY <1>1, <2>1 DEF AResolver
    <3>4. s \in Writes /\ resolving[r].drone \in Drones \cup {None} BY <1>1 DEF Writes, AResolver
    <3>5. s # None => s = "resolved" /\ resolving[r].pc = "write" OBVIOUS
    <3>. HIDE DEF x, s
    <3>6. /\ inc' \in [Incidents -> AnIncident] /\ \A k \in Incidents \ {i} : inc'[k] = inc[k]
          /\ inc'[i].listed = inc[i].listed /\ inc'[i].job = inc[i].job
          /\ inc'[i].status = IF s = None THEN inc[i].status ELSE s
      BY <1>0, <3>1, <3>4, UpdatedIs
    <3>7. resolving[r].pc = "write" /\ resolving[r].job = None => inc[i].job \in strays \cup {None}
      BY <1>0, <2>1 DEF Missing
    <3>8. inc'[i].status \in {inc[i].status, "resolved"} BY <3>5, <3>6
    <3>9. inc'[i].status = "resolved" /\ inc'[i].job # None =>
            \/ inc[i].job \in strays'
            \/ x.pc \in {"keep", "home"} /\ x.job # None
            \/ inc[i].status = "resolved" /\ ~(resolving[r].pc \in {"keep", "home"} /\ resolving[r].job # None)
      BY <2>2, <3>3, <3>5, <3>6, <3>7
    <3>. QED BY <1>3, <2>1, <2>2, <3>2, <3>3, <3>6, <3>8, <3>9, OneResolver
  <2>. QED BY <1>4, <2>3, <2>4, <2>5 DEF Resolve
<1>5. fleet' \in [Drones -> ADrone]
  <2>1. CASE Resolve(r) BY <1>0, <2>1 DEF Resolve, Types
  <2>2. CASE SendHome(r) \/ ResolveHangs(r)
    <3>1. PICK d \in Drones \cup {None} : d = resolving[r].drone BY <1>1 DEF AResolver
    <3>2. fleet' = fleet \/ (d \in Drones /\ fleet' = [fleet EXCEPT ![d] = GoesHome(Taken(fleet[d]))])
      BY <2>2, <3>1 DEF SendHome, ResolveHangs
    <3>. QED BY <1>0, <3>2, TakenTyped DEF Types
  <2>3. CASE ResolverEndsJob(r) BY <1>0, <2>3, EndedTyped DEF ResolverEndsJob, Delete, Types
  <2>. QED BY <2>1, <2>2, <2>3
<1>6. CASE SendHome(r)
  <2>1. PICK i \in Incidents : i = resolving[r].inc /\ Made(i) /\ resolving[r].pc = "home" BY <1>2, <1>6 DEF SendHome
  <2>2. strays' = strays /\ strays' \subseteq Jobs BY <1>0, <1>6 DEF SendHome, LetsGo, Types
  <2>3. CASE resolving[r].job = None
    <3>1. resolving' = [resolving EXCEPT ![r] = Resting] /\ inc' = inc BY <1>6, <2>3 DEF SendHome, LetsGo
    <3>2. inc' \in [Incidents -> AnIncident] BY <1>0, <3>1 DEF Types
    <3>. QED BY <1>3, <1>5, <2>1, <2>2, <2>3, <3>1, <3>2, RestingIs, OneResolver
  <2>4. CASE resolving[r].job # None
    <3>. DEFINE x == [resolving[r] EXCEPT !.pc = "delete"]
    <3>1. resolving' = [resolving EXCEPT ![r].pc = "delete"] /\ inc' = [inc EXCEPT ![i].job = None]
      BY <1>6, <2>1, <2>4 DEF SendHome, LetsGo, LetGo
    <3>2. resolving' = [resolving EXCEPT ![r] = x] BY <1>0, <1>1, <3>1 DEF Types
    <3>3. x \in AResolver /\ x.pc = "delete" /\ x.inc = i BY <1>1, <2>1 DEF AResolver
    <3>4. /\ inc' \in [Incidents -> AnIncident] /\ \A k \in Incidents \ {i} : inc'[k] = inc[k]
          /\ inc'[i].listed = inc[i].listed /\ inc'[i].job = None /\ inc'[i].status = inc[i].status
      BY <1>0, <3>1, JobSet
    <3>. HIDE DEF x
    <3>. QED BY <1>3, <1>5, <2>1, <2>2, <3>2, <3>3, <3>4, OneResolver
  <2>. QED BY <2>3, <2>4
<1>7. CASE ResolveHangs(r)
  <2>1. PICK i \in Incidents : i = resolving[r].inc /\ Made(i) /\ resolving[r].pc = "home" BY <1>2, <1>7 DEF ResolveHangs
  <2>2. resolving' = [resolving EXCEPT ![r] = Resting] /\ inc' = inc /\ strays' = strays \cup ({inc[i].job} \ {None})
    BY <1>7, <2>1 DEF ResolveHangs
  <2>3. inc[i] \in AnIncident /\ inc' \in [Incidents -> AnIncident] BY <1>0, <2>2 DEF Types
  <2>4. strays' \subseteq Jobs /\ strays \subseteq strays' /\ inc[i].job \in strays' \cup {None}
    BY <1>0, <2>2, <2>3 DEF Types, AnIncident
  <2>. QED BY <1>3, <1>5, <2>1, <2>2, <2>3, <2>4, RestingIs, OneResolver
<1>8. CASE ResolverEndsJob(r)
  <2>1. /\ resolving[r].pc = "delete" /\ resolving' = [resolving EXCEPT ![r] = Resting]
        /\ inc' = inc /\ strays' = strays
    BY <1>8 DEF ResolverEndsJob
  <2>2. inc' \in [Incidents -> AnIncident] /\ strays' \subseteq Jobs BY <1>0, <2>1 DEF Types
  <2>. QED BY <1>2, <1>3, <1>5, <2>1, <2>2, RestingIs, OneResolver
<1>. QED BY <1>4, <1>6, <1>7, <1>8
-----------------------------------------------------------------------------
LEMMA Starts == Init => Inv
<1>. SUFFICES ASSUME Init PROVE Inv
  OBVIOUS
<1>1. /\ NoIncident \in AnIncident /\ NoIncident.status = "none" /\ ~NoIncident.listed
      /\ NoIncident.drone = None /\ NoIncident.job = None
      /\ Sleeping \in AVisit /\ Sleeping.at = None /\ Free \in ALoop /\ Free.at = "free"
  BY DEF NoIncident, AnIncident, Statuses, Sleeping, AVisit, Free, ALoop
<1>2. fleet \in [Drones -> ADrone] /\ jobs \in [Jobs -> AJob]
      /\ \A j \in Jobs : jobs[j].post = "none" /\ jobs[j].drone = None /\ jobs[j].stop = "no"
  BY DEF Init, ADrone, AJob, Places
<1>3. counter \in 0 .. MaxIncidents /\ events \in 0 .. MaxEvents BY DispatchAssumption DEF Init
<1>4. Types BY <1>1, <1>2, <1>3, RestingIs DEF Init, Types, Stages
<1>5. /\ \A i \in Incidents : inc[i] = NoIncident
      /\ \A r \in Resolvers : resolving[r] = Resting
      /\ \A j \in Jobs : fly[j] = "none"
      /\ visit = Sleeping /\ loop = Free
  BY DEF Init
<1>6. NewIsFree /\ ResolvedIsOver /\ Owned BY <1>1, <1>5 DEF NewIsFree, ResolvedIsOver, Owned
<1>7. MadeOnly /\ MonitorWaits /\ Missing BY <1>1, <1>5, RestingIs DEF MadeOnly, MonitorWaits, Missing
<1>. QED BY <1>4, <1>6, <1>7 DEF Inv

LEMMA Keeps == Inv /\ [Next]_vars => Inv' /\ Stays
<1>. SUFFICES ASSUME Inv, [Next]_vars PROVE Inv' /\ Stays
  OBVIOUS
<1>1. CASE UNCHANGED vars
  <2>1. UNCHANGED <<inc, counter, visit, arrived, seen, asked, fly, resolving, loop, fleet, jobs, strays, events>>
    BY <1>1 DEF vars, memory
  <2>2. Types' /\ MadeOnly' BY <2>1 DEF Inv, Types, MadeOnly, Made
  <2>3. \A j \in Jobs : jobs'[j].inc = jobs[j].inc /\ fly'[j] = fly[j] BY <2>1
  <2>. QED BY <2>1, <2>2, <2>3, Quiet
<1>2. CASE HearPosition
  BY <1>2, OfLoop, OfAsking
<1>3. CASE Next /\ ~HearPosition
  BY <1>3, OfFleet, OfFlights, OfLooks, OfList, OfJobs, OfLoop, OfLoopWrites, OfAsking, OfResolvers
     DEF Next, Flight, PostJob, Resolver, Monitoring
<1>. QED BY <1>1, <1>2, <1>3

LEMMA Invariant == Spec => []Inv
BY Starts, Keeps, PTL DEF Spec

(* Every variable stays in its type.                                       *)
THEOREM TypeCorrect == Spec => []TypeOK
<1>1. Inv => TypeOK BY TypesAreTypeOK DEF Inv
<1>. QED BY <1>1, Invariant, PTL

(* An incident that shows as new has no job that would refuse another one, *)
(* but while a start or a reopening is at it: start_job, update_status and *)
(* _reopen of dispatch_service.py, which take no lock.                     *)
THEOREM NewIncidentsAreFree == Spec => []NewIsFree
<1>1. Inv => NewIsFree BY DEF Inv
<1>. QED BY <1>1, Invariant, PTL

(* The job of a resolved incident is about to be taken away, or is one the *)
(* resolution missed: resolve and start_job of dispatch_service.py, which  *)
(* may come between each other's reads and writes.                         *)
THEOREM ResolvedIncidentsAreOver == Spec => []ResolvedIsOver
<1>1. Inv => ResolvedIsOver BY DEF Inv
<1>. QED BY <1>1, Invariant, PTL

(* Once nobody who saw it open is about to write, no late thread, stop or  *)
(* answer opens a resolved incident again.                                 *)
THEOREM ResolvedForGood == Spec => ResolvedStays
<1>1. Inv /\ [Next]_vars => [\A i \in Incidents : Settled(i) => Settled(i)' \/ inc'[i].status = "none"]_vars
  BY Keeps DEF Stays
<1>. QED BY <1>1, Invariant, PTL DEF Spec, ResolvedStays
-----------------------------------------------------------------------------
(* Every drone's jobs as a job ledger. The service sees the fleet API do   *)
(* with them what JobLedger allows, and nothing else; here a job ends with *)
(* one outcome, since dispatch does not ask why.                           *)

Has(d, j) == jobs[j].drone = d
Runs(d, j) == fleet[d].job = j
Record(d, j) ==
  [plugin |-> IF Has(d, j) THEN "dispatch" ELSE None,
   status |-> IF ~Has(d, j) THEN "none" ELSE IF Runs(d, j) THEN "running" ELSE "ended",
   result |-> IF Has(d, j) /\ ~Runs(d, j) THEN "ended" ELSE "none"]
Records(d) == [j \in Jobs |-> Record(d, j)]
Promise(d) == INSTANCE JobLedger WITH Workers <- {"dispatch"}, Outcomes <- {"ended"}, ledger <- Records(d)

(* A drone runs jobs that were begun for it; a job not begun has no drone. *)
Assigned ==
  /\ \A d \in Drones, j \in Jobs : Runs(d, j) => Has(d, j)
  /\ \A j \in Jobs : jobs[j].post = "none" => jobs[j].drone = None

(* A job that ends.                                                        *)
LEMMA Closed ==
  ASSUME Types, NEW d \in Drones, NEW j \in Jobs, Assigned, fleet[d].job = j, fleet'[d].job = None,
         \A k \in Jobs : jobs'[k].drone = jobs[k].drone
  PROVE  Promise(d)!Close(j, "ended")
<1>1. None \notin Jobs /\ Has(d, j) /\ Has(d, j)' /\ Runs(d, j) /\ ~Runs(d, j)'
  BY NoneIsApart DEF Assigned, Has, Runs
<1>2. Record(d, j).status = "running" BY <1>1 DEF Record
<1>3. Record(d, j)' = [Record(d, j) EXCEPT !.status = "ended", !.result = "ended"]
  <2>1. Record(d, j)' \in [plugin : {"dispatch"}, status : {"ended"}, result : {"ended"}] BY <1>1 DEF Record
  <2>2. Record(d, j) \in [plugin : {"dispatch"}, status : {"running", "ended"}, result : {"none", "ended"}]
    BY <1>1 DEF Record
  <2>. HIDE DEF Record
  <2>3. [Record(d, j) EXCEPT !.status = "ended", !.result = "ended"]
        \in [plugin : {"dispatch"}, status : {"ended"}, result : {"ended"}]
    BY <2>2
  <2>4. \A R, S \in [plugin : {"dispatch"}, status : {"ended"}, result : {"ended"}] : R = S OBVIOUS
  <2>. QED BY <2>1, <2>3, <2>4, Zenon
<1>4. \A k \in Jobs \ {j} : Record(d, k)' = Record(d, k) BY <1>1 DEF Record, Has, Runs
<1>5. Records(d)' = [Records(d) EXCEPT ![j].status = "ended", ![j].result = "ended"]
  <2>. HIDE DEF Record
  <2>. QED BY <1>3, <1>4 DEF Records
<1>. QED BY <1>2, <1>5 DEF Records, Promise!Close, Promise!Running

(* A step that begins no job: each drone keeps its job or is rid of it.    *)
LEMMA NoneBegun ==
  ASSUME Types, Assigned, \A k \in Jobs : jobs'[k].drone = jobs[k].drone,
         \A k \in Jobs : jobs'[k].post = "none" => jobs[k].post = "none",
         \A d \in Drones : fleet'[d].job \in {fleet[d].job, None}
  PROVE  Assigned' /\ \A d \in Drones : [Promise(d)!Next]_(Records(d))
<1>1. Assigned' BY NoneIsApart DEF Assigned, Has, Runs
<1>2. ASSUME NEW d \in Drones PROVE [Promise(d)!Next]_(Records(d))
  <2>1. CASE fleet'[d].job = fleet[d].job
    <3>1. UNCHANGED Records(d) BY <2>1 DEF Records, Record, Has, Runs
    <3>. QED BY <3>1
  <2>2. CASE fleet'[d].job # fleet[d].job
    <3>1. fleet'[d].job = None /\ fleet[d].job \in Jobs BY <2>2 DEF Types, ADrone
    <3>2. Promise(d)!Close(fleet[d].job, "ended") BY <3>1, Closed
    <3>. QED BY <3>1, <3>2 DEF Promise!Next
  <2>. QED BY <2>1, <2>2
<1>. QED BY <1>1, <1>2

(* A job that begins is that drone's only one, and nothing to the others.  *)
LEMMA Begun ==
  ASSUME Types, Assigned, NEW d \in Drones, NEW i \in Incidents, StartJob(d, i)
  PROVE  Assigned' /\ \A e \in Drones : [Promise(e)!Next]_(Records(e))
<1>1. PICK j \in Jobs : /\ jobs[j].post = "none" /\ fleet[d].job = None
                        /\ jobs' = [jobs EXCEPT ![j] = [drone |-> d, inc |-> i, post |-> "sent", stop |-> "no"]]
                        /\ fleet' = [fleet EXCEPT ![d].job = j, ![d].holder = "dispatch"]
  BY DEF StartJob
<1>2. /\ jobs'[j].drone = d /\ jobs'[j].post = "sent" /\ \A k \in Jobs \ {j} : jobs'[k] = jobs[k]
      /\ fleet'[d].job = j /\ \A e \in Drones \ {d} : fleet'[e].job = fleet[e].job
  BY <1>1 DEF Types, ADrone
<1>3. jobs[j].drone = None /\ \A e \in Drones : ~Has(e, j) /\ ~Runs(e, j)
  BY <1>1, NoneIsApart DEF Assigned, Has, Runs
<1>4. Assigned'
  <2>1. ASSUME NEW e \in Drones, NEW k \in Jobs, Runs(e, k)' PROVE Has(e, k)'
    <3>1. CASE e = d BY <1>2, <2>1, <3>1 DEF Has, Runs
    <3>2. CASE e # d
      <4>1. Runs(e, k) /\ Has(e, k) BY <1>2, <2>1, <3>2 DEF Assigned, Runs
      <4>2. k # j BY <1>3, <4>1
      <4>. QED BY <1>2, <4>1, <4>2 DEF Has
    <3>. QED BY <3>1, <3>2
  <2>2. \A k \in Jobs : jobs'[k].post = "none" => jobs'[k].drone = None BY <1>2 DEF Assigned
  <2>. QED BY <2>1, <2>2 DEF Assigned
<1>5. Promise(d)!Open(j, "dispatch")
  <2>1. Record(d, j)' = [plugin |-> "dispatch", status |-> "running", result |-> "none"]
    BY <1>2 DEF Record, Has, Runs
  <2>2. \A k \in Jobs \ {j} : Record(d, k)' = Record(d, k) BY <1>1, <1>2, NoneIsApart DEF Record, Has, Runs
  <2>3. Records(d)' = [Records(d) EXCEPT ![j] = [plugin |-> "dispatch", status |-> "running", result |-> "none"]]
    BY <2>1, <2>2 DEF Records
  <2>4. Records(d)[j].status = "none" /\ \A k \in Jobs : Records(d)[k].status # "running"
    BY <1>1, <1>3, NoneIsApart DEF Records, Record, Runs
  <2>. QED BY <2>3, <2>4 DEF Promise!Open, Promise!Running
<1>6. ASSUME NEW e \in Drones \ {d} PROVE UNCHANGED Records(e)
  <2>1. \A k \in Jobs : Record(e, k)' = Record(e, k) BY <1>2, <1>3 DEF Record, Has, Runs
  <2>. QED BY <2>1 DEF Records
<1>. QED BY <1>4, <1>5, <1>6 DEF Promise!Next

LEMMA Ledgers ==
  ASSUME Inv, Assigned, [Next]_vars
  PROVE  Assigned' /\ \A d \in Drones : [Promise(d)!Next]_(Records(d))
<1>0. Types BY DEF Inv
<1>1. ASSUME NEW d \in Drones, NEW i \in Incidents, StartJob(d, i)
      PROVE  Assigned' /\ \A e \in Drones : [Promise(e)!Next]_(Records(e))
  BY <1>0, <1>1, Begun
<1>2. ASSUME UNCHANGED fleet \/ \A d \in Drones : fleet'[d].job \in {fleet[d].job, None},
             \A k \in Jobs : /\ jobs'[k].drone = jobs[k].drone
                             /\ jobs'[k].post = "none" => jobs[k].post = "none"
      PROVE  Assigned' /\ \A d \in Drones : [Promise(d)!Next]_(Records(d))
  BY <1>0, <1>2, NoneBegun
<1>3. \A f \in ADrone : Ended(f).job = None /\ GoesHome(f).job = f.job /\ GoesHome(Ended(f)).job = None
                        /\ GoesHome(Taken(f)).job = f.job
  BY DEF ADrone, Ended, GoesHome, Taken
<1>4. ASSUME NEW j \in Jobs, PostJob(j) \/ PostFails(j)
      PROVE  Assigned' /\ \A d \in Drones : [Promise(d)!Next]_(Records(d))
  <2>1. \/ jobs' = jobs \/ jobs' = [jobs EXCEPT ![j].post = "refused"]
        \/ jobs' = [jobs EXCEPT ![j].post = IF @ = "sent" THEN "running" ELSE @]
    BY <1>4 DEF PostJob, PostFails, LooksUp, LooksForJob, Claims, Renews, Checks, Dispatches, Refuses
  <2>2. \A k \in Jobs : jobs'[k].drone = jobs[k].drone /\ (jobs'[k].post = "none" => jobs[k].post = "none")
    BY <1>0, <2>1 DEF Types, AJob
  <2>3. fleet' = fleet \/ fleet' = [fleet EXCEPT ![jobs[j].drone].job = None, ![jobs[j].drone].holder = None]
    BY <1>4 DEF PostJob, PostFails, LooksUp, LooksForJob, Claims, Renews, Checks, Dispatches, Refuses
  <2>4. UNCHANGED fleet \/ \A d \in Drones : fleet'[d].job \in {fleet[d].job, None}
    BY <1>0, <2>3 DEF Types, ADrone
  <2>. QED BY <1>2, <2>2, <2>4
<1>5. ASSUME NEW j \in Jobs, StopJob(j) \/ WatchdogEnds(j)
      PROVE  Assigned' /\ \A d \in Drones : [Promise(d)!Next]_(Records(d))
  <2>1. \A k \in Jobs : jobs'[k].drone = jobs[k].drone /\ (jobs'[k].post = "none" => jobs[k].post = "none")
    BY <1>0, <1>5 DEF StopJob, WatchdogEnds, Types, AJob
  <2>2. \A d \in Drones : fleet'[d].job \in {fleet[d].job, None}
    <3>1. ASSUME NEW e, fleet' = [fleet EXCEPT ![e].job = None, ![e].holder = "person"]
          PROVE  \A d \in Drones : fleet'[d].job \in {fleet[d].job, None}
      BY <1>0, <3>1 DEF Types, ADrone
    <3>2. CASE StopJob(j)
      <4>1. ASSUME NEW e, \/ fleet' = [fleet EXCEPT ![e] = Ended(fleet[e])]
                          \/ fleet' = [fleet EXCEPT ![e] = GoesHome(Ended(fleet[e]))]
            PROVE  \A d \in Drones : fleet'[d].job \in {fleet[d].job, None}
        BY <1>0, <1>3, <4>1 DEF Types
      <4>. QED BY <3>1, <3>2, <4>1 DEF StopJob
    <3>3. CASE WatchdogEnds(j) BY <1>0, <1>3, <3>3 DEF WatchdogEnds, Types
    <3>. QED BY <1>5, <3>2, <3>3
  <2>. QED BY <1>2, <2>1, <2>2
<1>6. ASSUME NEW j \in Jobs, JobStopped(j)
      PROVE  Assigned' /\ \A d \in Drones : [Promise(d)!Next]_(Records(d))
  <2>1. UNCHANGED fleet /\ jobs' = [jobs EXCEPT ![j].stop = "told"] BY <1>6 DEF JobStopped
  <2>2. \A k \in Jobs : jobs'[k].drone = jobs[k].drone /\ (jobs'[k].post = "none" => jobs[k].post = "none")
    BY <1>0, <2>1 DEF Types, AJob
  <2>. QED BY <1>2, <2>1, <2>2
<1>7. ASSUME UNCHANGED jobs, UNCHANGED fleet \/ \A d \in Drones : fleet'[d].job \in {fleet[d].job, None}
      PROVE  Assigned' /\ \A d \in Drones : [Promise(d)!Next]_(Records(d))
  BY <1>2, <1>7
<1>8. ASSUME NEW j \in Jobs, OrphanEnds(j) \/ Flight(j) \/ FlightHangs(j)
      PROVE  Assigned' /\ \A d \in Drones : [Promise(d)!Next]_(Records(d))
  <2>1. UNCHANGED jobs
    BY <1>8 DEF OrphanEnds, Flight, TakeOff, Climbs, GoTo, FlightReopens, FlightEndsJob, FlightHangs
  <2>2. UNCHANGED fleet \/ \A d \in Drones : fleet'[d].job \in {fleet[d].job, None}
    <3>1. CASE OrphanEnds(j) BY <1>0, <1>3, <3>1 DEF OrphanEnds, Types
    <3>2. CASE FlightEndsJob(j) BY <1>0, <1>3, <3>2 DEF FlightEndsJob, Delete, Types
    <3>3. ASSUME NEW e, NEW goal, Commands(e, goal) PROVE \A d \in Drones : fleet'[d].job = fleet[d].job
      BY <1>0, <3>3 DEF Commands, Types, ADrone
    <3>4. CASE TakeOff(j) \/ Climbs(j) \/ GoTo(j) \/ FlightReopens(j) \/ FlightHangs(j)
      BY <3>3, <3>4 DEF TakeOff, Climbs, GoTo, FlightFails, FlightReopens, FlightHangs
    <3>. QED BY <1>8, <3>1, <3>2, <3>4 DEF Flight
  <2>. QED BY <1>7, <2>1, <2>2
<1>9. ASSUME NEW e \in Drones, Moves(e) \/ PersonFlies(e)
      PROVE  Assigned' /\ \A d \in Drones : [Promise(d)!Next]_(Records(d))
  <2>1. UNCHANGED jobs /\ \A d \in Drones : fleet'[d].job = fleet[d].job
    BY <1>0, <1>9 DEF Moves, PersonFlies, Types, ADrone
  <2>. QED BY <1>7, <2>1
<1>10. ASSUME NEW r \in Resolvers, Resolver(r) \/ ResolveHangs(r)
       PROVE  Assigned' /\ \A d \in Drones : [Promise(d)!Next]_(Records(d))
  <2>1. UNCHANGED jobs BY <1>10 DEF Resolver, Resolve, SendHome, ResolveHangs, ResolverEndsJob
  <2>2. UNCHANGED fleet \/ \A d \in Drones : fleet'[d].job \in {fleet[d].job, None}
    <3>1. CASE Resolve(r) BY <3>1 DEF Resolve
    <3>2. CASE SendHome(r) \/ ResolveHangs(r) BY <1>0, <1>3, <3>2 DEF SendHome, ResolveHangs, Types
    <3>3. CASE ResolverEndsJob(r) BY <1>0, <1>3, <3>3 DEF ResolverEndsJob, Delete, Types
    <3>. QED BY <1>10, <3>1, <3>2, <3>3 DEF Resolver
  <2>. QED BY <1>7, <2>1, <2>2
<1>11. CASE \/ Trigger \/ ClearIncidents \/ Restart \/ LoopWrites \/ Monitoring \/ UNCHANGED vars
            \/ \E r \in Resolvers, i \in Incidents : AskToResolve(r, i)
            \/ \E i \in Incidents : HandToAI(i) \/ AIAnswers(i)
  BY <1>7, <1>11
     DEF Trigger, ClearIncidents, Restart, LoopWrites, Monitoring, AskPosition, HearPosition, vars, AskToResolve, HandToAI, AIAnswers
<1>. QED BY <1>1, <1>4, <1>5, <1>6, <1>8, <1>9, <1>10, <1>11 DEF Next

(* What dispatch meets of the fleet API is, for every drone, the job       *)
(* ledger that FleetApi is proved to be: no two of its jobs run at once,   *)
(* none begins or ends twice, whatever the service, operators, watchdog    *)
(* and faults do.                                                          *)
THEOREM KeepsThePromise == ASSUME NEW d \in Drones PROVE Spec => Promise(d)!Spec
<1>1. Init => Assigned /\ Promise(d)!Init
  BY NoneIsApart DEF Init, Assigned, Has, Runs, Promise!Init, Records, Record
<1>2. Inv /\ Assigned /\ [Next]_vars => Assigned' /\ [Promise(d)!Next]_(Records(d)) BY Ledgers
<1>. QED BY <1>1, <1>2, Invariant, PTL DEF Spec, Promise!Spec
================================================================================
