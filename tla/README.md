# Drone OS: a TLA+ model

Drone OS flies PX4 drones for people, AI agents and plugins. This directory models the parts of
it that decide *who* flies, *which job* runs and *in which order* commands reach the autopilot,
model-checks them with TLC and proves the most important results with TLAPS. Paths below are
relative to the repository root (`fleet_api/app.py` is `src/fleet_api/app.py` in `PROJECT.json`).

## 1. The system

| component | source | state it keeps | operations |
|---|---|---|---|
| fleet API: control | `fleet_api/app.py` (`Control`) | holder of each drone, time of its last command, on disk | claim, release, touch, holder (expires after 15 min) |
| fleet API: jobs | `fleet_api/jobs.py` (`JobStore`) | job records, the active job of each drone, on disk | begin, update, end |
| fleet API: handlers | `fleet_api/app.py` | jobs being started (`starting_jobs`) | take/release control, start/update/end job, run a command, remove a plugin |
| fleet API: watchdog | `fleet_api/app.py` (`watch_jobs`) | since when a drone is landed, since when a plugin is lost (memory only) | `check_orphans`, `check_plugins` |
| plugin registry, accounts | `fleet_api/jobs.py`, `accounts.py` | manifests, tokens, users | install, remove, log in |
| rosbridge side | `fleet_api/fleet.py`, `flight_check.py` | last messages per drone, detection tracks, sightings | commands as ROS service calls, status, detections |
| geofence | `fleet_api/geofence.py`, `app.py`; `geofence_loader.py` | fence file; wanted, loaded and verified fence | validate, push, upload to PX4, read back, verify |
| plugin SDK | `sdk/python/droneos/plugin.py` | one job per drone: thread, stop flag, outcome | start, stop, tracked waits, end |
| plugins | `plugins/{patrol,inspect,search,follow,perimeter}` | patrol: onboard route, report, events | job functions, notes from the fleet API |
| dispatch | `dispatch/dispatch_service.py`, `bridge.py` | incidents, their drone and job; incidents seen | dispatch, arrive, resolve, job stopped, monitor |
| vehicle command queue | `drone_core/drone_agent.cpp` (`DroneAgent`) | queue, command in flight, its callbacks and timer | send (three forms), reply, time-out |
| mission manager | `drone_core/mission_manager.cpp` | mission items, status, delegation to PATROL | upload, start, pause, resume, stop, clear, progress |
| controller, OFFBOARD, failsafe | `drone_core/drone_controller*.cpp`, `offboard_control.cpp`, `failsafe_monitor.cpp` | flight phase, setpoint, failsafe | takeoff, goto, hold, land, patrol |
| onboard patrol | `drone_patrol/patrol_node.cpp` | PX4 mode, latched plan, item | activate, fly items, publish status |
| object detector, web interface, simulation, scripts, `px4_msgs`, Micro XRCE-DDS Agent | `object_detector`, `web_interface`, `gazebo`, `docker`, `Micro-XRCE-DDS-Agent`, ... | - | I/O, display, deployment, third party |

How they interact. A person or agent talks HTTP to the fleet API; so does a plugin, with its own
token, while the fleet API talks HTTP to the plugin (`POST /jobs`, `GET /jobs/{id}`,
`POST /jobs/{id}/stopped`). The fleet API reaches `drone_core` through rosbridge; a command is a
ROS service call that `drone_core` turns into one or several `VehicleCommand` requests, which
`DroneAgent` sends one at a time. `drone_core` hands a patrol route to `drone_patrol` on a latched
topic and hears its status back. The geofence loader gets the wanted fence on a latched topic and
speaks the MAVLink mission protocol with PX4. Dispatch is a client of the fleet API.

What makes it hard. Handlers declared `def` run in a thread pool, `run_command` runs on the event
loop and blocks it while it tells a plugin that its job is over, the watchdog is a thread: all
three read and write control and jobs, each read or write under its own lock and no lock across
two of them. Plugins die, hang and answer late; the API restarts with control and jobs from disk
and without its timers. In `drone_core`, PX4's replies may be late, lost or reordered, and a
callback may send further commands while its own is being closed. `drone_core` and `drone_patrol` each
hold half of a flying mission and tell each other by two topics, one latched and one with a short
queue; either may restart, and PX4 changes mode on its own. A fence goes through two latched topics and a
lossy link, with a comparison of hashes at one end and a read-back at the other; any of the four processes on
the way may restart. Dispatch and the plugins run threads that the fleet API ends from outside: each acts once more
on what it read before it hears of it.

What makes each component right is listed with its properties (section 3), what is hard to test
with its line in `PROJECT.json` ("hazards").

## 2. Modules

| module | what it is |
|---|---|
| `FleetApi` | control, jobs, handlers and watchdog of the fleet API, with plugins, drone, time and API restarts around them |
| `JobLedger` | what a job store promises: one job per drone at a time, ended once, with an outcome that stays; implemented by `FleetApi` and by the fleet API as `PluginJob` and `Dispatch` have it |
| `MCFleetApi` | `FleetApi` with named people and plugins, and their symmetry, for TLC |
| `FleetApiProofs` | theorems about `FleetApi` |
| `FleetPromiseProofs` | theorems about `FleetApi`: the watchdog spares healthy jobs; the only steps by which a takeover leaves its job, or a plugin flies on with an ended one |
| `CommandQueue` | what a queue of vehicle commands promises its senders |
| `DroneAgent` | the vehicle command queue of `drone_core`, with its clients' callbacks, the wire and the timer |
| `MCDroneAgent` | `DroneAgent` for TLC |
| `DroneAgentProofs` | theorems about `DroneAgent` |
| `MissionManager` | class `MissionManager` as a record, its methods as functions on it |
| `PatrolNode` | `drone_patrol`'s `Progress` as a record, its callbacks as functions on it |
| `PatrolMission` | a mission of one drone: `drone_core`'s handlers and timers over `MissionManager`, `drone_patrol` over `PatrolNode`, the topics between them, PX4 as both see it |
| `MCPatrolMission` | `PatrolMission` with routes and initial situations for TLC |
| `PatrolMissionProofs` | theorems about `PatrolMission`: types, phases, nothing skipped |
| `PatrolPromiseProofs` | theorems about `PatrolMission`: what finished was flown; a hold wins |
| `GeofenceSync` | the fence of a drone from the fleet API over `geofence_loader` to PX4, with the topics, the mission protocol and restarts |
| `MCGeofenceSync` | `GeofenceSync` with fences of a few items for TLC |
| `GeofenceSyncProofs` | theorem about `GeofenceSync`: what is reported is loaded |
| `Dispatch` | incidents, their jobs and the threads that fly, watch and resolve them; the bridge; the fleet API as dispatch meets it |
| `MCDispatch` | `Dispatch` for TLC |
| `DispatchProofs` | theorems about `Dispatch`, and that it implements `JobLedger` |
| `PluginJob` | the jobs of a plugin of the SDK: thread, listener, service, report, against stops and faults; run by TLC as it is |
| `PluginJobProofs` | theorems about `PluginJob`, and that it implements `JobLedger` |

### FleetApi

One drone is modelled: `Control` and `JobStore` are dictionaries keyed by the drone and no
handler touches two drones, so drones do not interact but for the length of a watchdog pass.

A step is one locked section of `Control` or `JobStore`, one call to a plugin, or one command to
the drone; anything may interleave between two steps. `req[a]` holds where the handler of client
`a` is (`pc`) and the local variables it still needs: the holder it read (`seen`), the job or plugin
it means, the result it will write. So `claimRead`/`claimWrite` are the two locked sections of
`Control.claim`; `startCheck`, `begin`, `claimForce`, `post`, `answer` are the steps of `start_job`;
`end`, `free`, `pop`, `tell` are the common tail of `stop_job`, `end_job`, `check_orphans`,
`check_plugins` and a refused start: end the job, look at the holder, release, tell the plugin.

* The event loop. `run_command` is the only `async` handler; `OnLoop` says when it holds the loop
  and `LoopFree` that a new request can be accepted. It gives the loop up only while it awaits the
  command. `tell` is a blocking call there, and the patrol plugin's `job_stopped` asks the fleet API for
  a snapshot before it answers (`noting`): that call can be served only when the loop is free, or
  times out after 5 s.
* Plugins. `knows[j]` is what the plugin knows of job `j`; `svc[p]` its HTTP service: up, down, or hung
  (accepts connections and answers nothing). A plugin whose manifest names an `onboard_mode` is in
  `Onboard`: the drone goes on with its route when the service is gone, and the plugin knows
  a job only when the drone has taken the route.
* Time. The watchdog's `landed_since` and `lost_since` are counted in passes (`OrphanPasses`,
  `LostPasses`), `JobAges` lets `JOB_ORPHAN_S` pass since a job's begin. `HoldExpires` lets 15 minutes
  without a command pass. A pass of `check_orphans` is short against a handler that is between two
  locked sections (`Between`); a start request takes less than `JOB_ORPHAN_S` and than 15 minutes.
* The world. `goal` is what the drone carries out and for which job, `armed` its arming state;
  `Lands` and `PatrolEnds` are its own steps. `Crash` restarts the fleet API.
* Left out: `update_job` (texts, links and progress only), operators, fence endpoints, the plugin
  proxy, websockets, the format on disk, the wording of replies. `refused`, `orphaned` and `lost` are one
  status (`failed`) with three reasons in the code; the model names the reasons.

### DroneAgent

State and functions correspond one to one: `agent.queue` is `pending_commands_`, `agent.inFlight`
is `command_in_flight_`, `agent.held` the stored callbacks, `agent.timer` the one-shot timer.
`Send` is the three send methods, `Reply` and `LateReply` the response callback of
`send_next_command` for the command in flight and for an older one, `TimerFires` the timer. A
callback that sends further commands (`takeoff_to` does: `FollowUps`) sends them inside the same step,
because the callback runs inside `finish_command`'s caller. `Wire` is the set of requests PX4 may
still answer, in any order or never. `agent.sent` and `told` are history: what was sent, and
what each callback heard. Commands are numbers; their fields, statistics and logs are left out.

`Queue` maps it to `CommandQueue`, which knows neither wire nor timer: `asked` is `kinds`, `over` counts the
commands sent but the one in flight (`Over`), `heard` forgets of which request an outcome is (`ToldOfItself` says that).
A reply or time-out is one `Close`, a `Send` one `Ask`; a late reply is no step at all.

### PatrolMission

`drone_core` runs a mission itself, sending setpoints in OFFBOARD and looking once a second whether a
waypoint is reached, or delegates it to the onboard mode PATROL. Both processes spin one thread, so a
callback is a step; the steps in between belong to the other process, to PX4 and to the topics.

* `mission` is the `MissionManager`; `stream` says whether `OffboardControl` sends setpoints; `heard` and `known` are
  what `DroneController` keeps of `/patrol/status`; `later` the one-shots of `run_after` that are still to come.
* `Service` is one request of a person: upload, START, RESUME, PAUSE, STOP, CLEAR, GOTO_ITEM, hold or return. A
  refused request changes nothing and is no step. The timers are `CheckWaypoint`, `OffboardGuard` and
  `PostFlightCheck`; `Answered` holds the callbacks of `patrol_start`, called with PX4's answer (`Ack`). When none comes
  (`NoAck`) `command_effect_seen` decides: these commands are plain sends, so their callback is called if `vehicle_status` shows
  the effect, and never if it does not (`Unanswered`). The mission then stays running until the 5 s engage time-out.
* `cmds` stands for `DroneAgent`: one command at a time, in order, each callback called once, as `DroneAgentProofs`
  proves of it (`ImplementsQueue`). Its retry and its hidden queue states are not repeated here.
* `latched` and `status` are the two topics: the plan is kept for a subscriber that comes later and goes with its
  publisher; the status queue drops its oldest message when it is full (`Depth`).
* `progress`, `node`, `charge`, `completed` are `drone_patrol`; `completed` is the mode's result that the executor has
  not heard yet, so that a plan or a mode change can come in between.
* PX4 is external and as small as the code's view of it: `nav` and `intent` (the mode flown and the mode last selected),
  `air`, whether `drone_patrol`'s executor is in charge (`exec`) and why it lost it (`cause`). It takes commands in order;
  it returns when the mode in charge is dead, leaves OFFBOARD without setpoints, and falls back to the selected mode
  once landed. `seen` is vehicle_status as `drone_core` last received it, older than `nav` by any time.
* Time. "5 s without engaging" and "3 ticks in a dead mode" are choices of `PostFlightCheck` (`late`, `stuck`, `idle`);
  `late` comes after every one-shot, which wait 1.1 s at most. A leg ends by reaching its point or by
  its time-out; distances are left out. The heartbeat is stale once `drone_patrol` is down and nothing it sent is left.
* Left out: a heartbeat that would change nothing in `drone_core` (it stays possible otherwise); delays of the arming and
  landing state; the topics `mission_result` and `navigator_mission_item`, which PX4 does not publish by default; the
  state DONE after the return. A restart of `drone_core` keeps `seen`.

`covered`, `replaced` and `epoch` are history: items of the current run reached or jumped over by GOTO_ITEM, whether a
plan ever came while another was flown, and how often `drone_core` restarted.

### GeofenceSync

One drone. `api` is what the fleet API has of it: the fence, whether the drone's home is known, the status last heard,
the link to rosbridge, and what each thread is about to push (`push_fences` compares and publishes in two steps, and
both the watchdog and the handlers run it). `pushed` and `report` are the two latched topics; `new` says that the
subscriber has not read the last message. `node` is the loader's side of its ROS thread, `work` its worker: `at` is
the call of `Px4Link` it is in, `doing` whether it applies or verifies, `try` the attempt, `sent` the items of this
upload, `back` what was read back.

* Messages to and from PX4 are two sequences. `_recv` takes the oldest message of the types it waits for and drops what came
  before it (`First`, `Receive`), so an answer to an earlier attempt may be taken for the present one. PX4 (`Handle`) is
  external: it keeps the items of an upload apart, swaps them in with the last one, and forgets its fence when it restarts.
* `OnFence` of a fence that `to_items` refuses reads the status in one step and writes it in the next (`TellRefused`), as the code
  does without its lock.
* `TimesOut` is every `_recv` that returns nothing: at any time for a late answer (a fault), else only when nothing is under
  way. `Connect` waits for a heartbeat and takes some of the waiting messages with it.
* A fence stands for its polygons and its height; its hash is itself. Geometry, vertices that are out of range, a heartbeat that
  does not come and the 15 s and 5 s of the worker's pace are left out: a worker that may go on goes on at any time.
* `lost` is history: PX4 restarted since the worker last began to apply.

### Dispatch

Nothing in the service is locked: the event loop, each job's thread, each `POST /jobs` and each resolution read and
write the incidents as they come. A step ends where a thread has looked at what it goes by and where it has written or
called, so that others come between a look and the write it leads to. `inc` has an incident's status, drone and job;
it keeps them after `ClearIncidents`, when only threads still hold the object. `fly[j]` is where a job's `start_job`,
then its `_fly_to` thread is; `loop` is what the event loop has decided to write (`job_stopped`, a PATCH, the
monitor's own update): it is one thread, but not alone; `visit` is the monitor between reading an incident's drone and
hearing its position; `resolving[r]` is `resolve`, run by the monitor and by operators, with the drone and job it read
at first. `fleet` and `jobs` are the fleet API as dispatch meets it: a drone's job and holder, where the drone is or
goes, and the two calls a job makes to the service (`POST /jobs`, `POST /jobs/{id}/stopped`). A call to the fleet API
is one step here: `FleetApi` has its interleavings.

* Incidents are numbered; `Restart` begins anew with the first number, while `seen`, which is the bridge's, stays.
* `HearPosition` takes 30 s on the scene to be "seen there twice". Distances, priorities, descriptions and the generator's
  choice are left out; an incident comes at any time, in either mode.
* `AIAnswers` is the bridge's PATCH: it may name any drone that was sent to the incident, late.
* `start_job` looks at the status (`LooksUp`), at the job (`LooksForJob`), notes its own (`Claims`), makes the
  incident new (`Renews`), looks at the status for the update (`Checks`) and writes it (`Dispatches`). `resolve` reads
  drone and job, looks at the status, writes it, and then sends home and lets go. `_reopen` looks, writes status and
  drone, and lets go. Each may come between the steps of another.
* One step: two writes next to each other in a line or two (status and drone), the two reads of `resolve` in its first line, and
  `job_stopped`'s look at the job with that at the status.
* A call that is not answered in time is no `DroneError`. In `_fly_to` it ends the thread (`FlightHangs`), in
  `resolve` of an operator the request, before the job is let go of (`ResolveHangs`). In the monitor it ends
  `asyncio.gather` and with it the process, which docker starts anew (`docker/vps/docker-compose.vps.yml:54`): that is
  `Restart`.
* `strays` is history: jobs noted after a resolution had read that there was none, and jobs a resolution left when it was cut off.

### PluginJob

One plugin and one drone. `jobs[j]` has the two calls from the fleet API, whether the plugin knows the job
(`running`), the outcome the fleet API recorded and the report's status; `run[j]` is the thread of `_run`: the job
function (`work`: the check before a command and the command are two steps, `Sends` and `Sent`), `_send_home` (`look`,
`back`), the report (`close`) and the DELETE. `ear[j]` is the thread of `on_sighting`. `StepIn` and `StopJob` are an
operator's request, which acts first and ends the job later.

* `POST /jobs` is a request and an answer (`PostJob`, `PostAnswered`): an answer that is late or lost is a failed
  start for the fleet API, of a job the plugin runs. `StartFails` ends the job the drone has by then and releases the
  drone, whoever holds it.
* The watchdog ends a job the plugin does not know (`PluginLost`), and one it runs but does not answer for, or answers
  5xx (`PluginSilent`). Then it sends an armed drone home (`WatchdogSendsHome`) and posts the stop: the report of such
  a job says stopped, the fleet API failed.

* A job function is any sequence of a climb and further commands which may break anywhere and which ends by sending the drone
  home, as the functions of `inspect`, `search`, `follow` and `perimeter` do.
* The drone is on the ground, `rising`, in the air or coming down (`home`); a person who flies it does not leave it in
  the air. It is rising from the command that has it fly until `takeoff_time` is set: armed, and on the ground for
  `_send_home`, which leaves it alone. PX4 may disarm it instead (`LiftsOff`). A command reported as failed was
  obeyed, then and there, or not at all (`Sent`).
* `late` and `strays` are history: commands accepted after the plugin was told of the stop, and jobs that got a
  command through when the drone was not theirs any more, whose listener did after its thread's work, or whose failed
  start took the drone from a person. `stuck` notes a drone that could not be sent home, by its job or by the
  watchdog, or that its job saw rising and left.

## 3. Runs

| run | properties | what it shows |
|---|---|---|
| `fleet_jobs` | `StoreConsistent`, `StartingSound`, `LedgerSpec`, `TakeoverEndsJob` | two people, one plugin, two jobs, holds that expire, refusals, removal of the plugin: the store is a job ledger, `starting_jobs` is exact, and a takeover leaves its job only in the ways `FoundFree` and `Dropped` name |
| `fleet_stop` | `TypeOK`, `NoZombie`, `HealthyJobSurvives` | a person takes over, ends, lands, moves; the plugin's service dies or hangs; the API restarts once; the watchdog runs: a plugin is left flying untold only in the ways the property names |
| `fleet_watch` | `LandedJobEnds`, `LostJobEnds`, `LostDroneComesDown` | the watchdog with dying plugins and one API restart, under fairness |
| `fleet_served` | `RequestsEnd` | the patrol plugin, whose note calls back, hangs and refusals, under fairness |
| `agent_queue` | `TypeOK`, `InOrder`, `NoStall`, `TimerOfInFlight`, `ToldOnce`, `ToldOfItself`, `QueueSpec`, `EveryCommandCloses` | four commands of any kinds with callbacks that send more: order, callbacks, the abstract queue |
| `mission_patrol` | `TypeOK`, `OnePhase`, `NothingSkipped`, `HoldIsObeyed`, `FinishedMeansFlown` | three requests of all kinds on a route of two points and the return, from the ground, the air, with and without `drone_patrol` |
| `mission_faults` | `NeverAbandoned`, `LeavesDeadMode` | upload and START with one fault anywhere, under fairness |
| `fence_sync` | `ReportedIsLoaded`, `Settles` | one change of the fence and one fault anywhere, under fairness |
| `dispatch` | `TypeOK`, `NewIsFree`, `ResolvedIsOver`, `ResolvedStays`, `JobEndsWithIncident`, `StayerResolves` | one incident, two jobs, two that resolve, three events (start, hand-over to the AI, stop, resolve, clear, flight of a person, restart, time-out, lost or refused request), under fairness |
| `plugin_job` | `TypeOK`, `AtMostOneLate`, `ResultsAgree`, `StoppedEnds`, `JobLeavesFleet`, `FailedComesDown` | one job with its listener and four events (a person's deeds, refusals, failed reads, lost requests and answers, a silent plugin, a failsafe, restarts), under fairness |
| `mission_pause`, `fence_reconnect` | `PauseHolds`, `KeptInStep` | what a document says and the code does not do (section 5) |

Bounds. Two people and two jobs suffice for the races on one drone: a race here is between two handlers, a third only
repeats a role, and a second job is what a handler left over from the first can hit. `fleet_stop` has one person and
one job, because it is about the plugin, the watchdog and a restart as the other actors: a job ended in place of
another (`EndsAnother`) cannot happen there, and is covered by the theorem. `fleet_jobs` has no restart, so that
`Dropped` is the theorem's too. `LostPasses = 1` and `OrphanPasses` of 1 or 2 are the smallest that tell "seen once"
from "seen long enough"; `fleet_watch` takes two so that a reset of the count can be told from none. One restart
(`MaxCrashes = 1`) comes at any point of any handler. Four commands are one in flight, one queued behind it and two
sent from callbacks. Three requests (`mission_patrol`) are an upload, a start and one that meets the start under way;
two points tell "behind" from "ahead"; a status queue of two can hold a stale status and a newer one, and of one
(`mission_faults`) loses all but the last. One fault suffices for a fault at any point of a mission: a second one only
ends what the first left. `NothingSkipped` and `FinishedMeansFlown` are not repeated in `mission_faults`, since they
are proved with faults. `fence_sync` has fences of two items, so that a half-sent one differs from both, one too big
for PX4, two attempts per request, so that an answer to the first can meet the second, and one fault, at any message.
`dispatch` has one incident and two jobs: the second job is what a thread left over from the first can hit, and the
threads of one incident share nothing with those of another but a drone; its three properties of an incident's record
are proved for any number. `plugin_job` has one job, because a plugin's jobs share only the drone and the fleet API
ends one before it begins the next; `OneLateCommand` and `RecordsAgree` are proved for any number. The safety
properties of `mission_patrol` and `agent_queue`, and `TakeoverEndsJob` and `NoZombie`, and `HealthyJobSurvives` and
`ReportedIsLoaded` under the hypotheses of section 4, are proved without these bounds. `CHECK_DEADLOCK FALSE` is in
`agent_queue`, `fence_sync`, `dispatch` and `plugin_job`: there the system really ends, when all commands are over and
PX4 owes nothing, the worker's thread is dead, or all jobs, incidents and events of the bounds are used up.

Fairness. `FleetApi`: weak fairness for the watchdog, the drone's own steps and for time; strong fairness for each
client's handler, since the event loop and the thread pool serve what waits in order, so a handler that is ready again
and again is served. People, plugins, faults and crashes have none. `DroneAgent`: weak fairness of the timer only. PX4
owes no reply. `PatrolMission`: weak fairness of `drone_core`'s timers and one-shots, of the delivery of statuses, of
`vehicle_status`, of `drone_patrol`'s thread, and of PX4 answering and noticing a dead mode; operators, faults,
take-offs and `drone_patrol`'s return are not fair. `GeofenceSync`: weak fairness of the pushers' threads, the topics,
the loader's two threads and timer, PX4 answering, and a home that becomes known again; settings and faults have none.
`Dispatch` and `PluginJob`: weak fairness of threads, of requests under way, of the watchdog and of a drone that moves
or lands; people and faults have none, and a request that is lost is lost for good.

## 4. Theorems

`FleetApiProofs` (for every set of people and plugins and every number of jobs):

* `TypeCorrect`, `StoreIsConsistent`, `StartingIsSound`: the invariants of the runs.
* `ImplementsLedger`: `Spec => LedgerSpec`, every step is a step of the ledger or leaves the jobs alone.

The invariants are not inductive by themselves. That the store stays consistent rests on which job a
handler means, so `IInv` says for every handler what its local variables can be at each `pc`
(`RequestsSound`), that the store is consistent and that ended jobs have an outcome (`StoreSound`), and
that the watchdog's counters stay below their limits because they are reset when the job ends
(`TimersTyped`), besides the types of the rest. `Inductive` proves `Spec => []IInv` by one lemma per
group of steps. `StartingIsSound` adds `StartsSound`: the starting jobs are those of the handlers at
`post` and `answer`, and no two handlers start the same job.

`FleetPromiseProofs` (for every set of people and plugins, any number of jobs, holds that expire, services that die and
restarts of the API): `HealthySurvive`: `Spec => []HealthyJobSurvives`. The danger is a miss that was none, seen before the
plugin had the job, and still on the books when the job runs. `HealthInv` therefore follows a job from `begin` on: a miss
seen before the job is posted is a first one (`Unseen`), and a job old enough to be ended is one its plugin never takes up
again (`LostAreDead`). Its two hypotheses are where the code ends healthy jobs, or could: the plugin
is not removed (`remove_plugin` leaves the watchdog no plugin to ask), and a plugin with an onboard mode neither hangs nor
meets a restart of the API while it is in `POST /jobs` (it answers for the job only when the drone has taken the route, and
once nobody waits the job is no longer exempt).

The other two theorems of `FleetPromiseProofs` assume nothing: any people and plugins, holds that expire or are
released by force, plugins that die, hang or are removed, restarts at any point of any handler. The code does let a
takeover leave its job and a plugin fly on untold (section 5), so the properties name every step by which that comes
about, and the theorems say that there is no other.

* `TakeoversEndJobs`: `Spec => TakeoverEndsJob`. A person has the drone of a running job that nobody is about to end
  (`Unended`) only since a claim that had read the drone as free or as the person's own, or since a restart of the API
  lost the request that was to end the job. So a forced takeover that finds the plugin in control ends the job,
  however it meets starts, releases, refusals and the watchdog.
* `NobodyFliesOn`: `Spec => NoZombie`. A plugin runs a job that is over, with nobody about to tell it (`FliesOn`),
  only since its `POST /jobs` arrived after the end, a handler ended the job in place of the one it had looked at, a
  restart lost the telling, or the plugin was removed or hung when it was told. It speaks of plugins that fly the
  drone themselves: a plugin with an onboard mode only makes a note when it is told, and an orphan's plugin is not
  told.

`FlyInv` is the invariant of the second. `Fact` says of every handler, at every `pc`, what its local variables have to
do with the store: a start's job is recorded, with its plugin; the teller of a job means that job's plugin, or has
found it removed; and a plugin that asks for the end of its job, or whose start was refused, has given it up for good
(`Untold`). `KnowsSound` and `Unposted` say that no plugin has a job that was not begun or whose `POST /jobs` is still
to come. Every step then forgets no job and revives none but by a late start (`RevivesNone`), and `ZombieStep` follows
from who ends a job (`EndTells`, `JobSteps`) and who goes on telling (`TellsOn`). `TakeoverStep` needs only `IInv`:
which steps write the holder or the active job (`HolderSteps`, `ActiveSteps`), and that who is about to end the job
goes on to end it (`EndsOn`). TLC explored both properties with two people, two jobs, expiry, removal, a hanging
plugin and a restart (seven million states), and finds each violated as soon as one of its named steps is left out.

`DroneAgentProofs` (for every number of commands): `TypeCorrect`, `SentInOrder`, `NeverStalls`,
`TimerMatches`, `CalledOnce`, `CalledForItself`. Its `IInv` relates the queue, the commands sent, what
each callback heard and what is still on the wire; its crux is that when a time-out overwrites the
stored callbacks with the next command's, the code has already copied the old ones.

* `ImplementsQueue`: `Spec => QueueSpec`. Every step adds at most one command and closes at most one (`CommonStep`); that the one
  it closes is the oldest, and that its sender had heard nothing, is `IInv`.

`PatrolMissionProofs` (for every set of routes, any number of requests and faults and any queue depth):

* `TypeCorrect`: `Spec => []TypeOK`. The items of the mission, of the latched plan and of `drone_patrol` stay within
  their routes, whatever plan, status or GOTO_ITEM moves them, and the status queue within its depth.
* `InOnePhase`: `Spec => []OnePhase`. Inductive once it says that a valid mission has a route (`Phased`): one lemma per
  method of `MissionManager`, one per group of steps.
* `SkipsNothing`: `Spec => []NothingSkipped`. The item alone is not inductive, since it is overwritten by what
  `drone_patrol` reports. `IInv` says of each place that tells progress (the latched plan, `drone_patrol`, every status on its
  way) that, if it is of the run `drone_core` is in, every item before its own is covered (`Sane`); and
  that plan numbers and mission ids only grow (`Numbers`), so a plan just sent is nobody's yet. Every step then either
  keeps plan and item (`SameKeeps`), or is one of the few that change them.

`PatrolPromiseProofs` (in the same generality):

* `FinishesOnlyFlown`: `Spec => FinishedMeansFlown`, with faults and restarts of `drone_patrol`. What lies behind the
  item is `SkipsNothing`; that nothing lies before it needs `FlownInv`: a plan of the run `drone_core` is in has the mission's
  route, whoever calls such a plan finished has its item at an end, and the mode's result is heard only by an executor in
  charge. `FlownInv` says this while `drone_core` has not restarted and no plan was replaced in flight, where the code does
  finish unflown plans (section 5), as the property does.
* `HoldObeyed`: `Spec => []HoldIsObeyed`. The property speaks of the moment when no command is left to be sent;
  `HoldInv` says what holds until then: the hold is in the command queue and nothing behind it selects a mode, or PX4
  holds and nothing queued selects one; no stream runs, so no tick asks for OFFBOARD.

`GeofenceSyncProofs` (for any fences, any number of pushers, settings, attempts and faults): `ReportsWhatIsLoaded`:
`InTime` implies `Spec => []ReportedIsLoaded`. MAVLink's answers carry no mark of the request they answer, so that
what the worker reads back is true only if it answers the present request. `FenceInv` says so: at most one message is
under way, and only while the worker waits; it is of the worker's stage (`Apt`) or tells what PX4 holds (`Truthful`);
so what was read back so far is a prefix of PX4's fence (`ReadSoFar`), and all of it when the height is set
(`ReadAll`), unless PX4 lost it meanwhile. `InTime` excludes the three faults that leave an old message behind: an
answer after its time-out, a socket error and a restart of the loader. Lost messages, and restarts of PX4, the fleet
API and its link, are in, any number of them.

`DispatchProofs` (for any number of incidents, drones, jobs, resolvers and events): `TypeCorrect`,
`NewIncidentsAreFree`, `ResolvedIncidentsAreOver`, `ResolvedForGood`. Threads meet between a look and a write, so each
property names who may be in between (`Opening`, `Clearing`, and those who start or resolve), and `Inv` has to say of
them that there is nobody else. It is the types, the two invariants and four facts: an incident's job was started for
it (`Owned`), so that whoever holds the job back acts on that incident; a job that came after a resolution had read of
none is in `strays` (`Missing`); the monitor does not ask for a position while it resolves (`MonitorWaits`), so that
what it hears belongs to an incident that had a drone when it asked; and only incidents that were made are flown to,
visited, resolved or written (`MadeOnly`), so that a late thread cannot give a status to an incident that is not
there. `ResolvedForGood` is a fact about steps under `Inv` (`Stays`): a settled incident is written only by who looked
at it before it was resolved, and who looks now goes away.

* `KeepsThePromise`: for every drone `d`, `Spec => Promise(d)!Spec`: what dispatch meets of the fleet API is a
  `JobLedger`. A job is open while it is its drone's, and over once it was and is not. `Assigned` is the invariant: a
  drone's job was begun for that drone, and what was not begun has none. The ledger has one outcome here, since
  dispatch never asks for it.

`PluginJobProofs` (for any number of jobs and events): `TypeCorrect`, `OneLateCommand`, `RecordsAgree`,
`KeepsThePromise`. `Sound` ties the places of a job together: a thread that got a late command through is at work or
past it and its next check stops it; a result of "stopped" comes only after the stop was told, and a stop is only sent
for a job that is over, stopped by an operator or failed by the watchdog; a recorded "completed" comes from a thread
that had saved its report. A failed start does not record "completed", and the drone's job has no outcome yet.

* `KeepsThePromise`: `Spec => Promise!Spec`: the fleet API of `PluginJob` is a `JobLedger`, with the outcomes
  completed, failed and stopped. `Accounted` is the invariant: a job that was begun and is not the drone's has its
  outcome. `Accounts` has a case for each of the five ways a job ends; any other step leaves `Records` as it is.

With `ImplementsLedger` these two say that the three modules which have a fleet API (the real one, and the two
environments that stand for it) obey one abstract specification: no result about `PluginJob` or `Dispatch` rests on a
fleet API that runs two jobs of a drone, or revives one that ended. The ledger does not say when a job ends or who is
told; that `FleetApi` tells is `NobodyFliesOn`.

Assumptions: `DispatchAssumption` and `PluginAssumption` (numbers are natural, `None` is no drone, number or result),
`SyncAssumption` (`NoFence` and `Nothing` are no fences, a fence has items), `ConstantsAssumption` of `PatrolMission`
(routes are not empty, the queue has room for one) and of `FleetApi` (disjoint sets of actors, positive pass counts) and
`MaxCommands \in Nat`. TLC evaluates them on every run. What a theorem assumes beyond them stands in its `ASSUME`.

Only model-checked:

* all liveness, which is out of the prover's reach under fairness;
* `ReportedIsLoaded` with an answer that comes late, a socket error or a restart of the loader: it holds for one of them
  (`fence_sync`) and not for five (section 5), so `InTime` of the theorem is needed;
* that `PluginJob` and `Dispatch` meet with their fleet API all that `FleetApi` does: only that it is a job ledger is proved.

## 5. Where code and documents differ

With a run:

* `mission_pause` (`drone_controller.cpp:1043`): PAUSE sends Hold only if `vehicle_status` shows PATROL. Before that it only
  marks the mission paused; the command, arming or take-off under way goes on and the vehicle flies it.

* `fence_reconnect` (`fleet.py:86`): after the link to rosbridge is built anew the publisher of a drone's fence and the
  subscription to its status are still those of the closed link; a fence set later never arrives, until the fleet API restarts.

Met while modelling, without a run of their own. In the fleet API:

* `claim` reads the holder in one locked section and writes in another, so of two first commands the later takes the
  drone from the earlier, without `force` (`app.py:95`);
* a read time-out is no `URLError` and ends the watchdog's pass; a plugin that accepts connections and never answers
  keeps its job (`app.py:293`);
* a safety command tells the plugin from the event loop; the patrol plugin calls the fleet API before it answers. Both
  wait until the plugin's time-out (`app.py:855`; `RequestsEnd` shows that they do end);
* a takeover leaves its job running (`docs/design/plugins.md:23`: it "ends or pauses the job") if the claim read the
  drone as free: the job's hold had expired (`app.py:87`), was released by force, or its `begin` came before its
  `claim` (`app.py:747`); or if the API restarts before `stop_job` (`TakeoverEndsJob`);
* a plugin flies on with an ended job, untold: its `POST /jobs` arrives after the end (`app.py:753`), another job was
  to be ended (`app.py:672`), the API restarts before it tells (`app.py:679`), the plugin was removed or hangs
  (`app.py:677`), or the job is an orphan (`app.py:279`) (`NoZombie`);
* a plugin's command between a person's `land` and the end of the job is accepted (`app.py:849`);
* a refused start, `stop_job` and `end_job` end whatever job the drone has by then (`app.py:763`);
* `stop_job` sees that the plugin holds the drone and then releases by force: a start in between loses its hold, and
  its job runs on a drone that is free for anybody (`app.py:674`);
* `remove_plugin` checks for jobs and removes later (`app.py:712`);
* a safety command that finds the drone free and claims it is refused if somebody was faster (`app.py:840`);
* a refused `return_home` is not repeated (`app.py:363`), and a restart between the end of the job and
  `return_home` forgets it;
* `release` with `force` takes the hold from a running job's plugin and leaves the job (`app.py:645`).

In `drone_core` and `drone_patrol`:

* RESUME of a running delegated mission while `drone_patrol` is not heard from starts the OFFBOARD stream and switches
  PX4 to OFFBOARD (`drone_controller.cpp:1014`), which the comment at line 1305 rules out;
* `patrol_start`'s callbacks do not look at the mission: they arm after a PAUSE or STOP, and a late refusal
  fails a newer mission (`drone_controller.cpp:1314`);
* plan numbers and mission ids start again when `drone_core` restarts, so a status of the old plan can move or finish a new
  mission (`mission_manager.cpp:639`);
* a plan that comes between the mode's `completed()` and the executor's callback is marked finished unflown
  (`patrol_node.cpp:263`);
* `drone_patrol` restarting within its heartbeat time-out leaves its mission "running" although nobody flies it
  (`mission_manager.cpp:713`; `NeverAbandoned` speaks of a `drone_patrol` that is dead, or was never engaged);
* a PATROL or ARM that gets no answer, and whose effect is not seen, calls nothing back: its start is noticed by the 5
  s time-out only (`drone_agent.cpp:245`);
* GOTO_ITEM moves the index of a mission flown in OFFBOARD and leaves its setpoint (`mission_manager.cpp:292`), and PAUSE
  there does not hold (`drone_controller.cpp:1050`);
* STOP of a failed mission shows failed and finished (`mission_manager.cpp:229`); CLEAR leaves the timer (line 264).

In the fence's path:

* a verification catches `FenceError` only: a socket error ends the worker's thread, and no later fence is loaded
  (`geofence_loader.py:237`; `Settles` leaves a dead worker out);
* a drone whose home is not known gets no fence, also in flight: the one it has is cleared (`app.py:237`);
* `validate` accepts a fence of more vertices than the loader does; its error then stays until another fence comes
  (`geofence_loader.py:153`);
* a push is skipped when the status last heard has the wanted hash, though an older push is still to be applied
  (`app.py:249`; the next pass makes up for it);
* answers carry no mark of their request and the socket is kept, so answers of earlier attempts may be taken for present ones
  (`geofence_loader.py:64`): with one attempt per request, five late answers, socket errors or restarts of the loader, and
  a fence that is set and cleared in between, make the loader report a fence that PX4 does not hold. Each time it takes old
  answers to every request of a whole apply, so that one alone does no harm (`fence_sync`) and the check 30 s later repairs it;
* a verification that fails, and a PX4 that restarted, leave the status as it was (`geofence_loader.py:238`).

In dispatch:

* the thread of `_fly_to` does not hear of a stop or a resolution and flies on (`dispatch_service.py:171`), although
  `docs/plugins.md:101` says "stop flying"; when it fails late it reopens an incident that has a newer job (line 181);
* a job ended as an orphan is not told to the plugin: its incident keeps the dead job and takes no other (`app.py:279`);
* an incident that is reopened is never handed to the AI again (`bridge.py:332`), nor one of a restarted service, whose ids
  begin at 001 again (`dispatch_service.py:41`); one whose processing failed is not repeated (`bridge.py:338`);
* nothing is locked, so a resolution that meets a start or a reopening between their look at the status and their write is
  overwritten: the incident is open again (`dispatch_service.py:159`, 192; `ResolvedStays` has who is at it as its exception);
* a job noted after `resolve` has read that there is none stays on the resolved incident, and `GET /jobs/{id}` goes on
  to know it, so that nothing but its drone's landing or an operator ends it (`dispatch_service.py:208`; `strays`);
* a `return_home` that is not answered in time leaves `resolve` of an operator before it lets go of the job, with the same outcome
  (`dispatch_service.py:219`); in the monitor it ends the whole service, as does a position that does not come in time (line 145);
* an update that was overtaken leaves its drone on an incident that is new again (`dispatch_service.py:80`);
* the AI's late answer marks an incident as dispatched, with a drone and without a job (`bridge.py:290`);
* a time-out of a call is no `DroneError`: it ends the flying thread and leaves the incident dispatched
  (`dispatch_service.py:179`);
* two resolves of one incident, or a stale drone, send home a drone that has another job (`dispatch_service.py:211`); a
  refused `return_home` is not repeated (line 221).

In the plugin SDK:

* a job that fails because a person took its drone sends that drone home, if the stop has not arrived yet (`plugin.py:483`;
  line 26 promises that the next command raises `Stopped`);
* a stop that does not reach the plugin leaves its thread flying; so does an orphan's end (`app.py:279`);
* a job that fails while its drone is armed and not yet airborne is not sent home (`plugin.py:483`): the drone climbs
  on and hovers, although line 479 and `docs/plugins.md:73` say that a failed job's drone is sent home
  (`FailedComesDown` leaves it out, by `stuck`);
* a `POST /jobs` whose answer is late or lost is a failed start: the fleet API frees the drone and tells nobody
  (`app.py:754`), while the plugin flies the job;
* a job that the watchdog ends while its plugin is silent goes on until the stop arrives: a command may come after the
  watchdog's `return_home`; the report then says stopped, the fleet API failed (`app.py:355`, 370). If that
  `return_home` is refused the drone stays up (line 366);
* a takeoff reported as failed may have been obeyed (`fleet.py:434`);
* a listener's callback that was under way may still command after the job's normal end (`plugin.py:370`);
* one failed read of the state leaves a failed job's drone in the air (`plugin.py:488`; `FailedComesDown` leaves it out,
  since the report says so);
* a stop between the check and the DELETE: the report says completed or failed, the fleet API stopped (`plugin.py:471`); after a
  restart of the plugin the report says running for ever;
* a refused start frees the drone whoever holds it (`app.py:764`).

## 6. Plan

Done: the fleet API, the command queue, missions and PATROL, fences, dispatch, jobs of the SDK, and one abstract job
ledger for the three modules that have a fleet API. Next, in this order:

1. `PatrolRecorder`: the report that notes, watcher and end write together; `DetectionTracker` and the registry.
2. The controller's takeoff sequence over `CommandQueue`: a land between `NAV_TAKEOFF` and `ARM`; the queue in place of
   `PatrolMission`'s `cmds`.

## 7. Not modelled

The detector's inference, the web interface, simulation and deployment have no
decisions of their own about the drone; the geofence polygon and flight arithmetic are floating point,
out of TLC's reach; the plugins' choice of targets and waypoints is arithmetic of the same kind; `drone_state.cpp` and
`drone_node.cpp` copy topics into fields; the CLI and the client of the SDK make one HTTP call per function. `px4_msgs` and
`Micro-XRCE-DDS-Agent` are third party code kept in the repository: the agent and its generated types are most of its
C++ lines, and nothing in Drone OS decides anything there.
