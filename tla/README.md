# Formal models of the AGT navigation runtime

TLA+ models of the control software in `src/src`: the packages that decide which mission runs, what
the robot is told to do, when it must stop, and what is remembered of it afterwards. Each module is
a translation of code; the TLC configurations check it on small instances, and the `*_proofs`
modules prove the same properties for every value of the constants. `PROJECT.json` maps every
definition to the lines it translates, and lists runs, findings, hazards and theorems.

    tlc -workers 2 -config MissionExecutor_safety.cfg MCMissionExecutor     # model-check
    tlapm MissionExecutor_proofs.tla                                        # prove

## 1. The system

    operator / QT ──ExecuteMission──▶ mission manager node ──▶ MissionExecutor ──checkpoint──▶ execution_state.json
                  pause/resume/cancel        │                       │ ExecuteWaypointTask (child action)
                                             ▼                       ▼
                        status, audit    behaviour-tree     waypoint task server / capability server
                                          backend            │ session manager   │ ROUTE backend
                                                             ▼                   ▼
                                                    Nav2 FollowWaypoints    Nav2 FollowPath
                                                             └──── cmd_vel ──────┘
                                                                     ▼
      localization status ─┐                             tracked safety controller ──▶ chassis guard ──▶ base
      sensor monitor ──────┴── gates ──▶ (server, missions)  ▲ emergency stop, enable, manual

| Component (package) | State it keeps | Operations | What is hard | What makes it correct |
|---|---|---|---|---|
| Mission executor (`agt_mission_manager`) | `MissionFsm`, step, resume cursor, three `threading.Event`s, event inbox | `execute`, `_run_waypoint/_duration/_event`, `_pause_until_resumed`, `request_*` | ROS threads set flags between any two reads of a coroutine; the child goal lives on another node | a mission is held or ended only with the child stopped, unless an exception took it down; no waypoint lost over pauses; no illegal transition; no mission stuck |
| Child runner (`RosWaypointRunner`) | child handle | `run`, `cancel` | no handle until the goal response; feedback comes late | a cancel reaches the child or is made up for |
| Mission storage | `execution_state.json` and its temporary | `write_execution_state`, `recover_interrupted` | crashes between open, write and rename; two threads with one temporary name | the document is whole; a restart tells the truth |
| Mission manager node | `_active`, `_executor`, latched status | goal, cancel, pause and resume callbacks, `_execute`, restart | four threads in a reentrant group; exceptions and refusals inside `_execute` | requests reach their mission; the node always accepts goals again |
| Behaviour-tree mission backend | `_cancel`, the runner's task and its child | `execute`, `run`, `cancel` | time-outs that race each other; a child of the mission before; a tree that outlives its mission | a mission ends as its tree did, and a cancel ends it in bounded time |
| Waypoint task server | claim (`_active`, request id), child handle, recent requests, gates | `_execute`, cancel, gate and watchdog callbacks | three callbacks of other threads write the session; a cancel between two children | one task at a time, no child left behind untold, success is earned, a request is executed once |
| Session manager | one `NavigationSessionStatus` | `start`, `transition` | read, copy and replace without a lock | the session is the task's |
| Capability server | claim, session, the backend's slot, gates | `_execute_route`, cancel, gate and watchdog callbacks | a gate lost before the backend is in its slot or between two loops; what the client, the session and the memory are told, one after the other | success is told only of a route that was driven; every route ends |
| ROUTE backend | core, completion future, tracker per loop | `run`, `cancel`, `fail`, FollowPath callbacks | callbacks of an earlier loop; a future everybody resolves | segments in order and one at a time; a cancel stops the tracker |
| Task registry | a file per task, the index, two caches of answers | put, archive | several writes per request, each may fail, and so may the handler; crashes, repeated and late requests | a task is what the last answer said; no update is lost; a retry does nothing; the index shows the files |
| Tracked safety controller | latch, enable, commands with stamps, output | `_tick`, services, inputs | command and status time-outs, separate reset and enable | follows nothing while latched, disabled or stale; tracks within their limit |
| Chassis guard and bridge | last command | callback, timer | a second time-out after the controller's; commands lost or late | stops when commands stop |
| Global correction | correction, rejections, generation | accept and reject | evidence that is late or dropped is judged by a state heard earlier | a jump is never taken while the robot may navigate |
| Relocalization node, supervisor | supervisor state, one worker, cancel flag | goal, cancel, manual pose, validation | three callbacks start workers; a cancel sets a flag before the goal is marked | a search belongs to a worker; navigable means tracking |
| Recovery trigger | request in flight, cool-down | status and timer callbacks, answers | late or lost answers, a cool-down that starts for nothing | a lost robot is searched for; the request comes to an end |
| Behaviour-tree executor | one goal, cancel flag, worker, waypoint child | goal, cancel, tick, halt | a flag that is read before the goal is marked; answers after a halt, time-outs | no tree leaves a waypoint task driving |
| Experiment manager | a manifest and a summary per experiment, handles of a recorder and a player | create, resume, finalize, interrupt, mark invalid, start and stop of children, recovery | requests that fail half-way; children that outlive their node or a signal | what runs was started; the status names the recorder there is; a summary is of a finished experiment |
| Preview planner | generation and timer of the segment, joined path | request, response, result, time-out | a goal that is given up is not canceled and answers late | the path that is shown is of the last request |
| Sensor monitor | age per stream | callback, summary | a summary of ages measured earlier | old evidence never becomes young again |

The components meet in four places. *Calls*: the manager's ROS callbacks call into the executor, the
executor awaits the runner, the server awaits Nav2. *Shared state without a lock*: executor flags,
`session.status`, the temporary file name. *Results and cancels in flight*: the child goals of the
executor, of the server, of the tree and of the ROUTE tracker. *Topics that drop or age*:
localization evidence and its verdict, diagnostics, velocity commands.

`PROJECT.json` lists the components that are not modelled with the reason: point-cloud registration,
message adapters, operator tools, drivers and interface definitions have data but next to no
protocol state.

## 2. The modules

| Code | Module | Instances | Proofs |
|---|---|---|---|
| `mission_fsm.py`, seen from outside | `MissionLifecycle` | refined by `MissionExecutor` | refinement in `MissionExecutor_proofs` |
| `mission_executor.py`, `RosWaypointRunner` | `MissionExecutor` | `MissionExecutor_{safety,live}.cfg` | `MissionExecutor_proofs` |
| `mission_storage.py` | `MissionStorage` | `MissionStorage_{crash,feedback}.cfg` | `MissionStorage_proofs` |
| `mission_manager_node.py` | `MissionManager` | part of `BtMission.cfg` | `MissionManager_proofs` |
| `bt_mission_executor.py`, `bt_executor_node.cpp`, `ros_action_node.hpp` | `BtMission` (extends `MissionManager`) | `BtMission.cfg` | in `MissionManager_proofs` |
| `route_backend.py`, `nav2_follow_path_adapter.py`, `route_runtime.py` | `RouteBackend` | `RouteBackend_cancel.cfg` | in `CapabilityServer_proofs` |
| `navigation_capability_server.py`, `route_task_binding.py` | `CapabilityServer` (extends `RouteBackend`) | `CapabilityServer.cfg` | `CapabilityServer_proofs` |
| `waypoint_task_server.py`, `session_manager.py` | `WaypointServer` | `WaypointServer_{full,resend}.cfg` | `WaypointServer_proofs` |
| `localization_supervisor.cpp` | `LocalizationSupervisor` (operators) | in `LocalizationLoop` | in `LocalizationLoop_proofs` |
| `relocalization_node.cpp` | `Relocalization` | in `LocalizationLoop` | in `LocalizationLoop_proofs` |
| `global_correction_{core,manager}.cpp` | `GlobalCorrection` | in `LocalizationLoop` | in `LocalizationLoop_proofs` |
| `recovery_trigger_{policy,manager}.cpp` | `RecoveryTrigger` | in `LocalizationLoop` | in `LocalizationLoop_proofs` |
| the three nodes together | `LocalizationLoop`, topics in `LocalizationTopics` | `LocalizationLoop.cfg` | `LocalizationLoop_proofs` |
| `sensor_monitor_node.cpp`, `stream_monitor.cpp` | `SensorMonitor` | in `SafetyChain` | in `SafetyChain_proofs` |
| `tracked_safety_controller.py` | `SafetyController`; its numbers in `TrackMotion` | in `SafetyChain` | in `SafetyChain_proofs` |
| `chassis_command_guard.py` | `CommandGuard` | in `SafetyChain` | in `SafetyChain_proofs` |
| the three links and their topics | `SafetyChain` | `SafetyChain.cfg` | `SafetyChain_proofs` |
| `task_registry.py`, `task_registry_node.py`, `task_group.py` (writes) | `TaskRegistry` | in `ServiceNodes` | in `ServiceNodes_proofs` |
| `manager.py`, `facade.py`, `experiment_manager_node.py` | `ExperimentManager` | in `ServiceNodes` | in `ServiceNodes_proofs` |
| `waypoint_preview_planner.py` | `PreviewPlanner` | in `ServiceNodes` | in `ServiceNodes_proofs` |
| the three nodes, one at a time | `ServiceNodes` | `ServiceNodes.cfg` | `ServiceNodes_proofs` |

A `MC…` module only gives the constants values. A definition commented *Variant* is a plausible bug
in the definition that follows it; no specification uses it, and TLC finds the property that
`PROJECT.json` pairs it with violated when it takes that definition's place.

### MissionExecutor and MissionLifecycle

`pc` is the place of the executor coroutine between two reads of something another thread writes;
`fsm` is the machine's state, `signals` the three `threading.Event`s, `cursor` the resume cursor.
`child`, `request`, `handle` and `result` are the runner coroutine; `goal`, `progress` and
`cancelMsg` the action server and the messages to it, `feedback` messages still in flight. A request
is two steps, `AskCheck` (the test of the published state) and `AskSet` (the flag), so a hold may
end between them. Time is counted in polls. Every transition writes a checkpoint and an audit entry,
and so does the runner after the goal response: `WriteFails` lets that raise at any place but those
where the executor waits, `RunAnswered` and `RunResult` let the runner return "raised", which
`ChildRaised` hands on. Both end in `Collapse`, the node's handler: the run is FAILED with
`ERROR_INTERNAL`, and the child goal, which nobody cancels, goes on. The server is
`waypoint_task_server.py`, reduced to the life of a goal.

`MissionLifecycle` is what an operator can see: the legal order of the states and whether a child
goal is alive. `Lifecycle!Spec` is a property of the executor, `driving` mapped to a goal alive on
the server and `fallen` to the internal error: an exception (`Fall`) is the one step that may leave
a goal driving under a state that is not a moving one, and after it the goal can only end.

### MissionStorage

Files are inodes, so that a writer that has the temporary file open keeps writing to it after
another writer renamed it. A document is known by its version. `Checkpoint` and `FeedbackCheckpoint`
serialise the status, `Open`, `Write`, `Replace` are the three effects of `write_execution_state`;
`Crash` may come between any two, `Restart` is `recover_interrupted`. A process runs one mission.
`overlapped` records that two writers were at work at once.

### MissionManager

Every goal has its own place in `_goal_callback` and `_execute`; the executor is reduced to the
states it checkpoints. Cancel and pause requests are routed to the executor installed at that
moment, and `routed` records both ends. `Throw` is any exception out of the executor, `Crash` and
`Restart` the process.

### BtMission

The node has one of two backends from its start. With `sequential` a step is one of
`MissionManager`; with `behavior_tree` it is a step of `execute` (`Begin`, `Validate`, `AskCancel`,
`HearCancel`, `HearNothing`, `AwaitChild`, `Judge`), of the runner's task in the same event loop
(`Task…`, `TimesOut`), of the executor node (`OnGoal`, `OnCancel`, `MarkCanceling`), of the worker
that ticks the tree (`Tick…`, `HaltTree`, `EndGoal`, `LeaveWorker`), of the waypoint server or its
messages (`WaypointStep`, `ResponseHeard`), or the death of the manager (`Die`), which leaves the
tree ticking. `child` outlives its mission as `runner._child` does. Around the tree the manager is
reduced to one mission at a time and its outcome; checkpoints and overlapping goals are the same
code as with the other backend. Readiness and relocalization are one stage of the tree, and of
several cancel requests only the last is kept.

### RouteBackend

All objects of every loop are kept and indexed by the loop, because callbacks hold them after the
loop is over. `Install`, `Start`, `StartFirst`, `Woken` are `run`; `Take` and the `Dispatch…`
actions the emit queue and the sink; `GoalResponse`, `ResultClears`, `ResultEmits`,
`FeedbackCallback` the adapter; `Call…` the cancel and gate callbacks that call in from outside.
`FailCore` inside the dispatcher is one step: a caller that comes between its assignments is not
covered. `cause` records that something failed or somebody called in.

### CapabilityServer

`server` is the place of `_execute_route`, with one action for every refusal and for every way to
judge what `run` returned; `session`, `told` and `remembered` are what it writes, in this order. The
callbacks are `GateLost` and `Keep` (a gate callback that fails the session and then the backend it
finds in the slot), `Watchdog`, and `CancelSession`, `CancelGoesOn`, `MarkGoal` (the cancel
callback, what it calls, and the action server's mark, which comes last). `BindingChanges` is the
owner of the map directory. One goal is executed; the gates and the correction generation are one
flag, and once it is lost while the backend runs it stays lost; a transition of the session is one
step, because its race is the subject of `WaypointServer`.

### WaypointServer

One `phase` per goal in `_execute`; one action for every early return. `session.transition` reads,
copies and replaces the session: `Copy` makes the `draft` of the thread, `Write` replaces the
session by it whatever has been written since. `Children` are the Nav2 goals, one for each goal and
loop. `GateLost`, `GateFails`, `GateStops` are the gate callbacks and the watchdog;
`CancelCallback`, `CancelStops`, `CancelMarks` the cancel callback, the last one the action server's
own mark that `is_cancel_requested` reads. `clobbered` records that one task's session was
overwritten by a copy or by a remembered status that is not its own.

Abstractions: goals are formal ones, with a request id; the three gates are one, ready or not;
loading and validating the task may fail at any time and says no more; `recent_request_limit` is not
reached; one callback of each kind is at work at a time (the code has three threads for all of them
and may run two of a kind: that interleaving is not covered); `_remember_request` reads the session
once; in the cancel and gate callbacks reading the handle and calling it is one step.

### The localization loop

`Relocalization` has the node's executor thread (requests, cancels, manual poses, the validation
timer) and its worker, which goes over the candidates and publishes `evidence`; what registration
answers is a choice. The supervisor is a value that `LocalizationSupervisor`'s operators map to the
next one. `GlobalCorrection` takes one sample at a time, judges it by the state it heard before, and
publishes `canonical`, which everybody else goes by. Poses are numbers on a line, so that the size
of a jump is a distance; the tests of one message alone are one choice, because the handler does the
same whichever fails. `RecoveryTrigger` has the status and timer callbacks, the cool-down and the
request in flight. The topic keeps `EvidenceDepth` samples and drops the oldest; the relocalization
node dies on one path and stays dead: to report a goal as canceled that the action server has not
marked canceling yet throws in the worker thread (`relocalization_node.cpp:519-524`).

### The safety chain

Time is counted in units and passes for all links at once (`Pass`); an age beyond the last time-out
that reads it is not told apart. A command is the source it came from: `since[s]` is a history of
how long ago the controller would have followed `s`, `hold` of how far reset and enable have come
after a stop. The topic to the guard keeps one command, may lose it, and delays it by `MaxDelay` at
most; the guard's timer ticks every `GuardPeriod` at least. Monitor and controller may stop for good
at any moment: that is to take no more steps. `TrackMotion` has the numbers: projection, slew per
tick and clamp over the integers, with the configured rates as its constants.

### TaskRegistry

`file` and `index` are the task's file and its entry in `task_index.json`, a version a revision and
a content; `recent` are the two caches of answers. A client reads a task and makes one request of
what it saw (`Prepare`), and sends it as often as it likes, also after it was answered (`PutTask`,
`ArchiveTask`, `PutAgain`). The services share an exclusive group, so one request is carried out at
a time, in steps: `ReplaceFile` or `MoveFile`, `WriteIndex`, the handlers `RestoreFile` and
`MoveBack`, `DeleteBackups`. Each may fail, a write also after it took effect, and `Crash` may come
between any two. What is answered from a cache or refused changes nothing and is no step. A
content in `Bulky` passes the test of a request and is too large once it is stored with its
indentation (`Readable`): such a task cannot be read, changed or archived any more. The index is made
of what `ListTasks` reads back, which passes over those and over any file a read error hits; the
request succeeds all the same, and `unread` says which they were. `told`, `lost`, `done`, `later`,
`stale` and `spoiled` are histories of what clients were told.

### ExperimentManager

`manifest`, `summary` and `results` are the files of an experiment, `bag` and `player` the two
handles, `process` and `source` the children with sessions of their own. The node's callbacks
exclude each other: a request goes through the `step`s that it writes and waits in (`Describe`,
`Begin`, `SignalBag`, `WaitForBag`, `NoteBagStopped`, `WriteManifest`, `WriteSummary`), each of
which may fail and leave the rest undone. Children may exit at any time, or outlive the signals; the
node may end or die, and recovers one manifest after another (`Recover`), which may be cut short
again. A manifest that cannot be read is passed over (`RecoverSkips`) and goes on RUNNING, and
`Create` does not see it either; `missed` are the experiments this happened to since the node came
up, as long as they run. `Status` is `facade.status`.

### PreviewPlanner and ServiceNodes

A goal of the planner action carries the generation it was sent in; `sent` and `accepted` are those
the planner still has. `GoalResponse` and `SegmentResult` do nothing when `IsCurrent` fails, as the
callbacks do, but the answers of goals given up stay in flight. A path stands for the goal that it
answers and names the goal whose path it goes on from, so that what is shown can be compared with
what was asked.

The three nodes share no file and no topic. `ServiceNodes` therefore looks at one of them at a time:
the initial state picks it (`watched`), and the others stand still.

## 3. What the runs check

| Run | Instance | What it shows |
|---|---|---|
| `executor` | a waypoint task of 2 loops × 2 points, then an event wait of 2 polls; 2 pauses, 1 resume, 1 cancel, gates that open and close, 1 feedback in flight, a checkpoint that fails | the safety properties of the executor, and that it implements the lifecycle |
| `executor_live` | a mission with every step type, one hold, one cancel | a cancel ends it, a run ends or is held, a resume releases it |
| `storage` | 2 writers, 3 crashes, 4 inodes, 4 versions | the document is whole and restarts tell the truth until writers overlap; two writers never both fail |
| `storage_feedback` | the same, without the condition | *violated:* an active mission restarts as IDLE |
| `manager` | either backend; 2 goals (at any time with `sequential`), 1 crash | the node always accepts goals again; until goals overlap requests and restarts are right; with the tree, missions end as driven, cancels end them, no task is left driving |
| `route` | one goal of the server, 2 loops × 2 segments, cancel, lost gates, faults, feedback of the first segment | order, exclusion, success as driven and as told, reasons, and that every route ends |
| `route_cancel` | nothing fails, the client cancels | *violated:* a cancel leaves a FollowPath goal driving |
| `waypoint` | 2 goals, of the same request or of two, 2 loops and 1, 2 callbacks in all | one child that was not told to stop, none left behind untold, earned success, remembered as told, a lost gate ends tasks |
| `waypoint_resend` | 4 goals of 2 requests, no callbacks | *violated:* a repeated request makes another one run twice |
| `localization` | 3 poses, 2 candidates, a topic of 1 sample, limits 1 and 2, failures 2 and 3, 2 rejections | navigable is tracking, no jump while navigable, requests end, a lost robot is searched for |
| `safety_chain` | 1 stream, time-outs and delays of 1 unit (the stream's 0), ages to 5 | nothing is followed that was not permitted just before; navigation sees; a stop holds |
| `services` | registry: 2 tasks, 2 contents, one too large once stored, 2 puts, 1 archive, caches of 1, revisions to 2, 1 crash; experiments: 2 with 1 result each, 2 children; preview: 3 segments, requests up to generation 8 | what the three nodes answered, wrote, started and show stays true |

The properties, by run:

* `executor`: `HeldMeansStopped` (no live child while waiting, held or ended, but for a run
  that an exception took down, which is FAILED and nothing else);
  `EveryWaypointReached` (over pauses and late feedback); `ResumesAreBacked` (a request ends one
  hold); `CanceledOnlyOnRequest`; `LifecycleSpec`.
* `executor_live`: `CancelEnds`, `EndsOrHeld`, `ResumeReleases`.
* `storage`: `Readable`, `OneWriterGetsThrough`, `RestartTellsTruth`.
* `manager`: `RequestsReachTheirMission`, `IdleAcceptsGoals`, `RestartKeepsFaith` (an action
  property of the restart); `EndsAsDriven` (SUCCEEDED is a waypoint task reached, and no mission but
  a failed or interrupted one leaves a tree behind), `DrivenIsTicked`, `CancelEndsMission`.
* `route`: `SegmentsInTurn` (one at a time, and in order), `FailsForAReason`, `SucceededAsDriven`
  (client, session and memory say success together, and only of a driven route), `RouteEnds`.
* `waypoint`: `OneTaskDrives` (one child was not told to stop; beside it at most those of canceled
  goals that have ended slow down), `DrivenIsAwaited`, `SuccessMeansEveryLoop`, `RememberedAsTold`,
  `GateLossEndsTasks`.
* `localization`: `NavigableIsBacked`, `NoJumpWhileNavigable` (an action property), `AskEnds`,
  `LostIsAnswered`.
* `safety_chain`: `DriveWasPermitted`, `NavigationSees`, `EmergencyHolds`.
* `services`: `AnswersAreTrue` (a request that fails leaves no trace), `WritesAreDue` (nothing is
  written over a version the client did not see, nor twice), `IndexShowsFiles` (nothing is missing
  but what could not be read back, and nothing is shown that is not in its file); `StatusIsTrue` (no
  recorder is hidden, none is named for an experiment that is over), `RunsAsAsked` (what runs was
  started since the node came up, alone unless by hand, and its recorder is stopped for it; only
  an experiment whose manifest could not be read is excepted),
  `SummariesAreTrue`; `ShownAnswersRequest`.

The type invariants, `NeverRaises`, `NobodySearchesAlone`, `RecordsWhileRunning` and `BusyIsTimed`
are proved (§5) and not checked again.

**Conditions in the properties.** `Readable`, `RestartTellsTruth`, `RequestsReachTheirMission`,
`RestartKeepsFaith` and `RememberedAsTold` hold *until* something happens that the code does not
exclude (two writers at once, a goal accepted before another one's end, a session overwritten by
another's copy). The histories `overlapped` and `clobbered` name these events exactly; the violation
runs `storage_feedback` and `waypoint_resend` show what follows from two of them. Three other
properties name what the code passes over in silence: a run taken down by an exception (`error` is
INTERNAL in `HeldMeansStopped`), files that could not be read back (`unread` in `IndexShowsFiles`) and
manifests that could not be read (`missed` in `RunsAsAsked`). Each names the very run, task or
experiment, and demands the rest of all others.

**Bounds.** `MaxAsks`, `MaxFeedback`, `Chatty` (the segments that send feedback), `MaxCrashes`,
`died` (the manager over a tree dies once) and `MaxCallbacks` bound what the environment does; all
are guards of environment actions. Two loops of two points or segments are the least with a first
and a later loop, and a first and a last point; two writers, goals or tasks the least that
interfere; two pauses the least in which a token of one hold can end the next; three crashes of the
storage allow one in the mission, one in the recovery and one after it, one of the node one in any
step of its two missions (`RestartTruthful` is proved for any number); two callbacks let two of
three kinds meet, and statuses of a gate that stays lost are not counted. Deadlock is checked in the
executor's runs (an ended mission still has environment steps) and in the safety chain (time always
passes), and off where a process may stop for good: after the last crash, after `run` returned,
after all goals or missions are done, when the relocalization node has died, or when the clients of
the registry and of the preview have nothing left to ask. Two tasks, two
contents and two puts are the least in which one request meets a version, an eviction or a second
life of a task that is not its own; one archive ends the first life, and the third request would
multiply the states by its repetitions without a new encounter (the theorems hold for any number).
One of the two contents is too large once it is stored. Two experiments and two
children are the least that can be taken for each other. Eight generations are two whole requests of
three segments and the start of a third, or more that fail. Three poses are the least with a jump
the tracking limit takes, one only the recovering limit takes; two candidates the least of which one
fails and one is accepted; a topic of one sample loses whatever comes too fast. In the safety chain
every time-out is one unit and the ages go on to their sum, so that each link can be the last one to
stop the wheels.

**Fairness.** Weak fairness, with one exception. Executor: the event loop runs both coroutines
(asyncio is fair to ready tasks), a request past its check sets its flag (a thread is not suspended
for ever), the server answers, makes way and stops when told to. Not fair: requests, feedback, gate
changes, events, and the server's abort. Route: `_execute_route`, `run`, the dispatchers and the
adapter's callbacks run when ready, a gate callback goes on and the watchdog fires again; the
FollowPath server answers, stops when told to, and arrives while the gates hold (once a gate is lost
it may drive on for ever). No caller, fault or feedback need ever come. Behaviour tree: only the
manager's event loop, in which seconds pass; the executor node, the tree, the waypoint server and
the runner's wait of an hour for the result need never do anything, so that `CancelEndsMission`
rests on the short bounds alone. Waypoint: some thread that has work does it (the work of the goals
is finite, so one condition for all of them is enough), the statuses of a lost gate keep coming or
the watchdog fires again (both are periodic), and Nav2 answers and stops when told to; it need *not*
ever arrive, so `GateLossEndsTasks` rests on the stop. Localization: the worker, the corrections,
the trigger's callbacks, its timer and the answers each go on; a request competes with timers and
subscriptions for the node's one executor thread, which serves them in turn, hence strong fairness
for `HandleRequest` alone; nobody need send a goal, a pose or a cancel. The safety chain needs none:
the guard's deadline is a guard of `Pass`.

## 4. Findings

* `storage_feedback`: feedback is checkpointed from a ROS thread through the same temporary name
  as the executor's checkpoints (`mission_storage.py:34`); a restart may publish IDLE for an
  active mission.
* `route_cancel`: a cancel between the core's change of state and the start of the tracker
  (`route_runtime.py:380`) leaves the FollowPath goal without an owner; a test of the repository
  expects it canceled.
* `waypoint_resend`: `_claim_request` makes the remembered status of a repeated request the session
  of the task that is active (`waypoint_task_server.py:686`); that task is aborted, remembered
  under the other id, and a repetition of *its* request is executed again. The operator message
  of `DUPLICATE_REQUEST` says that no second task is started.

## 5. What is proved

All theorems hold for every value of the constants that satisfies the named assumptions of the
modules: sets are disjoint from their null values, counts, time-outs and limits are natural numbers
(`RegistryAssumption` and `TopicsAssumption`: a cache and a topic hold at least one); of
`RatesAssumption`: one axis gives way at least as fast as the other rises, as in the robot's
configuration; of `CapabilityAssumption`: the callers of the backend are the cancel and the gate
callbacks.

* **Executor** – `TypeCorrect`, `NoIllegalTransition`, `StoppedWhenHeld`, `ImplementsLifecycle`,
  `HoldsEndOnRequest`, `CanceledWhenAsked`, `NothingSkipped`. The invariant `IInv` adds to `TypeOK`
  and `NeverRaises` which machine state belongs to each place (`PlaceFixesState`), that places
  inside a step have one (`InsideStep`), that the runner exists only between its creation and its
  join and a goal is alive only while the runner waits for it or the run is being taken down (`ChildInItsLoop`),
  and that only a run taken down by an exception is over with a goal alive (`FallenIsOver`).
  `HeldMeansStopped` alone is not inductive: it says nothing of a goal about to be sent. The
  refinement maps every step to a step of `MissionLifecycle` or a stutter. `HoldsEndOnRequest`
  counts: holds ended so far, and the tokens that could end another, never exceed the requests
  accepted. `CanceledWhenAsked` is inductive on top of `IInv`: a place that leads to CANCELED has
  read the flag, and nothing clears it after the start. `NothingSkipped` needs `PlacesCovered`: the
  resume cursor, the goal on its way, the server's progress and *every feedback message in flight*
  stand at a place up to which all was reached, so that whichever of them becomes the next cursor
  skips nothing.
* **Storage** – `StorageTypeCorrect`, `CrashSafe`, `RestartTruthful`, `SomeoneGetsThrough`.
  `OneWriterInv` holds until writers overlap: the one busy writer has the file behind the temporary
  name open, never the target; what it brings is the recovered document or the current version; the
  target holds what was committed, or INTERRUPTED for an active one. `SomeoneGetsThrough` needs no
  such condition: where the temporary name is gone, one writer took it and is through
  (`TakenByOne`), for any number of writers.
* **Manager** – `ManagerTypeCorrect`, `AcceptsGoalsAgain`, `RequestsReachTheirs`,
  `RestartTruthful` (an action property). `IdleAcceptsGoals` needs no condition: the flag and the
  slot are given back by every way out even when goals overlap. The other two rest on `SerialInv`,
  which ties what is published and persisted to the phase of the one goal on its way.
* **Behaviour-tree backend** – `BtInductive`, `EndsInTruth`, `NoneLeftDriving`, for any number of
  goals. `BtInv` says where a mission is (`MissionPlaced`), what the runner heard of its goal
  (`RunnerHeard`), that the executor node ticks the tree of the goal it executes (`NodeTicks`), that
  cancels are asked of accepted goals only (`AskedAccepted`), that a waypoint goal follows its tree
  (`WayFollows`), that a tree that is left has given up what it had not heard of (`GivenUpInTime`),
  and what the ended missions heard (`EndedHeard`).
* **Waypoint server** – `ServerTypeCorrect`, `ChildrenAreAwaited`, `OneTaskAtATime`,
  `SuccessIsEarned`, `RememberedInTruth`. `IInv` adds that the claim has one owner (`OneOwner`),
  that the child of the loop is known to be accepted, or over or told to stop, at each place
  (`ChildAnswered`), that counted loops succeeded (`LoopsDone`), and whose child may be slowing down:
  the one its goal still works with, or that of a canceled goal that has ended (`StoppingIsKnown`).
  `OneTaskDrives` then follows from these, `DrivenIsAwaited` and `OneOwner`. The proof splits a step
  into one of `_execute` (`OwnStep` for the goal that moves, `OthersUntouched` for the rest) and one
  of anybody else (`OutsideStep`), which never revives a child. The first four do not depend on the session: what its races can break
  is what is remembered and reported, not what is driven. `RememberedInTruth` is about that:
  `RememberInv` says that, until a session is clobbered, every draft in a thread's hands is one the
  owner or a callback may make at its place (`DraftsKnown`), the session is the owner's
  (`SessionOwned`), and what was settled is remembered (`Remembered`).
* **Route and capability server** – `ServerInvariant`, `ServerTypeCorrect`, `AlwaysInTurn` (from
  `AlwaysOneSegmentDriven` and `AlwaysInOrder`), `AlwaysForAReason`, `AlwaysAsDriven`, for any
  number of loops and segments. The invariant ties the goals to the loop and its index (`GoalInv`),
  the core's state and the sink to the index (`CoreInv`), the tracker to the segment at the index
  (`TrackerInv`), the successes in the queue to segments that were heard to succeed (`QueueInv`),
  the current loop and future to the place of `run` (`RunInv`), and the reports made to the one that
  is due (`ReportInv`). `FailsForAReason` takes a second half, `CauseInv`: as long as nothing has
  happened that may fail a route, every event in the queue is of the segment it will be dispatched
  for (`QueueExpected`) and nobody has called in. `ServerInv` adds what the server told and
  remembers.
* **Localization** – `LoopTypeCorrect`, `NavigationIsBacked`, `SearchesAreOwned`,
  `CorrectionsAreSmall`, for every number of poses, candidates, failures and limits and every length
  of the topic. `LoopInv` adds to the properties that a run counts its candidates down
  (`RunCounts`), and that a navigable status was made by an accepted correction in the TRACKING
  policy (`NavigableIsCorrected`), without which the next jump would be judged by another limit.
  Every step of the relocalization node is shown to publish what it told the supervisor
  (`Publishes`), so the proof of `NavigableIsBacked` does not look into the node again.
* **Safety chain** – `ChainTypeCorrect`, `DriveIsPermitted`, `NavigationIsSighted`, `StopHolds`, for
  every set of streams and all time-outs. `ChainInv` follows the evidence down the chain: what is
  followed now is permitted now (`FollowedNow`), a command on the topic or in the guard is as old as
  its permission (`CommandsAreRecent`), a summary heard as ready is no younger than the streams
  (`ReadyMeansHeard`, `PermittedMeansHeard`), and `hold` shows in latch and enable (`HoldShows`).
* **Track speeds** – `SlewKeepsTrackLimit`, `GuardKeepsTrackLimit`: both tracks stay within their
  limit through the slew of two axes at different rates and through the guard's clamp, over all
  integers. No run states these: they are facts about one computation.
* **Task registry** – `RegistryInvariant`, `RegistryTypeCorrect`, `NoTraceOfFailure`,
  `OnlyDueWrites` (from `NoUpdateIsLost` and `RetriesDoNothing`), `IndexFollowsFiles`, for any
  tasks, clients, caches, revisions and crashes. The request that is carried out passed the checks
  (`Checked`) and its task's file shows how far it came (`Halfway`); what a request found, for as
  long as it is carried out, and the file otherwise, is what was told or what was cut short since
  (`CurrentIsTold`). That a revision stands for a whole version rests on `RevisionsGrow` (until a
  task is archived, revisions only go up, so an equal revision is the same version), that a retry
  does nothing on `LatestAreKnown` and `Forgotten`: an answer leaves the cache after `Limit` later
  ones and not before, and by then a put's revision has been passed. `IndexIsCurrent` keeps the index
  at what was read back when it was written, through the steps between file and index.
* **Experiments** – `ExperimentInvariant`, `ExperimentTypeCorrect`, `NoStrayRecorder`,
  `StatusStaysTrue`, `RunsOnlyAsAsked` (from `NothingRunsUnasked`, `CreatedAlone`,
  `StopsOwnRecorder`; all three but for experiments whose manifest could not be read),
  `SummariesStayTrue`, for any experiments, results and children. The invariant
  adds which request is at which step (`StepWell`), and that a recorder nobody told to stop and that
  no other life of the node left behind is in the handle, of an experiment that runs (`HandlesWell`,
  `OwnRecorders`).
* **Preview** – `PreviewInvariant`, `PreviewTypeCorrect`, `ShownAsAsked`, `OneGoalIsTimed`, for
  requests of any length. `PlannedSoFar` says that what is joined are the first segments of the
  request, each from the end of the one before; `LatestGoal` that of the goals in flight, those
  of the present generation are the one that is waited for.

**Only model-checked:** liveness (`CancelEnds`, `EndsOrHeld`, `ResumeReleases`, `RouteEnds`,
`GateLossEndsTasks`, `CancelEndsMission`, `AskEnds`, `LostIsAnswered`), which needs fairness and
ENABLED and is out of the prover's reach. Every invariant, every action property and the refinement
that a passing run checks is also proved. No module uses a RECURSIVE operator, and no proof needs an
induction over data.

## 6. Not modelled, and the plan

Left out of the modelled parts: the audit log, formatting and validation of documents, the numbers
in a status; the event inbox beyond the events that match, so that a flood of other events (its limit
is 1000) evicts none; registration and point clouds, of which only the verdict is left; the rates of
sensor streams, which are displayed and decide nothing. A cancel between the Nav2 goal response and
the installation of the child is possible in `WaypointServer` and lets the robot drive to the end of
the loop; `DrivenIsAwaited` only covers cancels that were marked before the check. In `BtMission` a
waypoint goal that is accepted only after its tree was destroyed is stopped by nobody: the response
callback is gone with its client, and `DrivenIsTicked` covers the responses that are heard. A
duplicate correction counts as a rejection (`global_correction_manager.cpp:271`) and can declare the
robot lost; the model has it, no run states the opposite.

What the code passes over in silence, and the properties therefore name as their exceptions: *An
exception out of a checkpoint or of the audit log* (`mission_executor.py:130`, `:135-139`) ends
`execute` at once; `asyncio.run` drops the runner's coroutine without a cancel, the child goal goes
on, `RosWaypointRunner._child` keeps its stale handle, and the node publishes FAILED
(`mission_manager_node.py:511-526`). `HeldMeansStopped` and `LifecycleSpec` therefore promise nothing
about the child goal of a mission that is FAILED with `ERROR_INTERNAL`. (An exception in a feedback
callback, on a ROS thread, is not caught by anybody and takes the node down with the goal alive:
the crash and the restart are in `MissionStorage` and `MissionManager`.) *A canceled waypoint task*
does not await its Nav2 child (`waypoint_task_server.py:926-929`): the next task may be accepted and
send its own while that one still slows down; `OneTaskDrives` allows exactly this overlap.
*The index of the registry* lacks the tasks that cannot be read back, or that are larger than
`maximum_task_bytes` as they are stored (`task_registry.py:217-220`, `:175-181`; a put only measures
what it was sent, `:188`), and the put succeeds. *The recovery of experiments* passes over manifests
it cannot read (`manager.py:681-682`), and `list` over the same (`:697-698`), so that an experiment
of the node before stays RUNNING and another may be created beside it. Recorders that a crash of the
node orphaned go on without an owner and are left out of every property (`orphans`).

Some limits of the properties: a resume token that is set after its hold ended may end the next hold,
which `ResumesAreBacked` counts as backed; `AnswersAreTrue` is about requests that were carried out,
not about duplicates answered from the cache, and an id `task_index`, whose file the index would
overwrite, is not in the model; `SummariesAreTrue` counts localization results, while `event_count`
goes stale with every event added after the end (`manager.py:710`).

Other behaviour that the models show and no property covers: `RosWaypointRunner.cancel` returns
`True` without a handle (`mission_manager_node.py:153`), where the README of the package says that
the parent waits for the child's confirmation; `HeldMeansStopped` holds all the same, since the
executor awaits the child before it is held. `close` of the experiment manager stops the player
first, and an error there skips the recorder (`manager.py:617-618`), which then records on without
its node, against the comment that it must not leave a recorder orphaned (`manager.py:620`): the
model keeps those children in `stranded`, and the properties leave them out. A request to the
preview node ends in bounded time only if the executor runs its timer; the invariant behind it, that
the timer is armed for the goal that is waited for, is proved (`OneGoalIsTimed`).

Teach-repeat results and failure cases of the experiment manager are called by tests only; its
listings, and those of the registry, only read; a line of `events.jsonl` that a crash cut in half
makes every later summary of that experiment fail (`manager.py:708`), and is not modelled. The
waypoint server reads task files without the registry, and may start a version whose put is then
undone. The goal bridge forwards one message to one action; the handle of a goal may be cleared by
the result of the one it replaced (`goal_pose_bridge.py:51`). The mapping, perception and
description packages keep next to no protocol state.

What comes next, in this order:

1. **Refinements** – an abstract register (last answer, lost requests) that `TaskRegistry`
   implements between its requests, and an abstract task server (one task, one outcome) that
   `WaypointServer` implements until a session is clobbered.
2. **Waypoint server** – several callbacks of one kind at work at once, which the reentrant group
   allows.
3. **Registry and server together** – the waypoint server's reading of the task files, for the
   version that is started while its put is undone.
