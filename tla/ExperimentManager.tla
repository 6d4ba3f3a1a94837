------------------------- MODULE ExperimentManager -------------------------
(***************************************************************************)
(* The experiment manager: a manifest and a summary per experiment, and    *)
(* the rosbag recorder and player it starts.                               *)
(*                                                                         *)
(* The callbacks of the node exclude each other, so one request is carried *)
(* out at a time, but it writes several files, each write may fail, it     *)
(* waits for child processes, and the node may die at any step.  Children  *)
(* have sessions of their own: they outlive the node.  A request that is   *)
(* refused changes nothing and is no step; events, health and configura-   *)
(* tion are written and read by nobody here, so that they only fail.       *)
(***************************************************************************)
EXTENDS Naturals

CONSTANTS
  Experiments,  \* experiment_id
  Processes,    \* children; their number bounds those alive or remembered
  Missing,      \* no process, no request, no experiment
  MaxResults    \* bound on the results of an experiment

ASSUME ExperimentAssumption ==
  /\ Missing \notin Experiments /\ Missing \notin Processes
  /\ Missing \notin [kind : {"create", "finalize", "interrupt", "invalidate", "stop", "unplay"},
                     experiment : Experiments \cup {Missing}]
  /\ MaxResults \in Nat

VARIABLES
  node,      \* "down", "recovering", "up", "closing"
  manifest,  \* [Experiments -> state in manifest.yaml]
  summary,   \* [Experiments -> state in summary.json]
  results,   \* [Experiments -> lines of localization_results.jsonl]
  summed,    \* [Experiments -> lines that the summary counted]
  process,   \* [Processes -> "running", "told" to stop or "exited"]
  source,    \* [Processes -> experiment it records, Missing for a player]
  bag,       \* _bag_process
  player,    \* _playback_process
  request,   \* what the node carries out
  step,      \* and what it does next
  begun,     \* history: [Experiments -> how this process of the node started it]
  missed,    \* history: experiments that run, and whose manifest could not be read since
  orphans,   \* history: children that were alive when the node died
  stranded   \* history: those that a normal end of the node left alone

recordVars  == <<manifest, summary, results, summed>>
processVars == <<process, source>>
handleVars  == <<bag, player>>
requestVars == <<request, step>>
strayVars  == <<missed, orphans, stranded>>
experimentVars ==
  <<node, recordVars, processVars, handleVars, requestVars, begun, strayVars>>

States == {"absent", "CREATED", "RUNNING", "COMPLETED", "INTERRUPTED", "INVALID"}
Steps  == {"ready", "describe", "begin", "signal", "wait", "note", "write", "sum", "quiet"}
RequestKinds == {"create", "finalize", "interrupt", "invalidate", "stop", "unplay"}
ManageRequests == [kind : RequestKinds, experiment : Experiments \cup {Missing}]

ExperimentTypes ==
  /\ node \in {"down", "recovering", "up", "closing"}
  /\ manifest \in [Experiments -> States]
  /\ summary \in [Experiments -> {"absent", "CREATED", "COMPLETED", "INVALID"}]
  /\ results \in [Experiments -> 0..MaxResults] /\ summed \in [Experiments -> 0..MaxResults]
  /\ process \in [Processes -> {"running", "told", "exited"}]
  /\ source \in [Processes -> Experiments \cup {Missing}]
  /\ bag \in Processes \cup {Missing} /\ player \in Processes \cup {Missing}
  /\ request \in ManageRequests \cup {Missing} /\ step \in Steps
  /\ begun \in [Experiments -> {"no", "created", "resumed"}]
  /\ missed \in SUBSET Experiments
  /\ orphans \in SUBSET Processes /\ stranded \in SUBSET Processes

ExperimentInit ==
  /\ node = "recovering"
  /\ manifest = [e \in Experiments |-> "absent"] /\ summary = [e \in Experiments |-> "absent"]
  /\ results = [e \in Experiments |-> 0] /\ summed = [e \in Experiments |-> 0]
  /\ process = [p \in Processes |-> "exited"] /\ source = [p \in Processes |-> Missing]
  /\ bag = Missing /\ player = Missing /\ request = Missing /\ step = "ready"
  /\ begun = [e \in Experiments |-> "no"]
  /\ missed = {} /\ orphans = {} /\ stranded = {}

Live(p)      == p # Missing /\ process[p] # "exited"
Recording(p) == process[p] = "running" /\ source[p] # Missing
Running(e)   == manifest[e] = "RUNNING"
Ready        == node = "up" /\ step = "ready"

Carry(kind, e, next) == request' = [kind |-> kind, experiment |-> e] /\ step' = next
Finished == request' = Missing /\ step' = "ready"
Becomes(e, state) == manifest' = [manifest EXCEPT ![e] = state]

-----------------------------------------------------------------------------
(* Variant: experiments run side by side.                                  *)
CreateBeside(e) ==
  /\ Ready /\ manifest[e] = "absent"
  /\ Becomes(e, "CREATED") /\ Carry("create", e, "describe")
  /\ UNCHANGED <<node, summary, results, summed, processVars, handleVars, begun, strayVars>>

(* create_experiment: no other may be running, of those that list finds.   *)
(* It passes over the manifests that it cannot read.                       *)
Create(e) ==
  /\ Ready /\ manifest[e] = "absent"
  /\ missed' = missed \cup {x \in Experiments : Running(x)}
  /\ Becomes(e, "CREATED") /\ Carry("create", e, "describe")
  /\ UNCHANGED <<node, summary, results, summed, processVars, handleVars, begun, orphans, stranded>>

(* snapshot_config and snapshot_health, which may fail; then the request   *)
(* may ask for a start as well.                                            *)
Snapshots ==
  \/ step' = "begin" /\ UNCHANGED request
  \/ Finished

(* The end of create.                                                      *)
Describe ==
  /\ node = "up" /\ step = "describe"
  /\ \/ summary' = [summary EXCEPT ![request.experiment] = "CREATED"] /\ Snapshots
     \/ UNCHANGED summary /\ Finished
  /\ UNCHANGED <<node, manifest, results, summed, processVars, handleVars, begun, strayVars>>

(* start of the experiment that was just created.                          *)
Begin ==
  /\ node = "up" /\ step = "begin" /\ Finished
  /\ \/ Becomes(request.experiment, "RUNNING") /\ begun' = [begun EXCEPT ![request.experiment] = "created"]
     \/ UNCHANGED <<manifest, begun>>
  /\ UNCHANGED <<node, summary, results, summed, processVars, handleVars, strayVars>>

(* Variant: a completed experiment may go on.                              *)
ResumeAny(e) ==
  /\ Ready /\ manifest[e] \in {"CREATED", "INTERRUPTED", "COMPLETED"}
  /\ Becomes(e, "RUNNING") /\ begun' = [begun EXCEPT ![e] = "resumed"]
  /\ UNCHANGED <<node, summary, results, summed, processVars, handleVars, requestVars, strayVars>>

(* start on request, whatever else is running.                             *)
Resume(e) ==
  /\ Ready /\ manifest[e] \in {"CREATED", "INTERRUPTED"}
  /\ Becomes(e, "RUNNING") /\ begun' = [begun EXCEPT ![e] = "resumed"]
  /\ UNCHANGED <<node, summary, results, summed, processVars, handleVars, requestVars, strayVars>>

(* record_localization_result: one more line for an experiment that runs.  *)
AddResult(e) ==
  Running(e) /\ results[e] < MaxResults /\ results' = [results EXCEPT ![e] = @ + 1]

(* The localization callback, whose result is lost when it cannot be       *)
(* written.                                                                *)
LocalizationCallback(e) ==
  /\ Ready /\ AddResult(e)
  /\ UNCHANGED <<node, manifest, summary, summed, processVars, handleVars, requestVars, begun, strayVars>>

(* A new child of the node.                                                *)
Popen(p, e) ==
  /\ process[p] = "exited" /\ p \notin {bag, player}
  /\ process' = [process EXCEPT ![p] = "running"] /\ source' = [source EXCEPT ![p] = e]

(* start_bag: one recorder at a time.  The manifest is written once more,  *)
(* with the same state; a failure there leaves the recorder running.       *)
StartBag(e) ==
  /\ Ready /\ Running(e) /\ ~Live(bag)
  /\ \E p \in Processes : Popen(p, e) /\ bag' = p
  /\ UNCHANGED <<node, recordVars, player, requestVars, begun, strayVars>>

(* start_playback: not while another plays or records.  The child before,  *)
(* which has exited, is forgotten in any case.                             *)
StartPlayback ==
  /\ Ready /\ ~Live(player)
  /\ \/ ~Live(bag) /\ \E p \in Processes : Popen(p, Missing) /\ player' = p
     \/ player' = Missing /\ UNCHANGED processVars
  /\ UNCHANGED <<node, recordVars, bag, requestVars, begun, strayVars>>

(* A child exits, asked or not.                                            *)
Exit(p) ==
  /\ process[p] # "exited" /\ process' = [process EXCEPT ![p] = "exited"]
  /\ orphans' = orphans \ {p} /\ stranded' = stranded \ {p}
  /\ UNCHANGED <<node, recordVars, source, handleVars, requestVars, begun, missed>>

Tell(p) == process' = IF process[p] = "running" THEN [process EXCEPT ![p] = "told"] ELSE process

-----------------------------------------------------------------------------
(* A request that first stops the recorder, if there is one.               *)
StopFirst(kind, e) ==
  /\ Carry(kind, e, IF bag # Missing THEN "signal" ELSE "write")
  /\ UNCHANGED <<node, recordVars, processVars, handleVars, begun, strayVars>>

(* Variant: any experiment may.                                            *)
StopAnyRecording(e) ==
  Ready /\ bag # Missing /\ StopFirst("stop", e)

(* manage, operation 2: only the recording's own experiment may stop it.   *)
StopRecording(e) ==
  Ready /\ bag # Missing /\ e = source[bag] /\ StopFirst("stop", e)

Finalize(e)  == Ready /\ Running(e) /\ StopFirst("finalize", e)
Interrupt(e) == Ready /\ Running(e) /\ StopFirst("interrupt", e)

(* mark_invalid: an experiment that does not run has no recorder.          *)
MarkInvalid(e) ==
  /\ Ready /\ manifest[e] # "absent"
  /\ \/ Running(e) /\ StopFirst("invalidate", e)
     \/ /\ ~Running(e) /\ Carry("invalidate", e, "write")
        /\ UNCHANGED <<node, recordVars, processVars, handleVars, begun, strayVars>>

(* stop_bag sends SIGINT to a recorder that is alive,                      *)
SignalBag ==
  /\ node = "up" /\ step = "signal" /\ Tell(bag) /\ step' = "wait"
  /\ UNCHANGED <<node, recordVars, source, handleVars, request, begun, strayVars>>

(* waits until it exits, or for 30 s and after SIGTERM 5 s more: then the  *)
(* request fails and the recorder remains the manager's,                   *)
WaitForBag ==
  /\ node = "up" /\ step = "wait"
  /\ \/ ~Live(bag) /\ step' = "note" /\ UNCHANGED request
     \/ Live(bag) /\ Finished
  /\ UNCHANGED <<node, recordVars, processVars, handleVars, begun, strayVars>>

(* Variant: what has exited is still remembered.                           *)
NoteBagKept ==
  /\ node = "up" /\ step = "note" /\ UNCHANGED bag
  /\ \/ request.kind # "stop" /\ step' = "write" /\ UNCHANGED request
     \/ Finished
  /\ UNCHANGED <<node, recordVars, processVars, player, begun, strayVars>>

(* adds an event, which may fail, and forgets it.                          *)
NoteBagStopped ==
  /\ node = "up" /\ step = "note"
  /\ \/ /\ bag' = Missing
        /\ \/ request.kind = "stop" /\ Finished
           \/ request.kind # "stop" /\ step' = "write" /\ UNCHANGED request
     \/ UNCHANGED bag /\ Finished
  /\ UNCHANGED <<node, recordVars, processVars, player, begun, strayVars>>

(* The manifest of an experiment that ends; only finalize goes on from it. *)
WriteManifest ==
  /\ node = "up" /\ step = "write"
  /\ \/ /\ request.kind = "finalize" /\ step' = "sum" /\ UNCHANGED request
        /\ \E state \in {"COMPLETED", "INVALID"} : Becomes(request.experiment, state)
     \/ request.kind = "interrupt" /\ Becomes(request.experiment, "INTERRUPTED") /\ Finished
     \/ request.kind = "invalidate" /\ Becomes(request.experiment, "INVALID") /\ Finished
     \/ UNCHANGED manifest /\ Finished
  /\ missed' = {e \in missed : manifest'[e] = "RUNNING"}
  /\ UNCHANGED <<node, summary, results, summed, processVars, handleVars, begun, orphans, stranded>>

(* _summary counts what was added, and with the report it is written; a    *)
(* failure leaves the summary of the time of creation for ever.            *)
WriteSummary ==
  /\ node = "up" /\ step = "sum" /\ Finished
  /\ \/ /\ summary' = [summary EXCEPT ![request.experiment] = manifest[request.experiment]]
        /\ summed' = [summed EXCEPT ![request.experiment] = results[request.experiment]]
     \/ UNCHANGED <<summary, summed>>
  /\ UNCHANGED <<node, manifest, results, processVars, handleVars, begun, strayVars>>

(* stop_playback: SIGINT,                                                  *)
StopPlayback ==
  /\ Ready /\ player # Missing /\ Tell(player) /\ Carry("unplay", Missing, "quiet")
  /\ UNCHANGED <<node, recordVars, source, handleVars, begun, strayVars>>

(* and 10 s and 5 s of patience; a player that does not exit is kept.      *)
WaitForPlayer ==
  /\ node = "up" /\ step = "quiet" /\ Finished
  /\ \/ ~Live(player) /\ player' = Missing
     \/ Live(player) /\ UNCHANGED player
  /\ UNCHANGED <<node, recordVars, processVars, bag, begun, strayVars>>

-----------------------------------------------------------------------------
(* The node's process is gone, and with it all that it held in memory.     *)
Gone ==
  /\ node' = "down" /\ Finished /\ bag' = Missing /\ player' = Missing
  /\ begun' = [e \in Experiments |-> "no"] /\ missed' = {}
  /\ UNCHANGED <<recordVars, source>>

Die ==
  /\ node # "down" /\ Gone
  /\ orphans' = orphans \cup {p \in Processes : process[p] # "exited"} /\ UNCHANGED <<process, stranded>>

(* destroy_node, close: the player is told to stop first,                  *)
Shutdown ==
  /\ Ready /\ node' = "closing"
  /\ IF player # Missing THEN Tell(player) ELSE UNCHANGED process
  /\ UNCHANGED <<recordVars, source, handleVars, requestVars, begun, strayVars>>

(* and when it does not exit in time, the error ends the node's process;   *)
PlayerStays ==
  /\ node = "closing" /\ Live(player) /\ Gone
  /\ stranded' = stranded \cup {p \in Processes \ orphans : process[p] # "exited"}
  /\ UNCHANGED <<process, orphans>>

(* then the recorder, which has 10 s to exit and is forgotten either way.  *)
CloseRecorder ==
  /\ node = "closing" /\ ~Live(player) /\ Gone
  /\ IF bag # Missing THEN Tell(bag) ELSE UNCHANGED process
  /\ UNCHANGED <<orphans, stranded>>

(* The node starts again: recover_interrupted goes from one manifest to    *)
(* the next, and fails when one cannot be written.                         *)
Boot ==
  /\ node = "down" /\ node' = "recovering"
  /\ UNCHANGED <<recordVars, processVars, handleVars, requestVars, begun, strayVars>>

Recover(e) ==
  /\ node = "recovering" /\ Running(e) /\ e \notin missed /\ Becomes(e, "INTERRUPTED")
  /\ UNCHANGED <<node, summary, results, summed, processVars, handleVars, requestVars, begun, strayVars>>

(* A manifest that cannot be read is passed over, and goes on RUNNING.     *)
RecoverSkips(e) ==
  /\ node = "recovering" /\ Running(e) /\ missed' = missed \cup {e}
  /\ UNCHANGED <<node, recordVars, processVars, handleVars, requestVars, begun, orphans, stranded>>

(* Variant: the manager comes up after the first.                          *)
RecoveredFirst ==
  /\ node = "recovering" /\ node' = "up"
  /\ UNCHANGED <<recordVars, processVars, handleVars, requestVars, begun, strayVars>>

Recovered ==
  /\ node = "recovering" /\ node' = "up" /\ \A e \in Experiments : Running(e) => e \in missed
  /\ UNCHANGED <<recordVars, processVars, handleVars, requestVars, begun, strayVars>>

ExperimentNext ==
  \/ \E e \in Experiments :
       \/ Create(e) \/ Resume(e) \/ LocalizationCallback(e) \/ StartBag(e) \/ StopRecording(e)
       \/ Finalize(e) \/ Interrupt(e) \/ MarkInvalid(e) \/ Recover(e)
       \/ RecoverSkips(e)
  \/ Describe \/ Begin \/ SignalBag \/ WaitForBag \/ NoteBagStopped
  \/ WriteManifest \/ WriteSummary \/ StartPlayback \/ StopPlayback \/ WaitForPlayer
  \/ \E p \in Processes : Exit(p)
  \/ Die \/ Shutdown \/ PlayerStays \/ CloseRecorder \/ Boot \/ Recovered

ExperimentSpec == ExperimentInit /\ [][ExperimentNext]_experimentVars

-----------------------------------------------------------------------------
(* status, which every change is answered with and a timer publishes: the  *)
(* recorder comes before the player, and a child that exited unasked is an *)
(* error.  The experiment that runs, which an idle status names, is left   *)
(* out.                                                                    *)
Status ==
  LET show(state, e) == [state |-> state, experiment |-> e] IN
  CASE Live(bag)                                   -> show("RECORDING", source[bag])
    [] bag # Missing /\ ~Live(bag)                 -> show("ERROR", source[bag])
    [] bag = Missing /\ Live(player)               -> show("PLAYING", Missing)
    [] bag = Missing /\ player # Missing /\ ~Live(player) -> show("ERROR", Missing)
    [] bag = Missing /\ player = Missing           -> show("IDLE", Missing)

-----------------------------------------------------------------------------
(* A recorder that nobody told to stop is the manager's and records an     *)
(* experiment that runs, unless the node's own end set it free: no way of  *)
(* ending an experiment, and no failure on that way, leaves one behind.    *)
RecordsWhileRunning ==
  \A p \in Processes : Recording(p) /\ p \notin orphans \cup stranded => p = bag /\ Running(source[p])

(* No recorder works unseen: one that nobody told to stop is in the        *)
(* status, with its experiment, unless the node's own end set it free; and *)
(* an experiment that is named with a recorder runs.                       *)
StatusIsTrue ==
  /\ \A p \in Processes : Recording(p) /\ p \notin orphans \cup stranded =>
       Status = [state |-> "RECORDING", experiment |-> source[p]]
  /\ Status.experiment # Missing => Running(Status.experiment)

(* After a restart nothing runs that was not started since, although the   *)
(* recovery may be cut short as often as you like, but for what it could   *)
(* not read.                                                               *)
RunningWasStarted ==
  node \in {"up", "closing"} => \A e \in Experiments : Running(e) => begun[e] # "no" \/ e \in missed

(* Of two experiments that run, one was started by hand or could not be    *)
(* read when the other was created: create alone never brings a second one *)
(* up beside one that it sees, through failures and restarts.              *)
OneCreatedRuns ==
  \A e, x \in Experiments :
    begun[e] = "created" /\ Running(e) /\ begun[x] = "created" /\ Running(x) =>
      e = x \/ e \in missed \/ x \in missed

(* A recorder is stopped for its own experiment, or for another one that   *)
(* runs beside it because one of the two was started by hand or missed.    *)
StopsItsOwn ==
  step \in {"wait", "note"} /\ bag # Missing =>
    \/ request.experiment = source[bag]
    \/ \E e \in {request.experiment, source[bag]} : begun[e] = "resumed" \/ e \in missed

(* An experiment runs only as it was asked to: since this start of the     *)
(* node, alone unless by hand, and with a recorder of its own to stop,     *)
(* unless its manifest could not be read when it mattered.                 *)
RunsAsAsked == RunningWasStarted /\ OneCreatedRuns /\ StopsItsOwn

(* A summary of an end is written after the end, counts every result, and  *)
(* its experiment never runs again.                                        *)
SummariesAreTrue ==
  \A e \in Experiments : summary[e] \in {"COMPLETED", "INVALID"} =>
    manifest[e] \in {summary[e], "INVALID"} /\ summed[e] = results[e]
=============================================================================
