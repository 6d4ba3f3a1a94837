---------------------------- MODULE TaskRegistry ----------------------------
(***************************************************************************)
(* The robot's registry of waypoint tasks of one READY map version: a file *)
(* and an index entry per task, put and archive requests with an expected  *)
(* revision, and two caches of the last answers by client_request_id.      *)
(*                                                                         *)
(* The services of task_registry_node share a mutually exclusive group, so *)
(* one request is carried out at a time, but it takes several steps on the *)
(* disk, each may fail, and the process may die between them.  A client    *)
(* reads a task, makes one request of what it saw, and sends it as often   *)
(* as it likes.  A request that is answered from a cache or refused leaves *)
(* everything as it is: it is no step.  Backups are written and removed,   *)
(* never read; list and get only read.                                     *)
(***************************************************************************)
EXTENDS Naturals, Sequences

CONSTANTS
  Tasks,        \* task_group_id
  Contents,     \* content_sha256
  Bulky,        \* those over maximum_task_bytes as they are stored, not as they are sent
  Puts,         \* requests to put a task
  Archives,     \* requests to archive one
  Keyed,        \* requests with a client_request_id
  None,         \* no file, no request
  Limit,        \* recent_request_limit
  MaxRevision,  \* bound on the revisions clients write
  MaxCrashes    \* bound on the crashes

ASSUME RegistryAssumption ==
  /\ Limit \in Nat \ {0} /\ MaxRevision \in Nat \ {0} /\ MaxCrashes \in Nat
  /\ Puts \cap Archives = {} /\ Bulky \subseteq Contents
  /\ None \notin [revision : 1..MaxRevision, content : Contents]

VARIABLES
  up,        \* the node runs
  file,      \* [Tasks -> version in the task's file]
  index,     \* [Tasks -> version in task_index.json]
  unread,    \* history: tasks that could not be read back when the index was written last
  recent,    \* [Kinds -> answered requests, the oldest first]
  place,     \* what the request that is carried out does next
  op,        \* that request
  previous,  \* the version it found
  asked,     \* [Requests -> the request its client made]
  told,      \* history: [Tasks -> version the last successful answer left]
  lost,      \* history: [Tasks -> versions of requests that were cut short since]
  done,      \* history: requests that were carried out and answered
  later,     \* history: [Requests -> answers since its own, Limit when forgotten]
  stale,     \* history: requests of a task that was archived since
  spoiled,   \* history: tasks whose index entry was left behind
  crashes    \* history: number of crashes

diskVars == <<file, index, unread>>
opVars   == <<place, op, previous>>
answers  == <<recent, told, done, later>>
vars == <<up, diskVars, opVars, answers, asked, lost, stale, spoiled, crashes>>

Requests == Puts \cup Archives
Versions == [revision : 1..MaxRevision, content : Contents]
Kinds    == {"put", "archive"}
KindOf(r) == IF r \in Puts THEN "put" ELSE "archive"
RevisionOf(v) == IF v = None THEN 0 ELSE v.revision

(* _read_task_file: what is stored is indented, and may have become larger *)
(* than what put_task was sent.                                            *)
Readable(v) == v # None => v.content \notin Bulky

TypeOK ==
  /\ up \in BOOLEAN
  /\ file \in [Tasks -> Versions \cup {None}] /\ index \in [Tasks -> Versions \cup {None}]
  /\ unread \in SUBSET Tasks
  /\ recent \in [Kinds -> Seq(Requests)] /\ \A k \in Kinds : Len(recent[k]) <= Limit
  /\ place \in {"idle", "write", "index", "restore", "clean"}
  /\ op \in Requests \cup {None} /\ previous \in Versions \cup {None}
  /\ asked \in [Requests -> [task : Tasks, base : Versions \cup {None},
                             version : Versions \cup {None}] \cup {None}]
  /\ told \in [Tasks -> Versions \cup {None}] /\ lost \in [Tasks -> SUBSET (Versions \cup {None})]
  /\ done \in SUBSET Requests /\ later \in [Requests -> 0..Limit]
  /\ stale \in SUBSET Requests /\ spoiled \in SUBSET Tasks /\ crashes \in 0..MaxCrashes

Init ==
  /\ up = TRUE
  /\ file = [t \in Tasks |-> None] /\ index = [t \in Tasks |-> None]
  /\ unread = {}
  /\ recent = [k \in Kinds |-> <<>>]
  /\ place = "idle" /\ op = None /\ previous = None
  /\ asked = [r \in Requests |-> None]
  /\ told = [t \in Tasks |-> None] /\ lost = [t \in Tasks |-> {}]
  /\ done = {} /\ later = [r \in Requests |-> Limit]
  /\ stale = {} /\ spoiled = {} /\ crashes = 0

TaskOf(r)   == asked[r].task

(* Variant: any revision is taken for the expected one.                    *)
AnyExpected(r) == RevisionOf(file[TaskOf(r)])

Expected(r) == RevisionOf(asked[r].base)
Known(r)    == r \in Keyed /\ \E i \in DOMAIN recent[KindOf(r)] : recent[KindOf(r)][i] = r

(* A client gets a task that can be read, or learns that there is none,    *)
(* and makes a request of it; a put's document, valid by                   *)
(* TaskGroup.from_dict, has any revision.                                  *)
Prepare(r) ==
  /\ up /\ place = "idle" /\ asked[r] = None
  /\ \E t \in Tasks, v \in IF r \in Puts THEN Versions ELSE {None} :
       /\ Readable(file[t])
       /\ asked' = [asked EXCEPT ![r] = [task |-> t, base |-> file[t], version |-> v]]
  /\ UNCHANGED <<up, diskVars, opVars, answers, lost, stale, spoiled, crashes>>

(* Variant: a full cache keeps what it has.                                *)
RememberedFirst(cache, r) == IF Len(cache) < Limit THEN Append(cache, r) ELSE cache

(* _remember: the newest last, and the oldest goes when there are too many.*)
(* A request that is still there is answered before it gets here.          *)
Remembered(cache, r) ==
  IF Len(cache) < Limit THEN Append(cache, r) ELSE Append(Tail(cache), r)

(* Request r is answered with success, now that its task is at version v.  *)
Answer(r, v) ==
  /\ told' = [told EXCEPT ![TaskOf(r)] = v]
  /\ lost' = [lost EXCEPT ![TaskOf(r)] = {}]
  /\ done' = done \cup {r}
  /\ recent' = IF r \in Keyed THEN [recent EXCEPT ![KindOf(r)] = Remembered(@, r)] ELSE recent
  /\ later' = [s \in Requests |->
                 IF s = r /\ r \in Keyed THEN 0
                 ELSE IF r \in Keyed /\ KindOf(s) = KindOf(r) /\ later[s] < Limit
                      THEN later[s] + 1 ELSE later[s]]

(* The request is over, its task is at version v: if the task is gone, all *)
(* that clients saw of it is obsolete.                                     *)
Over(v) ==
  /\ place' = "idle"
  /\ stale' = IF previous # None /\ v = None
              THEN stale \cup {r \in Requests : asked[r] # None /\ TaskOf(r) = TaskOf(op)}
              ELSE stale
  /\ op' = None /\ previous' = None

CutShort == lost' = [lost EXCEPT ![TaskOf(op)] = @ \cup {asked[op].version}]

(* put_task: the very document that is stored; nothing to write.           *)
PutAgain(r) ==
  /\ up /\ place = "idle" /\ asked[r] # None /\ ~Known(r) /\ r \in Puts
  /\ Readable(file[TaskOf(r)])
  /\ file[TaskOf(r)] = asked[r].version /\ Expected(r) = RevisionOf(asked[r].version)
  /\ Answer(r, asked[r].version)
  /\ UNCHANGED <<up, diskVars, opVars, asked, stale, spoiled, crashes>>

(* A request that was not answered lately, and expects the revision that   *)
(* is stored and can be read: of a task that cannot, every request fails.  *)
Accept(r) ==
  /\ up /\ place = "idle" /\ asked[r] # None /\ ~Known(r)
  /\ Readable(file[TaskOf(r)]) /\ Expected(r) = RevisionOf(file[TaskOf(r)])
  /\ place' = "write" /\ op' = r /\ previous' = file[TaskOf(r)]
  /\ UNCHANGED <<up, diskVars, answers, asked, lost, stale, spoiled, crashes>>

(* put_task up to its first write: the revision must increase.             *)
PutTask(r) ==
  r \in Puts /\ Accept(r) /\ RevisionOf(asked[r].version) > Expected(r)

(* archive_task up to its first write: there is a task to archive.         *)
ArchiveTask(r) ==
  r \in Archives /\ Accept(r) /\ file[TaskOf(r)] # None

(* _write_bytes_atomic: it may fail before the file is replaced, and       *)
(* after, in the sync of its directory.                                    *)
ReplaceFile ==
  /\ up /\ place = "write" /\ op \in Puts
  /\ \E v \in {previous, asked[op].version} :
       /\ file' = [file EXCEPT ![TaskOf(op)] = v]
       /\ \/ v = asked[op].version /\ place' = "index"
          \/ place' = "restore"
  /\ UNCHANGED <<up, index, unread, op, previous, answers, asked, lost, stale, spoiled, crashes>>

(* archive_task moves the file away; when it cannot, there is nothing to   *)
(* bring back.                                                             *)
MoveFile ==
  /\ up /\ place = "write" /\ op \in Archives
  /\ \/ /\ file' = [file EXCEPT ![TaskOf(op)] = None]
        /\ place' = "index" /\ UNCHANGED <<op, previous, stale>>
     \/ UNCHANGED file /\ Over(previous)
  /\ UNCHANGED <<up, index, unread, answers, asked, lost, spoiled, crashes>>

(* list_tasks passes over the files that it cannot read, among them all    *)
(* that are too large, and says nothing.                                   *)
ListTasks ==
  /\ unread' \in SUBSET {t \in Tasks : file[t] # None}
  /\ \A t \in Tasks : Readable(file[t]) \/ t \in unread'
  /\ index' = [t \in Tasks |-> IF t \in unread' THEN None ELSE file[t]]

(* _write_index writes what list_tasks found; it may fail before or after  *)
(* the index was replaced.                                                 *)
WriteIndex ==
  /\ up /\ place = "index"
  /\ \/ /\ ListTasks /\ spoiled' = {}
        /\ \/ op \in Puts /\ Answer(op, asked[op].version) /\ Over(asked[op].version)
           \/ /\ op \in Archives /\ place' = "clean"
              /\ UNCHANGED <<op, previous, answers, lost, stale>>
     \/ /\ \/ ListTasks /\ spoiled' = spoiled \cup {TaskOf(op)}
           \/ UNCHANGED <<index, unread, spoiled>>
        /\ place' = "restore" /\ UNCHANGED <<op, previous, answers, lost, stale>>
  /\ UNCHANGED <<up, file, asked, crashes>>

(* The handler of the error: the task's file is at version v again.        *)
Restored(v) ==
  /\ file' = [file EXCEPT ![TaskOf(op)] = v] /\ Over(v)
  /\ UNCHANGED <<up, index, unread, answers, asked, crashes>>

(* The handler fails as well, and leaves version v.                        *)
LeftAs(v) == Restored(v) /\ CutShort /\ spoiled' = spoiled \cup {TaskOf(op)}

(* Variant: the file stays as the failed request left it.                  *)
GiveUp ==
  /\ up /\ place = "restore" /\ op \in Puts
  /\ Restored(file[TaskOf(op)]) /\ UNCHANGED <<lost, spoiled>>

(* put_task writes the file as it was, or removes it; writing may fail     *)
(* after the file was replaced.                                            *)
RestoreFile ==
  /\ up /\ place = "restore" /\ op \in Puts
  /\ \/ Restored(previous) /\ UNCHANGED <<lost, spoiled>>
     \/ \E v \in {previous, file[TaskOf(op)]} : LeftAs(v)

(* archive_task moves the file back.                                       *)
MoveBack ==
  /\ up /\ place = "restore" /\ op \in Archives
  /\ \/ Restored(previous) /\ UNCHANGED <<lost, spoiled>>
     \/ LeftAs(None)

(* The end of archive_task: an error while it deletes backups leaves the   *)
(* task archived, and its client is told that it is not.                   *)
DeleteBackups ==
  /\ up /\ place = "clean" /\ Over(None)
  /\ \/ Answer(op, None)
     \/ CutShort /\ UNCHANGED answers
  /\ UNCHANGED <<up, diskVars, asked, spoiled, crashes>>

(* The process dies: the answers it remembered are gone, the disk stays.   *)
Crash ==
  /\ up /\ crashes < MaxCrashes /\ up' = FALSE /\ crashes' = crashes + 1
  /\ recent' = [k \in Kinds |-> <<>>] /\ later' = [r \in Requests |-> Limit]
  /\ \/ place = "idle" /\ UNCHANGED <<opVars, lost, stale, spoiled>>
     \/ /\ place # "idle" /\ CutShort /\ spoiled' = spoiled \cup {TaskOf(op)}
        /\ Over(file[TaskOf(op)])
  /\ UNCHANGED <<diskVars, asked, told, done>>

Restart == ~up /\ up' = TRUE /\ UNCHANGED <<diskVars, opVars, answers, asked, lost, stale, spoiled, crashes>>

Next ==
  \/ \E r \in Requests : Prepare(r) \/ PutAgain(r) \/ PutTask(r) \/ ArchiveTask(r)
  \/ ReplaceFile \/ MoveFile \/ WriteIndex \/ RestoreFile \/ MoveBack \/ DeleteBackups
  \/ Crash \/ Restart

Spec == Init /\ [][Next]_vars

-----------------------------------------------------------------------------
(* Between requests, and across crashes, a task is what the last success-  *)
(* ful answer said, or what a request wanted that was cut short since: a   *)
(* request that fails, at whichever step, leaves no trace.                 *)
AnswersAreTrue ==
  place \in {"idle", "write"} => \A t \in Tasks : file[t] \in {told[t]} \cup lost[t]

(* A request that is carried out replaces the very version that its client *)
(* saw, unless the task was archived in between: revision numbers suffice  *)
(* to lose no update, over failures, restarts and late deliveries.         *)
EditsWhatItSaw == place # "idle" /\ op \notin stale => previous = asked[op].base

(* A request that was answered is carried out a second time only when its  *)
(* task was archived since, and its key is forgotten: by a restart, or for *)
(* Limit later requests.                                                   *)
RetriesAreHarmless == place # "idle" /\ op \in done => op \in stale /\ later[op] = Limit

(* What is carried out is due: it was asked of this version, and once.     *)
WritesAreDue == EditsWhatItSaw /\ RetriesAreHarmless

(* Between requests the index shows the files as they are, but for tasks   *)
(* whose request was cut short, or whose failed index write came through   *)
(* all the same, since the last request that succeeded; only what could    *)
(* not be read back when the index was written is missing, in silence.     *)
IndexShowsFiles ==
  place \in {"idle", "write"} =>
    \A t \in Tasks \ spoiled : index[t] = IF t \in unread THEN None ELSE file[t]
=============================================================================
