--------------------------- MODULE MissionStorage ---------------------------
(***************************************************************************)
(* execution_state.json as the mission manager writes and recovers it.     *)
(* _checkpoint is called by the executor thread, on every transition, and  *)
(* by the ROS threads that run on_feedback; write_execution_state opens    *)
(* one temporary name, writes it and renames it over the target.           *)
(*                                                                         *)
(* A status document is known by its version: 0 before the mission, Last   *)
(* once it ended, anything between while it is active; a process runs one   *)
(* mission, after it recovered what the last one left.  Files are inodes,  *)
(* so that two writers of the temporary name share one file, and a rename  *)
(* takes the file from under a writer that still has it open.              *)
(***************************************************************************)
EXTENDS Naturals

CONSTANTS
  Executor,    \* the thread of MissionExecutor.execute
  Feedback,    \* the ROS threads that deliver child feedback
  Inodes,      \* files; enough of them that one is always free
  NoFile,
  Last,        \* version of the terminal document; bound on the transitions
  MaxCrashes   \* bound on the crashes

ASSUME StorageAssumption ==
  /\ Last \in Nat \ {0} /\ MaxCrashes \in Nat
  /\ Executor \notin Feedback /\ NoFile \notin Inodes

VARIABLES
  up,          \* the process runs
  version,     \* version of MissionExecutor.status
  place,       \* [Writers -> what the writer does next]
  doc,         \* [Writers -> version it serialised]
  file,        \* [Writers -> inode it has open]
  temporary,   \* inode behind execution_state.json.tmp
  target,      \* inode behind execution_state.json
  content,     \* [Inodes -> what the file holds]
  published,   \* what the manager publishes after the last restart
  committed,   \* history: version the executor last brought to the target
  overlapped,  \* history: two writers were at work at the same time
  crashes      \* history: number of crashes

threadVars == <<version, place, doc, file, committed, overlapped>>
diskVars   == <<temporary, target, content>>
vars == <<up, threadVars, diskVars, published, crashes>>

Writers   == {Executor} \cup Feedback
Versions  == 0..Last
Active(v) == v \in 1..(Last - 1)
Interrupted == Last + 1
EmptyFile   == Last + 2
MixedFile   == Last + 3
Documents   == 0..Interrupted

TypeOK ==
  /\ up \in BOOLEAN /\ version \in Versions
  /\ place \in [Writers -> {"idle", "open", "write", "replace", "raised"}]
  /\ doc \in [Writers -> Documents] /\ file \in [Writers -> Inodes \cup {NoFile}]
  /\ temporary \in Inodes \cup {NoFile} /\ target \in Inodes \cup {NoFile}
  /\ content \in [Inodes -> Documents \cup {EmptyFile, MixedFile}]
  /\ published \in {"NOTHING", "IDLE", "INTERRUPTED"}
  /\ committed \in Versions /\ overlapped \in BOOLEAN /\ crashes \in 0..MaxCrashes

Init ==
  /\ up = TRUE /\ version = 0 /\ committed = 0 /\ overlapped = FALSE
  /\ place = [w \in Writers |-> "idle"] /\ doc = [w \in Writers |-> 0]
  /\ file = [w \in Writers |-> NoFile]
  /\ temporary = NoFile /\ target = NoFile
  /\ content = [i \in Inodes |-> EmptyFile]
  /\ published = "IDLE" /\ crashes = 0

Free == Inodes \ ({temporary, target} \cup {file[w] : w \in Writers})

Busy(w) == place[w] \in {"open", "write", "replace"}

(* Writer w serialises document d and sets out to write it.                *)
Serialise(w, d) ==
  /\ doc' = [doc EXCEPT ![w] = d]
  /\ place' = [place EXCEPT ![w] = "open"]
  /\ overlapped' = (overlapped \/ \E v \in Writers \ {w} : Busy(v))

(* MissionExecutor._transition: a new status is serialised; the executor   *)
(* stops at the terminal one, or when a write raised.                      *)
Checkpoint ==
  /\ up /\ place[Executor] = "idle" /\ published # "NOTHING" /\ version < Last
  /\ version' = version + 1 /\ Serialise(Executor, version + 1)
  /\ UNCHANGED <<up, file, committed, diskVars, published, crashes>>

(* on_feedback: the status of this moment, from the first waypoint child,  *)
(* which runs after VALIDATING, until long after the mission's end.        *)
FeedbackCheckpoint(w) ==
  /\ up /\ place[w] = "idle" /\ version > 1
  /\ Serialise(w, version)
  /\ UNCHANGED <<up, version, file, committed, diskVars, published, crashes>>

(* Variant: no temporary file, the target itself is opened.                *)
OpenTarget(w) ==
  /\ up /\ place[w] = "open"
  /\ \E inode \in IF target = NoFile THEN Free ELSE {target} :
       /\ target' = inode
       /\ file' = [file EXCEPT ![w] = inode]
       /\ content' = [content EXCEPT ![inode] = EmptyFile]
  /\ place' = [place EXCEPT ![w] = "write"]
  /\ UNCHANGED <<up, version, doc, committed, overlapped, temporary, published, crashes>>

(* open(temporary, "w"): a new file, or the present one cut to nothing.    *)
Open(w) ==
  /\ up /\ place[w] = "open"
  /\ \E inode \in IF temporary = NoFile THEN Free ELSE {temporary} :
       /\ temporary' = inode
       /\ file' = [file EXCEPT ![w] = inode]
       /\ content' = [content EXCEPT ![inode] = EmptyFile]
  /\ place' = [place EXCEPT ![w] = "write"]
  /\ UNCHANGED <<up, version, doc, committed, overlapped, target, published, crashes>>

(* write, flush and fsync.  Over another writer's document the result is   *)
(* the new document or, when that is the shorter one, a mixture.           *)
Write(w) ==
  /\ up /\ place[w] = "write"
  /\ \E after \in IF content[file[w]] = EmptyFile THEN {doc[w]} ELSE {doc[w], MixedFile} :
       content' = [content EXCEPT ![file[w]] = after]
  /\ place' = [place EXCEPT ![w] = "replace"]
  /\ UNCHANGED <<up, version, doc, file, committed, overlapped, temporary, target, published, crashes>>

(* Variant: a file that does not hold the writer's document is removed.    *)
ReplaceVerified(w) ==
  /\ up /\ place[w] = "replace"
  /\ \/ /\ temporary # NoFile /\ content[temporary] = doc[w]
        /\ target' = temporary
        /\ place' = [place EXCEPT ![w] = "idle"]
        /\ committed' = IF w = Executor /\ doc[w] # Interrupted THEN doc[w] ELSE committed
        /\ published' = IF doc[w] = Interrupted THEN "INTERRUPTED" ELSE published
     \/ /\ temporary # NoFile => content[temporary] # doc[w]
        /\ place' = [place EXCEPT ![w] = "raised"]
        /\ UNCHANGED <<target, committed, published>>
  /\ temporary' = NoFile /\ file' = [file EXCEPT ![w] = NoFile]
  /\ UNCHANGED <<up, version, doc, overlapped, content, crashes>>

(* os.replace: FileNotFoundError when another writer took the file.  The   *)
(* recovered document is published only after it was written.              *)
Replace(w) ==
  /\ up /\ place[w] = "replace"
  /\ \/ /\ temporary # NoFile
        /\ target' = temporary /\ temporary' = NoFile
        /\ place' = [place EXCEPT ![w] = "idle"]
        /\ committed' = IF w = Executor /\ doc[w] # Interrupted THEN doc[w] ELSE committed
        /\ published' = IF doc[w] = Interrupted THEN "INTERRUPTED" ELSE published
     \/ /\ temporary = NoFile
        /\ place' = [place EXCEPT ![w] = "raised"]
        /\ UNCHANGED <<target, temporary, committed, published>>
  /\ file' = [file EXCEPT ![w] = NoFile]
  /\ UNCHANGED <<up, version, doc, overlapped, content, crashes>>

(* The process dies; what was written stays in the file system.            *)
Crash ==
  /\ up /\ crashes < MaxCrashes
  /\ up' = FALSE /\ crashes' = crashes + 1
  /\ UNCHANGED <<threadVars, diskVars, published>>

Found == IF target = NoFile THEN EmptyFile ELSE content[target]

(* Variant: a terminal document counts as active.                          *)
FoundInterruptedOrEnded == Found \in 1..Interrupted

(* recover_interrupted: an active document, or one recovered before.       *)
FoundInterrupted == Active(Found) \/ Found = Interrupted

(* The next process: new threads, a new mission, and what recover_-        *)
(* interrupted found.  An active document is written again as INTERRUPTED  *)
(* before any executor exists; an unreadable one is logged and the status  *)
(* is IDLE, as it is when no mission was active.                           *)
Restart ==
  /\ ~up /\ up' = TRUE
  /\ version' = 0 /\ file' = [w \in Writers |-> NoFile]
  /\ \/ /\ FoundInterrupted
        /\ doc' = [doc EXCEPT ![Executor] = Interrupted]
        /\ place' = [w \in Writers |-> IF w = Executor THEN "open" ELSE "idle"]
        /\ published' = "NOTHING"
     \/ /\ ~FoundInterrupted
        /\ place' = [w \in Writers |-> "idle"]
        /\ published' = "IDLE" /\ UNCHANGED doc
  /\ UNCHANGED <<committed, overlapped, diskVars, crashes>>

Next ==
  \/ Checkpoint
  \/ \E w \in Feedback : FeedbackCheckpoint(w)
  \/ \E w \in Writers : Open(w) \/ Write(w) \/ Replace(w)
  \/ Crash \/ Restart

Spec == Init /\ [][Next]_vars

-----------------------------------------------------------------------------
(* Unless two writers were at work at once, a crash at any moment leaves a *)
(* whole status document, or none at all.                                  *)
Readable == ~overlapped /\ target # NoFile => content[target] \in Documents

(* Of two writers that share the temporary name at most one finds it gone: *)
(* whoever comes to rename while nobody renamed before it succeeds.        *)
OneWriterGetsThrough == \E w \in Writers : place[w] # "raised"

(* What a restarted process publishes before a mission starts.             *)
Reported == version = 0 /\ published # "NOTHING"

(* Unless two writers were at work at once, a restarted manager publishes  *)
(* INTERRUPTED exactly when the last status the executor brought to disk   *)
(* was of an active mission, over any number of crashes, also while the    *)
(* recovered document is being written, and late feedback.                 *)
RestartTellsTruth ==
  ~overlapped /\ Reported => (published = "INTERRUPTED" <=> Active(committed))

(* What the README promises without that condition: an active mission is   *)
(* published as INTERRUPTED after a restart.                               *)
ActiveIsInterrupted == Reported /\ Active(committed) => published = "INTERRUPTED"
=============================================================================
