----------------------- MODULE MissionStorage_proofs -----------------------
(***************************************************************************)
(* While no two writers are at work at once, the temporary file and the    *)
(* rename make a checkpoint crash-safe and a restart truthful, for every   *)
(* number of feedback threads, checkpoints and crashes.  The proof needs   *)
(* to know which file the one busy writer has open (the one behind the     *)
(* temporary name, never the target), what it is about to put there, and   *)
(* how the target's document relates to the executor's last checkpoint.    *)
(***************************************************************************)
EXTENDS MissionStorage, TLAPS

OneBusy == \A v, w \in Writers : Busy(v) /\ Busy(w) => v = w

WritesTemporary ==
  /\ \A w \in Writers :
       /\ place[w] # "raised"
       /\ place[w] \in {"write", "replace"} => temporary # NoFile /\ file[w] = temporary
       /\ place[w] = "write" => content[temporary] = EmptyFile
       /\ place[w] = "replace" => content[temporary] = doc[w]
  /\ temporary # NoFile => temporary # target

(* What a busy writer brings: the recovered document, or this version.     *)
Brings ==
  /\ \A w \in Writers : Busy(w) =>
       \/ w = Executor /\ published = "NOTHING" /\ doc[w] = Interrupted
       \/ published # "NOTHING" /\ version > 0 /\ doc[w] = version
  /\ ~Busy(Executor) /\ version > 0 => committed = version
  /\ published = "NOTHING" => version = 0 /\ Active(committed)

TargetHolds ==
  /\ target = NoFile => committed = 0
  /\ target # NoFile => \/ content[target] = committed
                        \/ content[target] = Interrupted /\ Active(committed)

Told == Reported => (published = "INTERRUPTED" <=> Active(committed))

OneWriterInv == OneBusy /\ WritesTemporary /\ Brings /\ TargetHolds /\ Told

IInv == TypeOK /\ (~overlapped => OneWriterInv)

LEMMA VersionFacts == /\ Versions \subseteq Documents /\ Interrupted \in Documents
                      /\ Interrupted \notin Versions /\ 0 \in Versions
                      /\ EmptyFile \notin Documents /\ ~Active(0) /\ ~Active(Interrupted)
                      /\ ~Active(EmptyFile)
  BY StorageAssumption DEF Documents, Versions, Interrupted, EmptyFile, Active

LEMMA InitEstablishes == Init => IInv
<1> SUFFICES ASSUME Init PROVE IInv
  OBVIOUS
<1>1. TypeOK
  <2>1. 0 \in Documents /\ 0 \in 0..MaxCrashes
    BY VersionFacts, StorageAssumption
  <2> QED BY <2>1, VersionFacts DEF Init, TypeOK
<1>2. OneWriterInv
  BY VersionFacts, StorageAssumption DEF Init, OneWriterInv, OneBusy, WritesTemporary, Brings,
     TargetHolds, Told, Reported, Busy
<1> QED BY <1>1, <1>2 DEF IInv

LEMMA TypeStep == TypeOK /\ [Next]_vars => TypeOK'
<1> SUFFICES ASSUME TypeOK, [Next]_vars PROVE TypeOK'
  OBVIOUS
<1> USE StorageAssumption, VersionFacts DEF TypeOK
<1>0. Executor \in Writers /\ Feedback \subseteq Writers
  BY DEF Writers
<1>1. ASSUME Checkpoint PROVE TypeOK'
  <2>1. version + 1 \in Versions
    BY <1>1 DEF Checkpoint, Versions
  <2> QED BY <1>1, <1>0, <2>1 DEF Checkpoint, Serialise, diskVars
<1>2. ASSUME NEW w \in Feedback, FeedbackCheckpoint(w) PROVE TypeOK'
  BY <1>2, <1>0 DEF FeedbackCheckpoint, Serialise, diskVars
<1>3. ASSUME NEW w \in Writers, Open(w) PROVE TypeOK'
  BY <1>3 DEF Open, Free
<1>4. ASSUME NEW w \in Writers, Write(w) PROVE TypeOK'
  <2>1. PICK after \in {doc[w], MixedFile} : content' = [content EXCEPT ![file[w]] = after]
    BY <1>4 DEF Write
  <2> QED BY <1>4, <2>1 DEF Write
<1>5. ASSUME NEW w \in Writers, Replace(w) PROVE TypeOK'
  <2>1. doc[w] # Interrupted => doc[w] \in Versions
    BY DEF Documents, Versions, Interrupted
  <2> QED BY <1>5, <2>1 DEF Replace
<1>6. ASSUME Crash PROVE TypeOK'
  <2>1. crashes + 1 \in 0..MaxCrashes
    BY <1>6 DEF Crash
  <2> QED BY <1>6, <2>1 DEF Crash, threadVars, diskVars
<1>7. ASSUME Restart PROVE TypeOK'
  BY <1>7, <1>0 DEF Restart, diskVars
<1>8. ASSUME UNCHANGED vars PROVE TypeOK'
  BY <1>8 DEF vars, threadVars, diskVars
<1> QED BY <1>1, <1>2, <1>3, <1>4, <1>5, <1>6, <1>7, <1>8 DEF Next

(* One case for each action; a step that makes two writers busy at once    *)
(* leaves nothing to show.                                                 *)
LEMMA OneWriterStep ==
  ASSUME TypeOK, OneWriterInv, [Next]_vars, ~overlapped'
  PROVE  OneWriterInv'
<1> USE StorageAssumption, VersionFacts DEF OneWriterInv
<1>0. Executor \in Writers /\ Feedback \subseteq Writers /\ Executor \notin Feedback
  BY DEF Writers
<1>1. ASSUME Checkpoint PROVE OneWriterInv'
  <2>1. \A w \in Writers : Busy(w)' => w = Executor
    BY <1>1, <1>0 DEF Checkpoint, Serialise, Busy, TypeOK
  <2>2. version' > 0 /\ doc'[Executor] = version'
    BY <1>1, <1>0 DEF Checkpoint, Serialise, TypeOK, Versions
  <2>3. OneBusy' /\ WritesTemporary'
    BY <1>1, <1>0, <2>1 DEF Checkpoint, Serialise, diskVars, OneBusy, WritesTemporary, Busy, TypeOK
  <2>4. Brings'
    BY <1>1, <1>0, <2>1, <2>2 DEF Checkpoint, Serialise, Brings, Busy, TypeOK
  <2>5. TargetHolds' /\ Told'
    BY <1>1, <2>2 DEF Checkpoint, diskVars, TargetHolds, Told, Reported
  <2> QED BY <2>3, <2>4, <2>5
<1>2. ASSUME NEW w \in Feedback, FeedbackCheckpoint(w) PROVE OneWriterInv'
  <2>1. \A v \in Writers : Busy(v)' => v = w
    BY <1>2, <1>0 DEF FeedbackCheckpoint, Serialise, Busy, TypeOK
  <2>2. ~Busy(Executor) /\ committed = version
    <3>1. ~Busy(Executor)
      BY <1>2, <1>0 DEF FeedbackCheckpoint, Serialise
    <3>2. version > 0
      BY <1>2 DEF FeedbackCheckpoint, TypeOK, Versions
    <3> QED BY <3>1, <3>2 DEF Brings
  <2>3. OneBusy' /\ WritesTemporary'
    BY <1>2, <1>0, <2>1
       DEF FeedbackCheckpoint, Serialise, diskVars, OneBusy, WritesTemporary, Busy, TypeOK
  <2>4. Brings'
    <3>1. published # "NOTHING" /\ version > 0
      BY <1>2 DEF FeedbackCheckpoint, Brings, TypeOK, Versions
    <3>2. doc'[w] = version
      BY <1>2, <1>0 DEF FeedbackCheckpoint, Serialise, TypeOK
    <3> QED BY <1>2, <1>0, <2>1, <2>2, <3>1, <3>2 DEF FeedbackCheckpoint, Brings
  <2>5. TargetHolds' /\ Told'
    BY <1>2 DEF FeedbackCheckpoint, diskVars, TargetHolds, Told, Reported
  <2> QED BY <2>3, <2>4, <2>5
<1>3. ASSUME NEW w \in Writers, Open(w) PROVE OneWriterInv'
  <2>1. PICK inode \in IF temporary = NoFile THEN Free ELSE {temporary} :
          /\ temporary' = inode
          /\ file' = [file EXCEPT ![w] = inode]
          /\ content' = [content EXCEPT ![inode] = EmptyFile]
    BY <1>3 DEF Open
  <2>2. inode \in Inodes /\ inode # target
    BY <2>1 DEF TypeOK, WritesTemporary, Free
  <2>3. \A v \in Writers : v # w => ~Busy(v)
    BY <1>3 DEF Open, OneBusy, Busy
  <2>4. OneBusy' /\ WritesTemporary'
    BY <1>3, <2>1, <2>2, <2>3 DEF Open, OneBusy, WritesTemporary, Busy, TypeOK
  <2>5. Brings'
    BY <1>3, <1>0 DEF Open, Brings, Busy, TypeOK
  <2>6. TargetHolds' /\ Told'
    BY <1>3, <2>1, <2>2 DEF Open, TargetHolds, Told, Reported, TypeOK
  <2> QED BY <2>4, <2>5, <2>6
<1>4. ASSUME NEW w \in Writers, Write(w) PROVE OneWriterInv'
  <2>1. file[w] = temporary /\ temporary \in Inodes /\ temporary # target
    BY <1>4 DEF Write, TypeOK, WritesTemporary
  <2>2. content' = [content EXCEPT ![temporary] = doc[w]]
    BY <1>4, <2>1 DEF Write, TypeOK, WritesTemporary
  <2>3. \A v \in Writers : v # w => ~Busy(v)
    BY <1>4 DEF Write, OneBusy, Busy
  <2>4. OneBusy' /\ WritesTemporary'
    BY <1>4, <2>1, <2>2, <2>3 DEF Write, OneBusy, WritesTemporary, Busy, TypeOK
  <2>5. Brings'
    BY <1>4, <1>0 DEF Write, Brings, Busy, TypeOK
  <2>6. TargetHolds' /\ Told'
    BY <1>4, <2>1, <2>2 DEF Write, TargetHolds, Told, Reported, TypeOK
  <2> QED BY <2>4, <2>5, <2>6
<1>5. ASSUME NEW w \in Writers, Replace(w) PROVE OneWriterInv'
  <2>1. /\ temporary # NoFile /\ temporary \in Inodes /\ content[temporary] = doc[w]
        /\ target' = temporary /\ temporary' = NoFile
        /\ place' = [place EXCEPT ![w] = "idle"]
        /\ committed' = IF w = Executor /\ doc[w] # Interrupted THEN doc[w] ELSE committed
        /\ published' = IF doc[w] = Interrupted THEN "INTERRUPTED" ELSE published
    BY <1>5 DEF Replace, WritesTemporary, TypeOK
  <2>2. UNCHANGED <<version, doc, content>>
    BY <1>5 DEF Replace
  <2>3. \A v \in Writers : ~Busy(v)'
    BY <1>5, <2>1 DEF Replace, OneBusy, Busy, TypeOK
  <2>4. OneBusy' /\ WritesTemporary'
    BY <2>1, <2>2, <2>3 DEF OneBusy, WritesTemporary, Busy, TypeOK
  <2>5. CASE doc[w] = Interrupted
    <3>1. w = Executor /\ published = "NOTHING" /\ version = 0 /\ Active(committed)
      BY <1>5, <2>5 DEF Replace, Brings, Busy, TypeOK
    <3>2. Brings' /\ Told'
      BY <1>0, <2>1, <2>2, <2>3, <2>5, <3>1 DEF Brings, Told, Reported
    <3>3. TargetHolds'
      BY <2>1, <2>2, <2>5, <3>1 DEF TargetHolds
    <3> QED BY <2>4, <3>2, <3>3
  <2>6. CASE doc[w] # Interrupted
    <3>1. published # "NOTHING" /\ version > 0 /\ doc[w] = version
      BY <1>5, <2>6 DEF Replace, Brings, Busy
    <3>2. committed' = version
      <4>1. CASE w = Executor
        BY <2>1, <2>6, <3>1, <4>1
      <4>2. CASE w # Executor
        <5>1. ~Busy(Executor)
          BY <1>0, <1>5, <4>2 DEF Replace, OneBusy, Busy
        <5> QED BY <2>1, <3>1, <4>2, <5>1 DEF Brings
      <4> QED BY <4>1, <4>2
    <3>3. Brings' /\ Told' /\ TargetHolds'
      BY <2>1, <2>2, <2>3, <2>6, <3>1, <3>2 DEF Brings, Told, Reported, TargetHolds
    <3> QED BY <2>4, <3>3
  <2> QED BY <2>5, <2>6
<1>6. ASSUME Crash \/ UNCHANGED vars PROVE OneWriterInv'
  BY <1>6 DEF Crash, vars, threadVars, diskVars, OneBusy, WritesTemporary, Brings, TargetHolds,
     Told, Reported, Busy
<1>7. ASSUME Restart PROVE OneWriterInv'
  <2>1. CASE FoundInterrupted
    <3>1. Active(committed)
      BY <2>1 DEF FoundInterrupted, Found, TargetHolds, TypeOK
    <3>2. Restart /\ published' = "NOTHING" /\ doc'[Executor] = Interrupted
          /\ place' = [v \in Writers |-> IF v = Executor THEN "open" ELSE "idle"]
      BY <1>0, <1>7, <2>1 DEF Restart, TypeOK
    <3>3. OneBusy' /\ WritesTemporary'
      BY <3>2 DEF Restart, diskVars, OneBusy, WritesTemporary, Busy
    <3>4. Brings' /\ TargetHolds' /\ Told'
      BY <1>0, <3>1, <3>2 DEF Restart, diskVars, Brings, TargetHolds, Told, Reported, Busy
    <3> QED BY <3>3, <3>4
  <2>2. CASE ~FoundInterrupted
    <3>1. ~Active(committed)
      BY <2>2 DEF FoundInterrupted, Found, TargetHolds
    <3>2. Restart /\ published' = "IDLE" /\ place' = [v \in Writers |-> "idle"]
      BY <1>7, <2>2 DEF Restart
    <3>3. OneBusy' /\ WritesTemporary'
      BY <3>2 DEF Restart, diskVars, OneBusy, WritesTemporary, Busy
    <3>4. Brings' /\ TargetHolds' /\ Told'
      BY <1>0, <3>1, <3>2 DEF Restart, diskVars, Brings, TargetHolds, Told, Reported, Busy
    <3> QED BY <3>3, <3>4
  <2> QED BY <2>1, <2>2
<1> QED BY <1>1, <1>2, <1>3, <1>4, <1>5, <1>6, <1>7 DEF Next

LEMMA OverlapStays == ASSUME [Next]_vars PROVE overlapped => overlapped'
  BY DEF Next, vars, Checkpoint, FeedbackCheckpoint, Serialise, Open, Write, Replace, Crash,
     Restart, threadVars

LEMMA StepPreserves == IInv /\ [Next]_vars => IInv'
  BY TypeStep, OneWriterStep, OverlapStays DEF IInv

(* Every variable keeps its type.                                          *)
THEOREM StorageTypeCorrect == Spec => []TypeOK
<1>1. IInv => TypeOK
  BY DEF IInv
<1> QED BY InitEstablishes, StepPreserves, <1>1, PTL DEF Spec

(* Unless two writers were at work at once, a crash at any moment leaves a *)
(* whole status document behind the target's name, or none at all.         *)
THEOREM CrashSafe == Spec => []Readable
<1>1. IInv => Readable
  BY VersionFacts DEF IInv, TypeOK, OneWriterInv, TargetHolds, Readable
<1> QED BY InitEstablishes, StepPreserves, <1>1, PTL DEF Spec

(* Unless two writers were at work at once, a restarted manager publishes  *)
(* INTERRUPTED exactly when the executor's last checkpoint on disk was of  *)
(* an active mission.                                                      *)
THEOREM RestartTruthful == Spec => []RestartTellsTruth
<1>1. IInv => RestartTellsTruth
  BY DEF IInv, OneWriterInv, Told, RestartTellsTruth
<1> QED BY InitEstablishes, StepPreserves, <1>1, PTL DEF Spec

-----------------------------------------------------------------------------
(* Also when writers overlap: a name that is gone was taken by one who got *)
(* through, and whoever set out again makes a new one.                     *)
TakenByOne == temporary = NoFile => \E w \in Writers : place[w] \in {"idle", "open"}

LEMMA TakenStep ==
  ASSUME TypeOK, TakenByOne, OneWriterGetsThrough, [Next]_vars
  PROVE  TakenByOne' /\ OneWriterGetsThrough'
<1> USE StorageAssumption DEF TypeOK, TakenByOne, OneWriterGetsThrough
<1>0. Executor \in Writers /\ Feedback \subseteq Writers
  BY DEF Writers
<1>1. CASE Checkpoint
  BY <1>0, <1>1 DEF Checkpoint, Serialise, diskVars
<1>2. ASSUME NEW w \in Feedback, FeedbackCheckpoint(w) PROVE TakenByOne' /\ OneWriterGetsThrough'
  BY <1>0, <1>2 DEF FeedbackCheckpoint, Serialise, diskVars
<1>3. ASSUME NEW w \in Writers, Open(w) PROVE TakenByOne' /\ OneWriterGetsThrough'
  BY <1>3 DEF Open, Free
<1>4. ASSUME NEW w \in Writers, Write(w) PROVE TakenByOne' /\ OneWriterGetsThrough'
  BY <1>4 DEF Write
<1>5. ASSUME NEW w \in Writers, Replace(w) PROVE TakenByOne' /\ OneWriterGetsThrough'
  <2>1. CASE temporary' = NoFile /\ place' = [place EXCEPT ![w] = "idle"]
    BY <2>1
  <2>2. CASE temporary = NoFile /\ place' = [place EXCEPT ![w] = "raised"]
    <3>1. PICK v \in Writers : place[v] \in {"idle", "open"}
      BY <2>2
    <3>2. v # w
      BY <1>5, <3>1 DEF Replace
    <3>3. place'[v] = place[v]
      BY <2>2, <3>2
    <3> QED BY <3>1, <3>3
  <2> QED BY <1>5, <2>1, <2>2 DEF Replace
<1>6. CASE Crash \/ UNCHANGED vars
  BY <1>6 DEF Crash, threadVars, diskVars, vars
<1>7. CASE Restart
  BY <1>0, <1>7 DEF Restart
<1> QED BY <1>1, <1>2, <1>3, <1>4, <1>5, <1>6, <1>7 DEF Next

(* The writers that share the temporary name never all fail, for any       *)
(* number of them, of transitions and of crashes.                          *)
THEOREM SomeoneGetsThrough == Spec => []OneWriterGetsThrough
<1>1. Init => TakenByOne /\ OneWriterGetsThrough
  <2>1. Executor \in Writers
    BY DEF Writers
  <2> QED BY <2>1 DEF Init, TakenByOne, OneWriterGetsThrough
<1> QED BY <1>1, TakenStep, StorageTypeCorrect, PTL DEF Spec
=============================================================================
