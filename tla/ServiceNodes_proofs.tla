------------------------- MODULE ServiceNodes_proofs -------------------------
(***************************************************************************)
(* Proofs about the services beside the mission, each on its own:          *)
(* TaskRegistry, for any tasks, clients, requests, revisions, cache size   *)
(* and number of crashes; ExperimentManager, for any experiments, results  *)
(* and children; PreviewPlanner, for requests of any length and any number *)
(* of them.                                                                *)
(***************************************************************************)
EXTENDS TaskRegistry, ExperimentManager, PreviewPlanner, TLAPS

(***************************************************************************)
(* The task registry.                                                      *)
(***************************************************************************)

(* Clients made puts of documents and archive requests without one.        *)
AskedWell ==
  \A r \in Requests : asked[r] # None =>
    IF r \in Puts THEN asked[r].version \in Versions ELSE asked[r].version = None

(* The request that is carried out passed the checks and found previous.   *)
Checked ==
  place # "idle" =>
    /\ up /\ op \in Requests /\ asked[op] # None
    /\ Expected(op) = RevisionOf(previous)
    /\ IF op \in Puts THEN RevisionOf(asked[op].version) > Expected(op) ELSE previous # None

(* How far it came shows in its task's file.                               *)
Halfway ==
  /\ place = "write" => file[TaskOf(op)] = previous
  /\ place = "index" => file[TaskOf(op)] = asked[op].version
  /\ place = "clean" => op \in Archives /\ file[TaskOf(op)] = None
  /\ place = "restore" =>
       \/ file[TaskOf(op)] = asked[op].version
       \/ op \in Puts /\ file[TaskOf(op)] = previous

(* The file as it is between requests: what a request found, until it ends. *)
Current(t) ==
  IF place \in {"index", "restore", "clean"} /\ t = TaskOf(op) THEN previous ELSE file[t]

CurrentIsTold == \A t \in Tasks : Current(t) \in {told[t]} \cup lost[t]

(* Revisions only grow until a task is archived: what a client saw is the  *)
(* current version or has a lower revision, and what it put stays below.   *)
RevisionsGrow ==
  \A r \in Requests : asked[r] # None /\ r \notin stale =>
    LET now == Current(TaskOf(r)) IN
    /\ Expected(r) <= RevisionOf(now)
    /\ Expected(r) = RevisionOf(now) => asked[r].base = now
    /\ r \in done /\ r \in Puts => RevisionOf(asked[r].version) <= RevisionOf(now)

DoneArchives == \A r \in done : asked[r] # None /\ (r \in Archives => r \in stale)

(* The answers of the last Limit requests of a kind are remembered.        *)
LatestAreKnown ==
  \A r \in Requests : later[r] < Limit =>
    /\ r \in Keyed
    /\ \E i \in DOMAIN recent[KindOf(r)] :
         /\ recent[KindOf(r)][i] = r
         /\ Len(recent[KindOf(r)]) - i = later[r]

Forgotten == place # "idle" => later[op] = Limit /\ (op \in done => op \in stale)

(* What the index shows of a task whose file was v when it was written.    *)
Entry(t, v) == IF t \in unread THEN None ELSE v

IndexIsCurrent ==
  \A t \in Tasks \ spoiled : index[t] = Entry(t, IF place = "clean" THEN file[t] ELSE Current(t))

Inv ==
  /\ TypeOK /\ AskedWell /\ Checked /\ Halfway /\ CurrentIsTold /\ RevisionsGrow
  /\ DoneArchives /\ LatestAreKnown /\ Forgotten /\ IndexIsCurrent

-----------------------------------------------------------------------------
(* Only a missing version has revision zero.                               *)
LEMMA RevisionFacts ==
  ASSUME NEW v \in Versions \cup {None}
  PROVE  RevisionOf(v) \in Nat /\ (RevisionOf(v) = 0 <=> v = None)
BY RegistryAssumption DEF RevisionOf, Versions

(* What a client asked is a record, and what it asks about has a revision. *)
LEMMA AskedFacts ==
  ASSUME TypeOK, NEW r \in Requests, asked[r] # None
  PROVE  /\ TaskOf(r) \in Tasks
         /\ asked[r].version \in Versions \cup {None}
         /\ asked[r].base \in Versions \cup {None}
         /\ Expected(r) \in Nat /\ RevisionOf(asked[r].version) \in Nat
<1>1. asked[r] \in [task : Tasks, base : Versions \cup {None}, version : Versions \cup {None}]
  BY DEF TypeOK
<1> QED BY <1>1, RevisionFacts DEF TaskOf, Expected

LEMMA CurrentFacts ==
  ASSUME TypeOK, NEW t \in Tasks
  PROVE  Current(t) \in Versions \cup {None} /\ RevisionOf(Current(t)) \in Nat
<1>1. Current(t) \in Versions \cup {None}
  BY DEF Current, TypeOK
<1> QED BY <1>1, RevisionFacts

(* The cache takes the request as its newest, and moves the others by one. *)
LEMMA RememberedFacts ==
  ASSUME NEW cache \in Seq(Requests), Len(cache) <= Limit, NEW r \in Requests
  PROVE  LET next == Remembered(cache, r) IN
         /\ next \in Seq(Requests) /\ Len(next) <= Limit /\ Len(next) > 0
         /\ next[Len(next)] = r
         /\ \A i \in DOMAIN cache : Len(cache) - i < Limit - 1 =>
              \E j \in DOMAIN next : next[j] = cache[i] /\ Len(next) - j = Len(cache) - i + 1
<1>1. CASE Len(cache) < Limit
  <2>1. Remembered(cache, r) = Append(cache, r) BY <1>1 DEF Remembered
  <2>2. ASSUME NEW i \in DOMAIN cache
        PROVE  i \in DOMAIN Append(cache, r) /\ Append(cache, r)[i] = cache[i]
    OBVIOUS
  <2>3. Append(cache, r) \in Seq(Requests) /\ Len(Append(cache, r)) = Len(cache) + 1
        /\ Append(cache, r)[Len(cache) + 1] = r
    OBVIOUS
  <2>4. ASSUME NEW i \in DOMAIN cache
        PROVE  Len(Append(cache, r)) - i = Len(cache) - i + 1
    BY <2>3
  <2> QED BY <1>1, <2>1, <2>2, <2>3, <2>4, RegistryAssumption
<1>2. CASE Len(cache) = Limit
  <2> DEFINE rest == Tail(cache)
  <2>1. rest \in Seq(Requests) /\ Len(rest) = Limit - 1 BY <1>2, RegistryAssumption
  <2>2. Remembered(cache, r) = Append(rest, r) BY <1>2, RegistryAssumption DEF Remembered
  <2>3. ASSUME NEW i \in DOMAIN cache, Len(cache) - i < Limit - 1
        PROVE  i - 1 \in DOMAIN rest /\ rest[i - 1] = cache[i]
    BY <1>2, <2>3, RegistryAssumption
  <2> HIDE DEF rest
  <2>4. ASSUME NEW j \in DOMAIN rest
        PROVE  j \in DOMAIN Append(rest, r) /\ Append(rest, r)[j] = rest[j]
    BY <2>1
  <2>5. Append(rest, r) \in Seq(Requests) /\ Len(Append(rest, r)) = Limit
        /\ Append(rest, r)[Limit] = r
    BY <2>1, RegistryAssumption
  <2>6. ASSUME NEW i \in DOMAIN cache, Len(cache) - i < Limit - 1
        PROVE  \E j \in DOMAIN Append(rest, r) :
                 /\ Append(rest, r)[j] = cache[i]
                 /\ Len(Append(rest, r)) - j = Len(cache) - i + 1
    <3>1. i - 1 \in DOMAIN Append(rest, r) /\ Append(rest, r)[i - 1] = cache[i]
      BY <2>3, <2>4, <2>6
    <3>2. Len(Append(rest, r)) - (i - 1) = Len(cache) - i + 1
      BY <1>2, <2>5, <2>6, RegistryAssumption
    <3> QED BY <3>1, <3>2
  <2>7. Limit > 0 BY RegistryAssumption
  <2> QED BY <1>2, <2>2, <2>5, <2>6, <2>7
<1> QED BY <1>1, <1>2, RegistryAssumption

(* An answer changes what was told, and what the caches remember of whom.  *)
LEMMA AnswerFacts ==
  ASSUME TypeOK, LatestAreKnown, NEW r \in Requests, asked[r] # None,
         NEW v \in Versions \cup {None}, Answer(r, v), asked' = asked
  PROVE  /\ told' \in [Tasks -> Versions \cup {None}]
         /\ lost' \in [Tasks -> SUBSET (Versions \cup {None})]
         /\ told'[TaskOf(r)] = v
         /\ \A t \in Tasks : t # TaskOf(r) => told'[t] = told[t] /\ lost'[t] = lost[t]
         /\ done' = done \cup {r} /\ done' \in SUBSET Requests
         /\ recent' \in [Kinds -> Seq(Requests)] /\ \A k \in Kinds : Len(recent'[k]) <= Limit
         /\ later' \in [Requests -> 0..Limit]
         /\ LatestAreKnown'
<1>1. TaskOf(r) \in Tasks BY AskedFacts
<1>2. /\ told' \in [Tasks -> Versions \cup {None}]
      /\ told'[TaskOf(r)] = v
      /\ \A t \in Tasks : t # TaskOf(r) => told'[t] = told[t]
  BY <1>1 DEF Answer, TypeOK
<1>3. /\ lost' \in [Tasks -> SUBSET (Versions \cup {None})]
      /\ \A t \in Tasks : t # TaskOf(r) => lost'[t] = lost[t]
  BY <1>1 DEF Answer, TypeOK
<1>4. done' = done \cup {r} /\ done' \in SUBSET Requests BY DEF Answer, TypeOK
<1>5. KindOf(r) \in Kinds /\ \A s \in Requests : KindOf(s) \in Kinds BY DEF KindOf, Kinds
<1> DEFINE cache == recent[KindOf(r)]
           next == Remembered(cache, r)
<1>6. cache \in Seq(Requests) /\ Len(cache) <= Limit BY <1>5 DEF TypeOK
<1>7. /\ next \in Seq(Requests) /\ Len(next) <= Limit /\ Len(next) > 0 /\ next[Len(next)] = r
      /\ \A i \in DOMAIN cache : Len(cache) - i < Limit - 1 =>
           \E j \in DOMAIN next : next[j] = cache[i] /\ Len(next) - j = Len(cache) - i + 1
  BY <1>6, RememberedFacts
<1>8. r \in Keyed => recent' = [recent EXCEPT ![KindOf(r)] = next]
  BY DEF Answer
<1>9. r \notin Keyed => recent' = recent /\ later' = later
  BY DEF Answer, TypeOK
<1> HIDE DEF next
<1>10. recent' \in [Kinds -> Seq(Requests)] /\ \A k \in Kinds : Len(recent'[k]) <= Limit
  BY <1>5, <1>7, <1>8, <1>9 DEF TypeOK
<1>11. later' \in [Requests -> 0..Limit]
  BY RegistryAssumption DEF Answer, TypeOK
<1>12. LatestAreKnown'
  <2> SUFFICES ASSUME NEW s \in Requests, later'[s] < Limit
               PROVE  /\ s \in Keyed
                      /\ \E i \in DOMAIN recent'[KindOf(s)] :
                           /\ recent'[KindOf(s)][i] = s
                           /\ Len(recent'[KindOf(s)]) - i = later'[s]
    BY DEF LatestAreKnown, KindOf
  <2>1. CASE r \notin Keyed BY <1>9, <2>1 DEF LatestAreKnown
  <2>2. CASE r \in Keyed /\ s = r
    <3>1. later'[s] = 0 BY <2>2 DEF Answer
    <3>2. recent'[KindOf(s)] = next BY <1>5, <1>8, <2>2 DEF TypeOK
    <3>3. Len(next) \in DOMAIN next /\ Len(next) - Len(next) = 0 BY <1>7
    <3> QED BY <1>7, <2>2, <3>1, <3>2, <3>3
  <2>3. CASE r \in Keyed /\ s # r /\ KindOf(s) # KindOf(r)
    <3>1. later'[s] = later[s] BY <2>3 DEF Answer
    <3>2. recent'[KindOf(s)] = recent[KindOf(s)] BY <1>5, <1>8, <2>3 DEF TypeOK
    <3> QED BY <3>1, <3>2 DEF LatestAreKnown
  <2>4. CASE r \in Keyed /\ s # r /\ KindOf(s) = KindOf(r)
    <3>1. later[s] \in 0..Limit BY DEF TypeOK
    <3>2. later'[s] = IF later[s] < Limit THEN later[s] + 1 ELSE later[s]
      BY <2>4 DEF Answer
    <3>3. later[s] < Limit - 1 /\ later[s] < Limit /\ later'[s] = later[s] + 1
      BY <3>1, <3>2, RegistryAssumption
    <3>4. s \in Keyed BY <3>3 DEF LatestAreKnown
    <3>5. PICK i \in DOMAIN cache : cache[i] = s /\ Len(cache) - i = later[s]
      BY <2>4, <3>3 DEF LatestAreKnown
    <3>6. PICK j \in DOMAIN next : next[j] = s /\ Len(next) - j = later[s] + 1
      BY <1>7, <3>3, <3>5
    <3>7. recent'[KindOf(s)] = next BY <1>5, <1>8, <2>4 DEF TypeOK
    <3> QED BY <3>3, <3>4, <3>6, <3>7
  <2> QED BY <2>1, <2>2, <2>3, <2>4
<1> QED BY <1>2, <1>3, <1>4, <1>10, <1>11, <1>12

(* While a request is carried out, clients could last see what it found.   *)
LEMMA BusyFacts ==
  ASSUME Inv, place # "idle"
  PROVE  /\ op \in Requests /\ asked[op] # None /\ TaskOf(op) \in Tasks
         /\ previous \in Versions \cup {None} /\ asked[op].version \in Versions \cup {None}
         /\ Current(TaskOf(op)) = previous
         /\ \A t \in Tasks : t # TaskOf(op) => Current(t) = file[t]
         /\ op \in Puts => RevisionOf(asked[op].version) > RevisionOf(previous)
         /\ op \in Archives => asked[op].version = None /\ previous # None
<1>1. op \in Requests /\ asked[op] # None BY DEF Inv, Checked
<1>2. TaskOf(op) \in Tasks /\ asked[op].version \in Versions \cup {None}
  BY <1>1, AskedFacts DEF Inv
<1>3. previous \in Versions \cup {None} BY DEF Inv, TypeOK
<1>4. place \in {"write", "index", "restore", "clean"} BY DEF Inv, TypeOK
<1>5. Current(TaskOf(op)) = previous BY <1>4 DEF Inv, Halfway, Current
<1>6. \A t \in Tasks : t # TaskOf(op) => Current(t) = file[t] BY DEF Current
<1>7. op \in Puts => RevisionOf(asked[op].version) > RevisionOf(previous)
  BY DEF Inv, Checked
<1>8. op \in Archives => op \notin Puts BY RegistryAssumption
<1>9. op \in Archives => asked[op].version = None /\ previous # None
  BY <1>1, <1>8 DEF Inv, Checked, AskedWell
<1> QED BY <1>1, <1>2, <1>3, <1>5, <1>6, <1>7, <1>9

(* However a request ends, its task's file is as it found it, or as it     *)
(* wanted it; a request that is answered got what it wanted.               *)
LEMMA EndFacts ==
  ASSUME Inv, place # "idle", NEW v \in {previous, asked[op].version}, Over(v),
         asked' = asked, file'[TaskOf(op)] = v,
         \A t \in Tasks : t # TaskOf(op) => file'[t] = file[t],
         done' = done \/ (done' = done \cup {op} /\ v = asked[op].version)
  PROVE  /\ place' = "idle" /\ op' = None /\ previous' = None /\ stale' \in SUBSET Requests
         /\ AskedWell' /\ Checked' /\ Halfway' /\ RevisionsGrow' /\ DoneArchives' /\ Forgotten'
<1>1. place' = "idle" /\ op' = None /\ previous' = None BY DEF Over
<1>2. stale \subseteq stale' /\ stale' \in SUBSET Requests BY DEF Over, Inv, TypeOK
<1>3. \A t \in Tasks : Current(t)' = file'[t] BY <1>1 DEF Current
<1>4. Checked' /\ Halfway' /\ Forgotten' BY <1>1 DEF Checked, Halfway, Forgotten
<1>5. AskedWell' BY DEF AskedWell, Inv
<1>6. \A r \in Requests : TaskOf(r)' = TaskOf(r) /\ Expected(r)' = Expected(r)
  BY DEF TaskOf, Expected
<1>7. ASSUME previous # None, v = None, NEW r \in Requests, asked[r] # None, TaskOf(r) = TaskOf(op)
      PROVE  r \in stale'
  BY <1>7 DEF Over
<1>8. DoneArchives'
  <2> SUFFICES ASSUME NEW r \in done'
               PROVE  asked[r] # None /\ (r \in Archives => r \in stale')
    BY DEF DoneArchives
  <2>1. CASE r \in done BY <1>2, <2>1 DEF Inv, DoneArchives
  <2>2. CASE r = op /\ v = asked[op].version BY <1>7, <2>2, BusyFacts
  <2> QED BY <2>1, <2>2
<1>9. RevisionsGrow'
  <2> SUFFICES ASSUME NEW r \in Requests, asked[r] # None, r \notin stale'
               PROVE  /\ Expected(r) <= RevisionOf(file'[TaskOf(r)])
                      /\ Expected(r) = RevisionOf(file'[TaskOf(r)]) => asked[r].base = file'[TaskOf(r)]
                      /\ r \in done' /\ r \in Puts =>
                           RevisionOf(asked[r].version) <= RevisionOf(file'[TaskOf(r)])
    BY <1>3, <1>6, AskedFacts DEF RevisionsGrow, Inv
  <2>1. /\ Expected(r) <= RevisionOf(Current(TaskOf(r)))
        /\ Expected(r) = RevisionOf(Current(TaskOf(r))) => asked[r].base = Current(TaskOf(r))
        /\ r \in done /\ r \in Puts => RevisionOf(asked[r].version) <= RevisionOf(Current(TaskOf(r)))
    BY <1>2 DEF Inv, RevisionsGrow
  <2>2. TaskOf(r) \in Tasks /\ Expected(r) \in Nat /\ RevisionOf(asked[r].version) \in Nat
    BY AskedFacts DEF Inv
  <2>3. CASE TaskOf(r) # TaskOf(op)
    BY <2>1, <2>2, <2>3, BusyFacts
  <2>4. CASE TaskOf(r) = TaskOf(op)
    <3>1. previous = None \/ v # None BY <1>7, <2>4
    <3>2. RevisionOf(previous) \in Nat /\ RevisionOf(v) \in Nat BY BusyFacts, RevisionFacts
    <3>3. Current(TaskOf(r)) = previous /\ file'[TaskOf(r)] = v BY <2>4, BusyFacts
    <3>4. CASE v = previous
      <4>1. r \in done' /\ r \in Puts => r \in done
        <5>1. v = asked[op].version => op \notin Puts
          BY <3>2, <3>4, BusyFacts
        <5> QED BY <5>1
      <4> QED BY <2>1, <3>3, <3>4, <4>1
    <3>5. CASE v = asked[op].version /\ op \in Puts
      <4>1. RevisionOf(v) > RevisionOf(previous) BY <3>5, BusyFacts
      <4> QED BY <2>1, <2>2, <3>2, <3>3, <3>5, <4>1
    <3>6. CASE v = asked[op].version /\ op \in Archives BY <3>1, <3>6, BusyFacts
    <3> QED BY <3>4, <3>5, <3>6, BusyFacts DEF Requests
  <2> QED BY <2>3, <2>4
<1> QED BY <1>1, <1>2, <1>4, <1>5, <1>8, <1>9

-----------------------------------------------------------------------------
LEMMA PrepareKeeps ==
  ASSUME Inv, NEW r \in Requests, Prepare(r)
  PROVE  Inv'
<1> USE DEF Inv
<1>1. PICK t \in Tasks, v \in IF r \in Puts THEN Versions ELSE {None} :
        asked' = [asked EXCEPT ![r] = [task |-> t, base |-> file[t], version |-> v]]
  BY DEF Prepare
<1>2. /\ up /\ place = "idle" /\ asked[r] = None
      /\ UNCHANGED <<up, diskVars, opVars, answers, lost, stale, spoiled, crashes>>
  BY DEF Prepare
<1>3. UNCHANGED <<up, file, index, unread, place, op, previous, recent, told, done, later, lost, stale, spoiled, crashes>>
  BY <1>2 DEF diskVars, opVars, answers
<1>4. asked'[r] = [task |-> t, base |-> file[t], version |-> v]
      /\ \A s \in Requests : s # r => asked'[s] = asked[s]
  BY <1>1 DEF TypeOK
<1>5. [task |-> t, base |-> file[t], version |-> v] \in
        [task : Tasks, base : Versions \cup {None}, version : Versions \cup {None}]
  BY DEF TypeOK
<1>6. asked' \in [Requests -> [task : Tasks, base : Versions \cup {None},
                               version : Versions \cup {None}] \cup {None}]
  BY <1>1, <1>5 DEF TypeOK
<1>7. TypeOK' BY <1>3, <1>6 DEF TypeOK
<1>8. AskedWell' BY <1>4 DEF AskedWell
<1>9. Checked' /\ Halfway' /\ Forgotten' BY <1>2, <1>3 DEF Checked, Halfway, Forgotten
<1>10. \A u \in Tasks : Current(u)' = file[u] /\ Current(u) = file[u]
  BY <1>2, <1>3 DEF Current
<1>11. CurrentIsTold' /\ IndexIsCurrent'
  BY <1>2, <1>3, <1>10 DEF CurrentIsTold, IndexIsCurrent, Entry
<1>12. DoneArchives' BY <1>2, <1>3, <1>4 DEF DoneArchives, TypeOK
<1>13. LatestAreKnown' BY <1>3 DEF LatestAreKnown
<1>14. RevisionsGrow'
  <2> SUFFICES ASSUME NEW s \in Requests, asked'[s] # None, s \notin stale
               PROVE  LET now == Current(TaskOf(s)') IN
                      /\ Expected(s)' <= RevisionOf(now)
                      /\ Expected(s)' = RevisionOf(now) => asked'[s].base = now
                      /\ s \in done /\ s \in Puts => RevisionOf(asked'[s].version) <= RevisionOf(now)
    <3>1. \A s \in Requests : asked'[s] # None => TaskOf(s)' \in Tasks
      BY <1>7, AskedFacts, <1>6 DEF TaskOf
    <3>2. \A s \in Requests : asked'[s] # None => Current(TaskOf(s))' = Current(TaskOf(s)')
      BY <1>10, <3>1
    <3> QED BY <1>3, <3>2 DEF RevisionsGrow
  <2>1. CASE s = r
    <3>1. TaskOf(s)' = t /\ Expected(s)' = RevisionOf(file[t]) /\ asked'[s].base = file[t]
      BY <1>4, <2>1 DEF TaskOf, Expected
    <3>2. s \notin done BY <1>2, <2>1 DEF DoneArchives
    <3>3. RevisionOf(file[t]) \in Nat BY RevisionFacts DEF TypeOK
    <3> QED BY <1>10, <3>1, <3>2, <3>3
  <2>2. CASE s # r
    <3>1. asked'[s] = asked[s] /\ TaskOf(s)' = TaskOf(s) /\ Expected(s)' = Expected(s)
      BY <1>4, <2>2 DEF TaskOf, Expected
    <3> QED BY <3>1 DEF RevisionsGrow
  <2> QED BY <2>1, <2>2
<1> QED BY <1>7, <1>8, <1>9, <1>11, <1>12, <1>13, <1>14

LEMMA PutAgainKeeps ==
  ASSUME Inv, NEW r \in Requests, PutAgain(r)
  PROVE  Inv'
<1>1. /\ up /\ place = "idle" /\ asked[r] # None /\ r \in Puts
      /\ file[TaskOf(r)] = asked[r].version
      /\ Answer(r, asked[r].version)
      /\ UNCHANGED <<up, diskVars, opVars, asked, stale, spoiled, crashes>>
  BY DEF PutAgain
<1>2. UNCHANGED <<up, file, index, unread, place, op, previous, asked, stale, spoiled, crashes>>
  BY <1>1 DEF diskVars, opVars
<1>3. TaskOf(r) \in Tasks /\ asked[r].version \in Versions \cup {None}
      /\ RevisionOf(asked[r].version) \in Nat
  BY <1>1, AskedFacts DEF Inv
<1>4. /\ told' \in [Tasks -> Versions \cup {None}]
      /\ lost' \in [Tasks -> SUBSET (Versions \cup {None})]
      /\ told'[TaskOf(r)] = asked[r].version
      /\ \A t \in Tasks : t # TaskOf(r) => told'[t] = told[t] /\ lost'[t] = lost[t]
      /\ done' = done \cup {r} /\ done' \in SUBSET Requests
      /\ recent' \in [Kinds -> Seq(Requests)] /\ \A k \in Kinds : Len(recent'[k]) <= Limit
      /\ later' \in [Requests -> 0..Limit]
      /\ LatestAreKnown'
  BY <1>1, <1>2, <1>3, AnswerFacts DEF Inv
<1>5. TypeOK' BY <1>2, <1>4 DEF Inv, TypeOK
<1>6. AskedWell' BY <1>2 DEF Inv, AskedWell
<1>7. Checked' /\ Halfway' /\ Forgotten' BY <1>1, <1>2 DEF Checked, Halfway, Forgotten
<1>8. \A t \in Tasks : Current(t)' = file[t] /\ Current(t) = file[t]
  BY <1>1, <1>2 DEF Current
<1>9. CurrentIsTold'
  BY <1>1, <1>4, <1>8 DEF Inv, CurrentIsTold
<1>10. IndexIsCurrent' BY <1>1, <1>2, <1>8 DEF Inv, IndexIsCurrent, Entry
<1>11. DoneArchives' BY <1>1, <1>2, <1>4, RegistryAssumption DEF Inv, DoneArchives
<1>12. RevisionsGrow'
  <2>1. \A s \in Requests : TaskOf(s)' = TaskOf(s) /\ Expected(s)' = Expected(s)
    BY <1>2 DEF TaskOf, Expected
  <2>2. \A s \in Requests : asked[s] # None =>
          Current(TaskOf(s))' = Current(TaskOf(s)) /\ Current(TaskOf(s)) = file[TaskOf(s)]
    BY <1>8, <2>1, AskedFacts DEF Inv
  <2>3. \A s \in Requests : s \in done' => s \in done \/ s = r BY <1>4
  <2> QED BY <1>1, <1>2, <1>3, <2>1, <2>2, <2>3 DEF Inv, RevisionsGrow
<1> QED BY <1>4, <1>5, <1>6, <1>7, <1>9, <1>10, <1>11, <1>12 DEF Inv

LEMMA AcceptKeeps ==
  ASSUME Inv, NEW r \in Requests, PutTask(r) \/ ArchiveTask(r)
  PROVE  Inv'
<1>1. /\ up /\ place = "idle" /\ asked[r] # None /\ ~Known(r)
      /\ Expected(r) = RevisionOf(file[TaskOf(r)])
      /\ IF r \in Puts THEN RevisionOf(asked[r].version) > Expected(r) ELSE file[TaskOf(r)] # None
      /\ place' = "write" /\ op' = r /\ previous' = file[TaskOf(r)]
  BY RegistryAssumption DEF PutTask, ArchiveTask, Accept
<1>2. UNCHANGED <<up, file, index, unread, recent, told, done, later, asked, lost, stale, spoiled, crashes>>
  BY DEF PutTask, ArchiveTask, Accept, diskVars, answers
<1>3. TaskOf(r) \in Tasks BY <1>1, AskedFacts DEF Inv
<1>4. file[TaskOf(r)] \in Versions \cup {None} BY <1>3 DEF Inv, TypeOK
<1>5. TypeOK' BY <1>1, <1>2, <1>4 DEF Inv, TypeOK
<1>6. AskedWell' BY <1>2 DEF Inv, AskedWell
<1>7. Checked' BY <1>1, <1>2 DEF Checked, Expected
<1>8. Halfway' BY <1>1, <1>2 DEF Halfway, TaskOf
<1>9. \A t \in Tasks : Current(t)' = file[t] /\ Current(t) = file[t]
  BY <1>1, <1>2 DEF Current
<1>10. CurrentIsTold' BY <1>2, <1>9 DEF Inv, CurrentIsTold
<1>11. IndexIsCurrent' BY <1>1, <1>2, <1>9 DEF Inv, IndexIsCurrent, Entry
<1>12. DoneArchives' BY <1>2 DEF Inv, DoneArchives
<1>13. LatestAreKnown' BY <1>2 DEF Inv, LatestAreKnown
<1>14. \A s \in Requests : TaskOf(s)' = TaskOf(s) /\ Expected(s)' = Expected(s)
  BY <1>2 DEF TaskOf, Expected
<1>15. RevisionsGrow'
  <2>1. \A s \in Requests : asked[s] # None => Current(TaskOf(s))' = Current(TaskOf(s))
    BY <1>9, <1>14, AskedFacts DEF Inv
  <2> QED BY <1>2, <1>14, <2>1 DEF Inv, RevisionsGrow
<1>16. later[r] = Limit
  <2>1. later[r] \in 0..Limit BY DEF Inv, TypeOK
  <2>2. ~(later[r] < Limit) BY <1>1 DEF Inv, LatestAreKnown, Known
  <2> QED BY <2>1, <2>2, RegistryAssumption
<1>17. r \in done => r \in stale
  <2> SUFFICES ASSUME r \in done, r \notin stale PROVE FALSE
    OBVIOUS
  <2>1. r \in Puts BY DEF Inv, DoneArchives, Requests
  <2>2. Current(TaskOf(r)) = file[TaskOf(r)] BY <1>3, <1>9
  <2>3. RevisionOf(asked[r].version) <= RevisionOf(file[TaskOf(r)])
    BY <1>1, <2>1, <2>2 DEF Inv, RevisionsGrow
  <2>4. RevisionOf(asked[r].version) > RevisionOf(file[TaskOf(r)]) BY <1>1, <2>1
  <2>5. RevisionOf(asked[r].version) \in Nat /\ RevisionOf(file[TaskOf(r)]) \in Nat
    BY <1>1, <1>4, AskedFacts, RevisionFacts DEF Inv
  <2> QED BY <2>3, <2>4, <2>5
<1>18. Forgotten' BY <1>1, <1>2, <1>16, <1>17 DEF Forgotten
<1> QED BY <1>5, <1>6, <1>7, <1>8, <1>10, <1>11, <1>12, <1>13, <1>15, <1>18 DEF Inv

LEMMA WriteFileKeeps ==
  ASSUME Inv, ReplaceFile \/ MoveFile
  PROVE  Inv'
<1> DEFINE t == TaskOf(op)
<1>1. /\ up /\ place = "write"
      /\ UNCHANGED <<up, index, unread, recent, told, done, later, asked, lost, spoiled, crashes>>
  BY DEF ReplaceFile, MoveFile, answers
<1>2. /\ op \in Requests /\ asked[op] # None /\ t \in Tasks
      /\ previous \in Versions \cup {None} /\ asked[op].version \in Versions \cup {None}
      /\ op \in Archives => asked[op].version = None
  BY <1>1, BusyFacts
<1>3. file[t] = previous BY <1>1 DEF Inv, Halfway
<1>4. CASE op \in Archives /\ UNCHANGED file /\ Over(previous)
  <2>1. /\ place' = "idle" /\ op' = None /\ previous' = None /\ stale' \in SUBSET Requests
        /\ AskedWell' /\ Checked' /\ Halfway' /\ RevisionsGrow' /\ DoneArchives' /\ Forgotten'
    BY <1>1, <1>3, <1>4, EndFacts
  <2>2. TypeOK' BY <1>1, <1>4, <2>1 DEF Inv, TypeOK
  <2>3. \A u \in Tasks : Current(u)' = file[u] /\ Current(u) = file[u]
    BY <1>1, <1>4, <2>1 DEF Current
  <2>4. CurrentIsTold' BY <1>1, <2>3 DEF Inv, CurrentIsTold
  <2>5. IndexIsCurrent' BY <1>1, <2>1, <2>3 DEF Inv, IndexIsCurrent, Entry
  <2>6. LatestAreKnown' BY <1>1 DEF Inv, LatestAreKnown
  <2> QED BY <2>1, <2>2, <2>4, <2>5, <2>6 DEF Inv
<1>5. ASSUME NEW v \in {previous, asked[op].version}, file' = [file EXCEPT ![t] = v],
             UNCHANGED <<op, previous, stale>>,
             \/ place' = "index" /\ v = asked[op].version
             \/ place' = "restore" /\ op \in Puts
      PROVE  Inv'
  <2>1. file'[t] = v /\ \A u \in Tasks : u # t => file'[u] = file[u]
    BY <1>2, <1>5 DEF Inv, TypeOK
  <2>2. file' \in [Tasks -> Versions \cup {None}] BY <1>2, <1>5 DEF Inv, TypeOK
  <2>3. TypeOK' BY <1>1, <1>5, <2>2 DEF Inv, TypeOK
  <2>4. AskedWell' BY <1>1 DEF Inv, AskedWell
  <2>5. Checked' BY <1>1, <1>5 DEF Inv, Checked, Expected
  <2>6. TaskOf(op)' = t BY <1>1, <1>5 DEF TaskOf
  <2>7. Halfway' BY <1>1, <1>5, <2>1, <2>6 DEF Halfway
  <2>8. \A u \in Tasks : Current(u)' = Current(u)
    BY <1>1, <1>3, <1>5, <2>1, <2>6 DEF Current
  <2>9. CurrentIsTold' BY <1>1, <2>8 DEF Inv, CurrentIsTold
  <2>10. place' # "clean" /\ place # "clean" BY <1>1, <1>5
  <2>11. IndexIsCurrent' BY <1>1, <2>8, <2>10 DEF Inv, IndexIsCurrent, Entry
  <2>12. DoneArchives' /\ LatestAreKnown' /\ Forgotten'
    BY <1>1, <1>5 DEF Inv, DoneArchives, LatestAreKnown, Forgotten
  <2>13. \A s \in Requests : TaskOf(s)' = TaskOf(s) /\ Expected(s)' = Expected(s)
    BY <1>1 DEF TaskOf, Expected
  <2>14. \A s \in Requests : asked[s] # None => Current(TaskOf(s))' = Current(TaskOf(s))
    BY <2>8, <2>13, AskedFacts DEF Inv
  <2>15. RevisionsGrow' BY <1>1, <1>5, <2>13, <2>14 DEF Inv, RevisionsGrow
  <2> QED BY <2>3, <2>4, <2>5, <2>7, <2>9, <2>11, <2>12, <2>15 DEF Inv
<1>6. CASE ReplaceFile BY <1>5, <1>6 DEF ReplaceFile
<1>7. CASE MoveFile
  <2>1. op \in Archives => None \in {previous, asked[op].version} /\ None = asked[op].version
    BY <1>2
  <2> QED BY <1>4, <1>5, <1>7, <2>1 DEF MoveFile
<1> QED BY <1>6, <1>7

LEMMA WriteIndexKeeps ==
  ASSUME Inv, WriteIndex
  PROVE  Inv'
<1> DEFINE t == TaskOf(op)
<1>1. up /\ place = "index" /\ UNCHANGED <<up, file, asked, crashes>>
  BY DEF WriteIndex
<1>2. /\ op \in Requests /\ asked[op] # None /\ t \in Tasks
      /\ previous \in Versions \cup {None} /\ asked[op].version \in Versions \cup {None}
      /\ op \in Archives => asked[op].version = None
  BY <1>1, BusyFacts
<1>3. file[t] = asked[op].version BY <1>1 DEF Inv, Halfway
<1>4. ListTasks => /\ index' \in [Tasks -> Versions \cup {None}] /\ unread' \in SUBSET Tasks
                  /\ \A u \in Tasks : index'[u] = Entry(u, file[u])'
  BY <1>1 DEF ListTasks, Entry, Inv, TypeOK
<1>5. CASE ListTasks /\ spoiled' = {} /\ Answer(op, asked[op].version) /\ Over(asked[op].version)
  <2>1. /\ told' \in [Tasks -> Versions \cup {None}]
        /\ lost' \in [Tasks -> SUBSET (Versions \cup {None})]
        /\ told'[t] = asked[op].version
        /\ \A u \in Tasks : u # t => told'[u] = told[u] /\ lost'[u] = lost[u]
        /\ done' = done \cup {op} /\ done' \in SUBSET Requests
        /\ recent' \in [Kinds -> Seq(Requests)] /\ \A k \in Kinds : Len(recent'[k]) <= Limit
        /\ later' \in [Requests -> 0..Limit]
        /\ LatestAreKnown'
    BY <1>1, <1>2, <1>5, AnswerFacts DEF Inv
  <2>2. /\ place' = "idle" /\ op' = None /\ previous' = None /\ stale' \in SUBSET Requests
        /\ AskedWell' /\ Checked' /\ Halfway' /\ RevisionsGrow' /\ DoneArchives' /\ Forgotten'
    BY <1>1, <1>3, <1>5, <2>1, EndFacts
  <2>3. TypeOK' BY <1>1, <1>4, <1>5, <2>1, <2>2 DEF Inv, TypeOK
  <2>4. \A u \in Tasks : Current(u)' = file[u] BY <1>1, <2>2 DEF Current
  <2>5. \A u \in Tasks : u # t => Current(u) = file[u] BY DEF Current
  <2>6. CurrentIsTold' BY <1>3, <2>1, <2>4, <2>5 DEF Inv, CurrentIsTold
  <2>7. IndexIsCurrent' BY <1>1, <1>4, <1>5, <2>2, <2>4 DEF IndexIsCurrent, Entry
  <2> QED BY <2>1, <2>2, <2>3, <2>6, <2>7 DEF Inv
<1>6. ASSUME \/ ListTasks /\ spoiled' = {} /\ op \in Archives /\ place' = "clean"
             \/ ListTasks /\ spoiled' = spoiled \cup {t} /\ place' = "restore"
             \/ UNCHANGED <<index, unread, spoiled>> /\ place' = "restore",
             UNCHANGED <<op, previous, recent, told, done, later, lost, stale>>
      PROVE  Inv'
  <2>1. index' \in [Tasks -> Versions \cup {None}] /\ unread' \in SUBSET Tasks /\ spoiled' \in SUBSET Tasks
        /\ place' \in {"clean", "restore"}
    BY <1>2, <1>4, <1>6 DEF Inv, TypeOK
  <2>2. TypeOK' BY <1>1, <1>6, <2>1 DEF Inv, TypeOK
  <2>3. AskedWell' BY <1>1 DEF Inv, AskedWell
  <2>4. Checked' BY <1>1, <1>6 DEF Inv, Checked, Expected
  <2>5. TaskOf(op)' = t BY <1>1, <1>6 DEF TaskOf
  <2>6. Halfway' BY <1>1, <1>2, <1>3, <1>6, <2>1, <2>5 DEF Halfway
  <2>7. \A u \in Tasks : Current(u)' = Current(u)
    BY <1>1, <1>6, <2>1, <2>5 DEF Current
  <2>8. CurrentIsTold' BY <1>6, <2>7 DEF Inv, CurrentIsTold
  <2>9. \A u \in Tasks : u # t => Current(u) = file[u] BY DEF Current
  <2>10. IndexIsCurrent'
    <3>1. CASE ListTasks /\ place' = "clean" BY <1>1, <1>4, <3>1 DEF IndexIsCurrent, Entry
    <3>2. CASE ListTasks /\ spoiled' = spoiled \cup {t} /\ place' = "restore"
      BY <1>1, <1>4, <2>7, <2>9, <3>2 DEF IndexIsCurrent, Entry
    <3>3. CASE UNCHANGED <<index, unread, spoiled>> /\ place' = "restore"
      BY <1>1, <2>7, <3>3 DEF Inv, IndexIsCurrent, Entry
    <3> QED BY <1>6, <3>1, <3>2, <3>3
  <2>11. DoneArchives' /\ LatestAreKnown' /\ Forgotten'
    BY <1>1, <1>6 DEF Inv, DoneArchives, LatestAreKnown, Forgotten
  <2>12. \A s \in Requests : TaskOf(s)' = TaskOf(s) /\ Expected(s)' = Expected(s)
    BY <1>1 DEF TaskOf, Expected
  <2>13. \A s \in Requests : asked[s] # None => Current(TaskOf(s))' = Current(TaskOf(s))
    BY <2>7, <2>12, AskedFacts DEF Inv
  <2>14. RevisionsGrow' BY <1>1, <1>6, <2>12, <2>13 DEF Inv, RevisionsGrow
  <2> QED BY <2>2, <2>3, <2>4, <2>6, <2>8, <2>10, <2>11, <2>14 DEF Inv
<1> QED BY <1>5, <1>6 DEF WriteIndex, answers

(* The invariant once a request is over: what is left to show is that the  *)
(* answers and the index are true of its task.                             *)
LEMMA OverKeeps ==
  ASSUME Inv, place # "idle", NEW v \in {previous, asked[op].version}, Over(v),
         asked' = asked, file' \in [Tasks -> Versions \cup {None}], file'[TaskOf(op)] = v,
         \A t \in Tasks : t # TaskOf(op) => file'[t] = file[t],
         done' = done \/ (done' = done \cup {op} /\ v = asked[op].version),
         TypeOK', LatestAreKnown',
         v \in {told'[TaskOf(op)]} \cup lost'[TaskOf(op)],
         \A t \in Tasks : t # TaskOf(op) => told'[t] = told[t] /\ lost'[t] = lost[t],
         UNCHANGED <<index, unread>>, spoiled \subseteq spoiled',
         TaskOf(op) \notin spoiled' => index[TaskOf(op)] = Entry(TaskOf(op), v)
  PROVE  Inv'
<1>1. /\ place' = "idle" /\ op' = None /\ previous' = None
      /\ AskedWell' /\ Checked' /\ Halfway' /\ RevisionsGrow' /\ DoneArchives' /\ Forgotten'
  BY EndFacts
<1>2. \A t \in Tasks : Current(t)' = file'[t] BY <1>1 DEF Current
<1>3. \A t \in Tasks : t # TaskOf(op) => Current(t) = file[t] BY DEF Current
<1>4. CurrentIsTold' BY <1>2, <1>3 DEF Inv, CurrentIsTold
<1>5. IndexIsCurrent' BY <1>1, <1>2, <1>3 DEF Inv, IndexIsCurrent, Entry
<1> QED BY <1>1, <1>4, <1>5 DEF Inv

LEMMA RestoreKeeps ==
  ASSUME Inv, RestoreFile \/ MoveBack
  PROVE  Inv'
<1> DEFINE t == TaskOf(op)
<1>1. up /\ place = "restore" /\ UNCHANGED <<up, index, unread, recent, told, done, later, asked, crashes>>
  BY DEF RestoreFile, MoveBack, Restored, LeftAs, answers
<1>2. /\ op \in Requests /\ t \in Tasks
      /\ previous \in Versions \cup {None} /\ asked[op].version \in Versions \cup {None}
      /\ Current(t) = previous
  BY <1>1, BusyFacts
<1>3. file[t] \in {previous, asked[op].version} BY <1>1 DEF Inv, Halfway
<1>4. previous \in {told[t]} \cup lost[t] BY <1>2 DEF Inv, CurrentIsTold
<1>5. t \notin spoiled => index[t] = Entry(t, previous)
  BY <1>1, <1>2 DEF Inv, IndexIsCurrent, Entry
<1>6. LatestAreKnown' BY <1>1 DEF Inv, LatestAreKnown
<1>7. \A v : Over(v) => place' = "idle" /\ op' = None /\ previous' = None /\ stale' \in SUBSET Requests
  BY DEF Over, Inv, TypeOK
<1>8. CASE file' = [file EXCEPT ![t] = previous] /\ Over(previous) /\ UNCHANGED <<lost, spoiled>>
  <2>1. /\ file' \in [Tasks -> Versions \cup {None}] /\ file'[t] = previous
        /\ \A u \in Tasks : u # t => file'[u] = file[u]
    BY <1>2, <1>8 DEF Inv, TypeOK
  <2>2. TypeOK' BY <1>1, <1>7, <1>8, <2>1 DEF Inv, TypeOK
  <2> QED BY <1>1, <1>4, <1>5, <1>6, <1>8, <2>1, <2>2, OverKeeps
<1>9. ASSUME NEW v \in {previous, asked[op].version}, file' = [file EXCEPT ![t] = v], Over(v),
             CutShort, spoiled' = spoiled \cup {t}
      PROVE  Inv'
  <2>1. /\ file' \in [Tasks -> Versions \cup {None}] /\ file'[t] = v
        /\ \A u \in Tasks : u # t => file'[u] = file[u]
    BY <1>2, <1>9 DEF Inv, TypeOK
  <2>2. /\ lost' \in [Tasks -> SUBSET (Versions \cup {None})]
        /\ lost'[t] = lost[t] \cup {asked[op].version}
        /\ \A u \in Tasks : u # t => lost'[u] = lost[u]
    BY <1>2, <1>9 DEF CutShort, Inv, TypeOK
  <2>3. TypeOK' BY <1>1, <1>2, <1>7, <1>9, <2>1, <2>2 DEF Inv, TypeOK
  <2> QED BY <1>1, <1>4, <1>6, <1>9, <2>1, <2>2, <2>3, OverKeeps
<1>10. ASSUME NEW v \in {previous, asked[op].version}, LeftAs(v)
       PROVE  Inv'
  BY <1>9, <1>10 DEF LeftAs, Restored
<1>11. ASSUME Restored(previous), UNCHANGED <<lost, spoiled>>
       PROVE  Inv'
  BY <1>8, <1>11 DEF Restored
<1>12. op \in Archives => None = asked[op].version BY <1>1, BusyFacts
<1>13. CASE RestoreFile BY <1>3, <1>10, <1>11, <1>13 DEF RestoreFile
<1>14. CASE MoveBack BY <1>10, <1>11, <1>12, <1>14 DEF MoveBack
<1> QED BY <1>13, <1>14

LEMMA DeleteBackupsKeeps ==
  ASSUME Inv, DeleteBackups
  PROVE  Inv'
<1> DEFINE t == TaskOf(op)
<1>1. up /\ place = "clean" /\ Over(None) /\ UNCHANGED <<up, file, index, unread, asked, spoiled, crashes>>
  BY DEF DeleteBackups, diskVars
<1>2. /\ op \in Requests /\ asked[op] # None /\ t \in Tasks /\ asked[op].version = None
      /\ file[t] = None
  BY <1>1, BusyFacts DEF Inv, Halfway
<1>3. place' = "idle" /\ op' = None /\ previous' = None /\ stale' \in SUBSET Requests
  BY <1>1 DEF Over, Inv, TypeOK
<1>4. t \notin spoiled => index[t] = Entry(t, None)
  BY <1>1, <1>2 DEF Inv, IndexIsCurrent, Entry
<1>5. file \in [Tasks -> Versions \cup {None}] BY DEF Inv, TypeOK
<1>6. CASE Answer(op, None)
  <2>1. /\ told' \in [Tasks -> Versions \cup {None}]
        /\ lost' \in [Tasks -> SUBSET (Versions \cup {None})]
        /\ told'[t] = None
        /\ \A u \in Tasks : u # t => told'[u] = told[u] /\ lost'[u] = lost[u]
        /\ done' = done \cup {op} /\ done' \in SUBSET Requests
        /\ recent' \in [Kinds -> Seq(Requests)] /\ \A k \in Kinds : Len(recent'[k]) <= Limit
        /\ later' \in [Requests -> 0..Limit]
        /\ LatestAreKnown'
    BY <1>1, <1>2, <1>6, AnswerFacts DEF Inv
  <2>2. TypeOK' BY <1>1, <1>3, <2>1 DEF Inv, TypeOK
  <2> QED BY <1>1, <1>2, <1>4, <1>5, <2>1, <2>2, OverKeeps
<1>7. CASE CutShort /\ UNCHANGED answers
  <2>1. UNCHANGED <<recent, told, done, later>> BY <1>7 DEF answers
  <2>2. /\ lost' \in [Tasks -> SUBSET (Versions \cup {None})]
        /\ None \in lost'[t]
        /\ \A u \in Tasks : u # t => lost'[u] = lost[u]
    BY <1>2, <1>7 DEF CutShort, Inv, TypeOK
  <2>3. TypeOK' BY <1>1, <1>3, <2>1, <2>2 DEF Inv, TypeOK
  <2>4. LatestAreKnown' BY <2>1 DEF Inv, LatestAreKnown
  <2> QED BY <1>1, <1>2, <1>4, <1>5, <2>1, <2>2, <2>3, <2>4, OverKeeps
<1> QED BY <1>6, <1>7 DEF DeleteBackups

LEMMA CrashKeeps ==
  ASSUME Inv, Crash
  PROVE  Inv'
<1> DEFINE t == TaskOf(op)
<1>1. /\ up /\ crashes < MaxCrashes /\ up' = FALSE /\ crashes' = crashes + 1
      /\ recent' = [k \in Kinds |-> <<>>] /\ later' = [r \in Requests |-> Limit]
      /\ UNCHANGED <<file, index, unread, asked, told, done>>
  BY DEF Crash, diskVars
<1>2. crashes' \in 0..MaxCrashes BY <1>1, RegistryAssumption DEF Inv, TypeOK
<1>3. later' \in [Requests -> 0..Limit] /\ \A r \in Requests : later'[r] = Limit
  BY <1>1, RegistryAssumption
<1>4. recent' \in [Kinds -> Seq(Requests)] /\ \A k \in Kinds : Len(recent'[k]) <= Limit
  <2>1. <<>> \in Seq(Requests) /\ Len(<<>>) = 0 OBVIOUS
  <2> QED BY <1>1, <2>1, RegistryAssumption
<1>5. LatestAreKnown' BY <1>3, RegistryAssumption DEF LatestAreKnown
<1>6. CASE place = "idle" /\ UNCHANGED <<opVars, lost, stale, spoiled>>
  <2>1. UNCHANGED <<place, op, previous, lost, stale, spoiled>> BY <1>6 DEF opVars
  <2>2. up' \in BOOLEAN BY <1>1
  <2>3. TypeOK' BY <1>1, <1>2, <1>3, <1>4, <2>1, <2>2 DEF Inv, TypeOK
  <2>4. AskedWell' BY <1>1 DEF Inv, AskedWell
  <2>5. Checked' /\ Halfway' /\ Forgotten' BY <1>6, <2>1 DEF Checked, Halfway, Forgotten
  <2>6. \A u \in Tasks : Current(u)' = Current(u) BY <1>1, <1>6, <2>1 DEF Current
  <2>7. CurrentIsTold' BY <1>1, <2>1, <2>6 DEF Inv, CurrentIsTold
  <2>8. IndexIsCurrent' BY <1>1, <1>6, <2>1, <2>6 DEF Inv, IndexIsCurrent, Entry
  <2>9. DoneArchives' BY <1>1, <2>1 DEF Inv, DoneArchives
  <2>10. \A s \in Requests : TaskOf(s)' = TaskOf(s) /\ Expected(s)' = Expected(s)
    BY <1>1 DEF TaskOf, Expected
  <2>11. \A s \in Requests : asked[s] # None => Current(TaskOf(s))' = Current(TaskOf(s))
    BY <2>6, <2>10, AskedFacts DEF Inv
  <2>12. RevisionsGrow' BY <1>1, <2>1, <2>10, <2>11 DEF Inv, RevisionsGrow
  <2> QED BY <1>5, <2>3, <2>4, <2>5, <2>7, <2>8, <2>9, <2>12 DEF Inv
<1>7. CASE place # "idle" /\ CutShort /\ spoiled' = spoiled \cup {t} /\ Over(file[t])
  <2>1. /\ op \in Requests /\ t \in Tasks /\ Current(t) = previous
        /\ previous \in Versions \cup {None} /\ asked[op].version \in Versions \cup {None}
        /\ op \in Archives => asked[op].version = None
    BY <1>7, BusyFacts
  <2>2. file[t] \in {previous, asked[op].version}
    <3>1. place \in {"write", "index", "restore", "clean"} BY <1>7 DEF Inv, TypeOK
    <3> QED BY <2>1, <3>1 DEF Inv, Halfway
  <2>3. place' = "idle" /\ op' = None /\ previous' = None /\ stale' \in SUBSET Requests
    BY <1>7 DEF Over, Inv, TypeOK
  <2>4. /\ lost' \in [Tasks -> SUBSET (Versions \cup {None})]
        /\ lost'[t] = lost[t] \cup {asked[op].version}
        /\ \A u \in Tasks : u # t => lost'[u] = lost[u]
    BY <1>7, <2>1 DEF CutShort, Inv, TypeOK
  <2>5. spoiled' \in SUBSET Tasks BY <1>7, <2>1 DEF Inv, TypeOK
  <2>6. up' \in BOOLEAN BY <1>1
  <2>7. TypeOK' BY <1>1, <1>2, <1>3, <1>4, <2>3, <2>4, <2>5, <2>6 DEF Inv, TypeOK
  <2>8. previous \in {told[t]} \cup lost[t] BY <2>1 DEF Inv, CurrentIsTold
  <2>9. file \in [Tasks -> Versions \cup {None}] BY DEF Inv, TypeOK
  <2> QED BY <1>1, <1>5, <1>7, <2>1, <2>2, <2>4, <2>7, <2>8, <2>9, OverKeeps
<1> QED BY <1>6, <1>7 DEF Crash

(* Nothing that the invariant speaks of changes.                           *)
LEMMA StaysKept ==
  ASSUME Inv, up' \in BOOLEAN, up => up',
         UNCHANGED <<diskVars, opVars, answers, asked, lost, stale, spoiled, crashes>>
  PROVE  Inv'
<1>1. UNCHANGED <<file, index, unread, place, op, previous, recent, told, done, later,
                  asked, lost, stale, spoiled, crashes>>
  BY DEF diskVars, opVars, answers
<1>2. TypeOK' BY <1>1 DEF Inv, TypeOK
<1>3. AskedWell' BY <1>1 DEF Inv, AskedWell
<1>4. Checked' BY <1>1 DEF Inv, Checked, Expected
<1>5. Halfway' BY <1>1 DEF Inv, Halfway, TaskOf
<1>6. \A u \in Tasks : Current(u)' = Current(u) BY <1>1 DEF Current, TaskOf
<1>7. CurrentIsTold' BY <1>1, <1>6 DEF Inv, CurrentIsTold
<1>8. IndexIsCurrent' BY <1>1, <1>6 DEF Inv, IndexIsCurrent, Entry
<1>9. DoneArchives' BY <1>1 DEF Inv, DoneArchives
<1>10. LatestAreKnown' BY <1>1 DEF Inv, LatestAreKnown
<1>11. Forgotten' BY <1>1 DEF Inv, Forgotten
<1>12. \A s \in Requests : TaskOf(s)' = TaskOf(s) /\ Expected(s)' = Expected(s)
  BY <1>1 DEF TaskOf, Expected
<1>13. \A s \in Requests : asked[s] # None => Current(TaskOf(s))' = Current(TaskOf(s))
  BY <1>6, <1>12, AskedFacts DEF Inv
<1>14. RevisionsGrow' BY <1>1, <1>12, <1>13 DEF Inv, RevisionsGrow
<1> QED BY <1>2, <1>3, <1>4, <1>5, <1>7, <1>8, <1>9, <1>10, <1>11, <1>14 DEF Inv

LEMMA InitInv == Init => Inv
<1> SUFFICES ASSUME Init PROVE Inv
  OBVIOUS
<1> USE DEF Init
<1>1. <<>> \in Seq(Requests) /\ Len(<<>>) = 0 OBVIOUS
<1>2. recent \in [Kinds -> Seq(Requests)] /\ \A k \in Kinds : Len(recent[k]) <= Limit
  BY <1>1, RegistryAssumption
<1>3. later \in [Requests -> 0..Limit] /\ \A r \in Requests : later[r] = Limit
  BY RegistryAssumption
<1>4. crashes \in 0..MaxCrashes BY RegistryAssumption
<1>5. up \in BOOLEAN OBVIOUS
<1>6. TypeOK BY <1>2, <1>3, <1>4, <1>5 DEF TypeOK
<1>7. AskedWell /\ Checked /\ Halfway /\ RevisionsGrow /\ DoneArchives /\ Forgotten
  BY DEF AskedWell, Checked, Halfway, RevisionsGrow, DoneArchives, Forgotten
<1>8. CurrentIsTold /\ IndexIsCurrent BY DEF CurrentIsTold, IndexIsCurrent, Entry, Current
<1>9. LatestAreKnown BY <1>3, RegistryAssumption DEF LatestAreKnown
<1> QED BY <1>6, <1>7, <1>8, <1>9 DEF Inv

(* The inductive invariant: where the request is that is carried out, that *)
(* revisions only grow between two archives, and what the caches hold.     *)
THEOREM RegistryInvariant == Spec => []Inv
<1>1. ASSUME Inv, [Next]_vars PROVE Inv'
  <2>1. ASSUME NEW r \in Requests, Prepare(r) PROVE Inv' BY <1>1, <2>1, PrepareKeeps
  <2>2. ASSUME NEW r \in Requests, PutAgain(r) PROVE Inv' BY <1>1, <2>2, PutAgainKeeps
  <2>3. ASSUME NEW r \in Requests, PutTask(r) \/ ArchiveTask(r) PROVE Inv'
    BY <1>1, <2>3, AcceptKeeps
  <2>4. CASE ReplaceFile \/ MoveFile BY <1>1, <2>4, WriteFileKeeps
  <2>5. CASE WriteIndex BY <1>1, <2>5, WriteIndexKeeps
  <2>6. CASE RestoreFile \/ MoveBack BY <1>1, <2>6, RestoreKeeps
  <2>7. CASE DeleteBackups BY <1>1, <2>7, DeleteBackupsKeeps
  <2>8. CASE Crash BY <1>1, <2>8, CrashKeeps
  <2>9. CASE Restart BY <1>1, <2>9, StaysKept DEF Restart
  <2>10. CASE UNCHANGED vars
    <3>1. UNCHANGED <<up, diskVars, opVars, answers, asked, lost, stale, spoiled, crashes>>
      BY <2>10 DEF vars
    <3>2. up' \in BOOLEAN /\ (up => up') BY <1>1, <3>1 DEF Inv, TypeOK
    <3> QED BY <1>1, <3>1, <3>2, StaysKept
  <2> QED BY <1>1, <2>1, <2>2, <2>3, <2>4, <2>5, <2>6, <2>7, <2>8, <2>9, <2>10 DEF Next
<1> QED BY <1>1, InitInv, PTL DEF Spec

(* The registry's files, caches and requests keep their types; a cache     *)
(* never holds more than recent_request_limit answers.                     *)
THEOREM RegistryTypeCorrect == Spec => []TypeOK
<1>1. Inv => TypeOK BY DEF Inv
<1> QED BY <1>1, RegistryInvariant, PTL

(* A failing put or archive leaves no trace, whichever step failed, as     *)
(* long as the restoration of the file does not fail and nobody dies.      *)
THEOREM NoTraceOfFailure == Spec => []AnswersAreTrue
<1>1. Inv => AnswersAreTrue
  BY DEF Inv, CurrentIsTold, Current, AnswersAreTrue
<1> QED BY <1>1, RegistryInvariant, PTL

(* The expected revision stands for the whole version that a client saw.   *)
THEOREM NoUpdateIsLost == Spec => []EditsWhatItSaw
<1>1. ASSUME Inv, place # "idle", op \notin stale PROVE previous = asked[op].base
  <2>1. op \in Requests /\ asked[op] # None /\ Current(TaskOf(op)) = previous
    BY <1>1, BusyFacts
  <2>2. Expected(op) = RevisionOf(previous) BY <1>1 DEF Inv, Checked
  <2> QED BY <1>1, <2>1, <2>2 DEF Inv, RevisionsGrow
<1>2. Inv => EditsWhatItSaw BY <1>1 DEF EditsWhatItSaw
<1> QED BY <1>2, RegistryInvariant, PTL

(* The revision check and the caches together make retries harmless.       *)
THEOREM RetriesDoNothing == Spec => []RetriesAreHarmless
<1>1. Inv => RetriesAreHarmless BY DEF Inv, Forgotten, RetriesAreHarmless
<1> QED BY <1>1, RegistryInvariant, PTL

(* What the registry writes is due, over failures, retries and restarts.   *)
THEOREM OnlyDueWrites == Spec => []WritesAreDue
<1>1. EditsWhatItSaw /\ RetriesAreHarmless => WritesAreDue BY DEF WritesAreDue
<1> QED BY <1>1, NoUpdateIsLost, RetriesDoNothing, PTL

(* task_index.json follows the files through every failure that is handled, *)
(* but for the files that could not be read back when it was written.       *)
THEOREM IndexFollowsFiles == Spec => []IndexShowsFiles
<1>1. Inv => IndexShowsFiles
  BY DEF Inv, IndexIsCurrent, Entry, Current, IndexShowsFiles
<1> QED BY <1>1, RegistryInvariant, PTL
(***************************************************************************)
(* The experiment manager.                                                 *)
(***************************************************************************)

(* What the node carries out, at each step of it.                          *)
StepWell ==
  /\ step = "ready" <=> request = Missing
  /\ step # "ready" => node = "up" /\ (request.experiment = Missing => step = "quiet")
  /\ node \in {"down", "recovering"} => bag = Missing /\ player = Missing
  /\ step \in {"describe", "begin"} =>
       manifest[request.experiment] = "CREATED" /\ \A e \in Experiments : Running(e) => e \in missed
  /\ step \in {"signal", "wait", "note"} =>
       /\ bag # Missing
       /\ IF request.kind = "stop" THEN request.experiment = source[bag]
          ELSE Running(request.experiment)
  /\ step = "note" => process[bag] = "exited"
  /\ step = "write" =>
       IF Running(request.experiment) THEN bag = Missing ELSE request.kind = "invalidate"
  /\ step = "sum" => manifest[request.experiment] \in {"COMPLETED", "INVALID"}

(* The manager remembers a recorder, alive or not, only of an experiment   *)
(* that runs.                                                              *)
HandlesWell ==
  /\ bag # Missing => source[bag] # Missing /\ Running(source[bag])
  /\ player # Missing => source[player] = Missing

OwnRecorders ==
  \A p \in Processes : Recording(p) /\ p \notin orphans \cup stranded => p = bag

ExperimentInv ==
  /\ ExperimentTypes /\ StepWell /\ HandlesWell /\ OwnRecorders
  /\ RunningWasStarted /\ OneCreatedRuns /\ SummariesAreTrue

-----------------------------------------------------------------------------
(* A request is of a kind, and of an experiment unless it is about the     *)
(* player.                                                                 *)
LEMMA RequestFacts ==
  ASSUME ExperimentTypes, StepWell, step # "ready"
  PROVE  /\ node = "up" /\ request # Missing
         /\ request.kind \in RequestKinds
         /\ step # "quiet" => request.experiment \in Experiments
<1>1. request # Missing /\ node = "up"
  BY DEF StepWell
<1>2. request \in ManageRequests
  BY <1>1 DEF ExperimentTypes
<1> QED BY <1>1, <1>2 DEF ManageRequests, StepWell

(* A request that is taken up is of its type.                              *)
LEMMA CarryFacts ==
  ASSUME NEW kind \in RequestKinds, NEW e \in Experiments \cup {Missing}, NEW next \in Steps \ {"ready"},
         Carry(kind, e, next)
  PROVE  /\ request' \in ManageRequests /\ request' # Missing
         /\ request'.kind = kind /\ request'.experiment = e /\ step' = next /\ step' # "ready"
BY ExperimentAssumption DEF Carry, ManageRequests, RequestKinds

LEMMA FinishedFacts ==
  ASSUME Finished PROVE request' = Missing /\ step' = "ready"
BY DEF Finished

-----------------------------------------------------------------------------
LEMMA ExperimentInitKeeps == ExperimentInit => ExperimentInv
BY ExperimentAssumption
   DEF ExperimentInit, ExperimentInv, ExperimentTypes, StepWell, HandlesWell, OwnRecorders, Recording,
       RunningWasStarted, OneCreatedRuns, SummariesAreTrue, Running, States, Steps

LEMMA CreateKeeps ==
  ASSUME ExperimentInv, NEW e \in Experiments, Create(e)
  PROVE  ExperimentInv'
<1> USE DEF ExperimentInv, ExperimentTypes, Running, Create, Ready, Becomes,
            recordVars, processVars, handleVars, requestVars, strayVars
<1>1. /\ request' \in ManageRequests /\ request' # Missing
      /\ request'.kind = "create" /\ request'.experiment = e /\ step' = "describe"
  BY CarryFacts DEF RequestKinds, Steps
<1>2. ExperimentTypes' BY <1>1, ExperimentAssumption DEF StepWell, States, Steps
<1>3. StepWell' BY <1>1, ExperimentAssumption DEF StepWell, HandlesWell
<1>4. HandlesWell' BY <1>1, ExperimentAssumption DEF HandlesWell, StepWell
<1>5. OwnRecorders' BY <1>1, ExperimentAssumption DEF OwnRecorders, StepWell, HandlesWell, Recording
<1>6. RunningWasStarted' /\ OneCreatedRuns' BY <1>1, ExperimentAssumption DEF RunningWasStarted, OneCreatedRuns, StepWell
<1>7. SummariesAreTrue' BY <1>1, ExperimentAssumption DEF SummariesAreTrue, StepWell
<1> QED BY <1>2, <1>3, <1>4, <1>5, <1>6, <1>7

LEMMA DescribeKeeps ==
  ASSUME ExperimentInv, Describe
  PROVE  ExperimentInv'
<1> USE DEF ExperimentInv, ExperimentTypes, Running, Describe, Snapshots, Finished,
            recordVars, processVars, handleVars, requestVars, strayVars
<1>1. /\ request.kind \in RequestKinds /\ request # Missing
      /\ step # "quiet" => request.experiment \in Experiments
  BY RequestFacts
<1>2. ExperimentTypes' BY <1>1, ExperimentAssumption DEF StepWell, States, Steps
<1>3. StepWell' BY <1>1, ExperimentAssumption DEF StepWell, HandlesWell
<1>4. HandlesWell' BY <1>1, ExperimentAssumption DEF HandlesWell, StepWell
<1>5. OwnRecorders' BY <1>1, ExperimentAssumption DEF OwnRecorders, StepWell, HandlesWell, Recording
<1>6. RunningWasStarted' /\ OneCreatedRuns' BY <1>1, ExperimentAssumption DEF RunningWasStarted, OneCreatedRuns, StepWell
<1>7. SummariesAreTrue' BY <1>1, ExperimentAssumption DEF SummariesAreTrue, StepWell
<1> QED BY <1>2, <1>3, <1>4, <1>5, <1>6, <1>7

LEMMA BeginKeeps ==
  ASSUME ExperimentInv, Begin
  PROVE  ExperimentInv'
<1> USE DEF ExperimentInv, ExperimentTypes, Running, Begin, Finished, Becomes,
            recordVars, processVars, handleVars, requestVars, strayVars
<1>1. /\ request.kind \in RequestKinds /\ request # Missing
      /\ step # "quiet" => request.experiment \in Experiments
  BY RequestFacts
<1>2. ExperimentTypes' BY <1>1, ExperimentAssumption DEF StepWell, States, Steps
<1>3. StepWell' BY <1>1, ExperimentAssumption DEF StepWell, HandlesWell
<1>4. HandlesWell' BY <1>1, ExperimentAssumption DEF HandlesWell, StepWell
<1>5. OwnRecorders' BY <1>1, ExperimentAssumption DEF OwnRecorders, StepWell, HandlesWell, Recording
<1>6. RunningWasStarted' /\ OneCreatedRuns' BY <1>1, ExperimentAssumption DEF RunningWasStarted, OneCreatedRuns, StepWell
<1>7. SummariesAreTrue' BY <1>1, ExperimentAssumption DEF SummariesAreTrue, StepWell
<1> QED BY <1>2, <1>3, <1>4, <1>5, <1>6, <1>7

LEMMA ResumeKeeps ==
  ASSUME ExperimentInv, NEW e \in Experiments, Resume(e)
  PROVE  ExperimentInv'
<1> USE DEF ExperimentInv, ExperimentTypes, Running, Resume, Ready, Becomes,
            recordVars, processVars, handleVars, requestVars, strayVars
<1>2. ExperimentTypes' BY ExperimentAssumption DEF StepWell, States, Steps
<1>3. StepWell' BY ExperimentAssumption DEF StepWell, HandlesWell
<1>4. HandlesWell' BY ExperimentAssumption DEF HandlesWell, StepWell
<1>5. OwnRecorders' BY ExperimentAssumption DEF OwnRecorders, StepWell, HandlesWell, Recording
<1>6. RunningWasStarted' /\ OneCreatedRuns' BY ExperimentAssumption DEF RunningWasStarted, OneCreatedRuns, StepWell
<1>7. SummariesAreTrue' BY ExperimentAssumption DEF SummariesAreTrue, StepWell
<1> QED BY <1>2, <1>3, <1>4, <1>5, <1>6, <1>7

LEMMA LocalizationCallbackKeeps ==
  ASSUME ExperimentInv, NEW e \in Experiments, LocalizationCallback(e)
  PROVE  ExperimentInv'
<1> USE DEF ExperimentInv, ExperimentTypes, Running, LocalizationCallback, AddResult, Ready,
            recordVars, processVars, handleVars, requestVars, strayVars
<1>2. ExperimentTypes' BY ExperimentAssumption DEF StepWell, States, Steps
<1>3. StepWell' BY ExperimentAssumption DEF StepWell, HandlesWell
<1>4. HandlesWell' BY ExperimentAssumption DEF HandlesWell, StepWell
<1>5. OwnRecorders' BY ExperimentAssumption DEF OwnRecorders, StepWell, HandlesWell, Recording
<1>6. RunningWasStarted' /\ OneCreatedRuns' BY ExperimentAssumption DEF RunningWasStarted, OneCreatedRuns, StepWell
<1>7. SummariesAreTrue' BY ExperimentAssumption DEF SummariesAreTrue, StepWell
<1> QED BY <1>2, <1>3, <1>4, <1>5, <1>6, <1>7

LEMMA StartBagKeeps ==
  ASSUME ExperimentInv, NEW e \in Experiments, StartBag(e)
  PROVE  ExperimentInv'
<1> USE DEF ExperimentInv, ExperimentTypes, Running, StartBag, Ready, Live, Popen,
            recordVars, processVars, handleVars, requestVars, strayVars
<1>2. ExperimentTypes' BY ExperimentAssumption DEF StepWell, States, Steps
<1>3. StepWell' BY ExperimentAssumption DEF StepWell, HandlesWell
<1>4. HandlesWell' BY ExperimentAssumption DEF HandlesWell, StepWell
<1>5. OwnRecorders' BY ExperimentAssumption DEF OwnRecorders, StepWell, HandlesWell, Recording
<1>6. RunningWasStarted' /\ OneCreatedRuns' BY ExperimentAssumption DEF RunningWasStarted, OneCreatedRuns, StepWell
<1>7. SummariesAreTrue' BY ExperimentAssumption DEF SummariesAreTrue, StepWell
<1> QED BY <1>2, <1>3, <1>4, <1>5, <1>6, <1>7

LEMMA StartPlaybackKeeps ==
  ASSUME ExperimentInv, StartPlayback
  PROVE  ExperimentInv'
<1> USE DEF ExperimentInv, ExperimentTypes, Running, StartPlayback, Ready, Live, Popen,
            recordVars, processVars, handleVars, requestVars, strayVars
<1>2. ExperimentTypes' BY ExperimentAssumption DEF StepWell, States, Steps
<1>3. StepWell' BY ExperimentAssumption DEF StepWell, HandlesWell
<1>4. HandlesWell' BY ExperimentAssumption DEF HandlesWell, StepWell
<1>5. OwnRecorders' BY ExperimentAssumption DEF OwnRecorders, StepWell, HandlesWell, Recording
<1>6. RunningWasStarted' /\ OneCreatedRuns' BY ExperimentAssumption DEF RunningWasStarted, OneCreatedRuns, StepWell
<1>7. SummariesAreTrue' BY ExperimentAssumption DEF SummariesAreTrue, StepWell
<1> QED BY <1>2, <1>3, <1>4, <1>5, <1>6, <1>7

LEMMA ExitKeeps ==
  ASSUME ExperimentInv, NEW p \in Processes, Exit(p)
  PROVE  ExperimentInv'
<1> USE DEF ExperimentInv, ExperimentTypes, Running, Exit,
            recordVars, processVars, handleVars, requestVars, strayVars
<1>2. ExperimentTypes' BY ExperimentAssumption DEF StepWell, States, Steps
<1>3. StepWell' BY ExperimentAssumption DEF StepWell, HandlesWell
<1>4. HandlesWell' BY ExperimentAssumption DEF HandlesWell, StepWell
<1>5. OwnRecorders' BY ExperimentAssumption DEF OwnRecorders, StepWell, HandlesWell, Recording
<1>6. RunningWasStarted' /\ OneCreatedRuns' BY ExperimentAssumption DEF RunningWasStarted, OneCreatedRuns, StepWell
<1>7. SummariesAreTrue' BY ExperimentAssumption DEF SummariesAreTrue, StepWell
<1> QED BY <1>2, <1>3, <1>4, <1>5, <1>6, <1>7

LEMMA StopRecordingKeeps ==
  ASSUME ExperimentInv, NEW e \in Experiments, StopRecording(e)
  PROVE  ExperimentInv'
<1> USE DEF ExperimentInv, ExperimentTypes, Running, StopRecording, Ready, StopFirst,
            recordVars, processVars, handleVars, requestVars, strayVars
<1>1. /\ request' \in ManageRequests /\ request' # Missing
      /\ request'.kind = "stop" /\ request'.experiment = e /\ step' = (IF bag # Missing THEN "signal" ELSE "write")
  BY CarryFacts DEF RequestKinds, Steps
<1>2. ExperimentTypes' BY <1>1, ExperimentAssumption DEF StepWell, States, Steps
<1>3. StepWell' BY <1>1, ExperimentAssumption DEF StepWell, HandlesWell
<1>4. HandlesWell' BY <1>1, ExperimentAssumption DEF HandlesWell, StepWell
<1>5. OwnRecorders' BY <1>1, ExperimentAssumption DEF OwnRecorders, StepWell, HandlesWell, Recording
<1>6. RunningWasStarted' /\ OneCreatedRuns' BY <1>1, ExperimentAssumption DEF RunningWasStarted, OneCreatedRuns, StepWell
<1>7. SummariesAreTrue' BY <1>1, ExperimentAssumption DEF SummariesAreTrue, StepWell
<1> QED BY <1>2, <1>3, <1>4, <1>5, <1>6, <1>7

LEMMA FinalizeKeeps ==
  ASSUME ExperimentInv, NEW e \in Experiments, Finalize(e)
  PROVE  ExperimentInv'
<1> USE DEF ExperimentInv, ExperimentTypes, Running, Finalize, Ready, StopFirst,
            recordVars, processVars, handleVars, requestVars, strayVars
<1>1. /\ request' \in ManageRequests /\ request' # Missing
      /\ request'.kind = "finalize" /\ request'.experiment = e /\ step' = (IF bag # Missing THEN "signal" ELSE "write")
  BY CarryFacts DEF RequestKinds, Steps
<1>2. ExperimentTypes' BY <1>1, ExperimentAssumption DEF StepWell, States, Steps
<1>3. StepWell' BY <1>1, ExperimentAssumption DEF StepWell, HandlesWell
<1>4. HandlesWell' BY <1>1, ExperimentAssumption DEF HandlesWell, StepWell
<1>5. OwnRecorders' BY <1>1, ExperimentAssumption DEF OwnRecorders, StepWell, HandlesWell, Recording
<1>6. RunningWasStarted' /\ OneCreatedRuns' BY <1>1, ExperimentAssumption DEF RunningWasStarted, OneCreatedRuns, StepWell
<1>7. SummariesAreTrue' BY <1>1, ExperimentAssumption DEF SummariesAreTrue, StepWell
<1> QED BY <1>2, <1>3, <1>4, <1>5, <1>6, <1>7

LEMMA InterruptKeeps ==
  ASSUME ExperimentInv, NEW e \in Experiments, Interrupt(e)
  PROVE  ExperimentInv'
<1> USE DEF ExperimentInv, ExperimentTypes, Running, Interrupt, Ready, StopFirst,
            recordVars, processVars, handleVars, requestVars, strayVars
<1>1. /\ request' \in ManageRequests /\ request' # Missing
      /\ request'.kind = "interrupt" /\ request'.experiment = e /\ step' = (IF bag # Missing THEN "signal" ELSE "write")
  BY CarryFacts DEF RequestKinds, Steps
<1>2. ExperimentTypes' BY <1>1, ExperimentAssumption DEF StepWell, States, Steps
<1>3. StepWell' BY <1>1, ExperimentAssumption DEF StepWell, HandlesWell
<1>4. HandlesWell' BY <1>1, ExperimentAssumption DEF HandlesWell, StepWell
<1>5. OwnRecorders' BY <1>1, ExperimentAssumption DEF OwnRecorders, StepWell, HandlesWell, Recording
<1>6. RunningWasStarted' /\ OneCreatedRuns' BY <1>1, ExperimentAssumption DEF RunningWasStarted, OneCreatedRuns, StepWell
<1>7. SummariesAreTrue' BY <1>1, ExperimentAssumption DEF SummariesAreTrue, StepWell
<1> QED BY <1>2, <1>3, <1>4, <1>5, <1>6, <1>7

LEMMA MarkInvalidKeeps ==
  ASSUME ExperimentInv, NEW e \in Experiments, MarkInvalid(e)
  PROVE  ExperimentInv'
<1> USE DEF ExperimentInv, ExperimentTypes, Running, MarkInvalid, Ready, StopFirst,
            recordVars, processVars, handleVars, requestVars, strayVars
<1>1. /\ request' \in ManageRequests /\ request' # Missing
      /\ request'.kind = "invalidate" /\ request'.experiment = e /\ step' = (IF Running(e) /\ bag # Missing THEN "signal" ELSE "write")
  BY CarryFacts DEF RequestKinds, Steps
<1>2. ExperimentTypes' BY <1>1, ExperimentAssumption DEF StepWell, States, Steps
<1>3. StepWell' BY <1>1, ExperimentAssumption DEF StepWell, HandlesWell
<1>4. HandlesWell' BY <1>1, ExperimentAssumption DEF HandlesWell, StepWell
<1>5. OwnRecorders' BY <1>1, ExperimentAssumption DEF OwnRecorders, StepWell, HandlesWell, Recording
<1>6. RunningWasStarted' /\ OneCreatedRuns' BY <1>1, ExperimentAssumption DEF RunningWasStarted, OneCreatedRuns, StepWell
<1>7. SummariesAreTrue' BY <1>1, ExperimentAssumption DEF SummariesAreTrue, StepWell
<1> QED BY <1>2, <1>3, <1>4, <1>5, <1>6, <1>7

LEMMA SignalBagKeeps ==
  ASSUME ExperimentInv, SignalBag
  PROVE  ExperimentInv'
<1> USE DEF ExperimentInv, ExperimentTypes, Running, SignalBag, Tell,
            recordVars, processVars, handleVars, requestVars, strayVars
<1>1. /\ request.kind \in RequestKinds /\ request # Missing
      /\ step # "quiet" => request.experiment \in Experiments
  BY RequestFacts
<1>2. ExperimentTypes' BY <1>1, ExperimentAssumption DEF StepWell, States, Steps
<1>3. StepWell' BY <1>1, ExperimentAssumption DEF StepWell, HandlesWell
<1>4. HandlesWell' BY <1>1, ExperimentAssumption DEF HandlesWell, StepWell
<1>5. OwnRecorders' BY <1>1, ExperimentAssumption DEF OwnRecorders, StepWell, HandlesWell, Recording
<1>6. RunningWasStarted' /\ OneCreatedRuns' BY <1>1, ExperimentAssumption DEF RunningWasStarted, OneCreatedRuns, StepWell
<1>7. SummariesAreTrue' BY <1>1, ExperimentAssumption DEF SummariesAreTrue, StepWell
<1> QED BY <1>2, <1>3, <1>4, <1>5, <1>6, <1>7

LEMMA WaitForBagKeeps ==
  ASSUME ExperimentInv, WaitForBag
  PROVE  ExperimentInv'
<1> USE DEF ExperimentInv, ExperimentTypes, Running, WaitForBag, Live, Finished,
            recordVars, processVars, handleVars, requestVars, strayVars
<1>1. /\ request.kind \in RequestKinds /\ request # Missing
      /\ step # "quiet" => request.experiment \in Experiments
  BY RequestFacts
<1>2. ExperimentTypes' BY <1>1, ExperimentAssumption DEF StepWell, States, Steps
<1>3. StepWell' BY <1>1, ExperimentAssumption DEF StepWell, HandlesWell
<1>4. HandlesWell' BY <1>1, ExperimentAssumption DEF HandlesWell, StepWell
<1>5. OwnRecorders' BY <1>1, ExperimentAssumption DEF OwnRecorders, StepWell, HandlesWell, Recording
<1>6. RunningWasStarted' /\ OneCreatedRuns' BY <1>1, ExperimentAssumption DEF RunningWasStarted, OneCreatedRuns, StepWell
<1>7. SummariesAreTrue' BY <1>1, ExperimentAssumption DEF SummariesAreTrue, StepWell
<1> QED BY <1>2, <1>3, <1>4, <1>5, <1>6, <1>7

LEMMA NoteBagStoppedKeeps ==
  ASSUME ExperimentInv, NoteBagStopped
  PROVE  ExperimentInv'
<1> USE DEF ExperimentInv, ExperimentTypes, Running, NoteBagStopped, Finished,
            recordVars, processVars, handleVars, requestVars, strayVars
<1>1. /\ request.kind \in RequestKinds /\ request # Missing
      /\ step # "quiet" => request.experiment \in Experiments
  BY RequestFacts
<1>2. ExperimentTypes' BY <1>1, ExperimentAssumption DEF StepWell, States, Steps
<1>3. StepWell' BY <1>1, ExperimentAssumption DEF StepWell, HandlesWell
<1>4. HandlesWell' BY <1>1, ExperimentAssumption DEF HandlesWell, StepWell
<1>5. OwnRecorders' BY <1>1, ExperimentAssumption DEF OwnRecorders, StepWell, HandlesWell, Recording
<1>6. RunningWasStarted' /\ OneCreatedRuns' BY <1>1, ExperimentAssumption DEF RunningWasStarted, OneCreatedRuns, StepWell
<1>7. SummariesAreTrue' BY <1>1, ExperimentAssumption DEF SummariesAreTrue, StepWell
<1> QED BY <1>2, <1>3, <1>4, <1>5, <1>6, <1>7

LEMMA WriteManifestKeeps ==
  ASSUME ExperimentInv, WriteManifest
  PROVE  ExperimentInv'
<1> USE DEF ExperimentInv, ExperimentTypes, Running, WriteManifest, Finished, Becomes,
            recordVars, processVars, handleVars, requestVars, strayVars
<1>1. /\ request.kind \in RequestKinds /\ request # Missing
      /\ step # "quiet" => request.experiment \in Experiments
  BY RequestFacts
<1>2. ExperimentTypes' BY <1>1, ExperimentAssumption DEF StepWell, States, Steps
<1>3. StepWell' BY <1>1, ExperimentAssumption DEF StepWell, HandlesWell
<1>4. HandlesWell' BY <1>1, ExperimentAssumption DEF HandlesWell, StepWell
<1>5. OwnRecorders' BY <1>1, ExperimentAssumption DEF OwnRecorders, StepWell, HandlesWell, Recording
<1>6. RunningWasStarted' /\ OneCreatedRuns' BY <1>1, ExperimentAssumption DEF RunningWasStarted, OneCreatedRuns, StepWell
<1>7. SummariesAreTrue' BY <1>1, ExperimentAssumption DEF SummariesAreTrue, StepWell
<1> QED BY <1>2, <1>3, <1>4, <1>5, <1>6, <1>7

LEMMA WriteSummaryKeeps ==
  ASSUME ExperimentInv, WriteSummary
  PROVE  ExperimentInv'
<1> USE DEF ExperimentInv, ExperimentTypes, Running, WriteSummary, Finished,
            recordVars, processVars, handleVars, requestVars, strayVars
<1>1. /\ request.kind \in RequestKinds /\ request # Missing
      /\ step # "quiet" => request.experiment \in Experiments
  BY RequestFacts
<1>2. ExperimentTypes' BY <1>1, ExperimentAssumption DEF StepWell, States, Steps
<1>3. StepWell' BY <1>1, ExperimentAssumption DEF StepWell, HandlesWell
<1>4. HandlesWell' BY <1>1, ExperimentAssumption DEF HandlesWell, StepWell
<1>5. OwnRecorders' BY <1>1, ExperimentAssumption DEF OwnRecorders, StepWell, HandlesWell, Recording
<1>6. RunningWasStarted' /\ OneCreatedRuns' BY <1>1, ExperimentAssumption DEF RunningWasStarted, OneCreatedRuns, StepWell
<1>7. SummariesAreTrue' BY <1>1, ExperimentAssumption DEF SummariesAreTrue, StepWell
<1> QED BY <1>2, <1>3, <1>4, <1>5, <1>6, <1>7

LEMMA StopPlaybackKeeps ==
  ASSUME ExperimentInv, StopPlayback
  PROVE  ExperimentInv'
<1> USE DEF ExperimentInv, ExperimentTypes, Running, StopPlayback, Ready, Tell,
            recordVars, processVars, handleVars, requestVars, strayVars
<1>1. /\ request' \in ManageRequests /\ request' # Missing
      /\ request'.kind = "unplay" /\ request'.experiment = Missing /\ step' = "quiet"
  BY CarryFacts DEF RequestKinds, Steps
<1>2. ExperimentTypes' BY <1>1, ExperimentAssumption DEF StepWell, States, Steps
<1>3. StepWell' BY <1>1, ExperimentAssumption DEF StepWell, HandlesWell
<1>4. HandlesWell' BY <1>1, ExperimentAssumption DEF HandlesWell, StepWell
<1>5. OwnRecorders' BY <1>1, ExperimentAssumption DEF OwnRecorders, StepWell, HandlesWell, Recording
<1>6. RunningWasStarted' /\ OneCreatedRuns' BY <1>1, ExperimentAssumption DEF RunningWasStarted, OneCreatedRuns, StepWell
<1>7. SummariesAreTrue' BY <1>1, ExperimentAssumption DEF SummariesAreTrue, StepWell
<1> QED BY <1>2, <1>3, <1>4, <1>5, <1>6, <1>7

LEMMA WaitForPlayerKeeps ==
  ASSUME ExperimentInv, WaitForPlayer
  PROVE  ExperimentInv'
<1> USE DEF ExperimentInv, ExperimentTypes, Running, WaitForPlayer, Finished, Live,
            recordVars, processVars, handleVars, requestVars, strayVars
<1>1. /\ request.kind \in RequestKinds /\ request # Missing
      /\ step # "quiet" => request.experiment \in Experiments
  BY RequestFacts
<1>2. ExperimentTypes' BY <1>1, ExperimentAssumption DEF StepWell, States, Steps
<1>3. StepWell' BY <1>1, ExperimentAssumption DEF StepWell, HandlesWell
<1>4. HandlesWell' BY <1>1, ExperimentAssumption DEF HandlesWell, StepWell
<1>5. OwnRecorders' BY <1>1, ExperimentAssumption DEF OwnRecorders, StepWell, HandlesWell, Recording
<1>6. RunningWasStarted' /\ OneCreatedRuns' BY <1>1, ExperimentAssumption DEF RunningWasStarted, OneCreatedRuns, StepWell
<1>7. SummariesAreTrue' BY <1>1, ExperimentAssumption DEF SummariesAreTrue, StepWell
<1> QED BY <1>2, <1>3, <1>4, <1>5, <1>6, <1>7

LEMMA DieKeeps ==
  ASSUME ExperimentInv, Die
  PROVE  ExperimentInv'
<1> USE DEF ExperimentInv, ExperimentTypes, Running, Die, Gone, Finished,
            recordVars, processVars, handleVars, requestVars, strayVars
<1>2. ExperimentTypes' BY ExperimentAssumption DEF StepWell, States, Steps
<1>3. StepWell' BY ExperimentAssumption DEF StepWell, HandlesWell
<1>4. HandlesWell' BY ExperimentAssumption DEF HandlesWell, StepWell
<1>5. OwnRecorders' BY ExperimentAssumption DEF OwnRecorders, StepWell, HandlesWell, Recording
<1>6. RunningWasStarted' /\ OneCreatedRuns' BY ExperimentAssumption DEF RunningWasStarted, OneCreatedRuns, StepWell
<1>7. SummariesAreTrue' BY ExperimentAssumption DEF SummariesAreTrue, StepWell
<1> QED BY <1>2, <1>3, <1>4, <1>5, <1>6, <1>7

LEMMA ShutdownKeeps ==
  ASSUME ExperimentInv, Shutdown
  PROVE  ExperimentInv'
<1> USE DEF ExperimentInv, ExperimentTypes, Running, Shutdown, Ready, Tell,
            recordVars, processVars, handleVars, requestVars, strayVars
<1>2. ExperimentTypes' BY ExperimentAssumption DEF StepWell, States, Steps
<1>3. StepWell' BY ExperimentAssumption DEF StepWell, HandlesWell
<1>4. HandlesWell' BY ExperimentAssumption DEF HandlesWell, StepWell
<1>5. OwnRecorders' BY ExperimentAssumption DEF OwnRecorders, StepWell, HandlesWell, Recording
<1>6. RunningWasStarted' /\ OneCreatedRuns' BY ExperimentAssumption DEF RunningWasStarted, OneCreatedRuns, StepWell
<1>7. SummariesAreTrue' BY ExperimentAssumption DEF SummariesAreTrue, StepWell
<1> QED BY <1>2, <1>3, <1>4, <1>5, <1>6, <1>7

LEMMA PlayerStaysKeeps ==
  ASSUME ExperimentInv, PlayerStays
  PROVE  ExperimentInv'
<1> USE DEF ExperimentInv, ExperimentTypes, Running, PlayerStays, Gone, Finished, Live,
            recordVars, processVars, handleVars, requestVars, strayVars
<1>2. ExperimentTypes' BY ExperimentAssumption DEF StepWell, States, Steps
<1>3. StepWell' BY ExperimentAssumption DEF StepWell, HandlesWell
<1>4. HandlesWell' BY ExperimentAssumption DEF HandlesWell, StepWell
<1>5. OwnRecorders' BY ExperimentAssumption DEF OwnRecorders, StepWell, HandlesWell, Recording
<1>6. RunningWasStarted' /\ OneCreatedRuns' BY ExperimentAssumption DEF RunningWasStarted, OneCreatedRuns, StepWell
<1>7. SummariesAreTrue' BY ExperimentAssumption DEF SummariesAreTrue, StepWell
<1> QED BY <1>2, <1>3, <1>4, <1>5, <1>6, <1>7

LEMMA CloseRecorderKeeps ==
  ASSUME ExperimentInv, CloseRecorder
  PROVE  ExperimentInv'
<1> USE DEF ExperimentInv, ExperimentTypes, Running, CloseRecorder, Gone, Finished, Live, Tell,
            recordVars, processVars, handleVars, requestVars, strayVars
<1>2. ExperimentTypes' BY ExperimentAssumption DEF StepWell, States, Steps
<1>3. StepWell' BY ExperimentAssumption DEF StepWell, HandlesWell
<1>4. HandlesWell' BY ExperimentAssumption DEF HandlesWell, StepWell
<1>5. OwnRecorders' BY ExperimentAssumption DEF OwnRecorders, StepWell, HandlesWell, Recording
<1>6. RunningWasStarted' /\ OneCreatedRuns' BY ExperimentAssumption DEF RunningWasStarted, OneCreatedRuns, StepWell
<1>7. SummariesAreTrue' BY ExperimentAssumption DEF SummariesAreTrue, StepWell
<1> QED BY <1>2, <1>3, <1>4, <1>5, <1>6, <1>7

LEMMA BootKeeps ==
  ASSUME ExperimentInv, Boot
  PROVE  ExperimentInv'
<1> USE DEF ExperimentInv, ExperimentTypes, Running, Boot,
            recordVars, processVars, handleVars, requestVars, strayVars
<1>2. ExperimentTypes' BY ExperimentAssumption DEF StepWell, States, Steps
<1>3. StepWell' BY ExperimentAssumption DEF StepWell, HandlesWell
<1>4. HandlesWell' BY ExperimentAssumption DEF HandlesWell, StepWell
<1>5. OwnRecorders' BY ExperimentAssumption DEF OwnRecorders, StepWell, HandlesWell, Recording
<1>6. RunningWasStarted' /\ OneCreatedRuns' BY ExperimentAssumption DEF RunningWasStarted, OneCreatedRuns, StepWell
<1>7. SummariesAreTrue' BY ExperimentAssumption DEF SummariesAreTrue, StepWell
<1> QED BY <1>2, <1>3, <1>4, <1>5, <1>6, <1>7

LEMMA RecoverKeeps ==
  ASSUME ExperimentInv, NEW e \in Experiments, Recover(e)
  PROVE  ExperimentInv'
<1> USE DEF ExperimentInv, ExperimentTypes, Running, Recover, Becomes,
            recordVars, processVars, handleVars, requestVars, strayVars
<1>2. ExperimentTypes' BY ExperimentAssumption DEF StepWell, States, Steps
<1>3. StepWell' BY ExperimentAssumption DEF StepWell, HandlesWell
<1>4. HandlesWell' BY ExperimentAssumption DEF HandlesWell, StepWell
<1>5. OwnRecorders' BY ExperimentAssumption DEF OwnRecorders, StepWell, HandlesWell, Recording
<1>6. RunningWasStarted' /\ OneCreatedRuns' BY ExperimentAssumption DEF RunningWasStarted, OneCreatedRuns, StepWell
<1>7. SummariesAreTrue' BY ExperimentAssumption DEF SummariesAreTrue, StepWell
<1> QED BY <1>2, <1>3, <1>4, <1>5, <1>6, <1>7

LEMMA RecoverSkipsKeeps ==
  ASSUME ExperimentInv, NEW e \in Experiments, RecoverSkips(e)
  PROVE  ExperimentInv'
<1> USE DEF ExperimentInv, ExperimentTypes, Running, RecoverSkips,
            recordVars, processVars, handleVars, requestVars, strayVars
<1>2. ExperimentTypes' BY ExperimentAssumption DEF StepWell, States, Steps
<1>3. StepWell' BY ExperimentAssumption DEF StepWell, HandlesWell
<1>4. HandlesWell' BY ExperimentAssumption DEF HandlesWell, StepWell
<1>5. OwnRecorders' BY ExperimentAssumption DEF OwnRecorders, StepWell, HandlesWell, Recording
<1>6. RunningWasStarted' /\ OneCreatedRuns' BY ExperimentAssumption DEF RunningWasStarted, OneCreatedRuns, StepWell
<1>7. SummariesAreTrue' BY ExperimentAssumption DEF SummariesAreTrue, StepWell
<1> QED BY <1>2, <1>3, <1>4, <1>5, <1>6, <1>7

LEMMA RecoveredKeeps ==
  ASSUME ExperimentInv, Recovered
  PROVE  ExperimentInv'
<1> USE DEF ExperimentInv, ExperimentTypes, Running, Recovered,
            recordVars, processVars, handleVars, requestVars, strayVars
<1>2. ExperimentTypes' BY ExperimentAssumption DEF StepWell, States, Steps
<1>3. StepWell' BY ExperimentAssumption DEF StepWell, HandlesWell
<1>4. HandlesWell' BY ExperimentAssumption DEF HandlesWell, StepWell
<1>5. OwnRecorders' BY ExperimentAssumption DEF OwnRecorders, StepWell, HandlesWell, Recording
<1>6. RunningWasStarted' /\ OneCreatedRuns' BY ExperimentAssumption DEF RunningWasStarted, OneCreatedRuns, StepWell
<1>7. SummariesAreTrue' BY ExperimentAssumption DEF SummariesAreTrue, StepWell
<1> QED BY <1>2, <1>3, <1>4, <1>5, <1>6, <1>7

-----------------------------------------------------------------------------
(* The inductive invariant: what the manager holds at each step of a       *)
(* request, and that it never remembers a recorder of an experiment that   *)
(* does not run.                                                           *)
THEOREM ExperimentInvariant == ExperimentSpec => []ExperimentInv
<1>1. ASSUME ExperimentInv, [ExperimentNext]_experimentVars PROVE ExperimentInv'
  <2>1. ASSUME NEW e \in Experiments, Create(e) PROVE ExperimentInv' BY <1>1, <2>1, CreateKeeps
  <2>2. CASE Describe BY <1>1, <2>2, DescribeKeeps
  <2>3. CASE Begin BY <1>1, <2>3, BeginKeeps
  <2>4. ASSUME NEW e \in Experiments, Resume(e) PROVE ExperimentInv' BY <1>1, <2>4, ResumeKeeps
  <2>5. ASSUME NEW e \in Experiments, LocalizationCallback(e) PROVE ExperimentInv' BY <1>1, <2>5, LocalizationCallbackKeeps
  <2>6. ASSUME NEW e \in Experiments, StartBag(e) PROVE ExperimentInv' BY <1>1, <2>6, StartBagKeeps
  <2>7. CASE StartPlayback BY <1>1, <2>7, StartPlaybackKeeps
  <2>8. ASSUME NEW p \in Processes, Exit(p) PROVE ExperimentInv' BY <1>1, <2>8, ExitKeeps
  <2>9. ASSUME NEW e \in Experiments, StopRecording(e) PROVE ExperimentInv' BY <1>1, <2>9, StopRecordingKeeps
  <2>10. ASSUME NEW e \in Experiments, Finalize(e) PROVE ExperimentInv' BY <1>1, <2>10, FinalizeKeeps
  <2>11. ASSUME NEW e \in Experiments, Interrupt(e) PROVE ExperimentInv' BY <1>1, <2>11, InterruptKeeps
  <2>12. ASSUME NEW e \in Experiments, MarkInvalid(e) PROVE ExperimentInv' BY <1>1, <2>12, MarkInvalidKeeps
  <2>13. CASE SignalBag BY <1>1, <2>13, SignalBagKeeps
  <2>14. CASE WaitForBag BY <1>1, <2>14, WaitForBagKeeps
  <2>15. CASE NoteBagStopped BY <1>1, <2>15, NoteBagStoppedKeeps
  <2>16. CASE WriteManifest BY <1>1, <2>16, WriteManifestKeeps
  <2>17. CASE WriteSummary BY <1>1, <2>17, WriteSummaryKeeps
  <2>18. CASE StopPlayback BY <1>1, <2>18, StopPlaybackKeeps
  <2>19. CASE WaitForPlayer BY <1>1, <2>19, WaitForPlayerKeeps
  <2>20. CASE Die BY <1>1, <2>20, DieKeeps
  <2>21. CASE Shutdown BY <1>1, <2>21, ShutdownKeeps
  <2>22. CASE PlayerStays BY <1>1, <2>22, PlayerStaysKeeps
  <2>23. CASE CloseRecorder BY <1>1, <2>23, CloseRecorderKeeps
  <2>24. CASE Boot BY <1>1, <2>24, BootKeeps
  <2>25. ASSUME NEW e \in Experiments, Recover(e) PROVE ExperimentInv' BY <1>1, <2>25, RecoverKeeps
  <2>26. CASE Recovered BY <1>1, <2>26, RecoveredKeeps
  <2>27. ASSUME NEW e \in Experiments, RecoverSkips(e) PROVE ExperimentInv' BY <1>1, <2>27, RecoverSkipsKeeps
  <2>28. CASE UNCHANGED experimentVars
    BY <1>1, <2>28
       DEF experimentVars, recordVars, processVars, handleVars, requestVars, strayVars, ExperimentInv,
           ExperimentTypes, StepWell, HandlesWell, OwnRecorders, Recording, RunningWasStarted,
           OneCreatedRuns, SummariesAreTrue, Running
  <2> QED
    BY <1>1, <2>1, <2>2, <2>3, <2>4, <2>5, <2>6, <2>7, <2>8, <2>9, <2>10, <2>11, <2>12, <2>13, <2>14, <2>15, <2>16, <2>17, <2>18, <2>19, <2>20, <2>21, <2>22, <2>23, <2>24, <2>25, <2>26, <2>27, <2>28 DEF ExperimentNext
<1> QED BY <1>1, ExperimentInitKeeps, PTL DEF ExperimentSpec

(* Every variable keeps its type.                                          *)
THEOREM ExperimentTypeCorrect == ExperimentSpec => []ExperimentTypes
<1>1. ExperimentInv => ExperimentTypes BY DEF ExperimentInv
<1> QED BY <1>1, ExperimentInvariant, PTL

(* No way of ending an experiment leaves its recorder behind.              *)
THEOREM NoStrayRecorder == ExperimentSpec => []RecordsWhileRunning
<1>1. ExperimentInv => RecordsWhileRunning
  <2>1. ASSUME ExperimentInv, NEW p \in Processes, Recording(p), p \notin orphans \cup stranded
        PROVE  p = bag /\ Running(source[p])
    BY <2>1, ExperimentAssumption DEF ExperimentInv, OwnRecorders, HandlesWell
  <2> QED BY <2>1 DEF RecordsWhileRunning
<1> QED BY <1>1, ExperimentInvariant, PTL

(* What the status says of the recorder is true, and it hides none.        *)
THEOREM StatusStaysTrue == ExperimentSpec => []StatusIsTrue
<1>1. ASSUME ExperimentInv PROVE StatusIsTrue
  <2>1. ASSUME NEW p \in Processes, Recording(p), p \notin orphans \cup stranded
        PROVE  Status = [state |-> "RECORDING", experiment |-> source[p]]
    <3>1. p = bag /\ Live(bag)
      BY <1>1, <2>1, ExperimentAssumption DEF ExperimentInv, OwnRecorders, Recording, Live
    <3> QED BY <3>1 DEF Status, Live
  <2>2. ASSUME Status.experiment # Missing PROVE Running(Status.experiment)
    <3>1. bag # Missing => source[bag] # Missing /\ Running(source[bag])
      BY <1>1 DEF ExperimentInv, HandlesWell
    <3>2. CASE bag # Missing
      BY <2>2, <3>1, <3>2 DEF Status, Live
    <3>3. CASE bag = Missing
      BY <2>2, <3>3 DEF Status, Live
    <3> QED BY <3>2, <3>3
  <2> QED BY <2>1, <2>2 DEF StatusIsTrue
<1> QED BY <1>1, ExperimentInvariant, PTL

(* recover_interrupted leaves nothing running but what it could not read,  *)
(* and nothing runs by itself.                                             *)
THEOREM NothingRunsUnasked == ExperimentSpec => []RunningWasStarted
<1>1. ExperimentInv => RunningWasStarted BY DEF ExperimentInv
<1> QED BY <1>1, ExperimentInvariant, PTL

(* The check of create_experiment suffices, since nothing but what it      *)
(* passed over runs between it and the start of what it created.           *)
THEOREM CreatedAlone == ExperimentSpec => []OneCreatedRuns
<1>1. ExperimentInv => OneCreatedRuns BY DEF ExperimentInv
<1> QED BY <1>1, ExperimentInvariant, PTL

(* finalize, interrupt and mark_invalid do not look whose recorder they    *)
(* stop: it is their own where experiments are started by create alone,    *)
(* and their manifests can be read.                                        *)
THEOREM StopsOwnRecorder == ExperimentSpec => []StopsItsOwn
<1>1. ASSUME ExperimentInv, step \in {"wait", "note"}, bag # Missing, request.experiment # source[bag]
      PROVE  \E e \in {request.experiment, source[bag]} : begun[e] = "resumed" \/ e \in missed
  <2>1. node = "up" /\ request.experiment \in Experiments /\ source[bag] \in Experiments
    BY <1>1, RequestFacts DEF ExperimentInv, HandlesWell, ExperimentTypes
  <2>2. Running(request.experiment) /\ Running(source[bag])
    BY <1>1 DEF ExperimentInv, StepWell, HandlesWell
  <2>3. \A e \in {request.experiment, source[bag]} : begun[e] # "no" \/ e \in missed
    BY <1>1, <2>1, <2>2 DEF ExperimentInv, RunningWasStarted
  <2> QED BY <1>1, <2>1, <2>2, <2>3 DEF ExperimentInv, OneCreatedRuns, ExperimentTypes
<1>2. ExperimentInv => StopsItsOwn BY <1>1 DEF StopsItsOwn
<1> QED BY <1>2, ExperimentInvariant, PTL

(* The three together: what runs was asked for, or could not be read.      *)
THEOREM RunsOnlyAsAsked == ExperimentSpec => []RunsAsAsked
<1>1. RunningWasStarted /\ OneCreatedRuns /\ StopsItsOwn => RunsAsAsked BY DEF RunsAsAsked
<1> QED BY <1>1, NothingRunsUnasked, CreatedAlone, StopsOwnRecorder, PTL

(* What was summed up is over: it counts every result and never goes on.   *)
THEOREM SummariesStayTrue == ExperimentSpec => []SummariesAreTrue
<1>1. ExperimentInv => SummariesAreTrue BY DEF ExperimentInv
<1> QED BY <1>1, ExperimentInvariant, PTL

(***************************************************************************)
(* The preview planner.                                                    *)
(***************************************************************************)

(* While a request is planned, its segments so far are joined.             *)
PlannedSoFar ==
  busy => /\ timer = TimerFor(generation, segment) /\ shown = <<>>
          /\ segment \in 1..length /\ Len(joined) = segment - 1 /\ Connected(joined, requests)

(* A goal of the generation that is reached is the goal that is waited for. *)
LatestGoal ==
  \A g \in sent \cup accepted :
    /\ g.generation <= generation
    /\ busy /\ g.generation = generation =>
         g.segment = segment /\ g.request = requests /\ g.from = Start(joined)

PreviewInv == PreviewTypes /\ PlannedSoFar /\ LatestGoal /\ ShownAnswersRequest

-----------------------------------------------------------------------------
LEMMA TimerFacts ==
  /\ NoTimer \in SegmentTimers
  /\ \A g, k \in Nat : TimerFor(g, k) \in SegmentTimers
BY DEF NoTimer, TimerFor, SegmentTimers

(* The goal that is waited for continues what is joined.                   *)
LEMMA ConnectedAppend ==
  ASSUME PreviewTypes, Connected(joined, requests), NEW g \in PlanGoals,
         g.request = requests, g.segment = Len(joined) + 1, g.from = Start(joined)
  PROVE  /\ Append(joined, g) \in Seq(PlanGoals) /\ Append(joined, g) # <<>>
         /\ Len(Append(joined, g)) = Len(joined) + 1
         /\ Connected(Append(joined, g), requests)
         /\ Start(Append(joined, g)) = g.generation
<1> USE DEF PreviewTypes
<1>1. /\ Append(joined, g) \in Seq(PlanGoals) /\ Append(joined, g) # <<>>
      /\ Len(Append(joined, g)) = Len(joined) + 1
      /\ Append(joined, g)[Len(joined) + 1] = g
      /\ \A i \in 1..Len(joined) : Append(joined, g)[i] = joined[i]
  OBVIOUS
<1>2. Start(Append(joined, g)) = g.generation
  BY <1>1 DEF Start
<1>3. ASSUME NEW i \in 1..(Len(joined) + 1)
      PROVE  /\ Append(joined, g)[i].request = requests /\ Append(joined, g)[i].segment = i
             /\ Append(joined, g)[i].from = IF i = 1 THEN 0 ELSE Append(joined, g)[i - 1].generation
  <2>1. CASE i \in 1..Len(joined)
    <3>1. i # 1 => i - 1 \in 1..Len(joined)
      BY <2>1
    <3> QED BY <1>1, <2>1, <3>1 DEF Connected
  <2>2. CASE i = Len(joined) + 1
    <3>1. joined = <<>> <=> Len(joined) = 0
      OBVIOUS
    <3>2. i # 1 => Append(joined, g)[i - 1] = joined[Len(joined)]
      BY <1>1, <2>2
    <3> QED BY <1>1, <2>2, <3>1, <3>2 DEF Start
  <2> QED BY <2>1, <2>2
<1>4. Connected(Append(joined, g), requests)
  BY <1>1, <1>3 DEF Connected
<1> QED BY <1>1, <1>2, <1>4

(* A failure leaves nothing that could be taken for an answer.             *)
LEMMA FailKeeps ==
  ASSUME PreviewInv, NEW g \in Nat, generation <= g, Fail(g),
         joined' \in Seq(PlanGoals), length' \in Nat, segment' \in 0..(length' + 1), requests' \in Nat,
         sent' \in SUBSET (sent \cup accepted), accepted' \in SUBSET (sent \cup accepted)
  PROVE  PreviewInv'
<1> USE DEF PreviewInv
<1>1. /\ sent' \in SUBSET PlanGoals /\ accepted' \in SUBSET PlanGoals
      /\ sent' \cup accepted' \subseteq sent \cup accepted
  BY DEF PreviewTypes
<1>2. busy' = FALSE /\ generation' = g + 1 /\ timer' = NoTimer /\ shown' = <<>>
  BY DEF Fail
<1>3. PreviewTypes'
  <2>1. busy' \in BOOLEAN /\ timer' \in SegmentTimers
    BY <1>2, TimerFacts, Zenon
  <2>2. generation' \in Nat /\ shown' \in Seq(PlanGoals)
    BY <1>2
  <2> QED BY <1>1, <2>1, <2>2 DEF PreviewTypes
<1>4. PlannedSoFar' /\ ShownAnswersRequest'
  BY <1>2 DEF PlannedSoFar, ShownAnswersRequest
<1>5. ASSUME NEW x \in sent' \cup accepted' PROVE x.generation <= g
  <2>1. x \in PlanGoals /\ x.generation <= generation
    BY <1>1, <1>5 DEF LatestGoal, PreviewTypes
  <2>2. x.generation \in Nat /\ generation \in Nat
    BY <2>1 DEF PreviewTypes, PlanGoals
  <2> QED BY <2>1, <2>2
<1>6. LatestGoal'
  <2>1. ASSUME NEW x \in sent' \cup accepted' PROVE x.generation <= generation'
    <3>1. x \in PlanGoals /\ x.generation <= g
      BY <1>1, <1>5, <2>1
    <3>2. x.generation \in Nat
      BY <3>1 DEF PlanGoals
    <3> QED BY <1>2, <3>1, <3>2
  <2> QED BY <1>2, <2>1 DEF LatestGoal
<1> QED BY <1>3, <1>4, <1>6

LEMMA SegmentFacts ==
  /\ \A k, n \in Nat : 1 <= k /\ k <= n => k \in 0..(n + 1)
  /\ \A n \in Nat : n + 1 \in Nat /\ n <= n + 1
OBVIOUS

(* A segment is sent when what is joined leads up to it.                   *)
LEMMA SendKeeps ==
  ASSUME PreviewInv, NEW k \in Nat, NEW paths \in Seq(PlanGoals), NEW path,
         SendSegment(k, paths, path), path = <<>>,
         length' \in Nat, 1 <= k, k <= length', requests' \in Nat, Len(paths) = k - 1, Connected(paths, requests'),
         accepted' \in SUBSET accepted, Start(paths) \in Nat
  PROVE  PreviewInv'
<1>0. generation \in Nat /\ sent \in SUBSET PlanGoals /\ accepted \in SUBSET PlanGoals
  BY DEF PreviewInv, PreviewTypes
<1>1. CASE Fail(generation + 1) /\ UNCHANGED sent
  <2>1. k \in 0..(length' + 1) /\ generation + 1 \in Nat /\ generation <= generation + 1
    BY <1>0, SegmentFacts, Zenon
  <2>2. /\ segment' \in 0..(length' + 1) /\ joined' \in Seq(PlanGoals)
        /\ sent' \in SUBSET (sent \cup accepted) /\ accepted' \in SUBSET (sent \cup accepted)
    BY <1>1, <2>1, Zenon DEF SendSegment
  <2> QED BY <1>1, <2>1, <2>2, FailKeeps, Zenon
<1>2. CASE /\ busy' = TRUE /\ shown' = path /\ segment' = k /\ joined' = paths
           /\ generation' = generation + 1 /\ timer' = TimerFor(generation + 1, k)
           /\ sent' = sent \cup {PlanGoal(k, paths)}
  <2>1. /\ PlanGoal(k, paths) \in PlanGoals
        /\ PlanGoal(k, paths).generation = generation + 1 /\ PlanGoal(k, paths).segment = k
        /\ PlanGoal(k, paths).request = requests' /\ PlanGoal(k, paths).from = Start(paths)
    BY DEF PreviewInv, PreviewTypes, PlanGoal, PlanGoals
  <2>2. Start(joined)' = Start(paths)
    BY <1>2 DEF Start
  <2>3. PreviewTypes'
    <3>1. path \in Seq(PlanGoals) /\ k \in 0..(length' + 1) /\ generation + 1 \in Nat /\ k \in Nat
      <4>1. <<>> \in Seq(PlanGoals)
        OBVIOUS
      <4> QED BY <1>0, <4>1, SegmentFacts, Zenon
    <3>2. timer' \in SegmentTimers
      BY <1>2, <3>1, TimerFacts
    <3>3. busy' \in BOOLEAN
      BY <1>2, Zenon
    <3>4. sent' \in SUBSET PlanGoals /\ accepted' \in SUBSET PlanGoals
      BY <1>0, <1>2, <2>1
    <3> QED BY <1>2, <3>1, <3>2, <3>3, <3>4 DEF PreviewTypes
  <2>4. PlannedSoFar' /\ ShownAnswersRequest'
    BY <1>2 DEF PlannedSoFar, ShownAnswersRequest, TimerFor, Connected
  <2>5. LatestGoal'
    BY <1>2, <2>1, <2>2 DEF PreviewInv, LatestGoal, PreviewTypes, PlanGoals
  <2> QED BY <2>3, <2>4, <2>5 DEF PreviewInv
<1> QED BY <1>1, <1>2 DEF SendSegment

LEMMA AcceptRequestKeeps ==
  ASSUME PreviewInv, NEW n \in 1..MaxSegments, AcceptRequest(n)
  PROVE  PreviewInv'
<1>1. /\ length' \in Nat /\ 1 \in Nat /\ 1 <= 1 /\ 1 <= length' /\ requests' \in Nat
      /\ SendSegment(1, <<>>, <<>>) /\ accepted' = accepted
  BY PreviewAssumption DEF AcceptRequest, PreviewInv, PreviewTypes
<1>2. <<>> \in Seq(PlanGoals) /\ Len(<<>>) = 1 - 1 /\ Connected(<<>>, requests') /\ Start(<<>>) \in Nat
  BY DEF Connected, Start
<1>3. accepted' \in SUBSET accepted
  BY <1>1
<1> QED BY <1>1, <1>2, <1>3, SendKeeps, Zenon

LEMMA RefuseRequestKeeps ==
  ASSUME PreviewInv, RefuseRequest
  PROVE  PreviewInv'
BY FailKeeps DEF RefuseRequest, requestState, PreviewInv, PreviewTypes

LEMMA GoalResponseKeeps ==
  ASSUME PreviewInv, NEW g \in sent, GoalResponse(g)
  PROVE  PreviewInv'
<1> USE DEF GoalResponse, requestState
<1>1. CASE Fail(generation) /\ UNCHANGED <<segment, joined, accepted>>
  BY <1>1, FailKeeps DEF PreviewInv, PreviewTypes
<1>2. CASE UNCHANGED segmentState /\ accepted' \in {accepted, accepted \cup {g}}
  BY <1>2
     DEF segmentState, PreviewInv, PreviewTypes, PlannedSoFar, LatestGoal, ShownAnswersRequest, Connected,
         Start
<1> QED BY <1>1, <1>2

LEMMA SegmentResultKeeps ==
  ASSUME PreviewInv, NEW g \in accepted, SegmentResult(g)
  PROVE  PreviewInv'
<1> USE DEF SegmentResult, requestState
<1>1. CASE UNCHANGED <<sent, segmentState>>
  BY <1>1
     DEF segmentState, PreviewInv, PreviewTypes, PlannedSoFar, LatestGoal, ShownAnswersRequest, Connected,
         Start
<1>2. CASE Fail(generation) /\ UNCHANGED <<segment, joined, sent>>
  BY <1>2, FailKeeps DEF PreviewInv, PreviewTypes
<1>3. ASSUME IsCurrent(g.generation, g.segment)
      PROVE  /\ Append(joined, g) \in Seq(PlanGoals) /\ Append(joined, g) # <<>>
             /\ Len(Append(joined, g)) = segment /\ Connected(Append(joined, g), requests)
             /\ Start(Append(joined, g)) \in Nat
             /\ shown = <<>> /\ segment \in 1..length /\ length \in Nat /\ requests \in Nat
  <2>1. g \in PlanGoals /\ g.generation \in Nat
    BY DEF PreviewInv, PreviewTypes, PlanGoals
  <2>2. /\ segment \in 1..length /\ shown = <<>> /\ Len(joined) = segment - 1 /\ Connected(joined, requests)
        /\ g.segment = segment /\ g.request = requests /\ g.from = Start(joined)
    BY <1>3 DEF IsCurrent, PreviewInv, PlannedSoFar, LatestGoal
  <2>3. g.segment = Len(joined) + 1 /\ length \in Nat /\ requests \in Nat /\ PreviewTypes
    BY <2>2 DEF PreviewInv, PreviewTypes
  <2> QED BY <2>1, <2>2, <2>3, ConnectedAppend
<1>4. CASE IsCurrent(g.generation, g.segment) /\ Left /\ SendSegment(segment + 1, Append(joined, g), shown)
  <2>1. /\ length' \in Nat /\ segment + 1 \in Nat /\ 1 <= segment + 1 /\ segment + 1 <= length' /\ requests' \in Nat
        /\ Connected(Append(joined, g), requests') /\ Len(Append(joined, g)) = (segment + 1) - 1
        /\ accepted' \in SUBSET accepted
    <3>1. Connected(Append(joined, g), requests')
      BY <1>3, <1>4
    <3> QED BY <1>3, <1>4, <3>1 DEF Left
  <2> QED BY <1>3, <1>4, <2>1, SendKeeps
<1>5. CASE /\ IsCurrent(g.generation, g.segment) /\ ~Left
           /\ joined' = Append(joined, g) /\ shown' = Append(joined, g)
           /\ segment' = segment + 1 /\ busy' = FALSE /\ timer' = NoTimer
           /\ UNCHANGED <<generation, sent>>
  <2>1. segment = length
    BY <1>3, <1>5 DEF Left
  <2>2. PreviewTypes'
    <3>1. busy' \in BOOLEAN /\ timer' \in SegmentTimers
      BY <1>5, TimerFacts, Zenon
    <3>2. segment' \in 0..(length' + 1) /\ joined' \in Seq(PlanGoals) /\ shown' \in Seq(PlanGoals)
      BY <1>3, <1>5, <2>1
    <3> QED BY <1>5, <3>1, <3>2 DEF PreviewInv, PreviewTypes
  <2>3. PlannedSoFar' /\ ShownAnswersRequest'
    BY <1>3, <1>5, <2>1 DEF PlannedSoFar, ShownAnswersRequest, Connected
  <2>4. LatestGoal'
    BY <1>5 DEF PreviewInv, LatestGoal
  <2> QED BY <2>2, <2>3, <2>4 DEF PreviewInv
<1> QED BY <1>1, <1>2, <1>4, <1>5

LEMMA SegmentTimedOutKeeps ==
  ASSUME PreviewInv, SegmentTimedOut
  PROVE  PreviewInv'
BY FailKeeps DEF SegmentTimedOut, requestState, PreviewInv, PreviewTypes

-----------------------------------------------------------------------------
(* The inductive invariant: what is joined while a request is planned, and *)
(* that the generation tells the goal that is waited for from all others.  *)
THEOREM PreviewInvariant == PreviewSpec => []PreviewInv
<1>1. PreviewInit => PreviewInv
  <2>1. PreviewInit => PreviewTypes
    <3>1. PreviewInit => busy \in BOOLEAN /\ timer \in SegmentTimers
      BY TimerFacts, Zenon DEF PreviewInit
    <3> QED BY <3>1 DEF PreviewInit, PreviewTypes
  <2> QED BY <2>1 DEF PreviewInit, PreviewInv, PlannedSoFar, LatestGoal, ShownAnswersRequest
<1>2. ASSUME PreviewInv, [PreviewNext]_previewVars PROVE PreviewInv'
  <2>1. ASSUME NEW n \in 1..MaxSegments, AcceptRequest(n) PROVE PreviewInv' BY <1>2, <2>1, AcceptRequestKeeps
  <2>2. CASE RefuseRequest BY <1>2, <2>2, RefuseRequestKeeps
  <2>3. ASSUME NEW g \in sent, GoalResponse(g) PROVE PreviewInv' BY <1>2, <2>3, GoalResponseKeeps
  <2>4. ASSUME NEW g \in accepted, SegmentResult(g) PROVE PreviewInv' BY <1>2, <2>4, SegmentResultKeeps
  <2>5. CASE SegmentTimedOut BY <1>2, <2>5, SegmentTimedOutKeeps
  <2>6. CASE UNCHANGED previewVars
    BY <1>2, <2>6
       DEF previewVars, requestState, segmentState, PreviewInv, PreviewTypes, PlannedSoFar, LatestGoal,
           ShownAnswersRequest, Connected, Start
  <2> QED BY <1>2, <2>1, <2>2, <2>3, <2>4, <2>5, <2>6 DEF PreviewNext
<1> QED BY <1>1, <1>2, PTL DEF PreviewSpec

(* Every variable keeps its type; the segment never runs past the points.  *)
THEOREM PreviewTypeCorrect == PreviewSpec => []PreviewTypes
<1>1. PreviewInv => PreviewTypes BY DEF PreviewInv
<1> QED BY <1>1, PreviewInvariant, PTL

(* No late answer gets into the path that is shown.                        *)
THEOREM ShownAsAsked == PreviewSpec => []ShownAnswersRequest
<1>1. PreviewInv => ShownAnswersRequest BY DEF PreviewInv
<1> QED BY <1>1, PreviewInvariant, PTL

(* The timer always guards the one goal that is waited for.                *)
THEOREM OneGoalIsTimed == PreviewSpec => []BusyIsTimed
<1>1. ASSUME PreviewInv, NEW g \in sent \cup accepted, NEW h \in sent \cup accepted,
             IsCurrent(g.generation, g.segment), IsCurrent(h.generation, h.segment)
      PROVE  g = h
  <2>1. /\ g.generation = h.generation /\ g.segment = h.segment
        /\ g.request = h.request /\ g.from = h.from
    BY <1>1 DEF IsCurrent, PreviewInv, LatestGoal
  <2>2. g \in PlanGoals /\ h \in PlanGoals
    BY <1>1 DEF PreviewInv, PreviewTypes
  <2> QED BY <2>1, <2>2 DEF PlanGoals
<1>2. PreviewInv => BusyIsTimed
  BY <1>1 DEF PreviewInv, PlannedSoFar, BusyIsTimed
<1> QED BY <1>2, PreviewInvariant, PTL
=============================================================================
