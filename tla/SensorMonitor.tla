--------------------------- MODULE SensorMonitor ---------------------------
(***************************************************************************)
(* The sensor monitor: it watches the streams that are enabled and         *)
(* required, and tells the safety controller whether all of them are       *)
(* healthy.  Time is counted in units; the age of a stream is the time     *)
(* since its last message, and ages beyond MaxAge are not told apart.      *)
(***************************************************************************)
EXTENDS Naturals

CONSTANTS
    Streams,    \* the enabled and required streams
    StaleAfter, \* max_stale_sec
    MaxAge      \* where the count of ages ends

ASSUME MonitorAssumption == StaleAfter \in Nat /\ MaxAge \in Nat

VARIABLES
    streamAge,  \* now - last_receive_; MaxAge before the first message
    monotonic   \* the streams whose time stamps never went back

monitorVars == <<streamAge, monotonic>>

MonitorTypeOK ==
    /\ streamAge \in [Streams -> 0..MaxAge]
    /\ monotonic \subseteq Streams

MonitorInit ==
    /\ streamAge = [s \in Streams |-> MaxAge]
    /\ monotonic = Streams

Older(age, limit) == IF age < limit THEN age + 1 ELSE age

(* A rolled-back time stamp is fatal for ever (rollback_fatal).            *)
Observe(s, rolledBack) ==
    /\ streamAge' = [streamAge EXCEPT ![s] = 0]
    /\ monotonic' = IF rolledBack THEN monotonic \ {s} ELSE monotonic

(* What publish_diagnostics may say of the required streams: the rates and *)
(* the age of the stamps are the sensors' and may spoil a fresh stream.    *)
Summaries ==
    IF \A s \in Streams : streamAge[s] <= StaleAfter /\ s \in monotonic
    THEN BOOLEAN
    ELSE {FALSE}

MonitorAges == streamAge' = [s \in Streams |-> Older(streamAge[s], MaxAge)]
=============================================================================
