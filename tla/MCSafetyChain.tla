--------------------------- MODULE MCSafetyChain ---------------------------
(* A small instance of SafetyChain for TLC, and the robot's rates in       *)
(* millimetres per second, which the proofs about TrackMotion start from.  *)
EXTENDS SafetyChain, TrackMotion

TimeoutMC == [i \in Inputs |-> 1]
=============================================================================
