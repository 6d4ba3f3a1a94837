--------------------------- MODULE MCServiceNodes ---------------------------
(* A small instance of each service node for TLC: tasks are alike, and so  *)
(* are experiments and processes.                                          *)
EXTENDS ServiceNodes, TLC
Alike == Permutations(Tasks) \cup Permutations(Experiments) \cup Permutations(Processes)
=============================================================================
