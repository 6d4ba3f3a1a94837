-------------------------- MODULE MCMissionStorage --------------------------
(* Small instances of MissionStorage for TLC; the inodes are alike.        *)
EXTENDS MissionStorage, TLC
InodesAlike == Permutations(Inodes)
=============================================================================
