---------------------------- MODULE MCBtMission ----------------------------
(* A small instance of BtMission for TLC.                                  *)
EXTENDS BtMission
=============================================================================
