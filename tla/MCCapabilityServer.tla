------------------------- MODULE MCCapabilityServer -------------------------
(* A small instance of CapabilityServer for TLC.                           *)
EXTENDS CapabilityServer
MCCallers == {"cancel", "fail"}
MCFirst   == {<<1, 1>>}
MCFaults  == {"tracking", "snapshot"}
=============================================================================
