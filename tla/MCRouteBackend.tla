--------------------------- MODULE MCRouteBackend ---------------------------
(* A small instance of RouteBackend for TLC.                               *)
EXTENDS RouteBackend
MCNone     == {}
MCCanceler == {"cancel"}
=============================================================================
