------------------------- MODULE MCLocalizationLoop -------------------------
(* A small instance of LocalizationLoop for TLC.                           *)
EXTENDS LocalizationLoop
=============================================================================
