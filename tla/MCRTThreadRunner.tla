--------------------------- MODULE MCRTThreadRunner ---------------------------
(***************************************************************************)
(* RTThreadRunner for TLC.                                                 *)
(***************************************************************************)
EXTENDS RTThreadRunner

CONSTANTS owner, f, g
==============================================================================
