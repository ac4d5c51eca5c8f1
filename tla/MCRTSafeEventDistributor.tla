----------------------- MODULE MCRTSafeEventDistributor -----------------------
(***************************************************************************)
(* RTSafeEventDistributor for TLC.                                         *)
(***************************************************************************)
EXTENDS RTSafeEventDistributor

CONSTANTS high, low, screen

Priorities == [o \in RTObservers |-> IF o = high THEN 10 ELSE 1]
==============================================================================
