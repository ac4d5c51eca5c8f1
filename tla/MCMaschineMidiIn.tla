---------------------------- MODULE MCMaschineMidiIn ----------------------------
(***************************************************************************)
(* MaschineMidiIn for TLC: all its constants are numbers or sets of them,  *)
(* given by the cfg.                                                       *)
(***************************************************************************)
EXTENDS MaschineMidiIn
==============================================================================
