------------------------------ MODULE MCMaschineMK1 ------------------------------
(***************************************************************************)
(* MaschineMK1 for TLC: the sequences of its surfaces, which a cfg cannot  *)
(* write.                                                                  *)
(***************************************************************************)
EXTENDS MaschineMK1

OneDisplay  == <<"display0">>
OneGroup    == <<"group0">>
==============================================================================
