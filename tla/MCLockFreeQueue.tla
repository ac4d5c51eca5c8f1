--------------------------- MODULE MCLockFreeQueue ---------------------------
(***************************************************************************)
(* LockFreeQueue on a ring of a few slots.  The state is finite without a  *)
(* bound: indices are taken modulo Capacity and no history is kept.        *)
(***************************************************************************)
EXTENDS LockFreeQueue
==============================================================================
