---------------------------- MODULE MCControllers -----------------------------
(* Every kind of controller; a screen is empty or shows one picture. *)
EXTENDS Controllers

AllKinds == {"MK2", "Mikro", "Jam", "KK", "F1", "Push", "Push2", "Push2Display"}
TwoPictures == {0, 1}

=============================================================================
