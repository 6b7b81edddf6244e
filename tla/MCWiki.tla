-------------------------------- MODULE MCWiki --------------------------------
(* Instances of Wiki for TLC. *)
EXTENDS Wiki, TLC
Symm == Permutations(Shadow) \cup Permutations(Page) \cup Permutations(Distiller)
=============================================================================
