------------------------------ MODULE MCContent ------------------------------
(* Instances of Content for TLC. *)
EXTENDS Content
=============================================================================
