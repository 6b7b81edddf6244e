------------------------------- MODULE MCAgent -------------------------------
(* Instances of Agent for TLC: a built-in tool, the guarded business tool, and a tool that needs
   approval without being guarded, as in the tests of the graph. *)
EXTENDS Agent, TLC
CONSTANTS search, provision, deploy
Tools == {search, provision, deploy}
Specs == search :> BuiltinSpec @@ provision :> ProvisionSpec
         @@ deploy :> [risk |-> "high", approval |-> TRUE, guarded |-> FALSE]
=============================================================================
