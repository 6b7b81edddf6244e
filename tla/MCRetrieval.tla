----------------------------- MODULE MCRetrieval -----------------------------
(* Instances of Retrieval for TLC: two children of one parent, and a table of another product whose *)
(* version has the same name. *)
EXTENDS Retrieval
Chunks == 1..3
RowOf == [c \in Chunks |->
    CASE c = 1 -> [doc |-> "d1", product |-> "p1", version |-> "v1", parent |-> 9, tokens |-> 1, whole |-> 3]
      [] c = 2 -> [doc |-> "d1", product |-> "p1", version |-> "v1", parent |-> 9, tokens |-> 2, whole |-> 3]
      [] c = 3 -> [doc |-> "d2", product |-> "p2", version |-> "v1", parent |-> 0, tokens |-> 2, whole |-> 0]]
\* Nothing named, a product and its version, the other product, a version nothing has.
Scopes == {[product |-> None, version |-> None], [product |-> "p1", version |-> "v1"],
           [product |-> "p2", version |-> None], [product |-> None, version |-> "v2"]}
=============================================================================
