---------------------------- MODULE DocumentIndex ----------------------------
(***************************************************************************)
(* What the ingestion side promises the retrieval side: the index of a     *)
(* document appears as a whole, is withdrawn as a whole, and is never      *)
(* shown again once the document has been removed.                         *)
(***************************************************************************)
CONSTANTS Doc, Chunk
VARIABLES life, view
indexVars == <<life, view>>

Init == /\ life = [d \in Doc |-> "absent"]
        /\ view = [d \in Doc |-> {}]

Create(d) == /\ life[d] = "absent"
             /\ life' = [life EXCEPT ![d] = "live"]
             /\ UNCHANGED view

(* A finished pipeline run shows a generation no document shows yet.        *)
Publish(d, c) == /\ life[d] = "live" /\ view[d] = {}
                 /\ \A e \in Doc : c \notin view[e]
                 /\ view' = [view EXCEPT ![d] = {c}]
                 /\ UNCHANGED life

(* A re-run hides it first.                                                 *)
Withdraw(d) == /\ view[d] # {}
               /\ view' = [view EXCEPT ![d] = {}]
               /\ UNCHANGED life

Remove(d) == /\ life[d] = "live"
             /\ life' = [life EXCEPT ![d] = "removed"]
             /\ view' = [view EXCEPT ![d] = {}]

Next == \E d \in Doc : \/ Create(d) \/ Withdraw(d) \/ Remove(d)
                       \/ \E c \in Chunk : Publish(d, c)

Spec == Init /\ [][Next]_indexVars
=============================================================================
