---------------------------- MODULE AnswerStream ----------------------------
(***************************************************************************)
(* What a streamed turn promises its client, for /v1/query and /v1/agent   *)
(* alike: metadata first, then the steps, then the text, then exactly one  *)
(* closing frame; done only when the answer is stored, an error only when  *)
(* it is not.  A client that leaves, and a process that stops, cut the     *)
(* stream at any point; a commit already under way may still succeed.      *)
(***************************************************************************)
CONSTANT Turn
VARIABLES frame,   \* the last frame of each turn's stream
          stored   \* whether its ASSISTANT message is committed

Closing == {"done", "error", "suspended", "cut"}
Frame == {"none", "meta", "step", "delta"} \cup Closing
streamVars == <<frame, stored>>

Init ==
    /\ frame = [t \in Turn |-> "none"]
    /\ stored = [t \in Turn |-> FALSE]

Emit(t, before, f) ==
    /\ frame[t] \in before
    /\ frame' = [frame EXCEPT ![t] = f]
    /\ UNCHANGED stored

Meta(t)    == Emit(t, {"none"}, "meta")
Step(t)    == Emit(t, {"meta"}, "step")
Delta(t)   == ~stored[t] /\ Emit(t, {"meta", "step"}, "delta")
Store(t) ==
    /\ frame[t] \in {"meta", "step", "delta", "cut"} /\ ~stored[t]
    /\ stored' = [stored EXCEPT ![t] = TRUE]
    /\ UNCHANGED frame
Done(t)    == stored[t] /\ Emit(t, {"meta", "step", "delta"}, "done")
Fail(t)    == ~stored[t] /\ Emit(t, Frame \ Closing, "error")
Suspend(t) == ~stored[t] /\ Emit(t, {"meta", "step"}, "suspended")
Cut(t)     == Emit(t, Frame \ {"done", "error", "cut"}, "cut")

Next == \E t \in Turn : \/ Meta(t) \/ Step(t) \/ Delta(t) \/ Store(t)
                        \/ Done(t) \/ Fail(t) \/ Suspend(t) \/ Cut(t)
Spec == Init /\ [][Next]_streamVars
=============================================================================
