----------------------------- MODULE QueryProof -----------------------------
(***************************************************************************)
(* Proofs about Query for any number of asks, any limit of the semaphore,  *)
(* any evidence threshold, with and without the wiki; the last part proves *)
(* that the stream of every ask honours the contract of AnswerStream.      *)
(***************************************************************************)
EXTENDS Query, FiniteSetTheorems, TLAPS

\* The positions of an ask whose stream holds a permit, and those before its outcome is written.
Serving == {"setup", "understand", "plan", "retrieve", "evidence", "generate", "persist",
            "close", "failing", "ended"}
Unwritten == {"new", "setup", "understand", "plan", "retrieve", "evidence", "generate", "persist",
              "failing", "storing"}

\* What the types lack to be inductive: who holds a permit, and that none is held once the server stops.
Slots ==
    /\ IsFiniteSet(slot)
    /\ \A t \in Ask : t \in slot <=> pc[t] \in Serving
    /\ server # "up" => slot = {}

\* Until its outcome is written an ask has no row, no answer and no error; what is written is complete.
Pending ==
    \A t \in Ask :
        /\ pc[t] \in Unwritten => rows[t] = <<>> /\ ~stored[t] /\ ~trace[t].error
        /\ pc[t] \in {"persist", "storing"} => trace[t].final

Inductive == TypeOK /\ PermitsKept /\ Slots /\ Pending /\ TraceAgrees /\ DistilsGrounded /\ NoTaskAfterDispose

-----------------------------------------------------------------------------
LEMMA QueryInit ==
  ASSUME Init
  PROVE  Inductive
<1> USE QueryAssumption DEF Init, NoTrace, Trace
<1>1. TypeOK
  BY DEF TypeOK, PC, Frames, QueryAssumption
<1>2. PermitsKept /\ Slots
  BY FS_EmptySet DEF PermitsKept, Slots, Serving, QueryAssumption
<1>3. Pending
  BY DEF Pending
<1>4. TraceAgrees /\ DistilsGrounded /\ NoTaskAfterDispose
  BY DEF TraceAgrees, DistilsGrounded, NoTaskAfterDispose
<1> QED
  BY <1>1, <1>2, <1>3, <1>4 DEF Inductive

(* A permit given back: the counter and the holders move together.         *)
LEMMA PermitReturned ==
  ASSUME TypeOK, PermitsKept, Slots, NEW t \in slot, Free(t)
  PROVE  PermitsKept' /\ IsFiniteSet(slot') /\ free' \in 0..Limit
<1>1. IsFiniteSet(slot) /\ Cardinality(slot) \in Nat
  BY FS_CardinalityType DEF Slots
<1>2. IsFiniteSet(slot') /\ Cardinality(slot') = Cardinality(slot) - 1
  BY <1>1, FS_RemoveElement DEF Free
<1>3. Cardinality(slot') \in Nat
  BY <1>2, FS_CardinalityType
<1> QED
  BY <1>1, <1>2, <1>3, QueryAssumption DEF QueryAssumption, PermitsKept, Free, TypeOK

(* A permit taken by an ask that had none.                                 *)
LEMMA PermitTaken ==
  ASSUME TypeOK, PermitsKept, Slots, NEW t \in Ask, Admit(t)
  PROVE  PermitsKept' /\ IsFiniteSet(slot') /\ free' \in 0..Limit
<1>1. t \notin slot
  BY DEF Slots, Admit, At, Serving
<1>2. IsFiniteSet(slot) /\ Cardinality(slot) \in Nat
  BY FS_CardinalityType DEF Slots
<1>3. IsFiniteSet(slot') /\ Cardinality(slot') = Cardinality(slot) + 1
  BY <1>1, <1>2, FS_AddElement DEF Admit
<1> QED
  BY <1>2, <1>3, QueryAssumption DEF QueryAssumption, PermitsKept, Admit, TypeOK
-----------------------------------------------------------------------------
(* The steps of an ask that write nothing: what they have in common.       *)
Moves(t) == \/ Setup(t) \/ Understand(t) \/ Decompose(t) \/ Retrieve(t) \/ CheckEvidence(t)
            \/ Token(t) \/ Generated(t) \/ Broken(t) \/ Close(t)

Advances(t) ==
    /\ pc' = [pc EXCEPT ![t] = pc'[t]] /\ pc'[t] \in Serving
    /\ \/ pc[t] = "close" /\ pc'[t] = "ended"
       \/ /\ pc[t] \in Serving \cap Unwritten /\ pc'[t] \in Unwritten
          /\ pc'[t] = "persist" => trace'[t].final
    /\ trace' = [trace EXCEPT ![t] = trace'[t]]
    /\ trace'[t] \in Trace /\ trace'[t].error = trace[t].error
    /\ frame' \in [Ask -> Frames]

(* What the evidence check may find and the context may take, typed.        *)
LEMMA ChoicesTyped ==
  ASSUME NEW ranked \in BOOLEAN
  PROVE  Verdicts(ranked) \subseteq BOOLEAN /\ Selections(ranked) \subseteq 0..MaxPicked
<1>1. CASE ranked
  <2>1. Verdicts(ranked) = BOOLEAN
    BY <1>1, Zenon DEF Verdicts
  <2>2. Selections(ranked) = 0..MaxPicked
    BY <1>1, Zenon DEF Selections
  <2> QED
    BY <2>1, <2>2
<1>2. CASE ~ranked
  <2>1. Verdicts(ranked) = {FALSE}
    BY <1>2, Zenon DEF Verdicts
  <2>2. Selections(ranked) = {0}
    BY <1>2, Zenon DEF Selections
  <2>3. {FALSE} \subseteq BOOLEAN
    BY Zenon
  <2>4. {0} \subseteq 0..MaxPicked
    BY QueryAssumption DEF QueryAssumption
  <2> QED
    BY <2>1, <2>2, <2>3, <2>4
<1> QED
  BY <1>1, <1>2

LEMMA MovesAdvance ==
  ASSUME TypeOK, NEW t \in Ask, Moves(t)
  PROVE  Advances(t)
<1> DEFINE r == trace[t]
<1>1. r \in Trace /\ pc \in [Ask -> PC] /\ trace \in [Ask -> Trace] /\ frame \in [Ask -> Frames]
  BY DEF TypeOK
<1> USE <1>1 DEF Advances, At, Goto, Send, Quiet, Raise, Serving, Unwritten
<1>2. CASE UNCHANGED <<trace, frame>> /\ (Setup(t) \/ Understand(t) \/ Decompose(t) \/ Retrieve(t) \/ CheckEvidence(t) \/ Broken(t))
  BY <1>2 DEF Setup, Understand, Decompose, Retrieve, CheckEvidence, Broken, Frames, Trace
<1>3. CASE Understand(t)
  BY <1>3 DEF Understand, Frames
<1>4. CASE CheckEvidence(t)
  <2>1. CASE Raise(t)
    BY <1>4, <2>1 DEF CheckEvidence
  <2>2. CASE ~Raise(t)
    <3>0. PICK ranked \in BOOLEAN : \E g \in Verdicts(ranked), n \in Selections(ranked) :
              /\ trace' = [trace EXCEPT ![t].grounded = g, ![t].picked = n]
              /\ Goto(t, "generate") /\ Send(t, "step")
      BY <1>4, <2>2 DEF CheckEvidence
    <3>1. PICK g \in Verdicts(ranked), n \in Selections(ranked) :
              /\ trace' = [trace EXCEPT ![t].grounded = g, ![t].picked = n]
              /\ Goto(t, "generate") /\ Send(t, "step")
      BY <3>0
    <3>2. g \in BOOLEAN /\ n \in 0..MaxPicked
      BY ChoicesTyped
    <3>3. trace'[t] \in Trace /\ trace'[t].error = r.error
      BY <3>1, <3>2 DEF Trace
    <3>4. trace' = [trace EXCEPT ![t] = trace'[t]]
      BY <3>1
    <3> QED
      BY <1>4, <3>1, <3>3, <3>4 DEF CheckEvidence, Frames
  <2> QED
    BY <2>1, <2>2
<1>5. CASE Token(t)
  BY <1>5 DEF Token, Frames
<1>6. CASE Generated(t)
  <2>1. trace'[t] \in Trace /\ trace'[t].error = r.error /\ trace'[t].final
    BY <1>6 DEF Generated, Trace
  <2> QED
    BY <1>6, <2>1 DEF Generated
<1>7. CASE Close(t)
  BY <1>7 DEF Close, Frames
<1> QED
  BY <1>2, <1>3, <1>4, <1>5, <1>6, <1>7 DEF Moves, Setup, Decompose, Retrieve, Broken
-----------------------------------------------------------------------------
(* One lemma per kind of step: it keeps the invariant.                     *)

LEMMA AdvanceKeeps ==
  ASSUME Inductive, NEW t \in Ask, Advances(t), UNCHANGED <<db, tasks, router>>
  PROVE  Inductive'
<1> USE DEF Inductive, Advances, db, router
<1>1. TypeOK'
  <2>1. pc' \in [Ask -> PC]
    BY DEF TypeOK, PC, Serving
  <2>2. trace' \in [Ask -> Trace]
    BY DEF TypeOK
  <2> QED
    BY <2>1, <2>2 DEF TypeOK
<1>2. PermitsKept' /\ NoTaskAfterDispose' /\ TraceAgrees' /\ DistilsGrounded'
  BY DEF PermitsKept, NoTaskAfterDispose, TraceAgrees, DistilsGrounded
<1>3. Slots'
  BY DEF Slots, TypeOK, Serving
<1>4. Pending'
  BY DEF Pending, TypeOK, Unwritten, Serving
<1> QED
  BY <1>1, <1>2, <1>3, <1>4

(* Writing the row of ask t: its outcome was pending.                      *)
LEMMA FirstRow ==
  ASSUME TypeOK, Pending, NEW t \in Ask, pc[t] \in Unwritten, NEW r \in Trace,
         rows' = [rows EXCEPT ![t] = Append(@, r)]
  PROVE  /\ rows' \in [Ask -> Seq(Trace)]
         /\ rows'[t] = <<r>> /\ Len(rows'[t]) = 1 /\ rows'[t][1] = r
         /\ \A u \in Ask \ {t} : rows'[u] = rows[u]
<1>1. rows[t] = <<>> /\ rows \in [Ask -> Seq(Trace)]
  BY DEF Pending, TypeOK
<1>2. Append(rows[t], r) = <<r>> /\ <<r>> \in Seq(Trace)
  BY <1>1
<1> QED
  BY <1>1, <1>2

LEMMA StoredKeeps ==
  ASSUME Inductive, NEW t \in Ask, pc[t] \in {"persist", "storing"}, Stored(t),
         NEW p \in {"close", "gone"}, Goto(t, p), UNCHANGED trace
  PROVE  /\ rows' \in [Ask -> Seq(Trace)] /\ stored' \in [Ask -> BOOLEAN]
         /\ Pending' /\ TraceAgrees'
         /\ \A u \in tasks : u # t /\ stored'[u] /\ rows'[u] = rows[u]
         /\ stored'[t] /\ rows'[t][1] = trace[t]
<1> USE DEF Inductive
<1>1. trace[t] \in Trace /\ stored \in [Ask -> BOOLEAN] /\ pc \in [Ask -> PC] /\ tasks \subseteq Ask
  BY DEF TypeOK
<1>2. /\ rows' \in [Ask -> Seq(Trace)]
      /\ rows'[t] = <<trace[t]>> /\ Len(rows'[t]) = 1 /\ rows'[t][1] = trace[t]
      /\ \A u \in Ask \ {t} : rows'[u] = rows[u]
  BY <1>1, FirstRow DEF Stored, Unwritten
<1>3. ~trace[t].error /\ trace[t].final /\ ~stored[t]
  BY DEF Pending, Unwritten
<1>4. stored'[t] /\ \A u \in Ask \ {t} : stored'[u] = stored[u]
  BY <1>1 DEF Stored
<1>5. Pending'
  BY <1>1, <1>2, <1>4 DEF Pending, Goto, Unwritten
<1>6. TraceAgrees'
  <2>1. ASSUME NEW u \in Ask \ {t}
        PROVE  Len(rows'[u]) <= 1 /\ (stored'[u] => Len(rows'[u]) = 1 /\ ~rows'[u][1].error /\ rows'[u][1].final)
    BY <1>2, <1>4, <2>1 DEF TraceAgrees
  <2>2. Len(rows'[t]) <= 1 /\ Len(rows'[t]) = 1 /\ ~rows'[t][1].error /\ rows'[t][1].final
    BY <1>2, <1>3
  <2> QED
    BY <2>1, <2>2 DEF TraceAgrees
<1>7. \A u \in tasks : u # t /\ stored'[u] /\ rows'[u] = rows[u]
  BY <1>1, <1>2, <1>3, <1>4 DEF DistilsGrounded
<1>8. stored' \in [Ask -> BOOLEAN]
  BY <1>1 DEF Stored
<1> QED
  BY <1>2, <1>4, <1>5, <1>6, <1>7, <1>8

LEMMA PersistKeeps ==
  ASSUME Inductive, NEW t \in Ask, Persist(t), UNCHANGED router
  PROVE  Inductive'
<1> USE DEF Inductive, router
<1>1. pc[t] = "persist" /\ pc \in [Ask -> PC] /\ trace[t] \in Trace /\ UNCHANGED <<trace, frame>>
  BY DEF Persist, At, TypeOK
<1>2. CASE Goto(t, "failing") /\ UNCHANGED <<db, tasks>>
  <2>1. Advances(t) /\ UNCHANGED <<db, tasks, router>>
    BY <1>1, <1>2 DEF Advances, Goto, Serving, Unwritten, TypeOK
  <2> QED
    BY <2>1, AdvanceKeeps
<1>3. CASE Goto(t, "close") /\ Stored(t) /\ tasks' = IF WorthDistilling(t) THEN tasks \cup {t} ELSE tasks
  <2>1. /\ rows' \in [Ask -> Seq(Trace)] /\ stored' \in [Ask -> BOOLEAN]
        /\ Pending' /\ TraceAgrees'
        /\ \A u \in tasks : u # t /\ stored'[u] /\ rows'[u] = rows[u]
        /\ stored'[t] /\ rows'[t][1] = trace[t]
    BY <1>1, <1>3, StoredKeeps
  <2>2. tasks' \subseteq tasks \cup {t} /\ (t \in tasks' /\ t \notin tasks => WorthDistilling(t))
    BY <1>3
  <2>3. TypeOK'
    BY <1>1, <1>3, <2>1, <2>2 DEF TypeOK, Goto, PC
  <2>4. PermitsKept' /\ Slots'
    BY <1>1, <1>3 DEF PermitsKept, Slots, Goto, Serving
  <2>5. WorthDistilling(t) => trace[t].grounded /\ trace[t].picked >= MinEvidence
    BY <1>1, QueryAssumption DEF WorthDistilling, Trace, QueryAssumption
  <2>6. DistilsGrounded'
    BY <2>1, <2>2, <2>5 DEF DistilsGrounded
  <2>7. server # "down"
    BY <1>1 DEF Slots, Serving
  <2>8. NoTaskAfterDispose'
    BY <2>7 DEF NoTaskAfterDispose
  <2> QED
    BY <2>1, <2>3, <2>4, <2>6, <2>8
<1> QED
  BY <1>2, <1>3 DEF Persist

LEMMA FailKeeps ==
  ASSUME Inductive, NEW t \in Ask, Fail(t), UNCHANGED router
  PROVE  Inductive'
<1> USE DEF Inductive, router
<1>1. /\ pc[t] = "failing" /\ pc \in [Ask -> PC] /\ trace[t] \in Trace /\ trace \in [Ask -> Trace]
      /\ frame \in [Ask -> Frames] /\ rows \in [Ask -> Seq(Trace)]
  BY DEF Fail, At, TypeOK
<1>2. PICK r \in Trace : r = [trace[t] EXCEPT !.error = TRUE]
  BY <1>1 DEF Trace
<1>3. trace' = [trace EXCEPT ![t] = r] /\ trace'[t] = r
  BY <1>1, <1>2 DEF Fail
<1>4. rows[t] = <<>> /\ ~stored[t]
  BY <1>1 DEF Pending, Unwritten
<1>5. /\ rows' \in [Ask -> Seq(Trace)] /\ Len(rows'[t]) <= 1
      /\ \A u \in Ask \ {t} : rows'[u] = rows[u]
  <2>1. CASE UNCHANGED rows
    BY <1>1, <1>4, <2>1
  <2>2. CASE rows' = [rows EXCEPT ![t] = Append(@, r)]
    <3>1. pc[t] \in Unwritten
      BY <1>1 DEF Unwritten
    <3>2. /\ rows' \in [Ask -> Seq(Trace)] /\ Len(rows'[t]) = 1
          /\ \A u \in Ask \ {t} : rows'[u] = rows[u]
      BY <2>2, <3>1, FirstRow
    <3> QED
      BY <3>2
  <2> QED
    BY <1>3, <2>1, <2>2 DEF Fail
<1>6. TypeOK'
  <2>1. trace' \in [Ask -> Trace] /\ pc' \in [Ask -> PC] /\ frame' \in [Ask -> Frames]
    BY <1>1, <1>3 DEF Fail, Goto, Send, PC, Frames
  <2> QED
    BY <1>5, <2>1 DEF TypeOK, Fail
<1>7. PermitsKept' /\ Slots' /\ NoTaskAfterDispose'
  BY <1>1 DEF PermitsKept, Slots, NoTaskAfterDispose, Fail, Goto, Serving
<1>8. Pending'
  BY <1>1, <1>3, <1>5 DEF Pending, Fail, Goto, Unwritten
<1>9. TraceAgrees'
  BY <1>4, <1>5 DEF TraceAgrees, Fail
<1>10. DistilsGrounded'
  BY <1>4, <1>5 DEF DistilsGrounded, Fail, TypeOK
<1> QED
  BY <1>6, <1>7, <1>8, <1>9, <1>10

LEMMA AdmitKeeps ==
  ASSUME Inductive, NEW t \in Ask, Admit(t)
  PROVE  Inductive'
<1> USE DEF Inductive, Admit
<1>1. pc[t] = "new" /\ pc \in [Ask -> PC] /\ pc' = [pc EXCEPT ![t] = "setup"]
      /\ UNCHANGED <<server, frame, trace, stored, rows, tasks>>
  BY DEF At, Goto, TypeOK, service, db
<1>2. PermitsKept' /\ IsFiniteSet(slot') /\ free' \in 0..Limit
  BY PermitTaken
<1>3. TypeOK'
  BY <1>1, <1>2 DEF TypeOK, PC
<1>4. Slots'
  BY <1>1, <1>2 DEF Slots, Serving
<1>5. Pending' /\ TraceAgrees' /\ DistilsGrounded' /\ NoTaskAfterDispose'
  BY <1>1 DEF Pending, Unwritten, TraceAgrees, DistilsGrounded, NoTaskAfterDispose
<1> QED
  BY <1>2, <1>3, <1>4, <1>5

LEMMA OverloadKeeps ==
  ASSUME Inductive, NEW t \in Ask, Overload(t)
  PROVE  Inductive'
<1> USE DEF Inductive, Overload
<1>1. /\ pc[t] = "new" /\ pc \in [Ask -> PC] /\ pc' = [pc EXCEPT ![t] = "gone"]
      /\ frame \in [Ask -> Frames] /\ frame' = [frame EXCEPT ![t] = "error"]
      /\ UNCHANGED <<free, slot, server, trace, stored, rows, tasks>>
  BY DEF At, Goto, Send, TypeOK, router, service, db
<1>2. TypeOK'
  BY <1>1 DEF TypeOK, PC, Frames
<1>3. PermitsKept' /\ Slots'
  BY <1>1 DEF PermitsKept, Slots, Serving
<1>4. Pending' /\ TraceAgrees' /\ DistilsGrounded' /\ NoTaskAfterDispose'
  BY <1>1 DEF Pending, Unwritten, TraceAgrees, DistilsGrounded, NoTaskAfterDispose
<1> QED
  BY <1>2, <1>3, <1>4

(* Both ways a stream ends: the ask leaves the serving positions and       *)
(* the permit comes back; a disconnected persist may still write.          *)
LEMMA ReturnKeeps ==
  ASSUME Inductive, NEW t \in slot, Free(t),
         NEW p \in {"gone", "storing", "unwinding"}, Goto(t, p),
         p = "storing" => pc[t] = "persist",
         frame' \in [Ask -> Frames], UNCHANGED <<server, service>>
  PROVE  Inductive'
<1> USE DEF Inductive
<1>1. /\ t \in Ask /\ pc \in [Ask -> PC] /\ pc' = [pc EXCEPT ![t] = p] /\ slot' = slot \ {t}
      /\ UNCHANGED <<server, trace, stored, rows, tasks>>
  BY DEF TypeOK, Goto, Free, service, db
<1>2. PermitsKept' /\ IsFiniteSet(slot') /\ free' \in 0..Limit
  BY PermitReturned
<1>3. TypeOK'
  BY <1>1, <1>2 DEF TypeOK, PC
<1>4. Slots'
  BY <1>1, <1>2 DEF Slots, Serving
<1>5. Pending'
  BY <1>1 DEF Pending, Unwritten
<1>6. TraceAgrees' /\ DistilsGrounded' /\ NoTaskAfterDispose'
  BY <1>1 DEF TraceAgrees, DistilsGrounded, NoTaskAfterDispose
<1> QED
  BY <1>2, <1>3, <1>4, <1>5, <1>6

LEMMA LeaveKeeps ==
  ASSUME Inductive, NEW t \in Ask, Release(t) \/ Disconnect(t)
  PROVE  Inductive'
<1>1. CASE Release(t)
  BY <1>1, ReturnKeeps DEF Release, Inductive, TypeOK
<1>2. CASE Disconnect(t)
  <2> DEFINE p == IF At(t, "persist") THEN "storing" ELSE "unwinding"
  <2>1. p \in {"gone", "storing", "unwinding"} /\ (p = "storing" => pc[t] = "persist")
    BY DEF At
  <2>2. t \in slot /\ Free(t) /\ Goto(t, p) /\ UNCHANGED <<server, service>>
    BY <1>2 DEF Disconnect
  <2>3. frame' \in [Ask -> Frames]
    BY <1>2 DEF Disconnect, Send, Inductive, TypeOK, Frames
  <2> HIDE DEF p
  <2> QED
    BY <2>1, <2>2, <2>3, ReturnKeeps
<1> QED
  BY <1>1, <1>2

LEMMA UnwindKeeps ==
  ASSUME Inductive, NEW t \in Ask, Unwind(t)
  PROVE  Inductive'
<1> USE DEF Inductive
<1>1. /\ pc[t] \in {"storing", "unwinding"} /\ pc \in [Ask -> PC] /\ Goto(t, "gone")
      /\ pc' = [pc EXCEPT ![t] = "gone"]
      /\ UNCHANGED <<free, slot, server, trace, frame, tasks>>
  BY DEF Unwind, At, Goto, TypeOK, router
<1>2. PermitsKept' /\ Slots' /\ NoTaskAfterDispose'
  BY <1>1 DEF PermitsKept, Slots, NoTaskAfterDispose, Serving
<1>3. CASE UNCHANGED <<stored, rows>>
  <2>1. TypeOK'
    BY <1>1, <1>3 DEF TypeOK, PC
  <2>2. Pending' /\ TraceAgrees' /\ DistilsGrounded'
    BY <1>1, <1>3 DEF Pending, Unwritten, TraceAgrees, DistilsGrounded
  <2> QED
    BY <1>2, <2>1, <2>2
<1>4. CASE pc[t] = "storing" /\ Stored(t)
  <2>1. /\ rows' \in [Ask -> Seq(Trace)] /\ stored' \in [Ask -> BOOLEAN]
        /\ Pending' /\ TraceAgrees'
        /\ \A u \in tasks : u # t /\ stored'[u] /\ rows'[u] = rows[u]
    BY <1>1, <1>4, StoredKeeps
  <2>2. TypeOK'
    BY <1>1, <2>1 DEF TypeOK, PC
  <2>3. DistilsGrounded'
    BY <1>1, <2>1 DEF DistilsGrounded
  <2> QED
    BY <1>2, <2>1, <2>2, <2>3
<1> QED
  BY <1>1, <1>3, <1>4 DEF Unwind, At, db

LEMMA ProcessKeeps ==
  ASSUME Inductive, Stop \/ Dispose \/ \E t \in Ask : Distilled(t)
  PROVE  Inductive'
<1> USE DEF Inductive
<1>1. /\ UNCHANGED <<free, slot, pc, trace, frame, stored, rows>>
      /\ tasks' \subseteq tasks
      /\ server' \in {"up", "closing", "down"}
      /\ server' # "up" => slot = {}
      /\ server' = "down" => tasks' = {}
  BY DEF Stop, Dispose, Distilled, router, db, TypeOK, Slots, NoTaskAfterDispose
<1>2. TypeOK'
  BY <1>1 DEF TypeOK
<1>3. PermitsKept' /\ Slots' /\ Pending' /\ TraceAgrees' /\ DistilsGrounded' /\ NoTaskAfterDispose'
  BY <1>1 DEF PermitsKept, Slots, Pending, TraceAgrees, DistilsGrounded, NoTaskAfterDispose
<1> QED
  BY <1>2, <1>3

-----------------------------------------------------------------------------
LEMMA QueryStep ==
  ASSUME Inductive, [Next]_vars
  PROVE  Inductive'
<1>1. CASE UNCHANGED vars
  BY <1>1 DEF vars, Inductive, TypeOK, PermitsKept, Slots, Pending, TraceAgrees, DistilsGrounded, NoTaskAfterDispose
<1>2. ASSUME NEW t \in Ask, ServerStep(t) \/ Disconnect(t)
      PROVE  Inductive'
  <2>1. CASE AskStep(t)
    <3>1. CASE Moves(t) /\ UNCHANGED <<db, tasks, router>>
      <4>1. Advances(t)
        BY <3>1, MovesAdvance DEF Inductive
      <4> QED
        BY <3>1, <4>1, AdvanceKeeps
    <3>2. CASE Persist(t) /\ UNCHANGED router
      BY <3>2, PersistKeeps
    <3>3. CASE Fail(t) /\ UNCHANGED router
      BY <3>3, FailKeeps
    <3> QED
      BY <2>1, <3>1, <3>2, <3>3 DEF AskStep, Moves
  <2> QED
    BY <1>2, <2>1, AdmitKeeps, OverloadKeeps, LeaveKeeps, UnwindKeeps, ProcessKeeps DEF ServerStep
<1>3. CASE Stop \/ Dispose
  BY <1>3, ProcessKeeps
<1> QED
  BY <1>1, <1>2, <1>3 DEF Next

LEMMA QueryInvariant == Spec => []Inductive
<1>1. Init => Inductive
  BY QueryInit
<1>2. Inductive /\ [Next]_vars => Inductive'
  BY QueryStep
<1> QED
  BY <1>1, <1>2, PTL DEF Spec

(* Every variable keeps its type: with as many permits as the semaphore has *)
(* and at most what a trace may hold (query.py, query_service.py).         *)
THEOREM TypeCorrect == Spec => []TypeOK
<1>1. Inductive => TypeOK
  BY DEF Inductive
<1> QED
  BY <1>1, QueryInvariant, PTL

(* Permits are conserved for any limit and any number of streams: none is  *)
(* lost or released twice on overload, failure or disconnect (query.py:104).*)
THEOREM PermitsAlwaysKept == Spec => []PermitsKept
<1>1. Inductive => PermitsKept
  BY DEF Inductive
<1> QED
  BY <1>1, QueryInvariant, PTL

(* An answer and its trace agree, whatever fails and whoever leaves: the   *)
(* error handler never adds a row to a stored answer (query_service.py:186).*)
THEOREM TracesAgree == Spec => []TraceAgrees
<1>1. Inductive => TraceAgrees
  BY DEF Inductive
<1> QED
  BY <1>1, QueryInvariant, PTL

(* Only committed, grounded answers are distilled (query_service.py:628).  *)
THEOREM DistillationsGrounded == Spec => []DistilsGrounded
<1>1. Inductive => DistilsGrounded
  BY DEF Inductive
<1> QED
  BY <1>1, QueryInvariant, PTL

(* No background distillation uses a disposed engine (main.py:189).        *)
THEOREM TasksEndFirst == Spec => []NoTaskAfterDispose
<1>1. Inductive => NoTaskAfterDispose
  BY DEF Inductive
<1> QED
  BY <1>1, QueryInvariant, PTL

-----------------------------------------------------------------------------
(* The stream contract.  Framed ties the last frame of a stream to the     *)
(* position of its ask.                                                    *)
Open == {"none", "meta", "step", "delta"}
FramesAt(p) ==
    CASE p \in {"new", "setup", "understand"} -> {"none"}
      [] p \in {"plan", "retrieve", "evidence"} -> {"meta"}
      [] p \in {"generate", "persist", "close"} -> {"meta", "step", "delta"}
      [] p = "failing" -> Open
      [] p = "ended" -> {"done", "error"}
      [] p \in {"storing", "unwinding"} -> {"cut"}
      [] OTHER -> {"done", "error", "cut"}
Framed == \A t \in Ask : frame[t] \in FramesAt(pc[t])
\* At the two positions of an ask after Persist its answer is stored.
Answered == \A t \in Ask : pc[t] = "close" => stored[t]

LEMMA FramesKnown ==
  /\ \A p \in {"new", "setup", "understand"} : FramesAt(p) = {"none"}
  /\ \A p \in {"plan", "retrieve", "evidence"} : FramesAt(p) = {"meta"}
  /\ \A p \in {"generate", "persist", "close"} : FramesAt(p) = {"meta", "step", "delta"}
  /\ FramesAt("failing") = {"none", "meta", "step", "delta"}
  /\ FramesAt("ended") = {"done", "error"}
  /\ \A p \in {"storing", "unwinding"} : FramesAt(p) = {"cut"}
  /\ FramesAt("gone") = {"done", "error", "cut"}
<1>1. \A p \in {"new", "setup", "understand"} : FramesAt(p) = {"none"}
  BY DEF FramesAt
<1>2. \A p \in {"plan", "retrieve", "evidence"} : FramesAt(p) = {"meta"}
  BY DEF FramesAt
<1>3. \A p \in {"generate", "persist", "close"} : FramesAt(p) = {"meta", "step", "delta"}
  BY DEF FramesAt
<1>4. FramesAt("failing") = {"none", "meta", "step", "delta"}
  BY DEF FramesAt, Open
<1>5. FramesAt("ended") = {"done", "error"}
  BY DEF FramesAt
<1>6. \A p \in {"storing", "unwinding"} : FramesAt(p) = {"cut"}
  BY DEF FramesAt
<1>7. FramesAt("gone") = {"done", "error", "cut"}
  BY DEF FramesAt
<1> QED
  BY <1>1, <1>2, <1>3, <1>4, <1>5, <1>6, <1>7

\* A step of ask t alone that leaves its frame where its position wants it.
LEMMA FramedStep ==
  ASSUME TypeOK, Framed, NEW t \in Ask,
         \A u \in Ask \ {t} : pc'[u] = pc[u] /\ frame'[u] = frame[u],
         frame'[t] \in FramesAt(pc'[t])
  PROVE  Framed'
<1>1. \A u \in Ask : frame'[u] \in FramesAt(pc'[u])
  BY DEF Framed
<1> QED
  BY <1>1 DEF Framed

(* A step of ask t alone to position q with last frame f.                  *)
LEMMA StreamStep ==
  ASSUME TypeOK, Framed, Answered, NEW t \in Ask, NEW q, NEW f,
         pc' = [pc EXCEPT ![t] = q], frame' = [frame EXCEPT ![t] = f], f \in FramesAt(q),
         stored' \in [Ask -> BOOLEAN], \A u \in Ask : stored[u] => stored'[u],
         q = "close" => stored'[t]
  PROVE  Framed' /\ Answered'
<1>1. /\ \A u \in Ask \ {t} : pc'[u] = pc[u] /\ frame'[u] = frame[u]
      /\ pc'[t] = q /\ frame'[t] = f
  BY DEF TypeOK
<1>2. Framed'
  BY <1>1, FramedStep
<1>3. Answered'
  BY <1>1 DEF Answered
<1> QED
  BY <1>2, <1>3

Streamed == Framed /\ Answered
StreamStutter == UNCHANGED <<frame, stored>>
-----------------------------------------------------------------------------
(* One lemma per kind of step: it keeps Streamed and is a contract step.   *)

\* Moves that send nothing.
LEMMA SilentMoves ==
  ASSUME Inductive, Streamed, NEW t \in Ask, NEW q \in PC, pc' = [pc EXCEPT ![t] = q],
         UNCHANGED <<frame, stored>>,
         FramesAt(pc[t]) \subseteq FramesAt(q), q = "close" => stored[t]
  PROVE  Streamed'
<1>1. TypeOK /\ frame \in [Ask -> Frames] /\ stored \in [Ask -> BOOLEAN]
  BY DEF Inductive, TypeOK
<1>2. frame' = [frame EXCEPT ![t] = frame[t]] /\ frame[t] \in FramesAt(q)
  BY <1>1 DEF Streamed, Framed
<1> QED
  BY <1>1, <1>2, StreamStep DEF Streamed

LEMMA RaiseStreamed ==
  ASSUME Inductive, Streamed, NEW t \in Ask, Raise(t), UNCHANGED stored,
         pc[t] \in {"setup", "understand", "plan", "retrieve", "evidence", "generate", "persist"}
  PROVE  Streamed' /\ StreamStutter
<1>1. FramesAt(pc[t]) \subseteq FramesAt("failing")
  BY FramesKnown
<1>2. "failing" \in PC /\ pc' = [pc EXCEPT ![t] = "failing"] /\ UNCHANGED <<frame, stored>>
  BY DEF Raise, Goto, PC
<1>3. "failing" # "close"
  OBVIOUS
<1> QED
  BY <1>1, <1>2, <1>3, SilentMoves DEF StreamStutter

\* Moves that send the frame f on the way to q.
LEMMA SendingMoves ==
  ASSUME Inductive, Streamed, NEW t \in Ask, NEW q \in PC \ {"close"}, NEW f,
         Goto(t, q), Send(t, f), UNCHANGED stored, f \in FramesAt(q)
  PROVE  Streamed'
<1>1. TypeOK /\ stored \in [Ask -> BOOLEAN]
  BY DEF Inductive, TypeOK
<1> QED
  BY <1>1, StreamStep DEF Streamed, Goto, Send
Mapped == [Contract!Next]_Contract!streamVars

LEMMA StutterMapped ==
  ASSUME StreamStutter
  PROVE  Mapped
BY DEF StreamStutter, Mapped, Contract!streamVars

\* A frame sent by t that the contract allows.
LEMMA EmitMapped ==
  ASSUME NEW t \in Ask,
         \/ Contract!Meta(t) \/ Contract!Step(t) \/ Contract!Delta(t) \/ Contract!Store(t)
         \/ Contract!Done(t) \/ Contract!Fail(t) \/ Contract!Cut(t)
  PROVE  Mapped
BY DEF Mapped, Contract!Next

\* Before its outcome is written the answer of t is not stored.
LEMMA NotStored ==
  ASSUME Inductive, NEW t \in Ask, pc[t] \in Unwritten
  PROVE  ~stored[t]
BY DEF Inductive, Pending

LEMMA MovesStreamed ==
  ASSUME Inductive, Streamed, NEW t \in Ask, Moves(t), UNCHANGED stored
  PROVE  Streamed' /\ Mapped
<1>1. frame[t] \in FramesAt(pc[t])
  BY DEF Streamed, Framed
<1>2. CASE Raise(t) /\ pc[t] \in {"setup", "understand", "plan", "retrieve", "evidence", "generate"}
  BY <1>2, RaiseStreamed, StutterMapped
<1>3. CASE Setup(t) /\ ~Raise(t)
  <2>1. pc[t] = "setup" /\ pc' = [pc EXCEPT ![t] = "understand"] /\ UNCHANGED <<frame, stored>>
    BY <1>3 DEF Setup, At, Goto
  <2>2. FramesAt(pc[t]) \subseteq FramesAt("understand")
    BY <2>1, FramesKnown
  <2> QED
    BY <2>1, <2>2, SilentMoves, StutterMapped DEF PC, StreamStutter
<1>4. CASE Understand(t) /\ ~Raise(t)
  <2>1. PICK q \in {"plan", "generate"} : pc[t] = "understand" /\ Goto(t, q) /\ Send(t, "meta")
    BY <1>4 DEF Understand, At
  <2>2. "meta" \in FramesAt(q) /\ frame[t] = "none"
    BY <1>1, <2>1, FramesKnown
  <2>3. Streamed'
    BY <2>1, <2>2, SendingMoves DEF PC
  <2>4. Contract!Meta(t)
    BY <2>1, <2>2 DEF Contract!Meta, Contract!Emit, Send
  <2> QED
    BY <2>3, <2>4, EmitMapped
<1>5. CASE Decompose(t) /\ ~Raise(t)
  <2>1. pc[t] = "plan" /\ pc' = [pc EXCEPT ![t] = "retrieve"] /\ UNCHANGED <<frame, stored>>
    BY <1>5 DEF Decompose, At, Goto
  <2>2. FramesAt(pc[t]) \subseteq FramesAt("retrieve")
    BY <2>1, FramesKnown
  <2> QED
    BY <2>1, <2>2, SilentMoves, StutterMapped DEF PC, StreamStutter
<1>6. CASE Retrieve(t) /\ ~Raise(t)
  <2>1. pc[t] = "retrieve" /\ pc' = [pc EXCEPT ![t] = "evidence"] /\ UNCHANGED <<frame, stored>>
    BY <1>6 DEF Retrieve, At, Goto
  <2>2. FramesAt(pc[t]) \subseteq FramesAt("evidence")
    BY <2>1, FramesKnown
  <2> QED
    BY <2>1, <2>2, SilentMoves, StutterMapped DEF PC, StreamStutter
<1>7. CASE CheckEvidence(t) /\ ~Raise(t)
  <2>1. pc[t] = "evidence" /\ Goto(t, "generate") /\ Send(t, "step")
    BY <1>7 DEF CheckEvidence, At
  <2>2. "step" \in FramesAt("generate") /\ frame[t] = "meta"
    BY <1>1, <2>1, FramesKnown
  <2>3. Streamed'
    BY <2>1, <2>2, SendingMoves DEF PC
  <2>4. Contract!Step(t)
    BY <2>1, <2>2 DEF Contract!Step, Contract!Emit, Send
  <2> QED
    BY <2>3, <2>4, EmitMapped
<1>8. CASE Token(t)
  <2>1. /\ pc[t] = "generate" /\ frame[t] # "delta" /\ Send(t, "delta")
        /\ pc \in [Ask -> PC] /\ UNCHANGED pc
    BY <1>8 DEF Token, At, Inductive, TypeOK
  <2>2. "delta" \in FramesAt("generate") /\ frame[t] \in {"meta", "step"}
    BY <1>1, <2>1, FramesKnown
  <2>3. Goto(t, "generate")
    BY <2>1 DEF Goto
  <2>4. Streamed'
    BY <2>1, <2>2, <2>3, SendingMoves DEF PC
  <2>5. ~stored[t]
    BY <2>1, NotStored DEF Unwritten
  <2>6. Contract!Delta(t)
    BY <2>1, <2>2, <2>5 DEF Contract!Delta, Contract!Emit, Send
  <2> QED
    BY <2>4, <2>6, EmitMapped
<1>9. CASE Generated(t)
  <2>1. pc[t] = "generate" /\ pc' = [pc EXCEPT ![t] = "persist"] /\ UNCHANGED <<frame, stored>>
    BY <1>9 DEF Generated, At, Goto, Quiet
  <2>2. FramesAt(pc[t]) \subseteq FramesAt("persist")
    BY <2>1, FramesKnown
  <2> QED
    BY <2>1, <2>2, SilentMoves, StutterMapped DEF PC, StreamStutter
<1>10. CASE Close(t)
  <2>1. pc[t] = "close" /\ Goto(t, "ended") /\ Send(t, "done")
    BY <1>10 DEF Close, At
  <2>2. /\ "done" \in FramesAt("ended") /\ frame[t] \in {"meta", "step", "delta"}
        /\ stored[t]
    BY <1>1, <2>1, FramesKnown DEF Streamed, Answered
  <2>3. Streamed'
    BY <2>1, <2>2, SendingMoves DEF PC
  <2>4. Contract!Done(t)
    BY <2>1, <2>2 DEF Contract!Done, Contract!Emit, Send
  <2> QED
    BY <2>3, <2>4, EmitMapped
<1> QED
  BY <1>2, <1>3, <1>4, <1>5, <1>6, <1>7, <1>8, <1>9, <1>10
  DEF Moves, Setup, Understand, Decompose, Retrieve, CheckEvidence, Broken, At

LEMMA PersistStreamed ==
  ASSUME Inductive, Streamed, NEW t \in Ask, Persist(t)
  PROVE  Streamed' /\ Mapped
<1>1. /\ pc[t] = "persist" /\ UNCHANGED <<trace, frame>>
      /\ TypeOK /\ stored \in [Ask -> BOOLEAN] /\ frame \in [Ask -> Frames]
      /\ frame[t] \in FramesAt("persist")
  BY DEF Persist, At, Inductive, TypeOK, Streamed, Framed
<1>2. CASE Goto(t, "failing") /\ UNCHANGED db
  BY <1>1, <1>2, RaiseStreamed, StutterMapped DEF Raise, db
<1>3. CASE Goto(t, "close") /\ Stored(t)
  <2>1. /\ frame[t] \in FramesAt("close") /\ frame[t] \in {"meta", "step", "delta"}
    BY <1>1, FramesKnown
  <2>2. /\ stored' = [stored EXCEPT ![t] = TRUE] /\ pc' = [pc EXCEPT ![t] = "close"]
        /\ frame' = [frame EXCEPT ![t] = frame[t]]
    BY <1>1, <1>3 DEF Stored, Goto
  <2>3. /\ stored' \in [Ask -> BOOLEAN] /\ stored'[t]
        /\ \A u \in Ask : stored[u] => stored'[u]
    BY <1>1, <2>2
  <2>4. Streamed'
    BY <1>1, <2>1, <2>2, <2>3, StreamStep DEF Streamed
  <2>5. ~stored[t]
    BY <1>1, NotStored DEF Unwritten
  <2>6. Contract!Store(t)
    BY <1>1, <2>1, <2>2, <2>5 DEF Contract!Store
  <2> QED
    BY <2>4, <2>6, EmitMapped
<1> QED
  BY <1>2, <1>3 DEF Persist

LEMMA ErrorStreamed ==
  ASSUME Inductive, Streamed, NEW t \in Ask, Fail(t) \/ Overload(t)
  PROVE  Streamed' /\ Mapped
<1>1. PICK q \in {"ended", "gone"} :
         /\ pc[t] \in {"failing", "new"} /\ Goto(t, q) /\ Send(t, "error")
         /\ UNCHANGED stored
  BY DEF Fail, Overload, At, service, db
<1>2. "error" \in FramesAt(q)
  BY <1>1, FramesKnown
<1>3. frame[t] \in {"none", "meta", "step", "delta"}
  BY <1>1, FramesKnown DEF Streamed, Framed
<1>4. ~stored[t]
  BY <1>1, NotStored DEF Unwritten
<1>5. Streamed'
  BY <1>1, <1>2, SendingMoves DEF PC
<1>6. Contract!Fail(t)
  BY <1>1, <1>3, <1>4 DEF Contract!Fail, Contract!Emit, Contract!Frame, Contract!Closing, Send
<1> QED
  BY <1>5, <1>6, EmitMapped

LEMMA PermitStreamed ==
  ASSUME Inductive, Streamed, NEW t \in Ask, Admit(t) \/ Release(t)
  PROVE  Streamed' /\ Mapped
<1>1. CASE Admit(t)
  <2>1. pc[t] = "new" /\ pc' = [pc EXCEPT ![t] = "setup"] /\ UNCHANGED <<frame, stored>>
    BY <1>1 DEF Admit, At, Goto, service, db
  <2>2. FramesAt(pc[t]) \subseteq FramesAt("setup")
    BY <2>1, FramesKnown
  <2> QED
    BY <2>1, <2>2, SilentMoves, StutterMapped DEF PC, StreamStutter
<1>2. CASE Release(t)
  <2>1. pc[t] = "ended" /\ pc' = [pc EXCEPT ![t] = "gone"] /\ UNCHANGED <<frame, stored>>
    BY <1>2 DEF Release, At, Goto, service, db
  <2>2. FramesAt(pc[t]) \subseteq FramesAt("gone")
    BY <2>1, FramesKnown
  <2> QED
    BY <2>1, <2>2, SilentMoves, StutterMapped DEF PC, StreamStutter
<1> QED
  BY <1>1, <1>2

LEMMA DisconnectStreamed ==
  ASSUME Inductive, Streamed, NEW t \in Ask, Disconnect(t)
  PROVE  Streamed' /\ Mapped
<1>1. PICK q \in {"storing", "unwinding"} :
         Goto(t, q) /\ Send(t, "cut") /\ UNCHANGED stored
  BY DEF Disconnect, service, db
<1>2. /\ pc[t] \in {"setup", "understand", "plan", "retrieve", "evidence", "generate", "persist",
                     "close", "failing"}
      /\ frame[t] \in FramesAt(pc[t])
  BY DEF Disconnect, Inductive, Slots, Serving, At, Streamed, Framed
<1>3. frame[t] \in {"none", "meta", "step", "delta"}
  BY <1>2, FramesKnown
<1>4. "cut" \in FramesAt(q)
  BY FramesKnown
<1>5. Streamed'
  BY <1>1, <1>4, SendingMoves DEF PC
<1>6. Contract!Cut(t)
  BY <1>1, <1>3 DEF Contract!Cut, Contract!Emit, Contract!Frame, Contract!Closing, Send
<1> QED
  BY <1>5, <1>6, EmitMapped

LEMMA UnwindStreamed ==
  ASSUME Inductive, Streamed, NEW t \in Ask, Unwind(t)
  PROVE  Streamed' /\ Mapped
<1>1. /\ pc[t] \in {"storing", "unwinding"} /\ pc' = [pc EXCEPT ![t] = "gone"] /\ UNCHANGED frame
      /\ TypeOK /\ stored \in [Ask -> BOOLEAN] /\ frame \in [Ask -> Frames]
      /\ frame[t] \in FramesAt(pc[t])
  BY DEF Unwind, At, Goto, Inductive, TypeOK, Streamed, Framed
<1>2. frame[t] = "cut" /\ frame[t] \in FramesAt("gone")
  BY <1>1, FramesKnown
<1>3. frame' = [frame EXCEPT ![t] = frame[t]]
  BY <1>1
<1>4. CASE UNCHANGED db
  <2>1. Streamed'
    BY <1>1, <1>2, <1>3, <1>4, StreamStep DEF Streamed, db
  <2> QED
    BY <1>1, <1>4, <2>1, StutterMapped DEF StreamStutter, db
<1>5. CASE pc[t] = "storing" /\ Stored(t)
  <2>1. stored' = [stored EXCEPT ![t] = TRUE] /\ ~stored[t]
    BY <1>5, NotStored DEF Stored, Unwritten
  <2>2. stored' \in [Ask -> BOOLEAN] /\ \A u \in Ask : stored[u] => stored'[u]
    BY <1>1, <2>1
  <2>3. Streamed'
    BY <1>1, <1>2, <1>3, <2>2, StreamStep DEF Streamed
  <2>4. Contract!Store(t)
    BY <1>1, <1>2, <2>1 DEF Contract!Store
  <2> QED
    BY <2>3, <2>4, EmitMapped
<1> QED
  BY <1>1, <1>4, <1>5 DEF Unwind, At
-----------------------------------------------------------------------------
LEMMA StreamedInit ==
  ASSUME Init
  PROVE  Streamed /\ Contract!Init
<1>1. Streamed
  BY FramesKnown DEF Init, Streamed, Framed, Answered
<1> QED
  BY <1>1 DEF Init, Contract!Init

LEMMA StreamedNext ==
  ASSUME Inductive, Streamed, [Next]_vars
  PROVE  Streamed' /\ Mapped
<1>1. CASE UNCHANGED <<pc, frame, stored>>
  <2>1. Streamed'
    BY <1>1 DEF Streamed, Framed, Answered
  <2> QED
    BY <1>1, <2>1, StutterMapped DEF StreamStutter
<1>2. ASSUME NEW t \in Ask, ServerStep(t) \/ Disconnect(t)
      PROVE  Streamed' /\ Mapped
  <2>1. CASE Moves(t) /\ UNCHANGED <<db, tasks>>
    BY <2>1, MovesStreamed DEF db
  <2>2. CASE Persist(t)
    BY <2>2, PersistStreamed
  <2>3. CASE Fail(t) \/ Overload(t)
    BY <2>3, ErrorStreamed
  <2>4. CASE Admit(t) \/ Release(t)
    BY <2>4, PermitStreamed
  <2>5. CASE Disconnect(t)
    BY <2>5, DisconnectStreamed
  <2>6. CASE Unwind(t)
    BY <2>6, UnwindStreamed
  <2>7. CASE Distilled(t)
    BY <1>1, <2>7 DEF Distilled, db
  <2> QED
    BY <1>2, <2>1, <2>2, <2>3, <2>4, <2>5, <2>6, <2>7 DEF ServerStep, AskStep, Moves
<1> QED
  BY <1>1, <1>2 DEF Next, vars, Stop, Dispose, db

(* For any number of asks and any limit, every stream of /v1/query is one  *)
(* AnswerStream allows: metadata first, done only over a stored answer, an *)
(* error only when nothing is stored, nothing after a closing frame        *)
(* (query_service.py:91).                                                  *)
THEOREM StreamHonoured == Spec => HonoursContract
<1>1. Init => Streamed /\ Contract!Init
  BY StreamedInit
<1>2. Inductive /\ Streamed /\ [Next]_vars => Streamed' /\ [Contract!Next]_Contract!streamVars
  BY StreamedNext DEF Mapped
<1> QED
  BY <1>1, <1>2, QueryInvariant, PTL DEF Spec, HonoursContract, Contract!Spec
=============================================================================
