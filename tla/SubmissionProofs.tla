----------------------------- MODULE SubmissionProofs --------------------------
(***************************************************************************)
(* Submission for any number of workers, transactions, reorganizations,    *)
(* lost answers and rival submitters.  The properties are not inductive:   *)
(* a completed transfer is settled because the worker that completes it    *)
(* was told so of the reference it holds, that reference is still the one  *)
(* saved, and what is final stays.  InOrder says this of every worker that *)
(* has a reference in hand.                                                *)
(***************************************************************************)
EXTENDS Submission, FiniteSetTheorems, FunctionTheorems, TLAPS

InOrder(c) ==
  /\ c.op = "record" => c.ref \in broadcast
  /\ c.op \in {"confirm", "complete"} => c.ref = row.ref /\ row.state # "approved"
  /\ c.op = "complete" => executed = c.ref /\ final

CallsInOrder == \A w \in Workers : InOrder(call[w])

IInv == TypeOK /\ CallsInOrder /\ ReferenceWasBroadcast /\ CompletedIsSettled

-------------------------------------------------------------------------------
LEMMA InitIInv == Init => IInv
<1> SUFFICES ASSUME Init PROVE IInv
  OBVIOUS
<1>1. TypeOK
  <2>1. /\ row \in {[state |-> "approved", ref |-> Null]}
        /\ call \in [Workers -> Calls]
    BY DEF Init, Calls, Idle
  <2>2. reorgs \in 0..MaxReorgs
    BY SubmissionAssumption DEF Init
  <2>3. executed \in broadcast \cup {Null} /\ final \in BOOLEAN /\ (final => executed # Null)
    BY DEF Init
  <2>4. broadcast \subseteq Refs /\ lost \subseteq broadcast /\ foreign \subseteq broadcast
    BY DEF Init
  <2> QED BY <2>1, <2>2, <2>3, <2>4 DEF TypeOK
<1>2. CallsInOrder
  BY DEF Init, CallsInOrder, InOrder, Idle
<1>3. ReferenceWasBroadcast /\ CompletedIsSettled
  BY DEF Init, ReferenceWasBroadcast, CompletedIsSettled
<1> QED
  BY <1>1, <1>2, <1>3 DEF IInv

-------------------------------------------------------------------------------
(* Steps after which every call is still in order, by what they change.      *)

(* A worker moves on, and nothing else changes.                              *)
LEMMA WorkerStep ==
  ASSUME IInv, NEW w \in Workers, NEW c \in Calls, InOrder(c),
         call' = [call EXCEPT ![w] = c], UNCHANGED <<row, destVars>>
  PROVE  IInv'
<1>1. TypeOK'
  BY DEF IInv, TypeOK, destVars
<1>2. CallsInOrder'
  BY DEF IInv, TypeOK, CallsInOrder, InOrder, destVars
<1>3. ReferenceWasBroadcast' /\ CompletedIsSettled'
  BY DEF IInv, ReferenceWasBroadcast, CompletedIsSettled, destVars
<1> QED
  BY <1>1, <1>2, <1>3 DEF IInv

(* A transaction is broadcast, and a worker may move on knowing it.          *)
LEMMA BroadcastStep ==
  ASSUME IInv, NEW r \in Refs, broadcast' = broadcast \cup {r},
         lost' \in {lost, lost \cup {r}}, foreign' \in {foreign, foreign \cup {r}},
         UNCHANGED <<row, executed, final, reorgs>>,
         call' \in [Workers -> Calls],
         \A w \in Workers : call'[w] \in {call[w], Idle, [op |-> "record", ref |-> r]}
  PROVE  IInv'
<1>1. TypeOK'
  BY DEF IInv, TypeOK
<1>2. CallsInOrder'
  <2> SUFFICES ASSUME NEW w \in Workers PROVE InOrder(call[w])'
    BY DEF CallsInOrder
  <2>1. CASE call'[w] = call[w]
    BY <2>1 DEF IInv, CallsInOrder, InOrder
  <2>2. CASE call'[w] \in {Idle, [op |-> "record", ref |-> r]}
    BY <2>2 DEF InOrder, Idle
  <2> QED BY <2>1, <2>2
<1>3. ReferenceWasBroadcast' /\ CompletedIsSettled'
  BY DEF IInv, ReferenceWasBroadcast, CompletedIsSettled
<1> QED
  BY <1>1, <1>2, <1>3 DEF IInv

(* The destination moves; an execution that is final is not undone.          *)
LEMMA DestinationStep ==
  ASSUME IInv, executed' \in broadcast \cup {Null}, final' \in BOOLEAN, final' => executed' # Null,
         final => final' /\ executed' = executed, reorgs' \in 0..MaxReorgs,
         UNCHANGED <<row, call, broadcast, lost, foreign>>
  PROVE  IInv'
<1>1. TypeOK'
  BY DEF IInv, TypeOK
<1>2. CallsInOrder'
  BY DEF IInv, TypeOK, CallsInOrder, InOrder
<1>3. ReferenceWasBroadcast' /\ CompletedIsSettled'
  BY DEF IInv, ReferenceWasBroadcast, CompletedIsSettled
<1> QED
  BY <1>1, <1>2, <1>3 DEF IInv

-------------------------------------------------------------------------------
(* One lemma per action.                                                     *)

LEMMA IdleInOrder == Idle \in Calls /\ InOrder(Idle)
BY DEF Calls, InOrder, Idle

LEMMA StartStep == ASSUME IInv, NEW w \in Workers, Start(w) PROVE IInv'
<1>1. CASE row.state = "approved"
  <2> DEFINE c == [op |-> "status", ref |-> Null]
  <2>1. c \in Calls /\ InOrder(c)
    BY DEF Calls, InOrder
  <2> QED BY <1>1, <2>1, WorkerStep DEF Start, Goto
<1>2. CASE row.state # "approved"
  <2> DEFINE c == [op |-> "confirm", ref |-> row.ref]
  <2>1. row.ref \in Refs
    BY <1>2 DEF IInv, TypeOK
  <2>2. c \in Calls /\ InOrder(c)
    BY <1>2, <2>1 DEF Calls, InOrder
  <2> QED BY <1>2, <2>2, WorkerStep DEF Start, Goto
<1> QED
  BY <1>1, <1>2

LEMMA QueryStatusStep == ASSUME IInv, NEW w \in Workers, QueryStatus(w) PROVE IInv'
<1>1. PICK s \in Statuses :
        /\ IF Adoptable(s) THEN Goto(w, "record", s.ref)
           ELSE IF Permitted(s) THEN Goto(w, "submit", Null)
           ELSE Return(w)
        /\ UNCHANGED <<row, destVars>>
  BY DEF QueryStatus
<1>2. CASE Adoptable(s)
  <2> DEFINE c == [op |-> "record", ref |-> s.ref]
  <2>1. s.ref = executed /\ executed # Null
    BY <1>2 DEF Adoptable, Statuses
  <2>2. s.ref \in broadcast /\ s.ref \in Refs
    BY <2>1 DEF IInv, TypeOK
  <2>3. c \in Calls /\ InOrder(c)
    BY <2>2 DEF Calls, InOrder
  <2> QED BY <1>1, <1>2, <2>3, WorkerStep DEF Goto
<1>3. CASE ~Adoptable(s) /\ Permitted(s)
  <2> DEFINE c == [op |-> "submit", ref |-> Null]
  <2>1. c \in Calls /\ InOrder(c)
    BY DEF Calls, InOrder
  <2> QED BY <1>1, <1>3, <2>1, WorkerStep DEF Goto
<1>4. CASE ~Adoptable(s) /\ ~Permitted(s)
  BY <1>1, <1>4, IdleInOrder, WorkerStep DEF Return
<1> QED
  BY <1>2, <1>3, <1>4

LEMMA BroadcastsStep ==
  ASSUME IInv, NEW w \in Workers, Broadcast(w) \/ LoseAnswer(w) PROVE IInv'
<1>1. CASE Broadcast(w)
  <2>1. PICK r \in Refs \ broadcast : broadcast' = broadcast \cup {r} /\ Goto(w, "record", r)
    BY <1>1 DEF Broadcast
  <2>2. [op |-> "record", ref |-> r] \in Calls
    BY DEF Calls
  <2>3. /\ call' \in [Workers -> Calls]
        /\ \A u \in Workers : call'[u] \in {call[u], [op |-> "record", ref |-> r]}
    BY <2>1, <2>2 DEF Goto, IInv, TypeOK
  <2> QED BY <1>1, <2>1, <2>3, BroadcastStep DEF Broadcast
<1>2. CASE LoseAnswer(w)
  <2>1. PICK r \in Refs \ broadcast : broadcast' = broadcast \cup {r} /\ lost' = lost \cup {r}
    BY <1>2 DEF LoseAnswer
  <2>2. call' \in [Workers -> Calls] /\ \A u \in Workers : call'[u] \in {call[u], Idle}
    BY <1>2, IdleInOrder DEF LoseAnswer, Return, IInv, TypeOK
  <2> QED BY <1>2, <2>1, <2>2, BroadcastStep DEF LoseAnswer
<1> QED
  BY <1>1, <1>2

LEMMA RecordReferenceStep == ASSUME IInv, NEW w \in Workers, RecordReference(w) PROVE IInv'
<1> DEFINE r == call[w].ref
           c == [op |-> "confirm", ref |-> r]
<1>1. r \in Refs /\ r \in broadcast
  BY DEF RecordReference, IInv, TypeOK, Calls, Idle, CallsInOrder, InOrder
<1>2. CASE row.state = "approved"
  <2>1. row' = [state |-> "submitted", ref |-> r] /\ call' = [call EXCEPT ![w] = c]
    BY <1>2 DEF RecordReference, Goto
  <2>2. c \in Calls
    BY <1>1 DEF Calls
  <2>3. TypeOK'
    BY <1>1, <2>1, <2>2 DEF RecordReference, IInv, TypeOK, destVars
  <2>4. CallsInOrder'
    <3> SUFFICES ASSUME NEW u \in Workers PROVE InOrder(call[u])'
      BY DEF CallsInOrder
    <3>1. CASE u = w
      BY <2>1, <3>1 DEF InOrder, IInv, TypeOK
    <3>2. CASE u # w
      BY <1>2, <2>1, <3>2 DEF InOrder, IInv, CallsInOrder, TypeOK, RecordReference, destVars
    <3> QED BY <3>1, <3>2
  <2>5. ReferenceWasBroadcast' /\ CompletedIsSettled'
    BY <1>1, <2>1 DEF ReferenceWasBroadcast, CompletedIsSettled, RecordReference, destVars
  <2> QED BY <2>3, <2>4, <2>5 DEF IInv
<1>3. CASE row.state # "approved"
  BY <1>3, IdleInOrder, WorkerStep DEF RecordReference, Return
<1> QED
  BY <1>2, <1>3

LEMMA ConfirmStep == ASSUME IInv, NEW w \in Workers, Confirm(w) PROVE IInv'
<1> DEFINE r == call[w].ref
           d == [op |-> "complete", ref |-> r]
<1>1. PICK c \in Confirmations(r) :
        IF c.finalized /\ c.canonical THEN Goto(w, "complete", r) ELSE Return(w)
  BY DEF Confirm
<1>2. CASE c.finalized /\ c.canonical
  <2>1. final /\ executed = r
    BY <1>2 DEF Confirmations
  <2>2. r \in Refs /\ r = row.ref /\ row.state # "approved"
    BY DEF Confirm, IInv, TypeOK, Calls, Idle, CallsInOrder, InOrder
  <2>3. d \in Calls /\ InOrder(d)
    BY <2>1, <2>2 DEF Calls, InOrder
  <2> QED BY <1>1, <1>2, <2>3, WorkerStep DEF Confirm, Goto
<1>3. CASE ~(c.finalized /\ c.canonical)
  BY <1>1, <1>3, IdleInOrder, WorkerStep DEF Confirm, Return
<1> QED
  BY <1>2, <1>3

LEMMA CompleteStep == ASSUME IInv, NEW w \in Workers, Complete(w) PROVE IInv'
<1>1. /\ row.state \in {"submitted", "completed"} /\ row.ref \in Refs
      /\ executed = row.ref /\ final
  BY DEF Complete, IInv, TypeOK, CallsInOrder, InOrder
<1>2. row' = [state |-> "completed", ref |-> row.ref]
  BY <1>1 DEF Complete, IInv, TypeOK
<1>3. TypeOK'
  BY <1>1, <1>2, IdleInOrder DEF Complete, Return, IInv, TypeOK, destVars
<1>4. CallsInOrder'
  <2> SUFFICES ASSUME NEW u \in Workers PROVE InOrder(call[u])'
    BY DEF CallsInOrder
  <2>1. call'[u] \in {call[u], Idle}
    BY DEF Complete, Return, IInv, TypeOK
  <2>2. CASE call'[u] = call[u]
    BY <1>1, <1>2, <2>2 DEF InOrder, IInv, CallsInOrder, Complete, destVars
  <2>3. CASE call'[u] = Idle
    BY <2>3 DEF InOrder, Idle
  <2> QED BY <2>1, <2>2, <2>3
<1>5. ReferenceWasBroadcast' /\ CompletedIsSettled'
  BY <1>1, <1>2 DEF IInv, ReferenceWasBroadcast, CompletedIsSettled, Complete, destVars
<1> QED
  BY <1>3, <1>4, <1>5 DEF IInv

LEMMA FailStep == ASSUME IInv, NEW w \in Workers, Fail(w) PROVE IInv'
<1>1. CASE call[w].op = "record"
  <2>1. call[w].ref \in broadcast
    BY <1>1 DEF IInv, CallsInOrder, InOrder
  <2>2. call' = [call EXCEPT ![w] = Idle] /\ lost' = lost \cup {call[w].ref}
    BY <1>1 DEF Fail, Return
  <2>3. TypeOK'
    BY <2>1, <2>2, IdleInOrder DEF Fail, IInv, TypeOK
  <2>4. CallsInOrder'
    BY <2>2 DEF Fail, IInv, TypeOK, CallsInOrder, InOrder, Idle
  <2>5. ReferenceWasBroadcast' /\ CompletedIsSettled'
    BY DEF Fail, IInv, ReferenceWasBroadcast, CompletedIsSettled
  <2> QED BY <2>3, <2>4, <2>5 DEF IInv
<1>2. CASE call[w].op # "record"
  BY <1>2, IdleInOrder, WorkerStep DEF Fail, Return, destVars
<1> QED
  BY <1>1, <1>2

LEMMA EnvironmentStep ==
  ASSUME IInv, Destination \/ Reorg \/ \E r \in Refs : ForeignBroadcast(r) PROVE IInv'
<1>1. ASSUME NEW r \in Refs, Execute(r) PROVE IInv'
  BY <1>1, SubmissionAssumption, DestinationStep DEF Execute, IInv, TypeOK
<1>2. CASE Finalize
  BY <1>2, DestinationStep DEF Finalize, IInv, TypeOK
<1>3. CASE Reorg
  <2>1. reorgs' \in 0..MaxReorgs
    BY <1>3, SubmissionAssumption DEF Reorg, IInv, TypeOK
  <2> QED BY <1>3, <2>1, DestinationStep DEF Reorg, IInv, TypeOK
<1>4. ASSUME NEW r \in Refs, ForeignBroadcast(r) PROVE IInv'
  <2>1. call' \in [Workers -> Calls] /\ \A w \in Workers : call'[w] = call[w]
    BY <1>4 DEF ForeignBroadcast, IInv, TypeOK
  <2> QED BY <1>4, <2>1, BroadcastStep DEF ForeignBroadcast
<1> QED
  BY <1>1, <1>2, <1>3, <1>4 DEF Destination

LEMMA NextIInv == IInv /\ [Next]_vars => IInv'
<1> SUFFICES ASSUME IInv, [Next]_vars PROVE IInv'
  OBVIOUS
<1>1. ASSUME NEW w \in Workers, Step(w) PROVE IInv'
  BY <1>1, StartStep, QueryStatusStep, BroadcastsStep, RecordReferenceStep, ConfirmStep, CompleteStep
     DEF Step
<1>2. ASSUME NEW w \in Workers, LoseAnswer(w) \/ Fail(w) PROVE IInv'
  BY <1>2, BroadcastsStep, FailStep
<1>3. CASE UNCHANGED vars
  BY <1>3 DEF vars, destVars, IInv, TypeOK, CallsInOrder, InOrder, ReferenceWasBroadcast, CompletedIsSettled
<1> QED
  BY <1>1, <1>2, <1>3, EnvironmentStep DEF Next

-------------------------------------------------------------------------------
(* The inductive invariant of submitApprovedTransfer.                        *)
THEOREM SubmissionInvariant == Spec => []IInv
BY InitIInv, NextIInv, PTL DEF Spec

(* Types, for every instance.                                                *)
THEOREM SubmissionTypeOK == Spec => []TypeOK
BY SubmissionInvariant, PTL DEF IInv

(* A transfer is completed only by the transaction it names, executed and    *)
(* final, however many calls race and the destination reorganizes.           *)
THEOREM SubmissionCompletedIsSettled == Spec => []CompletedIsSettled
BY SubmissionInvariant, PTL DEF IInv

(* Every reference a transfer is saved with was broadcast.                   *)
THEOREM SubmissionReferenceWasBroadcast == Spec => []ReferenceWasBroadcast
BY SubmissionInvariant, PTL DEF IInv

(* No call ever confirms, or completes with, a reference other than the one  *)
(* that was saved first.                                                     *)
THEOREM SubmissionConfirmsSavedReference == Spec => []ConfirmsSavedReference
<1>1. IInv => ConfirmsSavedReference
  BY DEF IInv, CallsInOrder, InOrder, ConfirmsSavedReference
<1> QED
  BY <1>1, SubmissionInvariant, PTL

-------------------------------------------------------------------------------
(***************************************************************************)
(* How many transactions a caller may add.  As long as nothing is saved, a *)
(* broadcast whose answer was not lost is held by the call that made it.   *)
(* Once something is, no call asks for the status again: only those that   *)
(* asked before may still broadcast, and once each.                        *)
(***************************************************************************)
Own     == broadcast \ (lost \cup foreign)
Holders == {w \in Workers : call[w].op = "record"}
Fresh   == {w \in Workers : call[w].op \in {"status", "submit"}}

BudgetOK ==
  /\ IsFiniteSet(Own)
  /\ row.state = "approved" => \A r \in Own : \E w \in Holders : call[w].ref = r
  /\ row.state # "approved" => Cardinality(Own) + Cardinality(Fresh) <= Cardinality(Workers)

LEMMA CallersFinite ==
  /\ IsFiniteSet(Workers) /\ IsFiniteSet(Holders) /\ IsFiniteSet(Fresh)
  /\ Cardinality(Workers) \in Nat /\ Cardinality(Holders) \in Nat /\ Cardinality(Fresh) \in Nat
<1>1. IsFiniteSet(Workers)
  BY SubmissionAssumption DEF SubmissionAssumption
<1>2. IsFiniteSet(Holders) /\ IsFiniteSet(Fresh)
  BY <1>1, FS_Subset DEF Holders, Fresh
<1> QED BY <1>1, <1>2, FS_CardinalityType

(* While nothing is saved there are no more of them than calls that hold one. *)
LEMMA HeldByCalls ==
  ASSUME BudgetOK, row.state = "approved"
  PROVE  Cardinality(Own) \in Nat /\ Cardinality(Own) <= Cardinality(Holders)
<1> DEFINE refs == [w \in Holders |-> call[w].ref]
<1>1. refs \in Surjection(Holders, Range(refs))
  <2>1. refs \in [Holders -> {call[w].ref : w \in Holders}]
    OBVIOUS
  <2> HIDE DEF refs
  <2> QED BY <2>1, Fun_RangeProperties
<1>2. IsFiniteSet(Range(refs)) /\ Cardinality(Range(refs)) <= Cardinality(Holders)
  <2> HIDE DEF refs
  <2> QED BY <1>1, CallersFinite, FS_Surjection
<1>3. Own \subseteq Range(refs)
  <2> SUFFICES ASSUME NEW r \in Own PROVE r \in Range(refs)
    OBVIOUS
  <2>1. PICK w \in Holders : call[w].ref = r
    BY DEF BudgetOK
  <2>2. w \in DOMAIN refs /\ refs[w] = r
    BY <2>1
  <2> QED BY <2>2 DEF Range
<1>4. Cardinality(Own) <= Cardinality(Range(refs)) /\ IsFiniteSet(Own)
  <2> HIDE DEF refs
  <2> QED BY <1>2, <1>3, FS_Subset
<1>5. Cardinality(Own) \in Nat /\ Cardinality(Range(refs)) \in Nat
  <2> HIDE DEF refs
  <2> QED BY <1>2, <1>4, FS_CardinalityType
<1> HIDE DEF refs
<1> QED BY <1>2, <1>4, <1>5, CallersFinite

(* A step that broadcasts nothing of a caller's own, and puts no call before *)
(* its broadcast once a reference is saved.                                  *)
LEMMA NothingOwnStep ==
  ASSUME BudgetOK, Own' \subseteq Own,
         row'.state = "approved" =>
           /\ row.state = "approved"
           /\ \A w \in Holders : call[w].ref \in Own' => call'[w] = call[w],
         row'.state # "approved" => row.state # "approved" /\ Fresh' \subseteq Fresh
  PROVE  BudgetOK'
<1>1. IsFiniteSet(Own') /\ Cardinality(Own') <= Cardinality(Own)
  BY FS_Subset DEF BudgetOK
<1>2. CASE row'.state = "approved"
  <2>1. ASSUME NEW r \in Own'
        PROVE  \E w \in Holders' : call'[w].ref = r
    <3>1. PICK w \in Holders : call[w].ref = r
      BY <1>2, <2>1 DEF BudgetOK
    <3>2. call'[w] = call[w]
      BY <1>2, <2>1, <3>1
    <3> QED BY <3>1, <3>2 DEF Holders
  <2> QED BY <1>1, <1>2, <2>1 DEF BudgetOK
<1>3. CASE row'.state # "approved"
  <2>1. Cardinality(Fresh') <= Cardinality(Fresh) /\ IsFiniteSet(Fresh')
    BY <1>3, CallersFinite, FS_Subset
  <2>2. Cardinality(Own) \in Nat /\ Cardinality(Own') \in Nat /\ Cardinality(Fresh') \in Nat
    BY <1>1, <2>1, FS_CardinalityType DEF BudgetOK
  <2>3. Cardinality(Own) + Cardinality(Fresh) <= Cardinality(Workers)
    BY <1>3 DEF BudgetOK
  <2>4. Cardinality(Own') + Cardinality(Fresh') <= Cardinality(Workers)
    BY <1>1, <2>1, <2>2, <2>3, CallersFinite
  <2> QED BY <1>1, <1>3, <2>4 DEF BudgetOK
<1> QED BY <1>2, <1>3

(* What a call does to the calls that hold a reference or may broadcast.     *)
LEMMA OneCall ==
  ASSUME IInv, NEW w \in Workers, NEW c, call' = [call EXCEPT ![w] = c]
  PROVE  /\ \A u \in Workers : u # w => call'[u] = call[u]
         /\ call'[w] = c
         /\ c.op \notin {"status", "submit"} => Fresh' = Fresh \ {w}
         /\ w \in Fresh => Fresh' \subseteq Fresh
<1>1. (\A u \in Workers : u # w => call'[u] = call[u]) /\ call'[w] = c
  BY DEF IInv, TypeOK
<1> QED BY <1>1 DEF Fresh

LEMMA BroadcastBudget ==
  ASSUME IInv, BudgetOK, NEW w \in Workers, Broadcast(w)
  PROVE  BudgetOK'
<1>1. PICK r \in Refs \ broadcast : broadcast' = broadcast \cup {r} /\ Goto(w, "record", r)
  BY DEF Broadcast
<1>2. call[w].op = "submit" /\ UNCHANGED <<row, lost, foreign>>
  BY DEF Broadcast
<1> DEFINE c == [op |-> "record", ref |-> r]
<1>3. Own' = Own \cup {r} /\ r \notin Own
  BY <1>1, <1>2 DEF Own, IInv, TypeOK
<1>4. IsFiniteSet(Own') /\ Cardinality(Own') = Cardinality(Own) + 1
  BY <1>3, FS_AddElement DEF BudgetOK
<1>5. /\ \A u \in Workers : u # w => call'[u] = call[u]
      /\ call'[w] = c /\ Fresh' = Fresh \ {w}
  <2>1. call' = [call EXCEPT ![w] = c] /\ c.op \notin {"status", "submit"}
    BY <1>1 DEF Goto
  <2> HIDE DEF c
  <2> QED BY <2>1, OneCall
<1>6. CASE row.state = "approved"
  <2>1. ASSUME NEW x \in Own'
        PROVE  \E u \in Holders' : call'[u].ref = x
    <3>1. CASE x = r
      BY <1>5, <3>1 DEF Holders
    <3>2. CASE x \in Own
      <4>1. PICK u \in Holders : call[u].ref = x
        BY <1>6, <3>2 DEF BudgetOK
      <4>2. u # w
        BY <1>2, <4>1 DEF Holders
      <4> QED BY <1>5, <4>1, <4>2 DEF Holders
    <3> QED BY <1>3, <3>1, <3>2
  <2> QED BY <1>2, <1>4, <1>6, <2>1 DEF BudgetOK
<1>7. CASE row.state # "approved"
  <2>1. w \in Fresh
    BY <1>2 DEF Fresh
  <2>2. Cardinality(Fresh') = Cardinality(Fresh) - 1
    BY <1>5, <2>1, CallersFinite, FS_RemoveElement
  <2>3. Cardinality(Own) \in Nat
    BY FS_CardinalityType DEF BudgetOK
  <2>4. Cardinality(Own) + Cardinality(Fresh) <= Cardinality(Workers)
    BY <1>7 DEF BudgetOK
  <2>5. Cardinality(Own') + Cardinality(Fresh') <= Cardinality(Workers)
    BY <1>4, <2>2, <2>3, <2>4, CallersFinite
  <2> QED BY <1>2, <1>4, <1>7, <2>5 DEF BudgetOK
<1> QED BY <1>6, <1>7

LEMMA RecordBudget ==
  ASSUME IInv, BudgetOK, NEW w \in Workers, RecordReference(w)
  PROVE  BudgetOK'
<1>1. Own' = Own /\ call[w].op = "record"
  BY DEF RecordReference, Own, destVars
<1>2. CASE row.state = "approved"
  <2>1. row'.state = "submitted" /\ call' = [call EXCEPT ![w] = [op |-> "confirm", ref |-> call[w].ref]]
    BY <1>2 DEF RecordReference, Goto
  <2>2. Fresh' = Fresh
    BY <1>1, <2>1, OneCall DEF Fresh
  <2>3. Cardinality(Own) \in Nat /\ Cardinality(Own) <= Cardinality(Holders)
    BY <1>2, HeldByCalls
  <2>4. Cardinality(Holders) + Cardinality(Fresh) <= Cardinality(Workers)
    <3>1. Holders \cap Fresh = {} /\ Holders \cup Fresh \subseteq Workers
      BY DEF Holders, Fresh
    <3>2. Cardinality(Holders \cap Fresh) = 0
      BY <3>1, FS_EmptySet
    <3>3. Cardinality(Holders \cup Fresh) = Cardinality(Holders) + Cardinality(Fresh)
      <4>1. Cardinality(Holders \cup Fresh) =
              Cardinality(Holders) + Cardinality(Fresh) - Cardinality(Holders \cap Fresh)
        BY CallersFinite, FS_Union
      <4> QED BY <3>2, <4>1, CallersFinite
    <3>4. Cardinality(Holders \cup Fresh) <= Cardinality(Workers)
      BY <3>1, CallersFinite, FS_Subset
    <3> QED BY <3>3, <3>4
  <2>5. Cardinality(Own') + Cardinality(Fresh') <= Cardinality(Workers)
    BY <1>1, <2>2, <2>3, <2>4, CallersFinite
  <2> QED BY <1>1, <2>1, <2>5 DEF BudgetOK
<1>3. CASE row.state # "approved"
  <2>1. row' = row /\ call' = [call EXCEPT ![w] = Idle]
    BY <1>3 DEF RecordReference, Return
  <2>2. Fresh' \subseteq Fresh
    <3>1. Idle.op \notin {"status", "submit"}
      BY DEF Idle
    <3>2. Fresh' = Fresh \ {w}
      BY <2>1, <3>1, OneCall
    <3> QED BY <3>2
  <2> QED BY <1>1, <1>3, <2>1, <2>2, NothingOwnStep
<1> QED BY <1>2, <1>3

(* The other steps of a call: it holds no reference, or loses the one it has. *)
LEMMA OtherCallBudget ==
  ASSUME IInv, BudgetOK, NEW w \in Workers,
         Start(w) \/ QueryStatus(w) \/ LoseAnswer(w) \/ Confirm(w) \/ Complete(w) \/ Fail(w)
  PROVE  BudgetOK'
<1>1. row'.state = "approved" <=> row.state = "approved"
  <2>1. CASE Complete(w)
    <3>1. row'.state = IF row.state = "submitted" THEN "completed" ELSE row.state
      BY <2>1 DEF Complete, IInv, TypeOK
    <3> QED BY <3>1
  <2>2. CASE ~Complete(w)
    BY <2>2 DEF Start, QueryStatus, LoseAnswer, Confirm, Fail
  <2> QED BY <2>1, <2>2
<1>2. Own' \subseteq Own
  BY DEF Start, QueryStatus, LoseAnswer, Confirm, Complete, Fail, Own, destVars
<1>3. PICK c : call' = [call EXCEPT ![w] = c] /\
               (row.state # "approved" /\ c.op \in {"status", "submit"} => w \in Fresh)
  <2> DEFINE Moved(c) == call' = [call EXCEPT ![w] = c] /\
                         (row.state # "approved" /\ c.op \in {"status", "submit"} => w \in Fresh)
  <2>1. CASE Start(w)
    <3>1. CASE row.state = "approved"
      BY <2>1, <3>1 DEF Start, Goto
    <3>2. CASE row.state # "approved"
      <4>1. Moved([op |-> "confirm", ref |-> row.ref])
        BY <2>1, <3>2 DEF Start, Goto
      <4> QED BY <4>1
    <3> QED BY <3>1, <3>2
  <2>2. CASE QueryStatus(w)
    <3>1. w \in Fresh
      BY <2>2 DEF QueryStatus, Fresh
    <3>2. \E c : call' = [call EXCEPT ![w] = c]
      BY <2>2 DEF QueryStatus, Goto, Return
    <3> QED BY <3>1, <3>2
  <2>3. CASE LoseAnswer(w) \/ Complete(w) \/ Fail(w)
    <3>1. Moved(Idle)
      BY <2>3 DEF LoseAnswer, Complete, Fail, Return, Idle
    <3> QED BY <3>1
  <2>4. CASE Confirm(w)
    <3>1. Moved([op |-> "complete", ref |-> call[w].ref]) \/ Moved(Idle)
      BY <2>4 DEF Confirm, Goto, Return, Idle
    <3> QED BY <3>1
  <2> QED BY <2>1, <2>2, <2>3, <2>4
<1>4. row.state # "approved" => Fresh' \subseteq Fresh
  BY <1>3, OneCall
<1>5. \A u \in Holders : call[u].ref \in Own' => call'[u] = call[u]
  <2>1. \A u \in Workers : u # w => call'[u] = call[u]
    BY <1>3, OneCall
  <2>2. CASE Fail(w) /\ call[w].op = "record"
    <3>1. call[w].ref \notin Own'
      BY <2>2 DEF Fail, Own
    <3> QED BY <2>1, <3>1 DEF Holders
  <2>3. CASE ~(Fail(w) /\ call[w].op = "record")
    <3>1. w \notin Holders
      BY <2>3 DEF Start, QueryStatus, LoseAnswer, Confirm, Complete, Holders, Idle
    <3> QED BY <2>1, <3>1 DEF Holders
  <2> QED BY <2>2, <2>3
<1> QED BY <1>1, <1>2, <1>4, <1>5, NothingOwnStep

LEMMA NextBudget == IInv /\ BudgetOK /\ [Next]_vars => BudgetOK'
<1> SUFFICES ASSUME IInv, BudgetOK, [Next]_vars PROVE BudgetOK'
  OBVIOUS
<1>1. ASSUME NEW w \in Workers, Step(w) \/ LoseAnswer(w) \/ Fail(w) PROVE BudgetOK'
  BY <1>1, BroadcastBudget, RecordBudget, OtherCallBudget DEF Step
<1>2. CASE Destination \/ Reorg \/ (\E r \in Refs : ForeignBroadcast(r)) \/ UNCHANGED vars
  <2>1. UNCHANGED <<row, call>>
    BY <1>2 DEF Destination, Execute, Finalize, Reorg, ForeignBroadcast, vars
  <2>2. Own' \subseteq Own
    BY <1>2 DEF Destination, Execute, Finalize, Reorg, ForeignBroadcast, vars, destVars, Own
  <2>3. Fresh' = Fresh
    BY <2>1 DEF Fresh
  <2> QED BY <2>1, <2>2, <2>3, NothingOwnStep
<1> QED
  BY <1>1, <1>2 DEF Next

(* A call's own transaction is its only one unless its answer was lost: as   *)
(* many transactions are broadcast as there are callers, for any number of   *)
(* them, restarted and refused however often.                                *)
THEOREM SubmissionBroadcastsOnce == Spec => []BroadcastsOnce
<1>1. Init => BudgetOK
  <2> SUFFICES ASSUME Init PROVE BudgetOK
    OBVIOUS
  <2>1. Own = {} /\ row.state = "approved"
    BY DEF Init, Own
  <2> QED BY <2>1, FS_EmptySet DEF BudgetOK
<1>2. BudgetOK => BroadcastsOnce
  <2> SUFFICES ASSUME BudgetOK PROVE Cardinality(Own) <= Cardinality(Workers)
    BY DEF BroadcastsOnce, Own
  <2>1. Cardinality(Own) \in Nat
    BY FS_CardinalityType DEF BudgetOK
  <2>2. CASE row.state = "approved"
    <3>1. Cardinality(Holders) <= Cardinality(Workers)
      BY CallersFinite, FS_Subset DEF Holders
    <3> QED BY <2>1, <2>2, <3>1, HeldByCalls, CallersFinite
  <2>3. CASE row.state # "approved"
    BY <2>1, <2>3, CallersFinite DEF BudgetOK
  <2> QED BY <2>2, <2>3
<1>3. Spec => [](IInv /\ BudgetOK)
  BY <1>1, InitIInv, NextIInv, NextBudget, PTL DEF Spec
<1> QED BY <1>2, <1>3, PTL
=============================================================================
