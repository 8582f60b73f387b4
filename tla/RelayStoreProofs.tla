---------------------------- MODULE RelayStoreProofs ---------------------------
(***************************************************************************)
(* For any number of processes, transfers and values: the store's          *)
(* invariants hold, and its statement-by-statement methods implement the   *)
(* atomic ledger, from which the action properties follow.                 *)
(***************************************************************************)
EXTENDS RelayStore, TLAPS

\* What a method already knows, and may still rely on, between its statements.
CallOK(c) ==
  /\ c.op = "transition" =>
       /\ Edge(c.seenState, c.next)
       /\ c.ref # Null => c.next = "submitted" /\ c.seenRef \in {Null, c.ref}
  /\ c.op \in {"selectApproval", "insertApproval"} => state[c.t] \notin {"absent", "observed"}

CallsOK == \A w \in Workers : CallOK(call[w])

IInv == TypeOK /\ CallsOK /\ RowsWellFormed /\ OneRequestHandedOut

-------------------------------------------------------------------------------
(* The lifecycle's edges, one by one.                                        *)
LEMMA EdgeCases ==
  ASSUME NEW from, NEW to, Edge(from, to)
  PROVE  /\ from \in {"observed", "finalized", "approved", "submitted"}
         /\ to \in States
         /\ \/ to \in Abandoned
            \/ from = "observed" /\ to = "finalized"
            \/ from = "finalized" /\ to = "approved"
            \/ from = "approved" /\ to = "submitted"
            \/ from = "submitted" /\ to = "completed"
<1>1. /\ progress["observed"] = 0 /\ progress["finalized"] = 1 /\ progress["approved"] = 2
      /\ progress["submitted"] = 3 /\ progress["completed"] = 4
  BY DEF progress
<1>2. QED BY <1>1 DEF Edge, Live, States, Terminal, Abandoned

(* A method's record of its own kind is never mistaken for another.          *)
LEMMA CallKinds ==
  ASSUME NEW c \in Calls
  PROVE  /\ c.op = "transition" => c \in TransitionCalls
         /\ c.op \in {"writeRequest", "checkRequest"} => c \in RequestCalls
         /\ c.op \in {"selectApproval", "insertApproval"} => c \in ApprovalCalls
         /\ c.op = "checkpoint" => c \in CheckpointCalls
BY DEF Calls, Idle, TransitionCalls, RequestCalls, ApprovalCalls, CheckpointCalls

LEMMA InitIInv == Init => IInv
BY StoreAssumption DEF Init, LedgerInit, IInv, TypeOK, CallsOK, CallOK, RowsWellFormed,
     OneRequestHandedOut, Calls, Idle, NoCheckpoint

-------------------------------------------------------------------------------
(* One lemma per method.                                                     *)
LEMMA ObserveStep ==
  ASSUME IInv, NEW w \in Workers, NEW t \in Transfers, NEW v \in Records, Observe(w, t, v)
  PROVE  IInv' /\ [LedgerNext]_ledgerVars
<1>1. TypeOK'
  BY DEF Observe, IInv, TypeOK, States, Live
<1>2. CallsOK'
  BY DEF Observe, IInv, CallsOK, CallOK, TypeOK
<1>3. RowsWellFormed' /\ OneRequestHandedOut'
  BY StoreAssumption DEF Observe, IInv, TypeOK, RowsWellFormed, OneRequestHandedOut, Terminal, Abandoned
<1>4. Insert(t, v) \/ Refresh(t, v)
  BY DEF Observe, Insert, Refresh, IInv, TypeOK
<1>5. QED BY <1>1, <1>2, <1>3, <1>4 DEF IInv, LedgerNext

(* A step that only moves a process on, into a call that is in order.        *)
LEMMA QuietStep ==
  ASSUME IInv, NEW w \in Workers, NEW c \in Calls, CallOK(c),
         call' = [call EXCEPT ![w] = c], UNCHANGED <<ledgerVars, handedOut>>
  PROVE  IInv' /\ [LedgerNext]_ledgerVars
<1>1. TypeOK'
  BY DEF IInv, TypeOK, ledgerVars
<1>2. CallsOK'
  BY DEF IInv, CallsOK, CallOK, TypeOK, ledgerVars
<1>3. RowsWellFormed' /\ OneRequestHandedOut'
  BY DEF IInv, RowsWellFormed, OneRequestHandedOut, ledgerVars
<1>4. QED BY <1>1, <1>2, <1>3 DEF IInv

LEMMA BeginTransitionStep ==
  ASSUME IInv, NEW w \in Workers, NEW t \in Transfers, NEW next \in States,
         NEW ref \in Refs \cup {Null}, BeginTransition(w, t, next, ref)
  PROVE  IInv' /\ [LedgerNext]_ledgerVars
<1> DEFINE c == [op |-> "transition", t |-> t, next |-> next, ref |-> ref,
                 seenState |-> state[t], seenRef |-> destinationRef[t]]
<1>1. c \in Calls
  BY DEF BeginTransition, Edge, States, IInv, TypeOK, Calls, TransitionCalls
<1>2. CallOK(c)
  BY DEF BeginTransition, CallOK
<1>3. QED BY <1>1, <1>2, QuietStep DEF BeginTransition

LEMMA CommitTransitionStep ==
  ASSUME IInv, NEW w \in Workers, CommitTransition(w)
  PROVE  IInv' /\ [LedgerNext]_ledgerVars
<1> DEFINE c == call[w]
<1>1. c \in TransitionCalls
  BY CallKinds DEF CommitTransition, IInv, TypeOK
<1>2. /\ Edge(c.seenState, c.next)
      /\ c.ref # Null => c.next = "submitted" /\ c.seenRef \in {Null, c.ref}
  BY DEF CommitTransition, IInv, CallsOK, CallOK
<1>3. \A u \in Workers : call'[u] = IF u = w THEN Idle ELSE call[u]
  BY DEF CommitTransition, Return, IInv, TypeOK
<1>4. CASE state[c.t] = c.seenState /\ destinationRef[c.t] = c.seenRef
  <2>1. /\ state' = [state EXCEPT ![c.t] = c.next]
        /\ destinationRef' = [destinationRef EXCEPT ![c.t] = IF c.ref = Null THEN @ ELSE c.ref]
    BY <1>4 DEF CommitTransition
  <2>2. TypeOK'
    BY <1>1, <2>1 DEF CommitTransition, Return, IInv, TypeOK, TransitionCalls, Calls
  <2>3. c.next \notin {"absent", "observed"} /\ state[c.t] # "absent"
    BY <1>2, <1>4, EdgeCases DEF Abandoned
  <2>4. CallsOK'
    <3>1. \A t : state[t] \notin {"absent", "observed"} /\ t \in Transfers
                  => state'[t] \notin {"absent", "observed"}
      BY <2>1, <2>3 DEF IInv, TypeOK
    <3>2. \A u \in Workers : u # w /\ call[u].op \in {"selectApproval", "insertApproval"} => call[u].t \in Transfers
      BY CallKinds DEF IInv, TypeOK, ApprovalCalls
    <3>3. ASSUME NEW u \in Workers, u # w
          PROVE  CallOK(call[u])'
      <4>1. CallOK(call[u]) /\ call'[u] = call[u]
        BY <1>3, <3>3 DEF IInv, CallsOK
      <4> QED BY <3>1, <3>2, <3>3, <4>1 DEF CallOK
    <3>4. CallOK(call[w])'
      BY <1>3 DEF CallOK, Idle
    <3> QED BY <3>3, <3>4 DEF CallsOK
  <2>5. RowsWellFormed'
    <3>1. destinationRef'[c.t] # Null => c.next \in {"submitted"} \cup Terminal
      <4>1. c.t \in Transfers
        BY <1>1 DEF TransitionCalls
      <4>2. destinationRef[c.t] # Null => state[c.t] \in {"submitted"} \cup Terminal
        BY <4>1 DEF IInv, RowsWellFormed
      <4>3. destinationRef'[c.t] = IF c.ref = Null THEN destinationRef[c.t] ELSE c.ref
        BY <2>1, <4>1 DEF IInv, TypeOK
      <4>4. state[c.t] \in {"submitted"} \cup Terminal => c.next \in {"submitted"} \cup Terminal
        BY <1>2, <1>4, EdgeCases DEF Terminal, Abandoned
      <4> QED BY <1>2, <4>2, <4>3, <4>4
    <3>2. QED BY <1>1, <1>4, <2>1, <2>3, <3>1
                 DEF CommitTransition, IInv, TypeOK, RowsWellFormed, TransitionCalls
  <2>6. OneRequestHandedOut'
    BY DEF CommitTransition, IInv, OneRequestHandedOut
  <2>7. Move(c.t, c.next, c.ref)
    BY <1>2, <1>4, <2>1 DEF Move, CommitTransition
  <2>8. LedgerNext
    BY <1>1, <2>7 DEF LedgerNext, TransitionCalls
  <2>9. QED BY <2>2, <2>4, <2>5, <2>6, <2>8 DEF IInv
<1>5. CASE ~(state[c.t] = c.seenState /\ destinationRef[c.t] = c.seenRef)
  <2>1. UNCHANGED <<ledgerVars, handedOut>>
    BY <1>5 DEF CommitTransition, ledgerVars
  <2>2. TypeOK'
    BY <2>1 DEF CommitTransition, Return, IInv, TypeOK, ledgerVars, Calls
  <2>3. CallsOK' /\ RowsWellFormed' /\ OneRequestHandedOut'
    BY <1>3, <2>1 DEF IInv, CallsOK, CallOK, RowsWellFormed, OneRequestHandedOut, ledgerVars, Idle
  <2>4. QED BY <2>1, <2>2, <2>3 DEF IInv
<1>6. QED BY <1>4, <1>5

LEMMA BeginPersistRequestStep ==
  ASSUME IInv, NEW w \in Workers, NEW t \in Transfers, NEW q \in Requests,
         BeginPersistRequest(w, t, q)
  PROVE  IInv' /\ [LedgerNext]_ledgerVars
<1> DEFINE c == [op |-> IF approvalRequest[t] = Null THEN "writeRequest" ELSE "checkRequest",
                 t |-> t, request |-> q]
<1>1. c \in Calls /\ CallOK(c)
  BY DEF Calls, RequestCalls, CallOK
<1>2. QED BY <1>1, QuietStep DEF BeginPersistRequest

LEMMA WriteRequestStep ==
  ASSUME IInv, NEW w \in Workers, WriteRequest(w)
  PROVE  IInv' /\ [LedgerNext]_ledgerVars
<1> DEFINE c == call[w]
<1>1. c \in RequestCalls
  BY CallKinds DEF WriteRequest, IInv, TypeOK
<1>2. /\ [c EXCEPT !.op = "checkRequest"] \in RequestCalls
      /\ [c EXCEPT !.op = "checkRequest"].op = "checkRequest"
  BY <1>1 DEF RequestCalls
<1>3. call' = [call EXCEPT ![w] = [c EXCEPT !.op = "checkRequest"]]
  BY DEF WriteRequest, Goto
<1>4. CASE state[c.t] = "finalized" /\ approvalRequest[c.t] = Null
  <2>1. /\ approvalRequest' = [approvalRequest EXCEPT ![c.t] = c.request]
        /\ UNCHANGED <<state, record, destinationRef, approvals, checkpoint, handedOut>>
    BY <1>4 DEF WriteRequest
  <2>2. TypeOK'
    BY <1>1, <1>2, <1>3, <2>1 DEF IInv, TypeOK, RequestCalls, Calls
  <2>3. CallsOK'
    BY <1>2, <1>3, <2>1 DEF IInv, CallsOK, CallOK, TypeOK
  <2>4. RowsWellFormed' /\ OneRequestHandedOut'
    BY <1>1, <1>4, <2>1 DEF IInv, TypeOK, RowsWellFormed, OneRequestHandedOut, RequestCalls
  <2>5. BindRequest(c.t, c.request)
    BY <1>4, <2>1 DEF BindRequest
  <2>6. LedgerNext
    BY <1>1, <2>5 DEF LedgerNext, RequestCalls
  <2>7. QED BY <2>2, <2>3, <2>4, <2>6 DEF IInv
<1>5. CASE ~(state[c.t] = "finalized" /\ approvalRequest[c.t] = Null)
  <2>1. UNCHANGED <<ledgerVars, handedOut>>
    BY <1>5 DEF WriteRequest, ledgerVars
  <2>2. /\ [c EXCEPT !.op = "checkRequest"] \in Calls
        /\ CallOK([c EXCEPT !.op = "checkRequest"])
    BY <1>2 DEF CallOK, Calls
  <2>3. QED BY <1>3, <2>1, <2>2, QuietStep
<1>6. QED BY <1>4, <1>5

LEMMA CheckRequestStep ==
  ASSUME IInv, NEW w \in Workers, CheckRequest(w)
  PROVE  IInv' /\ [LedgerNext]_ledgerVars
<1> DEFINE c == call[w]
<1>1. c \in RequestCalls
  BY CallKinds DEF CheckRequest, IInv, TypeOK
<1>2. TypeOK'
  BY <1>1 DEF CheckRequest, Return, IInv, TypeOK, ledgerVars, RequestCalls, Calls
<1>3. CallsOK' /\ RowsWellFormed'
  BY DEF CheckRequest, Return, IInv, CallsOK, CallOK, RowsWellFormed, TypeOK, ledgerVars, Idle
<1>4. OneRequestHandedOut'
  BY <1>1, StoreAssumption
     DEF CheckRequest, IInv, TypeOK, OneRequestHandedOut, ledgerVars, RequestCalls
<1>5. QED BY <1>2, <1>3, <1>4 DEF IInv, CheckRequest

LEMMA BeginRecordApprovalStep ==
  ASSUME IInv, NEW w \in Workers, NEW t \in Transfers, NEW s \in Signers,
         NEW sig \in Signatures, BeginRecordApproval(w, t, s, sig)
  PROVE  IInv' /\ [LedgerNext]_ledgerVars
<1> DEFINE c == [op |-> "selectApproval", t |-> t, signer |-> s, sig |-> sig]
<1>1. c \in Calls /\ CallOK(c)
  BY DEF BeginRecordApproval, Calls, ApprovalCalls, CallOK
<1>2. QED BY <1>1, QuietStep DEF BeginRecordApproval

LEMMA SelectApprovalStep ==
  ASSUME IInv, NEW w \in Workers, SelectApproval(w)
  PROVE  IInv' /\ [LedgerNext]_ledgerVars
<1> DEFINE c == call[w]
<1>1. c \in ApprovalCalls /\ CallOK(c)
  BY CallKinds DEF SelectApproval, IInv, TypeOK, CallsOK
<1>2. CASE approvals[c.t][c.signer] = Null
  <2>1. [c EXCEPT !.op = "insertApproval"] \in Calls /\ CallOK([c EXCEPT !.op = "insertApproval"])
    BY <1>1 DEF SelectApproval, ApprovalCalls, Calls, CallOK
  <2>2. QED BY <1>2, <2>1, QuietStep DEF SelectApproval, Goto
<1>3. CASE approvals[c.t][c.signer] # Null
  <2>1. Idle \in Calls /\ CallOK(Idle)
    BY DEF Idle, Calls, CallOK
  <2>2. QED BY <1>3, <2>1, QuietStep DEF SelectApproval, Return
<1>4. QED BY <1>2, <1>3

LEMMA InsertApprovalStep ==
  ASSUME IInv, NEW w \in Workers, InsertApproval(w)
  PROVE  IInv' /\ [LedgerNext]_ledgerVars
<1> DEFINE c == call[w]
<1>1. c \in ApprovalCalls /\ state[c.t] \notin {"absent", "observed"}
  BY CallKinds DEF InsertApproval, IInv, TypeOK, CallsOK, CallOK
<1>2. TypeOK'
  <2>1. approvals' \in [Transfers -> [Signers -> Signatures \cup {Null}]]
    BY <1>1 DEF InsertApproval, IInv, TypeOK, ApprovalCalls
  <2>2. QED BY <2>1 DEF InsertApproval, Return, IInv, TypeOK, rowVars, Calls
<1>3. CallsOK' /\ RowsWellFormed' /\ OneRequestHandedOut'
  BY DEF InsertApproval, Return, IInv, CallsOK, CallOK, RowsWellFormed, OneRequestHandedOut,
         TypeOK, rowVars, Idle
<1>4. CASE approvals[c.t][c.signer] = Null
  <2>1. Approve(c.t, c.signer, c.sig)
    BY <1>1, <1>4 DEF InsertApproval, Approve
  <2>2. LedgerNext
    BY <1>1, <2>1 DEF LedgerNext, ApprovalCalls
  <2>3. QED BY <1>2, <1>3, <2>2 DEF IInv
<1>5. CASE approvals[c.t][c.signer] # Null
  BY <1>2, <1>3, <1>5 DEF InsertApproval, IInv, ledgerVars, rowVars
<1>6. QED BY <1>4, <1>5

LEMMA BeginCheckpointStep ==
  ASSUME IInv, NEW w \in Workers, NEW h \in Heights, NEW hash \in Hashes,
         BeginCheckpoint(w, h, hash)
  PROVE  IInv' /\ [LedgerNext]_ledgerVars
<1> DEFINE c == [op |-> "checkpoint", height |-> h, hash |-> hash]
<1>1. c \in Calls /\ CallOK(c)
  BY DEF Calls, CheckpointCalls, CallOK
<1>2. QED BY <1>1, QuietStep DEF BeginCheckpoint

LEMMA CommitCheckpointStep ==
  ASSUME IInv, NEW w \in Workers, CommitCheckpoint(w)
  PROVE  IInv' /\ [LedgerNext]_ledgerVars
<1> DEFINE c == call[w]
<1>1. c \in CheckpointCalls
  BY CallKinds DEF CommitCheckpoint, IInv, TypeOK
<1>2. TypeOK'
  BY <1>1 DEF CommitCheckpoint, Return, IInv, TypeOK, rowVars, Calls, CheckpointCalls
<1>3. CallsOK' /\ RowsWellFormed' /\ OneRequestHandedOut'
  BY DEF CommitCheckpoint, Return, IInv, CallsOK, CallOK, RowsWellFormed, OneRequestHandedOut,
         TypeOK, rowVars, Idle
<1>4. CASE c.height > checkpoint.height
  <2>1. Advance(c.height, c.hash)
    BY <1>4 DEF CommitCheckpoint, Advance
  <2>2. LedgerNext
    BY <1>1, <2>1 DEF LedgerNext, CheckpointCalls
  <2>3. QED BY <1>2, <1>3, <2>2 DEF IInv
<1>5. CASE ~(c.height > checkpoint.height)
  <2>1. checkpoint' = checkpoint
    BY <1>5 DEF CommitCheckpoint, IInv, TypeOK
  <2>2. QED BY <1>2, <1>3, <2>1 DEF CommitCheckpoint, IInv, ledgerVars, rowVars
<1>6. QED BY <1>4, <1>5

LEMMA CrashStep ==
  ASSUME IInv, NEW w \in Workers, Crash(w)
  PROVE  IInv' /\ [LedgerNext]_ledgerVars
<1>1. Idle \in Calls /\ CallOK(Idle)
  BY DEF Idle, Calls, CallOK
<1>2. QED BY <1>1, QuietStep DEF Crash, Return

-------------------------------------------------------------------------------
(* Every statement of the store keeps the invariant and is, to a reader of   *)
(* the database, one atomic ledger step or nothing.                          *)
LEMMA StoreStep == IInv /\ [Next]_vars => IInv' /\ [LedgerNext]_ledgerVars
<1> SUFFICES ASSUME IInv, [Next]_vars PROVE IInv' /\ [LedgerNext]_ledgerVars
  OBVIOUS
<1>1. CASE UNCHANGED vars
  BY <1>1 DEF vars, IInv, TypeOK, CallsOK, CallOK, RowsWellFormed, OneRequestHandedOut, ledgerVars
<1>2. ASSUME NEW w \in Workers, Begin(w) PROVE IInv' /\ [LedgerNext]_ledgerVars
  BY <1>2, ObserveStep, BeginTransitionStep, BeginPersistRequestStep, BeginRecordApprovalStep,
     BeginCheckpointStep DEF Begin
<1>3. QED
  BY <1>1, <1>2, CommitTransitionStep, WriteRequestStep, CheckRequestStep, SelectApprovalStep,
     InsertApprovalStep, CommitCheckpointStep, CrashStep DEF Next

(* The invariant on which every theorem below rests.                         *)
THEOREM StoreInvariant == Spec => []IInv
<1>1. QED BY InitIInv, StoreStep, PTL DEF Spec

(* Type correctness of the relay store.                                      *)
THEOREM StoreTypeOK == Spec => []TypeOK
<1>1. IInv => TypeOK
  BY DEF IInv
<1>2. QED BY <1>1, StoreInvariant, PTL

(* persistApprovalRequest hands racing callers one and the same request.     *)
THEOREM StoreOneRequest == Spec => []OneRequestHandedOut
<1>1. IInv => OneRequestHandedOut
  BY DEF IInv
<1>2. QED BY <1>1, StoreInvariant, PTL

(* Evidence, request and destination reference appear in lifecycle order.    *)
THEOREM StoreRowsWellFormed == Spec => []RowsWellFormed
<1>1. IInv => RowsWellFormed
  BY DEF IInv
<1>2. QED BY <1>1, StoreInvariant, PTL

(* The statement-by-statement store implements the atomic ledger.            *)
THEOREM StoreImplementsLedger == Spec => ImplementsLedger
<1>1. Init => LedgerInit
  BY DEF Init
<1>2. QED BY <1>1, StoreInvariant, StoreStep, PTL DEF Spec, ImplementsLedger, LedgerSpec

(* A ledger step never skips an edge, revives a terminal row or rebinds.     *)
LEMMA LedgerLifecycle ==
  ASSUME TypeOK, [LedgerNext]_ledgerVars, NEW t \in Transfers
  PROVE  LifecycleStep(t)
<1>1. CASE UNCHANGED ledgerVars
  BY <1>1 DEF ledgerVars, LifecycleStep
<1>2. ASSUME NEW u \in Transfers, NEW v \in Records, Insert(u, v) \/ Refresh(u, v)
      PROVE  LifecycleStep(t)
  BY <1>2 DEF Insert, Refresh, LifecycleStep, TypeOK
<1>3. ASSUME NEW u \in Transfers, NEW next \in States, NEW ref \in Refs \cup {Null},
             Move(u, next, ref)
      PROVE  LifecycleStep(t)
  BY <1>3 DEF Move, LifecycleStep, TypeOK
<1>4. ASSUME NEW u \in Transfers, NEW q \in Requests, BindRequest(u, q)
      PROVE  LifecycleStep(t)
  BY <1>4 DEF BindRequest, LifecycleStep, TypeOK
<1>5. ASSUME NEW u \in Transfers, NEW s \in Signers, NEW sig \in Signatures, Approve(u, s, sig)
      PROVE  LifecycleStep(t)
  BY <1>5 DEF Approve, rowVars, LifecycleStep
<1>6. ASSUME NEW h \in Heights, NEW hash \in Hashes, Advance(h, hash)
      PROVE  LifecycleStep(t)
  BY <1>6 DEF Advance, rowVars, LifecycleStep
<1>7. QED BY <1>1, <1>2, <1>3, <1>4, <1>5, <1>6 DEF LedgerNext

(* Every transfer keeps to its lifecycle whatever the interleaving.          *)
THEOREM StoreLifecycleMonotone == Spec => LifecycleMonotone
<1>1. IInv /\ [Next]_vars => [\A t \in Transfers : LifecycleStep(t)]_vars
  BY StoreStep, LedgerLifecycle DEF IInv
<1>2. QED BY <1>1, StoreInvariant, PTL DEF Spec, LifecycleMonotone

(* No recorded approval is ever replaced.                                    *)
THEOREM StoreApprovalsImmutable == Spec => ApprovalsImmutable
<1> DEFINE Kept == \A t \in Transfers, s \in Signers :
                     approvals[t][s] # Null => approvals'[t][s] = approvals[t][s]
<1>1. TypeOK /\ [LedgerNext]_ledgerVars => Kept
  BY DEF LedgerNext, Insert, Refresh, Move, BindRequest, Approve, Advance, ledgerVars, TypeOK
<1>2. IInv /\ [Next]_vars => [Kept]_vars
  BY <1>1, StoreStep DEF IInv
<1>3. QED BY <1>2, StoreInvariant, PTL DEF Spec, ApprovalsImmutable

(* The checkpoint only rises.                                                *)
THEOREM StoreCheckpointMonotone == Spec => CheckpointMonotone
<1> DEFINE Rises == checkpoint' # checkpoint => checkpoint'.height > checkpoint.height
<1>1. [LedgerNext]_ledgerVars => Rises
  BY DEF LedgerNext, Insert, Refresh, Move, BindRequest, Approve, Advance, ledgerVars
<1>2. IInv /\ [Next]_vars => [Rises]_vars
  BY <1>1, StoreStep
<1>3. QED BY <1>2, StoreInvariant, PTL DEF Spec, CheckpointMonotone
=============================================================================
