------------------------------- MODULE RelayStore ------------------------------
(***************************************************************************)
(* The relay store (store.js): one SQLite database that several processes  *)
(* may hold open.  Each SQL statement is atomic and durable; a method that *)
(* issues more than one is not, so each such method is modelled statement  *)
(* by statement.  call[w] is the method process w is inside, with what its *)
(* reads returned.  A method that throws leaves its process idle, as does  *)
(* a crash between two statements.                                         *)
(***************************************************************************)
EXTENDS Ledger

CONSTANT Workers       \* processes that hold the database open

ASSUME StoreAssumption ==
  /\ Heights \subseteq Nat
  /\ Null \notin Records \cup Requests \cup Refs \cup Signatures \cup Hashes

VARIABLES call,        \* the method each process is inside
          handedOut    \* requests persistApprovalRequest returned, per transfer

vars == <<ledgerVars, call, handedOut>>

Idle == [op |-> "idle"]

TransitionCalls == [op : {"transition"}, t : Transfers, next : States,
                    ref : Refs \cup {Null}, seenState : States, seenRef : Refs \cup {Null}]
RequestCalls    == [op : {"writeRequest", "checkRequest"}, t : Transfers, request : Requests]
ApprovalCalls   == [op : {"selectApproval", "insertApproval"}, t : Transfers,
                    signer : Signers, sig : Signatures]
CheckpointCalls == [op : {"checkpoint"}, height : Heights, hash : Hashes]
Calls == {Idle} \cup TransitionCalls \cup RequestCalls \cup ApprovalCalls \cup CheckpointCalls

TypeOK ==
  /\ state \in [Transfers -> States \cup {"absent"}]
  /\ record \in [Transfers -> Records \cup {Null}]
  /\ approvalRequest \in [Transfers -> Requests \cup {Null}]
  /\ destinationRef \in [Transfers -> Refs \cup {Null}]
  /\ approvals \in [Transfers -> [Signers -> Signatures \cup {Null}]]
  /\ checkpoint \in [height : Heights \cup {-1}, hash : Hashes \cup {Null}]
  /\ call \in [Workers -> Calls]
  /\ handedOut \in [Transfers -> SUBSET Requests]

Init ==
  /\ LedgerInit
  /\ call = [w \in Workers |-> Idle]
  /\ handedOut = [t \in Transfers |-> {}]

Return(w)   == call' = [call EXCEPT ![w] = Idle]
Goto(w, op) == call' = [call EXCEPT ![w].op = op]

-------------------------------------------------------------------------------
\* observe: a single upsert that never changes the state of an existing row.
Observe(w, t, v) ==
  /\ call[w] = Idle
  /\ state[t] \in {"absent", "observed", "reorged"}
  /\ state' = [state EXCEPT ![t] = IF @ = "absent" THEN "observed" ELSE @]
  /\ record' = [record EXCEPT ![t] = v]
  /\ UNCHANGED <<approvalRequest, destinationRef, approvals, checkpoint, call, handedOut>>

\* Mutant: a destination reference accepted with any next state.
BeginTransitionRefAnywhere(w, t, next, ref) ==
  /\ call[w] = Idle
  /\ Edge(state[t], next)
  /\ ref # Null => destinationRef[t] \in {Null, ref}
  /\ call' = [call EXCEPT ![w] = [op |-> "transition", t |-> t, next |-> next, ref |-> ref,
                                  seenState |-> state[t], seenRef |-> destinationRef[t]]]
  /\ UNCHANGED <<ledgerVars, handedOut>>

\* transition, up to its read: every check is made on the row as it was read.
BeginTransition(w, t, next, ref) ==
  /\ call[w] = Idle
  /\ Edge(state[t], next)
  /\ ref # Null => next = "submitted" /\ destinationRef[t] \in {Null, ref}
  /\ call' = [call EXCEPT ![w] = [op |-> "transition", t |-> t, next |-> next, ref |-> ref,
                                  seenState |-> state[t], seenRef |-> destinationRef[t]]]
  /\ UNCHANGED <<ledgerVars, handedOut>>

\* Mutant: the UPDATE without the state it was checked against.
CommitTransitionNoCas(w) ==
  /\ call[w].op = "transition"
  /\ LET c == call[w] IN
       /\ state' = [state EXCEPT ![c.t] = c.next]
       /\ destinationRef' = [destinationRef EXCEPT ![c.t] = IF c.ref = Null THEN @ ELSE c.ref]
  /\ Return(w)
  /\ UNCHANGED <<record, approvalRequest, approvals, checkpoint, handedOut>>

\* ... and its compare-and-set UPDATE; no row changed means it throws.
CommitTransition(w) ==
  /\ call[w].op = "transition"
  /\ LET c == call[w] IN
       IF state[c.t] = c.seenState /\ destinationRef[c.t] = c.seenRef
       THEN /\ state' = [state EXCEPT ![c.t] = c.next]
            /\ destinationRef' = [destinationRef EXCEPT ![c.t] = IF c.ref = Null THEN @ ELSE c.ref]
       ELSE UNCHANGED <<state, destinationRef>>
  /\ Return(w)
  /\ UNCHANGED <<record, approvalRequest, approvals, checkpoint, handedOut>>

-------------------------------------------------------------------------------
\* persistApprovalRequest, up to its first read; a stored request skips the UPDATE.
BeginPersistRequest(w, t, q) ==
  /\ call[w] = Idle
  /\ state[t] = "finalized"
  /\ approvalRequest[t] \in {Null, q}
  /\ call' = [call EXCEPT ![w] =
       [op |-> IF approvalRequest[t] = Null THEN "writeRequest" ELSE "checkRequest",
        t |-> t, request |-> q]]
  /\ UNCHANGED <<ledgerVars, handedOut>>

\* Mutant: the UPDATE without "approval_request IS NULL".
WriteRequestOverwrites(w) ==
  /\ call[w].op = "writeRequest"
  /\ LET c == call[w] IN
       approvalRequest' = IF state[c.t] = "finalized"
                          THEN [approvalRequest EXCEPT ![c.t] = c.request]
                          ELSE approvalRequest
  /\ Goto(w, "checkRequest")
  /\ UNCHANGED <<state, record, destinationRef, approvals, checkpoint, handedOut>>

\* The guarded UPDATE; whether it changed a row is not looked at.
WriteRequest(w) ==
  /\ call[w].op = "writeRequest"
  /\ LET c == call[w] IN
       approvalRequest' = IF state[c.t] = "finalized" /\ approvalRequest[c.t] = Null
                          THEN [approvalRequest EXCEPT ![c.t] = c.request]
                          ELSE approvalRequest
  /\ Goto(w, "checkRequest")
  /\ UNCHANGED <<state, record, destinationRef, approvals, checkpoint, handedOut>>

\* The second read decides: the caller gets the request only if it is the stored one.
CheckRequest(w) ==
  /\ call[w].op = "checkRequest"
  /\ LET c == call[w] IN
       handedOut' = IF state[c.t] = "finalized" /\ approvalRequest[c.t] = c.request
                    THEN [handedOut EXCEPT ![c.t] = @ \cup {c.request}]
                    ELSE handedOut
  /\ Return(w)
  /\ UNCHANGED ledgerVars

-------------------------------------------------------------------------------
\* recordApproval reads the row, then the signer's approval, then inserts.
BeginRecordApproval(w, t, s, sig) ==
  /\ call[w] = Idle
  /\ state[t] \in {"finalized", "approved"}
  /\ call' = [call EXCEPT ![w] = [op |-> "selectApproval", t |-> t, signer |-> s, sig |-> sig]]
  /\ UNCHANGED <<ledgerVars, handedOut>>

\* An approval already there ends the call, equal (returned) or not (thrown).
SelectApproval(w) ==
  /\ call[w].op = "selectApproval"
  /\ IF approvals[call[w].t][call[w].signer] = Null
     THEN Goto(w, "insertApproval")
     ELSE Return(w)
  /\ UNCHANGED <<ledgerVars, handedOut>>

\* Mutant: INSERT OR REPLACE.
InsertApprovalReplaces(w) ==
  /\ call[w].op = "insertApproval"
  /\ approvals' = [approvals EXCEPT ![call[w].t][call[w].signer] = call[w].sig]
  /\ Return(w)
  /\ UNCHANGED <<rowVars, checkpoint, handedOut>>

\* The INSERT tests nothing but the primary key: not the transfer's state.
InsertApproval(w) ==
  /\ call[w].op = "insertApproval"
  /\ LET c == call[w] IN
       approvals' = IF approvals[c.t][c.signer] = Null
                    THEN [approvals EXCEPT ![c.t][c.signer] = c.sig]
                    ELSE approvals
  /\ Return(w)
  /\ UNCHANGED <<rowVars, checkpoint, handedOut>>

-------------------------------------------------------------------------------
\* advanceCheckpoint, up to its read.
BeginCheckpoint(w, h, hash) ==
  /\ call[w] = Idle
  /\ h >= checkpoint.height
  /\ h = checkpoint.height => hash = checkpoint.hash
  /\ call' = [call EXCEPT ![w] = [op |-> "checkpoint", height |-> h, hash |-> hash]]
  /\ UNCHANGED <<ledgerVars, handedOut>>

\* The guarded upsert; no row changed means it throws.
CommitCheckpoint(w) ==
  /\ call[w].op = "checkpoint"
  /\ LET c == call[w] IN
       checkpoint' = IF \/ c.height > checkpoint.height
                        \/ c.height = checkpoint.height /\ c.hash = checkpoint.hash
                     THEN [height |-> c.height, hash |-> c.hash]
                     ELSE checkpoint
  /\ Return(w)
  /\ UNCHANGED <<rowVars, approvals, handedOut>>

\* The process dies between two statements; what it committed stays.
Crash(w) ==
  /\ call[w] # Idle
  /\ Return(w)
  /\ UNCHANGED <<ledgerVars, handedOut>>

-------------------------------------------------------------------------------
Begin(w) ==
  \/ \E t \in Transfers :
       \/ \E v \in Records : Observe(w, t, v)
       \/ \E next \in States, ref \in Refs \cup {Null} : BeginTransition(w, t, next, ref)
       \/ \E q \in Requests : BeginPersistRequest(w, t, q)
       \/ \E s \in Signers, sig \in Signatures : BeginRecordApproval(w, t, s, sig)
  \/ \E h \in Heights, hash \in Hashes : BeginCheckpoint(w, h, hash)

Next == \E w \in Workers :
  \/ Begin(w)
  \/ CommitTransition(w)
  \/ WriteRequest(w)
  \/ CheckRequest(w)
  \/ SelectApproval(w)
  \/ InsertApproval(w)
  \/ CommitCheckpoint(w)
  \/ Crash(w)

Spec == Init /\ [][Next]_vars

-------------------------------------------------------------------------------
(* One request per transfer: whoever persistApprovalRequest returns to, and  *)
(* however the reads and writes of racing callers interleave, all were given *)
(* the same request, the one the row holds.                                  *)
OneRequestHandedOut == \A t \in Transfers : handedOut[t] \subseteq {approvalRequest[t]} \ {Null}

(* What a row is bound to follows from how far it got: a row has evidence    *)
(* once it exists, a request only after finality was reached, and a          *)
(* destination reference only once submission was recorded (or abandoned     *)
(* after that).                                                              *)
RowsWellFormed == \A t \in Transfers :
  /\ record[t] = Null <=> state[t] = "absent"
  /\ approvalRequest[t] # Null => state[t] \notin {"absent", "observed"}
  /\ destinationRef[t] # Null => state[t] \in {"submitted"} \cup Terminal

(* transition never moves a row off its path: no step skips an edge, revives *)
(* a terminal row, rebinds a destination reference or replaces the evidence  *)
(* or the request of a transfer that is past "observed" and not reorged.     *)
LifecycleStep(t) ==
  /\ state'[t] # state[t] => \/ state[t] = "absent" /\ state'[t] = "observed"
                            \/ Edge(state[t], state'[t])
  /\ destinationRef[t] # Null => destinationRef'[t] = destinationRef[t]
  /\ approvalRequest[t] # Null => approvalRequest'[t] = approvalRequest[t]
  /\ state[t] \notin {"absent", "observed", "reorged"} => record'[t] = record[t]
LifecycleMonotone == [][\A t \in Transfers : LifecycleStep(t)]_vars

(* A signer's recorded approval is never replaced or removed.                *)
ApprovalsImmutable ==
  [][\A t \in Transfers, s \in Signers :
       approvals[t][s] # Null => approvals'[t][s] = approvals[t][s]]_vars

(* The checkpoint never falls, and never changes hash without rising, though *)
(* its read and its write are two statements.                                *)
CheckpointMonotone ==
  [][checkpoint' # checkpoint => checkpoint'.height > checkpoint.height]_vars

(* The database behaves as the atomic ledger its callers reason about.       *)
ImplementsLedger == LedgerSpec

(* "approvals may only be recorded for finalized transfers" (store.js:160):  *)
(* an approval is only ever added while its transfer is finalized or         *)
(* approved.                                                                 *)
ApprovalsOnlyWhileOpen ==
  [][\A t \in Transfers :
       approvals'[t] # approvals[t] => state[t] \in {"finalized", "approved"}]_vars
=============================================================================
