--------------------------------- MODULE Ledger --------------------------------
(***************************************************************************)
(* What the relay store promises its callers: a ledger in which every      *)
(* method takes effect at one instant, whatever other processes hold the   *)
(* same database open.  A transfer walks its path one edge at a time, what *)
(* it is bound to (an approval request, a destination reference, a         *)
(* signer's approval) is bound once, and the scan checkpoint only rises.   *)
(* RelayStore is shown to implement this module.                           *)
(***************************************************************************)
EXTENDS Lifecycle

CONSTANTS Transfers,   \* (source chain, source reference) keys
          Records,     \* observed source evidence: block, transaction, payload
          Requests,    \* encoded approval requests
          Refs,        \* destination transaction references
          Signers,     \* addresses that approve
          Signatures,  \* (digest, signature) pairs
          Heights,     \* source block heights
          Hashes,      \* source block hashes
          Null         \* SQL NULL

VARIABLES state, record, approvalRequest, destinationRef, approvals, checkpoint

rowVars == <<state, record, approvalRequest, destinationRef>>
ledgerVars == <<state, record, approvalRequest, destinationRef, approvals, checkpoint>>

NoCheckpoint == [height |-> -1, hash |-> Null]

LedgerInit ==
  /\ state = [t \in Transfers |-> "absent"]
  /\ record = [t \in Transfers |-> Null]
  /\ approvalRequest = [t \in Transfers |-> Null]
  /\ destinationRef = [t \in Transfers |-> Null]
  /\ approvals = [t \in Transfers |-> [s \in Signers |-> Null]]
  /\ checkpoint = NoCheckpoint

\* A transfer is seen for the first time.
Insert(t, v) ==
  /\ state[t] = "absent"
  /\ state' = [state EXCEPT ![t] = "observed"]
  /\ record' = [record EXCEPT ![t] = v]
  /\ UNCHANGED <<approvalRequest, destinationRef, approvals, checkpoint>>

\* New evidence replaces evidence that nothing has been built on.
Refresh(t, v) ==
  /\ state[t] \in {"observed", "reorged"}
  /\ record' = [record EXCEPT ![t] = v]
  /\ UNCHANGED <<state, approvalRequest, destinationRef, approvals, checkpoint>>

\* One edge of the lifecycle; entering "submitted" may bind the reference.
Move(t, next, ref) ==
  /\ Edge(state[t], next)
  /\ ref # Null => next = "submitted" /\ destinationRef[t] \in {Null, ref}
  /\ state' = [state EXCEPT ![t] = next]
  /\ destinationRef' = [destinationRef EXCEPT ![t] = IF ref = Null THEN @ ELSE ref]
  /\ UNCHANGED <<record, approvalRequest, approvals, checkpoint>>

\* The one request a finalized transfer will ever be approved under.
BindRequest(t, q) ==
  /\ state[t] = "finalized"
  /\ approvalRequest[t] = Null
  /\ approvalRequest' = [approvalRequest EXCEPT ![t] = q]
  /\ UNCHANGED <<state, record, destinationRef, approvals, checkpoint>>

\* A signer's first, and only, approval of a transfer.
Approve(t, s, sig) ==
  /\ state[t] \notin {"absent", "observed"}
  /\ approvals[t][s] = Null
  /\ approvals' = [approvals EXCEPT ![t][s] = sig]
  /\ UNCHANGED <<rowVars, checkpoint>>

\* Everything up to height h has been scanned.
Advance(h, hash) ==
  /\ h > checkpoint.height
  /\ checkpoint' = [height |-> h, hash |-> hash]
  /\ UNCHANGED <<rowVars, approvals>>

LedgerNext ==
  \/ \E t \in Transfers :
       \/ \E v \in Records : Insert(t, v) \/ Refresh(t, v)
       \/ \E next \in States, ref \in Refs \cup {Null} : Move(t, next, ref)
       \/ \E q \in Requests : BindRequest(t, q)
       \/ \E s \in Signers, sig \in Signatures : Approve(t, s, sig)
  \/ \E h \in Heights, hash \in Hashes : Advance(h, hash)

LedgerSpec == LedgerInit /\ [][LedgerNext]_ledgerVars
=============================================================================
