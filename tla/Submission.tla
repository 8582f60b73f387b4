-------------------------------- MODULE Submission -----------------------------
(***************************************************************************)
(* Submitting an approved transfer: submitApprovedTransfer (submission.js) *)
(* over the relay store and a destination adapter, for one transfer.       *)
(* Several processes may run it at once, and each of its awaits lets time  *)
(* pass: the row it read and the status it was told may be stale when it   *)
(* acts on them.  A store transition is one step here, as Ledger allows.   *)
(* The destination and the adapter are modelled from how the code uses     *)
(* them: replay protection lets one transaction of a transfer execute, an  *)
(* execution can be reorganized away until it is final, and the adapter is *)
(* trusted to report what it sees.                                         *)
(***************************************************************************)
EXTENDS Integers, FiniteSets

CONSTANTS Workers,      \* calls of submitApprovedTransfer
          Refs,         \* destination transactions
          MaxReorgs,    \* bound: destination reorganizations
          MaxLost,      \* bound: broadcasts whose answer is lost
          MaxForeign,   \* bound: broadcasts by other submitters
          Null

ASSUME SubmissionAssumption ==
  /\ IsFiniteSet(Workers)
  /\ {MaxReorgs, MaxLost, MaxForeign} \subseteq Nat
  /\ Null \notin Refs

VARIABLES row,          \* the transfer's row: lifecycle state and destination_ref
          call,         \* what each worker is doing, with the reference it holds
          broadcast,    \* transactions broadcast so far
          lost,         \* those whose broadcaster never got to save the reference
          foreign,      \* those broadcast by other submitters
          executed,     \* the transaction that executed, if one has
          final,        \* whether that execution is final
          reorgs        \* destination reorganizations so far

destVars == <<broadcast, lost, foreign, executed, final, reorgs>>
vars == <<row, call, destVars>>

Idle  == [op |-> "idle", ref |-> Null]
Calls == {Idle} \cup [op : {"status", "submit"}, ref : {Null}]
                \cup [op : {"record", "confirm", "complete"}, ref : Refs]

TypeOK ==
  /\ row \in {[state |-> "approved", ref |-> Null]} \cup [state : {"submitted", "completed"}, ref : Refs]
  /\ call \in [Workers -> Calls]
  /\ broadcast \subseteq Refs
  /\ lost \subseteq broadcast /\ foreign \subseteq broadcast
  /\ executed \in broadcast \cup {Null}
  /\ final \in BOOLEAN /\ (final => executed # Null)
  /\ reorgs \in 0..MaxReorgs

Init ==
  /\ row = [state |-> "approved", ref |-> Null]
  /\ call = [w \in Workers |-> Idle]
  /\ broadcast = {} /\ lost = {} /\ foreign = {}
  /\ executed = Null /\ final = FALSE
  /\ reorgs = 0

Goto(w, op, ref) == call' = [call EXCEPT ![w] = [op |-> op, ref |-> ref]]
Return(w)        == call' = [call EXCEPT ![w] = Idle]

-------------------------------------------------------------------------------
(* The destination, and other submitters of the same approvals.              *)

\* Replay protection: nothing executes once something has.
Execute(r) ==
  /\ r \in broadcast /\ executed = Null
  /\ executed' = r
  /\ UNCHANGED <<row, call, broadcast, lost, foreign, final, reorgs>>

Finalize ==
  /\ executed # Null /\ ~final
  /\ final' = TRUE
  /\ UNCHANGED <<row, call, broadcast, lost, foreign, executed, reorgs>>

Reorg ==
  /\ executed # Null /\ ~final /\ reorgs < MaxReorgs
  /\ executed' = Null /\ reorgs' = reorgs + 1
  /\ UNCHANGED <<row, call, broadcast, lost, foreign, final>>

\* "Any submitter may relay the two approvals" (PROTOCOL.md).
ForeignBroadcast(r) ==
  /\ r \notin broadcast /\ Cardinality(foreign) < MaxForeign
  /\ broadcast' = broadcast \cup {r} /\ foreign' = foreign \cup {r}
  /\ UNCHANGED <<row, call, lost, executed, final, reorgs>>

\* What adapter.status may answer.  It may fail to establish that the record it
\* found is canonical or name its transaction, and it need not permit a broadcast.
Statuses ==
  IF executed # Null
  THEN [processed : {TRUE}, canonical : {TRUE}, ref : {executed, Null}, may : {FALSE}] \cup
       [processed : {TRUE}, canonical : {FALSE}, ref : Refs, may : {FALSE}]
  ELSE [processed : {FALSE}, canonical : {FALSE}, ref : {Null}, may : BOOLEAN]

\* What adapter.confirm may answer of a reference.
Confirmations(r) ==
  IF final THEN [finalized : {TRUE}, canonical : {executed = r}]
           ELSE [finalized : {FALSE}, canonical : BOOLEAN]

-------------------------------------------------------------------------------
(* submitApprovedTransfer                                                    *)

\* Mutant: a submitted transfer is not resumed.
StartApprovedOnly(w) ==
  /\ call[w] = Idle
  /\ row.state = "approved"
  /\ Goto(w, "status", Null)
  /\ UNCHANGED <<row, destVars>>

\* Mutant: every call asks the destination anew, whatever is saved.
StartAnew(w) ==
  /\ call[w] = Idle
  /\ row.state # "completed"
  /\ Goto(w, "status", Null)
  /\ UNCHANGED <<row, destVars>>

\* The row is read once; a completed transfer is returned as it is.
Start(w) ==
  /\ call[w] = Idle
  /\ row.state # "completed"
  /\ IF row.state = "approved" THEN Goto(w, "status", Null) ELSE Goto(w, "confirm", row.ref)
  /\ UNCHANGED <<row, destVars>>

\* A processed record is adopted if canonical and named; a broadcast needs permission.
Adoptable(s) == s.processed /\ s.canonical /\ s.ref # Null
Permitted(s) == ~s.processed /\ s.may

QueryStatus(w) ==
  /\ call[w].op = "status"
  /\ \E s \in Statuses :
       IF Adoptable(s) THEN Goto(w, "record", s.ref)
       ELSE IF Permitted(s) THEN Goto(w, "submit", Null)
       ELSE Return(w)
  /\ UNCHANGED <<row, destVars>>

\* adapter.submit broadcasts and answers the transaction's reference ...
Broadcast(w) ==
  /\ call[w].op = "submit"
  /\ \E r \in Refs \ broadcast : broadcast' = broadcast \cup {r} /\ Goto(w, "record", r)
  /\ UNCHANGED <<row, lost, foreign, executed, final, reorgs>>

\* ... or throws, or its process dies, after the transaction has left.
LoseAnswer(w) ==
  /\ call[w].op = "submit" /\ Cardinality(lost) < MaxLost
  /\ \E r \in Refs \ broadcast : broadcast' = broadcast \cup {r} /\ lost' = lost \cup {r}
  /\ Return(w)
  /\ UNCHANGED <<row, foreign, executed, final, reorgs>>

\* Mutant: a reference that is already saved is overwritten.
RecordReferenceAgain(w) ==
  /\ call[w].op = "record"
  /\ row.state # "completed"
  /\ row' = [state |-> "submitted", ref |-> call[w].ref]
  /\ Goto(w, "confirm", call[w].ref)
  /\ UNCHANGED destVars

\* transition(..., "submitted", { destinationRef }): refused unless still approved.
RecordReference(w) ==
  /\ call[w].op = "record"
  /\ IF row.state = "approved"
     THEN row' = [state |-> "submitted", ref |-> call[w].ref] /\ Goto(w, "confirm", call[w].ref)
     ELSE Return(w) /\ UNCHANGED row
  /\ UNCHANGED destVars

\* Mutant: an inclusion that is not final is good enough.
ConfirmUnfinalized(w) ==
  /\ call[w].op = "confirm"
  /\ \E c \in Confirmations(call[w].ref) :
       IF c.canonical THEN Goto(w, "complete", call[w].ref) ELSE Return(w)
  /\ UNCHANGED <<row, destVars>>

\* Not final: the call returns with the transfer pending.  Not canonical: it throws.
Confirm(w) ==
  /\ call[w].op = "confirm"
  /\ \E c \in Confirmations(call[w].ref) :
       IF c.finalized /\ c.canonical THEN Goto(w, "complete", call[w].ref) ELSE Return(w)
  /\ UNCHANGED <<row, destVars>>

\* transition(..., "completed"): refused unless still submitted.
Complete(w) ==
  /\ call[w].op = "complete"
  /\ row' = IF row.state = "submitted" THEN [row EXCEPT !.state = "completed"] ELSE row
  /\ Return(w)
  /\ UNCHANGED destVars

\* The adapter throws or the process dies; a reference not yet saved is lost.
Fail(w) ==
  /\ call[w] # Idle
  /\ Return(w)
  /\ IF call[w].op = "record"
     THEN Cardinality(lost) < MaxLost /\ lost' = lost \cup {call[w].ref}
     ELSE UNCHANGED lost
  /\ UNCHANGED <<row, broadcast, foreign, executed, final, reorgs>>

Step(w) == Start(w) \/ QueryStatus(w) \/ Broadcast(w) \/ RecordReference(w) \/ Confirm(w) \/ Complete(w)
Destination == (\E r \in Refs : Execute(r)) \/ Finalize

Next ==
  \/ \E w \in Workers : Step(w) \/ LoseAnswer(w) \/ Fail(w)
  \/ Destination \/ Reorg
  \/ \E r \in Refs : ForeignBroadcast(r)

Spec == Init /\ [][Next]_vars

\* One caller at least is repeated for ever, with an adapter that neither refuses
\* nor fails for ever.
Persistent(w) ==
  /\ WF_vars(Start(w)) /\ SF_vars(QueryStatus(w) /\ call'[w] # Idle)
  /\ SF_vars(Broadcast(w)) /\ SF_vars(RecordReference(w))
  /\ SF_vars(Confirm(w)) /\ SF_vars(Complete(w))

\* The destination executes what was broadcast and makes it final.
FairSpec == Spec /\ WF_vars(Destination) /\ \E w \in Workers : Persistent(w)

-------------------------------------------------------------------------------
(* A transfer is completed only by the transaction it names, executed and    *)
(* final: not by a rival one, one that was reorganized away, or an answer    *)
(* about either that was true when it was asked.                             *)
CompletedIsSettled == row.state = "completed" => executed = row.ref /\ final

(* The reference a transfer is saved with was broadcast, by this service or  *)
(* another; what an adapter merely reports without canonical evidence is not *)
(* saved.                                                                    *)
ReferenceWasBroadcast == row.ref # Null => row.ref \in broadcast

(* Racing calls, each with a reference of its own, never replace a saved     *)
(* reference: confirmation is only ever asked of the one saved first.        *)
ConfirmsSavedReference ==
  \A w \in Workers : call[w].op \in {"confirm", "complete"} => call[w].ref = row.ref

(* A caller broadcasts a second time only if it lost the answer of its first *)
(* broadcast, however often it is restarted, refused or reorganized under.   *)
BroadcastsOnce == Cardinality(broadcast \ (lost \cup foreign)) <= Cardinality(Workers)

Rivalled == row.ref # Null /\ executed \notin {Null, row.ref}

(* A transfer completes unless a rival of its saved transaction executes for *)
(* good: lost answers, failures, another caller's broadcast and destination  *)
(* reorganizations only delay it.                                            *)
Completes == <>[]~Rivalled => <>(row.state = "completed")
=============================================================================
