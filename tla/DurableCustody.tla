------------------------------ MODULE DurableCustody ---------------------------
(***************************************************************************)
(* Reserving a signed Cronos release for a transfer, and quarantining one  *)
(* whose broadcast is in doubt: reserveStoredCronosIntent                  *)
(* (durable-submission.js) and quarantineCronosPending                     *)
(* (pending-quarantine.js) over the custody journal (signed-intent.js),    *)
(* the intent journal (broadcast-intent.js) and the relay store: three     *)
(* databases, no transaction spanning them.  Each journal method is one    *)
(* BEGIN IMMEDIATE transaction and so one step here; processes interleave, *)
(* fail and die between steps.                                             *)
(***************************************************************************)
EXTENDS Integers

CONSTANTS Workers,        \* processes reserving or quarantining
          Transfers,
          Txs,            \* fully signed transactions
          TransferOf,     \* [Txs -> Transfers], what a transaction releases
          SlotOf,         \* [Txs -> account and nonce it consumes]
          Null

ASSUME CustodyAssumption ==
  /\ TransferOf \in [Txs -> Transfers]
  /\ DOMAIN SlotOf = Txs
  /\ Null \notin Workers \cup Txs

VARIABLES approved,       \* transfers the store holds approved and unsubmitted
          storeLock,      \* the process inside the store's write transaction
          custody,        \* signed_intents, by transfer
          intents,        \* broadcast_intents, by transfer
          call            \* what each process is doing

vars == <<approved, storeLock, custody, intents, call>>

NoRow  == [tx |-> Null, state |-> "none"]
Rows   == {NoRow} \cup [tx : Txs, state : {"reserved", "uncertain"}]
Idle   == [op |-> "idle", tx |-> Null, uncertain |-> FALSE, doubted |-> FALSE]
ReserveOps == {"reserveCustody", "reserveIntent", "markCustody", "markIntent", "commit"}
Ops    == ReserveOps \cup {"quarantine", "adoptIntent", "quarantineIntent"}
Calls  == {Idle} \cup [op : Ops, tx : Txs, uncertain : BOOLEAN, doubted : BOOLEAN]

TypeOK ==
  /\ approved \subseteq Transfers
  /\ storeLock \in Workers \cup {Null}
  /\ custody \in [Transfers -> Rows]
  /\ intents \in [Transfers -> Rows]
  /\ call \in [Workers -> Calls]
  /\ \A t \in Transfers : \A row \in {custody[t], intents[t]} : row # NoRow => TransferOf[row.tx] = t
  /\ storeLock # Null => call[storeLock].op \in ReserveOps

Init ==
  /\ approved \in SUBSET Transfers
  /\ storeLock = Null
  /\ custody = [t \in Transfers |-> NoRow]
  /\ intents = [t \in Transfers |-> NoRow]
  /\ call = [w \in Workers |-> Idle]

TransferAt(w) == TransferOf[call[w].tx]
Goto(w, op) == call' = [call EXCEPT ![w].op = op]

\* Every way out of a method: its process is free and SQLite drops its lock.
Leave(w) ==
  /\ call' = [call EXCEPT ![w] = Idle]
  /\ storeLock' = IF storeLock = w THEN Null ELSE storeLock

-------------------------------------------------------------------------------
(* The journals' methods, on a table of rows by transfer.                    *)

\* Mutant: the nonce is not looked at.
CanReserveCustodyAnyNonce(x) == custody[TransferOf[x]].tx \in {x, Null}

\* signed-intent.js reserve: an existing row must match in every field; a new one
\* may not reuse an account's nonce.
CanReserveCustody(x) ==
  \/ custody[TransferOf[x]].tx = x
  \/ /\ custody[TransferOf[x]] = NoRow
     /\ \A t \in Transfers : custody[t] # NoRow => SlotOf[custody[t].tx] # SlotOf[x]
CanReserveIntent(x) == intents[TransferOf[x]].tx \in {x, Null}

Reserved(table, x) ==
  IF table[TransferOf[x]] = NoRow
  THEN [table EXCEPT ![TransferOf[x]] = [tx |-> x, state |-> "reserved"]]
  ELSE table
Marked(table, x) == [table EXCEPT ![TransferOf[x]].state = "uncertain"]
Uncertain(table, x) == table[TransferOf[x]].state = "uncertain"

-------------------------------------------------------------------------------
(* reserveStoredCronosIntent                                                 *)

\* Mutant: the store is read without its write lock.
BeginReserveUnlocked(w, x) ==
  /\ call[w] = Idle
  /\ TransferOf[x] \in approved
  /\ call' = [call EXCEPT ![w] = [op |-> "reserveCustody", tx |-> x, uncertain |-> FALSE,
                                  doubted |-> Uncertain(custody, x)]]
  /\ UNCHANGED <<approved, storeLock, custody, intents>>

\* Mutant: the intent is reserved first.
BeginReserveIntentFirst(w, x) ==
  /\ call[w] = Idle
  /\ storeLock = Null
  /\ TransferOf[x] \in approved
  /\ storeLock' = w
  /\ call' = [call EXCEPT ![w] = [op |-> "reserveIntent", tx |-> x, uncertain |-> FALSE,
                                  doubted |-> Uncertain(custody, x)]]
  /\ UNCHANGED <<approved, custody, intents>>

\* BEGIN IMMEDIATE on the store, and every check made under it.  "doubted" notes
\* whether the custody was already in quarantine (read by one property only).
BeginReserve(w, x) ==
  /\ call[w] = Idle
  /\ storeLock = Null
  /\ TransferOf[x] \in approved
  /\ storeLock' = w
  /\ call' = [call EXCEPT ![w] = [op |-> "reserveCustody", tx |-> x, uncertain |-> FALSE,
                                  doubted |-> Uncertain(custody, x)]]
  /\ UNCHANGED <<approved, custody, intents>>

\* Custody is committed first ...
ReserveCustody(w) ==
  /\ call[w].op = "reserveCustody"
  /\ LET x == call[w].tx IN
       IF CanReserveCustody(x)
       THEN /\ custody' = Reserved(custody, x)
            /\ call' = [call EXCEPT ![w].op = "reserveIntent", ![w].uncertain = Uncertain(custody, x)]
            /\ UNCHANGED storeLock
       ELSE Leave(w) /\ UNCHANGED custody
  /\ UNCHANGED <<approved, intents>>

\* Mutant: what custody's reservation said of doubt is dropped.
ReserveIntentForgets(w) ==
  /\ call[w].op = "reserveIntent"
  /\ LET x == call[w].tx
         u == Uncertain(intents, x)
     IN IF CanReserveIntent(x)
        THEN /\ intents' = Reserved(intents, x)
             /\ call' = [call EXCEPT ![w].op = IF u THEN "markCustody" ELSE "commit",
                                     ![w].uncertain = u]
             /\ UNCHANGED storeLock
        ELSE Leave(w) /\ UNCHANGED intents
  /\ UNCHANGED <<approved, custody>>

\* ... the intent second; doubt about either is then written to both.
ReserveIntent(w) ==
  /\ call[w].op = "reserveIntent"
  /\ LET x == call[w].tx
         u == call[w].uncertain \/ Uncertain(intents, x)
     IN IF CanReserveIntent(x)
        THEN /\ intents' = Reserved(intents, x)
             /\ call' = [call EXCEPT ![w].op = IF u THEN "markCustody" ELSE "commit",
                                     ![w].uncertain = u]
             /\ UNCHANGED storeLock
        ELSE Leave(w) /\ UNCHANGED intents
  /\ UNCHANGED <<approved, custody>>

MarkCustody(w) ==
  /\ call[w].op = "markCustody"
  /\ custody' = Marked(custody, call[w].tx)
  /\ Goto(w, "markIntent")
  /\ UNCHANGED <<approved, storeLock, intents>>

MarkIntent(w) ==
  /\ call[w].op = "markIntent"
  /\ intents' = Marked(intents, call[w].tx)
  /\ Goto(w, "commit")
  /\ UNCHANGED <<approved, storeLock, custody>>

\* COMMIT on the store; the caller is told "reserved" or "uncertain".
Commit(w) == call[w].op = "commit" /\ Leave(w) /\ UNCHANGED <<approved, custody, intents>>

-------------------------------------------------------------------------------
(* quarantineCronosPending takes no lock on the store.                       *)

\* Only custody that exists can be quarantined.
BeginQuarantine(w, t) ==
  /\ call[w] = Idle
  /\ custody[t] # NoRow
  /\ call' = [call EXCEPT ![w] = [op |-> "quarantine", tx |-> custody[t].tx, uncertain |-> TRUE,
                                  doubted |-> FALSE]]
  /\ UNCHANGED <<approved, storeLock, custody, intents>>

\* Mutant: the intent is quarantined without custody.
QuarantineSkipsCustody(w) ==
  /\ call[w].op = "quarantine"
  /\ Goto(w, "adoptIntent")
  /\ UNCHANGED <<approved, storeLock, custody, intents>>

QuarantineCustody(w) ==
  /\ call[w].op = "quarantine"
  /\ custody' = Marked(custody, call[w].tx)
  /\ Goto(w, "adoptIntent")
  /\ UNCHANGED <<approved, storeLock, intents>>

AdoptIntent(w) ==
  /\ call[w].op = "adoptIntent"
  /\ IF CanReserveIntent(call[w].tx)
     THEN intents' = Reserved(intents, call[w].tx) /\ Goto(w, "quarantineIntent") /\ UNCHANGED storeLock
     ELSE Leave(w) /\ UNCHANGED intents
  /\ UNCHANGED <<approved, custody>>

QuarantineIntent(w) ==
  /\ call[w].op = "quarantineIntent"
  /\ intents' = Marked(intents, call[w].tx)
  /\ Leave(w)
  /\ UNCHANGED <<approved, custody>>

-------------------------------------------------------------------------------
\* The process dies, or a database is busy or unreadable and the method throws.
Fail(w) == call[w] # Idle /\ Leave(w) /\ UNCHANGED <<approved, custody, intents>>

\* Another process moves the transfer on, which takes the store's write lock.
MoveOn(t) ==
  /\ t \in approved /\ storeLock = Null
  /\ approved' = approved \ {t}
  /\ UNCHANGED <<storeLock, custody, intents, call>>

Next ==
  \/ \E w \in Workers :
       \/ \E x \in Txs : BeginReserve(w, x)
       \/ ReserveCustody(w) \/ ReserveIntent(w) \/ MarkCustody(w) \/ MarkIntent(w) \/ Commit(w)
       \/ \E t \in Transfers : BeginQuarantine(w, t)
       \/ QuarantineCustody(w) \/ AdoptIntent(w) \/ QuarantineIntent(w)
       \/ Fail(w)
  \/ \E t \in Transfers : MoveOn(t)

Spec == Init /\ [][Next]_vars

-------------------------------------------------------------------------------
(* A crash between the two commits leaves custody without an intent, never   *)
(* the reverse: an intent always has the custody of the same transaction.    *)
IntentHasCustody == \A t \in Transfers : intents[t] # NoRow => custody[t].tx = intents[t].tx

(* Doubt is committed to custody before the intent, by either method: an     *)
(* uncertain intent never sits beside custody that still says reserved.      *)
DoubtReachesCustodyFirst ==
  \A t \in Transfers : intents[t].state = "uncertain" => custody[t].state = "uncertain"

(* No account nonce is committed to two transfers at once.                   *)
OneTransferPerSlot == \A t, u \in Transfers :
  t # u /\ custody[t] # NoRow /\ custody[u] # NoRow => SlotOf[custody[t].tx] # SlotOf[custody[u].tx]

(* Custody is only created for a transfer that is, at that instant, approved *)
(* and unsubmitted, although the journal knows nothing of the store; and the *)
(* bytes it was created with are never replaced, nor doubt about them        *)
(* withdrawn, in either journal.                                             *)
Kept(row, next) == row # NoRow => next.tx = row.tx /\ (row.state = "uncertain" => next = row)
CustodyHistory ==
  [][\A t \in Transfers :
       /\ custody[t] = NoRow /\ custody'[t] # NoRow => t \in approved
       /\ Kept(custody[t], custody'[t]) /\ Kept(intents[t], intents'[t])]_vars

(* A reservation that starts once custody is in quarantine reports           *)
(* "uncertain", and by then both journals say so.                            *)
QuarantineNotForgotten == \A w \in Workers :
  call[w].op = "commit" =>
    /\ call[w].doubted => call[w].uncertain
    /\ call[w].uncertain => Uncertain(custody, call[w].tx) /\ Uncertain(intents, call[w].tx)

\* How far a transfer's release is, read off the two journals, custody first.
StageOf(t) ==
  CASE custody[t] = NoRow -> "free"
    [] custody[t].state = "uncertain" -> IF intents[t].state = "uncertain" THEN "quarantined" ELSE "doubted"
    [] custody[t].state = "reserved" -> IF intents[t] = NoRow THEN "held" ELSE "promised"
ReleaseRecord == [t \in Transfers |-> [tx |-> custody[t].tx, stage |-> StageOf(t)]]
Release == INSTANCE ReleaseCustody WITH release <- ReleaseRecord

(* Three databases and their interleaved, failing and dying writers look to  *)
(* a reader of both journals like the one atomic record of ReleaseCustody.   *)
ImplementsCustody == Release!Spec
=============================================================================
