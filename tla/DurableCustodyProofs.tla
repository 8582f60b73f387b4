------------------------- MODULE DurableCustodyProofs -------------------------
(***************************************************************************)
(* What becomes of a signed Cronos release, from its preparation to its    *)
(* reservation: the proofs of the three components it passes through,      *)
(* DurableCustody, JournalOpen and CronosRelease.                          *)
(***************************************************************************)
EXTENDS DurableCustody, JournalOpen, CronosRelease, TLAPS

-------------------------------------------------------------------------------
(***************************************************************************)
(* DurableCustody for any number of processes, transfers and transactions. *)
(* That an intent has custody and that doubt reaches custody first are     *)
(* facts about two databases written one after the other: a process that   *)
(* writes the second relies on what it, or another, committed to the first *)
(* some steps ago.  CallOK says what that is at each of its steps, and     *)
(* that it still holds because rows are only ever added to or doubted.     *)
(***************************************************************************)

OwnRows(table) ==
  /\ table \in [Transfers -> Rows]
  /\ \A t \in Transfers : table[t] # NoRow => TransferOf[table[t].tx] = t

CallOK(w, c) == LET t == TransferOf[c.tx] IN
  /\ c.op \in ReserveOps => storeLock = w /\ t \in approved
  /\ c.op \in Ops \ {"reserveCustody"} => custody[t].tx = c.tx
  /\ c.op \in {"markIntent", "adoptIntent", "quarantineIntent"} => custody[t].state = "uncertain"
  /\ c.op \in {"markCustody", "markIntent", "quarantineIntent", "commit"} => intents[t].tx = c.tx
  /\ c.op = "reserveCustody" /\ c.doubted => custody[t].state = "uncertain"
  /\ c.op \in {"reserveIntent", "commit"} /\ c.doubted => c.uncertain
  /\ c.op \in {"reserveIntent", "commit"} /\ c.uncertain => custody[t].state = "uncertain"
  /\ c.op = "commit" /\ c.uncertain => intents[t].state = "uncertain"
  /\ c.op \in {"markCustody", "markIntent"} => c.uncertain

CallsOK == \A w \in Workers : CallOK(w, call[w])

IInv == /\ TypeOK /\ CallsOK
        /\ IntentHasCustody /\ DoubtReachesCustodyFirst /\ OneTransferPerSlot

-------------------------------------------------------------------------------
(* The journals' methods, on any table.                                      *)

LEMMA RowKinds ==
  ASSUME NEW row \in Rows
  PROVE  /\ row = NoRow <=> row.tx = Null
         /\ row # NoRow => row \in [tx : Txs, state : {"reserved", "uncertain"}]
         /\ row.state = "uncertain" => row # NoRow
BY CustodyAssumption DEF Rows, NoRow

(* A reservation adds a row, or changes nothing.                             *)
LEMMA ReservedTable ==
  ASSUME NEW table, OwnRows(table), NEW x \in Txs, table[TransferOf[x]].tx \in {x, Null}
  PROVE  /\ OwnRows(Reserved(table, x))
         /\ Reserved(table, x)[TransferOf[x]].tx = x
         /\ \A t \in Transfers : Kept(table[t], Reserved(table, x)[t])
         /\ \A t \in Transfers \ {TransferOf[x]} : Reserved(table, x)[t] = table[t]
         /\ table[TransferOf[x]] # NoRow => Reserved(table, x) = table
         /\ table[TransferOf[x]] = NoRow => Reserved(table, x)[TransferOf[x]].state = "reserved"
<1> DEFINE T == TransferOf[x]  new == [tx |-> x, state |-> "reserved"]
<1>1. T \in Transfers /\ x # Null
  BY CustodyAssumption
<1>2. new \in Rows /\ new # NoRow /\ new.tx = x
  BY <1>1 DEF Rows, NoRow
<1>3. table[T] \in Rows /\ DOMAIN table = Transfers
  BY <1>1 DEF OwnRows
<1>4. CASE table[T] = NoRow
  <2>1. Reserved(table, x) = [table EXCEPT ![T] = new]
    BY <1>4 DEF Reserved
  <2>2. OwnRows(Reserved(table, x))
    BY <1>1, <1>2, <2>1 DEF OwnRows
  <2> QED BY <1>1, <1>2, <1>3, <1>4, <2>1, <2>2 DEF Kept
<1>5. CASE table[T] # NoRow
  <2>1. Reserved(table, x) = table /\ table[T].tx = x
    BY <1>3, <1>5, RowKinds DEF Reserved
  <2> QED BY <1>5, <2>1 DEF Kept
<1> QED
  BY <1>4, <1>5

(* A doubted row keeps its transaction; the others are left alone.           *)
LEMMA MarkedTable ==
  ASSUME NEW table, OwnRows(table), NEW x \in Txs, table[TransferOf[x]].tx = x
  PROVE  /\ OwnRows(Marked(table, x))
         /\ Marked(table, x)[TransferOf[x]] = [tx |-> x, state |-> "uncertain"]
         /\ \A t \in Transfers : Kept(table[t], Marked(table, x)[t])
         /\ \A t \in Transfers : Marked(table, x)[t].tx = table[t].tx
         /\ \A t \in Transfers \ {TransferOf[x]} : Marked(table, x)[t] = table[t]
<1> DEFINE T == TransferOf[x]  new == [tx |-> x, state |-> "uncertain"]
<1>1. T \in Transfers /\ x # Null
  BY CustodyAssumption
<1>2. table[T] \in [tx : Txs, state : {"reserved", "uncertain"}] /\ DOMAIN table = Transfers
  BY <1>1, RowKinds DEF OwnRows
<1>3. [table[T] EXCEPT !.state = "uncertain"] = new
  BY <1>2
<1>4. Marked(table, x) = [table EXCEPT ![T] = new]
  BY <1>1, <1>2, <1>3 DEF Marked
<1>5. new \in Rows /\ new # NoRow
  BY <1>1 DEF Rows, NoRow
<1>6. OwnRows(Marked(table, x))
  BY <1>1, <1>4, <1>5 DEF OwnRows
<1>7. \A t \in Transfers : Kept(table[t], Marked(table, x)[t])
  <2> SUFFICES ASSUME NEW t \in Transfers PROVE Kept(table[t], Marked(table, x)[t])
    OBVIOUS
  <2>1. CASE t = T
    <3>1. table[T].state = "uncertain" => table[T] = new
      BY <1>2
    <3> QED BY <1>1, <1>2, <1>4, <2>1, <3>1 DEF Kept
  <2>2. CASE t # T
    BY <1>2, <1>4, <2>2 DEF Kept
  <2> QED BY <2>1, <2>2
<1> QED
  BY <1>1, <1>2, <1>4, <1>6, <1>7

-------------------------------------------------------------------------------
(* What the two journals say together, through each of the four writes.      *)

JournalsOK == /\ OwnRows(custody) /\ OwnRows(intents)
              /\ IntentHasCustody /\ DoubtReachesCustodyFirst /\ OneTransferPerSlot

HistoryStep == \A t \in Transfers :
  /\ custody[t] = NoRow /\ custody'[t] # NoRow => t \in approved
  /\ Kept(custody[t], custody'[t]) /\ Kept(intents[t], intents'[t])

LEMMA CustodyReserved ==
  ASSUME JournalsOK, NEW x \in Txs, CanReserveCustody(x), TransferOf[x] \in approved,
         custody' = Reserved(custody, x), intents' = intents
  PROVE  JournalsOK' /\ HistoryStep /\ custody'[TransferOf[x]].tx = x
<1> DEFINE T == TransferOf[x]
<1>1. T \in Transfers /\ x # Null /\ custody[T].tx \in {x, Null}
  BY CustodyAssumption DEF CanReserveCustody, NoRow
<1>2. /\ OwnRows(custody') /\ custody'[T].tx = x
      /\ \A t \in Transfers : Kept(custody[t], custody'[t])
      /\ \A t \in Transfers \ {T} : custody'[t] = custody[t]
      /\ custody[T] # NoRow => custody' = custody
  BY <1>1, ReservedTable DEF JournalsOK
<1>3. \A t \in Transfers : intents[t] # NoRow => custody[t] # NoRow
  BY RowKinds DEF JournalsOK, OwnRows, IntentHasCustody
<1>4. CASE custody[T] # NoRow
  BY <1>2, <1>4 DEF JournalsOK, HistoryStep, Kept, OwnRows, IntentHasCustody, DoubtReachesCustodyFirst,
                    OneTransferPerSlot
<1>5. CASE custody[T] = NoRow
  <2>1. intents[T] = NoRow /\ intents[T].state # "uncertain"
    BY <1>1, <1>3, <1>5 DEF NoRow
  <2>2. IntentHasCustody' /\ DoubtReachesCustodyFirst'
    BY <1>2, <2>1 DEF JournalsOK, IntentHasCustody, DoubtReachesCustodyFirst
  <2>3. \A t \in Transfers : custody[t] # NoRow => SlotOf[custody[t].tx] # SlotOf[x]
    BY <1>1, <1>5 DEF CanReserveCustody, NoRow
  <2>4. OneTransferPerSlot'
    <3> SUFFICES ASSUME NEW t \in Transfers, NEW u \in Transfers, t # u,
                        custody'[t] # NoRow, custody'[u] # NoRow
                 PROVE  SlotOf[custody'[t].tx] # SlotOf[custody'[u].tx]
      BY DEF OneTransferPerSlot
    <3>1. CASE t # T /\ u # T
      BY <1>2, <3>1 DEF JournalsOK, OneTransferPerSlot
    <3>2. CASE t = T
      BY <1>2, <2>3, <3>2
    <3>3. CASE u = T
      BY <1>2, <2>3, <3>3
    <3> QED BY <3>1, <3>2, <3>3
  <2> QED BY <1>2, <2>2, <2>4 DEF JournalsOK, HistoryStep, Kept
<1> QED
  BY <1>4, <1>5

LEMMA IntentReserved ==
  ASSUME JournalsOK, NEW x \in Txs, custody[TransferOf[x]].tx = x, CanReserveIntent(x),
         intents' = Reserved(intents, x), custody' = custody
  PROVE  JournalsOK' /\ HistoryStep /\ intents'[TransferOf[x]].tx = x
<1> DEFINE T == TransferOf[x]
<1>1. T \in Transfers /\ x # Null
  BY CustodyAssumption
<1>2. /\ OwnRows(intents') /\ intents'[T].tx = x
      /\ \A t \in Transfers : Kept(intents[t], intents'[t])
      /\ \A t \in Transfers \ {T} : intents'[t] = intents[t]
      /\ intents[T] # NoRow => intents' = intents
      /\ intents[T] = NoRow => intents'[T].state = "reserved"
  BY ReservedTable DEF JournalsOK, CanReserveIntent
<1>3. IntentHasCustody'
  BY <1>2 DEF JournalsOK, IntentHasCustody
<1>4. DoubtReachesCustodyFirst'
  BY <1>2 DEF JournalsOK, DoubtReachesCustodyFirst
<1> QED
  BY <1>2, <1>3, <1>4 DEF JournalsOK, HistoryStep, Kept, OneTransferPerSlot

LEMMA CustodyMarked ==
  ASSUME JournalsOK, NEW x \in Txs, custody[TransferOf[x]].tx = x,
         custody' = Marked(custody, x), intents' = intents
  PROVE  /\ JournalsOK' /\ HistoryStep
         /\ custody'[TransferOf[x]] = [tx |-> x, state |-> "uncertain"]
<1> DEFINE T == TransferOf[x]
<1>1. /\ OwnRows(custody') /\ custody'[T] = [tx |-> x, state |-> "uncertain"]
      /\ \A t \in Transfers : Kept(custody[t], custody'[t]) /\ custody'[t].tx = custody[t].tx
      /\ \A t \in Transfers \ {T} : custody'[t] = custody[t]
  BY MarkedTable DEF JournalsOK
<1>2. \A t \in Transfers : custody'[t] = NoRow <=> custody[t] = NoRow
  BY <1>1, RowKinds DEF JournalsOK, OwnRows
<1>3. IntentHasCustody' /\ DoubtReachesCustodyFirst' /\ OneTransferPerSlot'
  BY <1>1, <1>2 DEF JournalsOK, IntentHasCustody, DoubtReachesCustodyFirst, OneTransferPerSlot
<1> QED
  BY <1>1, <1>2, <1>3 DEF JournalsOK, HistoryStep, Kept

LEMMA IntentMarked ==
  ASSUME JournalsOK, NEW x \in Txs, intents[TransferOf[x]].tx = x,
         custody[TransferOf[x]].state = "uncertain",
         intents' = Marked(intents, x), custody' = custody
  PROVE  /\ JournalsOK' /\ HistoryStep
         /\ intents'[TransferOf[x]] = [tx |-> x, state |-> "uncertain"]
<1> DEFINE T == TransferOf[x]
<1>1. /\ OwnRows(intents') /\ intents'[T] = [tx |-> x, state |-> "uncertain"]
      /\ \A t \in Transfers : Kept(intents[t], intents'[t]) /\ intents'[t].tx = intents[t].tx
      /\ \A t \in Transfers \ {T} : intents'[t] = intents[t]
  BY MarkedTable DEF JournalsOK
<1>2. \A t \in Transfers : intents'[t] = NoRow <=> intents[t] = NoRow
  BY <1>1, RowKinds DEF JournalsOK, OwnRows
<1>3. IntentHasCustody' /\ DoubtReachesCustodyFirst' /\ OneTransferPerSlot'
  BY <1>1, <1>2 DEF JournalsOK, IntentHasCustody, DoubtReachesCustodyFirst, OneTransferPerSlot
<1> QED
  BY <1>1, <1>3 DEF JournalsOK, HistoryStep, Kept

-------------------------------------------------------------------------------
(* What the calls rely on, through a step of one of them.                    *)

LEMMA IInvParts == IInv => JournalsOK /\ storeLock \in Workers \cup {Null}
BY DEF IInv, TypeOK, JournalsOK, OwnRows

(* A call that changes nothing but the journals, which only grow, and its    *)
(* own hold on the store takes nothing away from another call.               *)
LEMMA OthersOK ==
  ASSUME IInv, HistoryStep, approved' = approved,
         NEW u \in Workers, call'[u] = call[u], storeLock = u => storeLock' = u
  PROVE  CallOK(u, call[u])'
<1> DEFINE c == call[u]  t == TransferOf[c.tx]
<1>1. CallOK(u, c) /\ c \in Calls
  BY DEF IInv, TypeOK, CallsOK
<1>2. CASE c.op = "idle"
  BY <1>2 DEF CallOK, ReserveOps, Ops
<1>3. CASE c.op # "idle"
  <2>1. c.op \in Ops /\ c.tx \in Txs /\ c.tx # Null /\ t \in Transfers
    BY <1>1, <1>3, CustodyAssumption DEF Calls, Idle
  <2>2. /\ custody[t] \in Rows /\ intents[t] \in Rows
        /\ Kept(custody[t], custody'[t]) /\ Kept(intents[t], intents'[t])
    BY <2>1 DEF IInv, TypeOK, HistoryStep
  <2>3. /\ custody[t].tx = c.tx => custody'[t].tx = c.tx
        /\ intents[t].tx = c.tx => intents'[t].tx = c.tx
    BY <2>1, <2>2, RowKinds DEF Kept
  <2>4. /\ custody[t].state = "uncertain" => custody'[t].state = "uncertain"
        /\ intents[t].state = "uncertain" => intents'[t].state = "uncertain"
    BY <2>2, RowKinds DEF Kept
  <2> QED BY <1>1, <2>3, <2>4 DEF CallOK
<1> QED
  BY <1>2, <1>3

(* One call moves on to c, which must be justified after the step.           *)
LEMMA CallStep ==
  ASSUME IInv, NEW w \in Workers, NEW c \in Calls, call' = [call EXCEPT ![w] = c],
         approved' = approved, JournalsOK', HistoryStep, CallOK(w, c)',
         \/ storeLock' = storeLock /\ (storeLock = w => c.op \in ReserveOps)
         \/ storeLock = Null /\ storeLock' = w /\ c.op \in ReserveOps
         \/ storeLock = w /\ storeLock' = Null
  PROVE  IInv' /\ HistoryStep
<1>1. call' \in [Workers -> Calls] /\ call'[w] = c /\ \A u \in Workers \ {w} : call'[u] = call[u]
  BY DEF IInv, TypeOK
<1>2. \A u \in Workers \ {w} : storeLock = u => storeLock' = u
  BY CustodyAssumption
<1>3. CallsOK'
  BY <1>1, <1>2, OthersOK DEF CallsOK
<1>4. storeLock' \in Workers \cup {Null} /\ (storeLock' # Null => call'[storeLock'].op \in ReserveOps)
  BY <1>1 DEF IInv, TypeOK
<1>5. TypeOK'
  BY <1>1, <1>4 DEF IInv, TypeOK, JournalsOK, OwnRows
<1> QED
  BY <1>3, <1>5 DEF IInv, JournalsOK

LEMMA UnchangedKept == ASSUME IInv, UNCHANGED <<custody, intents>> PROVE JournalsOK' /\ HistoryStep
BY IInvParts DEF JournalsOK, OwnRows, IntentHasCustody, DoubtReachesCustodyFirst, OneTransferPerSlot,
                 HistoryStep, Kept

(* However a method ends, its call has nothing left to rely on.              *)
LEMMA LeaveStep ==
  ASSUME IInv, NEW w \in Workers, Leave(w), approved' = approved, JournalsOK', HistoryStep
  PROVE  IInv' /\ HistoryStep
<1>1. Idle \in Calls /\ CallOK(w, Idle)'
  BY DEF Calls, CallOK, Idle, ReserveOps, Ops
<1>2. \/ storeLock = w /\ storeLock' = Null
      \/ storeLock # w /\ storeLock' = storeLock
  BY DEF Leave
<1> QED
  BY <1>1, <1>2, CallStep DEF Leave

(* A call under way, which moves to another step.                            *)
LEMMA Busy ==
  ASSUME IInv, NEW w \in Workers, call[w].op # "idle"
  PROVE  /\ call[w] \in [op : Ops, tx : Txs, uncertain : BOOLEAN, doubted : BOOLEAN]
         /\ CallOK(w, call[w])
         /\ TransferOf[call[w].tx] \in Transfers
<1>1. call[w] \in Calls /\ CallOK(w, call[w])
  BY DEF IInv, TypeOK, CallsOK
<1>2. call[w] # Idle
  BY DEF Idle
<1> QED
  BY <1>1, <1>2, CustodyAssumption DEF Calls

LEMMA TwoFields ==
  ASSUME NEW r, NEW A, NEW B, r \in [op : A, tx : B, uncertain : BOOLEAN, doubted : BOOLEAN],
         NEW op, NEW u
  PROVE  [r EXCEPT !.op = op, !.uncertain = u]
           = [op |-> op, tx |-> r.tx, uncertain |-> u, doubted |-> r.doubted]
<1>1. PICK m : m = [op |-> op, tx |-> r.tx, uncertain |-> r.uncertain, doubted |-> r.doubted]
  OBVIOUS
<1>2. [r EXCEPT !.op = op] = m
  BY <1>1
<1>3. [m EXCEPT !.uncertain = u] = [op |-> op, tx |-> r.tx, uncertain |-> u, doubted |-> r.doubted]
  BY <1>1
<1> QED
  BY <1>2, <1>3

\* The call as it was: the next state's call is another.
With(c, op) == [op |-> op, tx |-> c.tx, uncertain |-> c.uncertain, doubted |-> c.doubted]

LEMMA Moves ==
  ASSUME IInv, NEW w \in Workers, NEW c, c = call[w], c.op # "idle", NEW op \in Ops, Goto(w, op),
         approved' = approved, storeLock' = storeLock, op \in ReserveOps <=> c.op \in ReserveOps,
         JournalsOK', HistoryStep, CallOK(w, With(c, op))'
  PROVE  IInv' /\ HistoryStep
<1>1. PICK d : d = With(c, op)
  OBVIOUS
<1>2. d \in Calls /\ [call[w] EXCEPT !.op = op] = d
  BY <1>1, Busy DEF Calls, With
<1>3. call' = [call EXCEPT ![w] = d]
  <2>1. call' = [call EXCEPT ![w] = [call[w] EXCEPT !.op = op]]
    BY DEF Goto
  <2> QED BY <1>2, <2>1
<1>4. storeLock = w => d.op \in ReserveOps
  BY <1>1, CustodyAssumption DEF IInv, TypeOK, With
<1>5. CallOK(w, d)'
  BY <1>1
<1> QED
  BY <1>2, <1>3, <1>4, <1>5, CallStep

-------------------------------------------------------------------------------
(* One lemma per action.                                                     *)

LEMMA BeginReserveStep == ASSUME IInv, NEW w \in Workers, NEW x \in Txs, BeginReserve(w, x) PROVE IInv' /\ HistoryStep
<1>1. PICK c : c = [op |-> "reserveCustody", tx |-> x, uncertain |-> FALSE, doubted |-> Uncertain(custody, x)]
  OBVIOUS
<1>2. c \in Calls /\ call' = [call EXCEPT ![w] = c]
  BY <1>1 DEF BeginReserve, Calls, Ops, ReserveOps, Uncertain
<1>3. CallOK(w, c)'
  BY <1>1 DEF BeginReserve, CallOK, Uncertain
<1> QED
  BY <1>1, <1>2, <1>3, CallStep, UnchangedKept DEF BeginReserve, ReserveOps

LEMMA ReserveCustodyStep == ASSUME IInv, NEW w \in Workers, ReserveCustody(w) PROVE IInv' /\ HistoryStep
<1>1. PICK x : x = call[w].tx
  OBVIOUS
<1>2. /\ x \in Txs /\ TransferOf[x] \in Transfers /\ CallOK(w, call[w])
      /\ call[w].doubted \in BOOLEAN
  BY <1>1, Busy DEF ReserveCustody
<1>3. CASE CanReserveCustody(x)
  <2>1. custody' = Reserved(custody, x) /\ UNCHANGED <<approved, storeLock, intents>>
    BY <1>1, <1>3 DEF ReserveCustody
  <2>2. JournalsOK' /\ HistoryStep /\ custody'[TransferOf[x]].tx = x
    <3>1. TransferOf[x] \in approved
      BY <1>1, <1>2 DEF CallOK, ReserveCustody, ReserveOps
    <3> QED BY <1>2, <1>3, <2>1, <3>1, CustodyReserved, IInvParts
  <2>3. PICK c : c = [op |-> "reserveIntent", tx |-> x, uncertain |-> Uncertain(custody, x),
                      doubted |-> call[w].doubted]
    OBVIOUS
  <2>4. c \in Calls
    BY <1>2, <2>3 DEF Calls, Ops, ReserveOps, Uncertain
  <2>5. call' = [call EXCEPT ![w] = c]
    <3>1. PICK u : u = Uncertain(custody, x)
      OBVIOUS
    <3>2. call[w] \in [op : Ops, tx : Txs, uncertain : BOOLEAN, doubted : BOOLEAN]
      BY Busy DEF ReserveCustody
    <3>3. [call[w] EXCEPT !.op = "reserveIntent", !.uncertain = u]
            = [op |-> "reserveIntent", tx |-> x, uncertain |-> u, doubted |-> call[w].doubted]
      BY <1>1, <3>2, TwoFields
    <3>4. call' = [call EXCEPT ![w] = [call[w] EXCEPT !.op = "reserveIntent", !.uncertain = u]]
      BY <1>1, <1>3, <3>1 DEF ReserveCustody
    <3> QED BY <2>3, <3>1, <3>3, <3>4
  <2>6. custody[TransferOf[x]].state = "uncertain" => custody'[TransferOf[x]].state = "uncertain"
    BY <1>2, <2>2, RowKinds DEF HistoryStep, Kept, IInv, TypeOK
  <2>7. CallOK(w, c)'
    BY <1>1, <1>2, <2>1, <2>2, <2>3, <2>6 DEF CallOK, ReserveCustody, ReserveOps, Uncertain
  <2> QED BY <2>1, <2>2, <2>3, <2>4, <2>5, <2>7, CallStep DEF ReserveOps
<1>4. CASE ~CanReserveCustody(x)
  BY <1>1, <1>4, LeaveStep, UnchangedKept DEF ReserveCustody
<1> QED
  BY <1>3, <1>4

LEMMA ReserveIntentStep == ASSUME IInv, NEW w \in Workers, ReserveIntent(w) PROVE IInv' /\ HistoryStep
<1>1. PICK x : x = call[w].tx
  OBVIOUS
<1>2. /\ x \in Txs /\ TransferOf[x] \in Transfers /\ CallOK(w, call[w])
      /\ call[w].doubted \in BOOLEAN /\ call[w].uncertain \in BOOLEAN
  BY <1>1, Busy DEF ReserveIntent
<1>3. CASE CanReserveIntent(x)
  <2>1. intents' = Reserved(intents, x) /\ UNCHANGED <<approved, storeLock, custody>>
    BY <1>1, <1>3 DEF ReserveIntent
  <2>2. JournalsOK' /\ HistoryStep /\ intents'[TransferOf[x]].tx = x
    <3>1. custody[TransferOf[x]].tx = x
      BY <1>1, <1>2 DEF CallOK, ReserveIntent, Ops, ReserveOps
    <3> QED BY <1>2, <1>3, <2>1, <3>1, IntentReserved, IInvParts
  <2>3. PICK u \in BOOLEAN : u = (call[w].uncertain \/ Uncertain(intents, x))
    BY <1>2 DEF Uncertain
  <2>4. PICK op \in Ops : op = IF u THEN "markCustody" ELSE "commit"
    BY DEF Ops, ReserveOps
  <2>5. PICK c : c = [op |-> op, tx |-> x, uncertain |-> u, doubted |-> call[w].doubted]
    OBVIOUS
  <2>6. c \in Calls
    BY <1>2, <2>5 DEF Calls
  <2>7. call' = [call EXCEPT ![w] = c]
    <3>1. call[w] \in [op : Ops, tx : Txs, uncertain : BOOLEAN, doubted : BOOLEAN]
      BY Busy DEF ReserveIntent
    <3>2. [call[w] EXCEPT !.op = op, !.uncertain = u] = c
      BY <1>1, <2>5, <3>1, TwoFields
    <3>3. call' = [call EXCEPT ![w] = [call[w] EXCEPT !.op = op, !.uncertain = u]]
      BY <1>1, <1>3, <2>3, <2>4 DEF ReserveIntent
    <3> QED BY <3>2, <3>3
  <2>8. CallOK(w, c)'
    BY <1>1, <1>2, <2>1, <2>2, <2>3, <2>4, <2>5 DEF CallOK, ReserveIntent, Ops, ReserveOps, Uncertain
  <2>9. c.op \in ReserveOps
    BY <2>4, <2>5 DEF ReserveOps
  <2> QED BY <2>1, <2>2, <2>6, <2>7, <2>8, <2>9, CallStep
<1>4. CASE ~CanReserveIntent(x)
  BY <1>1, <1>4, LeaveStep, UnchangedKept DEF ReserveIntent
<1> QED
  BY <1>3, <1>4

LEMMA MarkCustodyStep == ASSUME IInv, NEW w \in Workers, MarkCustody(w) PROVE IInv' /\ HistoryStep
<1>1. PICK c : c = call[w]
  OBVIOUS
<1>2. c.tx \in Txs /\ TransferOf[c.tx] \in Transfers /\ CallOK(w, c) /\ c.op = "markCustody"
  BY <1>1, Busy DEF MarkCustody
<1>3. custody[TransferOf[c.tx]].tx = c.tx
  BY <1>2 DEF CallOK, Ops, ReserveOps
<1>4. JournalsOK' /\ HistoryStep /\ custody'[TransferOf[c.tx]] = [tx |-> c.tx, state |-> "uncertain"]
  BY <1>1, <1>2, <1>3, CustodyMarked, IInvParts DEF MarkCustody
<1>5. CallOK(w, With(c, "markIntent"))'
  BY <1>2, <1>4 DEF CallOK, With, MarkCustody, ReserveOps, Ops
<1> QED
  BY <1>1, <1>2, <1>4, <1>5, Moves DEF MarkCustody, Ops, ReserveOps

LEMMA MarkIntentStep == ASSUME IInv, NEW w \in Workers, MarkIntent(w) PROVE IInv' /\ HistoryStep
<1>1. PICK c : c = call[w]
  OBVIOUS
<1>2. c.tx \in Txs /\ TransferOf[c.tx] \in Transfers /\ CallOK(w, c) /\ c.op = "markIntent"
  BY <1>1, Busy DEF MarkIntent
<1>3. /\ custody[TransferOf[c.tx]].state = "uncertain" /\ custody[TransferOf[c.tx]].tx = c.tx
      /\ intents[TransferOf[c.tx]].tx = c.tx
  BY <1>2 DEF CallOK, Ops, ReserveOps
<1>4. JournalsOK' /\ HistoryStep /\ intents'[TransferOf[c.tx]] = [tx |-> c.tx, state |-> "uncertain"]
  BY <1>1, <1>2, <1>3, IntentMarked, IInvParts DEF MarkIntent
<1>5. CallOK(w, With(c, "commit"))'
  BY <1>2, <1>3, <1>4 DEF CallOK, With, MarkIntent, ReserveOps, Ops
<1> QED
  BY <1>1, <1>2, <1>4, <1>5, Moves DEF MarkIntent, Ops, ReserveOps

LEMMA BeginQuarantineStep ==
  ASSUME IInv, NEW w \in Workers, NEW t \in Transfers, BeginQuarantine(w, t) PROVE IInv' /\ HistoryStep
<1>1. PICK x : x = custody[t].tx
  OBVIOUS
<1>2. x \in Txs /\ TransferOf[x] = t
  BY <1>1, RowKinds DEF BeginQuarantine, IInv, TypeOK
<1>3. PICK c : c = [op |-> "quarantine", tx |-> x, uncertain |-> TRUE, doubted |-> FALSE]
  OBVIOUS
<1>4. c \in Calls /\ call' = [call EXCEPT ![w] = c]
  BY <1>1, <1>2, <1>3 DEF BeginQuarantine, Calls, Ops
<1>5. CallOK(w, c)'
  BY <1>1, <1>2, <1>3 DEF BeginQuarantine, CallOK, ReserveOps
<1>6. storeLock # w
  BY CustodyAssumption DEF BeginQuarantine, IInv, TypeOK, Idle, ReserveOps
<1> QED
  BY <1>4, <1>5, <1>6, CallStep, UnchangedKept DEF BeginQuarantine

LEMMA QuarantineCustodyStep == ASSUME IInv, NEW w \in Workers, QuarantineCustody(w) PROVE IInv' /\ HistoryStep
<1>1. PICK c : c = call[w]
  OBVIOUS
<1>2. c.tx \in Txs /\ TransferOf[c.tx] \in Transfers /\ CallOK(w, c) /\ c.op = "quarantine"
  BY <1>1, Busy DEF QuarantineCustody
<1>3. custody[TransferOf[c.tx]].tx = c.tx
  BY <1>2 DEF CallOK, Ops, ReserveOps
<1>4. JournalsOK' /\ HistoryStep /\ custody'[TransferOf[c.tx]] = [tx |-> c.tx, state |-> "uncertain"]
  BY <1>1, <1>2, <1>3, CustodyMarked, IInvParts DEF QuarantineCustody
<1>5. CallOK(w, With(c, "adoptIntent"))'
  BY <1>2, <1>4 DEF CallOK, With, ReserveOps, Ops
<1> QED
  BY <1>1, <1>2, <1>4, <1>5, Moves DEF QuarantineCustody, Ops, ReserveOps

LEMMA AdoptIntentStep == ASSUME IInv, NEW w \in Workers, AdoptIntent(w) PROVE IInv' /\ HistoryStep
<1>1. PICK c : c = call[w]
  OBVIOUS
<1>2. c.tx \in Txs /\ TransferOf[c.tx] \in Transfers /\ CallOK(w, c) /\ c.op = "adoptIntent"
  BY <1>1, Busy DEF AdoptIntent
<1>3. custody[TransferOf[c.tx]].tx = c.tx /\ custody[TransferOf[c.tx]].state = "uncertain"
  BY <1>2 DEF CallOK, Ops, ReserveOps
<1>4. CASE CanReserveIntent(c.tx)
  <2>1. intents' = Reserved(intents, c.tx) /\ UNCHANGED <<approved, storeLock, custody>>
    BY <1>1, <1>4 DEF AdoptIntent
  <2>2. JournalsOK' /\ HistoryStep /\ intents'[TransferOf[c.tx]].tx = c.tx
    BY <1>2, <1>3, <1>4, <2>1, IntentReserved, IInvParts
  <2>3. CallOK(w, With(c, "quarantineIntent"))'
    BY <1>2, <1>3, <2>1, <2>2 DEF CallOK, With, ReserveOps, Ops
  <2> QED BY <1>1, <1>2, <1>4, <2>1, <2>2, <2>3, Moves DEF AdoptIntent, Ops, ReserveOps
<1>5. CASE ~CanReserveIntent(c.tx)
  BY <1>1, <1>5, LeaveStep, UnchangedKept DEF AdoptIntent
<1> QED
  BY <1>4, <1>5

LEMMA QuarantineIntentStep == ASSUME IInv, NEW w \in Workers, QuarantineIntent(w) PROVE IInv' /\ HistoryStep
<1>1. PICK c : c = call[w]
  OBVIOUS
<1>2. c.tx \in Txs /\ CallOK(w, c) /\ c.op = "quarantineIntent"
  BY <1>1, Busy DEF QuarantineIntent
<1>3. custody[TransferOf[c.tx]].state = "uncertain" /\ intents[TransferOf[c.tx]].tx = c.tx
  BY <1>2 DEF CallOK, Ops, ReserveOps
<1>4. JournalsOK' /\ HistoryStep
  BY <1>1, <1>2, <1>3, IntentMarked, IInvParts DEF QuarantineIntent
<1> QED
  BY <1>4, LeaveStep DEF QuarantineIntent

(* A transfer only moves on when no reservation holds the store, so that no  *)
(* reservation relied on its being approved.                                 *)
LEMMA MoveOnStep == ASSUME IInv, NEW t \in Transfers, MoveOn(t) PROVE IInv' /\ HistoryStep
<1>1. TypeOK' /\ IntentHasCustody' /\ DoubtReachesCustodyFirst' /\ OneTransferPerSlot'
  BY DEF IInv, MoveOn, TypeOK, IntentHasCustody, DoubtReachesCustodyFirst, OneTransferPerSlot
<1>2. CallsOK'
  <2> SUFFICES ASSUME NEW w \in Workers PROVE CallOK(w, call[w])'
    BY DEF CallsOK
  <2>1. CallOK(w, call[w]) /\ call[w].op \notin ReserveOps
    BY CustodyAssumption DEF IInv, CallsOK, CallOK, MoveOn
  <2> QED BY <2>1 DEF CallOK, MoveOn, ReserveOps
<1> QED
  BY <1>1, <1>2, UnchangedKept DEF IInv, MoveOn

-------------------------------------------------------------------------------
LEMMA InitIInv == Init => IInv
<1> SUFFICES ASSUME Init PROVE IInv
  OBVIOUS
<1>1. TypeOK
  BY DEF Init, TypeOK, Rows, Calls
<1>2. CallsOK
  BY DEF Init, CallsOK, CallOK, Idle, ReserveOps, Ops
<1>3. IntentHasCustody /\ DoubtReachesCustodyFirst /\ OneTransferPerSlot
  BY DEF Init, IntentHasCustody, DoubtReachesCustodyFirst, OneTransferPerSlot, NoRow
<1> QED
  BY <1>1, <1>2, <1>3 DEF IInv

LEMMA StutterStep == ASSUME IInv, UNCHANGED vars PROVE IInv' /\ HistoryStep
<1>1. TypeOK' /\ IntentHasCustody' /\ DoubtReachesCustodyFirst' /\ OneTransferPerSlot'
  BY DEF IInv, vars, TypeOK, IntentHasCustody, DoubtReachesCustodyFirst, OneTransferPerSlot
<1>2. CallsOK'
  BY DEF IInv, vars, CallsOK, CallOK
<1> QED
  BY <1>1, <1>2, UnchangedKept DEF IInv, vars

LEMMA NextStep == ASSUME IInv, [Next]_vars PROVE IInv' /\ HistoryStep
<1>1. ASSUME NEW w \in Workers, NEW x \in Txs, BeginReserve(w, x) PROVE IInv' /\ HistoryStep
  BY <1>1, BeginReserveStep
<1>2. ASSUME NEW w \in Workers, ReserveCustody(w) PROVE IInv' /\ HistoryStep
  BY <1>2, ReserveCustodyStep
<1>3. ASSUME NEW w \in Workers, ReserveIntent(w) PROVE IInv' /\ HistoryStep
  BY <1>3, ReserveIntentStep
<1>4. ASSUME NEW w \in Workers, MarkCustody(w) PROVE IInv' /\ HistoryStep
  BY <1>4, MarkCustodyStep
<1>5. ASSUME NEW w \in Workers, MarkIntent(w) PROVE IInv' /\ HistoryStep
  BY <1>5, MarkIntentStep
<1>6. ASSUME NEW w \in Workers, Commit(w) \/ Fail(w) PROVE IInv' /\ HistoryStep
  BY <1>6, LeaveStep, UnchangedKept DEF Commit, Fail
<1>7. ASSUME NEW w \in Workers, NEW t \in Transfers, BeginQuarantine(w, t) PROVE IInv' /\ HistoryStep
  BY <1>7, BeginQuarantineStep
<1>8. ASSUME NEW w \in Workers, QuarantineCustody(w) PROVE IInv' /\ HistoryStep
  BY <1>8, QuarantineCustodyStep
<1>9. ASSUME NEW w \in Workers, AdoptIntent(w) PROVE IInv' /\ HistoryStep
  BY <1>9, AdoptIntentStep
<1>10. ASSUME NEW w \in Workers, QuarantineIntent(w) PROVE IInv' /\ HistoryStep
  BY <1>10, QuarantineIntentStep
<1>11. ASSUME NEW t \in Transfers, MoveOn(t) PROVE IInv' /\ HistoryStep
  BY <1>11, MoveOnStep
<1> QED
  BY <1>1, <1>2, <1>3, <1>4, <1>5, <1>6, <1>7, <1>8, <1>9, <1>10, <1>11, StutterStep DEF Next

(* The inductive invariant holds of every reachable state.                   *)
THEOREM CustodyInvariant == Spec => []IInv
<1>1. IInv /\ [Next]_vars => IInv'
  BY NextStep
<1> QED
  BY InitIInv, <1>1, PTL DEF Spec

(* The state of the journals, the lock and the calls has its type.           *)
THEOREM CustodyTypeOK == Spec => []TypeOK
<1>1. IInv => TypeOK
  BY DEF IInv
<1> QED
  BY CustodyInvariant, <1>1, PTL

(* Whenever a process dies or fails between the two databases, no intent is  *)
(* left without the custody of its transaction.                              *)
THEOREM CustodyBeforeIntent == Spec => []IntentHasCustody
<1>1. IInv => IntentHasCustody
  BY DEF IInv
<1> QED
  BY CustodyInvariant, <1>1, PTL

(* Nor an uncertain intent beside custody that says "reserved".              *)
THEOREM DoubtInCustodyFirst == Spec => []DoubtReachesCustodyFirst
<1>1. IInv => DoubtReachesCustodyFirst
  BY DEF IInv
<1> QED
  BY CustodyInvariant, <1>1, PTL

(* However many processes reserve, an account nonce serves one transfer.     *)
THEOREM CustodyOneTransferPerSlot == Spec => []OneTransferPerSlot
<1>1. IInv => OneTransferPerSlot
  BY DEF IInv
<1> QED
  BY CustodyInvariant, <1>1, PTL

(* A reservation does not report "reserved" of what was in quarantine when   *)
(* it began, whoever put it there.                                           *)
THEOREM CustodyQuarantineNotForgotten == Spec => []QuarantineNotForgotten
<1>1. IInv => QuarantineNotForgotten
  BY DEF IInv, CallsOK, CallOK, QuarantineNotForgotten, Uncertain
<1> QED
  BY CustodyInvariant, <1>1, PTL

(* Custody begins under approval, its bytes never change, doubt stays.       *)
THEOREM CustodyHistoryKept == Spec => CustodyHistory
<1>1. IInv /\ [Next]_vars => [HistoryStep]_vars
  BY NextStep
<1>2. Spec => [][HistoryStep]_vars
  BY CustodyInvariant, <1>1, PTL DEF Spec
<1> QED
  BY <1>2, PTL DEF CustodyHistory, HistoryStep

-------------------------------------------------------------------------------
(* The refinement: what each step does to ReleaseRecord.                     *)

R == ReleaseRecord

(* A step that touches the rows of one transfer moves that release only.     *)
LEMMA RecordStep ==
  ASSUME NEW T \in Transfers,
         \A t \in Transfers \ {T} : custody'[t] = custody[t] /\ intents'[t] = intents[t]
  PROVE  R' = [R EXCEPT ![T] = [tx |-> custody'[T].tx, stage |-> StageOf(T)']]
<1>1. \A t \in Transfers \ {T} : StageOf(t)' = StageOf(t)
  BY DEF StageOf
<1> QED
  BY <1>1 DEF R, ReleaseRecord

(* The stage that two rows of the same transaction stand for.                *)
LEMMA Stages ==
  ASSUME NEW T \in Transfers, IInv
  PROVE  /\ custody[T] = NoRow => R[T] = Release!Free /\ intents[T] = NoRow
         /\ custody[T] # NoRow => custody[T].state \in {"reserved", "uncertain"}
         /\ R[T] = [tx |-> custody[T].tx, stage |-> StageOf(T)] /\ R[T].tx = custody[T].tx
<1>1. custody[T] \in Rows /\ intents[T] \in Rows
  BY DEF IInv, TypeOK
<1>2. custody[T] = NoRow => intents[T] = NoRow
  BY <1>1, RowKinds DEF IInv, IntentHasCustody
<1> QED
  BY <1>1, <1>2, RowKinds DEF R, ReleaseRecord, StageOf, Release!Free, NoRow

AbstractStep == [Release!Next]_<<approved, ReleaseRecord>>

LEMMA SameJournals == ASSUME UNCHANGED <<custody, intents>> PROVE ReleaseRecord' = ReleaseRecord
BY DEF ReleaseRecord, StageOf

LEMMA ReserveCustodyAbstract == ASSUME IInv, NEW w \in Workers, ReserveCustody(w) PROVE AbstractStep
<1>1. PICK x : x = call[w].tx
  OBVIOUS
<1>2. x \in Txs /\ TransferOf[x] \in Transfers /\ TransferOf[x] \in approved
  BY <1>1, Busy DEF ReserveCustody, CallOK, ReserveOps
<1> DEFINE T == TransferOf[x]
<1>3. CASE CanReserveCustody(x) /\ custody[T] = NoRow
  <2>1. custody' = [custody EXCEPT ![T] = [tx |-> x, state |-> "reserved"]]
    BY <1>1, <1>3 DEF ReserveCustody, Reserved
  <2>2. intents' = intents /\ approved' = approved
    BY <1>1, <1>3 DEF ReserveCustody
  <2>3. intents[T] = NoRow /\ R[T] = Release!Free
    BY <1>2, <1>3, Stages
  <2>4. custody'[T] = [tx |-> x, state |-> "reserved"] /\ \A t \in Transfers \ {T} : custody'[t] = custody[t]
    BY <1>2, <2>1 DEF IInv, TypeOK
  <2>5. StageOf(T)' = "held"
    BY <1>2, <2>2, <2>3, <2>4, CustodyAssumption DEF StageOf, NoRow
  <2>6. R' = [R EXCEPT ![T] = [tx |-> x, stage |-> "held"]]
    BY <1>2, <2>2, <2>4, <2>5, RecordStep
  <2>7. \A t \in Transfers : R[t] # Release!Free => SlotOf[R[t].tx] # SlotOf[x]
    <3> SUFFICES ASSUME NEW t \in Transfers, R[t] # Release!Free PROVE SlotOf[R[t].tx] # SlotOf[x]
      OBVIOUS
    <3>1. custody[t] # NoRow /\ R[t].tx = custody[t].tx
      BY Stages
    <3> QED BY <1>2, <1>3, <3>1, CustodyAssumption DEF CanReserveCustody, NoRow
  <2> QED BY <1>2, <2>2, <2>3, <2>6, <2>7 DEF AbstractStep, Release!Next, Release!Hold, R
<1>4. CASE ~(CanReserveCustody(x) /\ custody[T] = NoRow)
  <2>1. UNCHANGED <<custody, intents, approved>>
    BY <1>1, <1>4 DEF ReserveCustody, Reserved
  <2> QED BY <2>1, SameJournals DEF AbstractStep
<1> QED
  BY <1>3, <1>4

(* Reserving the intent of custody that is held makes the promise.           *)
LEMMA IntentReservedAbstract ==
  ASSUME IInv, NEW x \in Txs, custody[TransferOf[x]].tx = x, CanReserveIntent(x),
         intents' = Reserved(intents, x), UNCHANGED <<custody, approved>>
  PROVE  AbstractStep
<1> DEFINE T == TransferOf[x]
<1>1. T \in Transfers /\ x # Null /\ custody[T] # NoRow /\ custody[T].state \in {"reserved", "uncertain"}
  <2>1. T \in Transfers /\ x # Null
    BY CustodyAssumption
  <2>2. custody[T] # NoRow
    BY <2>1 DEF NoRow
  <2> QED BY <2>1, <2>2, Stages
<1>2. CASE intents[T] # NoRow
  BY <1>2, SameJournals DEF Reserved, AbstractStep
<1>3. CASE intents[T] = NoRow
  <2>1. intents'[T] = [tx |-> x, state |-> "reserved"] /\ \A t \in Transfers \ {T} : intents'[t] = intents[t]
    BY <1>1, <1>3 DEF Reserved, IInv, TypeOK
  <2>2. R' = [R EXCEPT ![T] = [tx |-> x, stage |-> StageOf(T)']] /\ R[T] = [tx |-> x, stage |-> StageOf(T)]
    BY <1>1, <2>1, RecordStep, Stages
  <2>3. CASE custody[T].state = "uncertain"
    <3>1. StageOf(T)' = StageOf(T)
      BY <1>1, <1>3, <2>1, <2>3 DEF StageOf, NoRow
    <3>2. R' = R
      BY <1>1, <2>2, <3>1 DEF R, ReleaseRecord
    <3> QED BY <3>2 DEF AbstractStep, R
  <2>4. CASE custody[T].state = "reserved"
    <3>1. StageOf(T) = "held" /\ StageOf(T)' = "promised"
      BY <1>1, <1>3, <2>1, <2>4 DEF StageOf, NoRow
    <3>2. R' = [R EXCEPT ![T] = [tx |-> R[T].tx, stage |-> "promised"]] /\ R[T].stage = "held"
      BY <2>2, <3>1
    <3> QED BY <1>1, <3>2 DEF AbstractStep, Release!Next, Release!Promise, Release!Advance, R
  <2> QED BY <1>1, <2>3, <2>4
<1> QED
  BY <1>2, <1>3

LEMMA CustodyMarkedAbstract ==
  ASSUME IInv, NEW x \in Txs, custody[TransferOf[x]].tx = x,
         custody' = Marked(custody, x), UNCHANGED <<intents, approved>>
  PROVE  AbstractStep
<1> DEFINE T == TransferOf[x]
<1>1. T \in Transfers /\ x # Null /\ custody[T] # NoRow /\ custody[T].state \in {"reserved", "uncertain"}
  <2>1. T \in Transfers /\ x # Null
    BY CustodyAssumption
  <2>2. custody[T] # NoRow
    BY <2>1 DEF NoRow
  <2> QED BY <2>1, <2>2, Stages
<1>2. /\ custody'[T] = [tx |-> x, state |-> "uncertain"]
      /\ \A t \in Transfers \ {T} : custody'[t] = custody[t]
  BY <1>1, MarkedTable, IInvParts DEF JournalsOK
<1>3. R' = [R EXCEPT ![T] = [tx |-> x, stage |-> StageOf(T)']] /\ R[T] = [tx |-> x, stage |-> StageOf(T)]
  BY <1>1, <1>2, RecordStep, Stages
<1>4. CASE custody[T].state = "uncertain"
  <2>1. StageOf(T)' = StageOf(T)
    BY <1>1, <1>2, <1>4 DEF StageOf, NoRow
  <2>2. R' = R
    BY <1>1, <1>3, <2>1 DEF R, ReleaseRecord
  <2> QED BY <2>2 DEF AbstractStep, R
<1>5. CASE custody[T].state = "reserved"
  <2>1. intents[T].state # "uncertain"
    BY <1>1, <1>5 DEF IInv, DoubtReachesCustodyFirst
  <2>2. StageOf(T) \in {"held", "promised"} /\ StageOf(T)' = "doubted"
    BY <1>1, <1>2, <1>5, <2>1 DEF StageOf, NoRow
  <2>3. R' = [R EXCEPT ![T] = [tx |-> R[T].tx, stage |-> "doubted"]] /\ R[T].stage \in {"held", "promised"}
    BY <1>3, <2>2
  <2> QED BY <1>1, <2>3 DEF AbstractStep, Release!Next, Release!Doubt, Release!Advance, R
<1> QED
  BY <1>1, <1>4, <1>5

LEMMA IntentMarkedAbstract ==
  ASSUME IInv, NEW x \in Txs, custody[TransferOf[x]].tx = x, custody[TransferOf[x]].state = "uncertain",
         intents[TransferOf[x]].tx = x, intents' = Marked(intents, x), UNCHANGED <<custody, approved>>
  PROVE  AbstractStep
<1> DEFINE T == TransferOf[x]
<1>1. T \in Transfers /\ x # Null /\ custody[T] # NoRow
  BY CustodyAssumption DEF NoRow
<1>2. /\ intents'[T] = [tx |-> x, state |-> "uncertain"]
      /\ \A t \in Transfers \ {T} : intents'[t] = intents[t]
  BY <1>1, MarkedTable, IInvParts DEF JournalsOK
<1>3. R' = [R EXCEPT ![T] = [tx |-> x, stage |-> "quarantined"]] /\ R[T] = [tx |-> x, stage |-> StageOf(T)]
  <2>1. StageOf(T)' = "quarantined"
    BY <1>1, <1>2 DEF StageOf
  <2> QED BY <1>1, <1>2, <2>1, RecordStep, Stages
<1>4. StageOf(T) \in {"doubted", "quarantined"}
  BY <1>1 DEF StageOf
<1>5. CASE StageOf(T) = "quarantined"
  <2>1. R' = R
    BY <1>1, <1>3, <1>5 DEF R, ReleaseRecord
  <2> QED BY <2>1 DEF AbstractStep, R
<1>6. CASE StageOf(T) = "doubted"
  <2>1. R' = [R EXCEPT ![T] = [tx |-> R[T].tx, stage |-> "quarantined"]] /\ R[T].stage \in {"doubted"}
    BY <1>3, <1>6
  <2> QED BY <1>1, <2>1 DEF AbstractStep, Release!Next, Release!Quarantine, Release!Advance, R
<1> QED
  BY <1>4, <1>5, <1>6

LEMMA NextAbstract == ASSUME IInv, [Next]_vars PROVE AbstractStep
<1>1. ASSUME NEW w \in Workers, ReserveCustody(w) PROVE AbstractStep
  BY <1>1, ReserveCustodyAbstract
<1>2. ASSUME NEW w \in Workers, ReserveIntent(w) \/ AdoptIntent(w) PROVE AbstractStep
  <2>1. call[w].tx \in Txs /\ custody[TransferOf[call[w].tx]].tx = call[w].tx
    BY <1>2, Busy DEF ReserveIntent, AdoptIntent, CallOK, Ops, ReserveOps
  <2>2. CASE CanReserveIntent(call[w].tx)
    BY <1>2, <2>1, <2>2, IntentReservedAbstract DEF ReserveIntent, AdoptIntent
  <2>3. CASE ~CanReserveIntent(call[w].tx)
    BY <1>2, <2>3, SameJournals DEF ReserveIntent, AdoptIntent, AbstractStep
  <2> QED BY <2>2, <2>3
<1>3. ASSUME NEW w \in Workers, MarkCustody(w) \/ QuarantineCustody(w) PROVE AbstractStep
  <2>1. call[w].tx \in Txs /\ custody[TransferOf[call[w].tx]].tx = call[w].tx
    BY <1>3, Busy DEF MarkCustody, QuarantineCustody, CallOK, Ops, ReserveOps
  <2> QED BY <1>3, <2>1, CustodyMarkedAbstract DEF MarkCustody, QuarantineCustody
<1>4. ASSUME NEW w \in Workers, MarkIntent(w) \/ QuarantineIntent(w) PROVE AbstractStep
  <2>1. /\ call[w].tx \in Txs /\ custody[TransferOf[call[w].tx]].tx = call[w].tx
        /\ custody[TransferOf[call[w].tx]].state = "uncertain" /\ intents[TransferOf[call[w].tx]].tx = call[w].tx
    BY <1>4, Busy DEF MarkIntent, QuarantineIntent, CallOK, Ops, ReserveOps
  <2> QED BY <1>4, <2>1, IntentMarkedAbstract DEF MarkIntent, QuarantineIntent
<1>5. ASSUME NEW t \in Transfers, MoveOn(t) PROVE AbstractStep
  BY <1>5, SameJournals DEF MoveOn, AbstractStep, Release!Next, Release!MoveOn
<1>6. ASSUME UNCHANGED <<approved, custody, intents>> PROVE AbstractStep
  BY <1>6, SameJournals DEF AbstractStep
<1> QED
  BY <1>1, <1>2, <1>3, <1>4, <1>5, <1>6
  DEF Next, vars, BeginReserve, BeginQuarantine, Commit, Fail

(* Two journals and a store, with no transaction spanning them and writers   *)
(* that interleave, fail and die, implement one atomic record of releases.   *)
THEOREM CustodyImplements == Spec => ImplementsCustody
<1>1. Init => Release!Init
  BY DEF Init, Release!Init, Release!Free, ReleaseRecord, StageOf, NoRow
<1>2. IInv /\ [Next]_vars => AbstractStep
  BY NextAbstract
<1> QED
  BY CustodyInvariant, <1>1, <1>2, PTL DEF Spec, ImplementsCustody, Release!Spec, AbstractStep

-------------------------------------------------------------------------------
(***************************************************************************)
(* JournalOpen for any number of processes, files, bindings and intents.   *)
(* What a constructor looked at some steps ago may be another file now.    *)
(* Unless the operator puts the very file back, one that has left the path *)
(* does not return to it while the process lives, so a second look that    *)
(* finds the pinned file finds what SQLite opened in between.  ProcOK says *)
(* what each stage may rely on.                                            *)
(***************************************************************************)

HasConn == {"opened", "verified", "locked", "wal", "rechecked", "sync", "open", "reserving"}
Trusted == HasConn \ {"opened"}
Ready   == Trusted \ {"verified", "locked"}

Bound(c) == db[c.conn].kind = "journal" /\ db[c.conn].binding = c.binding

ProcOK(p, c) ==
  /\ c.pc # "idle" => c.pinned \in Files /\ db[c.pinned] # Unused /\ c.binding \in Bindings
  /\ c.pc \in HasConn => c.conn \in Files /\ db[c.conn] # Unused
  /\ c.pc = "opened" => c.conn = c.pinned \/ entry # c.pinned \/ c.back
  /\ c.pc \in Trusted => c.conn = c.pinned \/ c.back
  /\ c.pc \in HasConn => entry = c.conn \/ c.conn \in moved
  /\ c.pc = "locked" => lock[c.conn] = p /\ (Bound(c) \/ (c.fresh /\ db[c.conn] = Empty))
  /\ c.pc \in Ready => Bound(c)

ProcsOK == \A p \in Procs : ProcOK(p, proc[p])

EntriesUsed == \A f \in {entry, diskEntry} \cup moved : f # None => db[f] # Unused

FilesOK == \A f \in initialized :
  /\ db[f].kind = "journal"
  /\ f \notin moved => entry = f /\ diskEntry = f

ReportedKept == \A f \in Files, i \in Intents : <<f, i>> \in reported => i \in db[f].rows

JournalInv == JournalTypeOK /\ ProcsOK /\ EntriesUsed /\ FilesOK /\ ReportedKept

-------------------------------------------------------------------------------
(* What any step leaves to a process that does not take it.                  *)
Frame(q) ==
  /\ \A f \in Files : db[f] # Unused => db'[f] # Unused
  /\ \A f \in Files : db[f].kind = "journal" => db'[f].kind = "journal" /\ db'[f].binding = db[f].binding
  /\ \A f \in Files : db[f] # Unused /\ entry # f => entry' # f
  /\ entry \in Files => entry' = entry \/ entry \in moved'
  /\ moved \subseteq moved'
  /\ \A f \in Files : lock[f] = q => lock'[f] = q /\ (db[f] = Empty => db'[f] = Empty)

LEMMA ContentKinds ==
  ASSUME NEW c \in Contents
  PROVE  /\ c = Unused <=> c.kind = "unused"
         /\ c = Empty <=> c.kind = "empty"
         /\ c = Foreign <=> c.kind = "foreign"
         /\ c.kind = "journal" => c = Journal(c.binding, c.rows) /\ c.binding \in Bindings /\ c.rows \in SUBSET Intents
BY DEF Contents, Unused, Empty, Foreign, Journal

LEMMA JournalContent ==
  ASSUME NEW b \in Bindings, NEW rows \in SUBSET Intents
  PROVE  /\ Journal(b, rows) \in Contents
         /\ \A i \in Intents : [Journal(b, rows) EXCEPT !.rows = @ \cup {i}] = Journal(b, rows \cup {i})
BY DEF Journal, Contents

LEMMA FramedProcess ==
  ASSUME JournalTypeOK, NEW q \in Procs, ProcOK(q, proc[q]), Frame(q), proc'[q] = proc[q]
  PROVE  ProcOK(q, proc[q])'
<1> DEFINE c == proc[q]
<1>1. c \in Processes
  BY DEF JournalTypeOK
<1>2. c.pc \in HasConn => c.conn \in Files
  BY DEF ProcOK
<1>3. c.pc # "idle" => c.pinned \in Files /\ db'[c.pinned] # Unused /\ c.binding \in Bindings
  BY DEF ProcOK, Frame
<1>4. c.pc \in HasConn => db'[c.conn] # Unused
  BY DEF ProcOK, Frame
<1>5. c.pc = "opened" => c.conn = c.pinned \/ entry' # c.pinned \/ c.back
  BY DEF ProcOK, Frame
<1>6. c.pc \in Trusted => c.conn = c.pinned \/ c.back
  BY DEF ProcOK
<1>7. c.pc = "locked" => lock'[c.conn] = q /\ (Bound(c)' \/ (c.fresh /\ db'[c.conn] = Empty))
  BY <1>2 DEF ProcOK, Frame, Bound, HasConn
<1>8. c.pc \in Ready => Bound(c)'
  BY <1>2 DEF ProcOK, Frame, Bound, HasConn, Trusted, Ready
<1>9. c.pc \in HasConn => entry' = c.conn \/ c.conn \in moved'
  BY <1>2 DEF ProcOK, Frame, HasConn
<1> QED
  BY <1>2, <1>3, <1>4, <1>5, <1>6, <1>7, <1>8, <1>9 DEF ProcOK, Bound

LEMMA ToTyped ==
  ASSUME JournalTypeOK, NEW p \in Procs, NEW pc \in Opening \cup Open, To(p, pc)
  PROVE  proc' \in [Procs -> Processes]
BY DEF JournalTypeOK, Processes, To

LEMMA CloseTyped ==
  ASSUME JournalTypeOK, NEW p \in Procs, Close(p)
  PROVE  proc' \in [Procs -> Processes] /\ lock' \in [Files -> Procs \cup {None}]
<1>1. NotOpen \in Processes
  BY DEF NotOpen, Processes
<1> QED BY <1>1 DEF JournalTypeOK, Close

(* Every step of p, by the stage it starts from and what it does.            *)
LEMMA TypeStep == JournalTypeOK /\ ProcsOK /\ [JournalNext]_journalVars => JournalTypeOK'
<1> SUFFICES ASSUME JournalTypeOK, ProcsOK, [JournalNext]_journalVars PROVE JournalTypeOK'
  OBVIOUS
<1> USE JournalAssumption
<1>1. ASSUME NEW p \in Procs, Step(p) PROVE JournalTypeOK'
  <2>0. proc[p] \in Processes /\ ProcOK(p, proc[p])
    BY DEF JournalTypeOK, ProcsOK
  <2> USE DEF JournalTypeOK, Opening, Open
  <2>1. ASSUME NEW b \in Bindings, CreateFile(p, b) PROVE JournalTypeOK'
    BY <2>1 DEF CreateFile, Processes, Contents, Empty
  <2>2. ASSUME NEW b \in Bindings, PinExisting(p, b) PROVE JournalTypeOK'
    BY <2>2 DEF PinExisting, Processes
  <2>3. CASE OpenDatabase(p)
    <3>1. CASE entry # None
      BY <2>0, <2>3, <3>1 DEF OpenDatabase, Processes
    <3>2. CASE entry = None
      <4>1. PICK f \in Files : db' = [db EXCEPT ![f] = Empty] /\ entry' = f
                               /\ proc' = [proc EXCEPT ![p].pc = "opened", ![p].conn = f]
        BY <2>3, <3>2 DEF OpenDatabase
      <4>2. Empty \in Contents
        BY DEF Contents
      <4>3. proc' \in [Procs -> Processes]
        BY <2>0, <4>1 DEF Processes
      <4> QED BY <2>3, <4>1, <4>2, <4>3 DEF OpenDatabase
    <3> QED BY <3>1, <3>2
  <2>4. CASE VerifyOpened(p)
    <3>1. CASE To(p, "verified") /\ UNCHANGED lock
      BY <2>4, <3>1, ToTyped DEF VerifyOpened
    <3>2. CASE Close(p)
      BY <2>4, <3>2, CloseTyped DEF VerifyOpened
    <3> QED BY <2>4, <3>1, <3>2 DEF VerifyOpened, Verify
  <2>5. CASE BeginAndValidate(p)
    <3>1. proc[p].conn \in Files
      BY <2>0, <2>5 DEF BeginAndValidate, ProcOK, HasConn
    <3>2. CASE Acceptable(p)
      BY <2>5, <3>1, <3>2, ToTyped DEF BeginAndValidate
    <3>3. CASE ~Acceptable(p)
      BY <2>5, <3>3, CloseTyped DEF BeginAndValidate
    <3> QED BY <3>2, <3>3
  <2>6. CASE CommitOpening(p)
    <3>1. proc[p].binding \in Bindings /\ proc[p].conn \in Files
      BY <2>0, <2>6 DEF CommitOpening, ProcOK, HasConn
    <3>2. db' \in [Files -> Contents]
      BY <2>6, <3>1, JournalContent DEF CommitOpening
    <3> QED BY <2>6, <3>1, <3>2, ToTyped DEF CommitOpening
  <2>7. CASE SwitchToWAL(p)
    BY <2>7, ToTyped DEF SwitchToWAL
  <2>8. CASE VerifyAgain(p)
    <3> DEFINE next == IF proc[p].fresh THEN "sync" ELSE "open"
    <3>1. next \in Opening \cup Open
      OBVIOUS
    <3>2. CASE To(p, next) /\ UNCHANGED lock
      BY <2>8, <3>1, <3>2, ToTyped DEF VerifyAgain
    <3>3. CASE Close(p)
      BY <2>8, <3>3, CloseTyped DEF VerifyAgain
    <3> QED BY <2>8, <3>2, <3>3 DEF VerifyAgain, Verify
  <2>9. CASE SyncCreation(p)
    BY <2>0, <2>9, ToTyped DEF SyncCreation, ProcOK, HasConn
  <2>10. CASE VerifyAndReserve(p)
    BY <2>10, ToTyped DEF VerifyAndReserve
  <2>11. ASSUME NEW i \in Intents, Reserve(p, i) PROVE JournalTypeOK'
    <3>1. proc[p].conn \in Files /\ db[proc[p].conn].kind = "journal"
      BY <2>0, <2>11 DEF Reserve, ProcOK, HasConn, Trusted, Ready, Bound
    <3>2. [db[proc[p].conn] EXCEPT !.rows = @ \cup {i}] \in Contents
      <4>1. PICK b \in Bindings, rows \in SUBSET Intents : db[proc[p].conn] = Journal(b, rows)
        BY <3>1, ContentKinds
      <4>2. Journal(b, rows \cup {i}) \in Contents
        BY JournalContent
      <4>3. [Journal(b, rows) EXCEPT !.rows = @ \cup {i}] = Journal(b, rows \cup {i})
        BY JournalContent
      <4> QED BY <4>1, <4>2, <4>3
    <3>3. db' \in [Files -> Contents]
      BY <2>11, <3>1, <3>2 DEF Reserve
    <3> QED BY <2>11, <3>1, <3>3, ToTyped DEF Reserve
  <2>12. CASE ReserveThrows(p)
    BY <2>12, ToTyped DEF ReserveThrows
  <2>13. CASE Quit(p)
    BY <2>13, CloseTyped DEF Quit
  <2> QED
    BY <1>1, <2>1, <2>2, <2>3, <2>4, <2>5, <2>6, <2>7, <2>8, <2>9, <2>10, <2>11, <2>12, <2>13 DEF Step
<1>2. CASE Replace
  <2>1. \A b \in Bindings : Journal(b, {}) \in Contents
    BY DEF Journal, Contents
  <2>2. Empty \in Contents /\ Foreign \in Contents
    BY DEF Contents
  <2>3. db' \in [Files -> Contents] /\ entry' \in Files \cup {None} /\ entry \in Files
    BY <1>2, <2>1, <2>2 DEF Replace, JournalTypeOK
  <2> QED BY <1>2, <2>3 DEF Replace, JournalTypeOK
<1>3. CASE PutBack
  <2>1. PICK f \in moved : proc' = [p \in Procs |-> [proc[p] EXCEPT !.back = @ \/ proc[p].pinned = f]]
    BY <1>3 DEF PutBack
  <2>2. ASSUME NEW p \in Procs PROVE [proc[p] EXCEPT !.back = @ \/ proc[p].pinned = f] \in Processes
    <3>1. ASSUME NEW b \in BOOLEAN PROVE [proc[p] EXCEPT !.back = b] \in Processes
      BY DEF JournalTypeOK, Processes
    <3>2. (proc[p].back \/ proc[p].pinned = f) \in BOOLEAN
      BY Zenon
    <3> QED BY <3>1, <3>2
  <2>3. proc' \in [Procs -> Processes]
    BY <2>1, <2>2, Zenon
  <2> QED BY <1>3, <2>3 DEF PutBack, JournalTypeOK
<1>4. CASE PowerLoss
  BY <1>4 DEF PowerLoss, JournalTypeOK, Processes, NotOpen
<1>5. CASE UNCHANGED journalVars
  BY <1>5 DEF journalVars, JournalTypeOK
<1> QED
  BY <1>1, <1>2, <1>3, <1>4, <1>5 DEF JournalNext

-------------------------------------------------------------------------------
(* What a step leaves to the other processes.  Only a commit and a           *)
(* reservation write a file in use, and both keep what a lock or a binding   *)
(* protects.                                                                 *)
LEMMA FrameStep ==
  ASSUME JournalTypeOK, ProcsOK, EntriesUsed, NEW p \in Procs, NEW q \in Procs \ {p}, Step(p)
  PROVE  Frame(q) /\ proc'[q] = proc[q]
<1> USE JournalAssumption
<1>0. proc[p] \in Processes /\ ProcOK(p, proc[p]) /\ p # None /\ q # None
  BY DEF JournalTypeOK, ProcsOK
<1>1. (\E pc \in Opening \cup Open : To(p, pc)) \/ Close(p) => proc'[q] = proc[q]
  BY DEF To, Close, JournalTypeOK
<1>2. Close(p) \/ UNCHANGED lock => \A f \in Files : lock[f] = q => lock'[f] = q
  BY DEF Close, JournalTypeOK
<1>3. UNCHANGED <<entry, db, moved>> /\ (\A f \in Files : lock[f] = q => lock'[f] = q) => Frame(q)
  BY DEF Frame
<1>4. \A f \in Files : db[f] = Unused => entry # f /\ db[f].kind # "journal" /\ db[f] # Empty
  BY DEF EntriesUsed, Unused, Empty
<1>5. ASSUME NEW b \in Bindings, CreateFile(p, b) PROVE Frame(q) /\ proc'[q] = proc[q]
  <2>1. PICK f \in Files : db[f] = Unused /\ db' = [db EXCEPT ![f] = Empty] /\ entry' = f
    BY <1>5 DEF CreateFile
  <2>2. entry = None /\ UNCHANGED <<lock, moved>> /\ proc'[q] = proc[q]
    BY <1>5 DEF CreateFile, JournalTypeOK
  <2>3. Empty # Unused
    BY DEF Empty, Unused
  <2> QED BY <1>4, <2>1, <2>2, <2>3 DEF Frame, JournalTypeOK
<1>6. ASSUME NEW b \in Bindings, PinExisting(p, b) PROVE Frame(q) /\ proc'[q] = proc[q]
  BY <1>3, <1>6 DEF PinExisting, JournalTypeOK
<1>7. CASE OpenDatabase(p)
  <2>1. proc'[q] = proc[q] /\ UNCHANGED <<lock, moved>>
    BY <1>7 DEF OpenDatabase, JournalTypeOK
  <2>2. CASE entry # None
    BY <1>3, <1>7, <2>1, <2>2 DEF OpenDatabase
  <2>3. CASE entry = None
    <3>1. PICK f \in Files : db[f] = Unused /\ db' = [db EXCEPT ![f] = Empty] /\ entry' = f
      BY <1>7, <2>3 DEF OpenDatabase
    <3>2. Empty # Unused
      BY DEF Empty, Unused
    <3> QED BY <1>4, <2>1, <2>3, <3>1, <3>2 DEF Frame, JournalTypeOK
  <2> QED BY <2>2, <2>3
<1>8. CASE VerifyOpened(p)
  BY <1>1, <1>2, <1>3, <1>8 DEF VerifyOpened, Verify, Opening, Open
<1>9. CASE BeginAndValidate(p)
  <2>1. proc[p].conn \in Files
    BY <1>0, <1>9 DEF BeginAndValidate, ProcOK, HasConn
  <2>2. \A f \in Files : lock[f] = q => lock'[f] = q
    BY <1>0, <1>2, <1>9, <2>1 DEF BeginAndValidate, JournalTypeOK
  <2> QED BY <1>1, <1>3, <1>9, <2>2 DEF BeginAndValidate, Opening, Open
<1>10. CASE CommitOpening(p)
  <2> DEFINE F == proc[p].conn
  <2>1. F \in Files /\ lock[F] = p /\ proc[p].binding \in Bindings
    BY <1>0, <1>10 DEF CommitOpening, ProcOK, HasConn
  <2>2. \A f \in Files : lock[f] = q => f # F /\ lock'[f] = q
    BY <1>10, <2>1 DEF CommitOpening, JournalTypeOK
  <2>3. \A f \in Files : f # F \/ db[F].kind # "empty" => db'[f] = db[f]
    BY <1>10, <2>1 DEF CommitOpening, JournalTypeOK
  <2>4. db[F].kind = "empty" => db'[F] = Journal(proc[p].binding, {})
    BY <1>10, <2>1 DEF CommitOpening, JournalTypeOK
  <2>5. Journal(proc[p].binding, {}) # Unused
    BY DEF Journal, Unused
  <2> QED BY <1>1, <1>10, <2>1, <2>2, <2>3, <2>4, <2>5 DEF CommitOpening, Frame, Opening, Open
<1>11. CASE SwitchToWAL(p)
  BY <1>1, <1>2, <1>3, <1>11 DEF SwitchToWAL, Opening, Open
<1>12. CASE VerifyAgain(p)
  <2>1. proc'[q] = proc[q]
    BY <1>1, <1>12 DEF VerifyAgain, Verify, Opening, Open
  <2> QED BY <1>2, <1>3, <1>12, <2>1 DEF VerifyAgain, Verify
<1>13. CASE SyncCreation(p)
  BY <1>1, <1>2, <1>3, <1>13 DEF SyncCreation, Opening, Open
<1>14. CASE VerifyAndReserve(p)
  BY <1>1, <1>2, <1>3, <1>14 DEF VerifyAndReserve, Opening, Open
<1>15. ASSUME NEW i \in Intents, Reserve(p, i) PROVE Frame(q) /\ proc'[q] = proc[q]
  <2> DEFINE F == proc[p].conn
  <2>1. F \in Files /\ db[F].kind = "journal" /\ db[F] \in Contents
    BY <1>0, <1>15 DEF Reserve, ProcOK, HasConn, Trusted, Ready, Bound, JournalTypeOK
  <2>2. db' = [db EXCEPT ![F] = [db[F] EXCEPT !.rows = @ \cup {i}]]
    BY <1>15, <2>1 DEF Reserve, JournalTypeOK
  <2>3. /\ \A f \in Files : f # F => db'[f] = db[f]
        /\ db'[F].kind = "journal" /\ db'[F].binding = db[F].binding
    <3>1. PICK b \in Bindings, rows \in SUBSET Intents : db[F] = Journal(b, rows)
      BY <2>1, ContentKinds
    <3>2. db'[F] = Journal(b, rows \cup {i})
      BY <2>1, <2>2, <3>1, JournalContent DEF JournalTypeOK
    <3> QED BY <2>1, <2>2, <3>1, <3>2 DEF Journal, JournalTypeOK
  <2>4. db[F] # Empty /\ db'[F] # Unused
    BY <2>1, <2>3 DEF Empty, Unused
  <2> QED BY <1>1, <1>15, <2>1, <2>3, <2>4 DEF Reserve, Frame, Opening, Open
<1>16. CASE ReserveThrows(p)
  BY <1>1, <1>2, <1>3, <1>16 DEF ReserveThrows, Opening, Open
<1>17. CASE Quit(p)
  BY <1>1, <1>2, <1>3, <1>17 DEF Quit
<1> QED
  BY <1>5, <1>6, <1>7, <1>8, <1>9, <1>10, <1>11, <1>12, <1>13, <1>14, <1>15, <1>16, <1>17 DEF Step

(* What the step establishes for the process that takes it.                  *)
LEMMA OwnStep ==
  ASSUME JournalTypeOK, ProcsOK, EntriesUsed, NEW p \in Procs, Step(p)
  PROVE  ProcOK(p, proc[p])'
<1> USE JournalAssumption
<1> DEFINE c == proc[p]
<1>0. c \in Processes /\ ProcOK(p, c) /\ db \in [Files -> Contents] /\ lock \in [Files -> Procs \cup {None}]
  BY DEF JournalTypeOK, ProcsOK
<1>1. ASSUME NEW pc \in Opening \cup Open, To(p, pc)
      PROVE  c' = [c EXCEPT !.pc = pc]
  BY <1>1 DEF To, JournalTypeOK
<1>2. ASSUME Close(p) PROVE ProcOK(p, proc[p])'
  <2>1. c' = NotOpen
    BY <1>2 DEF Close, JournalTypeOK
  <2> QED BY <2>1 DEF ProcOK, NotOpen, HasConn, Trusted, Ready
<1>3. Empty # Unused
  BY DEF Empty, Unused
<1>4. ASSUME NEW b \in Bindings, CreateFile(p, b) PROVE ProcOK(p, proc[p])'
  <2>1. PICK f \in Files : db' = [db EXCEPT ![f] = Empty]
          /\ c' = [pc |-> "pinned", fresh |-> TRUE, binding |-> b, pinned |-> f, conn |-> None, back |-> FALSE]
    BY <1>4 DEF CreateFile, JournalTypeOK
  <2> QED BY <1>0, <1>3, <2>1 DEF ProcOK, HasConn, Trusted, Ready
<1>5. ASSUME NEW b \in Bindings, PinExisting(p, b) PROVE ProcOK(p, proc[p])'
  <2>1. c' = [pc |-> "pinned", fresh |-> FALSE, binding |-> b, pinned |-> entry, conn |-> None, back |-> FALSE]
    BY <1>5 DEF PinExisting, JournalTypeOK
  <2>2. entry \in Files /\ db'[entry] # Unused
    BY <1>5 DEF PinExisting, JournalTypeOK, EntriesUsed
  <2> QED BY <2>1, <2>2 DEF ProcOK, HasConn, Trusted, Ready
<1>6. CASE OpenDatabase(p)
  <2>1. PICK f \in Files : c' = [c EXCEPT !.pc = "opened", !.conn = f] /\ entry' = f /\ db'[f] # Unused
                           /\ (\A g \in Files : db[g] # Unused => db'[g] # Unused)
    <3>1. CASE entry # None
      BY <1>6, <3>1 DEF OpenDatabase, JournalTypeOK, EntriesUsed
    <3>2. CASE entry = None
      <4>1. PICK f \in Files : db' = [db EXCEPT ![f] = Empty] /\ entry' = f
                               /\ proc' = [proc EXCEPT ![p].pc = "opened", ![p].conn = f]
        BY <1>6, <3>2 DEF OpenDatabase
      <4>2. db'[f] = Empty /\ \A g \in Files : g # f => db'[g] = db[g]
        BY <1>0, <4>1
      <4>3. c' = [c EXCEPT !.pc = "opened", !.conn = f]
        BY <4>1 DEF JournalTypeOK
      <4> QED BY <1>3, <4>1, <4>2, <4>3
    <3> QED BY <3>1, <3>2
  <2>2. c.pinned \in Files /\ db[c.pinned] # Unused /\ c.binding \in Bindings
    BY <1>0, <1>6 DEF OpenDatabase, ProcOK
  <2> QED BY <1>0, <2>1, <2>2 DEF ProcOK, Processes, HasConn, Trusted, Ready
<1>7. CASE VerifyOpened(p)
  <2>1. CASE entry = c.pinned
    <3>1. c' = [c EXCEPT !.pc = "verified"] /\ UNCHANGED <<entry, moved, db>>
      BY <1>1, <1>7, <2>1 DEF VerifyOpened, Verify, Opening
    <3> QED BY <1>0, <1>7, <2>1, <3>1 DEF VerifyOpened, ProcOK, Processes, HasConn, Trusted, Ready
  <2>2. CASE entry # c.pinned
    BY <1>2, <1>7, <2>2 DEF VerifyOpened, Verify
  <2> QED BY <2>1, <2>2
<1>8. CASE BeginAndValidate(p)
  <2>1. c.conn \in Files /\ c.pc = "verified"
    BY <1>0, <1>8 DEF BeginAndValidate, ProcOK, HasConn
  <2>2. CASE Acceptable(p)
    <3>1. c' = [c EXCEPT !.pc = "locked"] /\ UNCHANGED <<entry, moved, db>> /\ lock'[c.conn] = p
      BY <1>0, <1>1, <1>8, <2>1, <2>2 DEF BeginAndValidate, Opening
    <3>2. Bound(c) \/ (c.fresh /\ db[c.conn] = Empty)
      BY <2>1, <2>2, ContentKinds DEF Acceptable, Bound, JournalTypeOK
    <3> QED BY <1>0, <2>1, <3>1, <3>2 DEF ProcOK, Processes, Bound, HasConn, Trusted, Ready
  <2>3. CASE ~Acceptable(p)
    BY <1>2, <1>8, <2>3 DEF BeginAndValidate
  <2> QED BY <2>2, <2>3
<1>9. CASE CommitOpening(p)
  <2>1. c.conn \in Files /\ c.pc = "locked" /\ (c.conn = c.pinned \/ c.back) /\ db[c.conn] # Unused
    BY <1>0, <1>9 DEF CommitOpening, ProcOK, HasConn, Trusted
  <2>2. c' = [c EXCEPT !.pc = "wal"] /\ UNCHANGED <<entry, moved>>
    BY <1>1, <1>9 DEF CommitOpening, Opening
  <2>3. db'[c.conn].kind = "journal" /\ db'[c.conn].binding = c.binding
    BY <1>0, <1>9, <2>1, ContentKinds DEF CommitOpening, ProcOK, Bound, Journal, Empty
  <2>4. db'[c.conn] # Unused
    BY <2>3 DEF Unused
  <2>5. c.pinned \in Files /\ db'[c.pinned] # Unused /\ c.binding \in Bindings
    BY <1>0, <1>9, <2>1, <2>4 DEF CommitOpening, ProcOK
  <2> QED BY <1>0, <2>1, <2>2, <2>3, <2>4, <2>5 DEF ProcOK, Processes, Bound, HasConn, Trusted, Ready
<1>10. CASE SwitchToWAL(p)
  <2>1. c' = [c EXCEPT !.pc = "rechecked"] /\ UNCHANGED <<entry, moved, db>> /\ c.pc = "wal"
    BY <1>1, <1>10 DEF SwitchToWAL, Opening
  <2> QED BY <1>0, <2>1 DEF ProcOK, Processes, Bound, HasConn, Trusted, Ready
<1>11. CASE VerifyAgain(p)
  <2>1. CASE entry = c.pinned
    <3>1. PICK pc \in {"sync", "open"} : To(p, pc)
      BY <1>11, <2>1 DEF VerifyAgain, Verify
    <3>2. c' = [c EXCEPT !.pc = pc] /\ UNCHANGED <<entry, moved, db>> /\ c.pc = "rechecked"
      BY <1>1, <1>11, <3>1 DEF VerifyAgain, Opening, Open
    <3> QED BY <1>0, <2>1, <3>2 DEF ProcOK, Processes, Bound, HasConn, Trusted, Ready
  <2>2. CASE entry # c.pinned
    BY <1>2, <1>11, <2>2 DEF VerifyAgain, Verify
  <2> QED BY <2>1, <2>2
<1>12. CASE SyncCreation(p) \/ ReserveThrows(p)
  <2>1. c' = [c EXCEPT !.pc = "open"] /\ UNCHANGED <<entry, moved, db>> /\ c.pc \in Ready
    BY <1>1, <1>12 DEF SyncCreation, ReserveThrows, Open, Ready, Trusted, HasConn
  <2> QED BY <1>0, <2>1 DEF ProcOK, Processes, Bound, HasConn, Trusted, Ready
<1>13. CASE VerifyAndReserve(p)
  <2>1. c' = [c EXCEPT !.pc = "reserving"] /\ UNCHANGED <<entry, moved, db>> /\ c.pc = "open"
    BY <1>1, <1>13 DEF VerifyAndReserve, Open
  <2> QED BY <1>0, <2>1 DEF ProcOK, Processes, Bound, HasConn, Trusted, Ready
<1>14. ASSUME NEW i \in Intents, Reserve(p, i) PROVE ProcOK(p, proc[p])'
  <2>1. c' = [c EXCEPT !.pc = "open"] /\ c.pc = "reserving" /\ UNCHANGED <<entry, moved>>
    BY <1>1, <1>14 DEF Reserve, Open
  <2>2. c.conn \in Files /\ Bound(c) /\ (c.conn = c.pinned \/ c.back)
    BY <1>0, <2>1 DEF ProcOK, HasConn, Trusted, Ready
  <2>3. PICK b \in Bindings, rows \in SUBSET Intents : db[c.conn] = Journal(b, rows)
    BY <1>0, <2>2, ContentKinds DEF Bound
  <2>4. db'[c.conn] = Journal(b, rows \cup {i})
    BY <1>0, <1>14, <2>2, <2>3, JournalContent DEF Reserve
  <2>5. db'[c.conn].kind = "journal" /\ db'[c.conn].binding = db[c.conn].binding /\ db'[c.conn] # Unused
    BY <2>3, <2>4 DEF Journal, Unused
  <2>6. c.pinned \in Files /\ db'[c.pinned] # Unused /\ c.binding \in Bindings
    BY <1>0, <1>14, <2>1, <2>2, <2>5 DEF Reserve, ProcOK
  <2> QED BY <1>0, <2>1, <2>2, <2>5, <2>6 DEF ProcOK, Processes, Bound, HasConn, Trusted, Ready
<1>15. CASE Quit(p)
  BY <1>2, <1>15 DEF Quit
<1> QED
  BY <1>4, <1>5, <1>6, <1>7, <1>8, <1>9, <1>10, <1>11, <1>12, <1>13, <1>14, <1>15 DEF Step

LEMMA ProcsStep ==
  ASSUME JournalTypeOK, ProcsOK, EntriesUsed, [JournalNext]_journalVars
  PROVE  ProcsOK'
<1> USE JournalAssumption
<1>1. ASSUME NEW p \in Procs, Step(p), NEW q \in Procs PROVE ProcOK(q, proc[q])'
  <2>1. CASE q = p
    BY <1>1, <2>1, OwnStep
  <2>2. CASE q # p
    BY <1>1, <2>2, FrameStep, FramedProcess DEF ProcsOK
  <2> QED BY <2>1, <2>2
<1>2. ASSUME Replace, NEW q \in Procs PROVE ProcOK(q, proc[q])'
  <2>1. \A f \in Files : db[f] = Unused => entry # f /\ db[f].kind # "journal" /\ db[f] # Empty
    BY DEF EntriesUsed, Unused, Empty
  <2>2. Frame(q)
    <3>1. CASE entry' = None /\ UNCHANGED db
      BY <1>2, <3>1 DEF Replace, Frame, JournalTypeOK
    <3>2. CASE \E f \in Files, x \in {Empty, Foreign} \cup {Journal(b, {}) : b \in Bindings} :
                 db[f] = Unused /\ db' = [db EXCEPT ![f] = x] /\ entry' = f
      <4>1. PICK f \in Files, x \in {Empty, Foreign} \cup {Journal(b, {}) : b \in Bindings} :
                 db[f] = Unused /\ db' = [db EXCEPT ![f] = x] /\ entry' = f
        BY <3>2
      <4>2. x # Unused
        BY <4>1 DEF Empty, Foreign, Journal, Unused
      <4>3. db'[f] = x /\ \A g \in Files : g # f => db'[g] = db[g]
        BY <4>1 DEF JournalTypeOK
      <4> QED BY <1>2, <2>1, <4>1, <4>2, <4>3 DEF Replace, Frame
    <3> QED BY <1>2, <3>1, <3>2 DEF Replace
  <2> QED BY <1>2, <2>2, FramedProcess DEF Replace, ProcsOK
<1>3. ASSUME PutBack, NEW q \in Procs PROVE ProcOK(q, proc[q])'
  <2> DEFINE c == proc[q]
  <2>1. PICK f \in moved \ {entry} : entry' = f /\ c' = [c EXCEPT !.back = @ \/ c.pinned = f]
    BY <1>3 DEF PutBack
  <2>2. c \in Processes /\ ProcOK(q, c) /\ UNCHANGED <<db, lock>> /\ moved' = moved \cup ({entry} \ {None})
    BY <1>3 DEF PutBack, JournalTypeOK, ProcsOK
  <2>3. /\ c'.pc = c.pc /\ c'.fresh = c.fresh /\ c'.binding = c.binding /\ c'.pinned = c.pinned
        /\ c'.conn = c.conn /\ (c'.back <=> c.back \/ c.pinned = f)
    BY <2>1, <2>2 DEF Processes
  <2>4. c.pc \in HasConn => c.conn \in moved'
    BY <2>2 DEF ProcOK
  <2> QED BY <2>1, <2>2, <2>3, <2>4 DEF ProcOK, Bound
<1>4. ASSUME PowerLoss, NEW q \in Procs PROVE ProcOK(q, proc[q])'
  <2>1. proc'[q] = NotOpen
    BY <1>4 DEF PowerLoss
  <2> QED BY <2>1 DEF ProcOK, NotOpen, HasConn, Trusted, Ready
<1>5. ASSUME UNCHANGED journalVars, NEW q \in Procs PROVE ProcOK(q, proc[q])'
  <2>1. Frame(q)
    BY <1>5 DEF journalVars, Frame
  <2> QED BY <1>5, <2>1, FramedProcess DEF journalVars, ProcsOK
<1> QED
  BY <1>1, <1>2, <1>3, <1>4, <1>5 DEF JournalNext, ProcsOK

-------------------------------------------------------------------------------
(* A file in use changes by a commit that initializes it for its exclusive   *)
(* creator, or by a reservation; no other step writes it.                    *)
LEMMA FileKept ==
  ASSUME JournalTypeOK, ProcsOK, EntriesUsed, [JournalNext]_journalVars, NEW f \in Files, db[f] # Unused, db'[f] # db[f]
  PROVE  \/ /\ db[f].kind = "empty" /\ db'[f].kind = "journal"
            /\ \E p \in Procs : Creating(p, f)
         \/ \E i \in Intents :
              /\ db[f].kind = "journal" /\ db'[f].kind = "journal" /\ db'[f].binding = db[f].binding
              /\ db'[f].rows = db[f].rows \cup {i}
              /\ reported' = reported \cup {<<f, i>>}
<1> USE JournalAssumption
<1>0. db \in [Files -> Contents]
  BY DEF JournalTypeOK
<1>1. PICK p \in Procs : CommitOpening(p) \/ \E i \in Intents : Reserve(p, i)
  <2>1. ASSUME NEW p \in Procs, NEW b \in Bindings, CreateFile(p, b) PROVE FALSE
    BY <1>0, <2>1 DEF CreateFile
  <2>2. ASSUME NEW p \in Procs, OpenDatabase(p) PROVE FALSE
    BY <1>0, <2>2 DEF OpenDatabase
  <2>3. CASE Replace
    BY <1>0, <2>3 DEF Replace
  <2> QED
    BY <2>1, <2>2, <2>3 DEF JournalNext, Step, journalVars, PinExisting, VerifyOpened, BeginAndValidate, SwitchToWAL,
       VerifyAgain, SyncCreation, VerifyAndReserve, ReserveThrows, Quit, PutBack, PowerLoss
<1>2. proc[p].conn \in Files /\ ProcOK(p, proc[p])
  BY <1>1 DEF ProcsOK, ProcOK, HasConn, CommitOpening, Reserve
<1>3. CASE CommitOpening(p)
  <2>1. f = proc[p].conn /\ db[f].kind = "empty" /\ db'[f] = Journal(proc[p].binding, {})
    BY <1>0, <1>2, <1>3 DEF CommitOpening
  <2>2. proc[p].fresh /\ (proc[p].pinned = f \/ proc[p].back) /\ proc[p].conn = f
    BY <1>2, <1>3, <2>1 DEF CommitOpening, ProcOK, Bound, HasConn, Trusted
  <2> QED BY <2>1, <2>2 DEF Creating, Journal
<1>4. ASSUME NEW i \in Intents, Reserve(p, i)
      PROVE  /\ db[f].kind = "journal" /\ db'[f].kind = "journal" /\ db'[f].binding = db[f].binding
             /\ db'[f].rows = db[f].rows \cup {i}
             /\ reported' = reported \cup {<<f, i>>}
  <2>1. f = proc[p].conn /\ db[f].kind = "journal"
    BY <1>0, <1>2, <1>4 DEF Reserve, ProcOK, Bound, HasConn, Trusted, Ready
  <2>2. PICK b \in Bindings, rows \in SUBSET Intents : db[f] = Journal(b, rows)
    BY <1>0, <2>1, ContentKinds
  <2>3. db'[f] = Journal(b, rows \cup {i})
    BY <1>0, <1>4, <2>1, <2>2, JournalContent DEF Reserve
  <2> QED BY <1>4, <2>1, <2>2, <2>3 DEF Journal, Reserve
<1> QED
  BY <1>1, <1>3, <1>4

LEMMA UsedStays ==
  ASSUME JournalTypeOK, ProcsOK, EntriesUsed, [JournalNext]_journalVars, NEW f \in Files, db[f] # Unused
  PROVE  /\ db'[f] # Unused
         /\ db[f].kind = "journal" => db'[f].kind = "journal" /\ db'[f].binding = db[f].binding
         /\ db[f].rows \subseteq db'[f].rows
<1>1. CASE db'[f] = db[f]
  BY <1>1
<1>2. CASE db'[f] # db[f]
  <2>1. db'[f].kind = "journal"
    BY <1>2, FileKept
  <2>2. db[f].kind = "empty" => db[f].rows = {}
    BY ContentKinds DEF JournalTypeOK, Empty
  <2> QED BY <1>2, <2>1, <2>2, FileKept DEF Unused
<1> QED
  BY <1>1, <1>2

(* What the path names is a file, in memory and on the disk.                 *)
LEMMA EntriesStep ==
  ASSUME JournalTypeOK, ProcsOK, EntriesUsed, [JournalNext]_journalVars
  PROVE  EntriesUsed'
<1> USE JournalAssumption
<1>0. /\ db \in [Files -> Contents] /\ moved \subseteq Files
      /\ entry \in Files \cup {None} /\ diskEntry \in Files \cup {None}
  BY DEF JournalTypeOK
<1>1. \A f \in ({entry, diskEntry} \cup moved) \ {None} : f \in Files /\ db'[f] # Unused
  BY <1>0, UsedStays DEF EntriesUsed
<1>2. entry' \in {entry, diskEntry, None} \cup moved \/ \E f \in Files : entry' = f /\ db'[f] # Unused
  <2>1. Empty # Unused /\ Foreign # Unused /\ \A b \in Bindings : Journal(b, {}) # Unused
    BY DEF Empty, Foreign, Unused, Journal
  <2>2. ASSUME NEW p \in Procs, NEW b \in Bindings, CreateFile(p, b)
        PROVE \E f \in Files : entry' = f /\ db'[f] # Unused
    BY <1>0, <2>1, <2>2 DEF CreateFile
  <2>3. ASSUME NEW p \in Procs, OpenDatabase(p)
        PROVE entry' = entry \/ \E f \in Files : entry' = f /\ db'[f] # Unused
    BY <1>0, <2>1, <2>3 DEF OpenDatabase
  <2>4. CASE Replace
    BY <1>0, <2>1, <2>4 DEF Replace
  <2> QED
    BY <2>2, <2>3, <2>4 DEF JournalNext, Step, journalVars, PinExisting, VerifyOpened, BeginAndValidate, CommitOpening,
       SwitchToWAL, VerifyAgain, SyncCreation, VerifyAndReserve, Reserve, ReserveThrows, Quit, PutBack, PowerLoss
<1>3. diskEntry' \in {entry', entry, diskEntry}
  BY DEF JournalNext, Step, journalVars, CreateFile, PinExisting, OpenDatabase, VerifyOpened, BeginAndValidate, CommitOpening,
     SwitchToWAL, VerifyAgain, SyncCreation, VerifyAndReserve, Reserve, ReserveThrows, Quit, Replace, PutBack, PowerLoss
<1>4. moved' \subseteq moved \cup {entry}
  BY DEF JournalNext, Step, journalVars, CreateFile, PinExisting, OpenDatabase, VerifyOpened, BeginAndValidate, CommitOpening,
     SwitchToWAL, VerifyAgain, SyncCreation, VerifyAndReserve, Reserve, ReserveThrows, Quit, Replace, PutBack, PowerLoss
<1> QED
  BY <1>1, <1>2, <1>3, <1>4 DEF EntriesUsed

(* A file both name stays named by both until the operator moves it.         *)
LEMMA FilesStep ==
  ASSUME JournalInv, [JournalNext]_journalVars
  PROVE  FilesOK'
<1> USE JournalAssumption
<1>0. /\ JournalTypeOK /\ ProcsOK /\ EntriesUsed /\ FilesOK
      /\ db \in [Files -> Contents] /\ initialized \subseteq Files
  BY DEF JournalInv, JournalTypeOK
<1>1. ASSUME NEW f \in initialized PROVE db'[f].kind = "journal"
  BY <1>0, <1>1, UsedStays DEF FilesOK, Unused
<1>2. moved \subseteq moved'
  BY DEF JournalNext, Step, journalVars, CreateFile, PinExisting, OpenDatabase, VerifyOpened, BeginAndValidate, CommitOpening,
     SwitchToWAL, VerifyAgain, SyncCreation, VerifyAndReserve, Reserve, ReserveThrows, Quit, Replace, PutBack, PowerLoss
<1>3. ASSUME NEW f \in Files, f \notin moved', entry = f, diskEntry = f PROVE entry' = f /\ diskEntry' = f
  BY <1>3 DEF JournalNext, Step, journalVars, CreateFile, PinExisting, OpenDatabase, VerifyOpened, BeginAndValidate,
     CommitOpening, SwitchToWAL, VerifyAgain, SyncCreation, VerifyAndReserve, Reserve, ReserveThrows, Quit,
     Replace, PutBack, PowerLoss
<1>4. ASSUME NEW f \in initialized', f \notin initialized
      PROVE  db'[f].kind = "journal" /\ (f \notin moved' => entry' = f /\ diskEntry' = f)
  <2>1. PICK p \in Procs : SyncCreation(p)
    BY <1>4 DEF JournalNext, Step, journalVars, CreateFile, PinExisting, OpenDatabase, VerifyOpened, BeginAndValidate,
       CommitOpening, SwitchToWAL, VerifyAgain, VerifyAndReserve, Reserve, ReserveThrows, Quit, Replace, PutBack, PowerLoss
  <2>2. proc[p].pc = "sync" /\ ProcOK(p, proc[p]) /\ f = proc[p].conn
    BY <1>0, <1>4, <2>1 DEF SyncCreation, ProcsOK
  <2>3. db[f].kind = "journal" /\ (entry = f \/ f \in moved)
    BY <2>2 DEF ProcOK, Bound, Ready, Trusted, HasConn
  <2> QED BY <2>1, <2>3 DEF SyncCreation
<1> QED
  BY <1>0, <1>1, <1>2, <1>3, <1>4 DEF FilesOK

LEMMA ReportedStep ==
  ASSUME JournalInv, [JournalNext]_journalVars
  PROVE  ReportedKept'
<1> USE JournalAssumption
<1>0. /\ JournalTypeOK /\ ProcsOK /\ EntriesUsed /\ ReportedKept /\ db \in [Files -> Contents]
  BY DEF JournalInv, JournalTypeOK
<1>1. ASSUME NEW f \in Files, NEW i \in Intents, <<f, i>> \in reported PROVE i \in db'[f].rows
  <2>1. i \in db[f].rows /\ db[f] # Unused
    BY <1>0, <1>1 DEF ReportedKept, Unused
  <2> QED BY <1>0, <2>1, UsedStays
<1>2. ASSUME NEW f \in Files, NEW i \in Intents, <<f, i>> \in reported', <<f, i>> \notin reported
      PROVE  i \in db'[f].rows
  <2>1. PICK p \in Procs, j \in Intents : Reserve(p, j)
    BY <1>2 DEF JournalNext, Step, journalVars, CreateFile, PinExisting, OpenDatabase, VerifyOpened, BeginAndValidate,
       CommitOpening, SwitchToWAL, VerifyAgain, SyncCreation, VerifyAndReserve, ReserveThrows, Quit, Replace, PutBack, PowerLoss
  <2>2. j = i /\ proc[p].conn = f
    BY <1>2, <2>1 DEF Reserve
  <2>3. db[f].kind = "journal"
    BY <1>0, <2>1, <2>2 DEF Reserve, ProcsOK, ProcOK, Bound, HasConn, Trusted, Ready
  <2>4. PICK b \in Bindings, rows \in SUBSET Intents : db[f] = Journal(b, rows)
    BY <1>0, <2>3, ContentKinds
  <2>5. db'[f] = Journal(b, rows \cup {i})
    BY <1>0, <2>1, <2>2, <2>4, JournalContent DEF Reserve
  <2> QED BY <2>5 DEF Journal
<1> QED
  BY <1>1, <1>2 DEF ReportedKept

-------------------------------------------------------------------------------
(* The inductive invariant holds in every state of JournalOpen.              *)
THEOREM JournalInvariant == JournalSpec => []JournalInv
<1>1. JournalInit => JournalInv
  <2> SUFFICES ASSUME JournalInit PROVE JournalInv
    OBVIOUS
  <2>1. JournalTypeOK
    BY DEF JournalInit, JournalTypeOK, Contents, Processes, NotOpen
  <2>2. ProcsOK
    BY DEF JournalInit, ProcsOK, ProcOK, NotOpen, HasConn, Trusted, Ready
  <2> QED BY <2>1, <2>2 DEF JournalInit, JournalInv, EntriesUsed, FilesOK, ReportedKept
<1>2. JournalInv /\ [JournalNext]_journalVars => JournalInv'
  <2> SUFFICES ASSUME JournalInv, [JournalNext]_journalVars PROVE JournalInv'
    OBVIOUS
  <2>1. JournalTypeOK /\ ProcsOK /\ EntriesUsed
    BY DEF JournalInv
  <2> QED BY <2>1, TypeStep, ProcsStep, EntriesStep, FilesStep, ReportedStep DEF JournalInv
<1> QED
  BY <1>1, <1>2, PTL DEF JournalSpec

(* Every file, connection and lock of JournalOpen keeps its type.            *)
THEOREM JournalTypesKept == JournalSpec => []JournalTypeOK
<1>1. JournalInv => JournalTypeOK
  BY DEF JournalInv
<1> QED
  BY <1>1, JournalInvariant, PTL

(* The file a returned constructor is connected to is the one it pinned,     *)
(* whatever was moved meanwhile, unless that file left and came back; it is  *)
(* a journal of the opener's own binding in any case.                        *)
THEOREM JournalOpenIsOwn == JournalSpec => []OpenIsOwnJournal
<1>1. JournalInv => OpenIsOwnJournal
  BY DEF JournalInv, ProcsOK, ProcOK, Bound, OpenIsOwnJournal, Open, HasConn, Trusted, Ready
<1> QED
  BY <1>1, JournalInvariant, PTL

(* No step initializes a file for anyone but its exclusive creator, or one   *)
(* whose own file left and came back, or binds a journal anew, or takes a    *)
(* reservation from it.                                                      *)
THEOREM JournalNeverAdopted == JournalSpec => NeverAdopted
<1>1. JournalInv /\ [JournalNext]_journalVars => [AdoptsNothing]_journalVars
  <2> SUFFICES ASSUME JournalInv, [JournalNext]_journalVars PROVE AdoptsNothing
    OBVIOUS
  <2>1. JournalTypeOK /\ ProcsOK /\ EntriesUsed /\ db \in [Files -> Contents]
    BY DEF JournalInv, JournalTypeOK
  <2>2. ASSUME NEW f \in Files, db[f].kind \in {"empty", "foreign"}, \A p \in Procs : ~Creating(p, f)
        PROVE  db'[f] = db[f]
    BY <2>1, <2>2, FileKept DEF Unused
  <2>3. ASSUME NEW f \in Files, db[f].kind = "journal"
        PROVE  db'[f].kind = "journal" /\ db'[f].binding = db[f].binding /\ db[f].rows \subseteq db'[f].rows
    BY <2>1, <2>3, UsedStays DEF Unused
  <2> QED BY <2>2, <2>3 DEF AdoptsNothing
<1> QED
  BY <1>1, JournalInvariant, PTL DEF JournalSpec, NeverAdopted

(* No loss of power takes an initialized journal, or a reservation reported  *)
(* from it, away from the path.                                              *)
THEOREM JournalInitializedSurvives == JournalSpec => []InitializedSurvives
<1>1. JournalInv => InitializedSurvives
  BY DEF JournalInv, JournalTypeOK, FilesOK, ReportedKept, InitializedSurvives
<1> QED
  BY <1>1, JournalInvariant, PTL

-------------------------------------------------------------------------------
(***************************************************************************)
(* What the offline preparation of a Cronos release and the inspection of  *)
(* its inclusion promise, for every set of approvals a caller may hand in, *)
(* every rotation of signers and any number of reorganizations.            *)
(***************************************************************************)

(* A strictly ascending quorum of two or three has distinct signers.         *)
LEMMA AscendingIsDistinct ==
  ASSUME NEW q \in Quorums, Len(q) \in 2..3,
         \A i \in 2..Len(q) : q[i - 1].signer < q[i].signer
  PROVE  \A i, j \in DOMAIN q : i # j => q[i].signer # q[j].signer
<1>1. q \in Seq([signer : Nat, v : Nat, digest : {"own", "other"}])
  BY CronosReleaseAssumption
<1>2. DOMAIN q = 1..Len(q) /\ \A i \in DOMAIN q : q[i].signer \in Nat
  <2>1. \A T : q \in Seq(T) => DOMAIN q = 1..Len(q) /\ \A i \in DOMAIN q : q[i] \in T
    OBVIOUS
  <2>2. \A i \in DOMAIN q : q[i] \in [signer : Nat, v : Nat, digest : {"own", "other"}]
    BY <1>1, <2>1
  <2>3. DOMAIN q = 1..Len(q)
    BY <1>1, <2>1
  <2> QED BY <2>2, <2>3
<1>3. q[1].signer < q[2].signer /\ (Len(q) = 3 => q[2].signer < q[3].signer)
  <2>1. q[2 - 1].signer < q[2].signer
    OBVIOUS
  <2>2. Len(q) = 3 => q[3 - 1].signer < q[3].signer
    OBVIOUS
  <2> QED BY <2>1, <2>2
<1>4. CASE Len(q) = 2
  BY <1>2, <1>3, <1>4
<1>5. CASE Len(q) = 3
  <2>1. DOMAIN q = {1, 2, 3}
    BY <1>2, <1>5
  <2> QED BY <1>2, <1>3, <1>5, <2>1
<1> QED BY <1>4, <1>5

(* Every variable has its type, and only a planned release is in custody.    *)
THEOREM CronosTypeOK == ReleaseSpec => []ReleaseTypeOK
<1>1. ReleaseInit => ReleaseTypeOK
  <2> SUFFICES ASSUME ReleaseInit PROVE ReleaseTypeOK
    OBVIOUS
  <2>1. vault \in Vaults
    BY DEF ReleaseInit, Vaults
  <2>2. 0 \in 0..MaxTime /\ 0 \in 0..MaxForks
    BY CronosReleaseAssumption
  <2> QED BY <2>1, <2>2 DEF ReleaseInit, ReleaseTypeOK, NoReport
<1>2. ReleaseTypeOK /\ [ReleaseNext]_releaseVars => ReleaseTypeOK'
  <2> SUFFICES ASSUME ReleaseTypeOK, [ReleaseNext]_releaseVars PROVE ReleaseTypeOK'
    OBVIOUS
  <2>1. CASE UNCHANGED releaseVars
    BY <2>1 DEF releaseVars, ReleaseTypeOK
  <2>2. CASE Tick
    BY <2>2, CronosReleaseAssumption DEF Tick, Chain, ReleaseTypeOK
  <2>3. CASE Administer
    <3>1. vault' \in Vaults
      BY <2>3 DEF Administer, ReleaseTypeOK, Vaults
    <3> QED BY <2>3, <3>1 DEF Administer, Chain, ReleaseTypeOK
  <2>4. CASE Reorg
    <3>1. fork' \in 0..MaxForks
      BY <2>4, CronosReleaseAssumption DEF Reorg, ReleaseTypeOK
    <3> QED BY <2>4, <3>1 DEF Reorg, Chain, ReleaseTypeOK
  <2>5. ASSUME NEW fee \in Fees, Prepare(fee) PROVE ReleaseTypeOK'
    BY <2>5 DEF Prepare, ReleaseTypeOK
  <2>6. ASSUME NEW sig \in Signatures, Execute(sig) PROVE ReleaseTypeOK'
    <3>1. vault' \in Vaults
      BY <2>6 DEF Execute, ReleaseTypeOK, Vaults
    <3> QED BY <2>6, <3>1 DEF Execute, Chain, ReleaseTypeOK
  <2>7. ASSUME NEW sig \in Signatures, NEW fee \in Fees, TakeCustody(sig, fee) PROVE ReleaseTypeOK'
    BY <2>7 DEF TakeCustody, ReleaseTypeOK
  <2>8. CASE ReadReceipt \/ ReadCanonical \/ Inspect \/ Discard
    <3>1. CASE ReadReceipt
      BY <3>1 DEF ReadReceipt, NoReport, ReleaseTypeOK
    <3>2. CASE ReadCanonical
      BY <3>2 DEF ReadCanonical, ReleaseTypeOK
    <3>3. CASE Inspect
      BY <3>3 DEF Inspect, Verdict, ReleaseTypeOK
    <3>4. CASE Discard
      BY <3>4 DEF Discard, NoReport, ReleaseTypeOK
    <3> QED BY <2>8, <3>1, <3>2, <3>3, <3>4
  <2> QED BY <2>1, <2>2, <2>3, <2>4, <2>5, <2>6, <2>7, <2>8 DEF ReleaseNext
<1> QED BY <1>1, <1>2, PTL DEF ReleaseSpec

(* What a plan carries: evidence of a vault that would take it.              *)
Planned ==
  /\ request.quorum \in Quorums
  /\ plan # Unset =>
       /\ plan.evidence.code = "vault" /\ ~plan.evidence.paused /\ ~plan.evidence.processed
       /\ plan.version = plan.evidence.version
       /\ Len(plan.quorum) >= 2
       /\ \A i \in DOMAIN plan.quorum :
            /\ plan.quorum[i].digest = "own" /\ plan.quorum[i].v \in {27, 28}
            /\ plan.quorum[i].signer \in SignersOf[plan.version]
       /\ \A i, j \in DOMAIN plan.quorum : i # j => plan.quorum[i].signer # plan.quorum[j].signer

THEOREM CronosPlanned == ReleaseSpec => []Planned
<1>1. ReleaseInit => Planned
  BY DEF ReleaseInit, Planned
<1>2. Planned /\ [ReleaseNext]_releaseVars => Planned'
  <2> SUFFICES ASSUME Planned, [ReleaseNext]_releaseVars PROVE Planned'
    OBVIOUS
  <2>1. ASSUME NEW fee \in Fees, Prepare(fee) PROVE Planned'
    <3>1. request.quorum \in Quorums
      BY DEF Planned
    <3>2. Len(request.quorum) \in 2..3 /\ \A i \in 2..Len(request.quorum) : request.quorum[i - 1].signer < request.quorum[i].signer
      BY <2>1 DEF Prepare, VerifiedQuorum
    <3>3. \A i, j \in DOMAIN request.quorum : i # j => request.quorum[i].signer # request.quorum[j].signer
      BY <3>1, <3>2, AscendingIsDistinct
    <3>4. \A i \in DOMAIN request.quorum :
            /\ request.quorum[i].digest = "own" /\ request.quorum[i].v \in {27, 28}
            /\ request.quorum[i].signer \in SignersOf[vault.version]
      BY <2>1 DEF Prepare, VerifiedQuorum, Recoverable
    <3>5. plan'.quorum = request.quorum /\ plan'.version = request.version /\ plan'.evidence = vault /\ request' = request
      BY <2>1 DEF Prepare
    <3>6. vault.code = "vault" /\ ~vault.paused /\ ~vault.processed /\ request.version = vault.version
      BY <2>1 DEF Prepare
    <3>7. Len(request.quorum) >= 2
      BY <3>2
    <3> QED BY <3>1, <3>3, <3>4, <3>5, <3>6, <3>7 DEF Planned
  <2>2. ASSUME UNCHANGED <<request, plan>> PROVE Planned'
    BY <2>2 DEF Planned
  <2>3. CASE UNCHANGED releaseVars
    BY <2>2, <2>3 DEF releaseVars
  <2>4. CASE Tick \/ Administer \/ Reorg
    BY <2>2, <2>4 DEF Tick, Administer, Reorg, Chain
  <2>5. ASSUME NEW sig \in Signatures, Execute(sig) \/ \E fee \in Fees : TakeCustody(sig, fee) PROVE Planned'
    BY <2>2, <2>5 DEF Execute, TakeCustody, Chain
  <2>6. CASE ReadReceipt \/ ReadCanonical \/ Inspect \/ Discard
    BY <2>2, <2>6 DEF ReadReceipt, ReadCanonical, Inspect, Discard
  <2> QED BY <2>1, <2>3, <2>4, <2>5, <2>6 DEF ReleaseNext
<1> QED BY <1>1, <1>2, PTL DEF ReleaseSpec

(* An accepted plan executes on the vault its evidence shows, before the     *)
(* deadline: the offline checks imply every one of the vault's.              *)
THEOREM CronosPlanExecutes == ReleaseSpec => []PlanExecutes
<1>1. Planned => PlanExecutes
  BY DEF Planned, PlanExecutes, Executes
<1> QED BY <1>1, CronosPlanned, PTL

-------------------------------------------------------------------------------
(* A block's transactions are the same as long as it is canonical: while no  *)
(* reorganization came, the receipt that was read is still the chain's, and  *)
(* so it was when the canonical block turned out to be the receipt's.        *)
Tells(m, r) == m # Unset /\ m.sig = r.sig /\ m.status = r.status /\ m.released = r.released
Snapshot ==
  /\ fork \in Nat
  /\ mined # Unset => mined.block \in 0..fork /\ (mined.status = 0 => mined.released = 0)
                     /\ mined.released \in {0, 1}
  /\ report.sig # Unset =>
       /\ signed # Unset /\ report.block \in 0..fork
       /\ report.status = 0 => report.released = 0
       /\ report.released \in {0, 1}
       /\ report.block = fork => Tells(mined, report)
  /\ report.canonical # Unset =>
       report.sig # Unset /\ (report.block = report.canonical => Tells(report.truth, report))
  /\ report.verdict \in {"released", "failed"} =>
       /\ report.canonical # Unset /\ Inclusion(report)
       /\ report.released = IF report.verdict = "released" THEN 1 ELSE 0

LEMMA ReportSteps ==
  ASSUME Snapshot, ReadReceipt \/ ReadCanonical \/ Inspect \/ Discard PROVE Snapshot'
<1>1. CASE ReadReceipt
  BY <1>1 DEF ReadReceipt, Snapshot, NoReport, Tells, Inclusion
<1>2. CASE ReadCanonical
  BY <1>2 DEF ReadCanonical, Snapshot, Tells, Inclusion
<1>3. CASE Inspect
  BY <1>3 DEF Inspect, Snapshot, Tells, Inclusion, Verdict
<1>4. CASE Discard
  BY <1>4 DEF Discard, Snapshot, NoReport, Tells, Inclusion
<1> QED BY <1>1, <1>2, <1>3, <1>4

THEOREM CronosSnapshot == ReleaseSpec => []Snapshot
<1>1. ReleaseInit => Snapshot
  BY DEF ReleaseInit, Snapshot, NoReport
<1>2. Snapshot /\ [ReleaseNext]_releaseVars => Snapshot'
  <2> SUFFICES ASSUME Snapshot, [ReleaseNext]_releaseVars PROVE Snapshot'
    OBVIOUS
  <2>1. ASSUME UNCHANGED <<fork, mined, signed, report>> PROVE Snapshot'
    BY <2>1 DEF Snapshot, Tells, Inclusion
  <2>2. CASE UNCHANGED releaseVars
    BY <2>1, <2>2 DEF releaseVars
  <2>3. CASE Tick \/ Administer
    BY <2>1, <2>3 DEF Tick, Administer, Chain
  <2>4. ASSUME NEW fee \in Fees, Prepare(fee) PROVE Snapshot'
    BY <2>1, <2>4 DEF Prepare
  <2>5. CASE Reorg
    <3>1. fork' = fork + 1 /\ fork' \in Nat /\ mined' = Unset /\ report' = report /\ signed' = signed
      BY <2>5 DEF Reorg, Chain, Snapshot
    <3>2. report.sig # Unset => report.block \in 0..fork' /\ report.block # fork'
      BY <3>1 DEF Snapshot
    <3> QED BY <3>1, <3>2 DEF Snapshot, Tells, Inclusion
  <2>6. ASSUME NEW sig \in Signatures, Execute(sig) PROVE Snapshot'
    <3>1. mined = Unset /\ fork' = fork /\ report' = report /\ signed' = signed
      BY <2>6 DEF Execute, Chain
    <3>2. mined'.block = fork /\ (mined'.status = 0 => mined'.released = 0) /\ mined'.released \in {0, 1}
      BY <2>6 DEF Execute
    <3>3. report.sig # Unset => report.block # fork
      BY <3>1 DEF Snapshot, Tells
    <3>4. mined'.block \in 0..fork
      BY <3>2 DEF Snapshot
    <3> QED BY <3>1, <3>2, <3>3, <3>4 DEF Snapshot, Tells, Inclusion
  <2>7. ASSUME NEW sig \in Signatures, NEW fee \in Fees, TakeCustody(sig, fee) PROVE Snapshot'
    <3>1. signed = Unset /\ UNCHANGED <<fork, mined, report>>
      BY <2>7 DEF TakeCustody
    <3>2. report.sig = Unset /\ report.canonical = Unset /\ report.verdict \notin {"released", "failed"}
      BY <3>1 DEF Snapshot
    <3> QED BY <3>1, <3>2 DEF Snapshot
  <2> QED BY <2>2, <2>3, <2>4, <2>5, <2>6, <2>7, ReportSteps DEF ReleaseNext
<1> QED BY <1>1, <1>2, PTL DEF ReleaseSpec

(* An inclusion that is told was on the canonical chain, with the effect it  *)
(* is told to have, when its block was last looked up.                       *)
THEOREM CronosInclusionWasCanonical == ReleaseSpec => []InclusionWasCanonical
<1>1. Snapshot => InclusionWasCanonical
  BY DEF Snapshot, InclusionWasCanonical, Tells, Inclusion
<1> QED BY <1>1, CronosSnapshot, PTL
===============================================================================
