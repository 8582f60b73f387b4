------------------------------- MODULE CometClient ------------------------------
(***************************************************************************)
(* One CometBftHttpClient (network.js) over the node behind its URL, and   *)
(* the two decoders of bridge_outbound_burned events.  A batch of heights  *)
(* is read with two requests in flight per height, whose answers arrive in *)
(* either order, fail, belong to another height or lack a list, which is   *)
(* read as an empty one; a record of the batch is later found again        *)
(* through the transaction index and a second decoder.  Committed blocks   *)
(* are final; the node's block results and transaction index trail its     *)
(* blocks.                                                                 *)
(***************************************************************************)
EXTENDS Integers, Sequences, FiniteSets, SequencesExt

CONSTANTS Chains,         \* the chains to look at: sequences of blocks
          Missing

\* A block is a sequence of transactions, a transaction has its code and events.
\* An event is Other, or a burn with its msg_index (NoIndex where it has none).
Other   == -2
NoIndex == -1

Transactions == [ok : BOOLEAN, events : Seq(Int)]

\* A decoded burn, and one placed in its block.
BurnRecord   == [tx : Nat \X Nat, event : Nat, index : Int]
PlacedRecord == [tx : Nat \X Nat, event : Nat, index : Int, height : Nat, hash : Nat]

ASSUME CometAssumption ==
  /\ Chains \subseteq Seq(Seq(Transactions))
  /\ Missing \notin Nat \cup BurnRecord \cup PlacedRecord

VARIABLES blocks,         \* the chain that is being committed
          tip, indexed,   \* the node's last block, and the last with results
          call            \* the call the client is serving; its "withheld" is a history

cometVars == <<blocks, tip, indexed, call>>

Idle == [op |-> "idle", from |-> 0, height |-> 0, to |-> 0, block |-> Missing, results |-> Missing,
         records |-> <<>>, withheld |-> {}, sought |-> Missing, found |-> Missing]

CometInit ==
  /\ blocks \in Chains
  /\ tip = 0 /\ indexed = 0
  /\ call = Idle

-------------------------------------------------------------------------------
(* The decoders.  A record names the event it was read from.                 *)

BurnsIn(events) == {k \in DOMAIN events : events[k] # Other}

\* fallbackMessageIndex: how many burns come before the event.
Earlier(events, k) == Cardinality({j \in BurnsIn(events) : j < k})

Burnt(events) ==
  [n \in 1..Cardinality(BurnsIn(events)) |-> CHOOSE k \in BurnsIn(events) : Earlier(events, k) = n - 1]

\* outboundEvent: a burn without msg_index is numbered by the burns before it.
BurnRecords(id, events) ==
  [n \in DOMAIN Burnt(events) |-> LET k == Burnt(events)[n] IN
     [tx |-> id, event |-> k, index |-> IF events[k] # NoIndex THEN events[k] ELSE n - 1]]

\* decodeXitcoinOutboundBlock: hashes come from the block, events from its results.
DecodeBlock(ids, results) ==
  FlattenSeq([i \in DOMAIN results |->
    IF results[i].ok THEN BurnRecords(ids[i], results[i].events) ELSE <<>>])

\* Mutant: a burn is numbered by its place among all the events.
DecodeTransactionByEvent(id, result) ==
  IF result.ok
  THEN [n \in DOMAIN BurnRecords(id, result.events) |->
          LET k == Burnt(result.events)[n] IN
            [BurnRecords(id, result.events)[n] EXCEPT !.index = IF result.events[k] # NoIndex THEN @ ELSE k - 1]]
  ELSE <<>>

\* decodeXitcoinOutboundTransaction
DecodeTransaction(id, result) == IF result.ok THEN BurnRecords(id, result.events) ELSE <<>>

-------------------------------------------------------------------------------
(* The node.                                                                 *)

Commit == tip < Len(blocks) /\ tip' = tip + 1 /\ UNCHANGED <<blocks, indexed, call>>
Index  == indexed < tip /\ indexed' = indexed + 1 /\ UNCHANGED <<blocks, tip, call>>

\* A result as the node has it, or without its list of events.
Told(result) == {result, [result EXCEPT !.events = <<>>]}
Results(h)   == {t \in [DOMAIN blocks[h] -> UNION {Told(blocks[h][i]) : i \in DOMAIN blocks[h]}] :
                   \A i \in DOMAIN t : t[i] \in Told(blocks[h][i])}

\* A request may fail, be answered for another height, or without any of its lists.
Ids(h) == [i \in DOMAIN blocks[h] |-> <<h, i>>]
BlockAnswers   == {Missing} \cup UNION {{[height |-> h, txs |-> Ids(h)], [height |-> h, txs |-> <<>>]} : h \in 1..tip}
ResultsAnswers == {Missing} \cup UNION {{[height |-> h, txs |-> t] : t \in {<<>>} \cup Results(h)} : h \in 1..indexed}
TxAnswers(id)  == {Missing} \cup (IF id[1] > indexed THEN {}
                                 ELSE {[height |-> id[1], txs |-> <<t>>] : t \in Told(blocks[id[1]][id[2]])})

-------------------------------------------------------------------------------
(* outboundTransfers                                                         *)

Reject == call' = [Idle EXCEPT !.op = "rejected"]

OutboundTransfers(from, to) ==
  /\ call.op = "idle" /\ from <= to
  /\ call' = [Idle EXCEPT !.op = "batch", !.from = from, !.height = from, !.to = to]
  /\ UNCHANGED <<blocks, tip, indexed>>

\* Mutant: the height a block comes back with is not compared.
BlockUnchecked ==
  /\ call.op = "batch" /\ call.block = Missing
  /\ \E a \in BlockAnswers : IF a = Missing THEN Reject ELSE call' = [call EXCEPT !.block = a]
  /\ UNCHANGED <<blocks, tip, indexed>>

\* block(height) and blockResults(height) under one Promise.all: the first to fail
\* fails the call, whatever the other does.
Block ==
  /\ call.op = "batch" /\ call.block = Missing
  /\ \E a \in BlockAnswers :
       IF a = Missing \/ a.height # call.height THEN Reject ELSE call' = [call EXCEPT !.block = a]
  /\ UNCHANGED <<blocks, tip, indexed>>

BlockResults ==
  /\ call.op = "batch" /\ call.results = Missing
  /\ \E a \in ResultsAnswers :
       IF a = Missing \/ a.height # call.height THEN Reject ELSE call' = [call EXCEPT !.results = a]
  /\ UNCHANGED <<blocks, tip, indexed>>

\* The decoder refuses counts that disagree, which one missing list makes them do.
Paired(block, results) == Len(block.txs) = Len(results.txs)

\* A block's height stands for its hash.
Placed(r, height, hash) ==
  [tx |-> r.tx, event |-> r.event, index |-> r.index, height |-> height, hash |-> hash]

Decoded(block, results) ==
  LET records == DecodeBlock(block.txs, results.txs) IN
    [n \in DOMAIN records |-> Placed(records[n], call.height, block.height)]

\* The transactions in hand whose lists the node's answers agree to lack.
Withheld == {<<call.height, i>> : i \in {j \in DOMAIN blocks[call.height] :
  IF j \in DOMAIN call.results.txs THEN call.results.txs[j].events = <<>> ELSE j \notin DOMAIN call.block.txs}}

NextHeight ==
  /\ call.op = "batch" /\ call.block # Missing /\ call.results # Missing
  /\ IF ~Paired(call.block, call.results) THEN Reject
     ELSE LET read == [call EXCEPT !.block = Missing, !.results = Missing,
                         !.records = @ \o Decoded(call.block, call.results), !.withheld = @ \cup Withheld]
          IN  call' = IF call.height = call.to THEN [read EXCEPT !.op = "batched"] ELSE [read EXCEPT !.height = @ + 1]
  /\ UNCHANGED <<blocks, tip, indexed>>

-------------------------------------------------------------------------------
(* outboundTransfer, for a record of the batch                               *)

OutboundTransfer(n) ==
  /\ call.op = "batched" /\ n \in DOMAIN call.records
  /\ call' = [Idle EXCEPT !.op = "find", !.sought = call.records[n]]
  /\ UNCHANGED <<blocks, tip, indexed>>

\* The transaction's own height says which block to ask for ...
Tx ==
  /\ call.op = "find" /\ call.height = 0
  /\ \E a \in TxAnswers(call.sought.tx) :
       IF a = Missing THEN Reject ELSE call' = [call EXCEPT !.height = a.height, !.results = a]
  /\ UNCHANGED <<blocks, tip, indexed>>

\* ... and the first record with the wanted message index is returned.
FirstWith(records, index) ==
  IF \E n \in DOMAIN records : records[n].index = index
  THEN records[CHOOSE n \in DOMAIN records :
                 records[n].index = index /\ \A m \in DOMAIN records : m < n => records[m].index # index]
  ELSE Missing

Find ==
  /\ call.op = "find" /\ call.height # 0
  /\ \E a \in BlockAnswers :
       IF a = Missing \/ a.height # call.height THEN Reject
       ELSE LET r == FirstWith(DecodeTransaction(call.sought.tx, call.results.txs[1]), call.sought.index)
            IN  call' = [call EXCEPT !.op = "found",
                           !.found = IF r = Missing THEN Missing ELSE Placed(r, call.height, a.height)]
  /\ UNCHANGED <<blocks, tip, indexed>>

Done == call.op \in {"batched", "found", "rejected"} /\ call' = Idle /\ UNCHANGED <<blocks, tip, indexed>>

CometNext ==
  \/ Commit \/ Index
  \/ \E from, to \in 1..Len(blocks) : OutboundTransfers(from, to)
  \/ Block \/ BlockResults \/ NextHeight
  \/ \E n \in DOMAIN call.records : OutboundTransfer(n)
  \/ Tx \/ Find \/ Done

CometSpec == CometInit /\ [][CometNext]_cometVars

-------------------------------------------------------------------------------
BlockAnswer   == [height : Nat, txs : Seq(Nat \X Nat)]
ResultsAnswer == [height : Nat, txs : Seq(Transactions)]

CometTypeOK ==
  /\ blocks \in Chains
  /\ tip \in 0..Len(blocks) /\ indexed \in 0..tip
  /\ call \in [op : {"idle", "batch", "batched", "find", "found", "rejected"},
               from : Nat, height : Nat, to : Nat,
               block : BlockAnswer \cup {Missing}, results : ResultsAnswer \cup {Missing},
               records : Seq(PlacedRecord), withheld : SUBSET (Nat \X Nat),
               sought : PlacedRecord \cup {Missing}, found : PlacedRecord \cup {Missing}]

(* However answers arrive, fail or fall short, a batch is exactly the burns  *)
(* of the successful transactions of its heights, in chain order, none       *)
(* twice, each under the height and hash of its own block, and none missing  *)
(* but those of transactions of which the node withheld every list: a list   *)
(* that is missing on one side only is noticed.                              *)
Burns(h) ==
  UNION {{<<h, i, k>> : k \in {j \in DOMAIN blocks[h][i].events : blocks[h][i].events[j] # Other}} :
         i \in {j \in DOMAIN blocks[h] : blocks[h][j].ok}}
Place(r) == <<r.tx[1], r.tx[2], r.event>>
Before(r, s) ==
  \/ r[1] < s[1]
  \/ r[1] = s[1] /\ (r[2] < s[2] \/ (r[2] = s[2] /\ r[3] < s[3]))
BurnsTold == {b \in UNION {Burns(h) : h \in call.from..call.to} : <<b[1], b[2]>> \notin call.withheld}
BatchIsTheChain == call.op = "batched" =>
  /\ {Place(r) : r \in Range(call.records)} = BurnsTold
  /\ \A m, n \in DOMAIN call.records : m < n => Before(Place(call.records[m]), Place(call.records[n]))
  /\ \A r \in Range(call.records) : r.height = r.tx[1] /\ r.hash = r.tx[1]

(* The two decoders number burns alike: a burn read in a batch is found      *)
(* again as it was, by its transaction and message index, unless the answer  *)
(* lacks its events, and only an earlier burn of that transaction with the   *)
(* same index can be returned in its place.                                  *)
RefoundAsRead == call.op = "found" =>
  IF call.results.txs[1].events = <<>> THEN call.found = Missing
  ELSE /\ call.found # Missing /\ call.found.index = call.sought.index /\ call.found.tx = call.sought.tx
       /\ call.found # call.sought => call.found.event < call.sought.event
=============================================================================
