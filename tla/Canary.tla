---------------------------------- MODULE Canary -------------------------------
(***************************************************************************)
(* A testnet canary (CanarySession, canary.js): one transfer in each       *)
(* direction, under an authorization that opens and expires.  The caller   *)
(* may call its methods in any order, with any record, at any time; a      *)
(* method that throws changes nothing.                                     *)
(***************************************************************************)
EXTENDS Integers, Sequences

CONSTANTS TxHashes,     \* transaction hashes, of either chain
          StartsAt, ExpiresAt,
          MaxTime       \* bound: the clock

ASSUME CanaryAssumption == StartsAt \in Nat /\ ExpiresAt \in Nat /\ MaxTime \in Nat /\ StartsAt < ExpiresAt

VARIABLES now, state, evidence, transactionHashes, failureCode

vars == <<now, state, evidence, transactionHashes, failureCode>>

Directions == <<"cronos_to_xitcoin", "xitcoin_to_cronos">>
StopCodes  == {"rpc_disagreement", "deep_reorganization", "signer_quorum_lost", "destination_mismatch",
               "duplicate_broadcast", "readiness_lost", "finality_failed"}
Evidence   == [direction : {Directions[1], Directions[2]}, source : TxHashes, destination : TxHashes]

\* What the caller says of a transfer, by what the checks tell apart.
Records == [direction : {Directions[1], Directions[2]}, source : TxHashes, destination : TxHashes,
            affordable : BOOLEAN, final : BOOLEAN, duplicates : 0..1]

TypeOK ==
  /\ now \in 0..MaxTime
  /\ state \in {"planned", "authorized", "executing", "completed", "halted"}
  /\ evidence \in Seq(Evidence) /\ Len(evidence) <= 2
  /\ transactionHashes = UNION {{evidence[i].source, evidence[i].destination} : i \in DOMAIN evidence}
  /\ failureCode \in StopCodes \cup {"none"}
  /\ state = "halted" => failureCode # "none"

Init ==
  /\ now = 0 /\ state = "planned" /\ evidence = <<>>
  /\ transactionHashes = {} /\ failureCode = "none"

Tick == now < MaxTime /\ now' = now + 1 /\ UNCHANGED <<state, evidence, transactionHashes, failureCode>>

\* A preflight that failed or is not the plan's, or a closed window, throws.
Authorize ==
  /\ state = "planned"
  /\ now >= StartsAt /\ now <= ExpiresAt
  /\ state' = "authorized"
  /\ UNCHANGED <<now, evidence, transactionHashes, failureCode>>

\* halt is open to the caller at any time, and once completed or halted too.
Halt(code) ==
  /\ state' = "halted" /\ failureCode' = code
  /\ UNCHANGED <<now, evidence, transactionHashes>>

\* Mutant: only the broadcaster's own count of duplicates is looked at.
ReusedUnchecked(r) == FALSE

Reused(r) == r.source = r.destination \/ {r.source, r.destination} \cap transactionHashes # {}
OutOfTurn(r) == Len(evidence) = 2 \/ r.direction # Directions[Len(evidence) + 1]

\* The checks in the order of the code; the first that fails halts the canary.
StopCode(r) ==
  IF now > ExpiresAt THEN "readiness_lost"
  ELSE IF OutOfTurn(r) \/ ~r.affordable THEN "destination_mismatch"
  ELSE IF ~r.final THEN "finality_failed"
  ELSE IF r.duplicates # 0 \/ Reused(r) THEN "duplicate_broadcast"
  ELSE "none"

Accept(r) ==
  /\ state' = "executing"
  /\ evidence' = Append(evidence, [direction |-> r.direction, source |-> r.source, destination |-> r.destination])
  /\ transactionHashes' = transactionHashes \cup {r.source, r.destination}
  /\ UNCHANGED <<now, failureCode>>

\* Mutant: a halted canary still takes records.
RecordWhenHalted(r) ==
  /\ state \in {"authorized", "executing", "halted"}
  /\ IF StopCode(r) = "none" THEN Accept(r) ELSE Halt(StopCode(r))

\* recordFinalizedTransfer
RecordFinalizedTransfer(r) ==
  /\ state \in {"authorized", "executing"}
  /\ IF StopCode(r) = "none" THEN Accept(r) ELSE Halt(StopCode(r))

Complete ==
  /\ state = "executing" /\ Len(evidence) = 2
  /\ state' = "completed"
  /\ UNCHANGED <<now, evidence, transactionHashes, failureCode>>

Next ==
  \/ Tick \/ Authorize \/ Complete
  \/ \E r \in Records : RecordFinalizedTransfer(r)
  \/ \E code \in StopCodes : Halt(code)

Spec == Init /\ [][Next]_vars

-------------------------------------------------------------------------------
(* A canary that passed has one transfer per direction, in order, and the    *)
(* four transactions of the two transfers are four different ones.           *)
PassedIsFullEvidence ==
  state = "completed" =>
    /\ <<evidence[1].direction, evidence[2].direction>> = Directions
    /\ \A i, j \in 1..2 : evidence[i].source # evidence[j].destination
    /\ evidence[1].source # evidence[2].source /\ evidence[1].destination # evidence[2].destination

(* "Stop immediately": a canary that halted, whoever halted it and when,     *)
(* never passes, and evidence is only ever taken before that and inside the  *)
(* authorized window.                                                        *)
EvidenceWhileLive ==
  [][/\ state = "halted" => state' = "halted"
     /\ evidence' # evidence => state # "halted" /\ now \in StartsAt..ExpiresAt]_vars
=============================================================================
