------------------------------- MODULE SignerCheck ------------------------------
(***************************************************************************)
(* A signer's own look at the source chain before it signs:                *)
(* verifyCanonicalSource (source-verification.js) over a finalized watcher *)
(* of its own, called by IsolatedSignerService.approve (signer-service.js). *)
(* The evidence in a request is the coordinator's claim and may be         *)
(* anything; the chain moves between the rounds; some of the signer's      *)
(* providers lie.  Only a verdict "canonical and finalized" leads to a     *)
(* signature, every other end is a refusal.                                *)
(***************************************************************************)
EXTENDS Watcher

VARIABLES stage, claim, \* the request being served
          record,       \* the watcher's record that matched it
          signed        \* claims signed so far

serviceVars == <<stage, claim, record, signed>>
checkVars == <<chainVars, serviceVars>>

\* What a request says of its source event: the evidence, and whether the transfer
\* it asks for (amount, destination, ...) is the one the event's payload holds.
Claims == [log : Logs, payloadKept : BOOLEAN]

ASSUME CheckAssumption == Null \notin Claims

Stages == {"idle", "finality", "logs", "block", "receipt", "sign"}

CheckTypeOK ==
  /\ ChainTypeOK
  /\ stage \in Stages
  /\ claim \in Claims \cup {Null}
  /\ claim = Null <=> stage = "idle"
  /\ record \in Logs \cup {Null}
  /\ signed \subseteq Claims

CheckInit == ChainInit /\ stage = "idle" /\ claim = Null /\ record = Null /\ signed = {}

\* Every way out of approve: an error or, from Sign, a signature.
Leave == stage' = "idle" /\ claim' = Null /\ record' = Null

\* A step taken when a round confirms the claim, which is refused otherwise.
Check(confirmed, to) ==
  /\ IF confirmed THEN stage' = to /\ UNCHANGED <<claim, record>> ELSE Leave
  /\ UNCHANGED <<chainVars, signed>>

Request(c) ==
  /\ stage = "idle"
  /\ stage' = "finality" /\ claim' = c
  /\ UNCHANGED <<chainVars, record, signed>>

\* events(height, height): the claimed height has to be finalized ...
CheckFinality ==
  /\ stage = "finality"
  /\ \E tips \in TipRound : Check(claim.log.height <= Finalized(tips), "logs")

\* Mutant: the evidence is not compared, only the event's identity and payload.
MatchesByReference(r, c) == r.event = c.log.event /\ c.payloadKept

\* matchesEvidence, and the payload field by field
Matches(r, c) == r = c.log /\ c.payloadKept

\* ... its logs agreed on, and exactly one of them the claimed one.
MatchLogs ==
  /\ stage = "logs"
  /\ \E ans \in LogRound(claim.log.height, claim.log.height) :
       LET matches == {r \in ans[First] : Matches(r, claim)} IN
         IF LogsAgreed(ans) /\ Cardinality(matches) = 1
         THEN stage' = "block" /\ record' \in matches /\ UNCHANGED claim
         ELSE Leave
  /\ UNCHANGED <<chainVars, signed>>

\* verifyCanonicalEvent of that record, as in a scan.
CheckBlock ==
  /\ stage = "block"
  /\ \E ans \in BlockRound(record.height) : Check(Agreed(ans) /\ ans[First] = record.hash, "receipt")

CheckReceipt ==
  /\ stage = "receipt"
  /\ \E ans \in ReceiptRound(record.event) : Check(StillThere(ans, record), "sign")

\* approve: the digest goes to the key once the verdict is in.
Sign ==
  /\ stage = "sign"
  /\ signed' = signed \cup {claim}
  /\ Leave
  /\ UNCHANGED chainVars

CheckNext ==
  \/ Environment /\ UNCHANGED serviceVars
  \/ \E c \in Claims : Request(c)
  \/ CheckFinality \/ MatchLogs \/ CheckBlock \/ CheckReceipt \/ Sign

CheckSpec == CheckInit /\ [][CheckNext]_checkVars

-------------------------------------------------------------------------------
(* Whatever a coordinator claims and one lying provider supports, a signer   *)
(* signs only evidence that is, and stays, on the source chain, for the      *)
(* transfer the event holds.                                                 *)
SignedIsCanonical == \A c \in signed : Canonical(c.log) /\ c.payloadKept
=============================================================================
