------------------------------- MODULE SourceScan ------------------------------
(***************************************************************************)
(* Scanning a source chain for finalized deposits: scanFinalizedBatch      *)
(* (coordinator.js) over a finalized watcher (watchers.js).  The chain     *)
(* grows and reorganizes while the scan is suspended at each of its RPC    *)
(* rounds; providers lag, and some answer whatever they like; the process  *)
(* may die between any two steps.  A scan that meets a disagreement or a   *)
(* finality violation throws, the process exits and its supervisor starts  *)
(* it again, so both leave the scanner idle with what it committed.        *)
(***************************************************************************)
EXTENDS Watcher

CONSTANTS StartHeight,     \* where a scan with no checkpoint begins
          MaxBatch,        \* heights per scan
          MaxCrashes       \* bound: process deaths

ASSUME ScanAssumption ==
  /\ {StartHeight, MaxBatch} \subseteq Nat \ {0}
  /\ MaxCrashes \in Nat

VARIABLES pc, range, todo, current,   \* the scan in progress
          rows,        \* the store's transfer rows
          checkpoint,  \* the store's checkpoint
          crashes,     \* process deaths so far
          baseGone     \* at the scan's start, no honest node had the checkpoint block

scanVars  == <<pc, range, todo, current, baseGone>>
storeVars == <<rows, checkpoint>>
vars == <<chainVars, scanVars, storeVars, crashes>>

NoRange      == [from |-> 0, to |-> 0]
NoCheckpoint == [height |-> 0, hash |-> Null]
NoRow        == [state |-> "absent", log |-> Null]

Steps == {"idle", "finality", "logs", "next", "receipt", "observe", "finalize"}

TypeOK ==
  /\ ChainTypeOK
  /\ pc \in Steps
  /\ range \in [from : 0..MaxHeight, to : 0..MaxHeight]
  /\ todo \subseteq Logs
  /\ current \in Logs \cup {Null}
  /\ rows \in [Events -> {NoRow} \cup [state : {"observed", "finalized"}, log : Logs]]
  /\ checkpoint \in {NoCheckpoint} \cup [height : 1..MaxHeight, hash : Hashes]
  /\ crashes \in 0..MaxCrashes
  /\ baseGone \in BOOLEAN

Init ==
  /\ ChainInit
  /\ pc = "idle" /\ range = NoRange /\ todo = {} /\ current = Null /\ baseGone = FALSE
  /\ rows = [e \in Events |-> NoRow]
  /\ checkpoint = NoCheckpoint
  /\ crashes = 0

-------------------------------------------------------------------------------
(* The scan.                                                                 *)

Stop == /\ pc' = "idle" /\ range' = NoRange /\ todo' = {} /\ current' = Null
        /\ baseGone' = FALSE

From == IF checkpoint = NoCheckpoint THEN StartHeight ELSE checkpoint.height + 1

\* Mutant: a whole batch, finalized or not.
ToWholeBatch(tips) == From + MaxBatch - 1

To(tips) == Min({Finalized(tips), From + MaxBatch - 1})

\* scanFinalizedBatch up to its first await; nothing to scan leaves it idle.
StartScan ==
  /\ pc = "idle"
  /\ \E tips \in TipRound :
       /\ From <= Finalized(tips)
       /\ range' = [from |-> From, to |-> To(tips)]
  /\ pc' = "finality"
  /\ baseGone' = (checkpoint # NoCheckpoint /\
                  \A p \in Honest : HashAt(view[p], checkpoint.height) \notin {Null, checkpoint.hash})
  /\ UNCHANGED <<chainVars, todo, current, storeVars, crashes>>

\* events: the range must still be finalized by a fresh look at the tips.
RecheckFinality ==
  /\ pc = "finality"
  /\ \E tips \in TipRound :
       IF range.to <= Finalized(tips)
       THEN pc' = "logs" /\ UNCHANGED <<range, todo, current, baseGone>>
       ELSE Stop
  /\ UNCHANGED <<chainVars, storeVars, crashes>>

\* events: every provider's logs of the range must agree; the first's are decoded.
FetchLogs ==
  /\ pc = "logs"
  /\ \E ans \in LogRound(range.from, range.to) :
       IF LogsAgreed(ans)
       THEN todo' = ans[First] /\ pc' = "next" /\ UNCHANGED <<range, current, baseGone>>
       ELSE Stop
  /\ UNCHANGED <<chainVars, storeVars, crashes>>

\* Mutant: the providers agree on a block, which is not compared with the log's.
VerifyBlockUncompared ==
  /\ pc = "next"
  /\ \E l \in todo : \E ans \in BlockRound(l.height) :
       IF Agreed(ans)
       THEN /\ pc' = "receipt" /\ current' = l /\ todo' = todo \ {l}
            /\ UNCHANGED <<range, baseGone>>
       ELSE Stop
  /\ UNCHANGED <<chainVars, storeVars, crashes>>

\* verifyCanonicalEvent: the block at the claimed height must have the log's hash ...
VerifyBlock ==
  /\ pc = "next"
  /\ \E l \in todo : \E ans \in BlockRound(l.height) :
       IF Agreed(ans) /\ ans[First] = l.hash
       THEN /\ pc' = "receipt" /\ current' = l /\ todo' = todo \ {l}
            /\ UNCHANGED <<range, baseGone>>
       ELSE Stop
  /\ UNCHANGED <<chainVars, storeVars, crashes>>

\* ... and the deposit must still be there.
VerifyReceipt ==
  /\ pc = "receipt"
  /\ \E ans \in ReceiptRound(current.event) :
       IF StillThere(ans, current)
       THEN pc' = "observe" /\ UNCHANGED <<range, todo, current, baseGone>>
       ELSE Stop
  /\ UNCHANGED <<chainVars, storeVars, crashes>>

\* store.observe; a row that is already past "observed" is left as it is.
Observe ==
  /\ pc = "observe"
  /\ LET row == rows[current.event] IN
       IF row.state \in {"absent", "observed"}
       THEN /\ rows' = [rows EXCEPT ![current.event] = [state |-> "observed", log |-> current]]
            /\ pc' = "finalize"
       ELSE pc' = "next" /\ UNCHANGED rows
  /\ UNCHANGED <<chainVars, range, todo, current, baseGone, checkpoint, crashes>>

\* store.transition(..., "finalized")
Finalize ==
  /\ pc = "finalize"
  /\ rows' = [rows EXCEPT ![current.event].state = "finalized"]
  /\ pc' = "next"
  /\ UNCHANGED <<chainVars, range, todo, current, baseGone, checkpoint, crashes>>

\* Mutant: the checkpoint moves while logs of the range are still to be processed.
AdvanceCheckpointEarly ==
  /\ pc = "next"
  /\ \E ans \in BlockRound(range.to) :
       checkpoint' = IF Agreed(ans) /\ range.to > checkpoint.height
                     THEN [height |-> range.to, hash |-> ans[First]]
                     ELSE checkpoint
  /\ Stop
  /\ UNCHANGED <<chainVars, rows, crashes>>

\* canonicalBlock(to) and advanceCheckpoint, once every log is in the store.
AdvanceCheckpoint ==
  /\ pc = "next" /\ todo = {}
  /\ \E ans \in BlockRound(range.to) :
       checkpoint' = IF Agreed(ans) /\ range.to > checkpoint.height
                     THEN [height |-> range.to, hash |-> ans[First]]
                     ELSE checkpoint
  /\ Stop
  /\ UNCHANGED <<chainVars, rows, crashes>>

\* The process dies; the service manager starts it again.
Crash ==
  /\ pc # "idle" /\ crashes < MaxCrashes
  /\ crashes' = crashes + 1
  /\ Stop
  /\ UNCHANGED <<chainVars, storeVars>>

\* The operator replaces the providers that lie, which takes a restart.
Reconfigure == Replace /\ Stop /\ UNCHANGED <<storeVars, crashes>>

ScanStep == StartScan \/ RecheckFinality \/ FetchLogs \/ VerifyBlock \/ VerifyReceipt
            \/ Observe \/ Finalize \/ AdvanceCheckpoint

Next ==
  \/ Environment /\ UNCHANGED <<scanVars, storeVars, crashes>>
  \/ Reconfigure
  \/ ScanStep
  \/ Crash

Spec == Init /\ [][Next]_vars

\* The loop in coordinator-cli.js runs forever under its service manager.
FairSpec == Spec /\ WF_vars(ScanStep) /\ WF_vars(Reconfigure) /\ ChainFairness

-------------------------------------------------------------------------------
(* A transfer is only ever finalized with evidence that is, and stays, on    *)
(* the source chain: reorganizations within the confirmations and a provider *)
(* that forges or misdates logs cannot put a false deposit in the store.     *)
FinalizedIsCanonical == \A e \in Events : rows[e].state = "finalized" => Canonical(rows[e].log)

(* No deposit is lost: once the checkpoint has passed a height, every        *)
(* deposit at that height has been finalized, whatever the batches, crashes  *)
(* and withheld logs on the way.                                             *)
NoDepositSkipped ==
  \A h \in StartHeight..checkpoint.height : \A e \in chain[h].events : rows[e].state = "finalized"

(* The checkpoint names a block of the source chain.                         *)
CheckpointCanonical ==
  checkpoint # NoCheckpoint => checkpoint.hash = HashAt(chain, checkpoint.height)

Buried(e) == \E h \in StartHeight..(Len(chain) - Confirmations) : e \in chain[h].events

(* Every deposit that is buried for good under the confirmations is finalized *)
(* eventually: the scan neither stalls nor jumps over it.                     *)
BuriedDepositsFinalized ==
  \A e \in Events : <>[]Buried(e) => <>(rows[e].state = "finalized")

(* OPERATIONS.md:18: "Stop processing automatically on ... reorganization    *)
(* beyond the confirmation window": a scan that starts when every honest     *)
(* node has replaced the checkpoint block does not move the checkpoint.      *)
StopsOnDeepReorg == [][baseGone => checkpoint' = checkpoint]_vars
=============================================================================
