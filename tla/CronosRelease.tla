------------------------------ MODULE CronosRelease -----------------------------
(***************************************************************************)
(* The Cronos release of one approved transfer (cronos-destination.js):    *)
(* prepareCronosRelease over supplied evidence of the vault,               *)
(* inspectCronosSignedTransaction and inspectCronosInclusion, while the    *)
(* vault is paused, rotated, served by a rival or gone, and the chain      *)
(* reorganizes between the evidence, the execution and the two reads of an *)
(* inclusion.  Gas, price and fee are small numbers of Width bits.         *)
(***************************************************************************)
EXTENDS Integers, Sequences

CONSTANTS Quorums,        \* sequences of approvals a caller may hand in
          SignersOf,      \* [version -> the signers the vault then authorizes]
          Fees,           \* [gas, price] a transaction may offer
          Limits,         \* [maxGas, maxGasPrice, maxFee]
          Width,          \* bits of a gas amount, a price or a fee
          Deadline,       \* last second of the request
          MaxTime,        \* bound: the clock
          MaxForks,       \* bound: reorganizations
          Unset

ASSUME CronosReleaseAssumption ==
  /\ Quorums \subseteq Seq([signer : Nat, v : Nat, digest : {"own", "other"}])
  /\ {Width, Deadline, MaxTime, MaxForks} \subseteq Nat

VARIABLES now,
          vault,          \* the vault on the canonical chain
          fork,           \* reorganizations so far: names the block of a height
          mined,          \* the submitter's transaction on the canonical chain
          request,        \* the request's signer-set version and the approvals
          plan,           \* what prepareCronosRelease accepted, with its evidence
          signed,         \* the signature taken into custody
          report          \* the inclusion being put together and its verdict

releaseVars == <<now, vault, fork, mined, request, plan, signed, report>>

Versions == DOMAIN SignersOf
Vaults   == [code : {"vault", "none"}, paused : BOOLEAN, processed : BOOLEAN, version : Versions]
NoReport == [sig |-> Unset, block |-> Unset, status |-> 0, released |-> 0,
             canonical |-> Unset, truth |-> Unset, verdict |-> "none"]

ReleaseInit ==
  /\ now = 0
  /\ vault \in [code : {"vault"}, paused : BOOLEAN, processed : {FALSE}, version : Versions]
  /\ fork = 0 /\ mined = Unset
  /\ request \in [version : Versions, quorum : Quorums]
  /\ plan = Unset /\ signed = Unset
  /\ report = NoReport

-------------------------------------------------------------------------------
(* The destination chain.                                                    *)

\* What the reviewed vault checks when a release executes.
Executes(v, version, quorum, t) ==
  /\ v.code = "vault" /\ ~v.paused /\ ~v.processed
  /\ version = v.version /\ t <= Deadline
  /\ Len(quorum) >= 2
  /\ \A i \in DOMAIN quorum :
       /\ quorum[i].digest = "own" /\ quorum[i].v \in {27, 28}
       /\ quorum[i].signer \in SignersOf[version]
  /\ \A i, j \in DOMAIN quorum : i # j => quorum[i].signer # quorum[j].signer

Chain == <<request, plan, signed, report>>

Tick == now < MaxTime /\ now' = now + 1 /\ UNCHANGED <<vault, fork, mined, Chain>>

\* The vault's owner, or a rival relaying the same approvals.
Administer ==
  /\ \/ vault' = [vault EXCEPT !.paused = ~@]
     \/ \E v \in Versions : vault' = [vault EXCEPT !.version = v]
     \/ vault' = [vault EXCEPT !.processed = TRUE]
  /\ vault.code = "vault"
  /\ UNCHANGED <<now, fork, mined, Chain>>

\* Signed twice, the plan's transaction has two hashes and one nonce.  A call of an
\* account without code succeeds and logs nothing.
Execute(sig) ==
  /\ plan # Unset /\ mined = Unset
  /\ LET ok == Executes(vault, plan.version, plan.quorum, now) IN
       /\ mined' = [sig |-> sig, block |-> fork,
                    status   |-> IF ok \/ vault.code = "none" THEN 1 ELSE 0,
                    released |-> IF ok THEN 1 ELSE 0]
       /\ vault' = IF ok THEN [vault EXCEPT !.processed = TRUE] ELSE vault
  /\ UNCHANGED <<now, fork, Chain>>

\* A reorganization takes the latest executions back, and perhaps the deployment.
Reorg ==
  /\ fork < MaxForks
  /\ fork' = fork + 1 /\ mined' = Unset
  /\ vault' \in {v \in Vaults : v.version = vault.version /\ (v.processed => vault.processed)}
  /\ UNCHANGED <<now, Chain>>

-------------------------------------------------------------------------------
(* prepareCronosRelease                                                      *)

\* verifiedDestinationQuorum: two or three approvals of this digest in strictly
\* ascending order of authorized signers, none of them too late.
VerifiedQuorum(quorum, authorized) ==
  /\ Len(quorum) \in 2..3
  /\ now <= Deadline
  /\ \A i \in DOMAIN quorum : quorum[i].digest = "own" /\ quorum[i].signer \in authorized
  /\ \A i \in 2..Len(quorum) : quorum[i - 1].signer < quorum[i].signer

\* Mutant: the vault is believed to take any recovery byte.
RecoverableAny(quorum) == \A i \in DOMAIN quorum : quorum[i].v \in {0, 1, 27, 28}

\* Unlike the Xitcoin verifier, the vault recovers 27 and 28 only.
Recoverable(quorum) == \A i \in DOMAIN quorum : quorum[i].v \in {27, 28}

Affordable(fee) ==
  /\ fee.gas <= Limits.maxGas /\ fee.price <= Limits.maxGasPrice
  /\ fee.gas * fee.price < 2^Width /\ fee.gas * fee.price <= Limits.maxFee

\* The evidence is the vault as it is now; it may be stale when the plan is used.
Prepare(fee) ==
  /\ plan = Unset
  /\ vault.code = "vault" /\ ~vault.paused /\ ~vault.processed
  /\ request.version = vault.version
  /\ VerifiedQuorum(request.quorum, SignersOf[vault.version])
  /\ Recoverable(request.quorum)
  /\ Affordable(fee)
  /\ plan' = [version |-> request.version, quorum |-> request.quorum, fee |-> fee, evidence |-> vault]
  /\ UNCHANGED <<now, vault, fork, mined, request, signed, report>>

\* inspectCronosSignedTransaction accepts the plan's own fields, under one signature.
TakeCustody(sig, fee) ==
  /\ plan # Unset /\ signed = Unset
  /\ fee = plan.fee
  /\ signed' = sig
  /\ UNCHANGED <<now, vault, fork, mined, request, plan, report>>

-------------------------------------------------------------------------------
(* inspectCronosInclusion: the receipt and the canonical block of its height *)
(* are read one after the other.                                             *)

ReadReceipt ==
  /\ signed # Unset /\ report = NoReport /\ mined # Unset
  /\ report' = [NoReport EXCEPT !.sig = mined.sig, !.block = mined.block,
                                !.status = mined.status, !.released = mined.released]
  /\ UNCHANGED <<now, vault, fork, mined, request, plan, signed>>

\* "truth" is what is on the chain by then (read by one property only).
ReadCanonical ==
  /\ report.sig # Unset /\ report.canonical = Unset
  /\ report' = [report EXCEPT !.canonical = fork, !.truth = mined]
  /\ UNCHANGED <<now, vault, fork, mined, request, plan, signed>>

\* Mutant: the receipt's block is not held against the canonical one.
InclusionStale(r) == r.sig = signed

Inclusion(r) == r.sig = signed /\ r.block = r.canonical
Verdict(r) ==
  IF r.status = 0 THEN "failed" ELSE IF r.released = 1 THEN "released" ELSE "refused"

Inspect ==
  /\ report.canonical # Unset /\ report.verdict = "none"
  /\ report' = [report EXCEPT !.verdict = IF Inclusion(report) THEN Verdict(report) ELSE "refused"]
  /\ UNCHANGED <<now, vault, fork, mined, request, plan, signed>>

Discard == report.verdict # "none" /\ report' = NoReport /\ UNCHANGED <<now, vault, fork, mined, request, plan, signed>>

Signatures == {1, 2}
ReleaseNext ==
  \/ Tick \/ Administer \/ Reorg
  \/ \E fee \in Fees : Prepare(fee)
  \/ \E sig \in Signatures : Execute(sig) \/ \E fee \in Fees : TakeCustody(sig, fee)
  \/ ReadReceipt \/ ReadCanonical \/ Inspect \/ Discard

ReleaseSpec == ReleaseInit /\ [][ReleaseNext]_releaseVars

-------------------------------------------------------------------------------
ReleaseTypeOK ==
  /\ now \in 0..MaxTime /\ vault \in Vaults /\ fork \in 0..MaxForks
  /\ signed \in Signatures \cup {Unset} /\ (signed # Unset => plan # Unset)
  /\ report.verdict \in {"none", "failed", "released", "refused"}

(* Nothing that was accepted offline can be refused by the vault it was      *)
(* prepared for: as long as the vault is what the evidence said and the      *)
(* deadline has not passed, the planned release executes.                    *)
PlanExecutes ==
  plan # Unset /\ vault = plan.evidence /\ now <= Deadline =>
    Executes(vault, plan.version, plan.quorum, now)

(* An inclusion is only told for the transaction in custody, and only as it  *)
(* stood on the chain when its block was last looked up: "released" means    *)
(* the vault released there, "failed" that it did not, whatever was          *)
(* reorganized, replaced by the other signature or undeployed in between.    *)
InclusionWasCanonical ==
  report.verdict \in {"released", "failed"} =>
    /\ report.truth # Unset /\ report.truth.sig = signed
    /\ report.truth.released = IF report.verdict = "released" THEN 1 ELSE 0
=============================================================================
