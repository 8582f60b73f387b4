----------------------------- MODULE MCDurableCustody --------------------------
(* Small instances of what a signed Cronos release goes through before it is *)
(* sent: its preparation and the reading of its inclusion (CronosRelease),   *)
(* the opening of the journals (JournalOpen) and its reservation             *)
(* (DurableCustody).  They share no state, so a behaviour is one of one of   *)
(* them: "part" names it.                                                    *)
EXTENDS DurableCustody, JournalOpen, CronosRelease, TLC

CONSTANTS w1, w2, w3, t1, t2, x1, x2, y1,     \* two rival transactions of one
                                              \* transfer, one of another
          p1, p2, b1, b2, f1, f2              \* two openers for two releases

MCTransferOf == [x \in Txs |-> IF x = y1 THEN t2 ELSE t1]
MCSlotOf     == [x \in Txs |-> IF x = x2 THEN 2 ELSE 1]

\* Openers, files and bindings are alike to every action and property.
Symmetry == Permutations(Procs) \cup Permutations(Files) \cup Permutations(Bindings)

\* A rotation replaces one of three signers; approvals come in and out of order,
\* repeated, for another digest, with either recovery byte.
MCSignersOf == [v \in 1..2 |-> IF v = 1 THEN {1, 2, 3} ELSE {2, 3, 4}]
By(s, v)  == [signer |-> s, v |-> v, digest |-> "own"]
MCQuorums == {
  <<By(1, 27), By(2, 28)>>, <<By(2, 27), By(3, 27)>>, <<By(2, 27), By(3, 28), By(4, 27)>>,
  <<By(2, 0), By(3, 27)>>, <<By(2, 27), By(3, 1)>>, <<By(3, 27), By(2, 27)>>, <<By(2, 27), By(2, 28)>>,
  <<By(2, 27)>>, <<By(2, 27), [signer |-> 3, v |-> 27, digest |-> "other"]>>}
MCFees    == {[gas |-> 2, price |-> 3], [gas |-> 4, price |-> 4], [gas |-> 3, price |-> 4]}
MCLimits  == [maxGas |-> 4, maxGasPrice |-> 4, maxFee |-> 12]

VARIABLE part
mcVars == <<part, vars, journalVars, releaseVars>>

\* A component that is not the part keeps one initial state.
MCInit ==
  /\ part \in {"custody", "journal", "release"}
  /\ Init /\ JournalInit /\ ReleaseInit
  /\ part # "custody" => approved = {}
  /\ part # "release" => /\ vault.paused /\ vault.version = 1
                         /\ request = [version |-> 1, quorum |-> <<By(2, 27)>>]

MCNext ==
  \/ part = "custody" /\ Next /\ UNCHANGED <<part, journalVars, releaseVars>>
  \/ part = "journal" /\ JournalNext /\ UNCHANGED <<part, vars, releaseVars>>
  \/ part = "release" /\ ReleaseNext /\ UNCHANGED <<part, vars, journalVars>>

MCSpec == MCInit /\ [][MCNext]_mcVars
=============================================================================
