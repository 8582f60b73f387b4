------------------------------ MODULE ReleaseCustody ---------------------------
(***************************************************************************)
(* What the custody journal, the intent journal and the relay store promise *)
(* together, as if they were one database and every change were atomic: a  *)
(* transfer has at most one signed release, chosen while the transfer is   *)
(* approved and for an account nonce no other release uses; it is then     *)
(* promised to be sent, and once there is doubt about it the doubt is kept *)
(* until both journals have it.  DurableCustody implements it.             *)
(***************************************************************************)
CONSTANTS Transfers, Txs, TransferOf, SlotOf, Null

VARIABLES approved,       \* transfers approved and unsubmitted
          release         \* by transfer, its signed release and how far it is

Free == [tx |-> Null, stage |-> "free"]
Releases ==
  {Free} \cup [tx : Txs, stage : {"held", "promised", "doubted", "quarantined"}]

Init == approved \in SUBSET Transfers /\ release = [t \in Transfers |-> Free]

Hold(x) ==
  /\ TransferOf[x] \in approved
  /\ release[TransferOf[x]] = Free
  /\ \A t \in Transfers : release[t] # Free => SlotOf[release[t].tx] # SlotOf[x]
  /\ release' = [release EXCEPT ![TransferOf[x]] = [tx |-> x, stage |-> "held"]]
  /\ UNCHANGED approved

Advance(t, from, to) ==
  /\ release[t].stage \in from
  /\ release' = [release EXCEPT ![t] = [tx |-> release[t].tx, stage |-> to]]
  /\ UNCHANGED approved

Promise(t)    == Advance(t, {"held"}, "promised")
Doubt(t)      == Advance(t, {"held", "promised"}, "doubted")
Quarantine(t) == Advance(t, {"doubted"}, "quarantined")

MoveOn(t) == t \in approved /\ approved' = approved \ {t} /\ UNCHANGED release

Next ==
  \/ \E x \in Txs : Hold(x)
  \/ \E t \in Transfers : Promise(t) \/ Doubt(t) \/ Quarantine(t) \/ MoveOn(t)

Spec == Init /\ [][Next]_<<approved, release>>
=============================================================================
