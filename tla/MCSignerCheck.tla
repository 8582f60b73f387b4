------------------------------ MODULE MCSignerCheck -----------------------------
(* Small instances of what a signer sees of its source: the check of one     *)
(* deposit over one honest provider and one that lies (SignerCheck), and one *)
(* Xitcoin client over its node (CometClient).  They share no state, so a    *)
(* behaviour is one of one of them: "part" names it.                         *)
EXTENDS SignerCheck, CometClient

CONSTANTS p1, p2, e1, e2

\* Two blocks of up to two transactions, with burns with and without msg_index,
\* repeated indexes and other events.
MCEvents == {<<>>, <<NoIndex>>, <<Other, NoIndex>>, <<NoIndex, Other, NoIndex>>, <<0, 1>>, <<1, 1>>, <<1, NoIndex>>}
MCTxs    == [ok : {TRUE}, events : MCEvents] \cup {[ok |-> FALSE, events |-> <<NoIndex>>]}
MCBlocks == {<<>>} \cup {<<t>> : t \in MCTxs} \cup {<<t, u>> : t, u \in MCTxs}
MCChains == {<<b, c>> : b \in MCBlocks, c \in {<<>>} \cup {<<t>> : t \in MCTxs}}

VARIABLE part
mcVars == <<part, checkVars, cometVars>>

\* A component that is not the part keeps one initial state.
MCInit ==
  /\ part \in {"check", "client"}
  /\ CheckInit /\ CometInit
  /\ part # "check" => source = "xitcoin"
  /\ part # "client" => blocks = <<<<>>, <<>>>>

MCNext ==
  \/ part = "check" /\ CheckNext /\ UNCHANGED <<part, cometVars>>
  \/ part = "client" /\ CometNext /\ UNCHANGED <<part, checkVars>>

MCSpec == MCInit /\ [][MCNext]_mcVars
=============================================================================
