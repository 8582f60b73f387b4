----------------------------- MODULE MCSignerClient ----------------------------
(* Small instances of the two ends of a request for an approval: the client  *)
(* with limits of a few bytes below and above the cap on reads, its body     *)
(* read in pieces (SignerClient), and the signer's process with two requests *)
(* at once and one restart (SignerProcess).  They share no state, so a       *)
(* behaviour is one of one of them: "part" names it.                         *)
EXTENDS SignerClient, SignerProcess

CONSTANTS r1, r2

VARIABLE part
mcVars == <<part, vars, processVars>>

\* A component that is not the part keeps one initial state.
MCInit ==
  /\ part \in {"client", "process"}
  /\ Init /\ ProcessInit
  /\ part # "client" => answer = Pending /\ maxBytes = CHOOSE limit \in Limits : TRUE

MCNext ==
  \/ part = "client" /\ Next /\ UNCHANGED <<part, processVars>>
  \/ part = "process" /\ ProcessNext /\ UNCHANGED <<part, vars>>

\* The fairness of either specification, asked of the part only.
MCSpec ==
  /\ MCInit /\ [][MCNext]_mcVars
  /\ WF_vars(part = "client" /\ Continue) /\ WF_vars(part = "client" /\ Deadline)
  /\ WF_processVars(part = "process" /\ Closed)
  /\ \A r \in Requests : WF_processVars(part = "process" /\ (Handle(r) \/ Abort(r)))

(* Settles, of the behaviours of the client.                                 *)
ClientSettles == part = "client" => Settles
=============================================================================
