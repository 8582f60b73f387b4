-------------------------------- MODULE MCCanary -------------------------------
(* Small instances of an operator's controls: the preflight of a coordinator *)
(* with its unit and of a signer with the legacy and the instantiated one,   *)
(* over two providers and two nodes (Preflight), the canary, with as many    *)
(* hashes as a full one needs (Canary), and the supervisor, with two         *)
(* critical workers about one that is not (Runtime).  They share no state,   *)
(* so a behaviour is one of one of them: "part" names it.                    *)
EXTENDS Canary, Preflight, Runtime

CONSTANTS h1, h2, h3, h4, watchers, metrics, submissions, x, y

MCRoles   == <<"coordinator", "signer-1">>
MCUnitsOf == [r \in {"coordinator", "signer-1"} |->
                IF r = "coordinator" THEN {"coordinator"} ELSE {"signer-1", "signer@1"}]
MCWorkers == <<watchers, metrics, submissions>>

VARIABLE part
mcVars == <<part, vars, preflightVars, runtimeVars>>

\* A component that is not the part keeps one initial state.
MCInit ==
  /\ part \in {"canary", "preflight", "runtime"}
  /\ Init /\ PreflightInit /\ RuntimeInit

MCNext ==
  \/ part = "canary" /\ Next /\ UNCHANGED <<part, preflightVars, runtimeVars>>
  \/ part = "preflight" /\ PreflightNext /\ UNCHANGED <<part, vars, runtimeVars>>
  \/ part = "runtime" /\ RuntimeNext /\ UNCHANGED <<part, vars, preflightVars>>

MCSpec == MCInit /\ [][MCNext]_mcVars
=============================================================================
