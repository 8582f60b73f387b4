-------------------------------- MODULE Preflight -------------------------------
(***************************************************************************)
(* The activation preflight: TestnetPreflight.run (preflight.js) over the  *)
(* host inspectors and network probes of live-preflight.js.  It looks at   *)
(* one thing after another: an identity and a path in two awaits each, a   *)
(* service's units, a vault's fields and the nodes by several commands or  *)
(* calls in flight at once.  The host and the networks may change between  *)
(* any two looks, and any look but systemctl's fails the report when it    *)
(* cannot be taken.                                                        *)
(***************************************************************************)
EXTENDS Integers, Sequences, FiniteSets

CONSTANTS Roles,          \* the runtime roles, in the order of the manifest
          UnitsOf,        \* [role -> its systemd units]
          ActiveStates,   \* what `systemctl is-active` can say of a unit
          EnabledStates,  \* what `systemctl is-enabled` can say of it
          OffStates,      \* those of either that mean inactive, disabled or not installed
          Silence,        \* whether a systemctl command may fail without a word
          Uids,           \* user ids as one role sees them: no two roles share one
          Providers,      \* the Cronos RPC providers
          Fields,         \* what readVault asks a provider at once, after the code
          Nodes,          \* the Xitcoin RPC nodes
          MaxMoves        \* bound: changes to the host and the networks

OfPath   == {"state", "wrapper"}
Things   == {"identity"} \cup OfPath
Verbs    == {"active", "enabled"}
Readings == {"codePresent"} \cup Fields

ASSUME PreflightAssumption ==
  /\ Roles # <<>> /\ {Roles[i] : i \in DOMAIN Roles} = DOMAIN UnitsOf
  /\ Uids # {} /\ Uids \cap {"none", "unfit", "missing"} = {}
  /\ OffStates \cap Verbs = {}
  /\ Silence \in BOOLEAN
  /\ Providers # {}
  /\ Fields \cap (Things \cup Verbs \cup {"lock", "name", "codePresent", "status"}) = {}

Units      == UNION {UnitsOf[r] : r \in DOMAIN UnitsOf}
OfUnit     == Units \X Verbs
OfNetworks == (Providers \X Readings) \cup (Nodes \X {"status"})

(* What the run asks about.  Of a role: its passwd record, what `passwd -S`  *)
(* says, the uid its name belongs to, and the owners of its two paths where  *)
(* type and mode are as demanded.                                            *)
Facts == ((DOMAIN UnitsOf) \X (Things \cup {"lock", "name"})) \cup OfUnit \cup OfNetworks

States(d) ==
  CASE d[2] = "active"   -> ActiveStates
    [] d[2] = "enabled"  -> EnabledStates
    [] d[2] = "name"     -> Uids \cup {"none"}
    [] d[2] \in OfPath   -> Uids \cup {"unfit", "missing"}
    [] d[2] = "identity" -> {"met", "missed", "missing"}
    [] OTHER             -> {"met", "missed"}

VARIABLES world,          \* [fact -> how it stands]
          moves,          \* changes of the world so far
          at,             \* the look being taken: role index and kind
          seen,           \* what its commands or calls have answered
          outcome,        \* what the report says
          past,           \* how the world has stood since the run began
          silent,         \* the systemctl commands that said nothing
          untaken          \* whether a look could not be taken

histories     == <<past, silent, untaken>>
preflightVars == <<world, moves, at, seen, outcome, histories>>
Quiet         == UNCHANGED <<world, moves, histories>>

Nothing == <<>>

AsDemanded ==
  [d \in Facts |-> CASE d \in OfUnit               -> CHOOSE s \in States(d) : s \in OffStates
                     [] d[2] \in OfPath \cup {"name"} -> CHOOSE u \in Uids : TRUE
                     [] OTHER                      -> "met"]

PreflightInit ==
  /\ world = AsDemanded /\ moves = 0
  /\ at = <<0, "start">> /\ seen = Nothing
  /\ outcome = "none"
  /\ past = {} /\ silent = {} /\ untaken = FALSE

-------------------------------------------------------------------------------
\* Administrators and operators at work, before the run or during it.
Move ==
  /\ moves < MaxMoves /\ outcome = "none"
  /\ moves' = moves + 1
  /\ \E d \in Facts : \E v \in States(d) \ {world[d]} : world' = [world EXCEPT ![d] = v]
  /\ past' = IF at[2] = "start" THEN past ELSE past \cup {world'}
  /\ UNCHANGED <<at, seen, outcome, silent, untaken>>

-------------------------------------------------------------------------------
(* TestnetPreflight.run: the first check that fails ends it with a report.   *)

Report(result)  == at' = <<0, "done">> /\ outcome' = result /\ seen' = Nothing
GoOn(next)      == at' = next /\ seen' = Nothing /\ UNCHANGED outcome
Check(ok, next) == IF ok THEN GoOn(next) ELSE Report("failed")
Answer(d, value) ==
  /\ seen' = [y \in DOMAIN seen \cup {d} |-> IF y = d THEN value ELSE seen[y]]
  /\ UNCHANGED <<at, outcome>>

Start ==
  /\ at[2] = "start" /\ GoOn(<<1, "identity">>)
  /\ past' = {world}
  /\ UNCHANGED <<world, moves, silent, untaken>>

\* A read, a command or a call fails, throws or times out, and the report with it.
LookFails ==
  /\ at[2] \in Things \cup {"cronos", "xitcoin"}
  /\ Report("failed") /\ untaken' = TRUE
  /\ UNCHANGED <<world, moves, past, silent>>

-------------------------------------------------------------------------------
(* The host inspectors.                                                      *)

Sought == <<Roles[at[1]], at[2]>>

\* The first await of inspectIdentity and inspectPath: /etc/passwd, or stat.
Look ==
  /\ at[2] \in Things /\ seen = Nothing
  /\ IF world[Sought] = "missing" THEN Report("failed") ELSE Answer(Sought, world[Sought])
  /\ Quiet

After == [identity |-> "state", state |-> "wrapper", wrapper |-> "service"]

\* What is found, with the answer of `passwd -S` or of `id` for the uid that was seen.
Confirmed ==
  IF at[2] = "identity"
  THEN seen[Sought] = "met" /\ world[<<Roles[at[1]], "lock">>] = "met"
  ELSE seen[Sought] \in Uids /\ world[<<Roles[at[1]], "name">>] = seen[Sought]

\* The second await, and what run demands of both.
Confirm ==
  /\ at[2] \in Things /\ seen # Nothing
  /\ Check(Confirmed, <<at[1], After[at[2]]>>)
  /\ Quiet

Commands(r) == UnitsOf[r] \X Verbs

\* One systemctl command of inspectService; when it fails, what it printed counts.
Systemctl ==
  /\ at[2] = "service"
  /\ \E c \in Commands(Roles[at[1]]) \ DOMAIN seen :
       \/ Answer(c, world[c]) /\ UNCHANGED silent
       \/ Silence /\ Answer(c, "") /\ silent' = silent \cup {c}
  /\ UNCHANGED <<world, moves, past, untaken>>

\* Mutant: a unit is on unless it says that it is inactive and disabled.
OffIfSaid(answers) == \A c \in DOMAIN answers : answers[c] \in {"inactive", "disabled"}

\* Off is what says neither "active" nor "enabled".
Off(answers) == \A c \in DOMAIN answers : answers[c] \notin Verbs

Service ==
  /\ at[2] = "service" /\ DOMAIN seen = Commands(Roles[at[1]])
  /\ Check(Off(seen), IF at[1] < Len(Roles) THEN <<at[1] + 1, "identity">> ELSE <<0, "cronos">>)
  /\ Quiet

-------------------------------------------------------------------------------
(* The network probes.                                                       *)

\* One call of readVault, of one provider: the code first, the fields in any order.
VaultCall ==
  /\ at[2] = "cronos"
  /\ \E p \in Providers, f \in Readings :
       /\ <<p, f>> \notin DOMAIN seen
       /\ f # "codePresent" => <<p, "codePresent">> \in DOMAIN seen
       /\ Answer(<<p, f>>, world[<<p, f>>])
  /\ Quiet

Reference == CHOOSE p \in Providers : TRUE

\* Mutant: the providers are not compared.
ConformFirst(answers) == \A f \in Readings : answers[<<Reference, f>>] = "met"

\* The snapshots of all providers are the same, and the first as the manifest demands.
AgreeAndConform(answers) ==
  /\ \A p, q \in Providers, f \in Readings : answers[<<p, f>>] = answers[<<q, f>>]
  /\ \A f \in Readings : answers[<<Reference, f>>] = "met"

Cronos ==
  /\ at[2] = "cronos" /\ DOMAIN seen = Providers \X Readings
  /\ Check(AgreeAndConform(seen), <<0, "xitcoin">>)
  /\ Quiet

\* One client's status, which throws for another chain or a node that is catching up.
StatusCall ==
  /\ at[2] = "xitcoin"
  /\ \E n \in Nodes :
       /\ <<n, "status">> \notin DOMAIN seen
       /\ IF world[<<n, "status">>] = "met" THEN Answer(<<n, "status">>, "met") ELSE Report("failed")
  /\ Quiet

Xitcoin ==
  /\ at[2] = "xitcoin" /\ DOMAIN seen = Nodes \X {"status"}
  /\ Report("passed")
  /\ Quiet

PreflightNext ==
  \/ Move \/ Start \/ LookFails
  \/ Look \/ Confirm \/ Systemctl \/ Service
  \/ VaultCall \/ Cronos \/ StatusCall \/ Xitcoin

PreflightSpec == PreflightInit /\ [][PreflightNext]_preflightVars

-------------------------------------------------------------------------------
(* What a report that passed is worth: everything it stands for was so at    *)
(* some moment of the run, whatever moved between its looks.  A role's       *)
(* record and its lock were as demanded, each path belonged to a uid that    *)
(* was the identity's, no unit said it was on, every provider and node       *)
(* showed what the manifest asks for.                                        *)
Was(d) == {w[d] : w \in past}

Hardened(r) == "met" \in Was(<<r, "identity">>) /\ "met" \in Was(<<r, "lock">>)
OwnedOnce(r, path) == \E u \in Uids : u \in Was(<<r, path>>) /\ u \in Was(<<r, "name">>)
NotSaidOn(r) == \A c \in Commands(r) \ silent : \E s \in Was(c) : s \notin Verbs

Vouched(r) == Hardened(r) /\ (\A path \in OfPath : OwnedOnce(r, path)) /\ NotSaidOn(r)

PassIsSound == outcome = "passed" =>
  /\ \A r \in DOMAIN UnitsOf : Vouched(r)
  /\ \A d \in OfNetworks : "met" \in Was(d)

(* And one that failed is deserved: a look could not be taken, or at some    *)
(* moment of the run a demand was not met.  A change between the two awaits  *)
(* of a look is not mistaken for a fault that never was, and a unit that is  *)
(* not installed or a systemctl that says nothing fails nothing.             *)
Unmet(w) ==
  \/ \E r \in DOMAIN UnitsOf :
       \/ w[<<r, "identity">>] # "met" \/ w[<<r, "lock">>] # "met"
       \/ \E path \in OfPath : w[<<r, path>>] \notin Uids \/ w[<<r, path>>] # w[<<r, "name">>]
  \/ \E c \in OfUnit : w[c] \notin OffStates
  \/ \E d \in OfNetworks : w[d] # "met"

FailIsDeserved == outcome = "failed" => untaken \/ \E w \in past : Unmet(w)

(* docs/PREFLIGHT.md, line 15: a pass confirms that every bridge service is  *)
(* both inactive and disabled.                                               *)
ConfirmedOff == outcome = "passed" => \A c \in OfUnit : \E s \in Was(c) : s \in OffStates
=============================================================================
