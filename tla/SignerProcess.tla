------------------------------ MODULE SignerProcess -----------------------------
(***************************************************************************)
(* The process of one isolated signer, from its start to its end: the      *)
(* start-up of signer-cli.js and signer-bootstrap.js with the secret files *)
(* of secure-keystore.js, the HTTP handler of signer-service.js over the   *)
(* requests being served at once, the shutdown on a signal, and the        *)
(* supervisor that starts the process again.  What a signature says of its *)
(* source is SignerCheck's; here a request is what the handler tells apart.*)
(***************************************************************************)
EXTENDS Integers, FiniteSets

CONSTANTS Requests,     \* requests coordinators and others send
          Limit,        \* maximumRequestBytes, in chunks
          MaxRestarts   \* bound: starts after the first

ASSUME SignerProcessAssumption == Limit \in Nat \ {0} /\ MaxRestarts \in Nat

Secrets == {"keystore", "password", "token"}
Pair    == {"keystore", "password"}
Chains  == {"cronos", "xitcoin"}

\* What the handler can tell of a request; a chunked body declares no length.
Kinds == {k \in [path : BOOLEAN, token : BOOLEAN, declared : 0..Limit + 1, length : 0..Limit + 1,
                 json : BOOLEAN] : k.declared \in {0, k.length} /\ k.length > 0}

VARIABLES pc,        \* where the process is
          conns,     \* [chain -> what connecting to it came to]
          load,      \* [secret -> how far boundedPrivateFile is with its file]
          held,      \* the secrets whose file bytes are in memory
          kind,      \* [request -> what it is]
          handler,   \* [request -> where its handler is]
          received,  \* [request -> chunks of its body so far]
          signed,    \* the requests a signature was made for
          restarts

startVars   == <<conns, load, held>>
requestVars == <<kind, handler, received, signed>>
processVars == <<pc, startVars, requestVars, restarts>>

Ended      == {"exit 0", "exit 1", "killed"}
LoadStates == {"no", "open", "read", "close ok", "close bad", "ok", "bad"}
InHand     == {"authorize", "body", "approve"}
StepStates == InHand \cup {"unsent", "200", "400", "401", "404", "gone"}
InFlight   == {r \in Requests : handler[r] \in InHand}
Unread     == [s \in Secrets |-> "no"]
Unconnected == [c \in Chains |-> "no"]
AKind      == CHOOSE k \in Kinds : TRUE

ProcessInit ==
  /\ pc = "config" /\ conns = Unconnected /\ load = Unread /\ held = {}
  /\ kind = [r \in Requests |-> AKind] /\ handler = [r \in Requests |-> "unsent"]
  /\ received = [r \in Requests |-> 0] /\ signed = {}
  /\ restarts = 0

-------------------------------------------------------------------------------
(* Start-up.                                                                 *)

\* main's catch sets the exit code: the process ends when nothing is pending.
Fails == pc' = "failing"

LoadSignerConfig ==
  /\ pc = "config"
  /\ \/ pc' = "connect" /\ conns' = [c \in Chains |-> "pending"]
     \/ Fails /\ UNCHANGED conns
  /\ UNCHANGED <<load, held, requestVars, restarts>>

Connected(c) ==
  /\ conns[c] = "pending" /\ pc \notin Ended
  /\ \E answer \in {"ok", "bad"} : conns' = [conns EXCEPT ![c] = answer]
  /\ UNCHANGED <<pc, load, held, requestVars, restarts>>

Open(files) == load' = [s \in Secrets |-> IF s \in files THEN "open" ELSE load[s]]

\* Promise.all over the chains, then the watchers, the policy and the verifier.
Compose ==
  /\ pc = "connect"
  /\ \/ \E c \in Chains : conns[c] = "bad" /\ Fails /\ UNCHANGED load
     \/ /\ \A c \in Chains : conns[c] = "ok"
        /\ \/ pc' = "key" /\ Open(Pair)
           \/ Fails /\ UNCHANGED load
  /\ UNCHANGED <<conns, held, requestVars, restarts>>

\* boundedPrivateFile, an await at a time: open and stat, the bytes, the close.
OpenFile(s) ==
  /\ load[s] = "open" /\ pc \notin Ended
  /\ \E next \in {"read", "close bad", "bad"} : load' = [load EXCEPT ![s] = next]
  /\ UNCHANGED <<pc, conns, held, requestVars, restarts>>

ReadFile(s) ==
  /\ load[s] = "read" /\ pc \notin Ended
  /\ \/ load' = [load EXCEPT ![s] = "close bad"] /\ held' \in {held, held \cup {s}}
     \/ load' = [load EXCEPT ![s] = "close ok"] /\ held' = held \cup {s}
  /\ UNCHANGED <<pc, conns, requestVars, restarts>>

CloseFile(s) ==
  /\ load[s] \in {"close ok", "close bad"} /\ pc \notin Ended
  /\ \/ load' = [load EXCEPT ![s] = "bad"]
     \/ load[s] = "close ok" /\ load' = [load EXCEPT ![s] = "ok"]
  /\ UNCHANGED <<pc, conns, held, requestVars, restarts>>

\* Promise.all over the two files: the first failure is the answer, the other
\* file is read all the same; what was read is only known when both succeed.
PairLoaded ==
  /\ pc = "key"
  /\ \/ \E s \in Pair : load[s] = "bad" /\ Fails
     \/ (\A s \in Pair : load[s] = "ok") /\ pc' = "decrypt"
  /\ UNCHANGED <<startVars, requestVars, restarts>>

\* Mutant: the bytes are overwritten only when the key is not the expected one.
DecryptWipesOnFailure ==
  /\ pc = "decrypt"
  /\ \/ pc' = "token" /\ Open({"token"}) /\ UNCHANGED held
     \/ Fails /\ held' = held \ Pair /\ UNCHANGED load
  /\ UNCHANGED <<conns, requestVars, restarts>>

\* The wallet of the expected account, or not; either way the bytes are overwritten.
Decrypt ==
  /\ pc = "decrypt"
  /\ held' = held \ Pair
  /\ \/ pc' = "token" /\ Open({"token"})
     \/ Fails /\ UNCHANGED load
  /\ UNCHANGED <<conns, requestVars, restarts>>

\* createBearerCredentialAuthorizer
LoadBearerToken ==
  /\ pc = "token"
  /\ \/ load["token"] = "bad" /\ Fails /\ UNCHANGED held
     \/ load["token"] = "ok" /\ held' = held \ {"token"} /\ (pc' = "listen" \/ Fails)
  /\ UNCHANGED <<conns, load, requestVars, restarts>>

\* startLoopbackSignerServer: the port may be taken.
Listen ==
  /\ pc = "listen"
  /\ pc' = "serving" \/ Fails
  /\ UNCHANGED <<startVars, requestVars, restarts>>

Exit ==
  /\ pc = "failing"
  /\ \A c \in Chains : conns[c] # "pending"
  /\ \A s \in Secrets : load[s] \in {"no", "ok", "bad"}
  /\ pc' = "exit 1"
  /\ UNCHANGED <<startVars, requestVars, restarts>>

-------------------------------------------------------------------------------
(* The requests being served.                                                *)

Serving == pc \in {"serving", "closing"}
To(r, s) == handler' = [handler EXCEPT ![r] = s]

Send(r) ==
  /\ pc = "serving" /\ handler[r] = "unsent"
  /\ \E k \in Kinds : kind' = [kind EXCEPT ![r] = k]
  /\ To(r, "authorize")
  /\ UNCHANGED <<pc, startVars, received, signed, restarts>>

\* 404 for another path, 401 without the token, 400 when too much is declared.
Authorize(r) ==
  /\ Serving /\ handler[r] = "authorize"
  /\ To(r, IF ~kind[r].path THEN "404" ELSE IF ~kind[r].token THEN "401"
           ELSE IF kind[r].declared > Limit THEN "400" ELSE "body")
  /\ UNCHANGED <<pc, startVars, kind, received, signed, restarts>>

\* Mutant: a body is held against what it declared.
ChunkAsDeclared(r) ==
  /\ Serving /\ handler[r] = "body" /\ received[r] < kind[r].length
  /\ received' = [received EXCEPT ![r] = @ + 1]
  /\ IF kind[r].declared > 0 /\ received[r] + 1 > Limit THEN To(r, "400") ELSE UNCHANGED handler
  /\ UNCHANGED <<pc, startVars, kind, signed, restarts>>

\* One chunk of the body, against the limit whatever was declared.
Chunk(r) ==
  /\ Serving /\ handler[r] = "body" /\ received[r] < kind[r].length
  /\ received' = [received EXCEPT ![r] = @ + 1]
  /\ IF received[r] + 1 > Limit THEN To(r, "400") ELSE UNCHANGED handler
  /\ UNCHANGED <<pc, startVars, kind, signed, restarts>>

Parse(r) ==
  /\ Serving /\ handler[r] = "body" /\ received[r] = kind[r].length
  /\ To(r, IF kind[r].json THEN "approve" ELSE "400")
  /\ UNCHANGED <<pc, startVars, kind, received, signed, restarts>>

\* IsolatedSignerService.approve: the policy and the source are SignerCheck's.
Approve(r) ==
  /\ Serving /\ handler[r] = "approve"
  /\ \/ To(r, "200") /\ signed' = signed \cup {r}
     \/ To(r, "400") /\ UNCHANGED signed
  /\ UNCHANGED <<pc, startVars, kind, received, restarts>>

\* The connection breaks or the request timeout ends it: the body throws, and
\* an approval under way is made for nobody.
Abort(r) ==
  /\ Serving /\ handler[r] \in {"authorize", "body"}
  /\ To(r, "gone")
  /\ UNCHANGED <<pc, startVars, kind, received, signed, restarts>>

-------------------------------------------------------------------------------
(* Signals and the supervisor.                                               *)

\* server.close: no new connection, and the exit when the last one has ended.
Shutdown ==
  /\ pc = "serving" /\ pc' = "closing"
  /\ UNCHANGED <<startVars, requestVars, restarts>>

\* Mutant: the process ends on the signal.
ClosedAtOnce ==
  /\ pc = "closing" /\ pc' = "exit 0"
  /\ UNCHANGED <<startVars, requestVars, restarts>>

Closed ==
  /\ pc = "closing" /\ InFlight = {} /\ pc' = "exit 0"
  /\ UNCHANGED <<startVars, requestVars, restarts>>

\* A crash, or a signal when no handler, or none any more, is there to take it.
Kill ==
  /\ pc \notin Ended /\ pc' = "killed"
  /\ UNCHANGED <<startVars, requestVars, restarts>>

\* Restart=on-failure; what the dead process was serving is lost.
Restart ==
  /\ pc \in {"exit 1", "killed"} /\ restarts < MaxRestarts
  /\ restarts' = restarts + 1
  /\ pc' = "config" /\ conns' = Unconnected /\ load' = Unread /\ held' = {}
  /\ handler' = [r \in Requests |-> IF r \in InFlight THEN "gone" ELSE handler[r]]
  /\ UNCHANGED <<kind, received, signed>>

Start      == LoadSignerConfig \/ Compose \/ PairLoaded \/ Decrypt \/ LoadBearerToken \/ Listen \/ Exit
Connect    == \E c \in Chains : Connected(c)
Load       == \E s \in Secrets : OpenFile(s) \/ ReadFile(s) \/ CloseFile(s)
Handle(r)  == Authorize(r) \/ Chunk(r) \/ Parse(r) \/ Approve(r)

ProcessNext ==
  \/ Start \/ Connect \/ Load
  \/ \E r \in Requests : Send(r) \/ Handle(r) \/ Abort(r)
  \/ Shutdown \/ Closed \/ Kill \/ Restart

ProcessSpec == ProcessInit /\ [][ProcessNext]_processVars

\* Every await of a handler ends: the request timeout sees to the body, the
\* providers' timeouts to the source check.
ProcessFairSpec == ProcessSpec /\ WF_processVars(Closed) /\ \A r \in Requests : WF_processVars(Handle(r) \/ Abort(r))

-------------------------------------------------------------------------------
ProcessTypeOK ==
  /\ pc \in Ended \cup {"config", "connect", "key", "decrypt", "token", "listen", "serving", "closing", "failing"}
  /\ conns \in [Chains -> {"no", "pending", "ok", "bad"}]
  /\ load \in [Secrets -> LoadStates]
  /\ held \subseteq Secrets
  /\ kind \in [Requests -> Kinds]
  /\ handler \in [Requests -> StepStates]
  /\ received \in [Requests -> 0..Limit + 1]
  /\ signed \subseteq Requests
  /\ restarts \in 0..MaxRestarts

(* A signer that serves holds no file's bytes and no file open: whatever way *)
(* the start-up took, secrets it read outlive it only in a process that      *)
(* failed and is about to end.                                               *)
SecretsOverwritten ==
  pc \in {"listen", "serving", "closing"} =>
    held = {} /\ \A s \in Secrets : load[s] = "ok"

(* Every signature is for a request that had the token and a body within the *)
(* limit, however its length was declared.                                   *)
SignedWasAdmitted == \A r \in signed :
  kind[r].path /\ kind[r].token /\ kind[r].json /\ received[r] = kind[r].length /\ received[r] <= Limit

(* A request the process has taken is answered, unless its client leaves or  *)
(* the process is killed: a shutdown waits for it.                           *)
TakenIsAnswered == \A r \in Requests : handler[r] \in InHand ~> handler[r] \notin InHand \/ pc = "killed"
=============================================================================
