------------------------------ MODULE ApprovalCycle ----------------------------
(***************************************************************************)
(* Getting finalized transfers approved: runApprovalOnlyCycle and          *)
(* approveFinalizedTransfer (coordinator.js), collectApprovalQuorum        *)
(* (approvals.js) and the isolated signer services (signer-service.js),    *)
(* each a process of its own.  Requests to the signers are concurrent,     *)
(* answers are late or lost, time passes at every await, the coordinator   *)
(* dies and is restarted, and a compromised signer answers what it likes.  *)
(* Everything a digest covers but the deadline is fixed by the transfer,   *)
(* so <<transfer, deadline>> stands for the digest.                        *)
(***************************************************************************)
EXTENDS Integers, Sequences, SequencesExt

CONSTANTS Transfers,
          Doubtful,        \* those the store may hold without a canonical event
          Signers,         \* the authorized addresses, numbers so that they sort
          Compromised,     \* signers whose service answers anything
          Threshold,       \* approvals needed
          MaxApprovals,    \* maximumApprovals per cycle
          Window,          \* approvalWindowSeconds
          SignerWindow,    \* the signers' maximumDeadlineSeconds
          MaxTime,         \* bound: the clock
          MaxCrashes,      \* bound: coordinator deaths
          Null

ASSUME CycleAssumption ==
  /\ IsFiniteSet(Transfers) /\ Doubtful \subseteq Transfers
  /\ Signers \subseteq Nat /\ IsFiniteSet(Signers) /\ Compromised \subseteq Signers
  /\ Threshold \in 1..Cardinality(Signers)
  /\ Cardinality(Compromised) < Threshold
  /\ MaxApprovals \in Nat \ {0}
  /\ {Window, SignerWindow, MaxTime, MaxCrashes} \subseteq Nat
  /\ Null \notin Nat

VARIABLES now,         \* the clock
          genuine,     \* transfers whose source event is canonical and final
          state, request, updatedAt, approvals,   \* the store's rows and approvals
          pc, cycleNow, queue, replies, chosen,   \* the coordinator's cycle
          serving,     \* requests each signer service is handling
          signed,      \* signatures that exist: <<signer, digest>>
          crashes

storeVars == <<state, request, updatedAt, approvals>>
cycleVars == <<pc, cycleNow, queue, replies, chosen>>
vars == <<now, genuine, storeVars, cycleVars, serving, signed, crashes>>

Honest    == Signers \ Compromised
Deadlines == 0..(MaxTime + Window)
Digests   == Transfers \X Deadlines
Waiting   == [kind |-> "waiting", signer |-> Null, digest |-> Null]
Failed    == [kind |-> "failed", signer |-> Null, digest |-> Null]
Approval  == [kind : {"approval"}, signer : Signers, digest : Digests \cup {Null}]

Steps == {"idle", "scan", "next", "ask", "collect", "record"}

TypeOK ==
  /\ now \in 0..MaxTime
  /\ genuine \subseteq Transfers
  /\ state \in [Transfers -> {"absent", "finalized", "approved"}]
  /\ request \in [Transfers -> Deadlines \cup {Null}]
  /\ updatedAt \in [Transfers -> 0..MaxTime]
  /\ approvals \in [Transfers -> SUBSET (Signers \X Digests)]
  /\ pc \in Steps
  /\ cycleNow \in 0..MaxTime
  /\ queue \in Seq(Transfers)
  /\ replies \in [Signers -> {Waiting, Failed} \cup Approval]
  /\ chosen \in Seq(Signers)
  /\ serving \in [Honest -> SUBSET [digest : Digests, step : {"authorize", "verify"}]]
  /\ signed \subseteq Signers \X Digests
  /\ crashes \in 0..MaxCrashes

NoReplies == [s \in Signers |-> Failed]

Init ==
  /\ now = 0
  /\ genuine \in {Transfers \ S : S \in SUBSET Doubtful}
  /\ state = [t \in Transfers |-> "absent"]
  /\ request = [t \in Transfers |-> Null]
  /\ updatedAt = [t \in Transfers |-> 0]
  /\ approvals = [t \in Transfers |-> {}]
  /\ pc = "idle" /\ cycleNow = 0 /\ queue = <<>> /\ replies = NoReplies /\ chosen = <<>>
  /\ serving = [s \in Honest |-> {}]
  /\ signed = {}
  /\ crashes = 0

Tick ==
  /\ now < MaxTime /\ now' = now + 1
  /\ UNCHANGED <<genuine, storeVars, cycleVars, serving, signed, crashes>>

Current == Head(queue)
Digest  == <<Current, request[Current]>>

\* A throw ends the process, and its supervisor starts another: back to idle.
Stop == pc' = "idle" /\ cycleNow' = 0 /\ queue' = <<>> /\ replies' = NoReplies /\ chosen' = <<>>

-------------------------------------------------------------------------------
(* The coordinator's cycle.                                                  *)

\* The clock is read once, before the scans.
StartCycle ==
  /\ pc = "idle"
  /\ pc' = "scan" /\ cycleNow' = now
  /\ UNCHANGED <<now, genuine, storeVars, queue, replies, chosen, serving, signed, crashes>>

\* The scans put newly finalized transfers in the store ...
Arrive(t) ==
  /\ pc = "scan"
  /\ state[t] = "absent"
  /\ state' = [state EXCEPT ![t] = "finalized"]
  /\ updatedAt' = [updatedAt EXCEPT ![t] = now]
  /\ UNCHANGED <<now, genuine, request, approvals, cycleVars, serving, signed, crashes>>

\* ... and when they are done, the finalized ones are taken in updated_at order.
Pending == {t \in Transfers : state[t] = "finalized"}
Ordered(q) == \A i, j \in DOMAIN q : i < j => updatedAt[q[i]] <= updatedAt[q[j]]
LoadPending ==
  /\ pc = "scan"
  /\ \E q \in SetToSeqs(Pending) :
       Ordered(q) /\ queue' = SubSeq(q, 1, Min({Len(q), MaxApprovals}))
  /\ pc' = "next"
  /\ UNCHANGED <<now, genuine, storeVars, cycleNow, replies, chosen, serving, signed, crashes>>

\* Mutant: every cycle builds the request anew.
PersistRequestAfresh ==
  /\ pc = "next" /\ queue # <<>>
  /\ request' = [request EXCEPT ![Current] = cycleNow + Window]
  /\ updatedAt' = [updatedAt EXCEPT ![Current] = now]
  /\ pc' = "ask"
  /\ UNCHANGED <<now, genuine, state, approvals, cycleNow, queue, replies, chosen, serving, signed, crashes>>

\* The stored request or a new one, which is persisted before any signer sees it.
PersistRequest ==
  /\ pc = "next" /\ queue # <<>>
  /\ IF request[Current] = Null
     THEN /\ request' = [request EXCEPT ![Current] = cycleNow + Window]
          /\ updatedAt' = [updatedAt EXCEPT ![Current] = now]
     ELSE UNCHANGED <<request, updatedAt>>
  /\ pc' = "ask"
  /\ UNCHANGED <<now, genuine, state, approvals, cycleNow, queue, replies, chosen, serving, signed, crashes>>

\* collectApprovalQuorum: refused when expired by the cycle's clock, else asked of all.
AskSigners ==
  /\ pc = "ask"
  /\ IF request[Current] < cycleNow
     THEN Stop /\ UNCHANGED serving
     ELSE /\ serving' = [s \in Honest |-> serving[s] \cup {[digest |-> Digest, step |-> "authorize"]}]
          /\ replies' = [s \in Signers |-> Waiting]
          /\ pc' = "collect"
          /\ UNCHANGED <<cycleNow, queue, chosen>>
  /\ UNCHANGED <<now, genuine, storeVars, signed, crashes>>

\* Mutant: a client with no deadline.
GiveUpNever(s) == FALSE /\ UNCHANGED vars

\* A client's deadline passes, or its connection breaks: the answer is dropped.
GiveUp(s) ==
  /\ pc = "collect" /\ replies[s] = Waiting
  /\ replies' = [replies EXCEPT ![s] = Failed]
  /\ UNCHANGED <<now, genuine, storeVars, pc, cycleNow, queue, chosen, serving, signed, crashes>>

Settled  == {s \in Signers : replies[s].kind = "approval"}
\* verifyApproval: the digest asked for, and a signature that recovers to a signer.
Verified(r) == r.digest = Digest /\ <<r.signer, r.digest>> \in signed
Distinct(S) == \A a, b \in S : a # b => replies[a].signer # replies[b].signer

\* The lowest addresses that approved, in order, as many as are required.
Lowest(S) == [i \in 1..Threshold |-> CHOOSE s \in S : Cardinality({a \in S : a <= s}) = i]

\* Once every client settled: one bad answer, a duplicate or too few stop the cycle.
Tally ==
  /\ pc = "collect"
  /\ \A s \in Signers : replies[s] # Waiting
  /\ IF /\ \A s \in Settled : Verified(replies[s])
        /\ Distinct(Settled)
        /\ Cardinality({replies[s].signer : s \in Settled}) >= Threshold
     THEN /\ chosen' = Lowest({replies[s].signer : s \in Settled})
          /\ pc' = "record"
          /\ replies' = NoReplies
          /\ UNCHANGED <<cycleNow, queue>>
     ELSE Stop
  /\ UNCHANGED <<now, genuine, storeVars, serving, signed, crashes>>

\* recordApproval, one statement per approval; a different earlier one conflicts.
RecordApproval ==
  /\ pc = "record" /\ chosen # <<>>
  /\ IF \E a \in approvals[Current] : a[1] = Head(chosen) /\ a[2] # Digest
     THEN Stop /\ UNCHANGED approvals
     ELSE /\ approvals' = [approvals EXCEPT ![Current] = @ \cup {<<Head(chosen), Digest>>}]
          /\ chosen' = Tail(chosen)
          /\ UNCHANGED <<pc, cycleNow, queue, replies>>
  /\ UNCHANGED <<now, genuine, state, request, updatedAt, serving, signed, crashes>>

\* Mutant: the state moves before every approval is in the store.
ApproveEarly ==
  /\ pc = "record"
  /\ state' = [state EXCEPT ![Current] = "approved"]
  /\ updatedAt' = [updatedAt EXCEPT ![Current] = now]
  /\ queue' = Tail(queue)
  /\ chosen' = <<>>
  /\ pc' = "next"
  /\ UNCHANGED <<now, genuine, request, approvals, cycleNow, replies, serving, signed, crashes>>

\* transition(..., "approved"), after every approval is in the store.
Approve ==
  /\ pc = "record" /\ chosen = <<>>
  /\ state' = [state EXCEPT ![Current] = "approved"]
  /\ updatedAt' = [updatedAt EXCEPT ![Current] = now]
  /\ queue' = Tail(queue)
  /\ pc' = "next"
  /\ UNCHANGED <<now, genuine, request, approvals, cycleNow, replies, chosen, serving, signed, crashes>>

EndCycle ==
  /\ pc = "next" /\ queue = <<>>
  /\ Stop
  /\ UNCHANGED <<now, genuine, storeVars, serving, signed, crashes>>

Crash ==
  /\ pc # "idle" /\ crashes < MaxCrashes
  /\ crashes' = crashes + 1
  /\ Stop
  /\ UNCHANGED <<now, genuine, storeVars, serving, signed>>

-------------------------------------------------------------------------------
(* The signer services.                                                      *)

Answer(s, r) == replies' = IF pc = "collect" /\ replies[s] = Waiting /\ r.digest = Digest
                           THEN [replies EXCEPT ![s] = r] ELSE replies
Refuse(s, g) == replies' = IF pc = "collect" /\ replies[s] = Waiting /\ g = Digest
                           THEN [replies EXCEPT ![s] = Failed] ELSE replies
Done(s, g, step) == serving[s] \ {[digest |-> g, step |-> step]}

\* authorizeSignerRequest: neither expired nor too far ahead by the signer's clock.
Authorize(s, g) ==
  /\ [digest |-> g, step |-> "authorize"] \in serving[s]
  /\ IF g[2] >= now /\ g[2] <= now + SignerWindow
     THEN /\ serving' = [serving EXCEPT ![s] = Done(s, g, "authorize") \cup
                                               {[digest |-> g, step |-> "verify"]}]
          /\ UNCHANGED replies
     ELSE /\ serving' = [serving EXCEPT ![s] = Done(s, g, "authorize")]
          /\ Refuse(s, g)
  /\ UNCHANGED <<now, genuine, storeVars, pc, cycleNow, queue, chosen, signed, crashes>>

\* Mutant: the verdict of the source verifier is ignored.
SignUnverified(s, g) ==
  /\ [digest |-> g, step |-> "verify"] \in serving[s]
  /\ serving' = [serving EXCEPT ![s] = Done(s, g, "verify")]
  /\ signed' = signed \cup {<<s, g>>}
  /\ Answer(s, [kind |-> "approval", signer |-> s, digest |-> g])
  /\ UNCHANGED <<now, genuine, storeVars, pc, cycleNow, queue, chosen, crashes>>

\* The source is verified at the signer's own providers, then the digest is signed.
VerifyAndSign(s, g) ==
  /\ [digest |-> g, step |-> "verify"] \in serving[s]
  /\ serving' = [serving EXCEPT ![s] = Done(s, g, "verify")]
  /\ IF g[1] \in genuine
     THEN /\ signed' = signed \cup {<<s, g>>}
          /\ Answer(s, [kind |-> "approval", signer |-> s, digest |-> g])
     ELSE Refuse(s, g) /\ UNCHANGED signed
  /\ UNCHANGED <<now, genuine, storeVars, pc, cycleNow, queue, chosen, crashes>>

\* The signer's providers disagree or are down.
SourceUnavailable(s, g) ==
  /\ [digest |-> g, step |-> "verify"] \in serving[s]
  /\ serving' = [serving EXCEPT ![s] = Done(s, g, "verify")]
  /\ Refuse(s, g)
  /\ UNCHANGED <<now, genuine, storeVars, pc, cycleNow, queue, chosen, signed, crashes>>

\* A compromised signer signs anything, replays what others signed, or sends garbage.
Lie(s) ==
  /\ pc = "collect" /\ replies[s] = Waiting
  /\ \E r \in Approval :
       /\ r.digest \in {Digest, Null}
       /\ r.signer = s \/ <<r.signer, r.digest>> \in signed
       /\ replies' = [replies EXCEPT ![s] = r]
       /\ signed' = IF r.signer = s /\ r.digest # Null THEN signed \cup {<<s, r.digest>>} ELSE signed
  /\ UNCHANGED <<now, genuine, storeVars, pc, cycleNow, queue, chosen, serving, crashes>>

Coordinator == \/ StartCycle \/ LoadPending \/ PersistRequest \/ AskSigners \/ Tally
               \/ RecordApproval \/ Approve \/ EndCycle
Service(s)  == \E g \in Digests : Authorize(s, g) \/ VerifyAndSign(s, g) \/ SourceUnavailable(s, g)

Next ==
  \/ Tick
  \/ Coordinator
  \/ \E t \in Transfers : Arrive(t)
  \/ \E s \in Signers : GiveUp(s)
  \/ \E s \in Honest : Service(s)
  \/ \E s \in Compromised : Lie(s)
  \/ Crash

Spec == Init /\ [][Next]_vars

\* The coordinator's own steps always get their turn, and every request a client
\* has out ends by its timeout at the latest.
FairSpec == Spec /\ WF_vars(Coordinator) /\ \A s \in Signers : WF_vars(GiveUp(s))

\* ... and so do the signer services, the scan's arrivals and the clock.
HealthySpec == /\ FairSpec /\ WF_vars(Tick)
               /\ \A t \in Transfers : WF_vars(Arrive(t))
               /\ \A s \in Honest : WF_vars(Service(s))

-------------------------------------------------------------------------------
(* No honest signer ever signs two digests for one transfer, nor do two of   *)
(* them sign different ones: crashes, retries, late requests still being     *)
(* served and changing deadlines notwithstanding.                            *)
OneDigestPerTransfer ==
  \A x, y \in signed : {x[1], y[1]} \subseteq Honest /\ x[2][1] = y[2][1] => x[2] = y[2]

(* Only a transfer whose source event honest signers found canonical and     *)
(* final is approved, whatever the store was made to hold and whatever fewer *)
(* than a threshold of compromised signers answer, replay or repeat.         *)
OnlyGenuineApproved == \A t \in Transfers : state[t] = "approved" => t \in genuine

(* An approved transfer can be submitted: a threshold of distinct signers'   *)
(* approvals of exactly its persisted request are in the store, and all the  *)
(* store holds for it are of that request.                                   *)
ApprovedHasQuorum == \A t \in Transfers : state[t] = "approved" =>
  /\ Cardinality({a[1] : a \in approvals[t]}) >= Threshold
  /\ \A a \in approvals[t] : a[2] = <<t, request[t]>>

(* No cycle hangs: whatever signers do with its requests, it ends.           *)
CycleEnds == pc # "idle" ~> pc = "idle"

(* OPERATIONS.md:47: "The approval-only coordinator resumes non-terminal     *)
(* records from the local store": a finalized transfer is eventually put to  *)
(* the signers.                                                              *)
PendingResumed == \A t \in Transfers : state[t] = "finalized" ~> request[t] # Null
=============================================================================
