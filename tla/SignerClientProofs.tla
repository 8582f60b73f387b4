-------------------------- MODULE SignerClientProofs --------------------------
(***************************************************************************)
(* The two ends of a request for an approval: the proofs of the client,    *)
(* SignerClient, and of the signer process, SignerProcess.                 *)
(***************************************************************************)
EXTENDS SignerClient, SignerProcess, TLAPS

-------------------------------------------------------------------------------
(***************************************************************************)
(* SignerClient for every size limit and every cap on reads.  A body is    *)
(* cancelled once because at each await the flags say whose duty it is;    *)
(* the bound on reads refuses no body it need not because a body that      *)
(* wastes no read has sent a byte for every read but the one that is out.  *)
(***************************************************************************)

Duties ==
  /\ step \in {"credentials", "fetch"} => /\ ~stream /\ ~reading /\ ~complete
                                          /\ length = 0 /\ reads = 0 /\ ~wasteful
  /\ step = "read" => stream /\ reading /\ ~complete /\ reads >= 1
  /\ step = "read" /\ ~wasteful => reads <= length + 1
  /\ step # "done" => cancels = 0

IInv == TypeOK /\ Duties /\ CancelledOnce /\ SizeIsDeserved

-------------------------------------------------------------------------------
(* The bound on reads is a number of its own, fixed with the limit.          *)
LEMMA ReadsBounded ==
  ASSUME maxBytes \in Limits
  PROVE  /\ MaxReads \in Nat /\ MaxReads >= 2
         /\ MaxReads <= maxBytes + 1 /\ (MaxReads < maxBytes + 1 => maxBytes > ReadCap /\ MaxReads = ReadCap + 1)
BY ClientAssumption DEF ClientAssumption, MaxReads

LEMMA ReadsKept == UNCHANGED maxBytes => MaxReads' = MaxReads
BY DEF MaxReads

(* approve settles with a code that is not about size, or with cause.        *)
LEMMA FinishStep ==
  ASSUME IInv, NEW code \in {"approval"} \cup Failures, NEW s \in BOOLEAN, NEW r \in BOOLEAN, NEW c \in BOOLEAN,
         Finish(code, s, r, c), c => s /\ r,
         UNCHANGED maxBytes, length' \in 0..maxBytes, reads' \in 0..MaxReads, wasteful' \in BOOLEAN,
         code = "SIZE" => wasteful' \/ (maxBytes > ReadCap /\ reads' > ReadCap)
  PROVE  IInv'
<1>1. Cancellations(s, r, c) = IF s /\ ~c THEN 1 ELSE 0
  BY DEF Cancellations
<1>2. TypeOK'
  BY <1>1, ReadsKept DEF IInv, TypeOK, Finish, Failures
<1>3. Duties' /\ CancelledOnce' /\ SizeIsDeserved'
  BY <1>1 DEF Finish, Duties, CancelledOnce, SizeIsDeserved
<1> QED
  BY <1>2, <1>3 DEF IInv

LEMMA FailStep ==
  ASSUME IInv, step # "done", NEW code \in Failures, Fail(code),
         UNCHANGED maxBytes, length' \in 0..maxBytes, reads' \in 0..MaxReads, wasteful' \in BOOLEAN,
         code = "SIZE" => wasteful' \/ (maxBytes > ReadCap /\ reads' > ReadCap)
  PROVE  IInv'
<1>1. {stream, reading, complete} \subseteq BOOLEAN /\ ~complete
  BY DEF IInv, TypeOK, Duties
<1> QED
  BY <1>1, FinishStep DEF Fail

(* The counters are where TypeOK has them.                                   *)
LEMMA Counters == IInv => /\ length \in 0..maxBytes /\ reads \in 0..MaxReads /\ wasteful \in BOOLEAN
                          /\ maxBytes \in Nat
<1>1. TypeOK => maxBytes \in Nat
  BY ClientAssumption DEF ClientAssumption, TypeOK
<1>2. ASSUME TypeOK
      PROVE  length \in 0..maxBytes /\ reads \in 0..MaxReads
  BY <1>2 DEF TypeOK
<1>3. ASSUME TypeOK
      PROVE  wasteful \in BOOLEAN
  <2>1. {stream, reading, complete, wasteful} \subseteq BOOLEAN
    BY <1>3, Zenon DEF TypeOK
  <2> QED BY <2>1, Zenon
<1> QED BY <1>1, <1>2, <1>3 DEF IInv

LEMMA SettleStep == ASSUME IInv, Settle PROVE IInv'
<1>1. TypeOK'
  BY ReadsKept DEF IInv, TypeOK, Settle, flagVars, countVars
<1>2. Duties' /\ CancelledOnce' /\ SizeIsDeserved'
  BY DEF IInv, Settle, flagVars, countVars, Duties, CancelledOnce, SizeIsDeserved
<1> QED
  BY <1>1, <1>2 DEF IInv

LEMMA DeadlineStep == ASSUME IInv, Deadline PROVE IInv'
<1>1. "TIMEOUT" \in Failures
  BY DEF Failures
<1> QED
  BY <1>1, FailStep, Counters DEF Deadline, countVars

LEMMA CredentialsStep == ASSUME IInv, Credentials, UNCHANGED maxBytes PROVE IInv'
<1>1. answer \in {Says("good"), Says("malformed"), Says("throws")}
  BY DEF IInv, TypeOK, Credentials, Answers
<1>2. CASE answer = Says("good")
  <2>1. Await("fetch") /\ UNCHANGED <<flagVars, countVars, result>>
    BY <1>2 DEF Credentials, Says
  <2>2. TypeOK'
    BY <2>1, ReadsKept DEF IInv, TypeOK, Await, flagVars, countVars, Credentials
  <2>3. Duties' /\ CancelledOnce' /\ SizeIsDeserved'
    BY <2>1 DEF IInv, Await, flagVars, countVars, Credentials, Duties, CancelledOnce, SizeIsDeserved
  <2> QED BY <2>2, <2>3 DEF IInv
<1>3. CASE answer = Says("malformed")
  <2>1. "AUTHENTICATION" \in Failures /\ Fail("AUTHENTICATION") /\ UNCHANGED countVars
    BY <1>3 DEF Credentials, Says, Failures
  <2> QED BY <2>1, FailStep, Counters DEF Credentials, countVars
<1>4. CASE answer = Says("throws")
  <2>1. "TRANSPORT" \in Failures /\ Fail("TRANSPORT") /\ UNCHANGED countVars
    BY <1>4 DEF Credentials, Says, Failures
  <2> QED BY <2>1, FailStep, Counters DEF Credentials, countVars
<1> QED
  BY <1>1, <1>2, <1>3, <1>4

LEMMA FetchedStep == ASSUME IInv, Fetched, UNCHANGED maxBytes PROVE IInv'
<1>1. answer \in {Says("ok"), Says("status"), Says("streamless"), Says("badLength"), Says("throws")}
  BY DEF IInv, TypeOK, Fetched, Answers
<1>2. /\ maxBytes \in Nat /\ length' \in 0..maxBytes /\ reads' \in 0..MaxReads /\ wasteful' \in BOOLEAN
      /\ length = 0 /\ length' = length /\ ~wasteful /\ wasteful' = wasteful /\ step = "fetch"
  <2>1. maxBytes \in Limits /\ step = "fetch" /\ reads' \in {0, 1} /\ length = 0 /\ ~wasteful
    BY DEF IInv, TypeOK, Duties, Fetched
  <2>2. MaxReads \in Nat /\ MaxReads >= 2
    BY <2>1, ReadsBounded
  <2> QED BY <2>1, <2>2, Counters DEF Fetched
<1>3. {"TRANSPORT", "HTTP", "STREAM", "LENGTH"} \subseteq Failures
  BY DEF Failures
<1>4. CASE answer = Says("ok")
  <2>1. /\ stream' = TRUE /\ reading' = TRUE /\ Await("read") /\ UNCHANGED <<complete, cancels, result>>
        /\ reads' = 1
    BY <1>4 DEF Fetched, Says
  <2>2. TypeOK'
    BY <1>2, <2>1, ReadsKept, ReadsBounded DEF IInv, TypeOK, Await
  <2>3. Duties' /\ CancelledOnce' /\ SizeIsDeserved'
    BY <1>2, <2>1 DEF IInv, TypeOK, Await, Duties, CancelledOnce, SizeIsDeserved
  <2> QED BY <2>2, <2>3 DEF IInv
<1>5. CASE answer = Says("status")
  <2>1. Finish("HTTP", TRUE, FALSE, FALSE)
    BY <1>5 DEF Fetched, Says
  <2> QED BY <1>2, <1>3, <2>1, FinishStep
<1>6. CASE answer = Says("streamless")
  <2>1. Finish("STREAM", FALSE, TRUE, FALSE)
    BY <1>6 DEF Fetched, Says
  <2> QED BY <1>2, <1>3, <2>1, FinishStep
<1>7. CASE answer = Says("badLength")
  <2>1. Finish("LENGTH", TRUE, TRUE, FALSE)
    BY <1>7 DEF Fetched, Says
  <2> QED BY <1>2, <1>3, <2>1, FinishStep
<1>8. CASE answer = Says("throws")
  <2>1. Fail("TRANSPORT")
    BY <1>8 DEF Fetched, Says
  <2> QED BY <1>2, <1>3, <2>1, FailStep
<1> QED
  BY <1>1, <1>4, <1>5, <1>6, <1>7, <1>8

(* A body that wasted nothing is longer than the reads it took, so it cannot *)
(* run out of reads before it runs out of bytes.                             *)
LEMMA ReadChunkStep == ASSUME IInv, ReadChunk, UNCHANGED maxBytes PROVE IInv'
<1>1. /\ step = "read" /\ stream /\ reading /\ ~complete /\ cancels = 0
      /\ reads \in 1..MaxReads /\ length \in 0..maxBytes /\ wasteful \in BOOLEAN /\ maxBytes \in Nat
      /\ ~wasteful => reads <= length + 1
      /\ result = "none"
  BY Counters DEF IInv, TypeOK, Duties, ReadChunk
<1>2. PICK size \in 0..(maxBytes + 1) : size = answer.size
  BY <1>1 DEF IInv, TypeOK, ReadChunk, Answers, Says, Pending
<1>3. wasteful' = (wasteful \/ size = 0 \/ ~Fits(size)) /\ wasteful' \in BOOLEAN
  BY <1>1, <1>2 DEF ReadChunk
<1>6. /\ MaxReads \in Nat /\ MaxReads <= maxBytes + 1 /\ ReadCap \in Nat
      /\ MaxReads < maxBytes + 1 => maxBytes > ReadCap /\ MaxReads = ReadCap + 1
  BY ReadsBounded, ClientAssumption DEF IInv, TypeOK, ClientAssumption
<1>4. CASE ~Fits(size)
  <2>1. Fail("SIZE") /\ UNCHANGED <<length, reads>>
    BY <1>2, <1>4 DEF ReadChunk
  <2>2. wasteful'
    BY <1>3, <1>4
  <2> QED BY <1>1, <2>1, <2>2, FailStep DEF Failures
<1>5. CASE Fits(size)
  <2>1. length' = length + size /\ NextRead /\ length' \in 0..maxBytes
    BY <1>1, <1>2, <1>5 DEF ReadChunk, Fits
  <2>2. ~wasteful' => reads <= length'
    <3>1. SUFFICES ASSUME ~wasteful' PROVE reads <= length'
      OBVIOUS
    <3>2. ~wasteful /\ size # 0
      BY <1>3, <3>1, Zenon
    <3>3. reads <= length + 1
      BY <1>1, <3>2, Zenon
    <3>4. reads \in Int /\ length \in Int /\ size \in Int /\ size >= 1
      BY <1>1, <1>2, <3>2
    <3> QED BY <2>1, <3>3, <3>4
  <2>3. CASE reads + 1 > MaxReads
    <3>1. UNCHANGED reads /\ Fail("SIZE")
      BY <2>1, <2>3 DEF NextRead
    <3>2. wasteful' \/ (maxBytes > ReadCap /\ reads' > ReadCap)
      <4>1. CASE MaxReads = maxBytes + 1
        <5>1. reads > length'
          BY <1>1, <2>1, <2>3, <4>1
        <5> QED BY <1>1, <2>1, <2>2, <5>1
      <4>2. CASE MaxReads < maxBytes + 1
        BY <1>1, <1>6, <2>3, <3>1, <4>2
      <4> QED BY <1>1, <1>6, <4>1, <4>2
    <3> QED BY <1>1, <1>3, <2>1, <3>1, <3>2, FailStep DEF Failures
  <2>4. CASE ~(reads + 1 > MaxReads)
    <3>1. reads' = reads + 1 /\ Await("read") /\ UNCHANGED <<flagVars, result>>
      BY <2>1, <2>4 DEF NextRead
    <3>2. reads' \in 1..MaxReads
      BY <1>1, <1>6, <2>4, <3>1
    <3>3. TypeOK'
      BY <1>1, <1>3, <2>1, <3>1, <3>2, ReadsKept DEF IInv, TypeOK, Await, flagVars
    <3>4. Duties'
      BY <1>1, <2>1, <2>2, <3>1, <3>2 DEF Duties, Await, flagVars
    <3>5. CancelledOnce' /\ SizeIsDeserved'
      BY <1>1, <3>1 DEF CancelledOnce, SizeIsDeserved, Await
    <3> QED BY <3>3, <3>4, <3>5 DEF IInv
  <2> QED BY <2>3, <2>4
<1> QED
  BY <1>4, <1>5

LEMMA ReadEndStep == ASSUME IInv, ReadEnd, UNCHANGED maxBytes PROVE IInv'
<1>1. stream = TRUE /\ reading = TRUE
  BY DEF IInv, TypeOK, Duties, ReadEnd
<1>2. PICK code \in {"approval", "ENCODING", "JSON"} : Finish(code, stream, reading, TRUE)
  BY DEF ReadEnd
<1>3. code \in {"approval"} \cup Failures /\ code # "SIZE"
  BY DEF Failures
<1> QED
  BY <1>1, <1>2, <1>3, FinishStep, Counters DEF ReadEnd, countVars

LEMMA ReadFailsStep == ASSUME IInv, ReadFails, UNCHANGED maxBytes PROVE IInv'
<1>1. PICK code \in {"TRANSPORT", "STREAM"} : Fail(code)
  BY DEF ReadFails
<1>2. code \in Failures /\ code # "SIZE"
  BY DEF Failures
<1> QED
  BY <1>1, <1>2, FailStep, Counters DEF ReadFails, countVars

-------------------------------------------------------------------------------
LEMMA InitIInv == Init => IInv
<1> SUFFICES ASSUME Init PROVE IInv
  OBVIOUS
<1>1. answer \in {Pending} \cup Answers(step, maxBytes)
  <2>1. step = "credentials" /\ answer \in {Pending} \cup Answers("credentials", maxBytes)
    BY Zenon DEF Init
  <2> QED BY <2>1, Zenon
<1>2. maxBytes \in Limits /\ maxBytes \in Nat /\ MaxReads \in Nat
  BY ReadsBounded, ClientAssumption DEF Init, ClientAssumption
<1>3. TypeOK
  <2>1. {stream, reading, complete, wasteful} \subseteq BOOLEAN /\ step = "credentials" /\ result = "none"
    BY DEF Init
  <2>2. cancels \in 0..2 /\ length \in 0..maxBytes /\ reads \in 0..MaxReads
    BY <1>2 DEF Init
  <2>3. /\ step \in {"credentials", "fetch", "read", "done"}
        /\ result \in {"none", "approval"} \cup Failures
        /\ step = "done" <=> result # "none"
    BY <2>1
  <2> QED BY <1>1, <1>2, <2>1, <2>2, <2>3, Zenon DEF TypeOK
<1>4. Duties /\ CancelledOnce /\ SizeIsDeserved
  BY DEF Init, Duties, CancelledOnce, SizeIsDeserved
<1> QED
  BY <1>3, <1>4 DEF IInv

LEMMA NextStep == IInv /\ [Next]_vars => IInv'
<1> SUFFICES ASSUME IInv, [Next]_vars PROVE IInv'
  OBVIOUS
<1>1. CASE UNCHANGED vars
  <2>1. TypeOK'
    BY <1>1, ReadsKept DEF IInv, vars, flagVars, countVars, TypeOK
  <2>2. Duties' /\ CancelledOnce' /\ SizeIsDeserved'
    BY <1>1 DEF IInv, vars, flagVars, countVars, Duties, CancelledOnce, SizeIsDeserved
  <2> QED BY <2>1, <2>2 DEF IInv
<1> QED
  BY <1>1, SettleStep, DeadlineStep, CredentialsStep, FetchedStep, ReadChunkStep, ReadEndStep,
     ReadFailsStep DEF Next, Continue

THEOREM ClientInvariant == Spec => []IInv
BY InitIInv, NextStep, PTL DEF Spec

(* What approve awaits, its flags and its counters have their types.         *)
THEOREM ClientTypeOK == Spec => []TypeOK
<1>1. IInv => TypeOK
  BY DEF IInv
<1> QED
  BY ClientInvariant, <1>1, PTL

(* Every way out of a request cancels the body that is left, once.           *)
THEOREM ClientCancelsOnce == Spec => []CancelledOnce
<1>1. IInv => CancelledOnce
  BY DEF IInv
<1> QED
  BY ClientInvariant, <1>1, PTL

(* No response that fits the limit, however it is cut into chunks that are    *)
(* not empty, is refused for the number of reads it takes, whatever the limit *)
(* and the cap: but for a limit above the cap and more chunks than that.      *)
THEOREM ClientSizeIsDeserved == Spec => []SizeIsDeserved
<1>1. IInv => SizeIsDeserved
  BY DEF IInv
<1> QED
  BY ClientInvariant, <1>1, PTL

-------------------------------------------------------------------------------
(***************************************************************************)
(* What a signer process promises, for any number of requests, any limit   *)
(* and any number of restarts.  Two inductive invariants: Loading ties how *)
(* far each secret file is to where the start-up is, Admitting ties what   *)
(* is known of a request to where its handler is.                          *)
(***************************************************************************)

(* Only the files of the step under way can be open, and what a step leaves  *)
(* in memory is overwritten when it succeeds.                                *)
Loading ==
  /\ pc \in {"config", "connect"} => load = Unread /\ held = {}
  /\ pc = "key" => load["token"] = "no" /\ held \subseteq Pair
  /\ pc = "decrypt" => load["token"] = "no" /\ held \subseteq Pair /\ \A s \in Pair : load[s] = "ok"
  /\ pc = "token" => held \subseteq {"token"} /\ \A s \in Pair : load[s] = "ok"
  /\ SecretsOverwritten

(* What each await of the handler has established of its request.            *)
Admitting == \A r \in Requests :
  /\ handler[r] \in {"unsent", "authorize"} => received[r] = 0
  /\ handler[r] \in {"body", "approve"} => kind[r].path /\ kind[r].token /\ received[r] <= Limit
  /\ handler[r] = "approve" => kind[r].json /\ received[r] = kind[r].length
  /\ r \in signed => handler[r] = "200"

ProcessInv == ProcessTypeOK /\ Loading /\ Admitting /\ SignedWasAdmitted

LEMMA SignerProcessInit == ProcessInit => ProcessInv
<1> SUFFICES ASSUME ProcessInit PROVE ProcessInv
  OBVIOUS
<1>1. AKind \in Kinds
  <2>1. [path |-> TRUE, token |-> TRUE, declared |-> 1, length |-> 1, json |-> TRUE] \in Kinds
    BY SignerProcessAssumption DEF Kinds
  <2> QED BY <2>1 DEF AKind
<1>2. ProcessTypeOK
  BY <1>1, SignerProcessAssumption
  DEF ProcessInit, ProcessTypeOK, Ended, StepStates, LoadStates, Unread, Unconnected, Secrets, Chains
<1>3. Loading /\ Admitting /\ SignedWasAdmitted
  BY SignerProcessAssumption DEF ProcessInit, Loading, SecretsOverwritten, Admitting, SignedWasAdmitted
<1> QED BY <1>2, <1>3 DEF ProcessInv

(* The start-up leaves the requests alone, the requests the secrets.         *)
LEMMA StartUpStep ==
  ASSUME ProcessInv, Start \/ Connect \/ Load PROVE ProcessInv'
<1> USE SignerProcessAssumption
<1>1. ProcessTypeOK /\ Loading /\ Admitting /\ SignedWasAdmitted
  BY DEF ProcessInv
<1>r. UNCHANGED <<requestVars, restarts>>
  BY DEF Start, Connect, Load, LoadSignerConfig, Compose, PairLoaded, Decrypt, LoadBearerToken,
         Listen, Exit, Connected, OpenFile, ReadFile, CloseFile
<1>q. Admitting' /\ SignedWasAdmitted'
  BY <1>1, <1>r DEF requestVars, Admitting, SignedWasAdmitted
<1>t. (kind \in [Requests -> Kinds])' /\ (handler \in [Requests -> StepStates])'
      /\ (received \in [Requests -> 0..Limit + 1])' /\ (signed \subseteq Requests)' /\ (restarts \in 0..MaxRestarts)'
  BY <1>1, <1>r DEF requestVars, ProcessTypeOK
<1> DEFINE T == /\ pc' \in Ended \cup {"config", "connect", "key", "decrypt", "token", "listen", "serving", "closing", "failing"}
                /\ conns' \in [Chains -> {"no", "pending", "ok", "bad"}]
                /\ load' \in [Secrets -> LoadStates]
                /\ held' \subseteq Secrets
<1> SUFFICES T /\ Loading'
  BY <1>q, <1>t DEF ProcessInv, ProcessTypeOK
<1>2. CASE LoadSignerConfig
  BY <1>1, <1>2 DEF LoadSignerConfig, Fails, ProcessTypeOK, Loading, SecretsOverwritten, Ended, Chains
<1>3. CASE Compose
  <2>1. CASE pc' = "failing" /\ UNCHANGED load
    BY <1>1, <1>3, <2>1 DEF Compose, ProcessTypeOK, Loading, SecretsOverwritten
  <2>2. CASE pc' = "key" /\ Open(Pair)
    <3>1. load' \in [Secrets -> LoadStates]
      BY <1>1, <2>2 DEF Open, ProcessTypeOK, LoadStates
    <3>2. load'["token"] = "no" /\ held' = {}
      BY <1>1, <1>3, <2>2 DEF Compose, Open, Loading, Unread, Pair, Secrets
    <3> QED BY <1>1, <1>3, <2>2, <3>1, <3>2 DEF Compose, ProcessTypeOK, Loading, SecretsOverwritten
  <2> QED BY <1>3, <2>1, <2>2 DEF Compose, Fails
<1>4. CASE PairLoaded
  BY <1>1, <1>4 DEF PairLoaded, startVars, Fails, ProcessTypeOK, Loading, SecretsOverwritten, Ended, Pair, Secrets
<1>5. CASE Decrypt
  <2>1. CASE pc' = "failing" /\ UNCHANGED load
    BY <1>1, <1>5, <2>1 DEF Decrypt, ProcessTypeOK, Loading, SecretsOverwritten
  <2>2. CASE pc' = "token" /\ Open({"token"})
    <3>1. load' \in [Secrets -> LoadStates]
      BY <1>1, <2>2 DEF Open, ProcessTypeOK, LoadStates
    <3>2. held' = {} /\ \A s \in Pair : load'[s] = "ok"
      BY <1>1, <1>5, <2>2 DEF Decrypt, Open, Loading, Pair, Secrets
    <3> QED BY <1>1, <1>5, <2>2, <3>1, <3>2 DEF Decrypt, ProcessTypeOK, Loading, SecretsOverwritten
  <2> QED BY <1>5, <2>1, <2>2 DEF Decrypt, Fails
<1>6. CASE LoadBearerToken
  BY <1>1, <1>6 DEF LoadBearerToken, Fails, ProcessTypeOK, Loading, SecretsOverwritten, Ended, Pair, Secrets
<1>7. CASE Listen
  BY <1>1, <1>7 DEF Listen, startVars, Fails, ProcessTypeOK, Loading, SecretsOverwritten, Ended
<1>8. CASE Exit
  BY <1>1, <1>8 DEF Exit, startVars, ProcessTypeOK, Loading, SecretsOverwritten, Ended
<1>9. CASE Connect
  <2>1. PICK c \in Chains : Connected(c)
    BY <1>9 DEF Connect
  <2> QED BY <1>1, <2>1 DEF Connected, ProcessTypeOK, Loading, SecretsOverwritten, Ended
<1>10. CASE Load
  <2>1. PICK s \in Secrets : OpenFile(s) \/ ReadFile(s) \/ CloseFile(s)
    BY <1>10 DEF Load
  <2>2. /\ load[s] \in {"open", "read", "close ok", "close bad"}
        /\ held' = held \/ held' = held \cup {s}
        /\ UNCHANGED <<pc, conns>>
        /\ \E v \in LoadStates : load' = [load EXCEPT ![s] = v]
    BY <2>1 DEF OpenFile, ReadFile, CloseFile, LoadStates
  <2>3. T
    BY <1>1, <2>2 DEF ProcessTypeOK
  <2>4. \A u \in Secrets : u # s => load'[u] = load[u]
    BY <1>1, <2>2 DEF ProcessTypeOK
  <2>5. s \in Pair \/ s = "token"
    BY DEF Secrets, Pair
  <2>6. Pair \subseteq Secrets /\ "token" \in Secrets \ Pair
    BY DEF Secrets, Pair
  <2>7. pc \notin {"config", "connect"}
    BY <1>1, <2>2 DEF Loading, Unread
  <2>8. pc \notin {"decrypt", "listen", "serving", "closing"}
    BY <1>1, <2>2, <2>5 DEF Loading, SecretsOverwritten
  <2>9. pc = "key" => Loading'
    BY <1>1, <2>2, <2>4, <2>5, <2>6 DEF Loading, SecretsOverwritten
  <2>10. pc = "token" => Loading'
    BY <1>1, <2>2, <2>4, <2>5, <2>6 DEF Loading, SecretsOverwritten
  <2>11. pc \notin {"key", "token"} => Loading'
    BY <2>2, <2>7, <2>8 DEF Loading, SecretsOverwritten
  <2>12. Loading'
    BY <2>9, <2>10, <2>11
  <2> QED BY <2>3, <2>12
<1> QED BY <1>2, <1>3, <1>4, <1>5, <1>6, <1>7, <1>8, <1>9, <1>10 DEF Start

LEMMA RequestStep ==
  ASSUME ProcessInv, NEW r \in Requests, Send(r) \/ Handle(r) \/ Abort(r) PROVE ProcessInv'
<1> USE SignerProcessAssumption
<1>1. ProcessTypeOK /\ Loading /\ Admitting /\ SignedWasAdmitted
  BY DEF ProcessInv
<1>s. UNCHANGED <<pc, startVars, restarts>>
  BY DEF Send, Handle, Abort, Authorize, Chunk, Parse, Approve
<1>q. Loading' /\ (pc' \in Ended \cup {"config", "connect", "key", "decrypt", "token", "listen", "serving", "closing", "failing"})
      /\ (conns \in [Chains -> {"no", "pending", "ok", "bad"}])' /\ (restarts \in 0..MaxRestarts)'
      /\ (load \in [Secrets -> LoadStates])' /\ (held \subseteq Secrets)'
  BY <1>1, <1>s DEF startVars, Loading, SecretsOverwritten, ProcessTypeOK
<1>k. \A k \in Kinds : k.length \in 1..Limit + 1 /\ {k.path, k.token, k.json} \subseteq BOOLEAN
  BY DEF Kinds
<1> DEFINE T == /\ kind' \in [Requests -> Kinds]
                /\ handler' \in [Requests -> StepStates]
                /\ received' \in [Requests -> 0..Limit + 1]
                /\ signed' \subseteq Requests
<1> SUFFICES T /\ Admitting' /\ SignedWasAdmitted'
  BY <1>q DEF ProcessInv, ProcessTypeOK
<1>2. CASE Send(r)
  BY <1>1, <1>2 DEF Send, To, ProcessTypeOK, StepStates, InHand, Admitting, SignedWasAdmitted
<1>3. CASE Authorize(r)
  <2>1. UNCHANGED <<kind, received, signed>> /\ handler[r] = "authorize"
        /\ \E v \in {"404", "401", "400", "body"} :
             handler' = [handler EXCEPT ![r] = v] /\ (v = "body" => kind[r].path /\ kind[r].token)
    BY <1>3 DEF Authorize, To
  <2>2. T
    BY <1>1, <2>1 DEF ProcessTypeOK, StepStates, InHand
  <2> QED BY <1>1, <2>1, <2>2 DEF ProcessTypeOK, Admitting, SignedWasAdmitted
<1>4. CASE Chunk(r)
  <2>1. /\ UNCHANGED <<kind, signed>> /\ handler[r] = "body" /\ received[r] < kind[r].length
        /\ received' = [received EXCEPT ![r] = received[r] + 1]
        /\ handler' = [handler EXCEPT ![r] = "400"] \/ (UNCHANGED handler /\ ~(received[r] + 1 > Limit))
    BY <1>4 DEF Chunk, To
  <2>2. received[r] \in Nat /\ received[r] <= Limit /\ received[r] + 1 \in 0..Limit + 1
    BY <1>1, <2>1 DEF ProcessTypeOK, Admitting
  <2>3. T
    BY <1>1, <2>1, <2>2 DEF ProcessTypeOK, StepStates, InHand
  <2>4. r \notin signed
    BY <1>1, <2>1 DEF Admitting
  <2>5. handler' \in [Requests -> StepStates] /\ \A q \in Requests : q # r => handler'[q] = handler[q] /\ received'[q] = received[q]
    BY <1>1, <2>1, <2>3 DEF ProcessTypeOK
  <2>6. handler'[r] = "400" \/ (handler'[r] = "body" /\ received'[r] <= Limit)
    BY <1>1, <2>1, <2>2 DEF ProcessTypeOK
  <2> QED BY <1>1, <2>1, <2>3, <2>4, <2>5, <2>6 DEF Admitting, SignedWasAdmitted
<1>5. CASE Parse(r)
  BY <1>1, <1>5, <1>k DEF Parse, To, ProcessTypeOK, StepStates, InHand, Admitting, SignedWasAdmitted
<1>6. CASE Approve(r)
  <2>1. /\ UNCHANGED <<kind, received>> /\ handler[r] = "approve"
        /\ \/ handler' = [handler EXCEPT ![r] = "200"] /\ signed' = signed \cup {r}
           \/ handler' = [handler EXCEPT ![r] = "400"] /\ signed' = signed
    BY <1>6 DEF Approve, To
  <2>2. T
    BY <1>1, <2>1 DEF ProcessTypeOK, StepStates, InHand
  <2> QED BY <1>1, <2>1, <2>2 DEF ProcessTypeOK, Admitting, SignedWasAdmitted
<1>7. CASE Abort(r)
  BY <1>1, <1>7 DEF Abort, To, ProcessTypeOK, StepStates, InHand, Admitting, SignedWasAdmitted
<1> QED BY <1>2, <1>3, <1>4, <1>5, <1>6, <1>7 DEF Handle

LEMMA EndStep ==
  ASSUME ProcessInv, Shutdown \/ Closed \/ Kill \/ Restart PROVE ProcessInv'
<1> USE SignerProcessAssumption
<1>1. ProcessTypeOK /\ Loading /\ Admitting /\ SignedWasAdmitted
  BY DEF ProcessInv
<1>2. CASE Shutdown
  BY <1>1, <1>2 DEF Shutdown, startVars, requestVars, ProcessInv, ProcessTypeOK, Ended, Loading, SecretsOverwritten, Admitting, SignedWasAdmitted
<1>3. CASE Closed
  BY <1>1, <1>3 DEF Closed, startVars, requestVars, ProcessInv, ProcessTypeOK, Ended, Loading, SecretsOverwritten, Admitting, SignedWasAdmitted
<1>4. CASE Kill
  BY <1>1, <1>4 DEF Kill, startVars, requestVars, ProcessInv, ProcessTypeOK, Ended, Loading, SecretsOverwritten, Admitting, SignedWasAdmitted
<1>5. CASE Restart
  <2>1. ProcessTypeOK'
    <3>1. handler' \in [Requests -> StepStates]
      BY <1>1, <1>5 DEF Restart, ProcessTypeOK, StepStates
    <3>2. load' \in [Secrets -> LoadStates] /\ conns' \in [Chains -> {"no", "pending", "ok", "bad"}]
      BY <1>5 DEF Restart, Unread, Unconnected, LoadStates
    <3>3. restarts' \in 0..MaxRestarts
      <4>1. restarts \in 0..MaxRestarts
        BY <1>1 DEF ProcessTypeOK
      <4>2. restarts < MaxRestarts /\ restarts' = restarts + 1
        BY <1>5 DEF Restart
      <4> QED BY <4>1, <4>2
    <3>4. pc' = "config" /\ held' = {} /\ UNCHANGED <<kind, received, signed>>
      BY <1>5 DEF Restart
    <3>5. kind' \in [Requests -> Kinds] /\ received' \in [Requests -> 0..Limit + 1] /\ signed' \subseteq Requests
      BY <1>1, <3>4 DEF ProcessTypeOK
    <3> QED BY <3>1, <3>2, <3>3, <3>4, <3>5 DEF ProcessTypeOK
  <2>2. Loading'
    BY <1>5 DEF Restart, Loading, SecretsOverwritten
  <2>3. Admitting' /\ SignedWasAdmitted'
    BY <1>1, <1>5 DEF Restart, ProcessTypeOK, InFlight, InHand, Admitting, SignedWasAdmitted
  <2> QED BY <2>1, <2>2, <2>3 DEF ProcessInv
<1> QED BY <1>2, <1>3, <1>4, <1>5

THEOREM SignerProcessInvariant == ProcessSpec => []ProcessInv
<1>1. ProcessInit => ProcessInv
  BY SignerProcessInit
<1>2. ProcessInv /\ [ProcessNext]_processVars => ProcessInv'
  <2>1. CASE UNCHANGED processVars
    BY <2>1 DEF processVars, startVars, requestVars, ProcessInv, ProcessTypeOK, Loading, SecretsOverwritten, Admitting, SignedWasAdmitted
  <2> QED BY <2>1, StartUpStep, RequestStep, EndStep DEF ProcessNext
<1> QED BY <1>1, <1>2, PTL DEF ProcessSpec

(* Every variable has its type.                                              *)
THEOREM SignerProcessTypeOK == ProcessSpec => []ProcessTypeOK
<1>1. ProcessInv => ProcessTypeOK
  BY DEF ProcessInv
<1> QED BY <1>1, SignerProcessInvariant, PTL

(* A signer that serves holds no file's bytes, whatever way its start-up     *)
(* took and however the reads of its files interleaved.                      *)
THEOREM SignerProcessOverwritesSecrets == ProcessSpec => []SecretsOverwritten
<1>1. ProcessInv => SecretsOverwritten
  BY DEF ProcessInv, Loading
<1> QED BY <1>1, SignerProcessInvariant, PTL

(* Every signature is for a request that had the token and a body within the *)
(* limit, whatever the limit.                                                *)
THEOREM SignerProcessAdmits == ProcessSpec => []SignedWasAdmitted
<1>1. ProcessInv => SignedWasAdmitted
  BY DEF ProcessInv
<1> QED BY <1>1, SignerProcessInvariant, PTL
===============================================================================
