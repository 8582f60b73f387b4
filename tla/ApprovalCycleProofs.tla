--------------------------- MODULE ApprovalCycleProofs -------------------------
(***************************************************************************)
(* The approval cycle's safety, for any signers, transfers and windows: an *)
(* approved transfer has a threshold of signatures of its one persisted    *)
(* request, an honest one among them, and so is genuine.                   *)
(***************************************************************************)
EXTENDS ApprovalCycle, FiniteSetTheorems, FunctionTheorems, TLAPS

(* A stage that works on a transfer has one, with its request persisted.     *)
CycleOK == pc \in {"ask", "collect", "record"} => queue # <<>> /\ request[Current] # Null

(* What honest signers have in hand or have signed is the persisted request, *)
(* and what they signed they found genuine.                                  *)
Requested ==
  /\ \A s \in Honest : \A x \in serving[s] : x.digest[2] = request[x.digest[1]]
  /\ \A x \in signed : x[1] \in Honest => x[2][2] = request[x[2][1]] /\ x[2][1] \in genuine

(* Approvals are signatures of the persisted request.                        *)
ApprovalsOK == \A t \in Transfers : approvals[t] \subseteq signed \cap (Signers \X {<<t, request[t]>>})

Approvers(t) == {a[1] : a \in approvals[t]}

(* The chosen signers not yet recorded make up, with those that are, a       *)
(* threshold; an approved transfer has one.                                  *)
RecordOK == pc = "record" =>
  /\ \A s \in Range(chosen) : <<s, Digest>> \in signed
  /\ Cardinality(Range(chosen) \cup Approvers(Current)) >= Threshold
QuorumOK == \A t \in Transfers : state[t] = "approved" => Cardinality(Approvers(t)) >= Threshold

IInv == TypeOK /\ CycleOK /\ Requested /\ ApprovalsOK /\ RecordOK /\ QuorumOK

-------------------------------------------------------------------------------
(* The threshold of lowest addresses.                                        *)

(* In a finite set of numbers, how many are not above it tells every number  *)
(* apart, so there is one of every rank.                                     *)
LEMMA Ranks ==
  ASSUME NEW S \in SUBSET Nat, IsFiniteSet(S), NEW i \in 1..Cardinality(S)
  PROVE  \E s \in S : Cardinality({a \in S : a <= s}) = i
<1> DEFINE Upto(s) == {a \in S : a <= s}
           rank == [s \in S |-> Cardinality(Upto(s))]
           n == Cardinality(S)
<1>1. n \in Nat
  BY FS_CardinalityType
<1>2. \A s \in S : IsFiniteSet(Upto(s)) /\ Cardinality(Upto(s)) \in 1..n
  <2> SUFFICES ASSUME NEW s \in S
               PROVE  IsFiniteSet(Upto(s)) /\ Cardinality(Upto(s)) \in 1..n
    OBVIOUS
  <2>1. IsFiniteSet(Upto(s)) /\ Cardinality(Upto(s)) <= n
    BY FS_Subset
  <2>2. s \in Upto(s)
    OBVIOUS
  <2>3. Cardinality(Upto(s)) \in Nat
    BY <2>1, FS_CardinalityType
  <2>4. Cardinality(Upto(s)) # 0
    <3> HIDE DEF Upto
    <3> QED BY <2>1, <2>2, FS_EmptySet
  <2> QED BY <1>1, <2>1, <2>3, <2>4
<1>3. ASSUME NEW s \in S, NEW t \in S, s < t
      PROVE  Cardinality(Upto(s)) # Cardinality(Upto(t))
  <2>1. Upto(s) \subseteq Upto(t)
    <3>1. \A a \in Nat : a <= s => a <= t
      BY <1>3
    <3> QED BY <3>1
  <2>2. t \in Upto(t) /\ t \notin Upto(s)
    BY <1>3
  <2> QED BY <1>2, <2>1, <2>2, FS_Subset
<1>4. rank \in [S -> 1..n] /\ \A s \in S : rank[s] = Cardinality(Upto(s))
  BY <1>2
<1>5. \A s, t \in S : rank[s] = rank[t] => s = t
  BY <1>3, <1>4
<1>6. rank \in Injection(S, 1..n)
  BY <1>4, <1>5, Fun_IsInj
<1>7. IsFiniteSet(1..n) /\ Cardinality(1..n) = n
  BY <1>1, FS_Interval
<1>8. rank \in Surjection(S, 1..n)
  BY <1>6, <1>7, FS_Injection
<1>9. \A j \in 1..n : \E s \in S : rank[s] = j
  <2> HIDE DEF rank, n
  <2> QED BY ONLY <1>8, Fun_SurjectionProperties
<1>10. PICK s \in S : rank[s] = i
  BY <1>9
<1>11. Cardinality(Upto(s)) = i
  <2> HIDE DEF rank, Upto
  <2> QED BY <1>4, <1>10
<1> QED BY <1>11

(* Lowest yields as many different signers as are required, all of them      *)
(* among the given ones.                                                     *)
LEMMA LowestChosen ==
  ASSUME NEW S \in SUBSET Signers, Cardinality(S) >= Threshold
  PROVE  /\ Lowest(S) \in Seq(S)
         /\ Range(Lowest(S)) \subseteq S
         /\ IsFiniteSet(Range(Lowest(S)))
         /\ Cardinality(Range(Lowest(S))) = Threshold
<1> USE CycleAssumption
<1> DEFINE q == Lowest(S)
<1>1. S \in SUBSET Nat /\ IsFiniteSet(S) /\ Cardinality(S) \in Nat /\ Threshold \in Nat
  <2>1. IsFiniteSet(Signers) /\ IsFiniteSet(S)
    BY FS_Subset
  <2>2. Cardinality(Signers) \in Nat /\ Cardinality(S) \in Nat
    BY <2>1, FS_CardinalityType
  <2> QED BY <2>1, <2>2
<1>2. \A i \in 1..Threshold : \E s \in S : Cardinality({a \in S : a <= s}) = i
  <2> SUFFICES ASSUME NEW i \in 1..Threshold
               PROVE  \E s \in S : Cardinality({a \in S : a <= s}) = i
    OBVIOUS
  <2>1. i \in 1..Cardinality(S)
    BY <1>1
  <2> QED BY ONLY <1>1, <2>1, Ranks
<1>3. \A i \in 1..Threshold : q[i] \in S /\ Cardinality({a \in S : a <= q[i]}) = i
  BY <1>2 DEF Lowest
<1>4. q \in [1..Threshold -> S]
  BY <1>3 DEF Lowest
<1>5. \A i, j \in 1..Threshold : q[i] = q[j] => i = j
  BY <1>3
<1>6. q \in Injection(1..Threshold, S)
  BY <1>4, <1>5, Fun_IsInj
<1>7. q \in Surjection(1..Threshold, Range(q)) /\ Range(q) \subseteq S
  BY <1>4, Fun_RangeProperties
<1>8. q \in Injection(1..Threshold, Range(q))
  BY <1>5, <1>7, Fun_IsInj, Fun_SurjectionProperties
<1>9. IsFiniteSet(1..Threshold) /\ Cardinality(1..Threshold) = Threshold
  BY <1>1, FS_Interval
<1>10. IsFiniteSet(Range(q)) /\ Cardinality(Range(q)) = Threshold
  BY <1>7, <1>8, <1>9, FS_Surjection
<1>11. q \in Seq(S)
  BY <1>1, <1>4
<1> QED BY <1>7, <1>10, <1>11

-------------------------------------------------------------------------------
(* Facts about a state of the cycle.                                         *)

LEMMA CurrentTyped ==
  ASSUME TypeOK, queue # <<>>
  PROVE  Current \in Transfers /\ Tail(queue) \in Seq(Transfers)
BY DEF TypeOK, Current

LEMMA DigestTyped ==
  ASSUME TypeOK, CycleOK, pc \in {"ask", "collect", "record"}
  PROVE  /\ Current \in Transfers /\ request[Current] \in Deadlines
         /\ Digest \in Digests /\ Digest[1] = Current /\ Digest[2] = request[Current]
<1>1. Current \in Transfers
  BY CurrentTyped DEF CycleOK
<1>2. request[Current] \in Deadlines
  BY <1>1 DEF TypeOK, CycleOK
<1> QED BY <1>1, <1>2 DEF Digest, Digests

(* No state has more approvers than signers.                                 *)
LEMMA ApproversFinite ==
  ASSUME TypeOK, NEW t \in Transfers
  PROVE  IsFiniteSet(Approvers(t)) /\ Approvers(t) \subseteq Signers
<1>1. Approvers(t) \subseteq Signers
  BY DEF Approvers, TypeOK
<1>2. IsFiniteSet(Signers)
  BY CycleAssumption DEF CycleAssumption
<1> QED BY <1>1, <1>2, FS_Subset

(* A cycle that has stopped is well typed, and owes nothing.                 *)
LEMMA StopTyped ==
  ASSUME Stop
  PROVE  /\ pc' \in Steps /\ cycleNow' \in 0..MaxTime /\ queue' \in Seq(Transfers)
         /\ replies' \in [Signers -> {Waiting, Failed} \cup Approval] /\ chosen' \in Seq(Signers)
         /\ CycleOK' /\ RecordOK'
<1>1. 0 \in 0..MaxTime
  BY CycleAssumption DEF CycleAssumption
<1>2. <<>> \in Seq(Transfers) /\ <<>> \in Seq(Signers)
  OBVIOUS
<1>3. NoReplies \in [Signers -> {Waiting, Failed} \cup Approval]
  BY DEF NoReplies
<1> QED BY <1>1, <1>2, <1>3 DEF Stop, Steps, CycleOK, RecordOK

-------------------------------------------------------------------------------
(* Types, one step per action.                                               *)
LEMMA CoordinatorTyped ==
  ASSUME IInv, Coordinator
  PROVE  TypeOK'
<1> USE DEF IInv
<1>1. CASE StartCycle
  BY <1>1 DEF StartCycle, TypeOK, storeVars, Steps
<1>2. CASE LoadPending
  <2>1. PICK q \in SetToSeqs(Pending) : queue' = SubSeq(q, 1, Min({Len(q), MaxApprovals}))
    BY <1>2 DEF LoadPending
  <2>2. q \in Seq(Transfers)
    <3>1. IsFiniteSet(Pending) /\ Pending \subseteq Transfers
      BY CycleAssumption, FS_Subset DEF CycleAssumption, Pending
    <3>2. Cardinality(Pending) \in Nat
      BY <3>1, FS_CardinalityType
    <3>3. q \in [1..Cardinality(Pending) -> Transfers]
      BY <3>1 DEF SetToSeqs
    <3> QED BY <3>2, <3>3
  <2>3. Min({Len(q), MaxApprovals}) \in {Len(q), MaxApprovals} /\ Min({Len(q), MaxApprovals}) <= Len(q)
    <3>1. Len(q) \in Nat /\ MaxApprovals \in Nat
      BY <2>2, CycleAssumption DEF CycleAssumption
    <3>2. \E x \in {Len(q), MaxApprovals} : \A y \in {Len(q), MaxApprovals} : x =< y
      BY <3>1
    <3> QED BY <3>2 DEF Min
  <2>4. queue' \in Seq(Transfers)
    <3> DEFINE m == Min({Len(q), MaxApprovals})
    <3>1. m \in 0..Len(q)
      BY <2>2, <2>3, CycleAssumption DEF CycleAssumption
    <3> HIDE DEF m
    <3>2. SubSeq(q, 1, m) \in Seq(Transfers)
      BY <2>2, <3>1
    <3> QED BY <2>1, <3>2 DEF m
  <2> QED BY <1>2, <2>4 DEF LoadPending, TypeOK, storeVars, Steps
<1>3. CASE PersistRequest
  <2>1. Current \in Transfers
    BY <1>3, CurrentTyped DEF PersistRequest
  <2>2. cycleNow + Window \in Deadlines
    BY CycleAssumption DEF CycleAssumption, TypeOK, Deadlines
  <2>3. request' \in [Transfers -> Deadlines \cup {Null}] /\ updatedAt' \in [Transfers -> 0..MaxTime]
    BY <1>3, <2>2 DEF PersistRequest, TypeOK
  <2> QED BY <1>3, <2>3 DEF PersistRequest, TypeOK, Steps
<1>4. CASE AskSigners
  <2>1. CASE request[Current] < cycleNow
    BY <1>4, <2>1, StopTyped DEF AskSigners, TypeOK, storeVars
  <2>2. CASE ~(request[Current] < cycleNow)
    <3>1. Digest \in Digests
      BY <1>4, DigestTyped DEF AskSigners
    <3>2. serving' \in [Honest -> SUBSET [digest : Digests, step : {"authorize", "verify"}]]
      BY <1>4, <2>2, <3>1 DEF AskSigners, TypeOK
    <3>3. replies' \in [Signers -> {Waiting, Failed} \cup Approval]
      BY <1>4, <2>2 DEF AskSigners
    <3> QED BY <1>4, <2>2, <3>2, <3>3 DEF AskSigners, TypeOK, storeVars, Steps
  <2> QED BY <2>1, <2>2
<1>5. CASE Tally
  <2> DEFINE S == {replies[s].signer : s \in Settled}
  <2>1. CASE Stop
    BY <1>5, <2>1, StopTyped DEF Tally, TypeOK, storeVars
  <2>2. CASE ~Stop
    <3>1. /\ chosen' = Lowest(S) /\ Cardinality(S) >= Threshold
          /\ pc' = "record" /\ replies' = NoReplies /\ UNCHANGED <<cycleNow, queue>>
      BY <1>5, <2>2 DEF Tally
    <3>2. S \subseteq Signers
      BY DEF Settled, TypeOK, Waiting, Failed, Approval
    <3>3. chosen' \in Seq(Signers)
      <4> HIDE DEF S
      <4> QED BY <3>1, <3>2, LowestChosen
    <3>4. replies' \in [Signers -> {Waiting, Failed} \cup Approval]
      BY <3>1 DEF NoReplies
    <3> QED BY <1>5, <3>1, <3>3, <3>4 DEF Tally, TypeOK, storeVars, Steps
  <2> QED BY <2>1, <2>2
<1>6. CASE RecordApproval
  <2>1. CASE Stop /\ UNCHANGED approvals
    BY <1>6, <2>1, StopTyped DEF RecordApproval, TypeOK
  <2>2. CASE ~(Stop /\ UNCHANGED approvals)
    <3>1. /\ approvals' = [approvals EXCEPT ![Current] = @ \cup {<<Head(chosen), Digest>>}]
          /\ chosen' = Tail(chosen) /\ UNCHANGED <<pc, cycleNow, queue, replies>>
      BY <1>6, <2>2 DEF RecordApproval
    <3>2. Digest \in Digests
      BY <1>6, DigestTyped DEF RecordApproval
    <3>3. Head(chosen) \in Signers /\ Tail(chosen) \in Seq(Signers)
      BY <1>6 DEF RecordApproval, TypeOK
    <3>4. approvals' \in [Transfers -> SUBSET (Signers \X Digests)]
      <4>1. {<<Head(chosen), Digest>>} \in SUBSET (Signers \X Digests)
        BY <3>2, <3>3
      <4> DEFINE T == SUBSET (Signers \X Digests)
      <4>2. \A A, B \in T : A \cup B \in T
        OBVIOUS
      <4>3. approvals \in [Transfers -> T]
        BY DEF TypeOK
      <4> DEFINE X == {<<Head(chosen), Digest>>}
                 t == Current
      <4>4. approvals' = [approvals EXCEPT ![t] = @ \cup X] /\ X \in T
        BY <3>1, <4>1
      <4> HIDE DEF T, X, t
      <4>5. approvals' \in [Transfers -> T]
        BY ONLY <4>2, <4>3, <4>4
      <4> QED BY <4>5 DEF T
    <3> QED BY <1>6, <3>1, <3>3, <3>4 DEF RecordApproval, TypeOK
  <2> QED BY <2>1, <2>2
<1>7. CASE Approve
  <2>1. Current \in Transfers /\ Tail(queue) \in Seq(Transfers)
    BY <1>7, CurrentTyped DEF Approve, CycleOK
  <2> QED BY <1>7, <2>1 DEF Approve, TypeOK, Steps
<1>8. CASE EndCycle
  BY <1>8, StopTyped DEF EndCycle, TypeOK, storeVars
<1> QED
  BY <1>1, <1>2, <1>3, <1>4, <1>5, <1>6, <1>7, <1>8 DEF Coordinator

LEMMA ServiceTyped ==
  ASSUME IInv, NEW s \in Honest, Service(s)
  PROVE  TypeOK'
<1> USE DEF IInv
<1>0. s \in Signers
  BY DEF Honest
<1>1. PICK g \in Digests : Authorize(s, g) \/ VerifyAndSign(s, g) \/ SourceUnavailable(s, g)
  BY DEF Service
<1>2. Failed \in {Waiting, Failed} \cup Approval
  OBVIOUS
<1>3. [kind |-> "approval", signer |-> s, digest |-> g] \in {Waiting, Failed} \cup Approval
  BY <1>0 DEF Approval
<1>4. replies' \in [Signers -> {Waiting, Failed} \cup Approval]
  BY <1>0, <1>1, <1>2, <1>3 DEF Authorize, VerifyAndSign, SourceUnavailable, Answer, Refuse, TypeOK
<1>5. serving' \in [Honest -> SUBSET [digest : Digests, step : {"authorize", "verify"}]]
  <2> DEFINE T == SUBSET [digest : Digests, step : {"authorize", "verify"}]
  <2>1. serving \in [Honest -> T] /\ serving[s] \in T
    BY DEF TypeOK
  <2>2. {[digest |-> g, step |-> "verify"]} \in T
    OBVIOUS
  <2>3. \A step : Done(s, g, step) \in T
    BY <2>1 DEF Done
  <2>4. \A A, B \in T : A \cup B \in T
    OBVIOUS
  <2> HIDE DEF T
  <2>5. \E D \in T : serving' = [serving EXCEPT ![s] = D]
    BY <1>1, <2>2, <2>3, <2>4 DEF Authorize, VerifyAndSign, SourceUnavailable
  <2> QED BY <2>1, <2>5 DEF T
<1>6. signed' \subseteq Signers \X Digests
  BY <1>0, <1>1 DEF Authorize, VerifyAndSign, SourceUnavailable, TypeOK
<1> QED
  BY <1>1, <1>4, <1>5, <1>6 DEF Authorize, VerifyAndSign, SourceUnavailable, TypeOK, storeVars

LEMMA TypeStep ==
  ASSUME IInv, [Next]_vars
  PROVE  TypeOK'
<1> USE DEF IInv
<1>1. CASE Tick
  BY <1>1, CycleAssumption DEF CycleAssumption, Tick, TypeOK, storeVars, cycleVars
<1>2. CASE Coordinator
  BY <1>2, CoordinatorTyped
<1>3. ASSUME NEW t \in Transfers, Arrive(t) PROVE TypeOK'
  BY <1>3 DEF Arrive, TypeOK, cycleVars
<1>4. ASSUME NEW s \in Signers, GiveUp(s) PROVE TypeOK'
  BY <1>4 DEF GiveUp, TypeOK, storeVars
<1>5. ASSUME NEW s \in Honest, Service(s) PROVE TypeOK'
  BY <1>5, ServiceTyped
<1>6. ASSUME NEW s \in Compromised, Lie(s) PROVE TypeOK'
  <2>1. s \in Signers
    BY CycleAssumption DEF CycleAssumption
  <2>2. Digest \in Digests
    BY <1>6, DigestTyped DEF Lie
  <2>3. PICK r \in Approval : /\ r.digest \in {Digest, Null}
                              /\ replies' = [replies EXCEPT ![s] = r]
                              /\ signed' = IF r.signer = s /\ r.digest # Null
                                           THEN signed \cup {<<s, r.digest>>} ELSE signed
    BY <1>6 DEF Lie
  <2>4. replies' \in [Signers -> {Waiting, Failed} \cup Approval]
    BY <2>3 DEF TypeOK
  <2>5. signed' \subseteq Signers \X Digests
    BY <2>1, <2>2, <2>3 DEF TypeOK
  <2> QED BY <1>6, <2>4, <2>5 DEF Lie, TypeOK, storeVars
<1>7. CASE Crash
  <2>1. /\ pc' \in Steps /\ cycleNow' \in 0..MaxTime /\ queue' \in Seq(Transfers)
        /\ replies' \in [Signers -> {Waiting, Failed} \cup Approval] /\ chosen' \in Seq(Signers)
    BY <1>7, StopTyped DEF Crash
  <2>2. crashes' \in 0..MaxCrashes
    BY <1>7, CycleAssumption DEF CycleAssumption, Crash, TypeOK
  <2>3. UNCHANGED <<now, genuine, state, request, updatedAt, approvals, serving, signed>>
    BY <1>7 DEF Crash, storeVars
  <2> QED BY <2>1, <2>2, <2>3 DEF TypeOK
<1>8. CASE UNCHANGED vars
  BY <1>8 DEF vars, TypeOK, storeVars, cycleVars
<1> QED
  BY <1>1, <1>2, <1>3, <1>4, <1>5, <1>6, <1>7, <1>8 DEF Next

-------------------------------------------------------------------------------
(* Who writes what.                                                          *)

(* A persisted request never changes, a signature never goes away, and what  *)
(* is genuine stays so.                                                      *)
LEMMA NeverTakenBack ==
  ASSUME IInv, [Next]_vars
  PROVE  /\ \A t \in Transfers : request[t] # Null => request'[t] = request[t]
         /\ signed \subseteq signed'
         /\ genuine' = genuine
<1> USE DEF IInv
<1>1. CASE PersistRequest
  BY <1>1 DEF PersistRequest, TypeOK
<1>2. CASE Coordinator /\ ~PersistRequest
  BY <1>2 DEF Coordinator, StartCycle, LoadPending, AskSigners, Tally, RecordApproval, Approve,
              EndCycle, storeVars
<1>3. ASSUME NEW s \in Honest, Service(s)
      PROVE  UNCHANGED request /\ signed \subseteq signed' /\ genuine' = genuine
  BY <1>3 DEF Service, Authorize, VerifyAndSign, SourceUnavailable, storeVars
<1>4. ASSUME NEW s \in Compromised, Lie(s)
      PROVE  UNCHANGED request /\ signed \subseteq signed' /\ genuine' = genuine
  BY <1>4 DEF Lie, storeVars
<1>5. CASE Tick \/ Crash \/ (\E t \in Transfers : Arrive(t)) \/ (\E s \in Signers : GiveUp(s))
  BY <1>5 DEF Tick, Crash, Arrive, GiveUp, storeVars
<1> QED
  BY <1>1, <1>2, <1>3, <1>4, <1>5 DEF Next, vars, storeVars

(* Outside its own steps and its death the coordinator's cycle moves only in *)
(* the replies it waits for, and the approvals not at all.                   *)
LEMMA CycleKept ==
  ASSUME [Next]_vars, ~Coordinator, ~Crash
  PROVE  UNCHANGED <<pc, cycleNow, queue, chosen, approvals, request>>
<1>1. CASE Tick \/ (\E t \in Transfers : Arrive(t)) \/ (\E s \in Signers : GiveUp(s))
  BY <1>1 DEF Tick, Arrive, GiveUp, storeVars, cycleVars
<1>2. ASSUME NEW s \in Honest, Service(s)
      PROVE  UNCHANGED <<pc, cycleNow, queue, chosen, approvals, request>>
  BY <1>2 DEF Service, Authorize, VerifyAndSign, SourceUnavailable, storeVars
<1>3. ASSUME NEW s \in Compromised, Lie(s)
      PROVE  UNCHANGED <<pc, cycleNow, queue, chosen, approvals, request>>
  BY <1>3 DEF Lie, storeVars
<1> QED
  BY <1>1, <1>2, <1>3 DEF Next, vars, storeVars, cycleVars

(* The numbers among the requests are the persisted ones.                    *)
LEMMA DeadlineNotNull ==
  ASSUME NEW d \in Deadlines
  PROVE  d # Null
BY CycleAssumption DEF CycleAssumption, Deadlines

-------------------------------------------------------------------------------
(* The parts of the invariant, one step per action that can disturb them.    *)
LEMMA CycleStep ==
  ASSUME IInv, [Next]_vars
  PROVE  CycleOK'
<1> USE DEF IInv
<1>1. CASE PersistRequest
  <2>1. Current \in Transfers /\ queue' = queue
    BY <1>1, CurrentTyped DEF PersistRequest
  <2>2. cycleNow + Window \in Deadlines
    BY CycleAssumption DEF CycleAssumption, TypeOK, Deadlines
  <2>3. cycleNow + Window # Null
    BY <2>2, DeadlineNotNull
  <2>4. request'[Current] # Null
    BY <1>1, <2>1, <2>3 DEF PersistRequest, TypeOK
  <2> QED BY <1>1, <2>1, <2>4 DEF PersistRequest, CycleOK, Current
<1>2. CASE StartCycle \/ LoadPending \/ Approve
  BY <1>2 DEF StartCycle, LoadPending, Approve, CycleOK
<1>3. CASE AskSigners
  BY <1>3, StopTyped DEF AskSigners, CycleOK, Current, storeVars
<1>4. CASE Tally
  BY <1>4, StopTyped DEF Tally, CycleOK, Current, storeVars
<1>5. CASE RecordApproval
  BY <1>5, StopTyped DEF RecordApproval, CycleOK, Current
<1>6. CASE EndCycle \/ Crash
  BY <1>6, StopTyped DEF EndCycle, Crash
<1>7. CASE ~Coordinator /\ ~Crash
  BY <1>7, CycleKept DEF CycleOK, Current
<1> QED
  BY <1>1, <1>2, <1>3, <1>4, <1>5, <1>6, <1>7 DEF Coordinator

(* What a signer service has in hand it had before, or was just asked.       *)
LEMMA InHand ==
  ASSUME IInv, [Next]_vars, NEW s \in Honest, NEW x \in serving'[s]
  PROVE  \/ \E y \in serving[s] : y.digest = x.digest
         \/ pc = "ask" /\ x.digest = Digest
<1> USE DEF IInv
<1>0. serving \in [Honest -> SUBSET [digest : Digests, step : {"authorize", "verify"}]]
  BY DEF TypeOK
<1>1. CASE AskSigners
  BY <1>1 DEF AskSigners
<1>2. CASE UNCHANGED serving
  BY <1>2
<1>3. ASSUME NEW v \in Honest, Service(v)
      PROVE  \E y \in serving[s] : y.digest = x.digest
  <2>1. PICK g \in Digests : Authorize(v, g) \/ VerifyAndSign(v, g) \/ SourceUnavailable(v, g)
    BY <1>3 DEF Service
  <2>2. CASE s # v
    BY <1>0, <2>1, <2>2 DEF Authorize, VerifyAndSign, SourceUnavailable
  <2>3. CASE s = v
    <3>1. x \in serving[s] \/ (x = [digest |-> g, step |-> "verify"] /\ Authorize(v, g))
      BY <1>0, <2>1, <2>3 DEF Authorize, VerifyAndSign, SourceUnavailable, Done
    <3>2. ASSUME x = [digest |-> g, step |-> "verify"], Authorize(v, g)
          PROVE  \E y \in serving[s] : y.digest = x.digest
      <4>1. [digest |-> g, step |-> "authorize"] \in serving[s]
        BY <2>3, <3>2 DEF Authorize
      <4>2. [digest |-> g, step |-> "authorize"].digest = x.digest
        BY <3>2
      <4> QED BY <4>1, <4>2
    <3> QED BY <3>1, <3>2
  <2> QED BY <2>2, <2>3
<1>4. CASE Coordinator /\ ~AskSigners
  BY <1>2, <1>4 DEF Coordinator, StartCycle, LoadPending, PersistRequest, Tally, RecordApproval,
                    Approve, EndCycle
<1>5. CASE Tick \/ Crash \/ (\E t \in Transfers : Arrive(t)) \/ (\E v \in Signers : GiveUp(v))
           \/ (\E v \in Compromised : Lie(v))
  BY <1>2, <1>5 DEF Tick, Crash, Arrive, GiveUp, Lie
<1> QED
  BY <1>1, <1>2, <1>3, <1>4, <1>5 DEF Next, vars

(* A new signature is of what its honest signer had in hand and found        *)
(* genuine, or is a compromised signer's.                                    *)
LEMMA NewSignature ==
  ASSUME IInv, [Next]_vars, NEW x \in signed', x \notin signed, x[1] \in Honest
  PROVE  /\ x[2] \in Digests /\ x[2][1] \in genuine
         /\ \E y \in serving[x[1]] : y.digest = x[2]
<1> USE DEF IInv
<1>1. CASE UNCHANGED signed
  BY <1>1
<1>2. ASSUME NEW s \in Honest, Service(s)
      PROVE  /\ x[2] \in Digests /\ x[2][1] \in genuine
             /\ \E y \in serving[x[1]] : y.digest = x[2]
  <2>1. PICK g \in Digests : Authorize(s, g) \/ VerifyAndSign(s, g) \/ SourceUnavailable(s, g)
    BY <1>2 DEF Service
  <2>2. VerifyAndSign(s, g) /\ g[1] \in genuine /\ x = <<s, g>>
    BY <2>1 DEF Authorize, VerifyAndSign, SourceUnavailable
  <2>3. [digest |-> g, step |-> "verify"] \in serving[s]
    BY <2>2 DEF VerifyAndSign
  <2>4. [digest |-> g, step |-> "verify"].digest = x[2]
    BY <2>2
  <2> QED BY <2>2, <2>3, <2>4
<1>3. ASSUME NEW s \in Compromised, Lie(s)
      PROVE  FALSE
  <2>1. \E d : x = <<s, d>>
    BY <1>3 DEF Lie
  <2> QED BY <2>1 DEF Honest
<1>4. CASE Coordinator
  BY <1>1, <1>4 DEF Coordinator, StartCycle, LoadPending, PersistRequest, AskSigners, Tally,
                    RecordApproval, Approve, EndCycle
<1>5. CASE Tick \/ Crash \/ (\E t \in Transfers : Arrive(t)) \/ (\E v \in Signers : GiveUp(v))
  BY <1>1, <1>5 DEF Tick, Crash, Arrive, GiveUp
<1> QED
  BY <1>1, <1>2, <1>3, <1>4, <1>5 DEF Next, vars

LEMMA RequestedStep ==
  ASSUME IInv, [Next]_vars
  PROVE  Requested'
<1> USE DEF IInv
<1>1. ASSUME NEW d \in Digests, d[2] = request[d[1]]
      PROVE  d[2] = request'[d[1]]
  BY <1>1, NeverTakenBack, DeadlineNotNull DEF Digests
<1>2. ASSUME NEW s \in Honest, NEW y \in serving[s]
      PROVE  y.digest \in Digests /\ y.digest[2] = request[y.digest[1]]
  BY DEF TypeOK, Requested
<1>3. ASSUME NEW s \in Honest, NEW x \in serving'[s]
      PROVE  x.digest[2] = request'[x.digest[1]]
  <2>1. CASE \E y \in serving[s] : y.digest = x.digest
    BY <1>1, <1>2, <2>1
  <2>2. CASE pc = "ask" /\ x.digest = Digest
    BY <1>1, <2>2, DigestTyped
  <2> QED BY <2>1, <2>2, InHand
<1>4. ASSUME NEW x \in signed', x[1] \in Honest
      PROVE  x[2][2] = request'[x[2][1]] /\ x[2][1] \in genuine'
  <2>1. CASE x \in signed
    <3>1. x[2] \in Digests /\ x[2][2] = request[x[2][1]] /\ x[2][1] \in genuine
      BY <1>4, <2>1 DEF TypeOK, Requested
    <3> QED BY <1>1, <3>1, NeverTakenBack
  <2>2. CASE x \notin signed
    <3>1. x[2] \in Digests /\ x[2][1] \in genuine /\ x[2][2] = request[x[2][1]]
      BY <1>2, <1>4, <2>2, NewSignature
    <3> QED BY <1>1, <3>1, NeverTakenBack
  <2> QED BY <2>1, <2>2
<1> QED BY <1>3, <1>4 DEF Requested

(* Approvals only grow, by the signature the coordinator is recording.       *)
LEMMA ApprovalsGrow ==
  ASSUME IInv, [Next]_vars, NEW t \in Transfers
  PROVE  /\ approvals[t] \subseteq approvals'[t]
         /\ \A a \in approvals'[t] : a \in approvals[t] \/
              (/\ pc = "record" /\ chosen # <<>> /\ t = Current
               /\ a = <<Head(chosen), Digest>>)
<1> USE DEF IInv
<1>1. CASE RecordApproval
  BY <1>1 DEF RecordApproval, TypeOK
<1>2. CASE UNCHANGED approvals
  BY <1>2
<1>3. CASE Coordinator /\ ~RecordApproval
  BY <1>2, <1>3 DEF Coordinator, StartCycle, LoadPending, PersistRequest, AskSigners, Tally,
                    Approve, EndCycle, storeVars
<1>4. CASE Crash
  BY <1>2, <1>4 DEF Crash, storeVars
<1> QED
  BY <1>1, <1>2, <1>3, <1>4, CycleKept

LEMMA ApprovalsStep ==
  ASSUME IInv, [Next]_vars
  PROVE  ApprovalsOK'
<1> USE DEF IInv
<1> SUFFICES ASSUME NEW t \in Transfers, NEW a \in approvals'[t]
             PROVE  a \in signed' /\ a \in Signers \X {<<t, request'[t]>>}
  BY DEF ApprovalsOK
<1>1. CASE a \in approvals[t]
  <2>1. a \in signed /\ a \in Signers \X {<<t, request[t]>>} /\ a \in Signers \X Digests
    BY <1>1 DEF ApprovalsOK, TypeOK
  <2>2. request[t] \in Deadlines
    BY <2>1 DEF Digests
  <2>3. request'[t] = request[t] /\ signed \subseteq signed'
    BY <2>2, DeadlineNotNull, NeverTakenBack
  <2> QED BY <2>1, <2>3
<1>2. CASE a \notin approvals[t]
  <2>1. pc = "record" /\ chosen # <<>> /\ t = Current /\ a = <<Head(chosen), Digest>>
    BY <1>2, ApprovalsGrow
  <2>2. Head(chosen) \in Range(chosen) /\ Head(chosen) \in Signers
    BY <2>1 DEF TypeOK, Range
  <2>3. a \in signed
    BY <2>1, <2>2 DEF RecordOK
  <2>4. request[t] # Null
    BY <2>1 DEF CycleOK
  <2>5. request'[t] = request[t] /\ signed \subseteq signed'
    BY <2>4, NeverTakenBack
  <2> QED BY <2>1, <2>2, <2>3, <2>5 DEF Digest
<1> QED BY <1>1, <1>2

LEMMA RecordStep ==
  ASSUME IInv, [Next]_vars
  PROVE  RecordOK'
<1> USE DEF IInv
<1>1. CASE Tally
  <2> DEFINE S == {replies[s].signer : s \in Settled}
  <2>1. CASE Stop
    BY <2>1, StopTyped
  <2>2. CASE ~Stop
    <3>1. /\ chosen' = Lowest(S) /\ Cardinality(S) >= Threshold
          /\ \A s \in Settled : Verified(replies[s])
          /\ UNCHANGED <<queue, request, approvals, signed>>
      BY <1>1, <2>2 DEF Tally, storeVars
    <3>2. S \subseteq Signers
      BY DEF Settled, TypeOK, Waiting, Failed, Approval
    <3>3. \A v \in S : <<v, Digest>> \in signed
      BY <3>1 DEF Verified
    <3>4. /\ Range(chosen') \subseteq S /\ IsFiniteSet(Range(chosen'))
          /\ Cardinality(Range(chosen')) = Threshold
      <4> HIDE DEF S
      <4> QED BY <3>1, <3>2, LowestChosen
    <3>5. Digest' = Digest /\ Current' = Current /\ Approvers(Current)' = Approvers(Current)
      BY <3>1 DEF Digest, Current, Approvers
    <3>6. Current \in Transfers
      BY <1>1, DigestTyped DEF Tally
    <3>7. Cardinality(Range(chosen') \cup Approvers(Current)) >= Threshold
      <4> DEFINE R == Range(chosen')
                 A == Approvers(Current)
      <4>1. IsFiniteSet(A)
        BY <3>6, ApproversFinite
      <4>2. IsFiniteSet(R \cup A)
        BY <3>4, <4>1, FS_Union
      <4>3. Cardinality(R) <= Cardinality(R \cup A)
        BY <4>2, FS_Subset
      <4>4. Cardinality(R) = Threshold
        BY <3>4
      <4> HIDE DEF R, A
      <4> QED BY <4>3, <4>4 DEF R, A
    <3> QED BY <3>1, <3>3, <3>4, <3>5, <3>7 DEF RecordOK
  <2> QED BY <2>1, <2>2
<1>2. CASE RecordApproval
  <2>1. CASE Stop
    BY <2>1, StopTyped
  <2>2. CASE ~Stop
    <3>1. /\ pc = "record" /\ chosen # <<>>
          /\ approvals' = [approvals EXCEPT ![Current] = @ \cup {<<Head(chosen), Digest>>}]
          /\ chosen' = Tail(chosen) /\ UNCHANGED <<queue, request, signed>>
      BY <1>2, <2>2 DEF RecordApproval
    <3>2. Digest' = Digest /\ Current' = Current
      BY <3>1 DEF Digest, Current
    <3>3. Current \in Transfers
      BY <3>1, DigestTyped
    <3>4. chosen \in Seq(Signers) /\ chosen' \in Seq(Signers)
      BY <3>1 DEF TypeOK
    <3>5. Range(chosen) = {Head(chosen)} \cup Range(chosen')
      <4>1. \A i \in 1..Len(chosen) : i = 1 \/ (i - 1 \in 1..Len(chosen') /\ chosen[i] = chosen'[i - 1])
        BY <3>1, <3>4
      <4>2. \A i \in 1..Len(chosen') : i + 1 \in 1..Len(chosen) /\ chosen'[i] = chosen[i + 1]
        BY <3>1, <3>4
      <4>3. Len(chosen) >= 1 /\ Head(chosen) = chosen[1]
        BY <3>1, <3>4
      <4>4. DOMAIN chosen = 1..Len(chosen) /\ DOMAIN chosen' = 1..Len(chosen')
        BY <3>4
      <4> QED BY <4>1, <4>2, <4>3, <4>4 DEF Range
    <3>6. approvals'[Current] = approvals[Current] \cup {<<Head(chosen), Digest>>}
      BY <3>1, <3>3 DEF TypeOK
    <3>7. {a[1] : a \in approvals'[Current]} = Approvers(Current) \cup {Head(chosen)}
      <4>1. <<Head(chosen), Digest>>[1] = Head(chosen)
        OBVIOUS
      <4> DEFINE h == <<Head(chosen), Digest>>
                 A == approvals[Current]
      <4>2. h[1] = Head(chosen) /\ approvals'[Current] = A \cup {h}
        BY <3>6, <4>1
      <4> HIDE DEF h, A
      <4>3. {a[1] : a \in A \cup {h}} = {a[1] : a \in A} \cup {h[1]}
        OBVIOUS
      <4> QED BY <4>2, <4>3 DEF Approvers, A
    <3>8. Range(chosen') \cup Approvers(Current)' = Range(chosen) \cup Approvers(Current)
      BY <3>2, <3>5, <3>7 DEF Approvers
    <3>9. \A s \in Range(chosen') : <<s, Digest'>> \in signed'
      BY <3>1, <3>2, <3>5 DEF RecordOK
    <3> QED BY <3>1, <3>8, <3>9 DEF RecordOK
  <2> QED BY <2>1, <2>2
<1>3. CASE StartCycle \/ LoadPending \/ PersistRequest \/ AskSigners \/ Approve
  BY <1>3, StopTyped DEF StartCycle, LoadPending, PersistRequest, AskSigners, Approve, RecordOK
<1>4. CASE EndCycle \/ Crash
  BY <1>4, StopTyped DEF EndCycle, Crash
<1>5. CASE ~Coordinator /\ ~Crash
  BY <1>5, CycleKept, NeverTakenBack DEF RecordOK, Digest, Current, Approvers
<1> QED
  BY <1>1, <1>2, <1>3, <1>4, <1>5 DEF Coordinator

(* The only way to be approved.                                              *)
LEMMA OnlyApproveApproves ==
  ASSUME IInv, [Next]_vars, NEW t \in Transfers, state'[t] = "approved"
  PROVE  state[t] = "approved" \/ (pc = "record" /\ chosen = <<>> /\ t = Current)
<1> USE DEF IInv
<1>1. CASE UNCHANGED state
  BY <1>1
<1>2. CASE Approve
  BY <1>2 DEF Approve, TypeOK
<1>3. ASSUME NEW u \in Transfers, Arrive(u)
      PROVE  state[t] = "approved"
  BY <1>3 DEF Arrive, TypeOK
<1>4. CASE Coordinator /\ ~Approve
  BY <1>1, <1>4 DEF Coordinator, StartCycle, LoadPending, PersistRequest, AskSigners, Tally,
                    RecordApproval, EndCycle, storeVars
<1>5. ASSUME NEW s \in Honest, Service(s)
      PROVE  state[t] = "approved"
  BY <1>5 DEF Service, Authorize, VerifyAndSign, SourceUnavailable, storeVars
<1>6. CASE Tick \/ Crash \/ (\E v \in Signers : GiveUp(v)) \/ (\E v \in Compromised : Lie(v))
  BY <1>1, <1>6 DEF Tick, Crash, GiveUp, Lie, storeVars
<1> QED
  BY <1>1, <1>2, <1>3, <1>4, <1>5, <1>6 DEF Next, vars, storeVars

LEMMA QuorumStep ==
  ASSUME IInv, [Next]_vars, TypeOK'
  PROVE  QuorumOK'
<1> USE DEF IInv
<1> SUFFICES ASSUME NEW t \in Transfers, state'[t] = "approved"
             PROVE  Cardinality({a[1] : a \in approvals'[t]}) >= Threshold
  BY DEF QuorumOK, Approvers
<1> DEFINE A == Approvers(t)
           B == {a[1] : a \in approvals'[t]}
<1>1. Cardinality(A) >= Threshold
  <2>1. CASE state[t] = "approved"
    BY <2>1 DEF QuorumOK
  <2>2. CASE pc = "record" /\ chosen = <<>> /\ t = Current
    <3>1. Range(chosen) \cup Approvers(Current) = A
      BY <2>2 DEF Range
    <3> QED BY <2>2, <3>1 DEF RecordOK
  <2> QED BY <2>1, <2>2, OnlyApproveApproves
<1>2. IsFiniteSet(B)
  <2>1. B \subseteq Signers
    BY DEF TypeOK
  <2>2. IsFiniteSet(Signers)
    BY CycleAssumption DEF CycleAssumption
  <2> QED BY <2>1, <2>2, FS_Subset
<1>3. A \subseteq B
  BY ApprovalsGrow DEF Approvers
<1>4. Cardinality(A) <= Cardinality(B) /\ Cardinality(A) \in Nat /\ Cardinality(B) \in Nat
  <2>1. IsFiniteSet(A) /\ Cardinality(A) <= Cardinality(B)
    BY <1>2, <1>3, FS_Subset
  <2> QED BY <1>2, <2>1, FS_CardinalityType
<1>5. Threshold \in Int
  BY CycleAssumption DEF CycleAssumption
<1> HIDE DEF A, B
<1> QED BY <1>1, <1>4, <1>5 DEF B

-------------------------------------------------------------------------------
(* The inductive invariant.                                                  *)
LEMMA InitIInv == Init => IInv
<1> SUFFICES ASSUME Init PROVE IInv
  OBVIOUS
<1>1. 0 \in 0..MaxTime /\ 0 \in 0..MaxCrashes
  BY CycleAssumption DEF CycleAssumption
<1>2. NoReplies \in [Signers -> {Waiting, Failed} \cup Approval]
  BY DEF NoReplies
<1>3. <<>> \in Seq(Transfers) /\ <<>> \in Seq(Signers)
  OBVIOUS
<1>4. TypeOK
  BY <1>1, <1>2, <1>3 DEF Init, TypeOK, Steps
<1>5. CycleOK /\ Requested /\ ApprovalsOK /\ RecordOK /\ QuorumOK
  BY DEF Init, CycleOK, Requested, ApprovalsOK, RecordOK, QuorumOK
<1> QED BY <1>4, <1>5 DEF IInv

LEMMA NextIInv == IInv /\ [Next]_vars => IInv'
BY TypeStep, CycleStep, RequestedStep, ApprovalsStep, RecordStep, QuorumStep DEF IInv

THEOREM CycleInvariant == Spec => []IInv
BY InitIInv, NextIInv, PTL DEF Spec

-------------------------------------------------------------------------------
(* The coordinator's cycle and the signer services keep their types.         *)
THEOREM CycleTypeCorrect == Spec => []TypeOK
<1>1. IInv => TypeOK
  BY DEF IInv
<1> QED BY <1>1, CycleInvariant, PTL

(* No two honest signatures are of different digests for one transfer,       *)
(* because a request persists before any signer sees it and never changes.   *)
THEOREM NoTwoDigests == Spec => []OneDigestPerTransfer
<1>1. IInv => OneDigestPerTransfer
  <2> SUFFICES ASSUME IInv, NEW x \in signed, NEW y \in signed, {x[1], y[1]} \subseteq Honest,
                      x[2][1] = y[2][1]
               PROVE  x[2] = y[2]
    BY DEF OneDigestPerTransfer
  <2>1. x[2] \in Digests /\ y[2] \in Digests
    BY DEF IInv, TypeOK
  <2>2. x[2][2] = request[x[2][1]] /\ y[2][2] = request[y[2][1]]
    BY DEF IInv, Requested
  <2> QED BY <2>1, <2>2 DEF Digests
<1> QED BY <1>1, CycleInvariant, PTL

(* What is approved can be submitted: a threshold of approvals is stored, of *)
(* the persisted request and nothing else, wherever the cycle was cut short. *)
THEOREM ApprovedCanBeSubmitted == Spec => []ApprovedHasQuorum
<1>1. IInv => ApprovedHasQuorum
  BY DEF IInv, ApprovalsOK, QuorumOK, Approvers, ApprovedHasQuorum
<1> QED BY <1>1, CycleInvariant, PTL

(* Fewer than a threshold of compromised signers cannot get a transfer       *)
(* approved that no honest signer found genuine.                             *)
THEOREM GenuineBeforeApproved == Spec => []OnlyGenuineApproved
<1>1. IInv => OnlyGenuineApproved
  <2> SUFFICES ASSUME IInv, NEW t \in Transfers, state[t] = "approved"
               PROVE  t \in genuine
    BY DEF OnlyGenuineApproved
  <2> DEFINE A == Approvers(t)
  <2>1. IsFiniteSet(A) /\ A \subseteq Signers
    BY ApproversFinite DEF IInv
  <2>2. Cardinality(A) >= Threshold
    BY DEF IInv, QuorumOK
  <2>3. ~(A \subseteq Compromised)
    <3>1. IsFiniteSet(Compromised) /\ Cardinality(Compromised) < Threshold
          /\ Threshold \in Int
      <4>1. IsFiniteSet(Signers) /\ Compromised \subseteq Signers
            /\ Cardinality(Compromised) < Threshold /\ Threshold \in Int
        BY CycleAssumption DEF CycleAssumption
      <4> QED BY <4>1, FS_Subset
    <3>2. Cardinality(A) \in Nat /\ Cardinality(Compromised) \in Nat
      BY <2>1, <3>1, FS_CardinalityType
    <3>3. A \subseteq Compromised => Cardinality(A) <= Cardinality(Compromised)
      BY <3>1, FS_Subset
    <3> HIDE DEF A
    <3> QED BY <2>2, <3>1, <3>2, <3>3
  <2>4. PICK a \in approvals[t] : a[1] \in Honest
    BY <2>1, <2>3 DEF Approvers, Honest
  <2>5. a \in signed /\ a[2] = <<t, request[t]>>
    BY DEF IInv, ApprovalsOK
  <2> QED BY <2>4, <2>5 DEF IInv, Requested
<1> QED BY <1>1, CycleInvariant, PTL
=============================================================================
