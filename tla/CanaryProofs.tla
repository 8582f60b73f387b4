------------------------------ MODULE CanaryProofs -----------------------------
(***************************************************************************)
(* What precedes an activation, for any roles, units, providers, hashes    *)
(* and window: what a canary that passed and a preflight's report are      *)
(* worth.  The first part is about Canary, the second about Preflight.     *)
(***************************************************************************)
EXTENDS Canary, Preflight, TLAPS

Hashes(e) == {e.source, e.destination}

(* The evidence so far is in turn, and no two of its transactions are one.   *)
EvidenceInTurn ==
  \A i \in DOMAIN evidence :
    /\ evidence[i].direction = Directions[i]
    /\ evidence[i].source # evidence[i].destination
EvidenceFresh ==
  \A i, j \in DOMAIN evidence : i # j => Hashes(evidence[i]) \cap Hashes(evidence[j]) = {}

CanaryInv ==
  /\ TypeOK /\ EvidenceInTurn /\ EvidenceFresh
  /\ state \in {"authorized", "executing"} => now >= StartsAt
  /\ state = "completed" => Len(evidence) = 2

(* One more record extends evidence that is in turn and fresh.               *)
LEMMA AcceptStep ==
  ASSUME CanaryInv, NEW r \in Records, state \in {"authorized", "executing"},
         StopCode(r) = "none", Accept(r)
  PROVE  CanaryInv'
<1> DEFINE e == [direction |-> r.direction, source |-> r.source, destination |-> r.destination]
           n == Len(evidence)
<1>1. e \in Evidence
  BY DEF Records, Evidence
<1>2. evidence \in Seq(Evidence) /\ n \in 0..2 /\ DOMAIN evidence = 1..n
  <2>1. evidence \in Seq(Evidence) /\ Len(evidence) <= 2
    BY DEF CanaryInv, TypeOK
  <2>2. Len(evidence) \in Nat /\ DOMAIN evidence = 1..Len(evidence)
    BY <2>1
  <2> QED BY <2>1, <2>2
<1>3. n < 2 /\ r.direction = Directions[n + 1] /\ ~Reused(r)
  BY <1>2 DEF StopCode, OutOfTurn
<1>4. /\ evidence' \in Seq(Evidence) /\ Len(evidence') = n + 1 /\ DOMAIN evidence' = 1..(n + 1)
      /\ evidence'[n + 1] = e /\ \A i \in 1..n : evidence'[i] = evidence[i]
  BY <1>1, <1>2 DEF Accept
<1>5. r.source # r.destination /\ Hashes(e) = {r.source, r.destination}
      /\ Hashes(e) \cap transactionHashes = {}
  BY <1>3 DEF Reused, Hashes
<1>6. transactionHashes = UNION {Hashes(evidence[i]) : i \in 1..n}
  BY <1>2 DEF CanaryInv, TypeOK, Hashes
<1>7. transactionHashes' = UNION {Hashes(evidence'[i]) : i \in 1..(n + 1)}
  <2>1. {Hashes(evidence'[i]) : i \in 1..(n + 1)} = {Hashes(evidence[i]) : i \in 1..n} \cup {Hashes(e)}
    <3>1. \A i : i \in 1..(n + 1) <=> i \in 1..n \/ i = n + 1
      BY <1>2
    <3> HIDE DEF e
    <3> QED BY <1>4, <3>1
  <2>2. transactionHashes' = transactionHashes \cup Hashes(e)
    BY <1>5 DEF Accept
  <2> HIDE DEF e
  <2> QED BY <1>6, <2>1, <2>2
<1>8. TypeOK'
  BY <1>2, <1>3, <1>4, <1>7 DEF CanaryInv, TypeOK, Accept, Hashes
<1>9. EvidenceInTurn'
  <2>1. \A i \in 1..n : /\ evidence[i].direction = Directions[i]
                        /\ evidence[i].source # evidence[i].destination
    BY <1>2 DEF CanaryInv, EvidenceInTurn
  <2>2. e.direction = Directions[n + 1] /\ e.source # e.destination
    BY <1>3, <1>5
  <2> HIDE DEF e
  <2> QED BY <1>2, <1>4, <2>1, <2>2 DEF EvidenceInTurn
<1>10. EvidenceFresh'
  <2>1. \A i, j \in 1..n : i # j => Hashes(evidence[i]) \cap Hashes(evidence[j]) = {}
    BY <1>2 DEF CanaryInv, EvidenceFresh
  <2>2. \A i \in 1..n : Hashes(evidence[i]) \cap Hashes(e) = {}
    <3> HIDE DEF e
    <3> QED BY <1>5, <1>6
  <2> SUFFICES ASSUME NEW i \in 1..(n + 1), NEW j \in 1..(n + 1), i # j
               PROVE  Hashes(evidence'[i]) \cap Hashes(evidence'[j]) = {}
    BY <1>4 DEF EvidenceFresh, Hashes
  <2>3. CASE i \in 1..n /\ j \in 1..n
    BY <1>4, <2>1, <2>3
  <2>4. CASE i = n + 1 /\ j \in 1..n
    BY <1>4, <2>2, <2>4
  <2>5. CASE i \in 1..n /\ j = n + 1
    BY <1>4, <2>2, <2>5
  <2> QED BY <1>2, <2>3, <2>4, <2>5
<1> QED
  BY <1>8, <1>9, <1>10 DEF CanaryInv, Accept

LEMMA CanaryNextStep ==
  ASSUME CanaryInv, [Next]_vars
  PROVE  CanaryInv'
<1> USE DEF CanaryInv
<1>1. CASE Tick
  BY <1>1, CanaryAssumption DEF CanaryAssumption, Tick, TypeOK, EvidenceInTurn, EvidenceFresh
<1>2. CASE Authorize
  BY <1>2 DEF Authorize, TypeOK, EvidenceInTurn, EvidenceFresh
<1>3. ASSUME NEW code \in StopCodes, Halt(code)
      PROVE  CanaryInv'
  BY <1>3 DEF Halt, StopCodes, TypeOK, EvidenceInTurn, EvidenceFresh
<1>4. ASSUME NEW r \in Records, RecordFinalizedTransfer(r)
      PROVE  CanaryInv'
  <2>1. CASE StopCode(r) = "none"
    BY <1>4, <2>1, AcceptStep DEF RecordFinalizedTransfer
  <2>2. CASE StopCode(r) # "none"
    <3>1. StopCode(r) \in StopCodes
      BY <2>2 DEF StopCode, StopCodes
    <3> QED BY <1>3, <1>4, <2>2, <3>1 DEF RecordFinalizedTransfer
  <2> QED BY <2>1, <2>2
<1>5. CASE Complete
  <2>1. UNCHANGED <<now, evidence, transactionHashes, failureCode>> /\ state' = "completed" /\ Len(evidence) = 2
    BY <1>5 DEF Complete
  <2>2. TypeOK'
    BY <2>1 DEF TypeOK
  <2>3. EvidenceInTurn' /\ EvidenceFresh'
    BY <2>1 DEF EvidenceInTurn, EvidenceFresh
  <2> QED BY <2>1, <2>2, <2>3
<1>6. CASE UNCHANGED vars
  BY <1>6 DEF vars, TypeOK, EvidenceInTurn, EvidenceFresh
<1> QED
  BY <1>1, <1>2, <1>3, <1>4, <1>5, <1>6 DEF Next

THEOREM CanaryInvariant == Spec => []CanaryInv
<1>1. Init => CanaryInv
  BY CanaryAssumption DEF CanaryAssumption, Init, CanaryInv, TypeOK, EvidenceInTurn, EvidenceFresh
<1> QED BY <1>1, CanaryNextStep, PTL DEF Spec

(* The canary's state and evidence keep their types.                         *)
THEOREM CanaryTypeCorrect == Spec => []TypeOK
<1>1. CanaryInv => TypeOK
  BY DEF CanaryInv
<1> QED BY <1>1, CanaryInvariant, PTL

(* A canary that passed has one transfer each way, over four transactions.   *)
THEOREM CanaryPassedInFull == Spec => []PassedIsFullEvidence
<1>1. CanaryInv => PassedIsFullEvidence
  <2> SUFFICES ASSUME CanaryInv, state = "completed"
               PROVE  /\ <<evidence[1].direction, evidence[2].direction>> = Directions
                      /\ \A i, j \in 1..2 : evidence[i].source # evidence[j].destination
                      /\ evidence[1].source # evidence[2].source
                      /\ evidence[1].destination # evidence[2].destination
    BY DEF PassedIsFullEvidence
  <2>1. DOMAIN evidence = 1..2
    BY DEF CanaryInv, TypeOK
  <2>2. \A i \in 1..2 : /\ evidence[i].direction = Directions[i]
                        /\ evidence[i].source # evidence[i].destination
    BY <2>1 DEF CanaryInv, EvidenceInTurn
  <2>3. Hashes(evidence[1]) \cap Hashes(evidence[2]) = {}
    BY <2>1 DEF CanaryInv, EvidenceFresh
  <2>4. /\ evidence[1].source # evidence[2].source
        /\ evidence[1].destination # evidence[2].destination
        /\ evidence[1].source # evidence[2].destination
        /\ evidence[2].source # evidence[1].destination
    BY <2>3 DEF Hashes
  <2>5. \A i \in 1..2 : i = 1 \/ i = 2
    OBVIOUS
  <2> QED BY <2>2, <2>4, <2>5 DEF Directions
<1> QED BY <1>1, CanaryInvariant, PTL

(* Halting is for good, and evidence is only ever taken before it and inside *)
(* the authorized window.                                                    *)
THEOREM CanaryHaltsForGood == Spec => EvidenceWhileLive
<1>1. CanaryInv /\ [Next]_vars =>
        [/\ state = "halted" => state' = "halted"
         /\ evidence' # evidence => state # "halted" /\ now \in StartsAt..ExpiresAt]_vars
  <2> SUFFICES ASSUME CanaryInv, Next
               PROVE  /\ state = "halted" => state' = "halted"
                      /\ evidence' # evidence => state # "halted" /\ now \in StartsAt..ExpiresAt
    BY DEF vars
  <2>1. CASE Tick \/ Authorize \/ Complete \/ (\E code \in StopCodes : Halt(code))
    BY <2>1 DEF Tick, Authorize, Complete, Halt
  <2>2. ASSUME NEW r \in Records, RecordFinalizedTransfer(r)
        PROVE  /\ state # "halted"
               /\ evidence' # evidence => now \in StartsAt..ExpiresAt
    <3>1. state \in {"authorized", "executing"} /\ now >= StartsAt /\ now \in Int
      BY <2>2 DEF RecordFinalizedTransfer, CanaryInv, TypeOK
    <3>2. CASE StopCode(r) = "none"
      BY <3>1, <3>2, CanaryAssumption DEF CanaryAssumption, StopCode
    <3>3. CASE StopCode(r) # "none"
      BY <2>2, <3>1, <3>3 DEF RecordFinalizedTransfer, Halt
    <3> QED BY <3>1, <3>2, <3>3
  <2> QED BY <2>1, <2>2 DEF Next
<1> QED BY <1>1, CanaryInvariant, PTL DEF Spec, EvidenceWhileLive

-------------------------------------------------------------------------------
(***************************************************************************)
(* The preflight.  The world may change between two looks, so a verdict is *)
(* about moments: whatever a look has answered was so at some moment of    *)
(* the run, and whatever the run has gone past was vouched for.            *)
(***************************************************************************)
Turns == DOMAIN Roles
Seats == ({0} \X {"start", "cronos", "xitcoin", "done"}) \cup (Turns \X (Things \cup {"service"}))

(* The run has begun, so how the world stands now was so at a moment.        *)
MomentsOK ==
  /\ DOMAIN world = Facts
  /\ IF at[2] = "start" THEN outcome = "none" ELSE world \in past

(* What a look has answered was so, unless systemctl said nothing.           *)
Witnessed(d) == seen[d] \in Was(d) \/ (d \in silent \cap OfUnit /\ seen[d] = "")
SeenOK ==
  /\ \A d \in DOMAIN seen : Witnessed(d)
  /\ at[2] \in Things /\ seen # Nothing => seen[Sought] \in Was(Sought)
  /\ at[2] = "xitcoin" => \A d \in DOMAIN seen : seen[d] = "met"

(* Between the two awaits of a path, its owner is still the one that was     *)
(* seen, or a demand was unmet at a moment.                                  *)
StillOwned ==
  at[2] \in OfPath /\ seen # Nothing =>
    (\E w \in past : Unmet(w)) \/ world[Sought] = seen[Sought]

(* What the run has gone past when it takes the look a.                      *)
GonePast(a) ==
  /\ a[2] \in Things \cup {"service"} => \A j \in DOMAIN Roles : j < a[1] => Vouched(Roles[j])
  /\ a[2] \in {"state", "wrapper", "service"} => Hardened(Roles[a[1]])
  /\ a[2] \in {"wrapper", "service"} => OwnedOnce(Roles[a[1]], "state")
  /\ a[2] = "service" => OwnedOnce(Roles[a[1]], "wrapper")
  /\ a[2] \in {"cronos", "xitcoin"} => \A r \in DOMAIN UnitsOf : Vouched(r)
  /\ a[2] = "xitcoin" => \A d \in Providers \X Readings : "met" \in Was(d)

PreflightInv ==
  /\ at \in Seats
  /\ MomentsOK /\ SeenOK /\ StillOwned /\ GonePast(at)
  /\ PassIsSound /\ FailIsDeserved

LEMMA NothingSeen == DOMAIN Nothing = {}
BY DEF Nothing

LEMMA Seated ==
  ASSUME NEW i \in DOMAIN Roles, NEW k \in Things \cup {"service"}
  PROVE  <<i, k>> \in Seats /\ <<i, k>>[1] = i /\ <<i, k>>[2] = k
<1>1. i \in Turns
  BY DEF Turns
<1> QED BY <1>1 DEF Seats

LEMMA SeatOf ==
  ASSUME at \in Seats
  PROVE  /\ at[2] \in Things \cup {"service"} => at[1] \in DOMAIN Roles /\ Roles[at[1]] \in DOMAIN UnitsOf
         /\ at[2] \in {"start", "cronos", "xitcoin"} => at[1] = 0 /\ at[2] \notin Things
<1>1. CASE at \in {0} \X {"start", "cronos", "xitcoin", "done"}
  <2>1. at[1] = 0 /\ at[2] \in {"start", "cronos", "xitcoin", "done"}
    BY <1>1
  <2> QED BY <2>1 DEF Things, OfPath
<1>2. CASE at \in Turns \X (Things \cup {"service"})
  <2>1. at[1] \in Turns /\ at[2] \in Things \cup {"service"}
    BY <1>2
  <2>2. Roles[at[1]] \in DOMAIN UnitsOf
    BY <2>1, PreflightAssumption DEF PreflightAssumption, Turns
  <2> QED BY <1>2, <2>1, <2>2 DEF Things, OfPath, Turns
<1> QED BY <1>1, <1>2 DEF Seats

(* What was vouched for stays so: moments are only added.                    *)
LEMMA OnceIsKept ==
  ASSUME past \subseteq past', silent \subseteq silent'
  PROVE  /\ \A d : Was(d) \subseteq {w[d] : w \in past'}
         /\ \A r : Hardened(r) => Hardened(r)'
         /\ \A r, path : OwnedOnce(r, path) => OwnedOnce(r, path)'
         /\ \A r : Vouched(r) => Vouched(r)'
         /\ (\E w \in past : Unmet(w)) => \E w \in past' : Unmet(w)
<1>1. \A d : Was(d) \subseteq {w[d] : w \in past'}
  BY DEF Was
<1>2. \A r : Hardened(r) => Hardened(r)'
  BY <1>1 DEF Hardened, Was
<1>3. \A r, path : OwnedOnce(r, path) => OwnedOnce(r, path)'
  BY <1>1 DEF OwnedOnce, Was
<1>4. \A r : NotSaidOn(r) => NotSaidOn(r)'
  BY <1>1 DEF NotSaidOn, Was
<1>5. \A r : Vouched(r) => Vouched(r)'
  BY <1>2, <1>3, <1>4 DEF Vouched
<1> QED BY <1>1, <1>2, <1>3, <1>5

(* So does what a look has answered, and what the run has gone past.         *)
LEMMA KeptStep ==
  ASSUME PreflightInv, past \subseteq past', silent \subseteq silent', UNCHANGED <<at, seen>>
  PROVE  SeenOK' /\ GonePast(at)'
<1>1. \A d \in DOMAIN seen : Witnessed(d)'
  BY OnceIsKept DEF PreflightInv, SeenOK, Witnessed, Was
<1>2. SeenOK'
  BY <1>1, OnceIsKept DEF PreflightInv, SeenOK, Sought, Was
<1>3. GonePast(at)
  BY DEF PreflightInv
<1>4. \A d : "met" \in Was(d) => "met" \in Was(d)'
  BY OnceIsKept DEF Was
<1>5. GonePast(at)'
  BY <1>3, <1>4, OnceIsKept DEF GonePast
<1> QED BY <1>2, <1>5

-------------------------------------------------------------------------------
(* The steps of a run: nothing moves, and what was asked before is put away. *)
LEMMA GoOnStep ==
  ASSUME PreflightInv, Quiet, NEW a \in Seats, a[2] # "start", at[2] # "start",
         GoOn(a), GonePast(a)
  PROVE  PreflightInv'
<1>1. at' = a /\ seen' = Nothing /\ UNCHANGED <<outcome, world, past, silent, untaken>>
  BY DEF GoOn, Quiet, histories
<1>2. GonePast(at)'
  BY <1>1 DEF GonePast, Vouched, Hardened, OwnedOnce, NotSaidOn, Was
<1>3. SeenOK' /\ StillOwned'
  BY <1>1, NothingSeen DEF SeenOK, StillOwned
<1>4. MomentsOK' /\ PassIsSound' /\ FailIsDeserved'
  BY <1>1 DEF PreflightInv, MomentsOK, PassIsSound, FailIsDeserved, Vouched, Hardened, OwnedOnce, NotSaidOn, Was
<1> QED BY <1>1, <1>2, <1>3, <1>4 DEF PreflightInv

LEMMA ReportStep ==
  ASSUME PreflightInv, UNCHANGED <<world, past, silent>>, at[2] # "start",
         NEW result \in {"passed", "failed"}, Report(result),
         result = "passed" => /\ \A r \in DOMAIN UnitsOf : Vouched(r)
                              /\ \A d \in OfNetworks : "met" \in Was(d),
         result = "failed" => untaken' \/ \E w \in past : Unmet(w)
  PROVE  PreflightInv'
<1>1. at' = <<0, "done">> /\ at' \in Seats /\ seen' = Nothing /\ outcome' = result
  BY DEF Report, Seats
<1>2. GonePast(at)'
  BY <1>1 DEF GonePast, Things, OfPath
<1>3. SeenOK' /\ StillOwned'
  BY <1>1, NothingSeen DEF SeenOK, StillOwned
<1>4. MomentsOK'
  BY <1>1 DEF PreflightInv, MomentsOK
<1>5. PassIsSound' /\ FailIsDeserved'
  BY <1>1 DEF PassIsSound, FailIsDeserved, Vouched, Hardened, OwnedOnce, NotSaidOn, Was
<1> QED BY <1>1, <1>2, <1>3, <1>4, <1>5 DEF PreflightInv

(* A look at something that is not as demanded, now or when it was looked at.*)
LEMMA UnmetNow ==
  ASSUME PreflightInv, at[2] # "start", Unmet(world)
  PROVE  \E w \in past : Unmet(w)
BY DEF PreflightInv, MomentsOK

LEMMA AnswerStep ==
  ASSUME PreflightInv, UNCHANGED <<world, past, untaken>>, silent \subseteq silent', at[2] # "start",
         NEW d, NEW value, Answer(d, value),
         value = world[d] \/ (d \in silent' \cap OfUnit /\ value = ""),
         at[2] \in Things => d = Sought /\ seen = Nothing /\ value = world[d],
         at[2] = "xitcoin" => value = "met"
  PROVE  PreflightInv'
<1>1. /\ UNCHANGED <<at, outcome>> /\ DOMAIN seen' = DOMAIN seen \cup {d} /\ seen'[d] = value
      /\ \A y \in DOMAIN seen' : y = d \/ (y \in DOMAIN seen /\ seen'[y] = seen[y])
  BY DEF Answer
<1>2. world \in past
  BY DEF PreflightInv, MomentsOK
<1>3. ASSUME NEW y \in DOMAIN seen'
      PROVE  Witnessed(y)'
  <2>1. CASE y = d
    <3>1. world[d] \in Was(d)'
      BY <1>2 DEF Was
    <3> QED BY <1>1, <2>1, <3>1 DEF Witnessed
  <2>2. CASE y \in DOMAIN seen /\ seen'[y] = seen[y]
    BY <2>2 DEF PreflightInv, SeenOK, Witnessed, Was
  <2> QED BY <1>1, <2>1, <2>2
<1>4. SeenOK'
  <2>1. at[2] \in Things => seen'[d] \in Was(d)' /\ Sought' = d
    BY <1>1, <1>2 DEF Was, Sought
  <2>2. at[2] = "xitcoin" => \A y \in DOMAIN seen' : seen'[y] = "met"
    BY <1>1 DEF PreflightInv, SeenOK
  <2> QED BY <1>1, <1>3, <2>1, <2>2 DEF SeenOK, Sought
<1>5. StillOwned'
  <2> SUFFICES ASSUME at[2] \in OfPath
               PROVE  world'[Sought'] = seen'[Sought']
    BY <1>1 DEF StillOwned
  <2>1. at[2] \in Things
    BY DEF Things
  <2> QED BY <1>1, <2>1 DEF Sought
<1>6. GonePast(at)'
  <2>1. GonePast(at)
    BY DEF PreflightInv
  <2>2. \A e : "met" \in Was(e) => "met" \in Was(e)'
    BY DEF Was
  <2> QED BY <1>1, <2>1, <2>2, OnceIsKept DEF GonePast
<1>7. MomentsOK'
  BY <1>1 DEF PreflightInv, MomentsOK
<1>8. PassIsSound' /\ FailIsDeserved'
  <2>1. \A e : "met" \in Was(e) => "met" \in Was(e)'
    BY DEF Was
  <2> QED BY <1>1, <2>1, OnceIsKept DEF PreflightInv, PassIsSound, FailIsDeserved
<1> QED BY <1>1, <1>4, <1>5, <1>6, <1>7, <1>8 DEF PreflightInv

-------------------------------------------------------------------------------
(* The host's looks.                                                         *)
LEMMA SoughtUnmet ==
  ASSUME at[2] \in Things, Roles[at[1]] \in DOMAIN UnitsOf, NEW w
  PROVE  /\ at[2] = "identity" /\ w[Sought] # "met" => Unmet(w)
         /\ at[2] = "identity" /\ w[<<Roles[at[1]], "lock">>] # "met" => Unmet(w)
         /\ at[2] \in OfPath /\ w[Sought] \notin Uids => Unmet(w)
         /\ at[2] \in OfPath /\ w[Sought] # w[<<Roles[at[1]], "name">>] => Unmet(w)
BY DEF Unmet, Sought

LEMMA LookFailsStep ==
  ASSUME PreflightInv, LookFails
  PROVE  PreflightInv'
<1>1. at[2] # "start" /\ Report("failed") /\ untaken' /\ UNCHANGED <<world, past, silent>>
  BY DEF LookFails, Things, OfPath
<1> QED BY <1>1, ReportStep

LEMMA LookStep ==
  ASSUME PreflightInv, Look
  PROVE  PreflightInv'
<1>1. /\ at[2] \in Things /\ at[2] \notin {"start", "xitcoin"} /\ Roles[at[1]] \in DOMAIN UnitsOf /\ seen = Nothing
      /\ UNCHANGED <<world, past, silent, untaken>>
  BY SeatOf DEF Look, PreflightInv, Things, OfPath, Quiet, histories
<1>2. CASE world[Sought] = "missing"
  <2>1. Unmet(world)
    BY <1>1, <1>2, SoughtUnmet, PreflightAssumption DEF PreflightAssumption, Things
  <2> QED BY <1>1, <1>2, <2>1, UnmetNow, ReportStep DEF Look
<1>3. CASE world[Sought] # "missing"
  <2>1. Answer(Sought, world[Sought])
    BY <1>3 DEF Look
  <2> QED BY <1>1, <2>1, AnswerStep
<1> QED BY <1>2, <1>3

LEMMA ConfirmStep ==
  ASSUME PreflightInv, Confirm
  PROVE  PreflightInv'
<1> DEFINE i == at[1]
           r == Roles[i]
           a == <<i, After[at[2]]>>
<1>1. /\ at[2] \in Things /\ at[2] # "start" /\ i \in DOMAIN Roles /\ r \in DOMAIN UnitsOf
      /\ seen # Nothing /\ Quiet /\ UNCHANGED <<world, past, silent, untaken>> /\ world \in past
  BY SeatOf DEF Confirm, PreflightInv, MomentsOK, Things, OfPath, Quiet, histories
<1>2. at[2] \in OfPath => (\E w \in past : Unmet(w)) \/ world[Sought] = seen[Sought]
  BY <1>1 DEF PreflightInv, StillOwned
<1>3. PICK w \in past : seen[Sought] = w[Sought]
  BY <1>1 DEF PreflightInv, SeenOK, Was
<1>4. CASE Confirmed
  <2>1. GoOn(a)
    BY <1>4 DEF Confirm, Check
  <2>2. /\ at[2] = "identity" => Hardened(r)
        /\ at[2] \in OfPath => OwnedOnce(r, at[2])
    <3>1. at[2] = "identity" => w[Sought] = "met" /\ world[<<r, "lock">>] = "met"
      BY <1>3, <1>4 DEF Confirmed
    <3>2. at[2] \in OfPath => w[Sought] \in Uids /\ world[<<r, "name">>] = w[Sought]
      BY <1>3, <1>4 DEF Confirmed, OfPath
    <3>3. Sought = <<r, at[2]>>
      BY DEF Sought
    <3> QED BY <1>1, <3>1, <3>2, <3>3 DEF Hardened, OwnedOnce, Was
  <2>3. \/ at[2] = "identity" /\ After[at[2]] = "state"
        \/ at[2] = "state" /\ After[at[2]] = "wrapper"
        \/ at[2] = "wrapper" /\ After[at[2]] = "service"
    BY <1>1 DEF After, Things, OfPath
  <2>4. a \in Seats /\ a[1] = i /\ a[2] = After[at[2]]
    <3>1. After[at[2]] \in Things \cup {"service"}
      BY <2>3 DEF Things, OfPath
    <3> QED BY <1>1, <3>1, Seated
  <2>5. GonePast(a)
    <3> HIDE DEF a
    <3>1. GonePast(at)
      BY DEF PreflightInv
    <3> QED BY <1>1, <2>2, <2>3, <2>4, <3>1 DEF GonePast, Things, OfPath
  <2>6. a[2] # "start"
    BY <2>3, <2>4
  <2> HIDE DEF a
  <2> QED BY <1>1, <2>1, <2>4, <2>5, <2>6, GoOnStep
<1>5. CASE ~Confirmed
  <2>1. Report("failed")
    BY <1>5 DEF Confirm, Check
  <2>2. \E v \in past : Unmet(v)
    <3>1. CASE at[2] = "identity"
      <4>1. w[Sought] # "met" \/ world[<<r, "lock">>] # "met"
        BY <1>3, <1>5, <3>1 DEF Confirmed
      <4> QED BY <1>1, <3>1, <4>1, SoughtUnmet
    <3>2. CASE at[2] \in OfPath
      <4>1. w[Sought] \notin Uids \/ world[<<r, "name">>] # seen[Sought]
        BY <1>3, <1>5, <3>2 DEF Confirmed, OfPath
      <4> QED BY <1>1, <1>2, <3>2, <4>1, SoughtUnmet
    <3> QED BY <1>1, <3>1, <3>2 DEF Things
  <2> QED BY <1>1, <2>1, <2>2, ReportStep
<1> QED BY <1>4, <1>5

LEMMA SystemctlStep ==
  ASSUME PreflightInv, Systemctl
  PROVE  PreflightInv'
<1>1. /\ at[2] = "service" /\ at[2] # "start" /\ at[2] \notin Things /\ UNCHANGED <<world, past, untaken>>
      /\ Roles[at[1]] \in DOMAIN UnitsOf
  BY SeatOf DEF Systemctl, PreflightInv, Things, OfPath
<1>2. PICK c \in Commands(Roles[at[1]]) :
        \/ Answer(c, world[c]) /\ UNCHANGED silent
        \/ Answer(c, "") /\ silent' = silent \cup {c}
  BY DEF Systemctl
<1>3. CASE Answer(c, world[c]) /\ UNCHANGED silent
  BY <1>1, <1>3, AnswerStep
<1>4. CASE Answer(c, "") /\ silent' = silent \cup {c}
  <2>1. c \in silent' \cap OfUnit /\ silent \subseteq silent'
    BY <1>1, <1>4 DEF Commands, OfUnit, Units
  <2> QED BY <1>1, <1>4, <2>1, AnswerStep
<1> QED BY <1>2, <1>3, <1>4

LEMMA ServiceStep ==
  ASSUME PreflightInv, Service
  PROVE  PreflightInv'
<1> DEFINE i == at[1]
           r == Roles[i]
           a == IF i < Len(Roles) THEN <<i + 1, "identity">> ELSE <<0, "cronos">>
<1>1. /\ at[2] = "service" /\ at[2] # "start" /\ i \in DOMAIN Roles /\ r \in DOMAIN UnitsOf
      /\ Quiet /\ UNCHANGED <<world, past, silent, untaken>> /\ DOMAIN seen = Commands(r)
  BY SeatOf DEF Service, PreflightInv, Quiet, histories
<1>2. \A c \in Commands(r) : c \in OfUnit /\ (seen[c] \in Was(c) \/ (c \in silent /\ seen[c] = ""))
  <2>1. Commands(r) \subseteq OfUnit
    BY <1>1 DEF Commands, OfUnit, Units
  <2>2. \A c \in DOMAIN seen : Witnessed(c)
    BY DEF PreflightInv, SeenOK
  <2> QED BY <1>1, <2>1, <2>2 DEF Witnessed
<1>3. CASE Off(seen)
  <2>1. GoOn(a)
    BY <1>3 DEF Service, Check
  <2>2. NotSaidOn(r)
    BY <1>1, <1>2, <1>3 DEF NotSaidOn, Off
  <2>3. Hardened(r) /\ \A path \in OfPath : OwnedOnce(r, path)
    BY <1>1 DEF PreflightInv, GonePast, OfPath
  <2>4. Vouched(r)
    BY <2>2, <2>3 DEF Vouched
  <2>5. Len(Roles) \in Nat /\ DOMAIN Roles = 1..Len(Roles)
    BY PreflightAssumption DEF PreflightAssumption
  <2>6. \A j \in DOMAIN Roles : j < i \/ j = i => Vouched(Roles[j])
    BY <1>1, <2>4 DEF PreflightInv, GonePast
  <2>7. CASE i < Len(Roles)
    <3>1. a = <<i + 1, "identity">> /\ i + 1 \in DOMAIN Roles
      BY <1>1, <2>5, <2>7
    <3>2. \A j \in DOMAIN Roles : j < i + 1 => j < i \/ j = i
      BY <1>1, <2>5
    <3>3. a \in Seats /\ a[1] = i + 1 /\ a[2] = "identity"
      BY <3>1, Seated DEF Things
    <3> HIDE DEF a
    <3>4. GonePast(a)
      BY <2>6, <3>2, <3>3 DEF GonePast
    <3> QED BY <1>1, <2>1, <3>3, <3>4, GoOnStep
  <2>8. CASE ~(i < Len(Roles))
    <3>1. \A j \in DOMAIN Roles : j < i \/ j = i
      BY <1>1, <2>5, <2>8
    <3>2. \A q \in DOMAIN UnitsOf : Vouched(q)
      BY <2>6, <3>1, PreflightAssumption DEF PreflightAssumption
    <3>3. a \in Seats /\ a[1] = 0 /\ a[2] = "cronos"
      BY <2>8 DEF Seats
    <3> HIDE DEF a
    <3>4. GonePast(a)
      BY <3>2, <3>3 DEF GonePast, Things, OfPath
    <3> QED BY <1>1, <2>1, <3>3, <3>4, GoOnStep
  <2> QED BY <2>7, <2>8
<1>4. CASE ~Off(seen)
  <2>1. Report("failed")
    BY <1>4 DEF Service, Check
  <2>2. PICK c \in Commands(r) : seen[c] \in Verbs
    BY <1>1, <1>4 DEF Off
  <2>3. c \in OfUnit /\ seen[c] \in Was(c) /\ seen[c] \notin OffStates
    BY <1>2, <2>2, PreflightAssumption DEF Verbs, PreflightAssumption
  <2>4. \E w \in past : Unmet(w)
    BY <2>3 DEF Was, Unmet
  <2> QED BY <1>1, <2>1, <2>4, ReportStep
<1> QED BY <1>3, <1>4

(* The networks' looks.                                                      *)
LEMMA VaultCallStep ==
  ASSUME PreflightInv, VaultCall
  PROVE  PreflightInv'
<1>1. at[2] = "cronos" /\ at[2] \notin Things /\ UNCHANGED <<world, past, silent, untaken>>
  BY DEF VaultCall, Things, OfPath, Quiet, histories
<1>2. PICK p \in Providers, f \in Readings : Answer(<<p, f>>, world[<<p, f>>])
  BY DEF VaultCall
<1> QED BY <1>1, <1>2, AnswerStep

LEMMA FieldNotUnit ==
  ASSUME NEW d \in OfNetworks
  PROVE  d \notin OfUnit
<1>1. d[2] \in Readings \cup {"status"}
  BY DEF OfNetworks
<1>2. d[2] \notin Verbs
  BY <1>1, PreflightAssumption DEF PreflightAssumption, Readings, Verbs
<1> QED BY <1>2 DEF OfUnit

LEMMA CronosStep ==
  ASSUME PreflightInv, Cronos
  PROVE  PreflightInv'
<1> DEFINE a == <<0, "xitcoin">>
<1>1. /\ at[2] = "cronos" /\ at[2] # "start"
      /\ Quiet /\ UNCHANGED <<world, past, silent, untaken>> /\ DOMAIN seen = Providers \X Readings
  BY DEF Cronos, Quiet, histories
<1>2. \A d \in Providers \X Readings : d \in OfNetworks /\ seen[d] \in Was(d)
  BY <1>1, FieldNotUnit DEF PreflightInv, SeenOK, Witnessed, OfNetworks
<1>3. Reference \in Providers
  BY PreflightAssumption DEF PreflightAssumption, Reference
<1>4. CASE AgreeAndConform(seen)
  <2>1. GoOn(a)
    BY <1>4 DEF Cronos, Check
  <2>2. \A p \in Providers, f \in Readings : seen[<<p, f>>] = "met"
    BY <1>3, <1>4 DEF AgreeAndConform
  <2>3. \A d \in Providers \X Readings : "met" \in Was(d)
    BY <1>2, <2>2
  <2>4. GonePast(a)
    BY <1>1, <2>3 DEF PreflightInv, GonePast, Things, OfPath
  <2>5. a \in Seats /\ a[2] # "start"
    BY DEF Seats
  <2> HIDE DEF a
  <2> QED BY <1>1, <2>1, <2>4, <2>5, GoOnStep
<1>5. CASE ~AgreeAndConform(seen)
  <2>1. Report("failed")
    BY <1>5 DEF Cronos, Check
  <2>2. PICK p \in Providers, f \in Readings : seen[<<p, f>>] # "met"
    BY <1>3, <1>5 DEF AgreeAndConform
  <2>3. PICK w \in past : w[<<p, f>>] # "met"
    BY <1>2, <2>2 DEF Was
  <2>4. Unmet(w)
    BY <1>2, <2>3 DEF Unmet
  <2> QED BY <1>1, <2>1, <2>4, ReportStep
<1> QED BY <1>4, <1>5

LEMMA StatusCallStep ==
  ASSUME PreflightInv, StatusCall
  PROVE  PreflightInv'
<1>1. at[2] # "start" /\ at[2] \notin Things /\ UNCHANGED <<world, past, silent, untaken>>
  BY DEF StatusCall, Things, OfPath, Quiet, histories
<1>2. PICK n \in Nodes :
        IF world[<<n, "status">>] = "met" THEN Answer(<<n, "status">>, "met") ELSE Report("failed")
  BY DEF StatusCall
<1>3. CASE world[<<n, "status">>] = "met"
  <2> DEFINE d == <<n, "status">>
  <2>1. Answer(d, "met") /\ world[d] = "met"
    BY <1>2, <1>3
  <2> HIDE DEF d
  <2> QED BY <1>1, <2>1, AnswerStep
<1>4. CASE world[<<n, "status">>] # "met"
  <2>1. Unmet(world)
    BY <1>4 DEF Unmet, OfNetworks
  <2> QED BY <1>1, <1>2, <1>4, <2>1, UnmetNow, ReportStep
<1> QED BY <1>3, <1>4

(* The last word: what was gone past, and the nodes that have answered.      *)
LEMMA XitcoinStep ==
  ASSUME PreflightInv, Xitcoin
  PROVE  PreflightInv'
<1>1. /\ at[2] = "xitcoin" /\ at[2] # "start" /\ UNCHANGED <<world, past, silent, untaken>>
      /\ Report("passed") /\ DOMAIN seen = Nodes \X {"status"}
  BY DEF Xitcoin, Quiet, histories
<1>2. /\ \A r \in DOMAIN UnitsOf : Vouched(r)
      /\ \A d \in Providers \X Readings : "met" \in Was(d)
  BY <1>1 DEF PreflightInv, GonePast
<1>3. \A d \in Nodes \X {"status"} : seen[d] = "met" /\ seen[d] \in Was(d)
  BY <1>1, FieldNotUnit DEF PreflightInv, SeenOK, Witnessed, OfNetworks
<1> QED BY <1>1, <1>2, <1>3, ReportStep DEF OfNetworks

-------------------------------------------------------------------------------
(* The beginning, and what moves meanwhile.                                  *)
LEMMA StartStep ==
  ASSUME PreflightInv, Start
  PROVE  PreflightInv'
<1>1. /\ at[2] = "start" /\ at' = <<1, "identity">> /\ seen' = Nothing /\ outcome' = "none"
      /\ past' = {world} /\ world' = world
  BY DEF Start, GoOn, PreflightInv, MomentsOK
<1>2. 1 \in DOMAIN Roles /\ DOMAIN Roles = 1..Len(Roles)
  BY PreflightAssumption DEF PreflightAssumption
<1>3. at' \in Seats /\ at'[1] = 1 /\ at'[2] = "identity"
  BY <1>1, <1>2, Seated DEF Things
<1>4. GonePast(at)'
  <2>1. \A j \in DOMAIN Roles : ~(j < 1)
    BY <1>2
  <2> QED BY <1>3, <2>1 DEF GonePast
<1>5. SeenOK' /\ StillOwned'
  BY <1>1, <1>3, NothingSeen DEF SeenOK, StillOwned, Things, OfPath
<1>6. MomentsOK' /\ PassIsSound' /\ FailIsDeserved'
  BY <1>1 DEF PreflightInv, MomentsOK, PassIsSound, FailIsDeserved
<1> QED BY <1>3, <1>4, <1>5, <1>6 DEF PreflightInv

(* A move changes one fact: an owner that was seen and is still the owner    *)
(* either stays so or is parted from the name, which is a demand unmet.      *)
LEMMA MoveStep ==
  ASSUME PreflightInv, Move
  PROVE  PreflightInv'
<1>1. /\ UNCHANGED <<at, seen, outcome, silent, untaken>> /\ outcome = "none"
      /\ past' = (IF at[2] = "start" THEN past ELSE past \cup {world'})
  BY DEF Move
<1>2. PICK d \in Facts : \E v \in States(d) \ {world[d]} : world' = [world EXCEPT ![d] = v]
  BY DEF Move
<1>3. /\ DOMAIN world' = Facts /\ world'[d] # world[d]
      /\ \A e \in Facts : e # d => world'[e] = world[e]
  BY <1>2 DEF PreflightInv, MomentsOK
<1>4. past \subseteq past' /\ SeenOK' /\ GonePast(at)'
  BY <1>1, KeptStep
<1>5. MomentsOK' /\ PassIsSound' /\ FailIsDeserved'
  BY <1>1, <1>3 DEF PreflightInv, MomentsOK, PassIsSound, FailIsDeserved
<1>6. StillOwned'
  <2> DEFINE r == Roles[at[1]]
  <2> SUFFICES ASSUME at[2] \in OfPath, seen # Nothing, \A w \in past' : ~Unmet(w)
               PROVE  world'[Sought] = seen[Sought]
    BY <1>1 DEF StillOwned, Sought
  <2>1. at[2] \in Things /\ at[2] # "start" /\ r \in DOMAIN UnitsOf
    BY SeatOf DEF PreflightInv, Things, OfPath
  <2>2. Sought = <<r, at[2]>> /\ Sought \in Facts /\ <<r, "name">> \in Facts /\ Sought # <<r, "name">>
    BY <2>1 DEF Sought, Facts, Things, OfPath
  <2>3. world[Sought] = seen[Sought]
    BY <1>4 DEF PreflightInv, StillOwned
  <2>4. ~Unmet(world) /\ ~Unmet(world')
    BY <1>1, <2>1 DEF PreflightInv, MomentsOK
  <2>5. world[Sought] = world[<<r, "name">>] /\ world'[Sought] = world'[<<r, "name">>]
    BY <2>1, <2>4, SoughtUnmet
  <2>6. CASE d = Sought
    BY <1>3, <2>2, <2>5, <2>6
  <2>7. CASE d # Sought
    BY <1>3, <2>2, <2>3, <2>7
  <2> QED BY <2>6, <2>7
<1> QED BY <1>1, <1>4, <1>5, <1>6 DEF PreflightInv

THEOREM PreflightInvariant == PreflightSpec => []PreflightInv
<1>1. PreflightInit => PreflightInv
  <2> SUFFICES ASSUME PreflightInit PROVE PreflightInv
    OBVIOUS
  <2>1. at \in Seats /\ at[2] = "start"
    BY DEF PreflightInit, Seats
  <2>2. GonePast(at)
    BY <2>1 DEF GonePast, Things, OfPath
  <2>3. MomentsOK /\ SeenOK /\ StillOwned
    BY <2>1, NothingSeen DEF PreflightInit, MomentsOK, SeenOK, StillOwned, AsDemanded, Things, OfPath
  <2> QED BY <2>1, <2>2, <2>3 DEF PreflightInit, PreflightInv, PassIsSound, FailIsDeserved
<1>2. PreflightInv /\ [PreflightNext]_preflightVars => PreflightInv'
  <2>1. CASE UNCHANGED preflightVars
    <3> SUFFICES ASSUME PreflightInv PROVE PreflightInv'
      BY <2>1
    <3>1. UNCHANGED <<world, at, seen, outcome, past, silent, untaken>>
      BY <2>1 DEF preflightVars, histories
    <3>2. SeenOK' /\ GonePast(at)'
      BY <3>1, KeptStep
    <3>3. MomentsOK' /\ StillOwned'
      BY <3>1 DEF PreflightInv, MomentsOK, StillOwned, Sought
    <3>4. PassIsSound' /\ FailIsDeserved'
      BY <3>1, OnceIsKept DEF PreflightInv, PassIsSound, FailIsDeserved, Was
    <3> QED BY <3>1, <3>2, <3>3, <3>4 DEF PreflightInv
  <2> QED BY <2>1, MoveStep, StartStep, LookFailsStep, LookStep, ConfirmStep, SystemctlStep, ServiceStep,
             VaultCallStep, CronosStep, StatusCallStep, XitcoinStep DEF PreflightNext
<1> QED BY <1>1, <1>2, PTL DEF PreflightSpec

(* A report that passed vouches for everything that was looked at: each was  *)
(* as demanded at some moment of the run, whatever moved meanwhile; a unit   *)
(* that was heard of said neither "active" nor "enabled".                    *)
THEOREM PreflightPassIsSound == PreflightSpec => []PassIsSound
<1>1. PreflightInv => PassIsSound
  BY DEF PreflightInv
<1> QED BY <1>1, PreflightInvariant, PTL

(* A report that failed is deserved: a look could not be taken, or some      *)
(* demand was not met at some moment of the run.                             *)
THEOREM PreflightFailIsDeserved == PreflightSpec => []FailIsDeserved
<1>1. PreflightInv => FailIsDeserved
  BY DEF PreflightInv
<1> QED BY <1>1, PreflightInvariant, PTL
=============================================================================
