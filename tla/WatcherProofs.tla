------------------------------ MODULE WatcherProofs -----------------------------
(***************************************************************************)
(* What a watcher's rounds prove about the source chain, for any providers *)
(* of which one at least is honest, any confirmations and any length of    *)
(* chain: first for the rounds themselves, then for the scanner            *)
(* (SourceScan), then for a signer's own check (SignerCheck).  Last, what  *)
(* a Xitcoin provider's client makes of its node's answers (CometClient).  *)
(***************************************************************************)
EXTENDS SourceScan, SignerCheck, CometClient, FiniteSetTheorems, FunctionTheorems, WellFoundedInduction, TLAPS

(* What a watcher is configured for: no reorganization goes below the        *)
(* confirmations.  The properties are about chains that keep to it.          *)
ReorgsWithinWindow == "cronos" \in Sources => MaxReorg <= Confirmations

(* A node is never ahead of the chain, and what it has under the             *)
(* confirmations is the chain's.                                             *)
ViewOK(v) ==
  /\ Len(v) <= Len(chain)
  /\ \A h \in 1..(Len(v) - Confirmations) : v[h] = chain[h]
ChainInv == ChainTypeOK /\ \A p \in Providers : ViewOK(view[p])

\* The log l is of the block at height h.
OnChain(l, h) == l.hash = <<h, chain[h].fork>> /\ l.event \in chain[h].events

(* A scan's range continues the checkpoint and is buried at every honest node. *)
RangeOK == pc # "idle" =>
  /\ range.from = From /\ range.from \in 1..range.to
  /\ \A p \in Honest : range.to <= Len(view[p]) - Confirmations

Processing == {"next", "receipt", "observe", "finalize"}

(* The logs in hand are of blocks of the range, and every deposit of the     *)
(* range is in hand until it is finalized.                                   *)
LogsOK == pc \in Processing =>
  \A l \in todo : \E h \in range.from..range.to : OnChain(l, h)
CurrentOK ==
  /\ pc \in Processing \ {"next"} =>
       /\ current \in Logs /\ current.height \in range.from..range.to
       /\ OnChain(current, current.height)
  /\ pc = "finalize" => rows[current.event] = [state |-> "observed", log |-> current]
NoneMissed == pc \in Processing =>
  \A h \in range.from..range.to : \A e \in chain[h].events :
    \/ rows[e].state = "finalized"
    \/ \E l \in todo : l.event = e
    \/ pc # "next" /\ e = current.event

(* What the store holds for good is buried under the confirmations.          *)
RowsOK == \A e \in Events : rows[e].state = "finalized" =>
  /\ rows[e].log.height <= Len(chain) - Confirmations
  /\ OnChain(rows[e].log, rows[e].log.height)
CheckpointOK == checkpoint # NoCheckpoint =>
  /\ checkpoint.height <= Len(chain) - Confirmations
  /\ checkpoint.hash = <<checkpoint.height, chain[checkpoint.height].fork>>

ScanInv == /\ ChainInv /\ TypeOK /\ RangeOK /\ LogsOK /\ CurrentOK /\ NoneMissed
           /\ RowsOK /\ CheckpointOK /\ NoDepositSkipped

(* What a signer goes by once the claimed height is known to be final, once  *)
(* the claim was found among the logs, and what it has signed.               *)
ClaimOK ==
  /\ stage # "idle" => claim \in Claims
  /\ stage \in {"logs", "block", "receipt", "sign"} =>
       \A p \in Honest : claim.log.height <= Len(view[p]) - Confirmations
  /\ stage \in {"block", "receipt", "sign"} =>
       record = claim.log /\ claim.payloadKept /\ OnChain(claim.log, claim.log.height)
SignedOK == \A c \in signed :
  /\ c.log.height <= Len(chain) - Confirmations
  /\ c.payloadKept /\ OnChain(c.log, c.log.height)

CheckInv == ChainInv /\ CheckTypeOK /\ ClaimOK /\ SignedOK

-------------------------------------------------------------------------------
(* The rounds.                                                               *)

LEMMA HonestTip ==
  ASSUME NEW tips \in TipRound, NEW p \in Honest
  PROVE  tips[p] = Len(view[p])
BY DEF TipRound, Round, Honest

LEMMA HonestBlock ==
  ASSUME NEW h, NEW ans \in BlockRound(h), NEW p \in Honest
  PROVE  ans[p] = HashAt(view[p], h)
BY DEF BlockRound, Round, Honest

LEMMA HonestLogs ==
  ASSUME NEW from, NEW to, NEW ans \in LogRound(from, to), NEW p \in Honest
  PROVE  ans[p] = LogsIn(view[p], from, to)
BY DEF LogRound, Round, Honest

(* Not every provider is faulty.                                             *)
LEMMA SomeHonest ==
  ASSUME ChainTypeOK
  PROVE  Honest \subseteq Providers /\ Honest # {}
BY WatcherAssumption DEF WatcherAssumption, ChainTypeOK, Honest

LEMMA Bounds == {Confirmations, MaxReorg, MaxHeight, MaxForks} \subseteq Nat
BY WatcherAssumption DEF WatcherAssumption

LEMMA ViewTyped ==
  ASSUME ChainInv, NEW p \in Providers
  PROVE  /\ view[p] \in Seq(Blocks) /\ Len(view[p]) \in Nat
         /\ Len(view[p]) <= Len(chain) /\ Len(chain) <= MaxHeight
         /\ chain \in Seq(Blocks) /\ Len(chain) \in Nat
BY DEF ChainInv, ChainTypeOK, ViewOK

(* Sets of naturals have a least element.                                    *)
LEMMA LeastNatural ==
  ASSUME NEW S \in SUBSET Nat, S # {}
  PROVE  Min(S) \in S /\ \A x \in S : Min(S) <= x
<1>1. PICK m \in S : \A y \in S : <<y, m>> \notin OpToRel(<, Nat)
  BY NatLessThanWellFounded, WFMin
<1>2. \A y \in S : m <= y
  <2> SUFFICES ASSUME NEW y \in S, ~(m <= y) PROVE FALSE
    OBVIOUS
  <2>1. <<y, m>> \in Nat \X Nat /\ y < m
    OBVIOUS
  <2>2. <<y, m>> \in OpToRel(<, Nat)
    BY <2>1 DEF OpToRel
  <2> QED BY <1>1, <2>2
<1> QED BY <1>2 DEF Min

(* A height that is finalized by a look at the tips is buried at every       *)
(* honest node, whatever the others say their tips are.                      *)
LEMMA FinalizedIsBuried ==
  ASSUME ChainInv, NEW tips \in TipRound
  PROVE  /\ Finalized(tips) \in Nat
         /\ \A h \in Nat \ {0}, p \in Honest :
              h <= Finalized(tips) => h <= Len(view[p]) - Confirmations
<1> DEFINE S == {tips[p] : p \in Providers}
           m == Min(S)
<1>1. \A p \in Providers : tips[p] \in Nat
  <2> SUFFICES ASSUME NEW p \in Providers PROVE tips[p] \in Nat
    OBVIOUS
  <2>1. CASE p \in Honest
    BY <2>1, HonestTip, ViewTyped
  <2>2. CASE p \notin Honest
    <3>1. p \in faulty
      BY <2>2 DEF Honest
    <3>2. tips[p] \in 0..MaxHeight
      BY <2>2, <3>1 DEF TipRound, Round
    <3> QED BY <3>2, Bounds
  <2> QED BY <2>1, <2>2
<1>2. S \in SUBSET Nat /\ S # {}
  BY <1>1, WatcherAssumption DEF WatcherAssumption
<1>3. m \in Nat /\ \A x \in S : m <= x
  <2> HIDE DEF S
  <2> QED BY <1>2, LeastNatural
<1>4. \A p \in Honest : m <= Len(view[p])
  <2> SUFFICES ASSUME NEW p \in Honest PROVE m <= Len(view[p])
    OBVIOUS
  <2>1. tips[p] \in S
    BY DEF Honest
  <2> HIDE DEF S, m
  <2> QED BY <1>3, <2>1, HonestTip
<1>5. Finalized(tips) = Max({0, m - Confirmations})
  BY DEF Finalized
<1> HIDE DEF m
<1>6. Confirmations \in Nat
  BY Bounds
<1>7. Finalized(tips) = IF m - Confirmations > 0 THEN m - Confirmations ELSE 0
  <2> DEFINE T == {0, m - Confirmations}
  <2>1. \E x \in T : \A y \in T : x >= y
    BY <1>3, <1>6
  <2>2. Max(T) \in T /\ \A y \in T : Max(T) >= y
    <3> HIDE DEF T
    <3> QED BY <2>1 DEF Max
  <2> QED BY <1>3, <1>5, <1>6, <2>2
<1>8. \A p \in Honest : Len(view[p]) \in Nat
  BY ViewTyped, SomeHonest DEF ChainInv
<1> QED BY <1>3, <1>4, <1>6, <1>7, <1>8

(* A block agreed on at a buried height is the chain's.                      *)
LEMMA AgreedBlock ==
  ASSUME ChainInv, NEW h, NEW ans \in BlockRound(h), Agreed(ans), NEW p \in Honest
  PROVE  /\ h \in 1..Len(view[p]) /\ h \in 1..Len(chain)
         /\ ans[First] = <<h, view[p][h].fork>>
         /\ h <= Len(view[p]) - Confirmations => ans[First] = <<h, chain[h].fork>>
<1>1. p \in Providers
  BY DEF Honest
<1>2. /\ view[p] \in Seq(Blocks) /\ Len(view[p]) \in Nat /\ Len(chain) \in Nat
      /\ Len(view[p]) <= Len(chain)
  BY <1>1, ViewTyped
<1>3. HashAt(view[p], h) # Null /\ ans[First] = HashAt(view[p], h)
  BY <1>1, HonestBlock DEF Agreed
<1>4. h \in DOMAIN view[p] /\ ans[First] = <<h, view[p][h].fork>>
  BY <1>3 DEF HashAt
<1>5. h \in 1..Len(view[p])
  BY <1>2, <1>4
<1>6. h <= Len(view[p]) - Confirmations => view[p][h] = chain[h]
  BY <1>1, <1>2, <1>5, Bounds DEF ChainInv, ViewOK
<1> QED BY <1>2, <1>4, <1>5, <1>6

(* The hash of a block of the chain or of a node is one.                     *)
LEMMA BlockHash ==
  ASSUME ChainInv, NEW c \in Seq(Blocks), Len(c) <= MaxHeight, NEW h \in 1..Len(c)
  PROVE  /\ HashAt(c, h) = <<h, c[h].fork>> /\ HashAt(c, h) \in Hashes
         /\ c[h].events \subseteq Events /\ h \in 1..MaxHeight
<1>1. c[h] \in Blocks /\ h \in DOMAIN c /\ h \in 1..MaxHeight
  BY Bounds
<1>2. c[h].fork \in 0..MaxForks /\ c[h].events \in SUBSET Events
  BY <1>1 DEF Blocks
<1> QED BY <1>1, <1>2 DEF HashAt, Hashes

LEMMA LogsOf ==
  ASSUME ChainInv, NEW p \in Providers, NEW from \in Int, NEW to \in Int
  PROVE  /\ LogsIn(view[p], from, to) \subseteq Logs
         /\ \A l \in LogsIn(view[p], from, to) : \E h \in 1..Len(view[p]) :
              /\ from <= h /\ h <= to /\ l.height = h
              /\ l.hash = <<h, view[p][h].fork>> /\ l.event \in view[p][h].events
         /\ \A h \in 1..Len(view[p]) : \A e \in view[p][h].events :
              from <= h /\ h <= to =>
                [event |-> e, hash |-> <<h, view[p][h].fork>>, height |-> h] \in LogsIn(view[p], from, to)
<1> DEFINE v == view[p]
           at(h) == {[event |-> e, hash |-> HashAt(v, h), height |-> h] : e \in v[h].events}
<1>1. v \in Seq(Blocks) /\ Len(v) \in Nat /\ Len(v) <= MaxHeight /\ DOMAIN v = 1..Len(v)
  BY ViewTyped, Bounds
<1>2. \A h \in 1..Len(v) : /\ HashAt(v, h) = <<h, v[h].fork>> /\ HashAt(v, h) \in Hashes
                           /\ v[h].events \subseteq Events /\ h \in 1..MaxHeight
  <2> HIDE DEF v
  <2> QED BY <1>1, BlockHash
<1>3. LogsIn(v, from, to) = UNION {at(h) : h \in (from..to) \cap DOMAIN v}
  BY DEF LogsIn
<1>4. \A h : h \in (from..to) \cap DOMAIN v <=> h \in 1..Len(v) /\ from <= h /\ h <= to
  BY <1>1
<1>5. ASSUME NEW l \in LogsIn(v, from, to)
      PROVE  l \in Logs /\ \E h \in 1..Len(v) :
               /\ from <= h /\ h <= to /\ l.height = h
               /\ l.hash = <<h, v[h].fork>> /\ l.event \in v[h].events
  <2>1. PICK h : h \in (from..to) \cap DOMAIN v /\ l \in at(h)
    BY <1>3
  <2>2. h \in 1..Len(v) /\ from <= h /\ h <= to
    BY <1>4, <2>1
  <2>3. PICK e \in v[h].events : l = [event |-> e, hash |-> HashAt(v, h), height |-> h]
    BY <2>1
  <2>4. l \in Logs
    BY <1>2, <2>2, <2>3 DEF Logs
  <2>5. l.height = h /\ l.hash = <<h, v[h].fork>> /\ l.event \in v[h].events
    BY <1>2, <2>2, <2>3
  <2> QED BY <2>2, <2>4, <2>5
<1>6. ASSUME NEW h \in 1..Len(v), NEW e \in v[h].events, from <= h, h <= to
      PROVE  [event |-> e, hash |-> <<h, v[h].fork>>, height |-> h] \in LogsIn(v, from, to)
  <2>1. [event |-> e, hash |-> <<h, v[h].fork>>, height |-> h] \in at(h)
    BY <1>2
  <2>2. h \in (from..to) \cap DOMAIN v
    BY <1>4, <1>6
  <2> HIDE DEF at
  <2> QED BY <1>3, <2>1, <2>2
<1> QED BY <1>5, <1>6

(* What all providers agree on is on every honest node, and nothing an       *)
(* honest node has is withheld.                                              *)
LEMMA AgreedLogs ==
  ASSUME ChainInv, NEW from \in Int, NEW to \in Int, NEW ans \in LogRound(from, to),
         LogsAgreed(ans), NEW p \in Honest
  PROVE  /\ \A l \in ans[First] : \E k \in LogsIn(view[p], from, to) :
              k.event = l.event /\ k.hash = l.hash
         /\ \A k \in LogsIn(view[p], from, to) : \E l \in ans[First] : l.event = k.event
<1> DEFINE A == ans[First]
           B == LogsIn(view[p], from, to)
<1>1. ans[p] = B /\ p \in Providers
  BY HonestLogs DEF Honest
<1>2. Compared(A) = Compared(B)
  BY <1>1 DEF LogsAgreed
<1> HIDE DEF A, B
<1>3. CASE source = "cronos"
  <2>1. {<<l.event, l.hash>> : l \in A} = {<<l.event, l.hash>> : l \in B}
    BY <1>2, <1>3 DEF Compared, CronosCompared
  <2>2. \A l \in A : \E k \in B : <<l.event, l.hash>> = <<k.event, k.hash>>
    BY ONLY <2>1
  <2>3. ASSUME NEW k \in B
        PROVE  \E l \in A : <<l.event, l.hash>> = <<k.event, k.hash>>
    <3>1. <<k.event, k.hash>> \in {<<l.event, l.hash>> : l \in B}
      OBVIOUS
    <3>2. <<k.event, k.hash>> \in {<<l.event, l.hash>> : l \in A}
      BY ONLY <2>1, <3>1
    <3> QED BY ONLY <3>2
  <2>4. \A l \in A : \E k \in B : k.event = l.event /\ k.hash = l.hash
    BY <2>2
  <2>5. \A k \in B : \E l \in A : l.event = k.event
    BY <2>3
  <2> QED BY <2>4, <2>5 DEF A, B
<1>4. CASE source # "cronos"
  BY <1>2, <1>4 DEF Compared, XitcoinCompared, A, B
<1> QED BY <1>3, <1>4

(* Whatever a faulty provider answers has the form of logs.                  *)
LEMMA LogsTyped ==
  ASSUME ChainInv, NEW from \in Int, NEW to \in Int, NEW ans \in LogRound(from, to)
  PROVE  ans[First] \subseteq Logs
<1>1. First \in Providers /\ faulty \subseteq Providers
  BY WatcherAssumption DEF WatcherAssumption, ChainInv, ChainTypeOK
<1>2. CASE First \in Honest
  BY <1>1, <1>2, HonestLogs, LogsOf
<1>3. CASE First \notin Honest
  <2> DEFINE echoes == {LogsIn(view[q], from, to) : q \in Honest}
             lies   == {{}} \cup echoes \cup {{l} : l \in Logs} \cup UNION {Misdated(s) : s \in echoes}
  <2>1. First \in faulty
    BY <1>1, <1>3 DEF Honest
  <2>2. ans[First] \in lies
    BY <1>1, <1>3, <2>1 DEF LogRound, Round
  <2>3. \A s \in echoes : s \subseteq Logs
    BY LogsOf DEF Honest
  <2>4. \A s \in echoes : \A m \in Misdated(s) : m \subseteq Logs
    <3> SUFFICES ASSUME NEW s \in echoes, NEW m \in Misdated(s) PROVE m \subseteq Logs
      OBVIOUS
    <3>1. PICK l \in s, h \in 1..MaxHeight : m = (s \ {l}) \cup {[l EXCEPT !.height = h]}
      BY DEF Misdated
    <3>2. s \subseteq Logs
      BY <2>3
    <3>3. [l EXCEPT !.height = h] \in Logs
      BY <3>1, <3>2 DEF Logs
    <3> QED BY <3>1, <3>2, <3>3
  <2> HIDE DEF echoes
  <2> QED BY <2>2, <2>3, <2>4
<1> QED BY <1>2, <1>3

(* So the logs agreed on, of a range buried at the honest nodes, are the     *)
(* chain's: each is of a block of the range, and no deposit is missing.      *)
LEMMA AgreedLogsOnChain ==
  ASSUME ChainInv, NEW from \in Int, NEW to \in Int, 1 <= from, NEW ans \in LogRound(from, to),
         LogsAgreed(ans), \A p \in Honest : to <= Len(view[p]) - Confirmations
  PROVE  /\ \A l \in ans[First] : \E h \in from..to : OnChain(l, h)
         /\ \A h \in from..to : \A e \in chain[h].events : \E l \in ans[First] : l.event = e
<1>1. PICK p \in Honest : p \in Providers
  BY SomeHonest DEF ChainInv
<1>2. /\ Len(view[p]) \in Nat /\ to <= Len(view[p]) - Confirmations /\ Confirmations \in Nat
  BY <1>1, ViewTyped, Bounds
<1>3. \A h \in from..to : h \in 1..Len(view[p]) /\ view[p][h] = chain[h]
  BY <1>1, <1>2 DEF ChainInv, ViewOK
<1>4. ASSUME NEW l \in ans[First]
      PROVE  \E h \in from..to : OnChain(l, h)
  <2>1. PICK k \in LogsIn(view[p], from, to) : k.event = l.event /\ k.hash = l.hash
    BY <1>1, AgreedLogs
  <2>2. PICK h \in 1..Len(view[p]) : /\ from <= h /\ h <= to
                                     /\ k.hash = <<h, view[p][h].fork>> /\ k.event \in view[p][h].events
    BY <1>1, LogsOf
  <2>3. h \in from..to
    BY <2>2
  <2> QED BY <1>3, <2>1, <2>2, <2>3 DEF OnChain
<1>5. ASSUME NEW h \in from..to, NEW e \in chain[h].events
      PROVE  \E l \in ans[First] : l.event = e
  <2> DEFINE k == [event |-> e, hash |-> <<h, view[p][h].fork>>, height |-> h]
  <2>1. k \in LogsIn(view[p], from, to)
    <3>1. h \in 1..Len(view[p]) /\ e \in view[p][h].events /\ from <= h /\ h <= to
      BY <1>3
    <3> QED BY <1>1, <3>1, LogsOf
  <2>2. k.event = e
    OBVIOUS
  <2> HIDE DEF k
  <2>3. \E l \in ans[First] : l.event = k.event
    <3>1. \A x \in LogsIn(view[p], from, to) : \E l \in ans[First] : l.event = x.event
      BY ONLY ChainInv, from \in Int, to \in Int, ans \in LogRound(from, to), LogsAgreed(ans), p \in Honest,
              AgreedLogs
    <3> QED BY ONLY <2>1, <3>1
  <2> QED BY <2>2, <2>3
<1> QED BY <1>4, <1>5

-------------------------------------------------------------------------------
(* The chain and its nodes: what is buried stays as it is.                   *)

LEMMA Joined ==
  ASSUME NEW S, NEW s \in Seq(S), NEW t \in Seq(S)
  PROVE  /\ s \o t \in Seq(S) /\ Len(s \o t) = Len(s) + Len(t)
         /\ \A h \in 1..Len(s) : (s \o t)[h] = s[h]
OBVIOUS

(* The chain after a step of its own.                                        *)
LEMMA ChainMoves ==
  ASSUME ReorgsWithinWindow, ChainInv, Mine \/ Reorg
  PROVE  /\ chain' \in Seq(Blocks) /\ Len(chain') <= MaxHeight /\ forks' \in 0..MaxForks
         /\ Len(chain) <= Len(chain') /\ UNCHANGED <<config, view>>
         /\ \A h \in 1..(Len(chain) - Confirmations) : chain'[h] = chain[h]
<1>1. /\ chain \in Seq(Blocks) /\ Len(chain) \in Nat /\ Len(chain) <= MaxHeight
      /\ forks \in 0..MaxForks /\ source \in Sources
      /\ Confirmations \in Nat /\ MaxReorg \in Nat /\ MaxHeight \in Nat /\ MaxForks \in Nat
  BY Bounds DEF ChainInv, ChainTypeOK
<1>2. CASE Mine
  <2>1. PICK es \in {{}} \cup {{e} : e \in Events \ EventsOf(chain)} :
          chain' = Append(chain, [fork |-> forks, events |-> es])
    BY <1>2 DEF Mine
  <2> DEFINE b == [fork |-> forks, events |-> es]
  <2>2. b \in Blocks
    BY <1>1 DEF Blocks
  <2> HIDE DEF b
  <2>3. /\ chain' \in Seq(Blocks) /\ Len(chain') = Len(chain) + 1
        /\ \A h \in 1..Len(chain) : chain'[h] = chain[h]
    BY <1>1, <2>1, <2>2 DEF b
  <2> QED BY <1>1, <1>2, <2>3 DEF Mine
<1>3. CASE Reorg
  <2>0. PICK d \in 1..MaxReorg :
          /\ d <= Len(chain)
          /\ \E es \in [1..d -> {{}} \cup {{e} : e \in Events}] :
               chain' = SubSeq(chain, 1, Len(chain) - d) \o
                          [i \in 1..d |-> [fork |-> forks + 1, events |-> es[i]]]
    BY <1>3 DEF Reorg
  <2>1. PICK es \in [1..d -> {{}} \cup {{e} : e \in Events}] :
          chain' = SubSeq(chain, 1, Len(chain) - d) \o
                     [i \in 1..d |-> [fork |-> forks + 1, events |-> es[i]]]
    BY <2>0
  <2> DEFINE kept == SubSeq(chain, 1, Len(chain) - d)
             new  == [i \in 1..d |-> [fork |-> forks + 1, events |-> es[i]]]
  <2>2. d <= Confirmations /\ d \in Nat
    BY <1>1, <1>3, <2>0 DEF Reorg, ReorgsWithinWindow
  <2>3. /\ kept \in Seq(Blocks) /\ Len(kept) = Len(chain) - d
        /\ \A h \in 1..(Len(chain) - d) : kept[h] = chain[h]
    BY <1>1, <2>0, <2>2
  <2>4. new \in Seq(Blocks) /\ Len(new) = d
    <3>1. forks + 1 \in 0..MaxForks
      BY <1>1, <1>3 DEF Reorg
    <3>2. \A i \in 1..d : new[i] \in Blocks
      BY <3>1 DEF Blocks
    <3>3. new \in [1..d -> Blocks]
      BY <3>2
    <3> HIDE DEF new
    <3> QED BY <2>2, <3>3
  <2> HIDE DEF kept, new
  <2>5. /\ chain' \in Seq(Blocks) /\ Len(chain') = Len(chain)
        /\ \A h \in 1..(Len(chain) - d) : chain'[h] = chain[h]
    <3>1. chain' = kept \o new
      BY <2>1 DEF kept, new
    <3>2. /\ kept \o new \in Seq(Blocks) /\ Len(kept \o new) = Len(kept) + Len(new)
          /\ \A h \in 1..Len(kept) : (kept \o new)[h] = kept[h]
      BY <2>3, <2>4, Joined
    <3>3. Len(chain') = Len(chain) /\ chain' \in Seq(Blocks)
      BY <1>1, <2>2, <2>3, <2>4, <3>1, <3>2
    <3> QED BY <2>3, <3>1, <3>2, <3>3
  <2>6. \A h \in 1..(Len(chain) - Confirmations) : h \in 1..(Len(chain) - d)
    BY <1>1, <2>2
  <2>7. forks' \in 0..MaxForks /\ UNCHANGED <<config, view>>
    BY <1>1, <1>3 DEF Reorg
  <2> QED BY <1>1, <2>5, <2>6, <2>7
<1> QED BY <1>2, <1>3

LEMMA SyncKeeps ==
  ASSUME ChainInv, NEW q \in Providers, Sync(q)
  PROVE  /\ ChainInv' /\ UNCHANGED <<config, chain>>
         /\ \A p \in Providers : Len(view[p]) <= Len(view'[p])
<1>1. PICK n \in Len(view[q])..Len(chain) : view' = [view EXCEPT ![q] = SubSeq(chain, 1, n)]
  BY DEF Sync
<1>2. chain \in Seq(Blocks) /\ Len(chain) \in Nat /\ Len(view[q]) \in Nat /\ n \in 0..Len(chain)
      /\ Confirmations \in Nat
  BY ViewTyped, Bounds
<1> DEFINE v == SubSeq(chain, 1, n)
<1>3. v \in Seq(Blocks) /\ Len(v) = n /\ \A h \in 1..n : v[h] = chain[h]
  BY <1>2
<1> HIDE DEF v
<1>4. view' \in [Providers -> Seq(Blocks)] /\ view'[q] = v /\ \A p \in Providers : p # q => view'[p] = view[p]
  BY <1>1, <1>3 DEF ChainInv, ChainTypeOK, v
<1>5. UNCHANGED <<config, chain, forks>>
  BY DEF Sync
<1>6. ChainTypeOK'
  BY <1>4, <1>5 DEF ChainInv, ChainTypeOK, config
<1>7. ASSUME NEW p \in Providers
      PROVE  ViewOK(view[p])' /\ Len(view[p]) <= Len(view'[p])
  <2>1. CASE p = q
    BY <1>2, <1>3, <1>4, <1>5, <2>1 DEF ViewOK
  <2>2. CASE p # q
    BY <1>4, <1>5, <2>2, ViewTyped DEF ChainInv, ViewOK
  <2> QED BY <2>1, <2>2
<1> QED BY <1>5, <1>6, <1>7 DEF ChainInv

(* What happens around a watcher: nodes only catch up, and no block under    *)
(* the confirmations changes.                                                *)
LEMMA EnvironmentKeeps ==
  ASSUME ReorgsWithinWindow, ChainInv, Environment
  PROVE  /\ ChainInv' /\ UNCHANGED config /\ Len(chain) <= Len(chain')
         /\ \A h \in 1..(Len(chain) - Confirmations) : chain'[h] = chain[h]
         /\ \A p \in Providers : Len(view[p]) <= Len(view'[p])
<1>1. CASE Mine \/ Reorg
  <2>1. ChainTypeOK'
    BY <1>1, ChainMoves DEF ChainInv, ChainTypeOK, config
  <2>2. ASSUME NEW p \in Providers
        PROVE  ViewOK(view[p])' /\ Len(view[p]) <= Len(view'[p])
    <3>1. view' = view /\ Len(chain) <= Len(chain')
          /\ \A h \in 1..(Len(chain) - Confirmations) : chain'[h] = chain[h]
          /\ Len(chain') \in Nat
      BY <1>1, ChainMoves
    <3>2. Len(view[p]) \in Nat /\ Len(view[p]) <= Len(chain) /\ Len(chain) \in Nat /\ Confirmations \in Nat
      BY ViewTyped, Bounds
    <3>3. \A h \in 1..(Len(view[p]) - Confirmations) : view[p][h] = chain[h] /\ h \in 1..(Len(chain) - Confirmations)
      BY <3>2 DEF ChainInv, ViewOK
    <3> QED BY <3>1, <3>2, <3>3 DEF ViewOK
  <2> QED BY <1>1, <2>1, <2>2, ChainMoves DEF ChainInv
<1>2. ASSUME NEW q \in Honest, Sync(q)
      PROVE  /\ ChainInv' /\ UNCHANGED <<config, chain>>
             /\ \A p \in Providers : Len(view[p]) <= Len(view'[p])
  BY <1>2, SyncKeeps DEF Honest
<1>3. Len(chain) \in Nat
  BY DEF ChainInv, ChainTypeOK
<1> QED BY <1>1, <1>2, <1>3 DEF Environment

LEMMA ChainKept ==
  ASSUME ChainInv, UNCHANGED chainVars
  PROVE  ChainInv'
BY DEF ChainInv, ChainTypeOK, ViewOK, chainVars, config

LEMMA ReplaceKeeps ==
  ASSUME ChainInv, Replace
  PROVE  ChainInv' /\ UNCHANGED <<chain, view>>
BY DEF Replace, ChainInv, ChainTypeOK, ViewOK

(* What is buried is canonical.                                              *)
LEMMA BuriedIsCanonical ==
  ASSUME ChainInv, NEW l \in Logs, l.height <= Len(chain) - Confirmations, OnChain(l, l.height)
  PROVE  Canonical(l)
<1>1. chain \in Seq(Blocks) /\ Len(chain) \in Nat /\ l.height \in Nat \ {0} /\ Confirmations \in Nat
  BY Bounds DEF ChainInv, ChainTypeOK, Logs
<1>2. l.height \in DOMAIN chain
  BY <1>1
<1> QED BY <1>2 DEF Canonical, OnChain, HashAt

-------------------------------------------------------------------------------
(***************************************************************************)
(* The scanner.  A range is taken up only when it is buried at every       *)
(* honest node, so what is found in it stays on the chain until the        *)
(* checkpoint has passed it, and after.                                    *)
(***************************************************************************)
LEMMA RangeBuried ==
  ASSUME ScanInv, pc # "idle"
  PROVE  /\ range.from \in Nat /\ range.to \in Nat /\ 1 <= range.from /\ range.from <= range.to
         /\ Len(chain) \in Nat /\ range.to <= Len(chain) - Confirmations
         /\ \A h \in range.from..range.to : h \in 1..(Len(chain) - Confirmations) /\ h \in 1..Len(chain)
<1>1. PICK p \in Honest : p \in Providers
  BY SomeHonest DEF ScanInv, ChainInv
<1>2. /\ range.to <= Len(view[p]) - Confirmations /\ range.from \in 1..range.to
  BY <1>1 DEF ScanInv, RangeOK
<1>3. range.to \in Int /\ Len(view[p]) \in Nat /\ Len(chain) \in Nat /\ Len(view[p]) <= Len(chain)
      /\ Confirmations \in Nat
  BY <1>1, ViewTyped, Bounds DEF ScanInv, TypeOK
<1> QED BY <1>2, <1>3

(* A scan that stops, having moved the checkpoint or not.                    *)
LEMMA StopStep ==
  ASSUME ScanInv, Stop, ChainInv', UNCHANGED <<chain, rows>>, crashes' \in 0..MaxCrashes,
         checkpoint' \in {NoCheckpoint} \cup [height : 1..MaxHeight, hash : Hashes],
         CheckpointOK', NoDepositSkipped'
  PROVE  ScanInv'
<1>1. range' \in [from : 0..MaxHeight, to : 0..MaxHeight]
  BY Bounds DEF Stop, NoRange
<1>2. TypeOK'
  BY <1>1 DEF ScanInv, TypeOK, ChainInv, Stop, Steps
<1>3. RangeOK' /\ LogsOK' /\ CurrentOK' /\ NoneMissed'
  BY DEF Stop, RangeOK, LogsOK, CurrentOK, NoneMissed, Processing
<1>4. RowsOK'
  BY DEF ScanInv, RowsOK, OnChain
<1> QED BY <1>2, <1>3, <1>4 DEF ScanInv

LEMMA ThrowStep ==
  ASSUME ScanInv, Stop, UNCHANGED <<chainVars, storeVars, crashes>>
  PROVE  ScanInv'
<1>1. ChainInv' /\ UNCHANGED <<chain, rows, checkpoint, crashes>>
  BY ChainKept DEF ScanInv, chainVars, storeVars
<1>2. CheckpointOK' /\ NoDepositSkipped'
  BY <1>1 DEF ScanInv, CheckpointOK, NoDepositSkipped
<1> QED BY <1>1, <1>2, StopStep DEF ScanInv, TypeOK

(* Around the scanner the chain moves on, above what it works on.            *)
LEMMA ScanEnvironment ==
  ASSUME ReorgsWithinWindow, ScanInv, Environment, UNCHANGED <<scanVars, storeVars, crashes>>
  PROVE  ScanInv'
<1>1. /\ ChainInv' /\ Honest' = Honest /\ Len(chain) <= Len(chain')
      /\ \A h \in 1..(Len(chain) - Confirmations) : chain'[h] = chain[h]
      /\ \A p \in Providers : Len(view[p]) <= Len(view'[p])
  BY EnvironmentKeeps DEF ScanInv, config, Honest
<1>2. UNCHANGED <<pc, range, todo, current, baseGone, rows, checkpoint, crashes>>
  BY DEF scanVars, storeVars
<1>3. Len(chain) \in Nat /\ Len(chain') \in Nat /\ Confirmations \in Nat
  BY <1>1, Bounds DEF ScanInv, ChainInv, ChainTypeOK
<1>4. TypeOK'
  BY <1>1, <1>2 DEF ScanInv, TypeOK, ChainInv
<1>5. RangeOK'
  <2> SUFFICES ASSUME pc # "idle", NEW p \in Honest
               PROVE  range.to <= Len(view'[p]) - Confirmations
    BY <1>1, <1>2 DEF ScanInv, RangeOK, From
  <2>1. range.to \in Nat /\ range.to <= Len(view[p]) - Confirmations
    BY RangeBuried DEF ScanInv, RangeOK
  <2>2. p \in Providers
    BY DEF Honest
  <2>3. Len(view[p]) \in Nat /\ Len(view'[p]) \in Nat /\ Len(view[p]) <= Len(view'[p])
    BY <1>1, <2>2 DEF ScanInv, ChainInv, ChainTypeOK
  <2> QED BY <1>3, <2>1, <2>3
<1>6. \A l, h : h \in 1..(Len(chain) - Confirmations) => (OnChain(l, h)' <=> OnChain(l, h))
  BY <1>1 DEF OnChain
<1>7. LogsOK'
  <2> SUFFICES ASSUME pc \in Processing, NEW l \in todo
               PROVE  \E h \in range.from..range.to : OnChain(l, h)'
    BY <1>2 DEF LogsOK, OnChain
  <2>1. PICK h \in range.from..range.to : OnChain(l, h)
    BY DEF ScanInv, LogsOK
  <2> QED BY <1>1, <2>1, RangeBuried DEF OnChain, Processing
<1>8. CurrentOK'
  <2>1. ASSUME pc \in Processing \ {"next"}
        PROVE  OnChain(current, current.height)'
    <3>1. pc # "idle" /\ current.height \in range.from..range.to /\ OnChain(current, current.height)
      BY <2>1 DEF ScanInv, CurrentOK, Processing
    <3> QED BY <1>1, <1>2, <3>1, RangeBuried DEF OnChain
  <2> QED BY <1>2, <2>1 DEF ScanInv, CurrentOK
<1>9. NoneMissed'
  <2> SUFFICES ASSUME pc \in Processing, NEW h \in range.from..range.to, NEW e \in chain'[h].events
               PROVE  \/ rows[e].state = "finalized"
                      \/ \E l \in todo : l.event = e
                      \/ pc # "next" /\ e = current.event
    BY <1>2 DEF NoneMissed
  <2>1. chain'[h] = chain[h]
    BY <1>1, RangeBuried DEF Processing
  <2> QED BY <2>1 DEF ScanInv, NoneMissed
<1>10. RowsOK'
  <2> SUFFICES ASSUME NEW e \in Events, rows[e].state = "finalized"
               PROVE  /\ rows[e].log.height <= Len(chain') - Confirmations
                      /\ OnChain(rows[e].log, rows[e].log.height)'
    BY <1>2 DEF RowsOK, OnChain
  <2>1. /\ rows[e].log.height <= Len(chain) - Confirmations
        /\ OnChain(rows[e].log, rows[e].log.height)
    BY DEF ScanInv, RowsOK
  <2>2. rows[e].log.height \in 1..MaxHeight
    BY DEF ScanInv, TypeOK, NoRow, Logs
  <2>3. MaxHeight \in Nat
    BY Bounds
  <2>4. rows[e].log.height \in 1..(Len(chain) - Confirmations)
    BY <1>3, <2>1, <2>2, <2>3
  <2> QED BY <1>1, <1>2, <1>3, <2>1, <2>4 DEF OnChain
<1>11. CheckpointOK' /\ NoDepositSkipped'
  <2>1. CASE checkpoint = NoCheckpoint
    <3>1. CheckpointOK'
      BY <1>2, <2>1 DEF CheckpointOK
    <3>2. \A h \in StartHeight..checkpoint'.height : FALSE
      BY <1>2, <2>1, ScanAssumption DEF ScanAssumption, NoCheckpoint
    <3> QED BY <3>1, <3>2 DEF NoDepositSkipped
  <2>2. CASE checkpoint # NoCheckpoint
    <3>1. /\ checkpoint.height <= Len(chain) - Confirmations
          /\ checkpoint.hash = <<checkpoint.height, chain[checkpoint.height].fork>>
          /\ checkpoint.height \in Nat \ {0}
      BY <2>2, Bounds DEF ScanInv, CheckpointOK, TypeOK
    <3>2. chain'[checkpoint.height] = chain[checkpoint.height]
      BY <1>1, <1>3, <3>1
    <3>3. CheckpointOK'
      BY <1>1, <1>2, <1>3, <3>1, <3>2 DEF CheckpointOK
    <3>4. \A h \in StartHeight..checkpoint.height : chain'[h] = chain[h]
      <4>1. StartHeight \in Nat \ {0}
        BY ScanAssumption DEF ScanAssumption
      <4> SUFFICES ASSUME NEW h \in StartHeight..checkpoint.height PROVE chain'[h] = chain[h]
        OBVIOUS
      <4>2. h \in 1..(Len(chain) - Confirmations)
        BY ONLY <1>3, <3>1, <4>1, h \in StartHeight..checkpoint.height
      <4> QED BY <1>1, <4>2
    <3>5. NoDepositSkipped'
      BY <1>2, <3>4 DEF ScanInv, NoDepositSkipped
    <3> QED BY <3>3, <3>5
  <2> QED BY <2>1, <2>2
<1> QED
  BY <1>1, <1>4, <1>5, <1>7, <1>8, <1>9, <1>10, <1>11 DEF ScanInv
(* A scan that goes on with its range.                                       *)
LEMMA WorkStep ==
  ASSUME ScanInv, pc # "idle", pc' \in Steps \ {"idle"},
         UNCHANGED <<chainVars, range, baseGone, checkpoint, crashes>>,
         todo' \subseteq Logs, current' \in Logs \cup {Null},
         rows' \in [Events -> {NoRow} \cup [state : {"observed", "finalized"}, log : Logs]],
         \A e \in Events : rows[e].state = "finalized" => rows'[e].state = "finalized",
         LogsOK', CurrentOK', NoneMissed', RowsOK'
  PROVE  ScanInv'
<1>1. ChainInv' /\ UNCHANGED <<chain, view, config>>
  BY ChainKept DEF ScanInv, chainVars
<1>2. TypeOK'
  BY <1>1 DEF ScanInv, TypeOK, ChainInv
<1>3. RangeOK'
  BY <1>1 DEF ScanInv, RangeOK, From, Honest, config
<1>4. CheckpointOK'
  BY <1>1 DEF ScanInv, CheckpointOK
<1>5. NoDepositSkipped'
  <2> SUFFICES ASSUME NEW h \in StartHeight..checkpoint.height, NEW e \in chain[h].events
               PROVE  rows'[e].state = "finalized"
    BY <1>1 DEF NoDepositSkipped
  <2>1. rows[e].state = "finalized"
    BY DEF ScanInv, NoDepositSkipped
  <2>2. e \in Events
    <3>1. checkpoint # NoCheckpoint
      BY ScanAssumption DEF ScanAssumption, NoCheckpoint
    <3>2. h \in 1..Len(chain)
      <4>1. checkpoint.height \in Nat /\ checkpoint.height <= Len(chain) - Confirmations
        BY <3>1, Bounds DEF ScanInv, CheckpointOK, TypeOK
      <4>2. Len(chain) \in Nat /\ Confirmations \in Nat /\ StartHeight \in Nat \ {0}
        BY Bounds, ScanAssumption DEF ScanAssumption, ScanInv, ChainInv, ChainTypeOK
      <4> QED BY <4>1, <4>2
    <3>3. chain[h] \in Blocks
      BY <3>2 DEF ScanInv, ChainInv, ChainTypeOK
    <3> QED BY <3>3 DEF Blocks
  <2> QED BY <2>1, <2>2
<1> QED BY <1>1, <1>2, <1>3, <1>4, <1>5 DEF ScanInv

LEMMA StartKeeps ==
  ASSUME ScanInv, StartScan
  PROVE  ScanInv'
<1>1. PICK tips \in TipRound : From <= Finalized(tips) /\ range' = [from |-> From, to |-> To(tips)]
  BY DEF StartScan
<1>2. Finalized(tips) \in Nat /\ MaxBatch \in Nat \ {0} /\ StartHeight \in Nat \ {0}
  BY FinalizedIsBuried, ScanAssumption DEF ScanAssumption, ScanInv
<1>3. From \in Nat \ {0}
  <2>1. CASE checkpoint = NoCheckpoint
    BY <1>2, <2>1 DEF From
  <2>2. CASE checkpoint # NoCheckpoint
    BY <2>2, Bounds DEF From, ScanInv, TypeOK
  <2> QED BY <2>1, <2>2
<1>4. To(tips) \in Nat /\ From <= To(tips) /\ To(tips) <= Finalized(tips)
  <2> DEFINE S == {Finalized(tips), From + MaxBatch - 1}
  <2>1. From + MaxBatch - 1 \in Nat /\ From <= From + MaxBatch - 1
    BY <1>2, <1>3
  <2>2. S \in SUBSET Nat /\ S # {}
    BY <1>2, <2>1
  <2>3. Min(S) \in S /\ \A x \in S : Min(S) <= x
    <3> HIDE DEF S
    <3> QED BY <2>2, LeastNatural
  <2> QED BY <1>1, <1>2, <2>1, <2>3 DEF To
<1>5. \A p \in Honest : To(tips) <= Len(view[p]) - Confirmations
  BY <1>3, <1>4, FinalizedIsBuried DEF ScanInv
<1>6. To(tips) <= MaxHeight
  <2>1. PICK p \in Honest : p \in Providers
    BY SomeHonest DEF ScanInv, ChainInv
  <2>2. Len(view[p]) \in Nat /\ Len(chain) \in Nat /\ Len(view[p]) <= Len(chain) /\ Len(chain) <= MaxHeight
        /\ Confirmations \in Nat /\ MaxHeight \in Nat
    BY <2>1, ViewTyped, Bounds DEF ScanInv
  <2> QED BY <1>4, <1>5, <2>1, <2>2
<1>7. range' \in [from : 0..MaxHeight, to : 0..MaxHeight]
  BY <1>1, <1>3, <1>4, <1>6, Bounds
<1>8. pc' = "finality" /\ pc = "idle" /\ baseGone' \in BOOLEAN
      /\ UNCHANGED <<chainVars, todo, current, rows, checkpoint, crashes>>
  BY DEF StartScan, storeVars
<1>9. ChainInv' /\ UNCHANGED <<chain, view, config>>
  BY <1>8, ChainKept DEF ScanInv, chainVars
<1>10. TypeOK'
  BY <1>7, <1>8, <1>9 DEF ScanInv, TypeOK, ChainInv, Steps
<1>11. RangeOK'
  BY <1>1, <1>3, <1>4, <1>5, <1>8, <1>9 DEF RangeOK, From, Honest, config
<1>12. LogsOK' /\ CurrentOK' /\ NoneMissed'
  BY <1>8 DEF LogsOK, CurrentOK, NoneMissed, Processing
<1>13. RowsOK' /\ CheckpointOK' /\ NoDepositSkipped'
  BY <1>8, <1>9 DEF ScanInv, RowsOK, CheckpointOK, NoDepositSkipped, OnChain
<1> QED BY <1>8, <1>9, <1>10, <1>11, <1>12, <1>13 DEF ScanInv

LEMMA RecheckKeeps ==
  ASSUME ScanInv, RecheckFinality
  PROVE  ScanInv'
<1>1. CASE pc' = "logs" /\ UNCHANGED <<range, todo, current, baseGone>>
  <2>1. pc # "idle" /\ UNCHANGED <<chainVars, rows, checkpoint, crashes>>
    BY DEF RecheckFinality, storeVars
  <2>2. UNCHANGED <<chain, view>>
    BY <2>1 DEF chainVars
  <2>3. LogsOK' /\ CurrentOK' /\ NoneMissed'
    BY <1>1 DEF LogsOK, CurrentOK, NoneMissed, Processing
  <2>4. RowsOK'
    BY <2>1, <2>2 DEF ScanInv, RowsOK, OnChain
  <2> QED BY <1>1, <2>1, <2>2, <2>3, <2>4, WorkStep DEF ScanInv, TypeOK, Steps
<1>2. CASE Stop
  BY <1>2, ThrowStep DEF RecheckFinality
<1> QED BY <1>1, <1>2 DEF RecheckFinality

LEMMA FetchKeeps ==
  ASSUME ScanInv, FetchLogs
  PROVE  ScanInv'
<1>1. PICK ans \in LogRound(range.from, range.to) :
        IF LogsAgreed(ans)
        THEN todo' = ans[First] /\ pc' = "next" /\ UNCHANGED <<range, current, baseGone>>
        ELSE Stop
  BY DEF FetchLogs
<1>2. pc = "logs" /\ UNCHANGED <<chainVars, rows, checkpoint, crashes>>
  BY DEF FetchLogs, storeVars
<1>3. CASE LogsAgreed(ans)
  <2>1. UNCHANGED <<chain, view, range>>
    BY <1>1, <1>2, <1>3 DEF chainVars
  <2>2. range.from \in Int /\ range.to \in Int /\ 1 <= range.from
        /\ \A p \in Honest : range.to <= Len(view[p]) - Confirmations
    BY <1>2, RangeBuried DEF ScanInv, RangeOK
  <2>3. /\ \A l \in ans[First] : \E h \in range.from..range.to : OnChain(l, h)
        /\ \A h \in range.from..range.to : \A e \in chain[h].events : \E l \in ans[First] : l.event = e
    BY <1>3, <2>2, AgreedLogsOnChain DEF ScanInv
  <2>4. ans[First] \subseteq Logs
    BY <2>2, LogsTyped DEF ScanInv
  <2>5. LogsOK'
    BY <1>1, <1>3, <2>1, <2>3 DEF LogsOK, OnChain
  <2>6. NoneMissed'
    BY <1>1, <1>3, <2>1, <2>3 DEF NoneMissed
  <2>7. CurrentOK' /\ RowsOK'
    BY <1>1, <1>2, <1>3, <2>1 DEF ScanInv, CurrentOK, RowsOK, OnChain, Processing
  <2> QED
    BY <1>1, <1>2, <1>3, <2>1, <2>4, <2>5, <2>6, <2>7, WorkStep DEF ScanInv, TypeOK, Steps
<1>4. CASE ~LogsAgreed(ans)
  BY <1>1, <1>2, <1>4, ThrowStep DEF FetchLogs
<1> QED BY <1>3, <1>4

(* The block agreed on at the height a log claims is the log's: so the log   *)
(* claims the height of its block.                                           *)
LEMMA VerifyBlockKeeps ==
  ASSUME ScanInv, VerifyBlock
  PROVE  ScanInv'
<1>1. PICK l \in todo : \E ans \in BlockRound(l.height) :
        IF Agreed(ans) /\ ans[First] = l.hash
        THEN /\ pc' = "receipt" /\ current' = l /\ todo' = todo \ {l}
             /\ UNCHANGED <<range, baseGone>>
        ELSE Stop
  BY DEF VerifyBlock
<1>2. PICK ans \in BlockRound(l.height) :
        IF Agreed(ans) /\ ans[First] = l.hash
        THEN /\ pc' = "receipt" /\ current' = l /\ todo' = todo \ {l}
             /\ UNCHANGED <<range, baseGone>>
        ELSE Stop
  BY <1>1
<1>3. pc = "next" /\ UNCHANGED <<chainVars, rows, checkpoint, crashes>>
  BY DEF VerifyBlock, storeVars
<1>4. CASE Agreed(ans) /\ ans[First] = l.hash
  <2>1. UNCHANGED <<chain, view, range>> /\ l \in Logs
    BY <1>2, <1>3, <1>4 DEF chainVars, ScanInv, TypeOK
  <2>2. PICK h \in range.from..range.to : OnChain(l, h)
    BY <1>3 DEF ScanInv, LogsOK, Processing
  <2>3. PICK p \in Honest : TRUE
    BY SomeHonest DEF ScanInv, ChainInv
  <2>4. l.hash = <<l.height, view[p][l.height].fork>>
    BY <1>4, <2>3, AgreedBlock DEF ScanInv
  <2>5. l.height = h
    BY <2>2, <2>4 DEF OnChain
  <2>6. LogsOK'
    BY <1>2, <1>3, <1>4, <2>1 DEF ScanInv, LogsOK, OnChain, Processing
  <2>7. CurrentOK'
    BY <1>2, <1>4, <2>1, <2>2, <2>5 DEF CurrentOK, OnChain
  <2>8. NoneMissed'
    <3> SUFFICES ASSUME NEW k \in range.from..range.to, NEW e \in chain[k].events
                 PROVE  \/ rows[e].state = "finalized"
                        \/ \E m \in todo \ {l} : m.event = e
                        \/ e = l.event
      BY <1>2, <1>3, <1>4, <2>1 DEF NoneMissed
    <3>1. rows[e].state = "finalized" \/ \E m \in todo : m.event = e
      BY <1>3 DEF ScanInv, NoneMissed, Processing
    <3> QED BY <3>1
  <2>9. RowsOK'
    BY <1>3, <2>1 DEF ScanInv, RowsOK, OnChain
  <2> QED
    BY <1>2, <1>3, <1>4, <2>1, <2>6, <2>7, <2>8, <2>9, WorkStep DEF ScanInv, TypeOK, Steps
<1>5. CASE ~(Agreed(ans) /\ ans[First] = l.hash)
  BY <1>2, <1>3, <1>5, ThrowStep DEF VerifyBlock
<1> QED BY <1>4, <1>5

LEMMA VerifyReceiptKeeps ==
  ASSUME ScanInv, VerifyReceipt
  PROVE  ScanInv'
<1>1. CASE pc' = "observe" /\ UNCHANGED <<range, todo, current, baseGone>>
  <2>1. pc = "receipt" /\ UNCHANGED <<chainVars, rows, checkpoint, crashes>>
    BY DEF VerifyReceipt, storeVars
  <2>2. UNCHANGED <<chain, view>>
    BY <2>1 DEF chainVars
  <2>3. LogsOK' /\ CurrentOK' /\ NoneMissed' /\ RowsOK'
    BY <1>1, <2>1, <2>2 DEF ScanInv, LogsOK, CurrentOK, NoneMissed, RowsOK, OnChain, Processing
  <2> QED BY <1>1, <2>1, <2>2, <2>3, WorkStep DEF ScanInv, TypeOK, Steps
<1>2. CASE Stop
  BY <1>2, ThrowStep DEF VerifyReceipt
<1> QED BY <1>1, <1>2 DEF VerifyReceipt

(* A row that is past "observed" is left alone; it is finalized then.        *)
LEMMA ObserveKeeps ==
  ASSUME ScanInv, Observe
  PROVE  ScanInv'
<1>1. pc = "observe" /\ UNCHANGED <<chainVars, range, todo, current, baseGone, checkpoint, crashes>>
  BY DEF Observe
<1>2. UNCHANGED <<chain, view>>
  BY <1>1 DEF chainVars
<1>3. current \in Logs /\ current.event \in Events
      /\ current.height \in range.from..range.to /\ OnChain(current, current.height)
  BY <1>1 DEF ScanInv, CurrentOK, Processing, Logs
<1>4. LogsOK'
  <2>1. pc' \in {"finalize", "next"}
    BY DEF Observe
  <2> QED BY <1>1, <1>2, <2>1 DEF ScanInv, LogsOK, OnChain, Processing
<1>5. CASE rows[current.event].state \in {"absent", "observed"}
  <2>1. pc' = "finalize"
        /\ rows' = [rows EXCEPT ![current.event] = [state |-> "observed", log |-> current]]
    BY <1>5 DEF Observe
  <2> DEFINE row == [state |-> "observed", log |-> current]
  <2>2. rows \in [Events -> {NoRow} \cup [state : {"observed", "finalized"}, log : Logs]]
    BY DEF ScanInv, TypeOK
  <2>3. rows'[current.event] = row /\ \A e \in Events : e # current.event => rows'[e] = rows[e]
    BY <1>3, <2>1, <2>2
  <2>4. rows' \in [Events -> {NoRow} \cup [state : {"observed", "finalized"}, log : Logs]]
    BY <1>3, <2>1, <2>2
  <2>5. \A e \in Events : rows[e].state = "finalized" => e # current.event /\ rows'[e] = rows[e]
    BY <1>5, <2>3
  <2>6. CurrentOK'
    BY <1>1, <1>2, <1>3, <2>1, <2>3 DEF CurrentOK, OnChain
  <2>7. NoneMissed'
    <3> SUFFICES ASSUME NEW h \in range.from..range.to, NEW e \in chain[h].events
                 PROVE  \/ rows'[e].state = "finalized"
                        \/ \E l \in todo : l.event = e
                        \/ e = current.event
      BY <1>1, <1>2, <2>1 DEF NoneMissed
    <3>1. \/ rows[e].state = "finalized"
          \/ \E l \in todo : l.event = e
          \/ e = current.event
      BY <1>1 DEF ScanInv, NoneMissed, Processing
    <3>2. e \in Events
      <4>1. h \in 1..Len(chain)
        BY <1>1, RangeBuried
      <4>2. chain[h] \in Blocks
        BY <4>1 DEF ScanInv, ChainInv, ChainTypeOK
      <4> QED BY <4>2 DEF Blocks
    <3> QED BY <2>5, <3>1, <3>2
  <2>8. RowsOK'
    <3> SUFFICES ASSUME NEW e \in Events, rows'[e].state = "finalized"
                 PROVE  /\ rows[e].log.height <= Len(chain) - Confirmations
                        /\ OnChain(rows[e].log, rows[e].log.height) /\ rows'[e] = rows[e]
      BY <1>2 DEF RowsOK, OnChain
    <3>1. e # current.event /\ rows'[e] = rows[e]
      BY <2>3
    <3> QED BY <3>1 DEF ScanInv, RowsOK
  <2> QED
    BY <1>1, <1>4, <2>1, <2>4, <2>5, <2>6, <2>7, <2>8, WorkStep DEF ScanInv, TypeOK, Steps
<1>6. CASE rows[current.event].state \notin {"absent", "observed"}
  <2>1. pc' = "next" /\ UNCHANGED rows
    BY <1>6 DEF Observe
  <2>2. rows[current.event].state = "finalized"
    BY <1>3, <1>6 DEF ScanInv, TypeOK, NoRow
  <2>3. NoneMissed'
    BY <1>1, <1>2, <2>1, <2>2 DEF ScanInv, NoneMissed, Processing
  <2>4. CurrentOK' /\ RowsOK'
    BY <1>1, <1>2, <2>1 DEF ScanInv, CurrentOK, RowsOK, OnChain, Processing
  <2> QED BY <1>1, <1>4, <2>1, <2>3, <2>4, WorkStep DEF ScanInv, TypeOK, Steps
<1> QED BY <1>5, <1>6

LEMMA FinalizeKeeps ==
  ASSUME ScanInv, Finalize
  PROVE  ScanInv'
<1>1. /\ pc = "finalize" /\ pc' = "next"
      /\ rows' = [rows EXCEPT ![current.event].state = "finalized"]
      /\ UNCHANGED <<chainVars, range, todo, current, baseGone, checkpoint, crashes>>
  BY DEF Finalize
<1>2. UNCHANGED <<chain, view>>
  BY <1>1 DEF chainVars
<1>3. /\ current \in Logs /\ current.event \in Events
      /\ current.height \in range.from..range.to /\ OnChain(current, current.height)
      /\ rows[current.event] = [state |-> "observed", log |-> current]
  BY <1>1 DEF ScanInv, CurrentOK, Processing, Logs
<1>4. rows \in [Events -> {NoRow} \cup [state : {"observed", "finalized"}, log : Logs]]
  BY DEF ScanInv, TypeOK
<1> DEFINE row == [state |-> "finalized", log |-> current]
<1>5. rows'[current.event] = row /\ \A e \in Events : e # current.event => rows'[e] = rows[e]
  BY <1>1, <1>3, <1>4
<1>6. rows' \in [Events -> {NoRow} \cup [state : {"observed", "finalized"}, log : Logs]]
  <2>1. row \in [state : {"observed", "finalized"}, log : Logs]
    BY <1>3
  <2>2. \A e \in Events : rows'[e] \in {NoRow} \cup [state : {"observed", "finalized"}, log : Logs]
    <3> HIDE DEF row
    <3> QED BY <1>4, <1>5, <2>1
  <2>3. rows' = [e \in Events |-> rows'[e]]
    BY <1>1, <1>4
  <2> QED BY <2>2, <2>3
<1>7. \A e \in Events : rows[e].state = "finalized" => rows'[e].state = "finalized"
  BY <1>5
<1>8. LogsOK' /\ CurrentOK'
  BY <1>1, <1>2 DEF ScanInv, LogsOK, CurrentOK, OnChain, Processing
<1>9. NoneMissed'
  <2> SUFFICES ASSUME NEW h \in range.from..range.to, NEW e \in chain[h].events
               PROVE  rows'[e].state = "finalized" \/ \E l \in todo : l.event = e
    BY <1>1, <1>2 DEF NoneMissed
  <2>1. \/ rows[e].state = "finalized"
        \/ \E l \in todo : l.event = e
        \/ e = current.event
    BY <1>1 DEF ScanInv, NoneMissed, Processing
  <2>2. h \in 1..Len(chain)
    BY <1>1, RangeBuried
  <2>3. chain[h] \in Blocks
    BY <2>2 DEF ScanInv, ChainInv, ChainTypeOK
  <2>4. e \in Events
    BY <2>3 DEF Blocks
  <2> QED BY <1>5, <1>7, <2>1, <2>4
<1>10. RowsOK'
  <2> SUFFICES ASSUME NEW e \in Events, rows'[e].state = "finalized"
               PROVE  /\ rows'[e].log.height <= Len(chain) - Confirmations
                      /\ OnChain(rows'[e].log, rows'[e].log.height)
    BY <1>2 DEF RowsOK, OnChain
  <2>1. CASE e = current.event
    <3>1. rows'[e].log = current
      BY <1>5, <2>1
    <3>2. current.height \in 1..(Len(chain) - Confirmations)
      BY <1>1, <1>3, RangeBuried
    <3>3. Len(chain) \in Nat /\ Confirmations \in Nat
      BY <1>1, RangeBuried, Bounds
    <3> QED BY <1>3, <3>1, <3>2, <3>3
  <2>2. CASE e # current.event
    BY <1>5, <2>2 DEF ScanInv, RowsOK
  <2> QED BY <2>1, <2>2
<1> QED
  BY <1>1, <1>6, <1>7, <1>8, <1>9, <1>10, WorkStep DEF ScanInv, TypeOK, Steps

(* The checkpoint moves to the end of a range none of whose deposits is left *)
(* unfinalized.                                                              *)
LEMMA AdvanceKeeps ==
  ASSUME ScanInv, AdvanceCheckpoint
  PROVE  ScanInv'
<1>1. PICK ans \in BlockRound(range.to) :
        checkpoint' = IF Agreed(ans) /\ range.to > checkpoint.height
                      THEN [height |-> range.to, hash |-> ans[First]]
                      ELSE checkpoint
  BY DEF AdvanceCheckpoint
<1>2. pc = "next" /\ todo = {} /\ Stop /\ UNCHANGED <<chainVars, rows, crashes>>
  BY DEF AdvanceCheckpoint
<1>3. ChainInv' /\ UNCHANGED <<chain, view>>
  BY <1>2, ChainKept DEF ScanInv, chainVars
<1>4. CASE Agreed(ans) /\ range.to > checkpoint.height
  <2>1. checkpoint' = [height |-> range.to, hash |-> ans[First]]
    BY <1>1, <1>4
  <2>2. PICK p \in Honest : p \in Providers
    BY SomeHonest DEF ScanInv, ChainInv
  <2>3. /\ range.from = From /\ range.from \in Nat /\ range.to \in Nat
        /\ range.to <= Len(view[p]) - Confirmations
        /\ range.to <= Len(chain) - Confirmations
    BY <1>2, <2>2, RangeBuried DEF ScanInv, RangeOK
  <2>4. /\ range.to \in 1..Len(chain)
        /\ ans[First] = <<range.to, chain[range.to].fork>>
    BY <1>4, <2>2, <2>3, AgreedBlock DEF ScanInv
  <2>5. ans[First] \in Hashes /\ range.to \in 1..MaxHeight
    <3>1. chain \in Seq(Blocks) /\ Len(chain) <= MaxHeight
      BY DEF ScanInv, ChainInv, ChainTypeOK
    <3> QED BY <2>4, <3>1, BlockHash DEF ScanInv
  <2>6. checkpoint' \in [height : 1..MaxHeight, hash : Hashes]
    BY <2>1, <2>5
  <2>7. CheckpointOK'
    BY <1>3, <2>1, <2>3, <2>4 DEF CheckpointOK
  <2>8. NoDepositSkipped'
    <3> SUFFICES ASSUME NEW h \in StartHeight..range.to, NEW e \in chain[h].events
                 PROVE  rows[e].state = "finalized"
      BY <1>2, <1>3, <2>1 DEF NoDepositSkipped
    <3>1. checkpoint.height \in Nat /\ StartHeight \in Nat
          /\ (From = checkpoint.height + 1 \/ From = StartHeight)
      BY Bounds, ScanAssumption DEF ScanAssumption, ScanInv, TypeOK, NoCheckpoint, From
    <3>2. h \in range.from..range.to \/ h \in StartHeight..checkpoint.height
      BY <2>3, <3>1
    <3>3. CASE h \in range.from..range.to
      BY <1>2, <3>3 DEF ScanInv, NoneMissed, Processing
    <3>4. CASE h \in StartHeight..checkpoint.height
      BY <3>4 DEF ScanInv, NoDepositSkipped
    <3> QED BY <3>2, <3>3, <3>4
  <2> QED BY <1>2, <1>3, <2>6, <2>7, <2>8, StopStep DEF ScanInv, TypeOK
<1>5. CASE ~(Agreed(ans) /\ range.to > checkpoint.height)
  <2>1. checkpoint' = checkpoint
    BY <1>1, <1>5
  <2> QED BY <1>2, <2>1, ThrowStep DEF storeVars
<1> QED BY <1>4, <1>5

LEMMA CrashKeeps ==
  ASSUME ScanInv, Crash
  PROVE  ScanInv'
<1>1. Stop /\ crashes' = crashes + 1 /\ crashes < MaxCrashes /\ UNCHANGED <<chainVars, rows, checkpoint>>
  BY DEF Crash, storeVars
<1>2. ChainInv' /\ UNCHANGED chain
  BY <1>1, ChainKept DEF ScanInv, chainVars
<1>3. crashes' \in 0..MaxCrashes
  BY <1>1, ScanAssumption DEF ScanAssumption, ScanInv, TypeOK
<1>4. CheckpointOK' /\ NoDepositSkipped'
  BY <1>1, <1>2 DEF ScanInv, CheckpointOK, NoDepositSkipped
<1> QED BY <1>1, <1>2, <1>3, <1>4, StopStep DEF ScanInv, TypeOK

LEMMA ReconfigureKeeps ==
  ASSUME ScanInv, Reconfigure
  PROVE  ScanInv'
<1>1. Stop /\ UNCHANGED <<rows, checkpoint, crashes>>
  BY DEF Reconfigure, storeVars
<1>2. ChainInv' /\ UNCHANGED chain
  BY ReplaceKeeps DEF Reconfigure, ScanInv
<1>3. CheckpointOK' /\ NoDepositSkipped'
  BY <1>1, <1>2 DEF ScanInv, CheckpointOK, NoDepositSkipped
<1> QED BY <1>1, <1>2, <1>3, StopStep DEF ScanInv, TypeOK

LEMMA ChainStarts ==
  ASSUME ChainInit
  PROVE  ChainInv
<1>1. Faulty \subseteq Providers /\ 0 \in 0..MaxForks /\ 0 <= MaxHeight
  BY WatcherAssumption, Bounds DEF WatcherAssumption
<1>2. ChainTypeOK
  BY <1>1 DEF ChainInit, ChainTypeOK
<1>3. \A p \in Providers : ViewOK(view[p])
  BY Bounds DEF ChainInit, ViewOK
<1> QED BY <1>2, <1>3 DEF ChainInv

LEMMA ScanStarts == Init => ScanInv
<1> SUFFICES ASSUME Init PROVE ScanInv
  OBVIOUS
<1>1. ChainInv
  BY ChainStarts DEF Init
<1>2. TypeOK
  <2>1. NoRange \in [from : 0..MaxHeight, to : 0..MaxHeight] /\ 0 \in 0..MaxCrashes
    BY Bounds, ScanAssumption DEF NoRange, ScanAssumption
  <2> QED BY <1>1, <2>1 DEF Init, TypeOK, ChainInv, Steps
<1>3. RangeOK /\ LogsOK /\ CurrentOK /\ NoneMissed /\ RowsOK
  BY DEF Init, RangeOK, LogsOK, CurrentOK, NoneMissed, RowsOK, NoRow, Processing
<1>4. CheckpointOK /\ NoDepositSkipped
  BY ScanAssumption DEF ScanAssumption, Init, CheckpointOK, NoDepositSkipped, NoCheckpoint
<1> QED BY <1>1, <1>2, <1>3, <1>4 DEF ScanInv

(* The scanner's inductive invariant: a range in hand is buried at every     *)
(* honest node, no deposit of it is lost track of, and what the store holds  *)
(* for good is buried.                                                       *)
THEOREM ScanInvariant ==
  ASSUME ReorgsWithinWindow
  PROVE  Spec => []ScanInv
<1>1. ScanInv /\ [Next]_vars => ScanInv'
  <2> SUFFICES ASSUME ScanInv, [Next]_vars PROVE ScanInv'
    OBVIOUS
  <2>1. CASE Environment /\ UNCHANGED <<scanVars, storeVars, crashes>>
    BY <2>1, ScanEnvironment
  <2>2. CASE Reconfigure
    BY <2>2, ReconfigureKeeps
  <2>3. CASE ScanStep
    BY <2>3, StartKeeps, RecheckKeeps, FetchKeeps, VerifyBlockKeeps, VerifyReceiptKeeps,
       ObserveKeeps, FinalizeKeeps, AdvanceKeeps DEF ScanStep
  <2>4. CASE Crash
    BY <2>4, CrashKeeps
  <2>5. CASE UNCHANGED vars
    <3>1. UNCHANGED chainVars /\ UNCHANGED <<pc, range, todo, current, baseGone, rows, checkpoint, crashes>>
      BY <2>5 DEF vars, scanVars, storeVars
    <3>2. ChainInv' /\ UNCHANGED <<chain, view, config>>
      BY <3>1, ChainKept DEF ScanInv, chainVars
    <3>3. TypeOK' /\ RangeOK' /\ CheckpointOK' /\ NoDepositSkipped'
      BY <3>1, <3>2 DEF ScanInv, TypeOK, ChainInv, RangeOK, From, Honest, config, CheckpointOK,
         NoDepositSkipped
    <3>4. LogsOK' /\ CurrentOK' /\ NoneMissed' /\ RowsOK'
      BY <3>1, <3>2 DEF ScanInv, LogsOK, CurrentOK, NoneMissed, RowsOK, OnChain
    <3> QED BY <3>2, <3>3, <3>4 DEF ScanInv
  <2> QED BY <2>1, <2>2, <2>3, <2>4, <2>5 DEF Next
<1> QED BY <1>1, ScanStarts, PTL DEF Spec

(* Whatever the chain, the providers and crashes do, the scanner's and the   *)
(* store's values keep their form: every row and the checkpoint name a log   *)
(* and a block hash.                                                         *)
THEOREM ScanTypeCorrect ==
  ASSUME ReorgsWithinWindow
  PROVE  Spec => []TypeOK
<1>1. ScanInv => TypeOK
  BY DEF ScanInv
<1> QED BY <1>1, ScanInvariant, PTL

(* No deposit behind the checkpoint is unfinalized, whatever the batches,    *)
(* crashes and withheld logs on the way.                                     *)
THEOREM NothingSkipped ==
  ASSUME ReorgsWithinWindow
  PROVE  Spec => []NoDepositSkipped
<1>1. ScanInv => NoDepositSkipped
  BY DEF ScanInv
<1> QED BY <1>1, ScanInvariant, PTL

(* The evidence of a finalized transfer is, and stays, on the source chain.  *)
THEOREM FinalizedForGood ==
  ASSUME ReorgsWithinWindow
  PROVE  Spec => []FinalizedIsCanonical
<1>1. ScanInv => FinalizedIsCanonical
  <2> SUFFICES ASSUME ScanInv, NEW e \in Events, rows[e].state = "finalized"
               PROVE  Canonical(rows[e].log)
    BY DEF FinalizedIsCanonical
  <2>1. rows[e].log \in Logs
    BY DEF ScanInv, TypeOK, NoRow
  <2> QED BY <2>1, BuriedIsCanonical DEF ScanInv, RowsOK
<1> QED BY <1>1, ScanInvariant, PTL

(* The checkpoint names a block of the source chain.                         *)
THEOREM CheckpointOnChain ==
  ASSUME ReorgsWithinWindow
  PROVE  Spec => []CheckpointCanonical
<1>1. ScanInv => CheckpointCanonical
  <2> SUFFICES ASSUME ScanInv, checkpoint # NoCheckpoint
               PROVE  checkpoint.hash = HashAt(chain, checkpoint.height)
    BY DEF CheckpointCanonical
  <2>1. /\ checkpoint.height <= Len(chain) - Confirmations /\ checkpoint.height \in Nat \ {0}
        /\ checkpoint.hash = <<checkpoint.height, chain[checkpoint.height].fork>>
    BY Bounds DEF ScanInv, CheckpointOK, TypeOK
  <2>2. chain \in Seq(Blocks) /\ Len(chain) \in Nat /\ Confirmations \in Nat
    BY Bounds DEF ScanInv, ChainInv, ChainTypeOK
  <2>3. checkpoint.height \in DOMAIN chain
    BY <2>1, <2>2
  <2> QED BY <2>1, <2>3 DEF HashAt
<1> QED BY <1>1, ScanInvariant, PTL

-------------------------------------------------------------------------------
(***************************************************************************)
(* A signer's check.  The claim is anybody's; what it goes by was found by *)
(* a look at its own providers, at a height buried under its honest nodes. *)
(***************************************************************************)
LEMMA ClaimTyped ==
  ASSUME CheckInv, stage # "idle"
  PROVE  /\ claim \in Claims /\ claim.log \in Logs /\ claim.log.height \in Nat \ {0}
         /\ claim.log.height \in Int
BY Bounds DEF CheckInv, ClaimOK, Claims, Logs

(* Refusing, or having signed, leaves nothing of the request behind.         *)
LEMMA LeaveStep ==
  ASSUME CheckInv, Leave, UNCHANGED chainVars, signed' \subseteq Claims, SignedOK'
  PROVE  CheckInv'
<1>1. ChainInv'
  BY ChainKept DEF CheckInv
<1>2. CheckTypeOK'
  BY <1>1 DEF CheckInv, ChainInv, CheckTypeOK, Stages, Leave
<1>3. ClaimOK'
  BY DEF ClaimOK, Leave
<1> QED BY <1>1, <1>2, <1>3 DEF CheckInv

LEMMA RefuseStep ==
  ASSUME CheckInv, Leave, UNCHANGED <<chainVars, signed>>
  PROVE  CheckInv'
<1>1. SignedOK'
  BY DEF CheckInv, SignedOK, OnChain, chainVars
<1> QED BY <1>1, LeaveStep DEF CheckInv, CheckTypeOK

(* A round that confirms the claim, which stays in hand.                     *)
LEMMA ConfirmStep ==
  ASSUME CheckInv, stage # "idle", stage' \in Stages \ {"idle"}, UNCHANGED <<chainVars, claim, signed>>,
         record' \in Logs \cup {Null}, ClaimOK'
  PROVE  CheckInv'
<1>1. ChainInv' /\ UNCHANGED <<chain, view>>
  BY ChainKept DEF CheckInv, chainVars
<1>2. CheckTypeOK'
  BY <1>1 DEF CheckInv, ChainInv, CheckTypeOK
<1>3. SignedOK'
  BY <1>1 DEF CheckInv, SignedOK, OnChain
<1> QED BY <1>1, <1>2, <1>3 DEF CheckInv

LEMMA RequestKeeps ==
  ASSUME CheckInv, NEW c \in Claims, Request(c)
  PROVE  CheckInv'
<1>1. stage' = "finality" /\ claim' = c /\ UNCHANGED <<chainVars, record, signed>>
  BY DEF Request
<1>2. ChainInv' /\ UNCHANGED chain
  BY <1>1, ChainKept DEF CheckInv, chainVars
<1>3. CheckTypeOK'
  BY <1>1, <1>2, CheckAssumption DEF CheckInv, ChainInv, CheckTypeOK, CheckAssumption, Stages
<1>4. ClaimOK'
  BY <1>1 DEF ClaimOK
<1>5. SignedOK'
  BY <1>1, <1>2 DEF CheckInv, SignedOK, OnChain
<1> QED BY <1>2, <1>3, <1>4, <1>5 DEF CheckInv

LEMMA FinalityKeeps ==
  ASSUME CheckInv, CheckFinality
  PROVE  CheckInv'
<1>1. stage = "finality" /\ UNCHANGED <<chainVars, signed>>
  BY DEF CheckFinality, Check
<1>2. PICK tips \in TipRound : Check(claim.log.height <= Finalized(tips), "logs")
  BY DEF CheckFinality
<1>3. CASE claim.log.height <= Finalized(tips)
  <2>1. stage' = "logs" /\ UNCHANGED <<claim, record>>
    BY <1>2, <1>3 DEF Check
  <2>2. \A p \in Honest : claim.log.height <= Len(view[p]) - Confirmations
    BY <1>1, <1>3, ClaimTyped, FinalizedIsBuried DEF CheckInv
  <2>3. UNCHANGED <<view, config>>
    BY <1>1 DEF chainVars
  <2>4. ClaimOK'
    BY <1>1, <2>1, <2>2, <2>3 DEF CheckInv, ClaimOK, Honest, config
  <2> QED BY <1>1, <2>1, <2>4, ConfirmStep DEF CheckInv, CheckTypeOK, Stages
<1>4. CASE ~(claim.log.height <= Finalized(tips))
  <2>1. Leave
    BY <1>2, <1>4 DEF Check
  <2> QED BY <1>1, <2>1, RefuseStep
<1> QED BY <1>3, <1>4

LEMMA MatchKeeps ==
  ASSUME CheckInv, MatchLogs
  PROVE  CheckInv'
<1> DEFINE h == claim.log.height
           found(ans) == {r \in ans[First] : Matches(r, claim)}
<1>1. stage = "logs" /\ UNCHANGED <<chainVars, signed>>
  BY DEF MatchLogs
<1>2. PICK ans \in LogRound(h, h) :
        IF LogsAgreed(ans) /\ Cardinality(found(ans)) = 1
        THEN stage' = "block" /\ record' \in found(ans) /\ UNCHANGED claim
        ELSE Leave
  BY DEF MatchLogs
<1>3. CASE LogsAgreed(ans) /\ Cardinality(found(ans)) = 1
  <2>1. stage' = "block" /\ UNCHANGED claim /\ record' \in ans[First] /\ Matches(record', claim)
    BY <1>2, <1>3
  <2>2. h \in Int /\ 1 <= h /\ claim.log \in Logs
        /\ \A p \in Honest : h <= Len(view[p]) - Confirmations
    BY <1>1, ClaimTyped DEF CheckInv, ClaimOK
  <2>3. record' = claim.log /\ claim.payloadKept
    BY <2>1 DEF Matches
  <2>4. \E k \in h..h : OnChain(claim.log, k)
    <3> HIDE DEF h
    <3> QED BY <1>2, <1>3, <2>1, <2>2, <2>3, AgreedLogsOnChain DEF CheckInv
  <2>5. OnChain(claim.log, h)
    <3>1. \A k \in h..h : k = h
      <4> HIDE DEF h
      <4> QED BY <2>2
    <3> QED BY <2>4, <3>1
  <2>6. UNCHANGED <<chain, view, config>>
    BY <1>1 DEF chainVars
  <2>7. ClaimOK'
    <3>1. \A p \in Honest' : claim'.log.height <= Len(view'[p]) - Confirmations
      BY <2>1, <2>2, <2>6 DEF Honest, config
    <3>2. record' = claim'.log /\ claim'.payloadKept /\ OnChain(claim.log, claim.log.height)'
      BY <2>1, <2>3, <2>5, <2>6 DEF OnChain
    <3> QED BY <1>1, <2>1, <3>1, <3>2, ClaimTyped DEF ClaimOK
  <2> QED BY <1>1, <2>1, <2>2, <2>3, <2>7, ConfirmStep DEF Stages
<1>4. CASE ~(LogsAgreed(ans) /\ Cardinality(found(ans)) = 1)
  <2>1. Leave
    BY <1>2, <1>4
  <2> QED BY <1>1, <2>1, RefuseStep
<1> QED BY <1>3, <1>4

(* The last two looks can only refuse what the logs have confirmed.          *)
LEMMA LaterChecksKeep ==
  ASSUME CheckInv, CheckBlock \/ CheckReceipt
  PROVE  CheckInv'
<1>1. stage \in {"block", "receipt"} /\ UNCHANGED <<chainVars, signed>>
  BY DEF CheckBlock, CheckReceipt, Check
<1>2. CASE stage' \in {"receipt", "sign"} /\ UNCHANGED <<claim, record>>
  <2>1. UNCHANGED <<chain, view, config>>
    BY <1>1 DEF chainVars
  <2>2. ClaimOK'
    BY <1>1, <1>2, <2>1 DEF CheckInv, ClaimOK, OnChain, Honest, config
  <2> QED BY <1>1, <1>2, <2>2, ConfirmStep DEF CheckInv, CheckTypeOK, Stages
<1>3. CASE Leave
  BY <1>1, <1>3, RefuseStep
<1> QED BY <1>2, <1>3 DEF CheckBlock, CheckReceipt, Check

(* The height is buried at an honest node, so it is in the chain.            *)
LEMMA SignKeeps ==
  ASSUME CheckInv, Sign
  PROVE  CheckInv'
<1>1. stage = "sign" /\ signed' = signed \cup {claim} /\ Leave /\ UNCHANGED chainVars
  BY DEF Sign
<1>2. UNCHANGED chain
  BY <1>1 DEF chainVars
<1>3. claim \in Claims /\ claim.payloadKept /\ OnChain(claim.log, claim.log.height)
  BY <1>1, ClaimTyped DEF CheckInv, ClaimOK
<1>4. claim.log.height <= Len(chain) - Confirmations
  <2>1. PICK p \in Honest : p \in Providers
    BY SomeHonest DEF CheckInv, ChainInv
  <2>2. claim.log.height \in Nat /\ claim.log.height <= Len(view[p]) - Confirmations
    BY <1>1, <2>1, ClaimTyped DEF CheckInv, ClaimOK
  <2>3. Len(view[p]) \in Nat /\ Len(chain) \in Nat /\ Len(view[p]) <= Len(chain) /\ Confirmations \in Nat
    BY <2>1, ViewTyped, Bounds DEF CheckInv
  <2> QED BY <2>2, <2>3
<1>5. signed' \subseteq Claims
  BY <1>1, <1>3 DEF CheckInv, CheckTypeOK
<1>6. SignedOK'
  BY <1>1, <1>2, <1>3, <1>4 DEF CheckInv, SignedOK, OnChain
<1> QED BY <1>1, <1>5, <1>6, LeaveStep

LEMMA CheckEnvironment ==
  ASSUME ReorgsWithinWindow, CheckInv, Environment, UNCHANGED serviceVars
  PROVE  CheckInv'
<1>1. /\ ChainInv' /\ Honest' = Honest /\ Len(chain) <= Len(chain')
      /\ \A h \in 1..(Len(chain) - Confirmations) : chain'[h] = chain[h]
      /\ \A p \in Providers : Len(view[p]) <= Len(view'[p])
  BY EnvironmentKeeps DEF CheckInv, config, Honest
<1>2. UNCHANGED <<stage, claim, record, signed>>
  BY DEF serviceVars
<1>3. Len(chain) \in Nat /\ Len(chain') \in Nat /\ Confirmations \in Nat
  BY <1>1, Bounds DEF CheckInv, ChainInv, ChainTypeOK
<1>4. CheckTypeOK'
  BY <1>1, <1>2 DEF CheckInv, ChainInv, CheckTypeOK
<1>5. \A l \in Logs : l.height <= Len(chain) - Confirmations =>
        l.height <= Len(chain') - Confirmations /\ (OnChain(l, l.height)' <=> OnChain(l, l.height))
  <2> SUFFICES ASSUME NEW l \in Logs, l.height <= Len(chain) - Confirmations
               PROVE  /\ l.height <= Len(chain') - Confirmations
                      /\ chain'[l.height] = chain[l.height]
    BY DEF OnChain
  <2>1. l.height \in Nat \ {0}
    BY Bounds DEF Logs
  <2>2. l.height \in 1..(Len(chain) - Confirmations)
    BY <1>3, <2>1
  <2> QED BY <1>1, <1>3, <2>1, <2>2
<1>6. ASSUME NEW p \in Honest
      PROVE  /\ Len(view[p]) \in Nat /\ Len(view'[p]) \in Nat
             /\ Len(view[p]) <= Len(view'[p]) /\ Len(view[p]) <= Len(chain)
  <2>1. p \in Providers
    BY DEF Honest
  <2> QED BY <1>1, <2>1 DEF CheckInv, ChainInv, ChainTypeOK, ViewOK
<1>7. ClaimOK'
  <2>1. ASSUME stage \in {"logs", "block", "receipt", "sign"}, NEW p \in Honest
        PROVE  claim.log.height <= Len(view'[p]) - Confirmations
               /\ claim.log.height <= Len(chain) - Confirmations
    <3>1. claim.log.height \in Nat /\ claim.log.height <= Len(view[p]) - Confirmations
      BY <2>1, ClaimTyped DEF CheckInv, ClaimOK
    <3> QED BY <1>3, <1>6, <3>1
  <2>2. ASSUME stage \in {"block", "receipt", "sign"}
        PROVE  OnChain(claim.log, claim.log.height)'
    <3>1. PICK p \in Honest : TRUE
      BY SomeHonest DEF CheckInv, ChainInv
    <3>2. OnChain(claim.log, claim.log.height) /\ claim.log \in Logs
          /\ claim.log.height <= Len(chain) - Confirmations
      BY <2>1, <2>2, <3>1, ClaimTyped DEF CheckInv, ClaimOK
    <3> QED BY <1>2, <1>5, <3>2 DEF OnChain
  <2> QED BY <1>1, <1>2, <2>1, <2>2 DEF CheckInv, ClaimOK
<1>8. SignedOK'
  <2> SUFFICES ASSUME NEW c \in signed
               PROVE  /\ c.log.height <= Len(chain') - Confirmations
                      /\ c.payloadKept /\ OnChain(c.log, c.log.height)'
    BY <1>2 DEF SignedOK, OnChain
  <2>1. c.log \in Logs
    BY DEF CheckInv, CheckTypeOK, Claims
  <2> QED BY <1>5, <2>1 DEF CheckInv, SignedOK
<1> QED BY <1>1, <1>4, <1>7, <1>8 DEF CheckInv

(* The signer's inductive invariant: from the finality look on, the claimed  *)
(* height is buried; from the match on, the claim is the chain's.            *)
THEOREM CheckInvariant ==
  ASSUME ReorgsWithinWindow
  PROVE  CheckSpec => []CheckInv
<1>1. CheckInit => CheckInv
  <2> SUFFICES ASSUME CheckInit PROVE CheckInv
    OBVIOUS
  <2>1. ChainInv
    BY ChainStarts DEF CheckInit
  <2>2. CheckTypeOK /\ ClaimOK /\ SignedOK
    BY <2>1 DEF CheckInit, ChainInv, CheckTypeOK, Stages, ClaimOK, SignedOK
  <2> QED BY <2>1, <2>2 DEF CheckInv
<1>2. CheckInv /\ [CheckNext]_checkVars => CheckInv'
  <2> SUFFICES ASSUME CheckInv, [CheckNext]_checkVars PROVE CheckInv'
    OBVIOUS
  <2>1. CASE Environment /\ UNCHANGED serviceVars
    BY <2>1, CheckEnvironment
  <2>2. ASSUME NEW c \in Claims, Request(c)
        PROVE  CheckInv'
    BY <2>2, RequestKeeps
  <2>3. CASE CheckFinality \/ MatchLogs \/ CheckBlock \/ CheckReceipt \/ Sign
    BY <2>3, FinalityKeeps, MatchKeeps, LaterChecksKeep, SignKeeps
  <2>4. CASE UNCHANGED checkVars
    <3>1. UNCHANGED chainVars /\ UNCHANGED <<stage, claim, record, signed>>
      BY <2>4 DEF checkVars, serviceVars
    <3>2. ChainInv' /\ UNCHANGED <<chain, view, config>>
      BY <3>1, ChainKept DEF CheckInv, chainVars
    <3>3. CheckTypeOK' /\ ClaimOK' /\ SignedOK'
      BY <3>1, <3>2 DEF CheckInv, ChainInv, CheckTypeOK, ClaimOK, SignedOK, OnChain, Honest, config
    <3> QED BY <3>2, <3>3 DEF CheckInv
  <2> QED BY <2>1, <2>2, <2>3, <2>4 DEF CheckNext
<1> QED BY <1>1, <1>2, PTL DEF CheckSpec

(* A request is in hand exactly while it is served, and what is signed is a  *)
(* claim.                                                                    *)
THEOREM CheckTypeCorrect ==
  ASSUME ReorgsWithinWindow
  PROVE  CheckSpec => []CheckTypeOK
<1>1. CheckInv => CheckTypeOK
  BY DEF CheckInv
<1> QED BY <1>1, CheckInvariant, PTL

(* Whatever a coordinator claims and the faulty providers support, a signer  *)
(* signs only evidence that is, and stays, on the source chain, for the      *)
(* transfer the event holds.                                                 *)
THEOREM SignedForGood ==
  ASSUME ReorgsWithinWindow
  PROVE  CheckSpec => []SignedIsCanonical
<1>1. CheckInv => SignedIsCanonical
  <2> SUFFICES ASSUME CheckInv, NEW c \in signed
               PROVE  Canonical(c.log) /\ c.payloadKept
    BY DEF SignedIsCanonical
  <2>1. c.log \in Logs
    BY DEF CheckInv, CheckTypeOK, Claims
  <2> QED BY <2>1, BuriedIsCanonical DEF CheckInv, SignedOK
<1> QED BY <1>1, CheckInvariant, PTL

-------------------------------------------------------------------------------
(***************************************************************************)
(* CometClient for every chain.  A batch in work holds exactly the burns   *)
(* of the heights it is past, in order, and the answers for the height in  *)
(* work are that block's or lack its list; a record that is looked for is  *)
(* one the chain has, under the number the decoders give it.  What         *)
(* FlattenSeq makes of the parts, and that the burns of a transaction are  *)
(* numbered without a gap, come first: where that needs an induction it is *)
(* by the least number that would be missing.                              *)
(***************************************************************************)

(* Induction along a sequence, over a set instead of a formula.              *)
LEMMA Stepwise ==
  ASSUME NEW n \in Nat, NEW P, n > 0 => 1 \in P, \A k \in 1..(n - 1) : k \in P => k + 1 \in P
  PROVE  1..n \subseteq P
<1> DEFINE S == {k \in 1..n : k \notin P}
<1>1. SUFFICES ASSUME S # {} PROVE FALSE
  OBVIOUS
<1>2. S \in SUBSET Nat
  OBVIOUS
<1>3. PICK m \in S : \A x \in S : m <= x
  <2> HIDE DEF S
  <2> QED BY <1>1, <1>2, LeastNatural
<1>4. m # 1 /\ m \in 1..n
  BY <1>3
<1>5. m - 1 \in P /\ m - 1 \in 1..(n - 1)
  BY <1>3, <1>4
<1>6. m - 1 + 1 \in P
  BY <1>5
<1> QED BY <1>3, <1>4, <1>6

(* FlattenSeq is built up one part at a time.                                *)
LEMMA Flattened ==
  ASSUME NEW T, NEW ss \in Seq(Seq(T)), ss # <<>>
  PROVE  \E f \in [1..Len(ss) -> Seq(T)] :
           /\ FlattenSeq(ss) = f[Len(ss)] /\ f[1] = ss[1]
           /\ \A i \in 1..(Len(ss) - 1) : f[i + 1] = f[i] \o ss[i + 1]
<1> DEFINE n == Len(ss)
           Part(g, i) == IF i = 1 THEN ss[i] ELSE g[i - 1] \o ss[i]
           P == {k \in 1..n : \E g \in [1..k -> Seq(T)] : \A i \in 1..k : g[i] = Part(g, i)}
<1>1. n \in Nat \ {0} /\ \A i \in 1..n : ss[i] \in Seq(T)
  OBVIOUS
<1>2. 1 \in P
  <2> DEFINE g == [i \in 1..1 |-> ss[1]]
  <2>1. g \in [1..1 -> Seq(T)]
    BY <1>1
  <2>2. \A i \in 1..1 : g[i] = Part(g, i)
    OBVIOUS
  <2>3. 1 \in 1..n
    BY <1>1
  <2> HIDE DEF g, Part, n
  <2> QED BY <2>1, <2>2, <2>3
<1>3. ASSUME NEW k \in 1..(n - 1), k \in P
      PROVE  k + 1 \in P
  <2>1. PICK g \in [1..k -> Seq(T)] : \A i \in 1..k : g[i] = Part(g, i)
    BY <1>3
  <2> DEFINE h == [i \in 1..(k + 1) |-> IF i = k + 1 THEN g[k] \o ss[k + 1] ELSE g[i]]
  <2>2. h \in [1..(k + 1) -> Seq(T)]
    <3>1. k \in 1..k /\ k + 1 \in 1..n
      BY <1>1
    <3>2. g[k] \o ss[k + 1] \in Seq(T)
      BY <1>1, <3>1
    <3>3. \A i \in 1..(k + 1) : i # k + 1 => i \in 1..k
      OBVIOUS
    <3> QED BY <3>2, <3>3
  <2>3. \A i \in 1..(k + 1) : h[i] = Part(h, i)
    <3> SUFFICES ASSUME NEW i \in 1..(k + 1) PROVE h[i] = Part(h, i)
      OBVIOUS
    <3>1. CASE i = k + 1
      <4>1. i # 1 /\ i - 1 = k /\ h[i - 1] = g[k]
        BY <3>1
      <4> QED BY <3>1, <4>1
    <3>2. CASE i # k + 1
      <4>1. i \in 1..k /\ h[i] = g[i]
        BY <3>2
      <4>2. i # 1 => i - 1 \in 1..k /\ h[i - 1] = g[i - 1]
        BY <4>1
      <4> QED BY <2>1, <4>1, <4>2
    <3> QED BY <3>1, <3>2
  <2> HIDE DEF h, Part
  <2>4. k + 1 \in 1..n
    BY <1>1
  <2> QED BY <2>2, <2>3, <2>4
<1>4. n \in P
  <2> HIDE DEF P, n
  <2>1. 1..n \subseteq P
    BY <1>1, <1>2, <1>3, Stepwise
  <2> QED BY <1>1, <2>1
<1>5. \E g : g = [i \in 1..n |-> Part(g, i)]
  <2>1. PICK g \in [1..n -> Seq(T)] : \A i \in 1..n : g[i] = Part(g, i)
    BY <1>4
  <2>2. g = [i \in 1..n |-> Part(g, i)]
    <3> HIDE DEF Part
    <3> QED BY <2>1
  <2> QED BY <2>2
<1> DEFINE f == CHOOSE g : g = [i \in 1..n |-> Part(g, i)]
<1>6. f = [i \in 1..n |-> Part(f, i)]
  <2> HIDE DEF Part
  <2> QED BY <1>5
<1>7. FlattenSeq(ss) = f[n]
  BY <1>1 DEF FlattenSeq
<1>8. \A i \in 1..n : f[i] = Part(f, i)
  <2> HIDE DEF f, Part
  <2> QED BY <1>6
<1> HIDE DEF f
<1>9. f[1] = ss[1] /\ \A i \in 1..(n - 1) : f[i + 1] = f[i] \o ss[i + 1]
  <2>1. f[1] = Part(f, 1)
    <3> HIDE DEF Part
    <3> QED BY <1>1, <1>8
  <2>2. ASSUME NEW i \in 1..(n - 1)
        PROVE  f[i + 1] = f[i] \o ss[i + 1]
    <3>1. i + 1 \in 1..n /\ i + 1 # 1 /\ (i + 1) - 1 = i
      BY <1>1
    <3>2. f[i + 1] = Part(f, i + 1)
      <4> HIDE DEF Part
      <4> QED BY <1>8, <3>1
    <3> QED BY <3>1, <3>2
  <2> QED BY <2>1, <2>2
<1>10. f \in [1..n -> Seq(T)]
  <2> DEFINE Q == {k \in 1..n : f[k] \in Seq(T)}
  <2>1. 1 \in Q
    BY <1>1, <1>9
  <2>2. ASSUME NEW k \in 1..(n - 1), k \in Q PROVE k + 1 \in Q
    <3>1. f[k] \in Seq(T) /\ ss[k + 1] \in Seq(T) /\ k + 1 \in 1..n
      BY <1>1, <2>2
    <3>2. f[k + 1] = f[k] \o ss[k + 1]
      BY <1>9
    <3>3. f[k] \o ss[k + 1] \in Seq(T)
      BY <3>1
    <3> QED BY <3>1, <3>2, <3>3
  <2>3. 1..n \subseteq Q
    <3> HIDE DEF Q, n
    <3> QED BY <1>1, <2>1, <2>2, Stepwise
  <2>4. f = [i \in 1..n |-> f[i]]
    <3> HIDE DEF Part
    <3> QED BY <1>6
  <2> QED BY <2>3, <2>4
<1> QED BY <1>7, <1>9, <1>10

(* Burns in their order.                                                     *)
InOrder(s) == \A m, n \in DOMAIN s : m < n => Before(Place(s[m]), Place(s[n]))
Precede(S, T) == \A r \in S, q \in T : Before(Place(r), Place(q))

(* What comes after in the chain can be put after in the batch.              *)
LEMMA JoinedInOrder ==
  ASSUME NEW T, NEW s \in Seq(T), NEW t \in Seq(T), InOrder(s), InOrder(t),
         Precede(Range(s), Range(t))
  PROVE  InOrder(s \o t) /\ Range(s \o t) = Range(s) \cup Range(t)
<1> DEFINE u == s \o t
<1>1. /\ u \in Seq(T) /\ Len(s) \in Nat /\ Len(t) \in Nat
      /\ DOMAIN s = 1..Len(s) /\ DOMAIN t = 1..Len(t) /\ DOMAIN u = 1..(Len(s) + Len(t))
      /\ \A i \in DOMAIN s : u[i] = s[i]
      /\ \A i \in DOMAIN t : u[Len(s) + i] = t[i]
  OBVIOUS
<1> HIDE DEF u
<1>2. \A i \in DOMAIN u : i \notin DOMAIN s => i - Len(s) \in DOMAIN t /\ u[i] = t[i - Len(s)]
  <2> SUFFICES ASSUME NEW i \in DOMAIN u, i \notin DOMAIN s
               PROVE  i - Len(s) \in DOMAIN t /\ u[i] = t[i - Len(s)]
    OBVIOUS
  <2>1. i - Len(s) \in 1..Len(t) /\ Len(s) + (i - Len(s)) = i
    BY <1>1
  <2> QED BY <1>1, <2>1
<1>3. InOrder(u)
  <2> SUFFICES ASSUME NEW m \in DOMAIN u, NEW n \in DOMAIN u, m < n
               PROVE  Before(Place(u[m]), Place(u[n]))
    BY DEF InOrder
  <2>1. CASE n \in DOMAIN s
    <3>1. m \in DOMAIN s
      BY <1>1, <2>1
    <3> QED BY <1>1, <2>1, <3>1 DEF InOrder
  <2>2. CASE m \in DOMAIN s /\ n \notin DOMAIN s
    <3>1. u[m] \in Range(s) /\ u[n] \in Range(t)
      BY <1>1, <1>2, <2>2 DEF Range
    <3> QED BY <3>1 DEF Precede
  <2>3. CASE m \notin DOMAIN s /\ n \notin DOMAIN s
    <3>1. m - Len(s) < n - Len(s)
      BY <1>1
    <3> QED BY <1>2, <2>3, <3>1 DEF InOrder
  <2> QED BY <2>1, <2>2, <2>3
<1>4. Range(u) = Range(s) \cup Range(t)
  <2>1. \A i \in DOMAIN u : u[i] \in Range(s) \cup Range(t)
    BY <1>1, <1>2 DEF Range
  <2>2. \A i \in DOMAIN s : i \in DOMAIN u /\ u[i] = s[i]
    BY <1>1
  <2>3. \A i \in DOMAIN t : Len(s) + i \in DOMAIN u /\ u[Len(s) + i] = t[i]
    BY <1>1
  <2>4. Range(s) \subseteq Range(u) /\ Range(t) \subseteq Range(u)
    BY <2>2, <2>3 DEF Range
  <2> QED BY <2>1, <2>4 DEF Range
<1> QED BY <1>3, <1>4 DEF u

(* FlattenSeq of ordered parts, each before the next, is ordered and has     *)
(* what the parts have.                                                      *)
LEMMA FlattenedInOrder ==
  ASSUME NEW T, NEW ss \in Seq(Seq(T)), \A i \in DOMAIN ss : InOrder(ss[i]),
         \A i, j \in DOMAIN ss : i < j => Precede(Range(ss[i]), Range(ss[j]))
  PROVE  /\ FlattenSeq(ss) \in Seq(T) /\ InOrder(FlattenSeq(ss))
         /\ Range(FlattenSeq(ss)) = UNION {Range(ss[i]) : i \in DOMAIN ss}
<1>1. CASE ss = <<>>
  <2>1. FlattenSeq(ss) = <<>>
    BY <1>1 DEF FlattenSeq
  <2>2. DOMAIN ss = {} /\ Range(<<>>) = {} /\ <<>> \in Seq(T)
    BY <1>1 DEF Range
  <2> QED BY <2>1, <2>2, <1>1 DEF InOrder
<1>2. CASE ss # <<>>
  <2> DEFINE n == Len(ss)
  <2>1. n \in Nat \ {0} /\ DOMAIN ss = 1..n
    BY <1>2
  <2>2. PICK f \in [1..n -> Seq(T)] :
          /\ FlattenSeq(ss) = f[n] /\ f[1] = ss[1]
          /\ \A i \in 1..(n - 1) : f[i + 1] = f[i] \o ss[i + 1]
    BY <1>2, Flattened
  <2> DEFINE P == {k \in 1..n : /\ InOrder(f[k])
                                /\ Range(f[k]) = UNION {Range(ss[i]) : i \in 1..k}}
  <2> HIDE DEF n
  <2>3. 1 \in P
    <3>1. {Range(ss[i]) : i \in 1..1} = {Range(ss[1])}
      <4>1. \A i : i \in 1..1 <=> i = 1
        OBVIOUS
      <4> QED BY <4>1
    <3>2. 1 \in 1..n
      BY <2>1
    <3> QED BY <2>1, <2>2, <3>1, <3>2
  <2>4. ASSUME NEW k \in 1..(n - 1), k \in P PROVE k + 1 \in P
    <3>1. k \in 1..n /\ k + 1 \in 1..n /\ k < k + 1
      BY <2>1
    <3>2. f[k] \in Seq(T) /\ ss[k + 1] \in Seq(T)
      BY <2>1, <3>1
    <3>3. Precede(Range(f[k]), Range(ss[k + 1]))
      <4> SUFFICES ASSUME NEW r \in Range(f[k]), NEW q \in Range(ss[k + 1])
                   PROVE  Before(Place(r), Place(q))
        BY DEF Precede
      <4>1. PICK i \in 1..k : r \in Range(ss[i])
        BY <2>4
      <4>2. i \in DOMAIN ss /\ k + 1 \in DOMAIN ss /\ i < k + 1
        BY <2>1, <3>1, <4>1
      <4> QED BY <4>1, <4>2 DEF Precede
    <3>4. InOrder(f[k + 1]) /\ Range(f[k + 1]) = Range(f[k]) \cup Range(ss[k + 1])
      <4>1. InOrder(f[k]) /\ InOrder(ss[k + 1])
        BY <2>1, <2>4, <3>1
      <4>2. LET u == f[k] \o ss[k + 1] IN
              InOrder(u) /\ Range(u) = Range(f[k]) \cup Range(ss[k + 1])
        BY <3>2, <3>3, <4>1, JoinedInOrder
      <4>3. f[k + 1] = f[k] \o ss[k + 1]
        BY <2>2
      <4> QED BY <4>2, <4>3
    <3>5. {Range(ss[i]) : i \in 1..(k + 1)} = {Range(ss[i]) : i \in 1..k} \cup {Range(ss[k + 1])}
      <4>1. \A i : i \in 1..(k + 1) <=> i \in 1..k \/ i = k + 1
        BY <3>1
      <4> QED BY <4>1
    <3> QED BY <2>4, <3>1, <3>4, <3>5
  <2>5. n \in P
    <3>1. 1..n \subseteq P
      <4> HIDE DEF P
      <4> QED BY <2>1, <2>3, <2>4, Stepwise
    <3> QED BY <2>1, <3>1
  <2>6. n \in 1..n
    BY <2>1
  <2> QED BY <2>1, <2>2, <2>5, <2>6
<1> QED BY <1>1, <1>2

-------------------------------------------------------------------------------
(* A transaction's burns: each is numbered once, in order.                   *)
Number(events, k) == IF events[k] # NoIndex THEN events[k] ELSE Earlier(events, k)
RecordOf(id, events, k) == [tx |-> id, event |-> k, index |-> Number(events, k)]

(* The burns before a burn count up from zero, without a gap.                *)
LEMMA BurnsRanked ==
  ASSUME NEW events \in Seq(Int)
  PROVE  /\ Cardinality(BurnsIn(events)) \in Nat
         /\ \A k \in BurnsIn(events) : Earlier(events, k) \in 0..(Cardinality(BurnsIn(events)) - 1)
         /\ \A k, l \in BurnsIn(events) : k < l => Earlier(events, k) < Earlier(events, l)
         /\ \A n \in 1..Cardinality(BurnsIn(events)) :
              \E k \in BurnsIn(events) : Earlier(events, k) = n - 1
<1> DEFINE B == BurnsIn(events)
           N == Cardinality(B)
           Below(k) == {j \in B : j < k}
           rank == [k \in B |-> Cardinality(Below(k)) + 1]
<1>1. B \subseteq 1..Len(events) /\ Len(events) \in Nat
  BY DEF BurnsIn
<1>2. IsFiniteSet(B) /\ N \in Nat /\ B \subseteq Nat
  <2>1. IsFiniteSet(1..Len(events))
    BY <1>1, FS_Interval
  <2>2. IsFiniteSet(B)
    BY <1>1, <2>1, FS_Subset
  <2> QED BY <1>1, <2>2, FS_CardinalityType
<1>3. \A k : Earlier(events, k) = Cardinality(Below(k))
  BY DEF Earlier
<1> HIDE DEF B
<1>4. \A k \in B : /\ IsFiniteSet(Below(k)) /\ Cardinality(Below(k)) \in Nat
                   /\ Cardinality(Below(k)) < N
  <2> SUFFICES ASSUME NEW k \in B
               PROVE  /\ IsFiniteSet(Below(k)) /\ Cardinality(Below(k)) \in Nat
                      /\ Cardinality(Below(k)) < N
    OBVIOUS
  <2>1. Below(k) \subseteq B /\ k \in B /\ k \notin Below(k)
    BY <1>2
  <2>2. IsFiniteSet(Below(k)) /\ Cardinality(Below(k)) <= N /\ (Cardinality(Below(k)) = N => Below(k) = B)
    BY <1>2, <2>1, FS_Subset
  <2>3. Cardinality(Below(k)) \in Nat
    BY <2>2, FS_CardinalityType
  <2>4. Cardinality(Below(k)) # N
    BY <2>1, <2>2
  <2> QED BY <1>2, <2>2, <2>3, <2>4
<1>5. ASSUME NEW k \in B, NEW l \in B, k < l
      PROVE  Cardinality(Below(k)) < Cardinality(Below(l))
  <2>1. Below(k) \subseteq Below(l) /\ k \in Below(l) /\ k \notin Below(k)
    <3>1. \A j \in B : j < k => j < l
      BY <1>2, <1>5
    <3>2. k \in Nat /\ ~(k < k)
      BY <1>2
    <3> QED BY <1>5, <3>1, <3>2
  <2>2. Cardinality(Below(k)) <= Cardinality(Below(l))
        /\ (Cardinality(Below(k)) = Cardinality(Below(l)) => Below(k) = Below(l))
    BY <1>4, <2>1, FS_Subset
  <2>3. Cardinality(Below(k)) # Cardinality(Below(l))
    BY <2>1, <2>2
  <2>4. Cardinality(Below(k)) \in Nat /\ Cardinality(Below(l)) \in Nat
    BY <1>4
  <2> HIDE DEF Below
  <2> QED BY <2>2, <2>3, <2>4
<1>6. rank \in [B -> 1..N] /\ \A k \in B : rank[k] = Cardinality(Below(k)) + 1
  <2>1. \A k \in B : Cardinality(Below(k)) + 1 \in 1..N
    <3> HIDE DEF Below, N
    <3> QED BY <1>2, <1>4
  <2> HIDE DEF N, Below
  <2> QED BY <2>1
<1>7. \A k, l \in B : rank[k] = rank[l] => k = l
  <2> SUFFICES ASSUME NEW k \in B, NEW l \in B, rank[k] = rank[l], k # l PROVE FALSE
    OBVIOUS
  <2>1. Cardinality(Below(k)) = Cardinality(Below(l))
    <3> HIDE DEF Below, rank
    <3> QED BY <1>4, <1>6
  <2>2. k < l \/ l < k
    BY <1>2
  <2>3. Cardinality(Below(k)) \in Nat /\ Cardinality(Below(l)) \in Nat
    BY <1>4
  <2> HIDE DEF Below
  <2> QED BY <1>5, <2>1, <2>2, <2>3
<1>8. rank \in Surjection(B, 1..N)
  <2>1. rank \in Injection(B, 1..N)
    BY <1>6, <1>7, Fun_IsInj
  <2>2. IsFiniteSet(1..N) /\ Cardinality(1..N) = N
    BY <1>2, FS_Interval
  <2> QED BY <1>2, <2>1, <2>2, FS_Injection
<1>9. \A n \in 1..N : \E k \in B : rank[k] = n
  <2> HIDE DEF rank
  <2> QED BY <1>8, Fun_SurjectionProperties
<1>10. \A n \in 1..N : \E k \in B : Cardinality(Below(k)) = n - 1
  <2> SUFFICES ASSUME NEW n \in 1..N PROVE \E k \in B : Cardinality(Below(k)) = n - 1
    OBVIOUS
  <2>1. PICK k \in B : rank[k] = n
    BY <1>9
  <2>2. Cardinality(Below(k)) + 1 = n /\ Cardinality(Below(k)) \in Nat
    BY <1>4, <1>6, <2>1
  <2> HIDE DEF Below
  <2> QED BY <2>2
<1>11. \A k \in B : Cardinality(Below(k)) \in 0..(N - 1)
  <2> HIDE DEF Below, N
  <2> QED BY <1>2, <1>4
<1> HIDE DEF Below, N
<1> QED BY <1>2, <1>3, <1>5, <1>10, <1>11 DEF B, N

(* BurnRecords has every burn of the events once, in order.                  *)
LEMMA BurnsListed ==
  ASSUME NEW events \in Seq(Int), NEW id \in Nat \X Nat
  PROVE  /\ BurnRecords(id, events) \in Seq(BurnRecord)
         /\ InOrder(BurnRecords(id, events))
         /\ Range(BurnRecords(id, events)) = {RecordOf(id, events, k) : k \in BurnsIn(events)}
<1> DEFINE B == BurnsIn(events)
           N == Cardinality(B)
           E(k) == Earlier(events, k)
           b == Burnt(events)
           s == BurnRecords(id, events)
<1>1. /\ N \in Nat /\ \A k \in B : E(k) \in 0..(N - 1)
      /\ \A k, l \in B : k < l => E(k) < E(l)
      /\ \A n \in 1..N : \E k \in B : E(k) = n - 1
  BY BurnsRanked
<1>2. B \subseteq Nat /\ \A k \in B : events[k] \in Int
  <2>1. \A k \in B : k \in 1..Len(events)
    BY DEF BurnsIn
  <2> QED BY <2>1
<1>3. b = [n \in 1..N |-> CHOOSE k \in B : E(k) = n - 1]
  BY DEF Burnt
<1> HIDE DEF B, E
<1>4. DOMAIN b = 1..N /\ \A n \in 1..N : b[n] \in B /\ E(b[n]) = n - 1
  <2> HIDE DEF N, b
  <2>1. DOMAIN b = 1..N /\ \A n \in 1..N : b[n] = CHOOSE k \in B : E(k) = n - 1
    BY <1>3
  <2> QED BY <1>1, <2>1
<1>5. s = [n \in 1..N |-> [tx |-> id, event |-> b[n],
                           index |-> IF events[b[n]] # NoIndex THEN events[b[n]] ELSE n - 1]]
  BY <1>4 DEF BurnRecords
<1>6. \A n \in 1..N : RecordOf(id, events, b[n]) =
        [tx |-> id, event |-> b[n], index |-> IF events[b[n]] # NoIndex THEN events[b[n]] ELSE n - 1]
  BY <1>4 DEF RecordOf, Number, E
<1> HIDE DEF b, N, s
<1>7. DOMAIN s = 1..N /\ \A n \in 1..N : s[n] = RecordOf(id, events, b[n])
  BY <1>5, <1>6
<1>8. s \in Seq(BurnRecord)
  <2>1. \A n \in 1..N : s[n] \in BurnRecord
    <3> SUFFICES ASSUME NEW n \in 1..N PROVE s[n] \in BurnRecord
      OBVIOUS
    <3>1. b[n] \in B
      BY <1>4
    <3>2. b[n] \in Nat /\ events[b[n]] \in Int
      BY <1>2, <3>1
    <3>3. n - 1 \in Int
      OBVIOUS
    <3>4. s[n] = [tx |-> id, event |-> b[n],
                  index |-> IF events[b[n]] # NoIndex THEN events[b[n]] ELSE n - 1]
      BY <1>5
    <3> QED BY <3>2, <3>3, <3>4 DEF BurnRecord
  <2>2. s \in [1..N -> BurnRecord]
    BY <1>5, <2>1
  <2> QED BY <1>1, <2>2
<1>9. InOrder(s)
  <2> SUFFICES ASSUME NEW m \in 1..N, NEW n \in 1..N, m < n
               PROVE  Before(Place(s[m]), Place(s[n]))
    BY <1>7 DEF InOrder
  <2>1. b[m] \in Nat /\ b[n] \in Nat /\ b[m] \in B /\ b[n] \in B /\ E(b[m]) = m - 1 /\ E(b[n]) = n - 1
    BY <1>2, <1>4
  <2>2. b[m] < b[n]
    <3>1. CASE b[n] < b[m]
      <4>1. E(b[n]) < E(b[m])
        BY <1>1, <2>1, <3>1
      <4> QED BY <2>1, <4>1
    <3>2. CASE b[n] = b[m]
      <4>1. m - 1 = n - 1
        BY <2>1, <3>2
      <4> QED BY <4>1
    <3> QED BY <2>1, <3>1, <3>2
  <2>3. Place(s[m]) = <<id[1], id[2], b[m]>> /\ Place(s[n]) = <<id[1], id[2], b[n]>>
    BY <1>7 DEF Place, RecordOf
  <2> QED BY <2>2, <2>3 DEF Before
<1>10. Range(s) = {RecordOf(id, events, k) : k \in B}
  <2>1. ASSUME NEW k \in B
        PROVE  \E n \in 1..N : b[n] = k
    <3>1. E(k) + 1 \in 1..N /\ E(k) \in Nat
      BY <1>1
    <3>2. b[E(k) + 1] \in B /\ E(b[E(k) + 1]) = E(k)
      BY <1>4, <3>1
    <3>3. b[E(k) + 1] = k
      <4>1. b[E(k) + 1] \in Nat /\ k \in Nat
        BY <1>2, <3>2
      <4>2. ~(b[E(k) + 1] < k) /\ ~(k < b[E(k) + 1])
        <5>1. E(k) \in Nat /\ ~(E(k) < E(k))
          BY <3>1
        <5> HIDE DEF N
        <5> QED BY <1>1, <3>2, <5>1
      <4> QED BY <4>1, <4>2
    <3> QED BY <3>1, <3>3
  <2>2. Range(s) = {s[n] : n \in 1..N}
    BY <1>7 DEF Range
  <2>3. \A n \in 1..N : b[n] \in B
    BY <1>4
  <2>4. {s[n] : n \in 1..N} = {RecordOf(id, events, b[n]) : n \in 1..N}
    BY <1>7
  <2>5. {RecordOf(id, events, b[n]) : n \in 1..N} = {RecordOf(id, events, k) : k \in B}
    BY <2>1, <2>3
  <2> QED BY <2>2, <2>4, <2>5
<1> QED BY <1>8, <1>9, <1>10 DEF s, B

-------------------------------------------------------------------------------
(* A batch.                                                                  *)

\* The record a burn of the chain has to have, by its place.
TrueRecord(x) ==
  [tx |-> <<x[1], x[2]>>, event |-> x[3], index |-> Number(blocks[x[1]][x[2]].events, x[3]),
   height |-> x[1], hash |-> x[1]]

\* The burns of the heights whose transactions are not in a set.
Left(from, to, without) ==
  {x \in UNION {Burns(h) : h \in from..to} : <<x[1], x[2]>> \notin without}

\* The records are those of all burns of the heights, in chain order, but for the
\* transactions in a set, which are of those heights.
Lists(records, from, to, without) ==
  /\ records \in Seq(PlacedRecord) /\ InOrder(records)
  /\ Range(records) = {TrueRecord(x) : x \in Left(from, to, without)}
  /\ \A w \in without : w[1] \in from..to

(* What Chains says of one block.                                            *)
LEMMA ChainTyped ==
  ASSUME blocks \in Chains, NEW h \in 1..Len(blocks)
  PROVE  /\ blocks[h] \in Seq(Transactions) /\ h \in Nat
         /\ \A i \in DOMAIN blocks[h] : /\ blocks[h][i].ok \in BOOLEAN /\ i \in Nat
                                        /\ blocks[h][i].events \in Seq(Int)
<1>1. blocks \in Seq(Seq(Transactions))
  BY CometAssumption DEF CometAssumption
<1>2. blocks[h] \in Seq(Transactions) /\ h \in Nat
  BY <1>1
<1>3. \A i \in DOMAIN blocks[h] : blocks[h][i] \in Transactions /\ i \in Nat
  BY <1>2
<1> QED BY <1>2, <1>3 DEF Transactions

(* Burns, by the transaction and the event that each is.                     *)
LEMMA BurnsOf ==
  ASSUME blocks \in Chains, NEW h \in 1..Len(blocks), NEW x
  PROVE  x \in Burns(h) <=> \E i \in DOMAIN blocks[h] : \E k \in BurnsIn(blocks[h][i].events) :
                              blocks[h][i].ok /\ x = <<h, i, k>>
BY DEF Burns, BurnsIn

(* A burn has a place and a record.                                          *)
LEMMA BurnTyped ==
  ASSUME blocks \in Chains, NEW h \in 1..Len(blocks), NEW x \in Burns(h)
  PROVE  /\ x = <<x[1], x[2], x[3]>> /\ x[1] = h /\ x[2] \in DOMAIN blocks[h]
         /\ blocks[h][x[2]].ok /\ x[3] \in BurnsIn(blocks[h][x[2]].events)
         /\ x[1] \in Nat /\ x[2] \in Nat /\ x[3] \in Nat
         /\ TrueRecord(x) \in PlacedRecord /\ Place(TrueRecord(x)) = x
<1>0. PICK i \in DOMAIN blocks[h] : \E k \in BurnsIn(blocks[h][i].events) :
        blocks[h][i].ok /\ x = <<h, i, k>>
  BY BurnsOf
<1>1. PICK k \in BurnsIn(blocks[h][i].events) : blocks[h][i].ok /\ x = <<h, i, k>>
  BY <1>0
<1>2. h \in Nat /\ i \in Nat /\ blocks[h][i].events \in Seq(Int)
  BY ChainTyped
<1>3. k \in 1..Len(blocks[h][i].events) /\ blocks[h][i].events[k] \in Int
  BY <1>2 DEF BurnsIn
<1>4. x[1] = h /\ x[2] = i /\ x[3] = k /\ k \in Nat
  BY <1>1, <1>3
<1>5. Number(blocks[h][i].events, k) \in Int
  <2>1. Cardinality(BurnsIn(blocks[h][i].events)) \in Nat
        /\ Earlier(blocks[h][i].events, k) \in 0..(Cardinality(BurnsIn(blocks[h][i].events)) - 1)
    BY <1>2, BurnsRanked
  <2> QED BY <1>3, <2>1 DEF Number
<1>6. TrueRecord(x) = [tx |-> <<h, i>>, event |-> k, index |-> Number(blocks[h][i].events, k),
                       height |-> h, hash |-> h]
  BY <1>4 DEF TrueRecord
<1>7. TrueRecord(x) \in PlacedRecord
  BY <1>2, <1>4, <1>5, <1>6 DEF PlacedRecord
<1>8. Place(TrueRecord(x)) = <<h, i, k>>
  BY <1>6 DEF Place
<1> QED BY <1>1, <1>2, <1>4, <1>7, <1>8

(* A block's transaction hashes.                                             *)
LEMMA IdsTyped ==
  ASSUME blocks \in Chains, NEW h \in 1..Len(blocks)
  PROVE  Ids(h) \in Seq(Nat \X Nat)
<1>1. DOMAIN blocks[h] = 1..Len(blocks[h]) /\ Len(blocks[h]) \in Nat /\ h \in Nat
  BY ChainTyped
<1>2. Ids(h) \in [1..Len(blocks[h]) -> Nat \X Nat]
  BY <1>1 DEF Ids
<1> QED BY <1>1, <1>2

(* What a node tells of a result has its code, and its events or none.       *)
LEMMA ToldTyped ==
  ASSUME NEW result \in Transactions, NEW t \in Told(result)
  PROVE  /\ t \in Transactions /\ t.ok = result.ok /\ t.ok \in BOOLEAN /\ t.events \in Seq(Int)
         /\ t.events # <<>> => t.events = result.events
<1>1. result = [ok |-> result.ok, events |-> result.events] /\ result.ok \in BOOLEAN
      /\ result.events \in Seq(Int) /\ <<>> \in Seq(Int)
  BY DEF Transactions
<1>2. t = result \/ t = [result EXCEPT !.events = <<>>]
  BY DEF Told
<1>3. CASE t = result
  BY <1>1, <1>3 DEF Transactions
<1>4. CASE t = [result EXCEPT !.events = <<>>]
  <2>1. t = [ok |-> result.ok, events |-> <<>>]
    BY <1>1, <1>4
  <2> QED BY <1>1, <2>1 DEF Transactions
<1> QED BY <1>2, <1>3, <1>4

(* The results of a block, as they are told.                                 *)
LEMMA ResultsTyped ==
  ASSUME blocks \in Chains, NEW h \in 1..Len(blocks), NEW told \in {<<>>} \cup Results(h)
  PROVE  /\ told \in Seq(Transactions)
         /\ told = <<>> \/ DOMAIN told = DOMAIN blocks[h]
         /\ \A i \in DOMAIN told : i \in DOMAIN blocks[h] /\ told[i] \in Told(blocks[h][i])
<1>1. CASE told = <<>>
  BY <1>1
<1>2. CASE told \in Results(h)
  <2>1. blocks[h] \in Seq(Transactions)
    BY ChainTyped
  <2>2. DOMAIN blocks[h] = 1..Len(blocks[h]) /\ Len(blocks[h]) \in Nat
        /\ \A i \in DOMAIN blocks[h] : blocks[h][i] \in Transactions
    BY <2>1
  <2> DEFINE any == UNION {Told(blocks[h][i]) : i \in DOMAIN blocks[h]}
  <2>3. told \in [DOMAIN blocks[h] -> any] /\ \A i \in DOMAIN told : told[i] \in Told(blocks[h][i])
    BY <1>2 DEF Results
  <2>4. DOMAIN told = DOMAIN blocks[h]
    BY <2>3
  <2>5. \A i \in DOMAIN told : told[i] \in Transactions
    BY <2>2, <2>3, <2>4, ToldTyped
  <2>6. told \in [1..Len(blocks[h]) -> Transactions]
    <3> HIDE DEF any
    <3> QED BY <2>2, <2>3, <2>4, <2>5
  <2>7. told \in Seq(Transactions)
    BY <2>2, <2>6
  <2> QED BY <2>3, <2>4, <2>7
<1> QED BY <1>1, <1>2

(* A transaction is withheld if the answers that agree leave it no events.   *)
LEMMA WithheldAre ==
  ASSUME blocks \in Chains, NEW h \in 1..Len(blocks), call.height = h,
         call.block.txs \in {Ids(h), <<>>}, call.results.txs \in {<<>>} \cup Results(h),
         Paired(call.block, call.results)
  PROVE  /\ Withheld \subseteq Nat \X Nat /\ \A w \in Withheld : w[1] = h
         /\ \A i \in DOMAIN blocks[h] :
              <<h, i>> \notin Withheld <=>
                i \in DOMAIN call.results.txs /\ call.results.txs[i].events # <<>>
<1> DEFINE ids  == call.block.txs
           told == call.results.txs
<1>0. ids \in {Ids(h), <<>>} /\ told \in {<<>>} \cup Results(h) /\ Len(ids) = Len(told)
  BY DEF Paired
<1>1. h \in Nat /\ \A i \in DOMAIN blocks[h] : i \in Nat
  BY ChainTyped
<1> DEFINE Lacking(i) == IF i \in DOMAIN told THEN told[i].events = <<>> ELSE i \notin DOMAIN ids
<1>2. Withheld = {<<h, i>> : i \in {j \in DOMAIN blocks[h] : Lacking(j)}}
  BY DEF Withheld
<1> HIDE DEF ids, told
<1>3. \A i \in DOMAIN blocks[h] : i \notin DOMAIN told => i \notin DOMAIN ids
  <2> SUFFICES ASSUME NEW i \in DOMAIN blocks[h], i \notin DOMAIN told PROVE i \notin DOMAIN ids
    OBVIOUS
  <2>1. told = <<>>
    BY <1>0, ResultsTyped
  <2>2. Len(ids) = 0
    BY <1>0, <2>1
  <2>3. CASE ids = Ids(h)
    <3>1. ids \in Seq(Nat \X Nat)
      BY <2>3, IdsTyped
    <3> QED BY <2>2, <3>1
  <2>4. CASE ids = <<>>
    BY <2>4
  <2> QED BY <1>0, <2>3, <2>4
<1>4. \A i \in DOMAIN blocks[h] : Lacking(i) <=> ~(i \in DOMAIN told /\ told[i].events # <<>>)
  BY <1>3
<1> HIDE DEF Lacking
<1>5. \A i \in DOMAIN blocks[h] : <<h, i>> \in Withheld <=> Lacking(i)
  BY <1>2
<1>6. \A w \in Withheld : w \in Nat \X Nat /\ w[1] = h
  BY <1>1, <1>2
<1> QED BY <1>4, <1>5, <1>6 DEF told

(* What is made of a block and its results, when their counts agree.         *)
LEMMA BlockListed ==
  ASSUME blocks \in Chains, NEW h \in 1..Len(blocks), call.height = h,
         NEW ids \in {Ids(h), <<>>}, NEW told \in {<<>>} \cup Results(h), Len(ids) = Len(told),
         call.block = [height |-> h, txs |-> ids], call.results = [height |-> h, txs |-> told]
  PROVE  Lists(Decoded(call.block, call.results), h, h, Withheld)
<1>0. /\ Withheld \subseteq Nat \X Nat /\ \A w \in Withheld : w[1] = h
      /\ \A i \in DOMAIN blocks[h] :
           <<h, i>> \notin Withheld <=> i \in DOMAIN told /\ told[i].events # <<>>
  <2>1. call.block.txs = ids /\ call.results.txs = told /\ Paired(call.block, call.results)
    BY DEF Paired
  <2> QED BY <2>1, WithheldAre
<1> DEFINE txs == told
           part(i) == IF txs[i].ok THEN BurnRecords(ids[i], txs[i].events) ELSE <<>>
           ss == [i \in DOMAIN txs |-> part(i)]
           flat == DecodeBlock(ids, txs)
           s == [n \in DOMAIN flat |-> Placed(flat[n], h, h)]
<1>1. /\ txs \in Seq(Transactions) /\ h \in Nat
      /\ \A i \in DOMAIN txs : /\ txs[i].ok \in BOOLEAN /\ i \in Nat /\ txs[i].events \in Seq(Int)
                               /\ i \in DOMAIN blocks[h] /\ txs[i].ok = blocks[h][i].ok
                               /\ txs[i].events # <<>> => txs[i].events = blocks[h][i].events
  <2>1. /\ txs \in Seq(Transactions)
        /\ \A i \in DOMAIN txs : i \in DOMAIN blocks[h] /\ txs[i] \in Told(blocks[h][i])
    BY ResultsTyped
  <2>2. h \in Nat /\ \A i \in DOMAIN blocks[h] : i \in Nat /\ blocks[h][i] \in Transactions
    <3>1. blocks[h] \in Seq(Transactions) /\ h \in Nat
      BY ChainTyped
    <3> QED BY <3>1
  <2> QED BY <2>1, <2>2, ToldTyped
<1>2. \A i \in DOMAIN txs : ids[i] = <<h, i>>
  <2>1. CASE ids = Ids(h)
    BY <1>1, <2>1 DEF Ids
  <2>2. CASE ids = <<>>
    <3>1. DOMAIN txs = 1..0
      BY <1>1, <2>2
    <3> QED BY <3>1
  <2> QED BY <2>1, <2>2
<1>3. \A i \in DOMAIN blocks[h] : <<h, i>> \notin Withheld <=> i \in DOMAIN txs /\ txs[i].events # <<>>
  BY <1>0
<1> HIDE DEF txs
<1>4. ASSUME NEW i \in DOMAIN txs
      PROVE  /\ part(i) \in Seq(BurnRecord) /\ InOrder(part(i))
             /\ Range(part(i)) = {RecordOf(<<h, i>>, txs[i].events, k) :
                                    k \in {j \in BurnsIn(txs[i].events) : txs[i].ok}}
  <2>1. CASE txs[i].ok
    <3>1. <<h, i>> \in Nat \X Nat /\ txs[i].events \in Seq(Int)
      BY <1>1
    <3>2. part(i) = BurnRecords(<<h, i>>, txs[i].events)
      BY <1>2, <2>1
    <3> QED BY <2>1, <3>1, <3>2, BurnsListed
  <2>2. CASE ~txs[i].ok
    <3>1. part(i) = <<>>
      BY <2>2
    <3> QED BY <2>2, <3>1 DEF InOrder, Range
  <2> QED BY <2>1, <2>2
<1>5. ss \in Seq(Seq(BurnRecord)) /\ DOMAIN ss = DOMAIN txs /\ \A i \in DOMAIN txs : ss[i] = part(i)
  <2>1. DOMAIN txs = 1..Len(txs) /\ Len(txs) \in Nat
    BY <1>1
  <2>2. ss \in [1..Len(txs) -> Seq(BurnRecord)]
    <3> HIDE DEF part
    <3> QED BY <1>4, <2>1
  <2> HIDE DEF part
  <2> QED BY <2>1, <2>2
<1>6. flat = FlattenSeq(ss)
  BY DEF DecodeBlock
<1> HIDE DEF part, ss, flat
<1>7. ASSUME NEW i \in DOMAIN ss, NEW r \in Range(ss[i])
      PROVE  \E k \in BurnsIn(txs[i].events) :
               /\ txs[i].ok /\ r = RecordOf(<<h, i>>, txs[i].events, k) /\ Place(r) = <<h, i, k>>
  <2>0. r \in {RecordOf(<<h, i>>, txs[i].events, k) : k \in {j \in BurnsIn(txs[i].events) : txs[i].ok}}
    BY <1>4, <1>5
  <2>1. PICK k \in BurnsIn(txs[i].events) : txs[i].ok /\ r = RecordOf(<<h, i>>, txs[i].events, k)
    BY <2>0
  <2>2. Place(r) = <<h, i, k>>
    BY <2>1 DEF Place, RecordOf
  <2> QED BY <2>1, <2>2
<1>8. \A i, j \in DOMAIN ss : i < j => Precede(Range(ss[i]), Range(ss[j]))
  <2> SUFFICES ASSUME NEW i \in DOMAIN ss, NEW j \in DOMAIN ss, i < j,
                      NEW r \in Range(ss[i]), NEW q \in Range(ss[j])
               PROVE  Before(Place(r), Place(q))
    BY DEF Precede
  <2>1. PICK k : Place(r) = <<h, i, k>>
    BY <1>7
  <2>2. PICK l : Place(q) = <<h, j, l>>
    BY <1>7
  <2> QED BY <2>1, <2>2 DEF Before
<1>9. /\ flat \in Seq(BurnRecord) /\ InOrder(flat)
       /\ Range(flat) = UNION {Range(ss[i]) : i \in DOMAIN ss}
  <2>1. \A i \in DOMAIN ss : InOrder(ss[i])
    BY <1>4, <1>5
  <2> QED BY <1>5, <1>6, <1>8, <2>1, FlattenedInOrder
<1>10. s \in Seq(PlacedRecord) /\ DOMAIN s = DOMAIN flat
       /\ \A n \in DOMAIN flat : s[n] = Placed(flat[n], h, h) /\ Place(s[n]) = Place(flat[n])
  <2>1. DOMAIN flat = 1..Len(flat) /\ Len(flat) \in Nat /\ \A n \in DOMAIN flat : flat[n] \in BurnRecord
    BY <1>9
  <2>2. \A n \in DOMAIN flat : s[n] \in PlacedRecord
    BY <1>1, <2>1 DEF Placed, BurnRecord, PlacedRecord
  <2>3. s \in [1..Len(flat) -> PlacedRecord]
    BY <2>1, <2>2
  <2>4. \A n \in DOMAIN flat : s[n] = Placed(flat[n], h, h) /\ Place(s[n]) = Place(flat[n])
    BY DEF Placed, Place
  <2>5. DOMAIN s = DOMAIN flat
    OBVIOUS
  <2> HIDE DEF s
  <2> QED BY <2>1, <2>3, <2>4, <2>5
<1>11. Decoded(call.block, call.results) = s
  BY DEF Decoded, flat, txs
<1> HIDE DEF s
<1>12. InOrder(s)
  BY <1>9, <1>10 DEF InOrder
<1> DEFINE left == {x \in Burns(h) : <<x[1], x[2]>> \notin Withheld}
<1>13. Range(s) = {TrueRecord(x) : x \in left}
  <2>1. ASSUME NEW r \in Range(flat)
        PROVE  \E x \in left : Placed(r, h, h) = TrueRecord(x)
    <3>1. PICK i \in DOMAIN ss : r \in Range(ss[i])
      BY <1>9
    <3>2. PICK k \in BurnsIn(txs[i].events) : txs[i].ok /\ r = RecordOf(<<h, i>>, txs[i].events, k)
      BY <1>7, <3>1
    <3>3. i \in DOMAIN txs /\ txs[i].events # <<>>
      BY <1>5, <3>2 DEF BurnsIn
    <3>4. i \in DOMAIN blocks[h] /\ blocks[h][i].ok /\ txs[i].events = blocks[h][i].events
      BY <1>1, <3>2, <3>3
    <3> DEFINE x == <<h, i, k>>
    <3>5. x \in left
      <4>1. x \in Burns(h)
        BY <3>2, <3>4, BurnsOf
      <4>2. <<h, i>> \notin Withheld
        BY <1>3, <3>3, <3>4
      <4>3. x[1] = h /\ x[2] = i
        OBVIOUS
      <4> HIDE DEF x
      <4> QED BY <4>1, <4>2, <4>3
    <3>6. Placed(r, h, h) = TrueRecord(x)
      BY <3>2, <3>4 DEF Placed, RecordOf, TrueRecord
    <3> QED BY <3>5, <3>6
  <2>2. ASSUME NEW x \in left
        PROVE  \E r \in Range(flat) : Placed(r, h, h) = TrueRecord(x)
    <3>0. PICK i \in DOMAIN blocks[h] : \E k \in BurnsIn(blocks[h][i].events) :
            blocks[h][i].ok /\ x = <<h, i, k>>
      BY BurnsOf
    <3>1. PICK k \in BurnsIn(blocks[h][i].events) : blocks[h][i].ok /\ x = <<h, i, k>>
      BY <3>0
    <3>2. <<h, i>> \notin Withheld
      BY <3>1
    <3>3. i \in DOMAIN txs /\ txs[i].ok /\ txs[i].events = blocks[h][i].events
      BY <1>1, <1>3, <3>1, <3>2
    <3> DEFINE r == RecordOf(<<h, i>>, txs[i].events, k)
    <3>4. r \in Range(ss[i]) /\ i \in DOMAIN ss
      <4>1. k \in {j \in BurnsIn(txs[i].events) : txs[i].ok}
        BY <3>1, <3>3
      <4>2. Range(part(i)) = {RecordOf(<<h, i>>, txs[i].events, j) :
                                j \in {j \in BurnsIn(txs[i].events) : txs[i].ok}}
        BY <1>4, <3>3
      <4>3. r \in Range(part(i))
        BY <4>1, <4>2
      <4> QED BY <1>5, <3>3, <4>3
    <3>5. r \in Range(flat)
      <4> HIDE DEF r
      <4> QED BY <1>9, <3>4
    <3>6. Placed(r, h, h) = TrueRecord(x)
      BY <3>1, <3>3 DEF Placed, RecordOf, TrueRecord
    <3> QED BY <3>5, <3>6
  <2>3. Range(s) = {Placed(r, h, h) : r \in Range(flat)}
    BY <1>10 DEF Range
  <2> HIDE DEF left
  <2> QED BY <2>1, <2>2, <2>3
<1>14. \A g : g \in h..h <=> g = h
  BY <1>1
<1>15. Left(h, h, Withheld) = left
  <2>1. UNION {Burns(g) : g \in h..h} = Burns(h)
    BY <1>14
  <2> QED BY <2>1 DEF Left
<1>16. \A w \in Withheld : w[1] \in h..h
  BY <1>0, <1>14
<1> HIDE DEF left
<1> QED BY <1>10, <1>11, <1>12, <1>13, <1>15, <1>16 DEF Lists

(* One more block.                                                           *)
LEMMA ListExtended ==
  ASSUME blocks \in Chains, NEW from \in 1..Len(blocks), NEW h \in from..Len(blocks),
         NEW s, NEW t, NEW V, NEW W, Lists(s, from, h - 1, V), Lists(t, h, h, W)
  PROVE  Lists(s \o t, from, h, V \cup W)
<1>1. s \in Seq(PlacedRecord) /\ t \in Seq(PlacedRecord) /\ InOrder(s) /\ InOrder(t)
  BY DEF Lists
<1>2. \A g : g \in from..(h - 1) => g \in 1..Len(blocks) /\ g < h
  OBVIOUS
<1>3. h \in 1..Len(blocks) /\ \A g : g \in h..h <=> g = h
  OBVIOUS
<1>4. \A x : x \in Left(from, h - 1, V) <=>
               /\ \E g \in from..(h - 1) : x \in Burns(g) /\ x[1] = g
               /\ <<x[1], x[2]>> \notin V
  <2>1. \A g \in from..(h - 1) : \A x \in Burns(g) : x[1] = g
    BY <1>2, BurnTyped
  <2> QED BY <2>1 DEF Left
<1>5. \A x : x \in Left(h, h, W) <=> x \in Burns(h) /\ x[1] = h /\ <<x[1], x[2]>> \notin W
  <2>1. \A x \in Burns(h) : x[1] = h
    BY <1>3, BurnTyped
  <2> QED BY <1>3, <2>1 DEF Left
<1>6. Precede(Range(s), Range(t))
  <2> SUFFICES ASSUME NEW r \in Range(s), NEW q \in Range(t)
               PROVE  Before(Place(r), Place(q))
    BY DEF Precede
  <2>1. PICK x \in Left(from, h - 1, V) : r = TrueRecord(x)
    BY DEF Lists
  <2>2. PICK g \in from..(h - 1) : x \in Burns(g) /\ x[1] = g
    BY <1>4
  <2>3. PICK y \in Left(h, h, W) : q = TrueRecord(y)
    BY DEF Lists
  <2>4. Place(r) = x /\ x[1] = g
    BY <1>2, <2>1, <2>2, BurnTyped
  <2>5. Place(q) = y /\ y[1] = h
    BY <1>3, <1>5, <2>3, BurnTyped
  <2> QED BY <1>2, <2>4, <2>5 DEF Before
<1>7. InOrder(s \o t) /\ Range(s \o t) = Range(s) \cup Range(t) /\ s \o t \in Seq(PlacedRecord)
  BY <1>1, <1>6, JoinedInOrder
<1>8. \A g : g \in from..h <=> g \in from..(h - 1) \/ g = h
  BY <1>3
<1>9. Left(from, h, V \cup W) = Left(from, h - 1, V) \cup Left(h, h, W)
  <2>1. \A p \in V : p[1] # h
    BY <1>2 DEF Lists
  <2>2. \A p \in W : p[1] = h
    BY <1>3 DEF Lists
  <2>3. \A x : <<x[1], x[2]>> \in V => x[1] # h
    <3> SUFFICES ASSUME NEW x, <<x[1], x[2]>> \in V PROVE x[1] # h
      OBVIOUS
    <3>1. <<x[1], x[2]>>[1] # h
      BY <2>1
    <3> QED BY <3>1
  <2>4. \A x : <<x[1], x[2]>> \in W => x[1] = h
    <3> SUFFICES ASSUME NEW x, <<x[1], x[2]>> \in W PROVE x[1] = h
      OBVIOUS
    <3>1. <<x[1], x[2]>>[1] = h
      BY <2>2
    <3> QED BY <3>1
  <2>5. \A x : x \in Left(from, h, V \cup W) <=>
                 /\ \E g \in from..h : x \in Burns(g)
                 /\ <<x[1], x[2]>> \notin V /\ <<x[1], x[2]>> \notin W
    BY DEF Left
  <2>6. \A g \in from..h : \A x \in Burns(g) : x[1] = g
    BY <1>2, <1>3, <1>8, BurnTyped
  <2>7. ASSUME NEW x \in Left(from, h, V \cup W)
        PROVE  x \in Left(from, h - 1, V) \cup Left(h, h, W)
    <3>1. PICK g \in from..h : x \in Burns(g)
      BY <2>5
    <3>2. x[1] = g /\ <<x[1], x[2]>> \notin V /\ <<x[1], x[2]>> \notin W
      BY <2>5, <2>6, <3>1
    <3>3. CASE g = h
      BY <1>5, <3>1, <3>2, <3>3
    <3>4. CASE g # h
      BY <1>4, <1>8, <3>1, <3>2, <3>4
    <3> QED BY <3>3, <3>4
  <2>8. ASSUME NEW x \in Left(from, h - 1, V)
        PROVE  x \in Left(from, h, V \cup W)
    <3>1. PICK g \in from..(h - 1) : x \in Burns(g) /\ x[1] = g
      BY <1>4
    <3>2. <<x[1], x[2]>> \notin V /\ g # h
      BY <1>2, <1>4
    <3>3. <<x[1], x[2]>> \notin W
      BY <2>4, <3>1, <3>2
    <3> QED BY <1>8, <2>5, <3>1, <3>2, <3>3
  <2>9. ASSUME NEW x \in Left(h, h, W)
        PROVE  x \in Left(from, h, V \cup W)
    <3>1. x \in Burns(h) /\ x[1] = h /\ <<x[1], x[2]>> \notin W
      BY <1>5
    <3>2. <<x[1], x[2]>> \notin V
      BY <2>3, <3>1
    <3> QED BY <1>8, <2>5, <3>1, <3>2
  <2> QED BY <2>7, <2>8, <2>9
<1>10. \A w \in V \cup W : w[1] \in from..h
  BY <1>3, <1>8 DEF Lists
<1>11. Range(s \o t) = {TrueRecord(x) : x \in Left(from, h, V \cup W)}
  <2>1. Range(s) = {TrueRecord(x) : x \in Left(from, h - 1, V)}
        /\ Range(t) = {TrueRecord(x) : x \in Left(h, h, W)}
    BY DEF Lists
  <2> QED BY <1>7, <1>9, <2>1
<1> QED BY <1>7, <1>10, <1>11 DEF Lists
-------------------------------------------------------------------------------
(* The invariant of the client.                                              *)

\* The records of the batch so far, and the answers for the height in work.
BatchInv ==
  /\ call.op = "batch" =>
       /\ call.from \in 1..Len(blocks) /\ call.to \in 1..Len(blocks)
       /\ call.height \in call.from..call.to
       /\ call.block \in {Missing, [height |-> call.height, txs |-> Ids(call.height)],
                          [height |-> call.height, txs |-> <<>>]}
       /\ \/ call.results = Missing
          \/ \E told \in {<<>>} \cup Results(call.height) :
               call.results = [height |-> call.height, txs |-> told]
       /\ Lists(call.records, call.from, call.height - 1, call.withheld)
  /\ call.op = "batched" =>
       /\ call.from \in 1..Len(blocks) /\ call.to \in 1..Len(blocks)
       /\ Lists(call.records, call.from, call.to, call.withheld)

\* A record that is looked for is one the chain has, and its transaction's result
\* is the chain's or lacks its events.
FindInv ==
  /\ call.op = "find" =>
       /\ \E h \in 1..Len(blocks) : \E x \in Burns(h) : call.sought = TrueRecord(x)
       /\ \/ call.height = 0
          \/ /\ call.height = call.sought.tx[1]
             /\ \E t \in Told(blocks[call.sought.tx[1]][call.sought.tx[2]]) :
                  call.results = [height |-> call.height, txs |-> <<t>>]
  /\ RefoundAsRead

CometInv == CometTypeOK /\ BatchInv /\ FindInv

(* Only Init chooses the chain, so what is said of it stays said.            *)
LEMMA BlocksKept ==
  ASSUME blocks' = blocks
  PROVE  /\ \A h : Burns(h)' = Burns(h) /\ Ids(h)' = Ids(h) /\ Results(h)' = Results(h)
         /\ \A x : TrueRecord(x)' = TrueRecord(x)
         /\ \A s, from, to, W : Lists(s, from, to, W)' <=> Lists(s, from, to, W)
<1>1. ASSUME NEW h PROVE Burns(h)' = Burns(h) /\ Ids(h)' = Ids(h) /\ Results(h)' = Results(h)
  BY DEF Burns, Ids, Results
<1>2. ASSUME NEW x PROVE TrueRecord(x)' = TrueRecord(x)
  BY DEF TrueRecord
<1>3. ASSUME NEW from, NEW to, NEW W PROVE Left(from, to, W)' = Left(from, to, W)
  BY <1>1 DEF Left
<1>4. ASSUME NEW s, NEW from, NEW to, NEW W PROVE Lists(s, from, to, W)' <=> Lists(s, from, to, W)
  BY <1>2, <1>3 DEF Lists
<1> QED BY <1>1, <1>2, <1>4

\* A step that ends the call, or leaves it alone.
LEMMA CallEnds ==
  ASSUME CometInv, blocks' = blocks, tip' \in 0..Len(blocks), indexed' \in 0..tip',
         call' \in {call, Idle, [Idle EXCEPT !.op = "rejected"]}
  PROVE  CometInv'
<1>1. CASE call' = call
  <2>1. CometTypeOK'
    BY <1>1 DEF CometInv, CometTypeOK
  <2>2. BatchInv'
    BY <1>1, BlocksKept DEF CometInv, BatchInv
  <2>3. FindInv'
    <3>1. RefoundAsRead'
      BY <1>1 DEF CometInv, FindInv, RefoundAsRead
    <3>2. CASE call.op = "find"
      <4>1. \E h \in 1..Len(blocks') : \E x \in Burns(h)' : call'.sought = TrueRecord(x)'
        BY <1>1, <3>2, BlocksKept DEF CometInv, FindInv
      <4>2. \/ call'.height = 0
            \/ /\ call'.height = call'.sought.tx[1]
               /\ \E t \in Told(blocks'[call'.sought.tx[1]][call'.sought.tx[2]]) :
                    call'.results = [height |-> call'.height, txs |-> <<t>>]
        BY <1>1, <3>2 DEF CometInv, FindInv
      <4> QED BY <3>1, <4>1, <4>2 DEF FindInv, Told
    <3>3. CASE call.op # "find"
      BY <1>1, <3>1, <3>3 DEF FindInv
    <3> QED BY <3>2, <3>3
  <2> QED BY <2>1, <2>2, <2>3 DEF CometInv
<1>2. CASE call' \in {Idle, [Idle EXCEPT !.op = "rejected"]}
  <2>1. CometTypeOK'
    <3>1. <<>> \in Seq(PlacedRecord) /\ 0 \in Nat
      OBVIOUS
    <3>2. PICK op \in {"idle", "rejected"} :
            call' = [op |-> op, from |-> 0, height |-> 0, to |-> 0, block |-> Missing,
                     results |-> Missing, records |-> <<>>, withheld |-> {}, sought |-> Missing, found |-> Missing]
      <4>1. CASE call' = Idle
        BY <4>1 DEF Idle
      <4>2. CASE call' = [Idle EXCEPT !.op = "rejected"]
        BY <4>2 DEF Idle
      <4> QED BY <1>2, <4>1, <4>2
    <3>3. blocks' \in Chains /\ tip' \in 0..Len(blocks') /\ indexed' \in 0..tip'
      BY DEF CometInv, CometTypeOK
    <3> QED BY <3>1, <3>2, <3>3 DEF CometTypeOK
  <2>2. call'.op \in {"idle", "rejected"}
    BY <1>2 DEF Idle
  <2>3. BatchInv' /\ FindInv'
    BY <2>2 DEF BatchInv, FindInv, RefoundAsRead
  <2> QED BY <2>1, <2>3 DEF CometInv
<1> QED BY <1>1, <1>2

(* The node goes on, and the call does not see it.                           *)
LEMMA CommitStep ==
  ASSUME CometInv, Commit \/ Index
  PROVE  CometInv'
<1>1. blocks' = blocks /\ call' = call /\ tip' \in 0..Len(blocks) /\ indexed' \in 0..tip'
  <2>1. tip \in 0..Len(blocks) /\ indexed \in 0..tip /\ Len(blocks) \in Nat
    BY CometAssumption DEF CometInv, CometTypeOK, CometAssumption
  <2> QED BY <2>1 DEF Commit, Index
<1> QED BY <1>1, CallEnds

(* A batch starts with nothing, which is every burn of no height.            *)
LEMMA BatchStarts ==
  ASSUME CometInv, NEW from \in 1..Len(blocks), NEW to \in 1..Len(blocks), OutboundTransfers(from, to)
  PROVE  CometInv'
<1>1. /\ blocks' = blocks /\ tip' = tip /\ indexed' = indexed /\ from <= to
      /\ call' = [op |-> "batch", from |-> from, height |-> from, to |-> to, block |-> Missing,
                  results |-> Missing, records |-> <<>>, withheld |-> {}, sought |-> Missing, found |-> Missing]
  BY DEF OutboundTransfers, Idle
<1>2. from \in Nat /\ to \in Nat /\ from \in from..to /\ <<>> \in Seq(PlacedRecord)
  BY <1>1
<1>3. CometTypeOK'
  BY <1>1, <1>2 DEF CometInv, CometTypeOK
<1>4. Lists(<<>>, from, from - 1, {})
  <2>1. from..(from - 1) = {} /\ Range(<<>>) = {}
    BY <1>2 DEF Range
  <2>2. Left(from, from - 1, {}) = {}
    BY <2>1 DEF Left
  <2> QED BY <1>2, <2>1, <2>2 DEF Lists, InOrder
<1>5. BatchInv'
  BY <1>1, <1>2, <1>4, BlocksKept DEF BatchInv
<1>6. FindInv'
  BY <1>1 DEF FindInv, RefoundAsRead
<1> QED BY <1>3, <1>5, <1>6 DEF CometInv

(* A block that is kept is the one of the height in work, or lacks its list. *)
LEMMA BlockStep ==
  ASSUME CometInv, Block
  PROVE  CometInv'
<1>1. CASE Reject
  BY <1>1, CallEnds DEF Block, Reject, CometInv, CometTypeOK
<1>2. CASE ~Reject
  <2>1. /\ blocks' = blocks /\ tip' = tip /\ indexed' = indexed /\ call.op = "batch"
        /\ \E a \in BlockAnswers : a # Missing /\ a.height = call.height /\ call' = [call EXCEPT !.block = a]
    BY <1>2 DEF Block
  <2>2. PICK a \in BlockAnswers : a # Missing /\ a.height = call.height /\ call' = [call EXCEPT !.block = a]
    BY <2>1
  <2>3. PICK h \in 1..tip : a \in {[height |-> h, txs |-> Ids(h)], [height |-> h, txs |-> <<>>]}
    BY <2>2 DEF BlockAnswers
  <2>4. h = call.height /\ h \in 1..Len(blocks) /\ h \in Nat
    <3>1. tip \in 0..Len(blocks) /\ Len(blocks) \in Nat
      BY CometAssumption DEF CometInv, CometTypeOK, CometAssumption
    <3> QED BY <2>2, <2>3, <3>1
  <2>5. a \in BlockAnswer
    <3>1. Ids(h) \in Seq(Nat \X Nat) /\ <<>> \in Seq(Nat \X Nat)
      BY <2>4, IdsTyped DEF CometInv, CometTypeOK
    <3>2. PICK ids \in {Ids(h), <<>>} : a = [height |-> h, txs |-> ids]
      BY <2>3
    <3>3. ids \in Seq(Nat \X Nat)
      BY <3>1
    <3> QED BY <2>4, <3>2, <3>3 DEF BlockAnswer
  <2>6. CometTypeOK'
    BY <2>1, <2>2, <2>5 DEF CometInv, CometTypeOK
  <2>7. /\ call'.op = "batch" /\ call'.from = call.from /\ call'.to = call.to /\ call'.height = call.height
        /\ call'.block = a /\ call'.results = call.results /\ call'.records = call.records
        /\ call'.withheld = call.withheld
    BY <2>1, <2>2 DEF CometInv, CometTypeOK
  <2>8. BatchInv'
    BY <2>1, <2>3, <2>4, <2>7, BlocksKept DEF CometInv, BatchInv
  <2>9. FindInv'
    BY <2>7 DEF FindInv, RefoundAsRead
  <2> QED BY <2>6, <2>8, <2>9 DEF CometInv
<1> QED BY <1>1, <1>2

(* Results that are kept are those of the height in work, as they are told.  *)
LEMMA ResultsStep ==
  ASSUME CometInv, BlockResults
  PROVE  CometInv'
<1>1. CASE Reject
  BY <1>1, CallEnds DEF BlockResults, Reject, CometInv, CometTypeOK
<1>2. CASE ~Reject
  <2>1. /\ blocks' = blocks /\ tip' = tip /\ indexed' = indexed /\ call.op = "batch"
        /\ \E a \in ResultsAnswers : a # Missing /\ a.height = call.height /\ call' = [call EXCEPT !.results = a]
    BY <1>2 DEF BlockResults
  <2>2. PICK a \in ResultsAnswers : a # Missing /\ a.height = call.height /\ call' = [call EXCEPT !.results = a]
    BY <2>1
  <2>3. PICK h \in 1..indexed : \E told \in {<<>>} \cup Results(h) : a = [height |-> h, txs |-> told]
    BY <2>2 DEF ResultsAnswers
  <2>4. h = call.height /\ h \in 1..Len(blocks) /\ h \in Nat
    <3>1. tip \in 0..Len(blocks) /\ indexed \in 0..tip /\ Len(blocks) \in Nat
      BY CometAssumption DEF CometInv, CometTypeOK, CometAssumption
    <3> QED BY <2>2, <2>3, <3>1
  <2>5. a \in ResultsAnswer
    <3>1. PICK told \in {<<>>} \cup Results(h) : a = [height |-> h, txs |-> told]
      BY <2>3
    <3>2. told \in Seq(Transactions)
      BY <2>4, ResultsTyped DEF CometInv, CometTypeOK
    <3> QED BY <2>4, <3>1, <3>2 DEF ResultsAnswer
  <2>6. CometTypeOK'
    BY <2>1, <2>2, <2>5 DEF CometInv, CometTypeOK
  <2>7. /\ call'.op = "batch" /\ call'.from = call.from /\ call'.to = call.to /\ call'.height = call.height
        /\ call'.block = call.block /\ call'.results = a /\ call'.records = call.records
        /\ call'.withheld = call.withheld
    BY <2>1, <2>2 DEF CometInv, CometTypeOK
  <2>8. BatchInv'
    BY <2>1, <2>3, <2>4, <2>7, BlocksKept DEF CometInv, BatchInv
  <2>9. FindInv'
    BY <2>7 DEF FindInv, RefoundAsRead
  <2> QED BY <2>6, <2>8, <2>9 DEF CometInv
<1> QED BY <1>1, <1>2

(* The counts agree only if both lists are there or neither is, and then all *)
(* burns of the block are added whose events are told.                       *)
LEMMA HeightStep ==
  ASSUME CometInv, NextHeight
  PROVE  CometInv'
<1> DEFINE h == call.height
           records == call.records \o Decoded(call.block, call.results)
           without == call.withheld \cup Withheld
<1>1. CASE Reject
  BY <1>1, CallEnds DEF NextHeight, Reject, CometInv, CometTypeOK
<1>2. CASE ~Reject
  <2>1. /\ blocks' = blocks /\ tip' = tip /\ indexed' = indexed /\ call.op = "batch"
        /\ call.block # Missing /\ call.results # Missing /\ Paired(call.block, call.results)
        /\ call' = IF h = call.to
                   THEN [call EXCEPT !.op = "batched", !.block = Missing, !.results = Missing,
                           !.records = records, !.withheld = without]
                   ELSE [call EXCEPT !.height = @ + 1, !.block = Missing, !.results = Missing,
                           !.records = records, !.withheld = without]
    BY <1>2 DEF NextHeight
  <2>2. /\ call.from \in 1..Len(blocks) /\ call.to \in 1..Len(blocks) /\ h \in call.from..call.to
        /\ call.block \in {[height |-> h, txs |-> Ids(h)], [height |-> h, txs |-> <<>>]}
        /\ \E told \in {<<>>} \cup Results(h) : call.results = [height |-> h, txs |-> told]
        /\ Lists(call.records, call.from, h - 1, call.withheld)
    BY <2>1 DEF CometInv, BatchInv
  <2>3. Len(blocks) \in Nat /\ h \in 1..Len(blocks) /\ h \in call.from..Len(blocks) /\ blocks \in Chains
    <3>1. Len(blocks) \in Nat
      BY CometAssumption DEF CometInv, CometTypeOK, CometAssumption
    <3> QED BY <2>2, <3>1 DEF CometInv, CometTypeOK
  <2>4. PICK ids \in {Ids(h), <<>>} : call.block = [height |-> h, txs |-> ids]
    BY <2>2
  <2>5. PICK told \in {<<>>} \cup Results(h) : call.results = [height |-> h, txs |-> told]
    BY <2>2
  <2>6. Lists(Decoded(call.block, call.results), h, h, Withheld) /\ Withheld \subseteq Nat \X Nat
    <3>1. Len(ids) = Len(told)
      BY <2>1, <2>4, <2>5 DEF Paired
    <3>2. call.block.txs = ids /\ call.results.txs = told
      BY <2>4, <2>5
    <3>3. Withheld \subseteq Nat \X Nat
      BY <2>1, <2>3, <3>2, WithheldAre
    <3>4. Lists(Decoded(call.block, call.results), h, h, Withheld)
      BY <2>3, <2>4, <2>5, <3>1, BlockListed
    <3> QED BY <3>3, <3>4
  <2> HIDE DEF h
  <2>7. Lists(records, call.from, h, without)
    <3> DEFINE t == Decoded(call.block, call.results)
    <3> HIDE DEF t
    <3>1. Lists(call.records \o t, call.from, h, without)
      BY <2>2, <2>3, <2>6, ListExtended DEF t
    <3> QED BY <3>1 DEF t
  <2>8. /\ records \in Seq(PlacedRecord) /\ h \in Nat /\ h + 1 \in Nat
        /\ without \in SUBSET (Nat \X Nat)
    <3>1. records \in Seq(PlacedRecord) /\ h \in Nat /\ h + 1 \in Nat
      BY <2>3, <2>7 DEF Lists
    <3>2. call.withheld \in SUBSET (Nat \X Nat)
      BY DEF CometInv, CometTypeOK
    <3> QED BY <2>6, <3>1, <3>2
  <2> HIDE DEF records, without
  <2>9. CASE h = call.to
    <3>1. call' = [call EXCEPT !.op = "batched", !.block = Missing, !.results = Missing,
                     !.records = records, !.withheld = without]
      BY <2>1, <2>9
    <3>2. CometTypeOK'
      <4>1. UNCHANGED <<blocks, tip, indexed>>
        BY <2>1
      <4> QED BY ONLY CometInv, <2>8, <3>1, <4>1 DEF CometInv, CometTypeOK
    <3>3. /\ call'.op = "batched" /\ call'.from = call.from /\ call'.to = call.to
          /\ call'.records = records /\ call'.withheld = without
      BY <3>1 DEF CometInv, CometTypeOK
    <3>4. BatchInv'
      BY <2>1, <2>2, <2>7, <2>9, <3>3, BlocksKept DEF BatchInv
    <3>5. FindInv'
      BY <3>3 DEF FindInv, RefoundAsRead
    <3> QED BY <3>2, <3>4, <3>5 DEF CometInv
  <2>10. CASE h # call.to
    <3>1. call' = [call EXCEPT !.height = h + 1, !.block = Missing, !.results = Missing,
                     !.records = records, !.withheld = without]
      BY <2>1, <2>10 DEF h
    <3>2. CometTypeOK'
      <4>1. UNCHANGED <<blocks, tip, indexed>>
        BY <2>1
      <4> QED BY ONLY CometInv, <2>8, <3>1, <4>1 DEF CometInv, CometTypeOK
    <3>3. /\ call'.op = "batch" /\ call'.from = call.from /\ call'.to = call.to
          /\ call'.height = h + 1 /\ call'.block = Missing /\ call'.results = Missing
          /\ call'.records = records /\ call'.withheld = without
      BY <2>1, <3>1 DEF CometInv, CometTypeOK
    <3>4. h + 1 \in call.from..call.to /\ (h + 1) - 1 = h
      BY <2>2, <2>3, <2>10
    <3>5. BatchInv'
      BY <2>1, <2>2, <2>7, <3>3, <3>4, BlocksKept DEF BatchInv
    <3>6. FindInv'
      BY <3>3 DEF FindInv, RefoundAsRead
    <3> QED BY <3>2, <3>5, <3>6 DEF CometInv
  <2> QED BY <2>9, <2>10
<1> QED BY <1>1, <1>2

(* A record of a batch is a record of the chain.                             *)
LEMMA FindStarts ==
  ASSUME CometInv, NEW n \in DOMAIN call.records, OutboundTransfer(n)
  PROVE  CometInv'
<1> DEFINE r == call.records[n]
<1>1. /\ blocks' = blocks /\ tip' = tip /\ indexed' = indexed /\ call.op = "batched"
      /\ call' = [op |-> "find", from |-> 0, height |-> 0, to |-> 0, block |-> Missing,
                  results |-> Missing, records |-> <<>>, withheld |-> {}, sought |-> r, found |-> Missing]
  BY DEF OutboundTransfer, Idle
<1>2. r \in PlacedRecord /\ \E h \in 1..Len(blocks) : \E x \in Burns(h) : r = TrueRecord(x)
  <2>1. /\ call.from \in 1..Len(blocks) /\ call.to \in 1..Len(blocks)
        /\ Lists(call.records, call.from, call.to, call.withheld)
    BY <1>1 DEF CometInv, BatchInv
  <2>2. r \in Range(call.records) /\ r \in PlacedRecord
    BY <2>1 DEF Range, Lists
  <2> HIDE DEF r
  <2>3. PICK h \in call.from..call.to : \E x \in Burns(h) : r = TrueRecord(x)
    BY <2>1, <2>2 DEF Lists, Left
  <2>4. h \in 1..Len(blocks)
    BY <2>1
  <2> QED BY <2>2, <2>3, <2>4
<1> HIDE DEF r
<1>3. CometTypeOK'
  <2>1. <<>> \in Seq(PlacedRecord) /\ 0 \in Nat
    OBVIOUS
  <2> QED BY <1>1, <1>2, <2>1 DEF CometInv, CometTypeOK
<1>4. BatchInv'
  BY <1>1 DEF BatchInv
<1>5. FindInv'
  BY <1>1, <1>2, BlocksKept DEF FindInv, RefoundAsRead
<1> QED BY <1>3, <1>4, <1>5 DEF CometInv

(* The transaction's own height is that of its record, and what is told of   *)
(* its result is kept.                                                       *)
LEMMA TxStep ==
  ASSUME CometInv, Tx
  PROVE  CometInv'
<1>1. CASE Reject
  BY <1>1, CallEnds DEF Tx, Reject, CometInv, CometTypeOK
<1>2. CASE ~Reject
  <2>1. blocks' = blocks /\ tip' = tip /\ indexed' = indexed /\ call.op = "find"
    BY DEF Tx
  <2>2. PICK h \in 1..Len(blocks) : \E x \in Burns(h) : call.sought = TrueRecord(x)
    BY <2>1 DEF CometInv, FindInv
  <2>3. PICK x \in Burns(h) : call.sought = TrueRecord(x)
    BY <2>2
  <2> DEFINE result == blocks[h][x[2]]
  <2>4. /\ call.sought.tx = <<h, x[2]>> /\ call.sought.tx[1] = h /\ call.sought.tx[2] = x[2]
        /\ h \in Nat /\ result \in Transactions
    <3>1. x[1] = h /\ x[1] \in Nat /\ x[2] \in DOMAIN blocks[h]
      BY BurnTyped DEF CometInv, CometTypeOK
    <3>2. blocks[h] \in Seq(Transactions)
      BY ChainTyped DEF CometInv, CometTypeOK
    <3> QED BY <2>3, <3>1, <3>2 DEF TrueRecord
  <2>5. PICK t \in Told(result) :
          call' = [call EXCEPT !.height = h, !.results = [height |-> h, txs |-> <<t>>]]
    <3>1. PICK a \in TxAnswers(call.sought.tx) :
            a # Missing /\ call' = [call EXCEPT !.height = a.height, !.results = a]
      BY <1>2 DEF Tx
    <3>2. PICK t \in Told(result) : a = [height |-> h, txs |-> <<t>>]
      BY <2>4, <3>1 DEF TxAnswers
    <3> QED BY <3>1, <3>2
  <2> HIDE DEF result
  <2>6. [height |-> h, txs |-> <<t>>] \in ResultsAnswer
    <3>1. <<t>> \in Seq(Transactions)
      BY <2>4, ToldTyped
    <3> QED BY <2>4, <3>1 DEF ResultsAnswer
  <2>7. CometTypeOK'
    BY <2>1, <2>4, <2>5, <2>6 DEF CometInv, CometTypeOK
  <2>8. /\ call'.op = "find" /\ call'.height = h /\ call'.sought = call.sought
        /\ call'.results = [height |-> h, txs |-> <<t>>]
    BY <2>1, <2>5 DEF CometInv, CometTypeOK
  <2>9. BatchInv'
    BY <2>8 DEF BatchInv
  <2>10. FindInv'
    <3>1. \E g \in 1..Len(blocks') : \E y \in Burns(g)' : call'.sought = TrueRecord(y)'
      BY <2>1, <2>2, <2>8, BlocksKept
    <3>2. t \in Told(blocks'[call'.sought.tx[1]][call'.sought.tx[2]])
      BY <2>1, <2>4, <2>8 DEF result
    <3>3. call'.height = call'.sought.tx[1]
      BY <2>4, <2>8
    <3>4. RefoundAsRead'
      BY <2>8 DEF RefoundAsRead
    <3> QED BY <2>8, <3>1, <3>2, <3>3, <3>4 DEF FindInv, Told
  <2> QED BY <2>7, <2>9, <2>10 DEF CometInv
<1> QED BY <1>1, <1>2

\* FirstWith is the first of its kind.
LEMMA FirstFound ==
  ASSUME NEW T, NEW s \in Seq(T), NEW n \in DOMAIN s, NEW index, s[n].index = index
  PROVE  \E m \in DOMAIN s : m <= n /\ FirstWith(s, index) = s[m] /\ s[m].index = index
<1> DEFINE S == {m \in DOMAIN s : s[m].index = index}
           Leads(m) == s[m].index = index /\ \A l \in DOMAIN s : l < m => s[l].index # index
<1>1. DOMAIN s \subseteq Nat
  OBVIOUS
<1>2. PICK m \in S : \A x \in S : m <= x
  <2>1. S \in SUBSET Nat /\ n \in S
    BY <1>1
  <2> HIDE DEF S
  <2> QED BY <2>1, LeastNatural
<1>3. m \in DOMAIN s /\ Leads(m)
  <2>1. ASSUME NEW l \in DOMAIN s, l < m, s[l].index = index PROVE FALSE
    <3>1. l \in S
      BY <2>1
    <3> QED BY <1>1, <1>2, <2>1, <3>1
  <2> QED BY <1>2, <2>1
<1> DEFINE c == CHOOSE l \in DOMAIN s : Leads(l)
<1>4. c \in DOMAIN s /\ Leads(c)
  <2> HIDE DEF Leads
  <2> QED BY <1>3
<1>5. FirstWith(s, index) = s[c]
  BY <1>3 DEF FirstWith
<1> HIDE DEF c
<1>6. c <= n
  BY <1>1, <1>4
<1> QED BY <1>4, <1>5, <1>6

(* The second decoder gives the burn the number it had, and an earlier one   *)
(* of the transaction only if that has the same; without events it has none. *)
LEMMA FindStep ==
  ASSUME CometInv, Find
  PROVE  CometInv'
<1>1. CASE Reject
  BY <1>1, CallEnds DEF Find, Reject, CometInv, CometTypeOK
<1>2. CASE ~Reject
  <2> DEFINE id == call.sought.tx
             t  == call.results.txs[1]
             s  == DecodeTransaction(id, t)
             r  == FirstWith(s, call.sought.index)
  <2>1. /\ blocks' = blocks /\ tip' = tip /\ indexed' = indexed
        /\ call.op = "find" /\ call.height # 0
        /\ call' = [call EXCEPT !.op = "found",
                      !.found = IF r = Missing THEN Missing ELSE Placed(r, call.height, call.height)]
    BY <1>2 DEF Find
  <2>2. PICK h \in 1..Len(blocks) : \E x \in Burns(h) : call.sought = TrueRecord(x)
    BY <2>1 DEF CometInv, FindInv
  <2>3. PICK x \in Burns(h) : call.sought = TrueRecord(x)
    BY <2>2
  <2> DEFINE i == x[2]
             k == x[3]
             events == blocks[h][i].events
  <2>4. /\ x[1] = h /\ i \in DOMAIN blocks[h] /\ blocks[h][i].ok /\ k \in BurnsIn(events)
        /\ h \in Nat /\ i \in Nat /\ k \in Nat /\ TrueRecord(x) \in PlacedRecord
    BY BurnTyped DEF CometInv, CometTypeOK
  <2>5. events \in Seq(Int)
    BY <2>4, ChainTyped DEF CometInv, CometTypeOK
  <2>6. /\ id = <<h, i>> /\ call.sought.index = Number(events, k)
        /\ call.sought = [tx |-> <<h, i>>, event |-> k, index |-> Number(events, k), height |-> h, hash |-> h]
    BY <2>3, <2>4 DEF TrueRecord
  <2>7. call.height = h /\ t.ok /\ t.events \in Seq(Int) /\ (t.events # <<>> => t.events = events)
    <3>1. call.height = id[1]
          /\ \E u \in Told(blocks[id[1]][id[2]]) : call.results = [height |-> call.height, txs |-> <<u>>]
      BY <2>1 DEF CometInv, FindInv
    <3>2. t \in Told(blocks[h][i]) /\ call.height = h
      BY <2>6, <3>1
    <3>3. blocks[h][i] \in Transactions
      <4>1. blocks[h] \in Seq(Transactions)
        BY ChainTyped DEF CometInv, CometTypeOK
      <4> QED BY <2>4, <4>1
    <3> HIDE DEF t
    <3> QED BY <2>4, <3>2, <3>3, ToldTyped
  <2>8. s = BurnRecords(<<h, i>>, t.events)
    BY <2>4, <2>6, <2>7 DEF DecodeTransaction
  <2>9. s \in Seq(BurnRecord) /\ Range(s) = {RecordOf(<<h, i>>, t.events, l) : l \in BurnsIn(t.events)}
        /\ InOrder(s)
    <3>1. <<h, i>> \in Nat \X Nat
      BY <2>4
    <3> HIDE DEF t, s
    <3> QED BY <2>7, <2>8, <3>1, BurnsListed
  <2>10. CASE t.events = <<>>
    <3>1. DOMAIN s = {}
      <4>1. BurnsIn(t.events) = {}
        BY <2>10 DEF BurnsIn
      <4> HIDE DEF t, s
      <4> QED BY <2>9, <4>1 DEF Range
    <3>2. r = Missing
      <4> HIDE DEF s
      <4> QED BY <3>1 DEF FirstWith
    <3>3. call' = [call EXCEPT !.op = "found", !.found = Missing]
      <4> HIDE DEF r
      <4> QED BY <2>1, <3>2
    <3>4. CometTypeOK'
      BY <2>1, <3>3 DEF CometInv, CometTypeOK
    <3>5. call'.op = "found" /\ call'.found = Missing /\ call'.results = call.results
      BY <3>3 DEF CometInv, CometTypeOK
    <3>6. BatchInv' /\ FindInv'
      BY <2>10, <3>5 DEF BatchInv, FindInv, RefoundAsRead
    <3> QED BY <3>4, <3>6 DEF CometInv
  <2>11. CASE t.events # <<>>
    <3> HIDE DEF t, s, i, k, events
    <3>1. Range(s) = {RecordOf(<<h, i>>, events, l) : l \in BurnsIn(events)}
      BY <2>7, <2>9, <2>11
    <3>2. PICK n \in DOMAIN s : s[n] = RecordOf(<<h, i>>, events, k)
      <4>1. RecordOf(<<h, i>>, events, k) \in Range(s)
        BY <2>4, <3>1
      <4> QED BY <4>1 DEF Range
    <3>3. PICK m \in DOMAIN s : m <= n /\ r = s[m] /\ s[m].index = call.sought.index
      <4>1. s[n].index = call.sought.index
        BY <2>6, <3>2 DEF RecordOf
      <4> QED BY <2>9, <4>1, FirstFound
    <3>4. r \in BurnRecord /\ r # Missing
      BY <2>9, <3>3, CometAssumption DEF CometAssumption
    <3>5. PICK l \in BurnsIn(events) : r = RecordOf(<<h, i>>, events, l)
      <4>1. r \in Range(s)
        BY <3>3 DEF Range
      <4> QED BY <3>1, <4>1
    <3>6. l = k \/ l < k
      <4>1. CASE m = n
        <5>1. RecordOf(<<h, i>>, events, l) = RecordOf(<<h, i>>, events, k)
          <6> HIDE DEF r
          <6> QED BY <3>2, <3>3, <3>5, <4>1
        <5>2. RecordOf(<<h, i>>, events, l).event = l /\ RecordOf(<<h, i>>, events, k).event = k
          BY DEF RecordOf
        <5> QED BY <5>1, <5>2
      <4>2. CASE m # n
        <5>1. m < n
          BY <2>9, <3>3, <4>2
        <5>2. Before(Place(s[m]), Place(s[n]))
          BY <2>9, <5>1 DEF InOrder
        <5>3. Place(s[m]) = <<h, i, l>> /\ Place(s[n]) = <<h, i, k>>
          BY <3>2, <3>3, <3>5 DEF Place, RecordOf
        <5> QED BY <2>4, <5>2, <5>3 DEF Before
      <4> QED BY <4>1, <4>2
    <3> HIDE DEF r
    <3> DEFINE found == Placed(r, h, h)
    <3>7. /\ found = [tx |-> <<h, i>>, event |-> l, index |-> r.index, height |-> h, hash |-> h]
          /\ r.index = call.sought.index
      BY <3>3, <3>5 DEF Placed, RecordOf
    <3>8. found \in PlacedRecord /\ found # Missing
      <4>1. found \in PlacedRecord
        BY <2>4, <3>4 DEF Placed, PlacedRecord, BurnRecord
      <4> QED BY <4>1, CometAssumption DEF CometAssumption
    <3>9. call' = [call EXCEPT !.op = "found", !.found = found]
      BY <2>1, <2>7, <3>4
    <3>10. found # call.sought => found.event < call.sought.event
      <4>1. l = k => found = call.sought
        BY <2>6, <3>7
      <4>2. found.event = l /\ call.sought.event = k
        BY <2>6, <3>7
      <4> QED BY <3>6, <4>1, <4>2
    <3>11. found.index = call.sought.index /\ found.tx = call.sought.tx
      BY <2>6, <3>7
    <3> HIDE DEF found
    <3>12. CometTypeOK'
      BY <2>1, <3>8, <3>9 DEF CometInv, CometTypeOK
    <3>13. /\ call'.op = "found" /\ call'.found = found /\ call'.sought = call.sought
           /\ call'.results = call.results
      BY <3>9 DEF CometInv, CometTypeOK
    <3>14. BatchInv'
      BY <3>13 DEF BatchInv
    <3>15. FindInv'
      BY <2>11, <3>8, <3>10, <3>11, <3>13 DEF t, FindInv, RefoundAsRead
    <3> QED BY <3>12, <3>14, <3>15 DEF CometInv
  <2> QED BY <2>10, <2>11
<1> QED BY <1>1, <1>2

(* What a Xitcoin client has kept of its node's answers is the chain's, but  *)
(* for the lists that its node's answers lack.                               *)
THEOREM CometInvariant == CometSpec => []CometInv
<1>1. CometInit => CometInv
  <2> SUFFICES ASSUME CometInit PROVE CometInv
    OBVIOUS
  <2>1. Len(blocks) \in Nat
    BY CometAssumption DEF CometInit, CometAssumption
  <2>2. CometTypeOK
    <3>1. <<>> \in Seq(PlacedRecord) /\ 0 \in Nat
      OBVIOUS
    <3>2. 0 \in 0..Len(blocks) /\ 0 \in 0..0
      BY <2>1
    <3> QED BY <3>1, <3>2 DEF CometInit, CometTypeOK, Idle
  <2>3. call.op = "idle"
    BY DEF CometInit, Idle
  <2> QED BY <2>2, <2>3 DEF CometInv, BatchInv, FindInv, RefoundAsRead
<1>2. CometInv /\ [CometNext]_cometVars => CometInv'
  <2> SUFFICES ASSUME CometInv, [CometNext]_cometVars PROVE CometInv'
    OBVIOUS
  <2>1. CASE Commit \/ Index
    BY <2>1, CommitStep
  <2>2. CASE \E from, to \in 1..Len(blocks) : OutboundTransfers(from, to)
    BY <2>2, BatchStarts
  <2>3. CASE Block
    BY <2>3, BlockStep
  <2>4. CASE BlockResults
    BY <2>4, ResultsStep
  <2>5. CASE NextHeight
    BY <2>5, HeightStep
  <2>6. CASE \E n \in DOMAIN call.records : OutboundTransfer(n)
    BY <2>6, FindStarts
  <2>7. CASE Tx
    BY <2>7, TxStep
  <2>8. CASE Find
    BY <2>8, FindStep
  <2>9. CASE Done
    BY <2>9, CallEnds DEF Done, CometInv, CometTypeOK
  <2>10. CASE UNCHANGED cometVars
    BY <2>10, CallEnds DEF cometVars, CometInv, CometTypeOK
  <2> QED BY <2>1, <2>2, <2>3, <2>4, <2>5, <2>6, <2>7, <2>8, <2>9, <2>10 DEF CometNext
<1> QED BY <1>1, <1>2, PTL DEF CometSpec

(* The client's call is always well formed.                                  *)
THEOREM CometTypeCorrect == CometSpec => []CometTypeOK
<1>1. CometInv => CometTypeOK
  BY DEF CometInv
<1> QED BY <1>1, CometInvariant, PTL

(* outboundTransfers: a batch that is returned is exactly the burns of its   *)
(* heights, in chain order, for every chain and every way answers arrive,    *)
(* but for the transactions whose lists the node's answers agree to lack.    *)
THEOREM BatchComplete == CometSpec => []BatchIsTheChain
<1>1. CometInv => BatchIsTheChain
  <2> SUFFICES ASSUME CometInv, call.op = "batched"
               PROVE  /\ {Place(r) : r \in Range(call.records)} = BurnsTold
                      /\ \A m, n \in DOMAIN call.records :
                           m < n => Before(Place(call.records[m]), Place(call.records[n]))
                      /\ \A r \in Range(call.records) : r.height = r.tx[1] /\ r.hash = r.tx[1]
    BY DEF BatchIsTheChain
  <2> DEFINE B == Left(call.from, call.to, call.withheld)
  <2>1. InOrder(call.records) /\ Range(call.records) = {TrueRecord(x) : x \in B}
    BY DEF CometInv, BatchInv, Lists
  <2>2. ASSUME NEW x \in B
        PROVE  Place(TrueRecord(x)) = x
    <3>1. PICK h \in call.from..call.to : x \in Burns(h)
      BY DEF Left
    <3>2. h \in 1..Len(blocks) /\ blocks \in Chains
      BY DEF CometInv, CometTypeOK, BatchInv
    <3> QED BY <3>1, <3>2, BurnTyped
  <2>3. ASSUME NEW x
        PROVE  TrueRecord(x).height = TrueRecord(x).tx[1] /\ TrueRecord(x).hash = TrueRecord(x).tx[1]
    BY DEF TrueRecord
  <2> HIDE DEF B
  <2>4. {Place(r) : r \in Range(call.records)} = B
    BY <2>1, <2>2
  <2>5. \A r \in Range(call.records) : r.height = r.tx[1] /\ r.hash = r.tx[1]
    BY <2>1, <2>3
  <2> QED BY <2>1, <2>4, <2>5 DEF B, Left, BurnsTold, InOrder
<1> QED BY <1>1, CometInvariant, PTL

(* outboundTransfer: a record of a batch is found again as it was read, or   *)
(* an earlier burn of its transaction with the same message index is, and    *)
(* nothing is only if the answer lacks the transaction's events.             *)
THEOREM RefoundForSure == CometSpec => []RefoundAsRead
<1>1. CometInv => RefoundAsRead
  BY DEF CometInv, FindInv
<1> QED BY <1>1, CometInvariant, PTL
=============================================================================
