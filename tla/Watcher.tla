-------------------------------- MODULE Watcher --------------------------------
(***************************************************************************)
(* A source chain and a finalized watcher of it (watchers.js).  The chain  *)
(* grows and reorganizes, the nodes behind the watcher's independent RPC   *)
(* providers follow it at their own pace, and some providers answer        *)
(* whatever they like.  A watcher asks all its providers in rounds; what   *)
(* a round may answer and what the watcher makes of it are defined here,   *)
(* the scanner (SourceScan) and the signers (SignerCheck) take them as     *)
(* steps.                                                                  *)
(***************************************************************************)
EXTENDS Integers, Sequences, FiniteSetsExt

CONSTANTS Sources,         \* which chains are looked at: "cronos", "xitcoin"
          Providers,       \* the watcher's independent RPC providers
          Faulty,          \* those that answer anything, until they are replaced
          First,           \* the provider whose logs are decoded (providers[0])
          Events,          \* deposits, by source reference
          Confirmations,   \* confirmations (Cronos), safetyLag (Xitcoin)
          MaxReorg,        \* most blocks one reorganization replaces
          MaxHeight,       \* bound: longest chain
          MaxForks,        \* bound: reorganizations
          Null

ASSUME WatcherAssumption ==
  /\ Sources \subseteq {"cronos", "xitcoin"} /\ Sources # {}
  /\ First \in Providers
  /\ Faulty \subseteq Providers
  /\ Providers # Faulty
  /\ {Confirmations, MaxReorg, MaxHeight, MaxForks} \subseteq Nat

VARIABLES source,      \* the chain this watcher watches
          faulty,      \* the faulty providers it is configured with
          chain,       \* the source chain: a sequence of blocks
          forks,       \* reorganizations so far; a block is born under one fork
          view         \* the chain as each provider's node has it

config    == <<source, faulty>>
chainVars == <<config, chain, forks, view>>

Honest == Providers \ faulty
Blocks == [fork : 0..MaxForks, events : SUBSET Events]

\* A block's hash tells apart blocks of one height born under different forks.
Hashes == (1..MaxHeight) \X (0..MaxForks)
HashAt(c, h) == IF h \in DOMAIN c THEN <<h, c[h].fork>> ELSE Null

\* A deposit log; the height it claims is not part of its block's hash.
Logs == [event : Events, hash : Hashes, height : 1..MaxHeight]
LogsIn(c, from, to) ==
  UNION {{[event |-> e, hash |-> HashAt(c, h), height |-> h] : e \in c[h].events} :
         h \in (from..to) \cap DOMAIN c}

ChainTypeOK ==
  /\ source \in Sources /\ faulty \subseteq Faulty
  /\ chain \in Seq(Blocks) /\ Len(chain) <= MaxHeight
  /\ forks \in 0..MaxForks
  /\ view \in [Providers -> Seq(Blocks)]

ChainInit ==
  /\ source \in Sources /\ faulty = Faulty
  /\ chain = <<>> /\ forks = 0
  /\ view = [p \in Providers |-> <<>>]

-------------------------------------------------------------------------------
(* The source chain and the nodes behind the providers.                      *)

EventsOf(c) == UNION {c[h].events : h \in DOMAIN c}
OnceEach(c) == \A h, k \in DOMAIN c : h # k => c[h].events \cap c[k].events = {}

\* At most one deposit per block is enough to order deposits and blocks.
Mine ==
  /\ Len(chain) < MaxHeight
  /\ \E es \in {{}} \cup {{e} : e \in Events \ EventsOf(chain)} :
       chain' = Append(chain, [fork |-> forks, events |-> es])
  /\ UNCHANGED <<config, forks, view>>

\* The last d blocks give way to d others; deposits may move, appear or vanish.
\* A CometBFT block, once committed, is final.
Reorg ==
  /\ source = "cronos"
  /\ forks < MaxForks
  /\ forks' = forks + 1
  /\ \E d \in 1..MaxReorg :
       /\ d <= Len(chain)
       /\ \E es \in [1..d -> {{}} \cup {{e} : e \in Events}] :
            LET kept == SubSeq(chain, 1, Len(chain) - d)
                new  == [i \in 1..d |-> [fork |-> forks + 1, events |-> es[i]]]
            IN  OnceEach(kept \o new) /\ chain' = kept \o new
  /\ UNCHANGED <<config, view>>

\* A node catches up with the chain, wholly or in part.
Sync(p) ==
  /\ \E n \in Len(view[p])..Len(chain) :
       view' = [view EXCEPT ![p] = SubSeq(chain, 1, n)]
  /\ view' # view
  /\ UNCHANGED <<config, chain, forks>>

\* The faulty providers give way to honest ones.
Replace ==
  /\ faulty # {} /\ faulty' = {}
  /\ UNCHANGED <<source, chain, forks, view>>

-------------------------------------------------------------------------------
(* RPC rounds: every provider is asked; an honest one answers from its node, *)
(* a faulty one picks among lies.  A provider that fails to answer fails the *)
(* round like one that answers Null.                                         *)

Round(truth(_), lies) ==
  {[p \in Providers |-> IF p \in Honest THEN truth(p) ELSE lie[p]] : lie \in [faulty -> lies]}

TipRound == Round(LAMBDA p : Len(view[p]), 0..MaxHeight)

BlockRound(h) == Round(LAMBDA p : HashAt(view[p], h), Hashes \cup {Null})

\* The block that holds a deposit, as its transaction receipt reports it.
BlockOf(c, e) == IF e \in EventsOf(c)
                 THEN HashAt(c, CHOOSE h \in DOMAIN c : e \in c[h].events)
                 ELSE Null
ReceiptRound(e) == Round(LAMBDA p : BlockOf(view[p], e), Hashes \cup {Null})

\* A faulty provider withholds logs, echoes a node, forges one log or misdates one.
Misdated(logs) == {(logs \ {l}) \cup {[l EXCEPT !.height = h]} : l \in logs, h \in 1..MaxHeight}
LogRound(from, to) ==
  LET echoes == {LogsIn(view[q], from, to) : q \in Honest}
      lies   == {{}} \cup echoes \cup {{l} : l \in Logs} \cup UNION {Misdated(s) : s \in echoes}
  IN  Round(LAMBDA p : LogsIn(view[p], from, to), lies)

\* What providers must agree on of the logs: Cronos leaves the height out of it.
CronosCompared(logs)  == {<<l.event, l.hash>> : l \in logs}
XitcoinCompared(logs) == logs
Compared(logs) == IF source = "cronos" THEN CronosCompared(logs) ELSE XitcoinCompared(logs)

\* Mutant: the first provider is believed without asking whether the others agree.
AgreedWithItself(ans) == ans[First] # Null

\* requireAgreement
Agreed(ans) == \A p \in Providers : ans[p] # Null /\ ans[p] = ans[First]

LogsAgreed(ans) == \A p \in Providers : Compared(ans[p]) = Compared(ans[First])

\* latestFinalizedHeight: the lowest tip, less the confirmations.
Finalized(tips) == Max({0, Min({tips[p] : p \in Providers}) - Confirmations})

\* The deposit is still there: a Cronos receipt has to name the log's block, a
\* Xitcoin transaction only to carry the same payload.
CronosStillThere(ans, l)  == Agreed(ans) /\ ans[First] = l.hash
XitcoinStillThere(ans, l) == Agreed(ans)
StillThere(ans, l) == IF source = "cronos" THEN CronosStillThere(ans, l) ELSE XitcoinStillThere(ans, l)

Environment == Mine \/ Reorg \/ \E p \in Honest : Sync(p)

\* The chain keeps producing blocks and honest nodes keep catching up with it.
ChainFairness == WF_chainVars(Mine) /\ \A p \in Providers : WF_chainVars(p \in Honest /\ Sync(p))

\* Block l.height of the source chain is the one the log l was found in.
Canonical(l) == HashAt(chain, l.height) = l.hash /\ l.event \in chain[l.height].events
=============================================================================
