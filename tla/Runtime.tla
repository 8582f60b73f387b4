--------------------------------- MODULE Runtime -------------------------------
(***************************************************************************)
(* The runtime supervisor and its health (runtime.js).  Workers run one    *)
(* after another, each an await during which anything else may happen:     *)
(* another call of runCycle, stop(), a health probe, the passing of time.  *)
(* cycle[c] is the worker that call c of runCycle awaits, 0 for none.      *)
(***************************************************************************)
EXTENDS Integers, Sequences, FiniteSets

CONSTANTS Workers,      \* the workers' names, in the order they run
          Critical,     \* those whose failure halts the runtime
          Callers,      \* calls of runCycle
          StaleAfter,   \* staleAfterSeconds
          MaxClock       \* bound: the clock

ASSUME RuntimeAssumption ==
  /\ Len(Workers) > 0
  /\ \A i, j \in DOMAIN Workers : i # j => Workers[i] # Workers[j]
  /\ {StaleAfter, MaxClock} \subseteq Nat

VARIABLES clock, halted, running, stopped,
          health,       \* per worker: its state and lastSuccessUnix (-1 for null)
          cycle,
          broken        \* whether a critical worker has ever failed

runtimeVars == <<clock, halted, running, stopped, health, cycle, broken>>

Names  == {Workers[i] : i \in DOMAIN Workers}
Last   == Len(Workers)
Active == {c \in Callers : cycle[c] # 0}

RuntimeTypeOK ==
  /\ clock \in 0..MaxClock
  /\ halted \in BOOLEAN /\ running \in BOOLEAN /\ stopped \in BOOLEAN /\ broken \in BOOLEAN
  /\ health \in [Names -> [state : {"starting", "running", "ready", "failed"}, last : -1..clock]]
  /\ \A n \in Names : health[n].state = "ready" => health[n].last # -1
  /\ cycle \in [Callers -> 0..Last]

RuntimeInit ==
  /\ clock = 0
  /\ halted = FALSE /\ running = FALSE /\ stopped = FALSE /\ broken = FALSE
  /\ health = [n \in Names |-> [state |-> "starting", last |-> -1]]
  /\ cycle = [c \in Callers |-> 0]

ClockTicks ==
  /\ clock < MaxClock /\ clock' = clock + 1
  /\ UNCHANGED <<halted, running, stopped, health, cycle, broken>>

\* snapshot().ready
Stale(n) == health[n].last = -1 \/ clock - health[n].last > StaleAfter
Ready    == ~stopped /\ \A n \in Names : health[n].state # "failed" /\ ~Stale(n)

-------------------------------------------------------------------------------
(* runCycle                                                                  *)

\* The next worker is marked running and started, or the cycle is over.
Proceed(c, h) ==
  IF cycle[c] < Last
  THEN /\ cycle' = [cycle EXCEPT ![c] = @ + 1]
       /\ health' = [h EXCEPT ![Workers[cycle[c] + 1]].state = "running"]
       /\ UNCHANGED running
  ELSE /\ cycle' = [cycle EXCEPT ![c] = 0]
       /\ health' = h
       /\ running' = FALSE

RunCycle(c) ==
  /\ cycle[c] = 0 /\ ~halted /\ ~running
  /\ cycle' = [cycle EXCEPT ![c] = 1]
  /\ running' = TRUE
  /\ health' = [health EXCEPT ![Workers[1]].state = "running"]
  /\ UNCHANGED <<clock, halted, stopped, broken>>

WorkerSucceeds(c) ==
  /\ cycle[c] # 0
  /\ Proceed(c, [health EXCEPT ![Workers[cycle[c]]] = [state |-> "ready", last |-> clock]])
  /\ UNCHANGED <<clock, halted, stopped, broken>>

\* Mutant: the runtime halts without the health being told.
CriticalWorkerFailsUnreported(c) ==
  /\ cycle[c] # 0 /\ Workers[cycle[c]] \in Critical
  /\ halted' = TRUE /\ broken' = TRUE
  /\ cycle' = [cycle EXCEPT ![c] = 0] /\ running' = FALSE
  /\ UNCHANGED <<clock, stopped, health>>

CriticalWorkerFails(c) ==
  /\ cycle[c] # 0 /\ Workers[cycle[c]] \in Critical
  /\ health' = [health EXCEPT ![Workers[cycle[c]]].state = "failed"]
  /\ halted' = TRUE /\ broken' = TRUE
  /\ cycle' = [cycle EXCEPT ![c] = 0] /\ running' = FALSE
  /\ UNCHANGED <<clock, stopped>>

OtherWorkerFails(c) ==
  /\ cycle[c] # 0 /\ Workers[cycle[c]] \notin Critical
  /\ Proceed(c, [health EXCEPT ![Workers[cycle[c]]].state = "failed"])
  /\ UNCHANGED <<clock, halted, stopped, broken>>

\* stop() does not end a cycle that is under way.
Stop ==
  /\ ~stopped
  /\ halted' = TRUE /\ stopped' = TRUE
  /\ UNCHANGED <<clock, running, health, cycle, broken>>

RuntimeNext ==
  \/ ClockTicks \/ Stop
  \/ \E c \in Callers : RunCycle(c) \/ WorkerSucceeds(c) \/ CriticalWorkerFails(c) \/ OtherWorkerFails(c)

RuntimeSpec == RuntimeInit /\ [][RuntimeNext]_runtimeVars

-------------------------------------------------------------------------------
(* Calls of runCycle that overlap never run workers side by side, and the    *)
(* guard that sees to it is released on every way out of a cycle.            *)
OneCycle == Cardinality(Active) = IF running THEN 1 ELSE 0

(* OPERATIONS.md: "A critical watcher, approval or submission worker failure *)
(* halts the runtime": from then on no worker starts, in no call's cycle,    *)
(* and the runtime is never ready again, although the worker that failed     *)
(* last succeeded not long ago and readiness forgets a failure as soon as    *)
(* its worker is started again.                                              *)
HaltedOnceBroken == [][broken => cycle' = cycle /\ ~Ready /\ ~Ready']_runtimeVars
=============================================================================
