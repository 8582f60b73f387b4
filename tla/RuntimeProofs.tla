------------------------------ MODULE RuntimeProofs -----------------------------
(***************************************************************************)
(* What the runtime supervisor promises, for any workers, any number of    *)
(* overlapping calls and any clock.  The inductive invariant: at most one  *)
(* call is in its cycle, exactly then running is set, and a runtime that   *)
(* broke is halted, idle and remembers which worker failed.                *)
(***************************************************************************)
EXTENDS Runtime, FiniteSetTheorems, TLAPS

Exclusive == /\ \A c, d \in Callers : cycle[c] # 0 /\ cycle[d] # 0 => c = d
             /\ running <=> \E c \in Callers : cycle[c] # 0
Broken == broken => /\ halted /\ ~running
                    /\ \E n \in Names : health[n].state = "failed"
Inv == RuntimeTypeOK /\ Exclusive /\ Broken

LEMMA WorkerNames == \A i \in 1..Last : Workers[i] \in Names
BY DEF Last, Names

(* One worker's entry changes, to a state and a time of its type.            *)
LEMMA HealthTyped ==
  ASSUME RuntimeTypeOK, NEW n \in Names, NEW s \in {"running", "failed"}
  PROVE  /\ [health EXCEPT ![n].state = s]
              \in [Names -> [state : {"starting", "running", "ready", "failed"}, last : -1..clock]]
         /\ \A m \in Names : [health EXCEPT ![n].state = s][m].state = "ready"
                             => [health EXCEPT ![n].state = s][m].last # -1
BY DEF RuntimeTypeOK

LEMMA SuccessTyped ==
  ASSUME RuntimeTypeOK, NEW n \in Names
  PROVE  /\ [health EXCEPT ![n] = [state |-> "ready", last |-> clock]]
              \in [Names -> [state : {"starting", "running", "ready", "failed"}, last : -1..clock]]
         /\ \A m \in Names : [health EXCEPT ![n] = [state |-> "ready", last |-> clock]][m].state = "ready"
                             => [health EXCEPT ![n] = [state |-> "ready", last |-> clock]][m].last # -1
BY RuntimeAssumption DEF RuntimeTypeOK

(* Going on to the next worker, or out of the cycle, with well-typed health. *)
LEMMA ProceedKeeps ==
  ASSUME Inv, NEW c \in Callers, cycle[c] # 0, NEW h, Proceed(c, h),
         h \in [Names -> [state : {"starting", "running", "ready", "failed"}, last : -1..clock]],
         \A n \in Names : h[n].state = "ready" => h[n].last # -1,
         UNCHANGED <<clock, halted, stopped, broken>>
  PROVE  Inv'
<1> DEFINE Health == [Names -> [state : {"starting", "running", "ready", "failed"}, last : -1..clock]]
<1>1. cycle \in [Callers -> 0..Last] /\ cycle[c] \in 1..Last /\ running /\ ~broken /\ Last \in Nat
  BY RuntimeAssumption DEF Inv, RuntimeTypeOK, Exclusive, Broken, Last
<1>2. CASE cycle[c] < Last
  <2>1. cycle[c] + 1 \in 1..Last /\ Workers[cycle[c] + 1] \in Names
    BY <1>1, <1>2, WorkerNames
  <2>2. cycle' = [cycle EXCEPT ![c] = cycle[c] + 1] /\ running' = running
        /\ health' = [h EXCEPT ![Workers[cycle[c] + 1]].state = "running"]
    BY <1>2 DEF Proceed
  <2>3. health' \in Health /\ \A n \in Names : health'[n].state = "ready" => health'[n].last # -1
    BY <2>1, <2>2
  <2>4. RuntimeTypeOK'
    BY <1>1, <2>1, <2>2, <2>3 DEF Inv, RuntimeTypeOK
  <2>5. Exclusive'
    BY <1>1, <2>1, <2>2 DEF Inv, Exclusive
  <2> QED BY <1>1, <2>4, <2>5 DEF Inv, Broken
<1>3. CASE ~(cycle[c] < Last)
  <2>1. cycle' = [cycle EXCEPT ![c] = 0] /\ running' = FALSE /\ health' = h
    BY <1>3 DEF Proceed
  <2>2. health' \in Health /\ \A n \in Names : health'[n].state = "ready" => health'[n].last # -1
    BY <2>1
  <2>3. cycle' \in [Callers -> 0..Last]
    <3>1. 0 \in 0..Last
      BY <1>1
    <3> QED BY <1>1, <2>1, <3>1
  <2>4. RuntimeTypeOK'
    BY <2>1, <2>2, <2>3 DEF Inv, RuntimeTypeOK
  <2>5. Exclusive'
    BY <1>1, <2>1 DEF Inv, Exclusive
  <2> QED BY <1>1, <2>4, <2>5 DEF Inv, Broken
<1> QED BY <1>2, <1>3

LEMMA RuntimeStep == Inv /\ [RuntimeNext]_runtimeVars => Inv'
<1> SUFFICES ASSUME Inv, [RuntimeNext]_runtimeVars PROVE Inv'
  OBVIOUS
<1>0. RuntimeTypeOK /\ Exclusive /\ Broken /\ Last \in Nat /\ Last > 0
  BY RuntimeAssumption DEF Inv, Last
<1>1. CASE UNCHANGED runtimeVars
  BY <1>1 DEF runtimeVars, Inv, RuntimeTypeOK, Exclusive, Broken
<1>2. CASE ClockTicks
  <2>1. health' = health
        /\ health' \in [Names -> [state : {"starting", "running", "ready", "failed"}, last : -1..clock']]
    BY <1>0, <1>2, RuntimeAssumption DEF ClockTicks, RuntimeTypeOK
  <2>2. clock' \in 0..MaxClock
    BY <1>0, <1>2, RuntimeAssumption DEF ClockTicks, RuntimeTypeOK
  <2> QED BY <1>0, <1>2, <2>1, <2>2 DEF ClockTicks, Inv, RuntimeTypeOK, Exclusive, Broken
<1>3. CASE Stop
  BY <1>0, <1>3 DEF Stop, Inv, RuntimeTypeOK, Exclusive, Broken
<1>4. ASSUME NEW c \in Callers, RunCycle(c) PROVE Inv'
  <2>1. Workers[1] \in Names /\ 1 \in 0..Last
    BY <1>0, WorkerNames
  <2>2. RuntimeTypeOK'
    BY <1>0, <1>4, <2>1, HealthTyped DEF RunCycle, RuntimeTypeOK
  <2>3. Exclusive'
    BY <1>0, <1>4 DEF RunCycle, RuntimeTypeOK, Exclusive
  <2> QED BY <1>0, <1>4, <2>2, <2>3 DEF RunCycle, Inv, Broken
<1>5. ASSUME NEW c \in Callers, WorkerSucceeds(c) PROVE Inv'
  <2>1. cycle[c] # 0 /\ Workers[cycle[c]] \in Names
    BY <1>0, <1>5, WorkerNames DEF WorkerSucceeds, RuntimeTypeOK
  <2> DEFINE h == [health EXCEPT ![Workers[cycle[c]]] = [state |-> "ready", last |-> clock]]
  <2>2. Proceed(c, h) /\ UNCHANGED <<clock, halted, stopped, broken>>
    BY <1>5 DEF WorkerSucceeds
  <2>3. /\ h \in [Names -> [state : {"starting", "running", "ready", "failed"}, last : -1..clock]]
        /\ \A n \in Names : h[n].state = "ready" => h[n].last # -1
    BY <1>0, <2>1, SuccessTyped
  <2> HIDE DEF h
  <2> QED BY <2>1, <2>2, <2>3, ProceedKeeps
<1>6. ASSUME NEW c \in Callers, CriticalWorkerFails(c) PROVE Inv'
  <2>1. cycle[c] # 0 /\ Workers[cycle[c]] \in Names
    BY <1>0, <1>6, WorkerNames DEF CriticalWorkerFails, RuntimeTypeOK
  <2> DEFINE h == [health EXCEPT ![Workers[cycle[c]]].state = "failed"]
  <2>h. /\ h \in [Names -> [state : {"starting", "running", "ready", "failed"}, last : -1..clock]]
        /\ \A n \in Names : h[n].state = "ready" => h[n].last # -1
    BY <1>0, <2>1, HealthTyped
  <2>i. /\ health' = h /\ halted' = TRUE /\ broken' = TRUE /\ running' = FALSE
        /\ cycle' = [cycle EXCEPT ![c] = 0] /\ UNCHANGED <<clock, stopped>>
    BY <1>6 DEF CriticalWorkerFails
  <2>j. cycle' \in [Callers -> 0..Last]
    BY <1>0, <2>i DEF RuntimeTypeOK
  <2>2. RuntimeTypeOK'
    <3> HIDE DEF h
    <3> QED BY <1>0, <2>h, <2>i, <2>j DEF RuntimeTypeOK
  <2>3. Exclusive'
    BY <1>0, <1>6 DEF CriticalWorkerFails, RuntimeTypeOK, Exclusive
  <2>4. health'[Workers[cycle[c]]].state = "failed" /\ halted' /\ ~running'
    BY <1>0, <1>6, <2>1 DEF CriticalWorkerFails, RuntimeTypeOK
  <2> QED BY <2>1, <2>2, <2>3, <2>4 DEF Inv, Broken
<1>7. ASSUME NEW c \in Callers, OtherWorkerFails(c) PROVE Inv'
  <2>1. cycle[c] # 0 /\ Workers[cycle[c]] \in Names
    BY <1>0, <1>7, WorkerNames DEF OtherWorkerFails, RuntimeTypeOK
  <2> DEFINE h == [health EXCEPT ![Workers[cycle[c]]].state = "failed"]
  <2>2. Proceed(c, h) /\ UNCHANGED <<clock, halted, stopped, broken>>
    BY <1>7 DEF OtherWorkerFails
  <2>3. /\ h \in [Names -> [state : {"starting", "running", "ready", "failed"}, last : -1..clock]]
        /\ \A n \in Names : h[n].state = "ready" => h[n].last # -1
    BY <1>0, <2>1, HealthTyped
  <2> HIDE DEF h
  <2> QED BY <2>1, <2>2, <2>3, ProceedKeeps
<1> QED BY <1>1, <1>2, <1>3, <1>4, <1>5, <1>6, <1>7 DEF RuntimeNext

THEOREM RuntimeInvariant == RuntimeSpec => []Inv
<1>1. RuntimeInit => Inv
  <2> SUFFICES ASSUME RuntimeInit PROVE Inv
    OBVIOUS
  <2>1. health \in [Names -> [state : {"starting", "running", "ready", "failed"}, last : -1..clock]]
        /\ \A n \in Names : health[n].state = "ready" => health[n].last # -1
    BY DEF RuntimeInit
  <2>2. clock \in 0..MaxClock /\ cycle \in [Callers -> 0..Last]
    BY RuntimeAssumption DEF RuntimeInit, Last
  <2> QED BY <2>1, <2>2 DEF RuntimeInit, Inv, RuntimeTypeOK, Exclusive, Broken
<1> QED BY <1>1, RuntimeStep, PTL DEF RuntimeSpec

(* Every variable has its type.                                              *)
THEOREM RuntimeTypeCorrect == RuntimeSpec => []RuntimeTypeOK
<1>1. Inv => RuntimeTypeOK
  BY DEF Inv
<1> QED BY <1>1, RuntimeInvariant, PTL

(* Overlapping calls never run workers side by side, and the guard that sees *)
(* to it is released on every way out of a cycle.                            *)
THEOREM RuntimeOneCycle == RuntimeSpec => []OneCycle
<1>1. Inv => OneCycle
  <2> SUFFICES ASSUME Inv PROVE OneCycle
    OBVIOUS
  <2>1. CASE running
    <3>1. PICK c \in Callers : cycle[c] # 0
      BY <2>1 DEF Inv, Exclusive
    <3>2. Active = {c}
      BY <3>1 DEF Inv, Exclusive, Active
    <3> QED BY <2>1, <3>2, FS_Singleton DEF OneCycle
  <2>2. CASE ~running
    <3>1. Active = {}
      BY <2>2 DEF Inv, Exclusive, Active
    <3> QED BY <2>2, <3>1, FS_EmptySet DEF OneCycle
  <2>3. running \in BOOLEAN
    BY DEF Inv, RuntimeTypeOK
  <2> QED BY <2>1, <2>2
<1> QED BY <1>1, RuntimeInvariant, PTL

(* Once a critical worker failed, no worker starts and the runtime is never  *)
(* ready again.                                                              *)
THEOREM RuntimeHaltedOnceBroken == RuntimeSpec => HaltedOnceBroken
<1>1. Inv /\ Inv' /\ [RuntimeNext]_runtimeVars => [broken => cycle' = cycle /\ ~Ready /\ ~Ready']_runtimeVars
  <2> SUFFICES ASSUME Inv, Inv', [RuntimeNext]_runtimeVars, broken
               PROVE  cycle' = cycle /\ ~Ready /\ ~Ready'
    OBVIOUS
  <2>1. ~Ready /\ halted /\ \A c \in Callers : cycle[c] = 0
    BY DEF Inv, Broken, Exclusive, Ready
  <2>2. cycle' = cycle /\ broken'
    BY <2>1 DEF RuntimeNext, runtimeVars, ClockTicks, Stop, RunCycle, WorkerSucceeds,
                CriticalWorkerFails, OtherWorkerFails
  <2>3. ~Ready'
    BY <2>2 DEF Inv, Broken, Ready
  <2> QED BY <2>1, <2>2, <2>3
<1> QED BY <1>1, RuntimeInvariant, PTL DEF RuntimeSpec, HaltedOnceBroken
=============================================================================
