------------------------------ MODULE GCSettings ------------------------------
(***************************************************************************)
(* GOGC, GOMEMLIMIT and GOMAXPROCS are settings of the whole process.  The *)
(* measurements of adv015, adv025, adv026, adv028 and adv029 set them, do  *)
(* their work on a live heap that produces garbage, and put them back.     *)
(* Sizes are in MiB; unsigned words wrap at Word.                          *)
(***************************************************************************)
EXTENDS Integers, Sequences, FiniteSetsExt

CONSTANT Word   (* 2^64 in the code                                        *)

(* At least as wide as the products of the measurements need.              *)
ASSUME WordAssumption == Word \in Nat /\ Word >= 65536

MaxUint == Word - 1
NoLimit == Word \div 2 - 1            (* math.MaxInt64                      *)
minHeapGoal == 4

gcPercentHeapGoal(live, pct) ==
  IF pct < 0 THEN MaxUint
  ELSE Max({(live + ((live * pct) % Word) \div 100) % Word, minHeapGoal})

(* A tenth of the limit is not heap; the live heap is never refused.       *)
memoryLimitHeapGoalHard(limit, live) ==
  IF limit <= 0 \/ limit = NoLimit THEN MaxUint ELSE limit - limit \div 10
memoryLimitHeapGoal(limit, live) ==
  IF limit <= 0 \/ limit = NoLimit THEN MaxUint ELSE Max({limit - limit \div 10, live})

effectiveHeapGoal(live, pct, limit) ==
  Min({gcPercentHeapGoal(live, pct), memoryLimitHeapGoal(limit, live)})

(* This function alone counts in quarters of a MiB, for it answers mib to  *)
(* a container that is smaller.                                            *)
mib == 4
recommendMemoryLimit(container, reserve) ==
  IF container <= 0 THEN NoLimit
  ELSE IF reserve >= container THEN mib ELSE container - Max({reserve, 0})

-----------------------------------------------------------------------------
(* The measurements, each a list of phases.                                *)

Phase(pct, limit, procs, live, garbage) ==
  [pct |-> pct, limit |-> limit, procs |-> procs, live |-> live, garbage |-> garbage,
   forced |-> 0]
Cores == 8                            (* what GOMAXPROCS was               *)
Default == [pct |-> 100, limit |-> NoLimit, procs |-> Cores]

runAllPhases(live, garbage) ==
  <<Phase(100, NoLimit, Cores, live, garbage), Phase(400, NoLimit, Cores, live, garbage),
    Phase(-1, 48, Cores, live, garbage), Phase(100, 8, Cores, live, 64)>>
testPhases ==
  <<Phase(-1, NoLimit, Cores, 8, 128), Phase(-1, 32, Cores, 8, 128),
    Phase(100, 8, Cores, 32, 64), Phase(100, NoLimit, Cores, 16, 128)>>
(* chargePerObject of adv026 and measureAllocs of adv025 switch the        *)
(* collector off; demonstrateSTW of adv029 does, and calls runtime.GC;     *)
(* victimCacheResults of adv015 keeps one P.                               *)
chargePerObject == <<Phase(-1, NoLimit, Cores, 0, 12)>>
measureAllocs == <<Phase(-1, NoLimit, Cores, 0, 4)>>
demonstrateSTW == <<[Phase(-1, NoLimit, Cores, 0, 0) EXCEPT !.forced = 5]>>
oneP == <<Phase(100, NoLimit, 1, 0, 4)>>
measureGCCPU(procs) == Phase(100, NoLimit, procs, 4, 44)
demonstrateCPUBreakdown == <<measureGCCPU(1), measureGCCPU(4)>>
demonstrateLatencySource ==
  <<Phase(-1, NoLimit, 4, 4, 64), Phase(100, NoLimit, 4, 4, 64), Phase(100, NoLimit, 1, 4, 64)>>

Measurements ==
  {runAllPhases(32, 256), testPhases, chargePerObject, measureAllocs, demonstrateSTW, oneP,
   demonstrateCPUBreakdown, demonstrateLatencySource}

VARIABLES
  settings,   (* of the process                                            *)
  saved,      (* what the running phase will put back                      *)
  todo,       (* its list of phases, the running one first                 *)
  left,       (* chunks still to allocate; -1 between two phases           *)
  heap, peak, (* HeapAlloc and PeakHeapAlloc                               *)
  NumGC       (* of the phase                                              *)

gcVars == <<settings, saved, todo, left, heap, peak, NumGC>>

chunk == 4
Now == Head(todo)
Goal == effectiveHeapGoal(Now.live, settings.pct, settings.limit)

GCInit(plans) ==
  /\ settings = Default /\ saved = Default /\ todo \in plans
  /\ left = -1 /\ heap = 0 /\ peak = 0 /\ NumGC = 0

BeginPhase ==
  /\ todo # <<>> /\ left = -1
  /\ saved' = settings
  /\ settings' = [pct |-> Now.pct, limit |-> Now.limit, procs |-> Now.procs]
  /\ left' = Now.garbage \div chunk
  /\ heap' = Now.live /\ peak' = 0 /\ NumGC' = 0
  /\ UNCHANGED todo

(* sink keeps the chunk before.  The runtime collects when a chunk would   *)
(* pass the goal, and may do so earlier when there is one.                 *)
Churn ==
  /\ left > 0
  /\ \E gc \in BOOLEAN :
       /\ heap + chunk > Goal => gc
       /\ gc => Goal < MaxUint
       /\ heap' = chunk + IF gc THEN Min({heap, Now.live + chunk}) ELSE heap
       /\ NumGC' = NumGC + IF gc THEN 1 ELSE 0
  /\ peak' = Max({peak, heap'})
  /\ left' = left - 1
  /\ UNCHANGED <<settings, saved, todo>>

(* runtime.GC, as often as the measurement calls it.                       *)
ForceGC ==
  /\ left = 0 /\ NumGC < Now.forced
  /\ NumGC' = NumGC + 1 /\ heap' = Min({heap, Now.live + chunk})
  /\ UNCHANGED <<settings, saved, todo, left, peak>>

EndPhaseKeepingLimit ==
  /\ left = 0 /\ NumGC >= Now.forced
  /\ settings' = [saved EXCEPT !.limit = settings.limit]
  /\ todo' = Tail(todo) /\ left' = -1 /\ heap' = 0
  /\ UNCHANGED <<saved, peak, NumGC>>
EndPhase ==
  /\ left = 0 /\ NumGC >= Now.forced
  /\ settings' = saved
  /\ todo' = Tail(todo) /\ left' = -1 /\ heap' = 0
  /\ UNCHANGED <<saved, peak, NumGC>>

GCNext == BeginPhase \/ Churn \/ ForceGC \/ EndPhase

-----------------------------------------------------------------------------
(* What the tests of adv028 say of the peaks and of NumGC, at the end of   *)
(* every phase: without a bound only runtime.GC collects; the goal holds once *)
(* the live heap fits beside the two chunks in use; a limit below the live *)
(* heap is passed, and collects; the heap is bounded by twice the live     *)
(* one.  Between two phases the settings are those of the process.         *)
PhasesAsTested ==
  /\ left = -1 => settings = Default
  /\ left = 0 /\ NumGC >= Now.forced =>
       /\ peak >= Now.live
       /\ Now.pct < 0 /\ Now.limit = NoLimit => NumGC = Now.forced /\ peak = Now.live + Now.garbage
       /\ Now.live + Now.garbage > Min({2 * Now.live, Now.limit}) /\ Now.limit # NoLimit => NumGC > 0
       /\ Now.live + 2 * chunk <= Goal => peak <= Goal
       /\ Now.limit < Now.live => NumGC > 0 /\ peak > Now.limit
       /\ Now.pct = 100 /\ Now.live >= 2 * chunk => peak <= Max({2 * Now.live, Now.live + 2 * chunk})
       /\ Now.pct < 0 /\ Now.limit # NoLimit /\ Now.live + 2 * chunk <= Now.limit => peak <= Now.limit
===============================================================================
