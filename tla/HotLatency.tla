------------------------------ MODULE HotLatency ------------------------------
(***************************************************************************)
(* runHotLatency of adv002: two Ps move in turn, and the task Trigger of   *)
(* P 0's queue makes the task Hot runnable.  The demonstration is one way  *)
(* of running the queues of WorkStealing; the other behaviours of the run  *)
(* are all the ways, on a few tasks.                                       *)
(***************************************************************************)
EXTENDS WorkStealing, FiniteSets

CONSTANTS
  Hot,        (* hotTaskID, a task no queue starts with                    *)
  Few         (* the tasks of the runs that are not the demonstration      *)

ASSUME DemoAssumption ==
  /\ {0, 1} \subseteq Proc
  /\ IsFiniteSet(Task) /\ Hot \in Task /\ Task \ {Hot} = 1 .. Cardinality(Task) - 1
  /\ Few \subseteq Task \ {Hot}

VARIABLES
  demo,       (* whether this is the demonstration                         *)
  trigger,    (* triggerTaskID                                             *)
  tick, turn, (* the round, and the P whose move it is; 2 when it is over  *)
  triggerTick,(* when the trigger ran, or -1                               *)
  HotTick,    (* when Hot ran, or -1                                       *)
  Stolen      (* how many tasks P 1 took                                   *)

clock == <<demo, trigger, tick, turn, triggerTick, HotTick, Stolen>>
allVars == <<vars, clock>>

FirstTasks(n) == [i \in 1 .. n |-> i]
Start(n) ==
  /\ proc = [p \in Proc |-> newProc(IF p = 0 THEN FirstTasks(n) ELSE <<>>)]
  /\ fresh = Task \ 1 .. n

DemoInit ==
  /\ mode \in {"FIFO", "runnext"} /\ done = {}
  /\ \/ \E n \in 1 .. Cardinality(Task) - 1 : demo = TRUE /\ Start(n) /\ trigger \in 1 .. n
     \/ \E n \in 0 .. Cardinality(Few) : demo = FALSE /\ Start(n) /\ trigger = NoTask
  /\ tick = 0 /\ turn = 0 /\ triggerTick = -1 /\ HotTick = -1 /\ Stolen = 0

(* p runs t: the loop stops at Hot, and the trigger makes Hot runnable.    *)
child(t) == IF t = trigger THEN Hot ELSE NoTask
Ran(p, t) ==
  /\ HotTick' = IF t = Hot THEN tick ELSE HotTick
  /\ triggerTick' = IF t = trigger THEN tick ELSE triggerTick
  /\ turn' = IF t = Hot THEN 2 ELSE 1 - p
  /\ tick' = IF p = 1 /\ t # Hot THEN tick + 1 ELSE tick
  /\ UNCHANGED <<demo, trigger>>

P0Turn == demo /\ turn = 0 /\ tick < 100
P0Runs ==
  /\ P0Turn /\ hasWork(proc[0])
  /\ LET t == popped(proc[0]) IN RunLocal(0, child(t)) /\ Ran(0, t)
  /\ UNCHANGED Stolen
P0Idles ==
  /\ P0Turn /\ ~hasWork(proc[0])
  /\ Ran(0, NoTask) /\ UNCHANGED <<vars, Stolen>>
P1Runs ==
  /\ demo /\ turn = 1 /\ hasWork(proc[1])
  /\ LET t == popped(proc[1]) IN RunLocal(1, child(t)) /\ Ran(1, t)
  /\ UNCHANGED Stolen
P1Steals ==
  /\ demo /\ turn = 1 /\ ~hasWork(proc[1]) /\ proc[0].Runq # <<>>
  /\ LET t == Head(stolen(proc[0])) IN StealAndRun(1, 0, child(t)) /\ Ran(1, t)
  /\ Stolen' = Stolen + Len(stolen(proc[0]))
P1Idles ==
  /\ demo /\ turn = 1 /\ ~hasWork(proc[1]) /\ proc[0].Runq = <<>>
  /\ Ran(1, NoTask) /\ UNCHANGED <<vars, Stolen>>

(* Any order, with the few tasks.                                          *)
Free == ~demo /\ UNCHANGED clock
Becomes(p) == Free /\ \E t \in Few \cap fresh : Enqueue(p, t)
Runs(p) == Free /\ \E c \in (Few \cap fresh) \cup {NoTask} : RunLocal(p, c)
Steals(p) == Free /\ \E v \in Proc, c \in (Few \cap fresh) \cup {NoTask} : StealAndRun(p, v, c)

DemoNext ==
  \/ P0Runs \/ P0Idles \/ P1Runs \/ P1Steals \/ P1Idles
  \/ \E p \in Proc : Becomes(p) \/ Runs(p) \/ Steals(p)

(* The loop of the demonstration goes on, and a P with work runs it.       *)
DemoSpec ==
  /\ DemoInit /\ [][DemoNext]_allVars
  /\ WF_allVars(P0Runs \/ P0Idles \/ P1Runs \/ P1Steals \/ P1Idles)
  /\ \A p \in Proc : WF_allVars(Runs(p))

-----------------------------------------------------------------------------
(* Properties.                                                             *)

(* From the slot Hot runs one tick after the trigger, whoever ran that;    *)
(* from the queue even in the same tick, when an idle P steals it at once;  *)
(* with the ten tasks of the README, the first the trigger, at tick 5 and  *)
(* with a theft.                                                           *)
HotLatencies ==
  HotTick >= 0 =>
    /\ IF mode = "runnext" THEN HotTick = triggerTick + 1 ELSE HotTick >= triggerTick
    /\ trigger = 1 /\ Cardinality(Task \ fresh) = 11 =>
         (IF mode = "FIFO" THEN HotTick = 5 /\ Stolen >= 1 ELSE HotTick = 1)

(* The demonstration sees Hot run, and a task in a queue always runs.      *)
NothingStarves ==
  /\ (demo ~> HotTick >= 0)
  /\ \A t \in Few : (~demo /\ t \in Waiting) ~> t \in done
===============================================================================
