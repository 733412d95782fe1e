----------------------------- MODULE WorkStealing -----------------------------
(***************************************************************************)
(* The run queues of adv002: every P owns a FIFO queue and, in the mode of *)
(* the real scheduler, a slot for the task that became runnable last.  A P *)
(* with no work of its own takes the older half of another queue and runs  *)
(* the first of what it took.                                              *)
(***************************************************************************)
EXTENDS Integers, Sequences

CONSTANTS
  Proc,      (* the processors                                             *)
  Task,      (* the tasks that will ever be made                           *)
  NoTask     (* an empty slot                                              *)

ASSUME NoTaskAssumption == NoTask \notin Task

VARIABLES
  mode,      (* QueueFIFO or QueueRunnext                                  *)
  proc,      (* P -> its queue Runq and its slot Runnext                   *)
  fresh,     (* the tasks not made yet                                     *)
  done       (* the tasks that have run                                    *)

vars == <<mode, proc, fresh, done>>

In(s) == {s[i] : i \in 1 .. Len(s)}
Distinct(s) == \A i, j \in 1 .. Len(s) : s[i] = s[j] => i = j

newProc(queue) == [Runq |-> queue, Runnext |-> NoTask]
hasWorkQueued(q) == q.Runq # <<>>
hasWork(q) == q.Runnext # NoTask \/ q.Runq # <<>>

(* One P starts with a queue, the others with nothing.                     *)
Init ==
  /\ mode \in {"FIFO", "runnext"}
  /\ proc \in [Proc -> [Runq : Seq(Task), Runnext : {NoTask}]]
  /\ \E p \in Proc :
       /\ Distinct(proc[p].Runq)
       /\ \A o \in Proc \ {p} : proc[o] = newProc(<<>>)
       /\ fresh = Task \ In(proc[p].Runq)
  /\ done = {}

(* The task that was in the slot goes to the tail of the queue.            *)
enqueueKickedFirst(q, t) ==
  IF mode = "FIFO" THEN [q EXCEPT !.Runq = Append(@, t)]
  ELSE [Runq |-> IF q.Runnext = NoTask THEN q.Runq ELSE <<q.Runnext>> \o q.Runq, Runnext |-> t]
enqueue(q, t) ==
  IF mode = "FIFO" THEN [q EXCEPT !.Runq = Append(@, t)]
  ELSE [Runq |-> IF q.Runnext = NoTask THEN q.Runq ELSE Append(q.Runq, q.Runnext),
        Runnext |-> t]

(* The task that popLocal takes from q, and what it leaves there.          *)
popped(q) == IF q.Runnext # NoTask THEN q.Runnext ELSE Head(q.Runq)
afterPop(q) == IF q.Runnext # NoTask THEN [q EXCEPT !.Runnext = NoTask]
               ELSE [q EXCEPT !.Runq = Tail(@)]

halfWhole(q) == Len(q.Runq)
half(q) == (Len(q.Runq) + 1) \div 2
stolen(q) == SubSeq(q.Runq, 1, half(q))
afterStealOffByOne(q) == [q EXCEPT !.Runq = SubSeq(@, half(q), Len(@))]
afterSteal(q) == [q EXCEPT !.Runq = SubSeq(@, half(q) + 1, Len(@))]

Child == fresh \cup {NoTask}
enqueueChild(q, c) == IF c = NoTask THEN q ELSE enqueue(q, c)
append(q, s) == [q EXCEPT !.Runq = @ \o s]

Enqueue(p, t) ==
  /\ t \in fresh
  /\ proc' = [proc EXCEPT ![p] = enqueue(@, t)]
  /\ fresh' = fresh \ {t}
  /\ UNCHANGED <<mode, done>>

(* p runs a task of its own, which may make the task c runnable.           *)
RunLocal(p, c) ==
  /\ hasWork(proc[p])
  /\ proc' = [proc EXCEPT ![p] = enqueueChild(afterPop(@), c)]
  /\ done' = done \cup {popped(proc[p])}
  /\ fresh' = fresh \ {c}
  /\ UNCHANGED mode

(* p steals from v and runs the first: what that makes runnable comes      *)
(* before the rest of what was stolen.                                     *)
StealAndRun(p, v, c) ==
  /\ p # v /\ ~hasWork(proc[p]) /\ proc[v].Runq # <<>>
  /\ proc' = [proc EXCEPT ![v] = afterSteal(@),
                          ![p] = append(enqueueChild(@, c), Tail(stolen(proc[v])))]
  /\ done' = done \cup {Head(stolen(proc[v]))}
  /\ fresh' = fresh \ {c}
  /\ UNCHANGED mode

Next ==
  \E p \in Proc :
     \/ \E t \in fresh : Enqueue(p, t)
     \/ \E c \in Child : RunLocal(p, c) \/ \E v \in Proc : StealAndRun(p, v, c)

Spec == Init /\ [][Next]_vars

-----------------------------------------------------------------------------
(* Properties.                                                             *)

Queue == [Runq : Seq(Task), Runnext : Task \cup {NoTask}]
TypeOK ==
  /\ mode \in {"FIFO", "runnext"} /\ proc \in [Proc -> Queue]
  /\ fresh \subseteq Task /\ done \subseteq Task

Held(q) == In(q.Runq) \cup ({q.Runnext} \ {NoTask})
Waiting == UNION {Held(proc[p]) : p \in Proc}

(* A task waits in one place at most: at one position of one queue, or in  *)
(* one slot.                                                               *)
Once(q) == Distinct(q.Runq) /\ q.Runnext \notin In(q.Runq)
OnePlace ==
  /\ \A p \in Proc : Once(proc[p])
  /\ \A p, v \in Proc : p # v => Held(proc[p]) \cap Held(proc[v]) = {}

(* However the queues are filled, drained and robbed, no task is lost and  *)
(* none can run twice: each is not made yet, waits in one place, or ran.   *)
NoTaskLostOrDoubled ==
  /\ OnePlace
  /\ fresh \cup Waiting \cup done = Task
  /\ fresh \cap Waiting = {} /\ fresh \cap done = {} /\ Waiting \cap done = {}

(* The slot is out of a thief's reach: its task leaves it by running, or   *)
(* goes to the tail of the queue of the same P when a newer one comes.     *)
SlotIsNotStolen ==
  [][\A p \in Proc :
       LET t == proc[p].Runnext
       IN t # NoTask /\ proc'[p].Runnext # t =>
            t \in done' \/ proc'[p].Runq = Append(proc[p].Runq, t)]_vars
===============================================================================
