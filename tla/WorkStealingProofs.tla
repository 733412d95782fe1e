-------------------------- MODULE WorkStealingProofs --------------------------
(***************************************************************************)
(* Proofs about WorkStealing for any processors and tasks: no task is lost *)
(* or run twice, and what is in a slot is out of a thief's reach; and      *)
(* about the demonstration of HotLatency, which implements WorkStealing:   *)
(* when the hot task runs.                                                 *)
(***************************************************************************)
EXTENDS HotLatency, FiniteSetTheorems, SequenceTheorems, TLAPS

USE NoTaskAssumption

-----------------------------------------------------------------------------
(* What the operations on sequences do to their elements.                  *)

LEMMA InTask ==
  /\ \A s \in Seq(Task) : In(s) \subseteq Task
  /\ In(<<>>) = {} /\ Distinct(<<>>)
  BY DEF In, Distinct

LEMMA HalfOf == \A n \in Nat \ {0} : (n + 1) \div 2 \in 1 .. n
  OBVIOUS

LEMMA AppendIn ==
  ASSUME NEW s \in Seq(Task), NEW t \in Task
  PROVE  /\ Append(s, t) \in Seq(Task) /\ In(Append(s, t)) = In(s) \cup {t}
         /\ Distinct(s) /\ t \notin In(s) => Distinct(Append(s, t))
<1> DEFINE a == Append(s, t)
<1>1. /\ a \in Seq(Task) /\ Len(a) = Len(s) + 1 /\ Len(s) \in Nat
      /\ \A i \in 1 .. Len(s) : a[i] = s[i]
      /\ a[Len(s) + 1] = t
  OBVIOUS
<1> HIDE DEF a
<1>2. In(a) = In(s) \cup {t} BY <1>1 DEF In
<1>3. ASSUME Distinct(s), t \notin In(s) PROVE Distinct(a)
  BY <1>1, <1>3 DEF Distinct, In
<1> QED BY <1>1, <1>2, <1>3 DEF a

LEMMA TailIn ==
  ASSUME NEW s \in Seq(Task), s # <<>>
  PROVE  /\ Tail(s) \in Seq(Task) /\ Head(s) \in Task
         /\ In(s) = {Head(s)} \cup In(Tail(s))
         /\ Distinct(s) => Distinct(Tail(s)) /\ Head(s) \notin In(Tail(s))
<1> DEFINE r == Tail(s)
<1>1. /\ r \in Seq(Task) /\ Len(r) = Len(s) - 1 /\ Len(s) \in Nat \ {0}
      /\ Head(s) = s[1] /\ s[1] \in Task
      /\ \A i \in 1 .. Len(r) : r[i] = s[i + 1]
  OBVIOUS
<1> HIDE DEF r
<1>2. In(s) = {s[1]} \cup In(r)
  <2>1. ASSUME NEW i \in 1 .. Len(s) PROVE s[i] \in {s[1]} \cup In(r)
    <3>1. CASE i = 1 BY <3>1
    <3>2. CASE i # 1
      <4>1. i - 1 \in 1 .. Len(r) /\ r[i - 1] = s[i] BY <1>1, <3>2
      <4> QED BY <4>1 DEF In
    <3> QED BY <3>1, <3>2
  <2>2. ASSUME NEW i \in 1 .. Len(r) PROVE r[i] \in In(s)
    <3>1. i + 1 \in 1 .. Len(s) /\ r[i] = s[i + 1] BY <1>1
    <3> QED BY <3>1 DEF In
  <2>3. s[1] \in In(s) BY <1>1 DEF In
  <2> QED BY <2>1, <2>2, <2>3 DEF In
<1>3. ASSUME Distinct(s) PROVE Distinct(r) /\ s[1] \notin In(r)
  <2>1. ASSUME NEW i \in 1 .. Len(r), NEW j \in 1 .. Len(r), r[i] = r[j] PROVE i = j
    <3>1. s[i + 1] = s[j + 1] /\ i + 1 \in 1 .. Len(s) /\ j + 1 \in 1 .. Len(s)
      BY <1>1, <2>1
    <3>2. i + 1 = j + 1 BY <1>3, <3>1 DEF Distinct
    <3> QED BY <3>2
  <2>2. ASSUME NEW i \in 1 .. Len(r) PROVE r[i] # s[1]
    <3>1. i + 1 \in 1 .. Len(s) /\ 1 \in 1 .. Len(s) /\ r[i] = s[i + 1] /\ i + 1 # 1 BY <1>1
    <3> QED BY <1>3, <3>1 DEF Distinct
  <2> QED BY <2>1, <2>2 DEF Distinct, In
<1> QED BY <1>1, <1>2, <1>3 DEF r

LEMMA SplitIn ==
  ASSUME NEW s \in Seq(Task), NEW k \in 0 .. Len(s)
  PROVE  LET a == SubSeq(s, 1, k)
             b == SubSeq(s, k + 1, Len(s))
         IN /\ a \in Seq(Task) /\ b \in Seq(Task) /\ Len(a) = k
            /\ In(s) = In(a) \cup In(b)
            /\ Distinct(s) => Distinct(a) /\ Distinct(b) /\ In(a) \cap In(b) = {}
<1> DEFINE a == SubSeq(s, 1, k)
           b == SubSeq(s, k + 1, Len(s))
<1>1. /\ a \in Seq(Task) /\ Len(a) = k /\ k \in Nat /\ Len(s) \in Nat
      /\ \A i \in 1 .. k : a[i] = s[i]
  OBVIOUS
<1>2. /\ b \in Seq(Task) /\ Len(b) = Len(s) - k
      /\ \A i \in 1 .. Len(b) : b[i] = s[k + i]
  OBVIOUS
<1> HIDE DEF a, b
<1>3. In(s) = In(a) \cup In(b)
  <2>1. ASSUME NEW i \in 1 .. Len(s) PROVE s[i] \in In(a) \cup In(b)
    <3>1. CASE i <= k
      <4>1. i \in 1 .. Len(a) /\ a[i] = s[i] BY <1>1, <3>1
      <4> QED BY <4>1 DEF In
    <3>2. CASE i > k
      <4>1. i - k \in 1 .. Len(b) /\ b[i - k] = s[i] BY <1>1, <1>2, <3>2
      <4> QED BY <4>1 DEF In
    <3> QED BY <1>1, <3>1, <3>2
  <2>2. ASSUME NEW i \in 1 .. Len(a) PROVE a[i] \in In(s)
    BY <1>1 DEF In
  <2>3. ASSUME NEW i \in 1 .. Len(b) PROVE b[i] \in In(s)
    <3>1. k + i \in 1 .. Len(s) /\ b[i] = s[k + i] BY <1>1, <1>2
    <3> QED BY <3>1 DEF In
  <2> QED BY <2>1, <2>2, <2>3 DEF In
<1>4. ASSUME Distinct(s) PROVE Distinct(a) /\ Distinct(b) /\ In(a) \cap In(b) = {}
  <2>1. Distinct(a) BY <1>1, <1>4 DEF Distinct
  <2>2. ASSUME NEW i \in 1 .. Len(b), NEW j \in 1 .. Len(b), b[i] = b[j] PROVE i = j
    <3>1. s[k + i] = s[k + j] /\ k + i \in 1 .. Len(s) /\ k + j \in 1 .. Len(s)
      BY <1>1, <1>2, <2>2
    <3>2. k + i = k + j BY <1>4, <3>1 DEF Distinct
    <3> QED BY <1>1, <3>2
  <2>3. ASSUME NEW i \in 1 .. Len(a), NEW j \in 1 .. Len(b) PROVE a[i] # b[j]
    <3>1. /\ a[i] = s[i] /\ b[j] = s[k + j] /\ i # k + j
          /\ i \in 1 .. Len(s) /\ k + j \in 1 .. Len(s)
      BY <1>1, <1>2
    <3> QED BY <1>4, <3>1 DEF Distinct
  <2>4. In(a) \cap In(b) = {} BY <2>3 DEF In
  <2> QED BY <2>1, <2>2, <2>4 DEF Distinct
<1> QED BY <1>1, <1>2, <1>3, <1>4 DEF a, b

LEMMA ConcatIn ==
  ASSUME NEW a \in Seq(Task), NEW b \in Seq(Task)
  PROVE  /\ a \o b \in Seq(Task) /\ In(a \o b) = In(a) \cup In(b)
         /\ Distinct(a) /\ Distinct(b) /\ In(a) \cap In(b) = {} => Distinct(a \o b)
<1> DEFINE s == a \o b
<1>1. /\ s \in Seq(Task) /\ Len(s) = Len(a) + Len(b) /\ Len(a) \in Nat /\ Len(b) \in Nat
      /\ \A i \in 1 .. Len(s) : s[i] = IF i <= Len(a) THEN a[i] ELSE b[i - Len(a)]
  OBVIOUS
<1> HIDE DEF s
<1>2. ASSUME NEW i \in 1 .. Len(s)
      PROVE  \/ i \in 1 .. Len(a) /\ s[i] = a[i]
             \/ i - Len(a) \in 1 .. Len(b) /\ s[i] = b[i - Len(a)]
  BY <1>1
<1>3. In(s) = In(a) \cup In(b)
  <2>1. ASSUME NEW i \in 1 .. Len(s) PROVE s[i] \in In(a) \cup In(b) BY <1>2 DEF In
  <2>2. ASSUME NEW i \in 1 .. Len(a) PROVE a[i] \in In(s)
    <3>1. i \in 1 .. Len(s) /\ s[i] = a[i] BY <1>1
    <3> QED BY <3>1 DEF In
  <2>3. ASSUME NEW i \in 1 .. Len(b) PROVE b[i] \in In(s)
    <3>1. Len(a) + i \in 1 .. Len(s) /\ s[Len(a) + i] = b[i] BY <1>1
    <3> QED BY <3>1 DEF In
  <2> QED BY <2>1, <2>2, <2>3 DEF In
<1>4. ASSUME Distinct(a), Distinct(b), In(a) \cap In(b) = {} PROVE Distinct(s)
  <2> SUFFICES ASSUME NEW i \in 1 .. Len(s), NEW j \in 1 .. Len(s), s[i] = s[j] PROVE i = j
    BY DEF Distinct
  <2>1. CASE i \in 1 .. Len(a) /\ s[i] = a[i] /\ j \in 1 .. Len(a) /\ s[j] = a[j]
    BY <1>4, <2>1 DEF Distinct
  <2>2. CASE /\ i - Len(a) \in 1 .. Len(b) /\ s[i] = b[i - Len(a)]
             /\ j - Len(a) \in 1 .. Len(b) /\ s[j] = b[j - Len(a)]
    <3>1. i - Len(a) = j - Len(a) BY <1>4, <2>2 DEF Distinct
    <3> QED BY <1>1, <3>1
  <2>3. CASE i \in 1 .. Len(a) /\ s[i] = a[i] /\ j - Len(a) \in 1 .. Len(b) /\ s[j] = b[j - Len(a)]
    BY <1>4, <2>3 DEF In
  <2>4. CASE j \in 1 .. Len(a) /\ s[j] = a[j] /\ i - Len(a) \in 1 .. Len(b) /\ s[i] = b[i - Len(a)]
    BY <1>4, <2>4 DEF In
  <2> QED BY <1>2, <2>1, <2>2, <2>3, <2>4
<1> QED BY <1>1, <1>3, <1>4 DEF s

-----------------------------------------------------------------------------
(* What the operations of a P do to the tasks that it holds.               *)

LEMMA EnqueueHeld ==
  ASSUME mode \in {"FIFO", "runnext"}, NEW q \in Queue, Once(q),
         NEW c \in Task \cup {NoTask}, c \notin Held(q)
  PROVE  /\ enqueueChild(q, c) \in Queue /\ Once(enqueueChild(q, c))
         /\ Held(enqueueChild(q, c)) = Held(q) \cup ({c} \ {NoTask})
<1> DEFINE e == enqueueChild(q, c)
<1>0. /\ q.Runq \in Seq(Task) /\ q.Runnext \in Task \cup {NoTask}
      /\ Distinct(q.Runq) /\ q.Runnext \notin In(q.Runq)
  BY DEF Queue, Once
<1>1. CASE c = NoTask BY <1>1 DEF enqueueChild
<1>2. CASE c # NoTask /\ mode = "FIFO"
  <2>1. e = [q EXCEPT !.Runq = Append(q.Runq, c)] BY <1>2 DEF enqueueChild, enqueue
  <2>2. e.Runq = Append(q.Runq, c) /\ e.Runnext = q.Runnext BY <2>1 DEF Queue
  <2>3. /\ Append(q.Runq, c) \in Seq(Task) /\ In(e.Runq) = In(q.Runq) \cup {c}
        /\ Distinct(e.Runq)
    BY <1>0, <1>2, <2>2, AppendIn DEF Held
  <2>4. e \in Queue BY <2>1, <2>3 DEF Queue
  <2> HIDE DEF e
  <2>5. q.Runnext # c BY <1>2 DEF Held
  <2> QED BY <1>0, <1>2, <2>2, <2>3, <2>4, <2>5 DEF Once, Held, e
<1>3. CASE c # NoTask /\ mode = "runnext" /\ q.Runnext = NoTask
  <2>1. e = [Runq |-> q.Runq, Runnext |-> c] BY <1>3 DEF enqueueChild, enqueue
  <2> QED BY <1>0, <1>3, <2>1 DEF Queue, Once, Held
<1>4. CASE c # NoTask /\ mode = "runnext" /\ q.Runnext # NoTask
  <2>1. e = [Runq |-> Append(q.Runq, q.Runnext), Runnext |-> c]
    BY <1>4 DEF enqueueChild, enqueue
  <2>2. /\ Append(q.Runq, q.Runnext) \in Seq(Task) /\ In(e.Runq) = In(q.Runq) \cup {q.Runnext}
        /\ Distinct(e.Runq)
    BY <1>0, <1>4, <2>1, AppendIn
  <2>3. e.Runnext = c /\ e \in Queue BY <2>1, <2>2 DEF Queue
  <2> HIDE DEF e
  <2> QED BY <1>0, <1>4, <2>2, <2>3 DEF Once, Held, e
<1> QED BY <1>1, <1>2, <1>3, <1>4

LEMMA PopHeld ==
  ASSUME NEW q \in Queue, Once(q), hasWork(q)
  PROVE  /\ popped(q) \in Held(q) /\ afterPop(q) \in Queue /\ Once(afterPop(q))
         /\ Held(afterPop(q)) = Held(q) \ {popped(q)}
<1>0. /\ q.Runq \in Seq(Task) /\ q.Runnext \in Task \cup {NoTask}
      /\ Distinct(q.Runq) /\ q.Runnext \notin In(q.Runq)
  BY DEF Queue, Once
<1>i. In(q.Runq) \subseteq Task BY <1>0 DEF In
<1>1. CASE q.Runnext # NoTask
  <2>1. afterPop(q) = [q EXCEPT !.Runnext = NoTask] /\ popped(q) = q.Runnext
    BY <1>1 DEF afterPop, popped
  <2>2. afterPop(q).Runq = q.Runq /\ afterPop(q).Runnext = NoTask /\ afterPop(q) \in Queue
    BY <2>1 DEF Queue
  <2> QED BY <1>0, <1>1, <1>i, <2>1, <2>2 DEF Once, Held
<1>2. CASE q.Runnext = NoTask
  <2>1. afterPop(q) = [q EXCEPT !.Runq = Tail(q.Runq)] /\ popped(q) = Head(q.Runq)
    BY <1>2 DEF afterPop, popped
  <2>2. q.Runq # <<>> BY <1>2 DEF hasWork
  <2>3. /\ Tail(q.Runq) \in Seq(Task) /\ In(q.Runq) = {Head(q.Runq)} \cup In(Tail(q.Runq))
        /\ Distinct(Tail(q.Runq)) /\ Head(q.Runq) \notin In(Tail(q.Runq))
    BY <1>0, <2>2, TailIn
  <2>4. afterPop(q).Runq = Tail(q.Runq) /\ afterPop(q).Runnext = NoTask /\ afterPop(q) \in Queue
    BY <1>2, <2>1, <2>3 DEF Queue
  <2> QED BY <1>2, <1>i, <2>1, <2>3, <2>4 DEF Once, Held
<1> QED BY <1>1, <1>2

LEMMA StealHeld ==
  ASSUME NEW q \in Queue, Once(q), q.Runq # <<>>
  PROVE  LET h == Head(stolen(q))
             r == Tail(stolen(q))
             rest == afterSteal(q)
         IN /\ h \in Task /\ r \in Seq(Task) /\ Distinct(r) /\ h \notin In(r)
            /\ rest \in Queue /\ Once(rest)
            /\ Held(q) = {h} \cup In(r) \cup Held(rest)
            /\ ({h} \cup In(r)) \cap Held(rest) = {}
<1> DEFINE b == SubSeq(q.Runq, half(q) + 1, Len(q.Runq))
<1>0. /\ q.Runq \in Seq(Task) /\ q.Runnext \in Task \cup {NoTask}
      /\ Distinct(q.Runq) /\ q.Runnext \notin In(q.Runq)
  BY DEF Queue, Once
<1>1. Len(q.Runq) \in Nat \ {0} BY <1>0
<1>2. half(q) \in 0 .. Len(q.Runq) /\ half(q) # 0
  <2>1. half(q) \in 1 .. Len(q.Runq) BY <1>1, HalfOf DEF half
  <2> QED BY <2>1
<1>3. /\ stolen(q) \in Seq(Task) /\ b \in Seq(Task) /\ Len(stolen(q)) = half(q)
      /\ In(q.Runq) = In(stolen(q)) \cup In(b)
      /\ Distinct(stolen(q)) /\ Distinct(b) /\ In(stolen(q)) \cap In(b) = {}
  BY <1>0, <1>2, SplitIn DEF stolen
<1>4. stolen(q) # <<>> BY <1>2, <1>3
<1>5. /\ Tail(stolen(q)) \in Seq(Task) /\ Head(stolen(q)) \in Task
      /\ In(stolen(q)) = {Head(stolen(q))} \cup In(Tail(stolen(q)))
      /\ Distinct(Tail(stolen(q))) /\ Head(stolen(q)) \notin In(Tail(stolen(q)))
  BY <1>3, <1>4, TailIn
<1>6. afterSteal(q) = [q EXCEPT !.Runq = b] BY DEF afterSteal
<1> HIDE DEF b
<1>7. afterSteal(q).Runq = b /\ afterSteal(q).Runnext = q.Runnext /\ afterSteal(q) \in Queue
  BY <1>3, <1>6 DEF Queue
<1>8. In(q.Runq) \subseteq Task BY <1>0 DEF In
<1>9. /\ Held(q) = In(q.Runq) \cup ({q.Runnext} \ {NoTask})
      /\ Held(afterSteal(q)) = In(b) \cup ({q.Runnext} \ {NoTask})
  BY <1>7 DEF Held
<1>10. Once(afterSteal(q)) BY <1>0, <1>3, <1>7 DEF Once
<1> QED BY <1>0, <1>3, <1>5, <1>7, <1>8, <1>9, <1>10

LEMMA AppendHeld ==
  ASSUME NEW q \in Queue, Once(q), NEW s \in Seq(Task), Distinct(s), In(s) \cap Held(q) = {}
  PROVE  /\ append(q, s) \in Queue /\ Once(append(q, s))
         /\ Held(append(q, s)) = Held(q) \cup In(s)
<1>0. /\ q.Runq \in Seq(Task) /\ Distinct(q.Runq) /\ q.Runnext \notin In(q.Runq)
      /\ Held(q) = In(q.Runq) \cup ({q.Runnext} \ {NoTask})
  BY DEF Queue, Once, Held
<1>1. /\ q.Runq \o s \in Seq(Task) /\ In(q.Runq \o s) = In(q.Runq) \cup In(s)
      /\ Distinct(q.Runq \o s)
  BY <1>0, ConcatIn
<1>2. append(q, s) = [q EXCEPT !.Runq = q.Runq \o s] BY DEF append
<1>3. /\ append(q, s).Runq = q.Runq \o s /\ append(q, s).Runnext = q.Runnext
      /\ append(q, s) \in Queue
  BY <1>1, <1>2 DEF Queue
<1>4. In(s) \subseteq Task BY DEF In
<1>5. q.Runnext \notin In(s) BY <1>0, <1>4
<1> QED BY <1>0, <1>1, <1>3, <1>5 DEF Once, Held

-----------------------------------------------------------------------------
(* The invariant.                                                          *)

IInv == TypeOK /\ NoTaskLostOrDoubled

LEMMA HeldAreTasks == ASSUME NEW q \in Queue PROVE Held(q) \subseteq Task
  BY DEF Held, In, Queue

(* The first queue holds what is not fresh.                                *)
LEMMA InitInv == Init => IInv
<1> SUFFICES ASSUME Init PROVE IInv OBVIOUS
<1>1. PICK p \in Proc :
        /\ Distinct(proc[p].Runq)
        /\ \A o \in Proc \ {p} : proc[o] = newProc(<<>>)
        /\ fresh = Task \ In(proc[p].Runq)
  BY DEF Init
<1>2. TypeOK BY <1>1 DEF Init, TypeOK, Queue
<1>3. \A o \in Proc : proc[o].Runq \in Seq(Task) /\ proc[o].Runnext = NoTask BY DEF Init
<1>4. \A o \in Proc : In(proc[o].Runq) \subseteq Task BY <1>3, InTask
<1>5. \A o \in Proc \ {p} : proc[o].Runq = <<>> /\ In(proc[o].Runq) = {}
  <2> SUFFICES ASSUME NEW o \in Proc \ {p} PROVE proc[o].Runq = <<>> /\ In(proc[o].Runq) = {}
    OBVIOUS
  <2>1. proc[o] = newProc(<<>>) BY <1>1
  <2>2. proc[o].Runq = <<>> BY <2>1 DEF newProc
  <2> QED BY <2>2, InTask
<1>6. \A o \in Proc : Held(proc[o]) = In(proc[o].Runq) BY <1>3, <1>4 DEF Held
<1>7. \A o \in Proc : Once(proc[o])
  <2> SUFFICES ASSUME NEW o \in Proc PROVE Once(proc[o]) OBVIOUS
  <2>1. Distinct(proc[o].Runq) BY <1>1, <1>5 DEF Distinct
  <2> QED BY <2>1, <1>3, <1>4 DEF Once
<1>8. Waiting = In(proc[p].Runq) BY <1>5, <1>6 DEF Waiting
<1>9. OnePlace BY <1>5, <1>6, <1>7 DEF OnePlace
<1> QED BY <1>1, <1>2, <1>4, <1>8, <1>9 DEF IInv, NoTaskLostOrDoubled, Init

(* One P changes: it runs the tasks of "gone" and gets those of "new".     *)
LEMMA OneChanges ==
  ASSUME IInv, NEW p \in Proc, NEW q \in Queue, Once(q), proc' = [proc EXCEPT ![p] = q],
         NEW gone \in SUBSET Held(proc[p]), NEW new \in SUBSET fresh,
         Held(q) = (Held(proc[p]) \ gone) \cup new,
         done' = done \cup gone, fresh' = fresh \ new, mode' = mode
  PROVE  IInv'
<1> USE DEF IInv, TypeOK, NoTaskLostOrDoubled, OnePlace
<1>1. proc[p] \in Queue /\ Held(proc[p]) \subseteq Task BY HeldAreTasks
<1>2. TypeOK' BY <1>1
<1>3. proc'[p] = q /\ \A o \in Proc \ {p} : proc'[o] = proc[o] OBVIOUS
<1>4. Held(proc[p]) \subseteq Waiting BY DEF Waiting
<1>5. \A o \in Proc : Held(proc[o]) \subseteq Waiting BY DEF Waiting
<1>6. OnePlace'
  <2>1. \A o \in Proc : Once(proc'[o]) BY <1>3
  <2>2. \A o \in Proc \ {p} : Held(q) \cap Held(proc[o]) = {} BY <1>5
  <2>3. \A o, v \in Proc : o # v => Held(proc'[o]) \cap Held(proc'[v]) = {} BY <1>3, <2>2
  <2> QED BY <2>1, <2>3 DEF Once, Held
<1>7. Waiting' = (Waiting \ gone) \cup new
  <2>1. Waiting' = UNION {Held(proc'[o]) : o \in Proc} BY DEF Waiting, Held
  <2>2. \A o \in Proc \ {p} : Held(proc[o]) \cap gone = {} OBVIOUS
  <2>3. ASSUME NEW t \in (Waiting \ gone) \cup new PROVE \E o \in Proc : t \in Held(proc'[o])
    <3>1. CASE t \in new BY <1>3, <3>1
    <3>2. CASE t \notin new
      <4>1. PICK o \in Proc : t \in Held(proc[o]) BY <3>2 DEF Waiting
      <4> QED BY <1>3, <2>3, <3>2, <4>1
    <3> QED BY <3>1, <3>2
  <2>4. ASSUME NEW o \in Proc, NEW t \in Held(proc'[o]) PROVE t \in (Waiting \ gone) \cup new
    BY <1>3, <1>5, <2>2
  <2> QED BY <2>1, <2>3, <2>4
<1> HIDE DEF OnePlace
<1> QED BY <1>2, <1>4, <1>6, <1>7

LEMMA StepInv == IInv /\ [Next]_vars => IInv'
<1> SUFFICES ASSUME IInv, [Next]_vars PROVE IInv' OBVIOUS
<1> USE DEF IInv, TypeOK, NoTaskLostOrDoubled
<1>0. /\ \A p \in Proc : proc[p] \in Queue /\ Once(proc[p])
      /\ \A p \in Proc : Held(proc[p]) \subseteq Waiting
  BY DEF OnePlace, Waiting
<1>1. ASSUME NEW p \in Proc, NEW t \in fresh, Enqueue(p, t) PROVE IInv'
  <2> DEFINE q == enqueueChild(proc[p], t)
  <2>1. t \in Task /\ t # NoTask /\ t \notin Held(proc[p]) BY <1>0
  <2>2. q = enqueue(proc[p], t) BY <2>1 DEF enqueueChild
  <2>3. q \in Queue /\ Once(q) /\ Held(q) = Held(proc[p]) \cup ({t} \ {NoTask})
    BY <1>0, <2>1, EnqueueHeld
  <2>4. /\ proc' = [proc EXCEPT ![p] = q] /\ fresh' = fresh \ {t}
        /\ done' = done \cup {} /\ mode' = mode
    BY <1>1, <2>2 DEF Enqueue
  <2> HIDE DEF q
  <2>5. Held(q) = (Held(proc[p]) \ {}) \cup {t} BY <2>1, <2>3
  <2>6. {} \in SUBSET Held(proc[p]) /\ {t} \in SUBSET fresh OBVIOUS
  <2> HIDE DEF IInv
  <2> QED BY <2>3, <2>4, <2>5, <2>6, OneChanges
<1>2. ASSUME NEW p \in Proc, NEW c \in Child, RunLocal(p, c) PROVE IInv'
  <2> DEFINE rest == afterPop(proc[p])
             q == enqueueChild(rest, c)
             t == popped(proc[p])
             new == {c} \ {NoTask}
  <2>1. /\ t \in Held(proc[p]) /\ rest \in Queue /\ Once(rest)
        /\ Held(rest) = Held(proc[p]) \ {t}
    BY <1>0, <1>2, PopHeld DEF RunLocal
  <2>2. /\ proc' = [proc EXCEPT ![p] = q] /\ fresh' = fresh \ {c}
        /\ done' = done \cup {t} /\ mode' = mode
    BY <1>2 DEF RunLocal
  <2>3. c \in Task \cup {NoTask} /\ c \notin Held(proc[p])
    BY <1>0, HeldAreTasks DEF Child
  <2>4. q \in Queue /\ Once(q) /\ Held(q) = Held(rest) \cup new
    BY <2>1, <2>3, EnqueueHeld
  <2>5. new \in SUBSET fresh /\ fresh \ {c} = fresh \ new BY DEF Child
  <2>6. {t} \in SUBSET Held(proc[p]) BY <2>1
  <2> HIDE DEF q, rest, t, new, IInv
  <2>7. Held(q) = (Held(proc[p]) \ {t}) \cup new BY <2>1, <2>4
  <2> QED BY <2>2, <2>4, <2>5, <2>6, <2>7, OneChanges
<1>3. ASSUME NEW p \in Proc, NEW v \in Proc, NEW c \in Child, StealAndRun(p, v, c) PROVE IInv'
  <2> DEFINE h == Head(stolen(proc[v]))
             r == Tail(stolen(proc[v]))
             left == afterSteal(proc[v])
             mine == enqueueChild(proc[p], c)
             q == append(mine, r)
             new == {c} \ {NoTask}
  <2>1. /\ h \in Task /\ r \in Seq(Task) /\ Distinct(r) /\ h \notin In(r)
        /\ left \in Queue /\ Once(left)
        /\ Held(proc[v]) = {h} \cup In(r) \cup Held(left)
        /\ ({h} \cup In(r)) \cap Held(left) = {}
    BY <1>0, <1>3, StealHeld DEF StealAndRun
  <2>2. Held(proc[p]) = {}
    <3>1. proc[p].Runnext = NoTask /\ proc[p].Runq = <<>> BY <1>3 DEF StealAndRun, hasWork
    <3> QED BY <3>1 DEF Held, In
  <2>3. c \in Task \cup {NoTask} /\ c \notin Held(proc[p]) /\ c \notin Held(proc[v])
    BY <1>0, <2>2, HeldAreTasks DEF Child
  <2>4. mine \in Queue /\ Once(mine) /\ Held(mine) = new
    BY <1>0, <2>2, <2>3, EnqueueHeld
  <2>5. In(r) \cap Held(mine) = {} BY <2>1, <2>3, <2>4
  <2>6. q \in Queue /\ Once(q) /\ Held(q) = new \cup In(r)
    BY <2>1, <2>4, <2>5, AppendHeld
  <2>7. /\ proc' = [proc EXCEPT ![v] = left, ![p] = q] /\ p # v
        /\ fresh' = fresh \ {c} /\ done' = done \cup {h} /\ mode' = mode
    BY <1>3 DEF StealAndRun
  <2>8. new \in SUBSET fresh /\ fresh \ {c} = fresh \ new BY DEF Child
  <2> HIDE DEF h, r, left, mine, q, new
  (* The thief's new queue and the rest of the other, one after the other. *)
  <2>9. /\ proc'[p] = q /\ proc'[v] = left /\ proc' \in [Proc -> Queue]
        /\ \A o \in Proc \ {p, v} : proc'[o] = proc[o]
    BY <2>1, <2>6, <2>7
  <2>10. h \in Held(proc[v]) /\ Held(left) \subseteq Held(proc[v]) /\ In(r) \subseteq Held(proc[v])
    BY <2>1
  <2>11. \A o \in Proc \ {v} : Held(proc[o]) \cap Held(proc[v]) = {} BY DEF OnePlace
  <2>12. Held(q) \cap Held(left) = {} BY <1>0, <2>1, <2>6, <2>8, <2>10
  <2>13. \A o \in Proc \ {p, v} : Held(proc[o]) \cap (Held(q) \cup Held(left) \cup {h}) = {}
    BY <1>0, <2>6, <2>8, <2>10, <2>11
  <2>14. OnePlace'
    <3>1. \A o \in Proc : Once(proc'[o]) BY <1>0, <2>1, <2>6, <2>9
    <3>2. \A o, u \in Proc : o # u => Held(proc'[o]) \cap Held(proc'[u]) = {}
      <4> SUFFICES ASSUME NEW o \in Proc, NEW u \in Proc, o # u
                   PROVE  Held(proc'[o]) \cap Held(proc'[u]) = {}
        OBVIOUS
      <4>1. CASE o \notin {p, v} /\ u \notin {p, v} BY <2>9, <4>1 DEF OnePlace
      <4>2. CASE o \in {p, v} /\ u \notin {p, v} BY <2>9, <2>13, <4>2
      <4>3. CASE o \notin {p, v} /\ u \in {p, v} BY <2>9, <2>13, <4>3
      <4>4. CASE o \in {p, v} /\ u \in {p, v} BY <2>9, <2>12, <4>4
      <4> QED BY <4>1, <4>2, <4>3, <4>4
    <3> QED BY <3>1, <3>2 DEF OnePlace, Once, Held
  <2>15. Waiting' = (Waiting \ {h}) \cup new
    <3>1. Waiting' = UNION {Held(proc'[o]) : o \in Proc} BY DEF Waiting, Held
    <3>2. ASSUME NEW t \in (Waiting \ {h}) \cup new PROVE \E o \in Proc : t \in Held(proc'[o])
      <4>1. CASE t \in new BY <2>6, <2>9, <4>1
      <4>2. CASE t \notin new
        <5>1. PICK o \in Proc : t \in Held(proc[o]) BY <4>2 DEF Waiting
        <5>2. CASE o = v
          <6>1. t \in In(r) \/ t \in Held(left) BY <2>1, <3>2, <4>2, <5>1, <5>2
          <6> QED BY <2>6, <2>9, <6>1
        <5>3. CASE o # v BY <2>2, <2>9, <5>1, <5>3
        <5> QED BY <5>2, <5>3
      <4> QED BY <4>1, <4>2
    <3>3. ASSUME NEW o \in Proc, NEW t \in Held(proc'[o]) PROVE t \in (Waiting \ {h}) \cup new
      <4>1. CASE o = p
        <5>1. t \in new \/ (t \in In(r) /\ t # h) BY <2>1, <2>6, <2>9, <3>3, <4>1
        <5> QED BY <1>0, <2>10, <5>1
      <4>2. CASE o = v
        <5>1. t \in Held(left) /\ t # h BY <2>1, <2>9, <3>3, <4>2
        <5> QED BY <1>0, <2>10, <5>1
      <4>3. CASE o \notin {p, v}
        <5>1. t \in Held(proc[o]) /\ t # h BY <2>9, <2>13, <3>3, <4>3
        <5> QED BY <1>0, <5>1
      <4> QED BY <4>1, <4>2, <4>3
    <3> QED BY <3>1, <3>2, <3>3
  <2>16. h \in Waiting BY <1>0, <2>10
  <2>17. TypeOK' BY <2>1, <2>7, <2>9
  <2> QED BY <2>7, <2>8, <2>14, <2>15, <2>16, <2>17
<1>4. CASE UNCHANGED vars
  BY <1>4 DEF vars, Waiting, OnePlace, Once, Held
<1> QED BY <1>1, <1>2, <1>3, <1>4 DEF Next

(* However many Ps push, run and steal in whatever order: every task is    *)
(* not made yet, waits in exactly one place, or has run.                   *)
THEOREM NothingLost == Spec => []NoTaskLostOrDoubled
<1>1. IInv => NoTaskLostOrDoubled BY DEF IInv
<1> QED BY <1>1, InitInv, StepInv, PTL DEF Spec

(* The state always has its type.                                          *)
THEOREM TypeCorrect == Spec => []TypeOK
<1>1. IInv => TypeOK BY DEF IInv
<1> QED BY <1>1, InitInv, StepInv, PTL DEF Spec

(* What is in a slot is out of a thief's reach: it leaves by running, or   *)
(* goes to the tail of the queue of the same P when a newer task comes.    *)
SlotKept(p) ==
  LET t == proc[p].Runnext
  IN t # NoTask /\ proc'[p].Runnext # t =>
       t \in done' \/ proc'[p].Runq = Append(proc[p].Runq, t)

(* Putting a task into a P moves what was in its slot to the tail.         *)
LEMMA EnqueueKeepsSlot ==
  ASSUME NEW q \in Queue, NEW c \in Task \cup {NoTask}, q.Runnext # NoTask,
         enqueueChild(q, c).Runnext # q.Runnext
  PROVE  enqueueChild(q, c).Runq = Append(q.Runq, q.Runnext)
<1>1. CASE c = NoTask BY <1>1 DEF enqueueChild
<1>2. CASE c # NoTask /\ mode = "FIFO" BY <1>2 DEF enqueueChild, enqueue, Queue
<1>3. CASE c # NoTask /\ mode # "FIFO" BY <1>3 DEF enqueueChild, enqueue
<1> QED BY <1>1, <1>2, <1>3

LEMMA SlotStep ==
  ASSUME TypeOK, [Next]_vars, NEW o \in Proc PROVE SlotKept(o)
<1> SUFFICES ASSUME proc[o].Runnext # NoTask, proc'[o].Runnext # proc[o].Runnext
             PROVE  \/ proc[o].Runnext \in done'
                    \/ proc'[o].Runq = Append(proc[o].Runq, proc[o].Runnext)
  BY DEF SlotKept
<1>0. proc \in [Proc -> Queue] /\ proc[o] \in Queue BY DEF TypeOK
<1>1. ASSUME NEW p \in Proc, NEW t \in fresh, Enqueue(p, t)
      PROVE  proc'[o].Runq = Append(proc[o].Runq, proc[o].Runnext)
  <2>1. t \in Task /\ t # NoTask BY DEF TypeOK
  <2>2. proc' = [proc EXCEPT ![p] = enqueueChild(proc[p], t)]
    BY <1>1, <2>1 DEF Enqueue, enqueueChild
  <2>3. o = p /\ proc'[o] = enqueueChild(proc[o], t) BY <1>0, <2>2
  <2> QED BY <1>0, <2>1, <2>3, EnqueueKeepsSlot
<1>2. ASSUME NEW p \in Proc, NEW c \in Child, RunLocal(p, c)
      PROVE  proc[o].Runnext \in done'
  <2>1. proc' = [proc EXCEPT ![p] = enqueueChild(afterPop(proc[p]), c)] BY <1>2 DEF RunLocal
  <2>2. o = p BY <1>0, <2>1
  <2>3. popped(proc[o]) = proc[o].Runnext BY DEF popped
  <2> QED BY <1>2, <2>2, <2>3 DEF RunLocal
<1>3. ASSUME NEW p \in Proc, NEW v \in Proc, NEW c \in Child, StealAndRun(p, v, c)
      PROVE  FALSE
  <2>1. /\ p # v /\ proc[p].Runnext = NoTask
        /\ proc' = [proc EXCEPT ![v] = afterSteal(proc[v]),
                               ![p] = append(enqueueChild(proc[p], c), Tail(stolen(proc[v])))]
    BY <1>3 DEF StealAndRun, hasWork
  <2>2. o # p BY <2>1
  <2>3. proc'[v] = afterSteal(proc[v]) BY <1>0, <2>1
  <2>4. o = v BY <1>0, <2>1, <2>2
  <2> QED BY <1>0, <2>3, <2>4 DEF afterSteal, Queue
<1>4. CASE UNCHANGED vars BY <1>4 DEF vars
<1> QED BY <1>1, <1>2, <1>3, <1>4 DEF Next

(* Whatever is pushed and stolen, no thief takes a task out of a slot.     *)
THEOREM SlotStaysLocal == Spec => SlotIsNotStolen
<1>1. TypeOK /\ [Next]_vars => [\A p \in Proc : SlotKept(p)]_vars BY SlotStep
<1> QED BY <1>1, TypeCorrect, PTL DEF Spec, SlotIsNotStolen, SlotKept

-----------------------------------------------------------------------------
(* The demonstration.                                                      *)

(* The demonstration stands where its ticks say: Hot is not made before    *)
(* the trigger ran, and waits in the slot of the P that ran it.            *)
InSlot(p) == proc[p].Runnext = Hot
DemoStands ==
  /\ trigger \in Task \ {Hot} /\ tick \in Nat /\ turn \in 0 .. 2
  /\ turn = 2 <=> HotTick # -1
  /\ trigger \notin done => Hot \in fresh /\ HotTick = -1
  /\ trigger \in done => triggerTick \in 0 .. tick
  /\ mode = "runnext" /\ trigger \in done /\ turn # 2 =>
       \/ InSlot(0) /\ tick = triggerTick + (1 - turn)
       \/ InSlot(1) /\ tick = triggerTick + 1
  /\ HotTick # -1 =>
       IF mode = "runnext" THEN HotTick = triggerTick + 1 ELSE HotTick >= triggerTick

(* With ten tasks, the first the trigger, P 1 steals five of them at once, *)
(* and Hot comes after the four that are left.                             *)
LeftTasks == <<2, 3, 4, 5, 6, 7, 8, 9, 10, Hot>>
LateTasks == <<7, 8, 9, 10, Hot>>
EarlyTasks == <<3, 4, 5, 6>>
TenTasksAre ==
  /\ turn # 2 => proc[0].Runnext = NoTask /\ proc[1].Runnext = NoTask
  /\ turn = 2 => HotTick = 5 /\ Stolen = 5
  /\ tick = 0 /\ turn # 2 => /\ turn = 1 /\ Stolen = 0 /\ proc[1].Runq = <<>>
                /\ proc[0].Runq = LeftTasks
  /\ tick # 0 /\ turn # 2 =>
       /\ Stolen = 5 /\ tick + turn \in 1 .. 5
       /\ proc[0].Runq = SubSeq(LateTasks, tick + turn, 5)
       /\ proc[1].Runq = SubSeq(EarlyTasks, tick, 4)

DemoStarted(n) ==
  /\ trigger \in 1 .. n /\ 1 .. n \subseteq Task \ {Hot}
  /\ Task \ fresh = 1 .. n \cup (IF trigger \in done THEN {Hot} ELSE {})
  /\ trigger = 1 /\ trigger \notin done =>
       /\ turn = 0 /\ tick = 0 /\ Stolen = 0
       /\ proc[0] = newProc(FirstTasks(n)) /\ proc[1] = newProc(<<>>)
  /\ trigger = 1 /\ trigger \in done => triggerTick = 0
  /\ trigger = 1 /\ trigger \in done /\ n = 10 /\ mode = "FIFO" => TenTasksAre

DemoInv ==
  /\ demo \in BOOLEAN /\ HotTick \in Nat \cup {-1}
  /\ IF demo THEN DemoStands /\ \E n \in Nat : DemoStarted(n) ELSE HotTick = -1

LEMMA FirstTasksAre ==
  /\ \A n \in 1 .. Cardinality(Task) - 1 : 1 .. n \subseteq Task \ {Hot}
  /\ \A n \in 0 .. Cardinality(Few) : n \in Nat /\ 1 .. n \subseteq Task \ {Hot}
  /\ Cardinality(Task) \in Nat
<1> DEFINE N == Cardinality(Task) - 1
<1>1. Cardinality(Task) \in Nat /\ Cardinality(Task) # 0
  BY DemoAssumption, FS_CardinalityType, FS_EmptySet
<1>2. N \in Nat /\ 1 .. N = Task \ {Hot}
  BY <1>1, DemoAssumption
<1> HIDE DEF N
<1>3. IsFiniteSet(1 .. N) /\ Cardinality(1 .. N) = N
  BY <1>2, FS_Interval
<1>4. Few \subseteq 1 .. N
  BY <1>2, DemoAssumption
<1>5. Cardinality(Few) \in Nat /\ Cardinality(Few) <= N
  BY <1>3, <1>4, FS_Subset, FS_CardinalityType
<1>6. \A n \in Nat : n <= N => 1 .. n \subseteq 1 .. N
  BY <1>2
<1>7. \A n \in 1 .. N : 1 .. n \subseteq Task \ {Hot}
  BY <1>2, <1>6
<1>8. \A n \in 0 .. Cardinality(Few) : n \in Nat /\ 1 .. n \subseteq Task \ {Hot}
  BY <1>2, <1>5, <1>6
<1> QED BY <1>1, <1>7, <1>8 DEF N

LEMMA StartIsInit ==
  ASSUME NEW n \in Nat, 1 .. n \subseteq Task, Start(n), mode \in {"FIFO", "runnext"}, done = {}
  PROVE  Init
<1> DEFINE first == FirstTasks(n)
<1>1. /\ first \in Seq(Task) /\ Len(first) = n /\ \A i \in 1 .. n : first[i] = i
  BY DEF FirstTasks
<1>2. In(first) = 1 .. n /\ Distinct(first)
  BY <1>1 DEF In, Distinct
<1>3. 0 \in Proc
  BY DemoAssumption
<1> HIDE DEF first
<1>4. /\ proc = [p \in Proc |-> newProc(IF p = 0 THEN first ELSE <<>>)]
      /\ fresh = Task \ 1 .. n
  BY DEF Start, first
<1>5. /\ proc[0].Runq = first
      /\ \A o \in Proc \ {0} : proc[o] = newProc(<<>>)
  BY <1>3, <1>4 DEF newProc
<1>6. proc \in [Proc -> [Runq : Seq(Task), Runnext : {NoTask}]]
  BY <1>1, <1>4 DEF newProc
<1> QED BY <1>2, <1>3, <1>4, <1>5, <1>6 DEF Init

LEMMA DemoBegins == DemoInit => Init /\ DemoInv
<1> SUFFICES ASSUME DemoInit PROVE Init /\ DemoInv
  OBVIOUS
<1>0. /\ mode \in {"FIFO", "runnext"} /\ done = {}
      /\ tick = 0 /\ turn = 0 /\ triggerTick = -1 /\ HotTick = -1 /\ Stolen = 0
  BY DEF DemoInit
<1>1. ASSUME NEW n \in 1 .. Cardinality(Task) - 1, demo = TRUE, Start(n), trigger \in 1 .. n
      PROVE  Init /\ DemoInv
  <2>1. n \in Nat /\ 1 .. n \subseteq Task \ {Hot}
    BY FirstTasksAre
  <2>2. Init
    BY <1>0, <1>1, <2>1, StartIsInit
  <2>3. fresh = Task \ 1 .. n /\ Hot \in Task
    BY <1>1, DemoAssumption DEF Start
  <2>4. trigger \notin done /\ Hot \in fresh
    BY <1>0, <2>1, <2>3
  <2>5. DemoStands
    BY <1>0, <1>1, <2>1, <2>4 DEF DemoStands
  <2>6. Task \ fresh = 1 .. n
    BY <2>1, <2>3
  <2>7. proc[0] = newProc(FirstTasks(n)) /\ proc[1] = newProc(<<>>)
    BY <1>1, DemoAssumption DEF Start
  <2>8. DemoStarted(n)
    BY <1>0, <1>1, <2>1, <2>4, <2>6, <2>7 DEF DemoStarted
  <2> QED BY <1>0, <1>1, <2>1, <2>2, <2>5, <2>8 DEF DemoInv
<1>2. ASSUME NEW n \in 0 .. Cardinality(Few), demo = FALSE, Start(n)
      PROVE  Init /\ DemoInv
  <2>1. n \in Nat /\ 1 .. n \subseteq Task
    BY FirstTasksAre
  <2> QED BY <1>0, <1>2, <2>1, StartIsInit DEF DemoInv
<1> QED BY <1>1, <1>2 DEF DemoInit

(* What a P takes has not run, and was made.                               *)
LEMMA PoppedWaits ==
  ASSUME IInv, NEW p \in Proc, hasWork(proc[p])
  PROVE  /\ popped(proc[p]) \in Held(proc[p])
         /\ popped(proc[p]) \in Task \ (done \cup fresh)
<1>1. proc[p] \in Queue /\ Held(proc[p]) \subseteq Task /\ Held(proc[p]) \subseteq Waiting
  BY HeldAreTasks DEF IInv, TypeOK, Waiting
<1>2. popped(proc[p]) \in Held(proc[p])
  <2>1. CASE proc[p].Runnext # NoTask
    BY <2>1 DEF popped, Held
  <2>2. CASE proc[p].Runnext = NoTask
    <3>1. proc[p].Runq # <<>> /\ proc[p].Runq \in Seq(Task)
      BY <1>1, <2>2 DEF hasWork, Queue
    <3>2. 1 \in 1 .. Len(proc[p].Runq) /\ Head(proc[p].Runq) = proc[p].Runq[1]
      BY <3>1
    <3> QED BY <2>2, <3>2 DEF popped, Held, In
  <2> QED BY <2>1, <2>2
<1> QED BY <1>1, <1>2 DEF IInv, NoTaskLostOrDoubled

LEMMA StolenWaits ==
  ASSUME IInv, NEW v \in Proc, proc[v].Runq # <<>>
  PROVE  /\ stolen(proc[v]) \in Seq(Task) /\ stolen(proc[v]) # <<>>
         /\ Head(stolen(proc[v])) \in In(proc[v].Runq)
         /\ Head(stolen(proc[v])) \in Task \ (done \cup fresh)
<1>1. proc[v] \in Queue /\ Held(proc[v]) \subseteq Task /\ Held(proc[v]) \subseteq Waiting
  BY HeldAreTasks DEF IInv, TypeOK, Waiting
<1> DEFINE q == proc[v].Runq
           h == half(proc[v])
<1>2. q \in Seq(Task) /\ Len(q) \in Nat \ {0}
  BY <1>1, EmptySeq DEF Queue
<1>3. h \in 1 .. Len(q)
  BY <1>2, HalfOf DEF half
<1> HIDE DEF q, h
<1>4. \A i \in 1 .. h : q[i] \in Task
  BY <1>2, <1>3, ElementOfSeq
<1>5. /\ SubSeq(q, 1, h) \in Seq(Task) /\ Len(SubSeq(q, 1, h)) = h
      /\ SubSeq(q, 1, h)[1] = q[1]
  BY <1>2, <1>3, <1>4, SubSeqProperties
<1>6. SubSeq(q, 1, h) # <<>> /\ Head(SubSeq(q, 1, h)) = q[1]
  BY <1>3, <1>5, EmptySeq
<1>7. q[1] \in In(q)
  BY <1>2 DEF In
<1>8. stolen(proc[v]) = SubSeq(q, 1, h)
  BY DEF stolen, q, h
<1>9. q[1] \in Held(proc[v])
  BY <1>7 DEF Held, q
<1> QED BY <1>1, <1>5, <1>6, <1>7, <1>8, <1>9 DEF IInv, NoTaskLostOrDoubled, q

(* p moves in its turn: it runs t, or idles if t is no task.  In the mode  *)
(* of the slot a P runs what is in its own, and makes Hot there.           *)
Moves(p, t) ==
  /\ demo /\ turn = p /\ Ran(p, t)
  /\ \/ t = NoTask /\ UNCHANGED vars
     \/ /\ t \in Task \ (done \cup fresh)
        /\ done' = done \cup {t} /\ fresh' = fresh \ {child(t)} /\ mode' = mode
Slots(p, t) ==
  mode = "runnext" =>
    /\ t = trigger => proc'[p].Runnext = Hot
    /\ InSlot(p) => t = Hot
    /\ InSlot(1 - p) /\ t # trigger => proc'[1 - p].Runnext = Hot /\ t # Hot

LEMMA ChildIsChild ==
  ASSUME DemoInv, demo, NEW t, t \notin done
  PROVE  child(t) \in Child /\ (t # trigger => child(t) = NoTask)
         /\ (t = trigger => child(t) = Hot) /\ Hot # NoTask
BY DemoAssumption DEF DemoInv, DemoStands, child, Child

LEMMA P0RunsMoves ==
  ASSUME IInv, DemoInv, P0Runs
  PROVE  Next /\ Moves(0, popped(proc[0])) /\ Slots(0, popped(proc[0]))
<1> DEFINE t == popped(proc[0])
<1>0. 0 \in Proc /\ 1 \in Proc /\ demo /\ turn = 0 /\ hasWork(proc[0])
  BY DemoAssumption DEF P0Runs, P0Turn
<1>1. t \in Task \ (done \cup fresh) /\ t \in Held(proc[0])
  BY <1>0, PoppedWaits
<1>2. /\ proc' = [proc EXCEPT ![0] = enqueueChild(afterPop(@), child(t))]
      /\ done' = done \cup {t} /\ fresh' = fresh \ {child(t)} /\ mode' = mode /\ Ran(0, t)
  BY DEF P0Runs, RunLocal
<1>3. RunLocal(0, child(t)) /\ child(t) \in Child /\ (t = trigger => child(t) = Hot)
      /\ (t # trigger => child(t) = NoTask) /\ Hot # NoTask
  BY <1>0, <1>1, ChildIsChild DEF P0Runs
<1>4. Next
  BY <1>0, <1>3 DEF Next
<1>5. proc \in [Proc -> Queue] /\ proc[0] \in Queue
  BY <1>0 DEF IInv, TypeOK
<1> HIDE DEF t
<1>6. proc'[0] = enqueueChild(afterPop(proc[0]), child(t)) /\ proc'[1] = proc[1]
  BY <1>0, <1>2, <1>5
<1>7. mode = "runnext" /\ t = trigger => proc'[0].Runnext = Hot
  BY <1>3, <1>6 DEF enqueueChild, enqueue
<1>8. InSlot(0) => t = Hot
  BY <1>3 DEF InSlot, popped, t
<1>9. InSlot(1) => proc'[1].Runnext = Hot /\ t # Hot
  <2> SUFFICES ASSUME InSlot(1) PROVE t # Hot
    BY <1>6 DEF InSlot
  <2>1. Hot \in Held(proc[1])
    BY <1>3 DEF InSlot, Held
  <2>2. Held(proc[0]) \cap Held(proc[1]) = {}
    BY <1>0 DEF IInv, NoTaskLostOrDoubled, OnePlace
  <2> QED BY <1>1, <2>1, <2>2
<1>10. Moves(0, t)
  BY <1>0, <1>1, <1>2 DEF Moves
<1>11. Slots(0, t)
  BY <1>7, <1>8, <1>9 DEF Slots
<1> QED BY <1>4, <1>10, <1>11 DEF t

LEMMA P1RunsMoves ==
  ASSUME IInv, DemoInv, P1Runs
  PROVE  Next /\ Moves(1, popped(proc[1])) /\ Slots(1, popped(proc[1]))
<1> DEFINE t == popped(proc[1])
<1>0. 0 \in Proc /\ 1 \in Proc /\ demo /\ turn = 1 /\ hasWork(proc[1])
  BY DemoAssumption DEF P1Runs
<1>1. t \in Task \ (done \cup fresh) /\ t \in Held(proc[1])
  BY <1>0, PoppedWaits
<1>2. /\ proc' = [proc EXCEPT ![1] = enqueueChild(afterPop(@), child(t))]
      /\ done' = done \cup {t} /\ fresh' = fresh \ {child(t)} /\ mode' = mode /\ Ran(1, t)
  BY DEF P1Runs, RunLocal
<1>3. RunLocal(1, child(t)) /\ child(t) \in Child /\ (t = trigger => child(t) = Hot)
      /\ (t # trigger => child(t) = NoTask) /\ Hot # NoTask
  BY <1>0, <1>1, ChildIsChild DEF P1Runs
<1>4. Next
  BY <1>0, <1>3 DEF Next
<1>5. proc \in [Proc -> Queue] /\ proc[1] \in Queue
  BY <1>0 DEF IInv, TypeOK
<1> HIDE DEF t
<1>6. proc'[1] = enqueueChild(afterPop(proc[1]), child(t)) /\ proc'[0] = proc[0]
  BY <1>0, <1>2, <1>5
<1>7. mode = "runnext" /\ t = trigger => proc'[1].Runnext = Hot
  BY <1>3, <1>6 DEF enqueueChild, enqueue
<1>8. InSlot(1) => t = Hot
  BY <1>3 DEF InSlot, popped, t
<1>9. InSlot(0) => proc'[0].Runnext = Hot /\ t # Hot
  <2> SUFFICES ASSUME InSlot(0) PROVE t # Hot
    BY <1>6 DEF InSlot
  <2>1. Hot \in Held(proc[0])
    BY <1>3 DEF InSlot, Held
  <2>2. Held(proc[0]) \cap Held(proc[1]) = {}
    BY <1>0 DEF IInv, NoTaskLostOrDoubled, OnePlace
  <2> QED BY <1>1, <2>1, <2>2
<1>10. Moves(1, t)
  BY <1>0, <1>1, <1>2 DEF Moves
<1>11. Slots(1, t)
  BY <1>7, <1>8, <1>9 DEF Slots
<1> QED BY <1>4, <1>10, <1>11 DEF t

LEMMA P1StealsMoves ==
  ASSUME IInv, DemoInv, P1Steals
  PROVE  Next /\ Moves(1, Head(stolen(proc[0]))) /\ Slots(1, Head(stolen(proc[0])))
<1> DEFINE t == Head(stolen(proc[0]))
<1>0. /\ 0 \in Proc /\ 1 \in Proc /\ demo /\ turn = 1
      /\ ~hasWork(proc[1]) /\ proc[0].Runq # <<>>
  BY DemoAssumption DEF P1Steals
<1>1. t \in Task \ (done \cup fresh) /\ t \in In(proc[0].Runq)
  BY <1>0, StolenWaits
<1>2. /\ proc' = [proc EXCEPT ![0] = afterSteal(@),
                             ![1] = append(enqueueChild(@, child(t)), Tail(stolen(proc[0])))]
      /\ done' = done \cup {t} /\ fresh' = fresh \ {child(t)} /\ mode' = mode /\ Ran(1, t)
  BY DEF P1Steals, StealAndRun
<1>3. StealAndRun(1, 0, child(t)) /\ child(t) \in Child /\ (t = trigger => child(t) = Hot)
      /\ (t # trigger => child(t) = NoTask) /\ Hot # NoTask
  BY <1>0, <1>1, ChildIsChild DEF P1Steals
<1>4. Next
  BY <1>0, <1>3 DEF Next
<1>5. proc \in [Proc -> Queue] /\ proc[0] \in Queue /\ proc[1] \in Queue
  BY <1>0 DEF IInv, TypeOK
<1> HIDE DEF t
<1>6. /\ proc'[1] = append(enqueueChild(proc[1], child(t)), Tail(stolen(proc[0])))
      /\ proc'[0] = afterSteal(proc[0])
  BY <1>0, <1>2, <1>5
<1>7. mode = "runnext" /\ t = trigger => proc'[1].Runnext = Hot
  <2> SUFFICES ASSUME mode = "runnext", t = trigger PROVE proc'[1].Runnext = Hot
    OBVIOUS
  <2>1. enqueueChild(proc[1], child(t)) \in [Runq : {enqueueChild(proc[1], child(t)).Runq},
                                            Runnext : {Hot}]
    BY <1>3 DEF enqueueChild, enqueue
  <2> QED BY <1>6, <2>1 DEF append
<1>8. ~InSlot(1)
  BY <1>0, <1>3 DEF InSlot, hasWork
<1>9. InSlot(0) => proc'[0].Runnext = Hot /\ t # Hot
  <2> SUFFICES ASSUME InSlot(0) PROVE proc'[0].Runnext = Hot /\ t # Hot
    OBVIOUS
  <2>1. Hot \notin In(proc[0].Runq)
    BY <1>0 DEF IInv, NoTaskLostOrDoubled, OnePlace, Once, InSlot
  <2>2. proc'[0].Runnext = proc[0].Runnext
    BY <1>5, <1>6 DEF afterSteal, Queue
  <2> QED BY <1>1, <2>1, <2>2 DEF InSlot
<1>10. Moves(1, t)
  BY <1>0, <1>1, <1>2 DEF Moves
<1>11. Slots(1, t)
  BY <1>7, <1>8, <1>9 DEF Slots
<1> QED BY <1>4, <1>10, <1>11 DEF t

LEMMA IdlesMove ==
  ASSUME DemoInv, P0Idles \/ P1Idles
  PROVE  UNCHANGED vars /\ \E p \in {0, 1} : Moves(p, NoTask) /\ Slots(p, NoTask)
<1>0. Hot # NoTask /\ Hot \in Task
  BY DemoAssumption
<1>1. CASE P0Idles
  <2>1. demo /\ turn = 0 /\ ~hasWork(proc[0]) /\ Ran(0, NoTask) /\ UNCHANGED vars
    BY <1>1 DEF P0Idles, P0Turn
  <2>2. trigger # NoTask
    BY <2>1 DEF DemoInv, DemoStands
  <2>3. ~InSlot(0) /\ proc' = proc
    BY <1>0, <2>1 DEF InSlot, hasWork, vars
  <2> QED BY <1>0, <2>1, <2>2, <2>3 DEF Moves, Slots, InSlot
<1>2. CASE P1Idles
  <2>1. demo /\ turn = 1 /\ ~hasWork(proc[1]) /\ Ran(1, NoTask) /\ UNCHANGED vars
    BY <1>2 DEF P1Idles
  <2>2. trigger # NoTask
    BY <2>1 DEF DemoInv, DemoStands
  <2>3. ~InSlot(1) /\ proc' = proc
    BY <1>0, <2>1 DEF InSlot, hasWork, vars
  <2> QED BY <1>0, <2>1, <2>2, <2>3 DEF Moves, Slots, InSlot
<1> QED BY <1>1, <1>2

(* Every move runs the queues of WorkStealing, or leaves them alone.       *)
LEMMA DemoStepIsStep ==
  ASSUME IInv, DemoInv, [DemoNext]_allVars
  PROVE  [Next]_vars
<1>1. ASSUME P0Idles \/ P1Idles PROVE UNCHANGED vars
  BY <1>1, IdlesMove
<1>2. ASSUME NEW p \in Proc, Becomes(p) PROVE Next
  BY <1>2 DEF Becomes, Next
<1>3. ASSUME NEW p \in Proc, Runs(p) PROVE Next
  BY <1>3 DEF Runs, Next, Child
<1>4. ASSUME NEW p \in Proc, Steals(p) PROVE Next
  <2>1. PICK v \in Proc, c \in (Few \cap fresh) \cup {NoTask} : StealAndRun(p, v, c)
    BY <1>4 DEF Steals
  <2>2. c \in Child
    BY DEF Child
  <2> QED BY <2>1, <2>2 DEF Next
<1>5. CASE UNCHANGED allVars
  BY <1>5 DEF allVars
<1> QED BY <1>1, <1>2, <1>3, <1>4, <1>5, P0RunsMoves, P1RunsMoves, P1StealsMoves DEF DemoNext

(* A move keeps Hot where the ticks say, and runs it one tick after it is  *)
(* put in a slot.                                                          *)
LEMMA MoveStands ==
  ASSUME IInv, DemoInv, NEW p \in {0, 1}, NEW t, Moves(p, t), Slots(p, t)
  PROVE  DemoStands' /\ HotTick' \in Nat \cup {-1} /\ (trigger \in done => t # trigger)
<1>1. /\ demo /\ DemoStands /\ mode \in {"FIFO", "runnext"} /\ turn = p /\ HotTick = -1
      /\ trigger \in Task /\ trigger # Hot /\ trigger # NoTask /\ tick \in Nat
      /\ Hot \in Task /\ Hot # NoTask
  BY DemoAssumption DEF Moves, DemoInv, DemoStands, IInv, TypeOK
<1>2. /\ HotTick' = IF t = Hot THEN tick ELSE HotTick
      /\ triggerTick' = IF t = trigger THEN tick ELSE triggerTick
      /\ turn' = IF t = Hot THEN 2 ELSE 1 - p
      /\ tick' = IF p = 1 /\ t # Hot THEN tick + 1 ELSE tick
      /\ trigger' = trigger
  BY DEF Moves, Ran
<1>3. mode' = mode
  BY DEF Moves, vars
<1>4. t \notin done \cup fresh \/ t = NoTask
  BY DEF Moves
<1>5. trigger \in done' <=> trigger \in done \/ t = trigger
  BY <1>1 DEF Moves, vars
<1>6. trigger \in done => t # trigger
  BY <1>1, <1>4
<1>7. t = Hot => trigger \in done
  BY <1>1, <1>4 DEF DemoStands
<1>8. trigger \in done => triggerTick \in 0 .. tick
  BY <1>1 DEF DemoStands
<1>9. tick' \in Nat /\ turn' \in 0 .. 2 /\ tick <= tick' /\ (turn' = 2 <=> HotTick' # -1)
      /\ HotTick' \in Nat \cup {-1}
  BY <1>1, <1>2
<1>10. trigger \notin done' => Hot \in fresh' /\ HotTick' = -1
  <2> SUFFICES ASSUME trigger \notin done' PROVE Hot \in fresh' /\ HotTick' = -1
    OBVIOUS
  <2>1. trigger \notin done /\ t # trigger /\ t # Hot /\ Hot \in fresh
    BY <1>1, <1>5, <1>7 DEF DemoStands
  <2>2. fresh' = fresh \/ fresh' = fresh \ {NoTask}
    BY <2>1 DEF Moves, vars, child
  <2> QED BY <1>1, <1>2, <2>1, <2>2
<1>11. trigger \in done' => triggerTick' \in 0 .. tick'
  <2>1. CASE t = trigger
    BY <2>1, <1>1, <1>2
  <2>2. CASE t # trigger
    BY <2>2, <1>1, <1>2, <1>5, <1>8
  <2> QED BY <2>1, <2>2
<1>12. ASSUME mode = "runnext", trigger \in done, InSlot(p)
       PROVE  t = Hot /\ tick = triggerTick + 1
  <2>1. t = Hot
    BY <1>12 DEF Slots
  <2>2. \/ InSlot(0) /\ tick = triggerTick + (1 - turn)
        \/ InSlot(1) /\ tick = triggerTick + 1
    BY <1>1, <1>12 DEF DemoStands
  <2>3. ~(InSlot(0) /\ InSlot(1))
    <3>1. 0 \in Proc /\ 1 \in Proc /\ 0 # 1
      BY DemoAssumption
    <3>2. Held(proc[0]) \cap Held(proc[1]) = {}
      BY <3>1 DEF IInv, NoTaskLostOrDoubled, OnePlace
    <3> QED BY <1>1, <3>2 DEF InSlot, Held
  <2>4. CASE p = 0
    BY <1>1, <1>8, <1>12, <2>1, <2>2, <2>3, <2>4
  <2>5. CASE p = 1
    BY <1>1, <1>8, <1>12, <2>1, <2>2, <2>3, <2>5
  <2> QED BY <2>4, <2>5
<1>13. ASSUME mode = "runnext", trigger \in done, ~InSlot(p)
       PROVE  t # Hot /\ InSlot(1 - p)' /\ tick = triggerTick + (1 - p)
  <2>1. \/ InSlot(0) /\ tick = triggerTick + (1 - turn)
        \/ InSlot(1) /\ tick = triggerTick + 1
    BY <1>1, <1>13 DEF DemoStands
  <2>2. InSlot(1 - p) /\ tick = triggerTick + (1 - p)
    <3>1. CASE p = 0
      BY <1>8, <1>13, <2>1, <3>1
    <3>2. CASE p = 1
      BY <1>1, <1>8, <1>13, <2>1, <3>2
    <3> QED BY <3>1, <3>2
  <2>3. InSlot(1 - p)' /\ t # Hot
    BY <1>6, <1>13, <2>2 DEF Slots, InSlot
  <2> QED BY <2>2, <2>3
<1>14. ASSUME mode' = "runnext", trigger' \in done', turn' # 2
       PROVE  \/ InSlot(0)' /\ tick' = triggerTick' + (1 - turn')
              \/ InSlot(1)' /\ tick' = triggerTick' + 1
  <2>0. t # Hot /\ turn' = 1 - p
    BY <1>2, <1>14
  <2>1. CASE t = trigger
    <3>1. InSlot(p)' /\ triggerTick' = tick
      BY <1>2, <1>3, <1>14, <2>1 DEF Slots, InSlot
    <3>2. CASE p = 0
      BY <1>1, <1>2, <2>0, <3>1, <3>2
    <3>3. CASE p = 1
      BY <1>1, <1>2, <2>0, <3>1, <3>3
    <3> QED BY <3>2, <3>3
  <2>2. CASE t # trigger
    <3>1. trigger \in done /\ triggerTick' = triggerTick
      BY <1>2, <1>5, <1>14, <2>2
    <3>2. InSlot(1 - p)' /\ tick = triggerTick + (1 - p)
      BY <1>3, <1>12, <1>13, <1>14, <2>0, <3>1
    <3>3. CASE p = 0
      BY <1>1, <1>2, <2>0, <3>1, <3>2, <3>3
    <3>4. CASE p = 1
      BY <1>1, <1>2, <1>8, <2>0, <3>1, <3>2, <3>4
    <3> QED BY <3>3, <3>4
  <2> QED BY <2>1, <2>2
<1>15. ASSUME HotTick' # -1
       PROVE  IF mode' = "runnext" THEN HotTick' = triggerTick' + 1 ELSE HotTick' >= triggerTick'
  <2>1. t = Hot /\ HotTick' = tick /\ trigger \in done /\ triggerTick' = triggerTick
    BY <1>1, <1>2, <1>7, <1>15
  <2>2. CASE mode = "runnext"
    BY <1>3, <1>12, <1>13, <2>1, <2>2
  <2>3. CASE mode # "runnext"
    BY <1>1, <1>3, <1>8, <2>1, <2>3
  <2> QED BY <2>2, <2>3
<1>16. DemoStands'
  <2>1. trigger' \in Task \ {Hot} /\ (trigger' \notin done' => Hot \in fresh' /\ HotTick' = -1)
        /\ (trigger' \in done' => triggerTick' \in 0 .. tick')
    BY <1>1, <1>2, <1>10, <1>11
  <2> QED BY <1>9, <1>14, <1>15, <2>1 DEF DemoStands
<1> QED BY <1>6, <1>9, <1>16

-----------------------------------------------------------------------------
(* The ten tasks of the README, without the slot.                          *)

LEMMA TheTenTasks ==
  /\ LateTasks \in Seq(Nat \cup {Hot}) /\ Len(LateTasks) = 5
  /\ EarlyTasks \in Seq(Nat \cup {Hot}) /\ Len(EarlyTasks) = 4
  /\ \A i \in 1 .. 4 : LateTasks[i] = 6 + i /\ EarlyTasks[i] = 2 + i
  /\ LateTasks[5] = Hot
BY DEF LateTasks, EarlyTasks

(* What is left of a queue after its head ran.                             *)
LEMMA RestOfTheTen ==
  /\ \A i \in 1 .. 5 : LET s == SubSeq(LateTasks, i, 5)
                       IN s # <<>> /\ Head(s) = LateTasks[i] /\ Tail(s) = SubSeq(LateTasks, i + 1, 5)
  /\ \A i \in 1 .. 4 : LET s == SubSeq(EarlyTasks, i, 4)
                       IN s # <<>> /\ Head(s) = EarlyTasks[i] /\ Tail(s) = SubSeq(EarlyTasks, i + 1, 4)
<1>1. ASSUME NEW S, NEW s \in Seq(S), NEW i \in 1 .. Len(s)
      PROVE  LET r == SubSeq(s, i, Len(s))
             IN r # <<>> /\ Head(r) = s[i] /\ Tail(r) = SubSeq(s, i + 1, Len(s))
  <2>1. Len(s) \in i .. Len(s) /\ \A j \in i .. Len(s) : s[j] \in S
    BY ElementOfSeq, LenProperties
  <2>2. Head(SubSeq(s, i, Len(s))) = s[i] /\ Tail(SubSeq(s, i, Len(s))) = SubSeq(s, i + 1, Len(s))
    BY <2>1, HeadTailOfSubSeq
  <2>3. Len(SubSeq(s, i, Len(s))) = Len(s) - i + 1 /\ Len(s) - i + 1 # 0
    BY <2>1, SubSeqProperties, LenProperties
  <2>4. SubSeq(s, i, Len(s)) # <<>>
    BY <2>3, EmptySeq
  <2> QED BY <2>2, <2>4
<1> DEFINE S == Nat \cup {Hot}
<1>2. LateTasks \in Seq(S) /\ Len(LateTasks) = 5 /\ EarlyTasks \in Seq(S) /\ Len(EarlyTasks) = 4
  BY TheTenTasks
<1> HIDE DEF S
<1>3. ASSUME NEW i \in 1 .. 5
      PROVE  LET s == SubSeq(LateTasks, i, 5)
             IN s # <<>> /\ Head(s) = LateTasks[i] /\ Tail(s) = SubSeq(LateTasks, i + 1, 5)
  BY <1>1, <1>2
<1>4. ASSUME NEW i \in 1 .. 4
      PROVE  LET s == SubSeq(EarlyTasks, i, 4)
             IN s # <<>> /\ Head(s) = EarlyTasks[i] /\ Tail(s) = SubSeq(EarlyTasks, i + 1, 4)
  BY <1>1, <1>2
<1> QED BY <1>3, <1>4

LEMMA SplitOfTheTen ==
  ASSUME NEW q, q.Runq = LeftTasks
  PROVE  /\ Len(stolen(q)) = 5 /\ Head(stolen(q)) = 2
         /\ Tail(stolen(q)) = SubSeq(EarlyTasks, 1, 4)
         /\ SubSeq(q.Runq, half(q) + 1, Len(q.Runq)) = SubSeq(LateTasks, 1, 5)
<1> DEFINE r == <<2, 3, 4, 5, 6, 7, 8, 9, 10, Hot>>
           S == Nat \cup {Hot}
<1>1. Len(r) = 10 /\ r \in Seq(S) /\ q.Runq = r
  BY DEF LeftTasks
<1>9. \A i \in 1 .. 10 : r[i] \in S
  BY <1>1, LenProperties
<1>2. half(q) = 5
  BY <1>1 DEF half
<1>3. stolen(q) = SubSeq(r, 1, 5) /\ SubSeq(q.Runq, half(q) + 1, Len(q.Runq)) = SubSeq(r, 6, 10)
  BY <1>1, <1>2 DEF stolen
<1>4. /\ Len(SubSeq(r, 1, 5)) = 5 /\ Head(SubSeq(r, 1, 5)) = r[1]
      /\ Tail(SubSeq(r, 1, 5)) = SubSeq(r, 2, 5)
  <2> HIDE DEF r
  <2>1. \A i \in 1 .. 5 : r[i] \in S
    BY <1>9
  <2>2. 1 \in 1 .. Len(r) /\ 5 \in 1 .. Len(r)
    BY <1>1
  <2>3. Len(SubSeq(r, 1, 5)) = 5
    BY <2>1, SubSeqProperties
  <2>4. Head(SubSeq(r, 1, 5)) = r[1] /\ Tail(SubSeq(r, 1, 5)) = SubSeq(r, 1 + 1, 5)
    BY <1>1, <2>2, HeadTailOfSubSeq
  <2> QED BY <2>3, <2>4
<1>5. SubSeq(r, 2, 5) = EarlyTasks
  <2>1. /\ r[2] = 3 /\ r[3] = 4 /\ r[4] = 5 /\ r[5] = 6
        /\ EarlyTasks[1] = 3 /\ EarlyTasks[2] = 4 /\ EarlyTasks[3] = 5 /\ EarlyTasks[4] = 6
    BY DEF EarlyTasks
  <2> HIDE DEF r
  <2>2. \A i \in 2 .. 5 : r[i] \in S
    BY <1>9
  <2>3. /\ SubSeq(r, 2, 5) \in Seq(S) /\ Len(SubSeq(r, 2, 5)) = 4
        /\ \A i \in 1 .. 4 : SubSeq(r, 2, 5)[i] = r[2 + i - 1]
    BY <2>2, SubSeqProperties
  <2>4. \A i \in 1 .. 4 : SubSeq(r, 2, 5)[i] = EarlyTasks[i]
    BY <2>1, <2>3
  <2> QED BY <2>3, <2>4, TheTenTasks, SeqEqual
<1>6. SubSeq(r, 6, 10) = LateTasks
  <2>1. /\ r[6] = 7 /\ r[7] = 8 /\ r[8] = 9 /\ r[9] = 10 /\ r[10] = Hot
        /\ LateTasks[1] = 7 /\ LateTasks[2] = 8 /\ LateTasks[3] = 9 /\ LateTasks[4] = 10
        /\ LateTasks[5] = Hot
    BY DEF LateTasks
  <2> HIDE DEF r
  <2>2. \A i \in 6 .. 10 : r[i] \in S
    BY <1>9
  <2>3. /\ SubSeq(r, 6, 10) \in Seq(S) /\ Len(SubSeq(r, 6, 10)) = 5
        /\ \A i \in 1 .. 5 : SubSeq(r, 6, 10)[i] = r[6 + i - 1]
    BY <2>2, SubSeqProperties
  <2>4. \A i \in 1 .. 5 : SubSeq(r, 6, 10)[i] = LateTasks[i]
    BY <2>1, <2>3
  <2> QED BY <2>3, <2>4, TheTenTasks, SeqEqual
<1>7. r[1] = 2
  OBVIOUS
<1>8. SubSeq(EarlyTasks, 1, 4) = EarlyTasks /\ SubSeq(LateTasks, 1, 5) = LateTasks
  BY TheTenTasks, SubSeqFull
<1> QED BY <1>3, <1>4, <1>5, <1>6, <1>7, <1>8

DemoMove == P0Runs \/ P0Idles \/ P1Runs \/ P1Steals \/ P1Idles

LEMMA FirstMove ==
  ASSUME NEW n \in Nat, DemoStarted(n), trigger = 1, trigger \notin done, DemoMove
  PROVE  /\ P0Runs /\ popped(proc[0]) = trigger
         /\ Tail(proc[0].Runq) = [i \in 1 .. n - 1 |-> i + 1] /\ proc[1].Runq = <<>>
         /\ proc[0].Runnext = NoTask /\ proc[1].Runnext = NoTask
<1>1. /\ turn = 0 /\ proc[0] = newProc(FirstTasks(n)) /\ proc[1] = newProc(<<>>)
      /\ n # 0
  BY DEF DemoStarted
<1>2. proc[0].Runq = FirstTasks(n) /\ proc[0].Runnext = NoTask
      /\ proc[1].Runq = <<>> /\ proc[1].Runnext = NoTask
  BY <1>1 DEF newProc
<1>3. /\ FirstTasks(n) \in Seq(Nat) /\ Len(FirstTasks(n)) = n
      /\ \A i \in 1 .. n : FirstTasks(n)[i] = i
  BY DEF FirstTasks
<1>4. FirstTasks(n) # <<>> /\ Head(FirstTasks(n)) = 1
  BY <1>1, <1>3
<1>5. Tail(FirstTasks(n)) = [i \in 1 .. n - 1 |-> i + 1]
  <2>1. /\ Tail(FirstTasks(n)) \in Seq(Nat) /\ Len(Tail(FirstTasks(n))) = n - 1
        /\ \A i \in 1 .. n - 1 : Tail(FirstTasks(n))[i] = i + 1
    <3> HIDE DEF FirstTasks
    <3> QED BY <1>1, <1>3, <1>4, HeadTailProperties
  <2>2. [i \in 1 .. n - 1 |-> i + 1] \in Seq(Nat) /\ Len([i \in 1 .. n - 1 |-> i + 1]) = n - 1
    BY <1>1
  <2> HIDE DEF FirstTasks
  <2> QED BY <2>1, <2>2, SeqEqual
<1>6. hasWork(proc[0]) /\ popped(proc[0]) = 1
  BY <1>2, <1>4 DEF hasWork, popped
<1>7. P0Runs
  BY <1>1, <1>6 DEF DemoMove, P0Idles, P1Runs, P1Steals, P1Idles
<1> QED BY <1>2, <1>5, <1>6, <1>7

LEMMA TenBegin ==
  ASSUME IInv, DemoInv, DemoStarted(10), trigger = 1, trigger \notin done, mode = "FIFO", DemoMove
  PROVE  TenTasksAre'
<1>1. /\ P0Runs /\ popped(proc[0]) = 1
      /\ Tail(proc[0].Runq) = [i \in 1 .. 9 |-> i + 1] /\ proc[1].Runq = <<>>
      /\ proc[0].Runnext = NoTask /\ proc[1].Runnext = NoTask
  <2>1. 10 \in Nat /\ 10 - 1 = 9
    OBVIOUS
  <2>2. /\ P0Runs /\ popped(proc[0]) = trigger
        /\ Tail(proc[0].Runq) = [i \in 1 .. 10 - 1 |-> i + 1] /\ proc[1].Runq = <<>>
        /\ proc[0].Runnext = NoTask /\ proc[1].Runnext = NoTask
    <3> HIDE DEF P0Runs, popped, DemoMove, DemoStarted
    <3> QED BY <2>1, FirstMove
  <2> QED BY ONLY <2>1, <2>2, trigger = 1
<1>2. turn = 0 /\ tick = 0 /\ Stolen = 0 /\ 1 # Hot
  BY DEF DemoStarted
<1>3. /\ proc' = [proc EXCEPT ![0] = enqueueChild(afterPop(@), child(1))]
      /\ Ran(0, 1) /\ Stolen' = Stolen /\ child(1) = Hot
  BY <1>1 DEF P0Runs, RunLocal, child
<1>4. proc \in [Proc -> Queue] /\ 0 \in Proc /\ 1 \in Proc /\ Hot # NoTask
  BY DemoAssumption DEF IInv, TypeOK
<1>5. proc'[0] = enqueueChild(afterPop(proc[0]), Hot) /\ proc'[1] = proc[1]
  BY <1>3, <1>4
<1>6. afterPop(proc[0]).Runq = Tail(proc[0].Runq) /\ afterPop(proc[0]).Runnext = NoTask
  BY <1>1, <1>4 DEF afterPop, Queue
<1>7. proc'[0].Runq = Append(Tail(proc[0].Runq), Hot) /\ proc'[0].Runnext = NoTask
  <2>1. proc'[0] = [afterPop(proc[0]) EXCEPT !.Runq = Append(@, Hot)]
    BY <1>4, <1>5 DEF enqueueChild, enqueue
  <2>2. afterPop(proc[0]) = [proc[0] EXCEPT !.Runq = Tail(@)]
    BY <1>1 DEF afterPop
  <2>3. proc[0] \in Queue
    BY <1>4
  <2> QED BY <1>6, <2>1, <2>2, <2>3 DEF Queue
<1>8. Append([i \in 1 .. 9 |-> i + 1], Hot) = LeftTasks
  <2> DEFINE S == Nat \cup {Hot}
             f == [i \in 1 .. 9 |-> i + 1]
             r == <<2, 3, 4, 5, 6, 7, 8, 9, 10, Hot>>
  <2>1. f \in Seq(S) /\ Len(f) = 9 /\ \A i \in 1 .. 9 : f[i] = i + 1
    OBVIOUS
  <2>2. r \in Seq(S) /\ Len(r) = 10 /\ r[10] = Hot
    OBVIOUS
  <2>3. \A i \in 1 .. 9 : r[i] = i + 1
    OBVIOUS
  <2>7. Hot \in S
    OBVIOUS
  <2> HIDE DEF f, r, S
  <2>4. /\ Append(f, Hot) \in Seq(S) /\ Len(Append(f, Hot)) = 10
        /\ \A i \in 1 .. 9 : Append(f, Hot)[i] = f[i]
        /\ Append(f, Hot)[10] = Hot
    <3>1. Len(f) + 1 = 10
      BY <2>1
    <3>3. f \in Seq(S)
      BY <2>1
    <3>2. /\ Append(f, Hot) \in Seq(S) /\ Len(Append(f, Hot)) = Len(f) + 1
          /\ \A i \in 1 .. Len(f) : Append(f, Hot)[i] = f[i]
          /\ Append(f, Hot)[Len(f) + 1] = Hot
      BY ONLY <2>7, <3>3, AppendProperties
    <3> QED BY ONLY <2>1, <3>1, <3>2
  <2>5. \A i \in 1 .. 10 : Append(f, Hot)[i] = r[i]
    <3> SUFFICES ASSUME NEW i \in 1 .. 10 PROVE Append(f, Hot)[i] = r[i]
      OBVIOUS
    <3>1. CASE i = 10
      BY <3>1, <2>2, <2>4
    <3>2. CASE i \in 1 .. 9
      BY <3>2, <2>1, <2>3, <2>4
    <3>3. i = 10 \/ i \in 1 .. 9
      OBVIOUS
    <3> QED BY <3>1, <3>2, <3>3
  <2>6. Append(f, Hot) = r
    BY <2>2, <2>4, <2>5, SeqEqual
  <2> QED BY <2>6 DEF f, r, LeftTasks
<1>9. tick' = 0 /\ turn' = 1 /\ Stolen' = 0
  BY <1>2, <1>3 DEF Ran
<1>10. proc'[0].Runq = LeftTasks
  BY <1>1, <1>7, <1>8
<1>11. proc'[1].Runq = <<>> /\ proc'[1].Runnext = NoTask
  BY <1>1, <1>5
<1> QED BY <1>7, <1>9, <1>10, <1>11 DEF TenTasksAre

LEMMA TenGoOn ==
  ASSUME IInv, DemoInv, DemoStarted(10), trigger = 1, trigger \in done, mode = "FIFO",
         TenTasksAre, DemoMove
  PROVE  TenTasksAre'
<1>0. /\ proc \in [Proc -> Queue] /\ 0 \in Proc /\ 1 \in Proc /\ Hot # NoTask
      /\ proc[0] \in Queue /\ proc[1] \in Queue
  BY DemoAssumption DEF IInv, TypeOK
<1>1. \A i \in 1 .. 10 : i # Hot
  BY DEF DemoStarted
<1>2. demo /\ turn \in {0, 1} /\ tick \in Nat
  BY DEF DemoMove, P0Runs, P0Idles, P0Turn, P1Runs, P1Steals, P1Idles, DemoInv, DemoStands
<1>3. proc[0].Runnext = NoTask /\ proc[1].Runnext = NoTask
  BY <1>2 DEF TenTasksAre
<1>4. CASE tick = 0
  <2>1. /\ turn = 1 /\ Stolen = 0 /\ proc[1].Runq = <<>>
        /\ proc[0].Runq = LeftTasks
    BY <1>2, <1>4 DEF TenTasksAre
  <2>2. /\ Len(stolen(proc[0])) = 5 /\ Head(stolen(proc[0])) = 2
        /\ Tail(stolen(proc[0])) = SubSeq(EarlyTasks, 1, 4)
        /\ SubSeq(proc[0].Runq, half(proc[0]) + 1, Len(proc[0].Runq)) = SubSeq(LateTasks, 1, 5)
    BY <2>1, SplitOfTheTen
  <2>3. P1Steals
    <3>0. LeftTasks # <<>>
      BY DEF LeftTasks
    <3>1. ~hasWork(proc[1]) /\ proc[0].Runq # <<>>
      BY <1>3, <2>1, <3>0 DEF hasWork
    <3> QED BY <2>1, <3>1 DEF DemoMove, P0Runs, P0Idles, P0Turn, P1Runs, P1Idles
  <2>4. /\ proc' = [proc EXCEPT ![0] = afterSteal(@),
                               ![1] = append(enqueueChild(@, child(2)), Tail(stolen(proc[0])))]
        /\ Ran(1, 2) /\ Stolen' = Stolen + Len(stolen(proc[0])) /\ child(2) = NoTask
    <3> DEFINE t == Head(stolen(proc[0]))
    <3>1. t = 2 /\ child(2) = NoTask
      BY <2>2 DEF child
    <3>2. /\ StealAndRun(1, 0, child(t)) /\ Ran(1, t)
          /\ Stolen' = Stolen + Len(stolen(proc[0]))
      BY <2>3 DEF P1Steals
    <3> HIDE DEF t
    <3> QED BY <3>1, <3>2 DEF StealAndRun
  <2>5. /\ proc'[0] = afterSteal(proc[0])
        /\ proc'[1] = append(proc[1], Tail(stolen(proc[0])))
    BY <1>0, <2>4 DEF enqueueChild
  <2>6. /\ proc'[0].Runq = SubSeq(LateTasks, 1, 5) /\ proc'[0].Runnext = NoTask
    BY <1>0, <1>3, <2>2, <2>5 DEF afterSteal, Queue
  <2>7. proc'[1].Runq = <<>> \o SubSeq(EarlyTasks, 1, 4) /\ proc'[1].Runnext = NoTask
    BY <1>0, <1>3, <2>1, <2>2, <2>5 DEF append, Queue
  <2>8. <<>> \o SubSeq(EarlyTasks, 1, 4) = SubSeq(EarlyTasks, 1, 4)
    <3>1. SubSeq(EarlyTasks, 1, 4) = EarlyTasks
      BY TheTenTasks, SubSeqFull
    <3> QED BY <3>1, TheTenTasks, ConcatEmptySeq
  <2>9. tick' = 1 /\ turn' = 0 /\ Stolen' = 5
    BY <1>1, <1>4, <2>1, <2>2, <2>4 DEF Ran
  <2> QED BY <2>6, <2>7, <2>8, <2>9 DEF TenTasksAre
<1>5. CASE tick # 0 /\ turn = 0
  <2>1. /\ Stolen = 5 /\ tick \in 1 .. 5
        /\ proc[0].Runq = SubSeq(LateTasks, tick, 5)
        /\ proc[1].Runq = SubSeq(EarlyTasks, tick, 4)
    BY <1>2, <1>5 DEF TenTasksAre
  <2>2. /\ proc[0].Runq # <<>> /\ Head(proc[0].Runq) = LateTasks[tick]
        /\ Tail(proc[0].Runq) = SubSeq(LateTasks, tick + 1, 5)
    BY <2>1, RestOfTheTen
  <2> DEFINE t == LateTasks[tick]
  <2>3. popped(proc[0]) = t /\ hasWork(proc[0])
    BY <1>3, <2>2 DEF popped, hasWork
  <2>4. P0Runs
    BY <1>5, <2>3 DEF DemoMove, P0Idles, P1Runs, P1Steals, P1Idles
  <2>5. t # 1 /\ (t = Hot <=> tick = 5)
    <3>1. CASE tick = 5
      BY <1>1, <3>1, TheTenTasks
    <3>2. CASE tick \in 1 .. 4
      <4>1. t = 6 + tick /\ 6 + tick \in 1 .. 10
        BY <3>2, TheTenTasks
      <4> QED BY <1>1, <3>2, <4>1
    <3> QED BY <2>1, <3>1, <3>2
  <2> HIDE DEF t
  <2>6. /\ proc' = [proc EXCEPT ![0] = enqueueChild(afterPop(@), child(t))]
        /\ Ran(0, t) /\ Stolen' = Stolen /\ child(t) = NoTask
    BY <2>3, <2>4, <2>5 DEF P0Runs, RunLocal, child
  <2>7. proc'[0] = afterPop(proc[0]) /\ proc'[1] = proc[1]
    BY <1>0, <2>6 DEF enqueueChild
  <2>8. proc'[0].Runq = SubSeq(LateTasks, tick + 1, 5) /\ proc'[0].Runnext = NoTask
    BY <1>0, <1>3, <2>2, <2>7 DEF afterPop, Queue
  <2>9. CASE tick = 5
    <3>1. turn' = 2 /\ HotTick' = 5 /\ Stolen' = 5
      BY <2>1, <2>5, <2>6, <2>9 DEF Ran
    <3> QED BY <3>1 DEF TenTasksAre
  <2>10. CASE tick # 5
    <3>1. turn' = 1 /\ tick' = tick /\ Stolen' = 5
      BY <2>1, <2>5, <2>6, <2>10 DEF Ran
    <3>2. tick + 1 \in 1 .. 5
      BY <2>1, <2>10
    <3> QED BY <1>3, <1>5, <2>1, <2>7, <2>8, <3>1, <3>2 DEF TenTasksAre
  <2> QED BY <2>9, <2>10
<1>6. CASE tick # 0 /\ turn = 1
  <2>1. /\ Stolen = 5 /\ tick \in 1 .. 4
        /\ proc[0].Runq = SubSeq(LateTasks, tick + 1, 5)
        /\ proc[1].Runq = SubSeq(EarlyTasks, tick, 4)
    BY <1>2, <1>6 DEF TenTasksAre
  <2>2. /\ proc[1].Runq # <<>> /\ Head(proc[1].Runq) = EarlyTasks[tick]
        /\ Tail(proc[1].Runq) = SubSeq(EarlyTasks, tick + 1, 4)
    BY <2>1, RestOfTheTen
  <2> DEFINE t == EarlyTasks[tick]
  <2>3. popped(proc[1]) = t /\ hasWork(proc[1])
    BY <1>3, <2>2 DEF popped, hasWork
  <2>4. P1Runs
    BY <1>6, <2>3 DEF DemoMove, P0Runs, P0Idles, P0Turn, P1Steals, P1Idles
  <2>5. t # 1 /\ t # Hot
    <3>1. t = 2 + tick /\ 2 + tick \in 1 .. 10 /\ 2 + tick # 1
      BY <2>1, TheTenTasks
    <3> QED BY <1>1, <3>1
  <2> HIDE DEF t
  <2>6. /\ proc' = [proc EXCEPT ![1] = enqueueChild(afterPop(@), child(t))]
        /\ Ran(1, t) /\ Stolen' = Stolen /\ child(t) = NoTask
    BY <2>3, <2>4, <2>5 DEF P1Runs, RunLocal, child
  <2>7. proc'[1] = afterPop(proc[1]) /\ proc'[0] = proc[0]
    BY <1>0, <2>6 DEF enqueueChild
  <2>8. proc'[1].Runq = SubSeq(EarlyTasks, tick + 1, 4) /\ proc'[1].Runnext = NoTask
    BY <1>0, <1>3, <2>2, <2>7 DEF afterPop, Queue
  <2>9. turn' = 0 /\ tick' = tick + 1 /\ Stolen' = 5
    BY <2>1, <2>5, <2>6 DEF Ran
  <2>10. tick + 1 \in 1 .. 5 /\ tick + 1 + 0 = tick + 1
    BY <2>1
  <2> QED BY <1>3, <2>1, <2>7, <2>8, <2>9, <2>10 DEF TenTasksAre
<1> QED BY <1>2, <1>4, <1>5, <1>6

-----------------------------------------------------------------------------
(* Every move of the demonstration is one of a P that runs or idles.       *)
LEMMA SomebodyMoves ==
  ASSUME IInv, DemoInv, DemoMove
  PROVE  \E p \in {0, 1} : \E t : Moves(p, t) /\ Slots(p, t) /\ (P0Runs => t = popped(proc[0]))
<1>1. CASE P0Runs
  BY <1>1, P0RunsMoves
<1>2. CASE P1Runs
  <2>1. ~P0Runs
    BY <1>2 DEF P1Runs, P0Runs, P0Turn
  <2> QED BY <1>2, <2>1, P1RunsMoves
<1>3. CASE P1Steals
  <2>1. ~P0Runs
    BY <1>3 DEF P1Steals, P0Runs, P0Turn
  <2> QED BY <1>3, <2>1, P1StealsMoves
<1>4. CASE P0Idles \/ P1Idles
  <2>1. ~P0Runs
    BY <1>4 DEF P0Idles, P1Idles, P0Runs, P0Turn
  <2> QED BY <1>4, <2>1, IdlesMove
<1> QED BY <1>1, <1>2, <1>3, <1>4 DEF DemoMove

LEMMA MoveStarted ==
  ASSUME IInv, DemoInv, NEW n \in Nat, DemoStarted(n), DemoMove
  PROVE  DemoStarted(n)'
<1>1. PICK p \in {0, 1} : \E t : Moves(p, t) /\ Slots(p, t) /\ (P0Runs => t = popped(proc[0]))
  BY SomebodyMoves
<1>2. PICK t : Moves(p, t) /\ Slots(p, t) /\ (P0Runs => t = popped(proc[0]))
  BY <1>1
<1>3. /\ demo /\ DemoStands /\ trigger # NoTask /\ Hot # NoTask /\ Hot \in Task /\ trigger # Hot
      /\ fresh \subseteq Task /\ mode' = mode /\ trigger' = trigger
      /\ triggerTick' = IF t = trigger THEN tick ELSE triggerTick
  BY <1>2, DemoAssumption DEF Moves, Ran, DemoInv, DemoStands, IInv, TypeOK, vars
<1>4. trigger \in done' <=> trigger \in done \/ t = trigger
  BY <1>2, <1>3 DEF Moves, vars
<1>5. trigger \in done => t # trigger
  BY <1>2, <1>3 DEF Moves
<1>6. fresh' = IF t = trigger THEN fresh \ {Hot} ELSE fresh
  <2>1. CASE t = NoTask
    BY <1>2, <1>3, <2>1 DEF Moves, vars
  <2>2. CASE t # NoTask
    <3>1. fresh' = fresh \ {child(t)} /\ NoTask \notin fresh
      BY <1>2, <1>3, <2>2 DEF Moves
    <3> QED BY <3>1 DEF child
  <2> QED BY <2>1, <2>2
<1>7. 1 .. n \subseteq Task \ {Hot} /\ trigger \in 1 .. n
  BY DEF DemoStarted
<1>8. Task \ fresh' = 1 .. n \cup (IF trigger' \in done' THEN {Hot} ELSE {})
  <2>1. Task \ fresh = 1 .. n \cup (IF trigger \in done THEN {Hot} ELSE {})
    BY DEF DemoStarted
  <2> QED BY <1>3, <1>4, <1>5, <1>6, <2>1
<1>9. trigger = 1 => trigger \in done'
  <2>1. CASE trigger = 1 /\ trigger \notin done
    <3>1. P0Runs /\ popped(proc[0]) = trigger
      BY <2>1, FirstMove
    <3> QED BY <1>2, <1>4, <3>1
  <2> QED BY <1>4, <2>1
<1>10. trigger = 1 => triggerTick' = 0
  <2>1. CASE trigger = 1 /\ trigger \in done
    BY <1>3, <1>5, <2>1 DEF DemoStarted
  <2>2. CASE trigger = 1 /\ trigger \notin done
    BY <1>3, <1>4, <1>9, <2>2 DEF DemoStarted
  <2> QED BY <2>1, <2>2
<1>11. trigger = 1 /\ n = 10 /\ mode = "FIFO" => TenTasksAre'
  <2> SUFFICES ASSUME trigger = 1, n = 10, mode = "FIFO" PROVE TenTasksAre'
    OBVIOUS
  <2>1. DemoStarted(10)
    OBVIOUS
  <2>2. CASE trigger \notin done
    BY <2>1, <2>2, TenBegin
  <2>3. CASE trigger \in done
    BY <2>1, <2>3, TenGoOn DEF DemoStarted
  <2> QED BY <2>2, <2>3
<1> QED BY <1>3, <1>7, <1>8, <1>9, <1>10, <1>11 DEF DemoStarted

LEMMA DemoStepInv ==
  ASSUME IInv, DemoInv, [DemoNext]_allVars
  PROVE  DemoInv'
<1>1. CASE DemoMove
  <2>1. PICK p \in {0, 1} : \E t : Moves(p, t) /\ Slots(p, t)
    BY <1>1, SomebodyMoves
  <2>2. PICK t : Moves(p, t) /\ Slots(p, t)
    BY <2>1
  <2>3. DemoStands' /\ HotTick' \in Nat \cup {-1}
    BY <2>2, MoveStands
  <2>4. demo /\ demo' = demo
    BY <2>2 DEF Moves, Ran
  <2>5. PICK n \in Nat : DemoStarted(n)
    BY <2>4 DEF DemoInv
  <2>6. DemoStarted(n)'
    BY <1>1, <2>5, MoveStarted
  <2> QED BY <2>3, <2>4, <2>6 DEF DemoInv
<1>2. ASSUME NEW p \in Proc, Becomes(p) \/ Runs(p) \/ Steals(p)
      PROVE  DemoInv'
  <2>1. ~demo /\ demo' = demo /\ HotTick' = HotTick
    BY <1>2 DEF Becomes, Runs, Steals, Free, clock
  <2> QED BY <2>1 DEF DemoInv
<1>3. CASE UNCHANGED allVars
  <2>1. /\ vars' = vars /\ clock' = clock
    BY <1>3 DEF allVars
  <2>2. /\ mode' = mode /\ proc' = proc /\ fresh' = fresh /\ done' = done
        /\ demo' = demo /\ trigger' = trigger /\ tick' = tick /\ turn' = turn
        /\ triggerTick' = triggerTick /\ HotTick' = HotTick /\ Stolen' = Stolen
    BY <2>1 DEF vars, clock
  <2>3. DemoStands => DemoStands'
    BY <2>2 DEF DemoStands, InSlot
  <2>4. \A n \in Nat : DemoStarted(n) => DemoStarted(n)'
    BY <2>2 DEF DemoStarted, TenTasksAre
  <2> QED BY <2>2, <2>3, <2>4 DEF DemoInv
<1> QED BY <1>1, <1>2, <1>3 DEF DemoNext, DemoMove

LEMMA HotIsInTime == IInv /\ DemoInv => HotLatencies
<1> SUFFICES ASSUME IInv, DemoInv, HotTick >= 0 PROVE HotLatencies
  BY DEF HotLatencies
<1>1. HotTick # -1 /\ demo /\ DemoStands
  BY DEF DemoInv
<1>2. PICK n \in Nat : DemoStarted(n)
  BY <1>1 DEF DemoInv
<1>3. trigger \in done /\ turn = 2 /\ mode \in {"FIFO", "runnext"}
  BY <1>1 DEF DemoStands, IInv, TypeOK
<1>4. IF mode = "runnext" THEN HotTick = triggerTick + 1 ELSE HotTick >= triggerTick
  BY <1>1 DEF DemoStands
<1>5. ASSUME trigger = 1, Cardinality(Task \ fresh) = 11
      PROVE  IF mode = "FIFO" THEN HotTick = 5 /\ Stolen >= 1 ELSE HotTick = 1
  <2>1. Task \ fresh = 1 .. n \cup {Hot} /\ Hot \notin 1 .. n
    BY <1>2, <1>3 DEF DemoStarted
  <2>2. IsFiniteSet(1 .. n) /\ Cardinality(1 .. n) = n
    BY FS_Interval
  <2>3. Cardinality(1 .. n \cup {Hot}) = n + 1
    BY <2>1, <2>2, FS_AddElement
  <2>4. n = 10
    BY <1>5, <2>1, <2>3
  <2>5. CASE mode = "FIFO"
    <3>1. TenTasksAre
      BY <1>2, <1>3, <1>5, <2>4, <2>5 DEF DemoStarted
    <3> QED BY <1>3, <2>5, <3>1 DEF TenTasksAre
  <2>6. CASE mode = "runnext"
    <3>1. triggerTick = 0
      BY <1>2, <1>3, <1>5 DEF DemoStarted
    <3> QED BY <1>4, <2>6, <3>1
  <2> QED BY <1>3, <2>5, <2>6
<1> QED BY <1>4, <1>5 DEF HotLatencies

(* The demonstration stays where its ticks say, and its queues are the     *)
(* ones of WorkStealing.                                                   *)
LEMMA DemoInductive == DemoSpec => [](IInv /\ DemoInv)
<1>1. DemoInit => IInv /\ DemoInv
  BY DemoBegins, InitInv
<1>2. IInv /\ DemoInv /\ [DemoNext]_allVars => (IInv /\ DemoInv)'
  BY DemoStepIsStep, StepInv, DemoStepInv
<1> QED BY <1>1, <1>2, PTL DEF DemoSpec

(* runHotLatency is one of the ways of running the queues: from its first  *)
(* state on, each of its moves is one of theirs or leaves them alone.      *)
THEOREM DemoRunsTheQueues == DemoSpec => Spec
<1>1. DemoInit => Init
  BY DemoBegins
<1>2. IInv /\ DemoInv /\ [DemoNext]_allVars => [Next]_vars
  BY DemoStepIsStep
<1> QED BY <1>1, <1>2, DemoInductive, PTL DEF DemoSpec, Spec

(* So no task of it is lost, or run twice, or stolen from a slot.          *)
THEOREM DemoLosesNothing == DemoSpec => []NoTaskLostOrDoubled /\ SlotIsNotStolen
BY DemoRunsTheQueues, NothingLost, SlotStaysLocal, PTL

(* With whichever queue of P 0 and whichever trigger in it: from the slot  *)
(* Hot runs one tick after the trigger, from the queue not before it; with *)
(* the ten tasks of the README, at the ticks the README says.              *)
THEOREM HotRunsInTime == DemoSpec => []HotLatencies
BY DemoInductive, HotIsInTime, PTL

=============================================================================
