---------------------------- MODULE OrderingProofs ----------------------------
(***************************************************************************)
(* Proofs about Goroutines for every table of programs: what Ordering asks *)
(* of the text of a program is enough for it.  Nobody is within a lock     *)
(* beside its holder; a program whose accesses are Ordered has no data     *)
(* race; one whose main waits for all it started leaves nobody behind.     *)
(***************************************************************************)
EXTENDS Ordering, FiniteSetTheorems, TLAPS

(* The code of t.                                                          *)
c(t) == P.code[t]

(* The types: every goroutine is at a statement of its code, before the    *)
(* first or past the last, and the cells and buffers are those declared.   *)

Types ==
  /\ prog \in DOMAIN Program /\ WellFormed(P)
  /\ pc \in [Thread -> Int]
  /\ \A t \in Thread : pc[t] \in 0 .. Len(c(t)) + 1
  /\ reg = [t \in Thread |-> reg[t]]
  /\ mem = [x \in P.cells |-> mem[x]]
  /\ buf = [ch \in DOMAIN P.cap |-> buf[ch]]
  /\ \A ch \in DOMAIN P.cap : \E V : buf[ch] \in Seq(V)

(* Where a goroutine is, and what its text promises there.                 *)
LEMMA Lengths ==
  ASSUME Types, NEW t \in Thread
  PROVE  /\ Len(c(t)) \in Nat /\ pc[t] \in Int /\ pc[t] \in 0 .. Len(c(t)) + 1
         /\ End(t) = Len(c(t)) + 1 /\ At(t) = c(t)[pc[t]]
         /\ \A i \in 1 .. Len(c(t)) : Leads(c(t), i) \subseteq 1 .. Len(c(t)) + 1
         /\ Running(t) <=> pc[t] \in 1 .. Len(c(t)) /\ ~panicked
<1>1. WellFormed(P) /\ pc \in [Thread -> Int] /\ pc[t] \in 0 .. Len(c(t)) + 1 BY DEF Types
<1>2. Len(c(t)) \in Nat /\ \A i \in 1 .. Len(c(t)) : Leads(c(t), i) \subseteq 1 .. Len(c(t)) + 1
  BY <1>1 DEF WellFormed, c, Thread
<1> QED BY <1>1, <1>2 DEF c, End, At, Running

(* The kinds of step, in terms of the text: what of a step the invariants  *)
(* need to know. A panic, and going to sleep in a channel, change nothing  *)
(* here.                                                                   *)
Follows(t) == pc[t] \in 1 .. Len(c(t)) /\ pc'[t] \in Leads(c(t), pc[t])
Stays == UNCHANGED <<pc, mem, buf, closed>>
Walks(t) == Follows(t) /\ pc' = [pc EXCEPT ![t] = pc'[t]]
Forks(t) ==
  /\ Is(t, {"go"}) /\ Follows(t) /\ UNCHANGED <<mem, buf, closed>>
  /\ pc' = [u \in Thread |-> IF u = t THEN pc'[t] ELSE IF u \in Starts(c(t), pc[t]) THEN 1 ELSE pc[u]]
Writes(t) ==
  /\ Walks(t) /\ Is(t, Modifying) /\ UNCHANGED <<buf, closed>>
  /\ LET i == At(t) x == i.x
     IN /\ mem' = [mem EXCEPT ![x] = mem'[x]]
        /\ x \in P.cells =>
             \/ i.op \in {"write", "store", "writereg", "snapshot"}
             \/ i.op = "add" /\ mem'[x] = mem[x] + i.v
             \/ i.op = "cas" /\ mem[x] = i.v[1] /\ mem'[x] = i.v[2] /\ pc'[t] = pc[t] + 1
             \/ i.op = "cas" /\ mem' = mem /\ (Leads(c(t), pc[t]) # {pc[t] + 1} => pc'[t] # pc[t] + 1)
             \/ i.op = "lock" /\ mem[x] = 0 /\ mem'[x] = -1
             \/ i.op = "rlock" /\ mem[x] >= 0 /\ mem'[x] = mem[x] + 1
             \/ i.op = "unlock" /\ mem[x] = -1 /\ mem'[x] = 0
             \/ i.op \in {"runlock", "done"} /\ mem[x] > 0 /\ mem'[x] = mem[x] - 1
(* Jumps, waits and what changes nothing but the register and the log.     *)
Reads(t) ==
  /\ Walks(t) /\ ~Is(t, Modifying) /\ UNCHANGED <<mem, buf, closed>>
  /\ ~Is(t, {"go", "select"})
  /\ Is(t, {"wait"}) => mem[At(t).x] = 0
Closes(t) ==
  /\ Walks(t) /\ Is(t, {"close", "cancel"}) /\ UNCHANGED <<mem, buf>>
  /\ closed' = closed \cup {At(t).x}
Selects(t) ==
  /\ Walks(t) /\ Is(t, {"select"}) /\ UNCHANGED mem
  /\ \/ \E o \in At(t).cases : \E v :
          /\ o.dir # "recv" /\ pc'[t] = Target(t, o.to)
          /\ buf' = [buf EXCEPT ![o.x] = Append(buf[o.x], v)]
          /\ UNCHANGED closed
     \/ \E o \in At(t).cases : /\ o.dir = "recv" /\ pc'[t] = Target(t, o.to)
                                /\ buf[o.x] # <<>> /\ buf' = [buf EXCEPT ![o.x] = Tail(buf[o.x])]
                                /\ UNCHANGED closed
     \/ \E o \in At(t).cases : /\ o.dir = "recv" /\ pc'[t] = Target(t, o.end)
                                /\ o.x \in closed /\ UNCHANGED <<buf, closed>>
     \/ At(t).to # 0 /\ UNCHANGED <<buf, closed>>
Meets(t, u) ==
  /\ t # u /\ Follows(t) /\ Follows(u) /\ Is(t, {"select"}) /\ Is(u, {"select"})
  /\ \E o \in At(t).cases, r \in At(u).cases :
       /\ o.dir # "recv" /\ r.dir = "recv" /\ o.x = r.x
       /\ pc'[t] = Target(t, o.to) /\ pc'[u] = Target(u, r.to)
  /\ pc' = [pc EXCEPT ![t] = pc'[t], ![u] = pc'[u]] /\ UNCHANGED <<mem, buf, closed>>

Acts(t) ==
  \/ Stays \/ Forks(t) \/ Writes(t) \/ Reads(t) \/ Closes(t) \/ Selects(t)
  \/ \E u \in Thread : Meets(t, u)

(* A step within the function and to the next statement.                   *)
LEMMA Going ==
  ASSUME Types, NEW t \in Thread, Running(t), NEW to, NEW v,
         Target(t, to) \in Leads(c(t), pc[t]), Goto(t, to, v)
  PROVE  Walks(t) /\ pc'[t] = Target(t, to)
<1>1. pc[t] \in 1 .. Len(c(t)) BY Lengths
<1>2. pc' = [pc EXCEPT ![t] = Target(t, to)] BY DEF Goto
<1>3. pc'[t] = Target(t, to) BY <1>2 DEF Types
<1> QED BY <1>1, <1>2, <1>3 DEF Walks, Follows

(* A statement that neither selects nor jumps leads to the next one.       *)
LEMMA NextIsLed ==
  ASSUME Types, NEW t \in Thread, Running(t), ~Is(t, {"select", "jump"})
  PROVE  Target(t, 1) = pc[t] + 1 /\ pc[t] + 1 \in Leads(c(t), pc[t])
<1>1. pc[t] \in 1 .. Len(c(t)) /\ At(t) = c(t)[pc[t]] BY Lengths
<1>2. At(t).op # "select" /\ At(t).op # "jump" BY DEF Is
<1>3. Target(t, 1) = pc[t] + 1 BY DEF Target, Out
<1> QED BY <1>1, <1>2, <1>3 DEF Leads, Out

(* A jump leads where it says.                                             *)
LEMMA JumpIsLed ==
  ASSUME Types, NEW t \in Thread, Running(t), Is(t, {"jump", "if", "either", "cas"})
  PROVE  Target(t, At(t).to) \in Leads(c(t), pc[t])
<1>1. pc[t] \in 1 .. Len(c(t)) /\ At(t) = c(t)[pc[t]] /\ End(t) = Len(c(t)) + 1 BY Lengths
<1>2. At(t).op \in {"jump", "if", "either", "cas"} BY DEF Is
<1> QED BY <1>1, <1>2 DEF Leads, Target

(* A goroutine that goes on to the next statement walks.                   *)
LEMMA NextWalks ==
  ASSUME Types, NEW t \in Thread, Running(t), ~Is(t, {"select", "jump"}), NEW v, Goto(t, 1, v)
  PROVE  Walks(t) /\ pc'[t] = pc[t] + 1
BY NextIsLed, Going

(* Each action of the runtime is one of these kinds of step.               *)
LEMMA MemoryActs == ASSUME Types, NEW t \in Thread, Running(t), Memory(t) PROVE Writes(t) \/ Reads(t)
<1> DEFINE i == At(t)
<1>1. i.op \in {"read", "load", "write", "store", "writereg", "add"} BY DEF Memory, Is
<1>2. ~Is(t, {"select", "jump"}) BY <1>1 DEF Is
<1>3. Walks(t) BY <1>2, NextWalks DEF Memory
<1>4. UNCHANGED <<buf, closed>> BY DEF Memory, channels
<1>5. mem' = [mem EXCEPT ![i.x] = CASE i.op \in {"read", "load"} -> mem[i.x]
                  [] i.op \in {"write", "store"} -> i.v
                  [] i.op = "writereg" -> reg[t] + i.v
                  [] i.op = "add" -> mem[i.x] + i.v]
  BY DEF Memory
<1>6. CASE i.op \in {"read", "load"}
  <2>1. mem' = [mem EXCEPT ![i.x] = mem[i.x]] BY <1>5, <1>6
  <2>2. mem' = mem BY <2>1 DEF Types
  <2> QED BY <1>3, <1>4, <1>6, <2>2 DEF Reads, Is, Modifying
<1>7. CASE i.op \in {"write", "store", "writereg"}
  <2>1. mem' = [mem EXCEPT ![i.x] = mem'[i.x]] BY <1>5, <1>7 DEF Types
  <2> QED BY <1>3, <1>4, <1>7, <2>1 DEF Writes, Is, Modifying, Types
<1>8. CASE i.op = "add"
  <2>1. mem' = [mem EXCEPT ![i.x] = mem[i.x] + i.v] BY <1>5, <1>8
  <2> QED BY <1>3, <1>4, <1>8, <2>1 DEF Writes, Is, Modifying, Types
<1> QED BY <1>1, <1>6, <1>7, <1>8
(* A compare-and-swap that fails goes elsewhere, unless it goes on in any  *)
(* case.                                                                   *)
LEMMA CompareSwapActs == ASSUME Types, NEW t \in Thread, Running(t), CompareSwap(t) PROVE Writes(t)
<1> DEFINE i == At(t)
<1>1. i.op = "cas" BY DEF CompareSwap, Is
<1>2. ~Is(t, {"select", "jump"}) /\ Is(t, {"jump", "if", "either", "cas"}) BY <1>1 DEF Is
<1>3. UNCHANGED <<buf, closed>> BY DEF CompareSwap, channels
<1>4. CASE mem[i.x] = i.v[1]
  <2>1. mem' = [mem EXCEPT ![i.x] = i.v[2]] /\ Next1(t) BY <1>4 DEF CompareSwap
  <2>2. Walks(t) /\ pc'[t] = pc[t] + 1 BY <1>2, <2>1, NextWalks DEF Next1
  <2>3. mem' = [mem EXCEPT ![i.x] = mem'[i.x]] BY <2>1 DEF Types
  <2> QED BY <1>1, <1>3, <1>4, <2>1, <2>2, <2>3 DEF Writes, Is, Modifying, Types
<1>5. CASE mem[i.x] # i.v[1]
  <2>1. Goto(t, i.to, reg[t]) /\ mem' = mem BY <1>5 DEF CompareSwap
  <2>2. Walks(t) /\ pc'[t] = Target(t, i.to) BY <1>2, <2>1, JumpIsLed, Going
  <2>3. mem' = [mem EXCEPT ![i.x] = mem'[i.x]] BY <2>1 DEF Types
  <2>4. Leads(c(t), pc[t]) = {pc[t] + 1, Target(t, i.to)}
    <3>1. pc[t] \in 1 .. Len(c(t)) /\ At(t) = c(t)[pc[t]] /\ End(t) = Len(c(t)) + 1 BY Lengths
    <3> QED BY <1>1, <3>1 DEF Leads, Target, Out
  <2> QED BY <1>1, <1>3, <2>1, <2>2, <2>3, <2>4 DEF Writes, Is, Modifying, Types
<1> QED BY <1>4, <1>5
(* Jumps read nothing but the register.                                    *)
LEMMA ControlActs == ASSUME Types, NEW t \in Thread, Running(t), Control(t) PROVE Reads(t)
<1> DEFINE i == At(t)
<1>1. i.op \in {"if", "jump", "either"} BY DEF Control, Is
<1>2. UNCHANGED <<mem, buf, closed>> BY DEF Control, channels
<1>3. Walks(t)
  <2>1. CASE Goto(t, i.to, reg[t])
    <3>1. Is(t, {"jump", "if", "either", "cas"}) BY <1>1 DEF Is
    <3> QED BY <2>1, <3>1, JumpIsLed, Going
  <2>2. CASE i.op # "jump" /\ Next1(t)
    <3>1. ~Is(t, {"select", "jump"}) BY <1>1, <2>2 DEF Is
    <3> QED BY <2>2, <3>1, NextWalks DEF Next1
  <2> QED BY <2>1, <2>2 DEF Control
<1> QED BY <1>1, <1>2, <1>3 DEF Reads, Is, Modifying
(* Snapshots write a cell, other observations none.                        *)
LEMMA ObserveActs == ASSUME Types, NEW t \in Thread, Running(t), Observe(t) PROVE Writes(t) \/ Reads(t)
<1> DEFINE i == At(t)
<1>1. i.op \in {"log", "logreg", "alive", "report", "snapshot"} BY DEF Observe, Is
<1>2. UNCHANGED <<buf, closed>> BY DEF Observe, channels
<1>3. ~Is(t, {"select", "jump"}) BY <1>1 DEF Is
<1>4. Walks(t) BY <1>3, NextWalks DEF Observe
<1>5. CASE i.op = "snapshot"
  <2>1. mem' = [mem EXCEPT ![i.x] = Others] BY <1>5 DEF Observe
  <2>2. mem' = [mem EXCEPT ![i.x] = mem'[i.x]] BY <2>1 DEF Types
  <2> QED BY <1>2, <1>4, <1>5, <2>2 DEF Writes, Is, Modifying, Types
<1>6. CASE i.op # "snapshot"
  <2>1. mem' = mem BY <1>6 DEF Observe
  <2> QED BY <1>1, <1>2, <1>4, <1>6, <2>1 DEF Reads, Is, Modifying
<1> QED BY <1>5, <1>6
(* A Go statement starts the goroutines it names.                          *)
LEMMA StartActs == ASSUME Types, NEW t \in Thread, Running(t), Start(t) PROVE Forks(t)
<1>1. At(t).op = "go" /\ Is(t, {"go"}) /\ ~Is(t, {"select", "jump"}) BY DEF Start, Is
<1>2. pc[t] \in 1 .. Len(c(t)) /\ At(t) = c(t)[pc[t]] BY Lengths
<1>3. pc' = [u \in Thread |-> IF u = t THEN pc[t] + 1 ELSE IF u \in At(t).x THEN 1 ELSE pc[u]]
  BY DEF Start
<1>4. pc'[t] = pc[t] + 1 BY <1>3
<1>5. pc'[t] \in Leads(c(t), pc[t]) BY <1>1, <1>4, NextIsLed
<1>6. Starts(c(t), pc[t]) = At(t).x BY <1>1, <1>2 DEF Starts
<1>7. UNCHANGED <<mem, buf, closed>> BY DEF Start, channels
<1> QED BY <1>1, <1>2, <1>3, <1>4, <1>5, <1>6, <1>7 DEF Forks, Follows
(* Locks and wait groups.                                                  *)
LEMMA LockActs ==
  ASSUME Types, NEW t \in Thread, Running(t), Acquire(t) \/ Free(t) \/ Join(t)
  PROVE  Stays \/ Writes(t) \/ Reads(t)
<1> DEFINE i == At(t)
<1>1. CASE Acquire(t)
  <2>1. i.op \in {"lock", "rlock"} BY <1>1 DEF Acquire, Is
  <2>2. Walks(t)
    <3>1. ~Is(t, {"select", "jump"}) BY <2>1 DEF Is
    <3> QED BY <1>1, <3>1, NextWalks DEF Acquire, Next1
  <2>3. /\ IF i.op = "lock" THEN mem[i.x] = 0 ELSE mem[i.x] >= 0
        /\ mem' = [mem EXCEPT ![i.x] = IF i.op = "lock" THEN -1 ELSE mem[i.x] + 1]
        /\ UNCHANGED <<buf, closed>>
    BY <1>1 DEF Acquire, channels
  <2>4. mem' = [mem EXCEPT ![i.x] = mem'[i.x]] BY <2>3 DEF Types
  <2> QED BY <2>1, <2>2, <2>3, <2>4 DEF Writes, Is, Modifying, Types
<1>2. CASE Free(t)
  <2>1. i.op \in {"unlock", "runlock", "done"} BY <1>2 DEF Free, Is
  <2> DEFINE held == IF i.op = "unlock" THEN mem[i.x] = -1 ELSE mem[i.x] > 0
  <2>2. IF ~held THEN Panic
        ELSE /\ mem' = [mem EXCEPT ![i.x] = IF i.op = "unlock" THEN 0 ELSE mem[i.x] - 1]
             /\ Next1(t) /\ UNCHANGED <<channels, log, panicked>>
    BY <1>2, <2>1 DEF Free
  <2>3. CASE ~held BY <2>2, <2>3 DEF Panic, Stays
  <2>4. CASE held
    <3>1. Walks(t)
      <4>1. ~Is(t, {"select", "jump"}) BY <2>1 DEF Is
      <4> QED BY <2>2, <2>4, <4>1, NextWalks DEF Next1
    <3>2. mem' = [mem EXCEPT ![i.x] = mem'[i.x]] BY <2>2, <2>4 DEF Types
    <3> QED BY <2>1, <2>2, <2>4, <3>1, <3>2 DEF Writes, Is, Modifying, Types, channels
  <2> QED BY <2>3, <2>4
<1>3. CASE Join(t)
  <2>1. i.op = "wait" /\ mem[i.x] = 0 /\ UNCHANGED <<mem, buf, closed>>
    BY <1>3 DEF Join, Is, channels
  <2>2. Walks(t)
    <3>1. ~Is(t, {"select", "jump"}) BY <2>1 DEF Is
    <3> QED BY <1>3, <3>1, NextWalks DEF Join, Next1
  <2> QED BY <2>1, <2>2 DEF Reads, Is, Modifying
<1> QED BY <1>1, <1>2, <1>3
(* A close adds to the closed channels, or panics.                         *)
LEMMA CloseActs == ASSUME Types, NEW t \in Thread, Running(t), CloseOrCancel(t) PROVE Stays \/ Closes(t)
<1>1. At(t).op \in {"close", "cancel"} BY DEF CloseOrCancel, Is
<1>2. ~Is(t, {"select", "jump"}) BY <1>1 DEF Is
<1>3. CASE Panic BY <1>3 DEF Panic, Stays
<1>4. CASE closed' = closed \cup {At(t).x} /\ Next1(t) /\ UNCHANGED <<mem, buf, log, panicked>>
  <2>1. Walks(t) BY <1>2, <1>4, NextWalks DEF Next1
  <2> QED BY <1>1, <1>4, <2>1 DEF Closes, Is
<1> QED BY <1>3, <1>4 DEF CloseOrCancel
(* A select sends, receives, meets somebody or polls.                      *)
LEMMA ChannelsAct ==
  ASSUME Types, NEW t \in Thread, Running(t), At(t).op = "select", Channels(t)
  PROVE  Stays \/ Selects(t) \/ \E u \in Thread : Meets(t, u)
<1>1. pc[t] \in 1 .. Len(c(t)) /\ At(t) = c(t)[pc[t]] BY Lengths
<1>2. \A u \in Thread : \A o \in Offers(u) :
        /\ Is(u, {"select"})
        /\ \E q \in At(u).cases : /\ o.x = q.x /\ o.to = q.to
                                  /\ o.dir = "recv" => o = q /\ q.dir = "recv"
                                  /\ o.dir # "recv" => q.dir # "recv"
  BY DEF Offers, SendCase
<1>3. \A u \in Thread : \A q \in At(u).cases : Is(u, {"select"}) /\ Running(u) =>
        /\ Target(u, q.to) \in Leads(c(u), pc[u])
        /\ q.dir = "recv" => Target(u, q.end) \in Leads(c(u), pc[u])
  <2> SUFFICES ASSUME NEW u \in Thread, NEW q \in At(u).cases, Is(u, {"select"}), Running(u)
               PROVE  /\ Target(u, q.to) \in Leads(c(u), pc[u])
                      /\ q.dir = "recv" => Target(u, q.end) \in Leads(c(u), pc[u])
    OBVIOUS
  <2>1. pc[u] \in 1 .. Len(c(u)) /\ At(u) = c(u)[pc[u]] /\ End(u) = Len(c(u)) + 1 BY Lengths
  <2>2. At(u).op = "select" BY DEF Is
  <2> QED BY <2>1, <2>2 DEF Leads, Target
<1>4. \A u \in Thread : \A to, v :
        Goto(u, to, v) /\ Running(u) /\ Target(u, to) \in Leads(c(u), pc[u]) =>
          Walks(u) /\ pc'[u] = Target(u, to)
  BY Going
<1>5. CASE SendBuffered(t)
  <2>1. PICK o \in Offers(t) :
          /\ o.dir = "send"
          /\ IF o.x \in closed THEN Panic
             ELSE /\ buf' = [buf EXCEPT ![o.x] = Append(buf[o.x], o.v)]
                  /\ Goto(t, o.to, reg[t]) /\ UNCHANGED <<mem, closed, log, panicked>>
    BY <1>5 DEF SendBuffered
  <2>2. PICK q \in At(t).cases : o.x = q.x /\ o.to = q.to /\ q.dir # "recv" BY <1>2, <2>1
  <2>3. CASE Panic BY <2>3 DEF Panic, Stays
  <2>4. CASE ~Panic
    <3>1. Walks(t) /\ pc'[t] = Target(t, q.to) BY <1>2, <1>3, <1>4, <2>1, <2>2, <2>4
    <3>2. buf' = [buf EXCEPT ![q.x] = Append(buf[q.x], o.v)] /\ UNCHANGED <<mem, closed>>
      BY <2>1, <2>2, <2>4
    <3> QED BY <1>2, <2>2, <3>1, <3>2 DEF Selects
  <2> QED BY <2>3, <2>4
<1>6. CASE ReceiveBuffered(t)
  <2>1. PICK o \in Offers(t) :
          /\ o.dir = "recv" /\ buf[o.x] # <<>>
          /\ buf' = [buf EXCEPT ![o.x] = Tail(buf[o.x])]
          /\ Goto(t, o.to, Head(buf[o.x])) /\ UNCHANGED <<mem, closed, log, panicked>>
    BY <1>6 DEF ReceiveBuffered
  <2>2. o \in At(t).cases BY <1>2, <2>1
  <2>3. Walks(t) /\ pc'[t] = Target(t, o.to) BY <1>2, <1>3, <1>4, <2>1, <2>2
  <2> QED BY <1>2, <2>1, <2>2, <2>3 DEF Selects
<1>7. CASE ReceiveClosed(t)
  <2>1. PICK o \in Offers(t) : /\ o.dir = "recv" /\ o.x \in closed /\ Goto(t, o.end, 0)
                               /\ UNCHANGED <<mem, channels, log, panicked>>
    BY <1>7 DEF ReceiveClosed
  <2>2. o \in At(t).cases BY <1>2, <2>1
  <2>3. Walks(t) /\ pc'[t] = Target(t, o.end) BY <1>2, <1>3, <1>4, <2>1, <2>2
  <2> QED BY <1>2, <2>1, <2>2, <2>3 DEF Selects, channels
<1>8. CASE \E u \in Thread : Rendezvous(t, u)
  <2>1. PICK u \in Thread : Rendezvous(t, u) BY <1>8
  <2>2. t # u /\ Running(u) /\ UNCHANGED <<mem, buf, closed>> BY <2>1 DEF Rendezvous, channels
  <2>3. PICK o \in Offers(t), p \in Offers(u) :
          /\ o.dir = "send" /\ p.dir = "recv" /\ o.x = p.x
          /\ pc' = [pc EXCEPT ![t] = Target(t, o.to), ![u] = Target(u, p.to)]
    BY <2>1 DEF Rendezvous
  <2>4. PICK q \in At(t).cases : o.x = q.x /\ o.to = q.to /\ q.dir # "recv" BY <1>2, <2>3
  <2>5. p \in At(u).cases BY <1>2, <2>3
  <2>6. Is(t, {"select"}) /\ Is(u, {"select"}) BY <1>2, <2>3
  <2>7. pc'[t] = Target(t, q.to) /\ pc'[u] = Target(u, p.to) BY <2>2, <2>3, <2>4 DEF Types
  <2>8. pc' = [pc EXCEPT ![t] = pc'[t], ![u] = pc'[u]] BY <2>3, <2>4, <2>7
  <2>9. Follows(t) /\ Follows(u) BY <1>3, <2>2, <2>4, <2>5, <2>6, <2>7, Lengths DEF Follows
  <2>10. q.x = p.x BY <2>3, <2>4
  <2> QED BY <2>2, <2>3, <2>4, <2>5, <2>6, <2>7, <2>8, <2>9, <2>10 DEF Meets
<1>9. CASE Park(t) BY <1>9 DEF Park, Stays, channels
<1>10. CASE Default(t)
  <2>1. At(t).to # 0 /\ Goto(t, At(t).to, reg[t]) /\ UNCHANGED <<mem, buf, closed>> /\ Is(t, {"select"})
    BY <1>10 DEF Default, Polls, channels
  <2>2. Target(t, At(t).to) \in Leads(c(t), pc[t])
    <3>1. End(t) = Len(c(t)) + 1 BY Lengths
    <3> QED BY <1>1, <2>1, <3>1 DEF Leads, Target
  <2> QED BY <1>4, <2>1, <2>2 DEF Selects
<1> QED BY <1>5, <1>6, <1>7, <1>8, <1>9, <1>10 DEF Channels
(* So is every step.                                                       *)
LEMMA StepActs == ASSUME Types, NEW t \in Thread, Step(t) PROVE prog' = prog /\ Acts(t)
<1>1. Running(t) /\ prog' = prog BY DEF Step
<1>2. CASE At(t).op = "select"
  <2>1. Channels(t) BY <1>2 DEF Step
  <2> QED BY <1>1, <1>2, <2>1, ChannelsAct DEF Acts
<1>3. CASE At(t).op # "select"
  <2>1. \/ Memory(t) \/ CompareSwap(t) \/ Control(t) \/ Observe(t) \/ Start(t)
        \/ (Acquire(t) \/ Free(t) \/ Join(t)) \/ CloseOrCancel(t)
    BY <1>3 DEF Step
  <2> QED BY <1>1, <2>1, MemoryActs, CompareSwapActs, ControlActs, ObserveActs, StartActs, LockActs,
             CloseActs DEF Acts
<1> QED BY <1>2, <1>3

(* What a step leaves in the registers.                                    *)
Recalls(t) ==
  /\ reg' = [u \in Thread |-> reg'[u]]
  /\ \A u \in Thread \ {t} : ~Is(u, {"select"}) => reg'[u] = reg[u]
  /\ Is(t, {"read", "load"}) => reg'[t] = mem[At(t).x]
  /\ Is(t, {"if"}) => reg'[t] = reg[t] /\ (reg[t] # At(t).v => pc'[t] = pc[t] + 1)

(* Goto leaves the registers of the others.                                *)
LEMMA GotoRecalls ==
  ASSUME Types, NEW t \in Thread, NEW to, NEW v, Goto(t, to, v)
  PROVE  /\ reg' = [u \in Thread |-> reg'[u]] /\ reg'[t] = v
         /\ \A u \in Thread \ {t} : reg'[u] = reg[u]
BY DEF Goto, Types
(* Every step leaves in the registers what Recalls says.                   *)
LEMMA StepRecalls == ASSUME Types, NEW t \in Thread, Step(t) PROVE Recalls(t)
<1>1. CASE reg' = reg /\ ~Is(t, {"read", "load", "if"}) BY <1>1 DEF Recalls, Is, Types
<1>2. ASSUME NEW to, NEW v, Goto(t, to, v), ~Is(t, {"read", "load", "if"}) PROVE Recalls(t)
  BY <1>2, GotoRecalls DEF Recalls, Is
<1>3. CASE Memory(t)
  <2> DEFINE i == At(t)
             new == CASE i.op \in {"read", "load"} -> mem[i.x]
                      [] i.op \in {"write", "store"} -> i.v
                      [] i.op = "writereg" -> reg[t] + i.v
                      [] i.op = "add" -> mem[i.x] + i.v
  <2>1. Goto(t, 1, IF i.op \in {"write", "store"} THEN reg[t] ELSE new) BY <1>3 DEF Memory
  <2>2. i.op \in {"read", "load", "write", "store", "writereg", "add"} BY <1>3 DEF Memory, Is
  <2>3. i.op \in {"read", "load"} => new = mem[i.x] OBVIOUS
  <2> QED BY <2>1, <2>2, <2>3, GotoRecalls DEF Recalls, Is
<1>4. CASE Control(t)
  <2>1. At(t).op \in {"if", "jump", "either"} BY <1>4 DEF Control, Is
  <2>2. CASE (At(t).op = "if" => reg[t] = At(t).v) /\ Goto(t, At(t).to, reg[t])
    BY <2>1, <2>2, GotoRecalls DEF Recalls, Is
  <2>3. CASE Next1(t)
    <3>1. Goto(t, 1, reg[t]) BY <2>3 DEF Next1
    <3>2. pc'[t] = pc[t] + 1 BY <3>1 DEF Goto, Target, Out, Types
    <3> QED BY <2>1, <3>1, <3>2, GotoRecalls DEF Recalls, Is
  <2> QED BY <1>4, <2>2, <2>3 DEF Control
<1>5. CASE At(t).op \notin {"read", "load", "if"} /\ ~\E u \in Thread : Rendezvous(t, u)
  <2>1. ~Is(t, {"read", "load", "if"}) BY <1>5 DEF Is
  <2>2. ~Memory(t) /\ ~Control(t) => reg' = reg \/ \E to, v : Goto(t, to, v)
    <3>1. CompareSwap(t) => \E to, v : Goto(t, to, v) BY DEF CompareSwap, Next1
    <3>2. Observe(t) \/ Acquire(t) \/ Join(t) => \E to, v : Goto(t, to, v)
      BY DEF Observe, Acquire, Join, Next1
    <3>3. Start(t) => reg' = reg BY DEF Start
    <3>4. Free(t) => reg' = reg \/ \E to, v : Goto(t, to, v) BY DEF Free, Panic, Next1
    <3>5. CloseOrCancel(t) => reg' = reg \/ \E to, v : Goto(t, to, v) BY DEF CloseOrCancel, Panic, Next1
    <3>6. SendBuffered(t) => reg' = reg \/ \E to, v : Goto(t, to, v) BY DEF SendBuffered, Panic
    <3>7. ReceiveBuffered(t) \/ ReceiveClosed(t) => \E to, v : Goto(t, to, v)
      BY DEF ReceiveBuffered, ReceiveClosed
    <3>8. Park(t) \/ Default(t) => reg' = reg \/ \E to, v : Goto(t, to, v) BY DEF Park, Default
    <3> QED BY <1>5, <3>1, <3>2, <3>3, <3>4, <3>5, <3>6, <3>7, <3>8 DEF Step, Channels
  <2> QED BY <1>1, <1>2, <1>3, <1>4, <2>1, <2>2
<1>6. CASE \E u \in Thread : Rendezvous(t, u)
  <2>1. PICK u \in Thread : Rendezvous(t, u) BY <1>6
  <2>2. PICK o \in Offers(t), p \in Offers(u) : reg' = [reg EXCEPT ![u] = o.v] BY <2>1 DEF Rendezvous
  <2>3. At(t).op = "select" /\ At(u).op = "select" BY <2>2 DEF Offers, Is
  <2> QED BY <2>2, <2>3 DEF Recalls, Is, Types
<1>7. CASE At(t).op \in {"read", "load", "if"}
  <2> QED BY <1>3, <1>4, <1>7 DEF Step, CompareSwap, Observe, Start, Acquire, Free, Join, CloseOrCancel, Is
<1> QED BY <1>5, <1>6, <1>7

(* Whoever is started has not been started: it is at 0 until the Go        *)
(* statement that names it has been passed.                                *)
StartInv ==
  \A t \in Thread : \A i \in 1 .. Len(c(t)) : \A u \in Starts(c(t), i) : pc[t] <= i => pc[u] = 0

(* A behaviour is about one program.                                       *)
LEMMA SameProgram == ASSUME prog' = prog PROVE P' = P /\ Thread' = Thread /\ \A t : c(t)' = c(t)
BY DEF P, Thread, c

(* Whoever moves follows its text, or is started.                          *)
LEMMA Moves ==
  ASSUME Types, StartInv, NEW t \in Thread, Acts(t), NEW u \in Thread
  PROVE  /\ pc' \in [Thread -> Int] /\ DOMAIN pc' = Thread
         /\ \/ pc'[u] = pc[u]
            \/ Follows(u)
            \/ pc[u] = 0 /\ pc'[u] = 1 /\ Forks(t) /\ u # t /\ u \in Starts(c(t), pc[t])
<1>1. CASE Stays BY <1>1 DEF Stays, Types
<1>2. CASE Walks(t)
  <2>1. pc' = [pc EXCEPT ![t] = pc'[t]] /\ Follows(t) BY <1>2 DEF Walks
  <2>2. pc'[t] \in Int BY <2>1, Lengths DEF Follows
  <2>3. u # t => pc'[u] = pc[u] BY <2>1 DEF Types
  <2>4. pc' \in [Thread -> Int] BY <2>1, <2>2 DEF Types
  <2> QED BY <2>1, <2>3, <2>4
<1>3. CASE Forks(t)
  <2>1. /\ Follows(t)
        /\ pc' = [v \in Thread |-> IF v = t THEN pc'[t]
                                 ELSE IF v \in Starts(c(t), pc[t]) THEN 1 ELSE pc[v]]
    BY <1>3 DEF Forks
  <2>2. pc'[t] \in Int BY <2>1, Lengths DEF Follows
  <2>3. pc' \in [Thread -> Int] /\ DOMAIN pc' = Thread BY <2>1, <2>2 DEF Types
  <2>4. u \in Starts(c(t), pc[t]) => pc[u] = 0
    <3>1. pc[t] \in 1 .. Len(c(t)) BY <2>1 DEF Follows
    <3> QED BY <3>1, Lengths DEF StartInv
  <2>5. u # t => pc'[u] = IF u \in Starts(c(t), pc[t]) THEN 1 ELSE pc[u] BY <2>1
  <2> QED BY <1>3, <2>1, <2>3, <2>4, <2>5
<1>4. CASE \E w \in Thread : Meets(t, w)
  <2>1. PICK w \in Thread : Meets(t, w) BY <1>4
  <2>2. /\ Follows(t) /\ Follows(w) /\ t # w
        /\ pc' = [pc EXCEPT ![t] = pc'[t], ![w] = pc'[w]]
    BY <2>1 DEF Meets
  <2>3. pc'[t] \in Int /\ pc'[w] \in Int BY <2>2, Lengths DEF Follows
  <2>4. pc' \in [Thread -> Int] BY <2>2, <2>3 DEF Types
  <2>5. u # t /\ u # w => pc'[u] = pc[u] BY <2>2 DEF Types
  <2> QED BY <2>2, <2>4, <2>5
<1> QED BY <1>1, <1>2, <1>3, <1>4 DEF Acts, Writes, Reads, Closes, Selects

(* The types are kept by every step.                                       *)
LEMMA TypesHold ==
  ASSUME Types, StartInv, NEW t \in Thread, Acts(t), Recalls(t), prog' = prog
  PROVE  Types'
<1>1. P' = P /\ Thread' = Thread /\ \A u : c(u)' = c(u) BY SameProgram
<1>2. pc' \in [Thread -> Int] BY Moves
<1>3. \A u \in Thread : pc'[u] \in 0 .. Len(c(u)) + 1
  <2> TAKE u \in Thread
  <2>1. /\ Len(c(u)) \in Nat /\ pc[u] \in 0 .. Len(c(u)) + 1
        /\ \A i \in 1 .. Len(c(u)) : Leads(c(u), i) \subseteq 1 .. Len(c(u)) + 1
    BY Lengths
  <2>2. CASE Follows(u) BY <2>1, <2>2 DEF Follows
  <2> QED BY <2>1, <2>2, Moves
<1>4. mem' = [x \in P.cells |-> mem'[x]]
  <2>1. CASE mem' = mem BY <2>1 DEF Types
  <2>2. CASE Writes(t)
    <3>1. PICK x : mem' = [mem EXCEPT ![x] = mem'[x]] BY <2>2 DEF Writes
    <3> QED BY <3>1 DEF Types
  <2> QED BY <2>1, <2>2 DEF Acts, Stays, Forks, Reads, Closes, Selects, Meets
<1>5. /\ buf' = [ch \in DOMAIN P.cap |-> buf'[ch]]
      /\ \A ch \in DOMAIN P.cap : \E V : buf'[ch] \in Seq(V)
  <2>1. CASE buf' = buf BY <2>1 DEF Types
  <2>2. ASSUME NEW x, NEW v, buf' = [buf EXCEPT ![x] = Append(buf[x], v)] PROVE <1>5!:
    <3>1. buf' = [ch \in DOMAIN P.cap |-> IF ch = x THEN Append(buf[ch], v) ELSE buf[ch]]
      BY <2>2 DEF Types
    <3>2. ASSUME NEW ch \in DOMAIN P.cap PROVE \E V : buf'[ch] \in Seq(V)
      <4>1. PICK V : buf[ch] \in Seq(V) BY DEF Types
      <4>2. buf[ch] \in Seq(V \cup {v})
        <5>1. V \subseteq V \cup {v} OBVIOUS
        <5> QED BY <4>1, <5>1
      <4>3. Append(buf[ch], v) \in Seq(V \cup {v}) BY <4>2
      <4> QED BY <3>1, <4>2, <4>3
    <3> QED BY <3>1, <3>2
  <2>3. ASSUME NEW x, buf[x] # <<>>, buf' = [buf EXCEPT ![x] = Tail(buf[x])] PROVE <1>5!:
    <3>1. buf' = [ch \in DOMAIN P.cap |-> IF ch = x THEN Tail(buf[ch]) ELSE buf[ch]] BY <2>3 DEF Types
    <3>2. ASSUME NEW ch \in DOMAIN P.cap PROVE \E V : buf'[ch] \in Seq(V)
      <4>1. PICK V : buf[ch] \in Seq(V) BY DEF Types
      <4>2. ch = x => Tail(buf[ch]) \in Seq(V) BY <2>3, <4>1
      <4> QED BY <3>1, <4>1, <4>2
    <3> QED BY <3>1, <3>2
  <2>4. CASE Selects(t) BY <2>1, <2>2, <2>3, <2>4 DEF Selects
  <2> QED BY <2>1, <2>4 DEF Acts, Stays, Forks, Writes, Reads, Closes, Meets
<1>6. reg' = [u \in Thread |-> reg'[u]] BY DEF Recalls
<1> QED BY <1>1, <1>2, <1>3, <1>4, <1>5, <1>6 DEF Types

(* What NeverBack and Gate say of a step.                                  *)
LEMMA StaysPast ==
  ASSUME Types, StartInv, NEW t \in Thread, Acts(t), NEW u \in Thread,
         NEW k \in Nat, NeverBack(c(u), k), pc[u] > k \/ (pc[u] = k /\ Follows(u))
  PROVE  pc'[u] > k
<1>1. pc[u] \in 0 .. Len(c(u)) + 1 /\ Len(c(u)) \in Nat BY Lengths
<1>2. CASE Follows(u)
  <2>1. pc[u] \in k .. Len(c(u)) /\ pc'[u] \in Leads(c(u), pc[u]) BY <1>1, <1>2 DEF Follows
  <2> QED BY <2>1 DEF NeverBack
<1> QED BY <1>1, <1>2, Moves

(* Whoever gets past a gate was at it and went on.                         *)
LEMMA Crossing ==
  ASSUME Types, StartInv, NEW t \in Thread, Acts(t), NEW u \in Thread,
         NEW k, NEW last \in {Len(c(u)), Len(c(u)) + 1}, GateUpTo(c(u), k, last), pc'[u] <= last,
         ~(pc[u] = k /\ Follows(u))
  PROVE  pc'[u] > k <=> pc[u] > k
<1>1. /\ pc[u] \in 0 .. Len(c(u)) + 1 /\ Len(c(u)) \in Nat
      /\ k \in 1 .. Len(c(u)) /\ NeverBack(c(u), k)
  BY Lengths DEF GateUpTo
<1>2. CASE pc[u] > k BY <1>1, <1>2, StaysPast
<1>3. CASE pc[u] < k /\ Follows(u)
  <2>1. pc'[u] <= k /\ pc'[u] \in Int
    <3>1. pc[u] \in 1 .. k - 1 /\ pc'[u] \in Leads(c(u), pc[u]) BY <1>1, <1>3 DEF Follows
    <3>2. pc'[u] \in Int BY Moves
    <3> QED BY <1>1, <3>1, <3>2 DEF GateUpTo
  <2> QED BY <1>1, <1>3, <2>1
<1>4. CASE pc[u] <= k /\ ~Follows(u) BY <1>1, <1>4, Moves
<1> QED BY <1>1, <1>2, <1>3, <1>4

(* The same of a gate for the whole function.                              *)
LEMMA CrossingGate ==
  ASSUME Types, StartInv, NEW t \in Thread, Acts(t), NEW u \in Thread,
         NEW k, Gate(c(u), k), ~(pc[u] = k /\ Follows(u))
  PROVE  pc'[u] > k <=> pc[u] > k
<1>1. pc'[u] <= Len(c(u)) + 1
  <2>1. pc[u] \in 0 .. Len(c(u)) + 1 /\ Len(c(u)) \in Nat
        /\ \A i \in 1 .. Len(c(u)) : Leads(c(u), i) \subseteq 1 .. Len(c(u)) + 1
    BY Lengths
  <2>2. CASE Follows(u) BY <2>1, <2>2 DEF Follows
  <2> QED BY <2>1, <2>2, Moves
<1> QED BY <1>1, Crossing DEF Gate

(* Who executes something else than a select moves by itself.              *)
LEMMA MovesAlone ==
  ASSUME Types, StartInv, NEW t \in Thread, Acts(t), NEW u \in Thread,
         Follows(u), pc'[u] # pc[u], ~Is(u, {"select"})
  PROVE  u = t
<1>1. CASE Stays BY <1>1 DEF Stays
<1>2. CASE Walks(t) BY <1>2 DEF Walks, Types
<1>3. CASE Forks(t)
  <2>1. u # t => pc'[u] = pc[u] \/ u \in Starts(c(t), pc[t]) BY <1>3 DEF Forks
  <2>2. pc[t] \in 1 .. Len(c(t)) BY <1>3 DEF Forks, Follows
  <2>3. u \in Starts(c(t), pc[t]) => pc[u] = 0 BY <2>2, Lengths DEF StartInv
  <2> QED BY <2>1, <2>3, Lengths DEF Follows
<1>4. CASE \E w \in Thread : Meets(t, w) BY <1>4 DEF Meets, Types
<1> QED BY <1>1, <1>2, <1>3, <1>4 DEF Acts, Writes, Reads, Closes, Selects

(* Whoever has not passed a Go statement has not started its goroutines.   *)
LEMMA StartInvHolds ==
  ASSUME Types, StartInv, NEW t \in Thread, Acts(t), prog' = prog
  PROVE  StartInv'
<1> SUFFICES ASSUME NEW u \in Thread, NEW i \in 1 .. Len(c(u)), NEW w \in Starts(c(u), i), pc'[u] <= i
             PROVE  pc'[w] = 0
  BY SameProgram DEF StartInv
<1>1. Len(c(u)) \in Nat /\ pc[u] \in 0 .. Len(c(u)) + 1 /\ pc'[u] \in Int BY Lengths, Moves
<1>2. w \in Thread /\ NeverBack(c(u), i) BY DEF Types, WellFormed, c, Thread
<1>3. ~(pc[u] > i \/ (pc[u] = i /\ Follows(u))) BY <1>1, <1>2, StaysPast
<1>4. pc[w] = 0 BY <1>1, <1>3 DEF StartInv
<1>5. ~Follows(w) BY <1>4, <1>2, Lengths DEF Follows
<1>6. ASSUME Forks(t), w \in Starts(c(t), pc[t]) PROVE FALSE
  <2>1. Follows(t) /\ pc[t] \in 1 .. Len(c(t)) BY <1>6 DEF Forks, Follows
  <2>2. t # u \/ pc[t] # i => Starts(c(t), pc[t]) \cap Starts(c(u), i) = {}
    BY <2>1, <1>1 DEF Types, WellFormed, c, Thread
  <2> QED BY <1>3, <1>6, <2>1, <2>2
<1> QED BY <1>2, <1>4, <1>5, <1>6, Moves

-----------------------------------------------------------------------------
(* Locks.                                                                  *)
Writers(m) == {t \in Thread : Holds(c(t), m, pc[t]) = "writing"}
Readers(m) == {t \in Thread : Holds(c(t), m, pc[t]) = "reading"}
Locked(m) ==
  \/ mem[m] = -1 /\ Readers(m) = {} /\ \E t \in Thread : Writers(m) = {t}
  \/ Writers(m) = {} /\ mem[m] = Cardinality(Readers(m))
LockInv == \A m : LockUse(P, m) => Locked(m)

(* Nobody has a lock at its first statement.                               *)
LEMMA HoldsAtStart ==
  ASSUME NEW s, NEW m, NEW i \in Int, i <= 1
  PROVE  Holds(s, m, i) = "none"
<1>1. 1 .. i - 1 = {} OBVIOUS
<1>2. {j \in 1 .. i - 1 : Uses(s, j, {"lock", "rlock", "unlock", "runlock", "cas"}, m)} = {} BY <1>1
<1> QED BY <1>2 DEF Holds

(* There are finitely many goroutines.                                     *)
LEMMA FiniteThreads == ASSUME Types, NEW S \in SUBSET Thread PROVE IsFiniteSet(S)
BY FS_Subset DEF Types, WellFormed, Thread

(* Who does not use the lock has what it had.                              *)
LEMMA HoldsTheSame ==
  ASSUME Types, StartInv, NEW t \in Thread, Acts(t), NEW m, LockUse(P, m), NEW u \in Thread,
         u = t => ~Uses(c(t), pc[t], Modifying, m)
  PROVE  Holds(c(u), m, pc'[u]) = Holds(c(u), m, pc[u])
<1>1. CASE pc'[u] = pc[u] BY <1>1
<1>2. CASE pc[u] = 0 /\ pc'[u] = 1 BY <1>2, HoldsAtStart
<1>3. CASE Follows(u)
  <2>1. pc[u] \in 1 .. Len(c(u)) /\ pc'[u] \in Leads(c(u), pc[u]) BY <1>3 DEF Follows
  <2>2. ~Uses(c(u), pc[u], Modifying, m) \/ pc'[u] = pc[u]
    <3>1. Uses(c(u), pc[u], Modifying, m) => ~Is(u, {"select"}) BY Lengths DEF Uses, Modifying, Is
    <3> QED BY <1>3, <3>1, MovesAlone
  <2> QED BY <1>1, <2>1, <2>2 DEF LockUse, c, Thread, Passes
<1> QED BY <1>1, <1>2, <1>3, Moves

(* A lock is 0 for nobody, n for n readers, -1 for one writer, by the      *)
(* text, after every step.                                                 *)
LEMMA LockStep ==
  ASSUME Types, StartInv, LockInv, NEW t \in Thread, Acts(t), prog' = prog
  PROVE  LockInv'
<1> SUFFICES ASSUME NEW m, LockUse(P, m) PROVE Locked(m)'
  BY SameProgram DEF LockInv
<1> DEFINE h(u) == Holds(c(u), m, pc[u])
           hh(u) == Holds(c(u), m, pc'[u])
           W == Writers(m)
           R == Readers(m)
           WW == {u \in Thread : hh(u) = "writing"}
           RR == {u \in Thread : hh(u) = "reading"}
<1>1. Locked(m) /\ m \in P.cells BY DEF LockInv, LockUse
<1>2. Writers(m)' = WW /\ Readers(m)' = RR
  BY SameProgram DEF Writers, Readers
<1>3. W = {u \in Thread : h(u) = "writing"} /\ R = {u \in Thread : h(u) = "reading"}
  BY DEF Writers, Readers
<1>4. IsFiniteSet(R) /\ Cardinality(R) \in Nat /\ (Cardinality(R) = 0 <=> R = {})
  BY <1>3, FiniteThreads, FS_CardinalityType, FS_EmptySet
<1>5. \/ mem'[m] = -1 /\ RR = {} /\ \E u \in Thread : WW = {u}
      \/ WW = {} /\ mem'[m] = Cardinality(RR)
  <2>1. CASE ~Uses(c(t), pc[t], Modifying, m)
    <3>1. \A u \in Thread : hh(u) = h(u) BY <2>1, HoldsTheSame
    <3>2. WW = W /\ RR = R BY <1>3, <3>1
    <3>3. mem'[m] = mem[m]
      <4>1. CASE Writes(t)
        <5>1. mem' = [mem EXCEPT ![At(t).x] = mem'[At(t).x]] BY <4>1 DEF Writes
        <5>2. At(t) = c(t)[pc[t]] BY Lengths
        <5>3. CASE At(t).x = m
          <6>1. At(t).op \notin Modifying BY <2>1, <5>2, <5>3 DEF Uses
          <6> QED BY <1>1, <4>1, <5>3, <6>1 DEF Writes, Modifying
        <5> QED BY <1>1, <5>1, <5>3 DEF Types
      <4> QED BY <4>1 DEF Acts, Stays, Forks, Reads, Closes, Selects, Meets
    <3> QED BY <1>1, <3>2, <3>3 DEF Locked
  <2>2. CASE Uses(c(t), pc[t], Modifying, m)
    <3>1. \A u \in Thread \ {t} : hh(u) = h(u) BY HoldsTheSame
    <3>2. At(t) = c(t)[pc[t]] /\ At(t).op \in Modifying /\ At(t).x = m BY <2>2, Lengths DEF Uses
    <3>3. CASE Stays
      <4>1. WW = W /\ RR = R /\ mem' = mem BY <3>3, <1>3 DEF Stays
      <4> QED BY <1>1, <4>1 DEF Locked
    <3>4. CASE Writes(t)
      <4>1. Follows(t) /\ pc[t] \in 1 .. Len(c(t)) /\ pc'[t] \in Leads(c(t), pc[t])
        BY <3>4 DEF Writes, Walks, Follows
      <4>2. ~(At(t).op \in {"cas", "select", "jump", "if", "either"}) => pc'[t] = pc[t] + 1
        BY <3>2, <4>1 DEF Leads, Out
      <4>3. \/ At(t).op = "lock" /\ h(t) = "none" /\ Holds(c(t), m, pc[t] + 1) = "writing"
            \/ At(t).op = "rlock" /\ h(t) = "none" /\ Holds(c(t), m, pc[t] + 1) = "reading"
            \/ At(t).op = "unlock" /\ h(t) = "writing" /\ Holds(c(t), m, pc[t] + 1) = "none"
            \/ At(t).op = "runlock" /\ h(t) = "reading" /\ Holds(c(t), m, pc[t] + 1) = "none"
            \/ /\ At(t).op = "cas" /\ At(t).v = <<0, -1>> /\ Leads(c(t), pc[t]) # {pc[t] + 1}
               /\ h(t) = "none" /\ Holds(c(t), m, pc[t] + 1) = "writing"
               /\ \A j \in Leads(c(t), pc[t]) : j # pc[t] + 1 => Holds(c(t), m, j) = "none"
        BY <2>2, <3>2, <4>1 DEF LockUse, c, Thread, Passes
      <4>4. \/ /\ At(t).op \in {"lock", "cas"} /\ mem[m] = 0 /\ mem'[m] = -1
               /\ h(t) = "none" /\ hh(t) = "writing"
            \/ /\ At(t).op = "rlock" /\ mem[m] >= 0 /\ mem'[m] = mem[m] + 1
               /\ h(t) = "none" /\ hh(t) = "reading"
            \/ /\ At(t).op = "unlock" /\ mem[m] = -1 /\ mem'[m] = 0
               /\ h(t) = "writing" /\ hh(t) = "none"
            \/ /\ At(t).op = "runlock" /\ mem[m] > 0 /\ mem'[m] = mem[m] - 1
               /\ h(t) = "reading" /\ hh(t) = "none"
            \/ mem' = mem /\ h(t) = "none" /\ hh(t) = "none"
        <5>1. CASE At(t).op = "cas"
          <6>1. \/ mem[m] = 0 /\ mem'[m] = -1 /\ pc'[t] = pc[t] + 1
                \/ mem' = mem /\ pc'[t] # pc[t] + 1
            BY <1>1, <3>2, <3>4, <4>3, <5>1 DEF Writes
          <6> QED BY <4>1, <4>3, <5>1, <6>1
        <5>2. CASE At(t).op # "cas"
          <6>1. At(t).op \in {"lock", "rlock", "unlock", "runlock"} BY <4>3, <5>2
          <6>2. pc'[t] = pc[t] + 1 BY <4>2, <6>1
          <6>3. \/ At(t).op = "lock" /\ mem[m] = 0 /\ mem'[m] = -1
                \/ At(t).op = "rlock" /\ mem[m] >= 0 /\ mem'[m] = mem[m] + 1
                \/ At(t).op = "unlock" /\ mem[m] = -1 /\ mem'[m] = 0
                \/ At(t).op = "runlock" /\ mem[m] > 0 /\ mem'[m] = mem[m] - 1
            BY <1>1, <3>2, <3>4, <6>1 DEF Writes
          <6> QED BY <4>3, <5>2, <6>2, <6>3
        <5> QED BY <5>1, <5>2
      <4>5. CASE mem[m] = 0 /\ mem'[m] = -1 /\ h(t) = "none" /\ hh(t) = "writing"
        <5>1. W = {} /\ R = {} BY <1>1, <1>4, <4>5 DEF Locked
        <5>2. WW = {t} /\ RR = {} BY <1>3, <3>1, <4>5, <5>1
        <5> QED BY <4>5, <5>2
      <4>6. CASE mem[m] >= 0 /\ mem'[m] = mem[m] + 1 /\ h(t) = "none" /\ hh(t) = "reading"
        <5>1. W = {} /\ mem[m] = Cardinality(R) BY <1>1, <4>6 DEF Locked
        <5>2. WW = {} /\ RR = R \cup {t} /\ t \notin R BY <1>3, <3>1, <4>6, <5>1
        <5>3. Cardinality(RR) = Cardinality(R) + 1 BY <1>4, <5>2, FS_AddElement
        <5> QED BY <4>6, <5>1, <5>2, <5>3
      <4>7. CASE mem[m] = -1 /\ mem'[m] = 0 /\ h(t) = "writing" /\ hh(t) = "none"
        <5>1. R = {} /\ W = {t} BY <1>1, <1>3, <1>4, <4>7 DEF Locked
        <5>2. WW = {} /\ RR = {} BY <1>3, <3>1, <4>7, <5>1
        <5> QED BY <4>7, <5>2, FS_EmptySet
      <4>8. CASE mem[m] > 0 /\ mem'[m] = mem[m] - 1 /\ h(t) = "reading" /\ hh(t) = "none"
        <5>1. W = {} /\ mem[m] = Cardinality(R) BY <1>1, <4>8 DEF Locked
        <5>2. WW = {} /\ RR = R \ {t} /\ t \in R BY <1>3, <3>1, <4>8, <5>1
        <5>3. Cardinality(RR) = Cardinality(R) - 1 BY <1>4, <5>2, FS_RemoveElement
        <5> QED BY <4>8, <5>1, <5>2, <5>3
      <4>9. CASE mem' = mem /\ h(t) = "none" /\ hh(t) = "none"
        <5>1. WW = W /\ RR = R BY <1>3, <3>1, <4>9
        <5> QED BY <1>1, <4>9, <5>1 DEF Locked
      <4> QED BY <4>4, <4>5, <4>6, <4>7, <4>8, <4>9
    <3> QED BY <3>2, <3>3, <3>4 DEF Acts, Forks, Reads, Closes, Selects, Meets, Is, Modifying
  <2> QED BY <2>1, <2>2
<1>6. Locked(m)' <=> \/ mem'[m] = -1 /\ RR = {} /\ \E u \in Thread : WW = {u}
                     \/ WW = {} /\ mem'[m] = Cardinality(RR)
  BY <1>2, SameProgram DEF Locked
<1> QED BY <1>5, <1>6

-----------------------------------------------------------------------------
(* Wait groups.                                                            *)
Finished(wg) ==
  {t \in Members(P, wg) : \E i \in 1 .. Len(c(t)) : Uses(c(t), i, {"done"}, wg) /\ pc[t] > i}
Counted(wg, u, a) ==
  mem[wg] = (IF pc[u] > a THEN Cardinality(Members(P, wg)) ELSE 0) - Cardinality(Finished(wg))
GroupInv == \A wg : \A u \in Thread : \A a : GroupUse(P, wg, u, a) => Counted(wg, u, a)

(* A wait group is the number of those counted by Add that have not passed *)
(* Done.                                                                   *)
LEMMA GroupStep ==
  ASSUME Types, StartInv, GroupInv, NEW t \in Thread, Acts(t), prog' = prog
  PROVE  GroupInv'
<1> SUFFICES ASSUME NEW wg, NEW u \in Thread, NEW a, GroupUse(P, wg, u, a)
             PROVE  Counted(wg, u, a)'
  BY SameProgram DEF GroupInv
<1> DEFINE M == Members(P, wg)
           D == Finished(wg)
           DD == {w \in M : \E i \in 1 .. Len(c(w)) : Uses(c(w), i, {"done"}, wg) /\ pc'[w] > i}
           N == Cardinality(M)
<1>1. mem[wg] = (IF pc[u] > a THEN N ELSE 0) - Cardinality(D) BY DEF GroupInv, Counted
<1>2. Counted(wg, u, a)' <=> mem'[wg] = (IF pc'[u] > a THEN N ELSE 0) - Cardinality(DD)
  <2>1. P' = P BY SameProgram
  <2>2. Finished(wg)' = DD BY SameProgram DEF Finished
  <2> QED BY <2>1, <2>2 DEF Counted
<1>3. /\ wg \in P.cells /\ a \in 1 .. Len(c(u)) /\ Uses(c(u), a, {"add"}, wg) /\ Gate(c(u), a)
      /\ c(u)[a].v = N
  BY DEF GroupUse, c
<1>4. \A w \in Thread : \A i \in 1 .. Len(c(w)) :
        /\ Uses(c(w), i, Modifying \ {"done"}, wg) => w = u /\ i = a
        /\ Uses(c(w), i, {"done"}, wg) =>
              Gate(c(w), i) /\ \A j \in 1 .. Len(c(w)) : Uses(c(w), j, {"done"}, wg) => j = i
  BY DEF GroupUse, c, Thread
<1>5. M \subseteq Thread /\ IsFiniteSet(M) /\ IsFiniteSet(D) /\ N \in Nat /\ Cardinality(D) \in Nat
  BY FiniteThreads, FS_CardinalityType DEF Members, Finished, Thread
<1>6. Len(c(t)) \in Nat /\ At(t) = c(t)[pc[t]] BY Lengths
(* Who moves while t runs does so by t's statement, or both select.        *)
<1>7. \A w \in Thread : Follows(w) /\ c(w)[pc[w]].op \in Modifying =>
        \/ pc'[w] = pc[w]
        \/ w = t /\ Writes(t)
  <2> SUFFICES ASSUME NEW w \in Thread, Follows(w), c(w)[pc[w]].op \in Modifying, pc'[w] # pc[w]
               PROVE  w = t /\ Writes(t)
    OBVIOUS
  <2>1. ~Is(w, {"select", "go", "close", "cancel"}) BY Lengths DEF Is, Modifying
  <2>2. w = t BY <2>1, MovesAlone DEF Is
  <2> QED BY <2>1, <2>2, Lengths DEF Acts, Stays, Forks, Reads, Closes, Selects, Meets, Is
<1>8. \A w \in Thread : \A i \in 1 .. Len(c(w)) :
        Gate(c(w), i) /\ ~(w = t /\ Writes(t) /\ pc[t] = i) /\ c(w)[i].op \in Modifying =>
          (pc'[w] > i <=> pc[w] > i)
  <2> SUFFICES ASSUME NEW w \in Thread, NEW i \in 1 .. Len(c(w)), Gate(c(w), i),
                      ~(w = t /\ Writes(t) /\ pc[t] = i), c(w)[i].op \in Modifying
               PROVE  pc'[w] > i <=> pc[w] > i
    OBVIOUS
  <2>1. CASE pc[w] = i /\ Follows(w) BY <1>7, <2>1
  <2>2. CASE ~(pc[w] = i /\ Follows(w)) BY <2>2, CrossingGate
  <2> QED BY <2>1, <2>2
<1>9. ~(Writes(t) /\ Uses(c(t), pc[t], Modifying, wg)) => mem'[wg] = mem[wg]
  <2>1. CASE Writes(t)
    <3>1. mem' = [mem EXCEPT ![At(t).x] = mem'[At(t).x]] BY <2>1 DEF Writes
    <3>2. CASE At(t).x # wg BY <1>3, <3>1, <3>2 DEF Types
    <3>3. CASE At(t).x = wg
      <4>1. At(t).op \in Modifying BY <1>3, <2>1, <3>3 DEF Writes, Modifying
      <4> QED BY <1>6, <2>1, <3>3, <4>1 DEF Uses
    <3> QED BY <3>2, <3>3
  <2> QED BY <2>1 DEF Acts, Stays, Forks, Reads, Closes, Selects, Meets
<1>10. pc[t] \in Int /\ \A w \in Thread : pc[w] \in Int /\ pc'[w] \in Int BY Moves, Lengths
<1>11. CASE ~(Writes(t) /\ Uses(c(t), pc[t], Modifying, wg))
  <2>1. \A w \in Thread : \A i \in 1 .. Len(c(w)) : Uses(c(w), i, {"done"}, wg) =>
          (pc'[w] > i <=> pc[w] > i)
    BY <1>4, <1>8, <1>11 DEF Uses, Modifying
  <2>2. DD = D BY <1>5, <2>1 DEF Finished
  <2>3. pc'[u] > a <=> pc[u] > a BY <1>3, <1>8, <1>11 DEF Uses, Modifying
  <2> QED BY <1>1, <1>2, <1>9, <1>11, <2>2, <2>3
<1>12. CASE Writes(t) /\ Uses(c(t), pc[t], Modifying, wg)
  <2>1. /\ Follows(t) /\ pc[t] \in 1 .. Len(c(t)) /\ At(t).x = wg
        /\ At(t).op \in Modifying
    BY <1>6, <1>12 DEF Writes, Walks, Follows, Uses
  <2>2. CASE At(t).op = "done"
    <3>1. Uses(c(t), pc[t], {"done"}, wg) BY <1>6, <2>1, <2>2 DEF Uses
    <3>2. mem'[wg] = mem[wg] - 1 BY <1>3, <1>12, <2>1, <2>2 DEF Writes
    <3>3. Gate(c(t), pc[t]) /\ \A j \in 1 .. Len(c(t)) : Uses(c(t), j, {"done"}, wg) => j = pc[t]
      BY <1>4, <2>1, <3>1
    <3>4. t \in M /\ t \notin D
      BY <1>10, <2>1, <3>1, <3>3 DEF Members, Finished, c, Thread
    <3>5. pc'[t] > pc[t] BY <2>1, <3>3, StaysPast DEF Gate, GateUpTo
    <3>6. \A w \in Thread \ {t} : \A i \in 1 .. Len(c(w)) : Uses(c(w), i, {"done"}, wg) =>
            (pc'[w] > i <=> pc[w] > i)
      BY <1>4, <1>8 DEF Uses, Modifying
    <3>7. DD = D \cup {t} BY <1>5, <2>1, <3>1, <3>4, <3>5, <3>6 DEF Finished
    <3>8. Cardinality(DD) = Cardinality(D) + 1 BY <1>5, <3>4, <3>7, FS_AddElement
    <3>9. t # u \/ pc[t] # a BY <1>3, <1>6, <2>2 DEF Uses
    <3>10. pc'[u] > a <=> pc[u] > a BY <1>3, <1>8, <3>9 DEF Uses, Modifying
    <3> QED BY <1>1, <1>2, <1>5, <3>2, <3>8, <3>10
  <2>3. CASE At(t).op # "done"
    <3>1. t = u /\ pc[t] = a
      <4>1. Uses(c(t), pc[t], Modifying \ {"done"}, wg) BY <1>6, <2>1, <2>3 DEF Uses
      <4> QED BY <1>4, <2>1, <4>1
    <3>2. At(t).op = "add" /\ At(t).v = N BY <1>3, <1>6, <3>1 DEF Uses
    <3>3. mem'[wg] = mem[wg] + N BY <1>3, <1>12, <2>1, <3>2 DEF Writes
    <3>4. pc'[u] > a /\ ~(pc[u] > a) BY <1>3, <1>10, <2>1, <3>1, StaysPast DEF Gate, GateUpTo
    <3>5. \A w \in Thread : \A i \in 1 .. Len(c(w)) : Uses(c(w), i, {"done"}, wg) =>
            (pc'[w] > i <=> pc[w] > i)
      BY <1>4, <1>6, <1>8, <2>3, <3>1 DEF Uses, Modifying
    <3>6. DD = D BY <1>5, <3>5 DEF Finished
    <3>7. mem[wg] = 0 - Cardinality(D)
      <4> HIDE DEF D
      <4> QED BY <1>1, <1>5, <3>4
    <3>8. mem'[wg] = N - Cardinality(DD)
      <4> HIDE DEF D, DD, N
      <4>1. mem'[wg] = N - Cardinality(D) BY <1>5, <3>3, <3>7
      <4> QED BY <3>6, <4>1
    <3> QED BY <1>2, <3>4, <3>8
  <2> QED BY <2>2, <2>3
<1> QED BY <1>11, <1>12


-----------------------------------------------------------------------------
(* What only t can have done, at s or later, shows that t is past s.       *)
OnceOver(t, s) == t \in Thread /\ s \in 1 .. Len(c(t)) /\ NeverBack(c(t), s)
SignalInv ==
  \A t, s, x : OnceOver(t, s) =>
    /\ ClosedBy(P, x, t, s) /\ x \in closed => pc[t] > s
    /\ x \in DOMAIN P.cap /\ SentBy(P, x, t, s) /\ buf[x] # <<>> => pc[t] > s
    /\ SetBy(P, x, t, s) /\ mem[x] # 0 => pc[t] > s
    /\ SetBy(P, x, t, s) => \A u \in Thread : \A i : Seen(c(u), i, x) /\ pc[u] = i /\ reg[u] # 0 => pc[t] > s

(* Who is at s or later and moves is past it.                              *)
LEMMA Over1 ==
  ASSUME Types, StartInv, NEW v \in Thread, Acts(v), NEW t, NEW s, OnceOver(t, s),
         pc[t] > s \/ (Follows(t) /\ pc[t] >= s)
  PROVE  pc'[t] > s
<1>1. t \in Thread /\ s \in Nat /\ pc[t] \in Int /\ NeverBack(c(t), s) BY Lengths DEF OnceOver
<1> QED BY <1>1, StaysPast

(* Every step keeps what is known from closes, sends and cells.            *)
LEMMA SignalStep ==
  ASSUME Types, StartInv, SignalInv, NEW v \in Thread, Acts(v), Recalls(v), prog' = prog
  PROVE  SignalInv'
<1> SUFFICES ASSUME NEW t, NEW s, NEW x, OnceOver(t, s)
             PROVE  /\ ClosedBy(P, x, t, s) /\ x \in closed' => pc'[t] > s
                    /\ x \in DOMAIN P.cap /\ SentBy(P, x, t, s) /\ buf'[x] # <<>> => pc'[t] > s
                    /\ SetBy(P, x, t, s) /\ mem'[x] # 0 => pc'[t] > s
                    /\ SetBy(P, x, t, s) => \A u \in Thread : \A i :
                         Seen(c(u), i, x) /\ pc'[u] = i /\ reg'[u] # 0 => pc'[t] > s
  <2>1. P' = P /\ Thread' = Thread /\ \A u : c(u)' = c(u) BY SameProgram
  <2> QED BY <2>1 DEF SignalInv, OnceOver
<1>1. pc[t] > s => pc'[t] > s BY Over1
<1>2. At(v) = c(v)[pc[v]] BY Lengths
<1>3. ASSUME ClosedBy(P, x, t, s), x \in closed' PROVE pc'[t] > s
  <2>1. CASE x \in closed BY <1>1, <1>3, <2>1 DEF SignalInv
  <2>2. CASE x \notin closed
    <3>1. Closes(v) /\ x = At(v).x
      BY <1>3, <2>2 DEF Acts, Stays, Forks, Writes, Reads, Closes, Selects, Meets
    <3>2. Uses(c(v), pc[v], Closing, x) /\ Follows(v) /\ pc[v] \in 1 .. Len(c(v))
      BY <1>2, <3>1 DEF Closes, Uses, Closing, Is, Walks, Follows
    <3>3. v = t /\ pc[v] >= s BY <1>3, <3>2 DEF ClosedBy, c, Thread
    <3> QED BY <3>2, <3>3, Over1
  <2> QED BY <2>1, <2>2
<1>4. ASSUME x \in DOMAIN P.cap, SentBy(P, x, t, s), buf'[x] # <<>> PROVE pc'[t] > s
  <2>1. CASE buf[x] # <<>> BY <1>1, <1>4, <2>1 DEF SignalInv
  <2>2. CASE buf[x] = <<>>
    <3>1. Selects(v) BY <1>4, <2>2 DEF Acts, Stays, Forks, Writes, Reads, Closes, Meets
    <3>2. PICK o \in At(v).cases : /\ o.dir # "recv" \/ buf[o.x] # <<>>
                                   /\ \E b : buf' = [buf EXCEPT ![o.x] = b]
      BY <1>4, <2>2, <3>1 DEF Selects
    <3>3. o.x = x /\ o.dir # "recv" BY <1>4, <2>2, <3>2 DEF Types
    <3>4. Transfers(c(v), pc[v], x, TRUE) /\ Follows(v) /\ pc[v] \in 1 .. Len(c(v))
      BY <1>2, <3>1, <3>3 DEF Selects, Transfers, Is, Walks, Follows
    <3>5. v = t /\ pc[v] >= s BY <1>4, <3>4 DEF SentBy, c, Thread
    <3> QED BY <3>4, <3>5, Over1
  <2> QED BY <2>1, <2>2
<1>5. ASSUME SetBy(P, x, t, s), mem'[x] # 0 PROVE pc'[t] > s
  <2>1. CASE mem[x] # 0 BY <1>1, <1>5, <2>1 DEF SignalInv
  <2>2. CASE mem[x] = 0
    <3>1. Writes(v) BY <1>5, <2>2 DEF Acts, Stays, Forks, Reads, Closes, Selects, Meets
    <3>2. At(v).x = x BY <1>5, <2>2, <3>1 DEF Writes, Types, SetBy
    <3>3. Uses(c(v), pc[v], Modifying, x) /\ Follows(v) /\ pc[v] \in 1 .. Len(c(v))
      BY <1>2, <3>1, <3>2 DEF Writes, Uses, Is, Walks, Follows
    <3>4. v = t /\ pc[v] >= s BY <1>5, <3>3 DEF SetBy, c, Thread
    <3> QED BY <3>3, <3>4, Over1
  <2> QED BY <2>1, <2>2
<1>6. ASSUME SetBy(P, x, t, s), NEW u \in Thread, NEW i, Seen(c(u), i, x), pc'[u] = i, reg'[u] # 0
      PROVE  pc'[t] > s
  <2>1. /\ i \in 2 .. Len(c(u)) /\ c(u)[i].op = "if" /\ Uses(c(u), i - 1, {"read", "load"}, x)
        /\ \A j \in 1 .. Len(c(u)) : i \in Leads(c(u), j) => j = i - 1
    BY <1>6 DEF Seen
  <2>2. pc[u] \in Int /\ Len(c(u)) \in Nat /\ At(u) = c(u)[pc[u]] BY Lengths
  <2>3. CASE Follows(u)
    <3>1. pc[u] = i - 1 BY <1>6, <2>1, <2>3 DEF Follows
    <3>2. At(u).op \in {"read", "load"} /\ At(u).x = x BY <2>1, <2>2, <3>1 DEF Uses
    <3>3. u = v
      <4>1. ~Is(u, {"select"}) BY <3>2 DEF Is
      <4> QED BY <1>6, <2>1, <2>3, <3>1, <4>1, MovesAlone
    <3>4. mem[x] # 0 BY <1>6, <3>2, <3>3 DEF Recalls, Is
    <3> QED BY <1>1, <1>6, <3>4 DEF SignalInv
  <2>4. CASE ~Follows(u)
    <3>1. pc[u] = i BY <1>6, <2>1, <2>4, Moves
    <3>2. At(u).op = "if" BY <2>1, <2>2, <3>1
    <3>3. reg'[u] = reg[u] BY <3>2 DEF Recalls, Is
    <3> QED BY <1>1, <1>6, <3>1, <3>3 DEF SignalInv
  <2> QED BY <2>3, <2>4
<1> QED BY <1>3, <1>4, <1>5, <1>6

-----------------------------------------------------------------------------
(* Sends and receives that are counted.                                    *)
Sent(ch) ==
  {t \in Senders(P, ch) : \E i \in 1 .. Len(c(t)) : Transfers(c(t), i, ch, TRUE) /\ pc[t] > i}
Received(ch, u) == {i \in 1 .. Len(c(u)) : Transfers(c(u), i, ch, FALSE) /\ pc[u] > i}
CountInv ==
  \A ch, last : \A u \in Thread : CountUse(P, ch, u, last) /\ pc[u] <= last =>
    ch \notin closed /\ Len(buf[ch]) + Cardinality(Received(ch, u)) = Cardinality(Sent(ch))

(* What CountUse says, for the code of every goroutine.                    *)
LEMMA Counts ==
  ASSUME Types, NEW ch, NEW last, NEW u \in Thread, CountUse(P, ch, u, last)
  PROVE  /\ ch \in DOMAIN P.cap /\ last \in {Len(c(u)), Len(c(u)) + 1}
         /\ \A v \in Thread : \A i \in 1 .. Len(c(v)) :
              /\ ~Uses(c(v), i, Closing, ch)
              /\ Transfers(c(v), i, ch, TRUE) =>
                   /\ Once(c(v), i, ch, TRUE, Len(c(v)) + 1) /\ Gate(c(v), i)
                   /\ \A j \in 1 .. Len(c(v)) : Transfers(c(v), j, ch, TRUE) => j = i
              /\ Transfers(c(v), i, ch, FALSE) => v = u /\ Once(c(v), i, ch, FALSE, last)
BY DEF CountUse, c, Thread, Gate, Once

(* The buffer has as many values as were sent and not received.            *)
LEMMA CountStep ==
  ASSUME Types, StartInv, CountInv, NEW v \in Thread, Acts(v), prog' = prog
  PROVE  CountInv'
<1> SUFFICES ASSUME NEW ch, NEW last, NEW u \in Thread, CountUse(P, ch, u, last), pc'[u] <= last
             PROVE  /\ ch \notin closed'
                    /\ Len(buf'[ch]) + Cardinality(Received(ch, u)') = Cardinality(Sent(ch)')
  BY SameProgram DEF CountInv
<1> DEFINE R == Received(ch, u)
           S == Sent(ch)
           RR == {i \in 1 .. Len(c(u)) : Transfers(c(u), i, ch, FALSE) /\ pc'[u] > i}
           SS == {t \in Senders(P, ch) :
                    \E i \in 1 .. Len(c(t)) : Transfers(c(t), i, ch, TRUE) /\ pc'[t] > i}
<1>1. Received(ch, u)' = RR /\ Sent(ch)' = SS
  <2>1. P' = P /\ Thread' = Thread /\ \A w : c(w)' = c(w) BY SameProgram
  <2> QED BY <2>1 DEF Received, Sent
<1>2. /\ ch \in DOMAIN P.cap /\ last \in {Len(c(u)), Len(c(u)) + 1}
      /\ \A w \in Thread : \A i \in 1 .. Len(c(w)) :
           /\ ~Uses(c(w), i, Closing, ch)
           /\ Transfers(c(w), i, ch, TRUE) =>
                /\ Once(c(w), i, ch, TRUE, Len(c(w)) + 1) /\ Gate(c(w), i)
                /\ \A j \in 1 .. Len(c(w)) : Transfers(c(w), j, ch, TRUE) => j = i
           /\ Transfers(c(w), i, ch, FALSE) => w = u /\ Once(c(w), i, ch, FALSE, last)
  BY Counts
<1>3. /\ Len(c(u)) \in Nat /\ Len(c(v)) \in Nat /\ pc[u] \in 0 .. Len(c(u)) + 1 /\ pc'[u] \in Int
      /\ \A w \in Thread : pc[w] \in Int /\ pc'[w] \in Int /\ At(w) = c(w)[pc[w]]
  BY Lengths, Moves
<1>4. pc[u] <= last
  <2>1. CASE Follows(u) BY <1>2, <1>3, <2>1 DEF Follows
  <2>2. CASE ~Follows(u) BY <1>2, <1>3, <2>2, Moves
  <2> QED BY <2>1, <2>2
<1>5. ch \notin closed /\ Len(buf[ch]) + Cardinality(R) = Cardinality(S)
  BY <1>4 DEF CountInv
<1>6. /\ Senders(P, ch) \subseteq Thread /\ IsFiniteSet(R) /\ IsFiniteSet(S)
      /\ Cardinality(R) \in Nat /\ Cardinality(S) \in Nat /\ Len(buf[ch]) \in Nat
  <2>1. Senders(P, ch) \subseteq Thread BY DEF Senders, Thread
  <2>2. IsFiniteSet(1 .. Len(c(u)))
    <3>1. 1 \in Int /\ Len(c(u)) \in Int BY <1>3
    <3> QED BY <3>1, FS_Interval
  <2>3. R \subseteq 1 .. Len(c(u)) /\ S \subseteq Thread BY <2>1 DEF Received, Sent
  <2>4. IsFiniteSet(R) /\ IsFiniteSet(S) BY <2>2, <2>3, FS_Subset, FiniteThreads
  <2>5. Len(buf[ch]) \in Nat
    <3>1. PICK V : buf[ch] \in Seq(V) BY <1>2 DEF Types
    <3> QED BY <3>1
  <2> QED BY <2>1, <2>4, <2>5, FS_CardinalityType
<1>7. ch \notin closed'
  <2>1. CASE Closes(v)
    <3>1. pc[v] \in 1 .. Len(c(v)) /\ closed' = closed \cup {At(v).x} /\ At(v).op \in Closing
      BY <2>1 DEF Closes, Walks, Follows, Is, Closing
    <3>2. ~Uses(c(v), pc[v], Closing, ch) BY <1>2, <3>1
    <3> QED BY <1>3, <1>5, <3>1, <3>2 DEF Uses
  <2> QED BY <1>5, <2>1 DEF Acts, Stays, Forks, Writes, Reads, Selects, Meets
<1> SUFFICES Len(buf'[ch]) + Cardinality(RR) = Cardinality(SS) BY <1>1, <1>7
(* Who passes the statements that are counted.                             *)
<1>8. ASSUME NEW w \in Thread, NEW i \in 1 .. Len(c(w)), Transfers(c(w), i, ch, TRUE)
      PROVE  pc'[w] > i <=> pc[w] > i \/ (pc[w] = i /\ Follows(w))
  <2>1. Gate(c(w), i) BY <1>2, <1>8
  <2>2. CASE pc[w] = i /\ Follows(w) BY <2>1, <2>2, <1>3, StaysPast DEF Gate, GateUpTo
  <2>3. CASE ~(pc[w] = i /\ Follows(w)) BY <2>1, <2>3, CrossingGate
  <2> QED BY <2>2, <2>3
<1>9. ASSUME NEW i \in 1 .. Len(c(u)), Transfers(c(u), i, ch, FALSE)
      PROVE  pc'[u] > i <=> pc[u] > i \/ (pc[u] = i /\ Follows(u))
  <2>1. GateUpTo(c(u), i, last) BY <1>2, <1>9 DEF Once
  <2>2. CASE pc[u] = i /\ Follows(u) BY <2>1, <2>2, <1>3, StaysPast DEF GateUpTo
  <2>3. CASE ~(pc[u] = i /\ Follows(u)) BY <1>2, <2>1, <2>3, Crossing
  <2> QED BY <2>2, <2>3
<1> DEFINE sends(w) == Follows(w) /\ Transfers(c(w), pc[w], ch, TRUE)
           takes(w) == Follows(w) /\ Transfers(c(w), pc[w], ch, FALSE)
<1>10. /\ SS = S \cup {w \in Thread : sends(w)}
       /\ \A w \in Thread : sends(w) => w \notin S
  <2>1. ASSUME NEW w \in Thread, sends(w) PROVE w \in Senders(P, ch) /\ w \notin S /\ w \in SS
    <3>1. pc[w] \in 1 .. Len(c(w)) BY <2>1 DEF Follows
    <3>2. w \in Senders(P, ch) BY <2>1, <3>1 DEF Senders, Thread, c
    <3>3. \A j \in 1 .. Len(c(w)) : Transfers(c(w), j, ch, TRUE) => j = pc[w] BY <1>2, <2>1, <3>1
    <3>4. w \notin S
      <4>1. ASSUME NEW j \in 1 .. Len(c(w)), Transfers(c(w), j, ch, TRUE) PROVE ~(pc[w] > j)
        <5>1. j = pc[w] BY <3>3, <4>1
        <5>2. pc[w] \in Int BY <1>3
        <5> QED BY <5>1, <5>2
      <4>2. SUFFICES ASSUME w \in S PROVE FALSE OBVIOUS
      <4>3. PICK j \in 1 .. Len(c(w)) : Transfers(c(w), j, ch, TRUE) /\ pc[w] > j
        BY <4>2 DEF Sent
      <4> HIDE DEF S
      <4> QED BY <4>1, <4>3
    <3>5. pc'[w] > pc[w] BY <1>8, <2>1, <3>1
    <3> QED BY <2>1, <3>1, <3>2, <3>4, <3>5
  <2>2. ASSUME NEW w \in SS, ~sends(w) PROVE w \in S
    <3>1. w \in Thread /\ w \in Senders(P, ch) BY <1>6
    <3>2. PICK i \in 1 .. Len(c(w)) : Transfers(c(w), i, ch, TRUE) /\ pc'[w] > i BY <2>2
    <3>3. pc[w] > i BY <1>8, <2>2, <3>1, <3>2
    <3> QED BY <3>1, <3>2, <3>3 DEF Sent
  <2>3. ASSUME NEW w \in S PROVE w \in SS
    <3>1. w \in Thread /\ w \in Senders(P, ch) BY <1>6 DEF Sent
    <3>2. PICK i \in 1 .. Len(c(w)) : Transfers(c(w), i, ch, TRUE) /\ pc[w] > i BY DEF Sent
    <3> QED BY <1>8, <3>1, <3>2
  <2>4. SS \subseteq Thread BY <1>6
  <2> HIDE DEF SS, S
  <2> QED BY <2>1, <2>2, <2>3, <2>4
<1>11. RR = R \cup (IF takes(u) THEN {pc[u]} ELSE {}) /\ pc[u] \notin R
  <2>1. pc[u] \notin R
    <3>1. \A i \in R : pc[u] > i BY DEF Received
    <3> HIDE DEF R
    <3> QED BY <1>3, <3>1
  <2>2. ASSUME NEW i \in 1 .. Len(c(u))
        PROVE  i \in RR <=> i \in R \/ (takes(u) /\ i = pc[u])
    BY <1>3, <1>9 DEF Received
  <2>3. takes(u) => pc[u] \in 1 .. Len(c(u)) BY DEF Follows
  <2>4. R \subseteq 1 .. Len(c(u)) /\ RR \subseteq 1 .. Len(c(u)) BY DEF Received
  <2> HIDE DEF R, RR, takes
  <2> QED BY <2>1, <2>2, <2>3, <2>4
(* Each kind of step.                                                      *)
<1>12. ASSUME \A w \in Thread : ~sends(w), ~takes(u), buf'[ch] = buf[ch]
       PROVE  Len(buf'[ch]) + Cardinality(RR) = Cardinality(SS)
  <2>1. SS = S /\ RR = R BY <1>10, <1>11, <1>12
  <2> HIDE DEF SS, S, RR, R
  <2> QED BY <1>5, <1>12, <2>1
<1>13. ASSUME NEW w \in Thread, sends(w), \A x \in Thread : sends(x) => x = w, ~takes(u),
              Len(buf'[ch]) = Len(buf[ch]) + 1
       PROVE  Len(buf'[ch]) + Cardinality(RR) = Cardinality(SS)
  <2>1. SS = S \cup {w} /\ RR = R /\ w \notin S BY <1>10, <1>11, <1>13
  <2> HIDE DEF SS, S, RR, R
  <2>2. Cardinality(SS) = Cardinality(S) + 1 BY <1>6, <2>1, FS_AddElement
  <2> QED BY <1>5, <1>6, <1>13, <2>1, <2>2
<1>14. ASSUME \A x \in Thread : ~sends(x), takes(u), Len(buf'[ch]) = Len(buf[ch]) - 1
       PROVE  Len(buf'[ch]) + Cardinality(RR) = Cardinality(SS)
  <2>1. SS = S /\ RR = R \cup {pc[u]} /\ pc[u] \notin R BY <1>10, <1>11, <1>14
  <2> HIDE DEF SS, S, RR, R
  <2>2. Cardinality(RR) = Cardinality(R) + 1 BY <1>6, <2>1, FS_AddElement
  <2> QED BY <1>5, <1>6, <1>14, <2>1, <2>2
<1>15. ASSUME NEW w \in Thread, sends(w), \A x \in Thread : sends(x) => x = w, takes(u),
              buf'[ch] = buf[ch]
       PROVE  Len(buf'[ch]) + Cardinality(RR) = Cardinality(SS)
  <2>1. SS = S \cup {w} /\ RR = R \cup {pc[u]} /\ w \notin S /\ pc[u] \notin R
    BY <1>10, <1>11, <1>15
  <2> HIDE DEF SS, S, RR, R
  <2>2. Cardinality(SS) = Cardinality(S) + 1 /\ Cardinality(RR) = Cardinality(R) + 1
    BY <1>6, <2>1, FS_AddElement
  <2> QED BY <1>5, <1>6, <1>15, <2>1, <2>2
(* Nobody stands still who passes a counted statement.                     *)
<1>16. \A w \in Thread : sends(w) \/ (w = u /\ takes(w)) => pc'[w] # pc[w] /\ Is(w, {"select"})
  <2> SUFFICES ASSUME NEW w \in Thread, sends(w) \/ (w = u /\ takes(w))
               PROVE  pc'[w] # pc[w] /\ Is(w, {"select"})
    OBVIOUS
  <2>1. pc[w] \in 1 .. Len(c(w)) /\ Follows(w) BY DEF Follows
  <2>2. pc'[w] > pc[w] BY <1>8, <1>9, <2>1
  <2>3. c(w)[pc[w]].op = "select" BY DEF Transfers
  <2> QED BY <1>3, <2>2, <2>3 DEF Is
(* A select that offers ch does nothing else, unless u gives up.           *)
<1>17. ASSUME NEW w \in Thread, pc[w] \in 1 .. Len(c(w)), NEW o \in At(w).cases,
              Transfers(c(w), pc[w], ch, TRUE) \/ (w = u /\ Transfers(c(w), pc[w], ch, FALSE)),
              pc'[w] = Target(w, o.to) \/ (o.dir = "recv" /\ pc'[w] = Target(w, o.end))
       PROVE  /\ At(w).to = 0 /\ o.x = ch
              /\ (o.dir # "recv") = Transfers(c(w), pc[w], ch, TRUE)
              /\ (o.dir = "recv") = Transfers(c(w), pc[w], ch, FALSE)
  <2>1. CASE Transfers(c(w), pc[w], ch, TRUE)
    <3>1. Once(c(w), pc[w], ch, TRUE, Len(c(w)) + 1) BY <1>2, <1>17, <2>1
    <3>2. Len(c(w)) \in Nat BY Lengths
    <3>3. At(w).to = 0 /\ \A q \in At(w).cases : q.x = ch /\ q.dir # "recv"
      BY <1>3, <3>1, <3>2 DEF Once
    <3> QED BY <1>3, <1>17, <2>1, <3>3 DEF Transfers
  <2>2. CASE w = u /\ Transfers(c(w), pc[w], ch, FALSE)
    <3>1. Once(c(u), pc[u], ch, FALSE, last) BY <1>2, <1>17, <2>2
    <3>2. End(u) = Len(c(u)) + 1 BY Lengths
    <3>3. ~(last = Len(c(u)) /\ o.dir = "recv" /\ o.to = Out /\ o.end = Out)
      BY <1>3, <1>17, <2>2, <3>2 DEF Target
    <3>4. At(u).to = 0 /\ o.x = ch /\ o.dir = "recv" BY <1>3, <1>17, <2>2, <3>1, <3>3 DEF Once
    <3>5. \A q \in At(u).cases : q.dir = "recv" BY <1>3, <3>1 DEF Once
    <3> QED BY <1>3, <2>2, <3>4, <3>5 DEF Transfers
  <2> QED BY <1>17, <2>1, <2>2
<1>18. CASE Selects(v)
  <2>1. /\ Follows(v) /\ pc[v] \in 1 .. Len(c(v)) /\ At(v).op = "select"
        /\ \A w \in Thread : w # v => pc'[w] = pc[w]
    BY <1>18 DEF Selects, Walks, Follows, Is, Types
  <2>2. \A w \in Thread : sends(w) \/ (w = u /\ takes(w)) => w = v BY <1>16, <2>1
  <2>3. ASSUME NEW o \in At(v).cases, NEW b, o.dir # "recv", pc'[v] = Target(v, o.to),
               buf' = [buf EXCEPT ![o.x] = Append(buf[o.x], b)]
        PROVE  Len(buf'[ch]) + Cardinality(RR) = Cardinality(SS)
    <3>1. CASE o.x = ch
      <4>1. Transfers(c(v), pc[v], ch, TRUE) BY <1>3, <2>1, <2>3, <3>1 DEF Transfers
      <4>2. sends(v) /\ ~(v = u /\ takes(v)) BY <1>17, <2>1, <2>3, <4>1
      <4>3. Len(buf'[ch]) = Len(buf[ch]) + 1
        <5>1. buf'[ch] = Append(buf[ch], b) BY <1>2, <2>3, <3>1 DEF Types
        <5>2. PICK V : buf[ch] \in Seq(V) BY <1>2 DEF Types
        <5>3. V \subseteq V \cup {b} OBVIOUS
        <5>4. buf[ch] \in Seq(V \cup {b}) BY <5>2, <5>3
        <5> QED BY <5>1, <5>4
      <4> QED BY <1>13, <2>2, <4>2, <4>3
    <3>2. CASE o.x # ch
      <4>1. ~sends(v) /\ ~(v = u /\ takes(v)) BY <1>17, <2>1, <2>3, <3>2
      <4>2. buf'[ch] = buf[ch] BY <1>2, <2>3, <3>2 DEF Types
      <4> QED BY <1>12, <2>2, <4>1, <4>2
    <3> QED BY <3>1, <3>2
  <2>4. ASSUME NEW o \in At(v).cases, o.dir = "recv", pc'[v] = Target(v, o.to), buf[o.x] # <<>>,
               buf' = [buf EXCEPT ![o.x] = Tail(buf[o.x])]
        PROVE  Len(buf'[ch]) + Cardinality(RR) = Cardinality(SS)
    <3>1. CASE o.x = ch
      <4>1. Transfers(c(v), pc[v], ch, FALSE) BY <1>3, <2>1, <2>4, <3>1 DEF Transfers
      <4>2. v = u /\ takes(u) BY <1>2, <2>1, <4>1
      <4>3. ~sends(v) BY <1>17, <2>1, <2>4, <4>1, <4>2
      <4>4. Len(buf'[ch]) = Len(buf[ch]) - 1
        <5>1. buf'[ch] = Tail(buf[ch]) BY <1>2, <2>4, <3>1 DEF Types
        <5>2. PICK V : buf[ch] \in Seq(V) BY <1>2 DEF Types
        <5>3. buf[ch] # <<>> BY <2>4, <3>1
        <5>4. Len(Tail(buf[ch])) = Len(buf[ch]) - 1 BY <5>2, <5>3
        <5> QED BY <5>1, <5>4
      <4> QED BY <1>14, <2>2, <4>2, <4>3, <4>4
    <3>2. CASE o.x # ch
      <4>1. ~sends(v) /\ ~(v = u /\ takes(v)) BY <1>17, <2>1, <2>4, <3>2
      <4>2. buf'[ch] = buf[ch] BY <1>2, <2>4, <3>2 DEF Types
      <4> QED BY <1>12, <2>2, <4>1, <4>2
    <3> QED BY <3>1, <3>2
  <2>5. ASSUME NEW o \in At(v).cases, o.dir = "recv", pc'[v] = Target(v, o.end), o.x \in closed, buf' = buf
        PROVE  Len(buf'[ch]) + Cardinality(RR) = Cardinality(SS)
    <3>1. o.x # ch BY <1>5, <2>5
    <3>2. ~sends(v) /\ ~(v = u /\ takes(v)) BY <1>17, <2>1, <2>5, <3>1
    <3> QED BY <1>12, <2>2, <2>5, <3>2
  <2>6. ASSUME At(v).to # 0, buf' = buf
        PROVE  Len(buf'[ch]) + Cardinality(RR) = Cardinality(SS)
    <3>1. c(v)[pc[v]].to # 0 BY <1>3, <2>6
    <3>2. Transfers(c(v), pc[v], ch, TRUE) => c(v)[pc[v]].to = 0 BY <1>2, <2>1 DEF Once
    <3>3. Transfers(c(v), pc[v], ch, FALSE) => c(v)[pc[v]].to = 0 BY <1>2, <2>1 DEF Once
    <3>4. ~sends(v) /\ ~(v = u /\ takes(v)) BY <3>1, <3>2, <3>3
    <3> QED BY <1>12, <2>2, <2>6, <3>4
  <2> QED BY <1>18, <2>3, <2>4, <2>5, <2>6 DEF Selects
<1>19. CASE \E w \in Thread : Meets(v, w)
  <2>1. PICK w \in Thread : Meets(v, w) BY <1>19
  <2>2. PICK o \in At(v).cases, r \in At(w).cases :
          /\ o.dir # "recv" /\ r.dir = "recv" /\ o.x = r.x
          /\ pc'[v] = Target(v, o.to) /\ pc'[w] = Target(w, r.to)
    BY <2>1 DEF Meets
  <2>3. /\ v # w /\ Follows(v) /\ Follows(w) /\ At(v).op = "select" /\ At(w).op = "select"
        /\ pc[v] \in 1 .. Len(c(v)) /\ pc[w] \in 1 .. Len(c(w)) /\ buf' = buf
        /\ \A x \in Thread : x # v /\ x # w => pc'[x] = pc[x]
    BY <2>1 DEF Meets, Follows, Is, Types
  <2>4. \A x \in Thread : sends(x) \/ (x = u /\ takes(x)) => x = v \/ x = w BY <1>16, <2>3
  <2>5. CASE o.x = ch
    <3>1. Transfers(c(v), pc[v], ch, TRUE) /\ Transfers(c(w), pc[w], ch, FALSE)
      BY <1>3, <2>2, <2>3, <2>5 DEF Transfers
    <3>2. w = u BY <1>2, <2>3, <3>1
    <3>3. sends(v) /\ takes(u) BY <2>3, <3>1, <3>2
    <3>4. ~sends(w) BY <1>17, <2>2, <2>3, <3>1, <3>2
    <3> QED BY <1>15, <2>3, <2>4, <3>2, <3>3, <3>4
  <2>6. CASE o.x # ch
    <3>1. ~sends(v) /\ ~(v = u /\ takes(v)) BY <1>17, <2>2, <2>3, <2>6
    <3>2. ~sends(w) /\ ~(w = u /\ takes(w)) BY <1>17, <2>2, <2>3, <2>6
    <3> QED BY <1>12, <2>3, <2>4, <3>1, <3>2
  <2> QED BY <2>5, <2>6
<1>20. CASE ~Selects(v) /\ ~\E w \in Thread : Meets(v, w)
  <2>1. buf' = buf BY <1>20 DEF Acts, Stays, Forks, Writes, Reads, Closes
  <2>2. \A w \in Thread : pc'[w] # pc[w] /\ Follows(w) => ~Is(w, {"select"})
    <3> SUFFICES ASSUME NEW w \in Thread, pc'[w] # pc[w], Follows(w), Is(w, {"select"}) PROVE FALSE
      OBVIOUS
    <3>1. CASE Stays BY <3>1 DEF Stays
    <3>2. CASE Walks(v)
      <4>1. w = v BY <3>2 DEF Walks, Types
      <4>2. ~Is(v, {"go", "close", "cancel"} \cup Modifying) BY <4>1 DEF Is, Modifying
      <4> QED BY <1>20, <4>1, <4>2 DEF Acts, Stays, Forks, Writes, Reads, Closes, Is
    <3>3. CASE Forks(v)
      <4>1. w # v BY <3>3 DEF Forks, Is
      <4>2. pc'[w] = pc[w] \/ w \in Starts(c(v), pc[v]) BY <3>3, <4>1 DEF Forks
      <4>3. pc[v] \in 1 .. Len(c(v)) BY <3>3 DEF Forks, Follows
      <4>4. pc[w] = 0 BY <4>2, <4>3 DEF StartInv, Follows
      <4> QED BY <4>4, Lengths DEF Follows
    <3> QED BY <1>20, <3>1, <3>2, <3>3 DEF Acts, Writes, Reads, Closes
  <2>3. \A w \in Thread : ~sends(w) /\ ~(w = u /\ takes(w)) BY <1>16, <2>2
  <2> QED BY <1>12, <2>1, <2>3
<1> QED BY <1>18, <1>19, <1>20

-----------------------------------------------------------------------------
(* Who waits for whom.                                                     *)
Waits(t, s, u, k) ==
  OnceOver(t, s) /\ (ByGroup(P, t, s, u, k) \/ ByChannel(P, t, s, u, k) \/ ByLoop(P, t, s, u, k))
AwaitInv ==
  \A t, u \in Thread : \A s, k \in Int : Waits(t, s, u, k) /\ pc[u] > k => pc[t] > s

(* Wait returns when everybody has called Done.                            *)
LEMMA GroupWait ==
  ASSUME Types, StartInv, GroupInv, NEW v \in Thread, Acts(v), NEW t \in Thread, NEW u \in Thread,
         NEW s \in Int, NEW k \in Int, s \in 1 .. Len(c(t)), ByGroup(P, t, s, u, k),
         ~(pc[u] > k), pc'[u] > k
  PROVE  pc[t] > s
<1> DEFINE wg == c(u)[k].x
<1>1. /\ Gate(c(u), k) /\ c(u)[k].op = "wait" /\ Uses(c(t), s, {"done"}, wg)
      /\ \E w \in Thread : \E a \in 1 .. Len(c(w)) :
           /\ GroupUse(P, wg, w, a)
           /\ \/ w = u /\ a < k
              \/ \E i \in a + 1 .. Len(c(w)) : u \in Starts(c(w), i)
  BY DEF ByGroup, c, Thread
<1>2. pc[u] = k /\ Follows(u) BY <1>1, CrossingGate
<1>3. At(u).op = "wait" /\ At(u).x = wg /\ pc[u] \in Int /\ pc[t] \in Int /\ k >= 1
  BY <1>1, <1>2, Lengths DEF Gate, GateUpTo
<1>4. mem[wg] = 0
  <2>1. ~Is(u, {"go", "select", "close", "cancel"} \cup Modifying) /\ ~Is(u, {"select"})
    BY <1>3 DEF Is, Modifying
  <2>2. u = v BY <1>2, <2>1, MovesAlone
  <2> QED BY <1>2, <1>3, <2>1, <2>2 DEF Acts, Stays, Forks, Writes, Reads, Closes, Selects, Meets, Is
<1>5. \E w \in Thread : \E a \in 1 .. Len(c(w)) : GroupUse(P, wg, w, a) /\ pc[w] > a
  <2>1. PICK w \in Thread : \E a \in 1 .. Len(c(w)) :
          /\ GroupUse(P, wg, w, a)
          /\ \/ w = u /\ a < k
             \/ \E i \in a + 1 .. Len(c(w)) : u \in Starts(c(w), i)
    BY <1>1
  <2> PICK a \in 1 .. Len(c(w)) :
          /\ GroupUse(P, wg, w, a)
          /\ \/ w = u /\ a < k
             \/ \E i \in a + 1 .. Len(c(w)) : u \in Starts(c(w), i)
    BY <2>1
  <2>2. CASE w = u /\ a < k BY <1>2, <2>1, <2>2
  <2>3. ASSUME NEW i \in a + 1 .. Len(c(w)), u \in Starts(c(w), i) PROVE pc[w] > a
    <3>1. Len(c(w)) \in Nat /\ pc[w] \in Int BY Lengths
    <3>2. i \in 1 .. Len(c(w)) BY <3>1
    <3>3. ~(pc[w] <= i) BY <1>2, <1>3, <2>3, <3>2 DEF StartInv
    <3> QED BY <3>1, <3>2, <3>3
  <2> QED BY <2>2, <2>3
<1> PICK w \in Thread : \E a \in 1 .. Len(c(w)) : GroupUse(P, wg, w, a) /\ pc[w] > a BY <1>5
<1> PICK a \in 1 .. Len(c(w)) : GroupUse(P, wg, w, a) /\ pc[w] > a OBVIOUS
<1>6. /\ Finished(wg) \subseteq Members(P, wg) /\ IsFiniteSet(Members(P, wg))
      /\ Members(P, wg) \subseteq Thread
  BY FiniteThreads DEF Finished, Members, Thread
<1>7. /\ Cardinality(Members(P, wg)) \in Nat /\ Cardinality(Finished(wg)) \in Nat
      /\ Cardinality(Finished(wg)) = Cardinality(Members(P, wg)) => Finished(wg) = Members(P, wg)
  BY <1>6, FS_Subset, FS_CardinalityType
<1>8. Counted(wg, w, a) BY <1>5 DEF GroupInv
<1>9. Finished(wg) = Members(P, wg) BY <1>4, <1>5, <1>7, <1>8 DEF Counted
<1>10. t \in Members(P, wg) BY <1>1 DEF Members, c, Thread
<1>11. PICK i \in 1 .. Len(c(t)) : Uses(c(t), i, {"done"}, wg) /\ pc[t] > i
  BY <1>9, <1>10 DEF Finished
<1>12. s = i BY <1>1, <1>5, <1>11 DEF GroupUse, c, Thread
<1> QED BY <1>11, <1>12

(* Who moves at a select has sent, received, seen a close or polled.       *)
LEMMA Selecting ==
  ASSUME Types, StartInv, NEW v \in Thread, Acts(v), NEW u \in Thread, Follows(u), pc'[u] # pc[u],
         At(u).op = "select", At(u).to = 0, \A o \in At(u).cases : o.dir = "recv"
  PROVE  \E o \in At(u).cases :
           \/ o.x \in closed
           \/ /\ pc'[u] = Target(u, o.to)
              /\ \/ buf[o.x] # <<>>
                 \/ /\ Follows(v) /\ pc[v] \in 1 .. Len(c(v))
                    /\ Transfers(c(v), pc[v], o.x, TRUE)
<1>1. CASE \E w \in Thread : Meets(v, w)
  <2>1. PICK w \in Thread : Meets(v, w) BY <1>1
  <2>2. u = v \/ u = w BY <2>1 DEF Meets, Types
  <2>3. PICK o \in At(v).cases, r \in At(w).cases :
          /\ o.dir # "recv" /\ r.dir = "recv" /\ o.x = r.x
          /\ pc'[v] = Target(v, o.to) /\ pc'[w] = Target(w, r.to)
    BY <2>1 DEF Meets
  <2>4. u = w BY <2>2, <2>3
  <2>5. At(v) = c(v)[pc[v]] BY Lengths
  <2>6. Transfers(c(v), pc[v], r.x, TRUE) /\ Follows(v) /\ pc[v] \in 1 .. Len(c(v))
    BY <2>1, <2>3, <2>5 DEF Meets, Transfers, Is, Follows
  <2> QED BY <2>3, <2>4, <2>6
<1>2. CASE ~\E w \in Thread : Meets(v, w)
  <2>1. CASE Forks(v)
    <3>1. u # v BY <2>1 DEF Forks, Is
    <3>2. pc'[u] = pc[u] \/ u \in Starts(c(v), pc[v]) BY <2>1, <3>1 DEF Forks
    <3>3. pc[v] \in 1 .. Len(c(v)) BY <2>1 DEF Forks, Follows
    <3>4. pc[u] = 0 BY <3>2, <3>3 DEF StartInv
    <3> QED BY <3>4, Lengths DEF Follows
  <2>2. CASE Walks(v)
    <3>1. u = v BY <2>2 DEF Walks, Types
    <3>2. ~Is(v, {"go", "close", "cancel"} \cup Modifying) BY <3>1 DEF Is, Modifying
    <3>3. Selects(u) BY <1>2, <3>1, <3>2 DEF Acts, Stays, Forks, Writes, Reads, Closes, Is
    <3> QED BY <3>3 DEF Selects
  <2> QED BY <1>2, <2>1, <2>2 DEF Acts, Stays, Writes, Reads, Closes, Selects
<1> QED BY <1>1, <1>2

(* A receive returns when the sender has sent, or the closer closed.       *)
LEMMA ChannelWait ==
  ASSUME Types, StartInv, SignalInv, NEW v \in Thread, Acts(v), NEW t \in Thread, NEW u \in Thread,
         NEW s \in Int, NEW k \in Int, OnceOver(t, s), ByChannel(P, t, s, u, k),
         ~(pc[u] > k), pc'[u] > k
  PROVE  pc'[t] > s
<1>1. /\ Gate(c(u), k) /\ c(u)[k].op = "select" /\ c(u)[k].to = 0
      /\ \A o \in c(u)[k].cases :
           o.dir = "recv" /\ ClosedBy(P, o.x, t, s) /\ SentBy(P, o.x, t, s)
  BY DEF ByChannel, c
<1>2. pc[u] = k /\ Follows(u) BY <1>1, CrossingGate
<1>3. At(u) = c(u)[k] BY <1>2, Lengths
<1>4. PICK o \in At(u).cases :
        \/ o.x \in closed \/ buf[o.x] # <<>>
        \/ Follows(v) /\ pc[v] \in 1 .. Len(c(v)) /\ Transfers(c(v), pc[v], o.x, TRUE)
  BY <1>1, <1>2, <1>3, Selecting
<1>5. ClosedBy(P, o.x, t, s) /\ SentBy(P, o.x, t, s) /\ o.x \in DOMAIN P.cap
  BY <1>1, <1>3 DEF ClosedBy
<1>6. CASE o.x \in closed \/ buf[o.x] # <<>> BY <1>5, <1>6, Over1 DEF SignalInv
<1>7. CASE Follows(v) /\ pc[v] \in 1 .. Len(c(v)) /\ Transfers(c(v), pc[v], o.x, TRUE)
  <2>1. v = t /\ pc[v] >= s BY <1>5, <1>7 DEF SentBy, c, Thread
  <2> QED BY <1>7, <2>1, Over1
<1> QED BY <1>4, <1>6, <1>7

(* A loop is left when the channel is closed, or the cell has been seen.   *)
LEMMA LoopWait ==
  ASSUME Types, StartInv, SignalInv, NEW v \in Thread, Acts(v), Recalls(v),
         NEW t \in Thread, NEW u \in Thread,
         NEW s \in Int, NEW k \in Int, OnceOver(t, s), ByLoop(P, t, s, u, k),
         ~(pc[u] > k), pc'[u] > k
  PROVE  pc'[t] > s
<1>1. /\ k \in 1 .. Len(c(u))
      /\ \A i \in 1 .. k : (\E j \in Leads(c(u), i) : j > k) =>
           Drained(P, c(u), i, k, t, s) \/ Informed(P, c(u), i, k, t, s)
  BY DEF ByLoop, c
<1>2. /\ pc[u] \in 0 .. Len(c(u)) + 1 /\ Len(c(u)) \in Nat /\ pc'[u] \in Int
      /\ At(u) = c(u)[pc[u]] /\ End(u) = Len(c(u)) + 1
  BY Lengths, Moves
<1>3. Follows(u) /\ pc[u] \in 1 .. k /\ pc'[u] # pc[u]
  <2>1. Follows(u) BY <1>1, <1>2, Moves
  <2> QED BY <1>1, <1>2, <2>1 DEF Follows
<1>4. Drained(P, c(u), pc[u], k, t, s) \/ Informed(P, c(u), pc[u], k, t, s)
  BY <1>1, <1>3 DEF Follows
<1>5. CASE Drained(P, c(u), pc[u], k, t, s)
  <2>1. /\ At(u).op = "select" /\ At(u).to = 0
        /\ \A o \in At(u).cases :
             /\ o.dir = "recv" /\ o.to # Out /\ pc[u] + o.to <= k /\ ClosedBy(P, o.x, t, s)
    BY <1>2, <1>5 DEF Drained
  <2>2. PICK o \in At(u).cases : o.x \in closed \/ pc'[u] = Target(u, o.to)
    BY <1>3, <2>1, Selecting
  <2>3. Target(u, o.to) <= k BY <1>1, <1>2, <2>1 DEF Target
  <2>4. o.x \in closed BY <1>1, <1>2, <2>2, <2>3
  <2> QED BY <2>1, <2>4, Over1 DEF SignalInv
<1>6. CASE Informed(P, c(u), pc[u], k, t, s)
  <2> DEFINE i == pc[u]
             x == c(u)[i - 1].x
  <2>1. i < k /\ Seen(c(u), i, x) /\ At(u).v # 0 /\ SetBy(P, x, t, s) BY <1>2, <1>6 DEF Informed
  <2>2. At(u).op = "if" BY <1>2, <2>1 DEF Seen
  <2>3. u = v
    <3>1. ~Is(u, {"select"}) BY <2>2 DEF Is
    <3> QED BY <1>3, <3>1, MovesAlone
  <2>4. reg[u] # 0 BY <1>2, <2>1, <2>2, <2>3 DEF Recalls, Is
  <2>5. pc[t] > s BY <2>1, <2>4 DEF SignalInv
  <2> QED BY <2>5, Over1
<1> QED BY <1>4, <1>5, <1>6

(* The last of the receives returns when everybody has sent.               *)
LEMMA CountWait ==
  ASSUME Types, CountInv, NEW t \in Thread, NEW u \in Thread,
         NEW s \in Int, NEW k \in Int, NEW last, s \in 1 .. Len(c(t)), ByCount(P, t, s, u, k, last),
         pc[u] > k, pc[u] <= last
  PROVE  pc[t] > s
<1>1. PICK ch \in DOMAIN P.cap :
        /\ k \in 1 .. Len(c(u)) /\ Transfers(c(u), k, ch, FALSE)
        /\ Transfers(c(t), s, ch, TRUE) /\ CountUse(P, ch, u, last)
        /\ Cardinality(Receipts(c(u), ch, k)) = Cardinality(Senders(P, ch))
  BY DEF ByCount, c
<1>2. Len(buf[ch]) + Cardinality(Received(ch, u)) = Cardinality(Sent(ch)) BY <1>1 DEF CountInv
<1>3. Len(c(u)) \in Nat /\ pc[u] \in Int /\ pc[t] \in Int BY Lengths
<1>4. Len(buf[ch]) \in Nat
  <2>1. PICK V : buf[ch] \in Seq(V) BY DEF Types
  <2> QED BY <2>1
<1>5. IsFiniteSet(Senders(P, ch)) /\ Sent(ch) \subseteq Senders(P, ch)
  BY FiniteThreads DEF Senders, Sent, Thread
<1>6. Receipts(c(u), ch, k) \subseteq Received(ch, u)
  <2> SUFFICES ASSUME NEW i \in 1 .. Len(c(u)), i <= k PROVE pc[u] > i BY DEF Receipts, Received
  <2>1. i \in Int BY <1>3
  <2> QED BY <1>3, <2>1
<1>7. IsFiniteSet(Received(ch, u))
  <2>1. 1 \in Int /\ Len(c(u)) \in Int BY <1>3
  <2>2. IsFiniteSet(1 .. Len(c(u))) BY <2>1, FS_Interval
  <2>3. Received(ch, u) \subseteq 1 .. Len(c(u)) BY DEF Received
  <2> QED BY <2>2, <2>3, FS_Subset
<1>8. /\ Cardinality(Receipts(c(u), ch, k)) <= Cardinality(Received(ch, u))
      /\ Cardinality(Sent(ch)) <= Cardinality(Senders(P, ch))
      /\ Cardinality(Sent(ch)) = Cardinality(Senders(P, ch)) => Sent(ch) = Senders(P, ch)
      /\ Cardinality(Received(ch, u)) \in Nat /\ Cardinality(Sent(ch)) \in Nat
      /\ Cardinality(Senders(P, ch)) \in Nat
  <2>1. IsFiniteSet(Sent(ch)) BY <1>5, FS_Subset
  <2> QED BY <1>5, <1>6, <1>7, <2>1, FS_Subset, FS_CardinalityType
<1>9. Sent(ch) = Senders(P, ch) BY <1>1, <1>2, <1>4, <1>8
<1>10. t \in Senders(P, ch) BY <1>1 DEF Senders, c, Thread
<1>11. PICK i \in 1 .. Len(c(t)) : Transfers(c(t), i, ch, TRUE) /\ pc[t] > i BY <1>9, <1>10 DEF Sent
<1>12. i = s BY <1>1, <1>11, Counts
<1> QED BY <1>11, <1>12

(* Nobody gets past a wait before those for whom it waits.                 *)
LEMMA AwaitStep ==
  ASSUME Types, StartInv, GroupInv, SignalInv, AwaitInv, NEW v \in Thread, Acts(v), Recalls(v), prog' = prog
  PROVE  AwaitInv'
<1>1. P' = P /\ Thread' = Thread /\ \A u : c(u)' = c(u) BY SameProgram
<1> SUFFICES ASSUME NEW t \in Thread, NEW u \in Thread, NEW s \in Int, NEW k \in Int,
                    Waits(t, s, u, k), pc'[u] > k
             PROVE  pc'[t] > s
  BY <1>1 DEF AwaitInv, Waits, OnceOver
<1>2. OnceOver(t, s) /\ s \in 1 .. Len(c(t)) BY DEF Waits, OnceOver
<1>3. pc[t] > s => pc'[t] > s BY <1>2, Over1
<1>4. CASE pc[u] > k BY <1>3, <1>4 DEF AwaitInv
<1>5. CASE ~(pc[u] > k)
  <2>1. CASE ByGroup(P, t, s, u, k) BY <1>2, <1>3, <1>5, <2>1, GroupWait
  <2>2. CASE ByChannel(P, t, s, u, k) BY <1>2, <1>5, <2>2, ChannelWait
  <2>3. CASE ByLoop(P, t, s, u, k) BY <1>2, <1>5, <2>3, LoopWait
  <2> QED BY <2>1, <2>2, <2>3 DEF Waits
<1> QED BY <1>4, <1>5

-----------------------------------------------------------------------------
(* The inductive invariant.                                                *)
IInv == Types /\ StartInv /\ LockInv /\ GroupInv /\ SignalInv /\ CountInv /\ AwaitInv

(* Whoever is past a statement that awaits t finds t past its own.         *)
LEMMA Awaited ==
  ASSUME IInv, NEW t \in Thread, NEW u \in Thread, NEW s \in Int, NEW k \in Int, NEW last,
         Awaits(P, t, s, u, k, last), pc[u] > k, pc[u] <= last
  PROVE  pc[t] > s
<1>1. s \in 1 .. Len(c(t)) /\ OnceOver(t, s) BY DEF Awaits, OnceOver, c
<1>2. CASE ByCount(P, t, s, u, k, last) BY <1>1, <1>2, CountWait DEF IInv
<1>3. CASE ~ByCount(P, t, s, u, k, last) BY <1>1, <1>3 DEF IInv, AwaitInv, Waits, Awaits
<1> QED BY <1>2, <1>3

(* A step of any goroutine keeps the inductive invariant.                  *)
LEMMA StepKeeps == ASSUME IInv, NEW t \in Thread, Step(t) PROVE IInv'
<1>1. prog' = prog /\ Acts(t) /\ Recalls(t) BY StepActs, StepRecalls DEF IInv
<1> QED BY <1>1, TypesHold, StartInvHolds, LockStep, GroupStep, SignalStep, CountStep, AwaitStep DEF IInv

(* And so does a step in which nothing happens.                            *)
LEMMA Stutters == ASSUME IInv, UNCHANGED vars PROVE IInv'
<1> USE DEF IInv, vars
<1>1. P' = P /\ Thread' = Thread /\ \A t : c(t)' = c(t) BY SameProgram
<1>2. Types' /\ StartInv' BY <1>1 DEF Types, StartInv
<1>3. LockInv'
  <2> SUFFICES ASSUME NEW m, LockUse(P, m) PROVE Locked(m)' BY <1>1 DEF LockInv
  <2>1. Writers(m)' = Writers(m) /\ Readers(m)' = Readers(m) BY <1>1 DEF Writers, Readers
  <2> QED BY <1>1, <2>1 DEF LockInv, Locked
<1>4. GroupInv'
  <2> SUFFICES ASSUME NEW wg, NEW u \in Thread, NEW a, GroupUse(P, wg, u, a) PROVE Counted(wg, u, a)'
    BY <1>1 DEF GroupInv
  <2>1. Finished(wg)' = Finished(wg) BY <1>1 DEF Finished
  <2> QED BY <1>1, <2>1 DEF GroupInv, Counted
<1>5. SignalInv' BY <1>1 DEF SignalInv, OnceOver
<1>6. CountInv'
  <2> SUFFICES ASSUME NEW ch, NEW last, NEW u \in Thread, CountUse(P, ch, u, last), pc[u] <= last
               PROVE  /\ ch \notin closed
                      /\ Len(buf[ch]) + Cardinality(Received(ch, u)') = Cardinality(Sent(ch)')
    BY <1>1 DEF CountInv
  <2>1. Received(ch, u)' = Received(ch, u) /\ Sent(ch)' = Sent(ch) BY <1>1 DEF Received, Sent
  <2> QED BY <2>1 DEF CountInv
<1>7. AwaitInv' BY <1>1 DEF AwaitInv, Waits, OnceOver
<1> QED BY <1>2, <1>3, <1>4, <1>5, <1>6, <1>7

(* The inductive invariant holds at first: nobody has passed anything.     *)
LEMMA InitIInv ==
  ASSUME \A p \in DOMAIN Program : WellFormed(Program[p]), Init
  PROVE  IInv
<1>1. Types
  <2>1. prog \in DOMAIN Program /\ WellFormed(P) BY DEF Init, P
  <2>2. pc = [t \in Thread |-> IF t \in {"main", "timer"} THEN 1 ELSE 0] BY DEF Init
  <2>3. \A t \in Thread : Len(c(t)) \in Nat BY <2>1 DEF WellFormed, Thread, c
  <2>4. pc \in [Thread -> Int] /\ \A t \in Thread : pc[t] \in 0 .. Len(c(t)) + 1 BY <2>2, <2>3
  <2> QED BY <2>1, <2>4 DEF Types, Init
<1>2. \A t \in Thread : pc[t] <= 1 /\ pc[t] \in Int /\ (t \notin {"main", "timer"} => pc[t] = 0)
  BY DEF Init
<1>3. StartInv
  <2> SUFFICES ASSUME NEW t \in Thread, NEW i \in 1 .. Len(c(t)), NEW u \in Starts(c(t), i)
               PROVE  pc[u] = 0
    BY DEF StartInv
  <2>1. u \in Thread \ {"main", "timer"} BY <1>1 DEF Types, WellFormed, c, Thread
  <2> QED BY <1>2, <2>1
<1>4. LockInv
  <2> SUFFICES ASSUME NEW m, LockUse(P, m) PROVE Locked(m) BY DEF LockInv
  <2>1. \A t \in Thread : Holds(c(t), m, pc[t]) = "none" BY <1>2, HoldsAtStart
  <2>2. Writers(m) = {} /\ Readers(m) = {} BY <2>1 DEF Writers, Readers
  <2>3. mem[m] = 0 BY DEF Init, LockUse
  <2> QED BY <2>2, <2>3, FS_EmptySet DEF Locked
<1>5. GroupInv
  <2> SUFFICES ASSUME NEW wg, NEW u \in Thread, NEW a, GroupUse(P, wg, u, a) PROVE Counted(wg, u, a)
    BY DEF GroupInv
  <2>1. mem[wg] = 0 /\ a \in 1 .. Len(c(u)) BY DEF Init, GroupUse, c
  <2>2. Len(c(u)) \in Nat /\ ~(pc[u] > a) BY <1>1, <1>2, <2>1, Lengths
  <2>3. Finished(wg) = {}
    <3>1. ASSUME NEW t \in Thread, NEW i \in 1 .. Len(c(t)) PROVE ~(pc[t] > i)
      BY <1>1, <1>2, Lengths
    <3>2. Members(P, wg) \subseteq Thread BY DEF Members, Thread
    <3> QED BY <3>1, <3>2 DEF Finished
  <2> QED BY <2>1, <2>2, <2>3, FS_EmptySet DEF Counted
<1>6. SignalInv
  <2>1. \A x \in P.cells : mem[x] = 0 BY DEF Init
  <2>2. \A x \in DOMAIN P.cap : buf[x] = <<>> BY DEF Init
  <2>3. closed = {} BY DEF Init
  <2>4. \A u \in Thread : \A i, x : ~(Seen(c(u), i, x) /\ pc[u] = i) BY <1>2 DEF Seen
  <2> QED BY <2>1, <2>2, <2>3, <2>4 DEF SignalInv, SetBy
<1>7. CountInv
  <2> SUFFICES ASSUME NEW ch, NEW last, NEW u \in Thread, CountUse(P, ch, u, last)
               PROVE  ch \notin closed /\ Len(buf[ch]) + Cardinality(Received(ch, u)) = Cardinality(Sent(ch))
    BY DEF CountInv
  <2>1. ch \notin closed /\ buf[ch] = <<>> BY DEF Init, CountUse
  <2>2. ASSUME NEW t \in Thread, NEW i \in 1 .. Len(c(t)) PROVE ~(pc[t] > i)
    BY <1>1, <1>2, Lengths
  <2>3. Senders(P, ch) \subseteq Thread BY DEF Senders, Thread
  <2>4. Received(ch, u) = {} BY <2>2 DEF Received
  <2>5. Sent(ch) = {} BY <2>2, <2>3 DEF Sent
  <2> QED BY <2>1, <2>4, <2>5, FS_EmptySet
<1>8. AwaitInv
  <2> SUFFICES ASSUME NEW t \in Thread, NEW u \in Thread, NEW s \in Int, NEW k \in Int, Waits(t, s, u, k)
               PROVE  ~(pc[u] > k)
    BY DEF AwaitInv
  <2>1. k \in 1 .. Len(c(u)) BY DEF Waits, ByGroup, ByChannel, ByLoop, Gate, GateUpTo, c
  <2>2. k >= 1 BY <1>1, <2>1, Lengths
  <2> QED BY <1>2, <2>2
<1> QED BY <1>1, <1>3, <1>4, <1>5, <1>6, <1>7, <1>8 DEF IInv

(* Of programs whose jumps stay in their functions and which start nobody  *)
(* twice, every reachable state satisfies the inductive invariant: the     *)
(* locks, wait groups, channels and cells are what the positions of the    *)
(* goroutines in their texts say.                                          *)
THEOREM InductiveInvariant ==
  ASSUME \A p \in DOMAIN Program : WellFormed(Program[p])
  PROVE  Spec => []IInv
<1>1. Init => IInv BY InitIInv
<1>2. IInv /\ [Next]_vars => IInv' BY StepKeeps, Stutters DEF Next, Over
<1> QED BY <1>1, <1>2, PTL DEF Spec

-----------------------------------------------------------------------------
(* Two goroutines are never both within a lock that one of them holds for  *)
(* writing.                                                                *)
Excluding ==
  \A m : LockUse(P, m) =>
    \A t, u \in Thread : t # u /\ Holds(c(t), m, pc[t]) = "writing" => Holds(c(u), m, pc[u]) = "none"

(* The invariant of the locks excludes two holders.                        *)
LEMMA ExcludingHolds == IInv => Excluding
<1> SUFFICES ASSUME IInv, NEW m, LockUse(P, m), NEW t \in Thread, NEW u \in Thread, t # u,
                    Holds(c(t), m, pc[t]) = "writing"
             PROVE  Holds(c(u), m, pc[u]) = "none"
  BY DEF Excluding
<1>1. Locked(m) /\ t \in Writers(m) BY DEF IInv, LockInv, Writers
<1>2. u \notin Writers(m) /\ u \notin Readers(m) BY <1>1 DEF Locked
<1>3. Holds(c(u), m, pc[u]) \in {"none", "reading", "writing"} BY DEF Holds
<1> QED BY <1>2, <1>3 DEF Writers, Readers

(* Mutual exclusion by sync.Mutex, sync.RWMutex and TryLock as the lessons *)
(* about locks use them (adv009 to adv012, day024): while one goroutine is *)
(* between its Lock and its Unlock no other is within the lock, to read or *)
(* to write.                                                               *)
THEOREM LocksExclude ==
  ASSUME \A p \in DOMAIN Program : WellFormed(Program[p])
  PROVE  Spec => []Excluding
<1>1. IInv => Excluding BY ExcludingHolds
<1>2. Spec => []IInv BY InductiveInvariant
<1> QED BY <1>1, <1>2, PTL

(* Two accesses that are exclusive or ordered do not meet: of two          *)
(* goroutines within a lock one cannot write, and of two that are ordered  *)
(* the later one has to be past its wait.                                  *)
LEMMA RaceFreedom == IInv /\ (P.racy \/ Ordered(P)) => RaceFree
<1> SUFFICES ASSUME IInv, Ordered(P), NEW t \in Thread, NEW u \in Thread, t # u, Conflict(t, u)
             PROVE  FALSE
  BY DEF RaceFree
<1> DEFINE i == pc[t]
           j == pc[u]
<1>1. Types BY DEF IInv
<1>2. Running(t) /\ Running(u) BY DEF Conflict
<1>3. /\ i \in 1 .. Len(c(t)) /\ j \in 1 .. Len(c(u)) /\ Len(c(t)) \in Nat
      /\ At(t) = c(t)[i] /\ At(u) = c(u)[j]
  BY <1>1, <1>2, Lengths
<1>4. c(t)[i].op \in Plain \ {"read"} /\ c(u)[j].op \in Plain /\ c(t)[i].x = c(u)[j].x
  BY <1>3 DEF Conflict, Is
<1>5. Exclusive(P, t, i, u, j) \/ Before(P, t, i, u, j) \/ Before(P, u, j, t, i)
  BY <1>3, <1>4 DEF Ordered, c, Thread
<1>6. ~Exclusive(P, t, i, u, j) BY ExcludingHolds DEF Exclusive, Excluding, c
<1>7. \A v, w \in Thread : pc[v] \in 1 .. Len(c(v)) /\ pc[w] \in 1 .. Len(c(w)) =>
        ~Before(P, v, pc[v], w, pc[w])
  <2> SUFFICES ASSUME NEW v \in Thread, NEW w \in Thread, pc[v] \in 1 .. Len(c(v)),
                      pc[w] \in 1 .. Len(c(w)), Before(P, v, pc[v], w, pc[w])
               PROVE  FALSE
    OBVIOUS
  <2>1. PICK s \in pc[v] .. Len(c(v)), k \in 1 .. pc[w] - 1 : Awaits(P, v, s, w, k, Len(c(w)))
    BY DEF Before, c
  <2>2. pc[v] \in Int /\ pc[w] \in Int /\ Len(c(w)) \in Nat BY <1>1, Lengths
  <2>3. pc[w] > k /\ s \in Int /\ k \in Int /\ pc[w] <= Len(c(w)) BY <2>1, <2>2
  <2>4. pc[v] > s BY <2>1, <2>3, Awaited
  <2> QED BY <2>1, <2>2, <2>4
<1> QED BY <1>3, <1>5, <1>6, <1>7

(* Whoever has returned after awaiting the end of t finds t returned.      *)
LEMMA EndAwaited ==
  ASSUME IInv, NEW t \in Thread, NEW u \in Thread, AwaitsEnd(P, t, u), Returned(u)
  PROVE  Returned(t)
<1>1. PICK k \in 1 .. Len(c(u)) : Awaits(P, t, Len(c(t)), u, k, Len(c(u)) + 1) BY DEF AwaitsEnd, c
<1>2. /\ Len(c(t)) \in Int /\ Len(c(u)) \in Int /\ pc[u] \in Int /\ pc[t] \in 0 .. Len(c(t)) + 1
      /\ End(t) = Len(c(t)) + 1 /\ End(u) = Len(c(u)) + 1
  BY Lengths DEF IInv
<1>3. pc[u] = Len(c(u)) + 1 BY <1>2 DEF Returned
<1>4. pc[t] > Len(c(t)) BY <1>1, <1>2, <1>3, Awaited
<1> QED BY <1>2, <1>4 DEF Returned

(* When main has returned so has everybody for whom it waits, at first or  *)
(* second hand.                                                            *)
LEMMA Joining == IInv /\ AwaitsAll(P) => Joined
<1> SUFFICES ASSUME IInv, AwaitsAll(P), MainEnded,
                    NEW t \in Thread \ (P.late \cup {"timer"}), Started(t)
             PROVE  Returned(t)
  BY DEF Joined, AwaitsAll
<1>1. "main" \in Thread BY DEF IInv, Types, WellFormed, Thread
<1>2. CASE t = "main" BY <1>2 DEF MainEnded
<1>3. CASE t # "main"
  <2>1. AwaitsEnd(P, t, "main") \/ \E v \in Thread : AwaitsEnd(P, t, v) /\ AwaitsEnd(P, v, "main")
    BY <1>3 DEF AwaitsAll, Thread
  <2> QED BY <1>1, <2>1, EndAwaited DEF MainEnded
<1> QED BY <1>2, <1>3

(* A program whose plain accesses are each behind a lock, or before a      *)
(* signal for which the other goroutine waits, has no data race under any  *)
(* interleaving: the rules of adv009 and adv010 suffice.                   *)
THEOREM OrderedProgramsDoNotRace ==
  ASSUME \A p \in DOMAIN Program : WellFormed(Program[p])
  PROVE  Spec => [](Ordered(P) => RaceFree)
<1>1. IInv => (Ordered(P) => RaceFree) BY RaceFreedom
<1>2. Spec => []IInv BY InductiveInvariant
<1> QED BY <1>1, <1>2, PTL

(* A table of which every program is Ordered, or announces its race, has   *)
(* no race that is not announced.                                          *)
THEOREM OrderedTablesDoNotRace ==
  ASSUME \A p \in DOMAIN Program :
           WellFormed(Program[p]) /\ (Program[p].racy \/ Ordered(Program[p]))
  PROVE  Spec => []RaceFree
<1>1. IInv => RaceFree
  <2> SUFFICES ASSUME IInv PROVE RaceFree OBVIOUS
  <2>1. prog \in DOMAIN Program BY DEF IInv, Types
  <2>2. P.racy \/ Ordered(P) BY <2>1 DEF P
  <2>3. CASE P.racy BY <2>3 DEF RaceFree
  <2>4. CASE Ordered(P) BY <2>4, RaceFreedom
  <2> QED BY <2>2, <2>3, <2>4
<1>2. Spec => []IInv BY InductiveInvariant
<1> QED BY <1>1, <1>2, PTL

(* A program whose main waits for everybody it started, by a wait group, a *)
(* channel, a flag or a count of receives, directly or through another     *)
(* goroutine, leaves nobody behind when it returns.                        *)
THEOREM WaitedProgramsAreJoined ==
  ASSUME \A p \in DOMAIN Program : WellFormed(Program[p])
  PROVE  Spec => [](AwaitsAll(P) => Joined)
<1>1. IInv => (AwaitsAll(P) => Joined) BY Joining
<1>2. Spec => []IInv BY InductiveInvariant
<1> QED BY <1>1, <1>2, PTL
===============================================================================
