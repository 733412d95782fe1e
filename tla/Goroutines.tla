------------------------------ MODULE Goroutines ------------------------------
(***************************************************************************)
(* One program of a table, run by the Go runtime: its goroutines, memory,  *)
(* locks, wait groups and channels, one statement at a time.  This is the  *)
(* runtime and the sync, atomic and context packages as the programs use   *)
(* them; the programs themselves are in the modules that fill the table.   *)
(***************************************************************************)
EXTENDS Instructions, FiniteSets

CONSTANT Program   (* the table: the name of a program -> its record       *)

VARIABLES
  prog,     (* the program that runs                                       *)
  pc,       (* goroutine -> its statement; 0 before its Go statement       *)
  reg,      (* goroutine -> what it read, received or counted last         *)
  mem,      (* cell -> value; locks and wait groups are cells too          *)
  buf,      (* channel -> the values in its buffer                         *)
  closed,   (* the closed channels                                         *)
  parked,   (* senders asleep in a channel that somebody polls             *)
  log,      (* what the program prints, records or returns, in order       *)
  panicked  (* whether a panic has stopped the program                     *)

vars == <<prog, pc, reg, mem, buf, closed, parked, log, panicked>>
channels == <<buf, closed>>

P == Program[prog]
Thread == DOMAIN P.code
Name == UNION {DOMAIN Program[p].code : p \in DOMAIN Program}

Init ==
  /\ prog \in DOMAIN Program
  /\ pc = [t \in Thread |-> IF t \in {"main", "timer"} THEN 1 ELSE 0]
  /\ reg = [t \in Thread |-> 0]
  /\ mem = [x \in P.cells |-> 0]
  /\ buf = [c \in DOMAIN P.cap |-> <<>>]
  /\ closed = {} /\ parked = {} /\ log = <<>> /\ panicked = FALSE

End(t) == Len(P.code[t]) + 1
Running(t) == pc[t] > 0 /\ pc[t] < End(t) /\ ~panicked
Returned(t) == pc[t] = End(t)
At(t) == P.code[t][pc[t]]
Is(t, ops) == At(t).op \in ops

Target(t, to) == IF to = Out THEN End(t) ELSE pc[t] + to
(* t goes on with the statement `to' further on, holding v.                *)
Goto(t, to, v) ==
  /\ pc' = [pc EXCEPT ![t] = Target(t, to)]
  /\ reg' = [reg EXCEPT ![t] = v]
  /\ parked' = parked \ {t}
Next1(t) == Goto(t, 1, reg[t])

Panic ==
  /\ panicked' = TRUE
  /\ UNCHANGED <<pc, reg, mem, buf, closed, parked, log>>

-----------------------------------------------------------------------------
(* Memory and control.                                                     *)

Memory(t) ==
  /\ Is(t, {"read", "load", "write", "store", "writereg", "add"})
  /\ LET i == At(t)
         new == CASE i.op \in {"read", "load"} -> mem[i.x]
                  [] i.op \in {"write", "store"} -> i.v
                  [] i.op = "writereg" -> reg[t] + i.v
                  [] i.op = "add" -> mem[i.x] + i.v
     IN /\ mem' = [mem EXCEPT ![i.x] = new]
        /\ Goto(t, 1, IF i.op \in {"write", "store"} THEN reg[t] ELSE new)
  /\ UNCHANGED <<channels, log, panicked>>

CompareSwap(t) ==
  /\ Is(t, {"cas"})
  /\ LET i == At(t)
     IN IF mem[i.x] = i.v[1]
        THEN mem' = [mem EXCEPT ![i.x] = i.v[2]] /\ Next1(t)
        ELSE Goto(t, i.to, reg[t]) /\ UNCHANGED mem
  /\ UNCHANGED <<channels, log, panicked>>

Control(t) ==
  /\ Is(t, {"if", "jump", "either"})
  /\ LET i == At(t)
     IN \/ (i.op = "if" => reg[t] = i.v) /\ Goto(t, i.to, reg[t])
        \/ i.op # "jump" /\ (i.op = "if" => reg[t] # i.v) /\ Next1(t)
  /\ UNCHANGED <<mem, channels, log, panicked>>

(* Goroutines that have started and not returned, main left out.           *)
Others == {u \in Thread \ {"main", "timer"} : pc[u] # 0 /\ ~Returned(u)}

(* A dump names the functions of a goroutine and the one that started it   *)
(* with their package, and the filter of a report looks for "main.".       *)
isOursAnywhere == TRUE
isOurs == P.package = "main"

Observe(t) ==
  /\ Is(t, {"log", "logreg", "alive", "report", "snapshot"})
  /\ LET i == At(t)
     IN /\ Goto(t, 1, CASE i.op = "alive" -> Cardinality(Others)
                         [] i.op = "report" ->
                              Cardinality({u \in Others \ mem[i.x] : isOurs})
                         [] OTHER -> reg[t])
        /\ log' = CASE i.op = "log" -> Append(log, i.v)
                    [] i.op = "logreg" -> Append(log, reg[t])
                    [] OTHER -> log
        /\ mem' = IF i.op = "snapshot" THEN [mem EXCEPT ![i.x] = Others] ELSE mem
  /\ UNCHANGED <<channels, panicked>>

Start(t) ==
  /\ Is(t, {"go"})
  /\ pc' = [u \in Thread |-> IF u = t THEN pc[t] + 1 ELSE IF u \in At(t).x THEN 1 ELSE pc[u]]
  /\ UNCHANGED <<reg, mem, channels, parked, log, panicked>>

-----------------------------------------------------------------------------
(* Locks (0 free, -1 locked for writing, n > 0 read by n) and wait groups. *)

Acquire(t) ==
  /\ Is(t, {"lock", "rlock"})
  /\ LET i == At(t)
     IN /\ IF i.op = "lock" THEN mem[i.x] = 0 ELSE mem[i.x] >= 0
        /\ mem' = [mem EXCEPT ![i.x] = IF i.op = "lock" THEN -1 ELSE @ + 1]
  /\ Next1(t)
  /\ UNCHANGED <<channels, log, panicked>>

(* Unlock of a lock that is not held, and a negative wait group, panic.    *)
Free(t) ==
  /\ Is(t, {"unlock", "runlock", "done"})
  /\ LET i == At(t)
         held == CASE i.op = "unlock" -> mem[i.x] = -1
                   [] OTHER -> mem[i.x] > 0
     IN IF ~held THEN Panic
        ELSE /\ mem' = [mem EXCEPT ![i.x] = IF i.op = "unlock" THEN 0 ELSE @ - 1]
             /\ Next1(t)
             /\ UNCHANGED <<channels, log, panicked>>

Join(t) ==
  /\ Is(t, {"wait"}) /\ mem[At(t).x] = 0
  /\ Next1(t)
  /\ UNCHANGED <<mem, channels, log, panicked>>

-----------------------------------------------------------------------------
(* Channels.  What a goroutine offers to do at its statement:              *)

Offers(t) ==
  IF ~Is(t, {"select"}) THEN {}
  ELSE {IF o.dir = "sendreg" THEN SendCase(o.x, reg[t] + o.v, o.to) ELSE o : o \in At(t).cases}

Polls(t) == Is(t, {"select"}) /\ At(t).to # 0

SendBuffered(t) ==
  \E o \in Offers(t) :
     /\ o.dir = "send"
     /\ IF o.x \in closed THEN Panic
        ELSE /\ Len(buf[o.x]) < P.cap[o.x]
             /\ buf' = [buf EXCEPT ![o.x] = Append(@, o.v)]
             /\ Goto(t, o.to, reg[t])
             /\ UNCHANGED <<mem, closed, log, panicked>>

ReceiveBuffered(t) ==
  \E o \in Offers(t) :
     /\ o.dir = "recv" /\ buf[o.x] # <<>>
     /\ buf' = [buf EXCEPT ![o.x] = Tail(@)]
     /\ Goto(t, o.to, Head(buf[o.x]))
     /\ UNCHANGED <<mem, closed, log, panicked>>

ReceiveClosed(t) ==
  \E o \in Offers(t) :
     /\ o.dir = "recv" /\ buf[o.x] = <<>> /\ o.x \in closed
     /\ Goto(t, o.end, 0)
     /\ UNCHANGED <<mem, channels, log, panicked>>

(* Without a buffer a sender and a receiver move together.                 *)
Rendezvous(t, u) ==
  t # u /\ Running(u) /\ \E o \in Offers(t), p \in Offers(u) :
     /\ t # u /\ o.dir = "send" /\ p.dir = "recv" /\ o.x = p.x
     /\ P.cap[o.x] = 0 /\ o.x \notin closed
     /\ pc' = [pc EXCEPT ![t] = Target(t, o.to), ![u] = Target(u, p.to)]
     /\ reg' = [reg EXCEPT ![u] = o.v]
     /\ parked' = parked \ {t}
     /\ UNCHANGED <<mem, channels, log, panicked>>

(* A sender goes to sleep in a channel; only a poll can tell.              *)
Park(t) ==
  /\ t \notin parked
  /\ \E o \in Offers(t), u \in Thread :
       o.dir = "send" /\ Running(u) /\ Polls(u) /\ \E p \in Offers(u) : p.x = o.x
  /\ parked' = parked \cup {t}
  /\ UNCHANGED <<pc, reg, mem, channels, log, panicked>>

(* select with default: nothing to receive, and no sender asleep.          *)
Default(t) ==
  /\ Polls(t)
  /\ \A o \in Offers(t) :
       IF o.dir = "recv"
       THEN /\ buf[o.x] = <<>> /\ o.x \notin closed
            /\ \A u \in parked : \A p \in Offers(u) : p.x # o.x
       ELSE Len(buf[o.x]) >= P.cap[o.x]
  /\ Goto(t, At(t).to, reg[t])
  /\ UNCHANGED <<mem, channels, log, panicked>>

(* close of a closed channel panics, a second cancel does nothing.         *)
CloseOrCancel(t) ==
  /\ Is(t, {"close", "cancel"})
  /\ IF At(t).op = "close" /\ At(t).x \in closed THEN Panic
     ELSE /\ closed' = closed \cup {At(t).x}
          /\ Next1(t)
          /\ UNCHANGED <<mem, buf, log, panicked>>

-----------------------------------------------------------------------------

Channels(t) ==
  SendBuffered(t) \/ ReceiveBuffered(t) \/ ReceiveClosed(t)
  \/ (\E u \in Thread : Rendezvous(t, u)) \/ Park(t) \/ Default(t)
Step(t) ==
  /\ Running(t)
  /\ UNCHANGED prog
  /\ IF At(t).op = "select" THEN Channels(t)
     ELSE Memory(t) \/ CompareSwap(t) \/ Control(t) \/ Observe(t) \/ Start(t)
          \/ Acquire(t) \/ Free(t) \/ Join(t) \/ CloseOrCancel(t)

(* The program is over when main has returned or somebody panicked.        *)
Over == (Returned("main") \/ panicked) /\ UNCHANGED vars

Next == (\E t \in Thread : Step(t)) \/ Over

Spec == Init /\ [][Next]_vars

(* A goroutine that can go on again and again does go on: the scheduler    *)
(* runs every runnable goroutine, a channel serves its sleepers in the     *)
(* order of their arrival, and sync.Mutex hands over to a waiter that has  *)
(* starved (adv011).                                                       *)
Fairness == \A t \in Name : SF_vars(t \in Thread /\ Step(t))
FairSpec == Spec /\ Fairness
===============================================================================
