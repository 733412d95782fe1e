------------------------------- MODULE Ordering -------------------------------
(***************************************************************************)
(* What is asked of the programs about races and joins, and what in the    *)
(* text of a program is enough for it: a cell whose accesses are all       *)
(* between Lock and Unlock of one mutex, or an access that comes before    *)
(* the Done, the close or the send for which the other goroutine waits     *)
(* before its own: at a wait group, at a receive, in a loop that ends with *)
(* the channel or when a flag is set, or with as many receives as there    *)
(* are senders.  The lessons explain their fixes in these words (adv009    *)
(* and adv010); the theorems say that they are right for every program.    *)
(***************************************************************************)
EXTENDS Goroutines, FiniteSetsExt

(* Where statement i of code c may lead.                                   *)
Leads(c, i) ==
  LET s == c[i]
      by == CASE s.op = "select" -> {o.to : o \in s.cases}
                                    \cup {o.end : o \in {q \in s.cases : q.dir = "recv"}}
                                    \cup ({s.to} \ {0})
              [] s.op = "jump" -> {s.to}
              [] s.op \in {"if", "either", "cas"} -> {1, s.to}
              [] OTHER -> {1}
  IN {IF to = Out THEN Len(c) + 1 ELSE i + to : to \in by}

(* Who is past k never comes back to it, and nobody gets past it unless by *)
(* executing it, except for those who get past last with the same step.    *)
NeverBack(c, k) == \A i \in k .. Len(c) : \A j \in Leads(c, i) : j > k
GateUpTo(c, k, last) ==
  /\ k \in 1 .. Len(c) /\ NeverBack(c, k)
  /\ \A i \in 1 .. k - 1 : \A j \in Leads(c, i) : j <= k \/ j > last
Gate(c, k) == GateUpTo(c, k, Len(c) + 1)

(* Jumps stay in their function, and no goroutine is started twice.        *)
Starts(c, i) == IF c[i].op = "go" THEN c[i].x ELSE {}
WellFormed(p) ==
  /\ IsFiniteSet(DOMAIN p.code) /\ "main" \in DOMAIN p.code
  /\ \A t \in DOMAIN p.code : LET c == p.code[t] IN
       /\ Len(c) \in Nat
       /\ \A i \in 1 .. Len(c) :
            /\ Leads(c, i) \subseteq 1 .. Len(c) + 1
            /\ Starts(c, i) \subseteq DOMAIN p.code \ {"main", "timer"}
            /\ Starts(c, i) # {} => NeverBack(c, i)
            /\ \A u \in DOMAIN p.code : \A j \in 1 .. Len(p.code[u]) :
                 t # u \/ i # j => Starts(c, i) \cap Starts(p.code[u], j) = {}

Uses(c, i, ops, x) == c[i].op \in ops /\ c[i].x = x
Modifying ==
  {"write", "store", "writereg", "add", "cas", "snapshot",
   "lock", "rlock", "unlock", "runlock", "done"}

-----------------------------------------------------------------------------
(* Locks.  What a goroutine that is at i has of m: the text says it, when  *)
(* every statement agrees with those to which it leads.                    *)
Holds(c, m, i) ==
  LET above == {j \in 1 .. i - 1 : Uses(c, j, {"lock", "rlock", "unlock", "runlock", "cas"}, m)}
      last == c[Max(above)].op
  IN IF above = {} \/ last \in {"unlock", "runlock"} THEN "none"
     ELSE IF last = "rlock" THEN "reading" ELSE "writing"

(* From i to j the goroutine goes from what it has before to what it has   *)
(* after; a compare-and-swap from 0 to -1 is TryLock.                      *)
Passes(c, m, i, before, j, after) == Holds(c, m, i) = before /\ Holds(c, m, j) = after
LockUse(p, m) ==
  /\ m \in p.cells
  /\ \A t \in DOMAIN p.code : LET c == p.code[t] IN \A i \in 1 .. Len(c) :
       IF Uses(c, i, Modifying, m)
       THEN \/ c[i].op = "lock" /\ Passes(c, m, i, "none", i + 1, "writing")
            \/ c[i].op = "rlock" /\ Passes(c, m, i, "none", i + 1, "reading")
            \/ c[i].op = "unlock" /\ Passes(c, m, i, "writing", i + 1, "none")
            \/ c[i].op = "runlock" /\ Passes(c, m, i, "reading", i + 1, "none")
            \/ /\ c[i].op = "cas" /\ c[i].v = <<0, -1>> /\ Leads(c, i) # {i + 1}
               /\ Passes(c, m, i, "none", i + 1, "writing")
               /\ \A j \in Leads(c, i) : j # i + 1 => Holds(c, m, j) = "none"
       ELSE \A j \in Leads(c, i) : Passes(c, m, i, Holds(c, m, j), j, Holds(c, m, j))

-----------------------------------------------------------------------------
(* Wait groups: one Add, for as many goroutines as call Done, once each.   *)
Members(p, wg) ==
  {t \in DOMAIN p.code : \E i \in 1 .. Len(p.code[t]) : Uses(p.code[t], i, {"done"}, wg)}
GroupUse(p, wg, u, a) ==
  /\ wg \in p.cells
  /\ a \in 1 .. Len(p.code[u]) /\ Uses(p.code[u], a, {"add"}, wg) /\ Gate(p.code[u], a)
  /\ p.code[u][a].v = Cardinality(Members(p, wg))
  /\ \A t \in DOMAIN p.code : \A i \in 1 .. Len(p.code[t]) :
       /\ Uses(p.code[t], i, Modifying \ {"done"}, wg) => t = u /\ i = a
       /\ Uses(p.code[t], i, {"done"}, wg) =>
            /\ Gate(p.code[t], i)
            /\ \A j \in 1 .. Len(p.code[t]) : Uses(p.code[t], j, {"done"}, wg) => j = i

(* Whoever is past k of u waits for t, which is past s then: by a wait     *)
(* group to which t says Done at s, or by a receive from a channel to      *)
(* which only t sends, or which only t closes, at s or later;              *)
ByGroup(p, t, s, u, k) ==
  /\ Gate(p.code[u], k) /\ p.code[u][k].op = "wait"
  /\ Uses(p.code[t], s, {"done"}, p.code[u][k].x)
  /\ \E v \in DOMAIN p.code : \E a \in 1 .. Len(p.code[v]) :
       /\ GroupUse(p, p.code[u][k].x, v, a)
       /\ \/ v = u /\ a < k
          \/ \E i \in a + 1 .. Len(p.code[v]) : u \in Starts(p.code[v], i)

(* no value, or no close, on ch but by t at s or later                     *)
Closing == {"close", "cancel"}
Transfers(c, i, ch, send) ==
  c[i].op = "select" /\ \E o \in c[i].cases : (o.dir # "recv") = send /\ o.x = ch
ClosedBy(p, ch, t, s) ==
  /\ ch \in DOMAIN p.cap
  /\ \A v \in DOMAIN p.code : \A i \in 1 .. Len(p.code[v]) :
       Uses(p.code[v], i, Closing, ch) => v = t /\ i >= s
SentBy(p, ch, t, s) ==
  \A v \in DOMAIN p.code : \A i \in 1 .. Len(p.code[v]) :
    Transfers(p.code[v], i, ch, TRUE) => v = t /\ i >= s
ByChannel(p, t, s, u, k) ==
  /\ Gate(p.code[u], k) /\ p.code[u][k].op = "select" /\ p.code[u][k].to = 0
  /\ \A o \in p.code[u][k].cases :
       o.dir = "recv" /\ ClosedBy(p, o.x, t, s) /\ SentBy(p, o.x, t, s)

(* by a loop that u has left for good at k: it ends when t has closed the  *)
(* channel, or when u has seen in a cell what only t writes;               *)
Drained(p, c, i, k, t, s) ==
  /\ c[i].op = "select" /\ c[i].to = 0
  /\ \A o \in c[i].cases :
       o.dir = "recv" /\ o.to # Out /\ i + o.to <= k /\ ClosedBy(p, o.x, t, s)
SetBy(p, x, t, s) ==
  /\ x \in p.cells
  /\ \A v \in DOMAIN p.code : \A i \in 1 .. Len(p.code[v]) :
       Uses(p.code[v], i, Modifying, x) => v = t /\ i >= s
Seen(c, i, x) ==
  /\ i \in 2 .. Len(c) /\ c[i].op = "if" /\ Uses(c, i - 1, {"read", "load"}, x)
  /\ \A j \in 1 .. Len(c) : i \in Leads(c, j) => j = i - 1
Informed(p, c, i, k, t, s) ==
  /\ i < k /\ Seen(c, i, c[i - 1].x) /\ c[i].v # 0
  /\ SetBy(p, c[i - 1].x, t, s)
ByLoop(p, t, s, u, k) ==
  LET c == p.code[u]
  IN /\ k \in 1 .. Len(c)
     /\ \A i \in k + 1 .. Len(c) : \A j \in Leads(c, i) : j > k
     /\ \A i \in 1 .. k : (\E j \in Leads(c, i) : j > k) =>
          Drained(p, c, i, k, t, s) \/ Informed(p, c, i, k, t, s)

(* or by as many receives as there are goroutines that send, once each;    *)
(* who gives up returns.                                                   *)
Once(c, i, ch, send, last) ==
  /\ GateUpTo(c, i, last) /\ c[i].op = "select" /\ c[i].to = 0
  /\ \A o \in c[i].cases :
       \/ o.x = ch /\ (o.dir # "recv") = send
       \/ last = Len(c) /\ o.dir = "recv" /\ o.to = Out /\ o.end = Out
Senders(p, ch) ==
  {v \in DOMAIN p.code : \E i \in 1 .. Len(p.code[v]) : Transfers(p.code[v], i, ch, TRUE)}
Receipts(c, ch, k) == {i \in 1 .. Len(c) : i <= k /\ Transfers(c, i, ch, FALSE)}
CountUse(p, ch, u, last) ==
  /\ ch \in DOMAIN p.cap /\ last \in {Len(p.code[u]), Len(p.code[u]) + 1}
  /\ \A v \in DOMAIN p.code : \A i \in 1 .. Len(p.code[v]) : LET c == p.code[v] IN
       /\ ~Uses(c, i, Closing, ch)
       /\ Transfers(c, i, ch, TRUE) =>
            /\ Once(c, i, ch, TRUE, Len(c) + 1)
            /\ \A j \in 1 .. Len(c) : Transfers(c, j, ch, TRUE) => j = i
       /\ Transfers(c, i, ch, FALSE) => v = u /\ Once(c, i, ch, FALSE, last)
ByCount(p, t, s, u, k, last) ==
  \E ch \in DOMAIN p.cap :
    /\ k \in 1 .. Len(p.code[u]) /\ Transfers(p.code[u], k, ch, FALSE)
    /\ Transfers(p.code[t], s, ch, TRUE) /\ CountUse(p, ch, u, last)
    /\ Cardinality(Receipts(p.code[u], ch, k)) = Cardinality(Senders(p, ch))

Awaits(p, t, s, u, k, last) ==
  /\ s \in 1 .. Len(p.code[t]) /\ NeverBack(p.code[t], s)
  /\ last \in {Len(p.code[u]), Len(p.code[u]) + 1}
  /\ \/ ByGroup(p, t, s, u, k) \/ ByChannel(p, t, s, u, k)
     \/ ByLoop(p, t, s, u, k) \/ ByCount(p, t, s, u, k, last)

-----------------------------------------------------------------------------
(* Data-race freedom of the programs that claim it: two goroutines are     *)
(* never both about to access the same plain variable, one to write it.    *)
Plain == {"read", "write", "writereg"}
Conflict(t, u) ==
  /\ Running(t) /\ Running(u) /\ Is(t, Plain \ {"read"}) /\ Is(u, Plain) /\ At(t).x = At(u).x
RaceFree == P.racy \/ \A t, u \in Thread : t # u => ~Conflict(t, u)

Exclusive(p, t, i, u, j) ==
  \E m \in p.cells : /\ LockUse(p, m) /\ Holds(p.code[t], m, i) = "writing"
                     /\ Holds(p.code[u], m, j) # "none"
Before(p, t, i, u, j) ==
  \E s \in i .. Len(p.code[t]), k \in 1 .. j - 1 : Awaits(p, t, s, u, k, Len(p.code[u]))
Ordered(p) ==
  \A t, u \in DOMAIN p.code : t # u =>
    \A i \in 1 .. Len(p.code[t]), j \in 1 .. Len(p.code[u]) :
      /\ p.code[t][i].op \in Plain \ {"read"} /\ p.code[u][j].op \in Plain
      /\ p.code[t][i].x = p.code[u][j].x
      => Exclusive(p, t, i, u, j) \/ Before(p, t, i, u, j) \/ Before(p, u, j, t, i)

(* When main returns, every goroutine it started has returned before, but  *)
(* the ones meant to outlive it.                                           *)
MainEnded == Returned("main")
Started(t) == pc[t] # 0
Joined ==
  MainEnded => \A t \in Thread \ (P.late \cup {"timer"}) : Started(t) => Returned(t)

(* main waits for the end of t, or of somebody who waits for it.           *)
AwaitsEnd(p, t, u) ==
  \E k \in 1 .. Len(p.code[u]) : Awaits(p, t, Len(p.code[t]), u, k, Len(p.code[u]) + 1)
AwaitsAll(p) ==
  \A t \in DOMAIN p.code \ ({"main", "timer"} \cup p.late) :
    \/ AwaitsEnd(p, t, "main")
    \/ \E v \in DOMAIN p.code : AwaitsEnd(p, t, v) /\ AwaitsEnd(p, v, "main")
===============================================================================
