--------------------------- MODULE UnboundedQueue ---------------------------
(***************************************************************************)
(* UnboundedQueue of adv023_backpressure/main.go: a slice under a mutex    *)
(* with a condition variable.  Producers push, consumers pop until Pop     *)
(* reports that the queue is closed and empty, and somebody closes it.     *)
(*                                                                         *)
(* A critical section of q.mu is one step.  cond.Wait joins the notify     *)
(* list before it unlocks, so falling asleep belongs to the section that   *)
(* saw the queue empty, and a signalled consumer looks again in a section  *)
(* of its own.                                                             *)
(***************************************************************************)
EXTENDS Integers, Sequences, FiniteSets

CONSTANTS
  Producer,   (* the goroutines that push                                  *)
  Consumer,   (* the goroutines that pop                                   *)
  Pushes      (* bound: how many values each producer pushes               *)

ASSUME PushesAssumption == Pushes \in Nat
ASSUME ConsumerAssumption == IsFiniteSet(Consumer)

VARIABLES
  buf,      (* q.buf                                                       *)
  closed,   (* q.closed                                                    *)
  sent,     (* how many values each producer has pushed                    *)
  pc,       (* each consumer: "pop", "waiting", "woken", "done"            *)
  pushed,   (* every value pushed, in the order of the pushes              *)
  popped,   (* every value popped, in the order of the pops                *)
  early     (* how many values had been pushed when Close ran              *)

vars == <<buf, closed, sent, pc, pushed, popped, early>>

Value == Producer \X (Nat \ {0})

Waiting == {c \in Consumer : pc[c] = "waiting"}
Woken == {c \in Consumer : pc[c] = "woken"}

Init ==
  /\ buf = <<>> /\ closed = FALSE
  /\ sent = [p \in Producer |-> 0]
  /\ pc = [c \in Consumer |-> "pop"]
  /\ pushed = <<>> /\ popped = <<>>
  /\ early = 0

Signal ==
  IF Waiting = {}
  THEN UNCHANGED pc
  ELSE \E c \in Waiting : pc' = [pc EXCEPT ![c] = "woken"]

BroadcastOne == Signal
Broadcast == pc' = [c \in Consumer |-> IF c \in Waiting THEN "woken" ELSE pc[c]]

(* Push looks at neither the length nor q.closed.                          *)
PushSignalsWhenEmpty(p) ==
  /\ sent[p] < Pushes
  /\ sent' = [sent EXCEPT ![p] = @ + 1]
  /\ buf' = Append(buf, <<p, sent'[p]>>)
  /\ pushed' = Append(pushed, <<p, sent'[p]>>)
  /\ IF buf = <<>> THEN Signal ELSE UNCHANGED pc
  /\ UNCHANGED <<closed, popped, early>>
Push(p) ==
  /\ sent[p] < Pushes
  /\ sent' = [sent EXCEPT ![p] = @ + 1]
  /\ buf' = Append(buf, <<p, sent'[p]>>)
  /\ pushed' = Append(pushed, <<p, sent'[p]>>)
  /\ Signal
  /\ UNCHANGED <<closed, popped, early>>

Looking(c) == pc[c] \in {"pop", "woken"}

(* Pop, the part that returns a value; the consumer then pops again.       *)
Take(c) ==
  /\ Looking(c) /\ buf # <<>>
  /\ popped' = Append(popped, Head(buf))
  /\ buf' = Tail(buf)
  /\ pc' = [pc EXCEPT ![c] = "pop"]
  /\ UNCHANGED <<closed, sent, pushed, early>>

Sleep(c) ==
  /\ Looking(c) /\ buf = <<>> /\ ~closed
  /\ pc' = [pc EXCEPT ![c] = "waiting"]
  /\ UNCHANGED <<buf, closed, sent, pushed, popped, early>>

(* Pop returns false, and the consumer stops.                              *)
GiveUpOnClose(c) ==
  /\ Looking(c) /\ closed
  /\ pc' = [pc EXCEPT ![c] = "done"]
  /\ UNCHANGED <<buf, closed, sent, pushed, popped, early>>
GiveUp(c) ==
  /\ Looking(c) /\ buf = <<>> /\ closed
  /\ pc' = [pc EXCEPT ![c] = "done"]
  /\ UNCHANGED <<buf, closed, sent, pushed, popped, early>>

Close ==
  /\ ~closed
  /\ closed' = TRUE
  /\ Broadcast
  /\ early' = Len(pushed)
  /\ UNCHANGED <<buf, sent, pushed, popped>>

Finished ==
  /\ \A c \in Consumer : pc[c] = "done"
  /\ \A p \in Producer : sent[p] = Pushes
  /\ UNCHANGED vars

Consume(c) == Take(c) \/ Sleep(c) \/ GiveUp(c)

Next == (\E p \in Producer : Push(p)) \/ (\E c \in Consumer : Consume(c)) \/ Close \/ Finished

Spec == Init /\ [][Next]_vars

-----------------------------------------------------------------------------

TypeOK ==
  /\ buf \in Seq(Value) /\ pushed \in Seq(Value) /\ popped \in Seq(Value)
  /\ closed \in BOOLEAN
  /\ sent \in [Producer -> 0 .. Pushes]
  /\ pc \in [Consumer -> {"pop", "waiting", "woken", "done"}]
  /\ early \in Nat

(* One queue, first in first out, however many producers and consumers     *)
(* share it: nothing is lost, repeated or reordered (main_test.go:23-45).  *)
FirstInFirstOut == pushed = popped \o buf

(* One Signal per Push is enough: while a consumer sleeps, every value in  *)
(* the queue has a woken consumer coming for it, and nobody sleeps in a    *)
(* closed queue.                                                           *)
NoLostWakeup ==
  Waiting # {} => Len(buf) <= Cardinality(Woken) /\ ~closed

(* A consumer only stops when everything pushed before Close was popped;   *)
(* values pushed after it may stay behind (main.go:34-39, 44-49).          *)
DrainedBeforeDone ==
  (\E c \in Consumer : pc[c] = "done") => closed /\ Len(popped) >= early

(* Close lets every consumer go, also those that sleep.                    *)
CloseEndsConsumers == closed ~> (\A c \in Consumer : pc[c] = "done")

=============================================================================
