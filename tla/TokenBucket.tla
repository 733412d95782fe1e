---------------------------- MODULE TokenBucket -----------------------------
(***************************************************************************)
(* tokenBucket of adv022_rate_limiting/main.go, used by clients that *)
(* call wait(n): they read the clock, reserve under the mutex, and sleep   *)
(* for as long as reserveN tells them.                                     *)
(*                                                                         *)
(* Time is a clock of ticks, and one tick refills one unit, so that a      *)
(* token is Period units and Period ticks are 1 / rate: a deficit of u     *)
(* units is a wait of u ticks.  The float64 arithmetic is exact on these   *)
(* values; the truncation to nanoseconds is left out.                      *)
(***************************************************************************)
EXTENDS Integers, FiniteSets

CONSTANTS
  Client,     (* the goroutines that call wait                             *)
  Period,     (* ticks to refill one token                                 *)
  Burst,      (* the size of the bucket, in tokens                         *)
  Requests,   (* the n of wait(n)                                          *)
  MaxClock    (* bound: the clock stops there                              *)

ASSUME ClientAssumption == IsFiniteSet(Client)
ASSUME PeriodAssumption == Period \in Nat \ {0}
ASSUME BurstAssumption == Burst \in Nat
ASSUME RequestsAssumption == Requests \subseteq Nat \ {0}
ASSUME BoundsAssumption == MaxClock \in Nat

VARIABLES
  clock,    (* time.Now()                                                  *)
  tokens,   (* tb.tokens, in units                                         *)
  last,     (* tb.last                                                     *)
  pc,       (* each client: "idle", "reserve", "sleep"                     *)
  now,      (* the time each client read before it took tb.mu              *)
  ask,      (* the n of its call                                           *)
  wakeAt,   (* when its sleep ends                                         *)
  atOnce,   (* units granted by reservations that returned 0               *)
  granted,  (* units of all requests let through                           *)
  lastPass  (* when the latest request was let through, -1 before          *)

vars == <<clock, tokens, last, pc, now, ask, wakeAt, atOnce, granted, lastPass>>

Capacity == Burst * Period

(* newTokenBucket                                                          *)
Init ==
  /\ clock = 0
  /\ tokens = Capacity /\ last = 0
  /\ pc = [c \in Client |-> "idle"]
  /\ now = [c \in Client |-> 0] /\ ask = [c \in Client |-> 0]
  /\ wakeAt = [c \in Client |-> 0]
  /\ atOnce = 0 /\ granted = 0 /\ lastPass = -1

Tick ==
  /\ clock < MaxClock
  /\ clock' = clock + 1
  /\ UNCHANGED <<tokens, last, pc, now, ask, wakeAt, atOnce, granted, lastPass>>

(* wait(n): the argument time.Now() is evaluated before reserveN locks.    *)
CallWait(c) ==
  /\ pc[c] = "idle"
  /\ pc' = [pc EXCEPT ![c] = "reserve"]
  /\ now' = [now EXCEPT ![c] = clock]
  /\ \E n \in Requests : ask' = [ask EXCEPT ![c] = n]
  /\ UNCHANGED <<clock, tokens, last, wakeAt, atOnce, granted, lastPass>>

(* reserveN: the refill, by the time since last, at most up to the burst.  *)
RefilledAlsoBackwards(t) ==
  LET filled == tokens + (t - last) IN IF filled > Capacity THEN Capacity ELSE filled
Refilled(t) ==
  LET filled == tokens + (IF t < last THEN 0 ELSE t - last)
  IN  IF filled > Capacity THEN Capacity ELSE filled

(* The call returns; its locals are gone.                                  *)
LetThrough(c) ==
  /\ pc' = [pc EXCEPT ![c] = "idle"]
  /\ now' = [now EXCEPT ![c] = 0] /\ ask' = [ask EXCEPT ![c] = 0]
  /\ wakeAt' = [wakeAt EXCEPT ![c] = 0]
  /\ granted' = granted + ask[c] * Period
  /\ lastPass' = clock

(* reserveN, the part after the refill.                                    *)
GrantAtOnce(c) ==
  /\ pc[c] = "reserve"
  /\ Refilled(now[c]) >= ask[c] * Period
  /\ tokens' = Refilled(now[c]) - ask[c] * Period
  /\ last' = now[c]
  /\ atOnce' = atOnce + ask[c] * Period
  /\ LetThrough(c)
  /\ UNCHANGED clock

(* What is in the bucket stays there although it was counted.              *)
MustWaitKeepingTokens(c) ==
  /\ pc[c] = "reserve"
  /\ Refilled(now[c]) < ask[c] * Period
  /\ tokens' = Refilled(now[c])
  /\ last' = now[c]
  /\ wakeAt' = [wakeAt EXCEPT ![c] = clock + ask[c] * Period - Refilled(now[c])]
  /\ pc' = [pc EXCEPT ![c] = "sleep"]
  /\ UNCHANGED <<clock, now, ask, atOnce, granted, lastPass>>
MustWait(c) ==
  /\ pc[c] = "reserve"
  /\ Refilled(now[c]) < ask[c] * Period
  /\ tokens' = 0
  /\ last' = now[c]
  /\ wakeAt' = [wakeAt EXCEPT ![c] = clock + ask[c] * Period - Refilled(now[c])]
  /\ pc' = [pc EXCEPT ![c] = "sleep"]
  /\ UNCHANGED <<clock, now, ask, atOnce, granted, lastPass>>

(* The sleep ends; the bucket is not touched again.                        *)
Wake(c) ==
  /\ pc[c] = "sleep" /\ clock >= wakeAt[c]
  /\ LetThrough(c)
  /\ UNCHANGED <<clock, tokens, last, atOnce>>

Call(c) == CallWait(c) \/ GrantAtOnce(c) \/ MustWait(c) \/ Wake(c)

BoundReached == clock = MaxClock /\ UNCHANGED vars

Next == Tick \/ (\E c \in Client : Call(c)) \/ BoundReached

Spec == Init /\ [][Next]_vars

(* runRateLimitDemo: one client calls wait(1) again and again, and nothing *)
(* but its sleeps, none longer than asked for, takes time.                 *)
AllAsleep == \A c \in Client : pc[c] = "sleep" /\ clock < wakeAt[c]
DemoNext == (AllAsleep /\ Tick) \/ (\E c \in Client : Call(c)) \/ BoundReached

DemoSpec == Init /\ [][DemoNext]_vars

-----------------------------------------------------------------------------

TypeOK ==
  /\ clock \in 0 .. MaxClock /\ last \in 0 .. MaxClock
  /\ tokens \in 0 .. Capacity
  /\ pc \in [Client -> {"idle", "reserve", "sleep"}]
  /\ now \in [Client -> 0 .. MaxClock] /\ ask \in [Client -> Requests \cup {0}]
  /\ wakeAt \in [Client -> Nat]
  /\ atOnce \in Nat /\ granted \in Nat
  /\ lastPass \in -1 .. MaxClock

(* However late a client comes with the time it read, reserveN never makes *)
(* it wait longer than its own tokens take to refill (main.go:96-101).     *)
WaitIsBounded ==
  \A c \in Client : pc[c] = "sleep" => wakeAt[c] <= clock + ask[c] * Period

(* What the bucket lets through in a given time.  Without a wait: the      *)
(* burst, and every refilled tick once for each client, because a client   *)
(* that comes late moves last back and the ticks after it are refilled     *)
(* again.  In all: a tick can count twice for a client, as the wait that   *)
(* it slept and as the refill of the same ticks, which reserveN does not   *)
(* charge to the one who waited (main.go:115-118, 124).                    *)
ThroughputBound ==
  /\ atOnce <= Capacity + Cardinality(Client) * clock
  /\ granted <= Capacity + 2 * Cardinality(Client) * clock

(* main.go:225: the first Burst requests pass at once, every later one a   *)
(* Period after the one before it.  Under DemoSpec, where the client never *)
(* pauses of its own, a bucket that charged the wait would keep to it.     *)
SpacedAfterTheBurst ==
  [][granted' # granted /\ granted >= Capacity => clock - lastPass >= Period]_vars

=============================================================================
