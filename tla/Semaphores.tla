----------------------------- MODULE Semaphores -----------------------------
(***************************************************************************)
(* The concurrency limits of adv022_rate_limiting/main.go: a         *)
(* buffered channel used as a semaphore, the weightedSemaphore built from  *)
(* a mutex and a condition variable, and no limit at all, each used by     *)
(* the jobs of runWithoutLimit, runWithChanSemaphore and                   *)
(* runWithWeightedSemaphore, which keep the highest number of active jobs  *)
(* with the compare-and-swap loop of updateMax.                            *)
(*                                                                         *)
(* A critical section of w.mu is one step.  cond.Wait joins the notify     *)
(* list before it releases the mutex, so going to sleep belongs to the     *)
(* section that found no room, and a woken job rechecks in a section of    *)
(* its own.                                                                *)
(***************************************************************************)
EXTENDS Integers, Sequences, FiniteSetsExt

CONSTANTS
  Job,      (* the jobs, one goroutine each                                *)
  Limit,    (* cap(chan) and w.max                                         *)
  Weight,   (* the weight of each job                                      *)
  Kinds     (* the limits explored: "none", "chan", "weighted"             *)

ASSUME JobAssumption == IsFiniteSet(Job)
ASSUME LimitAssumption == Limit \in Nat \ {0}
ASSUME WeightAssumption == Weight \in [Job -> Nat \ {0}]
ASSUME KindsAssumption == Kinds \subseteq {"none", "chan", "weighted"}

VARIABLES
  kind,     (* the limit of this run                                       *)
  cur,      (* len(s) of the channel, w.cur of the weighted semaphore      *)
  sendq,    (* the senders blocked on the full channel, oldest first       *)
  pc,       (* where each job is                                           *)
  active,   (* the counter active                                          *)
  max,      (* the counter max                                             *)
  mine,     (* what AddInt64(&active, 1) returned to each job              *)
  old       (* what each job read of max in updateMax                      *)

semVars == <<cur, sendq>>
countVars == <<active, max, mine, old>>
vars == <<kind, semVars, pc, countVars>>

PC == {"new", "blocked", "waiting", "woken", "holding", "load", "cas", "busy", "leaving",
       "done"}

Waiting == {j \in Job : pc[j] = "waiting"}
Inside == {"holding", "load", "cas", "busy", "leaving"}
Holders == {j \in Job : pc[j] \in Inside}
Goto(j, label) == pc' = [pc EXCEPT ![j] = label]

Init ==
  /\ kind \in Kinds
  /\ cur = 0 /\ sendq = <<>>
  /\ pc = [j \in Job |-> "new"]
  /\ active = 0 /\ max = 0
  /\ mine = [j \in Job |-> 0] /\ old = [j \in Job |-> 0]

-----------------------------------------------------------------------------
(* No limit.                                                               *)

Enter(j) ==
  /\ kind = "none" /\ pc[j] = "new"
  /\ Goto(j, "holding")
  /\ UNCHANGED <<kind, semVars, countVars>>

Leave(j) ==
  /\ kind = "none" /\ pc[j] = "leaving"
  /\ Goto(j, "done")
  /\ UNCHANGED <<kind, semVars, countVars>>

(* chanSemaphore: every job takes one slot, whatever its weight.  A        *)
(* receive hands the slot it frees to the oldest blocked sender.           *)

Send(j) ==
  /\ kind = "chan" /\ pc[j] = "new"
  /\ cur < Limit
  /\ cur' = cur + 1
  /\ Goto(j, "holding")
  /\ UNCHANGED <<kind, sendq, countVars>>

SendBlocks(j) ==
  /\ kind = "chan" /\ pc[j] = "new"
  /\ cur = Limit
  /\ sendq' = Append(sendq, j)
  /\ Goto(j, "blocked")
  /\ UNCHANGED <<kind, cur, countVars>>

(* The sender is only made runnable, and has to send again.                *)
ReceiveWithoutHandOff(j) ==
  /\ kind = "chan" /\ pc[j] = "leaving"
  /\ cur' = cur - 1
  /\ IF sendq = <<>>
     THEN Goto(j, "done") /\ UNCHANGED sendq
     ELSE /\ pc' = [pc EXCEPT ![j] = "done", ![Head(sendq)] = "new"]
          /\ sendq' = Tail(sendq)
  /\ UNCHANGED <<kind, countVars>>
(* The slot goes to the sender that blocked last.                          *)
ReceiveNewestFirst(j) ==
  /\ kind = "chan" /\ pc[j] = "leaving"
  /\ IF sendq = <<>>
     THEN cur' = cur - 1 /\ Goto(j, "done") /\ UNCHANGED sendq
     ELSE /\ pc' = [pc EXCEPT ![j] = "done", ![sendq[Len(sendq)]] = "holding"]
          /\ sendq' = SubSeq(sendq, 1, Len(sendq) - 1)
          /\ UNCHANGED cur
  /\ UNCHANGED <<kind, countVars>>
Receive(j) ==
  /\ kind = "chan" /\ pc[j] = "leaving"
  /\ IF sendq = <<>>
     THEN cur' = cur - 1 /\ Goto(j, "done") /\ UNCHANGED sendq
     ELSE /\ pc' = [pc EXCEPT ![j] = "done", ![Head(sendq)] = "holding"]
          /\ sendq' = Tail(sendq)
          /\ UNCHANGED cur
  /\ UNCHANGED <<kind, countVars>>

-----------------------------------------------------------------------------
(* weightedSemaphore                                                       *)

Fits(j) == cur + Weight[j] <= Limit

AcquireIgnoringRest(j) ==
  /\ kind = "weighted" /\ pc[j] \in {"new", "woken"}
  /\ Fits(j) \/ pc[j] = "woken"
  /\ cur' = cur + Weight[j]
  /\ Goto(j, "holding")
  /\ UNCHANGED <<kind, sendq, countVars>>
Acquire(j) ==
  /\ kind = "weighted" /\ pc[j] \in {"new", "woken"}
  /\ Fits(j)
  /\ cur' = cur + Weight[j]
  /\ Goto(j, "holding")
  /\ UNCHANGED <<kind, sendq, countVars>>

Wait(j) ==
  /\ kind = "weighted" /\ pc[j] \in {"new", "woken"}
  /\ ~Fits(j)
  /\ Goto(j, "waiting")
  /\ UNCHANGED <<kind, semVars, countVars>>

Signalled(j) ==
  IF Waiting = {}
  THEN Goto(j, "done")
  ELSE \E w \in Waiting : pc' = [pc EXCEPT ![j] = "done", ![w] = "woken"]
Broadcast(j) ==
  pc' = [i \in Job |-> IF i = j THEN "done"
                       ELSE IF i \in Waiting THEN "woken" ELSE pc[i]]

Release(j) ==
  /\ kind = "weighted" /\ pc[j] = "leaving"
  /\ cur' = cur - Weight[j]
  /\ Broadcast(j)
  /\ UNCHANGED <<kind, sendq, countVars>>

-----------------------------------------------------------------------------
(* The body of a job; the deferred release runs after active was lowered.  *)

CountIn(j) ==
  /\ pc[j] = "holding"
  /\ active' = active + 1
  /\ mine' = [mine EXCEPT ![j] = active']
  /\ Goto(j, "load")
  /\ UNCHANGED <<kind, semVars, max, old>>

(* updateMax                                                               *)
Load(j) ==
  /\ pc[j] = "load"
  /\ old' = [old EXCEPT ![j] = max]
  /\ Goto(j, IF mine[j] <= max THEN "busy" ELSE "cas")
  /\ UNCHANGED <<kind, semVars, active, max, mine>>

CompareAndSwapBlindly(j) ==
  /\ pc[j] = "cas"
  /\ max' = mine[j]
  /\ Goto(j, "busy")
  /\ UNCHANGED <<kind, semVars, active, mine, old>>
CompareAndSwap(j) ==
  /\ pc[j] = "cas"
  /\ IF max = old[j]
     THEN max' = mine[j] /\ Goto(j, "busy")
     ELSE UNCHANGED max /\ Goto(j, "load")
  /\ UNCHANGED <<kind, semVars, active, mine, old>>

CountOut(j) ==
  /\ pc[j] = "busy"
  /\ active' = active - 1
  /\ Goto(j, "leaving")
  /\ UNCHANGED <<kind, semVars, max, mine, old>>

(* wg.Wait returns.                                                        *)
AllDone == (\A j \in Job : pc[j] = "done") /\ UNCHANGED vars

(* Jobs that ask for more than w.max sleep forever, and wg.Wait with them. *)
Stuck ==
  /\ \A j \in Job : pc[j] = "done" \/ (pc[j] = "waiting" /\ Weight[j] > Limit)
  /\ UNCHANGED vars

Step(j) ==
  \/ Enter(j) \/ Leave(j) \/ Send(j) \/ SendBlocks(j) \/ Receive(j)
  \/ Acquire(j) \/ Wait(j) \/ Release(j)
  \/ CountIn(j) \/ Load(j) \/ CompareAndSwap(j) \/ CountOut(j)

Next == (\E j \in Job : Step(j)) \/ AllDone \/ Stuck

Spec == Init /\ [][Next]_vars

(* Every goroutine that can run is run.                                    *)
FairSpec == Spec /\ \A j \in Job : WF_vars(Step(j))

-----------------------------------------------------------------------------

(* That cur is never negative is part of CapacityAccounted.                *)
TypeOK ==
  /\ cur \in Int
  /\ sendq \in Seq(Job)
  /\ pc \in [Job -> PC]
  /\ active \in Int /\ max \in Int
  /\ mine \in [Job -> Int] /\ old \in [Job -> Int]

(* No wake-up is lost: whoever sleeps in cond.Wait would still not fit.    *)
(* A release that woke fewer jobs than it made room for would break it     *)
(* (main.go:48-67).                                                        *)
SleepersDoNotFit == \A j \in Waiting : ~Fits(j)

(* The capacity is never exceeded and all of it is accounted for by jobs   *)
(* that hold it, in particular when several woken jobs race for the room   *)
(* one release made.                                                       *)
HeldBy(j) == IF kind = "weighted" THEN Weight[j] ELSE 1
CapacityAccounted ==
  kind # "none" => cur = MapThenSumSet(HeldBy, Holders) /\ cur <= Limit

(* The maximum reported after wg.Wait is at least every count a job saw,   *)
(* and is one of them: no update is lost in the race of updateMax, and     *)
(* under a limit it is at most the limit (main_test.go:35, 65).            *)
MaxIsThePeak ==
  (\A j \in Job : pc[j] = "done") =>
    /\ \A j \in Job : mine[j] <= max
    /\ Job # {} => \E j \in Job : mine[j] = max
    /\ kind # "none" => max <= Limit

(* The counter max never falls (main.go:131-139).                          *)
MaxNeverFalls == [][max' >= max]_max

(* The channel is first come, first served.  Whoever takes a slot past a   *)
(* sender that stays blocked stands before it in sendq, so that a hand-off *)
(* to any but the oldest, or a newcomer that slips in, is ruled out; who   *)
(* blocks later stands behind, and nobody changes places while both wait   *)
(* (main.go:11-13, 25-29).                                                 *)
Ahead(i, j) == \E k, l \in DOMAIN sendq : k < l /\ sendq[k] = i /\ sendq[l] = j
NoOvertaking ==
  [][\A i, j \in Job :
       pc[i] = "blocked" /\ pc'[i] = "blocked" =>
         /\ pc[j] # "holding" /\ pc'[j] = "holding" => Ahead(j, i)
         /\ pc[j] # "blocked" /\ pc'[j] = "blocked" => Ahead(i, j)'
         /\ Ahead(i, j) /\ pc'[j] = "blocked" => Ahead(i, j)']_<<pc, sendq>>

(* Every job whose weight fits in the semaphore at all gets its turn, also *)
(* beside jobs that never will.                                            *)
EveryFittingJobFinishes ==
  \A j \in Job : (kind = "weighted" => Weight[j] <= Limit) => <>(pc[j] = "done")

=============================================================================
