-------------------------- MODULE SemaphoresProofs --------------------------
(***************************************************************************)
(* Proofs about Semaphores for every set of jobs, limit and weights: no    *)
(* wake-up of the weighted semaphore is lost, the channel semaphore is     *)
(* first come first served, and updateMax never lowers the maximum.        *)
(***************************************************************************)
EXTENDS Semaphores, FiniteSetTheorems, SequenceTheorems, WellFoundedInduction, TLAPS

(* A job in front of the compare-and-swap saw a smaller maximum.           *)
CasRaises == \A j \in Job : pc[j] = "cas" => old[j] < mine[j]

(* Every blocked sender is in the queue, and while one is blocked the      *)
(* channel is full.                                                        *)
Blocked == {j \in Job : pc[j] = "blocked"}
QueueHoldsBlocked == \A j \in Blocked : \E i \in 1 .. Len(sendq) : sendq[i] = j
FullWhileBlocked == Blocked # {} => kind = "chan" /\ cur = Limit

(* The queue holds blocked senders only, each of them once.                *)
QueueIsBlocked ==
  /\ \A k \in 1 .. Len(sendq) : pc[sendq[k]] = "blocked"
  /\ \A k, l \in 1 .. Len(sendq) : sendq[k] = sendq[l] => k = l

(* Only the weighted semaphore puts jobs to sleep.                         *)
SleepIsWeighted == (\E j \in Job : pc[j] \in {"waiting", "woken"}) => kind = "weighted"

IInv == TypeOK /\ CasRaises /\ QueueHoldsBlocked /\ QueueIsBlocked /\ FullWhileBlocked
          /\ SleepIsWeighted /\ SleepersDoNotFit

USE LimitAssumption, WeightAssumption, KindsAssumption

(* The initial state.                                                      *)
LEMMA InitInv == Init => IInv
BY DEF Init, IInv, TypeOK, CasRaises, QueueHoldsBlocked, QueueIsBlocked, FullWhileBlocked,
       SleepIsWeighted, SleepersDoNotFit, Blocked, Waiting, PC

(* The steps of a job keep the types.                                      *)
LEMMA StepTypes == ASSUME TypeOK, NEW j \in Job, Step(j) PROVE TypeOK'
<1>1. CASE Enter(j) BY <1>1 DEF Enter, TypeOK, PC, Goto, semVars, countVars
<1>2. CASE Leave(j) BY <1>2 DEF Leave, TypeOK, PC, Goto, semVars, countVars
<1>3. CASE Send(j) BY <1>3 DEF Send, TypeOK, PC, Goto, countVars
<1>4. CASE SendBlocks(j) BY <1>4 DEF SendBlocks, TypeOK, PC, Goto, countVars
<1>5. CASE Receive(j)
  <2>1. CASE sendq = <<>>
    <3>1. sendq' = sendq /\ cur' = cur - 1 /\ Goto(j, "done") /\ UNCHANGED countVars
      BY <1>5, <2>1 DEF Receive
    <3> QED BY <3>1 DEF TypeOK, PC, Goto, countVars
  <2>2. CASE sendq # <<>>
    <3>1. Tail(sendq) \in Seq(Job) BY <2>2 DEF TypeOK
    <3> QED BY <1>5, <2>2, <3>1 DEF Receive, TypeOK, PC, Goto, countVars
  <2> QED BY <2>1, <2>2
<1>6. CASE Acquire(j) BY <1>6 DEF Acquire, TypeOK, PC, Goto, countVars
<1>7. CASE Wait(j) BY <1>7 DEF Wait, TypeOK, PC, Goto, semVars, countVars
<1>8. CASE Release(j) BY <1>8 DEF Release, Broadcast, TypeOK, PC, countVars
<1>9. CASE CountIn(j) BY <1>9 DEF CountIn, TypeOK, PC, Goto, semVars
<1>10. CASE Load(j) BY <1>10 DEF Load, TypeOK, PC, Goto, semVars
<1>11. CASE CompareAndSwap(j)
  <2>1. max' \in Int BY <1>11 DEF CompareAndSwap, TypeOK
  <2>2. pc' \in [Job -> PC] BY <1>11 DEF CompareAndSwap, TypeOK, PC, Goto
  <2> QED BY <1>11, <2>1, <2>2 DEF CompareAndSwap, TypeOK, semVars
<1>12. CASE CountOut(j) BY <1>12 DEF CountOut, TypeOK, PC, Goto, semVars
<1> QED BY <1>1, <1>2, <1>3, <1>4, <1>5, <1>6, <1>7, <1>8, <1>9, <1>10, <1>11, <1>12 DEF Step

(* CasRaises: only Load puts a job in front of the compare-and-swap.       *)
LEMMA StepCas == ASSUME IInv, NEW j \in Job, Step(j) PROVE CasRaises'
<1> USE DEF IInv, TypeOK, PC, CasRaises
<1>1. CASE Enter(j) BY <1>1 DEF Enter, Goto, semVars, countVars
<1>2. CASE Leave(j) BY <1>2 DEF Leave, Goto, semVars, countVars
<1>3. CASE Send(j) BY <1>3 DEF Send, Goto, countVars
<1>4. CASE SendBlocks(j) BY <1>4 DEF SendBlocks, Goto, countVars
<1>5. CASE Receive(j) BY <1>5 DEF Receive, Goto, countVars
<1>6. CASE Acquire(j) BY <1>6 DEF Acquire, Goto, countVars
<1>7. CASE Wait(j) BY <1>7 DEF Wait, Goto, semVars, countVars
<1>8. CASE Release(j) BY <1>8 DEF Release, Broadcast, Waiting, countVars
<1>9. CASE CountIn(j) BY <1>9 DEF CountIn, Goto, semVars
<1>10. CASE Load(j) BY <1>10 DEF Load, Goto, semVars
<1>11. CASE CompareAndSwap(j) BY <1>11 DEF CompareAndSwap, Goto, semVars
<1>12. CASE CountOut(j) BY <1>12 DEF CountOut, Goto, semVars
<1> QED BY <1>1, <1>2, <1>3, <1>4, <1>5, <1>6, <1>7, <1>8, <1>9, <1>10, <1>11, <1>12 DEF Step

(* The steps that neither block, wake nor move capacity.                   *)
LEMMA QuietSteps ==
  ASSUME IInv, NEW j \in Job,
         Enter(j) \/ Leave(j) \/ CountIn(j) \/ Load(j) \/ CompareAndSwap(j) \/ CountOut(j)
  PROVE  /\ Blocked' = Blocked /\ Waiting' = Waiting
         /\ UNCHANGED <<kind, cur, sendq>>
         /\ \A i \in Job : pc'[i] \in {"waiting", "woken"} => pc[i] \in {"waiting", "woken"}
BY DEF IInv, TypeOK, PC, Blocked, Waiting, Enter, Leave, CountIn, Load, CompareAndSwap, CountOut,
       Goto, semVars, countVars

(* A receive either frees the slot, when nobody is blocked, or hands it to *)
(* the oldest blocked sender.                                              *)
LEMMA ReceiveCases ==
  ASSUME IInv, NEW j \in Job, Receive(j)
  PROVE  /\ kind = "chan" /\ kind' = kind
         /\ \/ Blocked' = {} /\ cur' = cur - 1 /\ sendq' = sendq
            \/ /\ Blocked' \subseteq Blocked \ {sendq[1]}
               /\ sendq # <<>> /\ sendq' = Tail(sendq) /\ cur' = cur
<1> USE DEF IInv, TypeOK
<1>1. CASE sendq = <<>>
  <2>1. sendq' = sendq /\ cur' = cur - 1 /\ Goto(j, "done") BY <1>1 DEF Receive
  <2>2. Len(sendq) = 0 BY <1>1
  <2>3. Blocked = {} BY <2>2 DEF QueueHoldsBlocked
  <2>4. Blocked' = {} BY <2>1, <2>3 DEF Blocked, Goto
  <2> QED BY <2>1, <2>4 DEF Receive
<1>2. CASE sendq # <<>>
  <2>1. /\ pc' = [pc EXCEPT ![j] = "done", ![Head(sendq)] = "holding"]
        /\ sendq' = Tail(sendq) /\ cur' = cur
    BY <1>2 DEF Receive
  <2>2. Head(sendq) = sendq[1] /\ Head(sendq) \in Job BY <1>2
  <2>3. Blocked' \subseteq Blocked \ {sendq[1]} BY <2>1, <2>2 DEF Blocked
  <2> QED BY <1>2, <2>1, <2>3 DEF Receive
<1> QED BY <1>1, <1>2

(* A blocked sender stays in the queue until a receive takes it out.       *)
LEMMA StepQueue == ASSUME IInv, NEW j \in Job, Step(j) PROVE QueueHoldsBlocked'
<1> USE DEF IInv
<1>1. CASE Enter(j) \/ Leave(j) \/ CountIn(j) \/ Load(j) \/ CompareAndSwap(j) \/ CountOut(j)
  BY <1>1, QuietSteps DEF QueueHoldsBlocked
<1>2. CASE Send(j) \/ Acquire(j) \/ Wait(j) \/ Release(j)
  <2>1. sendq' = sendq /\ Blocked' \subseteq Blocked
    BY <1>2 DEF Send, Acquire, Wait, Release, Broadcast, Goto, Blocked, Waiting, TypeOK, semVars
  <2> QED BY <2>1 DEF QueueHoldsBlocked
<1>3. CASE SendBlocks(j)
  <2>1. sendq' = Append(sendq, j) /\ Blocked' \subseteq Blocked \cup {j}
    BY <1>3 DEF SendBlocks, Goto, Blocked, TypeOK
  <2>2. Len(sendq') = Len(sendq) + 1 /\ sendq'[Len(sendq) + 1] = j
    BY <2>1 DEF TypeOK
  <2>3. \A i \in 1 .. Len(sendq) : sendq'[i] = sendq[i]
    BY <2>1 DEF TypeOK
  <2>4. Len(sendq) \in Nat BY DEF TypeOK
  <2> QED BY <2>1, <2>2, <2>3, <2>4 DEF QueueHoldsBlocked
<1>4. CASE Receive(j)
  <2>1. CASE Blocked' = {} BY <2>1 DEF QueueHoldsBlocked
  <2>2. CASE /\ Blocked' \subseteq Blocked \ {sendq[1]}
             /\ sendq # <<>> /\ sendq' = Tail(sendq)
    <3> SUFFICES ASSUME NEW b \in Blocked'
                 PROVE  \E i \in 1 .. Len(sendq') : sendq'[i] = b
      BY DEF QueueHoldsBlocked
    <3>1. PICK i \in 1 .. Len(sendq) : sendq[i] = b BY <2>2 DEF QueueHoldsBlocked
    <3>2. i # 1 BY <2>2, <3>1
    <3>3. Len(sendq') = Len(sendq) - 1 /\ \A k \in 1 .. Len(sendq') : sendq'[k] = sendq[k + 1]
      BY <2>2 DEF TypeOK
    <3>4. Len(sendq) \in Nat BY DEF TypeOK
    <3>5. i - 1 \in 1 .. Len(sendq') BY <3>2, <3>3, <3>4
    <3>6. sendq'[i - 1] = b BY <3>1, <3>3, <3>5
    <3> QED BY <3>5, <3>6
  <2> QED BY <1>4, <2>1, <2>2, ReceiveCases
<1> QED BY <1>1, <1>2, <1>3, <1>4 DEF Step

(* A sender joins the queue once, when it blocks, and leaves it with its   *)
(* slot.                                                                   *)
LEMMA StepBlocked == ASSUME IInv, NEW j \in Job, Step(j) PROVE QueueIsBlocked'
<1> USE DEF IInv, TypeOK
<1>0. \A k \in 1 .. Len(sendq) : sendq[k] \in Job OBVIOUS
<1>1. CASE Enter(j) \/ Leave(j) \/ CountIn(j) \/ Load(j) \/ CompareAndSwap(j) \/ CountOut(j)
  <2>1. \A i \in Job : pc[i] = "blocked" => pc'[i] = "blocked"
    BY <1>1, QuietSteps DEF Blocked
  <2>2. sendq' = sendq BY <1>1, QuietSteps
  <2> QED BY <1>0, <2>1, <2>2 DEF QueueIsBlocked
<1>2. CASE Send(j) \/ Acquire(j) \/ Wait(j) \/ Release(j)
  <2>1. sendq' = sendq /\ \A i \in Job : pc[i] = "blocked" => pc'[i] = "blocked"
    BY <1>2 DEF Send, Acquire, Wait, Release, Broadcast, Goto, Waiting, semVars
  <2> QED BY <1>0, <2>1 DEF QueueIsBlocked
<1>3. CASE SendBlocks(j)
  <2>1. sendq' = Append(sendq, j) /\ pc[j] = "new" /\ pc' = [pc EXCEPT ![j] = "blocked"]
    BY <1>3 DEF SendBlocks, Goto
  <2>2. Len(sendq') = Len(sendq) + 1 /\ sendq'[Len(sendq) + 1] = j
    BY <2>1
  <2>3. \A i \in 1 .. Len(sendq) : sendq'[i] = sendq[i] /\ sendq[i] # j
    BY <2>1 DEF QueueIsBlocked
  <2>4. Len(sendq) \in Nat OBVIOUS
  <2>5. \A k \in 1 .. Len(sendq') : pc'[sendq'[k]] = "blocked"
    <3>1. \A k \in 1 .. Len(sendq') : k \in 1 .. Len(sendq) \/ k = Len(sendq) + 1
      BY <2>2, <2>4
    <3>2. \A k \in 1 .. Len(sendq) : pc[sendq[k]] = "blocked" BY DEF QueueIsBlocked
    <3>3. \A k \in 1 .. Len(sendq) : pc'[sendq'[k]] = "blocked"
      BY <1>0, <2>1, <2>3, <3>2
    <3>4. pc'[j] = "blocked" BY <2>1
    <3> QED BY <2>2, <3>1, <3>3, <3>4
  <2>6. \A k, l \in 1 .. Len(sendq') : sendq'[k] = sendq'[l] => k = l
    <3>1. \A k \in 1 .. Len(sendq') : k \in 1 .. Len(sendq) \/ k = Len(sendq) + 1
      BY <2>2, <2>4
    <3>2. \A k, l \in 1 .. Len(sendq) : sendq[k] = sendq[l] => k = l
      BY DEF QueueIsBlocked
    <3> QED BY <2>2, <2>3, <3>1, <3>2
  <2> QED BY <2>5, <2>6 DEF QueueIsBlocked
<1>4. CASE Receive(j)
  <2>1. CASE sendq = <<>>
    <3>1. sendq' = sendq BY <1>4, <2>1 DEF Receive
    <3>2. Len(sendq) = 0 BY <2>1
    <3> QED BY <3>1, <3>2 DEF QueueIsBlocked
  <2>2. CASE sendq # <<>>
    <3>1. /\ pc' = [pc EXCEPT ![j] = "done", ![Head(sendq)] = "holding"]
          /\ sendq' = Tail(sendq) /\ pc[j] = "leaving"
      BY <1>4, <2>2 DEF Receive
    <3>2. Len(sendq') = Len(sendq) - 1 /\ \A k \in 1 .. Len(sendq') : sendq'[k] = sendq[k + 1]
      BY <2>2, <3>1
    <3>3. Head(sendq) = sendq[1] /\ Len(sendq) \in Nat /\ Len(sendq) > 0 BY <2>2
    <3>4. \A k \in 1 .. Len(sendq') : k + 1 \in 1 .. Len(sendq) /\ k + 1 # 1 /\ 1 \in 1 .. Len(sendq)
      <4> HIDE DEF TypeOK, QueueHoldsBlocked, QueueIsBlocked
      <4>1. Len(sendq') = Len(sendq) - 1 BY <3>2
      <4>2. Len(sendq) \in Nat /\ Len(sendq) > 0 BY <3>3
      <4> QED BY <4>1, <4>2
    <3>5. \A k \in 1 .. Len(sendq') : pc'[sendq'[k]] = "blocked"
      <4> SUFFICES ASSUME NEW k \in 1 .. Len(sendq') PROVE pc'[sendq'[k]] = "blocked"
        OBVIOUS
      <4>1. pc[sendq[k + 1]] = "blocked" BY <3>4 DEF QueueIsBlocked
      <4>2. sendq[k + 1] # sendq[1] BY <3>4 DEF QueueIsBlocked
      <4>3. sendq[k + 1] # j BY <3>1, <4>1
      <4>4. sendq'[k] = sendq[k + 1] /\ sendq[k + 1] \in Job BY <1>0, <3>2, <3>4
      <4> QED BY <3>1, <3>3, <4>1, <4>2, <4>3, <4>4
    <3>6. \A k, l \in 1 .. Len(sendq') : sendq'[k] = sendq'[l] => k = l
      <4> SUFFICES ASSUME NEW k \in 1 .. Len(sendq'), NEW l \in 1 .. Len(sendq'),
                          sendq'[k] = sendq'[l]
                   PROVE  k = l
        OBVIOUS
      <4>1. sendq[k + 1] = sendq[l + 1] BY <3>2
      <4>2. k + 1 = l + 1 BY <3>4, <4>1 DEF QueueIsBlocked
      <4> QED BY <4>2
    <3> QED BY <3>5, <3>6 DEF QueueIsBlocked
  <2> QED BY <2>1, <2>2
<1> QED BY <1>1, <1>2, <1>3, <1>4 DEF Step

(* The channel stays full until the last blocked sender has its slot.      *)
LEMMA StepFull == ASSUME IInv, NEW j \in Job, Step(j) PROVE FullWhileBlocked'
<1> USE DEF IInv
<1>1. CASE Enter(j) \/ Leave(j) \/ CountIn(j) \/ Load(j) \/ CompareAndSwap(j) \/ CountOut(j)
  BY <1>1, QuietSteps DEF FullWhileBlocked
<1>2. CASE Send(j)
  BY <1>2 DEF Send, Goto, Blocked, FullWhileBlocked, TypeOK
<1>3. CASE SendBlocks(j) BY <1>3 DEF SendBlocks, Goto, Blocked, FullWhileBlocked, TypeOK
<1>4. CASE Receive(j) BY <1>4, ReceiveCases DEF FullWhileBlocked
<1>5. CASE Acquire(j) \/ Wait(j) \/ Release(j)
  <2>1. Blocked = {} BY <1>5 DEF Acquire, Wait, Release, FullWhileBlocked
  <2>2. Blocked' = {}
    BY <1>5, <2>1 DEF Acquire, Wait, Release, Broadcast, Goto, Blocked, Waiting, TypeOK
  <2> QED BY <2>2 DEF FullWhileBlocked
<1> QED BY <1>1, <1>2, <1>3, <1>4, <1>5 DEF Step

(* Sleepers: an acquire leaves less room, a release wakes all of them.     *)
LEMMA StepSleep ==
  ASSUME IInv, NEW j \in Job, Step(j) PROVE SleepIsWeighted' /\ SleepersDoNotFit'
<1> USE DEF IInv
<1>1. CASE Enter(j) \/ Leave(j) \/ CountIn(j) \/ Load(j) \/ CompareAndSwap(j) \/ CountOut(j)
  BY <1>1, QuietSteps DEF SleepIsWeighted, SleepersDoNotFit, Fits
<1>2. CASE Send(j) \/ SendBlocks(j) \/ Receive(j)
  <2>1. kind = "chan" /\ kind' = kind BY <1>2 DEF Send, SendBlocks, Receive
  <2>2. \A i \in Job : pc[i] \notin {"waiting", "woken"} BY <2>1 DEF SleepIsWeighted
  <2>3. \A i \in Job : pc'[i] \notin {"waiting", "woken"}
    <3>1. CASE Send(j) \/ SendBlocks(j)
      BY <2>2, <3>1 DEF Send, SendBlocks, Goto, TypeOK
    <3>2. CASE Receive(j)
      <4>1. CASE sendq = <<>>
        <5>1. Goto(j, "done") BY <3>2, <4>1 DEF Receive
        <5> QED BY <2>2, <5>1 DEF Goto, TypeOK
      <4>2. CASE sendq # <<>>
        <5>1. pc' = [pc EXCEPT ![j] = "done", ![Head(sendq)] = "holding"]
          BY <3>2, <4>2 DEF Receive
        <5> QED BY <2>2, <5>1 DEF TypeOK
      <4> QED BY <4>1, <4>2
    <3> QED BY <1>2, <3>1, <3>2
  <2> QED BY <2>3 DEF SleepIsWeighted, SleepersDoNotFit, Waiting
<1>3. CASE Acquire(j)
  (* The room only shrinks, so the sleepers still do not fit.              *)
  <2>1. cur' = cur + Weight[j] /\ Waiting' \subseteq Waiting
    BY <1>3 DEF Acquire, Goto, Waiting, TypeOK
  <2>2. SleepersDoNotFit' BY <2>1 DEF SleepersDoNotFit, Fits, TypeOK, Waiting
  <2> QED BY <1>3, <2>2 DEF Acquire, Goto, SleepIsWeighted, TypeOK
<1>4. CASE Wait(j)
  BY <1>4 DEF Wait, Goto, SleepIsWeighted, SleepersDoNotFit, Waiting, Fits, TypeOK, semVars
<1>5. CASE Release(j)
  (* Nobody sleeps after a broadcast.                                      *)
  <2>1. Waiting' = {} BY <1>5 DEF Release, Broadcast, Waiting, TypeOK
  <2> QED BY <1>5, <2>1 DEF Release, SleepIsWeighted, SleepersDoNotFit
<1> QED BY <1>1, <1>2, <1>3, <1>4, <1>5 DEF Step

(* IInv is inductive.                                                      *)
THEOREM InductiveInvariant == Spec => []IInv
<1>1. ASSUME IInv, [Next]_vars PROVE IInv'
  <2>1. CASE \E j \in Job : Step(j)
    BY <1>1, <2>1, StepTypes, StepCas, StepQueue, StepBlocked, StepFull, StepSleep DEF IInv
  <2>2. CASE UNCHANGED vars
    BY <1>1, <2>2 DEF vars, semVars, countVars, IInv, TypeOK, CasRaises, QueueHoldsBlocked,
       QueueIsBlocked, FullWhileBlocked, SleepIsWeighted, SleepersDoNotFit, Blocked, Waiting, Fits
  <2> QED BY <1>1, <2>1, <2>2 DEF Next, AllDone, Stuck
<1> QED BY InitInv, <1>1, PTL DEF Spec

(* No wake-up of weightedSemaphore is lost, for any weights and limit.     *)
THEOREM NoLostWakeup == Spec => []SleepersDoNotFit
BY InductiveInvariant, PTL DEF IInv

(* updateMax only raises the maximum, however the compare-and-swap loops   *)
(* of the jobs interleave.                                                 *)
THEOREM MaximumIsMonotone == Spec => MaxNeverFalls
<1>1. ASSUME IInv, [Next]_vars PROVE [max' >= max]_max
  <2>1. ASSUME NEW j \in Job, CompareAndSwap(j) PROVE max' >= max
    BY <1>1, <2>1 DEF CompareAndSwap, IInv, TypeOK, CasRaises
  <2>2. ASSUME NEW j \in Job, Step(j), ~CompareAndSwap(j) PROVE max' = max
    BY <2>2 DEF Step, Enter, Leave, Send, SendBlocks, Receive, Acquire, Wait, Release, CountIn,
       Load, CountOut, countVars
  <2>3. CASE UNCHANGED vars BY <2>3 DEF vars, countVars
  <2> QED BY <1>1, <2>1, <2>2, <2>3 DEF Next, AllDone, Stuck
<1> QED BY InductiveInvariant, <1>1, PTL DEF Spec, MaxNeverFalls

(* Every blocked sender has a place in the queue.                          *)
LEMMA Places ==
  ASSUME IInv, NEW i \in Job, pc[i] = "blocked"
  PROVE  \E l \in DOMAIN sendq : sendq[l] = i
<1>1. sendq \in Seq(Job) /\ QueueHoldsBlocked BY DEF IInv, TypeOK
<1>2. DOMAIN sendq = 1 .. Len(sendq) BY <1>1
<1> QED BY <1>1, <1>2 DEF QueueHoldsBlocked, Blocked

(* An element that is appended comes last, and the others stay.            *)
LEMMA AtTheEnd ==
  ASSUME NEW S, NEW s \in Seq(S), NEW e \in S
  PROVE  /\ Len(s) \in Nat /\ DOMAIN s = 1 .. Len(s)
         /\ DOMAIN Append(s, e) = 1 .. Len(s) + 1
         /\ Append(s, e)[Len(s) + 1] = e
         /\ \A l \in 1 .. Len(s) : Append(s, e)[l] = s[l]
<1>1. Len(s) \in Nat /\ DOMAIN s = 1 .. Len(s) OBVIOUS
<1>2. Append(s, e) \in Seq(S) /\ Len(Append(s, e)) = Len(s) + 1 OBVIOUS
<1>3. DOMAIN Append(s, e) = 1 .. Len(s) + 1 BY <1>1, <1>2
<1>4. Append(s, e)[Len(s) + 1] = e OBVIOUS
<1>5. \A l \in 1 .. Len(s) : Append(s, e)[l] = s[l] OBVIOUS
<1> QED BY <1>1, <1>3, <1>4, <1>5

(* A job that blocks takes the last place.                                 *)
LEMMA BlocksLast ==
  ASSUME IInv, NEW k \in Job, SendBlocks(k), NEW i \in Job, pc[i] = "blocked"
  PROVE  Ahead(i, k)' /\ \A j \in Job : Ahead(i, j) => Ahead(i, j)'
<1> USE DEF IInv, TypeOK
<1>1. sendq' = Append(sendq, k) /\ sendq \in Seq(Job) BY DEF SendBlocks
<1>2. /\ DOMAIN sendq' = 1 .. Len(sendq) + 1 /\ DOMAIN sendq = 1 .. Len(sendq)
      /\ sendq'[Len(sendq) + 1] = k
      /\ \A l \in DOMAIN sendq : sendq'[l] = sendq[l]
  <2> HIDE DEF IInv, TypeOK
  <2> QED BY <1>1, AtTheEnd
<1>3. Len(sendq) \in Nat BY <1>1, AtTheEnd
<1>4. PICK l \in DOMAIN sendq : sendq[l] = i BY Places
<1>5. Ahead(i, k)'
  <2>1. l < Len(sendq) + 1 /\ l \in DOMAIN sendq' /\ Len(sendq) + 1 \in DOMAIN sendq'
    BY <1>2, <1>3, <1>4
  <2> QED BY <1>2, <1>4, <2>1 DEF Ahead
<1>6. ASSUME NEW j \in Job, Ahead(i, j) PROVE Ahead(i, j)'
  <2>1. PICK m, n \in DOMAIN sendq : m < n /\ sendq[m] = i /\ sendq[n] = j BY <1>6 DEF Ahead
  <2>2. m \in DOMAIN sendq' /\ n \in DOMAIN sendq' BY <1>2, <1>3, <2>1
  <2> QED BY <1>2, <2>1, <2>2 DEF Ahead
<1> QED BY <1>5, <1>6

(* The rest of a queue keeps its order when the first leaves.              *)
LEMMA MovesUp ==
  ASSUME NEW S, NEW s \in Seq(S), s # <<>>,
         NEW m \in DOMAIN s, NEW n \in DOMAIN s, m # 1, m < n
  PROVE  /\ m - 1 \in DOMAIN Tail(s) /\ n - 1 \in DOMAIN Tail(s) /\ m - 1 < n - 1
         /\ Tail(s)[m - 1] = s[m] /\ Tail(s)[n - 1] = s[n]
<1>1. Len(Tail(s)) = Len(s) - 1 /\ Len(s) \in Nat /\ DOMAIN s = 1 .. Len(s) OBVIOUS
<1>2. Tail(s) \in Seq(S) OBVIOUS
<1>3. DOMAIN Tail(s) = 1 .. Len(s) - 1 BY <1>1, <1>2
<1>4. \A o \in 1 .. Len(s) - 1 : Tail(s)[o] = s[o + 1] OBVIOUS
<1>5. /\ m - 1 \in 1 .. Len(s) - 1 /\ n - 1 \in 1 .. Len(s) - 1 /\ m - 1 < n - 1
      /\ (m - 1) + 1 = m /\ (n - 1) + 1 = n
  BY <1>1
<1>6. Tail(s)[m - 1] = s[m] /\ Tail(s)[n - 1] = s[n] BY <1>4, <1>5
<1> QED BY <1>3, <1>5, <1>6

(* A receive that finds blocked senders lets in the first of the queue,    *)
(* which everybody else in it stood behind.                                *)
LEMMA FirstGetsIn ==
  ASSUME IInv, NEW k \in Job, Receive(k), NEW i \in Job, pc[i] = "blocked", pc'[i] = "blocked"
  PROVE  /\ pc' = [pc EXCEPT ![k] = "done", ![sendq[1]] = "holding"]
         /\ sendq[1] \in Job /\ pc[sendq[1]] = "blocked" /\ Ahead(sendq[1], i)
         /\ \A j \in Job : Ahead(i, j) => Ahead(i, j)'
<1> USE DEF IInv, TypeOK
<1>1. PICK l \in DOMAIN sendq : sendq[l] = i BY Places
<1>2. sendq \in Seq(Job) /\ sendq # <<>> BY <1>1
<1>3. /\ pc' = [pc EXCEPT ![k] = "done", ![Head(sendq)] = "holding"]
      /\ sendq' = Tail(sendq)
  BY <1>2 DEF Receive
<1>4. Head(sendq) = sendq[1] /\ 1 \in 1 .. Len(sendq) /\ Len(sendq) \in Nat /\ DOMAIN sendq = 1 .. Len(sendq)
  BY <1>2
<1>5. sendq[1] \in Job /\ pc[sendq[1]] = "blocked" BY <1>2, <1>4 DEF QueueIsBlocked
<1>6. sendq[1] # i BY <1>3, <1>4, <1>5
<1>7. 1 < l BY <1>1, <1>4, <1>6
<1>8. Ahead(sendq[1], i) BY <1>1, <1>4, <1>7 DEF Ahead
<1>9. ASSUME NEW j \in Job, Ahead(i, j) PROVE Ahead(i, j)'
  <2>1. PICK m, n \in DOMAIN sendq : m < n /\ sendq[m] = i /\ sendq[n] = j BY <1>9 DEF Ahead
  <2>2. m # 1 BY <1>4, <1>6, <2>1
  <2>3. /\ m - 1 \in DOMAIN sendq' /\ n - 1 \in DOMAIN sendq' /\ m - 1 < n - 1
        /\ sendq'[m - 1] = i /\ sendq'[n - 1] = j
    <3> HIDE DEF IInv, TypeOK
    <3> QED BY <1>2, <1>3, <2>1, <2>2, MovesUp
  <2> QED BY <2>3 DEF Ahead
<1> QED BY <1>3, <1>4, <1>5, <1>8, <1>9

(* The channel semaphore is first come, first served: a slot goes to the   *)
(* first of the blocked senders, a new one queues up behind all of them,   *)
(* and their order does not change.                                        *)
THEOREM FirstComeFirstServed == Spec => NoOvertaking
<1>1. ASSUME IInv, [Next]_vars
      PROVE  [\A i, j \in Job :
                pc[i] = "blocked" /\ pc'[i] = "blocked" =>
                  /\ pc[j] # "holding" /\ pc'[j] = "holding" => Ahead(j, i)
                  /\ pc[j] # "blocked" /\ pc'[j] = "blocked" => Ahead(i, j)'
                  /\ Ahead(i, j) /\ pc'[j] = "blocked" => Ahead(i, j)']_<<pc, sendq>>
  <2> SUFFICES ASSUME NEW i \in Job, NEW j \in Job,
                      pc[i] = "blocked", pc'[i] = "blocked", ~UNCHANGED <<pc, sendq>>
               PROVE  /\ pc[j] # "holding" /\ pc'[j] = "holding" => Ahead(j, i)
                      /\ pc[j] # "blocked" /\ pc'[j] = "blocked" => Ahead(i, j)'
                      /\ Ahead(i, j) /\ pc'[j] = "blocked" => Ahead(i, j)'
    OBVIOUS
  <2> USE <1>1 DEF IInv, TypeOK
  <2>1. kind = "chan" /\ cur = Limit BY DEF FullWhileBlocked, Blocked
  <2>2. PICK k \in Job : Step(k) BY DEF Next, AllDone, Stuck, vars, semVars
  <2>3. CASE Receive(k)
    <3>1. /\ pc' = [pc EXCEPT ![k] = "done", ![sendq[1]] = "holding"]
          /\ sendq[1] \in Job /\ pc[sendq[1]] = "blocked" /\ Ahead(sendq[1], i)
          /\ Ahead(i, j) => Ahead(i, j)'
      BY <2>3, FirstGetsIn
    <3>2. pc[j] # "holding" /\ pc'[j] = "holding" => j = sendq[1] BY <3>1
    <3>3. pc[j] # "blocked" => pc'[j] # "blocked" BY <3>1
    <3> QED BY <3>1, <3>2, <3>3
  <2>4. CASE SendBlocks(k)
    <3>1. pc' = [pc EXCEPT ![k] = "blocked"] BY <2>4 DEF SendBlocks, Goto
    <3>2. Ahead(i, k)' /\ (Ahead(i, j) => Ahead(i, j)') BY <2>4, BlocksLast
    <3> QED BY <3>1, <3>2
  <2>5. CASE ~Receive(k) /\ ~SendBlocks(k)
    <3>1. /\ sendq' = sendq
          /\ pc[j] # "holding" => pc'[j] # "holding"
          /\ pc[j] # "blocked" => pc'[j] # "blocked"
      BY <2>1, <2>2, <2>5 DEF Step, Enter, Leave, Send, Acquire, Wait, Release, CountIn, Load,
         CompareAndSwap, CountOut, Goto, semVars
    <3> QED BY <3>1 DEF Ahead
  <2> QED BY <2>3, <2>4, <2>5
<1> QED BY InductiveInvariant, <1>1, PTL DEF Spec, NoOvertaking

-----------------------------------------------------------------------------
(* Induction over the numbers without an operator as parameter, and what   *)
(* it gives for the sums of MapThenSumSet.                                 *)

(* A set of numbers that has 0, and the successor of all it has, has all.  *)
LEMMA FromZero ==
  ASSUME NEW N \in SUBSET Nat, 0 \in N, \A n \in N : n + 1 \in N
  PROVE  N = Nat
  <1> SUFFICES ASSUME Nat \ N # {} PROVE FALSE
    OBVIOUS
  <1>1. \E n \in Nat \ N : \A m \in Nat \ N : ~(<<m, n>> \in OpToRel(<, Nat))
    BY WFMin, NatLessThanWellFounded
  <1>2. \A m, n \in Nat : m < n => <<m, n>> \in OpToRel(<, Nat)
    BY DEF OpToRel
  <1>3. PICK n \in Nat \ N : \A m \in Nat \ N : ~(m < n)
    BY <1>1, <1>2
  <1>4. n # 0
    BY <1>3
  <1>5. n - 1 \in Nat /\ n - 1 < n /\ (n - 1) + 1 = n
    BY <1>4
  <1> QED BY <1>3, <1>5

(* f has the sum of the weights w of every subset of S.                    *)
Pick(s) == CHOOSE x \in s : TRUE
IsSum(w, S, f) ==
  f = [s \in SUBSET S |-> IF s = {} THEN 0 ELSE w[Pick(s)] + f[s \ {Pick(s)}]]

LEMMA PickedOut ==
  ASSUME NEW S, IsFiniteSet(S), NEW s \in SUBSET S, s # {}
  PROVE  /\ Pick(s) \in s /\ s \ {Pick(s)} \in SUBSET S
         /\ IsFiniteSet(s) /\ Cardinality(s) \in Nat
         /\ Cardinality(s \ {Pick(s)}) = Cardinality(s) - 1
  <1>1. Pick(s) \in s
    BY DEF Pick
  <1>2. IsFiniteSet(s)
    BY FS_Subset
  <1> QED BY <1>1, <1>2, FS_RemoveElement, FS_CardinalityType

LEMMA SumExists ==
  ASSUME NEW S, IsFiniteSet(S), NEW w \in [S -> Nat]
  PROVE  \E f \in [SUBSET S -> Nat] : IsSum(w, S, f)
  <1> DEFINE Small(f, n) == \A s \in SUBSET S : Cardinality(s) <= n =>
               f[s] = IF s = {} THEN 0 ELSE w[Pick(s)] + f[s \ {Pick(s)}]
             N == {n \in Nat : \E f \in [SUBSET S -> Nat] : Small(f, n)}
  <1>1. 0 \in N
    <2> DEFINE zero == [s \in SUBSET S |-> 0]
    <2>1. zero \in [SUBSET S -> Nat]
      OBVIOUS
    <2>2. \A s \in SUBSET S : Cardinality(s) <= 0 => s = {}
      BY FS_Subset, FS_EmptySet, FS_CardinalityType
    <2>3. Small(zero, 0)
      BY <2>2
    <2> QED BY <2>1, <2>3
  <1>2. ASSUME NEW n \in N PROVE n + 1 \in N
    <2>1. PICK f \in [SUBSET S -> Nat] : Small(f, n)
      OBVIOUS
    <2> DEFINE g == [s \in SUBSET S |-> IF s = {} THEN 0 ELSE w[Pick(s)] + f[s \ {Pick(s)}]]
    <2>2. ASSUME NEW s \in SUBSET S PROVE g[s] \in Nat
      BY PickedOut
    <2>3. g \in [SUBSET S -> Nat]
      BY <2>2
    <2>4. \A s \in SUBSET S : Cardinality(s) <= n => g[s] = f[s]
      BY <2>1
    <2>5. ASSUME NEW s \in SUBSET S, Cardinality(s) <= n + 1
          PROVE  g[s] = IF s = {} THEN 0 ELSE w[Pick(s)] + g[s \ {Pick(s)}]
      <3>1. CASE s = {}
        BY <3>1
      <3>2. CASE s # {}
        <4>1. s \ {Pick(s)} \in SUBSET S /\ Cardinality(s \ {Pick(s)}) <= n
          BY <2>5, <3>2, PickedOut
        <4>2. g[s \ {Pick(s)}] = f[s \ {Pick(s)}]
          BY <2>4, <4>1
        <4> QED BY <3>2, <4>2
      <3> QED BY <3>1, <3>2
    <2>6. Small(g, n + 1)
      BY <2>5
    <2> HIDE DEF g, Small
    <2> QED BY <2>3, <2>6
  <1>3. Cardinality(S) \in N
    <2> HIDE DEF N
    <2>1. N \in SUBSET Nat
      BY DEF N
    <2> QED BY <1>1, <1>2, <2>1, FromZero, FS_CardinalityType
  <1>4. PICK f \in [SUBSET S -> Nat] : Small(f, Cardinality(S))
    BY <1>3
  <1>5. \A s \in SUBSET S : f[s] = IF s = {} THEN 0 ELSE w[Pick(s)] + f[s \ {Pick(s)}]
    BY <1>4, FS_Subset
  <1>6. f = [s \in SUBSET S |-> IF s = {} THEN 0 ELSE w[Pick(s)] + f[s \ {Pick(s)}]]
    BY <1>5
  <1> QED BY <1>6 DEF IsSum

(* Sums of a set within another are the same.                              *)
LEMMA SumsAgree ==
  ASSUME NEW S, IsFiniteSet(S), NEW T \in SUBSET S, NEW w, NEW f, NEW g,
         IsSum(w, S, f), IsSum(w, T, g)
  PROVE  \A s \in SUBSET T : f[s] = g[s]
  <1> DEFINE N == {n \in Nat : \A s \in SUBSET T : Cardinality(s) <= n => f[s] = g[s]}
  <1>1. \A s \in SUBSET T : s = {} => f[s] = g[s]
    BY DEF IsSum
  <1>2. \A s \in SUBSET T : s # {} =>
          /\ f[s] = w[Pick(s)] + f[s \ {Pick(s)}]
          /\ g[s] = w[Pick(s)] + g[s \ {Pick(s)}]
    BY DEF IsSum
  <1>3. IsFiniteSet(T)
    BY FS_Subset
  <1>4. 0 \in N
    <2>1. \A s \in SUBSET T : Cardinality(s) <= 0 => s = {}
      BY <1>3, FS_Subset, FS_EmptySet, FS_CardinalityType
    <2> QED BY <1>1, <2>1
  <1>5. ASSUME NEW n \in N PROVE n + 1 \in N
    <2> SUFFICES ASSUME NEW s \in SUBSET T, Cardinality(s) <= n + 1 PROVE f[s] = g[s]
      OBVIOUS
    <2>1. CASE s = {}
      BY <1>1, <2>1
    <2>2. CASE s # {}
      <3>1. s \ {Pick(s)} \in SUBSET T /\ Cardinality(s \ {Pick(s)}) <= n
        BY <1>3, <2>2, PickedOut
      <3>2. f[s \ {Pick(s)}] = g[s \ {Pick(s)}]
        BY <3>1
      <3> QED BY <1>2, <2>2, <3>2
    <2> QED BY <2>1, <2>2
  <1>6. N = Nat
    <2> HIDE DEF N
    <2>1. N \in SUBSET Nat
      BY DEF N
    <2> QED BY <1>4, <1>5, <2>1, FromZero
  <1> QED BY <1>3, <1>6, FS_Subset, FS_CardinalityType

(* Any element may be taken out first.                                     *)
LEMMA SumTakesOut ==
  ASSUME NEW S, IsFiniteSet(S), NEW w \in [S -> Nat], NEW f \in [SUBSET S -> Nat],
         IsSum(w, S, f)
  PROVE  \A s \in SUBSET S, x \in S : x \in s => f[s] = w[x] + f[s \ {x}]
  <1> DEFINE Out(t, y) == f[t] = w[y] + f[t \ {y}]
             N == {n \in Nat : \A t \in SUBSET S : Cardinality(t) <= n => \A y \in t : Out(t, y)}
  <1>1. \A t \in SUBSET S : t # {} => Out(t, Pick(t))
    BY DEF IsSum
  <1>2. 0 \in N
    <2>1. \A t \in SUBSET S : Cardinality(t) <= 0 => t = {}
      BY FS_Subset, FS_EmptySet, FS_CardinalityType
    <2> QED BY <2>1
  <1>3. ASSUME NEW n \in N PROVE n + 1 \in N
    <2> SUFFICES ASSUME NEW t \in SUBSET S, Cardinality(t) <= n + 1, NEW y \in t PROVE Out(t, y)
      OBVIOUS
    <2> DEFINE p == Pick(t)
    <2>1. /\ p \in t /\ t \ {p} \in SUBSET S /\ IsFiniteSet(t) /\ Cardinality(t) \in Nat
          /\ Cardinality(t \ {p}) = Cardinality(t) - 1
      BY PickedOut
    <2>2. Out(t, p)
      BY <1>1
    <2>3. CASE y # p
      <3>1. Cardinality(t \ {y}) = Cardinality(t) - 1 /\ t \ {y} \in SUBSET S
        BY <2>1, FS_RemoveElement
      <3>2. Out(t \ {p}, y) /\ Out(t \ {y}, p)
        <4> HIDE DEF Out, p
        <4>1. Cardinality(t \ {p}) <= n /\ Cardinality(t \ {y}) <= n
          BY <2>1, <3>1
        <4>2. y \in t \ {p} /\ p \in t \ {y}
          BY <2>1, <2>3
        <4> QED BY <2>1, <3>1, <4>1, <4>2
      <3>3. (t \ {p}) \ {y} = (t \ {y}) \ {p}
        OBVIOUS
      <3> DEFINE r == (t \ {y}) \ {p}
      <3>4. /\ f[t] = w[p] + f[t \ {p}] /\ f[t \ {p}] = w[y] + f[r]
            /\ f[t \ {y}] = w[p] + f[r]
        BY <2>2, <3>2, <3>3
      <3>5. w[p] \in Nat /\ w[y] \in Nat /\ f[r] \in Nat
        BY <2>1
      <3> HIDE DEF r, p
      <3> QED BY <3>4, <3>5
    <2> QED BY <2>2, <2>3
  <1>4. N = Nat
    <2> HIDE DEF N
    <2>1. N \in SUBSET Nat
      BY DEF N
    <2> QED BY <1>2, <1>3, <2>1, FromZero
  <1>5. \A s \in SUBSET S : Cardinality(s) \in N /\ Cardinality(s) <= Cardinality(s)
    BY <1>4, FS_Subset, FS_CardinalityType
  <1> QED BY <1>5

Moves(w, S, f) ==
  \A s \in SUBSET S, x \in S :
    /\ f[s] \in Nat /\ w[x] \in Nat
    /\ x \notin s => f[s \cup {x}] = f[s] + w[x]
    /\ x \in s => f[s \ {x}] = f[s] - w[x]

LEMMA SumMoves ==
  ASSUME NEW S, IsFiniteSet(S), NEW w \in [S -> Nat], NEW f \in [SUBSET S -> Nat],
         IsSum(w, S, f)
  PROVE  Moves(w, S, f)
  <1> SUFFICES ASSUME NEW s \in SUBSET S, NEW x \in S
               PROVE  /\ f[s] \in Nat /\ w[x] \in Nat
                      /\ x \notin s => f[s \cup {x}] = f[s] + w[x]
                      /\ x \in s => f[s \ {x}] = f[s] - w[x]
    BY DEF Moves
  <1>1. f[s] \in Nat /\ w[x] \in Nat /\ f[s \ {x}] \in Nat /\ f[s \cup {x}] \in Nat
    OBVIOUS
  <1>2. \A r \in SUBSET S, y \in S : y \in r => f[r] = w[y] + f[r \ {y}]
    BY SumTakesOut, SMTT(60)
  <1>3. ASSUME x \notin s PROVE f[s \cup {x}] = w[x] + f[s]
    <2>1. s \cup {x} \in SUBSET S /\ x \in s \cup {x} /\ (s \cup {x}) \ {x} = s
      BY <1>3
    <2>2. f[s \cup {x}] = w[x] + f[(s \cup {x}) \ {x}]
      BY <1>2, <2>1
    <2> QED BY <2>1, <2>2
  <1> QED BY <1>1, <1>2, <1>3

(* With weights of at least 1 a sum counts its elements, and more.         *)
LEMMA SumCounts ==
  ASSUME NEW S, IsFiniteSet(S), NEW w \in [S -> Nat], NEW f \in [SUBSET S -> Nat],
         IsSum(w, S, f), \A x \in S : w[x] >= 1
  PROVE  \A s \in SUBSET S : Cardinality(s) <= f[s]
  <1> DEFINE N == {n \in Nat : \A s \in SUBSET S : Cardinality(s) <= n => Cardinality(s) <= f[s]}
  <1>1. 0 \in N
    <2>1. \A s \in SUBSET S : f[s] \in Nat
      OBVIOUS
    <2> QED BY <2>1, FS_Subset, FS_CardinalityType
  <1>2. ASSUME NEW n \in N PROVE n + 1 \in N
    <2> SUFFICES ASSUME NEW s \in SUBSET S, Cardinality(s) <= n + 1 PROVE Cardinality(s) <= f[s]
      OBVIOUS
    <2>1. CASE s = {}
      BY <2>1, FS_EmptySet
    <2>2. CASE s # {}
      <3> DEFINE r == s \ {Pick(s)}
      <3>1. /\ Pick(s) \in S /\ r \in SUBSET S /\ Cardinality(s) \in Nat
            /\ Cardinality(r) = Cardinality(s) - 1
        BY <2>2, PickedOut
      <3>2. f[s] = w[Pick(s)] + f[r]
        BY <2>2 DEF IsSum
      <3> HIDE DEF r
      <3>3. Cardinality(r) <= n
        BY <3>1
      <3>4. Cardinality(r) <= f[r]
        BY <3>1, <3>3
      <3>5. w[Pick(s)] \in Nat /\ f[r] \in Nat /\ w[Pick(s)] >= 1
        BY <3>1
      <3> QED BY <3>1, <3>2, <3>4, <3>5
    <2> QED BY <2>1, <2>2
  <1>3. N = Nat
    <2> HIDE DEF N
    <2>1. N \in SUBSET Nat
      BY DEF N
    <2> QED BY <1>1, <1>2, <2>1, FromZero
  <1> QED BY <1>3, FS_Subset, FS_CardinalityType

-----------------------------------------------------------------------------
(* What the semaphore holds, and the counters of the jobs.                 *)

weights(k) == [j \in Job |-> IF k = "weighted" THEN Weight[j] ELSE 1]
(* What the jobs of every set hold of a semaphore of kind k.               *)
Held(k) == CHOOSE f : f \in [SUBSET Job -> Nat] /\ IsSum(weights(k), Job, f)

Accounts == kind # "none" => cur = Held(kind)[Holders] /\ cur <= Limit

Counted == {j \in Job : pc[j] \in {"load", "cas", "busy"}}
Past == {j \in Job : pc[j] \in {"busy", "leaving", "done"}}
Peak ==
  /\ max \in Nat /\ active = Cardinality(Counted)
  /\ \A j \in Counted \cup Past : mine[j] >= 1 /\ (kind # "none" => mine[j] <= Limit)
  /\ \A j \in Past : mine[j] <= max
  /\ max = 0 \/ \E j \in Past : mine[j] = max

USE JobAssumption

LEMMA HeldIsASum ==
  ASSUME NEW k
  PROVE  /\ weights(k) \in [Job -> Nat] /\ \A j \in Job : weights(k)[j] >= 1
         /\ Held(k) \in [SUBSET Job -> Nat] /\ IsSum(weights(k), Job, Held(k))
  <1>1. weights(k) \in [Job -> Nat] /\ \A j \in Job : weights(k)[j] >= 1
    BY DEF weights
  <1>2. \E f : f \in [SUBSET Job -> Nat] /\ IsSum(weights(k), Job, f)
    BY <1>1, SumExists
  <1> QED BY <1>1, <1>2 DEF Held

(* The definition of CapacityAccounted sums in the order of CHOOSE.        *)
LEMMA HeldIsWhatIsSummed == MapThenSumSet(HeldBy, Holders) = Held(kind)[Holders]
  <1> DEFINE step(f) == [s \in SUBSET Holders |->
                           IF s = {} THEN 0 ELSE HeldBy(CHOOSE x \in s : TRUE)
                                                 + f[s \ {CHOOSE x \in s : TRUE}]]
             sums == CHOOSE f : f = step(f)
  <1>1. MapThenSumSet(HeldBy, Holders) = sums[Holders]
    BY Zenon DEF MapThenSumSet, MapThenFoldSet
  <1>2. Holders \in SUBSET Job /\ IsFiniteSet(Holders)
    BY FS_Subset DEF Holders
  <1>3. \A j \in Holders : HeldBy(j) = weights(kind)[j]
    BY <1>2 DEF HeldBy, weights
  <1>4. weights(kind) \in [Job -> Nat]
    BY HeldIsASum
  <1>5. \A f : step(f) = [s \in SUBSET Holders |->
                            IF s = {} THEN 0 ELSE weights(kind)[Pick(s)] + f[s \ {Pick(s)}]]
    <2>1. \A s \in SUBSET Holders : s # {} =>
            HeldBy(CHOOSE x \in s : TRUE) = weights(kind)[CHOOSE x \in s : TRUE]
      BY <1>3
    <2> QED BY <2>1 DEF Pick
  <1>6. \A f : f = step(f) <=> IsSum(weights(kind), Holders, f)
    BY <1>5 DEF IsSum
  <1>7. \E f : IsSum(weights(kind), Holders, f)
    <2> DEFINE w == [j \in Holders |-> weights(kind)[j]]
    <2>1. w \in [Holders -> Nat]
      BY <1>2, <1>4
    <2>2. PICK f : IsSum(w, Holders, f)
      BY <1>2, <2>1, SumExists
    <2>3. \A s \in SUBSET Holders : s # {} => w[Pick(s)] = weights(kind)[Pick(s)]
      BY DEF Pick
    <2>4. IsSum(weights(kind), Holders, f)
      BY <2>2, <2>3 DEF IsSum
    <2> QED BY <2>4
  <1> HIDE DEF step
  <1>8. IsSum(weights(kind), Holders, sums)
    BY <1>6, <1>7
  <1> HIDE DEF sums
  <1>9. Held(kind)[Holders] = sums[Holders]
    BY <1>2, <1>8, HeldIsASum, SumsAgree
  <1> QED BY <1>1, <1>9

LEMMA HeldMoves ==
  ASSUME NEW k
  PROVE  \A s \in SUBSET Job, j \in Job :
           /\ Held(k)[s] \in Nat /\ weights(k)[j] \in Nat
           /\ j \notin s => Held(k)[s \cup {j}] = Held(k)[s] + weights(k)[j]
           /\ j \in s => Held(k)[s \ {j}] = Held(k)[s] - weights(k)[j]
  <1>1. weights(k) \in [Job -> Nat] /\ Held(k) \in [SUBSET Job -> Nat]
    BY HeldIsASum
  <1>2. IsSum(weights(k), Job, Held(k))
    BY HeldIsASum
  <1>3. Moves(weights(k), Job, Held(k))
    BY <1>1, <1>2, SumMoves
  <1> QED BY <1>3 DEF Moves

(* The steps that change who holds a part of the semaphore.                *)
LEMMA StepAccounts == ASSUME IInv, Accounts, NEW j \in Job, Step(j) PROVE Accounts'
  <1> USE DEF IInv, TypeOK
  <1>1. Holders \in SUBSET Job /\ cur \in Int
    BY DEF Holders
  <1>2. CASE Enter(j) \/ Leave(j)
    BY <1>2 DEF Enter, Leave, Accounts
  <1>3. CASE SendBlocks(j) \/ Wait(j) \/ CountIn(j) \/ Load(j) \/ CompareAndSwap(j) \/ CountOut(j)
    <2>1. kind' = kind /\ cur' = cur
      BY <1>3 DEF SendBlocks, Wait, CountIn, Load, CompareAndSwap, CountOut, semVars
    <2>2. Holders' = Holders
      BY <1>3 DEF SendBlocks, Wait, CountIn, Load, CompareAndSwap, CountOut, Goto, Holders, Inside
    <2> QED BY <2>1, <2>2 DEF Accounts
  <1>4. CASE Send(j) \/ Acquire(j)
    <2>1. kind' = kind /\ Holders' = Holders \cup {j} /\ j \notin Holders
      BY <1>4 DEF Send, Acquire, Goto, Holders, Inside
    <2>2. cur' = cur + weights(kind)[j] /\ cur' <= Limit /\ kind # "none"
      BY <1>1, <1>4 DEF Send, Acquire, Fits, weights
    <2>3. Held(kind)[Holders \cup {j}] = Held(kind)[Holders] + weights(kind)[j]
      BY <1>1, <2>1, HeldMoves
    <2> QED BY <2>1, <2>2, <2>3 DEF Accounts
  <1>5. CASE Release(j) \/ (Receive(j) /\ sendq = <<>>)
    <2>1. kind' = kind /\ Holders' = Holders \ {j} /\ j \in Holders
      BY <1>5 DEF Release, Receive, Broadcast, Goto, Holders, Inside, Waiting
    <2>2. cur' = cur - weights(kind)[j] /\ kind # "none" /\ weights(kind)[j] >= 1
      BY <1>5 DEF Release, Receive, weights
    <2>3. /\ Held(kind)[Holders \ {j}] = Held(kind)[Holders] - weights(kind)[j]
          /\ Held(kind)[Holders] \in Nat /\ weights(kind)[j] \in Nat
      BY <1>1, <2>1, HeldMoves
    <2>4. cur = Held(kind)[Holders] /\ cur <= Limit
      BY <2>2 DEF Accounts
    <2>5. cur' <= Limit
      BY <2>2, <2>3, <2>4
    <2> QED BY <2>1, <2>2, <2>3, <2>4, <2>5 DEF Accounts
  <1>6. CASE Receive(j) /\ sendq # <<>>
    <2> DEFINE h == Head(sendq)
    <2>1. /\ pc' = [pc EXCEPT ![j] = "done", ![h] = "holding"] /\ pc[j] = "leaving"
          /\ cur' = cur /\ kind' = kind /\ kind = "chan"
      BY <1>6 DEF Receive
    <2>2. h \in Job /\ pc[h] = "blocked"
      <3>1. h = sendq[1] /\ 1 \in 1 .. Len(sendq)
        BY <1>6
      <3> QED BY <1>6, <3>1 DEF QueueIsBlocked
    <2> HIDE DEF h
    <2>3. /\ Holders' = (Holders \ {j}) \cup {h}
          /\ j \in Holders /\ h \notin Holders \ {j} /\ Holders \ {j} \in SUBSET Job
      BY <1>1, <2>1, <2>2 DEF Holders, Inside
    <2>4. /\ Held(kind)[Holders \ {j}] = Held(kind)[Holders] - weights(kind)[j]
          /\ Held(kind)[Holders] \in Nat
      BY <1>1, <2>3, HeldMoves
    <2>5. Held(kind)[(Holders \ {j}) \cup {h}] = Held(kind)[Holders \ {j}] + weights(kind)[h]
      BY <2>2, <2>3, HeldMoves
    <2>6. weights(kind)[j] = 1 /\ weights(kind)[h] = 1
      BY <2>1, <2>2 DEF weights
    <2>7. Held(kind)[Holders'] = Held(kind)[Holders]
      BY <2>3, <2>4, <2>5, <2>6
    <2> QED BY <2>1, <2>7 DEF Accounts
  <1> QED BY <1>2, <1>3, <1>4, <1>5, <1>6 DEF Step

(* No more jobs are counted than hold the semaphore.                       *)
LEMMA CountedHold ==
  ASSUME IInv, Accounts, kind # "none"
  PROVE  Cardinality(Holders) <= Limit
  <1>1. Holders \in SUBSET Job
    BY DEF Holders
  <1>2. Held(kind)[Holders] \in Nat /\ Cardinality(Holders) <= Held(kind)[Holders]
    BY <1>1, HeldIsASum, SumCounts
  <1> QED BY <1>1, <1>2, FS_Subset, FS_CardinalityType DEF Accounts

(* The counters.                                                           *)
LEMMA StepPeak == ASSUME IInv, Accounts, Peak, NEW j \in Job, Step(j) PROVE Peak'
  <1> USE DEF IInv, TypeOK
  <1>1. IsFiniteSet(Counted) /\ Cardinality(Counted) \in Nat
    BY FS_Subset, FS_CardinalityType DEF Counted
  <1>2. max \in Nat /\ active = Cardinality(Counted)
    BY DEF Peak
  <1>3. CASE Enter(j) \/ Leave(j) \/ Send(j) \/ SendBlocks(j) \/ Receive(j) \/ Acquire(j)
             \/ Wait(j) \/ Release(j)
    <2>1. kind' = kind /\ max' = max /\ active' = active /\ mine' = mine
      BY <1>3 DEF Enter, Leave, Send, SendBlocks, Receive, Acquire, Wait, Release, countVars
    <2>2. Counted' = Counted /\ Past' = Past
      <3>1. CASE Enter(j) \/ Leave(j) \/ Send(j) \/ SendBlocks(j) \/ Acquire(j) \/ Wait(j)
        BY <3>1 DEF Enter, Leave, Send, SendBlocks, Acquire, Wait, Goto, Counted, Past
      <3>2. CASE Release(j)
        BY <3>2 DEF Release, Broadcast, Waiting, Counted, Past
      <3>3. CASE Receive(j) /\ sendq = <<>>
        BY <3>3 DEF Receive, Goto, Counted, Past
      <3>4. CASE Receive(j) /\ sendq # <<>>
        <4> DEFINE h == Head(sendq)
        <4>1. pc' = [pc EXCEPT ![j] = "done", ![h] = "holding"] /\ pc[j] = "leaving"
          BY <3>4 DEF Receive
        <4>2. h \in Job /\ pc[h] = "blocked"
          <5>1. h = sendq[1] /\ 1 \in 1 .. Len(sendq)
            BY <3>4
          <5> QED BY <3>4, <5>1 DEF QueueIsBlocked
        <4> HIDE DEF h
        <4> QED BY <4>1, <4>2 DEF Counted, Past
      <3> QED BY <1>3, <3>1, <3>2, <3>3, <3>4
    <2> QED BY <2>1, <2>2 DEF Peak
  <1>4. CASE CountIn(j)
    <2>1. /\ kind' = kind /\ max' = max /\ active' = active + 1
          /\ mine' = [mine EXCEPT ![j] = active + 1] /\ pc[j] = "holding"
      BY <1>4 DEF CountIn
    <2>2. Counted' = Counted \cup {j} /\ Past' = Past /\ j \notin Counted /\ j \notin Past
      BY <1>4 DEF CountIn, Goto, Counted, Past
    <2>3. active' = Cardinality(Counted')
      BY <1>1, <1>2, <2>1, <2>2, FS_AddElement
    <2>4. mine'[j] = active' /\ \A i \in Job : i # j => mine'[i] = mine[i]
      BY <2>1
    <2>5. kind # "none" => active' <= Limit
      <3>1. Counted \cup {j} \in SUBSET Holders
        BY <2>1 DEF Counted, Holders, Inside
      <3>2. IsFiniteSet(Holders)
        BY FS_Subset DEF Holders
      <3>3. Cardinality(Counted \cup {j}) <= Cardinality(Holders)
        BY <3>1, <3>2, FS_Subset
      <3> QED BY <1>1, <1>2, <2>1, <2>2, <2>3, <3>2, <3>3, CountedHold, FS_CardinalityType
    <2>6. active' >= 1
      BY <1>1, <1>2, <2>1
    <2>7. Past \subseteq Job /\ Counted \subseteq Job
      BY DEF Past, Counted
    <2> QED BY <1>2, <2>1, <2>2, <2>3, <2>4, <2>5, <2>6, <2>7 DEF Peak
  <1>5. CASE Load(j)
    <2>1. kind' = kind /\ max' = max /\ active' = active /\ mine' = mine
      BY <1>5 DEF Load
    <2>2. /\ Counted' = Counted /\ j \in Counted
          /\ Past' = IF mine[j] <= max THEN Past \cup {j} ELSE Past
      BY <1>5 DEF Load, Goto, Counted, Past
    <2> QED BY <1>2, <2>1, <2>2 DEF Peak
  <1>6. CASE CompareAndSwap(j) /\ max = old[j]
    <2>1. /\ kind' = kind /\ max' = mine[j] /\ active' = active /\ mine' = mine
          /\ mine[j] > max
      BY <1>6 DEF CompareAndSwap, CasRaises
    <2>2. Counted' = Counted /\ j \in Counted /\ Past' = Past \cup {j}
      BY <1>6 DEF CompareAndSwap, Goto, Counted, Past
    <2>3. Past \subseteq Job
      BY DEF Past
    <2> QED BY <1>2, <2>1, <2>2, <2>3 DEF Peak
  <1>7. CASE CompareAndSwap(j) /\ max # old[j]
    <2>1. kind' = kind /\ max' = max /\ active' = active /\ mine' = mine
      BY <1>7 DEF CompareAndSwap
    <2>2. Counted' = Counted /\ Past' = Past
      BY <1>7 DEF CompareAndSwap, Goto, Counted, Past
    <2> QED BY <2>1, <2>2 DEF Peak
  <1>8. CASE CountOut(j)
    <2>1. kind' = kind /\ max' = max /\ active' = active - 1 /\ mine' = mine
      BY <1>8 DEF CountOut
    <2>2. Counted' = Counted \ {j} /\ j \in Counted /\ Past' = Past
      BY <1>8 DEF CountOut, Goto, Counted, Past
    <2>3. active' = Cardinality(Counted')
      BY <1>1, <1>2, <2>1, <2>2, FS_RemoveElement
    <2> QED BY <2>1, <2>2, <2>3 DEF Peak
  <1> QED BY <1>3, <1>4, <1>5, <1>6, <1>7, <1>8 DEF Step

LEMMA CountsStart == Init => Accounts /\ Peak
  <1> SUFFICES ASSUME Init PROVE Accounts /\ Peak
    OBVIOUS
  <1>1. Holders = {} /\ Counted = {} /\ Past = {}
    BY DEF Init, Holders, Counted, Past, Inside
  <1>2. Held(kind)[{}] = 0
    <2>1. IsSum(weights(kind), Job, Held(kind))
      BY HeldIsASum
    <2> QED BY <2>1 DEF IsSum
  <1> QED BY <1>1, <1>2, FS_EmptySet DEF Init, Accounts, Peak

LEMMA CountsAreKept == IInv /\ Accounts /\ Peak /\ [Next]_vars => Accounts' /\ Peak'
  <1> SUFFICES ASSUME IInv, Accounts, Peak, [Next]_vars PROVE Accounts' /\ Peak'
    OBVIOUS
  <1>1. CASE \E j \in Job : Step(j)
    BY <1>1, StepAccounts, StepPeak
  <1>2. CASE UNCHANGED vars
    BY <1>2 DEF vars, semVars, countVars, Accounts, Peak, Holders, Counted, Past
  <1> QED BY <1>1, <1>2 DEF Next, AllDone, Stuck

(* The capacity is accounted for by the jobs that hold it and never        *)
(* exceeded, for any number of jobs of any weights, also when many woken   *)
(* ones race for the room that one release made.                           *)
THEOREM CapacityIsKept == Spec => []CapacityAccounted
  <1>1. Accounts => CapacityAccounted
    BY HeldIsWhatIsSummed DEF Accounts, CapacityAccounted
  <1> QED BY <1>1, CountsStart, CountsAreKept, InductiveInvariant, PTL DEF Spec

(* updateMax loses nothing: after wg.Wait the maximum is one of the counts *)
(* the jobs saw and no smaller than any, and under a limit no larger.      *)
THEOREM MaximumIsThePeak == Spec => []MaxIsThePeak
  <1>1. IInv /\ Peak => MaxIsThePeak
    <2> SUFFICES ASSUME IInv, Peak, \A j \in Job : pc[j] = "done"
                 PROVE  /\ \A j \in Job : mine[j] <= max
                        /\ Job # {} => \E j \in Job : mine[j] = max
                        /\ kind # "none" => max <= Limit
      BY DEF MaxIsThePeak
    <2>1. Past = Job
      BY DEF Past
    <2>2. \A j \in Job : mine[j] \in Int /\ 1 <= mine[j] /\ mine[j] <= max
      BY <2>1 DEF Peak, IInv, TypeOK
    <2>3. max \in Nat /\ (max = 0 \/ \E j \in Job : mine[j] = max)
      BY <2>1 DEF Peak
    <2>4. \A j \in Job : kind # "none" => mine[j] <= Limit
      BY <2>1 DEF Peak
    <2> QED BY <2>2, <2>3, <2>4
  <1> QED BY <1>1, CountsStart, CountsAreKept, InductiveInvariant, PTL DEF Spec

=============================================================================
