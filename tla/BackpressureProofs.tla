------------------------- MODULE BackpressureProofs --------------------------
(***************************************************************************)
(* Proofs about the queues of adv023.  Of the unbounded one, for any       *)
(* number of producers and consumers: it is first in first out, one Signal *)
(* for each Push loses no wake-up, and a consumer stops only when all that *)
(* was pushed before Close has been popped.  Of the bounded ones, for any  *)
(* number of tasks, any capacities and both modes: what is accepted is     *)
(* drained in order, nobody is parked beside something to do, and the      *)
(* totals of the scenarios add up.                                         *)
(***************************************************************************)
EXTENDS Backpressure, FiniteSetTheorems, SequenceTheorems, TLAPS

USE PushesAssumption, ConsumerAssumption

-----------------------------------------------------------------------------
(* The unbounded queue.                                                    *)

(* early, and nobody sleeps in it.                                         *)
EarlyCounted == (closed => early <= Len(pushed)) /\ early \in Nat

IInv == TypeOK /\ FirstInFirstOut /\ NoLostWakeup /\ EarlyCounted /\ DrainedBeforeDone

(* The initial state.                                                      *)
LEMMA InitInv == Init => IInv
<1> SUFFICES ASSUME Init PROVE IInv OBVIOUS
<1>1. TypeOK
  <2>1. <<>> \in Seq(Value) OBVIOUS
  <2>2. 0 \in 0 .. Pushes OBVIOUS
  <2>3. sent \in [Producer -> 0 .. Pushes] BY <2>2 DEF Init
  <2> QED BY <2>1, <2>3 DEF Init, TypeOK
<1>2. FirstInFirstOut BY DEF Init, FirstInFirstOut
<1>3. NoLostWakeup /\ DrainedBeforeDone
  BY DEF Init, NoLostWakeup, DrainedBeforeDone, Waiting
<1>4. EarlyCounted BY DEF Init, EarlyCounted
<1> QED BY <1>1, <1>2, <1>3, <1>4 DEF IInv

(* Every step keeps the types.                                             *)
LEMMA StepTypes == ASSUME TypeOK, [Next]_vars PROVE TypeOK'
<1> USE DEF TypeOK
<1>1. ASSUME NEW p \in Producer, Push(p) PROVE TypeOK'
  <2>1. sent'[p] \in 1 .. Pushes BY <1>1 DEF Push
  <2>2. <<p, sent'[p]>> \in Value BY <2>1 DEF Value
  <2>3. pc' \in [Consumer -> {"pop", "waiting", "woken", "done"}]
    BY <1>1 DEF Push, Signal, Waiting
  <2> QED BY <1>1, <2>2, <2>3 DEF Push
<1>2. ASSUME NEW c \in Consumer, Take(c) PROVE TypeOK'
  <2>1. Head(buf) \in Value /\ Tail(buf) \in Seq(Value) BY <1>2 DEF Take
  <2> QED BY <1>2, <2>1 DEF Take
<1>3. ASSUME NEW c \in Consumer, Sleep(c) PROVE TypeOK' BY <1>3 DEF Sleep
<1>4. ASSUME NEW c \in Consumer, GiveUp(c) PROVE TypeOK' BY <1>4 DEF GiveUp
<1>5. CASE Close BY <1>5 DEF Close, Broadcast
<1>6. CASE UNCHANGED vars BY <1>6 DEF vars
<1> QED BY <1>1, <1>2, <1>3, <1>4, <1>5, <1>6 DEF Next, Consume, Finished

(* What was pushed is what was popped, followed by what is still there.    *)
LEMMA StepFifo == ASSUME IInv, [Next]_vars PROVE FirstInFirstOut'
<1> USE DEF IInv, TypeOK, FirstInFirstOut
<1>1. ASSUME NEW p \in Producer, Push(p) PROVE FirstInFirstOut'
  <2> DEFINE v == <<p, sent'[p]>>
  <2>1. v \in Value BY <1>1 DEF Push, Value
  <2>2. pushed' = Append(pushed, v) /\ buf' = Append(buf, v) /\ popped' = popped
    BY <1>1 DEF Push
  <2> HIDE DEF v
  <2>3. <<v>> \in Seq(Value) /\ popped \o buf \in Seq(Value) BY <2>1, ConcatProperties
  <2>4. Append(popped \o buf, v) = (popped \o buf) \o <<v>> BY <2>1, <2>3, AppendIsConcat
  <2>5. (popped \o buf) \o <<v>> = popped \o (buf \o <<v>>) BY <2>3, ConcatAssociative
  <2>6. Append(buf, v) = buf \o <<v>> BY <2>1, AppendIsConcat
  <2> QED BY <2>2, <2>4, <2>5, <2>6
<1>2. ASSUME NEW c \in Consumer, Take(c) PROVE FirstInFirstOut'
  <2>1. /\ popped' = Append(popped, Head(buf)) /\ buf' = Tail(buf) /\ pushed' = pushed
        /\ buf # <<>>
    BY <1>2 DEF Take
  <2>2. popped \o buf = Append(popped, Head(buf)) \o Tail(buf) BY <2>1
  <2> QED BY <2>1, <2>2
<1>3. CASE UNCHANGED <<pushed, popped, buf>> BY <1>3
<1> QED BY <1>1, <1>2, <1>3 DEF Next, Consume, Sleep, GiveUp, Close, Finished, vars

(* The woken consumers are finitely many.                                  *)
LEMMA WokenIsFinite == IsFiniteSet(Woken) /\ Cardinality(Woken) \in Nat
<1>1. IsFiniteSet(Woken) BY FS_Subset DEF Woken
<1> QED BY <1>1, FS_CardinalityType

(* A push wakes one more sleeper, if there is one; a woken consumer that   *)
(* leaves takes a value with it, or found none.                            *)
LEMMA StepWakeup == ASSUME IInv, [Next]_vars PROVE NoLostWakeup'
<1> USE DEF IInv, TypeOK, NoLostWakeup
<1>0. /\ IsFiniteSet(Woken) /\ Cardinality(Woken) \in Nat
      /\ IsFiniteSet(Woken') /\ Cardinality(Woken') \in Nat
  <2>1. IsFiniteSet(Woken') BY FS_Subset DEF Woken
  <2> QED BY <2>1, WokenIsFinite, FS_CardinalityType
<1>1. ASSUME NEW p \in Producer, Push(p) PROVE NoLostWakeup'
  <2>1. Len(buf') = Len(buf) + 1 /\ closed' = closed BY <1>1 DEF Push
  <2>2. CASE Waiting = {}
    <3>1. pc' = pc BY <1>1, <2>2 DEF Push, Signal
    <3> QED BY <2>2, <3>1 DEF Waiting
  <2>3. CASE Waiting # {}
    <3>1. PICK c \in Waiting : pc' = [pc EXCEPT ![c] = "woken"]
      BY <1>1, <2>3 DEF Push, Signal
    <3>2. Woken' = Woken \cup {c} /\ c \notin Woken BY <3>1 DEF Woken, Waiting
    <3>3. Cardinality(Woken') = Cardinality(Woken) + 1
      BY <1>0, <3>2, FS_AddElement
    <3>4. Len(buf) <= Cardinality(Woken) /\ ~closed BY <2>3
    <3>5. Len(buf) \in Nat OBVIOUS
    <3> QED BY <1>0, <2>1, <3>3, <3>4, <3>5
  <2> QED BY <2>2, <2>3
<1>2. ASSUME NEW c \in Consumer, Take(c) PROVE NoLostWakeup'
  <2>1. Len(buf') = Len(buf) - 1 /\ closed' = closed /\ Len(buf) \in Nat BY <1>2 DEF Take
  <2>2. Waiting' \subseteq Waiting /\ Woken' = Woken \ {c}
    BY <1>2 DEF Take, Looking, Waiting, Woken
  <2>3. Cardinality(Woken') >= Cardinality(Woken) - 1
    <3>1. /\ Cardinality(Woken \ {c}) =
               IF c \in Woken THEN Cardinality(Woken) - 1 ELSE Cardinality(Woken)
      BY <1>0, FS_RemoveElement
    <3>2. Cardinality(Woken') = Cardinality(Woken \ {c}) BY <2>2
    <3> QED BY <1>0, <3>1, <3>2
  <2> QED BY <1>0, <2>1, <2>2, <2>3
<1>3. ASSUME NEW c \in Consumer, Sleep(c) PROVE NoLostWakeup'
  <2>1. Len(buf') = 0 /\ ~closed' BY <1>3 DEF Sleep
  <2> QED BY <1>0, <2>1
<1>4. ASSUME NEW c \in Consumer, GiveUp(c) PROVE NoLostWakeup'
  <2>1. Waiting = {} BY <1>4 DEF GiveUp
  <2>2. Waiting' = {} BY <1>4, <2>1 DEF GiveUp, Waiting
  <2> QED BY <2>2
<1>5. CASE Close
  <2>1. Waiting' = {} BY <1>5 DEF Close, Broadcast, Waiting
  <2> QED BY <2>1
<1>6. CASE UNCHANGED vars BY <1>6 DEF vars, Waiting, Woken
<1> QED BY <1>1, <1>2, <1>3, <1>4, <1>5, <1>6 DEF Next, Consume, Finished

(* A consumer stops at an empty queue, so everything pushed was popped.    *)
LEMMA StepDrained == ASSUME IInv, [Next]_vars PROVE EarlyCounted' /\ DrainedBeforeDone'
<1> USE DEF IInv, TypeOK, EarlyCounted, DrainedBeforeDone
<1>1. ASSUME NEW p \in Producer, Push(p) PROVE EarlyCounted' /\ DrainedBeforeDone'
  <2>1. Len(pushed') = Len(pushed) + 1 BY <1>1, StepTypes DEF Push
  <2>2. \A c \in Consumer : pc'[c] = "done" => pc[c] = "done"
    BY <1>1 DEF Push, Signal, Waiting
  <2> QED BY <1>1, <2>1, <2>2 DEF Push
<1>2. ASSUME NEW c \in Consumer, Take(c) PROVE EarlyCounted' /\ DrainedBeforeDone'
  <2>1. Head(buf) \in Value BY <1>2 DEF Take
  <2>2. Len(popped') = Len(popped) + 1 BY <1>2, <2>1 DEF Take
  <2>3. \A d \in Consumer : pc'[d] = "done" => pc[d] = "done" BY <1>2 DEF Take
  <2> QED BY <1>2, <2>2, <2>3 DEF Take
<1>3. ASSUME NEW c \in Consumer, Sleep(c) PROVE EarlyCounted' /\ DrainedBeforeDone'
  BY <1>3 DEF Sleep
<1>4. ASSUME NEW c \in Consumer, GiveUp(c) PROVE EarlyCounted' /\ DrainedBeforeDone'
  <2>1. popped \o buf = popped BY <1>4 DEF GiveUp
  <2>2. Len(popped) = Len(pushed) BY <2>1 DEF FirstInFirstOut
  <2> QED BY <1>4, <2>2 DEF GiveUp
<1>5. CASE Close
  <2>1. \A d \in Consumer : pc'[d] = "done" => pc[d] = "done"
    BY <1>5 DEF Close, Broadcast
  <2>2. Len(pushed) \in Nat OBVIOUS
  <2> QED BY <1>5, <2>1, <2>2 DEF Close
<1>6. CASE UNCHANGED vars BY <1>6 DEF vars
<1> QED BY <1>1, <1>2, <1>3, <1>4, <1>5, <1>6 DEF Next, Consume, Finished

(* IInv is inductive.                                                      *)
THEOREM InductiveInvariant == Spec => []IInv
<1>1. IInv /\ [Next]_vars => IInv'
  BY StepTypes, StepFifo, StepWakeup, StepDrained DEF IInv
<1> QED BY InitInv, <1>1, PTL DEF Spec

(* Nothing pushed is lost, repeated or reordered.                          *)
THEOREM QueueIsFifo == Spec => []FirstInFirstOut
BY InductiveInvariant, PTL DEF IInv

(* One Signal per Push never leaves a sleeper beside an unclaimed value.   *)
THEOREM SignalSuffices == Spec => []NoLostWakeup
BY InductiveInvariant, PTL DEF IInv

(* Consumers only stop once everything pushed before Close was popped.     *)
THEOREM CloseDrains == Spec => []DrainedBeforeDone
BY InductiveInvariant, PTL DEF IInv

-----------------------------------------------------------------------------
(* The bounded queues.                                                     *)

TaskValue == 1 .. Tasks

-----------------------------------------------------------------------------
(* What the operations of the channel do to sequences.                     *)

(* A value put at the end of the line is behind all that was accepted.     *)
LEMMA AppendBehind ==
  ASSUME NEW d \in Seq(TaskValue), NEW c \in Seq(TaskValue), NEW x \in TaskValue
  PROVE  Append(d \o c, x) = d \o Append(c, x)
<1>1. d \o c \in Seq(TaskValue) /\ <<x>> \in Seq(TaskValue) BY ConcatProperties
<1>2. Append(d \o c, x) = (d \o c) \o <<x>> BY <1>1, AppendIsConcat
<1>3. Append(c, x) = c \o <<x>> BY AppendIsConcat
<1> QED BY <1>1, <1>2, <1>3, ConcatAssociative

LEMMA HeadBeforeTail ==
  ASSUME NEW c \in Seq(TaskValue), c # <<>> PROVE <<Head(c)>> \o Tail(c) = c
<1> DEFINE h == <<Head(c)>>
           t == Tail(c)
           l == h \o t
<1>1. /\ Head(c) \in TaskValue /\ t \in Seq(TaskValue) /\ Len(t) = Len(c) - 1 /\ Len(c) \in Nat \ {0}
      /\ \A i \in 1 .. Len(t) : t[i] = c[i + 1]
  BY HeadTailProperties
<1>2. h \in Seq(TaskValue) /\ Len(h) = 1 /\ h[1] = c[1] BY <1>1
<1> HIDE DEF h, t
<1>3. /\ l \in Seq(TaskValue) /\ Len(l) = Len(h) + Len(t)
      /\ \A i \in 1 .. Len(h) + Len(t) : l[i] = IF i <= Len(h) THEN h[i] ELSE t[i - Len(h)]
  BY <1>1, <1>2, ConcatProperties
<1> HIDE DEF l
<1>4. Len(l) = Len(c) BY <1>1, <1>2, <1>3
<1>5. ASSUME NEW i \in 1 .. Len(l) PROVE l[i] = c[i]
  <2>1. CASE i = 1 BY <1>1, <1>2, <1>3, <2>1
  <2>2. CASE i # 1
    <3>1. /\ i - 1 \in 1 .. Len(t) /\ i \in 1 .. Len(h) + Len(t) /\ ~(i <= Len(h))
          /\ i - Len(h) = i - 1 /\ (i - 1) + 1 = i
      BY <1>1, <1>2, <1>4, <2>2
    <3>2. l[i] = t[i - 1] BY <1>3, <3>1
    <3>3. t[i - 1] = c[(i - 1) + 1] BY <1>1, <3>1
    <3> QED BY <3>1, <3>2, <3>3
  <2> QED BY <2>1, <2>2
<1>6. l = c BY <1>3, <1>4, <1>5, SeqEqual
<1> QED BY <1>6 DEF l, h, t

(* Receiving moves the border between what is drained and what waits.      *)
LEMMA ReceiveMoves ==
  ASSUME NEW d \in Seq(TaskValue), NEW c \in Seq(TaskValue), c # <<>>
  PROVE  /\ Head(c) \in TaskValue /\ Tail(c) \in Seq(TaskValue) /\ Len(Tail(c)) = Len(c) - 1
         /\ Append(d, Head(c)) \in Seq(TaskValue) /\ Len(Append(d, Head(c))) = Len(d) + 1
         /\ Append(d, Head(c)) \o Tail(c) = d \o c
<1>1. Head(c) \in TaskValue /\ Tail(c) \in Seq(TaskValue) /\ Len(Tail(c)) = Len(c) - 1
  BY HeadTailProperties
<1>2. Append(d, Head(c)) \in Seq(TaskValue) /\ Len(Append(d, Head(c))) = Len(d) + 1
  BY <1>1, AppendProperties
<1>3. Append(d, Head(c)) = d \o <<Head(c)>> BY <1>1, AppendIsConcat
<1>4. <<Head(c)>> \in Seq(TaskValue) BY <1>1
<1>5. (d \o <<Head(c)>>) \o Tail(c) = d \o (<<Head(c)>> \o Tail(c))
  BY <1>1, <1>4, ConcatAssociative
<1> QED BY <1>1, <1>2, <1>3, <1>5, HeadBeforeTail

-----------------------------------------------------------------------------
(* The invariant, in the parts that the steps keep.                        *)

Line == accepted = drained \o ch

Closing == chClosed <=> scenario \in {"wait", "returned"}

Totals ==
  /\ Len(accepted) + dropped = next - 1
  /\ scenario \in {"wait", "returned"} => next = Tasks + 1
  /\ scenario = "blocked" => next <= Tasks
  /\ drain = "done" => scenario \in {"wait", "returned"} /\ ch = <<>>
  /\ scenario = "returned" => drain = "done"
  /\ mode = "block" => dropped = 0

QueueInv ==
  B!TypeOK /\ Line /\ B!NobodyParkedInVain /\ B!BufferIsUsed /\ Closing /\ Totals

(* What TypeOK says of the sequences.                                      *)
LEMMA Types ==
  ASSUME QueueInv
  PROVE  /\ ch \in Seq(TaskValue) /\ accepted \in Seq(TaskValue) /\ drained \in Seq(TaskValue)
         /\ Len(ch) \in Nat /\ Len(accepted) \in Nat /\ Len(drained) \in Nat
         /\ Len(accepted) = Len(drained) + Len(ch)
         /\ Len(ch) <= capacity /\ capacity \in Nat /\ next \in Nat \ {0} /\ dropped \in Nat
         /\ Tasks \in Nat /\ next <= Tasks + 1
<1>1. /\ ch \in Seq(TaskValue) /\ accepted \in Seq(TaskValue) /\ drained \in Seq(TaskValue)
      /\ Len(ch) <= capacity /\ capacity \in Nat /\ next \in Nat \ {0} /\ dropped \in Nat
      /\ Tasks \in Nat /\ next <= Tasks + 1
  BY TasksAssumption, CapacitiesAssumption DEF QueueInv, B!TypeOK, TaskValue
<1>2. Len(accepted) = Len(drained) + Len(ch) BY <1>1, ConcatProperties DEF QueueInv, Line
<1> QED BY <1>1, <1>2

LEMMA InitQueue == ASSUME B!Init PROVE QueueInv
<1>1. B!TypeOK
  <2>1. <<>> \in Seq(1 .. Tasks) /\ Len(<<>>) = 0 OBVIOUS
  <2>2. Tasks \in Nat /\ capacity \in Nat BY TasksAssumption, CapacitiesAssumption DEF B!Init
  <2>3. next \in 1 .. Tasks + 1 /\ Len(ch) <= capacity /\ dropped \in Nat
    BY <2>1, <2>2 DEF B!Init
  <2>4. hangs \in BOOLEAN /\ chClosed \in BOOLEAN BY DEF B!Init
  <2> QED BY <2>1, <2>3, <2>4 DEF B!Init, B!TypeOK
<1>2. Line BY DEF B!Init, Line
<1>3. B!NobodyParkedInVain BY DEF B!Init, B!NobodyParkedInVain
<1>4. B!BufferIsUsed BY DEF B!Init, B!BufferIsUsed
<1>5. Totals BY DEF B!Init, Totals
<1>6. Closing BY DEF B!Init, Closing
<1> QED BY <1>1, <1>2, <1>3, <1>4, <1>5, <1>6 DEF QueueInv

(* A value that is accepted takes the next place: while the buffer has     *)
(* never been full, its place is its number.                               *)
LEMMA AcceptKeeps ==
  ASSUME QueueInv, next <= Tasks, B!Accept, capacity' = capacity
  PROVE  /\ next \in TaskValue /\ next' = next + 1 /\ next' \in 1 .. Tasks + 1
         /\ accepted' = Append(accepted, next) /\ accepted' \in Seq(TaskValue)
         /\ Len(accepted') = Len(accepted) + 1
         /\ B!BufferIsUsed'
<1>1. next \in TaskValue BY Types DEF TaskValue
<1>2. accepted' = Append(accepted, next) /\ next' = next + 1 BY DEF B!Accept
<1>3. /\ accepted' \in Seq(TaskValue) /\ Len(accepted') = Len(accepted) + 1
      /\ \A i \in 1 .. Len(accepted) : accepted'[i] = accepted[i]
      /\ accepted'[Len(accepted) + 1] = next
  BY <1>1, <1>2, Types, AppendProperties
<1>4. ASSUME NEW i \in 1 .. capacity, i < next'
      PROVE  i <= Len(accepted') /\ accepted'[i] = i
  <2>1. CASE i < next
    <3>1. i <= Len(accepted) /\ accepted[i] = i BY <2>1 DEF QueueInv, B!BufferIsUsed
    <3> QED BY <1>3, <3>1, Types
  <2>2. CASE i = next
    <3>1. next - 1 <= Len(accepted)
      <4>1. CASE next = 1 BY <4>1, Types
      <4>2. CASE next # 1
        <5>1. next - 1 \in 1 .. capacity /\ next - 1 < next BY <2>2, <4>2, Types
        <5> QED BY <5>1 DEF QueueInv, B!BufferIsUsed
      <4> QED BY <4>1, <4>2
    <3>2. Len(accepted) <= next - 1 BY Types DEF QueueInv, Totals
    <3>3. i = Len(accepted) + 1 BY <2>2, <3>1, <3>2, Types
    <3> QED BY <1>3, <2>2, <3>3, Types
  <2> QED BY <1>2, <1>4, <2>1, <2>2, Types
<1>5. B!BufferIsUsed' BY <1>4 DEF B!BufferIsUsed
<1> QED BY <1>1, <1>2, <1>3, <1>5, Types DEF TaskValue

-----------------------------------------------------------------------------
(* The steps of the pushing side.                                          *)

LEMMA PushStep == ASSUME QueueInv, B!Push PROVE QueueInv'
<1>0. /\ ch \in Seq(TaskValue) /\ accepted \in Seq(TaskValue) /\ drained \in Seq(TaskValue)
      /\ Len(ch) \in Nat /\ Len(accepted) \in Nat /\ Len(drained) \in Nat
      /\ Len(accepted) = Len(drained) + Len(ch)
      /\ Len(ch) <= capacity /\ capacity \in Nat /\ next \in Nat \ {0} /\ dropped \in Nat
      /\ Tasks \in Nat /\ next <= Tasks + 1
  BY Types
<1> USE DEF QueueInv
<1>1. CASE B!Buffer
  <2>1. /\ next \in TaskValue /\ next' = next + 1 /\ next' \in 1 .. Tasks + 1
        /\ accepted' = Append(accepted, next) /\ accepted' \in Seq(TaskValue)
        /\ Len(accepted') = Len(accepted) + 1 /\ B!BufferIsUsed'
    BY <1>1, AcceptKeeps DEF B!Buffer
  <2>2. ch' = Append(ch, next) /\ ch' \in Seq(TaskValue) /\ Len(ch') = Len(ch) + 1
    BY <1>1, <2>1, <1>0, AppendProperties DEF B!Buffer
  <2>3. B!TypeOK' BY <1>1, <2>1, <2>2, <1>0 DEF B!Buffer, B!TypeOK, TaskValue
  <2>4. Line'
    <3>1. accepted = drained \o ch /\ drained' = drained BY <1>1 DEF B!Buffer, Line
    <3>2. Append(drained \o ch, next) = drained \o Append(ch, next)
      BY <1>0, <2>1, AppendBehind
    <3> QED BY <2>1, <2>2, <3>1, <3>2 DEF Line
  <2>5. B!NobodyParkedInVain' BY <1>1 DEF B!Buffer, B!NobodyParkedInVain
  <2>6. Totals' BY <1>1, <2>1, <1>0 DEF B!Buffer, Totals
  <2>7. Closing' BY <1>1 DEF B!Buffer, B!Accept, Closing
  <2> QED BY <2>1, <2>3, <2>4, <2>5, <2>6, <2>7
<1>2. CASE B!HandOver
  <2>1. /\ next \in TaskValue /\ next' = next + 1 /\ next' \in 1 .. Tasks + 1
        /\ accepted' = Append(accepted, next) /\ accepted' \in Seq(TaskValue)
        /\ Len(accepted') = Len(accepted) + 1 /\ B!BufferIsUsed'
    BY <1>2, AcceptKeeps DEF B!HandOver
  <2>2. drained' = Append(drained, next) /\ drained' \in Seq(TaskValue)
    BY <1>2, <2>1, <1>0, AppendProperties DEF B!HandOver
  <2>3. ch = <<>> /\ ch' = ch BY <1>2 DEF B!HandOver, B!NobodyParkedInVain
  <2>4. B!TypeOK' BY <1>2, <2>1, <2>2 DEF B!HandOver, B!TypeOK, TaskValue
  <2>5. drained \o ch = drained /\ drained' \o ch' = drained'
    BY <2>2, <2>3, <1>0, ConcatEmptySeq
  <2>6. Line' BY <2>1, <2>2, <2>5 DEF Line
  <2>7. B!NobodyParkedInVain' BY <1>2 DEF B!HandOver, B!NobodyParkedInVain
  <2>8. Totals' BY <1>2, <2>1, <1>0 DEF B!HandOver, Totals
  <2>9. Closing' BY <1>2 DEF B!HandOver, B!Accept, Closing
  <2> QED BY <2>1, <2>4, <2>6, <2>7, <2>8, <2>9
<1>3. CASE B!Drop
  <2>1. B!TypeOK' BY <1>3, <1>0 DEF B!Drop, B!Full, B!TypeOK
  <2>2. Line' BY <1>3 DEF B!Drop, Line
  <2>3. B!NobodyParkedInVain' BY <1>3 DEF B!Drop, B!Full, B!NobodyParkedInVain
  <2>4. Totals' BY <1>3, <1>0 DEF B!Drop, B!Full, Totals
  (* A full buffer has taken more than the first capacity values.          *)
  <2>5. capacity < next BY <1>3, <1>0 DEF B!Drop, B!Full, Totals
  <2>6. B!BufferIsUsed' BY <1>3, <2>5, <1>0 DEF B!Drop, B!BufferIsUsed
  <2>7. Closing' BY <1>3 DEF B!Drop, B!Accept, Closing
  <2> QED BY <2>1, <2>2, <2>3, <2>4, <2>6, <2>7
<1>4. CASE B!Block
  BY <1>4 DEF B!Block, B!Full, B!TypeOK, Line, B!NobodyParkedInVain, B!BufferIsUsed, Closing, Totals
<1>5. CASE B!CloseQueue
  <2>1. next = Tasks + 1 BY <1>5, <1>0 DEF B!CloseQueue, B!TypeOK
  <2> QED BY <1>5, <2>1
          DEF B!CloseQueue, B!TypeOK, Line, B!NobodyParkedInVain, B!BufferIsUsed, Closing, Totals
<1>6. CASE B!Return
  BY <1>6 DEF B!Return, B!TypeOK, Line, B!NobodyParkedInVain, B!BufferIsUsed, Closing, Totals
<1> QED BY <1>1, <1>2, <1>3, <1>4, <1>5, <1>6 DEF B!Push

-----------------------------------------------------------------------------
(* The steps of the drain goroutine.                                       *)

LEMMA DrainStep == ASSUME QueueInv, B!Drain PROVE QueueInv'
<1>0. /\ ch \in Seq(TaskValue) /\ accepted \in Seq(TaskValue) /\ drained \in Seq(TaskValue)
      /\ Len(ch) \in Nat /\ Len(accepted) \in Nat /\ Len(drained) \in Nat
      /\ Len(accepted) = Len(drained) + Len(ch)
      /\ Len(ch) <= capacity /\ capacity \in Nat /\ next \in Nat \ {0} /\ dropped \in Nat
      /\ Tasks \in Nat /\ next <= Tasks + 1
  BY Types
<1> USE DEF QueueInv
<1>1. CASE B!Receive /\ scenario = "blocked"
  <2> DEFINE line == Append(ch, next)
  <2>1. next <= Tasks /\ Len(ch) = capacity /\ mode' = mode /\ capacity' = capacity
    BY <1>1 DEF B!Receive, Totals, B!NobodyParkedInVain
  <2>2. /\ next \in TaskValue /\ next' = next + 1 /\ next' \in 1 .. Tasks + 1
        /\ accepted' = Append(accepted, next) /\ accepted' \in Seq(TaskValue)
        /\ Len(accepted') = Len(accepted) + 1 /\ B!BufferIsUsed'
    BY <1>1, <2>1, AcceptKeeps DEF B!Receive
  <2>3. line \in Seq(TaskValue) /\ line # <<>> /\ Len(line) = Len(ch) + 1
    BY <2>2, <1>0, AppendProperties
  <2>4. drained' = Append(drained, Head(line)) /\ ch' = Tail(line)
    BY <1>1 DEF B!Receive
  <2>5. accepted' = drained \o line BY <2>2, <1>0, AppendBehind DEF Line
  <2> HIDE DEF line
  <2>6. /\ drained' \in Seq(TaskValue) /\ ch' \in Seq(TaskValue) /\ Len(ch') = Len(ch)
        /\ drained' \o ch' = drained \o line
    <3>1. /\ Append(drained, Head(line)) \in Seq(TaskValue) /\ Tail(line) \in Seq(TaskValue)
          /\ Len(Tail(line)) = Len(line) - 1
          /\ Append(drained, Head(line)) \o Tail(line) = drained \o line
      BY <1>0, <2>3, ReceiveMoves
    <3> QED BY <1>0, <2>3, <2>4, <3>1
  <2>7. B!TypeOK' BY <1>1, <2>2, <2>6, <1>0 DEF B!Receive, B!TypeOK, TaskValue
  <2>8. Line' BY <2>5, <2>6 DEF Line
  <2>9. B!NobodyParkedInVain' BY <1>1 DEF B!Receive, B!NobodyParkedInVain
  <2>10. Totals' BY <1>1, <2>2, <1>0 DEF B!Receive, Totals
  <2>11. Closing' BY <1>1 DEF B!Receive, B!Accept, Closing
  <2> QED BY <2>2, <2>7, <2>8, <2>9, <2>10, <2>11
<1>2. CASE B!Receive /\ scenario # "blocked"
  <2>1. ch # <<>> /\ drained' = Append(drained, Head(ch)) /\ ch' = Tail(ch)
    BY <1>2 DEF B!Receive
  <2>2. /\ drained' \in Seq(TaskValue) /\ ch' \in Seq(TaskValue) /\ Len(ch') = Len(ch) - 1
        /\ drained' \o ch' = drained \o ch
    BY <2>1, <1>0, ReceiveMoves
  <2>3. B!TypeOK' BY <1>2, <2>2, <1>0 DEF B!Receive, B!TypeOK, TaskValue
  <2>4. Line' BY <1>2, <2>2 DEF B!Receive, Line
  <2>5. B!NobodyParkedInVain' BY <1>2 DEF B!Receive, B!NobodyParkedInVain
  <2>6. B!BufferIsUsed' BY <1>2 DEF B!Receive, B!BufferIsUsed
  <2>7. Totals' BY <1>2 DEF B!Receive, Totals
  <2>8. Closing' BY <1>2 DEF B!Receive, B!Accept, Closing
  <2> QED BY <2>3, <2>4, <2>5, <2>6, <2>7, <2>8
<1>3. CASE B!Park
  BY <1>3 DEF B!Park, B!TypeOK, Line, B!NobodyParkedInVain, B!BufferIsUsed, Closing, Totals
<1>4. CASE B!Work
  BY <1>4 DEF B!Work, B!TypeOK, Line, B!NobodyParkedInVain, B!BufferIsUsed, Closing, Totals
<1>5. CASE B!DrainEnds
  BY <1>5 DEF B!DrainEnds, B!TypeOK, Line, B!NobodyParkedInVain, B!BufferIsUsed, Closing, Totals
<1> QED BY <1>1, <1>2, <1>3, <1>4, <1>5 DEF B!Drain

-----------------------------------------------------------------------------

LEMMA QueueInvariant == BackpressureSpec => []QueueInv
<1>1. ASSUME QueueInv, [BackpressureNext]_<<queue, vars, boundedVars>> PROVE QueueInv'
  <2>1. CASE B!Push BY <1>1, <2>1, PushStep
  <2>2. CASE B!Drain BY <1>1, <2>2, DrainStep
  <2>3. CASE UNCHANGED boundedVars \/ B!Finished
    <3>1. UNCHANGED boundedVars BY <2>3 DEF B!Finished, B!vars, boundedVars
    <3>2. B!TypeOK' BY <1>1, <3>1 DEF QueueInv, boundedVars, B!TypeOK
    <3>3. Line' /\ B!BufferIsUsed' BY <1>1, <3>1 DEF QueueInv, boundedVars, Line, B!BufferIsUsed
    <3>4. B!NobodyParkedInVain' BY <1>1, <3>1 DEF QueueInv, boundedVars, B!NobodyParkedInVain
    <3>5. Closing' BY <1>1, <3>1 DEF QueueInv, boundedVars, Closing
    <3>6. Totals' BY <1>1, <3>1 DEF QueueInv, boundedVars, Totals
    <3> QED BY <3>2, <3>3, <3>4, <3>5, <3>6 DEF QueueInv
  <2> QED BY <1>1, <2>1, <2>2, <2>3 DEF BackpressureNext, B!Next
<1>2. BackpressureInit => QueueInv BY InitQueue DEF BackpressureInit
<1> QED BY <1>1, <1>2, PTL DEF BackpressureSpec

(* However pushing and draining interleave, for every capacity: what was   *)
(* accepted is drained once and in order, neither side sleeps beside       *)
(* something to do, and what the scenarios return adds up.                 *)
THEOREM QueueIsSafe == BackpressureSpec => []BoundedQueueIsSafe
<1>1. ASSUME QueueInv PROVE B!IInv
  <2>1. Len(accepted) - Len(drained) <= capacity BY <1>1, Types
  <2> QED BY <1>1, <2>1 DEF QueueInv, Line, B!IInv, B!AcceptedIsDrainedInOrder
<1>2. ASSUME QueueInv PROVE B!ScenarioTotals
  <2> SUFFICES ASSUME scenario = "returned"
               PROVE  /\ drained = accepted
                      /\ Len(accepted) + dropped = Tasks
                      /\ mode = "block" => dropped = 0
    BY DEF B!ScenarioTotals
  <2>1. ch = <<>> /\ next = Tasks + 1 BY <1>2 DEF QueueInv, Totals
  <2>2. drained = accepted BY <1>2, <2>1, Types, ConcatEmptySeq DEF QueueInv, Line
  <2> QED BY <1>2, <2>1, <2>2, Types DEF QueueInv, Totals
<1>3. QueueInv => BoundedQueueIsSafe
  BY <1>1, <1>2 DEF BoundedQueueIsSafe, B!BoundedQueueIsSafe
<1> QED BY <1>3, QueueInvariant, PTL

(* The unbounded queue of a composed behaviour is a behaviour of the       *)
(* queue.                                                                  *)
THEOREM BackpressureKeepsQueue == BackpressureSpec => [](NoLostWakeup /\ DrainedBeforeDone)
<1>1. BackpressureInit => Init BY DEF BackpressureInit
<1>2. [BackpressureNext]_<<queue, vars, boundedVars>> => [Next]_vars BY DEF BackpressureNext
<1> QED BY <1>1, <1>2, SignalSuffices, CloseDrains, PTL DEF BackpressureSpec, Spec

=============================================================================
