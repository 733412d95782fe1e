------------------------- MODULE WaitGroupOnceProofs -------------------------
(***************************************************************************)
(* Proofs about adv014_waitgroup_once for any number of callers and        *)
(* workers and any even size of half a word.  Of the Once: f runs once,    *)
(* its run is over before anybody returns, and a recursive Do never        *)
(* returns.  Of the WaitGroup: the packed word counts both sorts of use,   *)
(* Wait covers every worker added before go, and none that adds itself.    *)
(***************************************************************************)
EXTENDS WaitGroupOnce, FiniteSetTheorems, TLAPS

(* Who is inside the critical section holds the mutex, and so does the     *)
(* outer frame of a recursive call.                                        *)
Critical == {"check", "body", "store", "unlock"}
MutexHeld == \A c \in Caller : pc[c] \in Critical \/ depth[c] = 2 => owner = {c}

(* What done = 0 and done = 1 mean at each place of the code.              *)
RunOnce ==
  /\ done = 1 => ran = 1
  /\ done = 0 /\ ran # 0 => \E c \in Caller : pc[c] = "store"
  /\ \A c \in Caller :
       /\ pc[c] = "body" => done = 0 /\ ran = 0
       /\ pc[c] = "store" => done = 0 /\ ran = 1
       /\ pc[c] \in {"countFast", "unlock", "returned"} => done = 1

(* A recursive call never gets past the inner lock.                        *)
InnerCallStuck ==
  /\ \A c \in Caller :
       depth[c] = 2 => recursive /\ pc[c] \in {"load", "countSlow", "lock"}
  /\ recursive => /\ done = 0 /\ ran = 0
                  /\ \A c \in Caller : pc[c] # "store"

IInv == TypeOK /\ MutexHeld /\ RunOnce /\ InnerCallStuck

(* The initial state.                                                      *)
LEMMA InitInv == Init => IInv
BY DEF Init, IInv, TypeOK, PC, MutexHeld, Critical, RunOnce, InnerCallStuck

(* The steps of one caller keep the types.                                 *)
LEMMA StepTypes == ASSUME TypeOK, NEW c \in Caller, Do(c) PROVE TypeOK'
<1> USE DEF TypeOK, PC, Goto, ReturnFrom
<1>1. CASE Load(c) BY <1>1 DEF Load
<1>2. CASE CountFast(c) BY <1>2 DEF CountFast
<1>3. CASE CountSlow(c) BY <1>3 DEF CountSlow
<1>4. CASE Lock(c) BY <1>4 DEF Lock
<1>5. CASE Check(c) BY <1>5 DEF Check
<1>6. CASE Body(c) BY <1>6 DEF Body
<1>7. CASE BodyCallsDo(c) BY <1>7 DEF BodyCallsDo
<1>8. CASE Store(c) BY <1>8 DEF Store
<1>9. CASE Unlock(c) BY <1>9 DEF Unlock
<1> QED BY <1>1, <1>2, <1>3, <1>4, <1>5, <1>6, <1>7, <1>8, <1>9 DEF Do

(* The steps of one caller keep the rest.                                  *)
LEMMA StepInv ==
  ASSUME IInv, NEW c \in Caller, Do(c)
  PROVE  MutexHeld' /\ RunOnce' /\ InnerCallStuck'
<1> USE DEF IInv, TypeOK, PC, MutexHeld, Critical, RunOnce, InnerCallStuck, Goto
<1>1. CASE Load(c) BY <1>1 DEF Load
<1>2. CASE CountFast(c)
  <2>1. depth[c] = 1 BY <1>2 DEF CountFast, ReturnFrom
  <2> QED BY <1>2, <2>1 DEF CountFast, ReturnFrom
<1>3. CASE CountSlow(c) BY <1>3 DEF CountSlow
<1>4. CASE Lock(c)
  <2>1. \A d \in Caller : depth[d] = 1 /\ pc[d] \notin Critical BY <1>4 DEF Lock
  <2> QED BY <1>4, <2>1 DEF Lock
<1>5. CASE Check(c)
  <2>1. \A d \in Caller : pc[d] \in Critical => d = c BY <1>5 DEF Check
  <2>2. done = 0 => ran = 0 BY <1>5, <2>1 DEF Check
  <2> QED BY <1>5, <2>1, <2>2 DEF Check
<1>6. CASE Body(c)
  <2>1. \A d \in Caller : pc[d] \in Critical => d = c BY <1>6 DEF Body
  <2>2. ~recursive /\ done = 0 /\ ran = 0 BY <1>6 DEF Body
  <2> QED BY <1>6, <2>1, <2>2 DEF Body
<1>7. CASE BodyCallsDo(c)
  <2>1. \A d \in Caller : pc[d] \in Critical => d = c BY <1>7 DEF BodyCallsDo
  <2> QED BY <1>7, <2>1 DEF BodyCallsDo
<1>8. CASE Store(c)
  <2>1. \A d \in Caller : pc[d] \in Critical => d = c BY <1>8 DEF Store
  <2>2. ran = 1 /\ ~recursive BY <1>8 DEF Store
  <2> QED BY <1>8, <2>1, <2>2 DEF Store
<1>9. CASE Unlock(c)
  <2>1. \A d \in Caller : pc[d] \in Critical \/ depth[d] = 2 => d = c
    BY <1>9 DEF Unlock, ReturnFrom
  <2>2. depth[c] = 1 /\ done = 1 BY <1>9 DEF Unlock, ReturnFrom
  <2> QED BY <1>9, <2>1, <2>2 DEF Unlock, ReturnFrom
<1> QED BY <1>1, <1>2, <1>3, <1>4, <1>5, <1>6, <1>7, <1>8, <1>9 DEF Do

(* IInv is inductive.                                                      *)
THEOREM InductiveInvariant == Spec => []IInv
<1>1. ASSUME IInv, [Next]_vars PROVE IInv'
  <2>1. CASE \E c \in Caller : Do(c) BY <1>1, <2>1, StepTypes, StepInv DEF IInv
  <2>2. CASE UNCHANGED vars
    BY <1>1, <2>2 DEF vars, IInv, TypeOK, MutexHeld, RunOnce, InnerCallStuck
  <2> QED BY <1>1, <2>1, <2>2 DEF Next, AllReturned, Deadlocked
<1> QED BY InitInv, <1>1, PTL DEF Spec

(* f runs at most once, and has finished when Do returns to anybody.       *)
THEOREM DoIsOnce == Spec => []OnceAndBeforeReturn
<1>1. IInv => OnceAndBeforeReturn
  BY DEF IInv, TypeOK, RunOnce, OnceAndBeforeReturn, Returned
<1> QED BY InductiveInvariant, <1>1, PTL

(* Do called from its own f returns to nobody.                             *)
THEOREM RecursionIsStuck == Spec => []RecursionNeverReturns
<1>1. IInv => RecursionNeverReturns
  BY DEF IInv, RunOnce, InnerCallStuck, RecursionNeverReturns, Returned
<1> QED BY InductiveInvariant, <1>1, PTL

(* Once one call has returned no new call takes the lock.                  *)
THEOREM WarmCallsSkipTheLock == Spec => WarmCallsAreFast
<1>1. ASSUME IInv, [Next]_vars
      PROVE  [Returned # {} =>
                \A c \in Caller : pc[c] = "load" => pc'[c] \in {"load", "countFast"}]_vars
  <2> SUFFICES ASSUME Returned # {}, NEW c \in Caller, pc[c] = "load"
               PROVE  pc'[c] \in {"load", "countFast"}
    OBVIOUS
  <2>1. done = 1 BY <1>1 DEF IInv, RunOnce, Returned
  <2>2. CASE UNCHANGED vars BY <2>2 DEF vars
  <2>3. ASSUME NEW d \in Caller, Do(d) PROVE pc'[c] \in {"load", "countFast"}
    <3>1. CASE d = c
      BY <2>1, <2>3, <3>1, <1>1 DEF Do, Load, CountFast, CountSlow, Lock, Check, Body,
         BodyCallsDo, Store, Unlock, ReturnFrom, Goto, IInv, TypeOK
    <3>2. CASE d # c
      BY <2>3, <3>2, <1>1 DEF Do, Load, CountFast, CountSlow, Lock, Check, Body, BodyCallsDo,
         Store, Unlock, ReturnFrom, Goto, IInv, TypeOK
    <3> QED BY <3>1, <3>2
  <2> QED BY <1>1, <2>2, <2>3 DEF Next, AllReturned, Deadlocked
<1> QED BY InductiveInvariant, <1>1, PTL DEF Spec, WarmCallsAreFast

-----------------------------------------------------------------------------
(* The WaitGroup.                                                          *)

Worker == W!Worker
Word == W!Word

(* Where a worker can be.                                                  *)
Labels == {"none", "ready", "added", "sending", "completed", "finished"}

(* The labels of a worker that has counted itself, in each function.       *)
Counted == {"sending", "completed", "finished"}

(* The word holds the counter and the waiters side by side.                *)
Packed(c, r) == c * Half + r

Added ==
  CASE variant = "wrong" -> Cardinality(W!WorkersAt({"added", "sending", "completed"}))
    [] variant = "correct" /\ main # "add" -> N - Cardinality(W!WorkersAt({"finished"}))
    [] OTHER -> 0

(* What the word holds while nothing panics.                               *)
WordCounts == main # "panicked" => state = Packed(Added, IF main = "asleep" THEN 1 ELSE 0)

(* Which workers exist, and what they have counted.                        *)
WorkersCount ==
  /\ \A w \in Worker : worker[w] = "none" <=> w > spawned
  /\ main = "add" => spawned = 0
  /\ main \notin {"add", "spawn", "done", "panicked"} => spawned = N
  /\ completed = Cardinality(W!WorkersAt(Counted))
  /\ variant = "wrong" => messages = Cardinality(W!WorkersAt({"completed", "finished"}))

(* Where the three functions and their workers can be.                     *)
CorrectUse ==
  variant = "correct" =>
    /\ main \in {"add", "spawn", "asleep", "woken", "returned"}
    /\ \A w \in Worker : worker[w] \in {"none", "ready", "completed", "finished"}
    /\ main \in {"woken", "returned"} => \A w \in Worker : worker[w] = "finished"
WrongUse ==
  variant = "wrong" =>
    /\ main \in {"spawn", "woken", "release", "collect", "returned"}
    /\ started <=> main \in {"collect", "returned"}
    /\ ~started => \A w \in Worker : worker[w] \in {"none", "ready"}
    /\ before \in {-1, 0}
    /\ main = "returned" => final = N
NegativeUse ==
  variant = "negative" =>
    /\ main \in {"done", "panicked"}
    /\ \A w \in Worker : worker[w] = "none"

GroupInv ==
  W!TypeOK /\ WordCounts /\ WorkersCount /\ CorrectUse /\ WrongUse /\ NegativeUse

(* A quotient and a remainder are unique.                                  *)
LEMMA DivUnique ==
  ASSUME NEW m \in Nat, m > 0, NEW q \in Int, NEW r \in 0 .. m - 1
  PROVE  (q * m + r) \div m = q /\ (q * m + r) % m = r
OBVIOUS

(* The sizes of the halves.                                                *)
LEMMA HalfFacts ==
  /\ Half \in Nat /\ Half >= 2
  /\ N \in Nat
  /\ Half \div 2 \in Nat /\ N < Half \div 2 /\ Half \div 2 < Half
  /\ Word \in Nat /\ Word = Half * Half /\ Word > 0
BY NAssumption, HalfAssumption DEF Word, W!Word

(* A product with a smaller factor is smaller by at least one half word.   *)
LEMMA HalfStep ==
  ASSUME NEW c \in Int, NEW d \in Int, c < d
  PROVE  c * Half + Half <= d * Half
<1>1. PICK k \in Nat : d = c + 1 + k
  <2>1. d - c - 1 \in Nat /\ d = c + 1 + (d - c - 1) OBVIOUS
  <2> QED BY <2>1
<1>2. d * Half = c * Half + Half + k * Half /\ k * Half >= 0 BY <1>1, HalfFacts
<1> QED BY <1>2, HalfFacts

(* The word gives the two halves back.                                     *)
LEMMA Unpacked ==
  ASSUME NEW c \in 0 .. N, NEW r \in 0 .. 1
  PROVE  /\ Packed(c, r) \in 0 .. Word - 1
         /\ W!Counter(Packed(c, r)) = c
         /\ W!Waiters(Packed(c, r)) = r
<1>1. r \in 0 .. Half - 1 /\ c \in Int /\ c < Half /\ c < Half \div 2 BY HalfFacts
<1>2. Packed(c, r) \div Half = c /\ Packed(c, r) % Half = r
  <2>1. (c * Half + r) \div Half = c /\ (c * Half + r) % Half = r
    <3>1. Half > 0 BY HalfFacts
    <3> HIDE DEF Packed
    <3> QED BY <1>1, <3>1, HalfFacts, DivUnique
  <2> QED BY <2>1 DEF Packed
<1>3. c * Half \in Int /\ c * Half >= 0 BY HalfFacts
<1>4. c * Half + Half <= Half * Half BY <1>1, HalfStep, HalfFacts
<1> QED BY <1>1, <1>2, <1>3, <1>4, HalfFacts DEF W!Counter, W!Waiters, Packed

(* Adding to the word is adding to its counter, up and down.               *)
LEMMA PlusCounts ==
  ASSUME NEW c \in 0 .. N, NEW r \in 0 .. 1, NEW d \in Int, c + d \in 0 .. N,
         d >= -Half, d < Half, state = Packed(c, r)
  PROVE  W!Plus(d) = Packed(c + d, r)
<1>1. Packed(c + d, r) \in 0 .. Word - 1 BY Unpacked
<1>2. d * Half \in Int /\ c * Half \in Int /\ (c + d) * Half = c * Half + d * Half
  BY HalfFacts
<1>3. state \in Int /\ state + d * Half = Packed(c + d, r) BY <1>2 DEF Packed
<1>4. CASE d >= 0
  <2>1. d * Half >= 0 /\ d * Half + Half <= Half * Half BY <1>4, HalfStep, HalfFacts
  <2>2. (d * Half) % Word = d * Half
    <3>1. d * Half \in 0 .. Word - 1 BY <2>1, <1>2, HalfFacts
    <3>2. d * Half = 0 * Word + d * Half BY <1>2, HalfFacts
    <3> QED BY <3>1, <3>2, DivUnique, HalfFacts
  <2>3. Packed(c + d, r) = 0 * Word + Packed(c + d, r) BY <1>1, HalfFacts
  <2>4. Packed(c + d, r) % Word = Packed(c + d, r) BY <2>3, <1>1, DivUnique, HalfFacts
  <2> QED BY <2>2, <2>4, <1>3 DEF W!Plus, W!High32Delta, Word
<1>5. CASE d < 0
  <2>1. d * Half < 0 /\ -(Half * Half) <= d * Half
    <3>1. d * Half + Half <= 0 * Half BY <1>5, HalfStep
    <3>2. CASE d = -Half BY <3>1, <3>2, <1>2, HalfFacts
    <3>3. CASE -Half < d
      <4>1. (-Half) * Half + Half <= d * Half BY <3>3, HalfStep, HalfFacts
      <4> QED BY <4>1, <3>1, <1>2, HalfFacts
    <3> QED BY <3>2, <3>3, HalfFacts
  <2>2. (d * Half) % Word = d * Half + Word
    <3>1. d * Half + Word \in 0 .. Word - 1 BY <2>1, <1>2, HalfFacts
    <3>2. d * Half = (-1) * Word + (d * Half + Word) BY <1>2, HalfFacts
    <3> QED BY <3>1, <3>2, DivUnique, HalfFacts
  <2>3. state + (d * Half + Word) = 1 * Word + Packed(c + d, r)
    BY <1>1, <1>2, <1>3, HalfFacts
  <2>4. (1 * Word + Packed(c + d, r)) % Word = Packed(c + d, r) BY <1>1, DivUnique, HalfFacts
  <2> QED BY <2>2, <2>3, <2>4 DEF W!Plus, W!High32Delta, Word
<1> QED BY <1>4, <1>5

(* Done on a fresh word makes the counter negative.                        *)
LEMMA FreshDone ==
  ASSUME state = 0
  PROVE  W!Plus(-1) \in 0 .. Word - 1 /\ W!Counter(W!Plus(-1)) < 0
<1>1. (-1) * Half = (-1) * Word + (Word - Half) /\ Word - Half \in 0 .. Word - 1
  <2>1. 1 * Half + Half <= Half * Half \/ Half = 2 BY HalfStep, HalfFacts
  <2> QED BY <2>1, HalfFacts
<1>2. ((-1) * Half) % Word = Word - Half BY <1>1, DivUnique, HalfFacts
<1>3. (Word - Half) % Word = Word - Half
  <2>1. Word - Half = 0 * Word + (Word - Half) BY HalfFacts
  <2> QED BY <2>1, <1>1, DivUnique, HalfFacts
<1>4. W!Plus(-1) = Word - Half
  <2>1. state + (Word - Half) = Word - Half BY HalfFacts
  <2> QED BY <1>2, <1>3, <2>1 DEF W!Plus, W!High32Delta, Word
<1>5. (Word - Half) \div Half = Half - 1
  <2>1. Word - Half = (Half - 1) * Half + 0 BY HalfFacts
  <2> QED BY <2>1, DivUnique, HalfFacts
<1> QED BY <1>1, <1>4, <1>5, HalfFacts DEF W!Counter

(* A worker that goes from one label to another leaves the sets of the one *)
(* and joins the sets of the other.                                        *)
LEMMA WorkerMoves ==
  ASSUME NEW f \in [Worker -> Labels], NEW w \in Worker, NEW l \in Labels, NEW L
  PROVE  LET At(g) == {x \in Worker : g[x] \in L}
             A == At(f)
             B == At([f EXCEPT ![w] = l])
         IN  /\ Cardinality(A) \in 0 .. N
             /\ Cardinality(B) \in 0 .. N
             /\ f[w] \in L /\ l \notin L => Cardinality(B) = Cardinality(A) - 1
             /\ f[w] \notin L /\ l \in L => Cardinality(B) = Cardinality(A) + 1
             /\ (f[w] \in L <=> l \in L) => B = A
             /\ Cardinality(A) = 0 => \A x \in Worker : f[x] \notin L
             /\ Cardinality(A) = N => A = Worker
<1> DEFINE A == {x \in Worker : f[x] \in L}
           B == {x \in Worker : [f EXCEPT ![w] = l][x] \in L}
<1>1. IsFiniteSet(Worker) /\ Cardinality(Worker) = N
  BY FS_Interval, HalfFacts DEF Worker, W!Worker
<1>2. /\ IsFiniteSet(A) /\ IsFiniteSet(B)
      /\ Cardinality(A) <= N /\ Cardinality(B) <= N
      /\ Cardinality(A) = N => A = Worker
  <2>1. A \in SUBSET Worker /\ B \in SUBSET Worker OBVIOUS
  <2> HIDE DEF A, B
  <2> QED BY <1>1, <2>1, FS_Subset
<1>3. Cardinality(A) \in Nat /\ Cardinality(B) \in Nat BY <1>2, FS_CardinalityType
<1>4. Cardinality(A) = 0 => A = {} BY <1>2, FS_EmptySet
<1>5. ASSUME f[w] \in L, l \notin L PROVE Cardinality(B) = Cardinality(A) - 1
  <2>1. B = A \ {w} /\ w \in A BY <1>5
  <2> HIDE DEF A, B
  <2> QED BY <2>1, <1>2, FS_RemoveElement
<1>6. ASSUME f[w] \notin L, l \in L PROVE Cardinality(B) = Cardinality(A) + 1
  <2>1. B = A \cup {w} /\ w \notin A BY <1>6
  <2> HIDE DEF A, B
  <2> QED BY <2>1, <1>2, FS_AddElement
<1>7. ASSUME f[w] \in L <=> l \in L PROVE B = A BY <1>7
<1>8. Cardinality(A) = 0 => \A x \in Worker : f[x] \notin L BY <1>4
<1> HIDE DEF A, B
<1>9. /\ Cardinality(A) \in 0 .. N
      /\ Cardinality(B) \in 0 .. N
  BY <1>2, <1>3, HalfFacts
<1> QED BY <1>2, <1>5, <1>6, <1>7, <1>8, <1>9 DEF A, B

(* As many workers as there are, are all of them.                          *)
LEMMA AllOfThem ==
  ASSUME NEW A \in SUBSET Worker, Cardinality(A) = N
  PROVE  A = Worker
<1>1. IsFiniteSet(Worker) /\ Cardinality(Worker) = N
  BY FS_Interval, HalfFacts DEF Worker, W!Worker
<1> HIDE DEF Worker
<1> QED BY <1>1, FS_Subset

(* The sets of workers before and after one of them moves.                 *)
LEMMA StepCounts ==
  ASSUME W!TypeOK, NEW w \in Worker, NEW l \in Labels, NEW L
  PROVE  LET A == W!WorkersAt(L)
             B == {x \in Worker : [worker EXCEPT ![w] = l][x] \in L}
         IN  /\ Cardinality(A) \in 0 .. N
             /\ Cardinality(B) \in 0 .. N
             /\ worker[w] \in L /\ l \notin L => Cardinality(B) = Cardinality(A) - 1
             /\ worker[w] \notin L /\ l \in L => Cardinality(B) = Cardinality(A) + 1
             /\ (worker[w] \in L <=> l \in L) => B = A
             /\ Cardinality(A) = 0 => \A x \in Worker : worker[x] \notin L
             /\ Cardinality(A) = N => A = Worker
<1>1. worker \in [Worker -> Labels] BY DEF W!TypeOK, Worker, Labels
<1>2. W!WorkersAt(L) = {x \in Worker : worker[x] \in L} BY DEF W!WorkersAt, Worker
<1> HIDE DEF Worker
<1> QED BY <1>1, <1>2, WorkerMoves

(* What the counts of the invariant are worth while no worker moves.       *)
LEMMA CountBounds ==
  ASSUME W!TypeOK, NEW L
  PROVE  /\ Cardinality(W!WorkersAt(L)) \in 0 .. N
         /\ Cardinality(W!WorkersAt(L)) = 0 => \A x \in Worker : worker[x] \notin L
         /\ Cardinality(W!WorkersAt(L)) = N => W!WorkersAt(L) = Worker
         /\ (\A x \in Worker : worker[x] \notin L) => Cardinality(W!WorkersAt(L)) = 0
         /\ (\A x \in Worker : worker[x] \in L) => Cardinality(W!WorkersAt(L)) = N
<1>1. IsFiniteSet(Worker) /\ Cardinality(Worker) = N
  BY FS_Interval, HalfFacts DEF Worker, W!Worker
<1>2. W!WorkersAt(L) \in SUBSET Worker BY DEF W!WorkersAt, Worker
<1>3. /\ IsFiniteSet(W!WorkersAt(L))
      /\ Cardinality(W!WorkersAt(L)) <= N
      /\ Cardinality(W!WorkersAt(L)) = N => W!WorkersAt(L) = Worker
  BY <1>1, <1>2, FS_Subset
<1>4. Cardinality(W!WorkersAt(L)) \in Nat BY <1>3, FS_CardinalityType
<1>5. Cardinality(W!WorkersAt(L)) = 0 => W!WorkersAt(L) = {} BY <1>3, FS_EmptySet
<1>6. (\A x \in Worker : worker[x] \notin L) => W!WorkersAt(L) = {}
  BY DEF W!WorkersAt, Worker
<1>7. (\A x \in Worker : worker[x] \in L) => W!WorkersAt(L) = Worker
  BY DEF W!WorkersAt, Worker
<1> QED
  BY <1>1, <1>3, <1>4, <1>5, <1>6, <1>7, FS_EmptySet, HalfFacts DEF W!WorkersAt, Worker

(* The counter that the word holds is a number of workers.                 *)
LEMMA AddedType == ASSUME W!TypeOK PROVE Added \in 0 .. N
BY CountBounds, HalfFacts DEF Added

(* The initial state.                                                      *)
LEMMA GroupInit == ASSUME W!Init PROVE GroupInv
<1>1. W!TypeOK
  <2>1. 0 \in 0 .. Word - 1 /\ 0 \in 0 .. N /\ -1 \in -1 .. N BY HalfFacts
  <2> QED BY <2>1, VariantsAssumption DEF W!Init, W!TypeOK, Word
<1>2. \A L : "none" \notin L => Cardinality(W!WorkersAt(L)) = 0
  <2> SUFFICES ASSUME NEW L, "none" \notin L PROVE Cardinality(W!WorkersAt(L)) = 0
    OBVIOUS
  <2> QED BY <1>1, CountBounds DEF W!Init, Worker
<1>3. Packed(0, 0) = 0 /\ \A w \in Worker : w > 0 BY HalfFacts DEF Packed, Worker, W!Worker
<1>4. Cardinality(W!WorkersAt(Counted)) = 0
      /\ Cardinality(W!WorkersAt({"completed", "finished"})) = 0
      /\ Cardinality(W!WorkersAt({"added", "sending", "completed"})) = 0
  BY <1>2 DEF Counted
<1>5. variant \in {"correct", "wrong", "negative"} BY VariantsAssumption DEF W!Init
<1>6. WordCounts BY <1>3, <1>4, <1>5 DEF WordCounts, Added, W!Init
<1>7. WorkersCount BY <1>3, <1>4, <1>5 DEF WorkersCount, W!Init, Worker
<1>8. CorrectUse /\ WrongUse /\ NegativeUse
  BY <1>5 DEF CorrectUse, WrongUse, NegativeUse, W!Init, Worker
<1> QED BY <1>1, <1>6, <1>7, <1>8 DEF GroupInv

(* A worker moves: what becomes of the counts.                             *)
LEMMA CountsMove ==
  ASSUME W!TypeOK, NEW w \in Worker, NEW l \in Labels,
         worker' = [worker EXCEPT ![w] = l], NEW CONSTANT L
  PROVE  LET a == Cardinality(W!WorkersAt(L))
         IN  /\ a \in 0 .. N /\ a' \in 0 .. N
             /\ worker[w] \in L /\ l \notin L => a' = a - 1
             /\ worker[w] \notin L /\ l \in L => a' = a + 1
             /\ (worker[w] \in L <=> l \in L) => a' = a
<1> DEFINE A == W!WorkersAt(L)
           B == {x \in Worker : [worker EXCEPT ![w] = l][x] \in L}
<1>1. A' = B BY DEF W!WorkersAt, Worker
<1>2. Cardinality(A)' = Cardinality(B) BY <1>1
<1>3. /\ Cardinality(A) \in 0 .. N /\ Cardinality(B) \in 0 .. N
      /\ worker[w] \in L /\ l \notin L => Cardinality(B) = Cardinality(A) - 1
      /\ worker[w] \notin L /\ l \in L => Cardinality(B) = Cardinality(A) + 1
      /\ (worker[w] \in L <=> l \in L) => B = A
  BY StepCounts
<1> HIDE DEF A, B
<1> QED BY <1>2, <1>3 DEF A

(* The counts that the invariant speaks of, when a worker moves.           *)
LEMMA AllCountsMove ==
  ASSUME W!TypeOK, NEW w \in Worker, NEW l \in Labels, worker' = [worker EXCEPT ![w] = l]
  PROVE  LET Step(L, a) == /\ a \in 0 .. N /\ a' \in 0 .. N
                           /\ worker[w] \in L /\ l \notin L => a' = a - 1
                           /\ worker[w] \notin L /\ l \in L => a' = a + 1
                           /\ (worker[w] \in L <=> l \in L) => a' = a
         IN  /\ Step(Counted, Cardinality(W!WorkersAt(Counted)))
             /\ Step({"completed", "finished"},
                     Cardinality(W!WorkersAt({"completed", "finished"})))
             /\ Step({"added", "sending", "completed"},
                     Cardinality(W!WorkersAt({"added", "sending", "completed"})))
             /\ Step({"finished"}, Cardinality(W!WorkersAt({"finished"})))
BY CountsMove

(* The calling function keeps the invariant.                               *)
LEMMA MainKeeps == ASSUME GroupInv, W!Main PROVE GroupInv'
<1> DEFINE F == Cardinality(W!WorkersAt({"finished"}))
           A == Cardinality(W!WorkersAt({"added", "sending", "completed"}))
           C == Cardinality(W!WorkersAt(Counted))
           D == Cardinality(W!WorkersAt({"completed", "finished"}))
<1>0. /\ W!TypeOK /\ WordCounts /\ WorkersCount /\ CorrectUse /\ WrongUse /\ NegativeUse
      /\ variant \in {"correct", "wrong", "negative"}
      /\ N \in Nat /\ 0 \in 0 .. N
  BY VariantsAssumption, HalfFacts DEF GroupInv, W!TypeOK
<1>1. CASE W!AddAll
  <2>1. /\ main = "add" /\ main' = "spawn" /\ state' = W!Plus(N)
        /\ UNCHANGED <<variant, spawned, started, worker, completed, messages, before, final>>
    BY <1>1 DEF W!AddAll
  <2>2. variant = "correct" /\ spawned = 0
    BY <1>0, <2>1 DEF WorkersCount, WrongUse, NegativeUse
  <2>3. \A x \in Worker : worker[x] = "none"
    BY <1>0, <2>2, HalfFacts DEF WorkersCount, Worker, W!Worker
  <2>4. F = 0
    <3>1. \A x \in Worker : worker[x] \notin {"finished"} BY <2>3
    <3> QED BY <3>1, <1>0, CountBounds
  <2>5. state = Packed(0, 0) BY <1>0, <2>1, <2>2 DEF WordCounts, Added
  <2>6. state' = Packed(N, 0)
    <3>1. N < Half /\ N >= -Half /\ 0 + N \in 0 .. N BY HalfFacts
    <3>2. W!Plus(N) = Packed(0 + N, 0) BY <3>1, <2>5, <1>0, PlusCounts
    <3> QED BY <3>2, <2>1, HalfFacts
  <2>7. F' = 0 BY <2>1, <2>4 DEF W!WorkersAt
  <2>8. Added' = N BY <2>1, <2>2, <2>7, HalfFacts DEF Added
  <2>9. W!TypeOK'
    <3>1. state' \in 0 .. Word - 1 BY <2>6, Unpacked, HalfFacts
    <3> QED BY <1>0, <2>1, <3>1 DEF W!TypeOK, Word
  <2>10. WordCounts' BY <2>1, <2>6, <2>8 DEF WordCounts
  <2>11. WorkersCount' BY <1>0, <2>1, <2>2 DEF WorkersCount, W!WorkersAt
  <2>12. CorrectUse' /\ WrongUse' /\ NegativeUse'
    BY <1>0, <2>1, <2>2 DEF CorrectUse, WrongUse, NegativeUse
  <2> QED BY <2>9, <2>10, <2>11, <2>12 DEF GroupInv
<1>2. CASE W!Spawn
  <2> DEFINE w == spawned + 1
  <2>1. /\ main = "spawn" /\ spawned < N /\ spawned' = w
        /\ worker' = [worker EXCEPT ![w] = "ready"]
        /\ UNCHANGED <<variant, state, main, started, completed, messages, before, final>>
    BY <1>2 DEF W!Spawn
  <2>2. w \in Worker /\ spawned \in 0 .. N /\ w \in 0 .. N /\ worker[w] = "none"
    BY <1>0, <2>1 DEF W!TypeOK, Worker, W!Worker, WorkersCount
  <2>3. worker \in [Worker -> Labels] BY <1>0 DEF W!TypeOK, Worker, Labels
  <2>4. variant # "negative" BY <1>0, <2>1 DEF NegativeUse
  <2> HIDE DEF w
  <2>5. F' = F /\ A' = A /\ C' = C /\ D' = D
    BY <1>0, <2>1, <2>2, AllCountsMove DEF Labels, Counted
  <2>6. W!TypeOK' BY <1>0, <2>1, <2>2, <2>3 DEF W!TypeOK, Worker, Labels
  <2>7. WordCounts' BY <1>0, <2>1, <2>5 DEF WordCounts, Added
  <2>8. WorkersCount'
    <3>1. \A x \in Worker : worker'[x] = "none" <=> x > spawned'
      BY <1>0, <2>1, <2>2, <2>3 DEF WorkersCount, Worker, W!Worker, w
    <3> QED BY <3>1, <1>0, <2>1, <2>5 DEF WorkersCount
  <2>9. CorrectUse' /\ WrongUse' /\ NegativeUse'
    BY <1>0, <2>1, <2>2, <2>3, <2>4 DEF CorrectUse, WrongUse, NegativeUse
  <2> QED BY <2>6, <2>7, <2>8, <2>9 DEF GroupInv
<1>3. CASE W!CallWait
  <2>1. /\ main = "spawn" /\ spawned = N
        /\ UNCHANGED <<variant, spawned, started, worker, completed, messages, before, final>>
    BY <1>3 DEF W!CallWait, W!Wait
  <2>2. variant \in {"correct", "wrong"} BY <1>0, <2>1 DEF NegativeUse
  <2>3. state = Packed(Added, 0) /\ Added \in 0 .. N
    BY <1>0, <2>1, AddedType DEF WordCounts
  <2>4. W!Counter(state) = Added BY <2>3, Unpacked
  <2>5. \A x \in Worker : worker[x] # "none"
    BY <1>0, <2>1 DEF WorkersCount, Worker, W!Worker
  <2>6. CASE Added = 0
    <3>1. main' = "woken" /\ state' = state BY <1>3, <2>4, <2>6 DEF W!CallWait, W!Wait
    <3>2. Added' = Added BY <2>1, <2>2, <3>1 DEF Added, W!WorkersAt
    <3>3. variant = "correct" => \A x \in Worker : worker[x] = "finished"
      <4> SUFFICES ASSUME variant = "correct"
                   PROVE  \A x \in Worker : worker[x] = "finished"
        OBVIOUS
      <4>1. F \in 0 .. N /\ F = N => W!WorkersAt({"finished"}) = Worker
        BY <1>0, CountBounds
      <4>2. F = N
        <5>1. F \in 0 .. N BY <1>0, CountBounds
        <5> QED BY <5>1, <2>1, <2>6, HalfFacts DEF Added
      <4> QED BY <1>0, <4>1, <4>2, CountBounds DEF W!WorkersAt
    <3>4. W!TypeOK' BY <1>0, <2>1, <3>1 DEF W!TypeOK
    <3>5. WordCounts' BY <1>0, <2>1, <2>3, <3>1, <3>2 DEF WordCounts
    <3>6. WorkersCount' BY <1>0, <2>1, <3>1 DEF WorkersCount, W!WorkersAt
    <3>7. CorrectUse' /\ WrongUse' /\ NegativeUse'
      BY <1>0, <2>1, <2>2, <3>1, <3>3 DEF CorrectUse, WrongUse, NegativeUse
    <3> QED BY <3>4, <3>5, <3>6, <3>7 DEF GroupInv
  <2>7. CASE Added # 0
    <3>1. main' = "asleep" /\ state' = (state + 1) % Word
      BY <1>3, <2>4, <2>7 DEF W!CallWait, W!Wait, Word
    <3>2. variant = "correct"
      <4> SUFFICES ASSUME variant = "wrong" PROVE FALSE BY <2>2
      <4>1. ~started BY <1>0, <2>1 DEF WrongUse
      <4>2. \A x \in Worker : worker[x] \notin {"added", "sending", "completed"}
        BY <1>0, <4>1 DEF WrongUse
      <4>3. A = 0 BY <1>0, <4>2, CountBounds
      <4> QED BY <4>3, <2>7 DEF Added
    <3>3. Added' = Added BY <2>1, <3>1, <3>2 DEF Added, W!WorkersAt
    <3>4. state' = Packed(Added, 1)
      <4>1. Packed(Added, 1) \in 0 .. Word - 1 BY <2>3, Unpacked
      <4>2. Packed(Added, 0) + 1 = 0 * Word + Packed(Added, 1)
        BY <2>3, HalfFacts DEF Packed
      <4>3. (0 * Word + Packed(Added, 1)) % Word = Packed(Added, 1)
        BY <4>1, DivUnique, HalfFacts
      <4> QED BY <2>3, <3>1, <4>2, <4>3
    <3>5. W!TypeOK'
      <4>1. state' \in 0 .. Word - 1 BY <2>3, <3>4, Unpacked
      <4> QED BY <1>0, <2>1, <3>1, <4>1 DEF W!TypeOK, Word
    <3>6. WordCounts' BY <3>1, <3>3, <3>4 DEF WordCounts
    <3>7. WorkersCount' BY <1>0, <2>1, <3>1 DEF WorkersCount, W!WorkersAt
    <3>8. CorrectUse' /\ WrongUse' /\ NegativeUse'
      BY <1>0, <2>1, <3>1, <3>2 DEF CorrectUse, WrongUse, NegativeUse
    <3> QED BY <3>5, <3>6, <3>7, <3>8 DEF GroupInv
  <2> QED BY <2>6, <2>7
<1>4. CASE W!AfterWait
  <2>1. /\ main = "woken" /\ before' = completed
        /\ main' = (IF variant = "correct" THEN "returned" ELSE "release")
        /\ final' = (IF variant = "correct" THEN completed ELSE final)
        /\ UNCHANGED <<variant, state, spawned, started, worker, completed, messages>>
    BY <1>4 DEF W!AfterWait
  <2>2. variant \in {"correct", "wrong"} BY <1>0, <2>1 DEF NegativeUse
  <2>3. Added' = Added BY <2>1, <2>2 DEF Added, W!WorkersAt
  <2>4. W!TypeOK' BY <1>0, <2>1 DEF W!TypeOK
  <2>5. WordCounts' BY <1>0, <2>1, <2>2, <2>3 DEF WordCounts
  <2>6. WorkersCount' BY <1>0, <2>1, <2>2 DEF WorkersCount, W!WorkersAt
  <2>7. variant = "wrong" => before' = 0
    <3> SUFFICES ASSUME variant = "wrong" PROVE completed = 0 BY <2>1
    <3>1. ~started BY <1>0, <2>1 DEF WrongUse
    <3>2. \A x \in Worker : worker[x] \notin Counted BY <1>0, <3>1 DEF WrongUse, Counted
    <3>3. C = 0 BY <1>0, <3>2, CountBounds
    <3> QED BY <1>0, <3>3 DEF WorkersCount
  <2>8. CorrectUse' /\ WrongUse' /\ NegativeUse'
    BY <1>0, <2>1, <2>2, <2>7 DEF CorrectUse, WrongUse, NegativeUse
  <2> QED BY <2>4, <2>5, <2>6, <2>8 DEF GroupInv
<1>5. CASE W!CloseStart
  <2>1. /\ main = "release" /\ main' = "collect" /\ started' = TRUE
        /\ UNCHANGED <<variant, state, spawned, worker, completed, messages, before, final>>
    BY <1>5 DEF W!CloseStart
  <2>2. variant = "wrong" BY <1>0, <2>1 DEF NegativeUse, CorrectUse
  <2>3. W!TypeOK' BY <1>0, <2>1 DEF W!TypeOK
  <2>4. WordCounts' BY <1>0, <2>1, <2>2 DEF WordCounts, Added, W!WorkersAt
  <2>5. WorkersCount' BY <1>0, <2>1 DEF WorkersCount, W!WorkersAt
  <2>6. CorrectUse' /\ WrongUse' /\ NegativeUse'
    BY <1>0, <2>1, <2>2 DEF CorrectUse, WrongUse, NegativeUse
  <2> QED BY <2>3, <2>4, <2>5, <2>6 DEF GroupInv
<1>6. CASE W!Collect
  <2>1. /\ main = "collect" /\ messages = N /\ final' = completed /\ main' = "returned"
        /\ UNCHANGED <<variant, state, spawned, started, worker, completed, messages, before>>
    BY <1>6 DEF W!Collect
  <2>2. variant = "wrong" BY <1>0, <2>1 DEF NegativeUse, CorrectUse
  <2>3. completed = N
    <3>1. D = N BY <1>0, <2>1, <2>2 DEF WorkersCount
    <3>2. W!WorkersAt({"completed", "finished"}) = Worker BY <1>0, <3>1, CountBounds
    <3>3. \A x \in Worker : worker[x] \in Counted BY <3>2 DEF W!WorkersAt, Counted
    <3>4. C = N BY <1>0, <3>3, CountBounds
    <3> QED BY <1>0, <3>4 DEF WorkersCount
  <2>4. W!TypeOK' BY <1>0, <2>1 DEF W!TypeOK
  <2>5. WordCounts' BY <1>0, <2>1, <2>2 DEF WordCounts, Added, W!WorkersAt
  <2>6. WorkersCount' BY <1>0, <2>1 DEF WorkersCount, W!WorkersAt
  <2>7. CorrectUse' /\ WrongUse' /\ NegativeUse'
    BY <1>0, <2>1, <2>2, <2>3 DEF CorrectUse, WrongUse, NegativeUse
  <2> QED BY <2>4, <2>5, <2>6, <2>7 DEF GroupInv
<1>7. CASE W!DoneWithoutAdd
  <2>1. /\ main = "done" /\ W!Add(-1)
        /\ UNCHANGED <<variant, spawned, started, worker, completed, messages, before, final>>
    BY <1>7 DEF W!DoneWithoutAdd
  <2>2. variant = "negative" BY <1>0, <2>1 DEF CorrectUse, WrongUse
  <2>3. state = 0
    <3>1. Added = 0 BY <2>2 DEF Added
    <3> QED BY <1>0, <2>1, <3>1, HalfFacts DEF WordCounts, Packed
  <2>4. state' \in 0 .. Word - 1 /\ main' = "panicked"
    BY <2>1, <2>3, FreshDone DEF W!Add
  <2>5. W!TypeOK' BY <1>0, <2>1, <2>4 DEF W!TypeOK, Word
  <2>6. WordCounts' BY <2>4 DEF WordCounts
  <2>7. WorkersCount' BY <1>0, <2>1, <2>4 DEF WorkersCount, W!WorkersAt
  <2>8. CorrectUse' /\ WrongUse' /\ NegativeUse'
    BY <1>0, <2>1, <2>2, <2>4 DEF CorrectUse, WrongUse, NegativeUse
  <2> QED BY <2>5, <2>6, <2>7, <2>8 DEF GroupInv
<1> QED BY <1>1, <1>2, <1>3, <1>4, <1>5, <1>6, <1>7 DEF W!Main

(* The workers keep the invariant.                                         *)
LEMMA WorkKeeps == ASSUME GroupInv, NEW w \in Worker, W!Work(w) PROVE GroupInv'
<1> DEFINE F == Cardinality(W!WorkersAt({"finished"}))
           A == Cardinality(W!WorkersAt({"added", "sending", "completed"}))
           C == Cardinality(W!WorkersAt(Counted))
           D == Cardinality(W!WorkersAt({"completed", "finished"}))
<1>0. /\ W!TypeOK /\ WordCounts /\ WorkersCount /\ CorrectUse /\ WrongUse /\ NegativeUse
      /\ worker \in [Worker -> Labels]
      /\ variant \in {"correct", "wrong", "negative"}
      /\ N \in Nat /\ 0 \in 0 .. N
  BY VariantsAssumption, HalfFacts DEF GroupInv, W!TypeOK, Worker, Labels
<1>1. CASE W!AddInGoroutine(w)
  <2>1. /\ variant = "wrong" /\ started /\ worker[w] = "ready"
        /\ W!Add(1)
        /\ worker' = [worker EXCEPT ![w] = "added"]
        /\ UNCHANGED <<variant, spawned, started, completed, messages, before, final>>
    BY <1>1 DEF W!AddInGoroutine
  <2>2. /\ A \in 0 .. N /\ A' \in 0 .. N /\ A' = A + 1 /\ C' = C /\ D' = D
    BY <1>0, <2>1, AllCountsMove DEF Labels, Counted
  <2>3. main \in {"collect", "returned"} /\ Added = A /\ state = Packed(A, 0)
    BY <1>0, <2>1 DEF WrongUse, WordCounts, Added
  <2>4. W!Plus(1) = Packed(A + 1, 0)
    <3>1. 1 < Half /\ 1 >= -Half BY HalfFacts
    <3> HIDE DEF A
    <3> QED BY <3>1, <2>2, <2>3, <1>0, PlusCounts
  <2>5. state' = Packed(A + 1, 0) /\ main' = main
    <3>1. W!Counter(Packed(A + 1, 0)) = A + 1
      <4> HIDE DEF A
      <4> QED BY <2>2, Unpacked
    <3> HIDE DEF A
    <3> QED BY <2>1, <2>2, <2>4, <3>1 DEF W!Add
  <2>6. W!TypeOK'
    <3>1. state' \in 0 .. Word - 1
      <4> HIDE DEF A
      <4> QED BY <2>2, <2>5, Unpacked
    <3> QED BY <1>0, <2>1, <2>5, <3>1 DEF W!TypeOK, Word, Worker
  <2>7. WordCounts' BY <2>1, <2>2, <2>3, <2>5 DEF WordCounts, Added
  <2>8. WorkersCount' BY <1>0, <2>1, <2>2, <2>5 DEF WorkersCount, Worker
  <2>9. CorrectUse' /\ WrongUse' /\ NegativeUse'
    BY <1>0, <2>1, <2>5 DEF CorrectUse, WrongUse, NegativeUse
  <2> QED BY <2>6, <2>7, <2>8, <2>9 DEF GroupInv
<1>2. CASE W!Complete(w)
  <2> DEFINE l == IF variant = "wrong" THEN "sending" ELSE "completed"
  <2>1. /\ worker[w] = (IF variant = "wrong" THEN "added" ELSE "ready")
        /\ worker' = [worker EXCEPT ![w] = l]
        /\ completed' = completed + 1
        /\ UNCHANGED <<variant, state, main, spawned, started, messages, before, final>>
    BY <1>2 DEF W!Complete
  <2>2. variant \in {"correct", "wrong"} /\ l \in Labels
    BY <1>0, <2>1 DEF NegativeUse, Labels
  <2>3. /\ C \in 0 .. N /\ C' \in 0 .. N /\ C' = C + 1 /\ F' = F
        /\ variant = "wrong" => A' = A /\ D' = D
    BY <1>0, <2>1, <2>2, AllCountsMove DEF Counted
  <2>4. W!TypeOK'
    <3>1. completed' \in 0 .. N BY <1>0, <2>1, <2>3 DEF WorkersCount
    <3> QED BY <1>0, <2>1, <2>2, <3>1 DEF W!TypeOK, Worker, Labels
  <2>5. WordCounts' BY <1>0, <2>1, <2>2, <2>3 DEF WordCounts, Added
  <2>6. WorkersCount' BY <1>0, <2>1, <2>2, <2>3 DEF WorkersCount, Worker
  <2>7. CorrectUse' /\ WrongUse' /\ NegativeUse'
    BY <1>0, <2>1, <2>2 DEF CorrectUse, WrongUse, NegativeUse
  <2> QED BY <2>4, <2>5, <2>6, <2>7 DEF GroupInv
<1>3. CASE W!SendDone(w)
  <2>1. /\ worker[w] = "sending" /\ messages' = messages + 1
        /\ worker' = [worker EXCEPT ![w] = "completed"]
        /\ UNCHANGED <<variant, state, main, spawned, started, completed, before, final>>
    BY <1>3 DEF W!SendDone
  <2>2. variant = "wrong" BY <1>0, <2>1 DEF NegativeUse, CorrectUse
  <2>3. A' = A /\ C' = C /\ D' = D + 1 /\ D' \in 0 .. N
    BY <1>0, <2>1, AllCountsMove DEF Labels, Counted
  <2>4. W!TypeOK'
    <3>1. messages' \in 0 .. N BY <1>0, <2>1, <2>2, <2>3 DEF WorkersCount
    <3> QED BY <1>0, <2>1, <3>1 DEF W!TypeOK, Worker
  <2>5. WordCounts' BY <1>0, <2>1, <2>2, <2>3 DEF WordCounts, Added
  <2>6. WorkersCount' BY <1>0, <2>1, <2>2, <2>3 DEF WorkersCount, Worker
  <2>7. CorrectUse' /\ WrongUse' /\ NegativeUse'
    BY <1>0, <2>1, <2>2 DEF CorrectUse, WrongUse, NegativeUse
  <2> QED BY <2>4, <2>5, <2>6, <2>7 DEF GroupInv
<1>4. CASE W!DeferredDone(w)
  <2> DEFINE r == IF main = "asleep" THEN 1 ELSE 0
             c == IF variant = "wrong" THEN A ELSE N - F
  <2>1. /\ worker[w] = "completed" /\ W!Add(-1)
        /\ worker' = [worker EXCEPT ![w] = "finished"]
        /\ UNCHANGED <<variant, spawned, started, completed, messages, before, final>>
    BY <1>4 DEF W!DeferredDone
  <2>2. variant \in {"correct", "wrong"} BY <1>0, <2>1 DEF NegativeUse
  <2>3. /\ A \in 0 .. N /\ A' \in 0 .. N /\ A' = A - 1
        /\ F \in 0 .. N /\ F' \in 0 .. N /\ F' = F + 1 /\ C' = C /\ D' = D
    BY <1>0, <2>1, AllCountsMove DEF Labels, Counted
  <2>4. /\ variant = "correct" => main \in {"spawn", "asleep"}
        /\ variant = "wrong" => main \in {"collect", "returned"}
    <3>1. main # "add"
      <4>1. w > 0 BY DEF Worker, W!Worker
      <4> QED BY <1>0, <2>1, <4>1 DEF WorkersCount
    <3> QED BY <1>0, <2>1, <3>1 DEF CorrectUse, WrongUse
  <2>5. Added = c /\ c \in 0 .. N /\ c - 1 \in 0 .. N /\ state = Packed(c, r) /\ r \in 0 .. 1
    <3>1. Added = c BY <2>2, <2>4 DEF Added
    <3>2. c \in 0 .. N /\ c - 1 \in 0 .. N BY <1>0, <2>3
    <3>3. state = Packed(c, r) BY <1>0, <2>2, <2>4, <3>1 DEF WordCounts
    <3> QED BY <3>1, <3>2, <3>3
  <2>6. (main' # "add" => Added' = c - 1)
    BY <2>1, <2>2, <2>3, <1>0 DEF Added
  <2> HIDE DEF r, c
  <2>7. W!Plus(-1) = Packed(c - 1, r)
    <3>1. -1 < Half /\ -1 >= -Half /\ c + -1 = c - 1 BY <2>5, HalfFacts
    <3> QED BY <3>1, <2>5, PlusCounts
  <2>8. /\ W!Counter(Packed(c - 1, r)) = c - 1
        /\ W!Waiters(state) = r
        /\ Packed(c - 1, r) \in 0 .. Word - 1
    BY <2>5, Unpacked
  <2>9. IF c = 1 /\ main = "asleep" THEN state' = Packed(0, 0) /\ main' = "woken"
        ELSE state' = Packed(c - 1, r) /\ main' = main
    <3>1. Packed(0, 0) = 0 BY HalfFacts DEF Packed
    <3>2. ~(c - 1 < 0) /\ (c - 1 = 0 <=> c = 1) BY <2>5
    <3>3. r > 0 <=> main = "asleep" BY DEF r
    <3> QED BY <2>1, <2>7, <2>8, <3>1, <3>2, <3>3 DEF W!Add
  <2>10. state' \in 0 .. Word - 1 BY <2>8, <2>9, Unpacked, <1>0
  <2>11. W!TypeOK' BY <1>0, <2>1, <2>9, <2>10 DEF W!TypeOK, Word, Worker
  <2>12. WordCounts'
    <3>1. main' # "add" /\ main' # "panicked" BY <2>2, <2>4, <2>9
    <3>2. Added' = c - 1 BY <2>6, <3>1
    <3>3. CASE c = 1 /\ main = "asleep"
      BY <2>5, <2>9, <3>2, <3>3 DEF WordCounts
    <3>4. CASE ~(c = 1 /\ main = "asleep")
      BY <2>5, <2>9, <3>2, <3>4 DEF WordCounts, r
    <3> QED BY <3>3, <3>4
  <2>13. WorkersCount'
    <3>1. spawned = N \/ main' \in {"spawn", "collect", "returned"}
      BY <1>0, <2>2, <2>4, <2>9 DEF WorkersCount
    <3>2. main' # "add" BY <2>2, <2>4, <2>9
    <3>3. main' \notin {"add", "spawn", "done", "panicked"} => spawned = N
      BY <1>0, <2>2, <2>4, <2>9 DEF WorkersCount
    <3> QED BY <1>0, <2>1, <2>3, <3>2, <3>3 DEF WorkersCount, Worker
  <2>14. CASE variant = "correct"
    <3>1. main' = "woken" => \A x \in Worker : worker'[x] = "finished"
      <4> SUFFICES ASSUME main' = "woken" PROVE \A x \in Worker : worker'[x] = "finished"
        OBVIOUS
      <4>1. c = 1 BY <2>4, <2>9, <2>14
      <4>2. F' = N BY <2>3, <2>14, <4>1, <1>0 DEF c
      <4>3. F' = Cardinality({x \in Worker : worker'[x] \in {"finished"}})
        BY DEF W!WorkersAt, Worker
      <4>4. {x \in Worker : worker'[x] \in {"finished"}} = Worker
        <5> DEFINE AtEnd == {x \in Worker : worker'[x] \in {"finished"}}
        <5>1. AtEnd \in SUBSET Worker /\ Cardinality(AtEnd) = N BY <4>2, <4>3
        <5> HIDE DEF AtEnd
        <5>2. AtEnd = Worker BY <5>1, AllOfThem
        <5> QED BY <5>2 DEF AtEnd
      <4> QED BY <4>4
    <3> QED BY <1>0, <2>1, <2>4, <2>9, <2>11, <2>12, <2>13, <2>14, <3>1
            DEF GroupInv, CorrectUse, WrongUse, NegativeUse
  <2>15. CASE variant = "wrong"
    BY <1>0, <2>1, <2>4, <2>9, <2>11, <2>12, <2>13, <2>15
    DEF GroupInv, CorrectUse, WrongUse, NegativeUse
  <2> QED BY <2>2, <2>14, <2>15
<1> QED BY <1>1, <1>2, <1>3, <1>4 DEF W!Work

(* The invariant of the WaitGroup demonstrations is inductive.             *)
LEMMA GroupStep == ASSUME GroupInv, [DemoNext]_<<demo, vars, groupVars>> PROVE GroupInv'
<1>1. CASE UNCHANGED groupVars
  BY <1>1 DEF groupVars, GroupInv, W!TypeOK, WordCounts, Added, WorkersCount, CorrectUse,
     WrongUse, NegativeUse, W!WorkersAt, Worker
<1>2. CASE W!Next
  <2>1. CASE W!Ended BY <1>1, <2>1 DEF W!Ended, W!vars, groupVars
  <2> QED BY <1>2, <2>1, MainKeeps, WorkKeeps DEF W!Next, Worker
<1> QED BY <1>1, <1>2 DEF DemoNext

(* What the invariant says of the three functions.                         *)
LEMMA GroupMeans == ASSUME GroupInv PROVE WaitCoversEveryWorker
<1>0. /\ W!TypeOK /\ WordCounts /\ WorkersCount /\ CorrectUse /\ WrongUse /\ NegativeUse
      /\ variant \in {"correct", "wrong", "negative"}
      /\ N \in Nat /\ Added \in 0 .. N
  BY VariantsAssumption, HalfFacts, AddedType DEF GroupInv, W!TypeOK
<1>1. ASSUME variant # "negative"
      PROVE  /\ W!Waiters(state) = (IF main = "asleep" THEN 1 ELSE 0)
             /\ W!Counter(state) = Added
  <2>1. main # "panicked" BY <1>0, <1>1 DEF CorrectUse, WrongUse
  <2> QED BY <1>0, <2>1, Unpacked DEF WordCounts
<1>2. W!HalvesAreSeparate
  <2>1. \A S : W!Cardinality(S) = Cardinality(S) BY DEF W!Cardinality, Cardinality
  <2> QED BY <1>0, <1>1, <2>1 DEF W!HalvesAreSeparate, Added
<1>3. W!OnlyMisusePanics
  BY <1>0, <1>1 DEF W!OnlyMisusePanics, CorrectUse, WrongUse, NegativeUse
<1>4. W!AddBeforeGo
  <2> SUFFICES ASSUME variant = "correct", main \in {"woken", "returned"}
               PROVE  completed = N /\ W!WorkersAt({"finished"}) = Worker
    BY DEF W!AddBeforeGo, Worker
  <2>1. \A x \in Worker : worker[x] = "finished" BY <1>0 DEF CorrectUse
  <2>2. \A x \in Worker : worker[x] \in Counted BY <2>1 DEF Counted
  <2>3. Cardinality(W!WorkersAt(Counted)) = N BY <1>0, <2>2, CountBounds
  <2> QED BY <1>0, <2>1, <2>3 DEF WorkersCount, W!WorkersAt, Worker
<1>5. W!AddInsideGo BY <1>0 DEF W!AddInsideGo, WrongUse
<1> QED BY <1>0, <1>2, <1>3, <1>4, <1>5 DEF WaitCoversEveryWorker, W!IInv

(* Add before go: when Wait returns every worker is done.  Add inside the  *)
(* goroutine: Wait returns while nobody is, and the done channel makes the *)
(* final count right.  The halves of the word never run into each other.   *)
THEOREM WaitCovers == DemoSpec => []WaitCoversEveryWorker
<1>1. DemoInit => GroupInv BY GroupInit DEF DemoInit
<1> QED BY <1>1, GroupStep, GroupMeans, PTL DEF DemoSpec

(* A demonstration of Once is a behaviour of Once, so it has its           *)
(* guarantees.                                                             *)
THEOREM DemosKeepOnce == DemoSpec => [](OnceAndBeforeReturn /\ RecursionNeverReturns)
<1>1. DemoInit => Init BY DEF DemoInit
<1>2. [DemoNext]_<<demo, vars, groupVars>> => [Next]_vars BY DEF DemoNext
<1> QED BY <1>1, <1>2, DoIsOnce, RecursionIsStuck, PTL DEF DemoSpec, Spec

=============================================================================
