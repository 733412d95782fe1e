------------------------- MODULE CancellationProofs --------------------------
(***************************************************************************)
(* Proofs about the programs that end by cancelling a context.  Of the     *)
(* group, for any number of tasks and any limits: the semaphore, the       *)
(* WaitGroup and errOnce account for what the goroutines do, and what Wait *)
(* returns can be relied on.  Of the pipeline, for any number of values    *)
(* and workers: no value is lost or doubled, nobody sends on the closed    *)
(* channel, and a range that ends on its own has seen every square.        *)
(***************************************************************************)
EXTENDS Cancellation, FiniteSetTheorems, TLAPS

USE NAssumption, LimitsAssumption

-----------------------------------------------------------------------------
(* Counting the tasks that are at some labels.                             *)

LEMMA SubsetOfTasks ==
  ASSUME NEW S \in SUBSET Task
  PROVE  IsFiniteSet(S) /\ Cardinality(S) \in 0 .. N /\ (Cardinality(S) = 0 <=> S = {})
<1>1. IsFiniteSet(Task) /\ Cardinality(Task) = N
  <2>1. 1 \in Int /\ N \in Int OBVIOUS
  <2> QED BY <2>1, FS_Interval DEF Task
<1>2. IsFiniteSet(S) /\ Cardinality(S) <= N BY <1>1, FS_Subset
<1>3. Cardinality(S) \in Nat BY <1>2, FS_CardinalityType
<1> QED BY <1>2, <1>3, FS_EmptySet

LEMMA AtFinite ==
  ASSUME NEW L
  PROVE  /\ IsFiniteSet(At(L)) /\ Cardinality(At(L)) \in 0 .. N
         /\ Cardinality(At(L)) = 0 <=> At(L) = {}
<1>1. At(L) \in SUBSET Task BY DEF At
<1> QED BY <1>1, SubsetOfTasks

OneIf(b) == IF b THEN 1 ELSE 0

(* A task that moves is counted at the labels it reaches, and no longer at *)
(* the ones it leaves.                                                     *)
LEMMA Moves ==
  ASSUME state \in [Task -> TaskState], NEW t \in Task, NEW from, NEW to, NEW L,
         MoveTo(t, from, to)
  PROVE  /\ Cardinality(At(L)) - OneIf(from \in L) \in Nat
         /\ Cardinality(At(L)') = Cardinality(At(L)) - OneIf(from \in L) + OneIf(to \in L)
<1>1. /\ state[t] = from /\ state'[t] = to
      /\ \A u \in Task \ {t} : state'[u] = state[u]
  BY DEF MoveTo
<1> DEFINE rest == At(L) \ {t}
<1>2. IsFiniteSet(At(L)) /\ Cardinality(At(L)) \in Nat BY AtFinite
<1>3. /\ IsFiniteSet(rest)
      /\ Cardinality(rest) = IF t \in At(L) THEN Cardinality(At(L)) - 1 ELSE Cardinality(At(L))
  BY <1>2, FS_RemoveElement
<1>4. Cardinality(rest) \in Nat BY <1>3, FS_CardinalityType
<1>5. t \in At(L) <=> from \in L BY <1>1 DEF At
<1>6. Cardinality(rest) = Cardinality(At(L)) - OneIf(from \in L)
  BY <1>2, <1>3, <1>5 DEF OneIf
<1>7. At(L)' = IF to \in L THEN rest \cup {t} ELSE rest BY <1>1 DEF At
<1>8. Cardinality(rest \cup {t}) = Cardinality(rest) + 1 BY <1>3, FS_AddElement
<1> HIDE DEF rest
<1>9. Cardinality(At(L)') = Cardinality(rest) + OneIf(to \in L)
  BY <1>4, <1>7, <1>8 DEF OneIf
<1> QED BY <1>4, <1>6, <1>9

Holding == Cardinality(At(Owing))
Counted == Cardinality(At(Owing \cup {"released"}))
Recording == Cardinality(At({"recorded"}))

LEMMA Counts ==
  /\ Holding \in 0 .. N /\ Counted \in 0 .. N /\ Recording \in 0 .. N
  /\ Counted = 0 => At(Owing \cup {"released"}) = {} /\ Holding = 0
  /\ Cardinality(Running) \in Nat /\ Cardinality(Running) <= Holding
<1>1. /\ Holding \in 0 .. N /\ Counted \in 0 .. N /\ Recording \in 0 .. N
      /\ Counted = 0 => At(Owing \cup {"released"}) = {}
      /\ At(Owing) = {} => Holding = 0
  BY AtFinite DEF Holding, Counted, Recording
<1>2. At(Owing) \subseteq At(Owing \cup {"released"}) BY DEF At
<1>3. Running \subseteq At(Owing) BY DEF Running, At, Owing
<1>4. IsFiniteSet(At(Owing)) BY AtFinite
<1>5. IsFiniteSet(Running) /\ Cardinality(Running) <= Holding
  BY <1>3, <1>4, FS_Subset DEF Holding
<1>6. Cardinality(Running) \in Nat BY <1>5, FS_CardinalityType
<1> QED BY <1>1, <1>2, <1>5, <1>6

LEMMA MoveCounts ==
  ASSUME state \in [Task -> TaskState], NEW t \in Task, NEW from, NEW to \in TaskState,
         MoveTo(t, from, to)
  PROVE  /\ state' \in [Task -> TaskState]
         /\ Holding - OneIf(from \in Owing) \in Nat
         /\ Holding' = Holding - OneIf(from \in Owing) + OneIf(to \in Owing)
         /\ Counted - OneIf(from \in Owing \cup {"released"}) \in Nat
         /\ Counted' = Counted - OneIf(from \in Owing \cup {"released"})
                         + OneIf(to \in Owing \cup {"released"})
         /\ Recording - OneIf(from = "recorded") \in Nat
         /\ Recording' = Recording - OneIf(from = "recorded") + OneIf(to = "recorded")
         /\ Counted' \in 0 .. N
<1>1. state' \in [Task -> TaskState] BY DEF MoveTo
<1>2. ASSUME NEW L
      PROVE  /\ Cardinality(At(L)) - OneIf(from \in L) \in Nat
             /\ Cardinality(At(L)') = Cardinality(At(L)) - OneIf(from \in L) + OneIf(to \in L)
  BY Moves
<1>3. /\ Holding - OneIf(from \in Owing) \in Nat
      /\ Holding' = Holding - OneIf(from \in Owing) + OneIf(to \in Owing)
  BY <1>2 DEF Holding
<1>4. /\ Counted - OneIf(from \in Owing \cup {"released"}) \in Nat
      /\ Counted' = Counted - OneIf(from \in Owing \cup {"released"})
                       + OneIf(to \in Owing \cup {"released"})
  BY <1>2 DEF Counted
<1>5. /\ Recording - OneIf(from \in {"recorded"}) \in Nat
      /\ Recording' = Recording - OneIf(from \in {"recorded"}) + OneIf(to \in {"recorded"})
  BY <1>2 DEF Recording
<1>6. \A x : OneIf(x \in {"recorded"}) = OneIf(x = "recorded") BY DEF OneIf
<1>7. At(Owing \cup {"released"})' \in SUBSET Task BY DEF At
<1>8. Counted' \in 0 .. N BY <1>7, SubsetOfTasks DEF Counted
<1> QED BY <1>1, <1>3, <1>4, <1>5, <1>6, <1>8

(* A step of the caller that moves no task changes no count.               *)
LEMMA StayCounts ==
  ASSUME state' = state
  PROVE  Holding' = Holding /\ Counted' = Counted /\ Recording' = Recording
  BY DEF Holding, Counted, Recording, At

-----------------------------------------------------------------------------
(* The invariant: what is counted, where the caller can be, and how the    *)
(* error, the cause and the result go together.                            *)

Accounts ==
  /\ sem = IF limit = 0 THEN 0 ELSE Holding + (IF caller = "launch" THEN 1 ELSE 0)
  /\ wg = Counted
  /\ once = "new" <=> err = Nil
  /\ Recording = IF once = "running" THEN 1 ELSE 0

Order ==
  /\ \A t \in Task : t >= next <=> state[t] = "new"
  /\ caller = "new" => Counted = 0
  /\ caller = "launch" => next \in Task
  /\ caller \in {"wait", "cancel", "returned"} => next = N + 1
  /\ caller \in {"cancel", "returned"} => wg = 0

Errors ==
  /\ \A t \in Task : state[t] = "recorded" => err = t
  /\ cause \in Task => cause = err
  /\ cause = Canceled => caller = "returned"
  /\ \A t \in Task : state[t] = "dropped" => cause \in Task \cup {Parent}
  /\ caller = "returned" =>
       result = err /\ cause # Nil /\ cause \in {Parent, IF err = Nil THEN Canceled ELSE err}

GroupInv == TypeOK /\ Accounts /\ Order /\ Errors

(* Nil, Canceled and Parent are no task and differ from each other.        *)
LEMMA Errs ==
  /\ Nil \notin Task /\ Canceled \notin Task /\ Parent \notin Task
  /\ Nil # Canceled /\ Nil # Parent /\ Canceled # Parent
  BY DEF Nil, Canceled, Parent, Task

LEMMA InitGroup == Init => GroupInv
<1> SUFFICES ASSUME Init PROVE GroupInv OBVIOUS
<1>1. \A t \in Task : state[t] = "new" BY DEF Init
<1>2. TypeOK BY DEF Init, TypeOK, TaskState, Nil, Parent
<1>3. At(Owing) = {} /\ At(Owing \cup {"released"}) = {} /\ At({"recorded"}) = {}
  BY <1>1 DEF At, Owing
<1>4. Holding = 0 /\ Counted = 0 /\ Recording = 0
  BY <1>3, FS_EmptySet DEF Holding, Counted, Recording
<1>5. Accounts BY <1>4 DEF Init, Accounts
<1>6. Order BY <1>1, <1>4 DEF Init, Order, Task
<1>7. Errors BY <1>1, Errs DEF Init, Errors
<1> QED BY <1>2, <1>5, <1>6, <1>7 DEF GroupInv

-----------------------------------------------------------------------------
(* The steps of the caller, and the parent's cancellation.                 *)

LEMMA CallerStep ==
  ASSUME GroupInv, Caller \/ ParentCancel \/ UNCHANGED vars PROVE GroupInv'
<1> USE DEF GroupInv
<1>0. Holding \in 0 .. N /\ Counted \in 0 .. N BY Counts
<1>1. CASE SetLimit
  <2>1. Holding' = Holding /\ Counted' = Counted /\ Recording' = Recording
    BY <1>1, StayCounts DEF SetLimit
  <2>2. sem = 0 /\ Holding = 0 BY <1>1, Counts DEF SetLimit, Accounts, Order
  <2>3. TypeOK' BY <1>1, <2>2 DEF SetLimit, TypeOK
  <2>4. Accounts' BY <1>1, <2>1, <2>2 DEF SetLimit, Accounts, Order
  <2>5. Order' BY <1>1, <2>1 DEF SetLimit, Order
  <2>6. Errors' BY <1>1 DEF SetLimit, Errors, Canceled
  <2> QED BY <2>3, <2>4, <2>5, <2>6
<1>2. CASE ParentCancel
  <2>1. Holding' = Holding /\ Counted' = Counted /\ Recording' = Recording
    BY <1>2, StayCounts DEF ParentCancel
  <2>2. TypeOK' BY <1>2 DEF ParentCancel, TypeOK
  <2>3. Accounts' BY <1>2, <2>1 DEF ParentCancel, Accounts
  <2>4. Order' BY <1>2, <2>1 DEF ParentCancel, Order
  <2>5. Errors' BY <1>2, Errs DEF ParentCancel, Errors, Canceling
  <2> QED BY <2>2, <2>3, <2>4, <2>5
<1>3. CASE GoUnlimited
  <2>1. Holding' = Holding /\ Counted' = Counted /\ Recording' = Recording
    BY <1>3, StayCounts DEF GoUnlimited
  <2>2. TypeOK' BY <1>3 DEF GoUnlimited, TypeOK
  <2>3. Accounts' BY <1>3, <2>1 DEF GoUnlimited, Accounts
  <2>4. Order' BY <1>3, <2>1 DEF GoUnlimited, Order
  <2>5. Errors' BY <1>3 DEF GoUnlimited, Errors
  <2> QED BY <2>2, <2>3, <2>4, <2>5
<1>4. CASE GoAcquire
  <2>1. Holding' = Holding /\ Counted' = Counted /\ Recording' = Recording
    BY <1>4, StayCounts DEF GoAcquire
  <2>2. TypeOK' BY <1>4 DEF GoAcquire, TypeOK
  <2>3. Accounts' BY <1>0, <1>4, <2>1 DEF GoAcquire, Accounts
  <2>4. Order' BY <1>4, <2>1 DEF GoAcquire, Order
  <2>5. Errors' BY <1>4 DEF GoAcquire, Errors
  <2> QED BY <2>2, <2>3, <2>4, <2>5
<1>5. CASE GoDrop
  <2>1. next \in Task /\ state[next] = "new" /\ next \in Nat
    BY <1>5 DEF GoDrop, Order, TypeOK, Task
  <2>2. MoveTo(next, "new", "dropped") /\ "dropped" \in TaskState
    BY <1>5, <2>1 DEF GoDrop, MoveTo, TaskState
  <2>3. Holding' = Holding /\ Counted' = Counted /\ Recording' = Recording
        /\ state' \in [Task -> TaskState]
    BY <1>0, <2>1, <2>2, MoveCounts, Counts DEF TypeOK, OneIf, Owing
  <2>4. TypeOK' BY <1>5, <2>1, <2>3 DEF GoDrop, TypeOK, Task
  <2>5. Accounts' BY <1>5, <2>3 DEF GoDrop, Accounts
  <2>6. Order' BY <1>5, <2>1, <2>3 DEF GoDrop, Order, TypeOK, Task
  <2>7. cause \in Task \cup {Parent}
    BY <1>5 DEF GoDrop, Canceling, TypeOK, Errors
  <2>8. Errors' BY <1>5, <2>7 DEF GoDrop, Errors, TypeOK
  <2> QED BY <2>4, <2>5, <2>6, <2>8
<1>6. CASE Launch
  <2>1. next \in Task /\ state[next] = "new" /\ next \in Nat
    BY <1>6 DEF Launch, Order, TypeOK, Task
  <2>2. MoveTo(next, "new", "created") /\ "created" \in TaskState
    BY <1>6, <2>1 DEF Launch, MoveTo, TaskState
  <2>3. Holding' = Holding + 1 /\ Counted' = Counted + 1 /\ Recording' = Recording
        /\ state' \in [Task -> TaskState] /\ Counted' \in 0 .. N
    BY <1>0, <2>1, <2>2, MoveCounts, Counts DEF TypeOK, OneIf, Owing
  <2>4. TypeOK' BY <1>6, <2>1, <2>3 DEF Launch, TypeOK, Task, Accounts
  <2>5. Accounts' BY <1>0, <1>6, <2>3 DEF Launch, Accounts
  <2>6. Order' BY <1>6, <2>1, <2>3 DEF Launch, Order, TypeOK, Task
  <2>7. Errors' BY <1>6 DEF Launch, Errors, TypeOK
  <2> QED BY <2>4, <2>5, <2>6, <2>7
<1>7. CASE CallWait \/ WaitForAll
  <2>1. Holding' = Holding /\ Counted' = Counted /\ Recording' = Recording
    BY <1>7, StayCounts DEF CallWait, WaitForAll
  <2>2. TypeOK' BY <1>7 DEF CallWait, WaitForAll, TypeOK
  <2>3. Accounts' BY <1>7, <2>1 DEF CallWait, WaitForAll, Accounts
  <2>4. Order' BY <1>7, <2>1 DEF CallWait, WaitForAll, Order
  <2>5. Errors' BY <1>7 DEF CallWait, WaitForAll, Errors
  <2> QED BY <2>2, <2>3, <2>4, <2>5
<1>8. CASE WaitReturns
  <2>1. Holding' = Holding /\ Counted' = Counted /\ Recording' = Recording
    BY <1>8, StayCounts DEF WaitReturns
  <2>2. cause' = IF cause # Nil THEN cause ELSE IF err = Nil THEN Canceled ELSE err
    BY <1>8 DEF WaitReturns, CancelWith, Canceling
  <2>3. TypeOK' BY <1>8, <2>2 DEF WaitReturns, TypeOK
  <2>4. Accounts' BY <1>8, <2>1 DEF WaitReturns, Accounts
  <2>5. Order' BY <1>8, <2>1 DEF WaitReturns, Order
  <2>6. Errors' BY <1>8, <2>2, Errs DEF WaitReturns, Errors, TypeOK
  <2> QED BY <2>3, <2>4, <2>5, <2>6
<1>9. CASE UNCHANGED vars
  <2>1. Holding' = Holding /\ Counted' = Counted /\ Recording' = Recording
    BY <1>9, StayCounts DEF vars
  <2> QED BY <1>9, <2>1 DEF vars, TypeOK, Accounts, Order, Errors
<1> QED BY <1>1, <1>2, <1>3, <1>4, <1>5, <1>6, <1>7, <1>8, <1>9 DEF Caller

-----------------------------------------------------------------------------
(* The steps of a goroutine.                                               *)

Owed == Owing \cup {"released"}

LEMMA GoroutineMove ==
  ASSUME GroupInv, NEW t \in Task, NEW from \in Owed, NEW to \in Owed \cup {"done"},
         MoveTo(t, from, to)
  PROVE  /\ state' \in [Task -> TaskState] /\ Counted >= 1 /\ Counted' \in 0 .. N
         /\ Holding' = Holding - OneIf(from \in Owing) + OneIf(to \in Owing)
         /\ Counted' = Counted - 1 + OneIf(to # "done")
         /\ Recording' = Recording - OneIf(from = "recorded") + OneIf(to = "recorded")
         /\ Holding - OneIf(from \in Owing) \in Nat
         /\ Recording - OneIf(from = "recorded") \in Nat
         /\ caller \notin {"new", "cancel", "returned"}
         /\ \A u \in Task : state'[u] = "new" <=> state[u] = "new"
         /\ \A u \in Task : state'[u] = "dropped" <=> state[u] = "dropped"
         /\ \A u \in Task \ {t} : state'[u] = state[u]
         /\ state'[t] = to
<1> USE DEF GroupInv
<1>1. to \in TaskState BY DEF Owed, Owing, TaskState
<1>2. state \in [Task -> TaskState] BY DEF TypeOK
<1>3. /\ state' \in [Task -> TaskState]
      /\ Holding - OneIf(from \in Owing) \in Nat
      /\ Holding' = Holding - OneIf(from \in Owing) + OneIf(to \in Owing)
      /\ Counted - OneIf(from \in Owed) \in Nat
      /\ Counted' = Counted - OneIf(from \in Owed) + OneIf(to \in Owed)
      /\ Recording - OneIf(from = "recorded") \in Nat
      /\ Recording' = Recording - OneIf(from = "recorded") + OneIf(to = "recorded")
      /\ Counted' \in 0 .. N
  BY <1>1, <1>2, MoveCounts DEF Owed
<1>4. OneIf(from \in Owed) = 1 /\ OneIf(to \in Owed) = OneIf(to # "done")
  BY DEF OneIf, Owed, Owing
<1>5. Counted \in 0 .. N BY Counts
<1>6. Counted >= 1 BY <1>3, <1>4, <1>5
<1>7. state[t] = from /\ state' = [state EXCEPT ![t] = to] BY DEF MoveTo
<1>8. caller \notin {"new", "cancel", "returned"} BY <1>5, <1>6 DEF Order, Accounts
<1>9. \A u \in Task \ {t} : state'[u] = state[u] BY <1>2, <1>7
<1>10. state'[t] = to BY <1>2, <1>7
<1>11. from \notin {"new", "dropped"} /\ to \notin {"new", "dropped"} BY DEF Owed, Owing
<1> QED BY <1>3, <1>4, <1>6, <1>7, <1>8, <1>9, <1>10, <1>11

LEMMA GoroutineStep ==
  ASSUME GroupInv, NEW t \in Task, Goroutine(t) PROVE GroupInv'
<1> USE DEF GroupInv
<1> DEFINE Moved(from, to) ==
             /\ state' \in [Task -> TaskState] /\ Counted >= 1 /\ Counted' \in 0 .. N
             /\ Holding' = Holding - OneIf(from \in Owing) + OneIf(to \in Owing)
             /\ Counted' = Counted - 1 + OneIf(to # "done")
             /\ Recording' = Recording - OneIf(from = "recorded") + OneIf(to = "recorded")
             /\ Holding - OneIf(from \in Owing) \in Nat
             /\ Recording - OneIf(from = "recorded") \in Nat
             /\ caller \notin {"new", "cancel", "returned"}
             /\ \A u \in Task : state'[u] = "new" <=> state[u] = "new"
             /\ \A u \in Task : state'[u] = "dropped" <=> state[u] = "dropped"
             /\ \A u \in Task \ {t} : state'[u] = state[u]
             /\ state'[t] = to
<1>0. \A from \in Owed, to \in Owed \cup {"done"} : MoveTo(t, from, to) => Moved(from, to)
  BY GoroutineMove
<1> HIDE DEF Moved
<1>9. Holding \in 0 .. N /\ Counted \in 0 .. N /\ Recording \in 0 .. N BY Counts
<1>10. /\ sem \in 0 .. limit /\ limit \in Nat /\ state \in [Task -> TaskState] BY DEF TypeOK
<1>1. CASE Start(t)
  <2>1. MoveTo(t, "created", "running") BY <1>1 DEF Start
  <2>2. Moved("created", "running") BY <2>1, <1>0 DEF Owed, Owing
  <2>3. Holding' = Holding /\ Counted' = Counted /\ Recording' = Recording
    BY <1>9, <2>2 DEF Moved, OneIf, Owing
  <2>4. TypeOK' BY <1>1, <1>10, <2>2, <2>3 DEF Start, Moved, TypeOK, Accounts
  <2>5. Accounts' BY <1>1, <1>9, <2>2, <2>3 DEF Start, Moved, Accounts
  <2>6. Order' BY <1>1, <2>2 DEF Start, Moved, Order
  <2>7. Errors' BY <1>1, <2>1, <2>2 DEF Start, Moved, MoveTo, Errors
  <2> QED BY <2>4, <2>5, <2>6, <2>7
<1>2. CASE Succeed(t)
  <2>1. MoveTo(t, "running", "unwinding") BY <1>2 DEF Succeed
  <2>2. Moved("running", "unwinding") BY <2>1, <1>0 DEF Owed, Owing
  <2>3. Holding' = Holding /\ Counted' = Counted /\ Recording' = Recording
    BY <1>9, <2>2 DEF Moved, OneIf, Owing
  <2>4. TypeOK' BY <1>2, <1>10, <2>2, <2>3 DEF Succeed, Moved, TypeOK, Accounts
  <2>5. Accounts' BY <1>2, <1>9, <2>2, <2>3 DEF Succeed, Moved, Accounts
  <2>6. Order' BY <1>2, <2>2 DEF Succeed, Moved, Order
  <2>7. Errors' BY <1>2, <2>1, <2>2 DEF Succeed, Moved, MoveTo, Errors
  <2> QED BY <2>4, <2>5, <2>6, <2>7
<1>3. CASE Fail(t)
  <2>1. MoveTo(t, "running", "failed") BY <1>3 DEF Fail
  <2>2. Moved("running", "failed") BY <2>1, <1>0 DEF Owed, Owing
  <2>3. Holding' = Holding /\ Counted' = Counted /\ Recording' = Recording
    BY <1>9, <2>2 DEF Moved, OneIf, Owing
  <2>4. TypeOK' BY <1>3, <1>10, <2>2, <2>3 DEF Fail, Moved, TypeOK, Accounts
  <2>5. Accounts' BY <1>3, <1>9, <2>2, <2>3 DEF Fail, Moved, Accounts
  <2>6. Order' BY <1>3, <2>2 DEF Fail, Moved, Order
  <2>7. Errors' BY <1>3, <2>1, <2>2 DEF Fail, Moved, MoveTo, Errors
  <2> QED BY <2>4, <2>5, <2>6, <2>7
<1>4. CASE Record(t)
  <2>1. MoveTo(t, "failed", "recorded") BY <1>4 DEF Record
  <2>2. Moved("failed", "recorded") BY <2>1, <1>0 DEF Owed, Owing
  <2>3. Holding' = Holding /\ Counted' = Counted /\ Recording' = Recording + 1
    BY <1>9, <2>2 DEF Moved, OneIf, Owing
  <2>4. TypeOK' BY <1>4, <1>10, <2>2, <2>3 DEF Record, Moved, TypeOK, Accounts
  <2>5. Accounts' BY <1>4, <1>9, <2>2, <2>3, Errs DEF Record, Moved, Accounts
  <2>6. Order' BY <1>4, <2>2 DEF Record, Moved, Order
  <2>7. Errors'
    <3>1. once = "new" /\ err' = t BY <1>4 DEF Record
    <3>2. err = Nil /\ Recording = 0 BY <3>1 DEF Accounts
    <3>3. \A u \in Task : state[u] # "recorded" BY <3>2, AtFinite DEF Recording, At
    <3> QED BY <1>4, <2>2, <3>1, <3>2, <3>3, Errs DEF Record, Moved, Errors
  <2> QED BY <2>4, <2>5, <2>6, <2>7
<1>5. CASE CancelGroup(t)
  <2>1. MoveTo(t, "recorded", "unwinding") BY <1>5 DEF CancelGroup
  <2>2. Moved("recorded", "unwinding") BY <2>1, <1>0 DEF Owed, Owing
  <2>3. Holding' = Holding /\ Counted' = Counted /\ Recording' = Recording - 1 /\ Recording >= 1
    BY <1>9, <2>2 DEF Moved, OneIf, Owing
  <2>8. cause' = IF cause # Nil THEN cause ELSE t
    BY <1>5 DEF CancelGroup, CancelWith, Canceling
  <2>4. TypeOK' BY <1>5, <1>10, <2>2, <2>3, <2>8 DEF CancelGroup, Moved, TypeOK, Accounts
  <2>5. Accounts' BY <1>5, <1>9, <2>2, <2>3 DEF CancelGroup, Moved, Accounts
  <2>6. Order' BY <1>5, <2>2 DEF CancelGroup, Moved, Order
  <2>7. Errors'
    <3>1. err' = err /\ err = t BY <1>5, <2>1 DEF CancelGroup, MoveTo, Errors
    <3> QED BY <1>5, <2>2, <2>8, <3>1, Errs DEF CancelGroup, Moved, Errors
  <2> QED BY <2>4, <2>5, <2>6, <2>7
<1>6. CASE SkipRecord(t)
  <2>1. MoveTo(t, "failed", "unwinding") BY <1>6 DEF SkipRecord
  <2>2. Moved("failed", "unwinding") BY <2>1, <1>0 DEF Owed, Owing
  <2>3. Holding' = Holding /\ Counted' = Counted /\ Recording' = Recording
    BY <1>9, <2>2 DEF Moved, OneIf, Owing
  <2>4. TypeOK' BY <1>6, <1>10, <2>2, <2>3 DEF SkipRecord, Moved, TypeOK, Accounts
  <2>5. Accounts' BY <1>6, <1>9, <2>2, <2>3 DEF SkipRecord, Moved, Accounts
  <2>6. Order' BY <1>6, <2>2 DEF SkipRecord, Moved, Order
  <2>7. Errors' BY <1>6, <2>1, <2>2 DEF SkipRecord, Moved, MoveTo, Errors
  <2> QED BY <2>4, <2>5, <2>6, <2>7
<1>7. CASE Release(t)
  <2>1. MoveTo(t, "unwinding", "released") BY <1>7 DEF Release
  <2>2. Moved("unwinding", "released") BY <2>1, <1>0 DEF Owed, Owing
  <2>3. Holding' = Holding - 1 /\ Holding >= 1 /\ Counted' = Counted /\ Recording' = Recording
    BY <1>9, <2>2 DEF Moved, OneIf, Owing
  <2>8. sem' \in 0 .. limit
        /\ sem' = IF limit = 0 THEN 0 ELSE Holding' + (IF caller = "launch" THEN 1 ELSE 0)
    BY <1>7, <1>9, <1>10, <2>3 DEF Release, Accounts
  <2>4. TypeOK' BY <1>7, <1>10, <2>2, <2>3, <2>8 DEF Release, Moved, TypeOK, Accounts
  <2>5. Accounts' BY <1>7, <1>9, <2>2, <2>3, <2>8 DEF Release, Moved, Accounts
  <2>6. Order' BY <1>7, <2>2 DEF Release, Moved, Order
  <2>7. Errors' BY <1>7, <2>1, <2>2 DEF Release, Moved, MoveTo, Errors
  <2> QED BY <2>4, <2>5, <2>6, <2>7
<1>8. CASE Done(t)
  <2>1. MoveTo(t, "released", "done") BY <1>8 DEF Done
  <2>2. Moved("released", "done") BY <2>1, <1>0 DEF Owed, Owing
  <2>3. Holding' = Holding /\ Counted' = Counted - 1 /\ Recording' = Recording
    BY <1>9, <2>2 DEF Moved, OneIf, Owing
  <2>4. TypeOK' BY <1>8, <1>10, <2>2, <2>3 DEF Done, Moved, TypeOK, Accounts
  <2>5. Accounts' BY <1>8, <1>9, <2>2, <2>3 DEF Done, Moved, Accounts
  <2>6. Order' BY <1>8, <2>2 DEF Done, Moved, Order
  <2>7. Errors' BY <1>8, <2>1, <2>2 DEF Done, Moved, MoveTo, Errors
  <2> QED BY <2>4, <2>5, <2>6, <2>7
<1> QED BY <1>1, <1>2, <1>3, <1>4, <1>5, <1>6, <1>7, <1>8 DEF Goroutine

-----------------------------------------------------------------------------

LEMMA GroupInvariant == Spec => []GroupInv
<1>1. GroupInv /\ [Next]_vars => GroupInv'
  <2> SUFFICES ASSUME GroupInv, [Next]_vars PROVE GroupInv' OBVIOUS
  <2>1. CASE Caller \/ ParentCancel \/ UNCHANGED vars BY <2>1, CallerStep
  <2>2. ASSUME NEW t \in Task, Goroutine(t) PROVE GroupInv' BY <2>2, GoroutineStep
  <2>3. CASE Finished BY <2>3, CallerStep DEF Finished
  <2> QED BY <2>1, <2>2, <2>3 DEF Next
<1> QED BY <1>1, InitGroup, PTL DEF Spec

(* Semaphore, WaitGroup and errOnce account for every goroutine at every   *)
(* moment, and the limit holds, for any number of tasks and any limit.     *)
THEOREM GroupAccounts == Spec => []IInv
<1>1. ASSUME GroupInv PROVE IInv
  <2> USE <1>1 DEF GroupInv
  <2>1. /\ Holding \in Nat /\ Cardinality(Running) \in Nat
        /\ Cardinality(Running) <= Holding
    BY Counts
  <2>2. limit \in Nat /\ sem \in 0 .. limit BY DEF TypeOK
  <2>3. LimitHolds BY <2>1, <2>2 DEF LimitHolds, Accounts
  <2> QED BY <2>3 DEF IInv, Accounts, Holding, Counted, Recording
<1> QED BY <1>1, GroupInvariant, PTL

(* What Wait returns can be relied on: nothing is left running, nil means  *)
(* that all tasks ran without error, and the context reports that error.   *)
THEOREM WaitCanBeTrusted == Spec => []WaitIsHonest
<1>1. ASSUME GroupInv, caller = "returned"
      PROVE  /\ At(Owing \cup {"released"}) = {} /\ sem = 0 /\ next = N + 1
             /\ \A t \in Task : state[t] \in {"dropped", "done"}
  <2> USE <1>1 DEF GroupInv
  <2>1. Counted = 0 /\ next = N + 1 BY DEF Order, Accounts
  <2>2. At(Owing \cup {"released"}) = {} /\ Holding = 0 BY <2>1, Counts
  <2>3. \A t \in Task : state[t] \notin Owing \cup {"released"} BY <2>2 DEF At
  <2>4. \A t \in Task : state[t] # "new" BY <2>1 DEF Order, Task
  <2>5. \A t \in Task : state[t] \in {"dropped", "done"}
    BY <2>3, <2>4 DEF TypeOK, TaskState, Owing
  <2>6. sem = 0 BY <2>2 DEF Accounts
  <2> QED BY <2>1, <2>2, <2>5, <2>6
<1>2. ASSUME GroupInv PROVE NothingLeftAfterWait
  BY <1>1, <1>2 DEF NothingLeftAfterWait, Launched
<1>3. ASSUME GroupInv PROVE NilMeansAllRan
  <2> SUFFICES ASSUME caller = "returned", result = Nil, cause # Parent
               PROVE  Launched = Task /\ once = "new"
    BY DEF NilMeansAllRan
  <2> USE <1>3 DEF GroupInv
  <2>1. err = Nil /\ cause = Canceled BY DEF Errors
  <2>2. \A t \in Task : state[t] = "done" BY <1>1, <2>1, Errs DEF Errors
  <2>3. once = "new" BY <2>1 DEF Accounts
  <2> QED BY <2>2, <2>3 DEF Launched
<1>4. ASSUME GroupInv PROVE CauseAgreesWithResult
  BY <1>4 DEF GroupInv, Errors, CauseAgreesWithResult
<1>5. GroupInv => WaitIsHonest BY <1>2, <1>3, <1>4 DEF WaitIsHonest
<1> QED BY <1>5, GroupInvariant, PTL

-----------------------------------------------------------------------------
(* The pipeline.                                                           *)

Squares == P!Squares

(* A goroutine holds a value exactly while it is sending it.               *)
HeldWhileSending ==
  \A w \in Worker :
    /\ square[w] = "send" <=> squareVal[w] # 0
    /\ output[w] = "send" <=> outputVal[w] # 0

PipelineInv == P!IInv /\ HeldWhileSending /\ P!DrainedMeansAll

(* Squaring loses nothing: different inputs have different squares.        *)
LEMMA SquaresDiffer ==
  ASSUME NEW u \in Nat \ {0}, NEW v \in Nat \ {0}
  PROVE  u * u # 0 /\ (u * u = v * v => u = v)
<1>1. \A a, b \in Nat \ {0} : a < b => a * a < b * b
  <2> SUFFICES ASSUME NEW a \in Nat \ {0}, NEW b \in Nat \ {0}, a < b
               PROVE  a * a < b * b
    OBVIOUS
  <2>1. PICK k \in Nat \ {0} : b = a + k
    <3>1. b - a \in Nat \ {0} /\ b = a + (b - a) OBVIOUS
    <3> QED BY <3>1
  <2>2. b * b = a * a + 2 * (a * k) + k * k BY <2>1
  <2>3. a * k > 0 /\ k * k > 0 BY <2>1
  <2> QED BY <2>2, <2>3
<1>2. u < v \/ v < u \/ u = v OBVIOUS
<1> QED BY <1>1, <1>2

(* How many workers hold the value s in f.                                 *)
Holders(f, s) == Cardinality({w \in Worker : f[w] = s})

(* Two functions on the workers that differ at one of them at most.        *)
SameBut(f, h, w) == \A y \in Worker \ {w} : h[y] = f[y]

(* One worker takes another value: it no longer counts for the one, and    *)
(* counts for the other.                                                   *)
LEMMA HoldersMove ==
  ASSUME NEW f, NEW h, NEW w \in Worker, NEW s, SameBut(f, h, w)
  PROVE  /\ Holders(f, s) \in Nat /\ Holders(h, s) \in Nat
         /\ f[w] = s => Holders(f, s) >= 1
         /\ f[w] = s /\ h[w] # s => Holders(h, s) = Holders(f, s) - 1
         /\ f[w] # s /\ h[w] = s => Holders(h, s) = Holders(f, s) + 1
         /\ (f[w] = s <=> h[w] = s) => Holders(h, s) = Holders(f, s)
<1> DEFINE A == {y \in Worker : f[y] = s}
           B == {y \in Worker : h[y] = s}
<1>1. IsFiniteSet(A) /\ IsFiniteSet(B)
  <2>1. A \in SUBSET Worker /\ B \in SUBSET Worker OBVIOUS
  <2> HIDE DEF A, B
  <2> QED BY <2>1, WorkerAssumption, FS_Subset
<1>2. Cardinality(A) \in Nat /\ Cardinality(B) \in Nat BY <1>1, FS_CardinalityType
<1>3. ASSUME f[w] = s PROVE Cardinality(A) # 0
  <2>1. A # {} BY <1>3
  <2> HIDE DEF A
  <2> QED BY <2>1, <1>1, FS_EmptySet
<1>4. ASSUME f[w] = s, h[w] # s PROVE Cardinality(B) = Cardinality(A) - 1
  <2>1. B = A \ {w} /\ w \in A BY <1>4 DEF SameBut
  <2> HIDE DEF A, B
  <2> QED BY <2>1, <1>1, FS_RemoveElement
<1>5. ASSUME f[w] # s, h[w] = s PROVE Cardinality(B) = Cardinality(A) + 1
  <2>1. B = A \cup {w} /\ w \notin A BY <1>5 DEF SameBut
  <2> HIDE DEF A, B
  <2> QED BY <2>1, <1>1, FS_AddElement
<1>6. ASSUME f[w] = s <=> h[w] = s PROVE B = A BY <1>6 DEF SameBut
<1>7. Holders(f, s) = Cardinality(A) /\ Holders(h, s) = Cardinality(B) BY DEF Holders
<1> HIDE DEF A, B
<1> QED BY <1>2, <1>3, <1>4, <1>5, <1>6, <1>7

(* The places of a square, with the holders counted.                       *)
LEMMA PlacesAreHolders ==
  ASSUME NEW s
  PROVE  P!Places(s) =
           Holders(squareVal, s) + Holders(outputVal, s) + (IF s \in got THEN 1 ELSE 0)
<1>1. \A S : P!Cardinality(S) = Cardinality(S) BY DEF P!Cardinality, Cardinality
<1> QED BY <1>1 DEF P!Places, Holders

LEMMA PlacesAreHoldersNext ==
  ASSUME NEW CONSTANT s
  PROVE  P!Places(s)' =
           Holders(squareVal', s) + Holders(outputVal', s) + (IF s \in got' THEN 1 ELSE 0)
<1>1. \A S : P!Cardinality(S) = Cardinality(S) BY DEF P!Cardinality, Cardinality
<1> QED BY <1>1 DEF P!Places, Holders

(* The counts are numbers.                                                 *)
LEMMA HoldersType == \A f, s : Holders(f, s) \in Nat
<1> SUFFICES ASSUME NEW f, NEW s PROVE Holders(f, s) \in Nat OBVIOUS
<1>1. PICK w \in Worker : TRUE BY WorkerAssumption
<1>2. SameBut(f, f, w) BY DEF SameBut
<1> QED BY <1>2, HoldersMove

(* The initial state.                                                      *)
LEMMA PipelineInit == ASSUME P!Init PROVE PipelineInv
<1>1. P!TypeOK
  <2>1. 0 \in 0 .. V BY VAssumption
  <2>2. [w \in Worker |-> 0] \in [Worker -> {0} \cup P!Squares] OBVIOUS
  <2> QED BY <2>1, <2>2 DEF P!Init, P!TypeOK, P!FirstProducerState
<1>2. P!NoneLostNoneTwice
  <2> SUFFICES ASSUME NEW v \in 1 .. V PROVE P!Places(v * v) = 0
    BY VAssumption DEF P!NoneLostNoneTwice, P!Init
  <2>1. v * v # 0 BY SquaresDiffer, VAssumption
  <2>2. {w \in Worker : squareVal[w] = v * v} = {} BY <2>1 DEF P!Init
  <2>3. {w \in Worker : outputVal[w] = v * v} = {} BY <2>1 DEF P!Init
  <2>4. v * v \notin got BY DEF P!Init
  <2> QED BY <2>2, <2>3, <2>4, PlacesAreHolders, FS_EmptySet DEF Holders
<1>3. P!NoSendOnClosed /\ P!ShutdownOrder
  BY DEF P!Init, P!NoSendOnClosed, P!ShutdownOrder, P!FirstProducerState
<1>4. HeldWhileSending /\ P!DrainedMeansAll
  BY DEF P!Init, HeldWhileSending, P!DrainedMeansAll
<1> QED BY <1>1, <1>2, <1>3, <1>4 DEF PipelineInv, P!IInv

(* Nothing moves: the accounting stays.                                    *)
LEMMA NoneLostStays ==
  ASSUME P!NoneLostNoneTwice, UNCHANGED <<produced, squareVal, outputVal, got>>,
         canceled => canceled'
  PROVE  P!NoneLostNoneTwice'
<1>1. ASSUME NEW CONSTANT x PROVE P!Places(x)' = P!Places(x) BY DEF P!Places
<1> QED BY <1>1 DEF P!NoneLostNoneTwice

(* The accounting of one input, over the holders of its square.            *)
LEMMA NoneLostNext ==
  ASSUME \A v \in 1 .. V :
           LET n == Holders(squareVal', v * v) + Holders(outputVal', v * v)
                      + (IF v * v \in got' THEN 1 ELSE 0)
           IN  IF v > produced' THEN n = 0 ELSE n <= 1 /\ (canceled' \/ n = 1)
  PROVE  P!NoneLostNoneTwice'
BY PlacesAreHoldersNext DEF P!NoneLostNoneTwice

(* The values move: what is preserved of the accounting.                   *)
LEMMA MovesAccount ==
  ASSUME PipelineInv, NEW w \in Worker, P!Move(w) \/ P!Exit(w)
  PROVE  P!NoneLostNoneTwice'
<1>0. /\ P!TypeOK /\ P!NoneLostNoneTwice /\ P!ShutdownOrder /\ HeldWhileSending
      /\ squareVal \in [Worker -> {0} \cup Squares]
      /\ outputVal \in [Worker -> {0} \cup Squares]
      /\ produced \in 0 .. V /\ V \in Nat
  BY VAssumption DEF PipelineInv, P!IInv, P!TypeOK, Squares
<1> SUFFICES ASSUME NEW v \in 1 .. V
             PROVE  LET n == Holders(squareVal', v * v) + Holders(outputVal', v * v)
                               + (IF v * v \in got' THEN 1 ELSE 0)
                    IN  IF v > produced' THEN n = 0 ELSE n <= 1 /\ (canceled' \/ n = 1)
  BY NoneLostNext
<1> DEFINE s == v * v
           q == Holders(squareVal, s)
           o == Holders(outputVal, s)
           g == IF s \in got THEN 1 ELSE 0
           qn == Holders(squareVal', s)
           on == Holders(outputVal', s)
           gn == IF s \in got' THEN 1 ELSE 0
<1>1. /\ v \in Nat \ {0} /\ s # 0 /\ s \in Squares
      /\ \A u \in Nat \ {0} : u * u = s => u = v
  BY <1>0, SquaresDiffer DEF Squares, P!Squares
<1>2. IF v > produced THEN q + o + g = 0 ELSE q + o + g <= 1 /\ (canceled \/ q + o + g = 1)
  BY <1>0, PlacesAreHolders DEF P!NoneLostNoneTwice
<1>3. q \in Nat /\ o \in Nat /\ g \in {0, 1} BY <1>0, HoldersType
<1> SUFFICES IF v > produced' THEN qn + on + gn = 0
             ELSE qn + on + gn <= 1 /\ (canceled' \/ qn + on + gn = 1)
  OBVIOUS
<1> HIDE DEF s
<1>4. CASE P!ProduceSend(w)
  <2> DEFINE p == produced + 1
  <2>1. /\ produced < V /\ square[w] = "recv" /\ produced' = p
        /\ squareVal' = [squareVal EXCEPT ![w] = p * p]
        /\ UNCHANGED <<canceled, outputVal, got>>
    BY <1>4 DEF P!ProduceSend, P!ctxVars, P!mergeVars, P!consumerVars
  <2>2. squareVal[w] = 0 BY <1>0, <2>1 DEF HeldWhileSending
  <2>3. p \in Nat \ {0} /\ p \in 1 .. V BY <1>0, <2>1
  <2>4. p * p = s <=> p = v BY <1>1, <2>3, SquaresDiffer DEF s
  <2> HIDE DEF p
  <2>6. qn \in Nat /\ (p = v => qn = q + 1) /\ (p # v => qn = q)
    <3>2. squareVal[w] # s BY <1>1, <2>2
    <3> DEFINE pp == p * p
    <3>4. pp = s <=> p = v BY <2>4
    <3>5. squareVal'[w] = pp /\ SameBut(squareVal, squareVal', w)
      BY <1>0, <2>1 DEF SameBut
    <3> HIDE DEF pp
    <3> QED BY <3>2, <3>4, <3>5, HoldersMove, HoldersType
  <2>7. on = o /\ gn = g BY <2>1
  <2>8. p > produced /\ \A u \in Nat : u > produced => u = p \/ u > p BY <1>0 DEF p
  <2> HIDE DEF q, o, g, qn, on, gn
  <2>9. CASE p = v BY <1>2, <1>3, <2>1, <2>6, <2>7, <2>8, <2>9, <1>0
  <2>10. CASE p # v BY <1>0, <1>1, <1>2, <1>3, <2>1, <2>3, <2>6, <2>7, <2>8, <2>10
  <2> QED BY <2>9, <2>10
<1>5. CASE P!SquareSend(w)
  <2> DEFINE x == squareVal[w]
  <2>1. /\ square[w] = "send" /\ output[w] = "recv"
        /\ squareVal' = [squareVal EXCEPT ![w] = 0]
        /\ outputVal' = [outputVal EXCEPT ![w] = x]
        /\ UNCHANGED <<canceled, produced, got>>
    BY <1>5 DEF P!SquareSend, P!ctxVars, P!prodVars, P!consumerVars
  <2>2. outputVal[w] = 0 /\ x # 0
    BY <1>0, <2>1 DEF HeldWhileSending
  <2>3. /\ squareVal'[w] = 0 /\ SameBut(squareVal, squareVal', w)
        /\ outputVal'[w] = x /\ SameBut(outputVal, outputVal', w)
    BY <1>0, <2>1 DEF SameBut
  <2>4. x = s => q >= 1 /\ qn = q - 1 BY <1>1, <2>3, HoldersMove
  <2>5. x = s => on = o + 1 BY <1>1, <2>2, <2>3, HoldersMove
  <2>6. x # s => qn = q BY <1>1, <2>3, HoldersMove
  <2>7. x # s => on = o BY <1>1, <2>2, <2>3, HoldersMove
  <2>8. gn = g BY <2>1
  <2> HIDE DEF q, o, g, qn, on, gn, x
  <2> QED BY <1>0, <1>2, <1>3, <2>1, <2>4, <2>5, <2>6, <2>7, <2>8
<1>6. CASE P!OutputSend(w)
  <2> DEFINE x == outputVal[w]
  <2>1. /\ output[w] = "send"
        /\ outputVal' = [outputVal EXCEPT ![w] = 0] /\ got' = got \cup {x}
        /\ UNCHANGED <<canceled, produced, squareVal>>
    BY <1>6 DEF P!OutputSend, P!ctxVars, P!prodVars, P!squareVars
  <2>2. outputVal'[w] = 0 /\ SameBut(outputVal, outputVal', w)
    BY <1>0, <2>1 DEF SameBut
  <2>3. x = s => o >= 1 /\ on = o - 1 BY <1>1, <2>2, HoldersMove
  <2>4. x # s => on = o BY <1>1, <2>2, HoldersMove
  <2>5. (x # s => gn = g) /\ (x = s => gn = 1) BY <2>1
  <2>6. qn = q BY <2>1
  <2> HIDE DEF q, o, g, qn, on, gn, x
  <2> QED BY <1>0, <1>2, <1>3, <2>1, <2>3, <2>4, <2>5, <2>6
<1>7. CASE P!SquareExit(w)
  <2>1. /\ squareVal' = [squareVal EXCEPT ![w] = 0]
        /\ UNCHANGED <<canceled, produced, outputVal, got>>
        /\ canceled \/ square[w] = "recv"
    BY <1>7 DEF P!SquareExit, P!ctxVars, P!prodVars, P!mergeVars, P!consumerVars
  <2>2. squareVal'[w] = 0 /\ SameBut(squareVal, squareVal', w)
    BY <1>0, <2>1 DEF SameBut
  <2>3. squareVal[w] = s => q >= 1 /\ qn = q - 1 BY <1>1, <2>2, HoldersMove
  <2>4. squareVal[w] # s => qn = q BY <1>1, <2>2, HoldersMove
  <2>5. squareVal[w] = s => canceled BY <1>0, <1>1, <2>1 DEF HeldWhileSending
  <2>6. on = o /\ gn = g BY <2>1
  <2> HIDE DEF q, o, g, qn, on, gn
  <2> QED BY <1>0, <1>2, <1>3, <2>1, <2>3, <2>4, <2>5, <2>6
<1>8. CASE P!OutputExit(w)
  <2>1. /\ outputVal' = [outputVal EXCEPT ![w] = 0]
        /\ UNCHANGED <<canceled, produced, squareVal, got>>
        /\ canceled \/ output[w] = "recv"
    BY <1>8 DEF P!OutputExit, P!ctxVars, P!prodVars, P!squareVars, P!consumerVars
  <2>2. outputVal'[w] = 0 /\ SameBut(outputVal, outputVal', w)
    BY <1>0, <2>1 DEF SameBut
  <2>3. outputVal[w] = s => o >= 1 /\ on = o - 1 BY <1>1, <2>2, HoldersMove
  <2>4. outputVal[w] # s => on = o BY <1>1, <2>2, HoldersMove
  <2>5. outputVal[w] = s => canceled BY <1>0, <1>1, <2>1 DEF HeldWhileSending
  <2>6. qn = q /\ gn = g BY <2>1
  <2> HIDE DEF q, o, g, qn, on, gn
  <2> QED BY <1>0, <1>2, <1>3, <2>1, <2>3, <2>4, <2>5, <2>6
<1> QED BY <1>4, <1>5, <1>6, <1>7, <1>8 DEF P!Move, P!Exit

(* The types, the order of the shutdown and what a goroutine holds.        *)
LEMMA PipelineOrder ==
  ASSUME PipelineInv, P!Next
  PROVE  (P!TypeOK /\ P!NoSendOnClosed /\ P!ShutdownOrder /\ HeldWhileSending)'
<1> USE DEF P!NoSendOnClosed, P!ShutdownOrder, HeldWhileSending, P!ctxVars, P!prodVars,
            P!squareVars, P!mergeVars, P!consumerVars
<1>0. /\ P!TypeOK /\ P!NoSendOnClosed /\ P!ShutdownOrder /\ HeldWhileSending
      /\ V \in Nat /\ 0 \notin Squares
  BY VAssumption, SquaresDiffer DEF PipelineInv, P!IInv, Squares, P!Squares
<1>1. ASSUME NEW w \in Worker, P!ProduceSend(w)
      PROVE  (P!TypeOK /\ P!NoSendOnClosed /\ P!ShutdownOrder /\ HeldWhileSending)'
  <2> DEFINE x == produced' * produced'
  <2>1. produced' \in 1 .. V /\ x \in Squares
    <3>1. produced \in 0 .. V /\ produced < V /\ produced' = produced + 1
      BY <1>0, <1>1 DEF P!ProduceSend, P!TypeOK
    <3>2. produced' \in 1 .. V BY <1>0, <3>1
    <3> QED BY <3>2 DEF Squares, P!Squares
  <2>2. squareVal' = [squareVal EXCEPT ![w] = x] BY <1>1 DEF P!ProduceSend
  <2> HIDE DEF x
  <2> QED BY <1>0, <1>1, <2>1, <2>2 DEF P!ProduceSend, P!TypeOK, Squares
<1>2. ASSUME NEW w \in Worker, P!SquareSend(w)
      PROVE  (P!TypeOK /\ P!NoSendOnClosed /\ P!ShutdownOrder /\ HeldWhileSending)'
  BY <1>0, <1>2 DEF P!SquareSend, P!TypeOK
<1>3. ASSUME NEW w \in Worker, P!OutputSend(w)
      PROVE  (P!TypeOK /\ P!NoSendOnClosed /\ P!ShutdownOrder /\ HeldWhileSending)'
  BY <1>0, <1>3 DEF P!OutputSend, P!TypeOK
<1>4. ASSUME NEW w \in Worker, P!SquareExit(w)
      PROVE  (P!TypeOK /\ P!NoSendOnClosed /\ P!ShutdownOrder /\ HeldWhileSending)'
  BY <1>0, <1>4 DEF P!SquareExit, P!TypeOK
<1>5. ASSUME NEW w \in Worker, P!OutputExit(w)
      PROVE  (P!TypeOK /\ P!NoSendOnClosed /\ P!ShutdownOrder /\ HeldWhileSending)'
  BY <1>0, <1>5 DEF P!OutputExit, P!TypeOK
<1>6. CASE P!ProducerExit BY <1>0, <1>6 DEF P!ProducerExit, P!TypeOK
<1>7. CASE P!CloseOut BY <1>0, <1>7 DEF P!CloseOut, P!TypeOK
<1>8. CASE P!OtherCancel BY <1>0, <1>8 DEF P!OtherCancel, P!TypeOK
<1>9. CASE P!FindFirstCheck BY <1>0, <1>9 DEF P!FindFirstCheck, P!Return, P!TypeOK
<1>10. CASE P!WrongFindFirstCheck
  BY <1>0, <1>10 DEF P!WrongFindFirstCheck, P!Return, P!TypeOK
<1>11. CASE P!RangeEnds BY <1>0, <1>11 DEF P!RangeEnds, P!Return, P!TypeOK
<1>12. CASE P!CleanUp BY <1>0, <1>12 DEF P!CleanUp, P!Return, P!TypeOK
<1>13. CASE P!Finished BY <1>0, <1>13 DEF P!Finished, P!vars, P!TypeOK
<1> QED
  BY <1>1, <1>2, <1>3, <1>4, <1>5, <1>6, <1>7, <1>8, <1>9, <1>10, <1>11, <1>12, <1>13
  DEF P!Next, P!Move, P!Exit, P!Consume

(* The accounting, whatever moves.                                         *)
LEMMA PipelineAccounts == ASSUME PipelineInv, P!Next PROVE P!NoneLostNoneTwice'
<1>1. CASE \E w \in Worker : P!Move(w) \/ P!Exit(w) BY <1>1, MovesAccount
<1>2. CASE P!ProducerExit \/ P!CloseOut \/ P!Consume \/ P!CleanUp \/ P!OtherCancel \/ P!Finished
  <2>1. UNCHANGED <<produced, squareVal, outputVal, got>> /\ (canceled => canceled')
    BY <1>2 DEF P!ProducerExit, P!CloseOut, P!Consume, P!FindFirstCheck,
       P!WrongFindFirstCheck, P!RangeEnds, P!CleanUp, P!OtherCancel, P!Finished, P!Return,
       P!vars, P!ctxVars, P!prodVars, P!squareVars, P!mergeVars, P!consumerVars
  <2> QED BY <2>1, NoneLostStays DEF PipelineInv, P!IInv
<1> QED BY <1>1, <1>2 DEF P!Next

(* A range that ends on its own has seen every square: nobody upstream is  *)
(* left, so no square can be anywhere else.                                *)
LEMMA NothingLeftBehind ==
  ASSUME PipelineInv, outClosed, ~canceled
  PROVE  got = Squares
<1>0. P!TypeOK /\ P!NoneLostNoneTwice /\ P!NoSendOnClosed /\ P!ShutdownOrder
      /\ HeldWhileSending
  BY DEF PipelineInv, P!IInv
<1>1. \A w \in Worker : output[w] = "exited" /\ square[w] = "closed"
  BY <1>0 DEF P!NoSendOnClosed, P!ShutdownOrder
<1>2. produced = V
  <2>1. PICK w \in Worker : TRUE BY WorkerAssumption
  <2> QED BY <1>0, <1>1, <2>1 DEF P!ShutdownOrder
<1>3. \A w \in Worker : squareVal[w] = 0 /\ outputVal[w] = 0
  BY <1>0, <1>1 DEF HeldWhileSending
<1>4. ASSUME NEW v \in 1 .. V PROVE v * v \in got
  <2>1. v * v # 0 BY SquaresDiffer, VAssumption
  <2>2. {w \in Worker : squareVal[w] = v * v} = {} /\ {w \in Worker : outputVal[w] = v * v} = {}
    BY <1>3, <2>1
  <2>3. Holders(squareVal, v * v) = 0 /\ Holders(outputVal, v * v) = 0
    BY <2>2, FS_EmptySet DEF Holders
  <2>4. P!Places(v * v) = 1 BY <1>0, <1>2, VAssumption DEF P!NoneLostNoneTwice
  <2> QED BY <2>3, <2>4, PlacesAreHolders
<1>5. Squares \subseteq got BY <1>4 DEF Squares, P!Squares
<1>6. got \subseteq Squares BY <1>0 DEF P!TypeOK, Squares
<1> QED BY <1>5, <1>6

LEMMA PipelineDrains == ASSUME PipelineInv, P!Next PROVE P!DrainedMeansAll'
<1> SUFFICES ASSUME pc' = "done", ~canceled' PROVE got' = Squares
  BY DEF P!DrainedMeansAll, Squares, P!Squares
<1> USE DEF P!ctxVars, P!prodVars, P!squareVars, P!mergeVars, P!consumerVars
<1>0. ~canceled /\ P!TypeOK /\ (pc = "done" => got = Squares)
  BY DEF PipelineInv, P!IInv, P!TypeOK, P!DrainedMeansAll, Squares, P!Next, P!Move, P!Exit,
     P!ProduceSend, P!SquareSend, P!OutputSend, P!SquareExit, P!OutputExit, P!ProducerExit,
     P!CloseOut, P!Consume, P!FindFirstCheck, P!WrongFindFirstCheck, P!RangeEnds, P!CleanUp,
     P!OtherCancel, P!Finished, P!Return, P!vars
<1>1. CASE P!RangeEnds
  BY <1>0, <1>1, NothingLeftBehind DEF P!RangeEnds, P!Return
<1>2. CASE ~P!RangeEnds
  <2>1. pc = "done" /\ got' = got
    BY <1>0, <1>2 DEF P!Next, P!Move, P!Exit, P!ProduceSend, P!SquareSend, P!OutputSend,
       P!SquareExit, P!OutputExit, P!ProducerExit, P!CloseOut, P!Consume, P!FindFirstCheck,
       P!WrongFindFirstCheck, P!CleanUp, P!OtherCancel, P!Finished, P!Return, P!vars
  <2> QED BY <1>0, <2>1
<1> QED BY <1>1, <1>2

(* No value is lost or doubled, nobody sends on the closed channel, and a  *)
(* consumer whose range ended on its own has seen every square.            *)
THEOREM PipelineLosesNothing == CancellationSpec => []PipelineIsSafe
<1>1. CancellationInit => PipelineInv BY PipelineInit DEF CancellationInit
<1>2. ASSUME PipelineInv, [CancellationNext]_<<program, vars, pipelineVars>>
      PROVE  PipelineInv'
  <2>1. CASE P!Next
    BY <1>2, <2>1, PipelineOrder, PipelineAccounts, PipelineDrains DEF PipelineInv, P!IInv
  <2>2. CASE UNCHANGED pipelineVars
    BY <1>2, <2>2 DEF pipelineVars, PipelineInv, P!IInv, P!TypeOK, P!NoneLostNoneTwice,
       P!Places, P!NoSendOnClosed, P!ShutdownOrder, HeldWhileSending, P!DrainedMeansAll
  <2> QED BY <1>2, <2>1, <2>2 DEF CancellationNext
<1>3. PipelineInv => PipelineIsSafe BY DEF PipelineInv, PipelineIsSafe
<1> QED BY <1>1, <1>2, <1>3, PTL DEF CancellationSpec

(* The group of a composed behaviour is a behaviour of the group.          *)
THEOREM CancellationKeepsGroup == CancellationSpec => [](IInv /\ WaitIsHonest)
<1>1. CancellationInit => Init BY DEF CancellationInit
<1>2. [CancellationNext]_<<program, vars, pipelineVars>> => [Next]_vars
  BY DEF CancellationNext
<1> QED BY <1>1, <1>2, GroupAccounts, WaitCanBeTrusted, PTL DEF CancellationSpec, Spec

=============================================================================
