-------------------------- MODULE SequentialProofs ---------------------------
(***************************************************************************)
(* Proofs about what runs alone or behind a lock.  Of the todo server, for *)
(* any number of clients and any requests: what the clients are told can   *)
(* be told as if the requests came one by one.  Of the measurements: the   *)
(* heap and the collections of every phase, for every width of a word.  Of *)
(* the token bucket, for any number of callers: no wait is overlong, and   *)
(* the throughput has its bound.  Of the linked list, for any number of    *)
(* addresses: it keeps what was pushed, and pops the last of it.  Of four  *)
(* of the formulas, that they are right on every input.  Of the functions  *)
(* that defer, for any texts of the shape theirs have: what is opened has  *)
(* been closed, once, when the function is over.                           *)
(***************************************************************************)
EXTENDS Sequential, FiniteSetTheorems, SequenceTheorems, WellFoundedInduction, TLAPS

-----------------------------------------------------------------------------
(* Induction over the numbers and over the subsets of a finite set, and    *)
(* the sums of weights over one.                                           *)

(* A set of numbers that has 0, and the successor of all it has, has all.  *)
LEMMA FromZero ==
  ASSUME NEW N \in SUBSET Nat, 0 \in N, \A n \in N : n + 1 \in N
  PROVE  N = Nat
  <1> SUFFICES ASSUME Nat \ N # {} PROVE FALSE
    OBVIOUS
  <1>1. \E n \in Nat \ N : \A m \in Nat \ N : ~(<<m, n>> \in OpToRel(<, Nat))
    BY WFMin, NatLessThanWellFounded
  <1>2. \A m, n \in Nat : m < n => <<m, n>> \in OpToRel(<, Nat)
    BY DEF OpToRel
  <1>3. PICK n \in Nat \ N : \A m \in Nat \ N : ~(m < n)
    BY <1>1, <1>2
  <1>4. n # 0
    BY <1>3
  <1>5. n - 1 \in Nat /\ n - 1 < n /\ (n - 1) + 1 = n
    BY <1>4
  <1> QED BY <1>3, <1>5

(* f has the sum of the weights w of every subset of S.                    *)
Pick(s) == CHOOSE x \in s : TRUE
IsSum(w, S, f) ==
  f = [s \in SUBSET S |-> IF s = {} THEN 0 ELSE w[Pick(s)] + f[s \ {Pick(s)}]]

LEMMA PickedOut ==
  ASSUME NEW S, IsFiniteSet(S), NEW s \in SUBSET S, s # {}
  PROVE  /\ Pick(s) \in s /\ s \ {Pick(s)} \in SUBSET S
         /\ IsFiniteSet(s) /\ Cardinality(s) \in Nat
         /\ Cardinality(s \ {Pick(s)}) = Cardinality(s) - 1
  <1>1. Pick(s) \in s
    BY DEF Pick
  <1>2. IsFiniteSet(s)
    BY FS_Subset
  <1> QED BY <1>1, <1>2, FS_RemoveElement, FS_CardinalityType

LEMMA SumExists ==
  ASSUME NEW S, IsFiniteSet(S), NEW w \in [S -> Nat]
  PROVE  \E f \in [SUBSET S -> Nat] : IsSum(w, S, f)
  <1> DEFINE Small(f, n) == \A s \in SUBSET S : Cardinality(s) <= n =>
               f[s] = IF s = {} THEN 0 ELSE w[Pick(s)] + f[s \ {Pick(s)}]
             N == {n \in Nat : \E f \in [SUBSET S -> Nat] : Small(f, n)}
  <1>1. 0 \in N
    <2> DEFINE zero == [s \in SUBSET S |-> 0]
    <2>1. zero \in [SUBSET S -> Nat]
      OBVIOUS
    <2>2. \A s \in SUBSET S : Cardinality(s) <= 0 => s = {}
      BY FS_Subset, FS_EmptySet, FS_CardinalityType
    <2>3. Small(zero, 0)
      BY <2>2
    <2> QED BY <2>1, <2>3
  <1>2. ASSUME NEW n \in N PROVE n + 1 \in N
    <2>1. PICK f \in [SUBSET S -> Nat] : Small(f, n)
      OBVIOUS
    <2> DEFINE g == [s \in SUBSET S |-> IF s = {} THEN 0 ELSE w[Pick(s)] + f[s \ {Pick(s)}]]
    <2>2. ASSUME NEW s \in SUBSET S PROVE g[s] \in Nat
      BY PickedOut
    <2>3. g \in [SUBSET S -> Nat]
      BY <2>2
    <2>4. \A s \in SUBSET S : Cardinality(s) <= n => g[s] = f[s]
      BY <2>1
    <2>5. ASSUME NEW s \in SUBSET S, Cardinality(s) <= n + 1
          PROVE  g[s] = IF s = {} THEN 0 ELSE w[Pick(s)] + g[s \ {Pick(s)}]
      <3>1. CASE s = {}
        BY <3>1
      <3>2. CASE s # {}
        <4>1. s \ {Pick(s)} \in SUBSET S /\ Cardinality(s \ {Pick(s)}) <= n
          BY <2>5, <3>2, PickedOut
        <4>2. g[s \ {Pick(s)}] = f[s \ {Pick(s)}]
          BY <2>4, <4>1
        <4> QED BY <3>2, <4>2
      <3> QED BY <3>1, <3>2
    <2>6. Small(g, n + 1)
      BY <2>5
    <2> HIDE DEF g, Small
    <2> QED BY <2>3, <2>6
  <1>3. Cardinality(S) \in N
    <2> HIDE DEF N
    <2>1. N \in SUBSET Nat
      BY DEF N
    <2> QED BY <1>1, <1>2, <2>1, FromZero, FS_CardinalityType
  <1>4. PICK f \in [SUBSET S -> Nat] : Small(f, Cardinality(S))
    BY <1>3
  <1>5. \A s \in SUBSET S : f[s] = IF s = {} THEN 0 ELSE w[Pick(s)] + f[s \ {Pick(s)}]
    BY <1>4, FS_Subset
  <1>6. f = [s \in SUBSET S |-> IF s = {} THEN 0 ELSE w[Pick(s)] + f[s \ {Pick(s)}]]
    BY <1>5
  <1> QED BY <1>6 DEF IsSum

(* A collection of subsets of S that has {}, and a subset whenever it has  *)
(* it without its pick, has all of them.                                   *)
LEMMA FromTheEmptySet ==
  ASSUME NEW S, IsFiniteSet(S), NEW Q \in SUBSET SUBSET S, {} \in Q,
         \A s \in SUBSET S : s # {} /\ s \ {Pick(s)} \in Q => s \in Q
  PROVE  Q = SUBSET S
  <1> DEFINE N == {n \in Nat : \A s \in SUBSET S : Cardinality(s) <= n => s \in Q}
  <1>1. 0 \in N
    <2>1. \A s \in SUBSET S : Cardinality(s) <= 0 => s = {}
      BY FS_Subset, FS_EmptySet, FS_CardinalityType
    <2> QED BY <2>1
  <1>2. ASSUME NEW n \in N PROVE n + 1 \in N
    <2> SUFFICES ASSUME NEW s \in SUBSET S, Cardinality(s) <= n + 1 PROVE s \in Q
      OBVIOUS
    <2> SUFFICES ASSUME s # {} PROVE s \in Q
      OBVIOUS
    <2>1. s \ {Pick(s)} \in SUBSET S /\ Cardinality(s \ {Pick(s)}) <= n
      BY PickedOut
    <2> QED BY <2>1
  <1>3. N = Nat
    <2> HIDE DEF N
    <2>1. N \in SUBSET Nat
      BY DEF N
    <2> QED BY <1>1, <1>2, <2>1, FromZero
  <1> QED BY <1>3, FS_Subset, FS_CardinalityType

(* The sum of all the weights.                                             *)
Sums(S, w) == CHOOSE f : f \in [SUBSET S -> Nat] /\ IsSum(w, S, f)
Total(S, w) == Sums(S, w)[S]

AddsUp(w, S, f) ==
  /\ f \in [SUBSET S -> Nat] /\ f[{}] = 0
  /\ \A s \in SUBSET S : s # {} => f[s] = w[Pick(s)] + f[s \ {Pick(s)}]

LEMMA SumsAre ==
  ASSUME NEW S, IsFiniteSet(S), NEW w, w \in [S -> Nat]
  PROVE  /\ Sums(S, w) \in [SUBSET S -> Nat] /\ IsSum(w, S, Sums(S, w))
         /\ Total(S, w) = Sums(S, w)[S] /\ Total(S, w) \in Nat
         /\ AddsUp(w, S, Sums(S, w))
  <1>1. \E f : f \in [SUBSET S -> Nat] /\ IsSum(w, S, f)
    BY SumExists
  <1>2. Sums(S, w) \in [SUBSET S -> Nat] /\ IsSum(w, S, Sums(S, w))
    BY <1>1 DEF Sums
  <1>3. Total(S, w) = Sums(S, w)[S] /\ Total(S, w) \in Nat
    BY <1>2 DEF Total
  <1>4. \A s \in SUBSET S : Sums(S, w)[s] =
           IF s = {} THEN 0 ELSE w[Pick(s)] + Sums(S, w)[s \ {Pick(s)}]
    BY <1>2 DEF IsSum
  <1> QED BY <1>2, <1>3, <1>4 DEF AddsUp

(* When one weight moves by k, and no other grows, so does the total.      *)
LEMMA TotalMoves ==
  ASSUME NEW S, IsFiniteSet(S), NEW v, NEW w, v \in [S -> Nat], w \in [S -> Nat],
         NEW d, NEW k, k \in Int, d \in S \/ k = 0,
         \A x \in S : v[x] <= w[x] + (IF x = d THEN k ELSE 0)
  PROVE  Total(S, v) <= Total(S, w) + k
  <1> DEFINE f == Sums(S, v)
             g == Sums(S, w)
             Q == {s \in SUBSET S : f[s] <= g[s] + (IF d \in s THEN k ELSE 0)}
  <1>1. AddsUp(v, S, f) /\ Total(S, v) = f[S]
    BY SumsAre
  <1>2. AddsUp(w, S, g) /\ Total(S, w) = g[S]
    BY SumsAre
  <1> HIDE DEF f, g
  <1>3. {} \in Q
    BY <1>1, <1>2 DEF AddsUp
  <1>4. ASSUME NEW s \in SUBSET S, s # {}, s \ {Pick(s)} \in Q PROVE s \in Q
    <2> DEFINE p == Pick(s)
               r == s \ {p}
    <2>1. p \in S /\ p \in s /\ r \in SUBSET S
      BY <1>4, PickedOut
    <2>2. f[s] = v[p] + f[r] /\ g[s] = w[p] + g[r]
      BY <1>1, <1>2, <1>4 DEF AddsUp
    <2>3. f[r] <= g[r] + (IF d \in r THEN k ELSE 0)
      BY <1>4
    <2>4. /\ v[p] \in Nat /\ w[p] \in Nat /\ f[r] \in Nat /\ g[r] \in Nat
          /\ v[p] <= w[p] + (IF p = d THEN k ELSE 0)
      BY <1>1, <1>2, <2>1 DEF AddsUp
    <2>5. (p = d => d \notin r /\ d \in s) /\ (p # d => (d \in s <=> d \in r))
      BY <2>1
    <2> HIDE DEF p, r
    <2>6. f[s] <= g[s] + (IF d \in s THEN k ELSE 0)
      <3>1. CASE p = d
        BY <2>2, <2>3, <2>4, <2>5, <3>1
      <3>2. CASE p # d
        BY <2>2, <2>3, <2>4, <2>5, <3>2
      <3> QED BY <3>1, <3>2
    <2> QED BY <2>6
  <1>5. Q = SUBSET S
    <2> HIDE DEF Q
    <2>1. Q \in SUBSET SUBSET S
      BY DEF Q
    <2> QED BY <1>3, <1>4, <2>1, FromTheEmptySet
  <1>6. f[S] <= g[S] + (IF d \in S THEN k ELSE 0)
    BY <1>5
  <1>7. f[S] \in Nat /\ g[S] \in Nat
    BY <1>1, <1>2 DEF AddsUp
  <1> QED BY <1>1, <1>2, <1>6, <1>7

(* Of weights of at most b each.                                           *)
LEMMA TotalWithin ==
  ASSUME NEW S, IsFiniteSet(S), NEW v \in [S -> Nat], NEW b \in Nat,
         \A x \in S : v[x] <= b
  PROVE  Total(S, v) <= Cardinality(S) * b
  <1> DEFINE f == Sums(S, v)
             Q == {s \in SUBSET S : f[s] <= Cardinality(s) * b}
  <1>0. \A n \in Nat : n * b \in Nat /\ (n - 1) * b = n * b - b
    OBVIOUS
  <1>1. AddsUp(v, S, f) /\ Total(S, v) = f[S]
    BY SumsAre
  <1> HIDE DEF f
  <1>2. {} \in Q
    BY <1>0, <1>1, FS_EmptySet DEF AddsUp
  <1>3. ASSUME NEW s \in SUBSET S, s # {}, s \ {Pick(s)} \in Q PROVE s \in Q
    <2> DEFINE p == Pick(s)
               r == s \ {p}
               n == Cardinality(s)
    <2>1. p \in S /\ r \in SUBSET S /\ n \in Nat /\ Cardinality(r) = n - 1
      BY <1>3, PickedOut
    <2>2. f[s] = v[p] + f[r] /\ f[r] <= (n - 1) * b
      BY <1>1, <1>3, <2>1 DEF AddsUp
    <2>3. v[p] \in Nat /\ f[r] \in Nat /\ v[p] <= b
      BY <1>1, <2>1 DEF AddsUp
    <2> HIDE DEF p, r, n
    <2>4. n * b \in Nat /\ (n - 1) * b = n * b - b
      BY <1>0, <2>1
    <2>5. f[s] <= n * b
      BY <2>2, <2>3, <2>4
    <2> QED BY <2>5 DEF n
  <1>4. Q = SUBSET S
    <2> HIDE DEF Q
    <2>1. Q \in SUBSET SUBSET S
      BY DEF Q
    <2> QED BY <1>2, <1>3, <2>1, FromTheEmptySet
  <1> QED BY <1>1, <1>4

(* Of weights that are each at most b above others.                        *)
LEMMA TotalExceeds ==
  ASSUME NEW S, IsFiniteSet(S), NEW v \in [S -> Nat], NEW w \in [S -> Nat], NEW b \in Nat,
         \A x \in S : v[x] <= w[x] + b
  PROVE  Total(S, v) <= Total(S, w) + Cardinality(S) * b
  <1> DEFINE f == Sums(S, v)
             g == Sums(S, w)
             Q == {s \in SUBSET S : f[s] <= g[s] + Cardinality(s) * b}
  <1>0. \A n \in Nat : n * b \in Nat /\ (n - 1) * b = n * b - b
    OBVIOUS
  <1>1. AddsUp(v, S, f) /\ Total(S, v) = f[S]
    BY SumsAre
  <1>2. AddsUp(w, S, g) /\ Total(S, w) = g[S]
    BY SumsAre
  <1> HIDE DEF f, g
  <1>3. {} \in Q
    BY <1>0, <1>1, <1>2, FS_EmptySet DEF AddsUp
  <1>4. ASSUME NEW s \in SUBSET S, s # {}, s \ {Pick(s)} \in Q PROVE s \in Q
    <2> DEFINE p == Pick(s)
               r == s \ {p}
               n == Cardinality(s)
    <2>1. p \in S /\ r \in SUBSET S /\ n \in Nat /\ Cardinality(r) = n - 1
      BY <1>4, PickedOut
    <2>2. f[s] = v[p] + f[r] /\ g[s] = w[p] + g[r] /\ f[r] <= g[r] + (n - 1) * b
      BY <1>1, <1>2, <1>4, <2>1 DEF AddsUp
    <2>3. v[p] \in Nat /\ w[p] \in Nat /\ f[r] \in Nat /\ g[r] \in Nat /\ v[p] <= w[p] + b
      BY <1>1, <1>2, <2>1 DEF AddsUp
    <2> HIDE DEF p, r, n
    <2>4. n * b \in Nat /\ (n - 1) * b = n * b - b
      BY <1>0, <2>1
    <2>5. f[s] <= g[s] + n * b
      BY <2>2, <2>3, <2>4
    <2> QED BY <2>5 DEF n
  <1>5. Q = SUBSET S
    <2> HIDE DEF Q
    <2>1. Q \in SUBSET SUBSET S
      BY DEF Q
    <2> QED BY <1>3, <1>4, <2>1, FromTheEmptySet
  <1> QED BY <1>1, <1>2, <1>5

-----------------------------------------------------------------------------
(* The todo server.                                                        *)

(* The IDs in the slice.                                                   *)
Todos == {array[i] : i \in 1 .. len}

(* The slice is in the order of creation.                                  *)
Slice ==
  /\ nextID \in Nat /\ len \in Nat /\ array \in Seq(Nat) /\ len <= Len(array)
  /\ \A i \in 1 .. len : array[i] \in 1 .. nextID
  /\ \A i, j \in 1 .. len : i < j => array[i] < array[j]

(* Where the clients are, with the mutex; a client has been told nothing   *)
(* before its handler writes, but for the part of a list that is encoded.  *)
Places == {"new", "lock", "handle", "write", "done"}
Said == {"write", "done"}
Clients ==
  /\ request \in [Conn -> TodoRequests]
  /\ at \in [Conn -> Places]
  /\ answer \in [Conn -> Seq(Int)]
  /\ before \in [Conn -> SUBSET Answered]
  /\ \A c \in Conn : at[c] \in {"handle", "write"} => mu = c
  /\ \A c \in Conn : at[c] \notin Said /\ ~Handling(c, "list") => answer[c] = <<>>
  /\ \A c \in Conn : Handling(c, "list") =>
       Len(answer[c]) <= len /\ \A i \in 1 .. Len(answer[c]) : answer[c][i] = array[i]

(* The IDs that were given.                                                *)
Creations ==
  /\ \A c \in Conn : Told(c, "create") => \E id \in 1 .. nextID : answer[c] = <<id>>
  /\ \A c, d \in Conn : c # d /\ Told(c, "create") /\ Told(d, "create") => answer[c] # answer[d]

(* A todo is there unless somebody who was answered deleted it, and one    *)
(* that is there all the same was created after that deletion was asked.   *)
Contents ==
  /\ \A id \in 1 .. nextID :
       (\A e \in Conn : Deletes(e, id) => at[e] \notin Said) => id \in Todos
  /\ \A d \in Conn : \A id \in Todos :
       Deletes(d, id) /\ at[d] \in Said => \E e \in Conn : Creator(e, id) /\ e \notin before[d]

Created(c, id) ==
  \/ id \in 1 .. nextID - Cardinality({e \in Conn : Told(e, "create")})
  \/ \E e \in before[c] : Creator(e, id)

(* What a list that was sent says.                                         *)
ListIsTrue(c) ==
  /\ \A i, j \in DOMAIN answer[c] : i < j => answer[c][i] < answer[c][j]
  /\ \A id \in 1 .. nextID :
       Created(c, id) /\ (\A e \in Conn : Deletes(e, id) => at[e] = "new") =>
         id \in ToSet(answer[c])
  /\ \A id \in ToSet(answer[c]) :
       /\ id <= nextID
       /\ \A d \in before[c] :
            Deletes(d, id) => \E e \in Conn : Creator(e, id) /\ e \notin before[d]
Lists == \A c \in Conn : Told(c, "list") => ListIsTrue(c)

TodoInv == Slice /\ Clients /\ Creations /\ Contents /\ Lists

-----------------------------------------------------------------------------
LEMMA MaxOfTwo ==
  ASSUME NEW a \in Int, NEW b \in Int
  PROVE  Max({a, b}) = IF a >= b THEN a ELSE b
  <1>1. CASE a >= b
    <2>1. a \in {a, b} /\ \A y \in {a, b} : a >= y
      BY <1>1
    <2>2. \A x \in {a, b} : (\A y \in {a, b} : x >= y) => x = a
      BY <1>1
    <2> QED BY <1>1, <2>1, <2>2 DEF Max
  <1>2. CASE ~(a >= b)
    <2>1. b \in {a, b} /\ \A y \in {a, b} : b >= y
      BY <1>2
    <2>2. \A x \in {a, b} : (\A y \in {a, b} : x >= y) => x = b
      BY <1>2
    <2> QED BY <1>2, <2>1, <2>2 DEF Max
  <1> QED BY <1>1, <1>2

(* What createTodo does to the slice: an ID larger than all comes last.    *)
LEMMA CreateAppends ==
  ASSUME Slice, NEW c \in Conn, createTodo(c)
  PROVE  /\ nextID' = nextID + 1 /\ len' = len + 1
         /\ array' \in Seq(Nat) /\ len' <= Len(array')
         /\ array'[len'] = nextID'
         /\ \A i \in 1 .. len : array'[i] = array[i]
  <1>1. nextID \in Nat /\ len \in Nat /\ array \in Seq(Nat) /\ len <= Len(array)
    BY DEF Slice
  <1>2. nextID' = nextID + 1 /\ len' = len + 1
    BY DEF createTodo
  <1> DEFINE n == Max({Len(array), len + 1})
  <1>3. n \in Nat /\ n >= Len(array) /\ n >= len + 1 /\ (n = Len(array) \/ n = len + 1)
    BY <1>1, MaxOfTwo
  <1>4. array' = [i \in 1 .. n |-> IF i = len + 1 THEN nextID' ELSE array[i]]
    BY DEF createTodo
  <1> HIDE DEF n
  <1>5. \A i \in 1 .. n : (IF i = len + 1 THEN nextID' ELSE array[i]) \in Nat
    BY <1>1, <1>2, <1>3
  <1>6. array' \in Seq(Nat) /\ Len(array') = n
    BY <1>3, <1>4, <1>5
  <1> QED BY <1>1, <1>2, <1>3, <1>4, <1>6

(* What deleteTodo does: the ID is in the slice no more, and that is all.  *)
LEMMA DeleteRemoves ==
  ASSUME Slice, NEW c \in Conn, deleteTodo(c)
  PROVE  Slice' /\ Todos' = Todos \ {request[c].id}
  <1>1. nextID \in Nat /\ len \in Nat /\ array \in Seq(Nat) /\ len <= Len(array) /\ nextID' = nextID
    BY DEF Slice, deleteTodo
  <1>2. /\ \A i \in 1 .. len : array[i] \in 1 .. nextID
        /\ \A i, j \in 1 .. len : i < j => array[i] < array[j]
    BY DEF Slice
  <1> DEFINE found == {i \in 1 .. len : array[i] = request[c].id}
  <1>3. CASE found = {}
    <2>1. array' = array /\ len' = len
      BY <1>3 DEF deleteTodo
    <2>2. Slice'
      BY <1>1, <2>1, <1>2 DEF Slice
    <2>3. Todos' = Todos /\ request[c].id \notin Todos
      BY <2>1, <1>3 DEF Todos
    <2> QED BY <2>2, <2>3
  <1>4. CASE found # {}
    <2>1. PICK i \in found :
            array' = [k \in DOMAIN array |->
                        IF k \in i .. len - 1 THEN array[k + 1] ELSE array[k]]
      BY <1>4 DEF deleteTodo
    <2>2. len' = len - 1
      BY <1>4 DEF deleteTodo
    <2>3. i \in 1 .. len /\ array[i] = request[c].id
      OBVIOUS
    <2> HIDE DEF found
    <2>4. DOMAIN array = 1 .. Len(array) /\ len' \in Nat
      BY <1>1, <2>2, <2>3
    <2>5. \A k \in 1 .. Len(array) : array[k] \in Nat
      BY <1>1
    <2>6. array' \in Seq(Nat) /\ Len(array') = Len(array)
      BY <1>1, <2>1, <2>3, <2>4, <2>5
    <2> DEFINE from(k) == IF k < i THEN k ELSE k + 1
    <2>7. \A k \in 1 .. len' : array'[k] = array[from(k)]
      BY <1>1, <2>1, <2>2, <2>3, <2>4
    <2>8. \A k \in 1 .. len' : from(k) \in 1 .. len /\ from(k) # i
      BY <1>1, <2>2, <2>3
    <2>9. \A k, m \in 1 .. len' : k < m => from(k) < from(m)
      BY <1>1, <2>2, <2>3
    <2>10. \A j \in 1 .. len : j # i => \E k \in 1 .. len' : from(k) = j
      <3> SUFFICES ASSUME NEW j \in 1 .. len, j # i PROVE \E k \in 1 .. len' : from(k) = j
        OBVIOUS
      <3>1. CASE j < i
        <4>1. j \in 1 .. len' /\ from(j) = j
          BY <3>1, <1>1, <2>2, <2>3
        <4> QED BY <4>1
      <3>2. CASE j > i
        <4>1. j - 1 \in 1 .. len' /\ from(j - 1) = j
          BY <3>2, <1>1, <2>2, <2>3
        <4> QED BY <4>1
      <3> QED BY <3>1, <3>2, <1>1, <2>3
    <2>11. \A j \in 1 .. len : j # i => array[j] # array[i]
      BY <1>1, <1>2, <2>3
    <2> HIDE DEF from
    <2>12. len' <= Len(array')
      BY <1>1, <2>2, <2>4, <2>6
    <2>13. \A k \in 1 .. len' : array'[k] \in 1 .. nextID'
      BY <1>1, <1>2, <2>7, <2>8
    <2>14. \A k, m \in 1 .. len' : k < m => array'[k] < array'[m]
      BY <1>2, <2>7, <2>8, <2>9
    <2>15. Slice'
      BY <1>1, <2>4, <2>6, <2>12, <2>13, <2>14 DEF Slice
    <2>16. Todos' = {array[from(k)] : k \in 1 .. len'}
      BY <2>7 DEF Todos
    <2>17. {array[from(k)] : k \in 1 .. len'} = {array[j] : j \in (1 .. len) \ {i}}
      BY <2>8, <2>10
    <2>18. {array[j] : j \in (1 .. len) \ {i}} = Todos \ {request[c].id}
      BY <2>3, <2>11 DEF Todos
    <2> QED BY <2>15, <2>16, <2>17, <2>18
  <1> QED BY <1>3, <1>4

LEMMA SliceStep == Slice /\ TodoNext => Slice'
  <1> SUFFICES ASSUME Slice, NEW c \in Conn, Arrive(c) \/ Serve(c) PROVE Slice'
    BY DEF TodoNext
  <1>1. CASE createTodo(c)
    <2>1. /\ nextID' = nextID + 1 /\ len' = len + 1 /\ array' \in Seq(Nat) /\ len' <= Len(array')
          /\ array'[len'] = nextID' /\ \A i \in 1 .. len : array'[i] = array[i]
      BY <1>1, CreateAppends
    <2>2. nextID \in Nat /\ len \in Nat
      BY DEF Slice
    <2>3. \A i \in 1 .. len' : i # len' => i \in 1 .. len /\ array'[i] = array[i] /\ array[i] \in 1 .. nextID
      <3>1. \A i \in 1 .. len' : i # len' => i \in 1 .. len
        BY <2>1, <2>2
      <3>2. \A i \in 1 .. len : array[i] \in 1 .. nextID
        BY DEF Slice
      <3> QED BY <2>1, <3>1, <3>2
    <2>4. ASSUME NEW i \in 1 .. len' PROVE array'[i] \in 1 .. nextID'
      <3>1. CASE i = len'
        BY <2>1, <2>2, <3>1
      <3>2. CASE i # len'
        <4>1. array'[i] \in 1 .. nextID
          BY <2>3, <3>2
        <4> QED BY <2>1, <2>2, <4>1
      <3> QED BY <3>1, <3>2
    <2>5. ASSUME NEW i \in 1 .. len', NEW j \in 1 .. len', i < j PROVE array'[i] < array'[j]
      <3>1. i # len' /\ i \in 1 .. len
        BY <2>1, <2>2, <2>5
      <3>2. CASE j = len'
        BY <3>1, <3>2, <2>1, <2>2, <2>3
      <3>3. CASE j # len'
        BY <3>1, <3>3, <2>3, <2>5 DEF Slice
      <3> QED BY <3>2, <3>3
    <2> QED BY <2>1, <2>2, <2>4, <2>5 DEF Slice
  <1>2. CASE deleteTodo(c)
    BY <1>2, DeleteRemoves
  <1>3. CASE UNCHANGED <<array, len, nextID>>
    BY <1>3 DEF Slice
  <1>4. Arrive(c) \/ Lock(c) \/ createTodoFails(c) \/ listTodos(c) \/ Return(c) => UNCHANGED <<array, len, nextID>>
    BY DEF Arrive, Lock, createTodoFails, listTodos, Return
  <1> QED BY <1>1, <1>2, <1>3, <1>4 DEF Serve

LEMMA CreatedTodos ==
  ASSUME Slice, NEW c \in Conn, createTodo(c)
  PROVE  Todos' = Todos \cup {nextID'}
  <1>1. /\ len' = len + 1 /\ array'[len'] = nextID' /\ len \in Nat
        /\ \A i \in 1 .. len : array'[i] = array[i]
    BY CreateAppends DEF Slice
  <1>2. 1 .. len' = (1 .. len) \cup {len'}
    BY <1>1
  <1>3. Todos' = {array'[i] : i \in (1 .. len) \cup {len'}}
    BY <1>2 DEF Todos
  <1> QED BY <1>1, <1>3 DEF Todos

(* What is over stays: an answer, who was done when somebody asked.  IDs   *)
(* are not given twice.                                                    *)
Frozen(c) ==
  /\ at[c] = "done" => at'[c] = "done"
  /\ at[c] \in Said => at'[c] \in Said /\ answer'[c] = answer[c] /\ before'[c] = before[c]
  /\ at[c] # "new" => at'[c] # "new" /\ before'[c] = before[c]
  /\ at'[c] \in Said /\ at[c] \notin Said => at[c] = "handle" /\ mu = c
PastStays ==
  /\ request' = request
  /\ \A c \in Conn : Frozen(c)
  /\ nextID \in Nat /\ nextID' \in Nat /\ nextID <= nextID'

LEMMA PastIsFrozen == Slice /\ Clients /\ TodoNext => PastStays
  <1> SUFFICES ASSUME Slice, Clients, NEW c \in Conn, Arrive(c) \/ Serve(c) PROVE PastStays
    BY DEF TodoNext
  <1>1. /\ at \in [Conn -> Places] /\ answer \in [Conn -> Seq(Int)]
        /\ before \in [Conn -> SUBSET Answered] /\ (at[c] = "handle" => mu = c)
    BY DEF Clients
  <1>2. nextID \in Nat /\ nextID' \in Nat /\ nextID <= nextID'
    <2>1. CASE createTodo(c)
      BY <2>1 DEF Slice, createTodo
    <2>2. CASE Arrive(c) \/ Lock(c) \/ createTodoFails(c) \/ listTodos(c) \/ deleteTodo(c) \/ Return(c)
      BY <2>2 DEF Slice, Arrive, Lock, createTodoFails, listTodos, deleteTodo, Return
    <2> QED BY <2>1, <2>2 DEF Serve
  <1>3. CASE Arrive(c)
    BY <1>1, <1>2, <1>3 DEF Arrive, PastStays, Frozen, Said
  <1>4. CASE Lock(c) \/ Return(c)
    BY <1>1, <1>2, <1>4 DEF Lock, Return, PastStays, Frozen, Said
  <1>5. ASSUME NEW said, at[c] = "handle", Reply(c, said) PROVE PastStays
    BY <1>1, <1>2, <1>5 DEF Reply, PastStays, Frozen, Said
  <1>6. CASE createTodo(c) \/ createTodoFails(c) \/ deleteTodo(c)
    BY <1>5, <1>6 DEF createTodo, createTodoFails, deleteTodo, Handling
  <1>7. CASE listTodos(c) /\ ~(Len(answer[c]) < len)
    BY <1>5, <1>7 DEF listTodos, Handling
  <1>8. CASE listTodos(c) /\ Len(answer[c]) < len
    BY <1>1, <1>2, <1>8 DEF listTodos, Handling, PastStays, Frozen, Said
  <1> QED BY <1>3, <1>4, <1>6, <1>7, <1>8 DEF Serve

(* What one client's step leaves of the others.                            *)
LEMMA OthersWait ==
  ASSUME Clients, NEW c \in Conn, Arrive(c) \/ Serve(c), NEW d \in Conn, d # c
  PROVE  /\ at'[d] = at[d] /\ answer'[d] = answer[d] /\ before'[d] = before[d]
         /\ at[d] \in {"handle", "write"} => Arrive(c) /\ mu' = mu /\ mu = d
  <1>1. /\ at \in [Conn -> Places] /\ answer \in [Conn -> Seq(Int)]
        /\ before \in [Conn -> SUBSET Answered]
        /\ at[c] \in {"handle", "write"} => mu = c
        /\ at[d] \in {"handle", "write"} => mu = d
    BY DEF Clients
  <1>2. CASE Arrive(c)
    BY <1>1, <1>2 DEF Arrive
  <1>3. CASE Lock(c)
    BY <1>1, <1>3, ConnAssumption DEF Lock
  <1>4. CASE createTodo(c) \/ createTodoFails(c) \/ deleteTodo(c)
    BY <1>1, <1>4 DEF createTodo, createTodoFails, deleteTodo, Handling, Reply
  <1>5. CASE listTodos(c) \/ Return(c)
    BY <1>1, <1>5 DEF listTodos, Handling, Reply, Return
  <1> QED BY <1>2, <1>3, <1>4, <1>5 DEF Serve

(* What Clients says of one of them.                                       *)
OwnPlace(c) ==
  /\ at[c] \in {"handle", "write"} => mu = c
  /\ at[c] \notin Said /\ ~Handling(c, "list") => answer[c] = <<>>
  /\ Handling(c, "list") =>
       Len(answer[c]) <= len /\ \A i \in 1 .. Len(answer[c]) : answer[c][i] = array[i]

LEMMA ClientsStep == Slice /\ Clients /\ TodoNext => Clients'
  <1> SUFFICES ASSUME Slice, Clients, NEW c \in Conn, Arrive(c) \/ Serve(c) PROVE Clients'
    BY DEF TodoNext
  <1>1. /\ request \in [Conn -> TodoRequests]
        /\ at \in [Conn -> Places] /\ answer \in [Conn -> Seq(Int)]
        /\ before \in [Conn -> SUBSET Answered]
    BY DEF Clients
  <1>2. PastStays
    BY PastIsFrozen DEF TodoNext
  <1>3. request' \in [Conn -> TodoRequests]
    BY <1>1, <1>2 DEF PastStays
  <1>4. Answered \subseteq Answered'
    BY <1>2 DEF PastStays, Frozen, Answered
  <1>5. \A d \in Conn : OwnPlace(d)
    BY DEF Clients, OwnPlace
  <1>6. len \in Nat /\ array \in Seq(Nat) /\ len <= Len(array) /\ nextID \in Nat
    BY DEF Slice
  <1>7. ASSUME NEW d \in Conn, d # c PROVE OwnPlace(d)'
    <2>1. /\ at'[d] = at[d] /\ answer'[d] = answer[d] /\ request' = request
          /\ at[d] \in {"handle", "write"} => Arrive(c) /\ mu' = mu /\ mu = d
      BY <1>2, <1>7, OthersWait DEF PastStays
    <2>2. Arrive(c) => array' = array /\ len' = len
      BY DEF Arrive
    <2> QED BY <1>5, <2>1, <2>2 DEF OwnPlace, Handling
  <1>8. ASSUME NEW said \in Seq(Int), at[c] = "handle", Reply(c, said)
        PROVE  /\ at' \in [Conn -> Places] /\ answer' \in [Conn -> Seq(Int)]
               /\ before' = before /\ OwnPlace(c)'
    BY <1>1, <1>5, <1>8 DEF Reply, OwnPlace, Handling, Said, Places
  <1>9. /\ at' \in [Conn -> Places] /\ answer' \in [Conn -> Seq(Int)]
        /\ before' \in [Conn -> SUBSET Answered'] /\ OwnPlace(c)'
    <2>1. CASE Arrive(c)
      BY <1>1, <1>4, <1>5, <2>1 DEF Arrive, OwnPlace, Handling, Said, Places
    <2>2. CASE Lock(c)
      <3>1. answer[c] = <<>>
        BY <1>5, <2>2 DEF Lock, OwnPlace, Handling, Said
      <3> QED BY <1>1, <1>4, <1>6, <2>2, <3>1 DEF Lock, OwnPlace, Handling, Said, Places
    <2>3. CASE createTodo(c)
      <3>1. nextID' \in Nat
        BY <1>2 DEF PastStays
      <3>2. <<nextID'>> \in Seq(Int)
        BY <3>1
      <3> QED BY <1>1, <1>4, <1>8, <2>3, <3>2 DEF createTodo, Handling
    <2>4. CASE createTodoFails(c)
      <3>1. BadRequest \in Seq(Int)
        BY DEF BadRequest
      <3> QED BY <1>1, <1>4, <1>8, <2>4, <3>1 DEF createTodoFails, Handling
    <2>5. CASE deleteTodo(c)
      <3>1. (IF request[c].id = 0 THEN BadRequest ELSE <<>>) \in Seq(Int)
        BY DEF BadRequest
      <3> QED BY <1>1, <1>4, <1>8, <2>5, <3>1 DEF deleteTodo, Handling
    <2>6. CASE listTodos(c) /\ ~(Len(answer[c]) < len)
      BY <1>1, <1>4, <1>8, <2>6 DEF listTodos, Handling
    <2>7. CASE listTodos(c) /\ Len(answer[c]) < len
      <3> DEFINE more == Append(answer[c], array[Len(answer[c]) + 1])
      <3>1. /\ answer' = [answer EXCEPT ![c] = more]
            /\ UNCHANGED <<mu, request, at, before, array, len>> /\ Handling(c, "list")
        BY <2>7 DEF listTodos
      <3>2. answer[c] \in Seq(Int) /\ Len(answer[c]) \in Nat /\ array[Len(answer[c]) + 1] \in Int
        BY <1>1, <1>6, <2>7
      <3>3. /\ more \in Seq(Int) /\ Len(more) = Len(answer[c]) + 1
            /\ \A i \in 1 .. Len(answer[c]) : more[i] = answer[c][i]
            /\ more[Len(answer[c]) + 1] = array[Len(answer[c]) + 1]
        BY <3>2, AppendProperties
      <3> HIDE DEF more
      <3>4. Len(more) <= len /\ \A i \in 1 .. Len(more) : more[i] = array[i]
        <4>1. \A i \in 1 .. Len(answer[c]) : answer[c][i] = array[i]
          BY <1>5, <3>1 DEF OwnPlace
        <4>2. \A i \in 1 .. Len(answer[c]) + 1 : i \in 1 .. Len(answer[c]) \/ i = Len(answer[c]) + 1
          BY <3>2
        <4>3. Len(answer[c]) + 1 <= len
          BY <1>6, <2>7, <3>2
        <4> QED BY <3>3, <4>1, <4>2, <4>3
      <3>5. answer'[c] = more /\ answer' \in [Conn -> Seq(Int)]
        BY <1>1, <3>1, <3>3
      <3>6. mu' = mu /\ request' = request /\ at' = at /\ array' = array /\ len' = len
        BY <3>1
      <3>7. at[c] = "handle" /\ request[c].op = "list" /\ mu = c
        BY <1>5, <3>1 DEF OwnPlace, Handling
      <3>8. OwnPlace(c)'
        BY <3>4, <3>5, <3>6, <3>7 DEF OwnPlace, Handling
      <3> QED BY <1>1, <1>4, <3>1, <3>5, <3>8
    <2>8. CASE Return(c)
      BY <1>1, <1>4, <2>8 DEF Return, OwnPlace, Handling, Said, Places
    <2> QED BY <2>1, <2>2, <2>3, <2>4, <2>5, <2>6, <2>7, <2>8 DEF Serve
  <1>10. \A d \in Conn : OwnPlace(d)'
    BY <1>7, <1>9
  <1> QED BY <1>3, <1>9, <1>10 DEF Clients, OwnPlace

(* Who has created by now.  The count of the todos made before the first   *)
(* request is nextID less their number, and stays.                         *)
Creators == {e \in Conn : Told(e, "create")}

LEMMA CreatorsAreFew ==
  ASSUME Clients
  PROVE  IsFiniteSet(Creators) /\ Cardinality(Creators) \in Nat
BY ConnAssumption, FS_Subset, FS_CardinalityType DEF Creators

LEMMA CreatorsStep ==
  ASSUME Slice, Clients, NEW c \in Conn, Arrive(c) \/ Serve(c)
  PROVE  /\ createTodo(c) => /\ Creators' = Creators \cup {c} /\ c \notin Creators
                             /\ answer'[c] = <<nextID'>> /\ nextID' = nextID + 1
         /\ ~createTodo(c) => Creators' = Creators /\ nextID' = nextID
         /\ \A e \in Creators : answer'[e] = answer[e]
         /\ nextID' - Cardinality(Creators') = nextID - Cardinality(Creators)
  <1>1. /\ at \in [Conn -> Places] /\ answer \in [Conn -> Seq(Int)]
        /\ nextID \in Nat
    BY DEF Clients, Slice
  <1>2. PastStays
    BY PastIsFrozen DEF TodoNext
  <1>3. \A e \in Conn : e # c => (e \in Creators' <=> e \in Creators)
    BY <1>2, OthersWait DEF PastStays, Creators, Told
  <1>4. \A e \in Creators : answer'[e] = answer[e]
    BY <1>2 DEF PastStays, Frozen, Creators, Told, Said
  <1>5. CASE createTodo(c)
    <2>1. at[c] = "handle" /\ request[c].op = "create" /\ request' = request /\ nextID' = nextID + 1
      BY <1>5 DEF createTodo, Handling, Reply
    <2>2. at'[c] = "write" /\ answer'[c] = <<nextID'>>
      BY <1>1, <1>5 DEF createTodo, Reply
    <2>3. <<nextID'>> # BadRequest
      <3>1. <<nextID'>>[1] # BadRequest[1]
        BY <1>1, <2>1 DEF BadRequest
      <3> QED BY <3>1
    <2>4. c \in Creators' /\ c \notin Creators
      BY <2>1, <2>2, <2>3 DEF Creators, Told
    <2>5. Creators' = Creators \cup {c}
      BY <1>3, <2>4 DEF Creators
    <2>6. Cardinality(Creators') = Cardinality(Creators) + 1
      BY <2>4, <2>5, CreatorsAreFew, FS_AddElement
    <2> QED BY <1>1, <1>4, <1>5, <2>1, <2>2, <2>4, <2>5, <2>6, CreatorsAreFew
  <1>6. CASE ~createTodo(c)
    <2>1. c \in Creators' <=> c \in Creators
      <3>1. CASE Arrive(c) \/ Lock(c) \/ Return(c)
        BY <1>1, <3>1 DEF Arrive, Lock, Return, Creators, Told
      <3>2. CASE createTodoFails(c)
        BY <1>1, <3>2 DEF createTodoFails, Handling, Reply, Creators, Told
      <3>3. CASE listTodos(c) \/ deleteTodo(c)
        BY <1>2, <3>3 DEF PastStays, listTodos, deleteTodo, Handling, Creators, Told
      <3> QED BY <1>6, <3>1, <3>2, <3>3 DEF Serve
    <2>2. Creators' = Creators
      BY <1>3, <2>1 DEF Creators
    <2>3. nextID' = nextID
      BY <1>6 DEF Arrive, Serve, Lock, createTodoFails, listTodos, deleteTodo, Return
    <2> QED BY <1>4, <1>6, <2>2, <2>3
  <1> QED BY <1>5, <1>6

LEMMA CreationsStep == Slice /\ Clients /\ Creations /\ TodoNext => Creations'
  <1> SUFFICES ASSUME Slice, Clients, Creations, NEW c \in Conn, Arrive(c) \/ Serve(c)
               PROVE  Creations'
    BY DEF TodoNext
  <1>1. /\ createTodo(c) => /\ Creators' = Creators \cup {c} /\ c \notin Creators
                            /\ answer'[c] = <<nextID'>> /\ nextID' = nextID + 1
        /\ ~createTodo(c) => Creators' = Creators /\ nextID' = nextID
        /\ \A e \in Creators : answer'[e] = answer[e]
    BY CreatorsStep
  <1>2. \A e \in Creators : \E id \in 1 .. nextID : answer[e] = <<id>>
    BY DEF Creations, Creators
  <1>3. \A d, e \in Creators : d # e => answer[d] # answer[e]
    BY DEF Creations, Creators
  <1>4. nextID \in Nat
    BY DEF Slice
  <1>5. /\ \A e \in Creators' : \E id \in 1 .. nextID' : answer'[e] = <<id>>
        /\ \A d, e \in Creators' : d # e => answer'[d] # answer'[e]
    <2>1. CASE ~createTodo(c)
      BY <1>1, <1>2, <1>3, <2>1
    <2>2. CASE createTodo(c)
      <3>1. \A e \in Creators : \E id \in 1 .. nextID : answer'[e] = <<id>>
        BY <1>1, <1>2
      <3>2. \A id \in 1 .. nextID : <<id>> # <<nextID'>> /\ id \in 1 .. nextID'
        <4> SUFFICES ASSUME NEW id \in 1 .. nextID PROVE <<id>> # <<nextID'>> /\ id \in 1 .. nextID'
          OBVIOUS
        <4>1. <<id>>[1] # <<nextID'>>[1]
          BY <1>1, <1>4, <2>2
        <4> QED BY <1>1, <1>4, <2>2, <4>1
      <3>3. \A e \in Creators : answer'[e] # answer'[c]
        BY <1>1, <2>2, <3>1, <3>2
      <3>4. \A d, e \in Creators : d # e => answer'[d] # answer'[e]
        BY <1>1, <1>3
      <3>5. nextID' \in 1 .. nextID'
        BY <1>1, <1>4, <2>2
      <3>6. \A e \in Creators' : \E id \in 1 .. nextID' : answer'[e] = <<id>>
        BY <1>1, <2>2, <3>1, <3>2, <3>5
      <3>7. \A d, e \in Creators' : d # e => answer'[d] # answer'[e]
        BY <1>1, <2>2, <3>3, <3>4
      <3> QED BY <3>6, <3>7
    <2> QED BY <2>1, <2>2
  <1> QED BY <1>5 DEF Creations, Creators

LEMMA CreatorsOfTheCreated ==
  \A e \in Conn : \A id : Creator(e, id) <=> e \in Creators /\ answer[e] = <<id>>
BY DEF Creator, Creators

LEMMA ContentsStep == Slice /\ Clients /\ Contents /\ TodoNext => Contents'
  <1> SUFFICES ASSUME Slice, Clients, Contents, NEW c \in Conn, Arrive(c) \/ Serve(c)
               PROVE  Contents'
    BY DEF TodoNext
  <1>1. /\ createTodo(c) => /\ Creators' = Creators \cup {c} /\ c \notin Creators
                            /\ answer'[c] = <<nextID'>> /\ nextID' = nextID + 1
        /\ ~createTodo(c) => Creators' = Creators /\ nextID' = nextID
        /\ \A e \in Creators : answer'[e] = answer[e]
    BY CreatorsStep
  <1>2. PastStays
    BY PastIsFrozen DEF TodoNext
  <1>3. nextID \in Nat /\ before \in [Conn -> SUBSET Answered]
    BY DEF Slice, Clients
  <1>4. \A e \in Conn, id \in Nat : Creator(e, id) => Creator(e, id)'
    BY <1>1, <1>2 DEF Creator, Creators, PastStays, Frozen, Told, Said
  <1>5. \A e \in Conn, id \in Nat : Deletes(e, id)' <=> Deletes(e, id)
    BY <1>2 DEF PastStays, Deletes
  <1>6. CASE createTodo(c)
    <2>1. Todos' = Todos \cup {nextID'}
      BY <1>6, CreatedTodos
    <2>2. ASSUME NEW id \in 1 .. nextID', \A e \in Conn : Deletes(e, id)' => at'[e] \notin Said
          PROVE  id \in Todos'
      <3>1. CASE id = nextID'
        BY <2>1, <3>1
      <3>2. CASE id \in 1 .. nextID
        BY <1>2, <1>5, <2>1, <2>2, <3>2 DEF Contents, PastStays, Frozen
      <3> QED BY <1>1, <1>3, <1>6, <3>1, <3>2
    <2>3. ASSUME NEW d \in Conn, NEW id \in Todos', Deletes(d, id)', at'[d] \in Said
          PROVE  \E e \in Conn : Creator(e, id)' /\ e \notin before'[d]
      <3>0. at[c] = "handle" /\ request[c].op = "create"
        BY <1>6 DEF createTodo, Handling
      <3>1. d # c /\ at[d] \in Said /\ before'[d] = before[d]
        BY <2>3, <3>0, <1>2, OthersWait DEF PastStays, Deletes
      <3>2. CASE id = nextID'
        <4>1. Creator(c, id)'
          BY <1>1, <1>6, <3>2 DEF Creator, Creators
        <4>2. c \notin before[d]
          BY <1>3, <3>0 DEF Answered
        <4> QED BY <3>1, <4>1, <4>2
      <3>3. CASE id \in Todos
        <4>1. id \in Nat
          BY <3>3, <1>3 DEF Todos, Slice
        <4>2. PICK e \in Conn : Creator(e, id) /\ e \notin before[d]
          BY <1>5, <2>3, <3>1, <3>3, <4>1 DEF Contents
        <4> QED BY <1>4, <3>1, <4>1, <4>2
      <3> QED BY <2>1, <3>2, <3>3
    <2> QED BY <2>2, <2>3 DEF Contents
  <1>7. CASE ~createTodo(c)
    <2>1. nextID' = nextID /\ Todos' \subseteq Todos
      <3>1. CASE deleteTodo(c)
        BY <1>1, <1>7, <3>1, DeleteRemoves
      <3>2. CASE UNCHANGED <<array, len>>
        BY <1>1, <1>7, <3>2 DEF Todos
      <3>3. Arrive(c) \/ Lock(c) \/ createTodoFails(c) \/ listTodos(c) \/ Return(c) => UNCHANGED <<array, len>>
        BY DEF Arrive, Lock, createTodoFails, listTodos, Return
      <3> QED BY <1>7, <3>1, <3>2, <3>3 DEF Serve
    <2>2. ASSUME NEW id \in 1 .. nextID', \A e \in Conn : Deletes(e, id)' => at'[e] \notin Said
          PROVE  id \in Todos'
      <3>1. id \in 1 .. nextID /\ id \in Nat
        BY <2>1, <1>3
      <3>2. id \in Todos
        BY <1>2, <1>5, <2>2, <3>1 DEF Contents, PastStays, Frozen
      <3>3. CASE deleteTodo(c)
        <4>1. at'[c] \in Said /\ request[c].op = "delete"
          BY <3>3 DEF deleteTodo, Reply, Clients, Handling, Said
        <4>2. request[c].id # id
          BY <1>5, <2>2, <3>1, <4>1 DEF Deletes
        <4> QED BY <3>2, <3>3, <4>2, DeleteRemoves
      <3>4. Arrive(c) \/ Lock(c) \/ createTodoFails(c) \/ listTodos(c) \/ Return(c) => UNCHANGED <<array, len>>
        BY DEF Arrive, Lock, createTodoFails, listTodos, Return
      <3>5. CASE UNCHANGED <<array, len>>
        BY <3>2, <3>5 DEF Todos
      <3> QED BY <1>7, <3>3, <3>4, <3>5 DEF Serve
    <2>3. ASSUME NEW d \in Conn, NEW id \in Todos', Deletes(d, id)', at'[d] \in Said
          PROVE  \E e \in Conn : Creator(e, id)' /\ e \notin before'[d]
      <3>1. id \in Todos /\ id \in Nat
        <4>1. id \in Todos
          BY <2>1
        <4> QED BY <4>1, <1>3 DEF Todos, Slice
      <3>2. at[d] \in Said
        <4> SUFFICES ASSUME at[d] \notin Said PROVE FALSE
          OBVIOUS
        <4>1. d = c /\ request[c].op = "delete" /\ at[c] = "handle"
          BY <1>2, <1>5, <2>3, <3>1, OthersWait DEF PastStays, Frozen, Deletes
        <4>2. deleteTodo(c)
          BY <2>3, <4>1
          DEF Arrive, Serve, Lock, createTodo, createTodoFails, listTodos, Return, Handling
        <4> QED BY <1>5, <2>3, <3>1, <4>1, <4>2, DeleteRemoves DEF Deletes
      <3>3. PICK e \in Conn : Creator(e, id) /\ e \notin before[d]
        BY <1>5, <2>3, <3>1, <3>2 DEF Contents
      <3> QED BY <1>2, <1>4, <3>1, <3>2, <3>3 DEF PastStays, Frozen
    <2> QED BY <2>2, <2>3 DEF Contents
  <1> QED BY <1>6, <1>7

(* For a client that asked, no todo counts as created before it that did   *)
(* not already.                                                            *)
LEMMA CreatedBefore ==
  ASSUME Slice, Clients, Creations, TodoNext, NEW d \in Conn, at[d] # "new",
         NEW id \in 1 .. nextID', Created(d, id)'
  PROVE  id \in 1 .. nextID /\ Created(d, id)
  <1>1. nextID \in Nat /\ before \in [Conn -> SUBSET Answered]
    BY DEF Slice, Clients
  <1>2. PastStays
    BY PastIsFrozen
  <1>3. before'[d] = before[d]
    BY <1>2 DEF PastStays, Frozen
  <1>4. nextID' - Cardinality(Creators') = nextID - Cardinality(Creators)
    BY CreatorsStep DEF TodoNext
  <1>5. CASE id \in 1 .. nextID' - Cardinality(Creators')
    BY <1>1, <1>4, <1>5, CreatorsAreFew DEF Created, Creators
  <1>6. CASE \E e \in before[d] : Creator(e, id)'
    <2>1. PICK e \in before[d] : Creator(e, id)'
      BY <1>6
    <2>2. e \in Conn /\ at[e] \in Said
      BY <1>1 DEF Answered, Said
    <2>3. Creator(e, id)
      BY <1>2, <2>1, <2>2 DEF PastStays, Frozen, Creator, Told, Said
    <2>4. PICK k \in 1 .. nextID : answer[e] = <<k>>
      BY <2>2, <2>3 DEF Creations, Creator
    <2>5. <<id>>[1] = <<k>>[1]
      BY <2>3, <2>4 DEF Creator
    <2>6. id = k
      BY <2>5
    <2> QED BY <2>3, <2>4, <2>6 DEF Created
  <1> QED BY <1>3, <1>5, <1>6 DEF Created, Creators

(* The list that the encoder has come to the end of.                       *)
LEMMA ListAtItsEnd ==
  ASSUME Slice, Clients, Contents, NEW c \in Conn, Handling(c, "list"), ~(Len(answer[c]) < len)
  PROVE  ListIsTrue(c)
  <1>1. /\ nextID \in Nat /\ len \in Nat /\ array \in Seq(Nat) /\ answer[c] \in Seq(Int)
        /\ before[c] \subseteq Answered
    BY DEF Slice, Clients
  <1>2. Len(answer[c]) \in Nat /\ DOMAIN answer[c] = 1 .. Len(answer[c])
    BY <1>1
  <1>3. Len(answer[c]) = len /\ \A i \in 1 .. len : answer[c][i] = array[i]
    <2>1. Len(answer[c]) <= len /\ \A i \in 1 .. Len(answer[c]) : answer[c][i] = array[i]
      BY DEF Clients
    <2>2. Len(answer[c]) = len
      BY <1>1, <1>2, <2>1
    <2> QED BY <2>1, <2>2
  <1>4. ToSet(answer[c]) = Todos
    BY <1>2, <1>3 DEF ToSet, Todos
  <1>5. \A i, j \in DOMAIN answer[c] : i < j => answer[c][i] < answer[c][j]
    BY <1>2, <1>3 DEF Slice
  <1>6. \A id \in Todos : id \in 1 .. nextID
    BY DEF Todos, Slice
  <1>7. \A id \in 1 .. nextID : (\A e \in Conn : Deletes(e, id) => at[e] = "new") => id \in Todos
    BY DEF Contents, Said
  <1>8. \A id \in Todos : \A d \in before[c] :
          Deletes(d, id) => \E e \in Conn : Creator(e, id) /\ e \notin before[d]
    BY <1>1 DEF Contents, Answered, Said
  <1>9. \A id \in Todos : id <= nextID
    BY <1>1, <1>6
  <1> QED BY <1>4, <1>5, <1>7, <1>8, <1>9 DEF ListIsTrue

LEMMA ListsStep == TodoInv /\ TodoNext => Lists'
  <1> SUFFICES ASSUME TodoInv, TodoNext, NEW d \in Conn, Told(d, "list")' PROVE ListIsTrue(d)'
    BY DEF Lists
  <1>1. Slice /\ Clients /\ Creations /\ Contents /\ Lists
    BY DEF TodoInv
  <1>2. PastStays
    BY <1>1, PastIsFrozen
  <1>3. /\ nextID \in Nat /\ nextID' \in Nat /\ nextID <= nextID' /\ request' = request
        /\ before \in [Conn -> SUBSET Answered] /\ answer \in [Conn -> Seq(Int)]
        /\ answer' \in [Conn -> Seq(Int)]
    BY <1>1, <1>2, ClientsStep DEF Slice, Clients, PastStays
  <1>4. ListIsTrue(d) /\ at[d] # "new" /\ answer'[d] = answer[d]
    <2>1. CASE at[d] \in Said
      <3>1. answer'[d] = answer[d]
        BY <1>2, <2>1 DEF PastStays, Frozen
      <3> QED BY <1>1, <1>3, <2>1, <3>1 DEF Lists, Told, Said
    <2>2. CASE at[d] \notin Said
      <3>1. PICK c \in Conn : Arrive(c) \/ Serve(c)
        BY DEF TodoNext
      <3>2. d = c /\ at[d] = "handle" /\ request[d].op = "list" /\ at'[d] \in Said
        BY <1>1, <1>2, <1>3, <2>2, <3>1, OthersWait DEF PastStays, Frozen, Told, Said
      <3>3. listTodos(d)
        BY <3>1, <3>2
        DEF Arrive, Serve, Lock, createTodo, createTodoFails, deleteTodo, Return, Handling
      <3>4. ~(Len(answer[d]) < len) /\ Reply(d, answer[d])
        BY <3>2, <3>3 DEF listTodos, Said
      <3>5. answer'[d] = answer[d]
        BY <1>3, <3>4 DEF Reply
      <3> QED BY <1>1, <3>2, <3>4, <3>5, ListAtItsEnd DEF Handling
    <2> QED BY <2>1, <2>2
  <1>5. before'[d] = before[d]
    BY <1>2, <1>4 DEF PastStays, Frozen
  <1>6. ToSet(answer[d]) = ToSet(answer[d])' /\ DOMAIN answer[d] = DOMAIN answer'[d]
    BY <1>4 DEF ToSet
  <1>7. \A i, j \in DOMAIN answer'[d] : i < j => answer'[d][i] < answer'[d][j]
    BY <1>4 DEF ListIsTrue
  <1>8. ASSUME NEW id \in 1 .. nextID', Created(d, id)',
               \A e \in Conn : Deletes(e, id)' => at'[e] = "new"
        PROVE  id \in ToSet(answer[d])'
    <2>1. id \in 1 .. nextID /\ Created(d, id)
      BY <1>1, <1>4, <1>8, CreatedBefore
    <2>2. \A e \in Conn : Deletes(e, id) => at[e] = "new"
      BY <1>2, <1>3, <1>8 DEF PastStays, Frozen, Deletes
    <2> QED BY <1>4, <1>6, <2>1, <2>2 DEF ListIsTrue
  <1>9. ASSUME NEW id \in ToSet(answer[d])'
        PROVE  /\ id <= nextID'
               /\ \A e \in before'[d] : Deletes(e, id)' =>
                    \E f \in Conn : Creator(f, id)' /\ f \notin before'[e]
    <2>1. id \in ToSet(answer[d]) /\ id \in Int /\ id <= nextID
      BY <1>3, <1>4, <1>6 DEF ToSet, ListIsTrue
    <2>2. id <= nextID'
      BY <1>3, <2>1
    <2>3. ASSUME NEW e \in before'[d], Deletes(e, id)'
          PROVE  \E f \in Conn : Creator(f, id)' /\ f \notin before'[e]
      <3>1. e \in before[d] /\ e \in Conn /\ at[e] = "done" /\ Deletes(e, id)
        BY <1>3, <1>5, <2>3 DEF Answered, Deletes
      <3>2. PICK f \in Conn : Creator(f, id) /\ f \notin before[e]
        BY <1>4, <2>1, <3>1 DEF ListIsTrue
      <3>3. Creator(f, id)'
        BY <1>2, <3>2 DEF PastStays, Frozen, Creator, Told, Said
      <3> QED BY <1>2, <3>1, <3>2, <3>3 DEF PastStays, Frozen
    <2> QED BY <2>2, <2>3
  <1> QED BY <1>7, <1>8, <1>9 DEF ListIsTrue

-----------------------------------------------------------------------------
LEMMA TodoStarts ==
  ASSUME NEW requests \in SUBSET [Conn -> TodoRequests], NEW created \in SUBSET Nat,
         TodoInit(requests, created)
  PROVE  TodoInv
  <1>1. /\ nextID \in Nat /\ len = nextID /\ array = [i \in 1 .. nextID |-> i]
        /\ at = [c \in Conn |-> "new"] /\ answer = [c \in Conn |-> <<>>]
        /\ before = [c \in Conn |-> {}] /\ request \in [Conn -> TodoRequests]
    BY DEF TodoInit
  <1>2. \A c \in Conn : at[c] = "new" /\ answer[c] = <<>> /\ before[c] = {}
    BY <1>1
  <1>3. array \in Seq(Nat) /\ Len(array) = nextID
    BY <1>1
  <1>4. Slice
    BY <1>1, <1>3 DEF Slice
  <1>5. answer \in [Conn -> Seq(Int)] /\ before \in [Conn -> SUBSET Answered]
    BY <1>1, <1>2
  <1>6. Clients
    BY <1>1, <1>2, <1>5 DEF Clients, Handling, Places
  <1>7. Todos = 1 .. nextID
    BY <1>1 DEF Todos
  <1>8. Creations /\ Lists
    BY <1>2 DEF Creations, Lists, Told
  <1>9. Contents
    BY <1>2, <1>7 DEF Contents, Said
  <1> QED BY <1>4, <1>6, <1>8, <1>9 DEF TodoInv

LEMMA TodoStutters == TodoInv /\ UNCHANGED todoVars => TodoInv'
  <1> SUFFICES ASSUME TodoInv, UNCHANGED todoVars PROVE TodoInv'
    OBVIOUS
  <1>1. /\ mu' = mu /\ array' = array /\ len' = len /\ nextID' = nextID /\ request' = request
        /\ at' = at /\ answer' = answer /\ before' = before
    BY DEF todoVars
  <1>2. Slice'
    BY <1>1 DEF TodoInv, Slice
  <1>3. Clients'
    BY <1>1 DEF TodoInv, Clients, Answered, Handling
  <1>4. Creations'
    BY <1>1 DEF TodoInv, Creations, Told
  <1>5. Contents'
    <2>1. Todos' = Todos
      BY <1>1 DEF Todos
    <2>2. /\ \A e \in Conn : \A id : Deletes(e, id)' <=> Deletes(e, id)
          /\ \A e \in Conn : \A id : Creator(e, id)' <=> Creator(e, id)
      BY <1>1 DEF Deletes, Creator, Told
    <2> QED BY <1>1, <2>1, <2>2 DEF TodoInv, Contents
  <1>6. \A c \in Conn : ListIsTrue(c)' <=> ListIsTrue(c)
    BY <1>1 DEF ListIsTrue, Created, Creator, Told, Deletes, ToSet
  <1>7. Lists'
    BY <1>1, <1>6 DEF TodoInv, Lists, Told
  <1> QED BY <1>2, <1>3, <1>4, <1>5, <1>7 DEF TodoInv

LEMMA TodoInductive == TodoInv /\ TodoNext => TodoInv'
BY SliceStep, ClientsStep, CreationsStep, ContentsStep, ListsStep DEF TodoInv

LEMMA TodoIsTrue == TodoInv => ClientsAreToldTheTruth
  <1> SUFFICES ASSUME TodoInv, NEW c \in Conn, NEW d \in Conn
               PROVE  /\ c # d /\ Told(c, "create") /\ Told(d, "create") => answer[c] # answer[d]
                      /\ Told(c, "list") => ListIsTrue(c)
    BY DEF ClientsAreToldTheTruth, ListIsTrue, Created
  <1> QED BY DEF TodoInv, Creations, Lists

(* The slice, the clients and what they were told, in every state of the   *)
(* six: the handlers change them under the lock only.                      *)
THEOREM TodosAreKept == SequentialSpec => []TodoInv
  <1>1. SequentialInit => TodoInv
    <2> SUFFICES ASSUME SequentialInit PROVE TodoInv
      OBVIOUS
    <2>1. CASE TodoInit([Conn -> TodoRequests], 0 .. Earlier)
      BY <2>1, TodoStarts, EarlierAssumption
    <2>2. CASE NoTodos
      <3> DEFINE r0 == CHOOSE r \in TodoRequests : r.op = "list" /\ r.reads
      <3>1. [op |-> "list", body |-> "good", id |-> 0, reads |-> TRUE] \in TodoRequests
        BY DEF TodoRequests
      <3>2. r0 \in TodoRequests
        BY <3>1
      <3> HIDE DEF r0
      <3>3. [c \in Conn |-> r0] \in [Conn -> TodoRequests]
        BY <3>2
      <3>4. TodoInit({[c \in Conn |-> r0]}, {0})
        BY <2>2 DEF NoTodos, r0
      <3> QED BY <3>3, <3>4, TodoStarts
    <2> QED BY <2>1, <2>2 DEF SequentialInit
  <1>2. TodoInv /\ [SequentialNext]_<<gcVars, listVars, todoVars, vars, deferVars, input>> => TodoInv'
    <2>1. [SequentialNext]_<<gcVars, listVars, todoVars, vars, deferVars, input>>
            => TodoNext \/ UNCHANGED todoVars
      BY DEF SequentialNext
    <2> QED BY <2>1, TodoInductive, TodoStutters
  <1> QED BY <1>1, <1>2, PTL DEF SequentialSpec

(* Whatever the requests and however they interleave, the clients are told *)
(* what they could have been told one by one (day035, mu in each handler). *)
THEOREM ClientsCanBelieve == SequentialSpec => []ClientsAreToldTheTruth
BY TodosAreKept, TodoIsTrue, PTL

-----------------------------------------------------------------------------
(* The measurements under changed settings.                                *)

GoalOf(p) == effectiveHeapGoal(p.live, p.pct, p.limit)

(* What the measurements have in common.  A phase without garbage has no   *)
(* live heap, and one with a limit produces more than its goal.            *)
PhaseRecords ==
  [pct : Int, limit : Int, procs : Nat, live : Nat, garbage : Nat, forced : Nat]
WholeChunks(garbage) == 4 * (garbage \div 4) = garbage /\ garbage \div 4 \in Nat
Measured(p) ==
  /\ p \in PhaseRecords /\ GoalOf(p) \in Nat
  /\ WholeChunks(p.garbage)
  /\ p.garbage = 0 => p.live = 0
  /\ p.live < NoLimit /\ p.live + p.garbage < MaxUint
  /\ p.pct < 0 /\ p.limit = NoLimit => GoalOf(p) = MaxUint
  /\ p.limit # NoLimit => GoalOf(p) < p.live + p.garbage
  /\ p.pct = 100 /\ p.live >= 8 => GoalOf(p) <= 2 * p.live
  /\ p.pct < 0 /\ p.limit # NoLimit => GoalOf(p) <= p.limit \/ GoalOf(p) <= p.live

MeasuredPhases == {p \in PhaseRecords : Measured(p)}

(* The churn of a phase after n chunks: the heap grew from the live one    *)
(* until the first collection, and never passed the goal but for the sake  *)
(* of the live heap and the two chunks in use.                             *)
Churned(live, forced, goal, n, h, highest, gcs, more) ==
  /\ live <= h /\ (h <= goal \/ h <= live + 8)
  /\ n > 0 => /\ live <= highest /\ (highest <= goal \/ highest <= live + 8)
              /\ gcs = 0 => h = live + 4 * n /\ h <= goal
              /\ goal = MaxUint => highest = live + 4 * n
  /\ n = 0 => h = live /\ highest = 0
  /\ more > 0 => (n = 0 \/ goal = MaxUint => gcs = 0) /\ (goal = MaxUint => h = live + 4 * n)
  /\ goal = MaxUint => gcs <= forced
ChurnInv(p, n) == Churned(p.live, p.forced, GoalOf(p), n, heap, peak, NumGC, left)

Chunks(p) == p.garbage \div 4

GCInv ==
  /\ todo \in Seq(MeasuredPhases)
  /\ left \in Int /\ heap \in Nat /\ peak \in Nat /\ NumGC \in Nat
  /\ saved = Default
  /\ left = -1 => settings = Default
  /\ left # -1 =>
       /\ todo # <<>>
       /\ left \in 0 .. Chunks(Now)
       /\ settings = [pct |-> Now.pct, limit |-> Now.limit, procs |-> Now.procs]
       /\ ChurnInv(Now, Chunks(Now) - left)

LEMMA MinOfTwo ==
  ASSUME NEW a \in Int, NEW b \in Int
  PROVE  Min({a, b}) = IF a <= b THEN a ELSE b
  <1>1. CASE a <= b
    <2>1. a \in {a, b} /\ \A y \in {a, b} : a <= y
      BY <1>1
    <2>2. \A x \in {a, b} : (\A y \in {a, b} : x <= y) => x = a
      BY <1>1
    <2> QED BY <1>1, <2>1, <2>2 DEF Min
  <1>2. CASE ~(a <= b)
    <2>1. b \in {a, b} /\ \A y \in {a, b} : b <= y
      BY <1>2
    <2>2. \A x \in {a, b} : (\A y \in {a, b} : x <= y) => x = b
      BY <1>2
    <2> QED BY <1>2, <2>1, <2>2 DEF Min
  <1> QED BY <1>1, <1>2

LEMMA SmallRemainder == \A w \in Nat : \A n \in Nat : n < w => n % w = n
OBVIOUS

LEMMA HalfOfWord ==
  \A w \in Nat : w >= 65536 => w \div 2 \in Nat /\ w \div 2 >= 32768 /\ w \div 2 < w
OBVIOUS

LEMMA Words ==
  /\ MaxUint \in Nat /\ MaxUint >= 65535
  /\ NoLimit \in Nat /\ NoLimit >= 32767 /\ NoLimit < MaxUint
  <1>1. Word \in Nat /\ Word >= 65536
    BY WordAssumption
  <1>2. Word \div 2 \in Nat /\ Word \div 2 >= 32768 /\ Word \div 2 < Word
    BY <1>1, HalfOfWord
  <1> QED BY <1>1, <1>2 DEF MaxUint, NoLimit

LEMMA SmallWord ==
  ASSUME NEW n \in Nat, n <= 65535
  PROVE  n % Word = n
  <1>1. Word \in Nat /\ Word >= 65536
    BY WordAssumption
  <1>2. \A w \in Nat : w >= 65536 => n < w
    OBVIOUS
  <1> QED BY <1>1, <1>2, SmallRemainder

(* The goal while no word wraps.                                           *)
scaled(live, pct) == live * pct
grown(live, pct) == live + scaled(live, pct) \div 100
forPercent(live, pct) == IF pct < 0 THEN MaxUint ELSE Max({grown(live, pct), 4})
forLimit(live, limit) ==
  IF limit <= 0 \/ limit = NoLimit THEN MaxUint ELSE Max({limit - limit \div 10, live})

LEMMA Grown ==
  ASSUME NEW live \in 0 .. 100, NEW pct \in {-1, 100, 400}
  PROVE  /\ pct >= 0 => /\ scaled(live, pct) \in Nat /\ scaled(live, pct) <= 65535
                        /\ grown(live, pct) \in Nat /\ grown(live, pct) <= 65535
         /\ pct = 100 => grown(live, pct) = 2 * live
  <1>1. /\ scaled(live, 100) \in Nat /\ scaled(live, 100) <= 65535
        /\ grown(live, 100) = 2 * live
    BY DEF scaled, grown
  <1>2. /\ scaled(live, 400) \in Nat /\ scaled(live, 400) <= 65535
        /\ grown(live, 400) = 5 * live
    BY DEF scaled, grown
  <1>3. 2 * live \in Nat /\ 2 * live <= 65535 /\ 5 * live \in Nat /\ 5 * live <= 65535
    OBVIOUS
  <1> QED BY <1>1, <1>2, <1>3

LEMMA Reduced ==
  ASSUME NEW limit \in Int
  PROVE  limit - limit \div 10 \in Int /\ (limit >= 0 => limit - limit \div 10 <= limit)
OBVIOUS

SmallHeap(live, pct) == live \in 0 .. 100 /\ pct \in {-1, 100, 400}

LEMMA GoalIs ==
  ASSUME NEW live, NEW pct, NEW limit, SmallHeap(live, pct), limit \in Int
  PROVE  /\ forPercent(live, pct) \in Int /\ forLimit(live, limit) \in Int
         /\ forPercent(live, pct) <= forLimit(live, limit)
              => effectiveHeapGoal(live, pct, limit) = forPercent(live, pct)
         /\ ~(forPercent(live, pct) <= forLimit(live, limit))
              => effectiveHeapGoal(live, pct, limit) = forLimit(live, limit)
  <1>0. live \in 0 .. 100 /\ pct \in {-1, 100, 400}
    BY DEF SmallHeap
  <1>1. gcPercentHeapGoal(live, pct) = forPercent(live, pct)
    <2>1. CASE pct < 0
      BY <2>1 DEF gcPercentHeapGoal, forPercent
    <2>2. CASE ~(pct < 0)
      <3>1. /\ scaled(live, pct) \in Nat /\ scaled(live, pct) <= 65535
            /\ grown(live, pct) \in Nat /\ grown(live, pct) <= 65535
        BY <1>0, <2>2, Grown
      <3>2. scaled(live, pct) % Word = scaled(live, pct) /\ grown(live, pct) % Word = grown(live, pct)
        BY <3>1, SmallWord
      <3>3. gcPercentHeapGoal(live, pct) =
              Max({(live + (scaled(live, pct) % Word) \div 100) % Word, 4})
        BY <2>2 DEF gcPercentHeapGoal, minHeapGoal, scaled
      <3> QED BY <2>2, <3>2, <3>3 DEF forPercent, grown
    <2> QED BY <2>1, <2>2
  <1>2. memoryLimitHeapGoal(limit, live) = forLimit(live, limit)
    BY DEF memoryLimitHeapGoal, forLimit
  <1>3. forPercent(live, pct) \in Int
    <2>1. CASE pct < 0
      BY <2>1, Words DEF forPercent
    <2>2. CASE ~(pct < 0)
      <3>1. grown(live, pct) \in Nat
        BY <1>0, <2>2, Grown
      <3> QED BY <2>2, <3>1, MaxOfTwo DEF forPercent
    <2> QED BY <2>1, <2>2
  <1>4. forLimit(live, limit) \in Int
    BY <1>0, Reduced, MaxOfTwo, Words DEF forLimit
  <1> QED BY <1>1, <1>2, <1>3, <1>4, MinOfTwo DEF effectiveHeapGoal

(* A record of a phase; Phase is the one with forced = 0.                  *)
Record(pct, limit, procs, live, garbage, forced) ==
  [pct |-> pct, limit |-> limit, procs |-> procs, live |-> live, garbage |-> garbage,
   forced |-> forced]

SmallPhase(pct, procs, live, garbage, forced) ==
  /\ live \in 0 .. 100 /\ pct \in {-1, 100, 400} /\ procs \in Nat /\ forced \in Nat
  /\ garbage \in 0 .. 1000 /\ WholeChunks(garbage) /\ (garbage = 0 => live = 0)

LEMMA UnlimitedIsMeasured ==
  ASSUME NEW live, NEW pct, NEW procs, NEW garbage, NEW forced,
         SmallPhase(pct, procs, live, garbage, forced)
  PROVE  Measured(Record(pct, NoLimit, procs, live, garbage, forced))
  <1> DEFINE p == Record(pct, NoLimit, procs, live, garbage, forced)
             goal == effectiveHeapGoal(live, pct, NoLimit)
  <1>0. /\ live \in 0 .. 100 /\ pct \in {-1, 100, 400} /\ procs \in Nat /\ forced \in Nat
        /\ garbage \in 0 .. 1000 /\ WholeChunks(garbage) /\ (garbage = 0 => live = 0)
        /\ SmallHeap(live, pct)
    BY DEF SmallPhase, SmallHeap
  <1>1. /\ p.pct = pct /\ p.limit = NoLimit /\ p.procs = procs /\ p.live = live
        /\ p.garbage = garbage /\ p.forced = forced /\ GoalOf(p) = goal
    BY DEF Record, GoalOf
  <1>2. p \in PhaseRecords
    BY <1>0, Words DEF PhaseRecords, Record
  <1>3. forLimit(live, NoLimit) = MaxUint
    BY DEF forLimit
  <1>4. NoLimit \in Int /\ MaxUint \in Int
    BY Words
  <1>5. /\ forPercent(live, pct) \in Int
        /\ goal = IF forPercent(live, pct) <= MaxUint THEN forPercent(live, pct) ELSE MaxUint
    <2>1. /\ forPercent(live, pct) \in Int
          /\ forPercent(live, pct) <= forLimit(live, NoLimit)
               => effectiveHeapGoal(live, pct, NoLimit) = forPercent(live, pct)
          /\ ~(forPercent(live, pct) <= forLimit(live, NoLimit))
               => effectiveHeapGoal(live, pct, NoLimit) = forLimit(live, NoLimit)
      BY <1>0, <1>4, GoalIs
    <2> QED BY <1>3, <2>1
  <1>6. goal \in Nat /\ (pct < 0 => goal = MaxUint) /\ (pct = 100 /\ live >= 8 => goal <= 2 * live)
    <2>1. CASE pct < 0
      BY <1>0, <1>5, <2>1, Words DEF forPercent
    <2>2. CASE ~(pct < 0)
      <3>1. grown(live, pct) \in Nat /\ (pct = 100 => grown(live, pct) = 2 * live)
        BY <1>0, <2>2, Grown
      <3>2. /\ forPercent(live, pct) \in Nat
            /\ forPercent(live, pct) = IF grown(live, pct) >= 4 THEN grown(live, pct) ELSE 4
        BY <1>0, <2>2, <3>1, MaxOfTwo DEF forPercent
      <3>3. pct = 100 /\ live >= 8 => forPercent(live, pct) = 2 * live
        BY <1>0, <3>1, <3>2
      <3> QED BY <1>0, <1>5, <2>2, <3>2, <3>3, Words
    <2> QED BY <2>1, <2>2
  <1>7. live < NoLimit /\ live + garbage < MaxUint
    BY <1>0, Words
  <1> HIDE DEF p, goal
  <1>8. Measured(p)
    BY <1>0, <1>1, <1>2, <1>6, <1>7 DEF Measured
  <1> QED BY <1>8 DEF p

(* The three phases of the measurements that have a limit.                 *)
LEMMA LimitedIsMeasured ==
  /\ Measured(Record(-1, 48, Cores, 32, 256, 0))
  /\ Measured(Record(100, 8, Cores, 32, 64, 0))
  /\ Measured(Record(-1, 32, Cores, 8, 128, 0))
  <1>1. effectiveHeapGoal(32, -1, 48) = 44
    <2>1. forPercent(32, -1) = MaxUint /\ forLimit(32, 48) = 44
      BY Words, MaxOfTwo DEF forPercent, forLimit
    <2> QED BY <2>1, GoalIs, Words DEF SmallHeap
  <1>2. effectiveHeapGoal(32, 100, 8) = 32
    <2>1. forPercent(32, 100) = 64 /\ forLimit(32, 8) = 32
      BY Words, MaxOfTwo DEF forPercent, forLimit, grown, scaled
    <2> QED BY <2>1, GoalIs, Words DEF SmallHeap
  <1>3. effectiveHeapGoal(8, -1, 32) = 29
    <2>1. forPercent(8, -1) = MaxUint /\ forLimit(8, 32) = 29
      BY Words, MaxOfTwo DEF forPercent, forLimit
    <2> QED BY <2>1, GoalIs, Words DEF SmallHeap
  <1>4. Measured(Record(-1, 48, Cores, 32, 256, 0))
    BY <1>1, Words DEF Measured, WholeChunks, Record, GoalOf, PhaseRecords, Cores
  <1>5. Measured(Record(100, 8, Cores, 32, 64, 0))
    BY <1>2, Words DEF Measured, WholeChunks, Record, GoalOf, PhaseRecords, Cores
  <1>6. Measured(Record(-1, 32, Cores, 8, 128, 0))
    BY <1>3, Words DEF Measured, WholeChunks, Record, GoalOf, PhaseRecords, Cores
  <1> QED BY <1>4, <1>5, <1>6

LEMMA EveryPhaseIsMeasured == Measurements \subseteq Seq(MeasuredPhases)
  <1>1. \A p : Measured(p) => p \in MeasuredPhases
    BY DEF Measured, MeasuredPhases
  <1>2. \A g \in {0, 4, 12, 44, 64, 128, 256} : WholeChunks(g)
    BY DEF WholeChunks
  <1>3. \A pct, procs, live, g, forced :
          SmallPhase(pct, procs, live, g, forced)
            => Record(pct, NoLimit, procs, live, g, forced) \in MeasuredPhases
    BY <1>1, UnlimitedIsMeasured
  <1>4. \A pct, limit, procs, live, g :
          Phase(pct, limit, procs, live, g) = Record(pct, limit, procs, live, g, 0)
    BY DEF Phase, Record
  <1>5. \A pct, procs, live, g :
          SmallPhase(pct, procs, live, g, 0)
            => Phase(pct, NoLimit, procs, live, g) \in MeasuredPhases
    BY <1>3, <1>4
  <1>6. /\ Phase(-1, 48, Cores, 32, 256) \in MeasuredPhases
        /\ Phase(100, 8, Cores, 32, 64) \in MeasuredPhases
        /\ Phase(-1, 32, Cores, 8, 128) \in MeasuredPhases
    BY <1>1, <1>4, LimitedIsMeasured
  <1>7. [Phase(-1, NoLimit, Cores, 0, 0) EXCEPT !.forced = 5] \in MeasuredPhases
    <2>1. [Phase(-1, NoLimit, Cores, 0, 0) EXCEPT !.forced = 5]
            = Record(-1, NoLimit, Cores, 0, 0, 5)
      BY DEF Phase, Record
    <2>2. SmallPhase(-1, Cores, 0, 0, 5)
      BY <1>2 DEF SmallPhase, Cores
    <2> QED BY <1>3, <2>1, <2>2
  <1>8. /\ SmallPhase(100, Cores, 32, 256, 0) /\ SmallPhase(400, Cores, 32, 256, 0)
        /\ SmallPhase(-1, Cores, 8, 128, 0) /\ SmallPhase(100, Cores, 16, 128, 0)
        /\ SmallPhase(-1, Cores, 0, 12, 0) /\ SmallPhase(-1, Cores, 0, 4, 0)
        /\ SmallPhase(100, 1, 0, 4, 0) /\ SmallPhase(100, 1, 4, 44, 0)
        /\ SmallPhase(100, 4, 4, 44, 0) /\ SmallPhase(-1, 4, 4, 64, 0)
        /\ SmallPhase(100, 4, 4, 64, 0) /\ SmallPhase(100, 1, 4, 64, 0)
    BY <1>2 DEF SmallPhase, Cores
  <1>9. runAllPhases(32, 256) \in Seq(MeasuredPhases) /\ testPhases \in Seq(MeasuredPhases)
    BY <1>5, <1>6, <1>8 DEF runAllPhases, testPhases
  <1>10. /\ chargePerObject \in Seq(MeasuredPhases) /\ measureAllocs \in Seq(MeasuredPhases)
         /\ demonstrateSTW \in Seq(MeasuredPhases) /\ oneP \in Seq(MeasuredPhases)
    BY <1>5, <1>7, <1>8 DEF chargePerObject, measureAllocs, demonstrateSTW, oneP
  <1>11. /\ demonstrateCPUBreakdown \in Seq(MeasuredPhases)
         /\ demonstrateLatencySource \in Seq(MeasuredPhases)
    BY <1>5, <1>8 DEF demonstrateCPUBreakdown, demonstrateLatencySource, measureGCCPU
  <1> QED BY <1>9, <1>10, <1>11 DEF Measurements

LEMMA PhaseFacts ==
  ASSUME GCInv, todo # <<>>
  PROVE  /\ Now \in PhaseRecords /\ Measured(Now) /\ Tail(todo) \in Seq(MeasuredPhases)
         /\ Now.live \in Nat /\ Now.garbage \in Nat /\ Now.forced \in Nat
         /\ Now.pct \in Int /\ Now.limit \in Int
         /\ Chunks(Now) \in Nat /\ 4 * Chunks(Now) = Now.garbage
         /\ Now.garbage = 0 => Now.live = 0
         /\ GoalOf(Now) \in Nat /\ Now.live < NoLimit /\ Now.live + Now.garbage < MaxUint
  <1>1. todo \in Seq(MeasuredPhases)
    BY DEF GCInv
  <1>2. Now \in MeasuredPhases /\ Tail(todo) \in Seq(MeasuredPhases)
    BY <1>1, HeadTailProperties DEF Now
  <1>3. Now \in PhaseRecords /\ Measured(Now)
    BY <1>2 DEF MeasuredPhases
  <1>4. /\ Now.live \in Nat /\ Now.garbage \in Nat /\ Now.forced \in Nat
        /\ Now.pct \in Int /\ Now.limit \in Int
    BY <1>3 DEF PhaseRecords
  <1>5. Chunks(Now) \in Nat /\ 4 * Chunks(Now) = Now.garbage
    BY <1>3 DEF Measured, WholeChunks, Chunks
  <1> QED BY <1>2, <1>3, <1>4, <1>5 DEF Measured

LEMMA GCStarts == GCInit(Measurements) \/ GCInit({<<>>}) => GCInv
  <1> SUFFICES ASSUME GCInit(Measurements) \/ GCInit({<<>>}) PROVE GCInv
    OBVIOUS
  <1>1. <<>> \in Seq(MeasuredPhases)
    OBVIOUS
  <1>2. todo \in Seq(MeasuredPhases)
    BY <1>1, EveryPhaseIsMeasured DEF GCInit
  <1>3. settings = Default /\ saved = Default /\ left = -1 /\ heap = 0 /\ peak = 0 /\ NumGC = 0
    BY DEF GCInit
  <1> QED BY <1>2, <1>3 DEF GCInv

Counted(live, forced, goal, n, h, highest, gcs, more) ==
  /\ live \in Nat /\ forced \in Nat /\ goal \in Nat /\ n \in Nat
  /\ h \in Nat /\ highest \in Nat /\ gcs \in Nat /\ more \in Nat
ChunkTaken(live, goal, n, h, gcs, more, gc, h2, gcs2) ==
  /\ more > 0 /\ live + 4 * n < MaxUint
  /\ gc \in BOOLEAN /\ (h + 4 > goal => gc) /\ (gc => goal < MaxUint)
  /\ h2 = 4 + (IF gc THEN IF h <= live + 4 THEN h ELSE live + 4 ELSE h)
  /\ gcs2 = gcs + (IF gc THEN 1 ELSE 0)

LEMMA ChurnedOn ==
  ASSUME NEW live, NEW forced, NEW goal, NEW n, NEW h, NEW highest, NEW gcs, NEW more,
         NEW gc, NEW h2, NEW gcs2,
         Counted(live, forced, goal, n, h, highest, gcs, more),
         Churned(live, forced, goal, n, h, highest, gcs, more),
         ChunkTaken(live, goal, n, h, gcs, more, gc, h2, gcs2)
  PROVE  /\ h2 \in Nat /\ gcs2 \in Nat
         /\ Churned(live, forced, goal, n + 1, h2, IF highest >= h2 THEN highest ELSE h2, gcs2, more - 1)
  <1>0. MaxUint \in Nat
    BY Words
  <1>1. CASE gc
    BY <1>0, <1>1 DEF Churned, Counted, ChunkTaken
  <1>2. CASE ~gc
    BY <1>0, <1>2 DEF Churned, Counted, ChunkTaken
  <1> QED BY <1>1, <1>2

LEMMA ChurnedAndForced ==
  ASSUME NEW live, NEW forced, NEW goal, NEW n, NEW h, NEW highest, NEW gcs, NEW h2,
         Counted(live, forced, goal, n, h, highest, gcs, 0), gcs < forced,
         Churned(live, forced, goal, n, h, highest, gcs, 0),
         h2 = IF h <= live + 4 THEN h ELSE live + 4
  PROVE  h2 \in Nat /\ Churned(live, forced, goal, n, h2, highest, gcs + 1, 0)
BY Words DEF Churned, Counted

LEMMA BeginStep == GCInv /\ BeginPhase => GCInv'
  <1> SUFFICES ASSUME GCInv, BeginPhase PROVE GCInv'
    OBVIOUS
  <1>1. /\ todo # <<>> /\ left = -1 /\ saved' = settings /\ todo' = todo
        /\ settings' = [pct |-> Now.pct, limit |-> Now.limit, procs |-> Now.procs]
        /\ left' = Chunks(Now) /\ heap' = Now.live /\ peak' = 0 /\ NumGC' = 0
    BY DEF BeginPhase, Chunks, chunk
  <1>2. /\ Now.live \in Nat /\ Now.forced \in Nat /\ Chunks(Now) \in Nat
        /\ GoalOf(Now) \in Nat
    BY <1>1, PhaseFacts
  <1>3. Now' = Now
    BY <1>1 DEF Now
  <1>4. ChurnInv(Now, 0)'
    BY <1>1, <1>2, <1>3, Words DEF ChurnInv, Churned
  <1>5. (Chunks(Now) - left)' = 0 /\ left' \in 0 .. Chunks(Now)' /\ left' \in Int /\ left' # -1
    BY <1>1, <1>2, <1>3
  <1>6. saved' = Default
    BY <1>1 DEF GCInv
  <1>7. todo' \in Seq(MeasuredPhases)
    BY <1>1 DEF GCInv
  <1> QED BY <1>1, <1>2, <1>3, <1>4, <1>5, <1>6, <1>7 DEF GCInv

LEMMA ChurnStep == GCInv /\ Churn => GCInv'
  <1> SUFFICES ASSUME GCInv, Churn PROVE GCInv'
    OBVIOUS
  <1> DEFINE p == Now
             n == Chunks(Now) - left
             live == Now.live
             goal == GoalOf(Now)
  <1>1. /\ left > 0 /\ left \in Int /\ left' = left - 1 /\ peak' = Max({peak, heap'})
        /\ settings' = settings /\ saved' = saved /\ todo' = todo
    BY DEF Churn, GCInv
  <1>2. /\ todo # <<>> /\ left \in 0 .. Chunks(Now) /\ ChurnInv(Now, n)
        /\ settings = [pct |-> Now.pct, limit |-> Now.limit, procs |-> Now.procs]
        /\ heap \in Nat /\ peak \in Nat /\ NumGC \in Nat
    BY <1>1 DEF GCInv
  <1>3. /\ live \in Nat /\ Now.garbage \in Nat /\ Now.forced \in Nat /\ Chunks(Now) \in Nat
        /\ 4 * Chunks(Now) = Now.garbage /\ goal \in Nat
        /\ live + Now.garbage < MaxUint
    BY <1>2, PhaseFacts
  <1>4. n \in Nat /\ n + 1 <= Chunks(Now) /\ (Chunks(Now) - left)' = n + 1 /\ Now' = Now
    BY <1>1, <1>2, <1>3 DEF Now
  <1>5. Goal = goal
    BY <1>2 DEF Goal, GoalOf
  <1>6. PICK gc \in BOOLEAN :
          /\ heap + 4 > goal => gc
          /\ gc => goal < MaxUint
          /\ heap' = 4 + IF gc THEN Min({heap, live + 4}) ELSE heap
          /\ NumGC' = NumGC + IF gc THEN 1 ELSE 0
    BY <1>5 DEF Churn, chunk
  <1>7. heap' = 4 + (IF gc THEN IF heap <= live + 4 THEN heap ELSE live + 4 ELSE heap)
    <2>1. live + 4 \in Int /\ heap \in Int
      BY <1>2, <1>3
    <2> QED BY <1>6, <2>1, MinOfTwo
  <1>8. Churned(live, Now.forced, goal, n, heap, peak, NumGC, left)
    BY <1>2 DEF ChurnInv
  <1>9. live + 4 * n < MaxUint /\ left \in Nat
    BY <1>1, <1>2, <1>3, Words
  <1>10. /\ heap' \in Nat /\ NumGC' \in Nat
         /\ Churned(live, Now.forced, goal, n + 1, heap', IF peak >= heap' THEN peak ELSE heap',
                    NumGC', left - 1)
    <2> HIDE DEF live, goal, n
    <2>1. heap \in Nat /\ peak \in Nat /\ NumGC \in Nat
      BY <1>2
    <2>2. Counted(live, Now.forced, goal, n, heap, peak, NumGC, left)
      BY <1>3, <1>4, <1>9, <2>1 DEF Counted, live, goal
    <2>3. ChunkTaken(live, goal, n, heap, NumGC, left, gc, heap', NumGC')
      BY <1>1, <1>6, <1>7, <1>9 DEF ChunkTaken
    <2> QED BY <1>8, <2>2, <2>3, ChurnedOn
  <1>a. peak' = (IF peak >= heap' THEN peak ELSE heap') /\ peak' \in Nat
    BY <1>1, <1>2, <1>10, MaxOfTwo
  <1>11. ChurnInv(Now, Chunks(Now) - left)'
    BY <1>1, <1>4, <1>10, <1>a DEF ChurnInv
  <1>12. (left \in 0 .. Chunks(Now))' /\ left' # -1 /\ left' \in Int /\ peak' \in Nat
    BY <1>1, <1>2, <1>3, <1>4, <1>a
  <1>13. /\ saved' = Default /\ todo' \in Seq(MeasuredPhases) /\ todo' # <<>>
         /\ settings' = [pct |-> Now.pct, limit |-> Now.limit, procs |-> Now.procs]
    BY <1>1, <1>2 DEF GCInv
  <1> QED BY <1>4, <1>10, <1>11, <1>12, <1>13 DEF GCInv

LEMMA ForceStep == GCInv /\ ForceGC => GCInv'
  <1> SUFFICES ASSUME GCInv, ForceGC PROVE GCInv'
    OBVIOUS
  <1>1. /\ left = 0 /\ NumGC < Now.forced /\ NumGC' = NumGC + 1
        /\ heap' = Min({heap, Now.live + 4}) /\ settings' = settings /\ saved' = saved
        /\ todo' = todo /\ left' = left /\ peak' = peak /\ Now' = Now
    BY DEF ForceGC, chunk, Now
  <1>2. /\ todo # <<>> /\ left \in 0 .. Chunks(Now) /\ ChurnInv(Now, Chunks(Now) - left)
        /\ settings = [pct |-> Now.pct, limit |-> Now.limit, procs |-> Now.procs]
        /\ heap \in Nat /\ peak \in Nat /\ NumGC \in Nat
    BY <1>1 DEF GCInv
  <1>3. Now.live \in Nat /\ Now.forced \in Nat /\ Chunks(Now) \in Nat /\ GoalOf(Now) \in Nat
    BY <1>2, PhaseFacts
  <1>4. heap' = IF heap <= Now.live + 4 THEN heap ELSE Now.live + 4
    BY <1>1, <1>2, <1>3, MinOfTwo
  <1>5. Churned(Now.live, Now.forced, GoalOf(Now), Chunks(Now) - left, heap, peak, NumGC, 0)
    BY <1>1, <1>2 DEF ChurnInv
  <1>a. /\ heap' \in Nat
        /\ Churned(Now.live, Now.forced, GoalOf(Now), Chunks(Now) - left, heap', peak,
                   NumGC + 1, 0)
    <2>1. Chunks(Now) - left \in Nat /\ heap \in Nat /\ peak \in Nat /\ NumGC \in Nat
      BY <1>1, <1>2, <1>3
    <2>2. Counted(Now.live, Now.forced, GoalOf(Now), Chunks(Now) - left, heap, peak, NumGC, 0)
      BY <1>3, <2>1 DEF Counted
    <2> QED BY <1>1, <1>4, <1>5, <2>2, ChurnedAndForced
  <1>6. ChurnInv(Now, Chunks(Now) - left)' /\ heap' \in Nat /\ NumGC' \in Nat
    BY <1>1, <1>2, <1>a DEF ChurnInv
  <1>7. /\ saved' = Default /\ todo' \in Seq(MeasuredPhases) /\ left' \in Int
    BY <1>1 DEF GCInv
  <1> QED BY <1>1, <1>2, <1>6, <1>7 DEF GCInv

LEMMA EndStep == GCInv /\ EndPhase => GCInv'
  <1> SUFFICES ASSUME GCInv, EndPhase PROVE GCInv'
    OBVIOUS
  <1>1. /\ left = 0 /\ settings' = saved /\ todo' = Tail(todo) /\ left' = -1 /\ heap' = 0
        /\ saved' = saved /\ peak' = peak /\ NumGC' = NumGC
    BY DEF EndPhase
  <1>2. todo # <<>> /\ saved = Default /\ peak \in Nat /\ NumGC \in Nat
    BY <1>1 DEF GCInv
  <1>3. Tail(todo) \in Seq(MeasuredPhases)
    BY <1>2, PhaseFacts
  <1> QED BY <1>1, <1>2, <1>3 DEF GCInv

LEMMA PhasesAre == GCInv => PhasesAsTested
  <1> SUFFICES ASSUME GCInv PROVE PhasesAsTested
    OBVIOUS
  <1>1. left = -1 => settings = Default
    BY DEF GCInv
  <1>2. ASSUME left = 0, NumGC >= Now.forced
        PROVE  /\ peak >= Now.live
               /\ Now.pct < 0 /\ Now.limit = NoLimit
                    => NumGC = Now.forced /\ peak = Now.live + Now.garbage
               /\ Now.live + Now.garbage > Min({2 * Now.live, Now.limit}) /\ Now.limit # NoLimit
                    => NumGC > 0
               /\ Now.live + 2 * chunk <= Goal => peak <= Goal
               /\ Now.limit < Now.live => NumGC > 0 /\ peak > Now.limit
               /\ Now.pct = 100 /\ Now.live >= 2 * chunk
                    => peak <= Max({2 * Now.live, Now.live + 2 * chunk})
               /\ Now.pct < 0 /\ Now.limit # NoLimit /\ Now.live + 2 * chunk <= Now.limit
                    => peak <= Now.limit
    <2> DEFINE live == Now.live
               garbage == Now.garbage
               goal == GoalOf(Now)
               limit == Now.limit
               pct == Now.pct
               forced == Now.forced
               n == Chunks(Now)
    <2>1. /\ todo # <<>> /\ ChurnInv(Now, Chunks(Now) - left) /\ peak \in Nat /\ NumGC \in Nat
          /\ settings = [pct |-> Now.pct, limit |-> Now.limit, procs |-> Now.procs]
      BY <1>2 DEF GCInv
    <2>2. /\ live \in Nat /\ garbage \in Nat /\ forced \in Nat /\ pct \in Int /\ limit \in Int
          /\ n \in Nat /\ 4 * n = garbage /\ goal \in Nat /\ live < NoLimit
          /\ garbage = 0 => live = 0
      BY <2>1, PhaseFacts
    <2>3. Goal = goal
      BY <2>1 DEF Goal, GoalOf
    <2>4. /\ pct < 0 /\ limit = NoLimit => goal = MaxUint
          /\ limit # NoLimit => goal < live + garbage
          /\ pct = 100 /\ live >= 8 => goal <= 2 * live
          /\ pct < 0 /\ limit # NoLimit => goal <= limit \/ goal <= live
      BY <2>1, PhaseFacts DEF Measured
    <2>5. Churned(live, forced, goal, n, heap, peak, NumGC, 0)
      <3>1. Chunks(Now) - 0 = Chunks(Now)
        BY <2>2
      <3> QED BY <1>2, <2>1, <3>1 DEF ChurnInv
    <2>6. Max({2 * live, live + 8}) = IF 2 * live >= live + 8 THEN 2 * live ELSE live + 8
      BY <2>2, MaxOfTwo
    <2>7. NumGC >= forced /\ heap \in Nat
      BY <1>2 DEF GCInv
    <2> HIDE DEF live, garbage, goal, limit, pct, forced, n
    <2>8. n = 0 => live = 0 /\ garbage = 0 /\ peak = 0 /\ limit = NoLimit
      BY <2>2, <2>4, <2>5 DEF Churned
    <2>9. peak >= live /\ (peak <= goal \/ peak <= live + 8)
      BY <2>2, <2>5, <2>8 DEF Churned
    <2>10. goal = MaxUint => NumGC = forced /\ peak = live + garbage
      BY <2>1, <2>2, <2>5, <2>7, <2>8, Words DEF Churned
    <2>11. limit # NoLimit => NumGC > 0
      BY <2>1, <2>2, <2>4, <2>5, <2>8 DEF Churned
    <2>12. live + 8 <= goal => peak <= goal
      BY <2>1, <2>2, <2>9
    <2>13. limit < live => peak > limit /\ limit # NoLimit
      BY <2>1, <2>2, <2>9, Words
    <2>14. pct = 100 /\ live >= 8 => peak <= Max({2 * live, live + 8})
      BY <2>1, <2>2, <2>4, <2>6, <2>9
    <2>15. pct < 0 /\ limit # NoLimit /\ live + 8 <= limit => peak <= limit
      BY <2>1, <2>2, <2>4, <2>9
    <2>16. 2 * chunk = 8
      BY DEF chunk
    <2> QED BY <2>3, <2>4, <2>9, <2>10, <2>11, <2>12, <2>13, <2>14, <2>15, <2>16
            DEF live, garbage, goal, limit, pct, forced
  <1> QED BY <1>1, <1>2 DEF PhasesAsTested

LEMMA GCStutters == GCInv /\ UNCHANGED gcVars => GCInv'
BY DEF GCInv, gcVars, Now, ChurnInv

LEMMA GCInductive == SequentialSpec => []GCInv
  <1>1. SequentialInit => GCInv
    BY GCStarts DEF SequentialInit
  <1>2. GCInv /\ [SequentialNext]_<<gcVars, listVars, todoVars, vars, deferVars, input>> => GCInv'
    <2>1. [SequentialNext]_<<gcVars, listVars, todoVars, vars, deferVars, input>>
            => BeginPhase \/ Churn \/ ForceGC \/ EndPhase \/ UNCHANGED gcVars
      BY DEF SequentialNext, GCNext
    <2> QED BY <2>1, BeginStep, ChurnStep, ForceStep, EndStep, GCStutters
  <1> QED BY <1>1, <1>2, PTL DEF SequentialSpec

(* Whatever the width of a word, and however early the runtime collects,   *)
(* the peaks and the numbers of collections are those the tests of adv028  *)
(* ask for, and every measurement puts GOGC, GOMEMLIMIT and GOMAXPROCS     *)
(* back (adv015, adv025, adv026, adv028, adv029).                          *)
THEOREM PhasesBehave == SequentialSpec => []PhasesAsTested
BY GCInductive, PhasesAre, PTL

-----------------------------------------------------------------------------
(* The linked list.                                                        *)

(* f has what k steps of a walk along nx meet, from every address.         *)
IsWalk(nx, f) ==
  f = [k \in 0 .. Cardinality(Node) |->
        [m \in Node \cup {NULL} |->
           IF m = NULL \/ k = 0 THEN <<>> ELSE <<m>> \o f[k - 1][nx[m]]]]

LEMMA WalkExists ==
  ASSUME NEW nx
  PROVE  \E f : IsWalk(nx, f)
  <1> DEFINE C == Cardinality(Node)
             More(f) == [k \in 0 .. C |-> [m \in Node \cup {NULL} |->
                          IF m = NULL \/ k = 0 THEN <<>> ELSE <<m>> \o f[k - 1][nx[m]]]]
             Good(f, n) == \A k \in 0 .. C : k <= n => f[k] = More(f)[k]
             N == {n \in Nat : \E f : Good(f, n)}
  <1>0. C \in Nat
    BY NodeAssumption, FS_CardinalityType
  <1> HIDE DEF C
  <1>1. 0 \in N
    <2> DEFINE g == More(0)
    <2>1. Good(g, 0)
      <3> SUFFICES ASSUME NEW k \in 0 .. C, k <= 0 PROVE g[k] = More(g)[k]
        OBVIOUS
      <3>1. k = 0
        OBVIOUS
      <3> QED BY <3>1
    <2> QED BY <2>1
  <1>2. ASSUME NEW n \in N PROVE n + 1 \in N
    <2>1. PICK f : Good(f, n)
      OBVIOUS
    <2> DEFINE g == More(f)
    <2>2. ASSUME NEW k \in 0 .. C, k <= n + 1 PROVE g[k] = More(g)[k]
      <3>1. CASE k = 0
        BY <3>1
      <3>2. CASE k # 0
        <4>1. k - 1 \in 0 .. C /\ k - 1 <= n
          BY <1>0, <2>2, <3>2
        <4>2. g[k - 1] = f[k - 1]
          BY <2>1, <4>1
        <4>3. g[k] = [m \in Node \cup {NULL} |-> IF m = NULL \/ k = 0 THEN <<>>
                                                ELSE <<m>> \o f[k - 1][nx[m]]]
          OBVIOUS
        <4>4. More(g)[k] = [m \in Node \cup {NULL} |-> IF m = NULL \/ k = 0 THEN <<>>
                                                ELSE <<m>> \o g[k - 1][nx[m]]]
          OBVIOUS
        <4> QED BY <4>2, <4>3, <4>4
      <3> QED BY <3>1, <3>2
    <2>3. Good(g, n + 1)
      BY <2>2
    <2> HIDE DEF g, Good
    <2> QED BY <2>3
  <1>3. C \in N
    <2> HIDE DEF N
    <2>1. N \in SUBSET Nat
      BY DEF N
    <2> QED BY <1>0, <1>1, <1>2, <2>1, FromZero
  <1>4. PICK f : Good(f, C)
    BY <1>3
  <1> DEFINE h == More(f)
  <1>5. ASSUME NEW k \in 0 .. C PROVE h[k] = f[k]
    <2>1. f[k] = More(f)[k]
      <3> HIDE DEF More
      <3> QED BY <1>0, <1>4
    <2> HIDE DEF More
    <2> QED BY <2>1
  <1>6. ASSUME NEW k \in 0 .. C PROVE h[k] = More(h)[k]
    <2>1. CASE k = 0
      BY <2>1
    <2>2. CASE k # 0
      <3>1. k - 1 \in 0 .. C
        BY <1>0, <2>2
      <3>2. h[k - 1] = f[k - 1]
        BY <3>1, <1>5
      <3>3. h[k] = [m \in Node \cup {NULL} |-> IF m = NULL \/ k = 0 THEN <<>>
                                                ELSE <<m>> \o f[k - 1][nx[m]]]
        OBVIOUS
      <3>4. More(h)[k] = [m \in Node \cup {NULL} |-> IF m = NULL \/ k = 0 THEN <<>>
                                                ELSE <<m>> \o h[k - 1][nx[m]]]
        OBVIOUS
      <3> QED BY <3>2, <3>3, <3>4
    <2> QED BY <2>1, <2>2
  <1>7. h = More(h)
    <2>1. h = [k \in 0 .. C |-> h[k]] /\ More(h) = [k \in 0 .. C |-> More(h)[k]]
      OBVIOUS
    <2> HIDE DEF h, More
    <2> QED BY <1>6, <2>1
  <1> QED BY <1>7 DEF IsWalk, C

(* s is the chain of nodes from h along nx.                                *)
Linked(s, h, nx) ==
  /\ \A i, j \in 1 .. Len(s) : i # j => s[i] # s[j]
  /\ h = IF s = <<>> THEN NULL ELSE s[1]
  /\ \A i \in 1 .. Len(s) : nx[s[i]] = IF i = Len(s) THEN NULL ELSE s[i + 1]

LEMMA LinkedIsShort ==
  ASSUME NEW s \in Seq(Node), NEW h, NEW nx, Linked(s, h, nx)
  PROVE  Len(s) <= Cardinality(Node)
  <1>1. s \in Injection(1 .. Len(s), Node)
    BY DEF Linked, Injection, IsInjective
  <1>2. IsFiniteSet(1 .. Len(s)) /\ Cardinality(1 .. Len(s)) = Len(s)
    <2> DEFINE n == Len(s)
    <2>1. n \in Nat
      BY LenProperties
    <2> HIDE DEF n
    <2>2. IsFiniteSet(1 .. n) /\ Cardinality(1 .. n) = n
      BY <2>1, FS_Interval
    <2> QED BY <2>2 DEF n
  <1> QED BY <1>1, <1>2, FS_Injection, NodeAssumption

(* What a walk that has met the first i - 1 of s comes to.                 *)
NodeAt(s, i) == IF i > Len(s) THEN NULL ELSE s[i]

LEMMA WalkMeetsTheRest ==
  ASSUME NEW s \in Seq(Node), NEW h, NEW nx, Linked(s, h, nx), NEW f, IsWalk(nx, f)
  PROVE  f[Cardinality(Node)][h] = s
  <1> DEFINE C == Cardinality(Node)
             Met(k) == \A i \in 1 .. Len(s) + 1 : Len(s) + 1 - i <= k =>
                          f[k][NodeAt(s, i)] = SubSeq(s, i, Len(s))
             N == {n \in Nat : n <= C => Met(n)}
  <1>0. C \in Nat /\ Len(s) \in Nat
    BY NodeAssumption, FS_CardinalityType, LenProperties
  <1>9. Len(s) <= C
    BY LinkedIsShort
  <1>8. ASSUME NEW k \in 0 .. C, NEW m \in Node \cup {NULL}
        PROVE  f[k][m] = IF m = NULL \/ k = 0 THEN <<>> ELSE <<m>> \o f[k - 1][nx[m]]
    <2>1. f[k] = [l \in Node \cup {NULL} |->
                   IF l = NULL \/ k = 0 THEN <<>> ELSE <<l>> \o f[k - 1][nx[l]]]
      BY DEF IsWalk
    <2> QED BY <2>1
  <1> HIDE DEF C
  <1>7. SubSeq(s, Len(s) + 1, Len(s)) = <<>>
    BY <1>0, SubSeqEmpty
  <1>1. 0 \in N
    <2> SUFFICES ASSUME NEW i \in 1 .. Len(s) + 1, Len(s) + 1 - i <= 0
                 PROVE  f[0][NodeAt(s, i)] = SubSeq(s, i, Len(s))
      OBVIOUS
    <2>1. i = Len(s) + 1 /\ NodeAt(s, i) = NULL
      BY <1>0 DEF NodeAt
    <2>2. f[0][NULL] = <<>>
      <3>1. 0 \in 0 .. C /\ NULL \in Node \cup {NULL}
        BY <1>0
      <3> QED BY <1>8, <3>1
    <2> QED BY <2>1, <2>2, <1>7
  <1>2. ASSUME NEW n \in N PROVE n + 1 \in N
    <2> SUFFICES ASSUME n + 1 <= C, NEW i \in 1 .. Len(s) + 1, Len(s) + 1 - i <= n + 1
                 PROVE  f[n + 1][NodeAt(s, i)] = SubSeq(s, i, Len(s))
      OBVIOUS
    <2>1. Met(n) /\ n + 1 \in 0 .. C /\ n \in Nat
      BY <1>0
    <2>2. CASE i = Len(s) + 1
      <3>1. NodeAt(s, i) = NULL
        BY <1>0, <2>2 DEF NodeAt
      <3>2. f[n + 1][NULL] = <<>>
        BY <1>8, <2>1
      <3> QED BY <3>1, <3>2, <1>7, <2>2
    <2>3. CASE i # Len(s) + 1
      <3>1. i \in 1 .. Len(s) /\ i + 1 \in 1 .. Len(s) + 1 /\ Len(s) + 1 - (i + 1) <= n
        BY <1>0, <2>3, <2>1
      <3>2. NodeAt(s, i) = s[i] /\ s[i] \in Node /\ s[i] # NULL
        BY <1>0, <3>1, NodeAssumption, ElementOfSeq DEF NodeAt
      <3>3. nx[s[i]] = NodeAt(s, i + 1)
        BY <1>0, <3>1 DEF Linked, NodeAt
      <3>4. f[n][NodeAt(s, i + 1)] = SubSeq(s, i + 1, Len(s))
        BY <2>1, <3>1
      <3>5. f[n + 1][s[i]] = <<s[i]>> \o f[n][nx[s[i]]]
        <4>1. \A k \in 0 .. C, m \in Node : k # 0 /\ m # NULL =>
                f[k][m] = <<m>> \o f[k - 1][nx[m]]
          BY <1>8
        <4>2. PICK k \in 0 .. C : k = n + 1 /\ k # 0 /\ k - 1 = n
          BY <2>1
        <4>3. f[k][s[i]] = <<s[i]>> \o f[k - 1][nx[s[i]]]
          BY <3>2, <4>1, <4>2
        <4> QED BY <4>2, <4>3
      <3>6. <<s[i]>> \o SubSeq(s, i + 1, Len(s)) = SubSeq(s, i, Len(s))
        BY <3>1, SubSeqRecursiveFirst
      <3> QED BY <3>2, <3>3, <3>4, <3>5, <3>6
    <2> QED BY <2>2, <2>3
  <1>3. N = Nat
    <2> HIDE DEF N
    <2>1. N \in SUBSET Nat
      BY DEF N
    <2> QED BY <1>1, <1>2, <2>1, FromZero
  <1>4. f[C][NodeAt(s, 1)] = SubSeq(s, 1, Len(s))
    <2>1. Met(C)
      BY <1>0, <1>3
    <2>2. 1 \in 1 .. Len(s) + 1 /\ Len(s) + 1 - 1 <= C
      BY <1>0, <1>9
    <2> HIDE DEF N
    <2> QED BY <2>1, <2>2
  <1>5. NodeAt(s, 1) = h
    BY <1>0 DEF NodeAt, Linked
  <1>6. SubSeq(s, 1, Len(s)) = s
    BY SubSeqFull
  <1> QED BY <1>4, <1>5, <1>6 DEF C

(* The nodes of the list are s, and hold the items.                        *)
Chained(s) ==
  /\ s \in Seq(Node) /\ Linked(s, listHead, next)
  /\ items \in Seq(Value) /\ Len(items) = Len(s)
  /\ \A i \in 1 .. Len(s) : value[s[i]] = items[i]
  /\ length = Len(s)
ListInv ==
  /\ next \in [Node -> Node \cup {NULL}] /\ value \in [Node -> Value \cup {NULL}]
  /\ \E s : Chained(s)

LEMMA NodesAreChained ==
  ASSUME NEW s, Chained(s)
  PROVE  Nodes = s
  <1>1. PICK f : IsWalk(next, f) /\ Nodes = f[Cardinality(Node)][listHead]
    <2> DEFINE f == CHOOSE f : f = [k \in 0 .. Cardinality(Node) |->
                 [m \in Node \cup {NULL} |->
                    IF m = NULL \/ k = 0 THEN <<>> ELSE <<m>> \o f[k - 1][next[m]]]]
    <2>1. Nodes = f[Cardinality(Node)][listHead]
      BY DEF Nodes, Walk
    <2>2. IsWalk(next, f)
      BY WalkExists DEF IsWalk
    <2> QED BY <2>1, <2>2
  <1>2. s \in Seq(Node) /\ Linked(s, listHead, next)
    BY DEF Chained
  <1> QED BY <1>1, <1>2, WalkMeetsTheRest

LEMMA ListShowsItsItems == ListInv => ListIsItsItems
  <1> SUFFICES ASSUME ListInv PROVE ListIsItsItems
    OBVIOUS
  <1>1. PICK s : Chained(s)
    BY DEF ListInv
  <1>2. Nodes = s
    BY <1>1, NodesAreChained
  <1>3. /\ s \in Seq(Node) /\ items \in Seq(Value) /\ Len(items) = Len(s) /\ Len(s) \in Nat
        /\ \A i \in 1 .. Len(s) : value[s[i]] = items[i]
        /\ length = Len(s)
    BY <1>1, LenProperties DEF Chained
  <1>4. ForEach = items
    <2>1. ForEach = [i \in 1 .. Len(s) |-> value[s[i]]]
      BY <1>2, <1>3 DEF ForEach
    <2>2. items = [i \in 1 .. Len(s) |-> items[i]]
      BY <1>3
    <2> QED BY <1>3, <2>1, <2>2
  <1>5. PeekFront = IF items = <<>> THEN Nothing ELSE <<items[1], TRUE>>
    <2>1. CASE s = <<>>
      <3>1. listHead = NULL /\ items = <<>>
        BY <1>1, <1>3, <2>1 DEF Chained, Linked
      <3> QED BY <3>1 DEF PeekFront
    <2>2. CASE s # <<>>
      <3>1. 1 \in 1 .. Len(s) /\ items # <<>> /\ listHead = s[1]
        BY <1>1, <1>3, <2>2, EmptySeq DEF Chained, Linked
      <3>2. listHead # NULL /\ value[listHead] = items[1]
        BY <1>3, <3>1, ElementOfSeq, NodeAssumption
      <3> QED BY <3>1, <3>2 DEF PeekFront
    <2> QED BY <2>1, <2>2
  <1> QED BY <1>3, <1>4, <1>5 DEF ListIsItsItems

LEMMA ListStarts == ListInit => ListInv
  <1> SUFFICES ASSUME ListInit PROVE ListInv
    OBVIOUS
  <1>1. Chained(<<>>)
    BY EmptySeq DEF Chained, Linked, ListInit
  <1> QED BY <1>1 DEF ListInv, ListInit

(* A new node is chained after the last one.                               *)
LEMMA PushBackKeepsList ==
  ASSUME ListInv, NEW v \in Value, PushBack(v)
  PROVE  ListInv' /\ Len(items') >= Len(items)
  <1>1. PICK s : Chained(s)
    BY DEF ListInv
  <1>2. Nodes = s
    BY <1>1, NodesAreChained
  <1> DEFINE L == Len(s)
  <1>3. /\ s \in Seq(Node) /\ L \in Nat /\ items \in Seq(Value) /\ Len(items) = L
        /\ \A i \in 1 .. L : value[s[i]] = items[i] /\ s[i] \in Node
        /\ length = L
        /\ \A i, j \in 1 .. L : i # j => s[i] # s[j]
        /\ listHead = IF s = <<>> THEN NULL ELSE s[1]
        /\ \A i \in 1 .. L : next[s[i]] = IF i = L THEN NULL ELSE s[i + 1]
        /\ next \in [Node -> Node \cup {NULL}] /\ value \in [Node -> Value \cup {NULL}]
    BY <1>1, LenProperties, ElementOfSeq DEF Chained, Linked, ListInv
  <1>a. PICK n \in Node \ ToSet(Nodes) :
          /\ value' = [value EXCEPT ![n] = v]
          /\ next' = [m \in Node |-> IF m = n THEN NULL
                        ELSE IF listHead # NULL /\ m = Last(Nodes) THEN n ELSE next[m]]
          /\ listHead' = IF listHead = NULL THEN n ELSE listHead
    BY DEF PushBack
  <1>4. /\ n \in Node \ ToSet(s) /\ value' = [value EXCEPT ![n] = v]
        /\ next' = [m \in Node |-> IF m = n THEN NULL
                      ELSE IF listHead # NULL /\ m = Last(s) THEN n ELSE next[m]]
        /\ listHead' = IF listHead = NULL THEN n ELSE listHead
    BY <1>2, <1>a
  <1>5. \A i \in 1 .. L : s[i] # n
    BY <1>3, <1>4 DEF ToSet
  <1>6. length' = length + 1 /\ items' = Append(items, v)
    BY DEF PushBack
  <1> DEFINE t == Append(s, n)
  <1>7. /\ t \in Seq(Node) /\ Len(t) = L + 1 /\ t # <<>> /\ t[L + 1] = n
        /\ \A i \in 1 .. L : t[i] = s[i]
    BY <1>3, <1>4, AppendProperties
  <1>8. /\ items' \in Seq(Value) /\ Len(items') = L + 1 /\ items'[L + 1] = v
        /\ \A i \in 1 .. L : items'[i] = items[i]
    BY <1>3, <1>6
  <1>9. listHead = NULL <=> L = 0
    BY <1>3, EmptySeq, NodeAssumption
  <1> HIDE DEF t, L
  <1>10. listHead' = t[1]
    <2>1. CASE L = 0
      BY <2>1, <1>4, <1>7, <1>9
    <2>2. CASE L # 0
      <3>1. 1 \in 1 .. L
        BY <1>3, <2>2
      <3>2. s # <<>>
        BY <1>3, <2>2, EmptySeq DEF L
      <3> QED BY <2>2, <3>1, <3>2, <1>3, <1>4, <1>7, <1>9
    <2> QED BY <2>1, <2>2
  <1>11. \A i \in 1 .. L + 1 : next'[t[i]] = IF i = L + 1 THEN NULL ELSE t[i + 1]
    <2> SUFFICES ASSUME NEW i \in 1 .. L + 1
                 PROVE  next'[t[i]] = IF i = L + 1 THEN NULL ELSE t[i + 1]
      OBVIOUS
    <2>1. CASE i = L + 1
      BY <2>1, <1>4, <1>7
    <2>2. CASE i = L /\ i # L + 1
      <3>1. i \in 1 .. L /\ L # 0
        BY <1>3, <2>2
      <3>2. t[i] = Last(s) /\ t[i] # n /\ t[i] \in Node /\ t[i + 1] = n
        BY <3>1, <2>2, <1>5, <1>7, <1>3 DEF Last, L
      <3> QED BY <2>2, <3>1, <3>2, <1>4, <1>9
    <2>3. CASE i # L /\ i # L + 1
      <3>1. i \in 1 .. L /\ i + 1 \in 1 .. L /\ L \in 1 .. L
        BY <1>3, <2>3
      <3>2. t[i] = s[i] /\ s[i] # s[L] /\ t[i] # n /\ t[i + 1] = s[i + 1] /\ t[i] \in Node
        BY <3>1, <2>3, <1>3, <1>5, <1>7
      <3>3. Last(s) = s[L]
        BY DEF Last, L
      <3> QED BY <2>3, <3>1, <3>2, <3>3, <1>3, <1>4
    <2> QED BY <2>1, <2>2, <2>3
  <1>12. \A i \in 1 .. L + 1 : value'[t[i]] = items'[i]
    <2> SUFFICES ASSUME NEW i \in 1 .. L + 1 PROVE value'[t[i]] = items'[i]
      OBVIOUS
    <2>1. CASE i = L + 1
      BY <2>1, <1>3, <1>4, <1>7, <1>8
    <2>2. CASE i # L + 1
      <3>1. i \in 1 .. L
        BY <1>3, <2>2
      <3> QED BY <3>1, <1>3, <1>4, <1>5, <1>7, <1>8
    <2> QED BY <2>1, <2>2
  <1>13. \A i, j \in 1 .. L + 1 : i # j => t[i] # t[j]
    <2> SUFFICES ASSUME NEW i \in 1 .. L + 1, NEW j \in 1 .. L + 1, i # j PROVE t[i] # t[j]
      OBVIOUS
    <2>1. CASE i = L + 1
      <3>1. j \in 1 .. L
        BY <1>3, <2>1
      <3> QED BY <2>1, <3>1, <1>5, <1>7
    <2>2. CASE j = L + 1
      <3>1. i \in 1 .. L
        BY <1>3, <2>2
      <3> QED BY <2>2, <3>1, <1>5, <1>7
    <2>3. CASE i # L + 1 /\ j # L + 1
      <3>1. i \in 1 .. L /\ j \in 1 .. L
        BY <1>3, <2>3
      <3> QED BY <3>1, <1>3, <1>7
    <2> QED BY <2>1, <2>2, <2>3
  <1>14. length' = L + 1
    BY <1>3, <1>6
  <1>15. Linked(t, listHead', next')
    BY <1>7, <1>10, <1>11, <1>13 DEF Linked
  <1>16. Chained(t)'
    BY <1>7, <1>8, <1>12, <1>14, <1>15 DEF Chained
  <1>17. next' \in [Node -> Node \cup {NULL}] /\ value' \in [Node -> Value \cup {NULL}]
    BY <1>3, <1>4
  <1> QED BY <1>3, <1>8, <1>16, <1>17 DEF ListInv

(* What PopBack takes is the last item.                                    *)
LEMMA PopBackOnlyKeepsList ==
  ASSUME ListInv, PopBackOnly
  PROVE  ListInv' /\ popped' = <<Last(items), TRUE>>
  <1>1. PICK s : Chained(s)
    BY DEF ListInv
  <1>2. /\ s \in Seq(Node) /\ Len(s) \in Nat /\ items \in Seq(Value) /\ Len(items) = Len(s)
        /\ \A i \in 1 .. Len(s) : value[s[i]] = items[i] /\ s[i] \in Node
        /\ length = Len(s)
        /\ listHead = IF s = <<>> THEN NULL ELSE s[1]
        /\ \A i \in 1 .. Len(s) : next[s[i]] = IF i = Len(s) THEN NULL ELSE s[i + 1]
        /\ next \in [Node -> Node \cup {NULL}] /\ value \in [Node -> Value \cup {NULL}]
    BY <1>1, LenProperties, ElementOfSeq DEF Chained, Linked, ListInv
  <1>3. /\ listHead # NULL /\ next[listHead] = NULL
        /\ popped' = <<value[listHead], TRUE>>
        /\ listHead' = NULL /\ length' = length - 1
        /\ items' = Front(items) /\ UNCHANGED <<next, value>>
    BY DEF PopBackOnly
  <1>4. s # <<>> /\ 1 \in 1 .. Len(s) /\ listHead = s[1]
    BY <1>2, <1>3, EmptySeq
  <1>5. Len(s) = 1
    <2> SUFFICES ASSUME Len(s) # 1 PROVE FALSE
      OBVIOUS
    <2>1. next[s[1]] = s[2] /\ s[2] \in Node
      BY <1>2, <1>4
    <2> QED BY <2>1, <1>3, <1>4, NodeAssumption
  <1>6. items' = <<>>
    BY <1>2, <1>3, <1>5, SubSeqEmpty DEF Front
  <1>7. Chained(<<>>)'
    BY <1>2, <1>3, <1>5, <1>6, EmptySeq DEF Chained, Linked
  <1>8. popped' = <<Last(items), TRUE>>
    BY <1>2, <1>3, <1>4, <1>5 DEF Last
  <1> QED BY <1>2, <1>3, <1>7, <1>8 DEF ListInv

LEMMA PopBackLastKeepsList ==
  ASSUME ListInv, PopBackLast
  PROVE  ListInv' /\ popped' = <<Last(items), TRUE>>
  <1>1. PICK s : Chained(s)
    BY DEF ListInv
  <1>2. Nodes = s
    BY <1>1, NodesAreChained
  <1> DEFINE L == Len(s)
             curr == s[L - 1]
             t == Front(s)
  <1>3. /\ s \in Seq(Node) /\ L \in Nat /\ items \in Seq(Value) /\ Len(items) = L
        /\ \A i \in 1 .. L : value[s[i]] = items[i] /\ s[i] \in Node
        /\ length = L
        /\ \A i, j \in 1 .. L : i # j => s[i] # s[j]
        /\ listHead = IF s = <<>> THEN NULL ELSE s[1]
        /\ \A i \in 1 .. L : next[s[i]] = IF i = L THEN NULL ELSE s[i + 1]
        /\ next \in [Node -> Node \cup {NULL}] /\ value \in [Node -> Value \cup {NULL}]
    BY <1>1, LenProperties, ElementOfSeq DEF Chained, Linked, ListInv
  <1>4. /\ listHead # NULL /\ next[listHead] # NULL
        /\ popped' = <<value[next[curr]], TRUE>>
        /\ next' = [next EXCEPT ![curr] = NULL]
        /\ length' = length - 1
        /\ items' = Front(items) /\ UNCHANGED <<listHead, value>>
    BY <1>2 DEF PopBackLast
  <1>5. s # <<>> /\ listHead = s[1] /\ L > 1
    <2>1. s # <<>> /\ 1 \in 1 .. L /\ listHead = s[1]
      BY <1>3, <1>4, EmptySeq
    <2>2. L # 1
      BY <1>3, <1>4, <2>1
    <2> QED BY <1>3, <2>1, <2>2
  <1>6. /\ t \in Seq(Node) /\ Len(t) = L - 1 /\ \A i \in 1 .. L - 1 : t[i] = s[i]
        /\ items' \in Seq(Value) /\ Len(items') = L - 1
        /\ \A i \in 1 .. L - 1 : items'[i] = items[i]
    <2>1. \A i \in 1 .. L - 1 : items[i] \in Value /\ s[i] \in Node
      BY <1>3, <1>5, ElementOfSeq
    <2> QED BY <1>3, <1>4, <1>5, <2>1, SubSeqProperties DEF Front
  <1> HIDE DEF L, t, curr
  <1>7. L - 1 \in 1 .. L /\ curr \in Node /\ next[curr] = s[L]
    BY <1>3, <1>5 DEF curr
  <1>8. popped' = <<Last(items), TRUE>>
    BY <1>3, <1>4, <1>5, <1>7 DEF Last
  <1>9. t # <<>> /\ listHead' = t[1]
    BY <1>3, <1>4, <1>5, <1>6, EmptySeq
  <1>10. \A i \in 1 .. L - 1 : next'[t[i]] = IF i = L - 1 THEN NULL ELSE t[i + 1]
    <2> SUFFICES ASSUME NEW i \in 1 .. L - 1
                 PROVE  next'[t[i]] = IF i = L - 1 THEN NULL ELSE t[i + 1]
      OBVIOUS
    <2>1. i \in 1 .. L /\ t[i] = s[i]
      <3>1. L \in Nat
        BY <1>3
      <3>2. t[i] = s[i]
        BY <1>6
      <3> QED BY <3>1, <3>2
    <2>2. CASE i = L - 1
      <3>1. t[i] = curr
        BY <2>1, <2>2 DEF curr
      <3>2. next'[curr] = NULL
        BY <1>3, <1>4, <1>7
      <3> QED BY <2>2, <3>1, <3>2
    <2>3. CASE i # L - 1
      <3>1. i + 1 \in 1 .. L - 1 /\ i # L
        BY <1>3, <2>3
      <3>2. s[i] # curr /\ next[s[i]] = s[i + 1] /\ t[i + 1] = s[i + 1]
        BY <3>1, <2>1, <2>3, <1>3, <1>6, <1>7 DEF curr
      <3> QED BY <3>1, <3>2, <2>1, <2>3, <1>3, <1>4
    <2> QED BY <2>2, <2>3
  <1>11. \A i, j \in 1 .. L - 1 : i # j => t[i] # t[j]
    BY <1>3, <1>6
  <1>12. Linked(t, listHead', next')
    BY <1>6, <1>9, <1>10, <1>11 DEF Linked
  <1>13. \A i \in 1 .. L - 1 : value'[t[i]] = items'[i]
    <2> SUFFICES ASSUME NEW i \in 1 .. L - 1 PROVE value'[t[i]] = items'[i]
      OBVIOUS
    <2>1. i \in 1 .. L
      BY <1>3
    <2>2. t[i] = s[i] /\ items'[i] = items[i]
      BY <1>6
    <2> QED BY <2>1, <2>2, <1>3, <1>4
  <1>14. Chained(t)'
    <2>1. length' = L - 1
      BY <1>3, <1>4
    <2> QED BY <2>1, <1>6, <1>12, <1>13 DEF Chained
  <1>15. next' \in [Node -> Node \cup {NULL}] /\ value' \in [Node -> Value \cup {NULL}]
    BY <1>3, <1>4, <1>7
  <1> QED BY <1>8, <1>14, <1>15 DEF ListInv

(* Every operation keeps the chain, and takes the last item if it takes one. *)
LEMMA ListOperationsAreRight ==
  ASSUME ListInv, ListNext
  PROVE  ListInv' /\ (Len(items') < Len(items) => popped' = <<Last(items), TRUE>>)
  <1>1. ASSUME NEW v \in Value, PushBack(v)
        PROVE  ListInv' /\ ~(Len(items') < Len(items))
    <2>1. ListInv' /\ Len(items') >= Len(items)
      BY <1>1, PushBackKeepsList
    <2>2. items \in Seq(Value) /\ items' \in Seq(Value)
      BY <2>1 DEF ListInv, Chained
    <2>3. Len(items) \in Nat /\ Len(items') \in Nat
      BY <2>2, LenProperties
    <2> QED BY <2>1, <2>3
  <1>2. ASSUME PopBackEmpty PROVE ListInv' /\ ~(Len(items') < Len(items))
    <2>1. UNCHANGED <<listHead, next, value, length, items>>
      BY <1>2 DEF PopBackEmpty
    <2>2. ListInv'
      BY <2>1 DEF ListInv, Chained
    <2>3. Len(items) \in Nat
      BY LenProperties DEF ListInv, Chained
    <2> QED BY <2>1, <2>2, <2>3
  <1>3. CASE PopBackOnly
    BY <1>3, PopBackOnlyKeepsList
  <1>4. CASE PopBackLast
    BY <1>4, PopBackLastKeepsList
  <1>5. (\E v \in Value : PushBack(v)) \/ PopBackEmpty \/ PopBackOnly \/ PopBackLast
    BY DEF ListNext
  <1> QED BY <1>1, <1>2, <1>3, <1>4, <1>5

(* From the empty list on, the nodes from Head are a chain without a cycle *)
(* whose values are the items and whose number is Length.                  *)
THEOREM ChainIsKept == SequentialSpec => []ListInv
  <1>1. SequentialInit => ListInv
    BY ListStarts DEF SequentialInit
  <1>2. /\ ListInv
        /\ [SequentialNext]_<<gcVars, listVars, todoVars, vars, deferVars, input>>
        => ListInv'
    <2>1. [SequentialNext]_<<gcVars, listVars, todoVars, vars, deferVars, input>>
          => ListNext \/ UNCHANGED listVars
      BY DEF SequentialNext
    <2>2. ListInv /\ UNCHANGED listVars => ListInv'
      BY DEF ListInv, Chained, listVars
    <2> QED BY <2>1, <2>2, ListOperationsAreRight
  <1> QED BY <1>1, <1>2, PTL DEF SequentialSpec

(* However PushBack and PopBack alternate and whichever addresses are used *)
(* again: ForEach, Len and PeekFront tell the items that were pushed and   *)
(* not popped, in their order, and PopBack returns the last of them.       *)
THEOREM ListTellsItsItems == SequentialSpec => ListKeepsItsItems
  <1>1. /\ ListInv /\ ListInv'
        /\ [SequentialNext]_<<gcVars, listVars, todoVars, vars, deferVars, input>>
        /\ ListIsItsItems'
        => [/\ ListIsItsItems'
            /\ Len(items') < Len(items) => popped' = <<Last(items), TRUE>>]_listVars
    <2>1. [SequentialNext]_<<gcVars, listVars, todoVars, vars, deferVars, input>>
          => ListNext \/ UNCHANGED listVars
      BY DEF SequentialNext
    <2> QED BY <2>1, ListOperationsAreRight
  <1>2. ListInv => ListIsItsItems
    BY ListShowsItsItems
  <1> QED BY <1>1, <1>2, ChainIsKept, PTL DEF SequentialSpec, ListKeepsItsItems

-----------------------------------------------------------------------------
(* The callers of the token bucket.                                        *)

USE PeriodAssumption, BurstAssumption, RequestsAssumption, BoundsAssumption

(* The units of the call that client c is in.                              *)
Need(c) == ask[c] * Period

(* The products are the only nonlinear terms; everything else about them   *)
(* is that they are natural numbers.                                       *)
LEMMA UnitsAreNat ==
  /\ Capacity \in Nat
  /\ TypeOK => \A c \in Client : Need(c) \in Nat
  <1>1. \A m, n \in Nat : m * n \in Nat OBVIOUS
  <1>2. Capacity \in Nat BY <1>1 DEF Capacity
  <1>3. ASSUME TypeOK, NEW c \in Client PROVE Need(c) \in Nat
    <2>1. ask[c] \in Requests \cup {0} BY <1>3 DEF TypeOK
    <2>2. ask[c] \in Nat
      <3>1. CASE ask[c] = 0 BY <3>1
      <3>2. CASE ask[c] \in Requests BY <3>2
      <3> QED BY <2>1, <3>1, <3>2
    <2>3. Period \in Nat OBVIOUS
    <2> QED BY <1>1, <2>2, <2>3 DEF Need
  <1> QED BY <1>2, <1>3

(* A client that read the clock did so no later than now, and a sleeper    *)
(* will have slept at most for its tokens.                                 *)
ClocksAgree ==
  /\ last <= clock
  /\ \A c \in Client : now[c] <= clock
  /\ WaitIsBounded

IInv == TypeOK /\ ClocksAgree

(* What a refill leaves in the bucket.                                     *)
LEMMA RefilledBounds ==
  ASSUME TypeOK, NEW t \in 0 .. MaxClock
  PROVE  /\ Refilled(t) \in 0 .. Capacity
         /\ Refilled(t) <= tokens + (IF t < last THEN 0 ELSE t - last)
  <1>1. Capacity \in Nat BY UnitsAreNat
  <1> QED BY <1>1 DEF TypeOK, Refilled

(* Every step keeps IInv.                                                  *)
LEMMA StepInv == ASSUME IInv, [Next]_vars PROVE IInv'
  <1> USE DEF IInv, ClocksAgree
  <1>0. Capacity \in Nat /\ \A c \in Client : Need(c) \in Nat BY UnitsAreNat
  <1>1. CASE Tick
    <2>1. TypeOK' BY <1>1 DEF Tick, TypeOK
    <2>2. WaitIsBounded'
      BY <1>0, <1>1 DEF Tick, TypeOK, WaitIsBounded, Need
    <2> QED BY <1>1, <2>1, <2>2 DEF Tick, TypeOK
  <1>2. ASSUME NEW c \in Client, CallWait(c) PROVE IInv'
    <2>1. TypeOK' BY <1>2 DEF CallWait, TypeOK
    <2>2. WaitIsBounded' BY <1>2 DEF CallWait, TypeOK, WaitIsBounded
    <2> QED BY <1>2, <2>1, <2>2 DEF CallWait, TypeOK
  <1>3. ASSUME NEW c \in Client, GrantAtOnce(c) PROVE IInv'
    <2>0. now[c] \in 0 .. MaxClock BY DEF TypeOK
    <2>1. Refilled(now[c]) \in 0 .. Capacity BY <2>0, RefilledBounds
    <2>2. /\ tokens' = Refilled(now[c]) - Need(c) /\ Refilled(now[c]) >= Need(c)
          /\ atOnce' = atOnce + Need(c) /\ granted' = granted + Need(c)
      BY <1>3 DEF GrantAtOnce, LetThrough, Need
    <2>3. tokens' \in 0 .. Capacity /\ atOnce' \in Nat /\ granted' \in Nat
      BY <1>0, <2>1, <2>2 DEF TypeOK
    <2>4. TypeOK' BY <1>3, <2>0, <2>3 DEF GrantAtOnce, LetThrough, TypeOK
    <2>5. WaitIsBounded' BY <1>3 DEF GrantAtOnce, LetThrough, TypeOK, WaitIsBounded
    <2> QED BY <1>3, <2>4, <2>5 DEF GrantAtOnce, LetThrough, TypeOK
  <1>4. ASSUME NEW c \in Client, MustWait(c) PROVE IInv'
    <2>0. now[c] \in 0 .. MaxClock BY DEF TypeOK
    <2>1. Refilled(now[c]) \in 0 .. Capacity BY <2>0, RefilledBounds
    <2>2. DEFINE wake == clock + Need(c) - Refilled(now[c])
    <2>3. wakeAt' = [wakeAt EXCEPT ![c] = wake] /\ Refilled(now[c]) < Need(c)
      BY <1>4 DEF MustWait, Need
    <2>4. wake \in Nat /\ wake <= clock + Need(c) BY <1>0, <2>1, <2>3 DEF TypeOK
    <2> HIDE DEF wake
    <2>5. TypeOK' BY <1>0, <1>4, <2>0, <2>3, <2>4 DEF MustWait, TypeOK
    <2>6. WaitIsBounded'
      BY <1>4, <2>3, <2>4 DEF MustWait, TypeOK, WaitIsBounded, Need
    <2> QED BY <1>4, <2>5, <2>6 DEF MustWait, TypeOK
  <1>5. ASSUME NEW c \in Client, Wake(c) PROVE IInv'
    <2>1. granted' = granted + Need(c) /\ granted' \in Nat
      BY <1>0, <1>5 DEF Wake, LetThrough, Need, TypeOK
    <2>2. TypeOK' BY <1>5, <2>1 DEF Wake, LetThrough, TypeOK
    <2>3. WaitIsBounded' BY <1>5 DEF Wake, LetThrough, TypeOK, WaitIsBounded
    <2> QED BY <1>5, <2>2, <2>3 DEF Wake, LetThrough, TypeOK
  <1>6. CASE UNCHANGED vars BY <1>6 DEF vars, TypeOK, WaitIsBounded
  <1> QED BY <1>1, <1>2, <1>3, <1>4, <1>5, <1>6 DEF Next, Call, BoundReached

(* The initial state.                                                      *)
LEMMA InitInv == Init => IInv
BY UnitsAreNat DEF Init, IInv, ClocksAgree, TypeOK, WaitIsBounded

(* tokens stays between 0 and burst, also when now is earlier than last.   *)
THEOREM TypeCorrect == Spec => []TypeOK
BY InitInv, StepInv, PTL DEF Spec, IInv

(* No interleaving of callers makes reserveN return an overlong wait.      *)
THEOREM WaitsAreBounded == Spec => []WaitIsBounded
BY InitInv, StepInv, PTL DEF Spec, IInv, ClocksAgree

-----------------------------------------------------------------------------
(* What the clients can have made the bucket refill.                       *)

(* No reservation to come reads an earlier clock than this.                *)
Earliest(c) == IF pc[c] = "reserve" THEN now[c] ELSE clock
Before(M) == [c \in Client |-> IF Earliest(c) <= M THEN Earliest(c) ELSE M]
(* Until when a client's time is accounted for, and what it will get.      *)
Until == [c \in Client |-> IF pc[c] = "idle" THEN clock
                          ELSE IF pc[c] = "reserve" THEN now[c] ELSE wakeAt[c]]
Owed == [c \in Client |-> IF pc[c] = "sleep" THEN Need(c) ELSE 0]

(* M is the latest time that was ever the last refill.  A client that moves *)
(* last back reads a later clock the next time, so that it moves last back *)
(* over no tick before M twice.                                            *)
Accounted(M) ==
  /\ M \in Nat /\ last <= M /\ M <= clock
  /\ atOnce + tokens + M <= Capacity + last + Total(Client, Before(M))
  /\ granted + tokens + M + Total(Client, Owed)
       <= Capacity + last + Total(Client, Before(M)) + Total(Client, Until)

LEMMA FunctionsOfClients ==
  ASSUME TypeOK, NEW M \in Nat
  PROVE  Before(M) \in [Client -> Nat] /\ Until \in [Client -> Nat] /\ Owed \in [Client -> Nat]
  <1>1. \A c \in Client : Need(c) \in Nat /\ pc[c] \in {"idle", "reserve", "sleep"}
    BY UnitsAreNat DEF TypeOK
  <1>2. clock \in Nat /\ \A c \in Client : now[c] \in Nat /\ wakeAt[c] \in Nat
    BY DEF TypeOK
  <1> QED BY <1>1, <1>2 DEF Before, Until, Owed, Earliest

LEMMA BucketStarts == Init => Accounted(0)
  <1> SUFFICES ASSUME Init PROVE Accounted(0)
    OBVIOUS
  <1>1. TypeOK
    BY InitInv DEF IInv
  <1>2. Total(Client, Owed) <= Cardinality(Client) * 0
    <2>1. \A c \in Client : Owed[c] <= 0
      BY DEF Owed, Init
    <2> QED BY <1>1, <2>1, FunctionsOfClients, TotalWithin, ClientAssumption
  <1>3. /\ Total(Client, Owed) \in Nat /\ Total(Client, Before(0)) \in Nat
        /\ Total(Client, Until) \in Nat
    BY <1>1, FunctionsOfClients, SumsAre, ClientAssumption
  <1>4. Total(Client, Owed) = 0
    <2>1. Cardinality(Client) * 0 = 0
      BY FS_CardinalityType, ClientAssumption
    <2> QED BY <1>2, <1>3, <2>1
  <1>5. Capacity \in Nat
    BY UnitsAreNat
  <1> QED BY <1>3, <1>4, <1>5 DEF Accounted, Init

LEMMA NeedsStayNat == TypeOK' => ask' \in [Client -> Nat] /\ \A c \in Client : Need(c)' \in Nat
  <1> SUFFICES ASSUME TypeOK' PROVE ask' \in [Client -> Nat] /\ \A c \in Client : Need(c)' \in Nat
    OBVIOUS
  <1>1. ask' \in [Client -> Requests \cup {0}]
    BY DEF TypeOK
  <1>2. \A n \in Requests \cup {0} : n \in Nat
    OBVIOUS
  <1>3. ask' \in [Client -> Nat]
    BY <1>1, <1>2
  <1>4. \A m, n \in Nat : m * n \in Nat
    OBVIOUS
  <1>5. Period \in Nat
    OBVIOUS
  <1> QED BY <1>3, <1>4, <1>5 DEF Need

(* What one step of the client d makes of the four sums.                   *)
SumsMoveBy(M, M2, d, k, u, o) ==
  /\ d \in Client \/ (k = 0 /\ u = 0 /\ o = 0)
  /\ M \in Nat /\ M2 \in Nat /\ k \in Int /\ u \in Int /\ o \in Int
  /\ \A x \in Client : /\ Before(M)[x] <= Before(M2)'[x] + (IF x = d THEN k ELSE 0)
                       /\ Until[x] <= Until'[x] + (IF x = d THEN u ELSE 0)
                       /\ Owed'[x] <= Owed[x] + (IF x = d THEN o ELSE 0)

LEMMA SumsMove ==
  ASSUME IInv, IInv', NEW M, NEW M2, NEW d, NEW k, NEW u, NEW o,
         SumsMoveBy(M, M2, d, k, u, o)
  PROVE  /\ Total(Client, Before(M)) <= Total(Client, Before(M2)') + k
         /\ Total(Client, Until) <= Total(Client, Until') + u
         /\ Total(Client, Owed') <= Total(Client, Owed) + o
         /\ Total(Client, Before(M)) \in Nat /\ Total(Client, Before(M2)') \in Nat
         /\ Total(Client, Until) \in Nat /\ Total(Client, Until') \in Nat
         /\ Total(Client, Owed) \in Nat /\ Total(Client, Owed') \in Nat
  <1>0. /\ d \in Client \/ (k = 0 /\ u = 0 /\ o = 0)
        /\ M \in Nat /\ M2 \in Nat /\ k \in Int /\ u \in Int /\ o \in Int
        /\ \A x \in Client : /\ Before(M)[x] <= Before(M2)'[x] + (IF x = d THEN k ELSE 0)
                             /\ Until[x] <= Until'[x] + (IF x = d THEN u ELSE 0)
                             /\ Owed'[x] <= Owed[x] + (IF x = d THEN o ELSE 0)
    BY DEF SumsMoveBy
  <1>1. Before(M) \in [Client -> Nat] /\ Until \in [Client -> Nat] /\ Owed \in [Client -> Nat]
    BY <1>0, FunctionsOfClients DEF IInv
  <1>2. /\ Before(M2)' \in [Client -> Nat] /\ Until' \in [Client -> Nat]
        /\ Owed' \in [Client -> Nat]
    <2>1. \A c \in Client : Need(c)' \in Nat /\ pc'[c] \in {"idle", "reserve", "sleep"}
      BY NeedsStayNat DEF IInv, TypeOK
    <2>2. clock' \in Nat /\ \A c \in Client : now'[c] \in Nat /\ wakeAt'[c] \in Nat
      BY DEF IInv, TypeOK
    <2> QED BY <1>0, <2>1, <2>2 DEF Before, Until, Owed, Earliest
  <1> HIDE DEF IInv
  <1>3. Total(Client, Before(M)) <= Total(Client, Before(M2)') + k
    BY <1>0, <1>1, <1>2, TotalMoves, ClientAssumption
  <1>4. Total(Client, Until) <= Total(Client, Until') + u
    BY <1>0, <1>1, <1>2, TotalMoves, ClientAssumption
  <1>5. Total(Client, Owed') <= Total(Client, Owed) + o
    BY <1>0, <1>1, <1>2, TotalMoves, ClientAssumption
  <1> QED BY <1>1, <1>2, <1>3, <1>4, <1>5, SumsAre, ClientAssumption

(* A reservation by d, which then is idle or sleeps until wake.            *)
Later(M, t) == IF t > M THEN t ELSE M
Sooner(M, t) == IF t <= M THEN t ELSE M
LEMMA ReservationMoves ==
  ASSUME IInv, IInv', NEW M, M \in Nat, last <= M, M <= clock,
         NEW d \in Client, pc[d] = "reserve", NEW t, t = now[d], NEW wake, wake \in Nat, NEW need, need \in Nat,
         clock' = clock, ask' \in [Client -> Nat],
         \A c \in Client \ {d} : /\ pc'[c] = pc[c] /\ now'[c] = now[c]
                                 /\ wakeAt'[c] = wakeAt[c] /\ ask'[c] = ask[c],
         \/ pc'[d] = "idle" /\ wake = clock /\ need = 0
         \/ pc'[d] = "sleep" /\ wakeAt'[d] = wake /\ Need(d)' = need
  PROVE  /\ Total(Client, Before(M)) + (Later(M, t) - Sooner(M, t))
              <= Total(Client, Before(Later(M, t))')
         /\ Total(Client, Until) + (wake - t) <= Total(Client, Until')
         /\ Total(Client, Owed') <= Total(Client, Owed) + need
         /\ Total(Client, Before(M)) \in Nat /\ Total(Client, Before(Later(M, t))') \in Nat
         /\ Total(Client, Until) \in Nat /\ Total(Client, Until') \in Nat
         /\ Total(Client, Owed) \in Nat /\ Total(Client, Owed') \in Nat
  <1>m. PICK M2 : M2 = Later(M, t)
    OBVIOUS
  <1>k. PICK k : k = Sooner(M, t) - M2
    OBVIOUS
  <1>1. t \in Nat /\ clock \in Nat /\ t <= clock /\ M2 \in Nat /\ k \in Int /\ M <= M2 /\ M2 <= clock
    BY <1>m, <1>k DEF IInv, TypeOK, ClocksAgree, Later, Sooner
  <1>2. ASSUME NEW x \in Client, x # d
        PROVE  /\ Earliest(x)' = Earliest(x) /\ Earliest(x) \in Nat /\ Until'[x] = Until[x]
               /\ Owed'[x] = Owed[x] /\ Until[x] \in Nat /\ Owed[x] \in Nat
    <2>1. Need(x)' = Need(x)
      BY <1>2 DEF Need
    <2>2. /\ pc'[x] = pc[x] /\ now'[x] = now[x] /\ wakeAt'[x] = wakeAt[x] /\ clock' = clock
          /\ now[x] \in Nat
      BY <1>2 DEF IInv, TypeOK
    <2>3. Until[x] \in Nat /\ Owed[x] \in Nat
      BY <1>1, FunctionsOfClients DEF IInv
    <2>4. Earliest(x)' = Earliest(x) /\ Earliest(x) \in Nat
      BY <1>1, <2>2 DEF Earliest
    <2>5. Until'[x] = Until[x]
      BY <2>2 DEF Until
    <2>6. Owed'[x] = Owed[x]
      BY <2>1, <2>2 DEF Owed
    <2> QED BY <2>3, <2>4, <2>5, <2>6
  <1>3. Earliest(d) = t /\ Until[d] = t /\ Owed[d] = 0
    BY DEF Earliest, Until, Owed
  <1>4. Earliest(d)' = clock /\ Until'[d] = wake /\ Owed'[d] = need
    BY DEF Earliest, Until, Owed
  <1>5. ASSUME NEW x \in Client
        PROVE  /\ Before(M)[x] <= Before(M2)'[x] + (IF x = d THEN k ELSE 0)
               /\ Until[x] <= Until'[x] + (IF x = d THEN t - wake ELSE 0)
               /\ Owed'[x] <= Owed[x] + (IF x = d THEN need ELSE 0)
    <2>1. /\ Before(M)[x] = IF Earliest(x) <= M THEN Earliest(x) ELSE M
          /\ Before(M2)'[x] = IF Earliest(x)' <= M2 THEN Earliest(x)' ELSE M2
      BY DEF Before
    <2>2. CASE x = d
      <3>1. Before(M)[x] = Sooner(M, t)
        BY <1>3, <2>1, <2>2 DEF Sooner
      <3>2. Before(M2)'[x] = M2
        BY <1>1, <1>4, <2>1, <2>2
      <3>3. Sooner(M, t) \in Nat
        BY <1>1 DEF Sooner
      <3>4. Before(M)[x] <= Before(M2)'[x] + k
        BY <1>1, <1>k, <3>1, <3>2, <3>3
      <3> QED BY <1>1, <1>3, <1>4, <2>2, <3>4
    <2>3. CASE x # d
      BY <1>1, <1>2, <2>1, <2>3
    <2> QED BY <2>2, <2>3
  <1>6. /\ Total(Client, Before(M)) <= Total(Client, Before(M2)') + k
        /\ Total(Client, Until) <= Total(Client, Until') + (t - wake)
        /\ Total(Client, Owed') <= Total(Client, Owed) + need
        /\ Total(Client, Before(M)) \in Nat /\ Total(Client, Before(M2)') \in Nat
        /\ Total(Client, Until) \in Nat /\ Total(Client, Until') \in Nat
        /\ Total(Client, Owed) \in Nat /\ Total(Client, Owed') \in Nat
    <2>1. SumsMoveBy(M, M2, d, k, t - wake, need)
      BY <1>1, <1>5 DEF SumsMoveBy
    <2> QED BY <2>1, SumsMove
  <1>7. Total(Client, Before(M)) + (M2 - Sooner(M, t)) <= Total(Client, Before(M2)')
    <2>1. Sooner(M, t) \in Nat
      BY <1>1 DEF Sooner
    <2> QED BY <1>1, <1>k, <1>6, <2>1
  <1>8. Total(Client, Until) + (wake - t) <= Total(Client, Until')
    BY <1>1, <1>6
  <1> QED BY <1>m, <1>6, <1>7, <1>8

(* Where no client reserves, and at most d's debt is settled.              *)
LEMMA OthersMove ==
  ASSUME IInv, IInv', NEW M, M \in Nat, NEW d, NEW o, o \in Nat, d \in Client \/ o = 0,
         \A x \in Client : Earliest(x) <= Earliest(x)' /\ Until[x] <= Until'[x],
         \A x \in Client : Owed'[x] <= Owed[x] - (IF x = d THEN o ELSE 0)
  PROVE  /\ Total(Client, Before(M)) <= Total(Client, Before(M)')
         /\ Total(Client, Until) <= Total(Client, Until')
         /\ Total(Client, Owed') <= Total(Client, Owed) - o
         /\ Total(Client, Before(M)) \in Nat /\ Total(Client, Before(M)') \in Nat
         /\ Total(Client, Until) \in Nat /\ Total(Client, Until') \in Nat
         /\ Total(Client, Owed) \in Nat /\ Total(Client, Owed') \in Nat
  <1>1. \A x \in Client : Until[x] \in Nat /\ Until'[x] \in Nat /\ Owed'[x] \in Int /\ Owed[x] \in Nat
    <2>1. \A x \in Client : Need(x) \in Nat /\ Need(x)' \in Int
      BY UnitsAreNat, NeedsStayNat DEF IInv
    <2>2. \A x \in Client : Until[x] \in Nat /\ Until'[x] \in Nat
      BY DEF IInv, TypeOK, Until
    <2>3. \A x \in Client : Owed'[x] \in Int /\ Owed[x] \in Nat
      BY <2>1 DEF Owed
    <2> QED BY <2>2, <2>3
  <1>2. \A x \in Client : Earliest(x) \in Nat /\ Earliest(x)' \in Nat
    BY DEF IInv, TypeOK, Earliest
  <1>3. ASSUME NEW x \in Client
        PROVE  /\ Before(M)[x] <= Before(M)'[x] + (IF x = d THEN 0 ELSE 0)
               /\ Until[x] <= Until'[x] + (IF x = d THEN 0 ELSE 0)
               /\ Owed'[x] <= Owed[x] + (IF x = d THEN -o ELSE 0)
    <2>1. Before(M)[x] <= Before(M)'[x]
      BY <1>2 DEF Before
    <2>2. Before(M)'[x] \in Nat
      BY <1>2 DEF Before
    <2> QED BY <1>1, <2>1, <2>2
  <1>4. SumsMoveBy(M, M, d, 0, 0, -o)
    <2>1. d \in Client \/ (0 = 0 /\ 0 = 0 /\ -o = 0)
      OBVIOUS
    <2>2. 0 \in Int /\ -o \in Int
      OBVIOUS
    <2> QED BY <1>3, <2>1, <2>2 DEF SumsMoveBy
  <1> QED BY <1>4, SumsMove

LEMMA AccountedStep ==
  ASSUME IInv, [Next]_vars, NEW M, Accounted(M)
  PROVE  \E M2 : Accounted(M2)'
  <1>0. IInv'
    BY StepInv
  <1>1. /\ Capacity \in Nat /\ clock \in Nat /\ last \in Nat /\ tokens \in Nat
        /\ atOnce \in Nat /\ granted \in Nat /\ \A c \in Client : Need(c) \in Nat
        /\ \A c \in Client : now[c] \in Nat /\ wakeAt[c] \in Nat /\ now[c] <= clock
    BY UnitsAreNat DEF IInv, TypeOK, ClocksAgree
  <1>2. /\ M \in Nat /\ last <= M /\ M <= clock
        /\ atOnce + tokens + M <= Capacity + last + Total(Client, Before(M))
        /\ granted + tokens + M + Total(Client, Owed)
             <= Capacity + last + Total(Client, Before(M)) + Total(Client, Until)
    BY DEF Accounted
  <1>3. Capacity' = Capacity
    BY DEF Capacity
  <1>4. CASE Tick
    <2>1. /\ clock' = clock + 1 /\ pc' = pc /\ now' = now /\ wakeAt' = wakeAt /\ ask' = ask
          /\ UNCHANGED <<tokens, last, atOnce, granted>>
      BY <1>4 DEF Tick
    <2>2. \A x \in Client : Need(x)' = Need(x)
      BY <2>1 DEF Need
    <2>3. \A x \in Client : Earliest(x) <= Earliest(x)' /\ Until[x] <= Until'[x]
      BY <1>1, <2>1 DEF Earliest, Until
    <2>4. \A x \in Client : Owed'[x] <= Owed[x] - (IF x = M THEN 0 ELSE 0)
      BY <1>1, <2>1, <2>2 DEF Owed
    <2>5. /\ Total(Client, Before(M)) <= Total(Client, Before(M)')
          /\ Total(Client, Until) <= Total(Client, Until')
          /\ Total(Client, Owed') <= Total(Client, Owed) - 0
          /\ Total(Client, Before(M)) \in Nat /\ Total(Client, Before(M)') \in Nat
          /\ Total(Client, Until) \in Nat /\ Total(Client, Until') \in Nat
          /\ Total(Client, Owed) \in Nat /\ Total(Client, Owed') \in Nat
      BY <1>0, <1>2, <2>3, <2>4, OthersMove
    <2>6. Accounted(M)'
      BY <1>1, <1>2, <1>3, <2>1, <2>5 DEF Accounted
    <2> QED BY <2>6

  <1>5. ASSUME NEW c \in Client, CallWait(c) PROVE \E M2 : Accounted(M2)'
    <2>1. /\ pc[c] = "idle" /\ pc' = [pc EXCEPT ![c] = "reserve"]
          /\ now' = [now EXCEPT ![c] = clock] /\ wakeAt' = wakeAt
          /\ \A x \in Client \ {c} : ask'[x] = ask[x]
          /\ UNCHANGED <<clock, tokens, last, atOnce, granted>>
      BY <1>5 DEF CallWait, IInv, TypeOK
    <2>2. /\ pc'[c] = "reserve" /\ now'[c] = clock
          /\ \A x \in Client \ {c} : pc'[x] = pc[x] /\ now'[x] = now[x]
      BY <2>1 DEF IInv, TypeOK
    <2>3. \A x \in Client \ {c} : Need(x)' = Need(x)
      BY <2>1 DEF Need
    <2>4. \A x \in Client : Earliest(x) <= Earliest(x)'
      BY <1>1, <2>1, <2>2 DEF Earliest
    <2>5. \A x \in Client : Until[x] <= Until'[x]
      BY <1>1, <2>1, <2>2 DEF Until
    <2>6. \A x \in Client : Owed'[x] <= Owed[x] - (IF x = M THEN 0 ELSE 0)
      BY <1>1, <2>1, <2>2, <2>3 DEF Owed
    <2>7. /\ Total(Client, Before(M)) <= Total(Client, Before(M)')
          /\ Total(Client, Until) <= Total(Client, Until')
          /\ Total(Client, Owed') <= Total(Client, Owed) - 0
          /\ Total(Client, Before(M)) \in Nat /\ Total(Client, Before(M)') \in Nat
          /\ Total(Client, Until) \in Nat /\ Total(Client, Until') \in Nat
          /\ Total(Client, Owed) \in Nat /\ Total(Client, Owed') \in Nat
      BY <1>0, <1>2, <2>4, <2>5, <2>6, OthersMove
    <2>8. Accounted(M)'
      BY <1>1, <1>2, <1>3, <2>1, <2>7 DEF Accounted
    <2> QED BY <2>8
  <1>6. ASSUME NEW c \in Client, Wake(c) PROVE \E M2 : Accounted(M2)'
    <2>1. PICK need : need = Need(c)
      OBVIOUS
    <2>2. /\ pc[c] = "sleep" /\ clock >= wakeAt[c] /\ pc'[c] = "idle"
          /\ \A x \in Client \ {c} : /\ pc'[x] = pc[x] /\ now'[x] = now[x]
                                   /\ wakeAt'[x] = wakeAt[x] /\ ask'[x] = ask[x]
          /\ granted' = granted + need /\ UNCHANGED <<clock, tokens, last, atOnce>>
      BY <1>6, <2>1 DEF Wake, LetThrough, Need, IInv, TypeOK
    <2>3. \A x \in Client \ {c} : Need(x)' = Need(x)
      BY <2>2 DEF Need
    <2>4. \A x \in Client : Earliest(x) <= Earliest(x)'
      BY <1>1, <2>2 DEF Earliest
    <2>5. \A x \in Client : Until[x] <= Until'[x]
      BY <1>1, <2>2 DEF Until
    <2>6. \A x \in Client : Owed'[x] <= Owed[x] - (IF x = c THEN need ELSE 0)
      BY <1>1, <2>1, <2>2, <2>3 DEF Owed
    <2>7. need \in Nat
      BY <1>1, <2>1
    <2>8. /\ Total(Client, Before(M)) <= Total(Client, Before(M)')
          /\ Total(Client, Until) <= Total(Client, Until')
          /\ Total(Client, Owed') <= Total(Client, Owed) - need
          /\ Total(Client, Before(M)) \in Nat /\ Total(Client, Before(M)') \in Nat
          /\ Total(Client, Until) \in Nat /\ Total(Client, Until') \in Nat
          /\ Total(Client, Owed) \in Nat /\ Total(Client, Owed') \in Nat
      BY <1>0, <1>2, <2>4, <2>5, <2>6, <2>7, OthersMove
    <2>9. Accounted(M)'
      BY <1>1, <1>2, <1>3, <2>2, <2>7, <2>8 DEF Accounted
    <2> QED BY <2>9
  <1>7. ASSUME NEW c \in Client, GrantAtOnce(c) \/ MustWait(c) PROVE \E M2 : Accounted(M2)'
    <2>1. PICK t, filled, need : t = now[c] /\ filled = Refilled(now[c]) /\ need = Need(c)
      OBVIOUS
    <2>2. /\ t \in 0 .. MaxClock /\ t <= clock /\ filled \in Nat /\ need \in Nat
          /\ filled <= tokens + (IF t < last THEN 0 ELSE t - last)
      <3>1. now[c] \in 0 .. MaxClock
        BY DEF IInv, TypeOK
      <3>2. /\ Refilled(now[c]) \in 0 .. Capacity
            /\ Refilled(now[c]) <= tokens + (IF now[c] < last THEN 0 ELSE now[c] - last)
        BY <3>1, RefilledBounds DEF IInv
      <3> QED BY <1>1, <2>1, <3>1, <3>2
    <2>3. /\ pc[c] = "reserve" /\ clock' = clock /\ last' = t
          /\ \A x \in Client \ {c} : /\ pc'[x] = pc[x] /\ now'[x] = now[x]
                                   /\ wakeAt'[x] = wakeAt[x] /\ ask'[x] = ask[x]
      BY <1>7, <2>1 DEF GrantAtOnce, MustWait, LetThrough, IInv, TypeOK
    <2>4. PICK wake, debt :
            /\ wake \in Nat /\ debt \in Nat
            /\ \/ pc'[c] = "idle" /\ wake = clock /\ debt = 0
               \/ pc'[c] = "sleep" /\ wakeAt'[c] = wake /\ Need(c)' = debt
            /\ \/ /\ wake = clock /\ debt = 0 /\ tokens' = filled - need
                  /\ atOnce' = atOnce + need /\ granted' = granted + need
               \/ /\ wake = clock + need - filled /\ debt = need /\ tokens' = 0
                  /\ atOnce' = atOnce /\ granted' = granted
      <3>1. CASE GrantAtOnce(c)
        <4>1. /\ pc'[c] = "idle" /\ tokens' = filled - need
              /\ atOnce' = atOnce + need /\ granted' = granted + need
          BY <2>1, <3>1 DEF GrantAtOnce, LetThrough, Need, IInv, TypeOK
        <4> QED BY <1>1, <4>1
      <3>2. CASE MustWait(c)
        <4>1. /\ pc'[c] = "sleep" /\ tokens' = 0 /\ atOnce' = atOnce /\ granted' = granted
              /\ wakeAt'[c] = clock + need - filled /\ Need(c)' = need /\ filled < need
          BY <2>1, <3>2 DEF MustWait, Need, IInv, TypeOK
        <4>2. clock + need - filled \in Nat
          BY <1>1, <2>2, <4>1
        <4> QED BY <2>2, <4>1, <4>2
      <3> QED BY <1>7, <3>1, <3>2
    <2>5. ask' \in [Client -> Nat]
      BY <1>0, NeedsStayNat DEF IInv
    <2>6. PICK M2 : M2 = Later(M, t)
      OBVIOUS
    <2>7. /\ Total(Client, Before(M)) + (M2 - Sooner(M, t)) <= Total(Client, Before(M2)')
          /\ Total(Client, Until) + (wake - t) <= Total(Client, Until')
          /\ Total(Client, Owed') <= Total(Client, Owed) + debt
          /\ Total(Client, Before(M)) \in Nat /\ Total(Client, Before(M2)') \in Nat
          /\ Total(Client, Until) \in Nat /\ Total(Client, Until') \in Nat
          /\ Total(Client, Owed) \in Nat /\ Total(Client, Owed') \in Nat
      BY <1>0, <1>2, <2>1, <2>3, <2>4, <2>5, <2>6, ReservationMoves
    <2>8. M2 \in Nat /\ t <= M2 /\ M2 <= clock /\ Sooner(M, t) \in Nat
      BY <1>1, <1>2, <2>2, <2>6 DEF Later, Sooner
    <2>9. filled + M2 + last <= tokens + t + M + (M2 - Sooner(M, t))
      <3>1. CASE t > M
        BY <1>1, <1>2, <2>2, <2>6, <3>1 DEF Later, Sooner
      <3>2. CASE ~(t > M)
        BY <1>1, <1>2, <2>2, <2>6, <3>2 DEF Later, Sooner
      <3> QED BY <3>1, <3>2
    <2>10. /\ atOnce' + tokens' + M2 <= Capacity + t + Total(Client, Before(M2)')
           /\ granted' + tokens' + M2 + Total(Client, Owed')
                <= Capacity + t + Total(Client, Before(M2)') + Total(Client, Until')
      BY <1>1, <1>2, <2>2, <2>4, <2>7, <2>8, <2>9
    <2>11. Accounted(M2)'
      BY <1>3, <2>3, <2>8, <2>10 DEF Accounted
    <2> QED BY <2>11
  <1>8. CASE UNCHANGED vars
    <2>1. Accounted(M)'
      BY <1>3, <1>8 DEF vars, Accounted, Before, Until, Owed, Earliest, Need
    <2> QED BY <2>1
  <1> QED BY <1>4, <1>5, <1>6, <1>7, <1>8 DEF Next, Call, BoundReached

LEMMA AccountedIsBounded == ASSUME IInv, NEW M, Accounted(M) PROVE ThroughputBound
  <1>1. /\ Capacity \in Nat /\ clock \in Nat /\ last \in Nat /\ tokens \in Nat
        /\ atOnce \in Nat /\ granted \in Nat /\ Cardinality(Client) \in Nat
    BY UnitsAreNat, FS_CardinalityType, ClientAssumption DEF IInv, TypeOK
  <1>2. /\ M \in Nat /\ last <= M /\ M <= clock
        /\ atOnce + tokens + M <= Capacity + last + Total(Client, Before(M))
        /\ granted + tokens + M + Total(Client, Owed)
             <= Capacity + last + Total(Client, Before(M)) + Total(Client, Until)
    BY DEF Accounted
  <1>3. /\ Before(M) \in [Client -> Nat] /\ Until \in [Client -> Nat] /\ Owed \in [Client -> Nat]
    BY <1>2, FunctionsOfClients DEF IInv
  <1>4. /\ Total(Client, Before(M)) \in Nat /\ Total(Client, Until) \in Nat
        /\ Total(Client, Owed) \in Nat
    BY <1>3, SumsAre, ClientAssumption
  <1>5. \A c \in Client : Before(M)[c] <= clock
    BY <1>1, <1>2 DEF Before, Earliest, IInv, ClocksAgree
  <1>6. \A c \in Client : Until[c] <= Owed[c] + clock
    <2> SUFFICES ASSUME NEW c \in Client PROVE Until[c] <= Owed[c] + clock
      OBVIOUS
    <2>1. Need(c) \in Nat /\ now[c] <= clock /\ now[c] \in Nat /\ wakeAt[c] \in Nat
      BY UnitsAreNat DEF IInv, TypeOK, ClocksAgree
    <2>2. pc[c] = "sleep" => wakeAt[c] <= clock + Need(c)
      BY DEF IInv, ClocksAgree, WaitIsBounded, Need
    <2>3. pc[c] \in {"idle", "reserve", "sleep"}
      BY DEF IInv, TypeOK
    <2> QED BY <1>1, <2>1, <2>2, <2>3 DEF Until, Owed
  <1>7. PICK each : each = Cardinality(Client) * clock
    OBVIOUS
  <1>8. each \in Nat /\ 2 * Cardinality(Client) * clock = each + each
    <2>1. \A m, n \in Nat : m * n \in Nat /\ 2 * m * n = m * n + m * n
      OBVIOUS
    <2> QED BY <1>1, <1>7, <2>1
  <1>9. Total(Client, Before(M)) <= each
    BY <1>1, <1>3, <1>5, <1>7, TotalWithin, ClientAssumption
  <1>10. Total(Client, Until) <= Total(Client, Owed) + each
    BY <1>1, <1>3, <1>6, <1>7, TotalExceeds, ClientAssumption
  <1>11. atOnce <= Capacity + each /\ granted <= Capacity + (each + each)
    BY <1>1, <1>2, <1>4, <1>8, <1>9, <1>10
  <1> QED BY <1>7, <1>8, <1>11 DEF ThroughputBound

(* However many clients share the bucket and however late they come with   *)
(* the time they read, it grants at once no more than the burst and every  *)
(* tick once for each client, and lets through no more than twice that.    *)
THEOREM ThroughputIsBounded == Spec => []ThroughputBound
  <1>1. Init => IInv /\ \E M : Accounted(M)
    BY InitInv, BucketStarts
  <1>2. (IInv /\ \E M : Accounted(M)) /\ [Next]_vars => (IInv /\ \E M : Accounted(M))'
    BY StepInv, AccountedStep
  <1>3. IInv /\ (\E M : Accounted(M)) => ThroughputBound
    BY AccountedIsBounded
  <1> QED BY <1>1, <1>2, <1>3, PTL DEF Spec

(* So it is when the bucket is one of the things that run alone.           *)
THEOREM BucketIsFair == SequentialSpec => [](TypeOK /\ WaitIsBounded /\ ThroughputBound)
  <1>1. SequentialInit => IInv /\ \E M : Accounted(M)
    BY InitInv, BucketStarts DEF SequentialInit
  <1>2. /\ IInv /\ \E M : Accounted(M)
        /\ [SequentialNext]_<<gcVars, listVars, todoVars, vars, deferVars, input>>
        => (IInv /\ \E M : Accounted(M))'
    <2>1. [SequentialNext]_<<gcVars, listVars, todoVars, vars, deferVars, input>> => [Next]_vars
      BY DEF SequentialNext
    <2> QED BY <2>1, StepInv, AccountedStep
  <1>3. IInv /\ (\E M : Accounted(M)) => TypeOK /\ WaitIsBounded /\ ThroughputBound
    BY AccountedIsBounded DEF IInv, ClocksAgree
  <1> QED BY <1>1, <1>2, <1>3, PTL DEF SequentialSpec

-----------------------------------------------------------------------------
(* The formulas, on every input and not the small ones only.               *)

(* What relation says of two clocks, without the order of its cases.       *)
LEMMA Relations ==
  ASSUME NEW a \in Nat \X Nat, NEW b \in Nat \X Nat
  PROVE  /\ relation(a, b) = "before" <=> lessOrEqual(a, b) /\ ~lessOrEqual(b, a)
         /\ relation(a, b) = "after" <=> lessOrEqual(b, a) /\ ~lessOrEqual(a, b)
         /\ relation(a, b) = "concurrent" <=> ~lessOrEqual(a, b) /\ ~lessOrEqual(b, a)
  BY DEF relation

(* Any two vector clocks are in one of the four relations of adv010, which *)
(* is the order of causes: before is transitive and the converse of after, *)
(* and concurrent is that each is ahead of the other somewhere.            *)
THEOREM AnyClocksOrder == \A a, b, c \in Nat \X Nat : ClocksOrder(a, b, c)
  <1> SUFFICES ASSUME NEW a \in Nat \X Nat, NEW b \in Nat \X Nat, NEW c \in Nat \X Nat
               PROVE  ClocksOrder(a, b, c)
    OBVIOUS
  <1>1. relation(a, b) = "before" => relation(b, a) = "after"
    BY Relations
  <1>2. relation(a, b) = "concurrent" <=> \E i, j \in 1 .. 2 : a[i] < b[i] /\ b[j] < a[j]
    <2>1. /\ a[1] \in Nat /\ a[2] \in Nat /\ b[1] \in Nat /\ b[2] \in Nat
          /\ 1 .. 2 = {1, 2}
      OBVIOUS
    <2>2. ~lessOrEqual(a, b) /\ ~lessOrEqual(b, a)
             <=> (a[1] < b[1] /\ b[2] < a[2]) \/ (a[2] < b[2] /\ b[1] < a[1])
      BY <2>1 DEF lessOrEqual
    <2>3. (\E i, j \in 1 .. 2 : a[i] < b[i] /\ b[j] < a[j])
             <=> (a[1] < b[1] /\ b[2] < a[2]) \/ (a[2] < b[2] /\ b[1] < a[1])
      <3>1. \A x, y \in Nat : ~(x < y /\ y < x)
        OBVIOUS
      <3> QED BY <2>1, <3>1
    <2> QED BY <2>2, <2>3, Relations
  <1>3. {relation(a, b), relation(b, c)} \subseteq {"before"} => relation(a, c) = "before"
    <2>1. lessOrEqual(a, b) /\ lessOrEqual(b, c) => lessOrEqual(a, c)
      BY DEF lessOrEqual
    <2>2. lessOrEqual(a, b) /\ lessOrEqual(c, a) => lessOrEqual(c, b)
      BY DEF lessOrEqual
    <2> QED BY <2>1, <2>2, Relations
  <1>4. relation(<<1, 0>>, <<0, 1>>) = "concurrent" /\ relation(<<1, 0>>, <<2, 3>>) = "before"
    <2>1. <<1, 0>> \in Nat \X Nat /\ <<0, 1>> \in Nat \X Nat /\ <<2, 3>> \in Nat \X Nat
      OBVIOUS
    <2>2. /\ ~lessOrEqual(<<1, 0>>, <<0, 1>>) /\ ~lessOrEqual(<<0, 1>>, <<1, 0>>)
          /\ lessOrEqual(<<1, 0>>, <<2, 3>>) /\ ~lessOrEqual(<<2, 3>>, <<1, 0>>)
      BY DEF lessOrEqual
    <2> QED BY <2>1, <2>2, Relations
  <1> QED BY <1>1, <1>2, <1>3, <1>4 DEF ClocksOrder

(* The state word of a sync.Mutex is what readMutexState of adv011 takes   *)
(* it apart into, whatever the number of waiters.                          *)
THEOREM AnyWordIsItsParts == \A s \in Nat : WordIsItsParts(s)
  <1> SUFFICES ASSUME NEW s \in Nat PROVE WordIsItsParts(s)
    OBVIOUS
  <1>1. s = (s % 2) + 2 * ((s \div 2) % 2) + 4 * ((s \div 4) % 2) + 8 * (s \div 8)
    OBVIOUS
  <1> QED BY <1>1 DEF WordIsItsParts, readMutexState

(* A quotient is rounded down.                                            *)
LEMMA Quotient ==
  \A q \in Int, p \in Nat \ {0} : /\ q \div p \in Int /\ p * (q \div p) <= q
                                  /\ q < p * (q \div p) + p
OBVIOUS

(* The rounded-up quotient: the least number of Ps that covers the quota.  *)
LEMMA RoundedUp ==
  ASSUME NEW q \in Nat \ {0}, NEW p \in Nat \ {0}, NEW x, x = (q + p - 1) \div p
  PROVE  x \in Nat /\ x >= 1 /\ q <= x * p /\ x * p < q + p
  <1> DEFINE n == q + p - 1
  <1>1. n \in Nat /\ n >= p
    OBVIOUS
  <1> HIDE DEF n
  <1>2. x \in Int /\ p * x <= n /\ n < p * x + p
    BY <1>1, Quotient DEF n
  <1>3. PICK y : y = p * x
    OBVIOUS
  <1>4. x * p = y /\ y \in Int
    BY <1>2, <1>3
  <1>5. x >= 1
    <2> SUFFICES ASSUME x <= 0 PROVE FALSE
      BY <1>2
    <2>1. \A a \in Nat, b \in Int : b <= 0 => a * b <= 0
      OBVIOUS
    <2>2. y <= 0
      BY <1>2, <1>3, <2>1
    <2> QED BY <1>1, <1>2, <1>3, <1>4, <2>2
  <1> QED BY <1>1, <1>2, <1>3, <1>4, <1>5 DEF n

(* What detectContainerCPULimit returns: a float64, or an error.           *)
IsLimit(limit) == limit = Error \/ \E q \in Int, p \in Nat : limit = <<q, p>>

LEMMA FloatsAreFractions ==
  ASSUME NEW text, ParseFloat(text) # Error
  PROVE  \E n \in Int, d \in Nat :
            /\ ParseFloat(text) = <<n, d>>
            /\ d = 0 => text \in Special
            /\ n = 0 /\ d = 0 => text = <<0, 0>>
  <1>1. CASE text \in Float
    <2>1. ParseFloat(text) = text
      BY <1>1 DEF ParseFloat
    <2>2. CASE text \in Special
      BY <2>1, <2>2 DEF Special
    <2>3. CASE text \in Int \X (Nat \ {0})
      BY <2>1, <2>3
    <2> QED BY <1>1, <2>2, <2>3 DEF Float
  <1>2. CASE text \notin Float
    <2>1. ParseFloat(text) = <<-1, 1>>
      BY <1>2 DEF ParseFloat
    <2> QED BY <2>1
  <1> QED BY <1>1, <1>2

(* A quotient of two texts is a float64, and finite when both of them are. *)
LEMMA RatiosAreLimits ==
  ASSUME NEW quota, NEW period
  PROVE  /\ IsLimit(ratio(quota, period))
         /\ ratio(quota, period) # Error /\ ratio(quota, period)[2] = 0 =>
              quota \in Special \/ period \in Special
  <1> DEFINE q == ParseFloat(quota)
             p == ParseFloat(period)
  <1>1. CASE q = Error \/ p = Error
    BY <1>1 DEF ratio, IsLimit
  <1>2. CASE q # Error /\ p # Error
    <2>1. PICK a \in Int, b \in Nat : q = <<a, b>> /\ (b = 0 => quota \in Special)
      BY <1>2, FloatsAreFractions
    <2>2. PICK c \in Int, d \in Nat :
            /\ p = <<c, d>>
            /\ d = 0 => period \in Special
      BY <1>2, FloatsAreFractions
    <2>3. CASE AtMostZero(p)
      BY <1>2, <2>3 DEF ratio, IsLimit
    <2>4. CASE ~AtMostZero(p)
      <3>1. ratio(quota, period) = <<a * d, b * c>>
        BY <1>2, <2>1, <2>2, <2>4 DEF ratio
      <3>2. c > 0 \/ (c = 0 /\ d = 0)
        BY <2>2, <2>4 DEF AtMostZero, NaN
      <3>3. \A x \in Int, y \in Nat : x * y \in Int
        OBVIOUS
      <3>4. \A x, y \in Nat : x * y \in Nat /\ (x * y = 0 => x = 0 \/ y = 0)
        OBVIOUS
      <3>5. c \in Nat /\ a * d \in Int /\ b * c \in Nat
        BY <3>2, <3>3, <3>4
      <3>6. b * c = 0 => quota \in Special \/ period \in Special
        BY <2>1, <2>2, <3>2, <3>4, <3>5
      <3> HIDE DEF q, p
      <3>7. ratio(quota, period)[2] = b * c
        BY <3>1
      <3> QED BY <3>1, <3>5, <3>6, <3>7 DEF IsLimit
    <2> QED BY <2>3, <2>4
  <1> QED BY <1>1, <1>2

LEMMA FilesAreLimits ==
  ASSUME NEW v2, NEW quota, NEW period,
         NEW limit, limit = detectContainerCPULimit(v2, quota, period),
         NEW file, file = IF v2 # Missing THEN v2 ELSE <<quota[1], period[1]>>
  PROVE  /\ IsLimit(limit)
         /\ limit # Error /\ limit[2] = 0 => file[1] \in Special \/ file[2] \in Special
  <1>1. IsLimit(Error) /\ IsLimit(NoCPULimit) /\ NoCPULimit[2] = 1
    BY DEF IsLimit, NoCPULimit
  <1>2. CASE v2 # Missing
    <2>1. limit \in {Error, NoCPULimit, ratio(v2[1], v2[2])}
      BY <1>2 DEF detectContainerCPULimit, parseCPUmaxV2
    <2> QED BY <1>1, <1>2, <2>1, RatiosAreLimits
  <1>3. CASE v2 = Missing
    <2>1. limit \in {Error, NoCPULimit, ratio(quota[1], period[1])}
      BY <1>3 DEF detectContainerCPULimit, parseCPUquotaV1
    <2>2. file[1] = quota[1] /\ file[2] = period[1]
      BY <1>3
    <2> QED BY <1>1, <2>1, <2>2, RatiosAreLimits
  <1> QED BY <1>2, <1>3

(* Whatever limit the container has, as many numbers of any size, the Ps   *)
(* that adv007 recommends are the fewest that can use it, and at least one;*)
(* no promise is made for Inf, for NaN and past MaxInt.                    *)
THEOREM ProcsCoverAnyLimit ==
  \A limit : \A cores \in Nat \ {0} :
    IsLimit(limit) =>
      LET main == mainLimit(limit, cores)
          procs == recommendedGOMAXPROCS(main, cores)
      IN /\ IF main[2] # 0 /\ main[1] <= MaxInt * main[2]
            THEN /\ procs >= 1
                 /\ main[1] <= procs * main[2] /\ procs * main[2] < main[1] + main[2]
            ELSE procs = Unspecified
         /\ main[2] = 0 => main = limit
         /\ limit # Error => AtMostZero(limit) \/ main = limit
  <1> SUFFICES ASSUME NEW limit, NEW cores \in Nat \ {0}, IsLimit(limit),
                      NEW main, main = mainLimit(limit, cores),
                      NEW procs, procs = recommendedGOMAXPROCS(main, cores)
               PROVE  /\ IF main[2] # 0 /\ main[1] <= MaxInt * main[2]
                         THEN /\ procs >= 1
                              /\ main[1] <= procs * main[2] /\ procs * main[2] < main[1] + main[2]
                         ELSE procs = Unspecified
                      /\ main[2] = 0 => main = limit
                      /\ limit # Error => AtMostZero(limit) \/ main = limit
    OBVIOUS
  <1>1. PICK n \in Nat \ {0} : n = Max({1, Min({2, cores - 1})})
    BY MaxOfTwo, MinOfTwo
  <1>2. \/ main = <<n, 1>> /\ (limit # Error => AtMostZero(limit))
        \/ main = limit /\ limit # Error /\ ~AtMostZero(limit)
    BY <1>1 DEF mainLimit
  <1>3. PICK q \in Int, p \in Nat : main = <<q, p>> /\ (q > 0 \/ (q = 0 /\ p = 0))
    <2>1. CASE main = <<n, 1>>
      BY <2>1
    <2>2. CASE main = limit /\ limit # Error /\ ~AtMostZero(limit)
      <3>1. PICK q \in Int, p \in Nat : limit = <<q, p>>
        BY <2>2 DEF IsLimit
      <3>2. q > 0 \/ (q = 0 /\ p = 0)
        BY <2>2, <3>1 DEF AtMostZero, NaN
      <3> QED BY <2>2, <3>1, <3>2
    <2> QED BY <1>2, <2>1, <2>2
  <1>4. ~AtMostZero(main)
    BY <1>3 DEF AtMostZero, NaN
  <1>5. CASE p # 0 /\ q <= MaxInt * p
    <2>1. procs = (q + p - 1) \div p
      <3>1. ~(main[2] = 0 \/ main[1] > MaxInt * main[2])
        <4>1. PICK m : m = MaxInt * p
          OBVIOUS
        <4>2. m \in Int
          <5>1. \A x, y \in Nat : x * y \in Nat
            OBVIOUS
          <5> QED BY <4>1, <5>1, MaxIntAssumption
        <4> QED BY <1>3, <1>5, <4>1, <4>2
      <3> QED BY <1>3, <1>4, <3>1 DEF recommendedGOMAXPROCS
    <2>2. procs >= 1 /\ q <= procs * p /\ procs * p < q + p
      BY <1>3, <1>5, <2>1, RoundedUp
    <2> QED BY <1>2, <1>3, <1>5, <2>2
  <1>6. CASE ~(p # 0 /\ q <= MaxInt * p)
    <2>1. main[2] = 0 \/ main[1] > MaxInt * main[2]
      <3>1. \A x, y \in Nat : x * y \in Nat
        OBVIOUS
      <3>2. PICK m : m = MaxInt * p
        OBVIOUS
      <3>3. m \in Nat
        BY <3>1, <3>2, MaxIntAssumption
      <3> QED BY <1>3, <1>6, <3>2, <3>3
    <2>2. procs = Unspecified
      BY <1>4, <2>1 DEF recommendedGOMAXPROCS
    <2>3. ~(main[2] # 0 /\ main[1] <= MaxInt * main[2])
      BY <1>3, <1>6
    <2>4. main[2] = 0 => main = limit
      BY <1>2
    <2> QED BY <1>2, <2>2, <2>3, <2>4
  <1> QED BY <1>5, <1>6

(* So it is whatever the files of the two cgroup versions say, any number  *)
(* and any text that is none: only Inf, NaN or more CPUs than MaxInt are   *)
(* past what the program can promise, and v1 is not looked at when there   *)
(* is a v2 file.                                                           *)
THEOREM AnyQuotaIsCovered ==
  \A v2, quota, period : \A cores \in Nat \ {0} : ProcsCoverTheQuota(v2, quota, period, cores)
  <1> SUFFICES ASSUME NEW v2, NEW quota, NEW period, NEW cores \in Nat \ {0}
               PROVE  ProcsCoverTheQuota(v2, quota, period, cores)
    OBVIOUS
  <1>1. PICK limit : limit = detectContainerCPULimit(v2, quota, period)
    OBVIOUS
  <1>2. PICK file : file = IF v2 # Missing THEN v2 ELSE <<quota[1], period[1]>>
    OBVIOUS
  <1>3. v2 # Missing => limit = detectContainerCPULimit(v2, Missing, Missing)
    BY <1>1 DEF detectContainerCPULimit
  <1>4. IsLimit(limit)
    BY <1>1, <1>2, FilesAreLimits
  <1>5. limit # Error /\ limit[2] = 0 => file[1] \in Special \/ file[2] \in Special
    BY <1>1, <1>2, FilesAreLimits
  <1> DEFINE main == mainLimit(limit, cores)
             procs == recommendedGOMAXPROCS(main, cores)
  <1>6. /\ IF main[2] # 0 /\ main[1] <= MaxInt * main[2]
           THEN /\ procs >= 1
                /\ main[1] <= procs * main[2] /\ procs * main[2] < main[1] + main[2]
           ELSE procs = Unspecified
        /\ main[2] = 0 => main = limit
        /\ limit # Error => AtMostZero(limit) \/ main = limit
    BY <1>4, ProcsCoverAnyLimit
  <1>7. main[2] = 0 => limit # Error
    <2>1. limit = Error => main[2] = 1
      BY DEF mainLimit
    <2> QED BY <2>1
  <1>8. main[2] = 0 => file[1] \in Special \/ file[2] \in Special
    BY <1>5, <1>6, <1>7
  <1> HIDE DEF main, procs
  <1> QED BY <1>1, <1>2, <1>3, <1>6, <1>8 DEF ProcsCoverTheQuota, main, procs

-----------------------------------------------------------------------------
(* The heap goals, in words that do not wrap.                              *)

LEMMA GoalOfPercent ==
  ASSUME NEW live \in 0 .. MaxUint, NEW pct \in Nat,
         live * pct < Word, live + (live * pct) \div 100 < Word
  PROVE  /\ (live * pct) \div 100 \in Nat
         /\ gcPercentHeapGoal(live, pct) = Max({4, live + (live * pct) \div 100})
         /\ 100 * (live + (live * pct) \div 100) <= 100 * live + live * pct
  <1>1. PICK p : p = live * pct
    OBVIOUS
  <1>2. p \in Nat
    <2>1. \A m, n \in Nat : m * n \in Nat
      OBVIOUS
    <2> QED BY <1>1, <2>1, Words
  <1>3. p \div 100 \in Nat /\ 100 * (p \div 100) <= p
    BY <1>2
  <1>4. Word \in Nat
    BY WordAssumption
  <1>5. p % Word = p /\ (live + p \div 100) % Word = live + p \div 100
    BY <1>1, <1>2, <1>3, <1>4, SmallRemainder
  <1>6. gcPercentHeapGoal(live, pct) = Max({live + p \div 100, 4})
    <2>1. ~(pct < 0)
      OBVIOUS
    <2>2. gcPercentHeapGoal(live, pct) = Max({(live + (p % Word) \div 100) % Word, 4})
      BY <1>1, <2>1, Zenon DEF gcPercentHeapGoal, minHeapGoal
    <2> QED BY <1>5, <2>2
  <1>7. {live + p \div 100, 4} = {4, live + p \div 100}
    OBVIOUS
  <1> QED BY <1>1, <1>2, <1>3, <1>6, <1>7

(* The goal of adv028 for any settings and any live heap: not below the    *)
(* live heap while the words do not wrap, the proportional goal or the one *)
(* of the limit, and over the limit only for the sake of the live heap.    *)
THEOREM AnyGoalFollowsTheSettings ==
  \A live \in 0 .. MaxUint, pct \in Int, limit \in Int : GoalsFollowTheSettings(live, pct, limit)
  <1> SUFFICES ASSUME NEW live \in 0 .. MaxUint, NEW pct \in Int, NEW limit \in Int
               PROVE  GoalsFollowTheSettings(live, pct, limit)
    OBVIOUS
  <1> DEFINE goal == effectiveHeapGoal(live, pct, limit)
             byPercent == gcPercentHeapGoal(live, pct)
             byLimit == memoryLimitHeapGoal(limit, live)
             bounded == limit > 0 /\ limit # NoLimit
             grownTo == live + (live * pct) \div 100
  <1>1. live \in Nat /\ live <= MaxUint /\ MaxUint \in Nat /\ MaxUint >= 4
    BY Words
  <1>2. /\ byLimit \in Int /\ byLimit >= live
        /\ ~bounded => byLimit = MaxUint
        /\ bounded /\ byLimit > limit => byLimit = live
    BY <1>1, Reduced, MaxOfTwo DEF memoryLimitHeapGoal
  <1>3. pct < 0 => byPercent = MaxUint
    BY DEF gcPercentHeapGoal
  <1>4. ASSUME live * pct < Word, grownTo < Word
        PROVE  /\ goal >= live
               /\ bounded /\ goal > limit => goal = live
               /\ pct >= 0 /\ ~bounded => goal = Max({4, grownTo})
               /\ pct < 0 /\ ~bounded => goal = MaxUint
               /\ pct >= 0 /\ bounded => 100 * goal <= Max({400, 100 * live + live * pct})
    <2>1. pct >= 0 => /\ grownTo \in Nat /\ grownTo >= live /\ grownTo <= MaxUint
                      /\ byPercent = Max({4, grownTo})
                      /\ 100 * grownTo <= 100 * live + live * pct
      BY <1>1, <1>4, GoalOfPercent, WordAssumption DEF MaxUint
    <2>2. PICK p : p = live * pct
      OBVIOUS
    <2>3. p \in Int
      BY <1>1, <2>2
    <2>4. PICK g : g = grownTo
      OBVIOUS
    <2>5. pct >= 0 => byPercent = IF 4 >= g THEN 4 ELSE g
      BY <2>1, <2>4, MaxOfTwo
    <2>6. Max({400, 100 * live + p}) = IF 400 >= 100 * live + p THEN 400 ELSE 100 * live + p
      BY <1>1, <2>3, MaxOfTwo
    <2>7. byPercent \in Int /\ byPercent >= live /\ byPercent <= MaxUint
      BY <1>1, <1>3, <2>1, <2>4, <2>5
    <2>8. goal = IF byPercent <= byLimit THEN byPercent ELSE byLimit
      BY <1>2, <2>7, MinOfTwo DEF effectiveHeapGoal
    <2>9. goal \in Int /\ goal >= live /\ goal <= byPercent /\ goal <= byLimit
      BY <1>1, <1>2, <2>7, <2>8
    <2> HIDE DEF goal, byPercent, byLimit, grownTo
    <2>10. bounded /\ goal > limit => goal = live
      BY <1>1, <1>2, <2>9
    <2>11. ~bounded => goal = byPercent
      BY <1>2, <2>7, <2>8
    <2>12. pct >= 0 /\ bounded => 100 * goal <= Max({400, 100 * live + p})
      <3> SUFFICES ASSUME pct >= 0 PROVE 100 * goal <= Max({400, 100 * live + p})
        OBVIOUS
      <3>1. g \in Nat /\ 100 * g <= 100 * live + p
        BY <2>1, <2>2, <2>4
      <3>2. 100 * goal <= 100 * byPercent
        BY <2>7, <2>9
      <3> QED BY <1>1, <2>3, <2>5, <2>6, <2>9, <3>1, <3>2
    <2> QED BY <1>3, <2>1, <2>2, <2>9, <2>10, <2>11, <2>12
  <1> HIDE DEF goal, bounded
  <1>5. live * pct < Word /\ grownTo < Word =>
          /\ goal >= live
          /\ bounded /\ goal > limit => goal = live
          /\ pct >= 0 /\ ~bounded => goal = Max({4, grownTo})
          /\ pct < 0 /\ ~bounded => goal = MaxUint
          /\ pct >= 0 /\ bounded => 100 * goal <= Max({400, 100 * live + live * pct})
    BY <1>4
  <1> QED BY <1>5 DEF GoalsFollowTheSettings, goal, bounded

(* The limit of adv028 for a container of any size and any reserve: it is  *)
(* never zero, leaves exactly the reserve, and passes the container only   *)
(* when the reserve takes all of one that is smaller than a MiB.           *)
THEOREM AnyContainerGetsALimit ==
  \A container, reserve \in Int : LimitFitsTheContainer(container, reserve)
  <1> SUFFICES ASSUME NEW container \in Int, NEW reserve \in Int
               PROVE  LimitFitsTheContainer(container, reserve)
    OBVIOUS
  <1>1. PICK r \in Nat : r = Max({reserve, 0}) /\ r = IF reserve >= 0 THEN reserve ELSE 0
    BY MaxOfTwo
  <1>2. recommendMemoryLimit(container, reserve) =
          IF container <= 0 THEN NoLimit ELSE IF reserve >= container THEN 4 ELSE container - r
    BY <1>1 DEF recommendMemoryLimit, mib
  <1> QED BY <1>1, <1>2 DEF LimitFitsTheContainer, mib

(* A set of numbers that is not empty has a least one.                     *)
LEMMA LeastNumber ==
  ASSUME NEW S \in SUBSET Nat, S # {}
  PROVE  \E n \in S : \A m \in S : n <= m
  <1>1. \E n \in S : \A m \in S : ~(<<m, n>> \in OpToRel(<, Nat))
    BY WFMin, NatLessThanWellFounded
  <1>2. \A m, n \in Nat : m < n => <<m, n>> \in OpToRel(<, Nat)
    BY DEF OpToRel
  <1>3. PICK n \in S : \A m \in S : ~(m < n)
    BY <1>1, <1>2
  <1>4. \A m \in S : n <= m
    BY <1>3
  <1> QED BY <1>4

(* The place of n in an ascending list: all before it are smaller.         *)
IsPlace(s, n, F) ==
  /\ F \in 1 .. Len(s) + 1
  /\ \A i \in 1 .. Len(s) : s[i] >= n <=> i >= F
SortedUp(s) == \A i, j \in 1 .. Len(s) : i <= j => s[i] <= s[j]

LEMMA PlaceExists ==
  ASSUME NEW s \in Seq(Int), NEW n \in Int, SortedUp(s)
  PROVE  \E F : IsPlace(s, n, F)
  <1> DEFINE S == {i \in 1 .. Len(s) : s[i] >= n}
  <1>1. CASE S = {}
    <2>1. IsPlace(s, n, Len(s) + 1)
      BY <1>1 DEF IsPlace
    <2> QED BY <2>1
  <1>2. CASE S # {}
    <2>1. PICK F \in S : \A m \in S : F <= m
      <3>1. S \in SUBSET Nat
        OBVIOUS
      <3> HIDE DEF S
      <3> QED BY <1>2, <3>1, LeastNumber
    <2>2. \A i \in 1 .. Len(s) : i >= F => s[i] >= n
      BY <2>1 DEF SortedUp
    <2>3. IsPlace(s, n, F)
      BY <2>1, <2>2 DEF IsPlace
    <2> QED BY <2>3
  <1> QED BY <1>1, <1>2

(* What the halving of lo .. hi leaves, and that it is the place of n, or  *)
(* the end of the interval that is next to it.                             *)
Halved(s, n, f, lo, hi) ==
  LET h == (lo + hi) \div 2
  IN IF lo >= hi THEN lo ELSE IF s[h] >= n THEN f[<<lo, h>>] ELSE f[<<h + 1, hi>>]
Halving(s, n, f) ==
  f = [r \in (1 .. Len(s) + 1) \X (1 .. Len(s) + 1) |-> Halved(s, n, f, r[1], r[2])]
Within(F, lo, hi) == IF lo >= hi \/ F < lo THEN lo ELSE IF F > hi THEN hi ELSE F

LEMMA Half ==
  ASSUME NEW L \in Nat, NEW lo \in 1 .. L + 1, NEW hi \in 1 .. L + 1, lo < hi
  PROVE  /\ (lo + hi) \div 2 \in 1 .. L
         /\ lo <= (lo + hi) \div 2 /\ (lo + hi) \div 2 < hi
  OBVIOUS

LEMMA WithinTheHalf ==
  ASSUME NEW s \in Seq(Int), NEW n \in Int, NEW F, IsPlace(s, n, F),
         NEW lo \in 1 .. Len(s) + 1, NEW hi \in 1 .. Len(s) + 1, lo < hi,
         NEW h, h = (lo + hi) \div 2
  PROVE  Within(F, lo, hi) = IF s[h] >= n THEN Within(F, lo, h) ELSE Within(F, h + 1, hi)
  <1>1. h \in 1 .. Len(s) /\ lo <= h /\ h < hi
    BY Half
  <1>2. s[h] >= n <=> h >= F
    BY <1>1 DEF IsPlace
  <1> QED BY <1>1, <1>2 DEF Within, IsPlace

LEMMA HalvingExists ==
  ASSUME NEW s \in Seq(Int), NEW n \in Int, SortedUp(s)
  PROVE  \E f : Halving(s, n, f)
  <1>1. PICK F : IsPlace(s, n, F)
    BY PlaceExists
  <1> DEFINE I == 1 .. Len(s) + 1
             f == [r \in I \X I |-> Within(F, r[1], r[2])]
  <1>2. ASSUME NEW lo \in I, NEW hi \in I PROVE Within(F, lo, hi) = Halved(s, n, f, lo, hi)
    <2>1. CASE lo >= hi
      BY <2>1 DEF Within, Halved
    <2>2. CASE lo < hi
      <3>1. PICK h : h = (lo + hi) \div 2
        OBVIOUS
      <3>2. h \in 1 .. Len(s) /\ h \in I /\ h + 1 \in I
        BY <2>2, <3>1, Half
      <3>3. Halved(s, n, f, lo, hi) = IF s[h] >= n THEN f[<<lo, h>>] ELSE f[<<h + 1, hi>>]
        BY <2>2, <3>1 DEF Halved
      <3>4. f[<<lo, h>>] = Within(F, lo, h) /\ f[<<h + 1, hi>>] = Within(F, h + 1, hi)
        BY <3>2
      <3> HIDE DEF f, I
      <3>5. Within(F, lo, hi) = IF s[h] >= n THEN Within(F, lo, h) ELSE Within(F, h + 1, hi)
        BY <1>1, <2>2, <3>1, WithinTheHalf DEF I
      <3> QED BY <3>3, <3>4, <3>5
    <2> QED BY <2>1, <2>2
  <1>3. f = [r \in I \X I |-> Halved(s, n, f, r[1], r[2])]
    <2> HIDE DEF f
    <2>1. \A r \in I \X I : Within(F, r[1], r[2]) = Halved(s, n, f, r[1], r[2])
      BY <1>2
    <2> QED BY <2>1 DEF f
  <1> QED BY <1>3 DEF Halving

LEMMA HalvingFindsThePlace ==
  ASSUME NEW s \in Seq(Int), NEW n \in Int, NEW F, IsPlace(s, n, F), NEW f, Halving(s, n, f)
  PROVE  f[<<1, Len(s) + 1>>] = F
  <1> DEFINE I == 1 .. Len(s) + 1
             N == {d \in Nat : \A lo, hi \in I : hi - lo <= d => f[<<lo, hi>>] = Within(F, lo, hi)}
  <1>0. \A lo, hi \in I : f[<<lo, hi>>] = Halved(s, n, f, lo, hi)
    <2> SUFFICES ASSUME NEW lo \in I, NEW hi \in I PROVE f[<<lo, hi>>] = Halved(s, n, f, lo, hi)
      OBVIOUS
    <2>1. <<lo, hi>> \in I \X I /\ <<lo, hi>>[1] = lo /\ <<lo, hi>>[2] = hi
      OBVIOUS
    <2> QED BY <2>1 DEF Halving
  <1>1. \A lo, hi \in I : lo >= hi => f[<<lo, hi>>] = lo
    BY <1>0 DEF Halved
  <1>2. \A lo, hi \in I : lo < hi =>
          f[<<lo, hi>>] = IF s[(lo + hi) \div 2] >= n THEN f[<<lo, (lo + hi) \div 2>>]
                      ELSE f[<<(lo + hi) \div 2 + 1, hi>>]
    BY <1>0 DEF Halved
  <1>3. 0 \in N
    <2>1. \A lo, hi \in I : hi - lo <= 0 => lo >= hi
      OBVIOUS
    <2> QED BY <1>1, <2>1 DEF Within
  <1>4. ASSUME NEW d \in N PROVE d + 1 \in N
    <2> SUFFICES ASSUME NEW lo \in I, NEW hi \in I, hi - lo <= d + 1
                 PROVE  f[<<lo, hi>>] = Within(F, lo, hi)
      OBVIOUS
    <2>1. CASE lo >= hi
      BY <1>1, <2>1 DEF Within
    <2>2. CASE lo < hi
      <3>1. PICK h : h = (lo + hi) \div 2
        OBVIOUS
      <3>2. h \in 1 .. Len(s) /\ lo <= h /\ h < hi
        BY <2>2, <3>1, Half
      <3>3. h \in I /\ h + 1 \in I /\ h - lo <= d /\ hi - (h + 1) <= d
        BY <3>2
      <3>4. f[<<lo, h>>] = Within(F, lo, h) /\ f[<<h + 1, hi>>] = Within(F, h + 1, hi)
        BY <3>3
      <3>5. f[<<lo, hi>>] = IF s[h] >= n THEN f[<<lo, h>>] ELSE f[<<h + 1, hi>>]
        BY <1>2, <2>2, <3>1
      <3>6. Within(F, lo, hi) = IF s[h] >= n THEN Within(F, lo, h) ELSE Within(F, h + 1, hi)
        BY <2>2, <3>1, WithinTheHalf
      <3> QED BY <3>4, <3>5, <3>6
    <2> QED BY <2>1, <2>2
  <1>5. Len(s) \in N
    <2>1. N \in SUBSET Nat /\ Len(s) \in Nat
      OBVIOUS
    <2> HIDE DEF N
    <2>2. N = Nat
      BY <1>3, <1>4, <2>1, FromZero
    <2> QED BY <2>1, <2>2
  <1>6. f[<<1, Len(s) + 1>>] = Within(F, 1, Len(s) + 1)
    BY <1>5
  <1>7. 1 >= Len(s) + 1 => F = 1
    BY DEF IsPlace
  <1> QED BY <1>6, <1>7 DEF Within, IsPlace

(* The binary search of adv026 over any list of size classes that does not *)
(* descend finds the smallest class that fits the request, and says so     *)
(* when there is none.                                                     *)
THEOREM SmallestClassFits ==
  \A sizes \in Seq(Int), n \in Int :
    (\A i, j \in 1 .. Len(sizes) : i <= j => sizes[i] <= sizes[j]) =>
      LET fit == {s \in ToSet(sizes) : s >= n}
      IN classFor(sizes, n) = IF fit = {} THEN <<0, FALSE>> ELSE <<Min(fit), TRUE>>
  <1> SUFFICES ASSUME NEW sizes \in Seq(Int), NEW n \in Int, SortedUp(sizes),
                      NEW fit, fit = {s \in ToSet(sizes) : s >= n}
               PROVE  classFor(sizes, n) = IF fit = {} THEN <<0, FALSE>> ELSE <<Min(fit), TRUE>>
    BY DEF SortedUp
  <1>1. PICK F : IsPlace(sizes, n, F)
    BY PlaceExists
  <1>2. search(sizes, n) = F
    <2> DEFINE f == CHOOSE f : Halving(sizes, n, f)
    <2>1. Halving(sizes, n, f)
      BY HalvingExists
    <2>2. f[<<1, Len(sizes) + 1>>] = F
      BY <1>1, <2>1, HalvingFindsThePlace
    <2>3. search(sizes, n) = f[<<1, Len(sizes) + 1>>]
      BY DEF search, Halving, Halved
    <2> QED BY <2>2, <2>3
  <1>3. fit = {sizes[i] : i \in F .. Len(sizes)}
    BY <1>1 DEF ToSet, IsPlace
  <1>4. CASE F = Len(sizes) + 1
    <2>1. Len(sizes) \in Nat /\ F .. Len(sizes) = {}
      BY <1>4
    <2>2. fit = {}
      BY <1>3, <2>1
    <2> QED BY <1>2, <1>4, <2>2 DEF classFor
  <1>5. CASE F # Len(sizes) + 1
    <2>1. F \in 1 .. Len(sizes)
      BY <1>1, <1>5 DEF IsPlace
    <2>2. /\ sizes[F] \in fit /\ sizes[F] \in Int
          /\ \A x \in fit : x \in Int /\ sizes[F] <= x
      BY <1>3, <2>1 DEF SortedUp
    <2>3. Min(fit) = sizes[F]
      <3>1. \A x \in fit : (\A y \in fit : x <= y) => x = sizes[F]
        BY <2>2
      <3> QED BY <2>2, <3>1 DEF Min
    <2> QED BY <1>2, <1>5, <2>2, <2>3 DEF classFor
  <1> QED BY <1>4, <1>5

-----------------------------------------------------------------------------
(* The functions that defer.                                               *)

Deferred == [do : Doing \cup {"close", "tell"}, x : Variable, v : Int]
FramesOf(T) == [code : T, pc : Nat \ {0}, defers : Seq(Deferred)]
(* Texts that are tidy, and call no others.                                *)
TidyTexts(T) ==
  \A c \in T : /\ TidyText(c)
               /\ \A i \in DOMAIN c : c[i].op = "func" => c[i].v \in T

(* The deferred closes of a stack, and the variable that is in debt.       *)
Pending(st, k, i) ==
  k \in DOMAIN st /\ i \in DOMAIN st[k].defers /\ st[k].defers[i].do = "close"
Held(st, k, i) == st[k].defers[i].v
Debt(st, k, x) == k \in DOMAIN st /\ InDebt(st[k].code, st[k].pc, x)

(* Whatever is open will be closed by one deferred call, or is about to    *)
(* have its own.                                                           *)
WillBeClosed ==
  /\ \A h \in DOMAIN closes : closes[h] <= 1
  /\ \A k, i \in Nat : Pending(stack, k, i) =>
       Held(stack, k, i) \in DOMAIN closes /\ closes[Held(stack, k, i)] = 0
  /\ \A k, i, l, j \in Nat :
       Pending(stack, k, i) /\ Pending(stack, l, j) /\ Held(stack, k, i) = Held(stack, l, j)
         => k = l /\ i = j
  /\ \A k \in Nat, x \in Variable : Debt(stack, k, x) =>
       /\ k = Len(stack)
       /\ values[x] \in DOMAIN closes /\ closes[values[x]] = 0
       /\ \A l, j \in Nat : Pending(stack, l, j) => Held(stack, l, j) # values[x]
  /\ ended # "exit" => \A h \in DOMAIN closes : closes[h] = 0 =>
       \/ \E k, i \in Nat : Pending(stack, k, i) /\ Held(stack, k, i) = h
       \/ \E x \in Variable : Debt(stack, Len(stack), x) /\ values[x] = h
DeferInv(T) ==
  /\ stack \in Seq(FramesOf(T)) /\ values \in [Variable -> Int] /\ closes \in Seq(Nat)
  /\ ended = "no" <=> stack # <<>>
  /\ WillBeClosed

-----------------------------------------------------------------------------
(* The top of a stack.                                                     *)

LEMMA Tops ==
  ASSUME NEW T, NEW st \in Seq(FramesOf(T)), st # <<>>
  PROVE  /\ Len(st) \in Nat \ {0} /\ DOMAIN st = 1 .. Len(st) /\ Len(st) \in DOMAIN st
         /\ Last(st) = st[Len(st)] /\ Last(st) \in FramesOf(T)
         /\ \A k \in DOMAIN st : st[k] \in FramesOf(T)
  BY DEF Last

(* The top frame goes to another place of its text.                        *)
AtPlace(st, p) == [st EXCEPT ![Len(st)].pc = p]
LEMMA TopMoves ==
  ASSUME NEW T, NEW st \in Seq(FramesOf(T)), st # <<>>, NEW p \in Nat \ {0},
         NEW st2, st2 = AtPlace(st, p)
  PROVE  /\ st2 \in Seq(FramesOf(T)) /\ st2 # <<>> /\ Len(st2) = Len(st)
         /\ \A k, i : Pending(st2, k, i) <=> Pending(st, k, i)
         /\ \A k, i : Pending(st, k, i) => Held(st2, k, i) = Held(st, k, i)
         /\ \A k, x : k # Len(st) => (Debt(st2, k, x) <=> Debt(st, k, x))
         /\ \A x : Debt(st2, Len(st), x) <=> InDebt(st[Len(st)].code, p, x)
  <1> DEFINE L == Len(st)
  <1>1. L \in Nat \ {0} /\ DOMAIN st = 1 .. L /\ L \in DOMAIN st /\ \A k \in DOMAIN st : st[k] \in FramesOf(T)
    BY Tops
  <1>2. st2 = [st EXCEPT ![L] = [st[L] EXCEPT !.pc = p]]
    BY DEF AtPlace
  <1>3. [st[L] EXCEPT !.pc = p] \in FramesOf(T)
    BY <1>1 DEF FramesOf
  <1>4. st2 \in Seq(FramesOf(T)) /\ Len(st2) = L /\ DOMAIN st2 = DOMAIN st
    BY <1>1, <1>2, <1>3
  <1>5. /\ st2[L].pc = p /\ st2[L].code = st[L].code /\ st2[L].defers = st[L].defers
        /\ \A k \in DOMAIN st : k # L => st2[k] = st[k]
    BY <1>1, <1>2 DEF FramesOf
  <1>6. \A k \in DOMAIN st : st2[k].defers = st[k].defers
    BY <1>5
  <1>7. st2 # <<>>
    BY <1>1, <1>4
  <1> HIDE DEF L
  <1>8. \A k, i : Pending(st2, k, i) <=> Pending(st, k, i)
    BY <1>4, <1>6 DEF Pending
  <1>9. \A k, i : k \in DOMAIN st => Held(st2, k, i) = Held(st, k, i)
    BY <1>6 DEF Held
  <1>10. \A k, x : k # L => (Debt(st2, k, x) <=> Debt(st, k, x))
    BY <1>4, <1>5 DEF Debt
  <1>11. \A x : Debt(st2, L, x) <=> InDebt(st[L].code, p, x)
    BY <1>1, <1>4, <1>5 DEF Debt
  <1> QED BY <1>4, <1>7, <1>8, <1>9, <1>10, <1>11 DEF L, Pending

-----------------------------------------------------------------------------
(* The texts.                                                              *)

LEMMA TextFacts ==
  ASSUME NEW c, TidyText(c)
  PROVE  /\ Len(c) \in Nat /\ Len(c) < Beyond /\ DOMAIN c = 1 .. Len(c)
         /\ \A i \in DOMAIN c : i \in Nat /\ i > 0 /\ i < Beyond /\ TidyStmt(c, i)
         /\ \A p \in Nat : \A x : InDebt(c, p, x) => p \in DOMAIN c
         /\ \A p \in Nat : \A x : p >= Beyond => ~InDebt(c, p, x)
         /\ \A x : ~InDebt(c, 1, x)
  <1>1. /\ Len(c) \in Nat /\ Len(c) < Beyond /\ DOMAIN c = 1 .. Len(c)
        /\ \A i \in DOMAIN c : TidyStmt(c, i)
    BY DEF TidyText
  <1>2. \A i \in DOMAIN c : i \in Nat /\ i > 0 /\ i < Beyond
    BY <1>1 DEF Beyond
  <1>3. \A p, x : InDebt(c, p, x) => p \in DOMAIN c
    BY DEF InDebt
  <1>4. \A x : ~InDebt(c, 1, x)
    BY DEF InDebt
  <1>5. \A p \in Nat : \A x : p >= Beyond => ~InDebt(c, p, x)
    BY <1>2, <1>3 DEF Beyond
  <1> QED BY <1>1, <1>2, <1>3, <1>4, <1>5

(* Debts begin with an opening, and are passed on by uses only.            *)
LEMMA DebtsGoOn ==
  ASSUME NEW c, TidyText(c), NEW i \in DOMAIN c, NEW x
  PROVE  /\ InDebt(c, i + 1, x) =>
              \/ c[i].op \in Opening /\ c[i].x = x
              \/ c[i].op = "use" /\ InDebt(c, i, x)
         /\ i + 1 \in DOMAIN c /\ c[i].op \in Opening /\ c[i].x = x => InDebt(c, i + 1, x)
         /\ i + 1 \in DOMAIN c /\ c[i].op = "use" /\ InDebt(c, i, x) => InDebt(c, i + 1, x)
  <1>1. DOMAIN c = 1 .. Len(c) /\ Len(c) \in Nat
    BY TextFacts
  <1>2. i \in Nat /\ i + 1 - 1 = i
    BY <1>1
  <1>3. ASSUME InDebt(c, i + 1, x)
        PROVE  \/ c[i].op \in Opening /\ c[i].x = x
               \/ c[i].op = "use" /\ InDebt(c, i, x)
    <2>1. PICK j \in 1 .. i : /\ c[j].op \in Opening /\ c[j].x = x
                              /\ \A m \in j + 1 .. i : c[m].op = "use"
      BY <1>2, <1>3 DEF InDebt
    <2>2. CASE j = i
      BY <2>1, <2>2
    <2>3. CASE j # i
      <3>1. j \in 1 .. i - 1 /\ i \in j + 1 .. i /\ \A m \in j + 1 .. i - 1 : m \in j + 1 .. i
        BY <1>2, <2>3
      <3>2. InDebt(c, i, x)
        BY <2>1, <3>1 DEF InDebt
      <3> QED BY <2>1, <3>1, <3>2
    <2> QED BY <2>2, <2>3
  <1>4. ASSUME i + 1 \in DOMAIN c, c[i].op \in Opening, c[i].x = x PROVE InDebt(c, i + 1, x)
    <2>1. i \in 1 .. i /\ i + 1 .. i = {}
      BY <1>1
    <2> QED BY <1>2, <1>4, <2>1 DEF InDebt
  <1>5. ASSUME i + 1 \in DOMAIN c, c[i].op = "use", InDebt(c, i, x) PROVE InDebt(c, i + 1, x)
    <2>1. PICK j \in 1 .. i - 1 : /\ c[j].op \in Opening /\ c[j].x = x
                                  /\ \A m \in j + 1 .. i - 1 : c[m].op = "use"
      BY <1>5 DEF InDebt
    <2>2. j \in 1 .. i /\ \A m \in j + 1 .. i : m \in j + 1 .. i - 1 \/ m = i
      BY <1>2
    <2>3. \A m \in j + 1 .. i : c[m].op = "use"
      BY <1>5, <2>1, <2>2
    <2> QED BY <1>2, <1>5, <2>1, <2>2, <2>3 DEF InDebt
  <1> QED BY <1>3, <1>4, <1>5

LEMMA Statements ==
  ASSUME NEW T, TidyTexts(T), DeferInv(T), stack # <<>>
  PROVE  /\ top = stack[Len(stack)] /\ top \in FramesOf(T)
         /\ top.code \in T /\ TidyText(top.code) /\ top.pc \in Nat \ {0}
         /\ top.defers \in Seq(Deferred)
         /\ Leaving => \A x : ~InDebt(top.code, top.pc, x)
         /\ ~Leaving => /\ top.pc \in DOMAIN top.code /\ stmt = top.code[top.pc]
                        /\ TidyStmt(top.code, top.pc)
                        /\ stmt.op = "func" => stmt.v \in T
  <1>1. top = stack[Len(stack)] /\ top \in FramesOf(T)
    BY Tops DEF DeferInv, top
  <1>2. top.code \in T /\ top.pc \in Nat \ {0} /\ top.defers \in Seq(Deferred)
    BY <1>1 DEF FramesOf
  <1>3. TidyText(top.code) /\ \A i \in DOMAIN top.code : top.code[i].op = "func" => top.code[i].v \in T
    BY <1>2 DEF TidyTexts
  <1>4. /\ Len(top.code) \in Nat /\ DOMAIN top.code = 1 .. Len(top.code)
        /\ \A i \in DOMAIN top.code : TidyStmt(top.code, i)
        /\ \A p \in Nat : \A x : InDebt(top.code, p, x) => p \in DOMAIN top.code
    BY <1>3, TextFacts
  <1>5. ~Leaving => top.pc \in DOMAIN top.code
    BY <1>2, <1>4 DEF Leaving
  <1>6. Leaving => \A x : ~InDebt(top.code, top.pc, x)
    BY <1>2, <1>4 DEF Leaving
  <1> QED BY <1>1, <1>2, <1>3, <1>4, <1>5, <1>6 DEF stmt

-----------------------------------------------------------------------------
(* The steps.                                                              *)

(* The deferred closes and the debts stay what they are.                   *)
LEMMA NothingOwedChanges ==
  ASSUME WillBeClosed, ended # "exit", closes' = closes,
         \A k, i \in Nat : Pending(stack', k, i) <=> Pending(stack, k, i),
         \A k, i \in Nat : Pending(stack, k, i) => Held(stack', k, i) = Held(stack, k, i),
         \A k \in Nat, x \in Variable : Debt(stack', k, x) <=> Debt(stack, k, x),
         \A k \in Nat, x \in Variable :
            Debt(stack, k, x) => k = Len(stack') /\ values'[x] = values[x],
         Len(stack) \in Nat
  PROVE  WillBeClosed'
  <1>1. \A h \in DOMAIN closes : closes[h] <= 1
    BY DEF WillBeClosed
  <1>2. \A k, i \in Nat : Pending(stack', k, i) =>
          Held(stack', k, i) \in DOMAIN closes /\ closes[Held(stack', k, i)] = 0
    BY DEF WillBeClosed
  <1>3. \A k, i, l, j \in Nat :
          Pending(stack', k, i) /\ Pending(stack', l, j) /\ Held(stack', k, i) = Held(stack', l, j)
            => k = l /\ i = j
    BY DEF WillBeClosed
  <1>4. \A k \in Nat, x \in Variable : Debt(stack', k, x) =>
          /\ k = Len(stack')
          /\ values'[x] \in DOMAIN closes /\ closes[values'[x]] = 0
          /\ \A l, j \in Nat : Pending(stack', l, j) => Held(stack', l, j) # values'[x]
    BY DEF WillBeClosed
  <1>5. \A h \in DOMAIN closes : closes[h] = 0 =>
          \/ \E k, i \in Nat : Pending(stack', k, i) /\ Held(stack', k, i) = h
          \/ \E x \in Variable : Debt(stack', Len(stack'), x) /\ values'[x] = h
    BY DEF WillBeClosed
  <1> QED BY <1>1, <1>2, <1>3, <1>4, <1>5 DEF WillBeClosed

(* The running function goes elsewhere, without a debt.                    *)
LEMMA QuietMove ==
  ASSUME NEW T, TidyTexts(T), DeferInv(T), stack # <<>>,
         \A x \in Variable : ~InDebt(top.code, top.pc, x),
         NEW to \in Nat \ {0}, \A x \in Variable : ~InDebt(top.code, top.pc + to, x),
         stack' = Moved(to), closes' = closes, ended' = ended,
         values' \in [Variable -> Int]
  PROVE  DeferInv(T)'
  <1> DEFINE L == Len(stack)
             p == top.pc + to
  <1>0. stack \in Seq(FramesOf(T)) /\ L \in Nat \ {0}
    BY Tops DEF DeferInv
  <1>1. top = stack[L] /\ top.pc \in Nat \ {0} /\ p \in Nat \ {0}
    BY Statements
  <1>2. stack' = AtPlace(stack, p)
    BY <1>0, <1>1, Tops DEF Moved, AtPlace
  <1> HIDE DEF p, L
  <1>3. /\ stack' \in Seq(FramesOf(T)) /\ stack' # <<>> /\ Len(stack') = L
        /\ \A k, i : Pending(stack', k, i) <=> Pending(stack, k, i)
        /\ \A k, i : Pending(stack, k, i) => Held(stack', k, i) = Held(stack, k, i)
        /\ \A k, x : k # L => (Debt(stack', k, x) <=> Debt(stack, k, x))
        /\ \A x : Debt(stack', L, x) <=> InDebt(stack[L].code, p, x)
    BY <1>0, <1>1, <1>2, TopMoves DEF L
  <1>4. \A k \in Nat, x \in Variable : ~Debt(stack, k, x)
    BY <1>1 DEF DeferInv, WillBeClosed, Debt, L
  <1>5. \A k \in Nat, x \in Variable : ~Debt(stack', k, x)
    BY <1>1, <1>3, <1>4 DEF p
  <1>6. ended # "exit" /\ ended = "no"
    BY DEF DeferInv
  <1>7. WillBeClosed'
    BY <1>0, <1>3, <1>4, <1>5, <1>6, NothingOwedChanges DEF DeferInv, L
  <1> QED BY <1>3, <1>6, <1>7 DEF DeferInv

LEMMA PlainStep ==
  ASSUME NEW T, TidyTexts(T), DeferInv(T), stack # <<>>, ~Leaving, Plain
  PROVE  DeferInv(T)'
  <1> DEFINE c == top.code
             p == top.pc
  <1>1. TidyText(c) /\ p \in DOMAIN c /\ stmt = c[p] /\ TidyStmt(c, p)
    BY Statements
  <1>2. stmt.op \in {"set", "tell", "if", "jump"}
    BY DEF Plain
  <1>3. \A x \in Variable : ~InDebt(c, p, x)
    BY <1>1, <1>2 DEF TidyStmt, DefersClose
  <1>4. \A x \in Variable : ~InDebt(c, p + 1, x)
    BY <1>1, <1>2, DebtsGoOn DEF Opening
  <1>5. stmt.op \in Leading => /\ stmt.to \in Nat \ {0}
                               /\ \A x \in Variable : ~InDebt(c, p + stmt.to, x)
    BY <1>1 DEF TidyStmt
  <1>6. PICK to \in Nat \ {0} : stack' = Moved(to) /\ \A x \in Variable : ~InDebt(c, p + to, x)
    <2>1. stmt.op \in {"set", "tell"} => stack' = Moved(1)
      BY DEF Plain, GoOn
    <2>2. stmt.op = "if" => stack' = Moved(1) \/ stack' = Moved(stmt.to)
      BY DEF Plain
    <2>3. stmt.op = "jump" => stack' = Moved(stmt.to)
      BY DEF Plain
    <2> HIDE DEF c, p
    <2>4. stmt.op \in {"if", "jump"} => stmt.op \in Leading
      BY DEF Leading
    <2> QED BY <1>2, <1>4, <1>5, <2>1, <2>2, <2>3, <2>4
  <1>7. values' \in [Variable -> Int]
    <2>1. stmt.op = "set" => stmt.x \in Variable /\ stmt.v \in Int
      BY <1>1 DEF TidyStmt
    <2> QED BY <2>1 DEF Plain, DeferInv
  <1>8. closes' = closes /\ ended' = ended
    BY DEF Plain
  <1> HIDE DEF c, p
  <1> QED BY <1>3, <1>6, <1>7, <1>8, QuietMove DEF c, p

LEMMA FailStep ==
  ASSUME NEW T, TidyTexts(T), DeferInv(T), stack # <<>>, ~Leaving,
         stmt.op \in {"open", "try"}, Fails, ended' = ended
  PROVE  DeferInv(T)'
  <1> DEFINE c == top.code
             p == top.pc
  <1>1. TidyText(c) /\ p \in DOMAIN c /\ stmt = c[p] /\ TidyStmt(c, p)
    BY Statements
  <1>3. \A x \in Variable : ~InDebt(c, p, x)
    BY <1>1 DEF TidyStmt, DefersClose
  <1>5. stmt.to \in Nat \ {0} /\ \A x \in Variable : ~InDebt(c, p + stmt.to, x)
    BY <1>1 DEF TidyStmt, Leading
  <1>6. stack' = Moved(stmt.to) /\ closes' = closes
    BY DEF Fails
  <1>7. values' \in [Variable -> Int]
    <2>1. stmt.op = "open" => stmt.x \in Variable
      BY <1>1 DEF TidyStmt, Opening
    <2> QED BY <2>1 DEF Fails, DeferInv
  <1> HIDE DEF c, p
  <1> QED BY <1>3, <1>5, <1>6, <1>7, QuietMove DEF c, p

(* A resource is opened: its variable is in debt.                          *)
LEMMA OpenStep ==
  ASSUME NEW T, TidyTexts(T), DeferInv(T), stack # <<>>, ~Leaving,
         stmt.op \in {"open", "make"}, Opens(stmt.x), ended' = ended
  PROVE  DeferInv(T)'
  <1> DEFINE c == top.code
             p == top.pc
             q == p + 1
             L == Len(stack)
             n == Len(closes) + 1
             x == stmt.x
  <1>1. /\ TidyText(c) /\ p \in DOMAIN c /\ stmt = c[p] /\ TidyStmt(c, p)
        /\ top = stack[L] /\ p \in Nat \ {0} /\ q \in Nat \ {0} /\ c = stack[L].code
    BY Statements
  <1>2. \A y \in Variable : ~InDebt(c, p, y)
    BY <1>1 DEF TidyStmt, DefersClose
  <1>3. x \in Variable /\ q \in DOMAIN c
    BY <1>1 DEF TidyStmt, Opening
  <1>4. \A y \in Variable : InDebt(c, q, y) <=> y = x
    BY <1>1, <1>3, DebtsGoOn DEF Opening
  <1>5. stack \in Seq(FramesOf(T)) /\ L \in Nat \ {0} /\ closes \in Seq(Nat) /\ n \in Nat \ {0}
    BY Tops DEF DeferInv
  <1>6. stack' = AtPlace(stack, q)
    BY <1>1, <1>5, Tops DEF Opens, GoOn, Moved, AtPlace
  <1>7. /\ closes' = Append(closes, 0) /\ values' = [values EXCEPT ![x] = n]
    BY DEF Opens
  <1>8. /\ closes' \in Seq(Nat) /\ DOMAIN closes' = DOMAIN closes \cup {n} /\ n \notin DOMAIN closes
        /\ closes'[n] = 0 /\ \A h \in DOMAIN closes : closes'[h] = closes[h]
    BY <1>5, <1>7
  <1>9. values' \in [Variable -> Int] /\ values'[x] = n
    BY <1>3, <1>5, <1>7 DEF DeferInv
  <1>0. q \in Nat \ {0}
    BY <1>1
  <1> HIDE DEF c, p, q, L, n, x
  <1>10. /\ stack' \in Seq(FramesOf(T)) /\ stack' # <<>> /\ Len(stack') = L
         /\ \A k, i : Pending(stack', k, i) <=> Pending(stack, k, i)
         /\ \A k, i : Pending(stack, k, i) => Held(stack', k, i) = Held(stack, k, i)
         /\ \A k, y : k # L => (Debt(stack', k, y) <=> Debt(stack, k, y))
         /\ \A y : Debt(stack', L, y) <=> InDebt(stack[L].code, q, y)
    BY <1>0, <1>5, <1>6, TopMoves DEF L
  <1>11. \A k \in Nat, y \in Variable : ~Debt(stack, k, y)
    BY <1>1, <1>2 DEF DeferInv, WillBeClosed, Debt, L, c, p
  <1>12. \A k \in Nat, y \in Variable : Debt(stack', k, y) <=> k = L /\ y = x
    BY <1>1, <1>4, <1>10, <1>11
  <1>13. ended = "no"
    BY DEF DeferInv
  <1>14. WillBeClosed'
    <2>1. \A h \in DOMAIN closes' : closes'[h] <= 1
      BY <1>8 DEF DeferInv, WillBeClosed
    <2>2. \A k, i \in Nat : Pending(stack', k, i) =>
            Held(stack', k, i) \in DOMAIN closes /\ closes[Held(stack', k, i)] = 0
      BY <1>10 DEF DeferInv, WillBeClosed
    <2>3. \A k, i, l, j \in Nat :
            Pending(stack', k, i) /\ Pending(stack', l, j) /\ Held(stack', k, i) = Held(stack', l, j)
              => k = l /\ i = j
      BY <1>10 DEF DeferInv, WillBeClosed
    <2>4. \A k \in Nat, y \in Variable : Debt(stack', k, y) =>
            /\ k = Len(stack') /\ values'[y] = n
            /\ \A l, j \in Nat : Pending(stack', l, j) => Held(stack', l, j) # n
      <3>1. \A k \in Nat, y \in Variable : Debt(stack', k, y) => k = L /\ y = x
        BY <1>12
      <3>2. \A l, j \in Nat : Pending(stack', l, j) => Held(stack', l, j) # n
        BY <1>8, <2>2
      <3> QED BY <1>9, <1>10, <3>1, <3>2
    <2>5. \A h \in DOMAIN closes' : closes'[h] = 0 =>
            \/ \E k, i \in Nat : Pending(stack', k, i) /\ Held(stack', k, i) = h
            \/ \E y \in Variable : Debt(stack', Len(stack'), y) /\ values'[y] = h
      <3> SUFFICES ASSUME NEW h \in DOMAIN closes', closes'[h] = 0
                   PROVE  \/ \E k, i \in Nat : Pending(stack', k, i) /\ Held(stack', k, i) = h
                          \/ \E y \in Variable : Debt(stack', Len(stack'), y) /\ values'[y] = h
        OBVIOUS
      <3>1. CASE h = n
        BY <1>3, <1>5, <1>9, <1>10, <1>12, <3>1
      <3>2. CASE h # n
        <4>1. h \in DOMAIN closes /\ closes[h] = 0
          BY <1>8, <3>2
        <4>2. \E k, i \in Nat : Pending(stack, k, i) /\ Held(stack, k, i) = h
          BY <1>5, <1>11, <1>13, <4>1 DEF DeferInv, WillBeClosed, L
        <4> QED BY <1>10, <4>2
      <3> QED BY <3>1, <3>2
    <2>6. \A k, i \in Nat : Pending(stack', k, i) =>
            Held(stack', k, i) \in DOMAIN closes' /\ closes'[Held(stack', k, i)] = 0
      BY <1>8, <2>2
    <2>7. n \in DOMAIN closes' /\ closes'[n] = 0
      BY <1>8
    <2> QED BY <2>1, <2>3, <2>4, <2>5, <2>6, <2>7 DEF WillBeClosed
  <1> QED BY <1>8, <1>9, <1>10, <1>13, <1>14 DEF DeferInv

LEMMA UseStep ==
  ASSUME NEW T, TidyTexts(T), DeferInv(T), stack # <<>>, ~Leaving, UseOrClose
  PROVE  DeferInv(T)'
  <1> DEFINE c == top.code
             p == top.pc
             q == p + 1
             L == Len(stack)
  <1>1. /\ TidyText(c) /\ p \in DOMAIN c /\ stmt = c[p] /\ TidyStmt(c, p)
        /\ top = stack[L] /\ p \in Nat \ {0} /\ q \in Nat \ {0} /\ c = stack[L].code
    BY Statements
  <1>2. stmt.op = "use"
    BY <1>1 DEF UseOrClose, TidyStmt
  <1>3. \A x \in Variable : InDebt(c, p, x) => q \in DOMAIN c
    BY <1>1, <1>2 DEF TidyStmt, DefersClose
  <1>4. \A x \in Variable : InDebt(c, q, x) <=> InDebt(c, p, x)
    BY <1>1, <1>2, <1>3, DebtsGoOn DEF Opening
  <1>5. stack \in Seq(FramesOf(T)) /\ L \in Nat \ {0}
    BY Tops DEF DeferInv
  <1>6. stack' = AtPlace(stack, q)
    BY <1>1, <1>5, Tops DEF UseOrClose, GoOn, Moved, AtPlace
  <1>7. closes' = closes /\ values' = values /\ ended' = ended
    BY <1>2 DEF UseOrClose
  <1>0. q \in Nat \ {0}
    BY <1>1
  <1> HIDE DEF c, p, q, L
  <1>8. /\ stack' \in Seq(FramesOf(T)) /\ stack' # <<>> /\ Len(stack') = L
        /\ \A k, i : Pending(stack', k, i) <=> Pending(stack, k, i)
        /\ \A k, i : Pending(stack, k, i) => Held(stack', k, i) = Held(stack, k, i)
        /\ \A k, x : k # L => (Debt(stack', k, x) <=> Debt(stack, k, x))
        /\ \A x : Debt(stack', L, x) <=> InDebt(stack[L].code, q, x)
    BY <1>0, <1>5, <1>6, TopMoves DEF L
  <1>9. \A x : Debt(stack, L, x) <=> InDebt(c, p, x)
    BY <1>1, <1>5, Tops DEF Debt, L, c, p
  <1>10. \A k \in Nat, x \in Variable : Debt(stack', k, x) <=> Debt(stack, k, x)
    BY <1>1, <1>4, <1>8, <1>9
  <1>11. \A k \in Nat, x \in Variable : Debt(stack, k, x) => k = L
    BY DEF DeferInv, WillBeClosed, L
  <1>12. ended = "no"
    BY DEF DeferInv
  <1>13. WillBeClosed'
    BY <1>5, <1>7, <1>8, <1>10, <1>11, <1>12, NothingOwedChanges DEF DeferInv, L
  <1> QED BY <1>7, <1>8, <1>12, <1>13 DEF DeferInv

(* The top frame gets other deferred calls.                                *)
WithDefers(st, p, ds) == [st EXCEPT ![Len(st)] = [@ EXCEPT !.pc = p, !.defers = ds]]

(* st2 is st, but for the place p and the deferred calls ds of its top.    *)
OnlyTheTop(T, st, p, ds, st2) ==
  /\ st2 \in Seq(FramesOf(T)) /\ st2 # <<>> /\ Len(st2) = Len(st)
  /\ \A k, i : k # Len(st) => /\ Pending(st2, k, i) <=> Pending(st, k, i)
                              /\ Pending(st, k, i) => Held(st2, k, i) = Held(st, k, i)
  /\ \A i : Pending(st2, Len(st), i) <=> i \in DOMAIN ds /\ ds[i].do = "close"
  /\ \A i : Held(st2, Len(st), i) = ds[i].v
  /\ \A k, x : k # Len(st) => (Debt(st2, k, x) <=> Debt(st, k, x))
  /\ \A x : Debt(st2, Len(st), x) <=> InDebt(st[Len(st)].code, p, x)
LEMMA TopDefers ==
  ASSUME NEW T, NEW st \in Seq(FramesOf(T)), st # <<>>, NEW p \in Nat \ {0},
         NEW ds \in Seq(Deferred), NEW st2, st2 = WithDefers(st, p, ds)
  PROVE  OnlyTheTop(T, st, p, ds, st2)
  <1> DEFINE L == Len(st)
             f == [st[L] EXCEPT !.pc = p, !.defers = ds]
  <1>1. L \in Nat \ {0} /\ DOMAIN st = 1 .. L /\ L \in DOMAIN st /\ \A k \in DOMAIN st : st[k] \in FramesOf(T)
    BY Tops
  <1>2. st2 = [st EXCEPT ![L] = f]
    BY DEF WithDefers
  <1>3. f \in FramesOf(T) /\ f.pc = p /\ f.code = st[L].code /\ f.defers = ds
    BY <1>1 DEF FramesOf
  <1> HIDE DEF f
  <1>4. st2 \in Seq(FramesOf(T)) /\ Len(st2) = L /\ DOMAIN st2 = DOMAIN st
    BY <1>1, <1>2, <1>3
  <1>5. /\ st2[L].pc = p /\ st2[L].code = st[L].code /\ st2[L].defers = ds
        /\ \A k \in DOMAIN st : k # L => st2[k] = st[k]
    BY <1>1, <1>2, <1>3
  <1>6. st2 # <<>>
    BY <1>1, <1>4
  <1> HIDE DEF L
  <1>7. \A k, i : k # L => /\ Pending(st2, k, i) <=> Pending(st, k, i)
                           /\ Pending(st, k, i) => Held(st2, k, i) = Held(st, k, i)
    BY <1>4, <1>5 DEF Pending, Held
  <1>8. \A i : Pending(st2, L, i) <=> i \in DOMAIN ds /\ ds[i].do = "close"
    BY <1>1, <1>4, <1>5 DEF Pending
  <1>9. \A i : Held(st2, L, i) = ds[i].v
    BY <1>5 DEF Held
  <1>10. \A k, x : k # L => (Debt(st2, k, x) <=> Debt(st, k, x))
    BY <1>4, <1>5 DEF Debt
  <1>11. \A x : Debt(st2, L, x) <=> InDebt(st[L].code, p, x)
    BY <1>1, <1>4, <1>5 DEF Debt
  <1> QED BY <1>4, <1>6, <1>7, <1>8, <1>9, <1>10, <1>11 DEF L, OnlyTheTop

(* What the running function has deferred.                                 *)
LEMMA TopsDefers ==
  ASSUME NEW T, TidyTexts(T), DeferInv(T), stack # <<>>
  PROVE  /\ \A i : Pending(stack, Len(stack), i) <=>
                     i \in DOMAIN top.defers /\ top.defers[i].do = "close"
         /\ \A i : Held(stack, Len(stack), i) = top.defers[i].v
         /\ \A x : Debt(stack, Len(stack), x) <=> InDebt(top.code, top.pc, x)
  BY Statements, Tops DEF Pending, Held, Debt, DeferInv

(* A call that closes nothing comes or goes; nothing is in debt then.      *)
LEMMA OtherDefers ==
  ASSUME NEW T, TidyTexts(T), DeferInv(T), stack # <<>>,
         \A x \in Variable : ~InDebt(top.code, top.pc, x),
         NEW p \in Nat \ {0}, \A x \in Variable : ~InDebt(top.code, p, x),
         NEW ds \in Seq(Deferred), stack' = WithDefers(stack, p, ds),
         \A i \in Nat : i \in DOMAIN ds /\ ds[i].do = "close" <=>
                        i \in DOMAIN top.defers /\ top.defers[i].do = "close",
         \A i \in DOMAIN ds : i \in DOMAIN top.defers => ds[i] = top.defers[i],
         closes' = closes, ended' = ended, values' \in [Variable -> Int]
  PROVE  DeferInv(T)'
  <1> DEFINE L == Len(stack)
  <1>1. stack \in Seq(FramesOf(T)) /\ L \in Nat \ {0}
    BY Tops DEF DeferInv
  <1>2. top = stack[L]
    BY Statements
  <1> HIDE DEF L
  <1>3. /\ \A i : Pending(stack, L, i) <=> i \in DOMAIN top.defers /\ top.defers[i].do = "close"
        /\ \A i : Held(stack, L, i) = top.defers[i].v
        /\ \A x : Debt(stack, L, x) <=> InDebt(top.code, top.pc, x)
    BY TopsDefers DEF L
  <1>4. /\ stack' \in Seq(FramesOf(T)) /\ stack' # <<>> /\ Len(stack') = L
        /\ \A k, i : k # L => /\ Pending(stack', k, i) <=> Pending(stack, k, i)
                              /\ Pending(stack, k, i) => Held(stack', k, i) = Held(stack, k, i)
        /\ \A i : Pending(stack', L, i) <=> i \in DOMAIN ds /\ ds[i].do = "close"
        /\ \A i : Held(stack', L, i) = ds[i].v
        /\ \A k, x : k # L => (Debt(stack', k, x) <=> Debt(stack, k, x))
        /\ \A x : Debt(stack', L, x) <=> InDebt(stack[L].code, p, x)
    <2>1. stack \in Seq(FramesOf(T)) /\ stack # <<>> /\ stack' = WithDefers(stack, p, ds)
      BY <1>1
    <2> QED BY <2>1, TopDefers, Zenon DEF L, OnlyTheTop
  <1>5. \A k \in Nat, x \in Variable : ~Debt(stack, k, x)
    BY <1>3 DEF DeferInv, WillBeClosed, L
  <1>6. \A k \in Nat, x \in Variable : ~Debt(stack', k, x)
    BY <1>2, <1>4, <1>5
  <1>7. ended # "exit" /\ ended = "no"
    BY DEF DeferInv
  <1>8. /\ \A k, i \in Nat : Pending(stack', k, i) <=> Pending(stack, k, i)
        /\ \A k, i \in Nat : Pending(stack, k, i) => Held(stack', k, i) = Held(stack, k, i)
    <2>1. \A i \in Nat : Pending(stack', L, i) <=> Pending(stack, L, i)
      BY <1>3, <1>4
    <2>2. \A i \in Nat : Pending(stack, L, i) => Held(stack', L, i) = Held(stack, L, i)
      BY <1>3, <1>4
    <2> QED BY <1>4, <2>1, <2>2
  <1>9. WillBeClosed'
    BY <1>1, <1>4, <1>5, <1>6, <1>7, <1>8, NothingOwedChanges DEF DeferInv, L
  <1> QED BY <1>4, <1>7, <1>9 DEF DeferInv

LEMMA OneDebt ==
  ASSUME NEW c, TidyText(c), NEW i \in DOMAIN c, NEW x, NEW y, InDebt(c, i, x), InDebt(c, i, y)
  PROVE  x = y
  <1>1. PICK j \in 1 .. i - 1 : /\ c[j].op \in Opening /\ c[j].x = x
                                /\ \A m \in j + 1 .. i - 1 : c[m].op = "use"
    BY DEF InDebt
  <1>2. PICK k \in 1 .. i - 1 : /\ c[k].op \in Opening /\ c[k].x = y
                                /\ \A m \in k + 1 .. i - 1 : c[m].op = "use"
    BY DEF InDebt
  <1>3. i \in Nat
    BY TextFacts
  <1>4. ~(j < k) /\ ~(k < j)
    <2>1. j < k => k \in j + 1 .. i - 1
      BY <1>3
    <2>2. k < j => j \in k + 1 .. i - 1
      BY <1>3
    <2> QED BY <1>1, <1>2, <2>1, <2>2 DEF Opening
  <1> QED BY <1>1, <1>2, <1>3, <1>4

LEMMA Calls ==
  ASSUME NEW w \in {"close", "tell"}, NEW y \in Variable, NEW g \in Int,
         NEW d, d = [do |-> w, x |-> y, v |-> g]
  PROVE  d \in Deferred /\ d.do = w /\ d.v = g
  BY DEF Deferred

LEMMA OneMoreCall ==
  ASSUME NEW s \in Seq(Deferred), NEW d \in Deferred, NEW n, n = Len(s) + 1
  PROVE  /\ Append(s, d) \in Seq(Deferred) /\ n \in Nat
         /\ DOMAIN Append(s, d) = DOMAIN s \cup {n} /\ n \notin DOMAIN s
         /\ Append(s, d)[n] = d
         /\ \A i \in DOMAIN s : Append(s, d)[i] = s[i]
  OBVIOUS

(* The close of what is in debt is deferred.                               *)
LEMMA DebtDeferred ==
  ASSUME NEW T, TidyTexts(T), DeferInv(T), stack # <<>>, ~Leaving, DefersClose(stmt),
         NEW d, d = [do |-> "close", x |-> stmt.x, v |-> values[stmt.x]],
         stack' = WithDefers(stack, top.pc + 1, Append(top.defers, d)),
         closes' = closes, ended' = ended, values' = values
  PROVE  DeferInv(T)'
  <1> DEFINE c == top.code
             p == top.pc
             q == p + 1
             L == Len(stack)
             x == stmt.x
             h == values[x]
             ds == Append(top.defers, d)
             n == Len(top.defers) + 1
  <1>1. /\ TidyText(c) /\ p \in DOMAIN c /\ stmt = c[p] /\ TidyStmt(c, p)
        /\ top = stack[L] /\ p \in Nat \ {0} /\ top.defers \in Seq(Deferred)
    BY Statements
  <1>2. x \in Variable /\ InDebt(c, p, x) /\ stmt.op = "defer"
    BY <1>1 DEF TidyStmt, DefersClose
  <1>3. \A y \in Variable : InDebt(c, p, y) => y = x
    BY <1>1, <1>2, OneDebt
  <1>4. \A y \in Variable : ~InDebt(c, q, y)
    BY <1>1, <1>2, DebtsGoOn DEF Opening
  <1>5. stack \in Seq(FramesOf(T)) /\ L \in Nat \ {0} /\ q \in Nat \ {0} /\ h \in Int
    <2>1. stack \in Seq(FramesOf(T)) /\ values \in [Variable -> Int]
      BY DEF DeferInv
    <2>2. L \in Nat \ {0}
      BY <2>1, Tops
    <2>3. h \in Int
      BY <1>2, <2>1
    <2>4. q \in Nat \ {0}
      BY <1>1
    <2> HIDE DEF L, q, h
    <2> QED BY <2>1, <2>2, <2>3, <2>4
  <1>6. d \in Deferred /\ d.do = "close" /\ d.v = h
    <2>1. d = [do |-> "close", x |-> x, v |-> h]
      OBVIOUS
    <2> HIDE DEF x, h
    <2> QED BY <1>2, <1>5, <2>1, Calls
  <1>7. /\ ds \in Seq(Deferred) /\ n \in Nat /\ DOMAIN ds = DOMAIN top.defers \cup {n}
        /\ n \notin DOMAIN top.defers /\ ds[n] = d
        /\ \A i \in DOMAIN top.defers : ds[i] = top.defers[i]
    <2> HIDE DEF c, p, L, x, h
    <2> QED BY <1>1, <1>6, OneMoreCall
  <1> HIDE DEF c, p, q, L, x, h, ds, n
  <1>8. /\ \A i : Pending(stack, L, i) <=> i \in DOMAIN top.defers /\ top.defers[i].do = "close"
        /\ \A i : Held(stack, L, i) = top.defers[i].v
        /\ \A y : Debt(stack, L, y) <=> InDebt(c, p, y)
    BY TopsDefers DEF L, c, p
  <1>9. /\ stack' \in Seq(FramesOf(T)) /\ stack' # <<>> /\ Len(stack') = L
        /\ \A k, i : k # L => /\ Pending(stack', k, i) <=> Pending(stack, k, i)
                              /\ Pending(stack, k, i) => Held(stack', k, i) = Held(stack, k, i)
        /\ \A i : Pending(stack', L, i) <=> i \in DOMAIN ds /\ ds[i].do = "close"
        /\ \A i : Held(stack', L, i) = ds[i].v
        /\ \A k, y : k # L => (Debt(stack', k, y) <=> Debt(stack, k, y))
        /\ \A y : Debt(stack', L, y) <=> InDebt(stack[L].code, q, y)
    <2>1. stack' = WithDefers(stack, q, ds)
      BY DEF q, p, ds
    <2>2. stack \in Seq(FramesOf(T)) /\ q \in Nat \ {0} /\ ds \in Seq(Deferred)
      BY <1>5, <1>7
    <2> QED BY <2>1, <2>2, TopDefers, Zenon DEF L, OnlyTheTop
  <1>10. \A k \in Nat, y \in Variable : Debt(stack, k, y) <=> k = L /\ y = x
    <2>1. \A k \in Nat, y \in Variable : Debt(stack, k, y) => k = L
      BY DEF DeferInv, WillBeClosed, L
    <2> QED BY <1>2, <1>3, <1>5, <1>8, <2>1
  <1>11. \A k \in Nat, y \in Variable : ~Debt(stack', k, y)
    <2>1. \A y \in Variable : ~Debt(stack', L, y)
      BY <1>1, <1>4, <1>9 DEF c
    <2>2. \A k \in Nat, y \in Variable : k # L => ~Debt(stack', k, y)
      BY <1>9, <1>10
    <2> QED BY <2>1, <2>2
  <1>12. /\ h \in DOMAIN closes /\ closes[h] = 0
         /\ \A l, j \in Nat : Pending(stack, l, j) => Held(stack, l, j) # h
    <2>1. WillBeClosed /\ L \in Nat
      BY <1>5 DEF DeferInv
    <2>2. Debt(stack, L, x)
      BY <1>2, <1>10, <2>1
    <2>3. \A k \in Nat, y \in Variable : Debt(stack, k, y) =>
            /\ values[y] \in DOMAIN closes /\ closes[values[y]] = 0
            /\ \A l, j \in Nat : Pending(stack, l, j) => Held(stack, l, j) # values[y]
      BY Zenon, <2>1 DEF WillBeClosed
    <2>4. /\ values[x] \in DOMAIN closes /\ closes[values[x]] = 0
          /\ \A l, j \in Nat : Pending(stack, l, j) => Held(stack, l, j) # values[x]
      BY Zenon, <1>2, <2>1, <2>2, <2>3
    <2> QED BY Zenon, <2>4 DEF h
  (* The new deferred call is the n-th of the top.                         *)
  <1>13. \A k, i \in Nat :
           /\ Pending(stack', k, i) <=> Pending(stack, k, i) \/ (k = L /\ i = n)
           /\ Pending(stack, k, i) => Held(stack', k, i) = Held(stack, k, i)
    <2>1. \A i \in Nat : /\ Pending(stack', L, i) <=> Pending(stack, L, i) \/ i = n
                         /\ Pending(stack, L, i) => Held(stack', L, i) = Held(stack, L, i)
      BY <1>6, <1>7, <1>8, <1>9
    <2> QED BY <1>9, <2>1
  <1>14. Held(stack', L, n) = h
    BY <1>6, <1>7, <1>9
  <1>15. ended = "no" /\ ended # "exit"
    BY DEF DeferInv
  <1>16. WillBeClosed'
    <2>1. \A g \in DOMAIN closes : closes[g] <= 1
      BY DEF DeferInv, WillBeClosed
    <2>2. \A k, i \in Nat : Pending(stack', k, i) =>
            Held(stack', k, i) \in DOMAIN closes /\ closes[Held(stack', k, i)] = 0
      <3>1. \A k, i \in Nat : Pending(stack, k, i) =>
              Held(stack, k, i) \in DOMAIN closes /\ closes[Held(stack, k, i)] = 0
        BY DEF DeferInv, WillBeClosed
      <3> QED BY <1>12, <1>13, <1>14, <3>1
    <2>3. \A k, i, l, j \in Nat :
            Pending(stack', k, i) /\ Pending(stack', l, j) /\ Held(stack', k, i) = Held(stack', l, j)
              => k = l /\ i = j
      <3>1. \A k, i, l, j \in Nat :
              Pending(stack, k, i) /\ Pending(stack, l, j) /\ Held(stack, k, i) = Held(stack, l, j)
                => k = l /\ i = j
        BY DEF DeferInv, WillBeClosed
      <3> SUFFICES ASSUME NEW k \in Nat, NEW i \in Nat, NEW l \in Nat, NEW j \in Nat,
                          Pending(stack', k, i), Pending(stack', l, j),
                          Held(stack', k, i) = Held(stack', l, j)
                   PROVE  k = l /\ i = j
        OBVIOUS
      <3>2. CASE Pending(stack, k, i) /\ Pending(stack, l, j)
        BY <1>13, <3>1, <3>2
      <3>3. CASE Pending(stack, k, i) /\ ~Pending(stack, l, j)
        BY <1>12, <1>13, <1>14, <3>3
      <3>4. CASE ~Pending(stack, k, i) /\ Pending(stack, l, j)
        BY <1>12, <1>13, <1>14, <3>4
      <3>5. CASE ~Pending(stack, k, i) /\ ~Pending(stack, l, j)
        BY <1>13, <3>5
      <3> QED BY <3>2, <3>3, <3>4, <3>5
    <2>4. \A g \in DOMAIN closes : closes[g] = 0 =>
            \E k, i \in Nat : Pending(stack', k, i) /\ Held(stack', k, i) = g
      <3> SUFFICES ASSUME NEW g \in DOMAIN closes, closes[g] = 0
                   PROVE  \E k, i \in Nat : Pending(stack', k, i) /\ Held(stack', k, i) = g
        OBVIOUS
      <3>1. CASE g = h
        BY <1>5, <1>7, <1>13, <1>14, <3>1
      <3>2. CASE g # h
        <4>1. \A y \in Variable : ~(Debt(stack, L, y) /\ values[y] = g)
          BY <1>5, <1>10, <3>2 DEF h
        <4>2. \E k, i \in Nat : Pending(stack, k, i) /\ Held(stack, k, i) = g
          BY <1>15, <4>1 DEF DeferInv, WillBeClosed, L
        <4> QED BY <1>13, <4>2
      <3> QED BY <3>1, <3>2
    <2> QED BY <1>11, <2>1, <2>2, <2>3, <2>4 DEF WillBeClosed
  <1> QED BY <1>9, <1>15, <1>16 DEF DeferInv

LEMMA RegisterStep ==
  ASSUME NEW T, TidyTexts(T), DeferInv(T), stack # <<>>, ~Leaving, Register
  PROVE  DeferInv(T)'
  <1> DEFINE c == top.code
             p == top.pc
             q == p + 1
             L == Len(stack)
             d == IF stmt.op = "closure" THEN stmt.v
                  ELSE [do |-> stmt.v, x |-> stmt.x, v |-> values[stmt.x]]
             ds == Append(top.defers, d)
  <1>1. /\ TidyText(c) /\ p \in DOMAIN c /\ stmt = c[p] /\ TidyStmt(c, p)
        /\ top = stack[L] /\ p \in Nat \ {0} /\ top.defers \in Seq(Deferred)
        /\ top \in FramesOf(T)
    BY Statements
  <1>2. stack' = WithDefers(stack, q, ds)
    <2>1. L \in DOMAIN stack
      BY Tops DEF DeferInv
    <2>2. stack' = [Moved(1) EXCEPT ![L].defers = Append(@, d)]
      BY DEF Register
    <2> HIDE DEF d
    <2>3. Moved(1) = [stack EXCEPT ![L] = [stack[L] EXCEPT !.pc = q]]
      BY <1>1 DEF Moved
    <2>4. Moved(1)[L].defers = top.defers
      BY <1>1, <2>1, <2>3 DEF FramesOf
    <2>5. stack' = [stack EXCEPT ![L] = [stack[L] EXCEPT !.pc = q, !.defers = ds]]
      BY <1>1, <2>1, <2>2, <2>3, <2>4
    <2> QED BY <2>5 DEF WithDefers
  <1>3. values' = values /\ closes' = closes /\ ended' = ended
    BY DEF Register
  <1>4. stmt.op \in {"defer", "closure"}
    BY DEF Register
  <1>5. CASE DefersClose(stmt)
    <2>1. d = [do |-> "close", x |-> stmt.x, v |-> values[stmt.x]]
      BY <1>5 DEF DefersClose
    <2> HIDE DEF d
    <2> QED BY <1>2, <1>3, <1>5, <2>1, DebtDeferred
  <1>6. CASE ~DefersClose(stmt)
    <2>1. \A x \in Variable : ~InDebt(c, p, x)
      BY <1>1, <1>4, <1>6 DEF TidyStmt
    <2>2. \A x \in Variable : ~InDebt(c, q, x)
      BY <1>1, <1>4, DebtsGoOn DEF Opening
    <2>3. d \in Deferred /\ d.do # "close"
      <3>1. CASE stmt.op = "closure"
        BY <1>1, <3>1 DEF TidyStmt, Deferred, Doing
      <3>2. CASE stmt.op = "defer"
        <4>1. stmt.x \in Variable /\ stmt.v = "tell"
          BY <1>1, <1>6, <3>2 DEF TidyStmt, DefersClose
        <4>2. values[stmt.x] \in Int
          BY <4>1 DEF DeferInv
        <4>3. d = [do |-> "tell", x |-> stmt.x, v |-> values[stmt.x]]
          BY <3>2, <4>1
        <4> HIDE DEF d
        <4>4. d \in Deferred /\ d.do = "tell"
          BY <4>1, <4>2, <4>3, Calls
        <4> QED BY <4>4
      <3> QED BY <1>4, <3>1, <3>2
    <2> HIDE DEF d
    <2>4. /\ ds \in Seq(Deferred)
          /\ \A i \in Nat : i \in DOMAIN ds /\ ds[i].do = "close" <=>
                            i \in DOMAIN top.defers /\ top.defers[i].do = "close"
          /\ \A i \in DOMAIN ds : i \in DOMAIN top.defers => ds[i] = top.defers[i]
      <3>1. /\ ds \in Seq(Deferred)
            /\ DOMAIN ds = DOMAIN top.defers \cup {Len(top.defers) + 1}
            /\ Len(top.defers) + 1 \notin DOMAIN top.defers
            /\ ds[Len(top.defers) + 1] = d
            /\ \A i \in DOMAIN top.defers : ds[i] = top.defers[i]
        BY <1>1, <2>3
      <3> QED BY <2>3, <3>1
    <2>5. q \in Nat \ {0} /\ values' \in [Variable -> Int]
      BY <1>1, <1>3 DEF DeferInv
    <2> HIDE DEF c, p, q, ds, L
    <2> QED BY <1>2, <1>3, <2>1, <2>2, <2>4, <2>5, OtherDefers DEF c, p
  <1> QED BY <1>5, <1>6

LEMMA CallStep ==
  ASSUME NEW T, TidyTexts(T), DeferInv(T), stack # <<>>, ~Leaving, CallFunc
  PROVE  DeferInv(T)'
  <1> DEFINE c == top.code
             p == top.pc
             q == p + 1
             L == Len(stack)
             st == AtPlace(stack, q)
             f == Frame(stmt.v)
             x == stmt.x
  <1>1. /\ TidyText(c) /\ p \in DOMAIN c /\ stmt = c[p] /\ TidyStmt(c, p)
        /\ top = stack[L] /\ p \in Nat \ {0} /\ c = stack[L].code
    BY Statements
  <1>2. stmt.op = "func"
    BY DEF CallFunc
  <1>3. stmt.v \in T /\ TidyText(stmt.v)
    BY <1>2, Statements DEF TidyTexts
  <1>4. \A y \in Variable : ~InDebt(c, p, y)
    BY <1>1, <1>2 DEF TidyStmt, DefersClose
  <1>5. \A y \in Variable : ~InDebt(c, q, y)
    BY <1>1, <1>2, DebtsGoOn DEF Opening
  <1>6. stack \in Seq(FramesOf(T)) /\ L \in Nat \ {0}
    BY Tops DEF DeferInv
  <1>7. stack' = Append(st, f)
    BY <1>1, <1>6, Tops DEF CallFunc, Moved, AtPlace
  <1>8. /\ f \in FramesOf(T) /\ f.defers = <<>> /\ DOMAIN f.defers = {}
        /\ \A y : ~InDebt(f.code, f.pc, y)
    <2>1. f = [code |-> stmt.v, pc |-> 1, defers |-> <<>>]
      BY DEF Frame
    <2>2. \A y : ~InDebt(stmt.v, 1, y)
      BY <1>3, TextFacts
    <2>3. <<>> \in Seq(Deferred) /\ DOMAIN <<>> = {}
      OBVIOUS
    <2> HIDE DEF f
    <2> QED BY <1>3, <2>1, <2>2, <2>3 DEF FramesOf
  <1>0. q \in Nat \ {0}
    BY <1>1
  <1> HIDE DEF c, p, q, L, st, f
  <1>9. /\ st \in Seq(FramesOf(T)) /\ Len(st) = L
        /\ \A k, i : Pending(st, k, i) <=> Pending(stack, k, i)
        /\ \A k, i : Pending(stack, k, i) => Held(st, k, i) = Held(stack, k, i)
        /\ \A k, y : k # L => (Debt(st, k, y) <=> Debt(stack, k, y))
        /\ \A y : Debt(st, L, y) <=> InDebt(stack[L].code, q, y)
    BY <1>0, <1>6, TopMoves DEF L, st
  <1>10. /\ stack' \in Seq(FramesOf(T)) /\ stack' # <<>>
         /\ DOMAIN stack' = DOMAIN st \cup {L + 1} /\ L + 1 \notin DOMAIN st
         /\ stack'[L + 1] = f /\ \A k \in DOMAIN st : stack'[k] = st[k]
    BY <1>6, <1>7, <1>8, <1>9
  <1>11. \A k, i : /\ Pending(stack', k, i) <=> Pending(st, k, i)
                   /\ Pending(st, k, i) => Held(stack', k, i) = Held(st, k, i)
    BY <1>8, <1>10 DEF Pending, Held
  <1>12. \A k, y : Debt(stack', k, y) => Debt(st, k, y)
    BY <1>8, <1>10 DEF Debt
  <1>13. \A k \in Nat, y \in Variable : ~Debt(stack, k, y)
    BY <1>1, <1>4 DEF DeferInv, WillBeClosed, Debt, L, c, p
  <1>14. \A k \in Nat, y \in Variable : ~Debt(stack', k, y)
    <2>1. \A y \in Variable : ~Debt(st, L, y)
      BY <1>1, <1>5, <1>9
    <2> QED BY <1>9, <1>12, <1>13, <2>1
  <1>15. closes' = closes /\ values' = values /\ ended' = ended
    BY DEF CallFunc
  <1>16. ended = "no" /\ ended # "exit" /\ WillBeClosed
    BY DEF DeferInv
  <1>17. WillBeClosed'
    <2>1. /\ \A k, i \in Nat : Pending(stack', k, i) <=> Pending(stack, k, i)
          /\ \A k, i \in Nat : Pending(stack, k, i) => Held(stack', k, i) = Held(stack, k, i)
      BY <1>9, <1>11
    <2> QED BY <1>6, <1>13, <1>14, <1>15, <1>16, <2>1, NothingOwedChanges DEF L
  <1> QED BY <1>10, <1>15, <1>16, <1>17 DEF DeferInv

LEMMA PanicOrExitStep ==
  ASSUME NEW T, TidyTexts(T), DeferInv(T), stack # <<>>, ~Leaving, PanicOrExit
  PROVE  DeferInv(T)'
  <1>1. /\ TidyText(top.code) /\ top.pc \in DOMAIN top.code /\ stmt = top.code[top.pc]
        /\ TidyStmt(top.code, top.pc) /\ top.pc \in Nat \ {0}
    BY Statements
  <1>2. closes' = closes /\ values' = values
    BY DEF PanicOrExit
  <1>3. CASE stmt.op = "panic"
    <2>1. stack' = Moved(Beyond) /\ ended' = ended
      BY <1>3 DEF PanicOrExit
    <2>2. \A x \in Variable : ~InDebt(top.code, top.pc, x)
      BY <1>1, <1>3 DEF TidyStmt, DefersClose
    <2>3. \A x \in Variable : ~InDebt(top.code, top.pc + Beyond, x)
      <3>1. top.pc + Beyond \in Nat /\ top.pc + Beyond >= Beyond
        BY <1>1 DEF Beyond
      <3> QED BY <1>1, <3>1, TextFacts
    <2>4. Beyond \in Nat \ {0} /\ values' \in [Variable -> Int]
      BY <1>2 DEF Beyond, DeferInv
    <2> QED BY <1>2, <2>1, <2>2, <2>3, <2>4, QuietMove
  <1>4. CASE stmt.op = "exit"
    <2>1. stack' = <<>> /\ ended' = "exit"
      BY <1>4 DEF PanicOrExit
    <2>2. /\ \A k, i : ~Pending(stack', k, i)
          /\ \A k, x : ~Debt(stack', k, x)
      BY <2>1 DEF Pending, Debt
    <2>3. WillBeClosed'
      BY <1>2, <2>1, <2>2 DEF DeferInv, WillBeClosed
    <2>4. stack' \in Seq(FramesOf(T))
      BY <2>1
    <2> QED BY <1>2, <2>1, <2>3, <2>4 DEF DeferInv
  <1> QED BY <1>3, <1>4 DEF PanicOrExit

(* s has n items, the last of them in addition to those of f.              *)
IsOneMore(S, s, f, n) ==
  /\ f \in Seq(S) /\ n \in Nat \ {0} /\ Len(f) = n - 1
  /\ DOMAIN s = DOMAIN f \cup {n} /\ n \notin DOMAIN f
  /\ Last(s) = s[n] /\ Last(s) \in S
  /\ \A i \in DOMAIN f : f[i] = s[i]

(* The last of a sequence is taken off.                                    *)
LEMMA OneLess ==
  ASSUME NEW S, NEW s \in Seq(S), s # <<>>, NEW n, n = Len(s)
  PROVE  IsOneMore(S, s, Front(s), n)
  <1>1. n \in Nat \ {0} /\ DOMAIN s = 1 .. n
    BY EmptySeq
  <1>2. /\ Front(s) \in Seq(S) /\ Len(Front(s)) = n - 1
        /\ \A i \in 1 .. n - 1 : Front(s)[i] = s[i]
    <2>1. CASE n = 1
      BY <1>1, <2>1, SubSeqEmpty DEF Front
    <2>2. CASE n # 1
      BY <1>1, <2>2, SubSeqProperties DEF Front
    <2> QED BY <2>1, <2>2
  <1>3. DOMAIN Front(s) = 1 .. n - 1
    BY <1>2
  <1> QED BY <1>1, <1>2, <1>3 DEF Last, IsOneMore

(* The last deferred call of a function that is left.                      *)
LEMMA RunDeferredStep ==
  ASSUME NEW T, TidyTexts(T), DeferInv(T), stack # <<>>, RunDeferred
  PROVE  DeferInv(T)'
  <1> DEFINE L == Len(stack)
             p == top.pc
             ds == Front(top.defers)
             d == Last(top.defers)
             n == Len(top.defers)
  <1>1. /\ top = stack[L] /\ p \in Nat \ {0} /\ top.defers \in Seq(Deferred)
        /\ \A x : ~InDebt(top.code, p, x)
    BY Statements DEF RunDeferred
  <1>2. top.defers # <<>>
    BY DEF RunDeferred
  <1>3. /\ ds \in Seq(Deferred) /\ n \in Nat \ {0}
        /\ DOMAIN top.defers = DOMAIN ds \cup {n} /\ n \notin DOMAIN ds
        /\ d = top.defers[n] /\ d \in Deferred
        /\ \A i \in DOMAIN ds : ds[i] = top.defers[i]
    <2>1. PICK s \in Seq(Deferred) : s = top.defers
      BY <1>1
    <2>2. s # <<>>
      BY <1>2, <2>1
    <2>3. PICK m : m = Len(s)
      OBVIOUS
    <2>4. /\ Front(s) \in Seq(Deferred) /\ m \in Nat \ {0}
          /\ DOMAIN s = DOMAIN Front(s) \cup {m} /\ m \notin DOMAIN Front(s)
          /\ Last(s) = s[m] /\ Last(s) \in Deferred
          /\ \A i \in DOMAIN Front(s) : Front(s)[i] = s[i]
      <3>1. IsOneMore(Deferred, s, Front(s), m)
        BY <2>2, <2>3, OneLess
      <3> QED BY <3>1 DEF IsOneMore
    <2> QED BY <2>1, <2>3, <2>4
  <1>4. stack \in Seq(FramesOf(T)) /\ L \in Nat \ {0}
    BY Tops DEF DeferInv
  <1>5. stack' = WithDefers(stack, p, ds)
    <2>1. stack' = [stack EXCEPT ![L].defers = Front(@)] /\ L \in DOMAIN stack /\ stack[L] \in FramesOf(T)
      BY <1>4, Tops DEF RunDeferred
    <2>2. stack' = [stack EXCEPT ![L] = [stack[L] EXCEPT !.defers = Front(stack[L].defers)]]
      BY <2>1
    <2>3. [stack[L] EXCEPT !.pc = p, !.defers = ds] = [stack[L] EXCEPT !.defers = Front(stack[L].defers)]
      BY <1>1, <2>1 DEF FramesOf
    <2> QED BY <2>2, <2>3 DEF WithDefers
  <1>6. ended' = ended /\ values' \in [Variable -> Int]
    <2> DEFINE new == CASE d.do = "add" -> values[d.x] + d.v
                        [] d.do = "times" -> values[d.x] * d.v
                        [] d.do = "set" \/ (d.do = "recover" /\ panicking) -> d.v
                        [] OTHER -> values[d.x]
    <2>1. d.x \in Variable /\ d.v \in Int /\ values[d.x] \in Int
      BY <1>3 DEF Deferred, DeferInv
    <2>2. values[d.x] + d.v \in Int /\ values[d.x] * d.v \in Int
      BY <2>1
    <2>3. values' = [values EXCEPT ![d.x] = new] /\ ended' = ended
      BY DEF RunDeferred
    <2> HIDE DEF d
    <2>4. new \in Int
      BY <2>1, <2>2
    <2> HIDE DEF new
    <2> QED BY <2>1, <2>3, <2>4 DEF DeferInv
  <1>7. IF d.do = "close" THEN Closing(d.v) ELSE closes' = closes
    BY DEF RunDeferred
  <1> HIDE DEF L, p, ds, d, n
  <1>8. CASE d.do # "close"
    <2>1. \A i \in Nat : i \in DOMAIN ds /\ ds[i].do = "close" <=>
                         i \in DOMAIN top.defers /\ top.defers[i].do = "close"
      BY <1>3, <1>8
    <2> QED BY <1>1, <1>3, <1>5, <1>6, <1>7, <1>8, <2>1, OtherDefers DEF p
  <1>9. CASE d.do = "close"
    <2> DEFINE h == d.v
    <2>1. /\ \A i : Pending(stack, L, i) <=> i \in DOMAIN top.defers /\ top.defers[i].do = "close"
          /\ \A i : Held(stack, L, i) = top.defers[i].v
          /\ \A y : Debt(stack, L, y) <=> InDebt(top.code, p, y)
      BY TopsDefers DEF L, p
    <2>2. /\ stack' \in Seq(FramesOf(T)) /\ stack' # <<>> /\ Len(stack') = L
          /\ \A k, i : k # L => /\ Pending(stack', k, i) <=> Pending(stack, k, i)
                                /\ Pending(stack, k, i) => Held(stack', k, i) = Held(stack, k, i)
          /\ \A i : Pending(stack', L, i) <=> i \in DOMAIN ds /\ ds[i].do = "close"
          /\ \A i : Held(stack', L, i) = ds[i].v
          /\ \A k, y : k # L => (Debt(stack', k, y) <=> Debt(stack, k, y))
          /\ \A y : Debt(stack', L, y) <=> InDebt(stack[L].code, p, y)
      <3>1. stack \in Seq(FramesOf(T)) /\ p \in Nat \ {0} /\ ds \in Seq(Deferred)
        BY <1>1, <1>3, <1>4
      <3>2. stack # <<>> /\ stack' = WithDefers(stack, p, ds)
        BY <1>5
      <3>3. OnlyTheTop(T, stack, p, ds, stack')
        BY <3>1, <3>2, TopDefers
      <3> QED BY <3>3, Zenon DEF L, OnlyTheTop
    <2>3. \A k \in Nat, y \in Variable : ~Debt(stack, k, y)
      BY <1>1, <2>1 DEF DeferInv, WillBeClosed, L
    <2>4. \A k \in Nat, y \in Variable : ~Debt(stack', k, y)
      BY <1>1, <2>2, <2>3
    (* All but the n-th of the top stay.                                   *)
    <2>5. Pending(stack, L, n) /\ Held(stack, L, n) = h
      BY <1>3, <1>9, <2>1
    <2>6. \A k, i \in Nat :
            /\ Pending(stack', k, i) <=> Pending(stack, k, i) /\ ~(k = L /\ i = n)
            /\ Pending(stack', k, i) => Held(stack', k, i) = Held(stack, k, i)
      <3>1. \A i \in Nat : /\ Pending(stack', L, i) <=> Pending(stack, L, i) /\ i # n
                           /\ Pending(stack', L, i) => Held(stack', L, i) = Held(stack, L, i)
        BY <1>3, <2>1, <2>2
      <3> QED BY <2>2, <3>1
    <2>7. h \in DOMAIN closes /\ closes[h] = 0
      BY <1>3, <1>4, <2>5 DEF DeferInv, WillBeClosed
    <2>8. /\ closes' \in Seq(Nat) /\ DOMAIN closes' = DOMAIN closes /\ closes'[h] = 1
          /\ \A g \in DOMAIN closes : g # h => closes'[g] = closes[g]
      <3>1. closes' = [closes EXCEPT ![h] = closes[h] + 1]
        BY <1>7, <1>9, <2>7 DEF Closing
      <3>2. closes' = [closes EXCEPT ![h] = 1]
        BY <2>7, <3>1
      <3>3. closes \in Seq(Nat)
        BY DEF DeferInv
      <3> HIDE DEF h
      <3> QED BY <2>7, <3>2, <3>3
    <2>9. ended = "no" /\ ended # "exit"
      BY DEF DeferInv
    <2> HIDE DEF h
    <2>10. /\ \A k, i \in Nat : Pending(stack, k, i) =>
                Held(stack, k, i) \in DOMAIN closes /\ closes[Held(stack, k, i)] = 0
           /\ \A k, i, l, j \in Nat :
                Pending(stack, k, i) /\ Pending(stack, l, j) /\ Held(stack, k, i) = Held(stack, l, j)
                  => k = l /\ i = j
           /\ \A g \in DOMAIN closes : closes[g] <= 1
           /\ \A g \in DOMAIN closes : closes[g] = 0 =>
                \E k, i \in Nat : Pending(stack, k, i) /\ Held(stack, k, i) = g
      BY <1>4, <2>3, <2>9 DEF DeferInv, WillBeClosed, L
    <2>11. \A k, i \in Nat : Pending(stack', k, i) => Held(stack, k, i) # h
      BY <1>3, <1>4, <2>5, <2>6, <2>10
    <2>12. WillBeClosed'
      <3>1. \A g \in DOMAIN closes' : closes'[g] <= 1
        BY <2>8, <2>10
      <3>2. \A k, i \in Nat : Pending(stack', k, i) =>
              Held(stack', k, i) \in DOMAIN closes' /\ closes'[Held(stack', k, i)] = 0
        BY <2>6, <2>8, <2>10, <2>11
      <3>3. \A k, i, l, j \in Nat :
              Pending(stack', k, i) /\ Pending(stack', l, j) /\ Held(stack', k, i) = Held(stack', l, j)
                => k = l /\ i = j
        BY <2>6, <2>10
      <3>4. \A g \in DOMAIN closes' : closes'[g] = 0 =>
              \E k, i \in Nat : Pending(stack', k, i) /\ Held(stack', k, i) = g
        <4> SUFFICES ASSUME NEW g \in DOMAIN closes', closes'[g] = 0
                     PROVE  \E k, i \in Nat : Pending(stack', k, i) /\ Held(stack', k, i) = g
          OBVIOUS
        <4>1. g # h /\ g \in DOMAIN closes /\ closes[g] = 0
          BY <2>8
        <4>2. PICK k \in Nat, i \in Nat : Pending(stack, k, i) /\ Held(stack, k, i) = g
          BY <2>10, <4>1
        <4>3. ~(k = L /\ i = n)
          BY <2>5, <4>1, <4>2
        <4> QED BY <2>6, <4>2, <4>3
      <3> QED BY <2>4, <3>1, <3>2, <3>3, <3>4 DEF WillBeClosed
    <2> QED BY <1>6, <2>2, <2>8, <2>9, <2>12 DEF DeferInv
  <1> QED BY <1>8, <1>9

(* A function is over, and with it perhaps the program.                    *)
LEMMA PopStep ==
  ASSUME NEW T, TidyTexts(T), DeferInv(T), stack # <<>>, PopFrame
  PROVE  DeferInv(T)'
  <1> DEFINE L == Len(stack)
             callers == Front(stack)
             M == Len(callers)
  <1>1. /\ top = stack[L] /\ \A x : ~InDebt(top.code, top.pc, x)
        /\ top.defers = <<>>
    BY Statements DEF PopFrame
  <1>2. stack \in Seq(FramesOf(T)) /\ L \in Nat \ {0} /\ L \in DOMAIN stack
    BY Tops DEF DeferInv
  <1>3. /\ callers \in Seq(FramesOf(T)) /\ M = L - 1
        /\ DOMAIN stack = DOMAIN callers \cup {L} /\ L \notin DOMAIN callers
        /\ \A k \in DOMAIN callers : callers[k] = stack[k]
    <2>1. IsOneMore(FramesOf(T), stack, Front(stack), L)
      BY <1>2, OneLess
    <2> QED BY <2>1 DEF IsOneMore
  <1>4. closes' = closes /\ values' = values
    BY DEF PopFrame
  <1>5. \/ callers = <<>> /\ stack' = <<>> /\ ended' \in {"panic", "return"}
        \/ callers # <<>> /\ stack' = AtPlace(callers, Beyond) /\ ended' = ended
        \/ callers # <<>> /\ stack' = callers /\ ended' = ended
    BY DEF PopFrame, AtPlace
  <1> HIDE DEF L, callers, M
  <1>6. \A k, i : /\ Pending(callers, k, i) <=> Pending(stack, k, i)
                  /\ Pending(callers, k, i) => Held(callers, k, i) = Held(stack, k, i)
    <2>1. DOMAIN top.defers = {}
      BY <1>1
    <2> QED BY <1>1, <1>3, <2>1 DEF Pending, Held
  <1>7. \A k \in Nat, x \in Variable : ~Debt(stack, k, x)
    <2>1. \A x : ~Debt(stack, L, x)
      BY <1>1 DEF Debt
    <2> QED BY <2>1 DEF DeferInv, WillBeClosed, L
  <1>8. \A k \in Nat, x \in Variable : ~Debt(callers, k, x)
    <2>1. \A k, x : Debt(callers, k, x) => Debt(stack, k, x)
      BY <1>3 DEF Debt
    <2> QED BY <1>7, <2>1
  <1>9. ended = "no" /\ ended # "exit" /\ WillBeClosed
    BY DEF DeferInv
  <1>10. /\ stack' \in Seq(FramesOf(T)) /\ (ended' = "no" <=> stack' # <<>>)
         /\ \A k, i \in Nat : Pending(stack', k, i) <=> Pending(stack, k, i)
         /\ \A k, i \in Nat : Pending(stack, k, i) => Held(stack', k, i) = Held(stack, k, i)
         /\ \A k \in Nat, x \in Variable : ~Debt(stack', k, x)
    <2>1. CASE callers = <<>> /\ stack' = <<>> /\ ended' \in {"panic", "return"}
      <3>1. stack' = callers
        BY <2>1
      <3> QED BY <1>3, <1>6, <1>8, <2>1, <3>1
    <2>2. CASE callers # <<>> /\ stack' = callers /\ ended' = ended
      BY <1>3, <1>6, <1>8, <1>9, <2>2
    <2>3. CASE callers # <<>> /\ stack' = AtPlace(callers, Beyond) /\ ended' = ended
      <3>0. Beyond \in Nat \ {0}
        BY DEF Beyond
      <3>1. /\ stack' \in Seq(FramesOf(T)) /\ stack' # <<>>
            /\ \A k, i : Pending(stack', k, i) <=> Pending(callers, k, i)
            /\ \A k, i : Pending(callers, k, i) => Held(stack', k, i) = Held(callers, k, i)
            /\ \A k, x : k # M => (Debt(stack', k, x) <=> Debt(callers, k, x))
            /\ \A x : Debt(stack', M, x) <=> InDebt(callers[M].code, Beyond, x)
        <4>1. /\ callers \in Seq(FramesOf(T)) /\ callers # <<>> /\ Beyond \in Nat \ {0}
              /\ stack' = AtPlace(callers, Beyond)
          BY <1>3, <2>3, <3>0
        <4>2. PICK st2 : st2 = stack'
          OBVIOUS
        <4>3. PICK st : st = callers
          OBVIOUS
        <4>4. st \in Seq(FramesOf(T)) /\ st # <<>> /\ st2 = AtPlace(st, Beyond)
          BY <4>1, <4>2, <4>3
        <4>5. /\ st2 \in Seq(FramesOf(T)) /\ st2 # <<>>
              /\ \A k, i : Pending(st2, k, i) <=> Pending(st, k, i)
              /\ \A k, i : Pending(st, k, i) => Held(st2, k, i) = Held(st, k, i)
              /\ \A k, x : k # Len(st) => (Debt(st2, k, x) <=> Debt(st, k, x))
              /\ \A x : Debt(st2, Len(st), x) <=> InDebt(st[Len(st)].code, Beyond, x)
          BY <3>0, <4>4, TopMoves
        <4> QED BY <4>2, <4>3, <4>5 DEF M
      <3>2. \A x : ~InDebt(callers[M].code, Beyond, x)
        <4>1. callers[M] \in FramesOf(T)
          BY <1>3, <2>3, Tops DEF M
        <4>2. TidyText(callers[M].code)
          BY <4>1 DEF FramesOf, TidyTexts
        <4> QED BY <4>2, <3>0, TextFacts DEF Beyond
      <3>3. \A k \in Nat, x \in Variable : ~Debt(stack', k, x)
        BY <1>8, <3>1, <3>2
      <3> QED BY <1>6, <1>9, <2>3, <3>1, <3>3
    <2> QED BY <1>5, <2>1, <2>2, <2>3
  <1>11. WillBeClosed'
    BY <1>2, <1>4, <1>7, <1>9, <1>10, NothingOwedChanges DEF L
  <1> QED BY <1>4, <1>10, <1>11 DEF DeferInv

-----------------------------------------------------------------------------

LEMMA DeferStarts ==
  ASSUME NEW T, NEW routines, NEW table, TidyTexts(T),
         DeferInit(routines, table), table[routine].code \in T
  PROVE  DeferInv(T)
  <1> DEFINE f == Frame(table[routine].code)
  <1>1. f \in FramesOf(T) /\ f.code \in T /\ f.pc = 1 /\ f.defers = <<>>
    <2>1. <<>> \in Seq(Deferred)
      OBVIOUS
    <2> QED BY <2>1 DEF Frame, FramesOf
  <1>2. stack = <<f>> /\ closes = <<>> /\ ended = "no" /\ values = [x \in Variable |-> 0]
    BY DEF DeferInit
  <1> HIDE DEF f
  <1>3. stack \in Seq(FramesOf(T)) /\ stack # <<>> /\ DOMAIN stack = {1} /\ stack[1] = f
    BY <1>1, <1>2
  <1>4. \A k, i : ~Pending(stack, k, i)
    BY <1>1, <1>3 DEF Pending
  <1>5. \A k, x : ~Debt(stack, k, x)
    <2>1. \A x : ~InDebt(f.code, 1, x)
      BY <1>1, TextFacts DEF TidyTexts
    <2> QED BY <1>1, <1>3, <2>1 DEF Debt
  <1>6. DOMAIN closes = {} /\ closes \in Seq(Nat)
    BY <1>2
  <1>7. WillBeClosed
    BY <1>4, <1>5, <1>6 DEF WillBeClosed
  <1>8. values \in [Variable -> Int]
    BY <1>2
  <1> QED BY <1>2, <1>3, <1>6, <1>7, <1>8 DEF DeferInv

LEMMA DeferStutters ==
  ASSUME NEW T, DeferInv(T), UNCHANGED deferVars
  PROVE  DeferInv(T)'
  <1>1. stack' = stack /\ values' = values /\ closes' = closes /\ ended' = ended
    BY DEF deferVars
  <1>2. (ended = "no" <=> stack # <<>>) /\ stack \in Seq(FramesOf(T)) /\ WillBeClosed
        /\ values \in [Variable -> Int] /\ closes \in Seq(Nat)
    BY DEF DeferInv
  <1>3. WillBeClosed'
    <2>1. /\ \A k, i : Pending(stack', k, i) <=> Pending(stack, k, i)
          /\ \A k, i : Held(stack', k, i) = Held(stack, k, i)
          /\ \A k, x : Debt(stack', k, x) <=> Debt(stack, k, x)
          /\ Len(stack') = Len(stack)
      BY <1>1
    <2> QED BY <1>1, <1>2, <2>1 DEF WillBeClosed
  <1> QED BY <1>1, <1>2, <1>3 DEF DeferInv

LEMMA DeferStep ==
  ASSUME NEW T, TidyTexts(T), DeferInv(T), [DeferNext]_deferVars
  PROVE  DeferInv(T)'
  <1>1. CASE UNCHANGED deferVars
    BY <1>1, DeferStutters
  <1>2. CASE DeferNext
    <2>1. stack # <<>>
      BY <1>2 DEF DeferNext
    <2>2. CASE ~Leaving /\ Plain
      BY <2>1, <2>2, PlainStep
    <2>3. CASE ~Leaving /\ Fallible
      <3>1. CASE stmt.op \in {"open", "try"} /\ Fails
        BY <2>1, <2>3, <3>1, FailStep DEF Fallible
      <3>2. CASE stmt.op \in {"open", "make"} /\ Opens(stmt.x)
        BY <2>1, <2>3, <3>2, OpenStep DEF Fallible
      <3>3. CASE stmt.op = "try" /\ GoOn /\ UNCHANGED <<values, closes, most, failed>>
        <4>1. /\ TidyText(top.code) /\ top.pc \in DOMAIN top.code /\ stmt = top.code[top.pc]
              /\ TidyStmt(top.code, top.pc)
          BY <2>1, <2>3, Statements
        <4>2. \A x \in Variable : ~InDebt(top.code, top.pc, x)
          BY <3>3, <4>1 DEF TidyStmt, DefersClose
        <4>3. \A x \in Variable : ~InDebt(top.code, top.pc + 1, x)
          BY <3>3, <4>1, DebtsGoOn DEF Opening
        <4>4. /\ stack' = Moved(1) /\ closes' = closes /\ ended' = ended
              /\ values' \in [Variable -> Int]
          BY <2>3, <3>3 DEF Fallible, GoOn, DeferInv
        <4> QED BY <2>1, <4>2, <4>3, <4>4, QuietMove
      <3> QED BY <2>3, <3>1, <3>2, <3>3 DEF Fallible
    <2>4. CASE ~Leaving /\ UseOrClose
      BY <2>1, <2>4, UseStep
    <2>5. CASE ~Leaving /\ Register
      BY <2>1, <2>5, RegisterStep
    <2>6. CASE ~Leaving /\ CallFunc
      BY <2>1, <2>6, CallStep
    <2>7. CASE ~Leaving /\ PanicOrExit
      BY <2>1, <2>7, PanicOrExitStep
    <2>8. CASE RunDeferred
      BY <2>1, <2>8, RunDeferredStep
    <2>9. CASE PopFrame
      BY <2>1, <2>9, PopStep
    <2> QED BY <1>2, <2>2, <2>3, <2>4, <2>5, <2>6, <2>7, <2>8, <2>9 DEF DeferNext, Execute
  <1> QED BY <1>1, <1>2

LEMMA DeferredIsClosed ==
  ASSUME NEW T, DeferInv(T)
  PROVE  ClosedAtTheEnd
  <1>1. \A h \in DOMAIN closes : closes[h] <= 1
    BY DEF DeferInv, WillBeClosed
  <1>2. ASSUME ended \in {"return", "panic"} PROVE Opened = {}
    <2>1. stack = <<>> /\ ended # "exit"
      BY <1>2 DEF DeferInv
    <2>2. /\ \A k, i : ~Pending(stack, k, i)
          /\ \A k, x : ~Debt(stack, k, x)
      BY <2>1 DEF Pending, Debt
    <2> QED BY <2>1, <2>2 DEF Opened, DeferInv, WillBeClosed
  <1> QED BY <1>1, <1>2 DEF ClosedAtTheEnd

(* Whatever the functions of a program are, if each defers the close of    *)
(* what it opens before it does anything else with it than use it, then    *)
(* wherever steps fail, panics start and recovers stop them, everything it *)
(* opened is closed exactly once when it is over.                          *)
THEOREM DeferCloses ==
  ASSUME NEW T, NEW routines, NEW table, TidyTexts(T),
         \A r \in routines : table[r].code \in T
  PROVE  DeferInit(routines, table) /\ [][DeferNext]_deferVars => []ClosedAtTheEnd
  <1>1. DeferInit(routines, table) => DeferInv(T)
    BY DeferStarts DEF DeferInit
  <1>2. DeferInv(T) /\ [DeferNext]_deferVars => DeferInv(T)'
    BY DeferStep
  <1>3. DeferInv(T) => ClosedAtTheEnd
    BY DeferredIsClosed
  <1> QED BY <1>1, <1>2, <1>3, PTL

(* The texts of the functions of the repository, but for the profiler that *)
(* closes its files itself, and the bodies of what they call.              *)
OwnTexts == {Routines[r].code : r \in DOMAIN Routines \ {"profiling"}}
BodiesIn(c) == {c[i].v : i \in {j \in DOMAIN c : c[j].op = "func"}}
Texts == OwnTexts \cup UNION {BodiesIn(c) : c \in OwnTexts}

LEMMA TextsAreTidy == TidyTexts(Texts)
  <1> SUFFICES ASSUME NEW c \in Texts
               PROVE  /\ TidyText(c)
                      /\ \A i \in DOMAIN c : c[i].op = "func" => c[i].v \in Texts
    BY DEF TidyTexts
  <1>1. \A b \in OwnTexts : /\ TidyText(b)
                            /\ \A i \in DOMAIN b : b[i].op = "func" =>
                                 /\ TidyText(b[i].v)
                                 /\ \A j \in DOMAIN b[i].v : b[i].v[j].op # "func"
    BY FunctionsAreTidy DEF OwnTexts
  <1>2. CASE c \in OwnTexts
    <2>1. ASSUME NEW i \in DOMAIN c, c[i].op = "func" PROVE c[i].v \in Texts
      <3>1. c[i].v \in BodiesIn(c)
        BY <2>1 DEF BodiesIn
      <3> QED BY <1>2, <3>1 DEF Texts
    <2> QED BY <1>1, <1>2, <2>1
  <1>3. CASE c \notin OwnTexts
    <2>1. PICK b \in OwnTexts : c \in BodiesIn(b)
      BY <1>3 DEF Texts
    <2>2. PICK i \in DOMAIN b : b[i].op = "func" /\ c = b[i].v
      BY <2>1 DEF BodiesIn
    <2> QED BY <1>1, <2>1, <2>2
  <1> QED BY <1>2, <1>3

(* Every function of the repository that defers, but for the profiler:     *)
(* what it opens has been closed, once, when it is over.                   *)
THEOREM FunctionsCloseWhatTheyOpen ==
  SequentialSpec => [](routine # "profiling" => ClosedAtTheEnd)
  <1> DEFINE J == routine # "profiling" => DeferInv(Texts)
  <1>1. SequentialInit => J
    <2> SUFFICES ASSUME SequentialInit, routine # "profiling" PROVE DeferInv(Texts)
      OBVIOUS
    <2>1. "nilDeref" \in DOMAIN Routines
      BY DEF Routines
    <2>2. PICK routines \in SUBSET DOMAIN Routines : DeferInit(routines, Routines)
      <3>1. DeferInit({"nilDeref"}, Routines) \/ DeferInit(DOMAIN Routines, Routines)
        BY DEF SequentialInit, NoRoutine
      <3>2. {"nilDeref"} \in SUBSET DOMAIN Routines /\ DOMAIN Routines \in SUBSET DOMAIN Routines
        BY <2>1
      <3> QED BY <3>1, <3>2
    <2>3. routine \in DOMAIN Routines \ {"profiling"}
      BY <2>2 DEF DeferInit
    <2>4. Routines[routine].code \in Texts
      BY <2>3 DEF Texts, OwnTexts
    <2> QED BY <2>2, <2>4, TextsAreTidy, DeferStarts
  <1>2. J /\ [SequentialNext]_<<gcVars, listVars, todoVars, vars, deferVars, input>> => J'
    <2> SUFFICES ASSUME J, [SequentialNext]_<<gcVars, listVars, todoVars, vars, deferVars, input>>
                 PROVE  J'
      OBVIOUS
    <2>1. [DeferNext]_deferVars
      BY DEF SequentialNext
    <2>2. routine' = routine
      BY <2>1 DEF DeferNext, deferVars
    <2>3. DeferInv(Texts) => DeferInv(Texts)'
      BY <2>1, TextsAreTidy, DeferStep
    <2> QED BY <2>2, <2>3
  <1>3. J => (routine # "profiling" => ClosedAtTheEnd)
    BY DeferredIsClosed
  <1> QED BY <1>1, <1>2, <1>3, PTL DEF SequentialSpec

===============================================================================
