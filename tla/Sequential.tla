------------------------------ MODULE Sequential ------------------------------
(***************************************************************************)
(* What runs alone, or one at a time behind a lock: the measurements of    *)
(* GCSettings, the list of LinkedList, the handlers of TodoServer, the     *)
(* callers of TokenBucket, the functions of Defers, and those of Formulas  *)
(* and GCSettings, the last on every small input.  A behaviour is about    *)
(* one of the six.                                                         *)
(***************************************************************************)
EXTENDS GCSettings, LinkedList, Formulas, TodoServer, TokenBucket, Defers

VARIABLE input   (* what a function is applied to                          *)

None == [of |-> "nothing"]

SortedSeqs(S) == {Ascending(SetToSeq(T)) : T \in SUBSET S \ {{}}}
Lines == {<<"goroutine", 1>>, <<"goroutine", 2>>, <<"main.">>, <<"created by main.">>,
          <<"sync.">>, Blank}
(* No two goroutines of a dump have the same number.                       *)
IsDump(lines) ==
  \A i, j \in DOMAIN lines : i # j /\ IsHeader(lines[i]) => lines[i] # lines[j]
Numbers == {<<0, 1>>, <<150, 1>>, <<1, 2>>, <<7, 1>>} \cup Special
Tokens == Numbers \cup {<<"-1">>, <<"max">>, <<"word">>}

Clocks == (0 .. 2) \X (0 .. 2)

ChooseInput ==
  \/ \E s \in SortedSeqs(1 .. 6), n \in 1 .. 7 : input = [of |-> "classes", sizes |-> s, n |-> n]
  \/ \E class \in {1, 3}, place \in {4, 40, 50, 90}, n, m \in 1 .. 4 :
       input = [of |-> "spans", class |-> class,
                spans |-> <<[at |-> 20, n |-> n], [at |-> place, n |-> m], [at |-> 60, n |-> n]>>]
  \/ \E gcs \in SeqOf(0 .. 2, 4) : input = [of |-> "loop", gcs |-> gcs]
  \/ \E ps \in SeqOf(0 .. 3, 5) : input = [of |-> "pauses", ps |-> ps]
  \/ \E v2 \in {Missing} \cup SeqOf(Tokens, 2),
        quota, period \in {Missing} \cup {<<t>> : t \in {<<"-1">>, <<7, 1>>, <<0, 0>>, <<"word">>}},
        cores \in {1, 2, 8} :
       input = [of |-> "limits", v2 |-> v2, quota |-> quota, period |-> period, cores |-> cores]
  \/ \E lines \in SeqOf(Lines, 4), base \in SUBSET {1, 2} :
       IsDump(lines) /\ input = [of |-> "dump", lines |-> lines, base |-> base]
  \/ \E f \in SeqOf({"1", "big", "word"}, 3), q \in SeqOf({"1", "big", "word"}, 2) :
       input = [of |-> "trace", fields |-> f, queues |-> q]
  \/ \E a, b, c \in Clocks : input = [of |-> "clocks", a |-> a, b |-> b, c |-> c]
  \/ \E n \in 1 .. 64 : input = [of |-> "number", n |-> n]
  \/ \E env \in SeqOf({<<"GODEBUG", "on">>, <<"DEMO_CHILD", "0">>, <<"PATH", "x">>}, 3) :
       input = [of |-> "env", env |-> env]
  \/ \E ops \in SeqOf({"get", "put", "gc"}, 6) : input = [of |-> "pool", ops |-> ops]
  \/ \E live \in {0, 1, 3, 5, 64, 300, 655, 656, 20000, 40000}, pct \in {-1, 0, 50, 100, 400},
        limit \in {-1, 0, 1, 3, 8, 64, 100, 400, 30000, NoLimit} :
       input = [of |-> "goal", live |-> live, pct |-> pct, limit |-> limit]
  \/ \E container, reserve \in {-1, 0, 1, 3, 4, 5, 16} :
       input = [of |-> "container", container |-> container, reserve |-> reserve]

NoTodos == TodoInit({[c \in Conn |-> CHOOSE r \in TodoRequests : r.op = "list" /\ r.reads]}, {0})
NoRoutine == DeferInit({"nilDeref"}, Routines)
SequentialInit ==
  /\ ListInit /\ Init
  /\ \/ input = None /\ GCInit(Measurements) /\ NoTodos /\ NoRoutine
     \/ /\ GCInit({<<>>})
        /\ \/ input \in [of : {"list", "bucket"}] /\ NoTodos /\ NoRoutine
           \/ input = [of |-> "todos"] /\ NoRoutine
              /\ TodoInit([Conn -> TodoRequests], 0 .. Earlier)
           \/ input = [of |-> "defers"] /\ NoTodos
              /\ DeferInit(DOMAIN Routines, Routines)
           \/ ChooseInput /\ NoTodos /\ NoRoutine

SequentialNext ==
  /\ UNCHANGED input
  /\ \/ GCNext /\ UNCHANGED <<listVars, todoVars, vars, deferVars>>
     \/ input.of = "list" /\ ListNext /\ UNCHANGED <<gcVars, todoVars, vars, deferVars>>
     \/ input.of = "todos" /\ TodoNext /\ UNCHANGED <<gcVars, listVars, vars, deferVars>>
     \/ input.of = "bucket" /\ Next /\ UNCHANGED <<gcVars, listVars, todoVars, deferVars>>
     \/ input.of = "defers" /\ DeferNext /\ UNCHANGED <<gcVars, listVars, todoVars, vars>>

(* The goroutine of every request runs, and the mutex is given to all.     *)
SequentialSpec ==
  /\ SequentialInit /\ [][SequentialNext]_<<gcVars, listVars, todoVars, vars, deferVars, input>>
  /\ \A c \in Conn : WF_todoVars(input.of = "todos" /\ Serve(c))

-----------------------------------------------------------------------------
(* With words that do not wrap the goal is the smaller of the proportional *)
(* one and the one of the limit; it is never below the live heap then, and *)
(* over the limit only for its sake.                                       *)
GoalsFollowTheSettings(live, pct, limit) ==
  LET goal == effectiveHeapGoal(live, pct, limit)
      bounded == limit > 0 /\ limit # NoLimit
  IN live * pct < Word /\ live + (live * pct) \div 100 < Word =>
       /\ goal >= live
       /\ bounded /\ goal > limit => goal = live
       /\ pct >= 0 /\ ~bounded => goal = Max({4, live + (live * pct) \div 100})
       /\ pct < 0 /\ ~bounded => goal = MaxUint
       /\ pct >= 0 /\ bounded => 100 * goal <= Max({400, 100 * live + live * pct})

(* The recommended limit leaves exactly the reserve, is never zero, and    *)
(* passes the container only when the reserve takes all of one that is     *)
(* smaller than a MiB.                                                     *)
LimitFitsTheContainer(container, reserve) ==
  LET rec == recommendMemoryLimit(container, reserve)
  IN IF container <= 0 THEN rec = NoLimit
     ELSE /\ rec > 0
          /\ reserve < container => rec + Max({reserve, 0}) = container
          /\ rec > container <=> reserve >= container /\ container < mib

(* On every input a function agrees with its other description.            *)
FormulasAreRight ==
  CASE input.of = "classes" -> ClassesFit(input.sizes, input.n)
    [] input.of = "spans" -> GapIsTheClass(input.class, input.spans)
    [] input.of = "loop" -> OnlyPointersPayOff(input.gcs)
    [] input.of = "pauses" -> SummaryAgrees(input.ps)
    [] input.of = "limits" -> ProcsCoverTheQuota(input.v2, input.quota, input.period, input.cores)
    [] input.of = "dump" -> NewOnesAreFound(input.base, input.lines)
    [] input.of = "trace" -> LinesAreWholeOrRefused(input.fields, input.queues)
    [] input.of = "clocks" -> ClocksOrder(input.a, input.b, input.c)
    [] input.of = "number" -> WordIsItsParts(input.n) /\ GrowsByDoubling(input.n)
    [] input.of = "env" -> ChildHasOneGODEBUG(input.env)
    [] input.of = "pool" -> PoolForgetsAtTheSecondGC(input.ops)
    [] input.of = "goal" -> GoalsFollowTheSettings(input.live, input.pct, input.limit)
    [] input.of = "container" -> LimitFitsTheContainer(input.container, input.reserve)
    [] OTHER -> TRUE
===============================================================================
