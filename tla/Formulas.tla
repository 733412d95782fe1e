------------------------------- MODULE Formulas -------------------------------
(***************************************************************************)
(* The functions of the repository that compute and change nothing: size   *)
(* classes and gaps (adv026), pause statistics (adv029), CPU limits        *)
(* (adv007), goroutine dumps (adv024), schedtrace lines (adv008), clocks   *)
(* (adv010), the word of a mutex (adv011), the environment of a child      *)
(* (adv003), growing a slice (adv025) and sync.Pool (adv015).  Each is     *)
(* followed by what it should compute, said in another way.                *)
(***************************************************************************)
EXTENDS Integers, Sequences, SequencesExt, FiniteSetsExt

Count(s, v) == Cardinality({i \in DOMAIN s : s[i] = v})
Ascending(s) == SortSeq(s, LAMBDA a, b : a < b)

-----------------------------------------------------------------------------
(* adv026.  sort.Search halves lo .. hi until it is empty.                 *)

search(sizes, n) ==
  LET from[r \in (1 .. Len(sizes) + 1) \X (1 .. Len(sizes) + 1)] ==
        LET lo == r[1] hi == r[2] h == (lo + hi) \div 2
        IN IF lo >= hi THEN lo ELSE IF sizes[h] >= n THEN from[<<lo, h>>] ELSE from[<<h + 1, hi>>]
  IN from[<<1, Len(sizes) + 1>>]
classFor(sizes, n) ==
  LET i == search(sizes, n)
  IN IF i = Len(sizes) + 1 THEN <<0, FALSE>> ELSE <<sizes[i], TRUE>>

moreWaste(r, s) == r.requested * s.class < s.requested * r.class
worstFragmentation(sizes, k) ==
  LET rows == [i \in 1 .. Len(sizes) - 1 |->
                [requested |-> sizes[i] + 1, class |-> sizes[i + 1]]]
  IN SubSeq(SortSeq(rows, moreWaste), 1, Min({k, Len(rows)}))

(* The smallest class that fits, or none; no request between two classes   *)
(* wastes more than the first row.                                         *)
ClassesFit(sizes, n) ==
  LET fit == {s \in ToSet(sizes) : s >= n}
      rows == worstFragmentation(sizes, 2)
  IN /\ classFor(sizes, n) = IF fit = {} THEN <<0, FALSE>> ELSE <<Min(fit), TRUE>>
     /\ \A i \in DOMAIN rows : classFor(sizes, rows[i].requested)[1] = rows[i].class
     /\ Len(sizes) > 1 /\ fit # {} /\ n > sizes[1] =>
          ~moreWaste([requested |-> n, class |-> Min(fit)], rows[1])

gaps(dst) == [i \in 1 .. Len(dst) - 1 |-> dst[i + 1] - dst[i]]
modeGap(g) ==
  FoldSeq(LAMBDA d, m : LET n == m.counts[d] + 1
                        IN [counts |-> [m.counts EXCEPT ![d] = n],
                            best |-> IF n > m.bestN THEN d ELSE m.best,
                            bestN |-> Max({n, m.bestN})],
          [counts |-> [d \in ToSet(g) |-> 0], best |-> 0, bestN |-> -1], g)

(* Objects side by side in spans, wherever the next span is: the mode is   *)
(* the size of their class when most of them have a neighbour.             *)
GapIsTheClass(class, spans) ==
  LET dst == FlattenSeq([i \in DOMAIN spans |->
                           [k \in 1 .. spans[i].n |-> spans[i].at + class * k]])
  IN Len(dst) > 2 * Len(spans) => modeGap(gaps(dst)).best = class

-----------------------------------------------------------------------------
(* adv029.  q is the fraction q[1] / q[2].                                 *)

quantile(sorted, q) ==
  IF sorted = <<>> THEN 0
  ELSE sorted[Min({(q[1] * Len(sorted)) \div q[2], Len(sorted) - 1}) + 1]
summarizePauses(ps) ==
  LET cp == Ascending(ps)
  IN IF ps = <<>> THEN [Total |-> 0, Max |-> 0, P50 |-> 0, P99 |-> 0]
     ELSE [Total |-> FoldSeq(LAMBDA d, t : d + t, 0, cp), Max |-> Last(cp),
           P50 |-> quantile(cp, <<1, 2>>), P99 |-> quantile(cp, <<99, 100>>)]

probe(ds) ==
  LET st == summarizePauses(ds)
  IN [Count |-> Len(ds), Min |-> IF ds = <<>> THEN 0 ELSE Ascending(ds)[1],
      P50 |-> st.P50, P99 |-> st.P99, Max |-> st.Max]

(* main.go:78 calls quantile nearest-rank: the least value with the        *)
(* fraction q of all up to it.  The code gives that one unless the rank is *)
(* a whole number, and then the next in order: the median of two is the    *)
(* larger.                                                                 *)
UpTo(ps, v) == Cardinality({i \in DOMAIN ps : ps[i] <= v})
nearestRank(ps, q) == Min({v \in ToSet(ps) : q[2] * UpTo(ps, v) >= q[1] * Len(ps)})
nextRank(ps, q) == Min({v \in ToSet(ps) : q[2] * UpTo(ps, v) > q[1] * Len(ps)})
IsQuantile(ps, v, q) ==
  v = IF (q[1] * Len(ps)) % q[2] # 0 THEN nearestRank(ps, q) ELSE nextRank(ps, q)
SummaryAgrees(ps) ==
  LET s == summarizePauses(ps) m == modeGap(ps) st == probe(ps)
  IN ps # <<>> =>
       /\ IsQuantile(ps, s.P50, <<1, 2>>) /\ IsQuantile(ps, s.P99, <<99, 100>>)
       /\ s.Max = Max(ToSet(ps)) /\ st.Min = Min(ToSet(ps)) /\ st.Min <= s.P50 /\ s.P50 <= s.P99 /\ s.P99 <= s.Max
       /\ s.Total >= s.Max /\ s.Total <= s.Max * Len(ps)
       /\ m.bestN = Count(ps, m.best) /\ \A d \in ToSet(ps) : Count(ps, d) <= m.bestN

-----------------------------------------------------------------------------
(* adv007.  A float64 is a numerator over a denominator: over 0 it is Inf, *)
(* -Inf or NaN, which ParseFloat takes too.  Only its rounding is left     *)
(* out.  A text is what ParseFloat makes of it, or one of the others.      *)

CONSTANT MaxInt   (* math.MaxInt                                           *)
ASSUME MaxIntAssumption == MaxInt \in Nat \ {0}

Special == {<<1, 0>>, <<-1, 0>>, <<0, 0>>}
Float == (Int \X (Nat \ {0})) \cup Special
Error == <<>>
ParseFloat(text) ==
  IF text \in Float THEN text ELSE IF text = <<"-1">> THEN <<-1, 1>> ELSE Error
NoCPULimit == <<0, 1>>

NaN(x) == x = <<0, 0>>
AtMostZero(x) == x[1] <= 0 /\ ~NaN(x)

ratio(quota, period) ==
  LET q == ParseFloat(quota) p == ParseFloat(period)
  IN IF q = Error \/ p = Error THEN Error
     ELSE IF AtMostZero(p) THEN Error ELSE <<q[1] * p[2], q[2] * p[1]>>
parseCPUmaxV2(fields) ==
  IF Len(fields) # 2 THEN Error
  ELSE IF fields[1] = <<"max">> THEN NoCPULimit ELSE ratio(fields[1], fields[2])
parseCPUquotaV1(quota, period) == IF quota = <<"-1">> THEN NoCPULimit ELSE ratio(quota, period)

(* A file is its fields, or Missing.                                       *)
Missing == <<"no", "such", "file">>
detectContainerCPULimit(v2, quota, period) ==
  IF v2 # Missing THEN parseCPUmaxV2(v2)
  ELSE IF quota = Missing \/ period = Missing THEN Error
  ELSE parseCPUquotaV1(quota[1], period[1])

(* int(math.Ceil(limit)): the language leaves open what becomes of a value *)
(* that no int holds.                                                      *)
Unspecified == -1
recommendedGOMAXPROCS(limit, cores) ==
  IF AtMostZero(limit) THEN cores
  ELSE IF limit[2] = 0 \/ limit[1] > MaxInt * limit[2] THEN Unspecified
  ELSE (limit[1] + limit[2] - 1) \div limit[2]
(* Without a limit main demonstrates one.                                  *)
mainLimit(limit, cores) ==
  IF limit = Error THEN <<Max({1, Min({2, cores - 1})}), 1>>
  ELSE IF AtMostZero(limit) THEN <<Max({1, Min({2, cores - 1})}), 1>> ELSE limit

(* Never no P at all; enough for the quota and less than one more, unless  *)
(* a file speaks of Inf or NaN or of more than MaxInt CPUs: then nobody    *)
(* knows.  A v2 file hides the v1 files even when it cannot be parsed.     *)
ProcsCoverTheQuota(v2, quota, period, cores) ==
  LET limit == detectContainerCPULimit(v2, quota, period)
      main == mainLimit(limit, cores)
      procs == recommendedGOMAXPROCS(main, cores)
      file == IF v2 # Missing THEN v2 ELSE <<quota[1], period[1]>>
  IN /\ IF main[2] # 0 /\ main[1] <= MaxInt * main[2]
        THEN /\ procs >= 1
             /\ main[1] <= procs * main[2] /\ procs * main[2] < main[1] + main[2]
        ELSE procs = Unspecified
     /\ main[2] = 0 => file[1] \in Special \/ file[2] \in Special
     /\ v2 # Missing => limit = detectContainerCPULimit(v2, Missing, Missing)
     /\ limit # Error => AtMostZero(limit) \/ main = limit

-----------------------------------------------------------------------------
(* adv024.  A line is a header <<"goroutine", id>> or one of the others.   *)

IsHeader(line) == line[1] = "goroutine"
Blank == <<"">>
parseStacks(lines) ==
  LET end(i) == Min({e \in i + 1 .. Len(lines) + 1 :
                       e = Len(lines) + 1 \/ lines[e] = Blank \/ IsHeader(lines[e])})
      from[i \in 1 .. Len(lines) + 1] ==
        IF i > Len(lines) THEN <<>>
        ELSE IF ~IsHeader(lines[i]) THEN from[i + 1]
        ELSE <<[ID |-> lines[i][2], Raw |-> SubSeq(lines, i + 1, end(i) - 1)]>> \o from[end(i)]
  IN from[1]
isOurs(g) == \E l \in ToSet(g.Raw) : l \in {<<"main.">>, <<"created by main.">>}
takeSnapshot(lines) == {g.ID : g \in ToSet(parseStacks(lines))}
newSince(base, lines) ==
  SortSeq(SelectSeq(parseStacks(lines), LAMBDA g : g.ID \notin base /\ isOurs(g)),
          LAMBDA a, b : a.ID < b.ID)

(* Exactly the goroutines that are not in base and below whose header, and *)
(* above anything that ends the block, is a line of main; in their order.  *)
NewOnesAreFound(base, lines) ==
  LET found == newSince(base, lines)
      Below(h, i) == h < i /\ \A j \in h + 1 .. i : ~IsHeader(lines[j]) /\ lines[j] # Blank
  IN /\ {found[i].ID : i \in DOMAIN found} =
          {lines[h][2] : h \in {h \in DOMAIN lines :
              /\ IsHeader(lines[h]) /\ lines[h][2] \notin base
              /\ \E i \in DOMAIN lines :
                   Below(h, i) /\ lines[i] \in {<<"main.">>, <<"created by main.">>}}}
     /\ \A i, j \in DOMAIN found : i < j => found[i].ID < found[j].ID

-----------------------------------------------------------------------------
(* adv008.  A field is a number that Atoi takes, or one that is too big, or *)
(* no number; the expression lets no such field pass but in the queues.    *)

parseSchedtraceLine(fields, queues) ==
  LET toInt(acc, s) == IF acc.err \/ s = "big" THEN [n |-> acc.n, err |-> TRUE]
                       ELSE [n |-> Append(acc.n, s), err |-> FALSE]
      stats == FoldLeft(toInt, [n |-> <<>>, err |-> FALSE], fields)
  IN IF "word" \in ToSet(fields) \/ stats.err \/ {"word", "big"} \cap ToSet(queues) # {}
     THEN Error ELSE <<stats.n, queues>>

LinesAreWholeOrRefused(fields, queues) ==
  parseSchedtraceLine(fields, queues) =
    IF ToSet(fields \o queues) \subseteq {"1"} THEN <<fields, queues>> ELSE Error

-----------------------------------------------------------------------------
(* adv010 and adv011.                                                      *)

lessOrEqual(a, b) == a[1] <= b[1] /\ a[2] <= b[2]
relation(a, b) ==
  CASE lessOrEqual(a, b) /\ lessOrEqual(b, a) -> "same"
    [] lessOrEqual(a, b) /\ ~lessOrEqual(b, a) -> "before"
    [] lessOrEqual(b, a) /\ ~lessOrEqual(a, b) -> "after"
    [] OTHER -> "concurrent"

(* The demonstration: two writes race unless a message orders them.        *)
ClocksOrder(a, b, c) ==
  /\ relation(a, b) = "before" => relation(b, a) = "after"
  /\ relation(a, b) = "concurrent" <=> \E i, j \in 1 .. 2 : a[i] < b[i] /\ b[j] < a[j]
  /\ {relation(a, b), relation(b, c)} \subseteq {"before"} => relation(a, c) = "before"
  /\ relation(<<1, 0>>, <<0, 1>>) = "concurrent" /\ relation(<<1, 0>>, <<2, 3>>) = "before"

readMutexState(s) ==
  [locked |-> s % 2, woken |-> (s \div 2) % 2, starving |-> (s \div 4) % 2,
   waiterCount |-> s \div 8]
WordIsItsParts(s) ==
  LET r == readMutexState(s)
  IN s = r.locked + 2 * r.woken + 4 * r.starving + 8 * r.waiterCount

-----------------------------------------------------------------------------
(* adv003 and adv025.                                                      *)

childEnv(env) ==
  SelectSeq(env, LAMBDA e : e[1] # "GODEBUG") \o <<<<"GODEBUG", "off">>, <<"DEMO_CHILD", "1">>>>
(* One GODEBUG, whatever there was; nothing else is lost.                  *)
ChildHasOneGODEBUG(env) ==
  LET child == childEnv(env)
  IN /\ {e \in ToSet(child) : e[1] = "GODEBUG"} = {<<"GODEBUG", "off">>}
     /\ Count(child, <<"GODEBUG", "off">>) = 1 /\ Last(child) = <<"DEMO_CHILD", "1">>
     /\ \A e \in ToSet(env) : e[1] # "GODEBUG" => Count(child, e) >= Count(env, e)

(* append doubles a full array (a small one).                              *)
grow(s, n) ==
  FoldLeft(LAMBDA t, i : IF t.len < t.cap THEN [t EXCEPT !.len = @ + 1]
                         ELSE [len |-> t.len + 1, cap |-> Max({1, 2 * t.cap}), allocs |-> t.allocs + 1],
           s, [i \in 1 .. n |-> i])
growNaive(n) == grow([len |-> 0, cap |-> 0, allocs |-> 0], n)
growPrealloc(n) == grow([len |-> 0, cap |-> n, allocs |-> 1], n)
GrowsByDoubling(n) ==
  LET s == growNaive(n) t == growPrealloc(n)
  IN /\ s.len = n /\ s.cap = 2 ^ (s.allocs - 1) /\ s.cap < 2 * n
     /\ t = [len |-> n, cap |-> n, allocs |-> 1]

-----------------------------------------------------------------------------
(* adv015: sync.Pool on one P.  A collection makes local the victim.       *)

NewPool == [local |-> <<>>, victim |-> <<>>, calls |-> 0, got |-> 0]
Get(p) ==
  IF p.local # <<>> THEN [p EXCEPT !.local = Tail(@), !.got = Head(p.local)]
  ELSE IF p.victim # <<>> THEN [p EXCEPT !.victim = Tail(@), !.got = Head(p.victim)]
  ELSE [p EXCEPT !.calls = @ + 1, !.got = p.calls + 1]
PutGot(p) == IF p.got = 0 THEN p ELSE [p EXCEPT !.local = <<p.got>> \o @, !.got = 0]
GC(p) == [p EXCEPT !.victim = p.local, !.local = <<>>]
Use(p, op) == CASE op = "get" -> Get(p) [] op = "put" -> PutGot(p) [] op = "gc" -> GC(p)
After(ops) == FoldLeft(Use, NewPool, ops)

(* new Int objects 1, 2, ...: reused after one GC, another after two.      *)
victimCacheResults ==
  LET one == After(<<"get", "put", "gc", "get">>)
      two == After(<<"get", "put", "gc", "get", "put", "gc", "gc", "get">>)
  IN <<one.got = 1, two.got # 1, two.calls>>

(* An object that was put back comes again until the second collection,    *)
(* and then never; a program that gets once between two never needs New.   *)
PoolForgetsAtTheSecondGC(ops) ==
  LET last == Max({i \in DOMAIN ops : ops[i] = "put"} \cup {0})
      gcs == Cardinality({i \in last + 1 .. Len(ops) : ops[i] = "gc"})
      before == After(SubSeq(ops, 1, last - 1))
      quiet == \A i \in last + 1 .. Len(ops) : ops[i] = "gc"
  IN /\ last > 0 /\ quiet /\ before.got # 0 =>
          IF gcs < 2 THEN Get(After(ops)).got = before.got
          ELSE Get(After(ops)).calls = After(ops).calls + 1
     /\ victimCacheResults = <<TRUE, TRUE, 2>>

(* gcs[i] collections run before the i-th round of a loop; measureLoop     *)
(* asks for one before the first.  A value, not a pointer, in the pool is  *)
(* allocated again by every Put.                                           *)
measureLoop(gcs) == IF gcs = <<>> THEN gcs ELSE [gcs EXCEPT ![1] = @ + 1]
allocationCounts(gcs) ==
  LET round(p, n) == PutGot(Get(FoldLeft(LAMBDA q, i : GC(q), p, [i \in 1 .. n |-> i])))
      warm == After(<<"get", "put">>)
      pool == FoldLeft(round, warm, measureLoop(gcs)).calls - warm.calls
  IN [direct |-> Len(gcs), pointerPool |-> pool, valuePool |-> Len(gcs) + pool]

(* The pool of pointers allocates after two collections in a row only; the *)
(* pool of values never less than no pool at all.                          *)
OnlyPointersPayOff(gcs) ==
  LET counts == allocationCounts(gcs)
  IN /\ counts.pointerPool = Cardinality({i \in DOMAIN gcs : measureLoop(gcs)[i] >= 2})
     /\ counts.pointerPool <= counts.direct /\ counts.direct <= counts.valuePool
===============================================================================
