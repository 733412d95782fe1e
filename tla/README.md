# TLA+ models of go-daily-learning

The repository is a collection of small Go programs, one directory each, that
build a concurrent mechanism and explain it. The advanced ones (`adv0NN`) carry
real logic: a tricolor garbage collector with five write barriers, an error
group, a cancellable pipeline, semaphores, a token bucket, queues with
backpressure, a `sync.Once` and a `WaitGroup` with a packed state word, a
work-stealing scheduler, a leak checker, and some fifty demonstrations whose
outcome depends on the order in which goroutines run. This directory specifies
them in TLA+, model-checks them with TLC and proves the most important facts
with TLAPS for every size.

    tlasany M.tla                          parse a module
    tlc -workers 2 -config X.cfg M.tla     model-check a run of the table below
    tlapm M.tla                            check the proofs of a *Proofs module

`PROJECT.json` is the machine-readable index: components, runs, the mutants
that each property must reject, the source lines behind every definition, the
hazards of the code and the theorems.

## 1. Inventory

The programs share no state with each other. Inside a program, goroutines meet
through channels, a mutex, a condition variable, atomics or a context.

| Component | State it keeps | Operations | What is hard | What makes it correct |
|---|---|---|---|---|
| Marking simulator, `adv027` `machine` | heap slots, globals, stack, colours, work list, `stackScanned` | `startMark`, `scanStack`, `step`/`drainN`/`drainAll`, `finishMark`, `storeHeap`, `storeStack`, `loadHeap`, `alloc`, `verify` | the mutator moves pointers behind the marker; the hybrid barrier changes when the stack is scanned; the stack has no barrier | no reachable object is white at the end; old garbage is not kept; marking ends |
| `Group`, `adv021` | semaphore channel, `WaitGroup`, `Once`, first error, context | `NewGroup`, `SetLimit`, `Go`, the goroutine it starts, `Wait` | two failures at once; `Go` blocked on a slot while the context dies; order of the deferred calls | limit, one error, the cause equals the result, nothing left after `Wait` |
| Pipeline, `adv020` | unbuffered channels, context | `Produce`, `ProduceWithDone`, `Square`, `Merge`, `FindFirst`, `WrongFindFirstLeak` | a receiver leaves while values are in flight; closing a channel with several senders | no value lost or doubled; no send on a closed channel; cancelling ends every goroutine |
| Semaphores, `adv022` | channel or `cur`/`max`/`cond`; counters `active` and `max` | `acquire`, `release`, `updateMax`, `runWith*` | lost wake-ups, the race of the compare-and-swap, overtaking | nobody sleeps in vain; capacity holds; the peak is the true peak |
| `tokenBucket`, `adv022` | `tokens`, `last` | `reserveN`, `wait` | the clock is read before the lock; waits are not charged | bounds on what passes in a given time and on how long one waits |
| `UnboundedQueue`, `adv023` | slice, `closed`, `cond` | `Push`, `Pop`, `Close`, `Len` | one `Signal` for several consumers; `Push` after `Close` | first in first out; no lost wake-up; `Close` frees everybody |
| `DropQueue`, `BlockingQueue`, `adv023` | channel, `dropped` | `TryPush`, `Push`, `Drain`, `Close` | capacity 0, parked receivers, a drain that hangs | accepted = drained in order; drops counted; a dropping producer never waits |
| `countingDoubleOnce`, `adv014` | `done`, mutex, two counters | `Do` | several callers past the first look at `done`; `f` calls `Do` | one run, finished before anybody returns; recursion deadlocks |
| `WaitGroup` uses, `adv014` | packed word, channels | `Add`, `Done`, `Wait` in three functions | `Add` inside the goroutine; signed counter beside the waiters | `Wait` covers the workers; only misuse panics |
| Leak checker, `adv024` | a base set of goroutine ids | `parseStacks`, `isOurs`, `newSince`, `Report`, `waitFor`, `awaitReport`, four leaks and their releases, four fixes | a report taken before a goroutine has ended; blocks of a dump without an end | no leak missed, none invented, fixed versions leave nothing |
| Work stealing, `adv002` | `Runq` and `Runnext` per P | `enqueue`, `popLocal`, `stealHalf`, `hasWork`, `runHotLatency` | a task made between a steal and the append of the rest; the slot that nobody can steal | every task runs once; the slot stays; the hot task runs at the announced tick |
| Scheduler programs, `adv001`, `003`-`008`, `016` | counters, done channels, wait groups, `GOMAXPROCS` | the demonstrations; `runSchedulerDemo` with its pool and feeder | cancellation while jobs are fed; the order in which listener and connections are closed | results as announced, everybody ends, `GOMAXPROCS` is put back |
| Channels, select, contexts, `adv017`-`019`, `day022`, `025`, `044`, `045` | channels, contexts | demonstrations, pipelines, a worker pool | order of sends, receives, close and cancel | the order of events that the tests state; a child never cancels its parent; nobody is left |
| Memory, `adv009`-`013`, `day024`, `042`, `043`, `basic011` | shared variables, locks, atomics | publication, counters, spin lock, `RWMutex` map | data races, publication in the wrong order | published data is complete, counters exact, no race but the announced ones |
| GC settings, `adv026`, `028`, `029` (also `015`, `025`) | GOGC, GOMEMLIMIT, GOMAXPROCS of the process; the heap | `runPhase`, `churn`, `measure*`, the goal formulas | a setting left behind; wrap-around; a limit below the live heap | settings are restored; peaks as the tests say |
| Todo server, `day035` | `todos`, `nextID`, `mu` | `listTodos`, `createTodo`, `deleteTodo` | bodies read and answers written with the lock held; deletes that move the array under an encoder | clients are told what a sequential server would tell them, and are answered |
| Linked list, `day054` | chained nodes, `Length` | `PushBack`, `PopBack`, `PeekFront`, `ForEach` | only and last node | the list is what was pushed and not popped |
| Functions, `adv003`, `007`, `008`, `010`, `011`, `015`, `024`-`026`, `029` | none | parsers, size classes, quantiles, vector clocks, pools | rounding, empty input, unfinished lines | agreement with a second description |
| Deferred cleanup, `basic001`, `009`, `012`, `013`, `day030`, `034`, `039`, `050` (also `adv008`, `025`, `027`) | files, directories, responses, profiles; the deferred calls of each frame | open, use, close; `defer`, `panic`, `recover`, `os.Exit` | an early return at every step; when a deferred call reads its argument; one variable for three responses | what is opened is closed once and not before its last use; no panic gets past its `recover` |
| Timers, `day031` | a timer, a ticker and their channels | `Stop`, drain, ticks | a drain that comes after the receive | the ticker gets its turn (it does not, section 3) |
| Other `day0NN`, `basic0NN` | little | language exercises | | |

The hazards, each with its line and the properties that watch it, are listed in
`PROJECT.json`.

## 2. Modules

| Module | Models | Notes |
|---|---|---|
| `TriColor` | `machine`, `adv027/main.go:55-260` | one marking cycle, any heap, any mutator, five barriers |
| `Collector` | the promise of a cycle, without colours or barriers | abstract specification that `TriColor` implements |
| `TriColorScenarios` | the five scenarios and the floating-garbage test | extends `TriColor`, replays the calls |
| `ErrGroup`, `Pipeline` | `Group`; producer, workers, `Merge`, consumers | composed in `Cancellation` |
| `Semaphores` | three limits and `updateMax` | |
| `TokenBucket` | `reserveN`, `wait` | integer clock |
| `UnboundedQueue`, `BoundedQueue` | the queues of `adv023` | composed in `Backpressure` |
| `CountingOnce`, `WaitGroup` | `countingDoubleOnce`; the three uses and the packed word | composed in `WaitGroupOnce` |
| `WorkStealing` | `Proc` and its operations, any number of Ps | |
| `HotLatency` | `runHotLatency`, both modes, any length of the first queue | extends `WorkStealing` |
| `Instructions` | the statements that the concurrent programs consist of, as data | |
| `Goroutines` | what each statement does: scheduler, memory, locks, wait groups, channels, select | external: the Go runtime, as the code uses it |
| `SchedulerPrograms`, `MemoryPrograms`, `ChannelPrograms`, `LeakPrograms` | 68 programs of 28 lessons, each with the results its tests and comments announce | data for `Goroutines` |
| `Ordering` | what is asked of programs about races and joins, and what in their text is enough for it | extends `Goroutines` |
| `GoPrograms` | the table of the programs and what is asked of all of them | extends `Ordering` |
| `GCSettings` | goal formulas, phases of a measurement, the heap under a collector that may run whenever it likes | |
| `LinkedList`, `TodoServer` | `day054`, `day035` | |
| `Formulas` | functions without state, each with a second description | |
| `Defers` | the functions that open something or panic, with their early returns, and what `defer`, `panic`, `recover` and `os.Exit` do with them | the second is external |
| `Sequential` | chooses one of the six: the last four rows and `TokenBucket` | extends them |
| `MCTriColor`, `MCSemaphores` | instances for TLC | symmetry, weights |
| `TriColorProofs`, `SemaphoresProofs`, `WorkStealingProofs`, `WaitGroupOnceProofs`, `CancellationProofs`, `BackpressureProofs`, `SequentialProofs`, `OrderingProofs` | theorems about the modules after which they are named and what those compose | see section 5 |

The programs are independent, so the composed modules run one of their
components at a time (`program`, `scenario`, `demo`, `input`); what interacts is
inside one program. Where a component drives another the composition is real:
`TriColorScenarios` makes the calls of `TriColor`, `HotLatency` schedules the Ps
of `WorkStealing` tick by tick, and `TriColor` implements `Collector`.

### How the state corresponds to the code

*TriColor.* The variables are the fields of `machine`; `color` and `slots` are
functions over objects where the code has fields of `node`. `phase` stands for
where the caller is: `collecting` is `phase # "idle"`, because `startMark` sets
it and nothing clears it. The work list is a set; the code takes the head, the
model any member, so every behaviour of the code is one of the model. The
mutator is arbitrary but only names objects it can reach, and stores a pointer
it loaded (`loadHeap` has no barrier and no effect) in the very next call, as
the scenarios do. `scanStack` runs once per cycle and before `finishMark`.
`finishMark` is two steps and a drain, during which the mutator is stopped.
`garbage` is a history variable: what was unreachable when `startMark` ran.
The counters `shadeCalls`, `scanned`, `stackScans` and the names of nodes are
left out.

*ErrGroup.* One step per statement that another goroutine can see: the select
of `Go`, `wg.Add`, the start of the goroutine, the return of `f`, the two
halves of the function given to `errOnce.Do` (store the error, cancel), the two
deferred calls, and the three stages of `Wait`. `errOnce` has a `"running"`
state because the losers of `Do` wait for the winner. A task is `"quick"` (it
returns whatever it likes whenever it likes) or `"waiting"` (it waits for the
context, then fails). The error of a task is the task. `SetLimit` runs before
the first `Go`, as everywhere in the repository, but it may run several times,
and panics as the code does for a negative limit and for a second positive one.

*Pipeline.* All channels are unbuffered, so a hand-over is one step of a
sender and a receiver that are both in their select. A select with the context
cancelled may still hand over: that is Go's random choice. The deferred `close`
or `wg.Done` belongs to the exit. `Produce` looks at the context before it
starts its goroutine, which is the initial state of `producer`.

*Semaphores and UnboundedQueue.* A critical section is one step. `cond.Wait`
joins the notify list before it unlocks, so falling asleep belongs to the
section that saw the condition false, and a woken goroutine looks again in a
section of its own and competes with newcomers. A receive from a full channel
hands the slot to the oldest blocked sender, as the runtime does: `sendq` is the
queue of blocked senders, and `NoOvertaking` speaks of the places in it. `updateMax`
is a load and a compare-and-swap, in a loop.

*TokenBucket.* One tick refills one unit, a token is `Period` units, so the
float arithmetic becomes exact integer arithmetic; the truncation to
nanoseconds is left out. `time.Now()` is a step of its own in front of the
critical section, because the code evaluates it there. The clock stops at
`MaxClock`. `DemoSpec` is the loop of `runRateLimitDemo`: one client without a
pause of its own, so that time passes only while it sleeps, and no longer than
it asked to.

*BoundedQueue.* The channel is the runtime's: parked receiver first, then
buffer, then block or take the default case. `hangs` lets the work on a task
never end, which separates a queue that drops from one that blocks.

*CountingOnce.* One step per atomic access, counter, lock operation and
deferred call. A recursive `f` is a second frame of the same goroutine.

*WaitGroup.* The word is arithmetic modulo `Half * Half`, with `Half` for
2^32. A delta is shifted into the upper half before it is added, as the lesson
explains (`main.go:10-15`).

*WorkStealing.* A P is its queue and its slot. A turn of a P (a run of its next
task, or a steal and a run of the first of the batch) is one step, as in the
loop of `runHotLatency`, which is one goroutine. A task that runs may make one
task more, which goes through `enqueue` before the rest of the batch is
appended. `HotLatency` adds the tick, the alternation of the two Ps and the
trigger, and compares the tick at which the hot task runs with the one the lesson
computes.

*Goroutines and the programs.* Forty lines of Go that start three goroutines
differ from the next forty in their text only, so the programs are data: the code
of a goroutine is a sequence of statements, with relative jumps, and `Goroutines`
interprets them, one statement of one goroutine per step. A plain access and an
atomic one are different statements, because `RaceFree` asks about the first.
`x++` is a read and a write. An unbuffered hand-over is one step of two
goroutines; a sender can be asleep in a channel (`parked`), which a `select` with
`default` can tell. `time.After` and deadlines are a goroutine `timer` that may
act at any moment, so sleeps order nothing. `runtime.NumGoroutine` and a
goroutine dump look at who has started and not returned; a report of the leak
checker counts those of them that `isOurs` lets through, which depends on the
`package` of the program: `main` under `go run`, the import path in a test
binary. Loops over thousands of
rounds become two or three, over many goroutines two or three as well. A value
that no test looks at is left out, a counter that only has to move is whether it
has moved. `out` is the set of logs that the tests and comments admit, `racy`
says that a comment announces the race, `late` who may outlive `main`. In a racy program a reader sees one of the values that were written, and
`unsafePublish` may be seen in either order.

*GCSettings.* Sizes are in MiB (in quarters of one for `recommendMemoryLimit`,
which answers 1 MiB to less), `Word` stands for 2^64. The collector may run at
any chunk and must when the next one would pass the goal, so the peaks are
bounds and not measurements. `runtime.GC` is a step of its own. A phase saves the settings,
changes them, and puts them back when it ends.

*TodoServer.* `array` is what lies behind the slice and `len` its length, so that
a delete really moves elements under an encoder. Each handler is a goroutine;
taking `mu`, encoding one element, making the answer (`Reply`), and writing it
with the deferred `Unlock` (`Return`) are its steps. A body is good, undecodable,
or never complete. A client may never read (`reads`): then an answer that is
longer than the buffers between them holds the handler, and `mu`, at its write.
Only answers with titles can be that long, so a client that lists or creates may
stall in the model; an error or a 204 fits.

*Defers.* A function is a sequence of statements, as in `Goroutines`, but it runs
alone and has frames with deferred calls. Resources are numbered as they are
opened, a variable holds a number or nil, and `closes` counts what was done to
each. A call that may fail is a choice, and an early return is a jump past the
end. `defer x.Close()` takes the value of `x` when it is registered, `defer
func() { ... }()` when it runs. A loop of three rounds is written three times.
What stays on the disk is left out: `basic012` never removes its files, and
`day030` skips `os.Remove` when it returns early.

*Formulas.* Quotas and quantiles are fractions, a line of text is a token, a
field is a number, one too big for `Atoi`, or a word. A quota or a period is any
text: what `ParseFloat` makes a number of, `Inf` and `NaN` included (fractions
over 0), or any other. What `int` makes of a limit that no int holds (`MaxInt`) is
left open by the language, and so is `Unspecified` here. The rounding of `float64`
is left out.

The semantics of the Go runtime (channels, `sync.Cond`, `sync.Mutex`, `select`,
`context`, `sync.WaitGroup`) is not part of the repository. It is modelled as
the code uses it: inside the actions, or in `Goroutines`.

## 3. Runs

| Run | Expect | What it asks and shows | Bounds, and why they are enough |
|---|---|---|---|
| `TriColor` | pass | Every heap, all five barriers, any mutator: hybrid and insert+rescan lose nothing; the strong and the weak invariant hold in their phases; old garbage stays white; the cycle implements `Collector`; the inductive invariant of the proofs holds (types, work list, the strong and the weak invariant) | three objects (black holder, grey holder, white victim: what every losing scenario needs), one slot each as `alloc` makes them, one stack slot; objects are symmetric. The proofs cover all sizes |
| `Cancellation` | pass | `ErrGroup`: slots, counter and `errOnce` agree with the goroutines, the limit holds, `Wait` is honest (nothing is left, nil means that all that started ran, the error is the cause), one failure ends the group. `Pipeline`: nothing lost or doubled, no send on the closed channel, a full range sees everything, cancellation ends everybody wherever blocked, every consumer ends | three tasks of each kind, limits 0, 1 and 2: two failures race while a third task is blocked; three values through three workers, so that each can hold one and the producer another; a cancellation before the start, at any time or never |
| `ErrGroupCanceled` | violation | The doc of `Go` says that nothing starts once the context is cancelled | two tasks |
| `Semaphores` | pass | No lost wake-up, capacity, peak, slots of the channel in the order of blocking, every fitting job finishes | four jobs of weights 1, 2, 4, 1 under a limit of 2: jobs that fit together, alone and never |
| `TokenBucketDemo` | violation | The comment of the demo says that requests are spaced by a period after the burst | burst 3 and period 2 as in the demo; the clock ticks only while the client sleeps (`DemoSpec`) |
| `Backpressure` | pass | Unbounded: no lost wake-up, Close drains and frees. Bounded: order, nobody parked in vain, the buffer is used, drops are counted; the scenarios end and a dropping producer never waits | two producers of two values, three consumers: more sleepers than values and the reverse; six tasks, capacities 0, 1, 2 and 4, both modes, a drain that works or hangs |
| `WaitGroupOnce` | pass | One run of `f` before any return; a recursive `f` hangs its callers; counter and waiters stay apart, only misuse panics, `Wait` covers the workers; every use ends | four callers, plain and recursive; four workers, halves of 4 bits: the negative delta wraps as it does with 32 |
| `GoPrograms` | pass | Every program, under every interleaving: the log is one that the tests announce, no data race unless announced, no goroutine outlives `main` unless meant to, everybody ends and nobody panics | two or three goroutines of two or three rounds: two race, a third is between them. Its assumptions look at the text of every program: they tell which ones the theorems of `OrderingProofs` are about |
| `LeakDemo` | violation | The README of `adv024` says that the number left is 0 after `release` | the four causes |
| `TimerDemo` | violation | The README of `day031` says that the ticker counts and `After` ends the loop | the program of the lesson |
| `HotLatency` | pass | No task lost or run twice, only its own P empties a slot, nothing starves, the hot task runs at the announced tick in both modes | three Ps and a few tasks in any order; the demonstration with two Ps and every length of the first queue, odd and even halves |
| `Sequential` | pass | Settings are restored and peaks are as tested; the list is what it should be; clients of the server are told the truth, and answered if all of them finish their bodies and read their answers; functions agree with their second description; how much a token bucket lets through in a given time and how long anybody waits; whatever was opened is closed, whichever step fails | the sizes of the tests in MiB, containers from nothing to four MiB; lists of four nodes; three clients with any requests on top of up to two todos; every input up to four or five elements; two clients of the bucket (stale clocks need two), burst 2, requests of one and of one more than the burst, five ticks; every failure of every function |

The type invariant of a module is checked in its run as part of `IInv` or
proved as part of the inductive invariant of its proof module.

Every property of a passing run has a mutant in `PROJECT.json`: a changed
definition of the code model, of the kind a plausible bug would be, under which
TLC finds the property violated. The mutated forms stand in front of the
definitions they replace. No action uses them.

Deadlock is checked in every run but three; the states in which a program really
ends (or, in `Semaphores` and `CountingOnce`, really hangs) have an explicit
stuttering action with a guard that names them. In `Sequential` and `HotLatency`
a list, a phase or the last task simply ends, and there
`EveryRequestIsAnswered` and `NothingStarves` say what may not be left undone;
in `TimerDemo` the deadlock is what `TicksArePrinted` reports.

### Findings

* `ErrGroupCanceled`: `adv021/main.go:47` says that `Go` starts `f` "unless the
  context is already canceled". `Go` looks at the context only in the select for
  a slot; without a limit it never does, and with a free slot the select may
  take the slot.
* `TokenBucketDemo`: `adv022/main.go:225` announces one request every 500 ms
  after the burst. `reserveN` resets `tokens` and `last` at the start of the
  sleep, so the ticks slept are refilled for the next request, and requests pass
  in pairs: in the trace three pass at 0, the fourth sleeps from 0 to 2, and the
  fifth passes with it at 2. Time passes only while the client sleeps, so no
  pause of the client has filled the bucket. `ThroughputBound` says how much can pass instead: up to twice the
  rate for each client.
* `LeakDemo`: `adv024/README.md:61` says that the number left returns to 0 after
  `release`. `awaitReport(lc, d, 0)` waits for at least zero goroutines, which
  its first look finds, so the goroutine just released may still be counted. The
  test waits for an empty report itself and is right.
* `TimerDemo`: in `day031` the timer fires and `main.go:50` receives its only
  value. `Stop` (`main.go:55`) then returns false, and `main.go:56` waits for a
  second value for ever, so section 5 never runs. The drain is right only for a
  timer whose value is still in its channel; without it the property holds.

Other disagreements have no run of their own.

* `adv024/README.md:1-10` records that `TestDetectsChannelSendLeak` fails with an
  empty report. The program `TestDetectsChannelSendLeak` of `GoPrograms` shows
  why: `isOurs` (`main.go:109-114`) looks for `main.`, and in a test binary the
  functions carry the import path. The checker then finds nothing, whatever is
  left. So what `Results` says of the checker, that a leak is named unless the
  deadline comes first, holds under `go run`. The other tests of the lesson look
  for an empty report and pass in a test binary without having looked at
  anything.
* `adv029/main.go:78` calls `quantile` nearest-rank. It is, unless q·n is a whole
  number; then the code takes the next value in order, so that the median of two
  is the larger. `SummaryAgrees` states both (`nearestRank`, `nextRank`).
* `recommendMemoryLimit` (`adv028/main.go:218-221`) answers 1 MiB to a container
  that is smaller, when the reserve takes all of it: more than there is.
  `LimitFitsTheContainer` says exactly then.
* `live*percent` (`adv028/main.go:167`) wraps for heaps beyond 2^64/percent
  bytes; `GoalsFollowTheSettings` is stated for the others.
* `adv007` accepts `Inf` and `NaN` in a cgroup file, and the number of Ps is then
  whatever `int` makes of them; `ProcsCoverTheQuota` promises nothing there.
* `adv020/main.go:208-209` takes the end of the range over the output for the
  end of all upstream goroutines, while the model reaches `pc = "done"` before
  the producer and the squarers have left; they do leave (`PipelineEnds`).
* `adv023/main.go:189` speaks of a buffer that fills and then drops, while the
  drain runs at the same time, so how many are accepted depends on the schedule.

### Fairness

Safety runs use plain `Spec`. Liveness properties use weak fairness of the
goroutines: the Go scheduler preempts and runs every runnable goroutine, and a
blocked one is not enabled in the model. What the code does not promise has no
fairness: nobody has to cancel a context (`OtherCancel`, `ParentCancel`,
`CleanUp`), to push or to close (`UnboundedQueue`), and the work on a queue
element may hang (`hangs`). Weak fairness of the goroutine as a whole suffices
for the semaphores: with finitely many jobs, one that is woken and finds the
room taken sleeps again only finitely often. Fairness in `Pipeline` is per
action, because a hand-over belongs to two goroutines.

`Goroutines` assumes strong fairness of each goroutine: one that can go on again
and again does. Weak fairness would let a goroutine miss a lock each time it is
free; the mutex of Go hands over to a waiter that has starved for a millisecond
(which `adv011` is about), and a channel serves its sleepers in the order of their arrival. The
timer is fair too: time passes. A branch that the environment decides (`Either`)
is not. `HotLatency` assumes that every P gets its turns, `TodoServer` that a
handler runs and that three requests do not starve each other at a mutex; the
promise `EveryRequestIsAnswered` is made only when every client finishes its
body and reads its answer, because `ListenAndServe` has no timeout, `createTodo`
reads with `mu` held, and the handlers write with `mu` held (`day035/main.go:37`,
`49`, `61`). One client of either kind stops all the others.

## 4. Hard cases the models reach

Interleavings of the marker and the mutator; stale clocks (`TokenBucket`);
wake-ups that find the condition false again; losers of `Once`; a select with
two ready cases; cancellation before, during and after each blocking
operation; a channel closed beside a parked receiver; capacity zero; a job that
can never run beside jobs that can; recursion into a held mutex; a signed
counter in an unsigned word; a batch that is stolen while its first task makes
another; a publication that races with its reader; a goroutine that has been
released and is still in the dump; a delete under an encoder; an early return
between any two steps of a function that holds something open.

## 5. Proofs

All theorems hold for every value of the constants that satisfies the named
assumptions in the module (`NilAssumption`, `LimitAssumption`, ...).

*`TriColorProofs`* (any objects, slots, stack, mode). The claim of the lesson
is `MarkingIsSafe`: with the hybrid barrier or insert+rescan, no reachable
object is white when marking ends. `NoLostObject` is not inductive, because it
says nothing before the end. `IInv` carries it: while the stack can hide objects the
*strong* invariant holds (no black object points to a white one, no global
is white); from the moment the stack has been shaded the *weak* one holds
(every reachable white object is below a grey one). Reachability is a least
fixed point, so both reachability and protection are stated by sets rather than by
paths: `Live` is in every rooted closed set, and in every *shielding* set (one
that contains the marked objects and the successors of all its members that are
not black). Each action then needs a witness set, not an induction on paths.
The scan of the stack is where strong becomes weak (`StackShadedIsShielded`).
`IInv` also needs `WorkIsGrey`, so that an empty work list means no grey object,
and `HeapIsAllocated`. `RefinesCollector` shows that the machine implements
`Collector`: initial states map to initial states and each step to a `Work`, a
`Finish` or a stutter. `OldGarbageIsCollected` needs a different invariant,
`Apart`: the complement of the old garbage is closed and holds all roots and
the whole work list. `ColorsDarken`, `StrongInvariant`, `WeakInvariant`,
`TypeCorrect` and `WorkListIsGrey` follow.

*`SemaphoresProofs`* (any finite set of jobs, weights, limit). `NoLostWakeup`:
whoever sleeps would not fit, by an invariant that says how the queue of blocked
senders, the sleepers and the places of the jobs agree. `FirstComeFirstServed`:
while a sender stays blocked, only those before it in `sendq` enter, those that
block go behind it, and nobody changes places. A newcomer cannot send, because a
blocked sender means a full channel, and a receive takes the head of the queue
(`MovesUp`, `BlocksLast`), in which each sender has one place (`Places`).
`MaximumIsMonotone` needs that a job in front of the compare-and-swap saw less
than what it brings. `CapacityIsKept`: `cur` is the sum of the weights of the
holders (`Accounts`), which a step changes by one job, or by two when a receive
lets a blocked sender in. `MaximumIsThePeak`: the jobs that entered and have not
yet brought their number (`Peak`) account for the difference between the
maximum and the true peak, and at the end there are none.

*`BackpressureProofs`* (finitely many producers and consumers; any number of
tasks, any capacities, both modes). Of the unbounded queue: `QueueIsFifo`;
`SignalSuffices`, because while somebody sleeps the woken consumers are at least
as many as the values; `CloseDrains`. Of the bounded ones `QueueIsSafe`: the
values accepted are those drained followed by those in the buffer, whether a
value is handed over, buffered, or let in from a blocked sender by a receive
(`AppendBehind`, `ReceiveMoves`). `BufferIsUsed` needs the count of `Totals`:
when the buffer is full and a value is dropped, more than the first `capacity`
values have been pushed. `BackpressureKeepsQueue` takes the first results to the
composed specification.

*`WaitGroupOnceProofs`* (finitely many callers, plain or recursive; any number of
workers that fits in half of half a word, words of any even half). `DoIsOnce`,
`RecursionIsStuck` and `WarmCallsSkipTheLock`, from who holds the mutex
(`MutexHeld`), what `done` means at each place (`RunOnce`) and where the inner
call of a recursive `Do` can stand (`InnerCallStuck`). `WaitCovers` proves all of
`WaitCoversEveryWorker`. `WordCounts` says that the packed word is the number of
workers added and not done, times `Half`, plus the sleeping waiter; `PlusCounts`
that adding a delta modulo the word changes the upper half only, negative or not;
`CorrectUse`, `WrongUse` and `NegativeUse` what each of the three functions may
see at which place.

*`CancellationProofs`* (any number of tasks, any limits, a parent cancelled at
any time; any number of values, finitely many workers). `GroupAccounts` proves
`IInv` of the group: slots taken, the counter of the WaitGroup and the task
inside `errOnce.Do` are cardinalities of sets of tasks, and `Moves` says what one
task going from one place to another does to any of them. `WaitCanBeTrusted`
proves `WaitIsHonest`. It needs two parts that `IInv` lacks. `Order`: a task is
new exactly when the caller has not reached it, and past `wg.Wait` the counter is
zero. `Errors`: a cause that is a task is the recorded error, only the `cancel`
at the end of `Wait` leaves `Canceled`, and a dropped task means that somebody
else had cancelled. So a nil result without a cancelled parent means that
nothing was dropped and nothing failed. `PipelineLosesNothing` proves `IInv` and
`DrainedMeansAll` of the pipeline: each value has exactly one holder
(`MovesAccount`, by counting the workers that hold it), a worker holds a value
exactly while it sends (`HeldWhileSending`), and the last of them to leave closes
the channel behind every square (`NothingLeftBehind`).

*`WorkStealingProofs`* (any Ps, any set of tasks, both modes). `NothingLost`:
every task is not made yet, waits in exactly one queue or slot, or has run. With
its type, `NoTaskLostOrDoubled` is inductive as it stands: the work is in the
lemmas. The first say what appending, taking the head, splitting and
concatenating do to the elements of a sequence (`In`, `Distinct`); the next what
`enqueue`, `popLocal`, `stealHalf` and the append of a stolen batch do to what a
P holds (`EnqueueHeld`, `PopHeld`, `StealHeld`, `AppendHeld`). `OneChanges`
covers the steps that touch one P; a steal touches two, and its batch has left
the victim by the time it joins the thief. `SlotStaysLocal`: a thief has an empty
slot and a victim keeps its own. `DemoRunsTheQueues` is a refinement: the
demonstration `runHotLatency`, with its ticks and turns, implements `Spec`. That
the hot task is still to be made when the trigger runs takes `DemoStands`, which
also says in whose slot it waits at which tick; so `HotRunsInTime` follows, for
any length of the first queue and any trigger in it. Its last part is about ten
tasks only: `TenTasksAre` is what the queues are at each tick.

*`SequentialProofs`* (the composed `SequentialSpec`, but for the bucket alone and the
formulas, which have no state).

- Todo server, finitely many clients, any requests. `ClientsCanBelieve` rests on
  `TodoInv`: the slice is in order of creation (`Slice`), where the clients are
  with the mutex and what they have encoded so far (`Clients`), IDs are given
  once (`Creations`), a todo is in the slice unless somebody deleted it
  (`Contents`), and a list already told stays true although todos come and go
  (`Lists`), because what happened before a request is frozen when it begins
  (`PastIsFrozen`).
- Measurements, any word of at least 16 bits. `PhasesBehave`: `Churned` bounds the
  heap, the peak and the number of collections after each chunk, for a collector
  that may run at any of them; from it come the numbers of `PhasesAsTested` for
  every phase the programs measure.
- Linked list, any finite set of addresses, any values. `ListTellsItsItems`: the
  nodes from `Head` are a chain without a cycle that carries the items
  (`ChainIsKept`), so a walk along `Next` ends and meets them all
  (`WalkMeetsTheRest`). A chain cannot be longer than there are addresses, which
  is why the walk, a recursive function with that bound, is the whole list.
- Token bucket, finitely many clients, any period, burst and requests.
  `WaitsAreBounded`; `ThroughputIsBounded`, the bound of the run for any number of
  clients with stale clocks. A client that moves `last` back reads a later clock
  the next time. So, with M the latest time that `last` ever had, no client moves
  it back over the same tick before M twice, and `Accounted(M)` bounds what was
  granted by the burst, M, and what each client can still claim: sums over the
  clients, of which a step changes one term.

- Functions that defer, any texts and any number of them. `DeferCloses`: if every
  text is tidy (`TidyText`), everything that was opened has been closed exactly
  once when the program is over, wherever steps fail, panics start and `recover`
  stops them. Tidy is that a text defers the close of what it opens before it does
  anything but use it, that no jump leads in between, and that it closes nothing
  by itself. `ClosedAtTheEnd` alone is not inductive: it says nothing while the
  program runs. `WillBeClosed` adds that each open resource either waits in
  exactly one deferred call of one frame, or is the value of a variable in *debt*
  in the innermost frame (`InDebt`: opened, close not yet deferred), and never
  both. A panic cannot start and a call cannot be made while there is a debt, so
  every other frame has none; running a deferred call takes one resource out of
  the frames and closes it in the same step. `FunctionsCloseWhatTheyOpen` is the
  case of the repository's functions and function literals: TLC evaluates their
  tidiness in the run `Sequential`, as the assumption `FunctionsAreTidy`. The
  profiler of `day050` is left out, it closes its files itself; `os.Exit` leaves
  open what is open, and the theorem says nothing of it.
- Formulas, every input. `AnyClocksOrder`: two vector clocks of any size are in
  one of four relations, which is the causal order. `ProcsCoverAnyLimit` and
  `AnyQuotaIsCovered`: the Ps that `adv007` recommends are the fewest that can
  use the quota, for any texts in the files, numbers or not; of `Inf`, `NaN` and
  more than `MaxInt` CPUs it says that the number is unspecified, and the first
  two only come from a file that says so. `AnyGoalFollowsTheSettings`: the heap
  goal of `adv028`, for any live heap, percentage and limit.
  `AnyContainerGetsALimit`: the limit it recommends, for any container and
  reserve. These are the
  definitions that `FormulasAreRight` evaluates on small inputs.
  `SmallestClassFits`: the binary search of `adv026`, over any ascending list,
  finds the smallest class that fits. `search` is a function over the intervals;
  that there is one with this equation is shown by giving it (`HalvingExists`),
  and what it returns by induction on the length of the interval.

*Induction and sums* (in `SemaphoresProofs` and `SequentialProofs`). The
induction theorems of the library take an operator as a
parameter. `FromZero` says the same of a set of numbers, from well-foundedness,
and a property is then the set of the numbers that have it. From it come the
existence of the recursive functions behind `MapThenSumSet` (`SumExists`) and
`Walk`, and that a sum changes by what its terms change (`SumMoves`, `TotalMoves`).

*`OrderingProofs`* (any table of programs, any number of goroutines and
statements). The lessons of `adv009` and `adv010` say why their fixes have no
race: the accesses are behind one mutex, or a `close`, a send or a `Done` comes
after the first and a receive or a `Wait` before the second. `Ordering` says
this of the *text* of a program, the theorems say that it is enough for every
run of it. What the text has to say:

- `WellFormed`: jumps stay in their function, and a `go` statement runs once
  and starts whom no other starts.
- `LockUse`: every statement agrees with those to which it may lead on whether the
  goroutine holds the lock (`Holds`), and `Lock`, `RLock`, a compare-and-swap
  from 0 to -1 and the two `Unlock`s change that, nothing else. `Exclusive`
  accesses are within such a lock, the writer with `Lock`.
- `Awaits(p, t, s, u, k, last)`: whoever has passed k of u, up to last, finds t
  past s: `ByGroup` (a wait group with one `Add`, for as many as say `Done`), `ByChannel`
  (a receive from a channel that t alone serves, at s or later), `ByLoop` (u
  leaves its loop only when t has closed the channel, or when it has read in a
  cell what t alone writes), `ByCount` (as many receives as senders).
- `Ordered` asks `Exclusive` or `Awaits` of every two plain accesses that could
  conflict, `AwaitsAll` that `main` awaits the end of all it started, directly
  or through one other goroutine.

`RaceFree` and `Joined` are not inductive: they see two goroutines meet, or
`main` at its end, and not what keeps them apart. `IInv` adds what ties the
shared state to the positions: nobody has started before its `go` statement was
passed (`StartInv`); a lock is -1, 0 or the number of readers, by the positions
(`LockInv`); a wait group is what was added less the number of those past their
`Done` (`GroupInv`); a closed channel, a value in a buffer, a cell that is not 0
and a register that has read it show that whoever alone can have done it is past
that statement (`SignalInv`); a buffer has as many values as were sent and not
received, if all of them are counted (`CountInv`); and from these, nobody is
past a wait before those for whom it waits (`AwaitInv`). The steps of the
runtime are first reduced to seven kinds (`Acts`), each of which says where the
goroutine may go by its text (`Leads`); a *gate* is a statement that every path
to what follows it executes, and the only way past it (`Crossing`) is to execute
it.

From it follow `LocksExclude`, `OrderedProgramsDoNotRace`,
`OrderedTablesDoNotRace` and `WaitedProgramsAreJoined`. Their hypothesis is
about the texts and TLC evaluates it on the table in the run `GoPrograms`, as
the assumptions `TextsAreOrdered` and `TextsWait`. All 63 programs of the table
that announce no race are `Ordered`, and the assumption says so of 62: of
`counterThenConfigMap` it is true too, but it is left out because the mutant of
`RaceFree` is this program without its read lock, and it is for the run to find
that. `AwaitsAll` holds of all but eight. `counterThenConfigMap` uses a wait
group twice and `runLimitDemo` adds to it one at a time; `runTightLoopDemo` and
`cancelOfChild` poll; `blockOnRawSyscallPipe` may return before it starts
anybody; the feeder of `runSchedulerDemo` and the stages of `pipelinePattern` may
stop for either of two channels; and the writer of `publishWithMutex` has its
lock to release when `main` has seen the value. There `Joined` is model-checked
only.

The assumptions on the constants are as weak as the programs: finitely many jobs,
clients, callers, consumers, workers (`JobAssumption`, `ClientAssumption`,
`CallerAssumption`, `ConsumerAssumption`, `WorkerAssumption`, `ConnAssumption`),
limits and capacities that are numbers, `NULL` no address (`NodeAssumption`), a
word that holds the sizes of the tests (`WordAssumption`), a largest int
(`MaxIntAssumption`), and for the
demonstration of work stealing the Ps 0 and 1 and tasks that are numbered from 1,
with the hot one apart (`DemoAssumption`; the lesson calls it 999).

Only model-checked:

- All liveness properties (out of the prover's reach): the fairness-based ones
  among the `PROPERTIES` of the cfgs, described in section 3.
- `VerdictsOfTheTests` and `Results`: the scenarios and programs are fixed data
  without parameters, TLC visits all of their states, and a proof would repeat
  the search. `Joined` for the eight programs named above.
- Of `CleanupIsComplete` all but its part `ClosedAtTheEnd`: that nothing is used
  after its close, how much is open at once, and what is printed are about the
  statements of each function.
- Of `FormulasAreRight` the parts that are folds over lists (fragments, pauses,
  dumps, traces, the pool, the environment): what they compute for every input
  needs induction over data for each of them.

## 6. Not modelled, and why

* Second cycles of the marking machine: no caller starts one, and `startMark`
  would not reset `stackScanned`.
* The counters and printing of `adv027`, and its allocation benchmarks.
* `SetLimit` after `Go` (before it, it is modelled with its panics): the goroutine reads `g.sem` again when it starts
  (`adv021/main.go:62`) and would release a slot of another channel; everybody
  in the repository calls `SetLimit` first. A panic inside a task.
* `Pop` of the bounded queues without a drain goroutine: only tests call it.
* `time.Duration` rounding and `float64` in the token bucket.
* Times, threads, stack sizes, cache lines, histograms and what the compiler
  decides: the lessons that print them measure the Go runtime. The goroutines
  that do the measuring are modelled.
* `basic006`, `basic007`, `basic014`, `basic015`, `day009`, `day021`, `day023` and
  `day057`: they do not compile. `day058`: its generated package is not in the
  repository.
* `adv029` does not compile either, according to its own banner
  (`adv029/README.md:1-3`: `main.go:302` compares an `int64` with an `int`). Its
  phases, quantiles and probes are modelled as they are written, since the line
  only chooses how many pauses are printed. The banners of `basic001` and
  `basic011` speak of a format that vet refuses and of a test file that does not
  compile, and that of `adv026` of a test of the allocator of the runtime, which
  packs nothing under the race detector; what is modelled of them is untouched.
* The remaining language exercises keep no state that a model would add to.
* In `day035` titles, headers and status codes, and the growth of the array. How
  long an answer is: any with a title may be too long for the buffers.

## 7. Plan

Done: every component with state or concurrency. The collector came first, as
the largest piece of logic and the one whose correctness is least obvious; then
what has real concurrency; then the demonstrations, as programs of one machine.

Proved: every safety invariant and action property of a run that has a parameter
(section 5).

Worth proving next: that a well-formed program does not panic (each channel
closed once, by its last sender), which `EverybodyEnds` shows for the 68; that a
function which defers the close uses what it opened only before it leaves, the
part of `CleanupIsComplete` that would make it inductive in the text.
