---------------------------- MODULE MemoryPrograms ----------------------------
(***************************************************************************)
(* Programs about shared memory: publication and counters with and without *)
(* synchronisation (adv009, adv010, adv013), locks (adv011, adv012,        *)
(* day024), sync.Once and the atomics (day042, day043), closures (basic011) *)
(* and slices (adv026) shared by goroutines.  An unsynchronised access is  *)
(* "racy"; what it may leave behind is listed in "out".                    *)
(***************************************************************************)
EXTENDS SchedulerPrograms

Counting(S, step, out) ==
  Program0(Main(Spawn(S) \o Wait("wg") \o LogCell("counter")) @@ All(S, Times(2, step) \o Done("wg")),
           NoChan, {"wg", "counter"}, out)
Racy(p) == [p EXCEPT !.racy = TRUE]

-----------------------------------------------------------------------------
(* adv009: a value handed over by close, by a lock and by sync.Once.       *)

publishWithChannel ==
  Program0(Main(Go({"w1"}) \o Recv("done") \o LogRead("v"))
           @@ ("w1" :> Write("v", 6) \o Close("done")),
           Cap({"done"}, 0), {"v"}, {<<6>>})

(* val and ok are copies made under the lock.                              *)
publishWithMutex ==
  Program0(Main(Go({"w1"})
                \o Lock("mu") \o Read("v") \o WriteReg("val", 0) \o Read("ready") \o Unlock("mu")
                \o If(1, 2) \o Jump(-6) \o LogRead("val"))
           @@ ("w1" :> Lock("mu") \o Write("v", 6) \o Write("ready", 1) \o Unlock("mu")),
           NoChan, {"mu", "v", "ready", "val"}, {<<6>>})

concurrentOnce ==
  Program0(Main(Go(W3) \o Times(3, Recv("done")) \o LogRead("v"))
           @@ All(W3, OnceDo("once", "ran", Write("v", 6)) \o Send("done", 0)),
           Cap({"done"}, 3), {"once", "ran", "v"}, {<<6>>})

unsafeIncrement ==
  Racy(Program0(Main(Go(W) \o Times(2, Recv("done")) \o LogRead("counter"))
                @@ All(W, Times(2, Increment("counter")) \o Send("done", 0)),
                Cap({"done"}, 2), {"counter"}, {<<2>>, <<3>>, <<4>>}))

-----------------------------------------------------------------------------
(* adv010.                                                                 *)

sumConcurrentlyUnsafe == Racy(Counting(W, Increment("counter"), {<<2>>, <<3>>, <<4>>}))
sumConcurrentlySafe == Counting(W3, Add("counter", 1), {<<6>>})

(* The sleep of main orders nothing: the race depends on trigger alone.    *)
conditionalRaceDemo(trigger) ==
  [Program0(Main(Go({"w1"}) \o Skip \o Read("data"))
            @@ ("w1" :> IF trigger THEN Write("data", 42) ELSE Skip),
            NoChan, {"data"}, Unit) EXCEPT !.racy = trigger, !.late = {"w1"}]
raceDemo == conditionalRaceDemo(TRUE)
noRaceDemo == conditionalRaceDemo(FALSE)

-----------------------------------------------------------------------------
(* adv011.                                                                 *)

demoSpinAndStarvation ==
  Program0(Main(Lock("mu") \o Spawn(W3) \o Load("mu") \o Unlock("mu") \o Wait("wg") \o LogCell("mu"))
           @@ All(W3, Lock("mu") \o Unlock("mu") \o Done("wg")),
           NoChan, {"wg", "mu"}, {<<0>>})

(* main lets the waiter in for a moment and tries to steal the lock back;  *)
(* the log says whether it did.  time.After is a channel that may close.   *)
tryInduceStarvation ==
  [Program0(Main(Lock("mu") \o Go({"w1"}) \o Recv("ready") \o Unlock("mu")
                 \o TryLock("mu", 5) \o Log(TRUE) \o Skip \o Unlock("mu") \o Jump(2) \o Log(FALSE)
                 \o Select({RecvCase("done", 1), RecvCase("after", 1)}))
            @@ ("w1" :> Close("ready") \o Lock("mu") \o Close("done") \o Unlock("mu"))
            @@ ("timer" :> Close("after")),
            Cap({"ready", "done", "after"}, 0), {"mu"}, {<<TRUE>>, <<FALSE>>})
   EXCEPT !.late = {"w1"}]

Inc == Lock("mu") \o Increment("val") \o Unlock("mu")
Value == Lock("mu") \o Read("val") \o Unlock("mu") \o LogReg
safeCounter ==
  Program0(Main(Spawn(W3) \o Wait("wg") \o Value) @@ All(W3, Inc \o Done("wg")),
           NoChan, {"wg", "mu", "val"}, {<<3>>})

-----------------------------------------------------------------------------
(* adv012: readers until the deadline, behind either lock.                 *)

readSumMutex == Lock("mu") \o Read("v1") \o Read("v2") \o Unlock("mu")
readSumRWMutex == RLock("mu") \o Read("v1") \o Read("v2") \o RUnlock("mu")
runReadBenchmark(readSum) ==
  Program0(Main(Spawn(W) \o Wait("wg") \o LogCell("ops"))
           @@ All(W, Load("deadline") \o If(1, Len(readSum) + 3) \o readSum \o Store("ops", 1)
                     \o Jump(-Len(readSum) - 3) \o Done("wg"))
           @@ ("timer" :> Store("deadline", 1)),
           NoChan, {"wg", "mu", "v1", "v2", "deadline", "ops"}, {<<0>>, <<1>>})
readMutex == runReadBenchmark(readSumMutex)
readRWMutex == runReadBenchmark(readSumRWMutex)

-----------------------------------------------------------------------------
(* adv013.                                                                 *)

publish == Write("data", 5) \o Store("ready", 1)
readPublished == Load("ready") \o If(1, 2) \o Jump(-2) \o Read("data")
countIf(v, cell) == If(v, 2) \o Jump(2) \o Add(cell, 1)

runPublishDemo ==
  Program0(Main(Spawn(W) \o Wait("wg") \o LogCell("succ") \o LogCell("tot"))
           @@ ("w1" :> publish \o Done("wg"))
           @@ ("w2" :> readPublished \o countIf(5, "succ") \o Add("tot", 1) \o Done("wg")),
           NoChan, {"wg", "data", "ready", "succ", "tot"}, {<<1, 1>>})

(* Two plain writes: another goroutine may see them in either order.       *)
unsafePublish ==
  Either(4) \o Write("data", 5) \o Write("ready", 1) \o Jump(3)
  \o Write("ready", 1) \o Write("data", 5)
runUnsafePublishDemo ==
  Racy(Program0(
    Main(Spawn(W) \o Wait("wg") \o LogCell("succ") \o LogCell("tot") \o LogCell("miss"))
    @@ ("w1" :> Skip \o unsafePublish \o Done("wg"))
    @@ ("w2" :> Add("tot", 1) \o Read("ready") \o If(1, 5) \o Read("ready") \o If(1, 3)
                \o Add("miss", 1) \o Jump(5) \o Read("data") \o countIf(5, "succ") \o Done("wg")),
    NoChan, {"wg", "data", "ready", "succ", "tot", "miss"},
    {<<1, 1, 0>>, <<0, 1, 0>>, <<0, 1, 1>>}))

runAtomicCounterDemo == Counting(W3, Add("counter", 1), {<<6>>})
runMutexCounterDemo ==
  Program0(Main(Spawn(W) \o Wait("wg") \o Value) @@ All(W, Times(2, Inc) \o Done("wg")),
           NoChan, {"wg", "mu", "val"}, {<<4>>})

(* A lock that spins: retries is abstracted to whether there were any.     *)
spinLock == CompareAndSwap("locked", 0, 1, 2) \o Jump(3) \o Store("retries", 1) \o Jump(-3)
spinUnlock == Store("locked", 0)
runSpinMutexDemo ==
  Program0(Main(Spawn(W) \o Wait("wg") \o LogCell("c") \o LogCell("retries"))
           @@ All(W, Times(2, spinLock \o Add("c", 1) \o spinUnlock) \o Done("wg")),
           NoChan, {"wg", "c", "locked", "retries"}, {<<4, 0>>, <<4, 1>>})

-----------------------------------------------------------------------------
(* day024, day042, day043.                                                 *)

(* A map is one variable to the race detector: the number of its keys.     *)
Set(keys) == Lock("cm") \o Write("data", keys) \o Unlock("cm")
GetUnlocked == Read("data")
Get == RLock("cm") \o Read("data") \o RUnlock("cm")
counterThenConfigMap ==
  Program0(Main(Spawn({"w4", "w5"}) \o Wait("wg") \o Value \o Spawn(W3) \o Wait("wg"))
           @@ All({"w4", "w5"}, Inc \o Done("wg"))
           @@ ("w3" :> Set(1) \o Set(2) \o Done("wg"))
           @@ All(W, Get \o LogReg \o Done("wg")),
           NoChan, {"wg", "mu", "val", "cm", "data"}, {2} \X (0 .. 2) \X (0 .. 2))

NewInstance == OnceDo("once", "ran", Increment("instance")) \o LogRead("instance")
singleton ==
  Program0(Main(NewInstance \o NewInstance), NoChan, {"once", "ran", "instance"}, {<<1, 1>>})

atomicOperations ==
  Program0(Main(Spawn(W) \o Wait("wg") \o LogCell("counter") \o Store("counter", 0)
                \o CompareAndSwap("counter", 0, 100, 2) \o Log(TRUE)
                \o CompareAndSwap("counter", 50, 200, 2) \o Log("swapped") \o LogCell("counter"))
           @@ All(W, Times(3, Add("counter", 1)) \o Done("wg")),
           NoChan, {"wg", "counter"}, {<<6, TRUE, 100>>})

-----------------------------------------------------------------------------
(* basic011: closures over one counter; main gives up at the timeout.      *)

closures(step, out) ==
  [Program0(Main(Go(W) \o Times(2, Select({RecvCase("done", 1), RecvCase("after", Out)}))
                 \o LogRead("counter"))
            @@ All(W, step \o Send("done", 0)) @@ ("timer" :> Close("after")),
            Cap({"done"}, 2) @@ Cap({"after"}, 0), {"counter", "mu"}, {<<>>} \cup out)
   EXCEPT !.late = W]
demonstrateDataRace == Racy(closures(Increment("counter"), {<<1>>, <<2>>}))
fixDataRace == closures(Lock("mu") \o Increment("counter") \o Unlock("mu"), {<<2>>})

(* adv026: every goroutine fills the slice that is its own.                *)
parallelFill ==
  Program0(Main(Spawn(W) \o Wait("wg") \o LogRead("w1") \o LogRead("w2"))
           @@ [w \in W |-> Times(2, Increment(w)) \o Done("wg")],
           NoChan, {"wg"} \cup W, {<<2, 2>>})
===============================================================================
