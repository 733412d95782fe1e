-------------------------- MODULE SchedulerPrograms --------------------------
(***************************************************************************)
(* The programs that watch the scheduler: adv001, adv003 to adv008 and     *)
(* adv016.  What they measure (time, threads, bytes) is left out; who  *)
(* waits for whom, and what is counted, is kept.                           *)
(***************************************************************************)
EXTENDS Instructions

W == {"w1", "w2"}
W3 == W \cup {"w3"}
Id == [w1 |-> 1, w2 |-> 2, w3 |-> 3]

Spawn(S) == Add("wg", Cardinality(S)) \o Go(S)
Joining(S, before) == Main(Spawn(S) \o before \o Wait("wg"))

-----------------------------------------------------------------------------
(* adv001: results[id] belongs to one goroutine until Wait returns.        *)

SumBelow[n \in Nat] == IF n = 0 THEN 0 ELSE SumBelow[n - 1] + n - 1
cpuBound(workerID, iterations) == SumBelow[iterations] + workerID

runParallelWorker(w) == Write(w, cpuBound(Id[w], 4)) \o Done("wg")
runParallelCode == Spawn(W) \o Wait("wg")

(* GOMAXPROCS is set and put back; 0 stands for what it was.               *)
WithProcs(p, body) ==
  Load("procs") \o WriteReg("old", 0) \o Store("procs", p) \o body
  \o Load("old") \o WriteReg("procs", 0) \o LogCell("procs")

measureParallelism ==
  Program0(Main(WithProcs(2, runParallelCode \o LogRead("w1") \o LogRead("w2")))
           @@ [w \in W |-> runParallelWorker(w)],
           NoChan, W \cup {"wg", "procs", "old"}, {<<7, 8, 0>>})

cooperativeYieldWorkers ==
  Program0(Main(Spawn(W3) \o Wait("wg") \o LogCell("counter"))
           @@ All(W3, Times(2, Skip \o Add("counter", 1)) \o Done("wg")),
           NoChan, {"wg", "counter"}, {<<6>>})

-----------------------------------------------------------------------------
(* adv003: the first look may or may not find the result.                  *)

tightLoop(iterations) == SumBelow[iterations]

runTightLoopDemo ==
  Program0(Main(Go({"w1"})
                \o Poll({RecvCase("done", 4)}, 1)
                \o Log(TRUE) \o Recv("done") \o Jump(2)
                \o Log(FALSE) \o LogReg)
           @@ ("w1" :> Send("done", tightLoop(5))),
           Cap({"done"}, 1), {}, {<<TRUE, 10>>, <<FALSE, 10>>})

-----------------------------------------------------------------------------
(* adv004: the counter runs until stop is closed; done says it has ended.  *)
(* count is abstracted to whether it has moved.                            *)

spinCounter == Poll({RecvCase("stop", 3)}, 1) \o Store("count", 1) \o Jump(-2)
startSpinWorker == spinCounter \o Close("done")

measureProgress ==
  Program0(Main(WithProcs(1, Go({"w1"}) \o Skip \o Close("stop") \o Recv("done")
                             \o LogCell("count")))
           @@ ("w1" :> startSpinWorker),
           Cap({"stop", "done"}, 0), {"count", "procs", "old"}, {<<0, 0>>, <<1, 0>>})

-----------------------------------------------------------------------------
(* adv005.                                                                 *)

deepRecursionThenBlock == Write("ctx", 42) \o Close("ready") \o Recv("release")

showStackGrowth ==
  Program0(Main(Spawn({"w1"}) \o Recv("ready") \o LogAlive \o Close("release")
                \o Wait("wg") \o LogRead("ctx"))
           @@ ("w1" :> deepRecursionThenBlock \o Done("wg")),
           Cap({"ready", "release"}, 0), {"wg", "ctx"}, {<<1, 42>>})

fillStack(depth) == Times(depth, Skip) \o Write("target", 42) \o Read("target")
showStackCopy ==
  Program0(Main(FlattenSeq([i \in 1 .. 3 |->
                  fillStack(2 ^ i) \o If(42, 3) \o Log("broken") \o Return \o Write("target", 0)])
                \o Log("valid")),
           NoChan, {"target"}, {<<"valid">>})

manyGoroutines ==
  Program0(Joining(W3, <<>>) @@ All(W3, Skip \o Done("wg")), NoChan, {"wg"}, Unit)

-----------------------------------------------------------------------------
(* adv006: clients dial and block in Read until their end of the           *)
(* connection is closed; the listener is closed after that.  The network   *)
(* is a queue of connections, a connection a channel that closes.          *)

clientOf == [w1 |-> "c1", w2 |-> "c2"]
connOf == [w1 |-> "conn1", w2 |-> "conn2"]

acceptLoop ==
  Select({RecvCase("backlog", 1), RecvCase("listener", 3)})
  \o Send("accepted", 0) \o Jump(-2) \o Close("acceptDone")
dialAndRead(w) ==
  Either(3) \o Send("started", 0) \o Jump(9)
  \o Send("backlog", 0)
  \o Lock("mu") \o Increment("clients") \o Write(clientOf[w], 1) \o Unlock("mu")
  \o Send("started", 1) \o Recv(connOf[w])
  \o Done("wg")
closeClient(w) == Read(clientOf[w]) \o If(0, 2) \o Cancel(connOf[w])

blockOnNetpoll ==
  Program0(Main(Go({"w4"}) \o LogAlive \o Spawn(W) \o Times(2, Recv("started")) \o LogAlive
                \o Lock("mu") \o Read("clients") \o closeClient("w1") \o closeClient("w2")
                \o Unlock("mu") \o Cancel("listener") \o Wait("wg") \o Recv("acceptDone")
                \o Close("accepted") \o ForRange("accepted", Skip))
           @@ [w \in W |-> dialAndRead(w)] @@ ("w4" :> acceptLoop),
           Cap({"accepted", "started", "backlog"}, 2)
             @@ Cap({"acceptDone", "listener", "conn1", "conn2"}, 0),
           {"wg", "mu", "clients", "c1", "c2"}, {<<1, 1>>, <<1, 2>>, <<1, 3>>})

(* The reader of a pipe wakes when a byte is written to the other end.     *)
pipeOf == [w1 |-> "pipe1", w2 |-> "pipe2"]
blockOnRawSyscallPipe ==
  Program0(Main(Either(6) \o LogAlive \o LogAlive \o Return
                \o LogAlive \o Spawn(W) \o Times(2, Recv("ready")) \o LogAlive
                \o Send("pipe1", 0) \o Send("pipe2", 0) \o Wait("wg"))
           @@ [w \in W |-> Send("ready", 0) \o Recv(pipeOf[w]) \o Done("wg")],
           Cap({"ready"}, 2) @@ Cap({"pipe1", "pipe2"}, 1), {"wg"}, {<<0, 0>>, <<0, 2>>})

-----------------------------------------------------------------------------
(* adv007: workers spin until stop is set; main looks at the threads as    *)
(* often as its deadline lets it.                                          *)

busyLoop == Load("stop") \o If(1, 2) \o Jump(-2)
measureMaxThreads ==
  Program0(Main(WithProcs(2, Spawn(W) \o LogAlive \o Load("deadline") \o If(1, 2) \o Jump(-2)
                             \o Store("stop", 1) \o Wait("wg")))
           @@ All(W, busyLoop \o Done("wg")) @@ ("timer" :> Store("deadline", 1)),
           NoChan, {"wg", "stop", "deadline", "procs", "old"}, {<<2, 0>>})

-----------------------------------------------------------------------------
(* adv008.                                                                 *)

(* iterations counts the workers whose own count has been added.           *)
runCPUWorkers ==
  Program0(Main(Spawn(W3) \o Recv("ctx") \o Wait("wg") \o LogCell("iterations"))
           @@ All(W3, Poll({RecvCase("ctx", 2)}, 1) \o Jump(-1)
                      \o Add("iterations", 1) \o Done("wg"))
           @@ ("timer" :> Cancel("ctx")) ,
           Cap({"ctx"}, 0), {"wg", "iterations"}, {<<3>>})

runChannelBurst ==
  Program0(Main(Spawn(W3) \o Close("start") \o Times(3, Recv("done")) \o Wait("wg"))
           @@ All(W3, Recv("start") \o Send("done", 0) \o Done("wg")),
           Cap({"start"}, 0) @@ Cap({"done"}, 3), {"wg"}, Unit)

(* A pool that a feeder keeps busy; with a context nobody cancels every    *)
(* task is completed.                                                      *)
poolWorker ==
  Select({RecvCase("ctx", 3), RecvOkCase("tasksCh", 1, 3)})
  \o Add("completed", 1) \o Jump(-2) \o Done("wg")
feederUncanceled(tasks) == FlattenSeq([i \in 1 .. tasks |-> Send("tasksCh", i)]) \o Close("tasksCh")
feeder(tasks) ==
  FlattenSeq([i \in 1 .. tasks |->
    Select({SendCase("tasksCh", i, 1), RecvCase("ctx", tasks + 1 - i)})])
  \o Close("tasksCh")
schedulerDemo(timer, out, late) ==
  [Program0(Main(Spawn(W) \o Go({"feeder"}) \o Wait("wg") \o LogCell("completed"))
            @@ All(W, poolWorker) @@ ("feeder" :> feeder(3)) @@ timer,
            Cap({"ctx", "tasksCh"}, 0), {"wg", "completed"}, out) EXCEPT !.late = late]
runSchedulerDemo == schedulerDemo(<<>>, {<<3>>}, {})
runSchedulerDemoCanceled ==
  schedulerDemo("timer" :> Cancel("ctx"), {<<0>>, <<1>>, <<2>>, <<3>>}, {"feeder"})

-----------------------------------------------------------------------------
(* adv016: two counters, one line or two; false sharing costs time only.   *)

twoCounters(n) ==
  Program0(Main(Spawn(W) \o Wait("wg") \o LogRead("a") \o LogRead("b"))
           @@ ("w1" :> Times(n, Add("a", 1)) \o Done("wg"))
           @@ ("w2" :> Times(n, Add("b", 1)) \o Done("wg")),
           NoChan, {"wg", "a", "b"}, {<<n, n>>})
runFalseSharing == twoCounters(2)
runPadded == twoCounters(3)
===============================================================================
