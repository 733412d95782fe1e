--------------------------- MODULE ChannelPrograms ----------------------------
(***************************************************************************)
(* Programs about channels: hand-over and buffers (adv017, day022), select *)
(* (adv018), contexts (adv019, day025) and the patterns built from them    *)
(* (day044, day045), timers (day031).  What each leaves in its log is what *)
(* it prints or returns, a set of orders when the scheduler decides.       *)
(***************************************************************************)
EXTENDS MemoryPrograms

Sending(c, values) == FlattenSeq([i \in 1 .. Len(values) |-> Send(c, values[i])])
AnyOrder(S) == SetToSeqs(S)

-----------------------------------------------------------------------------
(* adv017: events are numbered in the order of the text.                   *)

add(e) == Lock("mu") \o Log(e) \o Unlock("mu")

unbufferedHandoffUnawaited ==
  Program0(Main(Spawn({"w1"}) \o Recv("ready") \o add(2) \o Send("ch", 42) \o add(4) \o Wait("wg"))
           @@ ("w1" :> add(1) \o Close("ready") \o Recv("ch") \o add(3) \o Close("got") \o Done("wg")),
           Cap({"ch", "ready", "got"}, 0), {"wg", "mu"}, {<<1, 2, 3, 4>>})
unbufferedHandoffSequence ==
  Program0(Main(Spawn({"w1"}) \o Recv("ready") \o add(2) \o Send("ch", 42)
                \o Recv("got") \o add(4) \o Wait("wg"))
           @@ ("w1" :> add(1) \o Close("ready") \o Recv("ch") \o add(3) \o Close("got") \o Done("wg")),
           Cap({"ch", "ready", "got"}, 0), {"wg", "mu"}, {<<1, 2, 3, 4>>})

bufferedSendSequence ==
  Program0(Main(Add("wg", 1) \o add(1) \o Send("ch", 42) \o add(2) \o Go({"w1"}) \o Wait("wg"))
           @@ ("w1" :> add(3) \o Recv("ch") \o LogReg \o Done("wg")),
           Cap({"ch"}, 1), {"wg", "mu"}, {<<1, 2, 3, 42>>})

bufferedCircularFIFOSequence ==
  Program0(Main(Sending("ch", <<1, 2>>) \o Times(2, Recv("ch") \o LogReg)),
           Cap({"ch"}, 2), {}, {<<1, 2>>})

-----------------------------------------------------------------------------
(* adv018: four channels that are always ready, two looks each.            *)

demoChannels == 4
chan == <<"ch", "done", "got", "ready">>
Filled == FlattenSeq([i \in 1 .. demoChannels |-> Send(chan[i], i)])
FourReady(trial, out) ==
  Program0(Main(Filled \o Times(2, trial)), Cap({"ch", "done", "got", "ready"}, 1), {}, out)

(* to: where the caller goes on when nothing was ready                     *)
NonBlockingReceive(c, to) == Poll({RecvCase(c, 1)}, to)

FixedOrderDemo ==
  FourReady(
    FlattenSeq([i \in 1 .. demoChannels |->
      NonBlockingReceive(chan[i], 4) \o LogReg \o SendReg(chan[i], 0)
      \o Jump(4 * (demoChannels - i) + 2)]) \o Log("panic"),
    {<<1, 1>>})

SelectFairnessDemo ==
  FourReady(
    Select({RecvCase(chan[i], 3 * i - 2) : i \in 1 .. demoChannels})
    \o FlattenSeq([i \in 1 .. demoChannels |->
         LogReg \o SendReg(chan[i], 0) \o Jump(3 * (demoChannels - i) + 1)]),
    (1 .. 4) \X (1 .. 4))

(* missed is left out: it counts how often main looked too early.          *)
DefaultPathDemo ==
  Program0(Main(Go({"w1"}) \o Times(2, Poll({RecvCase("ch", 2)}, 1) \o Jump(-1) \o LogReg)
                \o Recv("done"))
           @@ ("w1" :> Sending("ch", <<1, 2>>) \o Close("done")),
           Cap({"ch", "done"}, 0), {}, {<<1, 2>>})

-----------------------------------------------------------------------------
(* adv019: w1 watches the parent context, w2 its child, w3 the grandchild; *)
(* cancelling a context cancels what is below it, never what is above.     *)

ctxOf == [w1 |-> "ctx", w2 |-> "child", w3 |-> "grandchild"]
parentCancel == Cancel("ctx") \o Cancel("child") \o Cancel("grandchild")
childCancel == Cancel("child") \o Cancel("grandchild")
grandchildCancel == Cancel("grandchild")

observeCancel(cancelChild) ==
  Program0(
    Main(Go(W3)
         \o (IF cancelChild
             THEN childCancel \o Times(2, Recv("done") \o LogReg)
                  \o Poll({RecvCase("done", 2)}, 1) \o Jump(2) \o LogReg
                  \o parentCancel \o Recv("done")
             ELSE parentCancel \o Times(3, Recv("done") \o LogReg))
         \o parentCancel \o childCancel \o grandchildCancel)
    @@ [w \in W3 |-> Recv(ctxOf[w]) \o Send("done", Id[w])],
    Cap({"ctx", "child", "grandchild"}, 0) @@ Cap({"done"}, 3), {},
    IF cancelChild THEN AnyOrder({2, 3}) ELSE AnyOrder({1, 2, 3}))
cancelOfChild == observeCancel(TRUE)
cancelOfParent == observeCancel(FALSE)

(* What n contexts hold on to when the heap is measured, and afterwards.   *)
retention(n, cancelEach) ==
  Program0(Main(IF cancelEach THEN Times(n, Add("held", 1) \o Add("held", -1)) \o Times(2, LogCell("held"))
                ELSE Times(n, Add("held", 1)) \o LogCell("held") \o Times(n, Add("held", -1))
                     \o LogCell("held")),
           NoChan, {"held"}, {IF cancelEach THEN <<0, 0>> ELSE <<n, 0>>})
measureLeakedChildren == retention(3, FALSE)
measureWithTimeoutRetention == retention(2, TRUE)

-----------------------------------------------------------------------------
(* day022 and day025.                                                      *)

producer(c) == Sending(c, <<1, 2, 3>>) \o Close(c)
consumer(c) == ForRange(c, LogReg)
producerConsumer ==
  Program0(Main(Go({"w1"}) \o consumer("ch") \o Go({"w2"}) \o consumer("done"))
           @@ ("w1" :> producer("ch")) @@ ("w2" :> producer("done")),
           Cap({"ch"}, 0) @@ Cap({"done"}, 2), {}, {<<1, 2, 3, 1, 2, 3>>})

(* Each round waits for the next tick of time.After or for the context;    *)
(* contexts end by cancel, by timeout and by deadline, and main sleeps     *)
(* longer, which orders nothing.                                           *)
worker(ctx) == Poll({RecvCase(ctx, 2)}, 1) \o Jump(-1)
contextWorkers ==
  [Program0(Main(Go({"w1"}) \o Skip \o Cancel("ctx") \o Go({"w2"}) \o Skip \o Go({"w3"}) \o Skip
                 \o Cancel("grandchild") \o Cancel("child"))
            @@ [w \in W3 |-> worker(ctxOf[w])]
            @@ ("timer" :> Cancel("child") \o Cancel("grandchild")),
            Cap({"ctx", "child", "grandchild"}, 0), {}, Unit) EXCEPT !.late = W3]

-----------------------------------------------------------------------------
(* day044 and day045.                                                      *)

fanOutFanIn ==
  Program0(Main(Spawn(W3) \o Go({"feeder"}) \o ForRange("out", LogReg))
           @@ [w \in W3 |-> Select({RecvCase("done", 1), SendCase("out", Id[w] * Id[w], 1)}) \o Done("wg")]
           @@ ("feeder" :> Wait("wg") \o Close("out")),
           Cap({"done", "out"}, 0), {"wg"}, AnyOrder({1, 4, 9}))

pipeline(done, in, to) ==
  ForRange(in, Select({RecvCase(done, 2), SendRegCase(to, 1, 1)})) \o Close(to)

pipelinePattern ==
  Program0(Main(Go({"feeder", "w1"}) \o ForRange("out", LogReg))
           @@ ("feeder" :> Sending("ch", <<10, 20, 30>>) \o Close("ch"))
           @@ ("w1" :> pipeline("done", "ch", "out")),
           Cap({"ch", "done", "out"}, 0), {}, {<<11, 21, 31>>})

(* The cancellation comes at any moment; what came out is a prefix.        *)
cancelPattern ==
  [Program0(Main(Go({"feeder", "w1"}) \o ForRange("out", LogReg))
            @@ ("feeder" :> Sending("ch", <<100, 200>>) \o Close("ch") \o Skip \o Close("done"))
            @@ ("w1" :> pipeline("done", "ch", "out")),
            Cap({"ch"}, 3) @@ Cap({"done", "out"}, 0), {}, {<<>>, <<101>>, <<101, 201>>})
   EXCEPT !.late = {"feeder"}]

semaphorePattern ==
  Program0(Main(Spawn(W3) \o Wait("wg"))
           @@ [w \in W3 |-> Send("sem", 0) \o Poll({RecvCase("done", 4)}, 1)
                            \o Lock("mu") \o Log(2 * Id[w]) \o Unlock("mu")
                            \o Recv("sem") \o Done("wg")],
           Cap({"sem"}, 2) @@ Cap({"done"}, 0), {"wg", "mu"}, AnyOrder({2, 4, 6}))

(* adv021.  The errors of a wait group are collected in a channel that has *)
(* room for them, each the number of the task that failed; a limited group *)
(* takes a slot before it starts a function and gives it back when that is *)
(* over.                                                                   *)
runWaitGroupManualDemo ==
  Program0(Main(Spawn(W3) \o Wait("wg") \o Close("errCh") \o ForRange("errCh", LogReg))
           @@ All(W, Done("wg")) @@ ("w3" :> Send("errCh", Id["w3"]) \o Done("wg")),
           Cap({"errCh"}, 3), {"wg"}, {<<Id["w3"]>>})

(* cur and maxActive are 1 or 2: the larger one stays.                     *)
raiseMax == If(1, 3) \o Store("maxActive", 2) \o Jump(2) \o CompareAndSwap("maxActive", 0, 1, 1)
limited(S) == FlattenSeq([i \in 1 .. Len(S) |-> Send("sem", 0) \o Spawn({S[i]})])
deferredDoneFirst == Done("wg") \o Recv("sem")
deferred == Recv("sem") \o Done("wg")
runLimitDemo ==
  Program0(Main(limited(<<"w1", "w2", "w3">>) \o Wait("wg") \o LogCell("maxActive"))
           @@ All(W3, Add("active", 1) \o Load("active") \o raiseMax \o Skip \o Add("active", -1)
                      \o deferred),
           Cap({"sem"}, 2), {"wg", "active", "maxActive"}, {<<1>>, <<2>>})

(* day045: w3 closes the results once the workers have drained the jobs;   *)
(* eg is the errgroup, which knows when the function of a worker returned. *)
workerPool ==
  Program0(Main(Spawn(W) \o Add("eg", 2) \o Go({"feeder", "w3"}) \o ForRange("out", LogReg) \o Wait("eg"))
           @@ All(W, ForRange("jobs", SendReg("out", 0)) \o Done("wg") \o Done("eg"))
           @@ ("feeder" :> producer("jobs"))
           @@ ("w3" :> Wait("wg") \o Close("out")),
           Cap({"jobs", "out"}, 3), {"wg", "eg"}, AnyOrder({1, 2, 3}))

-----------------------------------------------------------------------------
(* day031.  A timer fires once into its channel unless Stop comes before,  *)
(* which then says true; the ticker drops a tick that nobody takes, and    *)
(* has time for three.  The drain after Stop comes after a receive.        *)
fire(timer, c) == CompareAndSwap(timer, 1, 0, Out) \o Send(c, 1)
NewTimer == Store("active", 1) \o Go({"t"})
StopOrDrain == CompareAndSwap("active", 1, 0, 2) \o Jump(2) \o Recv("timerC")
tickOrAfter ==
  Go({"ticker", "after"})
  \o Select({RecvCase("afterC", 3), RecvCase("tickC", 1)}) \o Add("ticks", 1) \o Jump(-2)
  \o LogCell("ticks")

timePackage ==
  Program0(Main(NewTimer \o Recv("timerC") \o StopOrDrain \o tickOrAfter)
           @@ ("t" :> fire("active", "timerC"))
           @@ ("ticker" :> Times(3, Poll({SendCase("tickC", 1, 1)}, 1)))
           @@ ("after" :> Send("afterC", 1)),
           Cap({"timerC", "tickC", "afterC"}, 1), {"active", "ticks"},
           {<<n>> : n \in 0 .. 3})
===============================================================================
