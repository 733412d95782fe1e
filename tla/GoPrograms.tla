----------------------------- MODULE GoPrograms ------------------------------
(***************************************************************************)
(* The table of the concurrent programs of the repository, and what is     *)
(* asked of each of them under every interleaving of its goroutines.       *)
(***************************************************************************)
EXTENDS Ordering, LeakPrograms

AllPrograms ==
  [measureParallelism |-> measureParallelism,
   cooperativeYieldWorkers |-> cooperativeYieldWorkers,
   runTightLoopDemo |-> runTightLoopDemo, measureProgress |-> measureProgress,
   showStackGrowth |-> showStackGrowth, showStackCopy |-> showStackCopy,
   manyGoroutines |-> manyGoroutines, blockOnNetpoll |-> blockOnNetpoll,
   blockOnRawSyscallPipe |-> blockOnRawSyscallPipe,
   measureMaxThreads |-> measureMaxThreads, runCPUWorkers |-> runCPUWorkers,
   runChannelBurst |-> runChannelBurst, runSchedulerDemo |-> runSchedulerDemo,
   runSchedulerDemoCanceled |-> runSchedulerDemoCanceled,
   runFalseSharing |-> runFalseSharing, runPadded |-> runPadded,
   publishWithChannel |-> publishWithChannel,
   publishWithMutex |-> publishWithMutex, concurrentOnce |-> concurrentOnce,
   unsafeIncrement |-> unsafeIncrement,
   sumConcurrentlyUnsafe |-> sumConcurrentlyUnsafe,
   sumConcurrentlySafe |-> sumConcurrentlySafe,
   demoSpinAndStarvation |-> demoSpinAndStarvation,
   tryInduceStarvation |-> tryInduceStarvation, safeCounter |-> safeCounter,
   runPublishDemo |-> runPublishDemo,
   runUnsafePublishDemo |-> runUnsafePublishDemo,
   runAtomicCounterDemo |-> runAtomicCounterDemo,
   runMutexCounterDemo |-> runMutexCounterDemo,
   runSpinMutexDemo |-> runSpinMutexDemo,
   counterThenConfigMap |-> counterThenConfigMap,
   runWaitGroupManualDemo |-> runWaitGroupManualDemo,
   runLimitDemo |-> runLimitDemo, singleton |-> singleton, atomicOperations |-> atomicOperations,
   demonstrateDataRace |-> demonstrateDataRace, fixDataRace |-> fixDataRace,
   parallelFill |-> parallelFill,
   unbufferedHandoffSequence |-> unbufferedHandoffSequence,
   bufferedSendSequence |-> bufferedSendSequence,
   bufferedCircularFIFOSequence |-> bufferedCircularFIFOSequence,
   FixedOrderDemo |-> FixedOrderDemo,
   SelectFairnessDemo |-> SelectFairnessDemo,
   DefaultPathDemo |-> DefaultPathDemo,
   measureLeakedChildren |-> measureLeakedChildren,
   measureWithTimeoutRetention |-> measureWithTimeoutRetention,
   producerConsumer |-> producerConsumer, contextWorkers |-> contextWorkers,
   fanOutFanIn |-> fanOutFanIn, pipelinePattern |-> pipelinePattern,
   cancelPattern |-> cancelPattern, semaphorePattern |-> semaphorePattern,
   workerPool |-> workerPool,
   raceDemo |-> raceDemo, noRaceDemo |-> noRaceDemo, readMutex |-> readMutex,
   readRWMutex |-> readRWMutex, cancelOfChild |-> cancelOfChild,
   cancelOfParent |-> cancelOfParent, fixedSend |-> fixedSend,
   fixedRange |-> fixedRange, fixedContext |-> fixedContext,
   fixedLoop |-> fixedLoop, demoSend |-> demoSend,
   demoRange |-> demoRange, demoLoop |-> demoLoop,
   demoGoleakStyle |-> demoGoleakStyle,
   TestDetectsChannelSendLeak |-> TestDetectsChannelSendLeak]

(* The texts of the programs are in order, in the words of Ordering: every *)
(* access that could race is behind a lock or after a wait.  The read lock *)
(* of counterThenConfigMap is the exception, left for RaceFree to tell.    *)
ASSUME TextsAreOrdered ==
  \A p \in DOMAIN AllPrograms :
    /\ WellFormed(AllPrograms[p])
    /\ p = "counterThenConfigMap" \/ AllPrograms[p].racy \/ Ordered(AllPrograms[p])

(* And main waits for those it started, but in programs that use one wait  *)
(* group twice or Add to it one by one, that poll, that may return before  *)
(* they start anybody, whose goroutines stop for either of two channels or *)
(* still have a lock or a semaphore to release.                            *)
ASSUME TextsWait ==
  \A p \in DOMAIN AllPrograms \
         {"counterThenConfigMap", "runLimitDemo", "publishWithMutex", "runTightLoopDemo",
          "blockOnRawSyscallPipe", "runSchedulerDemo", "pipelinePattern", "cancelOfChild"} :
    AwaitsAll(AllPrograms[p])

-----------------------------------------------------------------------------

(* What a program has returned or printed when main ends is one of the     *)
(* results that its tests and comments announce: no update is lost, no     *)
(* value is seen before it was published, no result is missing or doubled. *)
Results == MainEnded => log \in P.out

(* main returns, and so does every goroutine it started: nobody is left    *)
(* waiting for a value, a lock or a signal, and no panic (a second close,  *)
(* a send on a closed channel, an Unlock without Lock, a Done too many)    *)
(* stops the program.                                                      *)
EverybodyEnds ==
  <>(MainEnded /\ \A t \in Thread : Started(t) => Returned(t))

-----------------------------------------------------------------------------
(* The programs of demoLeaks alone.                                        *)
LeakDemos ==
  [demoSend |-> demoSend, demoRange |-> demoRange, demoContext |-> demoContext,
   demoLoop |-> demoLoop]

(* README.md of adv024: after release the number left goes back to 0.      *)
ReleaseLeavesNothing == MainEnded => log[2] = 0

(* The lesson about timers alone.                                          *)
TimerDemo == [timePackage |-> timePackage]

(* README.md of day031: after three seconds After ends the loop, and the   *)
(* number of ticks is printed.                                             *)
TicksArePrinted == <>(log # <<>>)
===============================================================================
