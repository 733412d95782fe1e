----------------------------- MODULE LeakPrograms -----------------------------
(***************************************************************************)
(* adv024: goroutines that never end, the fixed versions, and the checker  *)
(* that finds the first and not the second by comparing two dumps.  A      *)
(* goroutine stays in the dump until its last statement, the Skip that     *)
(* stands for its return, is over.                                         *)
(***************************************************************************)
EXTENDS ChannelPrograms

(* A cause: what its goroutine does, and what release does about it.       *)
Cause(body, release) == [body |-> Close("started") \o body \o Skip, release |-> release]

leakChannelSend == Cause(Send("ch", 1), Recv("ch"))
leakRangeNoClose == Cause(ForRange("jobs", Skip), Close("jobs"))
leakContextNeverCancelled == Cause(Recv("ctx"), Cancel("ctx"))
stopLoop == Poll({RecvCase("stop", 3)}, 1) \o Skip \o Jump(-2)
leakLoopStopNotSignaled == Cause(stopLoop, Close("stop"))
Causes == <<leakChannelSend, leakRangeNoClose, leakContextNeverCancelled, leakLoopStopNotSignaled>>

(* release is safe to call again, as a test and its cleanup do.            *)
release(cause) == OnceDo("once", "released", cause.release)

leakCap == Cap({"ch", "started", "jobs", "ctx", "stop", "deadline"}, 0)
leakCells == {"lc", "once", "released"}

(* A look again and again until it finds n, and then found, or until the   *)
(* deadline has passed, and then late.                                     *)
waitFor(look, n, found, late) ==
  look \o If(n, 3) \o Poll({RecvCase("deadline", Len(found) + 3)}, 1) \o Jump(-Len(look) - 2)
  \o found \o Jump(Len(late) + 1) \o late
Timer == "timer" :> Close("deadline")

(* The last report, printed: with min 0 the first one is the last.         *)
awaitReport(lc, min) ==
  IF min = 0 THEN Report(lc) \o LogReg ELSE waitFor(Report(lc), 1, Log(1), Log(0))

NewLeakChecker == Snapshot("lc")
leak(cause, body) == Main(body) @@ ("w1" :> cause.body) @@ Timer

demoLeaks(cause) ==
  [Program0(leak(cause, NewLeakChecker \o Go({"w1"}) \o Recv("started") \o awaitReport("lc", 1)
                        \o release(cause) \o awaitReport("lc", 0)),
            leakCap, leakCells, {<<n, m>> : n, m \in {0, 1}})
   EXCEPT !.late = {"w1"}]
demoSend == demoLeaks(leakChannelSend)
demoRange == demoLeaks(leakRangeNoClose)
demoContext == demoLeaks(leakContextNeverCancelled)
demoLoop == demoLeaks(leakLoopStopNotSignaled)

(* The imitation of goleak takes the same steps with the third cause.      *)
demoGoleakStyle == demoContext

(* The test of the checker releases twice, at its end and in its cleanup.  *)
(* In a test binary nothing is named "main.", the checker finds nothing,   *)
(* and the test fails with the empty report that the banner of README.md   *)
(* quotes.                                                                 *)
TestDetectsChannelSendLeak ==
  LET atEnd == release(leakChannelSend)
               \o waitFor(Report("lc"), 0, Log(0), Report("lc") \o LogReg)
  IN [Program0(leak(leakChannelSend,
                    NewLeakChecker \o Go({"w1"}) \o Recv("started")
                    \o waitFor(Report("lc"), 1, atEnd, Report("lc") \o LogReg)
                    \o release(leakChannelSend)),
               leakCap, leakCells, {<<0>>})
      EXCEPT !.late = {"w1"}, !.package = "adv024_goroutine_leak"]

fixedChannelSend == [body |-> Send("ch", 1) \o Done("wg"), use |-> Recv("ch") \o Wait("wg")]
fixedRangeClose == [body |-> ForRange("jobs", Skip) \o Done("wg"), use |-> Close("jobs") \o Wait("wg")]
fixedContextCancel ==
  [body |-> Recv("ctx") \o Close("done"), use |-> Cancel("ctx") \o Recv("done") \o Cancel("ctx")]
fixedLoopStop == [body |-> stopLoop \o Close("done"), use |-> Close("stop") \o Recv("done")]

(* Wait covers the last Done of a fixed goroutine and not its return, so   *)
(* the checker looks until the dump is clean, or says what is left.        *)
demoFixed(fixed) ==
  [Program0(Main(NewLeakChecker \o Add("wg", 1) \o Go({"w1"}) \o fixed.use
                 \o waitFor(Report("lc"), 0, Log(0), Report("lc") \o LogReg))
            @@ ("w1" :> fixed.body \o Skip) @@ Timer,
            Cap({"ch", "ctx", "done", "stop", "deadline"}, 0) @@ Cap({"jobs"}, 4), {"lc", "wg"},
            {<<0>>, <<1>>})
   EXCEPT !.late = {"w1"}]
fixedSend == demoFixed(fixedChannelSend)
fixedRange == demoFixed(fixedRangeClose)
fixedContext == demoFixed(fixedContextCancel)
fixedLoop == demoFixed(fixedLoopStop)
===============================================================================
