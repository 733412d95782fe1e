----------------------------- MODULE Instructions -----------------------------
(***************************************************************************)
(* The statements that the concurrent programs of this repository are      *)
(* made of, as data: the code of a goroutine is a sequence of them, and    *)
(* module Goroutines says what each one does.  A jump "to" is relative:    *)
(* to |-> 1 is the next statement, Out leaves the function.                *)
(*                                                                         *)
(* A program is a record: "code" gives every goroutine its statements      *)
(* (goroutine "main" runs from the start, the others once a Go statement   *)
(* names them), "cap" every channel its capacity, "cells" the names of     *)
(* its memory, "out" the values it may leave in its log when it returns;   *)
(* "racy" says that its comments announce a data race, "late" which        *)
(* goroutines may end after main, "package" the name its functions have in *)
(* a dump: "main" under go run, the import path in a test binary.          *)
(***************************************************************************)
EXTENDS Integers, Sequences, SequencesExt, TLC

Out == 1000

Ins(op, x, v, to) == [op |-> op, x |-> x, v |-> v, to |-> to]

(* memory: plain, and through sync/atomic.  Every goroutine has a register *)
Read(x) == <<Ins("read", x, 0, 1)>>
Write(x, v) == <<Ins("write", x, v, 1)>>
WriteReg(x, v) == <<Ins("writereg", x, v, 1)>>   (* x := register + v       *)
Increment(x) == Read(x) \o WriteReg(x, 1)        (* x++ is not atomic       *)
Load(x) == <<Ins("load", x, 0, 1)>>
Store(x, v) == <<Ins("store", x, v, 1)>>
Add(x, v) == <<Ins("add", x, v, 1)>>
(* old becomes new, else jump                                              *)
CompareAndSwap(x, old, new, to) == <<Ins("cas", x, <<old, new>>, to)>>

(* control                                                                 *)
If(v, to) == <<Ins("if", "", v, to)>>            (* register = v -> jump    *)
Jump(to) == <<Ins("jump", "", 0, to)>>
Either(to) == <<Ins("either", "", 0, to)>>       (* the environment decides *)
Skip == Jump(1)
Return == Jump(Out)
Times(n, body) == FlattenSeq([i \in 1 .. n |-> body])
Go(S) == <<Ins("go", S, 0, 1)>>
Log(v) == <<Ins("log", "", v, 1)>>
LogReg == <<Ins("logreg", "", 0, 1)>>
LogCell(x) == Load(x) \o LogReg
Alive == <<Ins("alive", "", 0, 1)>>              (* runtime.NumGoroutine    *)
(* the goroutines of a dump, remembered; how many of ours are new in a dump *)
Snapshot(x) == <<Ins("snapshot", x, 0, 1)>>
Report(x) == <<Ins("report", x, 0, 1)>>
LogRead(x) == Read(x) \o LogReg
LogAlive == Alive \o LogReg

(* sync                                                                    *)
Lock(m) == <<Ins("lock", m, 0, 1)>>
Unlock(m) == <<Ins("unlock", m, 0, 1)>>
TryLock(m, to) == CompareAndSwap(m, 0, -1, to)
RLock(m) == <<Ins("rlock", m, 0, 1)>>
RUnlock(m) == <<Ins("runlock", m, 0, 1)>>
Done(wg) == <<Ins("done", wg, 0, 1)>>
Wait(wg) == <<Ins("wait", wg, 0, 1)>>
(* sync.Once looks at done without the lock, and again with it.            *)
OnceSlow(o, done, f) ==
  Lock(o) \o Load(done) \o If(1, Len(f) + 2) \o f \o Store(done, 1) \o Unlock(o)
OnceDo(o, done, f) ==
  Load(done) \o If(1, Len(OnceSlow(o, done, f)) + 1) \o OnceSlow(o, done, f)

(* channels and contexts: a context is its Done channel, cancel closes it  *)
(* and may be called again.  A receive goes to "to" with a value and to    *)
(* "end" when the channel is closed and empty.                             *)
SendCase(c, v, to) == [dir |-> "send", x |-> c, v |-> v, to |-> to, end |-> 0]
SendRegCase(c, v, to) == [SendCase(c, v, to) EXCEPT !.dir = "sendreg"]  (* register + v *)
RecvOkCase(c, to, end) == [dir |-> "recv", x |-> c, v |-> 0, to |-> to, end |-> end]
RecvCase(c, to) == RecvOkCase(c, to, to)
Select(cases) == <<[op |-> "select", cases |-> cases, to |-> 0]>>
Poll(cases, to) == <<[op |-> "select", cases |-> cases, to |-> to]>>  (* default: *)
Send(c, v) == Select({SendCase(c, v, 1)})
SendReg(c, v) == Select({SendRegCase(c, v, 1)})
Recv(c) == Select({RecvCase(c, 1)})
RecvOk(c, end) == Select({RecvOkCase(c, 1, end)})
(* for range c { body }                                                    *)
ForRange(c, body) == RecvOk(c, Len(body) + 2) \o body \o Jump(-Len(body) - 1)
Close(c) == <<Ins("close", c, 0, 1)>>
Cancel(ctx) == <<Ins("cancel", ctx, 0, 1)>>

-----------------------------------------------------------------------------
(* Programs.                                                               *)

Program0(code, cap, cells, out) ==
  [code |-> code, cap |-> cap, cells |-> cells, out |-> out,
   racy |-> FALSE, late |-> {}, package |-> "main"]
Main(body) == "main" :> body
All(S, body) == [t \in S |-> body]
Cap(S, n) == [c \in S |-> n]
NoChan == Cap({}, 0)
Unit == {<<>>}                                   (* a program that logs nothing *)
===============================================================================
