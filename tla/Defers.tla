-------------------------------- MODULE Defers --------------------------------
(***************************************************************************)
(* The functions of the repository that open something, or panic: files,   *)
(* temporary directories, response bodies, contexts and profiles, each     *)
(* with the early returns that leave it.  A function is a sequence of      *)
(* statements; the first half of the module says what defer, panic,        *)
(* recover and os.Exit do with them.  What stays on the disk is left out.  *)
(***************************************************************************)
EXTENDS Integers, Sequences, SequencesExt, FiniteSetsExt, TLC

VARIABLES
  routine,    (* the function that runs                                    *)
  stack,      (* its frames, the innermost last                            *)
  values,    (* variable -> value; 0 is nil, a resource is its number     *)
  closes,     (* resource -> how often it has been closed                  *)
  most,       (* history: the most resources open together                 *)
  told,       (* what is printed                                           *)
  panicking,
  failed,     (* history: a step has failed                                *)
  misused,    (* history: a resource was used after it was closed          *)
  ended       (* "no", "return", "panic" or "exit"                         *)

deferVars ==
  <<routine, stack, values, closes, most, told, panicking, failed, misused, ended>>

Beyond == 1000
Stmt(op, x, v, to) == <<[op |-> op, x |-> x, v |-> v, to |-> to]>>

Set(x, v) == Stmt("set", x, v, 1)
Tell(x) == Stmt("tell", x, 0, 1)
IfSet(x, to) == Stmt("if", x, 0, to)
MayFail(to) == Stmt("try", "", 0, to)            (* a step; to: when it fails *)
LeaveFunc == Stmt("jump", "", 0, Beyond)
Open(x, to) == Stmt("open", x, 0, to)            (* x is nil when it fails    *)
Make(x) == Stmt("make", x, 0, 1)                 (* cannot fail               *)
Work(x) == Stmt("use", x, 0, 1)
CloseNow(x) == Stmt("close", x, 0, 1)
Func(body) == Stmt("func", "", body, 1)          (* a call                    *)
Panics == Stmt("panic", "", 0, 1)
Exit == Stmt("exit", "", 0, 1)
(* defer x.Close() and defer print(x) take the value of x here and now,    *)
(* defer func() { ... }() looks at its variables when it runs.             *)
DeferClose(x) == Stmt("defer", x, "close", 1)
DeferTell(x) == Stmt("defer", x, "tell", 1)
DeferFunc(do, x, v) == Stmt("closure", x, [do |-> do, x |-> x, v |-> v], 1)
RepeatThree(body) == body \o body \o body

-----------------------------------------------------------------------------
(* The machine.                                                            *)

Variable == {"f", "g", "ctx", "path", "local", "result", "err", "seen"}
Frame(code) == [code |-> code, pc |-> 1, defers |-> <<>>]

Opened == {h \in DOMAIN closes : closes[h] = 0}

DeferInit(routines, table) ==
  /\ routine \in routines
  /\ stack = <<Frame(table[routine].code)>>
  /\ values = [x \in Variable |-> 0]
  /\ closes = <<>> /\ most = 0 /\ told = <<>>
  /\ panicking = FALSE /\ failed = FALSE /\ misused = FALSE /\ ended = "no"

top == Last(stack)
Leaving == top.pc > Len(top.code)
stmt == top.code[top.pc]
Moved(to) == [stack EXCEPT ![Len(stack)].pc = @ + to]
GoOn == stack' = Moved(1)

(* Nothing happens to nil, and a second Close is counted.                  *)
Closing(h) ==
  closes' = IF h \in DOMAIN closes THEN [closes EXCEPT ![h] = @ + 1] ELSE closes

Opens(x) ==
  /\ closes' = Append(closes, 0)
  /\ most' = Max({most, Cardinality(Opened) + 1})
  /\ values' = [values EXCEPT ![x] = Len(closes) + 1]
  /\ GoOn
  /\ UNCHANGED failed

Plain ==
  /\ \/ /\ stmt.op = "set" /\ GoOn
        /\ values' = [values EXCEPT ![stmt.x] = stmt.v] /\ UNCHANGED told
     \/ /\ stmt.op = "tell" /\ GoOn
        /\ told' = Append(told, values[stmt.x]) /\ UNCHANGED values
     \/ /\ stmt.op = "if" /\ UNCHANGED <<values, told>>
        /\ stack' = Moved(IF values[stmt.x] # 0 THEN stmt.to ELSE 1)
     \/ stmt.op = "jump" /\ stack' = Moved(stmt.to) /\ UNCHANGED <<values, told>>
  /\ UNCHANGED <<closes, most, panicking, failed, misused, ended>>

Fails ==
  /\ stack' = Moved(stmt.to) /\ failed' = TRUE
  /\ values' = (IF stmt.op = "open" THEN [values EXCEPT ![stmt.x] = 0] ELSE values)
  /\ UNCHANGED <<closes, most>>

Fallible ==
  /\ \/ stmt.op \in {"open", "try"} /\ Fails
     \/ stmt.op \in {"open", "make"} /\ Opens(stmt.x)
     \/ stmt.op = "try" /\ GoOn /\ UNCHANGED <<values, closes, most, failed>>
  /\ UNCHANGED <<told, panicking, misused, ended>>

UseOrClose ==
  /\ stmt.op \in {"use", "close"}
  /\ IF stmt.op = "close" THEN Closing(values[stmt.x]) ELSE UNCHANGED closes
  /\ misused' = (misused \/ (stmt.op = "use" /\ values[stmt.x] \notin Opened))
  /\ GoOn
  /\ UNCHANGED <<values, most, told, panicking, failed, ended>>

Register ==
  /\ stmt.op \in {"defer", "closure"}
  /\ LET d == IF stmt.op = "closure" THEN stmt.v
              ELSE [do |-> stmt.v, x |-> stmt.x, v |-> values[stmt.x]]
     IN stack' = [Moved(1) EXCEPT ![Len(stack)].defers = Append(@, d)]
  /\ UNCHANGED <<values, closes, most, told, panicking, failed, misused, ended>>

CallFunc ==
  /\ stmt.op = "func"
  /\ stack' = Append(Moved(1), Frame(stmt.v))
  /\ UNCHANGED <<values, closes, most, told, panicking, failed, misused, ended>>

PanicOrExit ==
  /\ stmt.op \in {"panic", "exit"}
  /\ IF stmt.op = "panic"
     THEN panicking' = TRUE /\ stack' = Moved(Beyond) /\ UNCHANGED ended
     ELSE ended' = "exit" /\ stack' = <<>> /\ UNCHANGED panicking
  /\ UNCHANGED <<values, closes, most, told, failed, misused>>

(* A function that is left runs its deferred calls, the last one first.    *)
RunDeferred ==
  /\ Leaving /\ top.defers # <<>>
  /\ stack' = [stack EXCEPT ![Len(stack)].defers = Front(@)]
  /\ LET d == Last(top.defers)
         new == CASE d.do = "add" -> values[d.x] + d.v
                  [] d.do = "times" -> values[d.x] * d.v
                  [] d.do = "set" \/ (d.do = "recover" /\ panicking) -> d.v
                  [] OTHER -> values[d.x]
     IN /\ IF d.do = "close" THEN Closing(d.v) ELSE UNCHANGED closes
        /\ told' = CASE d.do = "tell" -> Append(told, d.v)
                     [] d.do = "tellnow" -> Append(told, values[d.x])
                     [] OTHER -> told
        /\ panicking' = (panicking /\ d.do # "recover")
        /\ values' = [values EXCEPT ![d.x] = new]
  /\ UNCHANGED <<most, failed, misused, ended>>

(* A panic leaves the caller too; the last function ends the program.      *)
PopFrame ==
  /\ Leaving /\ top.defers = <<>>
  /\ LET callers == Front(stack)
     IN IF callers = <<>>
        THEN stack' = <<>> /\ ended' = IF panicking THEN "panic" ELSE "return"
        ELSE /\ stack' = IF panicking THEN [callers EXCEPT ![Len(callers)].pc = Beyond]
                         ELSE callers
             /\ UNCHANGED ended
  /\ UNCHANGED <<values, closes, most, told, panicking, failed, misused>>

Execute ==
  ~Leaving /\ (Plain \/ Fallible \/ UseOrClose \/ Register \/ CallFunc \/ PanicOrExit)
DeferNext ==
  /\ stack # <<>>
  /\ UNCHANGED routine
  /\ Execute \/ RunDeferred \/ PopFrame

-----------------------------------------------------------------------------
(* The functions: what each prints when it returns, and how many resources *)
(* are open together when nothing fails.                                   *)

Prints(code, tells) == [code |-> code, tells |-> tells, held |-> 0]
Holds(n, code) == [code |-> code, tells |-> {<<>>}, held |-> n]

(* basic012: an argument is evaluated by defer, a closure later.           *)
Foo == 1
Bar == 2
demoDeferArgEvalError ==
  Prints(Set("path", Foo) \o DeferTell("path")
         \o Set("path", Bar) \o Tell("path"),
         {<<Bar, Foo>>})
demoDeferArgEvalFixed ==
  Prints(Set("path", Foo) \o DeferFunc("tellnow", "path", 0)
         \o Set("path", Bar) \o Tell("path"), {<<Bar, Bar>>})
demoDeferInLoopError ==
  Holds(3, RepeatThree(Open("f", Beyond) \o Work("f") \o DeferClose("f")))
demoDeferInLoopNoLiteral ==
  Holds(1, RepeatThree(Open("f", Beyond) \o DeferClose("f") \o Work("f")))
demoDeferInLoopFixed ==
  Holds(1, RepeatThree(Func(Open("f", Beyond) \o DeferClose("f") \o Work("f"))))
demoLIFOAndNamedReturn ==
  Prints(Func(Set("result", 1) \o DeferFunc("add", "result", 1)
              \o DeferFunc("times", "result", 10) \o LeaveFunc) \o Tell("result"), {<<11>>})

(* basic009: a closure overwrites a named result, not a plain one.  "err"  *)
(* is 1 when there is one.                                                 *)
Results2 == Tell("result") \o Tell("err")
return2(result, err) == Set("result", result) \o Set("err", err) \o LeaveFunc
deferInFunc(success) ==
  Prints(Func(DeferFunc(IF success THEN "nothing" ELSE "set", "err", 1)
              \o return2(IF success THEN 42 ELSE 0, 0)) \o Results2,
         {IF success THEN <<42, 0>> ELSE <<0, 1>>})
deferInFuncFixed(success) ==
  Prints(Func(DeferFunc(IF success THEN "nothing" ELSE "tellnow", "local", 0)
              \o Set("local", 42)
              \o IF success THEN return2(42, 0) ELSE return2(0, 1)) \o Results2,
         {IF success THEN <<42, 0>> ELSE <<42, 0, 1>>})

(* basic009, basic013 and day039: a panic does not get past recover.       *)
Recover(x) == DeferFunc("recover", x, 1)
panicExample == Prints(Func(Recover("seen") \o Panics) \o Tell("seen"), {<<1>>})
nilDeref == panicExample
unsafeOperation == panicExample
libraryFunction(input) ==
  Set("result", 0) \o Set("err", 0)
  \o Func(Recover("err") \o (IF input < 0 THEN Panics ELSE <<>>) \o return2(input * 2, 0))
panicAndRecover ==
  Prints(unsafeOperation.code \o libraryFunction(5) \o Results2
         \o libraryFunction(-3) \o Tell("err")
         \o Recover("seen") \o Panics \o Tell("f"),
         {<<1, 10, 0, 1>>})

(* adv025, basic001 and adv027: a child process with a time limit, one in  *)
(* a temporary directory.                                                  *)
printCompilerDiagnostics ==
  Holds(1, Make("ctx") \o DeferClose("ctx") \o MayFail(Beyond))
showGoVetInAction ==
  Holds(1, Open("f", Beyond) \o DeferClose("f") \o MayFail(Beyond)
           \o Work("f") \o MayFail(1))
countWriteBarriers ==
  Open("f", 6) \o DeferClose("f") \o MayFail(4) \o Work("f") \o MayFail(2)
  \o LeaveFunc \o Set("err", 1)
reportAssembly ==
  Holds(1, Func(countWriteBarriers) \o IfSet("err", Beyond)
           \o Func(countWriteBarriers) \o IfSet("err", Beyond))

(* adv008: os.Exit when the file or the trace fails.                       *)
runTraceDemo == Open("g", 3) \o DeferClose("g") \o LeaveFunc \o Set("err", 1)
traceToFile ==
  Holds(3, Make("ctx") \o DeferClose("ctx") \o Open("f", 5) \o DeferClose("f")
           \o Func(runTraceDemo) \o IfSet("err", 2) \o LeaveFunc \o Exit)

(* day030: two files; a failing read of the second is only reported.       *)
osAndIO ==
  Holds(2, Open("f", Beyond) \o DeferClose("f") \o Work("f") \o MayFail(Beyond)
           \o MayFail(Beyond) \o Open("g", Beyond) \o DeferClose("g") \o Work("g")
           \o MayFail(1) \o Work("g") \o MayFail(Beyond))

(* day034: one variable for three responses; after a failing request the   *)
(* next one is made.                                                       *)
response(read) ==
  LET body == DeferClose("f") \o (IF read THEN Work("f") \o MayFail(1) ELSE <<>>)
  IN Open("f", Len(body) + 1) \o body
httpClient ==
  Holds(3, MayFail(Beyond) \o response(TRUE) \o response(FALSE) \o response(TRUE))

(* day050: no defer; a CPU profile that does not start is not noticed.     *)
profiling ==
  Holds(2, Open("f", Beyond) \o Open("g", 1) \o CloseNow("g") \o CloseNow("f")
           \o Open("f", Beyond) \o Work("f") \o CloseNow("f"))

Routines ==
  [demoDeferArgEvalError |-> demoDeferArgEvalError,
   demoDeferArgEvalFixed |-> demoDeferArgEvalFixed,
   demoDeferInLoopError |-> demoDeferInLoopError,
   demoDeferInLoopFixed |-> demoDeferInLoopFixed,
   demoLIFOAndNamedReturn |-> demoLIFOAndNamedReturn,
   deferInFunc |-> deferInFunc(TRUE), deferInFuncFails |-> deferInFunc(FALSE),
   deferInFuncFixed |-> deferInFuncFixed(TRUE),
   deferInFuncFixedFails |-> deferInFuncFixed(FALSE),
   panicExample |-> panicExample, nilDeref |-> nilDeref, panicAndRecover |-> panicAndRecover,
   printCompilerDiagnostics |-> printCompilerDiagnostics,
   showGoVetInAction |-> showGoVetInAction, reportAssembly |-> reportAssembly,
   traceToFile |-> traceToFile, osAndIO |-> osAndIO, httpClient |-> httpClient,
   profiling |-> profiling]

-----------------------------------------------------------------------------
(* A text that defers the close of what it opens before it does anything   *)
(* but use it, to which no other way leads, and closes nothing by itself.  *)
DefersClose(s) == s.op = "defer" /\ s.v = "close"
Opening == {"open", "make"}
Leading == {"open", "try", "if", "jump"}
Doing == {"tellnow", "nothing", "set", "add", "times", "recover"}
(* Before statement i, x has just been opened and its close not deferred.  *)
InDebt(code, i, x) ==
  /\ i \in DOMAIN code
  /\ \E j \in 1 .. i - 1 : /\ code[j].op \in Opening /\ code[j].x = x
                           /\ \A m \in j + 1 .. i - 1 : code[m].op = "use"
TidyStmt(code, i) ==
  LET s == code[i]
      inDebt == \E x \in Variable : InDebt(code, i, x)
  IN /\ s.op # "close"
     /\ s.op \in Opening => s.x \in Variable /\ i + 1 \in DOMAIN code
     /\ inDebt => DefersClose(s) \/ (s.op = "use" /\ i + 1 \in DOMAIN code)
     /\ DefersClose(s) => InDebt(code, i, s.x)
     /\ s.op \in Leading => s.to \in Nat /\ s.to > 0
                            /\ \A x \in Variable : ~InDebt(code, i + s.to, x)
     /\ s.op = "set" => s.x \in Variable /\ s.v \in Int
     /\ s.op = "defer" => s.x \in Variable /\ s.v \in {"close", "tell"}
     /\ s.op = "closure" => s.v \in [do : Doing, x : Variable, v : Int]
TidyText(code) ==
  /\ Len(code) \in Nat /\ Len(code) < Beyond /\ DOMAIN code = 1 .. Len(code)
  /\ \A i \in DOMAIN code : TidyStmt(code, i)

(* All but the last of the functions are such texts, and call such texts.  *)
ASSUME FunctionsAreTidy ==
  \A r \in DOMAIN Routines \ {"profiling"} :
    LET code == Routines[r].code
    IN /\ TidyText(code)
       /\ \A i \in DOMAIN code : code[i].op = "func" =>
            LET body == code[i].v
            IN TidyText(body) /\ \A j \in DOMAIN body : body[j].op # "func"

(* When a function is over, by return or by panic, what it opened has been *)
(* closed, and nothing is ever closed twice.                               *)
ClosedAtTheEnd ==
  /\ \A h \in DOMAIN closes : closes[h] <= 1
  /\ ended \in {"return", "panic"} => Opened = {}

(* Whichever steps fail, what a function opened is closed once when it is  *)
(* over, and not before it is used; as much is open together as it should  *)
(* be: all three files of the loop, one with the function literal.  No     *)
(* panic gets past the recover made for it, and the results are the ones   *)
(* of the tests.  os.Exit alone leaves everything as it is, and only when  *)
(* a step failed (basic012, basic009, day030, day034, day039, adv027).     *)
CleanupIsComplete ==
  /\ ClosedAtTheEnd /\ ~misused
  /\ most <= Routines[routine].held
  /\ ended # "panic"
  /\ ended = "return" =>
       /\ told \in Routines[routine].tells
       /\ failed \/ most = Routines[routine].held
  /\ ended = "exit" => failed /\ Opened = DOMAIN closes
===============================================================================
