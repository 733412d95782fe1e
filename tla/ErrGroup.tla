------------------------------ MODULE ErrGroup ------------------------------
(***************************************************************************)
(* The Group of adv021_errgroup/main.go: one caller starts tasks with Go   *)
(* and then calls Wait; each task runs in a goroutine of its own, holds a  *)
(* slot of the semaphore when a limit is set, and the first error cancels  *)
(* the context derived by NewGroup.                                        *)
(*                                                                         *)
(* A quick task returns nil or an error whenever it likes; a waiting task  *)
(* is the second worker of runCancellationDemo: it returns an error, and   *)
(* only after it has seen ctx.Done().  The error of a task is the task.    *)
(***************************************************************************)
EXTENDS Integers, FiniteSets

CONSTANTS
  N,        (* the caller starts the tasks 1 .. N, in this order           *)
  Limits    (* the arguments SetLimit may get; 0 removes the limit         *)

ASSUME NAssumption == N \in Nat
ASSUME LimitsAssumption == Limits \subseteq Nat

Task == 1 .. N
Nil == 0           (* no error, and the cause of a live context            *)
Canceled == N + 1  (* the cause of cancel(nil)                             *)
Parent == N + 2    (* the cause inherited from the parent context          *)

VARIABLES
  limit,    (* cap(g.sem), 0 when g.sem is nil                             *)
  sem,      (* len(g.sem)                                                  *)
  wg,       (* the counter of g.wg                                         *)
  once,     (* g.errOnce: "new", "running" (inside Do), "done"             *)
  err,      (* g.err                                                       *)
  cause,    (* context.Cause(g.ctx), Nil until it is canceled              *)
  caller,   (* "new", "go", "launch", "wait", "cancel", "returned",        *)
            (* or "panicked" in SetLimit                                   *)
  next,     (* the task the caller starts next                             *)
  kind,     (* what each task does: "quick" or "waiting"                   *)
  state,    (* where each task is                                          *)
  result    (* what Wait returned, Nil before                              *)

vars == <<limit, sem, wg, once, err, cause, caller, next, kind, state, result>>

TaskState == {"new", "dropped", "created", "running", "failed", "recorded", "unwinding",
              "released", "done"}

Canceling == cause # Nil
Running == {t \in Task : state[t] = "running"}
Launched == {t \in Task : state[t] \notin {"new", "dropped"}}

(* NewGroup; the parent may already be canceled.                           *)
Init ==
  /\ limit = 0 /\ sem = 0 /\ wg = 0
  /\ once = "new" /\ err = Nil
  /\ cause \in {Nil, Parent}
  /\ caller = "new" /\ next = 1
  /\ kind \in [Task -> {"quick", "waiting"}]
  /\ state = [t \in Task |-> "new"]
  /\ result = Nil

(* A call of SetLimit, after which the caller goes on to Go or calls it    *)
(* again.  Every negative argument is like -1.                             *)
SetLimit ==
  /\ caller = "new"
  /\ \E n \in Limits \cup {-1} :
       IF n < 0 \/ (n > 0 /\ limit > 0)
       THEN caller' = "panicked" /\ limit' = limit
       ELSE caller' \in {"new", "go"} /\ limit' = n
  /\ UNCHANGED <<sem, wg, once, err, cause, next, kind, state, result>>

(* The parent context is canceled by someone else.                         *)
ParentCancel ==
  /\ ~Canceling
  /\ cause' = Parent
  /\ UNCHANGED <<limit, sem, wg, once, err, caller, next, kind, state, result>>

-----------------------------------------------------------------------------
(* Go, up to the go statement.  Without a limit there is no select.        *)

GoUnlimited ==
  /\ caller = "go" /\ next \in Task
  /\ limit = 0
  /\ caller' = "launch"
  /\ UNCHANGED <<limit, sem, wg, once, err, cause, next, kind, state, result>>

GoAcquirePastLimit ==
  /\ caller = "go" /\ next \in Task
  /\ limit > 0
  /\ sem' = sem + 1
  /\ caller' = "launch"
  /\ UNCHANGED <<limit, wg, once, err, cause, next, kind, state, result>>
GoAcquire ==
  /\ caller = "go" /\ next \in Task
  /\ limit > 0 /\ sem < limit
  /\ sem' = sem + 1
  /\ caller' = "launch"
  /\ UNCHANGED <<limit, wg, once, err, cause, next, kind, state, result>>

(* The other case of the select; with a free slot and a canceled context   *)
(* either case may be taken.                                               *)
GoDrop ==
  /\ caller = "go" /\ next \in Task
  /\ limit > 0 /\ Canceling
  /\ state' = [state EXCEPT ![next] = "dropped"]
  /\ next' = next + 1
  /\ UNCHANGED <<limit, sem, wg, once, err, cause, caller, kind, result>>

LaunchWithoutAdd ==
  /\ caller = "launch"
  /\ state' = [state EXCEPT ![next] = "created"]
  /\ next' = next + 1
  /\ caller' = "go"
  /\ UNCHANGED <<limit, sem, wg, once, err, cause, kind, result>>
Launch ==
  /\ caller = "launch"
  /\ wg' = wg + 1
  /\ state' = [state EXCEPT ![next] = "created"]
  /\ next' = next + 1
  /\ caller' = "go"
  /\ UNCHANGED <<limit, sem, once, err, cause, kind, result>>

-----------------------------------------------------------------------------
(* The goroutine of a task: f, errOnce.Do, then the deferred calls, last   *)
(* registered first: the slot is released before wg.Done.                  *)

MoveTo(t, from, to) == state[t] = from /\ state' = [state EXCEPT ![t] = to]

Start(t) ==
  /\ MoveTo(t, "created", "running")
  /\ UNCHANGED <<limit, sem, wg, once, err, cause, caller, next, kind, result>>

MayReturn(t) == kind[t] = "quick" \/ Canceling

Succeed(t) ==
  /\ kind[t] = "quick"
  /\ MoveTo(t, "running", "unwinding")
  /\ UNCHANGED <<limit, sem, wg, once, err, cause, caller, next, kind, result>>

Fail(t) ==
  /\ MayReturn(t)
  /\ MoveTo(t, "running", "failed")
  /\ UNCHANGED <<limit, sem, wg, once, err, cause, caller, next, kind, result>>

(* errOnce.Do(f): the first caller runs f, which stores the error ...      *)
Record(t) ==
  /\ once = "new"
  /\ MoveTo(t, "failed", "recorded")
  /\ once' = "running"
  /\ err' = t
  /\ UNCHANGED <<limit, sem, wg, cause, caller, next, kind, result>>

(* ... and cancels the context: the first cause stays.                     *)
CancelWith(c) == cause' = IF Canceling THEN cause ELSE c

CancelGroupForgotten(t) ==
  /\ MoveTo(t, "recorded", "unwinding")
  /\ once' = "done"
  /\ UNCHANGED <<limit, sem, wg, err, cause, caller, next, kind, result>>
CancelGroup(t) ==
  /\ MoveTo(t, "recorded", "unwinding")
  /\ once' = "done"
  /\ CancelWith(t)
  /\ UNCHANGED <<limit, sem, wg, err, caller, next, kind, result>>

(* ... and every other caller of Do waits for it to finish.                *)
SkipRecord(t) ==
  /\ once = "done"
  /\ MoveTo(t, "failed", "unwinding")
  /\ UNCHANGED <<limit, sem, wg, once, err, cause, caller, next, kind, result>>

(* The deferred calls.                                                     *)
Release(t) ==
  /\ MoveTo(t, "unwinding", "released")
  /\ sem' = IF limit > 0 THEN sem - 1 ELSE sem
  /\ UNCHANGED <<limit, wg, once, err, cause, caller, next, kind, result>>

Done(t) ==
  /\ MoveTo(t, "released", "done")
  /\ wg' = wg - 1
  /\ UNCHANGED <<limit, sem, once, err, cause, caller, next, kind, result>>

-----------------------------------------------------------------------------
(* Wait                                                                    *)

CallWait ==
  /\ caller = "go" /\ next = N + 1
  /\ caller' = "wait"
  /\ UNCHANGED <<limit, sem, wg, once, err, cause, next, kind, state, result>>

WaitForAll ==
  /\ caller = "wait"
  /\ wg = 0
  /\ caller' = "cancel"
  /\ UNCHANGED <<limit, sem, wg, once, err, cause, next, kind, state, result>>

WaitReturns ==
  /\ caller = "cancel"
  /\ CancelWith(IF err = Nil THEN Canceled ELSE err)
  /\ result' = err
  /\ caller' = "returned"
  /\ UNCHANGED <<limit, sem, wg, once, err, next, kind, state>>

Finished == caller \in {"returned", "panicked"} /\ UNCHANGED vars

Caller == SetLimit \/ GoUnlimited \/ GoAcquire \/ GoDrop \/ Launch \/ CallWait
            \/ WaitForAll \/ WaitReturns
Goroutine(t) == Start(t) \/ Succeed(t) \/ Fail(t) \/ Record(t) \/ CancelGroup(t)
                  \/ SkipRecord(t) \/ Release(t) \/ Done(t)

Next == Caller \/ (\E t \in Task : Goroutine(t)) \/ ParentCancel \/ Finished

Spec == Init /\ [][Next]_vars

(* The scheduler runs every goroutine that can run, and tasks return.      *)
FairSpec == Spec /\ WF_vars(Caller) /\ \A t \in Task : WF_vars(Goroutine(t))

-----------------------------------------------------------------------------

TypeOK ==
  /\ limit \in {0} \cup Limits /\ sem \in 0 .. limit
  /\ wg \in 0 .. N /\ next \in 1 .. N + 1
  /\ once \in {"new", "running", "done"}
  /\ err \in Task \cup {Nil} /\ result \in Task \cup {Nil}
  /\ cause \in Task \cup {Nil, Canceled, Parent}
  /\ caller \in {"new", "go", "launch", "wait", "cancel", "returned", "panicked"}
  /\ kind \in [Task -> {"quick", "waiting"}]
  /\ state \in [Task -> TaskState]

(* SetLimit bounds how many tasks are inside f at once, and every one of   *)
(* them accounts for a slot (main.go:31-32, 118-119).                      *)
LimitHolds == limit > 0 => Cardinality(Running) <= limit /\ Cardinality(Running) <= sem

(* Semaphore, WaitGroup and errOnce agree with what the goroutines are     *)
(* doing: every launched task holds a slot and counts in wg until its own  *)
(* deferred call gives it back, and one task at most is inside Do.         *)
At(labels) == {t \in Task : state[t] \in labels}
Owing == {"created", "running", "failed", "recorded", "unwinding"}
IInv ==
  /\ TypeOK
  /\ LimitHolds
  /\ sem = IF limit = 0 THEN 0
           ELSE Cardinality(At(Owing)) + (IF caller = "launch" THEN 1 ELSE 0)
  /\ wg = Cardinality(At(Owing \cup {"released"}))
  /\ once = "new" <=> err = Nil
  /\ Cardinality(At({"recorded"})) = IF once = "running" THEN 1 ELSE 0

(* When Wait returns no goroutine of the group is left and every slot is   *)
(* free again, because the slot is released before wg.Done (main.go:61-64).*)
NothingLeftAfterWait ==
  caller = "returned" => Launched \subseteq {t \in Task : state[t] = "done"} /\ sem = 0

(* A nil result means what callers take it for, unless the parent was      *)
(* canceled: every task ran, and none failed.  With a canceled parent Wait *)
(* may return nil although Go dropped tasks (main.go:54-55, 84).           *)
NilMeansAllRan ==
  caller = "returned" /\ result = Nil =>
    \/ cause = Parent
    \/ Launched = Task /\ once = "new"

(* The error Wait returns is the one the context reports, so a task that   *)
(* asks for the cause and the caller agree (main_test.go:35), unless the   *)
(* parent's cancellation came first.                                       *)
CauseAgreesWithResult ==
  caller = "returned" =>
    cause \in {Parent, IF result = Nil THEN Canceled ELSE result}

(* One failing task is enough: its cancellation releases the waiting tasks *)
(* and a Go that is blocked on a full semaphore, and Wait returns.         *)
FailureEndsTheGroup == (\E t \in Task : state[t] = "failed") ~> (caller = "returned")

(* What a caller may rely on when Wait has returned.                       *)
WaitIsHonest == NothingLeftAfterWait /\ NilMeansAllRan /\ CauseAgreesWithResult

(* main.go:47 says that Go starts f in a new goroutine "unless the context *)
(* is already canceled": a group whose context is canceled from the start  *)
(* would never start a task.                                               *)
CanceledGroupStartsNothing ==
  Canceling => [](\A t \in Task : state[t] \in {"new", "dropped"})

=============================================================================
