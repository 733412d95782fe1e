---------------------------- MODULE CountingOnce ----------------------------
(***************************************************************************)
(* countingDoubleOnce of adv014_waitgroup_once/main.go, the copy of        *)
(* sync.Once with its double-checked lock, called by any number of         *)
(* goroutines.  A recursive function given to Do calls Do again on the     *)
(* same Once, as in runOnceRecursiveDeadlock; the inner call is the        *)
(* second frame of its goroutine.                                          *)
(***************************************************************************)
EXTENDS Integers, FiniteSets

CONSTANT Caller  (* the goroutines, one call of Do each                     *)

ASSUME CallerAssumption == IsFiniteSet(Caller)

VARIABLES
  recursive, (* whether f calls Do itself                                  *)
  done,      (* o.done                                                     *)
  owner,     (* the callers that hold o.mu                                 *)
  fast,      (* o.fastPath                                                 *)
  slow,      (* o.slowPath                                                 *)
  pc,        (* where each goroutine is, in its innermost call of Do       *)
  depth,     (* 1, or 2 while f calls Do                                   *)
  ran        (* how many times a function given to Do has finished         *)

vars == <<recursive, done, owner, fast, slow, pc, depth, ran>>

PC == {"load", "countFast", "countSlow", "lock", "check", "body", "store", "unlock", "returned"}

Goto(c, from, to) == pc[c] = from /\ pc' = [pc EXCEPT ![c] = to]

(* Do returns: to the goroutine, or into f, which then has finished.       *)
ReturnFrom(c, from) ==
  /\ Goto(c, from, IF depth[c] = 1 THEN "returned" ELSE "store")
  /\ depth' = [depth EXCEPT ![c] = 1]
  /\ ran' = IF depth[c] = 1 THEN ran ELSE ran + 1

Init ==
  /\ recursive \in BOOLEAN
  /\ done = 0 /\ owner = {}
  /\ fast = 0 /\ slow = 0
  /\ pc = [c \in Caller |-> "load"] /\ depth = [c \in Caller |-> 1]
  /\ ran = 0

Load(c) ==
  /\ Goto(c, "load", IF done = 1 THEN "countFast" ELSE "countSlow")
  /\ UNCHANGED <<recursive, done, owner, fast, slow, depth, ran>>

CountFast(c) ==
  /\ ReturnFrom(c, "countFast")
  /\ fast' = fast + 1
  /\ UNCHANGED <<recursive, done, owner, slow>>

CountSlow(c) ==
  /\ Goto(c, "countSlow", "lock")
  /\ slow' = slow + 1
  /\ UNCHANGED <<recursive, done, owner, fast, depth, ran>>

(* A mutex that its holder could lock again.                               *)
LockReentrant(c) ==
  /\ Goto(c, "lock", "check")
  /\ owner \subseteq {c}
  /\ owner' = {c}
  /\ UNCHANGED <<recursive, done, fast, slow, depth, ran>>
Lock(c) ==
  /\ Goto(c, "lock", "check")
  /\ owner = {}
  /\ owner' = {c}
  /\ UNCHANGED <<recursive, done, fast, slow, depth, ran>>

(* The second look at done, under the lock.                                *)
CheckAndStore(c) ==
  /\ Goto(c, "check", IF done = 0 THEN "body" ELSE "unlock")
  /\ done' = 1
  /\ UNCHANGED <<recursive, owner, fast, slow, depth, ran>>
Check(c) ==
  /\ Goto(c, "check", IF done = 0 THEN "body" ELSE "unlock")
  /\ UNCHANGED <<recursive, done, owner, fast, slow, depth, ran>>

(* f() without and with a call of Do.                                      *)
Body(c) ==
  /\ ~recursive \/ depth[c] = 2
  /\ Goto(c, "body", "store")
  /\ ran' = ran + 1
  /\ UNCHANGED <<recursive, done, owner, fast, slow, depth>>

BodyCallsDo(c) ==
  /\ recursive /\ depth[c] = 1
  /\ Goto(c, "body", "load")
  /\ depth' = [depth EXCEPT ![c] = 2]
  /\ UNCHANGED <<recursive, done, owner, fast, slow, ran>>

(* The deferred calls: done is stored before the mutex is released.        *)
Store(c) ==
  /\ Goto(c, "store", "unlock")
  /\ done' = 1
  /\ UNCHANGED <<recursive, owner, fast, slow, depth, ran>>

UnlockForgotten(c) ==
  /\ ReturnFrom(c, "unlock")
  /\ UNCHANGED <<recursive, done, owner, fast, slow>>
Unlock(c) ==
  /\ ReturnFrom(c, "unlock")
  /\ owner' = owner \ {c}
  /\ UNCHANGED <<recursive, done, fast, slow>>

AllReturned == (\A c \in Caller : pc[c] = "returned") /\ UNCHANGED vars

(* The deadlock that runOnceRecursiveDeadlock waits for.                   *)
Deadlocked == recursive /\ (\A c \in Caller : pc[c] = "lock") /\ UNCHANGED vars

Do(c) ==
  \/ Load(c) \/ CountFast(c) \/ CountSlow(c) \/ Lock(c) \/ Check(c)
  \/ Body(c) \/ BodyCallsDo(c) \/ Store(c) \/ Unlock(c)

Next == (\E c \in Caller : Do(c)) \/ AllReturned \/ Deadlocked

Spec == Init /\ [][Next]_vars

-----------------------------------------------------------------------------

TypeOK ==
  /\ recursive \in BOOLEAN
  /\ done \in {0, 1}
  /\ owner = {} \/ \E c \in Caller : owner = {c}
  /\ fast \in Nat /\ slow \in Nat /\ ran \in Nat
  /\ pc \in [Caller -> PC]
  /\ depth \in [Caller -> {1, 2}]

Returned == {c \in Caller : pc[c] = "returned"}

(* f runs once, and nobody comes back from Do before that run is over,     *)
(* however the callers race between the two looks at done                  *)
(* (main.go:106-107, 126-128).                                               *)
OnceAndBeforeReturn ==
  /\ ran <= 1
  /\ Returned # {} => ran = 1

(* After one call has returned every new call takes the lock-free path     *)
(* (main.go:150-151).                                                      *)
WarmCallsAreFast ==
  [][Returned # {} =>
       \A c \in Caller : pc[c] = "load" => pc'[c] \in {"load", "countFast"}]_vars

(* A recursive Do never returns, to nobody: the inner call waits for the   *)
(* mutex of the outer one, and everybody else behind it (main.go:168-169). *)
RecursionNeverReturns == recursive => Returned = {} /\ done = 0

=============================================================================
