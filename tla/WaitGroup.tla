----------------------------- MODULE WaitGroup ------------------------------
(***************************************************************************)
(* The uses of sync.WaitGroup in adv014_waitgroup_once/main.go, with the   *)
(* packed state word the module explains: the counter, signed, in the high *)
(* half and the number of waiters in the low half.                         *)
(*                                                                         *)
(* "correct" is runCorrectWaitGroup; "wrong" is runWrongAddInGoroutine,    *)
(* whose workers call Add themselves; "negative" is runNegativeAddPanic.   *)
(***************************************************************************)
EXTENDS Integers, FiniteSets

CONSTANTS
  N,         (* the number of workers                                      *)
  Half,      (* 2^32 in the code: the size of half a state word            *)
  Variants   (* the functions explored                                     *)

Worker == 1 .. N
Word == Half * Half

VARIABLES
  variant,    (* the function that runs                                    *)
  state,      (* the packed word                                           *)
  main,       (* where that function is                                    *)
  spawned,    (* how many workers it has started                           *)
  started,    (* close(start) was called                                   *)
  pc,         (* each worker: "none", "ready", "added", "sending",         *)
              (* "completed", "finished"                                   *)
  completed,  (* the counter of completed workers                          *)
  messages,   (* how many messages are in the done channel                 *)
  before,     (* completed when Wait returned, -1 until then               *)
  final       (* what the function returns, -1 until then                  *)

vars == <<variant, state, main, spawned, started, pc, completed, messages, before, final>>

-----------------------------------------------------------------------------
(* The packed word.                                                        *)

High32DeltaUnshifted(delta) == delta % Word
High32Delta(delta) == (delta * Half) % Word

Counter(v) == LET c == v \div Half IN IF c >= Half \div 2 THEN c - Half ELSE c
Waiters(v) == v % Half
Plus(delta) == (state + High32Delta(delta)) % Word

(* wg.Add: a negative counter panics, and the waiters are let go when the  *)
(* counter comes down to zero.                                             *)
AddKeepingWaiters(delta) ==
  /\ state' = Plus(delta)
  /\ IF Counter(state') < 0 THEN main' = "panicked" ELSE UNCHANGED main
Add(delta) ==
  IF Counter(Plus(delta)) < 0
  THEN state' = Plus(delta) /\ main' = "panicked"
  ELSE IF Counter(Plus(delta)) = 0 /\ Waiters(state) > 0
  THEN state' = 0 /\ main' = "woken"
  ELSE state' = Plus(delta) /\ UNCHANGED main

(* wg.Wait, from one label of the function to the next: it returns at once *)
(* when the counter is zero, and registers a waiter otherwise.             *)
Wait(from, to) ==
  /\ main = from
  /\ IF Counter(state) = 0
     THEN main' = to /\ UNCHANGED state
     ELSE main' = "asleep" /\ state' = (state + 1) % Word

Init ==
  /\ variant \in Variants
  /\ state = 0
  /\ main = (CASE variant = "correct" -> "add" [] variant = "wrong" -> "spawn"
               [] OTHER -> "done")
  /\ spawned = 0 /\ started = FALSE
  /\ pc = [w \in Worker |-> "none"]
  /\ completed = 0 /\ messages = 0
  /\ before = -1 /\ final = -1

-----------------------------------------------------------------------------
(* The calling function.                                                   *)

AddAllOneShort ==
  /\ main = "add"
  /\ state' = (state + High32Delta(N - 1)) % Word
  /\ main' = "spawn"
  /\ UNCHANGED <<variant, spawned, started, pc, completed, messages, before, final>>
AddAll ==
  /\ main = "add"
  /\ state' = Plus(N)
  /\ main' = "spawn"
  /\ UNCHANGED <<variant, spawned, started, pc, completed, messages, before, final>>

Spawn ==
  /\ main = "spawn" /\ spawned < N
  /\ spawned' = spawned + 1
  /\ pc' = [pc EXCEPT ![spawned'] = "ready"]
  /\ UNCHANGED <<variant, state, main, started, completed, messages, before, final>>

CallWait ==
  /\ spawned = N
  /\ Wait("spawn", "woken")
  /\ UNCHANGED <<variant, spawned, started, pc, completed, messages, before, final>>

AfterWait ==
  /\ main = "woken"
  /\ before' = completed
  /\ IF variant = "correct"
     THEN final' = completed /\ main' = "returned"
     ELSE UNCHANGED final /\ main' = "release"
  /\ UNCHANGED <<variant, state, spawned, started, pc, completed, messages>>

CloseStart ==
  /\ main = "release"
  /\ started' = TRUE
  /\ main' = "collect"
  /\ UNCHANGED <<variant, state, spawned, pc, completed, messages, before, final>>

(* The done channel is buffered for all workers; its messages are counted  *)
(* here, and the function goes on when it has received all of them.        *)
Collect ==
  /\ main = "collect" /\ messages = N
  /\ final' = completed
  /\ main' = "returned"
  /\ UNCHANGED <<variant, state, spawned, started, pc, completed, messages, before>>

(* wg.Done on a new WaitGroup; the panic is recovered.                     *)
DoneWithoutAdd ==
  /\ main = "done"
  /\ Add(-1)
  /\ UNCHANGED <<variant, spawned, started, pc, completed, messages, before, final>>

-----------------------------------------------------------------------------
(* The workers.                                                            *)

AddInGoroutine(w) ==
  /\ variant = "wrong" /\ started
  /\ pc[w] = "ready"
  /\ Add(1)
  /\ pc' = [pc EXCEPT ![w] = "added"]
  /\ UNCHANGED <<variant, spawned, started, completed, messages, before, final>>

Complete(w) ==
  /\ pc[w] = (IF variant = "wrong" THEN "added" ELSE "ready")
  /\ completed' = completed + 1
  /\ pc' = [pc EXCEPT ![w] = IF variant = "wrong" THEN "sending" ELSE "completed"]
  /\ UNCHANGED <<variant, state, main, spawned, started, messages, before, final>>

SendDone(w) ==
  /\ pc[w] = "sending"
  /\ messages' = messages + 1
  /\ pc' = [pc EXCEPT ![w] = "completed"]
  /\ UNCHANGED <<variant, state, main, spawned, started, completed, before, final>>

DeferredDone(w) ==
  /\ pc[w] = "completed"
  /\ Add(-1)
  /\ pc' = [pc EXCEPT ![w] = "finished"]
  /\ UNCHANGED <<variant, spawned, started, completed, messages, before, final>>

Ended == main \in {"returned", "panicked"} /\ UNCHANGED vars

Main == AddAll \/ Spawn \/ CallWait \/ AfterWait \/ CloseStart \/ Collect \/ DoneWithoutAdd
Work(w) == AddInGoroutine(w) \/ Complete(w) \/ SendDone(w) \/ DeferredDone(w)

Next == Main \/ (\E w \in Worker : Work(w)) \/ Ended

-----------------------------------------------------------------------------

WorkersAt(labels) == {w \in Worker : pc[w] \in labels}

TypeOK ==
  /\ variant \in Variants
  /\ state \in 0 .. Word - 1
  /\ main \in {"add", "spawn", "asleep", "woken", "release", "collect", "returned", "done",
               "panicked"}
  /\ spawned \in 0 .. N /\ completed \in 0 .. N /\ messages \in 0 .. N
  /\ started \in BOOLEAN
  /\ pc \in [Worker -> {"none", "ready", "added", "sending", "completed", "finished"}]
  /\ before \in -1 .. N /\ final \in -1 .. N

(* The two halves of the word do not run into each other: the counter is   *)
(* what was added and not yet done, and the waiters are who sleeps in Wait *)
(* (main.go:10-15).                                                        *)
HalvesAreSeparate ==
  variant # "negative" =>
    /\ Waiters(state) = (IF main = "asleep" THEN 1 ELSE 0)
    /\ Counter(state) =
         IF variant = "wrong" THEN Cardinality(WorkersAt({"added", "sending", "completed"}))
         ELSE IF main = "add" THEN 0 ELSE N - Cardinality(WorkersAt({"finished"}))

(* Add before go: when Wait returns every worker is done (main.go:41-43).  *)
AddBeforeGo ==
  variant = "correct" /\ main \in {"woken", "returned"} =>
    completed = N /\ WorkersAt({"finished"}) = Worker

(* Add inside the goroutine: Wait returns while nobody has completed, and  *)
(* the done channel is what makes the final count right (main.go:85-86).   *)
AddInsideGo ==
  variant = "wrong" =>
    /\ before \in {-1, 0}
    /\ main = "returned" => final = N

(* Neither use of WaitGroup brings the counter below zero, and Done on a   *)
(* fresh one always does (main.go:93-94).                                  *)
OnlyMisusePanics ==
  IF variant = "negative" THEN main \in {"done", "panicked"}
  ELSE main # "panicked" /\ Counter(state) >= 0

(* What every state of the three functions satisfies.                      *)
IInv == TypeOK /\ HalvesAreSeparate /\ OnlyMisusePanics

(* Every function returns: no worker is waited for in vain.                *)
EveryUseEnds == <>(main \in {"returned", "panicked"})

=============================================================================
