---------------------------- MODULE WaitGroupOnce ----------------------------
(***************************************************************************)
(* The demonstrations of adv014_waitgroup_once/main.go: a function that    *)
(* uses a WaitGroup, or goroutines that race for a Once.  main runs them   *)
(* one after the other; a behaviour has one of them.                       *)
(***************************************************************************)
EXTENDS CountingOnce

CONSTANTS N, Half, Variants   (* of WaitGroup                               *)

ASSUME NAssumption == N \in Nat /\ N < Half \div 2
ASSUME HalfAssumption == Half \in Nat \ {0, 1} /\ Half % 2 = 0
ASSUME VariantsAssumption == Variants \subseteq {"correct", "wrong", "negative"}

VARIABLES
  demo,      (* "once" or "waitgroup": which of them runs                  *)
  variant, state, main, spawned, started, worker, completed, messages, before, final

groupVars ==
  <<variant, state, main, spawned, started, worker, completed, messages, before, final>>

W == INSTANCE WaitGroup WITH pc <- worker

DemoInit ==
  /\ Init /\ W!Init
  /\ \/ demo = "waitgroup" /\ ~recursive
     \/ demo = "once" /\ variant = (CHOOSE v \in Variants : TRUE)

DemoNext ==
  /\ UNCHANGED demo
  /\ \/ demo = "once" /\ Next /\ UNCHANGED groupVars
     \/ demo = "waitgroup" /\ W!Next /\ UNCHANGED vars

(* Goroutines run, and f returns if it can.                                *)
DemoSpec ==
  /\ DemoInit /\ [][DemoNext]_<<demo, vars, groupVars>>
  /\ \A c \in Caller : WF_vars(demo = "once" /\ Do(c))
  /\ WF_groupVars(demo = "waitgroup" /\ W!Main)
  /\ \A w \in 1 .. N : WF_groupVars(demo = "waitgroup" /\ W!Work(w))

-----------------------------------------------------------------------------

(* Add before go: when Wait returns every worker is done.  Add inside the  *)
(* goroutine: Wait returns while nobody is, and the done channel is what   *)
(* makes the final count right.  The packed word counts both sorts of use, *)
(* its halves never run into each other, and only Done on a fresh          *)
(* WaitGroup panics (main.go:10-15, 41-43, 85-86, 93-94).                  *)
WaitCoversEveryWorker == W!IInv /\ W!AddBeforeGo /\ W!AddInsideGo

(* Do returns to every caller when f does not call it, whoever wins the   *)
(* lock, and every use of the WaitGroup returns: no worker is waited for   *)
(* in vain (main.go:44-91, 136-166).                                      *)
EveryDemoEnds ==
  /\ demo = "once" /\ ~recursive => <>(Returned = Caller)
  /\ demo = "waitgroup" => W!EveryUseEnds

=============================================================================
