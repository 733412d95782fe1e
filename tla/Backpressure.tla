---------------------------- MODULE Backpressure ----------------------------
(***************************************************************************)
(* The queues of adv023_backpressure/main.go: the unbounded one, shared by *)
(* producers and consumers, or one of the two scenarios of the bounded     *)
(* ones.  main runs them one after the other; a behaviour has one of them. *)
(***************************************************************************)
EXTENDS UnboundedQueue

CONSTANTS Tasks, Capacities, Modes   (* of BoundedQueue                     *)

ASSUME TasksAssumption == Tasks \in Nat
ASSUME CapacitiesAssumption == Capacities \subseteq Nat
ASSUME ModesAssumption == Modes \subseteq {"drop", "block"}

VARIABLES
  queue,     (* "unbounded" or "bounded": which of them runs               *)
  hangs, mode, capacity, ch, chClosed, next, scenario, drain, accepted, dropped, drained

boundedVars ==
  <<hangs, mode, capacity, ch, chClosed, next, scenario, drain, accepted, dropped, drained>>

B == INSTANCE BoundedQueue WITH closed <- chClosed, pc <- scenario

BackpressureInit ==
  /\ Init /\ B!Init
  /\ \/ queue = "bounded"
     \/ /\ queue = "unbounded"
        /\ ~hangs /\ mode = (CHOOSE m \in Modes : TRUE) /\ capacity = (CHOOSE n \in Capacities : TRUE)

BackpressureNext ==
  /\ UNCHANGED queue
  /\ \/ queue = "unbounded" /\ Next /\ UNCHANGED boundedVars
     \/ queue = "bounded" /\ B!Next /\ UNCHANGED vars

(* Goroutines that can run are run, and the work on a task ends unless it  *)
(* hangs.  Nobody is obliged to push into the unbounded queue or close it. *)
BackpressureSpec ==
  /\ BackpressureInit /\ [][BackpressureNext]_<<queue, vars, boundedVars>>
  /\ \A c \in Consumer : WF_vars(queue = "unbounded" /\ Consume(c))
  /\ WF_boundedVars(queue = "bounded" /\ B!Push)
  /\ WF_boundedVars(queue = "bounded" /\ B!DrainGoesOn)

-----------------------------------------------------------------------------

(* The bounded queues: what a queue accepts is drained once, in the order  *)
(* of the pushes and never more than the capacity behind; nobody is parked *)
(* beside something to do; a queue that drops still fills its buffer; and  *)
(* when a scenario returns every task was drained or counted as dropped    *)
(* (main.go:190-228).                                                      *)
BoundedQueueIsSafe == B!BoundedQueueIsSafe

(* Both scenarios end when the work on every task does, and a queue that   *)
(* drops is filled and closed even if the drain hangs (main.go:80-88).     *)
ScenariosEnd == queue = "bounded" => B!ScenarioEnds /\ B!DropNeverWaits

=============================================================================
