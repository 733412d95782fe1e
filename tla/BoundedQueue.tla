---------------------------- MODULE BoundedQueue ----------------------------
(***************************************************************************)
(* DropQueue and BlockingQueue of adv023_backpressure/main.go in the       *)
(* scenarios runDropScenario and runBlockingScenario: one goroutine pushes *)
(* the tasks 1 .. Tasks into a buffered channel, closes it and waits for   *)
(* the goroutine that drains it.                                           *)
(*                                                                         *)
(* The channel is the runtime's: a send goes to a parked receiver, else    *)
(* into the buffer, else it blocks (or takes the default case); a receive  *)
(* takes the oldest value, lets a blocked sender's value in behind it, and *)
(* parks on an empty open channel; close wakes a parked receiver.          *)
(***************************************************************************)
EXTENDS Integers, Sequences

CONSTANTS
  Tasks,       (* how many values the scenario pushes                      *)
  Capacities,  (* the capacities explored                                  *)
  Modes        (* "drop": TryPush; "block": Push                           *)

VARIABLES
  hangs,     (* the work on a task may never end                           *)
  mode,      (* which queue this is                                        *)
  capacity,  (* cap(q.ch)                                                  *)
  ch,        (* the buffer of q.ch                                         *)
  closed,    (* q.ch is closed                                             *)
  next,      (* the value pushed next                                      *)
  pc,        (* the scenario: "push", "blocked", "wait", "returned"        *)
  drain,     (* the drain goroutine: "recv", "parked", "work", "done"      *)
  accepted,  (* the values the channel took, in order                      *)
  dropped,   (* q.dropped                                                  *)
  drained    (* the values the drain goroutine received, in order          *)

vars == <<hangs, mode, capacity, ch, closed, next, pc, drain, accepted, dropped, drained>>

Init ==
  /\ hangs \in BOOLEAN
  /\ mode \in Modes /\ capacity \in Capacities
  /\ ch = <<>> /\ closed = FALSE
  /\ next = 1 /\ pc = "push" /\ drain = "recv"
  /\ accepted = <<>> /\ dropped = 0 /\ drained = <<>>

-----------------------------------------------------------------------------
(* The pushing side.                                                       *)

Accept ==
  /\ accepted' = Append(accepted, next)
  /\ next' = next + 1

Buffer ==
  /\ pc = "push" /\ next <= Tasks
  /\ drain # "parked" /\ Len(ch) < capacity
  /\ ch' = Append(ch, next)
  /\ Accept
  /\ UNCHANGED <<hangs, mode, capacity, closed, pc, drain, dropped, drained>>

HandOver ==
  /\ pc = "push" /\ next <= Tasks
  /\ drain = "parked"
  /\ drained' = Append(drained, next)
  /\ drain' = "work"
  /\ Accept
  /\ UNCHANGED <<hangs, mode, capacity, ch, closed, pc, dropped>>

Full == pc = "push" /\ next <= Tasks /\ drain # "parked" /\ Len(ch) = capacity

(* TryPush, the default case: the value is gone and counted.               *)
Drop ==
  /\ mode = "drop" /\ Full
  /\ dropped' = dropped + 1
  /\ next' = next + 1
  /\ UNCHANGED <<hangs, mode, capacity, ch, closed, pc, drain, accepted, drained>>

Block ==
  /\ mode = "block" /\ Full
  /\ pc' = "blocked"
  /\ UNCHANGED <<hangs, mode, capacity, ch, closed, next, drain, accepted, dropped, drained>>

CloseQueueOnly ==
  /\ pc = "push" /\ next > Tasks
  /\ closed' = TRUE
  /\ pc' = "wait"
  /\ UNCHANGED <<hangs, mode, capacity, ch, next, drain, accepted, dropped, drained>>
CloseQueue ==
  /\ pc = "push" /\ next > Tasks
  /\ closed' = TRUE
  /\ pc' = "wait"
  /\ drain' = IF drain = "parked" THEN "done" ELSE drain
  /\ UNCHANGED <<hangs, mode, capacity, ch, next, accepted, dropped, drained>>

(* wg.Wait, and the scenario reports what was accepted.                    *)
Return ==
  /\ pc = "wait" /\ drain = "done"
  /\ pc' = "returned"
  /\ UNCHANGED <<hangs, mode, capacity, ch, closed, next, drain, accepted, dropped, drained>>

-----------------------------------------------------------------------------
(* Drain                                                                   *)

(* Receiving frees a slot, and the blocked sender's value goes into it, or *)
(* straight to the receiver of an unbuffered channel.                      *)
Receive ==
  /\ drain = "recv"
  /\ ch # <<>> \/ pc = "blocked"
  /\ LET line == IF pc = "blocked" THEN Append(ch, next) ELSE ch
     IN  drained' = Append(drained, Head(line)) /\ ch' = Tail(line)
  /\ drain' = "work"
  /\ IF pc = "blocked" THEN pc' = "push" /\ Accept ELSE UNCHANGED <<pc, accepted, next>>
  /\ UNCHANGED <<hangs, mode, capacity, closed, dropped>>

Park ==
  /\ drain = "recv" /\ ch = <<>> /\ pc # "blocked" /\ ~closed
  /\ drain' = "parked"
  /\ UNCHANGED <<hangs, mode, capacity, ch, closed, next, pc, accepted, dropped, drained>>

Work ==
  /\ drain = "work"
  /\ drain' = "recv"
  /\ UNCHANGED <<hangs, mode, capacity, ch, closed, next, pc, accepted, dropped, drained>>

(* The range over the closed channel ends when the buffer is empty.        *)
DrainEndsAtClose ==
  /\ drain = "recv" /\ closed
  /\ drain' = "done"
  /\ UNCHANGED <<hangs, mode, capacity, ch, closed, next, pc, accepted, dropped, drained>>
DrainEnds ==
  /\ drain = "recv" /\ ch = <<>> /\ closed
  /\ drain' = "done"
  /\ UNCHANGED <<hangs, mode, capacity, ch, closed, next, pc, accepted, dropped, drained>>

Finished == pc = "returned" /\ UNCHANGED vars

Push == Buffer \/ HandOver \/ Drop \/ Block \/ CloseQueue \/ Return
Drain == Receive \/ Park \/ Work \/ DrainEnds

Next == Push \/ Drain \/ Finished

(* The drain goroutine, when the work on a task ends.                      *)
DrainGoesOn == (hangs => drain # "work") /\ Drain

-----------------------------------------------------------------------------

TypeOK ==
  /\ hangs \in BOOLEAN /\ mode \in Modes /\ capacity \in Capacities
  /\ ch \in Seq(1 .. Tasks) /\ Len(ch) <= capacity
  /\ closed \in BOOLEAN
  /\ next \in 1 .. Tasks + 1
  /\ pc \in {"push", "blocked", "wait", "returned"}
  /\ drain \in {"recv", "parked", "work", "done"}
  /\ accepted \in Seq(1 .. Tasks) /\ drained \in Seq(1 .. Tasks)
  /\ dropped \in Nat

(* What was accepted is drained once, in the order it was pushed, and the  *)
(* producer is never more than the capacity ahead of the drain.            *)
AcceptedIsDrainedInOrder ==
  accepted = drained \o ch /\ Len(accepted) - Len(drained) <= capacity

(* Nobody is parked beside something to do: a parked receiver means an     *)
(* empty open channel, a blocked sender a full one.                        *)
NobodyParkedInVain ==
  /\ drain = "parked" => ch = <<>> /\ pc # "blocked" /\ ~closed
  /\ pc = "blocked" => Len(ch) = capacity /\ drain # "parked"

(* A queue that drops still takes what fits in its buffer: the first       *)
(* capacity values (main_test.go:52-63).                                 *)
BufferIsUsed ==
  \A i \in 1 .. capacity : i < next => i <= Len(accepted) /\ accepted[i] = i

(* What every state of both queues satisfies.                              *)
IInv == TypeOK /\ AcceptedIsDrainedInOrder /\ NobodyParkedInVain /\ BufferIsUsed

(* What the scenarios return: every task was drained or counted as dropped *)
(* (main.go:207, 227), and a blocking queue drops nothing.                 *)
ScenarioTotals ==
  pc = "returned" =>
    /\ drained = accepted
    /\ Len(accepted) + dropped = Tasks
    /\ mode = "block" => dropped = 0

(* Everything that must never go wrong with a bounded queue.               *)
BoundedQueueIsSafe == IInv /\ ScenarioTotals

(* Both scenarios end when the work on every task does.                    *)
ScenarioEnds == hangs \/ <>(pc = "returned")

(* TryPush never waits for the consumer: all tasks are offered and the     *)
(* queue is closed even if the drain hangs.                                *)
DropNeverWaits == mode = "drop" => <>closed

=============================================================================
