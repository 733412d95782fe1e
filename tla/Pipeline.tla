------------------------------ MODULE Pipeline ------------------------------
(***************************************************************************)
(* The fan-out/fan-in pipeline of adv020_pipeline_shutdown/main.go: one    *)
(* Produce goroutine, a Square goroutine and a Merge output goroutine per  *)
(* worker, the goroutine of Merge that closes out, and a consumer.  Every  *)
(* channel is unbuffered, so a value moves when its sender and its         *)
(* receiver are both in their select, and a goroutine in a select may also *)
(* take the ctx.Done() case once the context is canceled.                  *)
(*                                                                         *)
(* The consumer is one of: "first", FindFirst and then a range over out;   *)
(* "wrong", WrongFindFirstLeak, after which main may or may not clean up;  *)
(* "all", a range over everything (TestMergeFansInAllValues).              *)
(***************************************************************************)
EXTENDS Naturals, FiniteSets

CONSTANTS
  V,            (* Produce is given the values 1 .. V                      *)
  Worker,       (* the square workers                                      *)
  Target,       (* what the consumer looks for                             *)
  Consumers     (* the consumers explored                                  *)

VARIABLES
  consumer,   (* which consumer this is                                    *)
  canceled,   (* ctx.Err() # nil                                           *)
  produced,   (* how many values Produce has sent                          *)
  producer,   (* "send" or "closed"                                        *)
  square,     (* each worker: "recv", "send", "closed"                     *)
  squareVal,  (* the square a worker is sending, 0 for none                *)
  output,     (* each output goroutine of Merge: "recv", "send", "exited"  *)
  outputVal,  (* the value it is sending, 0 for none                       *)
  outClosed,  (* Merge has closed out                                      *)
  pc,         (* consumer: "range", "check", "returned", "drain", "done"   *)
  held,       (* the value the consumer is looking at, 0 for none          *)
  got         (* every value the consumer has received                     *)

ctxVars == <<consumer, canceled>>
prodVars == <<produced, producer>>
squareVars == <<square, squareVal>>
mergeVars == <<output, outputVal, outClosed>>
consumerVars == <<pc, held, got>>
vars == <<ctxVars, prodVars, squareVars, mergeVars, consumerVars>>

Squares == {v * v : v \in 1 .. V}

(* Produce tests the context before it starts its goroutine.               *)
FirstProducerState == IF canceled THEN "closed" ELSE "send"

Init ==
  /\ consumer \in Consumers
  /\ canceled \in BOOLEAN
  /\ produced = 0 /\ producer = FirstProducerState
  /\ square = [w \in Worker |-> "recv"] /\ squareVal = [w \in Worker |-> 0]
  /\ output = [w \in Worker |-> "recv"] /\ outputVal = [w \in Worker |-> 0]
  /\ outClosed = FALSE
  /\ pc = "range" /\ held = 0 /\ got = {}

-----------------------------------------------------------------------------
(* Values moving down the pipeline.                                        *)

ProduceSend(w) ==
  /\ producer = "send" /\ produced < V
  /\ square[w] = "recv"
  /\ produced' = produced + 1
  /\ square' = [square EXCEPT ![w] = "send"]
  /\ squareVal' = [squareVal EXCEPT ![w] = produced' * produced']
  /\ UNCHANGED <<ctxVars, producer, mergeVars, consumerVars>>

(* The worker keeps its value: a send that is not handed over.             *)
SquareSendTwice(w) ==
  /\ square[w] = "send" /\ output[w] = "recv"
  /\ UNCHANGED squareVars
  /\ output' = [output EXCEPT ![w] = "send"]
  /\ outputVal' = [outputVal EXCEPT ![w] = squareVal[w]]
  /\ UNCHANGED <<ctxVars, prodVars, outClosed, consumerVars>>
SquareSend(w) ==
  /\ square[w] = "send" /\ output[w] = "recv"
  /\ square' = [square EXCEPT ![w] = "recv"]
  /\ squareVal' = [squareVal EXCEPT ![w] = 0]
  /\ output' = [output EXCEPT ![w] = "send"]
  /\ outputVal' = [outputVal EXCEPT ![w] = squareVal[w]]
  /\ UNCHANGED <<ctxVars, prodVars, outClosed, consumerVars>>

OutputSend(w) ==
  /\ output[w] = "send" /\ pc \in {"range", "drain"}
  /\ output' = [output EXCEPT ![w] = "recv"]
  /\ outputVal' = [outputVal EXCEPT ![w] = 0]
  /\ got' = got \cup {outputVal[w]}
  /\ IF pc = "range" /\ consumer # "all"
     THEN pc' = "check" /\ held' = outputVal[w]
     ELSE UNCHANGED <<pc, held>>
  /\ UNCHANGED <<ctxVars, prodVars, squareVars, outClosed>>

-----------------------------------------------------------------------------
(* Goroutines leaving their loops; the deferred close or wg.Done is part   *)
(* of the exit.                                                            *)

ProducerExit ==
  /\ producer = "send"
  /\ canceled \/ produced = V
  /\ producer' = "closed"
  /\ UNCHANGED <<ctxVars, produced, squareVars, mergeVars, consumerVars>>

(* Without the second select a worker only notices the cancellation when   *)
(* it is back at its receive.                                              *)
SquareExitAtReceiveOnly(w) ==
  /\ square[w] = "recv" /\ (canceled \/ producer = "closed")
  /\ square' = [square EXCEPT ![w] = "closed"]
  /\ squareVal' = [squareVal EXCEPT ![w] = 0]
  /\ UNCHANGED <<ctxVars, prodVars, mergeVars, consumerVars>>
SquareExitOnCancelOnly(w) ==
  /\ square[w] \in {"recv", "send"} /\ canceled
  /\ square' = [square EXCEPT ![w] = "closed"]
  /\ squareVal' = [squareVal EXCEPT ![w] = 0]
  /\ UNCHANGED <<ctxVars, prodVars, mergeVars, consumerVars>>
SquareExit(w) ==
  /\ \/ square[w] \in {"recv", "send"} /\ canceled
     \/ square[w] = "recv" /\ producer = "closed"
  /\ square' = [square EXCEPT ![w] = "closed"]
  /\ squareVal' = [squareVal EXCEPT ![w] = 0]
  /\ UNCHANGED <<ctxVars, prodVars, mergeVars, consumerVars>>

OutputExit(w) ==
  /\ \/ output[w] \in {"recv", "send"} /\ canceled
     \/ output[w] = "recv" /\ square[w] = "closed"
  /\ output' = [output EXCEPT ![w] = "exited"]
  /\ outputVal' = [outputVal EXCEPT ![w] = 0]
  /\ UNCHANGED <<ctxVars, prodVars, squareVars, outClosed, consumerVars>>

CloseOut ==
  /\ ~outClosed
  /\ \A w \in Worker : output[w] = "exited"
  /\ outClosed' = TRUE
  /\ UNCHANGED <<ctxVars, prodVars, squareVars, output, outputVal, consumerVars>>

-----------------------------------------------------------------------------
(* The consumer.                                                           *)

Return(where) == pc' = where /\ held' = 0 /\ UNCHANGED got

FindFirstCheck ==
  /\ pc = "check" /\ consumer = "first"
  /\ IF ~canceled /\ held = Target
     THEN Return("drain") /\ canceled' = TRUE
     ELSE Return(IF canceled THEN "drain" ELSE "range") /\ UNCHANGED canceled
  /\ UNCHANGED <<consumer, prodVars, squareVars, mergeVars>>

WrongFindFirstCheck ==
  /\ pc = "check" /\ consumer = "wrong"
  /\ Return(IF held = Target THEN "returned" ELSE "range")
  /\ UNCHANGED <<ctxVars, prodVars, squareVars, mergeVars>>

(* main cleans up after the demonstration: cancel, then range over out.    *)
CleanUp ==
  /\ pc = "returned"
  /\ Return("drain")
  /\ canceled' = TRUE
  /\ UNCHANGED <<consumer, prodVars, squareVars, mergeVars>>

(* A range over a closed channel ends.                                     *)
RangeEnds ==
  /\ pc \in {"range", "drain"} /\ outClosed
  /\ Return("done")
  /\ UNCHANGED <<ctxVars, prodVars, squareVars, mergeVars>>

(* Somebody else who holds the context may cancel it at any time.          *)
OtherCancel ==
  /\ ~canceled
  /\ canceled' = TRUE
  /\ UNCHANGED <<consumer, prodVars, squareVars, mergeVars, consumerVars>>

-----------------------------------------------------------------------------

GoroutinesExited ==
  /\ producer = "closed" /\ outClosed
  /\ \A w \in Worker : square[w] = "closed" /\ output[w] = "exited"

Finished == pc = "done" /\ GoroutinesExited /\ UNCHANGED vars

Move(w) == ProduceSend(w) \/ SquareSend(w) \/ OutputSend(w)
Exit(w) == SquareExit(w) \/ OutputExit(w)
Consume == FindFirstCheck \/ WrongFindFirstCheck \/ RangeEnds

Next ==
  \/ \E w \in Worker : Move(w) \/ Exit(w)
  \/ ProducerExit \/ CloseOut \/ Consume \/ CleanUp \/ OtherCancel \/ Finished

-----------------------------------------------------------------------------

TypeOK ==
  /\ consumer \in Consumers /\ canceled \in BOOLEAN /\ outClosed \in BOOLEAN
  /\ produced \in 0 .. V /\ producer \in {"send", "closed"}
  /\ square \in [Worker -> {"recv", "send", "closed"}]
  /\ output \in [Worker -> {"recv", "send", "exited"}]
  /\ squareVal \in [Worker -> {0} \cup Squares]
  /\ outputVal \in [Worker -> {0} \cup Squares]
  /\ pc \in {"range", "check", "returned", "drain", "done"}
  /\ held \in {0} \cup Squares /\ got \in SUBSET Squares

(* Where the square of an input is.                                        *)
Places(s) ==
  Cardinality({w \in Worker : squareVal[w] = s}) + Cardinality({w \in Worker : outputVal[w] = s})
    + (IF s \in got THEN 1 ELSE 0)

(* Every input that was produced is squared once and is in exactly one     *)
(* place, or, once the context is canceled, in at most one                 *)
(* (main_test.go:56-59).                                                   *)
NoneLostNoneTwice ==
  \A v \in 1 .. V :
    IF v > produced THEN Places(v * v) = 0
    ELSE Places(v * v) <= 1 /\ (canceled \/ Places(v * v) = 1)

(* Merge closes out only when no output goroutine can still send to it, so *)
(* no send meets a closed channel (main.go:63-66).                         *)
NoSendOnClosed == outClosed => \A w \in Worker : output[w] = "exited"

(* The inductive invariant: the types, the accounting of the values, and   *)
(* the order of the shutdown, in which a stage ends before the one that    *)
(* feeds it only when the context is canceled.                             *)
ShutdownOrder ==
  /\ producer = "closed" => canceled \/ produced = V
  /\ \A w \in Worker :
       /\ square[w] = "closed" => canceled \/ producer = "closed"
       /\ output[w] = "exited" => canceled \/ square[w] = "closed"
IInv == TypeOK /\ NoneLostNoneTwice /\ NoSendOnClosed /\ ShutdownOrder

(* A consumer whose range ended on its own has seen every square.          *)
DrainedMeansAll == pc = "done" /\ ~canceled => got = Squares

(* FindFirst followed by a range, and a range over everything, both end.   *)
ConsumerEnds == consumer # "wrong" => <>(pc = "done" /\ GoroutinesExited)

=============================================================================
