---------------------------- MODULE Cancellation ----------------------------
(***************************************************************************)
(* The two programs that end their goroutines by cancelling a context: the *)
(* group of adv021 and the pipeline of adv020.  A behaviour has one of     *)
(* them.                                                                   *)
(***************************************************************************)
EXTENDS ErrGroup

CONSTANTS V, Worker, Target, Consumers   (* of Pipeline                     *)

ASSUME VAssumption == V \in Nat
(* Merge is given at least one worker (main.go:178, 202).                  *)
ASSUME WorkerAssumption == IsFiniteSet(Worker) /\ Worker # {}
ASSUME TargetAssumption == Target \in Nat
ASSUME ConsumersAssumption == Consumers \subseteq {"first", "wrong", "all"}

VARIABLES
  program,   (* "group" or "pipeline": which of them runs                  *)
  consumer, canceled, produced, producer, square, squareVal, output, outputVal, outClosed,
  pc, held, got

pipelineVars ==
  <<consumer, canceled, produced, producer, square, squareVal, output, outputVal, outClosed,
    pc, held, got>>

P == INSTANCE Pipeline

CancellationInit ==
  /\ Init /\ P!Init
  /\ \/ /\ program = "pipeline"
        /\ cause = Nil /\ kind = [t \in Task |-> "quick"]
     \/ /\ program = "group"
        /\ ~canceled /\ consumer = (CHOOSE c \in Consumers : TRUE)

CancellationNext ==
  /\ UNCHANGED program
  /\ \/ program = "group" /\ Next /\ UNCHANGED pipelineVars
     \/ program = "pipeline" /\ P!Next /\ UNCHANGED vars

(* Goroutines that can go on do, and tasks return; nobody has to cancel.   *)
GroupRuns(A) == program = "group" /\ A
PipelineRuns(A) == program = "pipeline" /\ A
CancellationSpec ==
  /\ CancellationInit /\ [][CancellationNext]_<<program, vars, pipelineVars>>
  /\ WF_vars(GroupRuns(Caller))
  /\ \A t \in Task : WF_vars(GroupRuns(Goroutine(t)))
  /\ WF_pipelineVars(PipelineRuns(P!ProducerExit))
  /\ WF_pipelineVars(PipelineRuns(P!CloseOut))
  /\ WF_pipelineVars(PipelineRuns(P!Consume))
  /\ \A w \in Worker :
       /\ WF_pipelineVars(PipelineRuns(P!ProduceSend(w)))
       /\ WF_pipelineVars(PipelineRuns(P!SquareSend(w)))
       /\ WF_pipelineVars(PipelineRuns(P!OutputSend(w)))
       /\ WF_pipelineVars(PipelineRuns(P!SquareExit(w)))
       /\ WF_pipelineVars(PipelineRuns(P!OutputExit(w)))

-----------------------------------------------------------------------------

(* The pipeline: every input that was produced is squared once and is in   *)
(* one place, nobody sends on the closed channel, the stages end in order, *)
(* and a consumer whose range ended on its own has seen every square       *)
(* (main.go:63-66, main_test.go:56-59).                                    *)
PipelineIsSafe == P!IInv /\ P!DrainedMeansAll

(* A cancellation reaches every goroutine of the pipeline, wherever it is  *)
(* blocked, whether or not the consumer goes on receiving; FindFirst       *)
(* followed by a range, and a range over everything, both end.             *)
PipelineEnds ==
  (canceled ~> P!GoroutinesExited) /\ (program = "pipeline" => P!ConsumerEnds)

=============================================================================
