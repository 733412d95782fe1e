-------------------------- MODULE TriColorScenarios --------------------------
(***************************************************************************)
(* The five scenarios of adv027_gc_tricolor/main.go and the floating       *)
(* garbage test of its main_test.go, replayed call by call on TriColor in  *)
(* every barrier mode.  A scenario is the heap it builds before startMark  *)
(* and the list of machine calls it makes; "drain" is drainAll and "step"  *)
(* is drainN(1), which scans the named head of the work list.              *)
(*                                                                         *)
(* The objects of a scenario have names; "role" says which object has      *)
(* which name.  A machine that runs no scenario does what it likes.        *)
(***************************************************************************)
EXTENDS TriColor, Sequences

VARIABLES
  scenario,  (* the scenario being run, "free" for none                    *)
  role,      (* the object behind each name of a scenario                  *)
  pc         (* the index of its next call                                 *)

scenarioVars == <<scenario, role, pc>>

Name == {"A", "X", "B"}
Scenarios == {"S1", "S2", "S3", "S4", "S5", "DeadBlack"}

(* What each scenario has built when it calls startMark: the global roots, *)
(* the pointers between objects and the stack slot.  The objects that S5   *)
(* allocates later take the names its heap does not use.                   *)
NoEdge == {}
Heap(s) ==
  CASE s = "S1" -> [objs |-> {"A", "B"}, globals |-> {"A"}, edges |-> {<<"A", "B">>}, local |-> "nil"]
    [] s = "S2" -> [objs |-> {"A", "X", "B"}, globals |-> {"A", "X"}, edges |-> {<<"X", "B">>}, local |-> "nil"]
    [] s = "S3" -> [objs |-> {"A", "B"}, globals |-> {"A"}, edges |-> NoEdge, local |-> "B"]
    [] s = "S4" -> [objs |-> {"A", "X", "B"}, globals |-> {"A", "X"}, edges |-> {<<"X", "B">>}, local |-> "nil"]
    [] s = "S5" -> [objs |-> {"A"}, globals |-> {"A"}, edges |-> NoEdge, local |-> "nil"]
    [] s = "DeadBlack" ->
         [objs |-> {"A", "X", "B"}, globals |-> {"A"}, edges |-> {<<"A", "X">>, <<"X", "B">>}, local |-> "nil"]

Calls(s) ==
  CASE s = "S1" -> << <<"start">>, <<"scan">>, <<"drain">>, <<"local", "B">>,
                      <<"store", "A", "B">>, <<"finish">> >>
    [] s = "S2" -> << <<"start">>, <<"scan">>, <<"step", "A">>, <<"local", "B">>,
                      <<"store", "X", "nil">>, <<"store", "A", "B">>, <<"finish">> >>
    [] s = "S3" -> << <<"start">>, <<"drain">>, <<"store", "A", "B">>,
                      <<"local", "nil">>, <<"scan">>, <<"finish">> >>
    [] s = "S4" -> << <<"start">>, <<"scan">>, <<"step", "A">>, <<"local", "B">>,
                      <<"store", "X", "nil">>, <<"finish">> >>
    [] s = "S5" -> << <<"start">>, <<"scan">>, <<"drain">>, <<"storeFresh", "A", "X">>,
                      <<"drop", "B">>, <<"finish">> >>
    [] s = "DeadBlack" -> << <<"start">>, <<"scan">>, <<"drain">>, <<"store", "X", "nil">>,
                             <<"finish">> >>

Object(name) == IF name = "nil" THEN Nil ELSE role[name]

ScenarioInit ==
  /\ scenario \in Scenarios
  /\ role \in {r \in [Name -> Obj] : \A m, n \in Name : r[m] = r[n] => m = n}
  /\ pc = 1
  /\ mode \in Modes
  /\ phase = "idle"
  /\ objs = {role[n] : n \in Heap(scenario).objs}
  /\ slots = [o \in Obj |-> [i \in Slot |->
                LET out == {e \in Heap(scenario).edges : role[e[1]] = o}
                IN  IF out = {} THEN Nil ELSE role[(CHOOSE e \in out : TRUE)[2]]]]
  /\ globals = {role[n] : n \in Heap(scenario).globals}
  /\ stack = [i \in StackSlot |-> Object(Heap(scenario).local)]
  /\ stackScanned = FALSE
  /\ color = [o \in Obj |-> "white"]
  /\ work = {}
  /\ garbage = {}

Call(name) ==
  /\ pc <= Len(Calls(scenario))
  /\ Calls(scenario)[pc][1] = name
Arg(k) == Object(Calls(scenario)[pc][k])
Return == pc' = pc + 1 /\ UNCHANGED <<scenario, role>>

Collect ==
  \/ Call("start") /\ StartMark /\ Return
  \/ Call("scan") /\ ScanStack /\ Return
  \/ Call("step") /\ Step(Arg(2)) /\ Return
  \/ Call("drain") /\ (\E n \in Obj : Step(n)) /\ UNCHANGED scenarioVars
  \/ Call("drain") /\ work = {} /\ UNCHANGED vars /\ Return
  \/ Call("finish") /\ FinishMark /\ Return

Mutate ==
  \/ Call("local") /\ (\E i \in StackSlot : StoreStack(i, Arg(2))) /\ Return
  \/ Call("store") /\ (\E i \in Slot : StoreHeap(Arg(2), i, Arg(3))) /\ Return
  \/ Call("storeFresh") /\ (\E i \in Slot : AllocToHeap(Arg(3), Arg(2), i)) /\ Return
  \/ Call("drop") /\ AllocAndDrop(Arg(2)) /\ Return

Finish ==
  /\ pc > Len(Calls(scenario))
  /\ (\E n \in Obj : Step(n)) \/ FinishMarkReturns \/ Done
  /\ UNCHANGED scenarioVars

(* A machine that replays a scenario, or any machine at all.               *)
MachineInit ==
  \/ ScenarioInit
  \/ Init /\ scenario = "free" /\ role = <<>> /\ pc = 0

MachineNext ==
  IF scenario = "free" THEN Next /\ UNCHANGED scenarioVars ELSE Collect \/ Mutate \/ Finish

MachineSpec == MachineInit /\ [][MachineNext]_<<vars, scenarioVars>>

-----------------------------------------------------------------------------

(* main_test.go:42-51 and 68-82: how many live objects a mode loses where. *)
Verdicts ==
  { <<"S2", "none", 1>>, <<"S2", "insert", 0>>, <<"S2", "delete", 0>>,
    <<"S3", "delete", 1>>, <<"S3", "insert", 0>>,
    <<"S4", "insert", 1>>, <<"S4", "delete", 0>> }
    \cup (Scenarios \X {"hybrid", "rescan"} \X {0})

(* The verdict table of the tests: each weaker barrier loses exactly the   *)
(* object the tests name, in the scenario they name, and hybrid and        *)
(* insert+rescan lose none.  An object that dies after it was scanned      *)
(* floats to the next cycle, and so does a new object nobody stored        *)
(* (main_test.go:99-125).                                                  *)
VerdictsOfTheTests ==
  phase = "done" /\ scenario # "free" =>
    /\ \A v \in Verdicts : v[1] = scenario /\ v[2] = mode => Cardinality(Lost) = v[3]
    /\ scenario \in {"S5", "DeadBlack"} => Cardinality(Floating) = 1

=============================================================================
