------------------------------ MODULE TriColor ------------------------------
(***************************************************************************)
(* The tricolor marking simulator of adv027_gc_tricolor/main.go: one       *)
(* mutator and one marker share a heap, and a write barrier, selected by   *)
(* machine.mode, runs on every heap store.  One marking cycle is modelled: *)
(* startMark, then any order of mutator calls, scanStack and step, then    *)
(* finishMark, which is stop-the-world and drains the work list.           *)
(*                                                                         *)
(* The work list is a set: the code takes its head (main.go:182), the      *)
(* model takes any member, so the model has every behaviour of the code.   *)
(* collecting is phase # "idle": the code sets it in startMark and never   *)
(* clears it.                                                              *)
(***************************************************************************)
EXTENDS Naturals, FiniteSets

CONSTANTS
  Obj,        (* every object the machine may ever allocate                *)
  Nil,        (* the nil pointer                                           *)
  Slot,       (* indices of node.slots                                     *)
  StackSlot,  (* indices of machine.stack                                  *)
  Modes       (* the barrier modes this instance explores                  *)

AllModes == {"none", "insert", "delete", "hybrid", "rescan"}

ASSUME NilAssumption == Nil \notin Obj
ASSUME ModesAssumption == Modes \subseteq AllModes

VARIABLES
  mode,          (* machine.mode                                           *)
  phase,         (* "idle", "mark", "finish" (inside finishMark), "done"   *)
  objs,          (* machine.objs, the objects allocated so far             *)
  slots,         (* node.slots of every object                             *)
  globals,       (* machine.globals                                        *)
  stack,         (* machine.stack                                          *)
  stackScanned,  (* machine.stackScanned                                   *)
  color,         (* node.color of every object                             *)
  work,          (* machine.work, the grey queue                           *)
  garbage        (* history: what was unreachable when startMark ran       *)

vars == <<mode, phase, objs, slots, globals, stack, stackScanned, color, work, garbage>>

Pointer == Obj \cup {Nil}

Succ(n) == {slots[n][i] : i \in Slot} \ {Nil}
StackRefs == {stack[i] : i \in StackSlot} \ {Nil}
Roots == globals \cup StackRefs

White == {o \in Obj : color[o] = "white"}
Grey  == {o \in Obj : color[o] = "grey"}
Black == {o \in Obj : color[o] = "black"}

(* What the program can still reach: the least set with the roots that is  *)
(* closed under the pointers of its members.                               *)
Closed(S) == \A n \in S : Succ(n) \subseteq S
RootedSets == {S \in SUBSET Obj : Roots \subseteq S /\ Closed(S)}
Live == LET rooted == RootedSets IN {o \in Obj : \A S \in rooted : o \in S}

Lost     == objs \cap Live \cap White
Floating == (objs \ Live) \ White

-----------------------------------------------------------------------------

(* A machine before its first startMark: any heap the scenarios could have *)
(* built with alloc and direct assignments.                                *)
Init ==
  /\ mode \in Modes
  /\ phase = "idle"
  /\ objs \in SUBSET Obj
  /\ slots \in {f \in [Obj -> [Slot -> objs \cup {Nil}]] :
                  \A o \in Obj \ objs : f[o] = [i \in Slot |-> Nil]}
  /\ globals \in SUBSET objs
  /\ stack \in [StackSlot -> objs \cup {Nil}]
  /\ stackScanned = FALSE
  /\ color = [o \in Obj |-> "white"]
  /\ work = {}
  /\ garbage = {}

(* machine.shade, called once for each pointer of refs: nil and objects    *)
(* that are not white are left alone.                                      *)
Shade(refs) ==
  /\ color' = [o \in Obj |-> IF o \in refs \cap White THEN "grey" ELSE color[o]]
  /\ work' = work \cup (refs \cap White)

(* What the barrier of storeHeap shades when src overwrites old.           *)
BarrierWithoutInsertion(old, src) ==
  CASE mode \in {"insert", "rescan"} -> {src}
    [] mode \in {"delete", "hybrid"} -> {old}
    [] OTHER                         -> {}
BarrierWithoutDeletion(old, src) ==
  CASE mode \in {"insert", "rescan"} -> {src}
    [] mode = "delete"               -> {old}
    [] mode = "hybrid"               -> IF stackScanned THEN {} ELSE {src}
    [] OTHER                         -> {}
Barrier(old, src) ==
  CASE mode = "none"                 -> {}
    [] mode \in {"insert", "rescan"} -> {src}
    [] mode = "delete"               -> {old}
    [] mode = "hybrid"               -> IF stackScanned THEN {old} ELSE {old, src}

-----------------------------------------------------------------------------

StartMarkShadingAll ==
  /\ phase = "idle"
  /\ phase' = "mark"
  /\ color' = [o \in Obj |-> IF o \in objs THEN "grey" ELSE "white"]
  /\ work' = work \cup objs
  /\ garbage' = objs \ Live
  /\ UNCHANGED <<mode, objs, slots, globals, stack, stackScanned>>

(* startMark: every object white, then the globals shaded.                 *)
StartMark ==
  /\ phase = "idle"
  /\ phase' = "mark"
  /\ color' = [o \in Obj |-> IF o \in globals THEN "grey" ELSE "white"]
  /\ work' = work \cup globals
  /\ garbage' = objs \ Live
  /\ UNCHANGED <<mode, objs, slots, globals, stack, stackScanned>>

(* scanStack, which the callers run once, some time before finishMark.     *)
ScanStackFlagOnly ==
  /\ phase = "mark"
  /\ ~stackScanned
  /\ stackScanned' = TRUE
  /\ UNCHANGED <<mode, phase, objs, slots, globals, stack, color, work, garbage>>
ScanStack ==
  /\ phase = "mark"
  /\ ~stackScanned
  /\ stackScanned' = TRUE
  /\ Shade(StackRefs)
  /\ UNCHANGED <<mode, phase, objs, slots, globals, stack, garbage>>

(* step: take one object off the work list, shade what it points to, and   *)
(* make it black.                                                          *)
Step(n) ==
  /\ phase \in {"mark", "finish"}
  /\ n \in work
  /\ color' = [o \in Obj |-> IF o = n THEN "black"
                             ELSE IF o \in Succ(n) \cap White THEN "grey"
                             ELSE color[o]]
  /\ work' = (work \ {n}) \cup (Succ(n) \cap White)
  /\ UNCHANGED <<mode, phase, objs, slots, globals, stack, stackScanned, garbage>>

(* finishMark stops the mutator; with insert+rescan it shades the stack a  *)
(* second time.  What follows is drainAll: step until the list is empty.   *)
FinishMarkWithoutRescan ==
  /\ phase = "mark"
  /\ stackScanned
  /\ phase' = "finish"
  /\ UNCHANGED <<mode, objs, slots, globals, stack, stackScanned, color, work, garbage>>
FinishMark ==
  /\ phase = "mark"
  /\ stackScanned
  /\ phase' = "finish"
  /\ IF mode = "rescan" THEN Shade(StackRefs) ELSE UNCHANGED <<color, work>>
  /\ UNCHANGED <<mode, objs, slots, globals, stack, stackScanned, garbage>>

FinishMarkReturns ==
  /\ phase = "finish"
  /\ work = {}
  /\ phase' = "done"
  /\ UNCHANGED <<mode, objs, slots, globals, stack, stackScanned, color, work, garbage>>

-----------------------------------------------------------------------------

(* The mutator.  It only names objects it can reach, and a value it loads  *)
(* (loadHeap, no barrier) is stored by the very next call, as every        *)
(* scenario does.                                                          *)

StoreHeap(d, i, src) ==
  /\ phase = "mark"
  /\ Shade(Barrier(slots[d][i], src))
  /\ slots' = [slots EXCEPT ![d][i] = src]
  /\ UNCHANGED <<mode, phase, objs, globals, stack, stackScanned, garbage>>

(* storeStack: no barrier at all.                                          *)
StoreStack(i, src) ==
  /\ phase = "mark"
  /\ stack' = [stack EXCEPT ![i] = src]
  /\ UNCHANGED <<mode, phase, objs, slots, globals, stackScanned, color, work, garbage>>

(* alloc: a new object is white before startMark and black after it.       *)
FreshColor == IF phase = "idle" THEN "white" ELSE "black"

Fresh(n) ==
  /\ phase \in {"idle", "mark"}
  /\ n \in Obj \ objs
  /\ objs' = objs \cup {n}

(* The caller drops the new object ...                                     *)
AllocAndDrop(n) ==
  /\ Fresh(n)
  /\ color' = [color EXCEPT ![n] = FreshColor]
  /\ UNCHANGED <<mode, phase, slots, globals, stack, stackScanned, work, garbage>>

(* ... or keeps it in a local variable ...                                 *)
AllocToStack(n, i) ==
  /\ Fresh(n)
  /\ color' = [color EXCEPT ![n] = FreshColor]
  /\ stack' = [stack EXCEPT ![i] = n]
  /\ UNCHANGED <<mode, phase, slots, globals, stackScanned, work, garbage>>

(* ... or hands it to storeHeap at once: the barrier sees a black src.     *)
AllocToHeap(n, d, i) ==
  /\ Fresh(n)
  /\ phase = "mark"
  /\ LET shaded == Barrier(slots[d][i], n) \cap (White \ {n})
     IN  /\ color' = [o \in Obj |-> IF o = n THEN FreshColor
                                    ELSE IF o \in shaded THEN "grey"
                                    ELSE color[o]]
         /\ work' = work \cup shaded
  /\ slots' = [slots EXCEPT ![d][i] = n]
  /\ UNCHANGED <<mode, phase, globals, stack, stackScanned, garbage>>

(* The cycle is over; the caller reads the verdict.                        *)
Done == phase = "done" /\ UNCHANGED vars

Marker  == StartMark \/ ScanStack \/ FinishMark \/ FinishMarkReturns \/ \E n \in Obj : Step(n)
Mutator ==
  \/ \E d \in Live, i \in Slot, src \in Live \cup {Nil} : StoreHeap(d, i, src)
  \/ \E i \in StackSlot, src \in Live \cup {Nil} : StoreStack(i, src)
  \/ \E n \in Obj : AllocAndDrop(n)
  \/ \E n \in Obj, i \in StackSlot : AllocToStack(n, i)
  \/ \E n \in Obj, d \in Live, i \in Slot : AllocToHeap(n, d, i)

Next == Marker \/ Mutator \/ Done

Spec == Init /\ [][Next]_vars

-----------------------------------------------------------------------------

TypeOK ==
  /\ mode \in Modes
  /\ phase \in {"idle", "mark", "finish", "done"}
  /\ objs \in SUBSET Obj
  /\ slots \in [Obj -> [Slot -> Pointer]]
  /\ globals \in SUBSET objs
  /\ stack \in [StackSlot -> Pointer]
  /\ stackScanned \in BOOLEAN
  /\ color \in [Obj -> {"white", "grey", "black"}]
  /\ work \in SUBSET Obj /\ garbage \in SUBSET Obj

(* The claim of the whole topic: with the hybrid barrier, and with insert  *)
(* plus a rescan, no object the program can reach is white when marking    *)
(* ends, whatever the mutator did meanwhile (main.go:61-62, 208-214).      *)
NoLostObject == phase = "done" /\ mode \in {"hybrid", "rescan"} => Lost = {}

(* The two representations of grey agree: an object is on the work list    *)
(* exactly when its color field says grey, so drainAll leaves none.        *)
WorkIsGrey == work = Grey

(* The strong tricolor invariant: no black object points to a white one    *)
(* and no global is white.  The insertion barrier keeps it for the whole   *)
(* cycle, the hybrid barrier while the stack is still grey (main.go:140-144).*)
StrongPhase ==
  \/ phase = "mark" /\ mode \in {"insert", "rescan"}
  \/ phase = "mark" /\ mode = "hybrid" /\ ~stackScanned
StrongTriColor ==
  StrongPhase => /\ globals \cap White = {}
                 /\ \A n \in Black : Succ(n) \cap White = {}

(* The weak invariant that takes over once the hybrid barrier has scanned  *)
(* the stack: every white object the program can reach is still protected  *)
(* by a grey one.  "Shielding" sets hold every marked object and whatever  *)
(* is reachable from a grey one without crossing a black one.              *)
Shielding(S) == Grey \cup Black \subseteq S /\ \A n \in S \ Black : Succ(n) \subseteq S
WeakPhase ==
  \/ phase \in {"mark", "finish", "done"} /\ mode = "hybrid" /\ stackScanned
  \/ phase \in {"finish", "done"} /\ mode = "rescan"
WeakTriColor ==
  WeakPhase => LET live == Live
               IN  \A S \in SUBSET Obj : Shielding(S) => live \subseteq S

(* Only allocated objects are pointed to or queued, so a cycle never marks *)
(* memory the machine does not own.                                        *)
HeapIsAllocated ==
  /\ globals \cup StackRefs \cup work \subseteq objs
  /\ \A o \in Obj : Succ(o) \subseteq objs /\ (o \notin objs => Succ(o) = {})
  /\ Obj \ objs \subseteq White

(* The flags follow the phases of a cycle.                                 *)
CycleShape ==
  /\ phase = "idle" => ~stackScanned /\ work = {} /\ White = Obj
  /\ phase \in {"finish", "done"} => stackScanned
  /\ phase = "done" => work = {}

(* The inductive invariant: the strong invariant while the stack may still *)
(* hide objects, the weak one afterwards, and the agreement of the flags.  *)
IInv ==
  /\ TypeOK
  /\ WorkIsGrey
  /\ HeapIsAllocated
  /\ CycleShape
  /\ StrongTriColor
  /\ WeakTriColor

(* A cycle of the machine is a cycle of the abstract collector, a safe one *)
(* with the hybrid barrier and with insert+rescan: reachable objects are   *)
(* Live, marked objects are those that are not white.                      *)
Abstract == INSTANCE Collector WITH
  known    <- objs,
  safe     <- mode \in {"hybrid", "rescan"},
  reach    <- Live,
  marked   <- Obj \ White,
  finished <- (phase = "done")
CollectorSpec == Abstract!Spec

(* Within a cycle a color only gets darker: an object is scanned at most   *)
(* once, which is why drainAll ends.                                       *)
Rank(c) == CASE c = "white" -> 0 [] c = "grey" -> 1 [] c = "black" -> 2
ColorsOnlyDarken == [][\A o \in Obj : Rank(color[o]) <= Rank(color'[o])]_vars

(* Precision: an object that was already garbage when the cycle began is   *)
(* never reached again and never marked, in any mode; floating garbage is  *)
(* only what died or was allocated during the cycle.                       *)
GarbageStaysWhite == garbage \cap Live = {} /\ garbage \subseteq White

=============================================================================
