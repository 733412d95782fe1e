--------------------------- MODULE TriColorProofs ---------------------------
(***************************************************************************)
(* Proofs about TriColor, for any set of objects, any number of slots per  *)
(* object and of stack slots, and every barrier mode.                      *)
(***************************************************************************)
EXTENDS TriColor, TLAPS

(* The initial machine is well typed.                                      *)
LEMMA InitType == Init => TypeOK
<1> USE DEF TypeOK, Pointer
<1> SUFFICES ASSUME Init PROVE TypeOK
  OBVIOUS
<1>1. slots \in [Obj -> [Slot -> Pointer]]
  <2>1. slots \in [Obj -> [Slot -> objs \cup {Nil}]]
    BY DEF Init
  <2>2. \A o \in Obj : \A i \in Slot : slots[o][i] \in Pointer
    BY <2>1 DEF Init
  <2> QED BY <2>1, <2>2
<1>2. stack \in [StackSlot -> Pointer]
  BY DEF Init
<1>3. color \in [Obj -> {"white", "grey", "black"}]
  BY DEF Init
<1> QED BY <1>1, <1>2, <1>3 DEF Init

(* Every step keeps the types: shade never queues nil, a store only ever   *)
(* writes a pointer.                                                       *)
LEMMA NextType == TypeOK /\ [Next]_vars => TypeOK'
<1> USE DEF TypeOK, Pointer
<1> SUFFICES ASSUME TypeOK, [Next]_vars PROVE TypeOK'
  OBVIOUS
<1>1. CASE StartMark
  BY <1>1 DEF StartMark
<1>2. CASE ScanStack
  BY <1>2 DEF ScanStack, Shade, White
<1>3. ASSUME NEW n \in Obj, Step(n) PROVE TypeOK'
  BY <1>3 DEF Step, White
<1>4. CASE FinishMark
  BY <1>4 DEF FinishMark, Shade, White
<1>5. CASE FinishMarkReturns
  BY <1>5 DEF FinishMarkReturns
<1>6. ASSUME NEW d \in Live, NEW i \in Slot, NEW src \in Live \cup {Nil}, StoreHeap(d, i, src)
      PROVE TypeOK'
  <2>1. d \in Obj /\ src \in Pointer
    BY DEF Live
  <2> QED BY <1>6, <2>1 DEF StoreHeap, Shade, White
<1>7. ASSUME NEW i \in StackSlot, NEW src \in Live \cup {Nil}, StoreStack(i, src)
      PROVE TypeOK'
  BY <1>7 DEF StoreStack, Live
<1>8. ASSUME NEW n \in Obj, AllocAndDrop(n) PROVE TypeOK'
  BY <1>8 DEF AllocAndDrop, Fresh, FreshColor
<1>9. ASSUME NEW n \in Obj, NEW i \in StackSlot, AllocToStack(n, i) PROVE TypeOK'
  BY <1>9 DEF AllocToStack, Fresh, FreshColor
<1>10. ASSUME NEW n \in Obj, NEW d \in Live, NEW i \in Slot, AllocToHeap(n, d, i) PROVE TypeOK'
  <2>1. d \in Obj
    BY DEF Live
  <2> QED BY <1>10, <2>1 DEF AllocToHeap, Fresh, FreshColor, White
<1>11. CASE Done
  BY <1>11 DEF Done, vars
<1>12. CASE UNCHANGED vars
  BY <1>12 DEF vars
<1> QED
  BY <1>1, <1>2, <1>3, <1>4, <1>5, <1>6, <1>7, <1>8, <1>9, <1>10, <1>11, <1>12
  DEF Next, Marker, Mutator

(* machine.work never holds nil and globals are always allocated objects,  *)
(* in every barrier mode.                                                  *)
THEOREM TypeCorrect == Spec => []TypeOK
  BY InitType, NextType, PTL DEF Spec

(* Live is closed and contains the roots, and is the least such set.       *)
LEMMA LiveIsClosed == TypeOK => Roots \subseteq Live /\ Closed(Live) /\ Live \in SUBSET Obj
<1> SUFFICES ASSUME TypeOK PROVE Roots \subseteq Live /\ Closed(Live) /\ Live \in SUBSET Obj
  OBVIOUS
<1>1. Roots \subseteq Obj /\ \A o \in Obj : Succ(o) \subseteq Obj
  BY DEF TypeOK, Roots, StackRefs, Succ, Pointer
<1>2. Roots \subseteq Live
  BY <1>1 DEF Live, RootedSets
<1>3. Closed(Live)
  <2> SUFFICES ASSUME NEW n \in Live, NEW m \in Succ(n) PROVE m \in Live
    BY DEF Closed
  <2>1. n \in Obj /\ m \in Obj
    BY <1>1 DEF Live
  <2>2. ASSUME NEW S \in RootedSets PROVE m \in S
    BY DEF Live, RootedSets, Closed
  <2> QED BY <2>1, <2>2 DEF Live
<1> QED BY <1>2, <1>3 DEF Live

(* Any closed set with the roots holds everything that is live.            *)
LEMMA LiveIsLeast ==
  ASSUME NEW S \in SUBSET Obj, Roots \subseteq S, Closed(S)
  PROVE  Live \subseteq S
BY DEF Live, RootedSets


(* What one round of shade calls does to the three colors.                 *)
LEMMA Shading ==
  ASSUME TypeOK, NEW STATE refs, Shade(refs)
  PROVE  /\ White' = White \ refs
         /\ Black' = Black
         /\ Grey' = Grey \cup (refs \cap White)
         /\ work' = work \cup (refs \cap White)
BY DEF Shade, White, Black, Grey, TypeOK

(* Every object has exactly one color.                                     *)
LEMMA Colors == TypeOK => /\ Obj = White \cup Grey \cup Black
                          /\ White \cap Black = {} /\ Grey \cap Black = {} /\ White \cap Grey = {}
BY DEF TypeOK, White, Grey, Black

(* A machine before its first cycle satisfies the inductive invariant.     *)
LEMMA InitInv == Init => IInv
<1> SUFFICES ASSUME Init PROVE IInv
  OBVIOUS
<1>1. TypeOK
  BY InitType
<1>2. White = Obj /\ Grey = {} /\ work = {} /\ phase = "idle" /\ ~stackScanned
  BY DEF Init, White, Grey
<1>3. HeapIsAllocated
  <2>1. globals \cup StackRefs \cup work \subseteq objs
    BY <1>2 DEF Init, StackRefs
  <2>2. ASSUME NEW o \in Obj PROVE Succ(o) \subseteq objs
    BY DEF Init, Succ
  <2>3. ASSUME NEW o \in Obj, o \notin objs PROVE Succ(o) = {}
    BY <2>3 DEF Init, Succ
  <2> QED BY <1>2, <2>1, <2>2, <2>3 DEF HeapIsAllocated
<1>4. StrongTriColor /\ WeakTriColor
  BY <1>2 DEF StrongTriColor, StrongPhase, WeakTriColor, WeakPhase
<1> QED BY <1>1, <1>2, <1>3, <1>4 DEF IInv, WorkIsGrey, CycleShape

-----------------------------------------------------------------------------
(* Marker steps.                                                           *)

(* startMark establishes the strong invariant: only globals are grey.      *)
LEMMA StartMarkInv == IInv /\ TypeOK' /\ StartMark => IInv'
<1> SUFFICES ASSUME IInv, TypeOK', StartMark PROVE IInv'
  OBVIOUS
<1> USE DEF IInv
<1>1. work = {} /\ ~stackScanned /\ globals \subseteq Obj
  BY DEF CycleShape, StartMark, TypeOK
<1>2. Grey' = globals /\ Black' = {} /\ work' = globals /\ phase' = "mark"
  BY <1>1 DEF StartMark, Grey, Black
<1>3. globals' \cap White' = {}
  BY DEF StartMark, White
<1>4. HeapIsAllocated'
  <2>1. \A o \in Obj : Succ(o)' = Succ(o)
    BY DEF StartMark, Succ
  <2>2. Obj \ objs' \subseteq White'
    BY DEF StartMark, White, TypeOK
  <2>3. globals' \cup StackRefs' \cup work' \subseteq objs'
    BY <1>2 DEF HeapIsAllocated, StartMark, StackRefs
  <2> QED BY <2>1, <2>2, <2>3 DEF HeapIsAllocated, StartMark
<1>5. ~WeakPhase'
  BY <1>1, <1>2 DEF StartMark, WeakPhase
<1>6. StrongTriColor'
  BY <1>2, <1>3 DEF StrongTriColor
<1>7. CycleShape' /\ WorkIsGrey'
  BY <1>1, <1>2 DEF CycleShape, WorkIsGrey, StartMark
<1>8. WeakTriColor'
  BY <1>5 DEF WeakTriColor
<1> QED BY <1>4, <1>6, <1>7, <1>8

(* Scanning or rescanning the stack turns the strong invariant into the    *)
(* weak one: a shielding set then holds all roots and is closed.           *)
LEMMA StackShadedIsShielded ==
  ASSUME TypeOK, Shade(StackRefs), UNCHANGED <<slots, globals, stack>>,
         globals \cap White = {}, \A n \in Black : Succ(n) \cap White = {},
         TypeOK', NEW S \in SUBSET Obj, Shielding(S)'
  PROVE  Live' \subseteq S
<1>1. White' = White \ StackRefs /\ Black' = Black
  BY Shading
<1>2. Roots' \subseteq Grey' \cup Black'
  <2>1. Roots' = globals \cup StackRefs
    BY DEF Roots, StackRefs
  <2>2. Roots' \cap White' = {} /\ Roots' \subseteq Obj
    BY <1>1, <2>1 DEF StackRefs, TypeOK, Pointer
  <2> QED BY <2>2, Colors DEF White, Grey, Black, TypeOK
<1>3. \A n \in Black : Succ(n)' \subseteq Grey' \cup Black'
  <2> SUFFICES ASSUME NEW n \in Black PROVE Succ(n)' \subseteq Grey' \cup Black'
    OBVIOUS
  <2>1. Succ(n)' = Succ(n) /\ Succ(n) \subseteq Obj /\ Succ(n) \cap White' = {}
    BY <1>1 DEF Succ, TypeOK, Pointer, Black
  <2> QED BY <2>1 DEF White, Grey, Black, TypeOK
<1>4. Closed(S)'
  BY <1>1, <1>3 DEF Closed, Shielding
<1>5. Roots' \subseteq S
  BY <1>2 DEF Shielding
<1> QED BY <1>4, <1>5 DEF Live, RootedSets, Closed

(* scanStack keeps the invariant.                                          *)
LEMMA ScanStackInv == IInv /\ TypeOK' /\ ScanStack => IInv'
<1> SUFFICES ASSUME IInv, TypeOK', ScanStack PROVE IInv'
  OBVIOUS
<1> USE DEF IInv
<1>1. /\ White' = White \ StackRefs /\ Black' = Black
      /\ Grey' = Grey \cup (StackRefs \cap White) /\ work' = work \cup (StackRefs \cap White)
  BY Shading DEF ScanStack
<1>2. WorkIsGrey' /\ HeapIsAllocated' /\ CycleShape'
  BY <1>1 DEF WorkIsGrey, HeapIsAllocated, CycleShape, ScanStack, StackRefs, Succ
<1>3. StrongTriColor'
  BY <1>1 DEF StrongTriColor, StrongPhase, ScanStack, Succ
<1>4. ASSUME WeakPhase', NEW S \in SUBSET Obj, Shielding(S)' PROVE Live' \subseteq S
  <2>1. StrongPhase
    BY <1>4 DEF WeakPhase, StrongPhase, ScanStack
  <2> QED BY <1>4, <2>1, StackShadedIsShielded DEF StrongTriColor, ScanStack
<1> QED BY <1>2, <1>3, <1>4 DEF WeakTriColor

(* finishMark keeps the invariant; with insert+rescan its second scan  *)
(* of the stack is what establishes the weak one.                          *)
LEMMA FinishMarkInv == IInv /\ TypeOK' /\ FinishMark => IInv'
<1> SUFFICES ASSUME IInv, TypeOK', FinishMark PROVE IInv'
  OBVIOUS
<1> USE DEF IInv
<1>1. CASE mode = "rescan"
  <2>1. /\ White' = White \ StackRefs /\ Black' = Black
        /\ Grey' = Grey \cup (StackRefs \cap White) /\ work' = work \cup (StackRefs \cap White)
    BY <1>1, Shading DEF FinishMark
  <2>2. WorkIsGrey' /\ HeapIsAllocated' /\ CycleShape'
    BY <2>1 DEF WorkIsGrey, HeapIsAllocated, CycleShape, FinishMark, StackRefs, Succ
  <2>3. ASSUME WeakPhase', NEW S \in SUBSET Obj, Shielding(S)' PROVE Live' \subseteq S
    BY <1>1, <2>3, StackShadedIsShielded DEF StrongTriColor, StrongPhase, FinishMark
  <2> QED BY <2>2, <2>3 DEF WeakTriColor, StrongTriColor, StrongPhase, FinishMark
<1>2. CASE mode # "rescan"
  <2>1. UNCHANGED <<mode, objs, slots, globals, stack, stackScanned, color, work>>
    BY <1>2 DEF FinishMark
  <2>2. WorkIsGrey' /\ HeapIsAllocated' /\ CycleShape'
    BY <2>1 DEF WorkIsGrey, Grey, White, HeapIsAllocated, CycleShape, FinishMark, StackRefs, Succ
  <2>3. StrongTriColor'
    BY DEF StrongTriColor, StrongPhase, FinishMark
  <2>4. ASSUME WeakPhase', NEW S \in SUBSET Obj, Shielding(S)' PROVE Live' \subseteq S
    <3>1. WeakPhase /\ Shielding(S)
      BY <1>2, <2>1, <2>4 DEF WeakPhase, FinishMark, Shielding, Grey, Black, Succ
    <3>2. Live' = Live
      BY <2>1 DEF Live, RootedSets, Roots, StackRefs, Closed, Succ
    <3> QED BY <3>1, <3>2 DEF WeakTriColor
  <2> QED BY <2>2, <2>3, <2>4 DEF WeakTriColor
<1> QED BY <1>1, <1>2


(* Scanning one object keeps the invariant: a shielding set afterwards     *)
(* was one before, because the scanned object's pointers are all shaded.   *)
LEMMA StepInv == ASSUME IInv, TypeOK', NEW n \in Obj, Step(n) PROVE IInv'
<1> USE DEF IInv
<1>1. n \in Grey /\ n \in objs
  BY DEF Step, WorkIsGrey, HeapIsAllocated
<1>2. \A o \in Obj : Succ(o)' = Succ(o)
  BY DEF Step, Succ
<1>3. /\ Black' = Black \cup {n}
      /\ White' = White \ Succ(n)
      /\ Grey' = (Grey \ {n}) \cup (Succ(n) \cap White)
  BY <1>1 DEF Step, Black, White, Grey, TypeOK
<1>4. WorkIsGrey'
  BY <1>3 DEF WorkIsGrey, Step
<1>5. HeapIsAllocated'
  BY <1>1, <1>2, <1>3 DEF HeapIsAllocated, Step, StackRefs
<1>6. CycleShape'
  BY DEF CycleShape, Step
<1>7. StrongTriColor'
  <2> SUFFICES ASSUME StrongPhase'
               PROVE  globals' \cap White' = {} /\ \A m \in Black' : Succ(m)' \cap White' = {}
    BY DEF StrongTriColor
  <2>1. StrongPhase
    BY DEF StrongPhase, Step
  <2>2. globals \cap White = {} /\ \A m \in Black : Succ(m) \cap White = {}
    BY <2>1 DEF StrongTriColor
  <2>3. globals' \cap White' = {}
    BY <2>2, <1>3 DEF Step
  <2>4. ASSUME NEW m \in Black' PROVE Succ(m)' \cap White' = {}
    BY <2>2, <1>2, <1>3, <1>1 DEF Black
  <2> QED BY <2>3, <2>4
<1>8. WeakTriColor'
  <2> SUFFICES ASSUME WeakPhase', NEW S \in SUBSET Obj, Shielding(S)' PROVE Live' \subseteq S
    BY DEF WeakTriColor
  <2>1. WeakPhase
    BY DEF WeakPhase, Step
  <2>2. Shielding(S)
    <3>1. Grey \cup Black \subseteq S
      BY <1>3 DEF Shielding
    <3>2. ASSUME NEW m \in S \ Black PROVE Succ(m) \subseteq S
      <4>1. CASE m = n
        BY <4>1, <1>2, <1>3, Colors DEF Shielding, Succ, TypeOK, Pointer, Grey, Black, White
      <4>2. CASE m # n
        BY <4>2, <1>2, <1>3 DEF Shielding
      <4> QED BY <4>1, <4>2
    <3> QED BY <3>1, <3>2 DEF Shielding
  <2>3. Live' = Live
    BY DEF Step, Live, RootedSets, Roots, StackRefs, Closed, Succ
  <2> QED BY <2>1, <2>2, <2>3 DEF WeakTriColor
<1> QED BY <1>4, <1>5, <1>6, <1>7, <1>8

(* When the drain returns no object is grey, and nothing else changes.     *)
LEMMA FinishMarkReturnsInv == IInv /\ TypeOK' /\ FinishMarkReturns => IInv'
<1> SUFFICES ASSUME IInv, TypeOK', FinishMarkReturns PROVE IInv'
  OBVIOUS
<1> USE DEF IInv, FinishMarkReturns
<1>1. WorkIsGrey' /\ HeapIsAllocated' /\ CycleShape'
  BY DEF WorkIsGrey, Grey, White, HeapIsAllocated, CycleShape, StackRefs, Succ
<1>2. StrongTriColor'
  BY DEF StrongTriColor, StrongPhase
<1>3. ASSUME WeakPhase', NEW S \in SUBSET Obj, Shielding(S)' PROVE Live' \subseteq S
  <2>1. WeakPhase /\ Shielding(S)
    BY <1>3 DEF WeakPhase, Shielding, Grey, Black, Succ
  <2>2. Live' = Live
    BY DEF Live, RootedSets, Roots, StackRefs, Closed, Succ
  <2> QED BY <2>1, <2>2 DEF WeakTriColor
<1> QED BY <1>1, <1>2, <1>3 DEF WeakTriColor

-----------------------------------------------------------------------------
(* Mutator steps.                                                          *)

(* After a step, too, any closed set with the roots holds what is live.    *)
LEMMA NextLiveIsLeast ==
  ASSUME NEW S \in SUBSET Obj, Roots' \subseteq S, \A n \in S : Succ(n)' \subseteq S
  PROVE  Live' \subseteq S
BY DEF Live, RootedSets, Closed

(* A store of something live never makes a garbage object live.            *)
LEMMA StoreHeapShrinksLive ==
  ASSUME TypeOK, NEW d \in Live, NEW i \in Slot, NEW src \in Live \cup {Nil},
         slots' = [slots EXCEPT ![d][i] = src], UNCHANGED <<globals, stack>>
  PROVE  Live' \subseteq Live
<1>1. PICK S \in SUBSET Obj : S = Live
  BY LiveIsClosed
<1>2. Roots \subseteq S /\ \A n \in S : Succ(n) \subseteq S
  BY <1>1, LiveIsClosed DEF Closed
<1>3. Roots' \subseteq S
  BY <1>2 DEF Roots, StackRefs
<1>4. ASSUME NEW n \in S PROVE Succ(n)' \subseteq S
  <2>1. Succ(n)' \subseteq Succ(n) \cup ({src} \ {Nil})
    BY DEF Succ, TypeOK
  <2> QED BY <1>1, <1>2, <2>1
<1> QED BY <1>1, <1>3, <1>4, NextLiveIsLeast

(* So does a store to a local variable.                                    *)
LEMMA StoreStackShrinksLive ==
  ASSUME TypeOK, NEW i \in StackSlot, NEW src \in Live \cup {Nil},
         stack' = [stack EXCEPT ![i] = src], UNCHANGED <<globals, slots>>
  PROVE  Live' \subseteq Live
<1>1. PICK S \in SUBSET Obj : S = Live
  BY LiveIsClosed
<1>2. Roots \subseteq S /\ \A n \in S : Succ(n) \subseteq S
  BY <1>1, LiveIsClosed DEF Closed
<1>3. Roots' \subseteq S
  BY <1>1, <1>2 DEF Roots, StackRefs, TypeOK
<1>4. ASSUME NEW n \in S PROVE Succ(n)' \subseteq S
  BY <1>2 DEF Succ
<1> QED BY <1>1, <1>3, <1>4, NextLiveIsLeast

(* Whatever is live has been allocated.                                    *)
LEMMA LiveIsAllocated == TypeOK /\ HeapIsAllocated => Live \subseteq objs
BY DEF TypeOK, HeapIsAllocated, Live, RootedSets, Roots, Closed

(* A heap store with its barrier keeps the invariant.  With a grey stack   *)
(* the barrier shades the new value, so no black object points to a white  *)
(* one; with a black stack it shades the old value, so every set that      *)
(* shields the new heap already shielded the old one.                      *)
LEMMA StoreHeapInv ==
  ASSUME IInv, TypeOK', NEW d \in Live, NEW i \in Slot, NEW src \in Live \cup {Nil},
         StoreHeap(d, i, src)
  PROVE  IInv'
<1> USE DEF IInv
<1> DEFINE old == slots[d][i]
           refs == Barrier(old, src)
<1>1. /\ White' = White \ refs /\ Black' = Black
      /\ Grey' = Grey \cup (refs \cap White) /\ work' = work \cup (refs \cap White)
  BY Shading DEF StoreHeap
<1>2. d \in Obj /\ d \in objs /\ src \in objs \cup {Nil} /\ old \in objs \cup {Nil}
  <2>1. Live \subseteq objs /\ objs \subseteq Obj
    BY LiveIsAllocated DEF TypeOK
  <2>2. old \in Succ(d) \cup {Nil}
    BY DEF Succ
  <2> QED BY <2>1, <2>2 DEF HeapIsAllocated
<1>3. refs \subseteq {old, src} /\ mode \in AllModes
  BY ModesAssumption DEF Barrier, TypeOK, AllModes
<1>4. ASSUME NEW n \in Obj
      PROVE /\ n # d => Succ(n)' = Succ(n)
            /\ Succ(n)' \subseteq Succ(n) \cup ({src} \ {Nil})
            /\ Succ(n) \subseteq Succ(n)' \cup ({old} \ {Nil})
  BY <1>2 DEF Succ, StoreHeap, TypeOK
<1>5. WorkIsGrey' /\ CycleShape'
  BY <1>1 DEF WorkIsGrey, CycleShape, StoreHeap
<1>6. HeapIsAllocated'
  <2>1. globals' \cup StackRefs' \cup work' \subseteq objs'
    BY <1>1, <1>2, <1>3, NilAssumption DEF HeapIsAllocated, StoreHeap, StackRefs, White
  <2>2. ASSUME NEW n \in Obj PROVE Succ(n)' \subseteq objs' /\ (n \notin objs' => Succ(n)' = {})
    BY <1>2, <1>4 DEF HeapIsAllocated, StoreHeap
  <2>3. Obj \ objs' \subseteq White'
    BY <1>1, <1>2, <1>3, NilAssumption DEF HeapIsAllocated, StoreHeap
  <2> QED BY <2>1, <2>2, <2>3 DEF HeapIsAllocated
<1>7. StrongTriColor'
  <2> SUFFICES ASSUME StrongPhase'
               PROVE  globals' \cap White' = {} /\ \A n \in Black' : Succ(n)' \cap White' = {}
    BY DEF StrongTriColor
  <2>1. StrongPhase
    BY DEF StrongPhase, StoreHeap
  <2>2. src \in refs
    BY <2>1 DEF StrongPhase, Barrier
  <2>3. globals \cap White = {} /\ \A n \in Black : Succ(n) \cap White = {}
    BY <2>1 DEF StrongTriColor
  <2>4. ASSUME NEW n \in Black' PROVE Succ(n)' \cap White' = {}
    BY <2>2, <2>3, <1>1, <1>4 DEF Black
  <2> QED BY <2>3, <2>4, <1>1 DEF StoreHeap
<1>8. WeakTriColor'
  <2> SUFFICES ASSUME WeakPhase', NEW S \in SUBSET Obj, Shielding(S)' PROVE Live' \subseteq S
    BY DEF WeakTriColor
  <2>1. WeakPhase /\ mode = "hybrid" /\ stackScanned
    BY DEF WeakPhase, StoreHeap
  <2>2. old \in refs
    BY <2>1 DEF Barrier
  <2>3. Shielding(S)
    <3>1. Grey \cup Black \subseteq S
      BY <1>1 DEF Shielding
    <3>2. {old} \ {Nil} \subseteq S
      <4>1. old \in Pointer
        BY <1>2 DEF TypeOK, Pointer
      <4> QED BY <4>1, <1>1, <2>2, Colors DEF Shielding, Pointer
    <3>3. ASSUME NEW m \in S \ Black PROVE Succ(m) \subseteq S
      BY <3>2, <1>1, <1>4 DEF Shielding
    <3> QED BY <3>1, <3>3 DEF Shielding
  <2>4. Live' \subseteq Live
    BY StoreHeapShrinksLive DEF StoreHeap
  <2> QED BY <2>1, <2>3, <2>4 DEF WeakTriColor
<1> QED BY <1>5, <1>6, <1>7, <1>8

(* A store to a local variable has no barrier and needs none.              *)
LEMMA StoreStackInv ==
  ASSUME IInv, TypeOK', NEW i \in StackSlot, NEW src \in Live \cup {Nil}, StoreStack(i, src)
  PROVE  IInv'
<1> USE DEF IInv
<1>1. \A n \in Obj : Succ(n)' = Succ(n)
  BY DEF Succ, StoreStack
<1>2. White' = White /\ Grey' = Grey /\ Black' = Black
  BY DEF StoreStack, White, Grey, Black
<1>3. WorkIsGrey' /\ CycleShape'
  BY <1>2 DEF WorkIsGrey, CycleShape, StoreStack
<1>4. HeapIsAllocated'
  <2>1. StackRefs' \subseteq StackRefs \cup ({src} \ {Nil})
    BY DEF StackRefs, StoreStack, TypeOK
  <2> QED BY <1>1, <1>2, <2>1, LiveIsAllocated DEF HeapIsAllocated, StoreStack
<1>5. StrongTriColor'
  BY <1>1, <1>2 DEF StrongTriColor, StrongPhase, StoreStack, Black
<1>6. WeakTriColor'
  <2> SUFFICES ASSUME WeakPhase', NEW S \in SUBSET Obj, Shielding(S)' PROVE Live' \subseteq S
    BY DEF WeakTriColor
  <2>1. WeakPhase /\ Shielding(S)
    BY <1>1, <1>2 DEF WeakPhase, StoreStack, Shielding
  <2>2. Live' \subseteq Live
    BY StoreStackShrinksLive DEF StoreStack
  <2> QED BY <2>1, <2>2 DEF WeakTriColor
<1> QED BY <1>3, <1>4, <1>5, <1>6

(* What every allocation has in common: the new object was unreachable and *)
(* pointed to nothing, and during a cycle it is black.                     *)
LEMMA FreshFacts ==
  ASSUME TypeOK, HeapIsAllocated, NEW n \in Obj, Fresh(n)
  PROVE  /\ n \notin Live /\ n \notin work /\ n \notin globals
         /\ Succ(n) = {} /\ \A o \in Obj : n \notin Succ(o)
         /\ phase = "mark" => FreshColor = "black"
         /\ phase = "idle" => FreshColor = "white"
BY LiveIsAllocated DEF TypeOK, HeapIsAllocated, Fresh, FreshColor

(* The new object may become live, but nothing else does.                  *)
LEMMA AllocGrowsLiveByOne ==
  ASSUME TypeOK, HeapIsAllocated, NEW n \in Obj, Fresh(n),
         Roots' \subseteq Roots \cup {n},
         \A o \in Obj : Succ(o)' \subseteq Succ(o) \cup {n}
  PROVE  Live' \subseteq Live \cup {n}
<1>1. PICK S \in SUBSET Obj : S = Live \cup {n}
  BY LiveIsClosed
<1>2. Roots' \subseteq S
  BY <1>1, LiveIsClosed
<1>3. ASSUME NEW o \in S PROVE Succ(o)' \subseteq S
  <2>1. Succ(o)' \subseteq Succ(o) \cup {n} /\ (o \in Live => Succ(o) \subseteq Live)
    BY <1>1, LiveIsClosed DEF Closed
  <2> QED BY <1>1, <2>1, FreshFacts
<1> QED BY <1>1, <1>2, <1>3, NextLiveIsLeast

(* An allocation that only colors the new object and perhaps puts it on    *)
(* the stack keeps the invariant.                                          *)
LEMMA AllocInv ==
  ASSUME IInv, TypeOK', NEW n \in Obj, Fresh(n),
         color' = [color EXCEPT ![n] = FreshColor],
         StackRefs' \subseteq StackRefs \cup {n},
         UNCHANGED <<mode, phase, slots, globals, stackScanned, work>>
  PROVE  IInv'
<1> USE DEF IInv
<1>1. /\ n \notin Live /\ n \notin work /\ n \notin globals
      /\ Succ(n) = {} /\ \A o \in Obj : n \notin Succ(o)
      /\ phase = "mark" => FreshColor = "black"
      /\ phase = "idle" => FreshColor = "white"
  BY FreshFacts
<1>2. \A o \in Obj : Succ(o)' = Succ(o)
  BY DEF Succ
<1>3. Grey' = Grey /\ phase \in {"idle", "mark"} /\ n \notin Grey
  BY <1>1 DEF Grey, WorkIsGrey, Fresh, TypeOK
<1>4. WorkIsGrey'
  BY <1>3 DEF WorkIsGrey
<1>5. HeapIsAllocated'
  BY <1>1, <1>2 DEF HeapIsAllocated, Fresh, White, TypeOK
<1>6. CycleShape'
  BY <1>1, <1>3 DEF CycleShape, White, TypeOK
<1>7. phase = "mark" => White' = White \ {n} /\ Black' = Black \cup {n}
  BY <1>1 DEF White, Black, TypeOK
<1>8. StrongTriColor'
  <2> SUFFICES ASSUME StrongPhase'
               PROVE  globals' \cap White' = {} /\ \A m \in Black' : Succ(m)' \cap White' = {}
    BY DEF StrongTriColor
  <2>1. StrongPhase /\ phase = "mark"
    BY DEF StrongPhase
  <2> QED BY <2>1, <1>1, <1>2, <1>7 DEF StrongTriColor, Black
<1>9. WeakTriColor'
  <2> SUFFICES ASSUME WeakPhase', NEW S \in SUBSET Obj, Shielding(S)' PROVE Live' \subseteq S
    BY DEF WeakTriColor
  <2>1. WeakPhase /\ phase = "mark"
    BY <1>3 DEF WeakPhase, CycleShape
  <2>2. n \in S
    BY <1>7, <2>1 DEF Shielding
  <2>3. Shielding(S)
    BY <1>1, <1>2, <1>3, <1>7, <2>1 DEF Shielding
  <2>4. Live' \subseteq Live \cup {n}
    BY <1>2, AllocGrowsLiveByOne DEF Roots
  <2> QED BY <2>1, <2>2, <2>3, <2>4 DEF WeakTriColor
<1> QED BY <1>4, <1>5, <1>6, <1>8, <1>9

(* Storing the new object in the heap at once: the barrier also shades the *)
(* pointer that is overwritten.                                            *)
LEMMA AllocToHeapInv ==
  ASSUME IInv, TypeOK', NEW n \in Obj, NEW d \in Live, NEW i \in Slot, AllocToHeap(n, d, i)
  PROVE  IInv'
<1> USE DEF IInv
<1> DEFINE old == slots[d][i]
           shaded == Barrier(old, n) \cap (White \ {n})
<1>1. /\ n \notin Live /\ n \notin work /\ n \notin globals
      /\ Succ(n) = {} /\ \A o \in Obj : n \notin Succ(o)
      /\ phase = "mark" /\ FreshColor = "black"
  BY FreshFacts DEF AllocToHeap
<1>2. d \in Obj /\ d \in objs /\ d # n /\ old \in objs \cup {Nil}
  <2>1. Live \subseteq objs /\ objs \subseteq Obj
    BY LiveIsAllocated DEF TypeOK
  <2>2. old \in Succ(d) \cup {Nil}
    BY DEF Succ
  <2> QED BY <1>1, <2>1, <2>2 DEF HeapIsAllocated
<1>3. Barrier(old, n) \subseteq {old, n}
  BY ModesAssumption DEF Barrier, TypeOK, AllModes
<1>4. ASSUME NEW m \in Obj
      PROVE /\ m # d => Succ(m)' = Succ(m)
            /\ Succ(m)' \subseteq Succ(m) \cup {n}
            /\ Succ(m) \subseteq Succ(m)' \cup ({old} \ {Nil})
  BY <1>2 DEF Succ, AllocToHeap, TypeOK
<1>5. n \notin Grey
  BY <1>1 DEF WorkIsGrey
<1>6. /\ White' = White \ (shaded \cup {n}) /\ Black' = Black \cup {n}
      /\ Grey' = Grey \cup shaded /\ work' = work \cup shaded
  BY <1>1, <1>5 DEF AllocToHeap, White, Grey, Black, TypeOK
<1>7. WorkIsGrey' /\ CycleShape'
  BY <1>1, <1>6 DEF WorkIsGrey, CycleShape, AllocToHeap
<1>8. HeapIsAllocated'
  <2>1. globals' \cup StackRefs' \cup work' \subseteq objs'
    BY <1>2, <1>3, <1>6, NilAssumption DEF HeapIsAllocated, AllocToHeap, Fresh, StackRefs, White
  <2>2. ASSUME NEW m \in Obj PROVE Succ(m)' \subseteq objs' /\ (m \notin objs' => Succ(m)' = {})
    BY <1>2, <1>4 DEF HeapIsAllocated, AllocToHeap, Fresh
  <2>3. Obj \ objs' \subseteq White'
    BY <1>2, <1>3, <1>6, NilAssumption DEF HeapIsAllocated, AllocToHeap, Fresh
  <2> QED BY <2>1, <2>2, <2>3 DEF HeapIsAllocated
<1>9. StrongTriColor'
  <2> SUFFICES ASSUME StrongPhase'
               PROVE  globals' \cap White' = {} /\ \A m \in Black' : Succ(m)' \cap White' = {}
    BY DEF StrongTriColor
  <2>1. StrongPhase
    BY DEF StrongPhase, AllocToHeap
  <2>2. globals \cap White = {} /\ \A m \in Black : Succ(m) \cap White = {}
    BY <2>1 DEF StrongTriColor
  <2>3. ASSUME NEW m \in Black' PROVE Succ(m)' \cap White' = {}
    BY <2>2, <1>1, <1>4, <1>6 DEF Black
  <2> QED BY <2>2, <2>3, <1>6 DEF AllocToHeap
<1>10. WeakTriColor'
  <2> SUFFICES ASSUME WeakPhase', NEW S \in SUBSET Obj, Shielding(S)' PROVE Live' \subseteq S
    BY DEF WeakTriColor
  <2>1. WeakPhase /\ mode = "hybrid" /\ stackScanned
    BY <1>1 DEF WeakPhase, AllocToHeap
  <2>2. n \in S
    BY <1>6 DEF Shielding
  <2>3. Shielding(S)
    <3>1. Grey \cup Black \subseteq S
      BY <1>6 DEF Shielding
    <3>2. {old} \ {Nil} \subseteq S
      <4>1. old \in Barrier(old, n) /\ old \in Pointer
        BY <1>2, <2>1 DEF Barrier, TypeOK, Pointer
      <4> QED BY <4>1, <1>6, <2>2, Colors DEF Shielding, Pointer
    <3>3. ASSUME NEW m \in S \ Black PROVE Succ(m) \subseteq S
      BY <3>2, <1>1, <1>4, <1>6 DEF Shielding
    <3> QED BY <3>1, <3>3 DEF Shielding
  <2>4. Live' \subseteq Live \cup {n}
    <3>1. Roots' = Roots
      BY DEF Roots, StackRefs, AllocToHeap
    <3> QED BY <3>1, <1>4, AllocGrowsLiveByOne DEF AllocToHeap
  <2> QED BY <2>1, <2>2, <2>3, <2>4 DEF WeakTriColor
<1> QED BY <1>7, <1>8, <1>9, <1>10

-----------------------------------------------------------------------------

(* A stuttering step keeps the invariant.                                  *)
LEMMA StutterInv == IInv /\ UNCHANGED vars => IInv'
<1> SUFFICES ASSUME IInv, UNCHANGED vars PROVE IInv'
  OBVIOUS
<1> USE DEF IInv, vars
<1>1. TypeOK' /\ WorkIsGrey' /\ CycleShape'
  BY DEF TypeOK, WorkIsGrey, Grey, White, CycleShape
<1>4. HeapIsAllocated'
  BY DEF HeapIsAllocated, StackRefs, Succ, White
<1>2. StrongTriColor'
  BY DEF StrongTriColor, StrongPhase, White, Black, Succ
<1>3. ASSUME WeakPhase', NEW S \in SUBSET Obj, Shielding(S)' PROVE Live' \subseteq S
  <2>1. WeakPhase /\ Shielding(S)
    BY <1>3 DEF WeakPhase, Shielding, Grey, Black, Succ
  <2>2. Live' = Live
    BY DEF Live, RootedSets, Roots, StackRefs, Closed, Succ
  <2> QED BY <2>1, <2>2 DEF WeakTriColor
<1> QED BY <1>1, <1>2, <1>3, <1>4 DEF WeakTriColor

(* Every step of the machine keeps the inductive invariant.                *)
LEMMA NextInv == IInv /\ [Next]_vars => IInv'
<1> SUFFICES ASSUME IInv, [Next]_vars PROVE IInv'
  OBVIOUS
<1> USE NextType DEF IInv
<1>1. TypeOK'
  OBVIOUS
<1>2. CASE StartMark
  BY <1>1, <1>2, StartMarkInv
<1>3. CASE ScanStack
  BY <1>1, <1>3, ScanStackInv
<1>4. ASSUME NEW n \in Obj, Step(n) PROVE IInv'
  BY <1>1, <1>4, StepInv
<1>5. CASE FinishMark
  BY <1>1, <1>5, FinishMarkInv
<1>6. CASE FinishMarkReturns
  BY <1>1, <1>6, FinishMarkReturnsInv
<1>7. ASSUME NEW d \in Live, NEW i \in Slot, NEW src \in Live \cup {Nil}, StoreHeap(d, i, src)
      PROVE IInv'
  BY <1>1, <1>7, StoreHeapInv
<1>8. ASSUME NEW i \in StackSlot, NEW src \in Live \cup {Nil}, StoreStack(i, src)
      PROVE IInv'
  BY <1>1, <1>8, StoreStackInv
<1>9. ASSUME NEW n \in Obj, AllocAndDrop(n) PROVE IInv'
  BY <1>1, <1>9, AllocInv DEF AllocAndDrop, StackRefs
<1>10. ASSUME NEW n \in Obj, NEW i \in StackSlot, AllocToStack(n, i) PROVE IInv'
  <2>1. StackRefs' \subseteq StackRefs \cup {n}
    BY <1>10 DEF AllocToStack, StackRefs, TypeOK
  <2> QED BY <1>1, <1>10, <2>1, AllocInv DEF AllocToStack
<1>11. ASSUME NEW n \in Obj, NEW d \in Live, NEW i \in Slot, AllocToHeap(n, d, i) PROVE IInv'
  BY <1>1, <1>11, AllocToHeapInv
<1>12. CASE Done \/ UNCHANGED vars
  BY <1>12, StutterInv DEF Done
<1> QED
  BY <1>2, <1>3, <1>4, <1>5, <1>6, <1>7, <1>8, <1>9, <1>10, <1>11, <1>12
  DEF Next, Marker, Mutator

(* The strengthened invariant holds throughout every cycle.                *)
THEOREM InductiveInvariant == Spec => []IInv
BY InitInv, NextInv, PTL DEF Spec

(* When marking ends the black objects shield themselves, so whatever is   *)
(* live is black.                                                          *)
LEMMA InvImpliesNoLoss == IInv => NoLostObject
<1> SUFFICES ASSUME IInv, phase = "done", mode \in {"hybrid", "rescan"} PROVE Lost = {}
  BY DEF NoLostObject
<1>1. WeakPhase /\ Grey = {}
  BY DEF IInv, WeakPhase, CycleShape, WorkIsGrey
<1>2. Shielding(Black) /\ Black \in SUBSET Obj
  BY <1>1 DEF Shielding, Black
<1>3. Live \subseteq Black
  BY <1>1, <1>2 DEF IInv, WeakTriColor
<1> QED BY <1>3, Colors DEF IInv, Lost

(* With the hybrid barrier, and with insert plus rescan, no marking cycle  *)
(* ends with a white object the program can still reach.                   *)
THEOREM MarkingIsSafe == Spec => []NoLostObject
BY InductiveInvariant, InvImpliesNoLoss, PTL

(* In every mode the work list holds exactly the grey objects.             *)
THEOREM WorkListIsGrey == Spec => []WorkIsGrey
BY InductiveInvariant, PTL DEF IInv

(* The insertion barriers keep the strong invariant for the whole cycle,   *)
(* the hybrid barrier until it has scanned the stack.                      *)
THEOREM StrongInvariant == Spec => []StrongTriColor
BY InductiveInvariant, PTL DEF IInv

(* From then on every live white object is protected by a grey one.        *)
THEOREM WeakInvariant == Spec => []WeakTriColor
BY InductiveInvariant, PTL DEF IInv

-----------------------------------------------------------------------------
(* Refinement of the abstract collector.                                   *)

(* A marker step leaves what the program can reach alone.                  *)
LEMMA MarkerKeepsLive == UNCHANGED <<slots, globals, stack>> => Live' = Live
BY DEF Live, RootedSets, Roots, StackRefs, Closed, Succ

(* What any step does to the reachable set: it loses objects, or gains the *)
(* one that is being allocated.                                            *)
LEMMA LiveStep ==
  ASSUME IInv, [Next]_vars
  PROVE  Live' \subseteq Live \cup (objs' \ objs) /\ objs \subseteq objs'
<1> USE DEF IInv
<1>1. ASSUME UNCHANGED <<slots, globals, stack>>, objs \subseteq objs'
      PROVE  Live' \subseteq Live \cup (objs' \ objs) /\ objs \subseteq objs'
  BY <1>1, MarkerKeepsLive
<1>2. CASE Marker \/ Done \/ UNCHANGED vars
  BY <1>2, <1>1 DEF Marker, StartMark, ScanStack, Step, FinishMark, FinishMarkReturns, Done, vars
<1>3. ASSUME NEW d \in Live, NEW i \in Slot, NEW src \in Live \cup {Nil}, StoreHeap(d, i, src)
      PROVE  Live' \subseteq Live /\ objs' = objs
  BY <1>3, StoreHeapShrinksLive DEF StoreHeap
<1>4. ASSUME NEW i \in StackSlot, NEW src \in Live \cup {Nil}, StoreStack(i, src)
      PROVE  Live' \subseteq Live /\ objs' = objs
  BY <1>4, StoreStackShrinksLive DEF StoreStack
<1>5. ASSUME NEW n \in Obj, AllocAndDrop(n)
      PROVE  Live' \subseteq Live \cup (objs' \ objs) /\ objs \subseteq objs'
  BY <1>5, <1>1 DEF AllocAndDrop, Fresh
<1>6. ASSUME NEW n \in Obj, NEW i \in StackSlot, AllocToStack(n, i)
      PROVE  Live' \subseteq Live \cup (objs' \ objs) /\ objs \subseteq objs'
  <2>1. Roots' \subseteq Roots \cup {n}
    BY <1>6 DEF AllocToStack, Roots, StackRefs, TypeOK
  <2>2. \A o \in Obj : Succ(o)' \subseteq Succ(o) \cup {n}
    BY <1>6 DEF AllocToStack, Succ
  <2>3. Fresh(n)
    BY <1>6 DEF AllocToStack
  <2> QED BY <2>1, <2>2, <2>3, AllocGrowsLiveByOne DEF Fresh
<1>7. ASSUME NEW n \in Obj, NEW d \in Live, NEW i \in Slot, AllocToHeap(n, d, i)
      PROVE  Live' \subseteq Live \cup (objs' \ objs) /\ objs \subseteq objs'
  <2>1. Roots' \subseteq Roots \cup {n}
    BY <1>7 DEF AllocToHeap, Roots, StackRefs
  <2>2. \A o \in Obj : Succ(o)' \subseteq Succ(o) \cup {n}
    BY <1>7, LiveIsClosed DEF AllocToHeap, Succ, TypeOK
  <2>3. Fresh(n)
    BY <1>7 DEF AllocToHeap
  <2> QED BY <2>1, <2>2, <2>3, AllocGrowsLiveByOne DEF Fresh
<1> QED
  BY <1>2, <1>3, <1>4, <1>5, <1>6, <1>7 DEF Next, Mutator

(* An object that is not white stays so: nothing is marked before          *)
(* startMark, and no later step whitens an object that was allocated.      *)
LEMMA MarksAreKept ==
  ASSUME IInv, [Next]_vars
  PROVE  Obj \ White \subseteq Obj \ White'
<1> USE DEF IInv
<1>1. CASE StartMark
  BY <1>1 DEF StartMark, CycleShape
<1>2. CASE ScanStack
  BY <1>2, Shading DEF ScanStack
<1>3. ASSUME NEW n \in Obj, Step(n) PROVE Obj \ White \subseteq Obj \ White'
  BY <1>3 DEF Step, White
<1>4. CASE FinishMark
  BY <1>4, Shading DEF FinishMark, White
<1>5. CASE FinishMarkReturns \/ Done \/ UNCHANGED vars
  BY <1>5 DEF FinishMarkReturns, Done, vars, White
<1>6. ASSUME NEW d \in Live, NEW i \in Slot, NEW src \in Live \cup {Nil}, StoreHeap(d, i, src)
      PROVE  Obj \ White \subseteq Obj \ White'
  BY <1>6, Shading DEF StoreHeap
<1>7. ASSUME NEW i \in StackSlot, NEW src \in Live \cup {Nil}, StoreStack(i, src)
      PROVE  Obj \ White \subseteq Obj \ White'
  BY <1>7 DEF StoreStack, White
<1>8. ASSUME NEW n \in Obj, Fresh(n), color' = [color EXCEPT ![n] = FreshColor]
      PROVE  Obj \ White \subseteq Obj \ White'
  BY <1>8 DEF Fresh, White, TypeOK, HeapIsAllocated
<1>9. ASSUME NEW n \in Obj, NEW d \in Live, NEW i \in Slot, AllocToHeap(n, d, i)
      PROVE  Obj \ White \subseteq Obj \ White'
  BY <1>9 DEF AllocToHeap, Fresh, White, TypeOK, HeapIsAllocated
<1> QED
  BY <1>1, <1>2, <1>3, <1>4, <1>5, <1>6, <1>7, <1>8, <1>9
  DEF Next, Marker, Mutator, AllocAndDrop, AllocToStack

(* Every step of the machine is a step of the collector or a stutter.      *)
LEMMA StepRefines ==
  ASSUME IInv, IInv', [Next]_vars
  PROVE  [Abstract!Next]_(Abstract!collectorVars)
<1> USE DEF IInv
<1>1. CASE FinishMarkReturns
  <2>1. /\ phase # "done" /\ phase' = "done" /\ UNCHANGED mode
        /\ UNCHANGED objs /\ Live' = Live /\ White' = White
    BY <1>1, MarkerKeepsLive DEF FinishMarkReturns, White, TypeOK
  <2>2. mode' \in {"hybrid", "rescan"} => Live' \cap objs' \cap White' = {}
    <3>1. NoLostObject'
      BY InvImpliesNoLoss, PTL
    <3> QED BY <2>1, <3>1 DEF NoLostObject, Lost
  <2>3. Live \subseteq objs /\ objs \subseteq Obj
    BY LiveIsAllocated DEF TypeOK
  <2> QED BY <2>1, <2>2, <2>3 DEF Abstract!Next, Abstract!Finish
<1>2. CASE Done \/ UNCHANGED vars
  <2>1. UNCHANGED <<mode, objs, phase>> /\ Live' = Live /\ White' = White
    BY <1>2, MarkerKeepsLive DEF Done, vars, White
  <2> QED BY <2>1 DEF Abstract!collectorVars
<1>3. CASE ~(FinishMarkReturns \/ Done \/ UNCHANGED vars)
  <2>1. phase # "done" /\ phase' # "done" /\ UNCHANGED mode
    BY <1>3 DEF Next, Marker, Mutator, StartMark, ScanStack, Step, FinishMark, StoreHeap,
                StoreStack, AllocAndDrop, AllocToStack, AllocToHeap, Fresh
  <2>2. Live' \subseteq Live \cup (objs' \ objs) /\ objs \subseteq objs'
    BY LiveStep
  <2>3. Obj \ White \subseteq Obj \ White'
    BY MarksAreKept
  <2>4. Obj \ White' \subseteq objs' /\ objs' \subseteq Obj
    BY DEF HeapIsAllocated, TypeOK
  <2> QED BY <2>1, <2>2, <2>3, <2>4 DEF Abstract!Next, Abstract!Work
<1> QED BY <1>1, <1>2, <1>3

(* The machine implements the abstract collector: it never resurrects      *)
(* garbage, never takes a mark back, and with the hybrid barrier or        *)
(* insert+rescan ends the cycle only when everything reachable is marked.  *)
THEOREM RefinesCollector == Spec => CollectorSpec
<1>1. Init => Abstract!Init
  <2> SUFFICES ASSUME Init PROVE Abstract!Init
    OBVIOUS
  <2>1. IInv
    BY InitInv
  <2>2. Live \subseteq objs /\ objs \subseteq Obj /\ Obj \ White = {}
    BY <2>1, LiveIsAllocated DEF IInv, TypeOK, CycleShape, Init
  <2> QED BY <2>2 DEF Abstract!Init, Init
<1>2. IInv /\ IInv' /\ [Next]_vars => [Abstract!Next]_(Abstract!collectorVars)
  BY StepRefines
<1> QED BY <1>1, <1>2, InductiveInvariant, PTL DEF Spec, CollectorSpec, Abstract!Spec

(* No step of a cycle takes an object back to a lighter color, so that     *)
(* each is shaded once and scanned once.                                   *)
THEOREM ColorsDarken == Spec => ColorsOnlyDarken
<1> DEFINE Darker(c, d) == c = d \/ c = "white" \/ d = "black"
<1>1. ASSUME TypeOK, TypeOK', NEW o \in Obj, Darker(color[o], color'[o])
      PROVE  Rank(color[o]) <= Rank(color'[o])
  BY <1>1 DEF Rank, TypeOK
<1>2. ASSUME IInv, [Next]_vars PROVE \A o \in Obj : Darker(color[o], color'[o])
  <2> USE <1>2 DEF IInv, TypeOK
  <2>1. CASE StartMark BY <2>1 DEF StartMark, CycleShape, White
  <2>2. CASE ScanStack BY <2>2 DEF ScanStack, Shade, White
  <2>3. ASSUME NEW n \in Obj, Step(n) PROVE \A o \in Obj : Darker(color[o], color'[o])
    BY <2>3 DEF Step, White
  <2>4. CASE FinishMark BY <2>4 DEF FinishMark, Shade, White
  <2>5. CASE FinishMarkReturns \/ Done \/ UNCHANGED vars
    BY <2>5 DEF FinishMarkReturns, Done, vars
  <2>6. ASSUME NEW d \in Live, NEW i \in Slot, NEW src \in Live \cup {Nil}, StoreHeap(d, i, src)
        PROVE  \A o \in Obj : Darker(color[o], color'[o])
    BY <2>6 DEF StoreHeap, Shade, White
  <2>7. ASSUME NEW i \in StackSlot, NEW src \in Live \cup {Nil}, StoreStack(i, src)
        PROVE  \A o \in Obj : Darker(color[o], color'[o])
    BY <2>7 DEF StoreStack
  <2>8. ASSUME NEW n \in Obj, Fresh(n), color' = [color EXCEPT ![n] = FreshColor]
        PROVE  \A o \in Obj : Darker(color[o], color'[o])
    <3>1. color[n] = "white" BY <2>8 DEF Fresh, HeapIsAllocated, White
    <3> QED BY <2>8, <3>1
  <2>9. ASSUME NEW n \in Obj, NEW d \in Live, NEW i \in Slot, AllocToHeap(n, d, i)
        PROVE  \A o \in Obj : Darker(color[o], color'[o])
    <3>1. color[n] = "white" BY <2>9 DEF AllocToHeap, Fresh, HeapIsAllocated, White
    <3> QED BY <2>9, <3>1 DEF AllocToHeap, White
  <2> QED
    BY <2>1, <2>2, <2>3, <2>4, <2>5, <2>6, <2>7, <2>8, <2>9
    DEF Next, Marker, Mutator, AllocAndDrop, AllocToStack
<1>3. ASSUME IInv, IInv', [Next]_vars
      PROVE  [\A o \in Obj : Rank(color[o]) <= Rank(color'[o])]_vars
  BY <1>1, <1>2, <1>3 DEF IInv
<1> QED BY <1>3, InductiveInvariant, PTL DEF Spec, ColorsOnlyDarken

-----------------------------------------------------------------------------
(* What was garbage when the cycle began.                                  *)

(* No root and no other object leads into the garbage, and none of it has  *)
(* been shaded.                                                            *)
Apart ==
  /\ garbage \subseteq objs \cap White
  /\ Roots \cap garbage = {}
  /\ \A o \in Obj \ garbage : Succ(o) \cap garbage = {}
  /\ phase = "idle" => garbage = {}

LEMMA ApartMeansUnreachable ==
  ASSUME IInv, Apart
  PROVE  Live \cap garbage = {}
<1>1. Roots \subseteq Obj \ garbage /\ Closed(Obj \ garbage)
  BY DEF Apart, Closed, Roots, IInv, HeapIsAllocated, TypeOK
<1>2. Obj \ garbage \in RootedSets
  BY <1>1 DEF RootedSets
<1> QED BY <1>2 DEF Live

LEMMA ApartStep ==
  ASSUME IInv, Apart, [Next]_vars
  PROVE  Apart'
<1> USE DEF IInv, Apart
<1>a. Live \cap garbage = {} /\ Live \subseteq objs
  BY ApartMeansUnreachable, LiveIsAllocated
<1>1. CASE StartMark
  <2>1. Live' = Live /\ Roots' = Roots /\ \A o \in Obj : Succ(o)' = Succ(o)
    BY <1>1, MarkerKeepsLive DEF StartMark, Roots, StackRefs, Succ
  <2>2. Roots \subseteq Live /\ Closed(Live)
    BY LiveIsClosed DEF Closed
  <2>3. \A o \in Obj \ objs : Succ(o) = {}
    BY DEF HeapIsAllocated
  <2>4. garbage' = objs \ Live /\ objs' = objs /\ phase' = "mark" /\ globals \subseteq Live
        /\ color' = [o \in Obj |-> IF o \in globals THEN "grey" ELSE "white"]
    BY <1>1, <2>2 DEF StartMark, Roots
  <2>5. garbage' \subseteq objs' \cap White'
    BY <2>4 DEF White, TypeOK
  <2>6. \A o \in Obj \ garbage' : Succ(o)' \cap garbage' = {}
    BY <2>1, <2>2, <2>3, <2>4 DEF Closed
  <2> QED BY <2>1, <2>2, <2>4, <2>5, <2>6
<1>2. ASSUME NEW refs, Shade(refs), refs \cap garbage = {}
      PROVE  garbage \subseteq White'
  BY <1>2 DEF Shade, White, TypeOK
<1>3. CASE ScanStack
  <2>1. garbage \subseteq White'
    BY <1>2, <1>3 DEF ScanStack, Roots
  <2> QED BY <1>3, <2>1 DEF ScanStack, Roots, StackRefs, Succ
<1>4. ASSUME NEW n \in Obj, Step(n) PROVE Apart'
  <2>1. n \notin garbage
    BY <1>4 DEF Step, WorkIsGrey, White, Grey
  <2>2. garbage \subseteq White'
    BY <1>4, <2>1 DEF Step, White, TypeOK
  <2> QED BY <1>4, <2>2 DEF Step, Roots, StackRefs, Succ
<1>5. CASE FinishMark
  <2>1. garbage \subseteq White'
    BY <1>2, <1>5 DEF FinishMark, Roots, White
  <2> QED BY <1>5, <2>1 DEF FinishMark, Roots, StackRefs, Succ
<1>6. CASE FinishMarkReturns \/ Done \/ UNCHANGED vars
  BY <1>6 DEF FinishMarkReturns, Done, vars, Roots, StackRefs, Succ, White
<1>7. ASSUME NEW d \in Live, NEW i \in Slot, NEW src \in Live \cup {Nil}, StoreHeap(d, i, src)
      PROVE  Apart'
  <2>1. slots[d][i] \in Succ(d) \cup {Nil} /\ d \in Obj \ garbage
    BY <1>a, <1>7 DEF Succ, TypeOK
  <2>2. Barrier(slots[d][i], src) \cap garbage = {}
    BY <1>a, <2>1, NilAssumption, ModesAssumption DEF Barrier, AllModes, TypeOK
  <2>3. garbage \subseteq White'
    BY <1>2, <1>7, <2>2 DEF StoreHeap
  <2>4. \A o \in Obj : Succ(o)' \subseteq Succ(o) \/ (o = d /\ Succ(o)' \subseteq Succ(o) \cup {src})
    BY <1>7 DEF StoreHeap, Succ, TypeOK
  <2>5. src \notin garbage
    BY <1>a, NilAssumption DEF TypeOK
  <2> QED BY <1>7, <2>3, <2>4, <2>5 DEF StoreHeap, Roots, StackRefs
<1>8. ASSUME NEW i \in StackSlot, NEW src \in Live \cup {Nil}, StoreStack(i, src)
      PROVE  Apart'
  <2>1. StackRefs' \subseteq StackRefs \cup {src} /\ src \notin garbage
    BY <1>a, <1>8, NilAssumption DEF StoreStack, StackRefs, TypeOK
  <2> QED BY <1>8, <2>1 DEF StoreStack, Roots, Succ, White
<1>9. ASSUME NEW n \in Obj, Fresh(n), color' = [color EXCEPT ![n] = FreshColor]
      PROVE  n \notin garbage /\ garbage \subseteq objs' \cap White'
  BY <1>9 DEF Fresh, White, TypeOK
<1>10. ASSUME NEW n \in Obj, AllocAndDrop(n) PROVE Apart'
  BY <1>9, <1>10 DEF AllocAndDrop, Roots, StackRefs, Succ
<1>11. ASSUME NEW n \in Obj, NEW i \in StackSlot, AllocToStack(n, i) PROVE Apart'
  <2>1. StackRefs' \subseteq StackRefs \cup {n}
    BY <1>11 DEF AllocToStack, StackRefs, TypeOK
  <2> QED BY <1>9, <1>11, <2>1 DEF AllocToStack, Roots, Succ
<1>12. ASSUME NEW n \in Obj, NEW d \in Live, NEW i \in Slot, AllocToHeap(n, d, i) PROVE Apart'
  <2>1. slots[d][i] \in Succ(d) \cup {Nil} /\ d \in Obj \ garbage /\ n \notin garbage
    BY <1>a, <1>12 DEF Succ, TypeOK, AllocToHeap, Fresh
  <2>2. Barrier(slots[d][i], n) \cap garbage = {}
    BY <2>1, NilAssumption, ModesAssumption DEF Barrier, AllModes, TypeOK
  <2>3. garbage \subseteq objs' \cap White'
    BY <1>12, <2>1, <2>2 DEF AllocToHeap, Fresh, White, TypeOK
  <2>4. \A o \in Obj : Succ(o)' \subseteq Succ(o) \cup {n}
    BY <1>12 DEF AllocToHeap, Succ, TypeOK
  <2> QED BY <1>12, <2>1, <2>3, <2>4 DEF AllocToHeap, Roots, StackRefs
<1> QED
  BY <1>1, <1>3, <1>4, <1>5, <1>6, <1>7, <1>8, <1>10, <1>11, <1>12 DEF Next, Marker, Mutator

(* Marking is precise about the past: what the program could not reach     *)
(* when startMark ran is never reached again and never marked, whatever    *)
(* the barrier.                                                            *)
THEOREM OldGarbageIsCollected == Spec => []GarbageStaysWhite
<1>1. Init => IInv /\ Apart
  <2>1. Init => Apart BY DEF Init, Apart
  <2> QED BY <2>1, InitInv
<1>2. IInv /\ Apart /\ [Next]_vars => Apart'
  BY ApartStep
<1>3. IInv /\ Apart => GarbageStaysWhite
  BY ApartMeansUnreachable DEF Apart, GarbageStaysWhite
<1> QED BY <1>1, <1>2, <1>3, InductiveInvariant, PTL DEF Spec

=============================================================================
