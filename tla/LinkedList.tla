------------------------------ MODULE LinkedList ------------------------------
(***************************************************************************)
(* LinkedList of day054: nodes chained from Head, and a Length that is     *)
(* counted apart from them.                                                *)
(***************************************************************************)
EXTENDS Integers, Sequences, SequencesExt

CONSTANTS
  Node,      (* the addresses of nodes                                     *)
  NULL,
  Value

ASSUME NodeAssumption == IsFiniteSet(Node) /\ NULL \notin Node

VARIABLES
  listHead, next, value, length,   (* the list                             *)
  items,                           (* what was pushed and not popped       *)
  popped                           (* what PopBack last returned           *)

listVars == <<listHead, next, value, length, items, popped>>

Nothing == <<NULL, FALSE>>

ListInit ==
  /\ listHead = NULL /\ length = 0
  /\ next = [n \in Node |-> NULL] /\ value = [n \in Node |-> NULL]
  /\ items = <<>> /\ popped = Nothing

(* The nodes that a walk from n meets, in order.                           *)
Walk(n) ==
  LET from[k \in 0 .. Cardinality(Node)] ==
        [m \in Node \cup {NULL} |->
           IF m = NULL \/ k = 0 THEN <<>> ELSE <<m>> \o from[k - 1][next[m]]]
  IN from[Cardinality(Node)][n]
Nodes == Walk(listHead)
ForEach == [i \in DOMAIN Nodes |-> value[Nodes[i]]]
PeekFront == IF listHead = NULL THEN Nothing ELSE <<value[listHead], TRUE>>

PushBack(v) ==
  /\ \E n \in Node \ ToSet(Nodes) :
       /\ value' = [value EXCEPT ![n] = v]
       /\ next' = [m \in Node |-> IF m = n THEN NULL
                                  ELSE IF listHead # NULL /\ m = Last(Nodes) THEN n ELSE next[m]]
       /\ listHead' = IF listHead = NULL THEN n ELSE listHead
  /\ length' = length + 1
  /\ items' = Append(items, v) /\ UNCHANGED popped

PopBackEmpty ==
  /\ listHead = NULL /\ popped' = Nothing
  /\ UNCHANGED <<listHead, next, value, length, items>>
PopBackOnlyKeepingLength ==
  /\ listHead # NULL /\ next[listHead] = NULL
  /\ popped' = <<value[listHead], TRUE>>
  /\ listHead' = NULL
  /\ items' = Front(items) /\ UNCHANGED <<next, value, length>>
PopBackOnly ==
  /\ listHead # NULL /\ next[listHead] = NULL
  /\ popped' = <<value[listHead], TRUE>>
  /\ listHead' = NULL /\ length' = length - 1
  /\ items' = Front(items) /\ UNCHANGED <<next, value>>
PopBackLast ==
  /\ listHead # NULL /\ next[listHead] # NULL
  /\ LET curr == Nodes[Len(Nodes) - 1]
     IN /\ popped' = <<value[next[curr]], TRUE>>
        /\ next' = [next EXCEPT ![curr] = NULL]
  /\ length' = length - 1
  /\ items' = Front(items) /\ UNCHANGED <<listHead, value>>

ListNext == (\E v \in Value : PushBack(v)) \/ PopBackEmpty \/ PopBackOnly \/ PopBackLast

-----------------------------------------------------------------------------
(* Whatever was pushed and popped, and whichever addresses were used again *)
(* for it: ForEach, Len and PeekFront tell what is in the list, and        *)
(* PopBack takes the last value.                                           *)
ListIsItsItems ==
  /\ ForEach = items /\ length = Len(items)
  /\ PeekFront = IF items = <<>> THEN Nothing ELSE <<items[1], TRUE>>
ListKeepsItsItems ==
  [][/\ ListIsItsItems'
     /\ Len(items') < Len(items) => popped' = <<Last(items), TRUE>>]_listVars
===============================================================================
