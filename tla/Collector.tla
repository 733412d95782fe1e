------------------------------ MODULE Collector ------------------------------
(***************************************************************************)
(* What one marking cycle of adv027_gc_tricolor promises, without colors,  *)
(* barriers or stacks: the program loses references and allocates, the     *)
(* collector marks, and a safe cycle may only end when everything the      *)
(* program can still reach is marked.  machine.verify counts the           *)
(* violations of exactly this promise as verdict.lost.                     *)
(***************************************************************************)
CONSTANT Obj

VARIABLES
  safe,      (* this collector promises to lose nothing                    *)
  known,     (* the objects allocated so far                               *)
  reach,     (* the objects the program can reach                          *)
  marked,    (* the objects the cycle will keep                            *)
  finished   (* the cycle is over                                          *)

collectorVars == <<safe, known, reach, marked, finished>>

Init ==
  /\ safe \in BOOLEAN
  /\ known \in SUBSET Obj
  /\ reach \in SUBSET known
  /\ marked = {}
  /\ finished = FALSE

(* The program and the marker run: garbage is never resurrected, only new  *)
(* objects join what is reachable, and no mark is taken back.              *)
Work ==
  /\ ~finished
  /\ known \subseteq known' /\ known' \subseteq Obj
  /\ reach' \subseteq reach \cup (known' \ known)
  /\ marked \subseteq marked' /\ marked' \subseteq known'
  /\ UNCHANGED <<safe, finished>>

Finish ==
  /\ ~finished
  /\ safe => reach \subseteq marked
  /\ finished' = TRUE
  /\ UNCHANGED <<safe, known, reach, marked>>

Next == Work \/ Finish

Spec == Init /\ [][Next]_collectorVars

=============================================================================
