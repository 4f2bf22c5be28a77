------------------------------ MODULE Grouping ------------------------------
(***************************************************************************)
(* What getComponents (component.h:342-355) promises about the components  *)
(* it starts from: they are grouped into blocks; two blocks may be joined, *)
(* a block may be dropped as a whole, and the blocks left are returned     *)
(* once.  A component is never split, copied or moved to another block,    *)
(* and what has been dropped never comes back.                             *)
(***************************************************************************)
VARIABLES
  blocks,   \* the blocks: disjoint sets of labelled components
  stage     \* "grouping", then "returned" or "crashed"

Init ==
  /\ blocks = {{part} : part \in UNION blocks}
  /\ stage = "grouping"

Join ==
  /\ stage = "grouping"
  /\ \E A, B \in blocks :
       /\ A # B
       /\ blocks' = (blocks \ {A, B}) \cup {A \cup B}
  /\ UNCHANGED stage

Drop ==
  /\ stage = "grouping"
  /\ \E A \in blocks : blocks' = blocks \ {A}
  /\ UNCHANGED stage

Return ==
  /\ stage = "grouping"
  /\ blocks # {}
  /\ stage' = "returned"
  /\ UNCHANGED blocks

(* No block is left: the code divides by their number, or sorts them. *)
Crash ==
  /\ stage = "grouping"
  /\ blocks = {}
  /\ stage' = "crashed"
  /\ UNCHANGED blocks

Next == Join \/ Drop \/ Return \/ Crash

Spec == Init /\ [][Next]_<<blocks, stage>>
=============================================================================
