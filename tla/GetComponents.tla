--------------------------- MODULE GetComponents ---------------------------
(***************************************************************************)
(* getComponents (component.h:342-355) after BinImg2Comp: the passes that  *)
(* filter, group, join and sort the list of components.  One step is one   *)
(* turn of the innermost loop.                                             *)
(*                                                                         *)
(*  filter1   compFilter(10, 20, 7, 5)                                     *)
(*  overlap   CompOverlapRemove(75), the search; collect, the refilled list *)
(*  sum       compJoinSmallParts, the loop that computes th                *)
(*  small     compJoinSmallParts, the joining passes                       *)
(*  bbox      compJoinBoundingBoxOverlap                                   *)
(*  filter2   compFilter(10, 20, 5, 5)                                     *)
(*  sort      sortListComp                                                 *)
(*                                                                         *)
(* A component is its bounding box and, for its pixels, the numbers of the *)
(* labelled components that were merged into it.                           *)
(***************************************************************************)
EXTENDS Integers, Sequences, SequencesExt

CONSTANT Inputs   \* the lists of bounding boxes BinImg2Comp may return

Box == {b \in [left : Int, right : Int, top : Int, bottom : Int] :
          b.left <= b.right /\ b.top <= b.bottom}

ASSUME InputsAssumption == Inputs \subseteq Seq(Box)

VARIABLES
  input,    \* the list BinImg2Comp returned; never assigned
  l,        \* the list of components
  tmp,      \* CompOverlapRemove's copy of the list
  flagged,  \* the indices of tmp whose flag is 1
  i, j,     \* the loops' indices
  changed,  \* has the current joining pass joined anything
  th,       \* the sum of the widths, then the reach of a small part
  pc

vars == <<input, l, tmp, flagged, i, j, changed, th, pc>>

width(c)  == c.box.right - c.box.left + 1
height(c) == c.box.bottom - c.box.top + 1

Smaller(x, y) == IF x < y THEN x ELSE y
Larger(x, y)  == IF x > y THEN x ELSE y
abs(x) == IF x < 0 THEN -x ELSE x

(* Mutant: the box is not computed anew. *)
MergedOldBox(a, b) == [parts |-> a.parts \cup b.parts, box |-> a.box]

(* The points of both, and the bounding box of all of them. *)
Merged(a, b) ==
  [parts |-> a.parts \cup b.parts,
   box   |-> [left   |-> Smaller(a.box.left, b.box.left),
              right  |-> Larger(a.box.right, b.box.right),
              top    |-> Smaller(a.box.top, b.box.top),
              bottom |-> Larger(a.box.bottom, b.box.bottom)]]

Init ==
  /\ input \in Inputs
  /\ l = [k \in 1 .. Len(input) |-> [parts |-> {k}, box |-> input[k]]]
  /\ tmp = <<>>
  /\ flagged = {}
  /\ i = 1 /\ j = 2
  /\ changed = FALSE
  /\ th = 0
  /\ pc = "filter1"

(* The loops of the next pass start over the whole list. *)
StartPass(phase) == i' = 1 /\ j' = 2 /\ changed' = FALSE /\ pc' = phase

-----------------------------------------------------------------------------
(* compFilter.  The two calls differ in the largest height/width ratio.    *)

MaxHeightWidthRatio == IF pc = "filter1" THEN 7 ELSE 5

Passes(c) ==
  /\ width(c) >= 10
  /\ height(c) >= 20
  /\ height(c) <= MaxHeightWidthRatio * width(c)
  /\ width(c) <= 5 * height(c)

Filtering == pc \in {"filter1", "filter2"}

KeepComp ==
  /\ Filtering
  /\ i <= Len(l)
  /\ Passes(l[i])
  /\ i' = i + 1
  /\ UNCHANGED <<input, l, tmp, flagged, j, changed, th, pc>>

EraseComp ==
  /\ Filtering
  /\ i <= Len(l)
  /\ ~Passes(l[i])
  /\ l' = RemoveAt(l, i)
  /\ UNCHANGED <<input, tmp, flagged, i, j, changed, th, pc>>

(* CompOverlapRemove works on a copy with every flag cleared. *)
EndFilter1 ==
  /\ pc = "filter1"
  /\ i > Len(l)
  /\ tmp' = l
  /\ flagged' = {}
  /\ StartPass("overlap")
  /\ UNCHANGED <<input, l, th>>

(* sortListComp compares with size() - 1, an unsigned number: on an empty   *)
(* list its loops run away over memory the program does not own.           *)
EndFilter2 ==
  /\ pc = "filter2"
  /\ i > Len(l)
  /\ StartPass(IF l = <<>> THEN "crash" ELSE "sort")
  /\ UNCHANGED <<input, l, tmp, flagged, th>>

-----------------------------------------------------------------------------
(* CompOverlapRemove.                                                      *)

(* The horizontal extents overlap, and by more than 75 percent of the      *)
(* shorter one where neither contains the other.                           *)
Overlap2Line(a, b) ==
  /\ ~(a.box.right < b.box.left \/ b.box.right < a.box.left)
  /\ \/ a.box.left <= b.box.left /\ a.box.right >= b.box.right
     \/ b.box.left <= a.box.left /\ b.box.right >= a.box.right
     \/ (Smaller(a.box.right, b.box.right) - Larger(a.box.left, b.box.left)) * 100
          > 75 * Smaller(width(a) - 1, width(b) - 1)

SameWidth(a, b) == abs(width(a) - width(b)) < Smaller(width(a), width(b)) \div 2

Groups(a, b) == SameWidth(a, b) /\ Overlap2Line(a, b)

(* Mutants: the search goes on after a merge; the merged one is not flagged. *)
AbsorbGoesOn ==
  /\ pc = "overlap"
  /\ i <= Len(tmp) /\ i \notin flagged
  /\ j <= Len(tmp) /\ j \notin flagged
  /\ Groups(tmp[i], tmp[j])
  /\ flagged' = flagged \cup {j}
  /\ tmp' = [tmp EXCEPT ![i] = Merged(tmp[i], tmp[j])]
  /\ j' = j + 1
  /\ UNCHANGED <<input, l, i, changed, th, pc>>

AbsorbUnflagged ==
  /\ pc = "overlap"
  /\ i <= Len(tmp) /\ i \notin flagged
  /\ j <= Len(tmp) /\ j \notin flagged
  /\ Groups(tmp[i], tmp[j])
  /\ tmp' = [tmp EXCEPT ![i] = Merged(tmp[i], tmp[j])]
  /\ StartPass("overlap")
  /\ UNCHANGED <<input, l, flagged, th>>

(* A merge starts the search anew (goto lab). *)
Absorb ==
  /\ pc = "overlap"
  /\ i <= Len(tmp) /\ i \notin flagged
  /\ j <= Len(tmp) /\ j \notin flagged
  /\ Groups(tmp[i], tmp[j])
  /\ flagged' = flagged \cup {j}
  /\ tmp' = [tmp EXCEPT ![i] = Merged(tmp[i], tmp[j])]
  /\ StartPass("overlap")
  /\ UNCHANGED <<input, l, th>>

PassOver ==
  /\ pc = "overlap"
  /\ i <= Len(tmp) /\ i \notin flagged
  /\ j <= Len(tmp)
  /\ j \in flagged \/ ~Groups(tmp[i], tmp[j])
  /\ j' = j + 1
  /\ UNCHANGED <<input, l, tmp, flagged, i, changed, th, pc>>

NextToGroup ==
  /\ pc = "overlap"
  /\ i <= Len(tmp)
  /\ i \in flagged \/ j > Len(tmp)
  /\ i' = i + 1 /\ j' = i + 2
  /\ UNCHANGED <<input, l, tmp, flagged, changed, th, pc>>

EndSearch ==
  /\ pc = "overlap"
  /\ i > Len(tmp)
  /\ l' = <<>>
  /\ StartPass("collect")
  /\ UNCHANGED <<input, tmp, flagged, th>>

Collect ==
  /\ pc = "collect"
  /\ i <= Len(tmp)
  /\ l' = IF i \in flagged THEN l ELSE Append(l, tmp[i])
  /\ i' = i + 1
  /\ UNCHANGED <<input, tmp, flagged, j, changed, th, pc>>

EndCollect ==
  /\ pc = "collect"
  /\ i > Len(tmp)
  /\ StartPass("sum")
  /\ UNCHANGED <<input, l, tmp, flagged, th>>

-----------------------------------------------------------------------------
(* compJoinSmallParts and compJoinBoundingBoxOverlap.                      *)

AddWidth ==
  /\ pc = "sum"
  /\ i <= Len(l)
  /\ th' = th + width(l[i])
  /\ i' = i + 1
  /\ UNCHANGED <<input, l, tmp, flagged, j, changed, pc>>

(* A quarter of the mean width; of no components, a division by zero. *)
DivideSum ==
  /\ pc = "sum"
  /\ i > Len(l)
  /\ th' = IF l = <<>> THEN th ELSE th \div (4 * Len(l))
  /\ StartPass(IF l = <<>> THEN "crash" ELSE "small")
  /\ UNCHANGED <<input, l, tmp, flagged>>

(* The width, too, is compared with the other component's height. *)
isSmallPartOf(a, b) ==
  /\ a.box.right >= b.box.left - th
  /\ a.box.left <= b.box.right + th
  /\ height(a) < height(b) \div 2
  /\ width(a) < height(b) \div 2

boundingBoxOverlaps(a, b) ==
  /\ a.box.left <= b.box.right
  /\ a.box.right >= b.box.left
  /\ a.box.top <= b.box.bottom
  /\ a.box.bottom >= b.box.top

Joining == pc \in {"small", "bbox"}

Joins(a, b) ==
  IF pc = "small" THEN isSmallPartOf(a, b) \/ isSmallPartOf(b, a)
  ELSE boundingBoxOverlaps(a, b)

(* Mutant: the joined component stays in the list. *)
JoinNoErase ==
  /\ Joining
  /\ i <= Len(l) /\ j <= Len(l)
  /\ Joins(l[i], l[j])
  /\ l' = [l EXCEPT ![i] = Merged(l[i], l[j])]
  /\ changed' = TRUE
  /\ UNCHANGED <<input, tmp, flagged, i, j, th, pc>>

(* The pass goes on with the grown component and what follows the erased one; *)
(* those already compared with it are not compared again in this pass.     *)
Join ==
  /\ Joining
  /\ i <= Len(l) /\ j <= Len(l)
  /\ Joins(l[i], l[j])
  /\ l' = RemoveAt([l EXCEPT ![i] = Merged(l[i], l[j])], j)
  /\ changed' = TRUE
  /\ UNCHANGED <<input, tmp, flagged, i, j, th, pc>>

Skip ==
  /\ Joining
  /\ i <= Len(l) /\ j <= Len(l)
  /\ ~Joins(l[i], l[j])
  /\ j' = j + 1
  /\ UNCHANGED <<input, l, tmp, flagged, i, changed, th, pc>>

NextToJoin ==
  /\ Joining
  /\ i <= Len(l) /\ j > Len(l)
  /\ i' = i + 1 /\ j' = i + 2
  /\ UNCHANGED <<input, l, tmp, flagged, changed, th, pc>>

(* Mutant: one pass only. *)
EndPassOnce ==
  /\ Joining
  /\ i > Len(l)
  /\ StartPass(IF pc = "small" THEN "bbox" ELSE "filter2")
  /\ UNCHANGED <<input, l, tmp, flagged, th>>

(* Passes are made until one of them joins nothing. *)
EndPass ==
  /\ Joining
  /\ i > Len(l)
  /\ StartPass(IF changed THEN pc ELSE IF pc = "small" THEN "bbox" ELSE "filter2")
  /\ UNCHANGED <<input, l, tmp, flagged, th>>

-----------------------------------------------------------------------------
(* sortListComp, a bubble sort by the left edge.  j counts from 2, so that  *)
(* it stands at the second of the two neighbours compared.                 *)

Exchanged == [l EXCEPT ![j - 1] = l[j], ![j] = l[j - 1]]

Compare ==
  /\ pc = "sort"
  /\ i < Len(l)
  /\ j <= Len(l) - i + 1
  /\ l' = IF l[j - 1].box.left > l[j].box.left THEN Exchanged ELSE l
  /\ j' = j + 1
  /\ UNCHANGED <<input, tmp, flagged, i, changed, th, pc>>

NextBubble ==
  /\ pc = "sort"
  /\ i < Len(l)
  /\ j > Len(l) - i + 1
  /\ i' = i + 1 /\ j' = 2
  /\ UNCHANGED <<input, l, tmp, flagged, changed, th, pc>>

EndSort ==
  /\ pc = "sort"
  /\ i >= Len(l)
  /\ pc' = "done"
  /\ UNCHANGED <<input, l, tmp, flagged, i, j, changed, th>>

-----------------------------------------------------------------------------
Next ==
  \/ KeepComp \/ EraseComp \/ EndFilter1 \/ EndFilter2
  \/ Absorb \/ PassOver \/ NextToGroup \/ EndSearch \/ Collect \/ EndCollect
  \/ AddWidth \/ DivideSum
  \/ Join \/ Skip \/ NextToJoin \/ EndPass
  \/ Compare \/ NextBubble \/ EndSort

Spec == Init /\ [][Next]_vars

(* The function runs in one thread and waits for nothing. *)
FairSpec == Spec /\ WF_vars(Next)

-----------------------------------------------------------------------------
Component == [parts : SUBSET (1 .. Len(input)), box : Box]

TypeOK ==
  /\ input \in Seq(Box)
  /\ l \in Seq(Component)
  /\ tmp \in Seq(Component)
  /\ flagged \subseteq 1 .. Len(tmp)
  /\ i \in Nat \ {0}
  /\ j \in Nat \ {0, 1}
  /\ changed \in BOOLEAN
  /\ th \in Nat
  /\ pc \in {"filter1", "overlap", "collect", "sum", "small", "bbox",
             "filter2", "sort", "done", "crash"}

(* CompOverlapRemove leaves no two components it would group: after each    *)
(* merge the search restarts, so that a component grown by a later merge is *)
(* compared again with those it was first found not to match.              *)
OverlapSettled ==
  pc = "sum" => \A m, n \in DOMAIN l : m < n => ~Groups(l[m], l[n])

(* What the paper says of the grouping: "Two components are grouped         *)
(* together, if one is completely overlapped by the other".  The code asks  *)
(* for similar widths as well, so that CompOverlapRemove leaves such pairs; *)
(* the next pass may still join them, as small parts.                      *)
ContainedGrouped ==
  pc = "sum" =>
    \A m, n \in DOMAIN l :
      m # n => ~(/\ l[m].box.left <= l[n].box.left
                 /\ l[m].box.right >= l[n].box.right)

(* compJoinSmallParts ends with no component that is a small part of        *)
(* another, although a pass does not compare again what it has passed.     *)
SmallPartsJoined ==
  [][(pc = "small" /\ pc' = "bbox") =>
       \A m, n \in DOMAIN l : m # n => ~isSmallPartOf(l[m], l[n])]_vars

(* The components getComponents returns have pairwise disjoint bounding     *)
(* boxes: "The components with overlapping bounding box are joined".       *)
DisjointBoxes ==
  pc = "done" =>
    \A m, n \in DOMAIN l : m # n => ~boundingBoxOverlaps(l[m], l[n])

(* The bounding box of a component is the tightest one around all that was  *)
(* merged into it, in whatever order.                                      *)
TightBoxes ==
  \A n \in DOMAIN l :
    LET B == {input[k] : k \in l[n].parts}
    IN  /\ \A b \in B : /\ l[n].box.left <= b.left /\ b.right <= l[n].box.right
                        /\ l[n].box.top <= b.top /\ b.bottom <= l[n].box.bottom
        /\ \E b \in B : b.left = l[n].box.left
        /\ \E b \in B : b.right = l[n].box.right
        /\ \E b \in B : b.top = l[n].box.top
        /\ \E b \in B : b.bottom = l[n].box.bottom

(* The result reads from left to right, the order in which the search takes *)
(* the components for the pattern's and the text's symbols.                *)
SortedByLeft ==
  pc = "done" => \A m, n \in DOMAIN l : m < n => l[m].box.left <= l[n].box.left

(* The second filter leaves nothing the extraction should not return: the   *)
(* element after an erased one is not passed over.                         *)
ResultPasses == pc \in {"sort", "done"} => \A n \in DOMAIN l : Passes(l[n])

(* What is returned is what the search may take for a line of symbols: the  *)
(* boxes tight, in the order of their left edges, and none the extraction  *)
(* should have dropped.                                                    *)
ResultExact == TightBoxes /\ SortedByLeft /\ ResultPasses

(* Every call ends: each merge makes the list shorter. *)
Terminates == <>(pc \in {"done", "crash"})

(* The components as blocks of labelled components; while CompOverlapRemove  *)
(* works they are the unflagged ones of its copy.                          *)
PartsOf(s, I) == {s[k].parts : k \in I}

Blocks ==
  IF pc \in {"overlap", "collect"} THEN PartsOf(tmp, DOMAIN tmp \ flagged)
  ELSE PartsOf(l, DOMAIN l)

Stage == IF pc = "done" THEN "returned" ELSE IF pc = "crash" THEN "crashed" ELSE "grouping"

Grouped == INSTANCE Grouping WITH blocks <- Blocks, stage <- Stage

(* The passes only ever join two blocks or drop one: no labelled component  *)
(* is lost from a block, copied into two or brought back (the flags of     *)
(* CompOverlapRemove, the erasures during the iterations).                 *)
ImplementsGrouping == Grouped!Spec
=============================================================================
