---------------------------- MODULE BinImg2Comp ----------------------------
(***************************************************************************)
(* BinImg2Comp (component.h): the two-pass labelling that turns the        *)
(* dilated binary image into its list of components.                       *)
(*                                                                         *)
(*  scan    raster scan; a white pixel takes the label of a neighbour seen *)
(*          before it, or a new one, and a clash of two neighbours' labels *)
(*          is recorded in numlist                                         *)
(*  merge   the records are replayed on maptable, a forest whose roots     *)
(*          stand for the components                                       *)
(*  find    the two while loops that climb from a record's labels to their *)
(*          roots, one parent link per step                                *)
(*  paint   the roots are numbered and every white pixel is put into the   *)
(*          component of its label's root                                  *)
(*  climb   the while loop of that pass                                    *)
(*                                                                         *)
(* The image is the set src of its white pixels <<row, column>>; a pixel   *)
(* outside the image is in no such set, which is what the code's border    *)
(* flags flagL, flagLU, flagU and flagRU establish before each read.       *)
(***************************************************************************)
EXTENDS Integers, Sequences, FiniteSets

CONSTANTS
  Height,   \* rows of the image
  Width     \* columns of the image

ASSUME SizeAssumption == Height \in Nat \ {0} /\ Width \in Nat \ {0}

Pixel == (0 .. Height - 1) \X (0 .. Width - 1)

VARIABLES
  src,        \* the white pixels; never assigned
  labelMAT,   \* label of every pixel, 0 for black and for unscanned ones
  newlabel,   \* next unused label
  numlist,    \* recorded pairs of labels to be merged
  maptable,   \* parent of every label, a root being its own parent
  checklabel, \* number of the component of every root, -1 for other labels
  comp,       \* the pixels collected for every component number
  Clist,      \* the result
  i, j,       \* the loops' pixel
  LN,         \* index in numlist of the record being replayed
  val1, val2, \* the labels climbing to their roots (paint uses val1 alone)
  pc

vars == <<src, labelMAT, newlabel, numlist, maptable, checklabel, comp,
          Clist, i, j, LN, val1, val2, pc>>

here == <<i, j>>

L(p)  == <<p[1],     p[2] - 1>>
LU(p) == <<p[1] - 1, p[2] - 1>>
U(p)  == <<p[1] - 1, p[2]>>
RU(p) == <<p[1] - 1, p[2] + 1>>

Labels == 1 .. newlabel - 1

-----------------------------------------------------------------------------
Init ==
  /\ src \in SUBSET Pixel
  /\ labelMAT = [p \in Pixel |-> 0]
  /\ newlabel = 1
  /\ numlist = <<>>
  /\ maptable = <<>>
  /\ checklabel = <<>>
  /\ comp = <<>>
  /\ Clist = <<>>
  /\ i = 0 /\ j = 0
  /\ LN = 1
  /\ val1 = 0 /\ val2 = 0
  /\ pc = "scan"

LastPixel == i = Height - 1 /\ j = Width - 1

(* The loops over the pixels, row by row. *)
NextPixel ==
  /\ j' = IF j = Width - 1 THEN 0 ELSE j + 1
  /\ i' = IF j < Width - 1 THEN i ELSE IF i = Height - 1 THEN 0 ELSE i + 1

-----------------------------------------------------------------------------
(* First pass. *)

(* Mutant: the right-upper neighbour's label is not taken. *)
LabelOfNoRU(p) ==
  IF L(p) \in src THEN labelMAT[L(p)]
  ELSE IF LU(p) \in src THEN labelMAT[LU(p)]
  ELSE IF U(p) \in src THEN labelMAT[U(p)]
  ELSE newlabel

LabelOf(p) ==
  IF L(p) \in src THEN labelMAT[L(p)]
  ELSE IF LU(p) \in src THEN labelMAT[LU(p)]
  ELSE IF U(p) \in src THEN labelMAT[U(p)]
  ELSE IF RU(p) \in src THEN labelMAT[RU(p)]
  ELSE newlabel

Clash(p, q) == p \in src /\ q \in src /\ labelMAT[p] # labelMAT[q]

(* Mutant: the clash of the two upper diagonal neighbours is not recorded. *)
RecordOfNoDiagonals(p) ==
  IF Clash(L(p), U(p)) THEN << <<labelMAT[U(p)], labelMAT[U(p)]>> >>
  ELSE IF Clash(L(p), RU(p)) THEN << <<labelMAT[RU(p)], labelMAT[L(p)]>> >>
  ELSE <<>>

(* The record a white pixel adds, as a sequence of at most one pair.  The   *)
(* first branch writes the upper pixel's label into both fields of the     *)
(* record, and it keeps the second branch from being tried.                *)
RecordOf(p) ==
  IF Clash(L(p), U(p)) THEN << <<labelMAT[U(p)], labelMAT[U(p)]>> >>
  ELSE IF Clash(L(p), RU(p)) THEN << <<labelMAT[RU(p)], labelMAT[L(p)]>> >>
  ELSE IF Clash(LU(p), RU(p)) THEN << <<labelMAT[LU(p)], labelMAT[RU(p)]>> >>
  ELSE <<>>

ScanWhite ==
  /\ here \in src
  /\ labelMAT' = [labelMAT EXCEPT ![here] = LabelOf(here)]
  /\ newlabel' = IF LabelOf(here) = newlabel THEN newlabel + 1 ELSE newlabel
  /\ numlist' = numlist \o RecordOf(here)

ScanBlack ==
  /\ here \notin src
  /\ labelMAT' = [labelMAT EXCEPT ![here] = 0]
  /\ UNCHANGED <<newlabel, numlist>>

(* The last pixel's step runs on into the allocation of maptable. *)
Scan ==
  /\ pc = "scan"
  /\ ScanWhite \/ ScanBlack
  /\ NextPixel
  /\ pc' = IF LastPixel THEN "merge" ELSE "scan"
  /\ maptable' = IF LastPixel THEN [l \in 1 .. newlabel' - 1 |-> l] ELSE maptable
  /\ UNCHANGED <<src, checklabel, comp, Clist, LN, val1, val2>>

-----------------------------------------------------------------------------
(* Replaying the records on maptable. *)

TakeRecord ==
  /\ pc = "merge"
  /\ LN \in 1 .. Len(numlist)
  /\ val1' = numlist[LN][1]
  /\ val2' = numlist[LN][2]
  /\ pc' = "find"
  /\ UNCHANGED <<src, labelMAT, newlabel, numlist, maptable, checklabel,
                 comp, Clist, i, j, LN>>

IsRoot(l) == maptable[l] = l

FindRoot1 ==
  /\ pc = "find"
  /\ ~IsRoot(val1)
  /\ val1' = maptable[val1]
  /\ UNCHANGED <<src, labelMAT, newlabel, numlist, maptable, checklabel,
                 comp, Clist, i, j, LN, val2, pc>>

FindRoot2 ==
  /\ pc = "find"
  /\ IsRoot(val1)
  /\ ~IsRoot(val2)
  /\ val2' = maptable[val2]
  /\ UNCHANGED <<src, labelMAT, newlabel, numlist, maptable, checklabel,
                 comp, Clist, i, j, LN, val1, pc>>

(* Mutant: the record's own labels are linked instead of their roots. *)
LinkedNoClimb == [maptable EXCEPT ![numlist[LN][1]] = numlist[LN][2]]

(* The larger root is hung below the smaller one. *)
Linked ==
  IF val1 > val2 THEN [maptable EXCEPT ![val1] = val2]
  ELSE IF val1 < val2 THEN [maptable EXCEPT ![val2] = val1]
  ELSE maptable

Link ==
  /\ pc = "find"
  /\ IsRoot(val1)
  /\ IsRoot(val2)
  /\ maptable' = Linked
  /\ LN' = LN + 1
  /\ pc' = "merge"
  /\ UNCHANGED <<src, labelMAT, newlabel, numlist, checklabel, comp, Clist,
                 i, j, val1, val2>>

-----------------------------------------------------------------------------
(* Numbering the roots and collecting the pixels. *)

RootsBelow(l) == {r \in 1 .. l - 1 : IsRoot(r)}

NumberRoots ==
  /\ pc = "merge"
  /\ LN = Len(numlist) + 1
  /\ numlist' = <<>>
  /\ LN' = 1
  /\ checklabel' = [l \in Labels |->
                      IF IsRoot(l) THEN Cardinality(RootsBelow(l)) ELSE -1]
  /\ comp' = [n \in 0 .. Cardinality(RootsBelow(newlabel)) - 1 |-> {}]
  /\ pc' = "paint"
  /\ UNCHANGED <<src, labelMAT, newlabel, maptable, Clist, i, j, val1, val2>>

AfterPixel == IF LastPixel THEN "list" ELSE "paint"

SkipBlack ==
  /\ pc = "paint"
  /\ labelMAT[here] = 0
  /\ NextPixel
  /\ pc' = AfterPixel
  /\ UNCHANGED <<src, labelMAT, newlabel, numlist, maptable, checklabel,
                 comp, Clist, LN, val1, val2>>

TakeLabel ==
  /\ pc = "paint"
  /\ labelMAT[here] # 0
  /\ val1' = labelMAT[here]
  /\ pc' = "climb"
  /\ UNCHANGED <<src, labelMAT, newlabel, numlist, maptable, checklabel,
                 comp, Clist, i, j, LN, val2>>

Climb ==
  /\ pc = "climb"
  /\ ~IsRoot(val1)
  /\ val1' = maptable[val1]
  /\ UNCHANGED <<src, labelMAT, newlabel, numlist, maptable, checklabel,
                 comp, Clist, i, j, LN, val2, pc>>

(* labelMAT[here] is overwritten with the component's number, which is 0   *)
(* for the first component; no later step of the pass reads it again.      *)
Paint ==
  /\ pc = "climb"
  /\ IsRoot(val1)
  /\ labelMAT' = [labelMAT EXCEPT ![here] = checklabel[val1]]
  /\ comp' = [comp EXCEPT ![checklabel[val1]] = @ \cup {here}]
  /\ NextPixel
  /\ pc' = AfterPixel
  /\ UNCHANGED <<src, newlabel, numlist, maptable, checklabel, Clist, LN,
                 val1, val2>>

(* ComponentProperty reads the first pixel of its list unconditionally. *)
IsBoundingBox(box, P) ==
  /\ \A p \in P : p[1] \in box.top .. box.bottom /\ p[2] \in box.left .. box.right
  /\ \E p \in P : p[1] = box.top
  /\ \E p \in P : p[1] = box.bottom
  /\ \E p \in P : p[2] = box.left
  /\ \E p \in P : p[2] = box.right

Boxes == [top : 0 .. Height - 1, bottom : 0 .. Height - 1,
          left : 0 .. Width - 1, right : 0 .. Width - 1]

ComponentProperty(P) ==
  [Pt |-> P, B_Box |-> CHOOSE box \in Boxes : IsBoundingBox(box, P)]

(* Mutant: the components are inserted at the head of the list. *)
BuildListFromEnd ==
  /\ pc = "list"
  /\ Clist' = [n \in 1 .. Cardinality(RootsBelow(newlabel)) |->
                 ComponentProperty(comp[Cardinality(RootsBelow(newlabel)) - n])]
  /\ pc' = "done"
  /\ UNCHANGED <<src, labelMAT, newlabel, numlist, maptable, checklabel,
                 comp, i, j, LN, val1, val2>>

BuildList ==
  /\ pc = "list"
  /\ Clist' = [n \in 1 .. Cardinality(RootsBelow(newlabel)) |->
                 ComponentProperty(comp[n - 1])]
  /\ pc' = "done"
  /\ UNCHANGED <<src, labelMAT, newlabel, numlist, maptable, checklabel,
                 comp, i, j, LN, val1, val2>>

-----------------------------------------------------------------------------
Next ==
  \/ Scan
  \/ TakeRecord \/ FindRoot1 \/ FindRoot2 \/ Link
  \/ NumberRoots \/ SkipBlack \/ TakeLabel \/ Climb \/ Paint
  \/ BuildList

Spec == Init /\ [][Next]_vars

-----------------------------------------------------------------------------
(* The components of an image. *)

Near(a, b) == a - b \in -1 .. 1

Adjacent(p, q) == Near(p[1], q[1]) /\ Near(p[2], q[2])

(* A set of white pixels that nothing white outside it touches. *)
Isolated(S) == \A p \in S : \A q \in src \ S : ~Adjacent(p, q)

IsComponent(C) ==
  /\ C # {}
  /\ C \subseteq src
  /\ Isolated(C)
  /\ \A S \in SUBSET C : S # {} /\ Isolated(S) => S = C

-----------------------------------------------------------------------------
TypeOK ==
  /\ src \subseteq Pixel
  /\ labelMAT \in [Pixel -> Int]
  /\ newlabel \in Nat \ {0}
  /\ numlist \in Seq(Labels \X Labels)
  /\ pc \in {"scan", "merge", "find", "paint", "climb", "list", "done"}
  /\ pc # "scan" => maptable \in [Labels -> Labels]
  /\ pc \in {"paint", "climb", "list", "done"} => checklabel \in [Labels -> Int]
  /\ DOMAIN comp \subseteq Nat
  /\ \A n \in DOMAIN comp : comp[n] \subseteq src
  /\ here \in Pixel
  /\ LN \in 1 .. Len(numlist) + 1
  /\ pc = "find" => val1 \in Labels /\ val2 \in Labels /\ LN <= Len(numlist)
  /\ pc = "climb" => val1 \in Labels

(* Every pixel before the one the loop stands at. *)
Before(p) == p[1] < i \/ (p[1] = i /\ p[2] < j)

Scanned == IF pc = "scan" THEN {p \in src : Before(p)} ELSE src

(* A set of labels that no record leaves or enters. *)
RecordClosed(T) ==
  \A n \in 1 .. Len(numlist) : numlist[n][1] \in T <=> numlist[n][2] \in T

(* Two labels the records connect: no such set separates them. *)
Equivalent(a, b) ==
  \A T \in SUBSET Labels : RecordClosed(T) => (a \in T <=> b \in T)

(* No clash of labels is lost by the scan: two neighbouring white pixels    *)
(* that have been labelled carry labels the records connect, although the  *)
(* left-upper branch records nothing useful and hides the branches after   *)
(* it (component.h:72-87).                                                 *)
ScanLosesNoClash ==
  pc \in {"scan", "merge", "find"} =>
    \A p, q \in Scanned : Adjacent(p, q) => Equivalent(labelMAT[p], labelMAT[q])

(* BinImg2Comp returns the 8-connected components of the white pixels, each *)
(* exactly once: "Extract component of white pixels" (component.h:48).     *)
ExtractsComponents ==
  pc = "done" =>
    /\ \A n \in DOMAIN Clist : IsComponent(Clist[n].Pt)
    /\ \A m, n \in DOMAIN Clist : Clist[m].Pt = Clist[n].Pt => m = n
    /\ src = UNION {Clist[n].Pt : n \in DOMAIN Clist}

(* When ComponentProperty is called, every component has the first pixel it *)
(* dereferences (component.h:142 and 155): no label is numbered that no    *)
(* pixel carries.                                                          *)
NoEmptyComponent == pc = "list" => \A n \in DOMAIN comp : comp[n] # {}

(* The list is in the raster order of the components' first pixels, the     *)
(* order the merging passes of getComponents start from.                   *)
RasterLess(p, q) == p[1] < q[1] \/ (p[1] = q[1] /\ p[2] < q[2])

ListInRasterOrder ==
  pc = "done" =>
    \A m, n \in DOMAIN Clist :
      m < n => \E p \in Clist[m].Pt : \A q \in Clist[n].Pt : RasterLess(p, q)

(* A label hung below another keeps its parent for the rest of the call, and *)
(* parents are smaller: the climbs end (component.h:99-100 and 126).       *)
LinkedOnce ==
  [][(pc \in {"find", "merge"}) =>
       \A l \in Labels : maptable'[l] <= l /\ (IsRoot(l) \/ maptable'[l] = maptable[l])]_vars
=============================================================================
