---------------------------- MODULE FeatureGrid ----------------------------
(***************************************************************************)
(* 400dimfeature.h: the grid of nine by nine cells over a component, of    *)
(* whose gradients the feature is made.  FindBoundingBox scans the image   *)
(* four times for the box of its pixels of value 1; division cuts the rows *)
(* and the columns of the box into nine strips.                            *)
(*                                                                         *)
(*  endcol, startcol, startrow, endrow   the scans                         *)
(*  divide   behind FindBoundingBox                                        *)
(***************************************************************************)
EXTENDS Integers, FiniteSets, Functions

CONSTANTS
  ER, EC,   \* the last row and column
  Strips,   \* of the grid, each way: 9
  Images    \* the pixels of value 1

Row == 0 .. ER
Col == 0 .. EC

(* An odd number of strips: then no edge of a strip is half way between    *)
(* two rows, where the rounding errors of division would count.            *)
Inputs ==
  /\ ER \in Nat /\ EC \in Nat
  /\ Strips \in Nat /\ Strips % 2 = 1
  /\ Images \subseteq SUBSET (Row \X Col)

VARIABLES
  bin,
  fla,                  \* a pixel was found
  bsr, ber, bsc, bec,   \* the box
  r11, c11,             \* the heights and the widths of the strips
  pc

box  == <<bsr, ber, bsc, bec>>
vars == <<bin, fla, box, r11, c11, pc>>

Init ==
  /\ bin \in Images
  /\ fla = FALSE
  /\ bsr = 0 /\ ber = 0 /\ bsc = 0 /\ bec = 0
  /\ r11 = <<>> /\ c11 = <<>>
  /\ pc = "endcol"

Least(S) == CHOOSE x \in S : \A y \in S : x <= y
Greatest(S) == CHOOSE x \in S : \A y \in S : y <= x

-----------------------------------------------------------------------------
(* The columns with a pixel, the last row not looked at. *)
InkColumns(cols) == {c \in cols : \E r \in 0 .. ER - 1 : <<r, c>> \in bin}

InkRows(rows) == {r \in rows : \E c \in bsc .. bec - 1 : <<r, c>> \in bin}

(* From the right, but for the first column; the box is one column wider   *)
(* unless it is at the edge.  Nothing found: the box is the first pixel.   *)
EndColumn ==
  /\ pc = "endcol"
  /\ LET cols == InkColumns(1 .. EC)
         last == Greatest(cols)
     IN  IF cols = {} THEN fla' = FALSE /\ bec' = 0 /\ pc' = "divide"
         ELSE /\ fla' = TRUE
              /\ bec' = IF last < EC THEN last + 1 ELSE last
              /\ pc' = "startcol"
  /\ UNCHANGED <<bin, bsr, ber, bsc, r11, c11>>

(* Up to the end of the box, which is not looked at itself.  A scan that   *)
(* finds nothing leaves the edge of the image.                             *)
StartColumn ==
  /\ pc = "startcol"
  /\ LET cols == InkColumns(0 .. bec - 1)
     IN  bsc' = IF cols = {} THEN 0 ELSE Least(cols)
  /\ pc' = "startrow"
  /\ UNCHANGED <<bin, fla, bsr, ber, bec, r11, c11>>

StartRow ==
  /\ pc = "startrow"
  /\ LET rows == InkRows(0 .. ER - 1)
     IN  bsr' = IF rows = {} THEN 0 ELSE Least(rows)
  /\ pc' = "endrow"
  /\ UNCHANGED <<bin, fla, ber, bsc, bec, r11, c11>>

EndRow ==
  /\ pc = "endrow"
  /\ LET rows == InkRows(bsr .. ER)
     IN  ber' = IF rows = {} THEN ER ELSE Greatest(rows)
  /\ pc' = "divide"
  /\ UNCHANGED <<bin, fla, bsr, bsc, bec, r11, c11>>

-----------------------------------------------------------------------------
ro == ber - bsr + 1
co == bec - bsc + 1

(* k * n / Strips, rounded. *)
Edge(k, n) == (2 * k * n + Strips) \div (2 * Strips)

(* Mutant: each strip is rounded by itself. *)
divisionEach(n) == [k \in 1 .. Strips |-> Edge(1, n)]

(* Each strip reaches to the next rounded multiple of the exact height.    *)
division(n) == [k \in 1 .. Strips |-> Edge(k, n) - Edge(k - 1, n)]

Divide ==
  /\ pc = "divide"
  /\ r11' = division(ro) /\ c11' = division(co)
  /\ pc' = "done"
  /\ UNCHANGED <<bin, fla, box>>

Next == EndColumn \/ StartColumn \/ StartRow \/ EndRow \/ Divide

Spec == Init /\ [][Next]_vars

-----------------------------------------------------------------------------
(* The box lies in the image, so that its scans and copies stay inside.    *)
TypeOK ==
  /\ fla \in BOOLEAN
  /\ bsr \in Row /\ ber \in Row /\ bsc \in Col /\ bec \in Col
  /\ pc \in {"endcol", "startcol", "startrow", "endrow", "divide", "done"}
  /\ pc = "done" => bsr <= ber /\ bsc <= bec

(* The pixels that all of the scans look at. *)
Looked == {x \in bin : x[1] < ER /\ x[2] < EC}

(* The box holds every pixel but those of the last row and the last column *)
(* (unless all of them are in the first column, where there is no box).    *)
BoxHolds ==
  (pc = "done" /\ fla) =>
    \A x \in Looked : bsr <= x[1] /\ x[1] <= ber /\ bsc <= x[2] /\ x[2] <= bec

(* The box is not larger than the pixels need, but for a column on its     *)
(* right: each of its other sides touches one.                             *)
BoxTight ==
  (pc = "done" /\ fla /\ Looked # {}) =>
    /\ \E x \in Looked : x[1] = bsr
    /\ \E x \in Looked : x[2] = bsc
    /\ \E x \in bin : x[1] = ber /\ x[2] < bec
    /\ \E x \in bin : x[2] \in {bec - 1, bec}

(* A component of which all pixels are in the last row or column is laid   *)
(* in the grid of the whole image.                                         *)
WholeImage == (pc = "done" /\ fla /\ Looked = {}) => box = <<0, ER, 0, EC>>

(* A box is two columns wide at least, for which the code takes the last   *)
(* but one; it is one row high, where there is no last but one, only if    *)
(* the pixels below the row are in the last column.                        *)
WideEnough ==
  (pc = "done" /\ fla) =>
    co >= 2 /\ (ro = 1 => \A x \in Looked : x[1] = bsr)

Total(f) == FoldFunction(+, 0, f)

(* The strips cover the box and end with it, so that the cells take each   *)
(* pixel once and none outside; their heights differ by one at most.       *)
StripsExact ==
  pc = "done" =>
    /\ Total(r11) = ro /\ Total(c11) = co
    /\ \A k, m \in 1 .. Strips : r11[k] - r11[m] \in {-1, 0, 1} /\ c11[k] - c11[m] \in {-1, 0, 1}
=============================================================================
