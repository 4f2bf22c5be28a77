-------------------------- MODULE VerticalThinning --------------------------
(***************************************************************************)
(* staff_line_removal: VerticalThinning replaces each vertical run of      *)
(* black pixels by one pixel or a few, joined to those of the column on    *)
(* its left, and takes the most frequent heights of the black and of the   *)
(* white runs for the height of a staff line and the space between two.    *)
(*                                                                         *)
(*  black  head of the loop over the rows of a column                      *)
(*  white  behind the black pixels                                         *)
(*  mode   the two maxima                                                  *)
(*                                                                         *)
(* Only the rows and columns inside of a margin of two are looked at.      *)
(***************************************************************************)
EXTENDS Integers, FiniteSets

CONSTANTS
  Top, Bottom,   \* first row, and the row behind the last: 2 and height - 2
  Left, Right,   \* the same of the columns: 2 and width - 2
  Images         \* pages: the black rows of each column

Row == Top .. Bottom - 1
Column == Left .. Right - 1

Inputs ==
  /\ Top \in Nat \ {0} /\ Bottom \in Nat /\ Top < Bottom
  /\ Left \in Nat \ {0} /\ Right \in Nat /\ Left < Right
  /\ Images \subseteq [Column -> SUBSET Row]

VARIABLES
  image,
  out_image,    \* black rows of each column, the one before the first too
  j, i,         \* column and row
  start, end,
  p_height, p_space,  \* how many runs there are of each height
  staff_height, staff_space,
  pc

bounds == <<start, end>>
counts == <<p_height, p_space>>
vars == <<image, out_image, j, i, bounds, counts, staff_height, staff_space, pc>>

Size == 0 .. Bottom

Init ==
  /\ image \in Images
  /\ out_image = [c \in Left - 1 .. Right - 1 |-> {}]
  /\ j = Left /\ i = Top
  /\ start = 0 /\ end = 0
  /\ p_height = [h \in Size |-> 0] /\ p_space = [h \in Size |-> 0]
  /\ staff_height = 0 /\ staff_space = 0
  /\ pc = "black"

(* The first row from r on that is not of the colour, or the end.          *)
EndOf(r, rows) == CHOOSE e \in r .. Bottom : (e = Bottom \/ e \notin rows) /\ r .. e - 1 \subseteq rows

Black == image[j]
White == Row \ image[j]

Near(s, e) == out_image[j - 1] \cap (s - 1 .. e + 1)

Centre(s, e) == (s + 1 + e) \div 2

(* The pixels set for the run from s to e: its centre, or one step from    *)
(* the pixel on the left towards it; of several on the left, the topmost   *)
(* of each group.                                                          *)
Thinned(s, e) ==
  LET pos == Near(s, e)
      p == CHOOSE q \in pos : TRUE
  IN  IF pos = {} THEN {Centre(s, e)}
      ELSE IF Cardinality(pos) > 1 THEN {q \in pos : q - 1 \notin pos}
      ELSE IF Centre(s, e) = p THEN {p}
      ELSE IF Centre(s, e) > p THEN {p + 1} \cap Black
      ELSE {p - 1} \cap Black

-----------------------------------------------------------------------------
BlackRun ==
  /\ pc = "black" /\ i < Bottom
  /\ LET e == EndOf(i, Black)
     IN  /\ start' = i
         /\ end' = IF e > i THEN e - 1 ELSE end
         /\ i' = e
         /\ IF end' >= start'
            THEN /\ out_image' = [out_image EXCEPT ![j] = @ \cup Thinned(start', end')]
                 /\ p_height' = [p_height EXCEPT ![end' - start' + 1] = @ + 1]
            ELSE UNCHANGED <<out_image, p_height>>
  /\ pc' = "white"
  /\ UNCHANGED <<image, j, p_space, staff_height, staff_space>>

(* start is the last white row, so that the number of the rows is one more *)
(* than that of the place counted at, but for the white rows on top, where *)
(* end is 0.                                                               *)
WhiteRun ==
  /\ pc = "white"
  /\ LET w == EndOf(i, White)
     IN  /\ start' = IF w > i THEN w - 1 ELSE start
         /\ IF start' > end
            THEN p_space' = [p_space EXCEPT ![start' - end - 1] = @ + 1] /\ i' = w
            ELSE UNCHANGED p_space /\ i' = w + 1
  /\ pc' = "black"
  /\ UNCHANGED <<image, out_image, j, end, p_height, staff_height, staff_space>>

(* Mutant: end is not reset. *)
EndColumnKeeps ==
  /\ pc = "black" /\ i >= Bottom
  /\ i' = Top
  /\ IF j + 1 < Right THEN j' = j + 1 /\ pc' = pc ELSE j' = j /\ pc' = "mode"
  /\ UNCHANGED <<image, out_image, start, end, counts, staff_height, staff_space>>

EndColumn ==
  /\ pc = "black" /\ i >= Bottom
  /\ i' = Top
  /\ end' = 0
  /\ IF j + 1 < Right THEN j' = j + 1 /\ pc' = pc ELSE j' = j /\ pc' = "mode"
  /\ UNCHANGED <<image, out_image, start, counts, staff_height, staff_space>>

(* The lowest of the most frequent sizes; without any run, max_pos is what *)
(* it happens to be.                                                       *)
Mode(count) ==
  IF \A h \in Size : count[h] = 0 THEN Size
  ELSE {h \in Size : /\ \A k \in Size : count[k] <= count[h]
                     /\ \A k \in 0 .. h - 1 : count[k] < count[h]}

Modes ==
  /\ pc = "mode"
  /\ staff_height' \in Mode(p_height)
  /\ staff_space' \in Mode(p_space)
  /\ pc' = "done"
  /\ UNCHANGED <<image, out_image, j, i, bounds, counts>>

Next == BlackRun \/ WhiteRun \/ EndColumn \/ Modes

Spec == Init /\ [][Next]_vars

-----------------------------------------------------------------------------
TypeOK ==
  /\ j \in Column /\ i \in Top .. Bottom + 1
  /\ start \in 0 .. Bottom - 1 /\ end \in 0 .. Bottom - 1
  /\ out_image \in [Left - 1 .. Right - 1 -> SUBSET (Top - 1 .. Bottom)]
  /\ p_height \in [Size -> Nat] /\ p_space \in [Size -> Nat]
  /\ staff_height \in Size /\ staff_space \in Size
  /\ pc \in {"black", "white", "mode", "done"}

(* The runs of a column, without the scan. *)
Runs(rows) ==
  {g \in Row \X Row :
     g[1] <= g[2] /\ g[1] .. g[2] \subseteq rows /\ g[1] - 1 \notin rows /\ g[2] + 1 \notin rows}

BlackRuns == {x \in Column \X (Row \X Row) : x[2] \in Runs(image[x[1]])}
WhiteRuns == {x \in Column \X (Row \X Row) : x[2] \in Runs(Row \ image[x[1]])}

HeightOf(x) == x[2][2] - x[2][1] + 1

(* Every black run of the page is counted once, under its height; every    *)
(* white one under its height less one, or its height if it is on top.     *)
RunsCounted ==
  pc \in {"mode", "done"} =>
    \A h \in Size :
      /\ p_height[h] = Cardinality({x \in BlackRuns : HeightOf(x) = h})
      /\ p_space[h] = Cardinality({x \in WhiteRuns :
                                     HeightOf(x) = IF x[2][1] = Top THEN h - Top + 2 ELSE h + 1})

Finished(c) == pc \in {"mode", "done"} \/ c < j

(* Each black run leaves a pixel, and each pixel is on a run or next to    *)
(* one.                                                                    *)
RunsThinned ==
  \A c \in Column : Finished(c) =>
    /\ \A g \in Runs(image[c]) : out_image[c] \cap (g[1] - 1 .. g[2] + 1) # {}
    /\ \A p \in out_image[c] : {p - 1, p, p + 1} \cap image[c] # {}

(* A thinned line is not interrupted where runs of neighbouring columns    *)
(* touch: from the pixel of the one, the topmost of a group, one reaches a *)
(* pixel of the other in one step.                                         *)
Connected ==
  \A c \in Column : Finished(c) =>
    \A g \in Runs(image[c]) :
      LET pos == out_image[c - 1] \cap (g[1] - 1 .. g[2] + 1)
      IN  \A p \in pos : p - 1 \notin pos => {p - 1, p, p + 1} \cap out_image[c] # {}

(* The height of a staff line is one that no other black run's is more     *)
(* frequent than, if there is black at all.                                *)
HeightIsMode ==
  (pc = "done" /\ BlackRuns # {}) =>
    \A h \in Size : Cardinality({x \in BlackRuns : HeightOf(x) = h})
                      <= Cardinality({x \in BlackRuns : HeightOf(x) = staff_height})
=============================================================================
