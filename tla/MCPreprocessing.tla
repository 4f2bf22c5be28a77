--------------------------- MODULE MCPreprocessing ---------------------------
(* Small pages for each of the functions.                                  *)
EXTENDS Preprocessing, Sequences

(* VerticalThinning: every page of four rows in three columns, for runs of *)
(* all places against none, one and two thinned pixels on their left.      *)
MCImages == [Left .. Right - 1 -> SUBSET (Top .. Bottom - 1)]

(* type_detect: every page of five rows, pages with more lines than there  *)
(* are positions, pairs of pages, and pages about one that does not load.  *)
Margin(rows) == <<0>> \o rows \o <<0>>

P(rows, narrow, w) ==
  [loads |-> TRUE, level |-> Margin(rows), straight |-> \E r \in DOMAIN rows : rows[r] = 2,
   narrow |-> narrow, same |-> \A r \in DOMAIN rows : rows[r] # 1, width |-> w]

Short == [1 .. 5 -> 0 .. 2]

(* Two lines of four rows; six thin lines, three of them high; six high    *)
(* ones; a line of seven rows; two lines of two, and so on.                *)
Long ==
  {<<2, 2, 2, 2, 0, 2, 2, 2, 2>>,  <<1, 2, 2, 1, 0, 2, 2, 1>>,
   <<1, 0, 1, 0, 1, 0, 2, 0, 2, 0, 2>>,  <<1, 1, 0, 1, 0, 1, 0, 2, 2, 0, 2, 0, 2, 2>>,
   <<2, 0, 2, 0, 2, 0, 2, 0, 2, 0, 2>>,  <<2, 1, 2, 0, 1, 0, 1, 2, 2, 0, 1>>,
   <<1, 1, 1, 1, 1, 1, 2, 0, 2>>,  <<2, 2, 0, 1, 1, 1, 1, 1, 0, 2, 2>>}

Missing == [P(<<0>>, FALSE, 2) EXCEPT !.loads = FALSE]

MCDocuments ==
  {<<P(rows, FALSE, 4), Missing, P(rows, TRUE, 4)>> : rows \in Long} \cup
  {<<P(rows, b, w)>> : rows \in Short \cup Long, b \in BOOLEAN, w \in {2, 4}} \cup
  {<<P(rows, b, w), P(s, ~b, 4)>> : rows \in Long, s \in Long \cup {<<2, 0, 2>>, <<0>>, <<2, 2, 0, 2>>},
                                     b \in BOOLEAN, w \in {2, 4}}

(* HorizontalScan: every column of nine rows with one line or two; search  *)
(* ranges of a row and two; staff spaces less, as large as, and larger     *)
(* than the width of a line.                                               *)
Lines == {<<p>> : p \in 2 .. 6} \cup {<<p, q>> : p \in {2, 4}, q \in {4, 5, 6}}

Bounds == {<<1, 2, 2>>, <<1, 3, 3>>, <<2, 4, 4>>, <<0, 2, 3>>, <<1, 4, 1>>}

MCColumns ==
  {[ink |-> s, lines |-> l, searh_h |-> h, line_min_width |-> b[1], line_max_width |-> b[2],
    avg_staff_space |-> b[3]] :
     s \in SUBSET (0 .. Height - 1), l \in Lines, h \in {1, 2}, b \in Bounds}

(* extract_line: every page of up to seven rows, each empty, thin or heavy, *)
(* and every directory of two pages of three rows or unreadable ones.  A    *)
(* row of one pixel is thin beside one of five, and a line must exceed a    *)
(* third of a page.                                                         *)
Ink == {0, 1, 5}
PagesOf(h) == UNION {[1 .. k -> Ink] : k \in 1 .. h}

MCPages ==
  {<<p>> : p \in PagesOf(7)} \cup
  {<<p, q>> : p, q \in [1 .. 3 -> Ink] \cup {Unreadable}}
=============================================================================
