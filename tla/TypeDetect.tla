----------------------------- MODULE TypeDetect -----------------------------
(***************************************************************************)
(* staff_line_removal: type_detect finds the rows of the staff lines in    *)
(* the horizontal histogram of a page and tells straight staffs from       *)
(* others; by its answer main sends the page to HorizontalScan or not.     *)
(* The positions, their number and the Variation are variables of main,    *)
(* which one page leaves to the next.                                      *)
(*                                                                         *)
(*  page   head of main's loop over the images                             *)
(*  row    the scan of the histogram                                       *)
(*  type   behind it                                                       *)
(*  route  back in main                                                    *)
(*  caught the program ends with an exception                              *)
(*  wild   an element outside of the array was written: anything follows   *)
(*                                                                         *)
(* Of the histogram a page has, for each row, whether it exceeds none of   *)
(* the two thresholds, the lower (1), or both (2).  Pages are not higher   *)
(* than MAX_VERTICAL, so that mul is 1.                                    *)
(***************************************************************************)
EXTENDS Integers, Sequences, FiniteSets

CONSTANTS
  MaxLines,   \* positions stored before the threshold is raised: 100
  MinLines,   \* lines of a straight page: 5
  Documents   \* sequences of pages

(* loads: cvLoadImage loads it; straight: there is a peak; narrow: it is   *)
(* at most 0.45 of the width; same: the thresholds are equal; width: of    *)
(* the lines.                                                              *)
Page == [loads : BOOLEAN, level : Seq(0 .. 2), straight : BOOLEAN, narrow : BOOLEAN,
         same : BOOLEAN, width : Nat]

(* In the first and the last row of the scan no pixel is counted, and a    *)
(* peak exceeds both thresholds.                                           *)
Inputs ==
  /\ MaxLines \in Nat \ {0} /\ MinLines \in Nat \ {0}
  /\ \A D \in Documents : D \in Seq(Page) /\ \A k \in DOMAIN D :
       LET p == D[k]
       IN  /\ Len(p.level) > 1
           /\ p.level[1] = 0 /\ p.level[Len(p.level)] = 0
           /\ p.straight => \E r \in DOMAIN p.level : p.level[r] = 2
           /\ p.same => \A r \in DOMAIN p.level : p.level[r] # 1

VARIABLES
  pages,              \* the directory
  page,               \* number of the page
  hist_line_thresh,   \* 1 or 2
  i,                  \* the row
  count, Consecutive_count,
  positions,          \* the array, as far as it is written
  var_sum, var_c,
  ans,                \* the type
  Staff_count,
  Variation,          \* a quotient, <<var_sum, var_c>>
  measured,           \* history: the page Variation is of, or 0
  raised,             \* history: the threshold was raised on this page, and
                      \* Consecutive_count then
  pc

scan  == <<hist_line_thresh, i, count, Consecutive_count, positions, var_sum, var_c>>
vars  == <<pages, page, scan, ans, Staff_count, Variation, measured, raised, pc>>

level == pages[page].level

Line(r) == level[r] >= hist_line_thresh

Init ==
  /\ pages \in Documents
  /\ page = 1
  /\ hist_line_thresh = 1 /\ i = 1
  /\ count = 0 /\ Consecutive_count = 0
  /\ positions = [k \in 0 .. MaxLines |-> 0]
  /\ var_sum = 0 /\ var_c = 0
  /\ ans = "u" /\ Staff_count = 0
  /\ Variation = <<0, 1>>
  /\ measured = 0 /\ raised = -1
  /\ pc = "page"

-----------------------------------------------------------------------------
(* Mutant: what was counted on the last page is kept. *)
StartPageKeeps ==
  /\ pc = "page" /\ page <= Len(pages) /\ pages[page].loads
  /\ hist_line_thresh' = 1 /\ i' = 1
  /\ count' = 0 /\ Consecutive_count' = 0
  /\ ans' = IF pages[page].straight THEN "s" ELSE "u"
  /\ Staff_count' = 0
  /\ raised' = -1
  /\ pc' = IF pages[page].straight THEN "row" ELSE "type"
  /\ UNCHANGED <<pages, page, positions, var_sum, var_c, Variation, measured>>

StartPage ==
  /\ pc = "page" /\ page <= Len(pages) /\ pages[page].loads
  /\ hist_line_thresh' = 1 /\ i' = 1
  /\ count' = 0 /\ Consecutive_count' = 0
  /\ var_sum' = 0 /\ var_c' = 0
  /\ ans' = IF pages[page].straight THEN "s" ELSE "u"
  /\ Staff_count' = 0
  /\ raised' = -1
  /\ pc' = IF pages[page].straight THEN "row" ELSE "type"
  /\ UNCHANGED <<pages, page, positions, Variation, measured>>

(* The continue is commented out: taking the size of no image throws, and  *)
(* what catches it is outside of the loop over the pages.                  *)
CannotLoad ==
  /\ pc = "page" /\ page <= Len(pages) /\ ~pages[page].loads
  /\ pc' = "caught"
  /\ UNCHANGED <<pages, page, scan, ans, Staff_count, Variation, measured, raised>>

MoreRows == i <= Len(level)

(* Rows that follow one another are counted. *)
Consecutive ==
  IF count # 0 /\ positions[count - 1] = i - 1 THEN Consecutive_count + 1 ELSE Consecutive_count

LineRow ==
  /\ pc = "row" /\ MoreRows /\ Line(i)
  /\ count < MaxLines
  /\ Consecutive_count' = Consecutive
  /\ positions' = [positions EXCEPT ![count] = i]
  /\ count' = count + 1
  /\ i' = i + 1
  /\ UNCHANGED <<pages, page, hist_line_thresh, var_sum, var_c, ans, Staff_count, Variation,
                 measured, raised, pc>>

CanRaise == hist_line_thresh = 1 /\ ~pages[page].same

(* Too many lines: the scan starts again, in the second row.  What had     *)
(* been counted of the group of rows at hand is not reset, and neither are *)
(* the sums.                                                               *)
RaiseThreshold ==
  /\ pc = "row" /\ MoreRows /\ Line(i)
  /\ count = MaxLines /\ CanRaise
  /\ hist_line_thresh' = 2
  /\ Consecutive_count' = Consecutive
  /\ raised' = Consecutive
  /\ positions' = [positions EXCEPT ![count] = i]
  /\ count' = 0
  /\ i' = 2
  /\ UNCHANGED <<pages, page, var_sum, var_c, ans, Staff_count, Variation, measured, pc>>

GiveUp ==
  /\ pc = "row" /\ MoreRows /\ Line(i)
  /\ count = MaxLines /\ ~CanRaise
  /\ Consecutive_count' = Consecutive
  /\ positions' = [positions EXCEPT ![count] = i]
  /\ count' = 0
  /\ ans' = "u"
  /\ i' = Len(level) + 1
  /\ UNCHANGED <<pages, page, hist_line_thresh, var_sum, var_c, Staff_count, Variation, measured,
                 raised, pc>>

(* Mutant: the last row of the group instead of the middle one. *)
EndGroupLast ==
  /\ pc = "row" /\ MoreRows /\ ~Line(i)
  /\ Consecutive_count > 0
  /\ count' = count - Consecutive_count
  /\ i' = i + 1
  /\ Consecutive_count' = 0
  /\ IF count' < 1
     THEN pc' = "wild" /\ UNCHANGED <<positions, var_sum, var_c>>
     ELSE /\ positions' = [positions EXCEPT ![count' - 1] = positions[count - 1]]
          /\ var_sum' = var_sum + Consecutive_count
          /\ var_c' = var_c + 1
          /\ pc' = pc
  /\ UNCHANGED <<pages, page, hist_line_thresh, ans, Staff_count, Variation, measured, raised>>

(* The rows of a group are replaced by the one in the middle. *)
EndGroup ==
  /\ pc = "row" /\ MoreRows /\ ~Line(i)
  /\ Consecutive_count > 0
  /\ count' = count - Consecutive_count
  /\ i' = i + 1
  /\ Consecutive_count' = 0
  /\ IF count' < 1
     THEN pc' = "wild" /\ UNCHANGED <<positions, var_sum, var_c>>
     ELSE /\ positions' = [positions EXCEPT
                             ![count' - 1] = positions[count' - 1 + Consecutive_count \div 2]]
          /\ var_sum' = var_sum + Consecutive_count
          /\ var_c' = var_c + 1
          /\ pc' = pc
  /\ UNCHANGED <<pages, page, hist_line_thresh, ans, Staff_count, Variation, measured, raised>>

OtherRow ==
  /\ pc = "row" /\ MoreRows /\ ~Line(i)
  /\ Consecutive_count = 0
  /\ i' = i + 1
  /\ UNCHANGED <<pages, page, hist_line_thresh, count, Consecutive_count, positions, var_sum,
                 var_c, ans, Staff_count, Variation, measured, raised, pc>>

EndRows ==
  /\ pc = "row" /\ ~MoreRows
  /\ IF count < MinLines THEN Staff_count' = 0 /\ ans' = "u" ELSE Staff_count' = count /\ ans' = ans
  /\ pc' = "type"
  /\ UNCHANGED <<pages, page, scan, Variation, measured, raised>>

-----------------------------------------------------------------------------
(* v, a quotient, against a decimal of one place. *)
Above(v, tenths) == 10 * v[1] > tenths * v[2]
Below(v, tenths) == 10 * v[1] < tenths * v[2]

(* The mean height of the lines, if there was a group at all, decides      *)
(* whatever was found before.                                              *)
Vary ==
  /\ pc = "type"
  /\ IF var_c > 0
     THEN /\ Variation' = <<var_sum, var_c>> /\ measured' = page
          /\ ans' = IF Above(Variation', 26) THEN "y"
                    ELSE IF pages[page].narrow /\ Below(Variation', 20) THEN "n" ELSE ans
     ELSE UNCHANGED <<Variation, measured, ans>>
  /\ pc' = "route"
  /\ UNCHANGED <<pages, page, scan, Staff_count, raised>>

(* HorizontalScan assigns its search range and the bounds of the line      *)
(* width on all of its branches but one.                                   *)
ParametersSet ==
  \/ Above(Variation, 26)
  \/ Below(Variation, 15)
  \/ pages[page].width \in {2, 3}
  \/ ans = "n"

(* "y" is and-ed with false, so a page of this type takes the other way. *)
Horizontal == ans \in {"s", "n"}

(* The page is scanned and saved by the one way or the other. *)
Route ==
  /\ pc = "route"
  /\ page' = page + 1
  /\ pc' = "page"
  /\ UNCHANGED <<pages, scan, ans, Staff_count, Variation, measured, raised>>

EndPages ==
  /\ pc = "page" /\ page > Len(pages)
  /\ pc' = "done"
  /\ UNCHANGED <<pages, page, scan, ans, Staff_count, Variation, measured, raised>>

Next ==
  \/ StartPage \/ CannotLoad \/ LineRow \/ RaiseThreshold \/ GiveUp \/ EndGroup \/ OtherRow
  \/ EndRows \/ Vary \/ Route \/ EndPages

Spec == Init /\ [][Next]_vars

-----------------------------------------------------------------------------
TypeOK ==
  /\ page \in 1 .. Len(pages) + 1
  /\ hist_line_thresh \in 1 .. 2
  /\ i \in Nat
  /\ pc # "wild" => count \in 0 .. MaxLines
  /\ Consecutive_count \in 0 .. 2 * MaxLines
  /\ positions \in [0 .. MaxLines -> Nat]
  /\ ans \in {"s", "n", "y", "u"}
  /\ Staff_count \in 0 .. MaxLines
  /\ Variation \in Nat \X (Nat \ {0})
  /\ measured \in 0 .. Len(pages)
  /\ pc \in {"page", "row", "type", "route", "wild", "caught", "done"}

(* The lines of a page, without the scan: maximal groups of rows above the *)
(* threshold.                                                              *)
Groups(th) ==
  {g \in (DOMAIN level) \X (DOMAIN level) :
     /\ g[1] <= g[2]
     /\ \A r \in g[1] .. g[2] : level[r] >= th
     /\ level[g[1] - 1] < th /\ level[g[2] + 1] < th}

Middle(g) == (g[1] + g[2]) \div 2

Thick == {g \in Groups(hist_line_thresh) : g[1] < g[2]}

Scanned == pc = "type" /\ pages[page].straight /\ i = Len(level) + 1 /\ ans # "u"

(* The positions a scan ends with are the middle rows of the page's lines  *)
(* at the threshold it ended with, from top to bottom, each once, whether  *)
(* the threshold was raised or not.                                        *)
PositionsExact ==
  Scanned =>
    /\ Staff_count = Cardinality(Groups(hist_line_thresh))
    /\ {positions[k] : k \in 0 .. Staff_count - 1} = {Middle(g) : g \in Groups(hist_line_thresh)}
    /\ \A k, m \in 0 .. Staff_count - 1 : k < m => positions[k] < positions[m]

(* The number of lines of two rows or more, and the rows they have beyond  *)
(* one, are those of the page, unless the threshold was raised: then those *)
(* of both scans are added.                                                *)
VariationExact ==
  (Scanned /\ raised = -1) =>
    /\ var_c = Cardinality(Thick)
    /\ var_sum = Cardinality(UNION {{<<g, r>> : r \in g[1] + 1 .. g[2]} : g \in Thick})

(* The scan leaves the array only when the threshold was raised within a   *)
(* group of rows.                                                          *)
WildExplained == pc = "wild" => raised > 0

(* A page that has a line of more than one row, and goes to HorizontalScan, *)
(* goes there with a Variation of its own, of 2.6 at most, so that the      *)
(* branches for more are never for such a page; an interrupted one has its  *)
(* parameters set.  (A page of thin lines only gets the Variation of an     *)
(* earlier page, and one of straight lines may get no parameters at all.)   *)
OwnVariation ==
  (pc = "route" /\ Horizontal) =>
    /\ (Thick # {} \/ ans = "n") => measured = page /\ ~Above(Variation, 26)
    /\ ans = "n" => ParametersSet

(* A program that ends of itself has treated every page: none is passed     *)
(* over, but one that does not load takes those after it with it.           *)
NonePassedOver == pc = "done" => \A k \in DOMAIN pages : pages[k].loads

(* A comment: the average position is saved in the last position.          *)
AverageInLast ==
  (pc \in {"row", "wild"} /\ i > 3) =>
    \A g \in Groups(hist_line_thresh) :
      (g[2] = i - 2 /\ g[1] < g[2]) =>
        count >= 1 /\ positions[count - 1] = Middle(g)
=============================================================================
