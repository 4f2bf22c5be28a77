---------------------------- MODULE Preprocessing ----------------------------
(***************************************************************************)
(* The programs that prepare pages for the search, function by function.   *)
(* staff_line_removal thins a page (VerticalThinning), finds its staff     *)
(* lines (TypeDetect) and scans for thin ones, column by column            *)
(* (ThinLines); extract_line cuts what is left into lines (ExtractLine).   *)
(*                                                                         *)
(* What one leaves to the next are images, of which each of the modules    *)
(* keeps something else.  So a behaviour is one function, on any of its    *)
(* inputs; a variable of the others holds zero.                            *)
(***************************************************************************)
EXTENDS Integers

CONSTANTS
  Top, Bottom, Left, Right, Images,   \* of VerticalThinning
  MaxLines, MinLines, Documents,      \* of TypeDetect
  Height, Columns,                    \* of ThinLines
  Pages, Unreadable, Thin, Least      \* of ExtractLine

VARIABLES
  function,
  pages, page, i, pc,   \* of more than one
  image, out_image, j, start, end, p_height, p_space, staff_height, staff_space,
  hist_line_thresh, count, Consecutive_count, positions, var_sum, var_c, ans, Staff_count,
  Variation, measured, raised,
  column, lined, n, copy,
  ymin, ymax, line_no, lines

V == INSTANCE VerticalThinning
D == INSTANCE TypeDetect
S == INSTANCE ThinLines
L == INSTANCE ExtractLine

ASSUME PreprocessingAssumption == V!Inputs /\ D!Inputs /\ S!Inputs /\ L!Inputs

thinning == <<image, out_image, j, start, end, p_height, p_space, staff_height, staff_space>>
detected == <<hist_line_thresh, count, Consecutive_count, positions, var_sum, var_c, ans,
              Staff_count, Variation, measured, raised>>
scanned  == <<column, lined, n, copy>>
cut      == <<ymin, ymax, line_no, lines>>

NoThinning ==
  /\ image = 0 /\ out_image = 0 /\ j = 0 /\ start = 0 /\ end = 0
  /\ p_height = 0 /\ p_space = 0 /\ staff_height = 0 /\ staff_space = 0

NoDetected ==
  /\ hist_line_thresh = 0 /\ count = 0 /\ Consecutive_count = 0 /\ positions = 0
  /\ var_sum = 0 /\ var_c = 0 /\ ans = 0 /\ Staff_count = 0
  /\ Variation = 0 /\ measured = 0 /\ raised = 0

NoScanned == column = 0 /\ lined = 0 /\ n = 0 /\ copy = 0

NoCut == ymin = 0 /\ ymax = 0 /\ line_no = 0 /\ lines = 0

Init ==
  \/ /\ function = "VerticalThinning" /\ V!Init
     /\ pages = 0 /\ page = 0 /\ NoDetected /\ NoScanned /\ NoCut
  \/ /\ function = "type_detect" /\ D!Init
     /\ NoThinning /\ NoScanned /\ NoCut
  \/ /\ function = "HorizontalScan" /\ S!Init
     /\ pages = 0 /\ page = 0 /\ i = 0 /\ NoThinning /\ NoDetected /\ NoCut
  \/ /\ function = "extract_line" /\ L!Init
     /\ i = 0 /\ NoThinning /\ NoDetected /\ NoScanned

Thinning ==
  /\ function = "VerticalThinning" /\ V!Next
  /\ UNCHANGED <<function, pages, page, detected, scanned, cut>>

Detection ==
  /\ function = "type_detect" /\ D!Next
  /\ UNCHANGED <<function, thinning, scanned, cut>>

Scan ==
  /\ function = "HorizontalScan" /\ S!Next
  /\ UNCHANGED <<function, pages, page, i, thinning, detected, cut>>

Extraction ==
  /\ function = "extract_line" /\ L!Next
  /\ UNCHANGED <<function, i, thinning, detected, scanned>>

Next == Thinning \/ Detection \/ Scan \/ Extraction

Spec == Init /\ [][Next]_<<function, pages, page, i, pc, thinning, detected, scanned, cut>>

-----------------------------------------------------------------------------
(* The staff lines type_detect finds are those of the page, and only the   *)
(* restart of its scan within a line makes it write outside of its array.  *)
StaffLinesExact ==
  function = "type_detect" => D!TypeOK /\ D!PositionsExact /\ D!WildExplained

(* A page is scanned with the Variation of its own lines, and no page is   *)
(* passed over.                                                            *)
PagesKeptApart ==
  function = "type_detect" => D!VariationExact /\ D!OwnVariation /\ D!NonePassedOver

(* Thinning leaves each run a pixel and no thinned line interrupted, and   *)
(* finds the most frequent height of a run.                                *)
ThinnedLines ==
  function = "VerticalThinning" =>
    V!TypeOK /\ V!RunsThinned /\ V!Connected /\ V!RunsCounted /\ V!HeightIsMode

(* The scan removes the thin runs that staff lines stand for, whole, and   *)
(* nothing that is far from a line.                                        *)
LinesRemoved ==
  function = "HorizontalScan" => S!TypeOK /\ S!RemovedExact /\ S!RemovedNear

(* The lines saved are those of the pages, numbered without a hole, and    *)
(* what is lost is the tail of a page or a line in a clean gap.            *)
LinesSaved ==
  function = "extract_line" => L!TypeOK /\ L!LinesExact /\ L!LinesNumbered /\ L!OnlyTailsLost

(* A comment in type_detect: the average position of a line is saved in    *)
(* the last position.                                                      *)
AverageInLast == function = "type_detect" => D!AverageInLast
=============================================================================
