----------------------------- MODULE ThinLines -----------------------------
(***************************************************************************)
(* staff_line_removal: in each column of a page of straight lines          *)
(* HorizontalScan looks for the run of black pixels at, or near, the row   *)
(* of each staff line, and marks it if it is as thin as a line.            *)
(* remove_detected_lines makes what is marked white.  (Between the two,    *)
(* lines that are not interrupted pass remove_false_line, which is not     *)
(* modelled.)  Columns have nothing to do with one another, so this is one *)
(* of them.                                                                *)
(*                                                                         *)
(*  scan    the loop over the staff lines                                  *)
(*  remove  remove_detected_lines                                          *)
(***************************************************************************)
EXTENDS Integers, Sequences, FiniteSets

CONSTANTS
  Height,   \* of the page
  Columns   \* the columns, with the lines and the bounds of their page

Row == 0 .. Height - 1

(* ink: the black rows; lines: staff_positions. *)
Inputs ==
  /\ Height \in Nat
  /\ Columns \subseteq [ink : SUBSET Row, lines : Seq(Row), searh_h : Nat,
                        line_min_width : Nat, line_max_width : Nat, avg_staff_space : Nat]

VARIABLES
  column,
  lined,   \* lined_image: the rows marked
  n,       \* Staff_count_index
  copy,    \* copy_bin_image: the rows that are black in the end
  pc

vars == <<column, lined, n, copy, pc>>

ink == column.ink

Init ==
  /\ column \in Columns
  /\ lined = {}
  /\ n = 1
  /\ copy = column.ink
  /\ pc = "scan"

-----------------------------------------------------------------------------
Below(p, d) == p + d < Height - 1 /\ p + d \in ink
Above(p, d) == p - d > 0 /\ p - d \in ink

(* Mutant: below first, up to the range, then above. *)
NearestBelow(p) ==
  LET ds == {d \in 1 .. column.searh_h : Below(p, d)}
      us == {d \in 1 .. column.searh_h : Above(p, d)}
  IN  IF p \in ink THEN p
      ELSE IF ds # {} THEN p + (CHOOSE d \in ds : \A c \in ds : d <= c)
      ELSE IF us # {} THEN p - (CHOOSE d \in us : \A c \in us : d <= c)
      ELSE p

(* The black row nearest to p, that below first; p if there is none. *)
Nearest(p) ==
  LET ds == {d \in 1 .. column.searh_h : Below(p, d) \/ Above(p, d)}
      d == CHOOSE c \in ds : \A b \in ds : c <= b
  IN  IF p \in ink \/ ds = {} THEN p ELSE IF Below(p, d) THEN p + d ELSE p - d

(* The ends of the run about row i, or as far from it as a staff space. *)
Down(i) ==
  CHOOSE r \in i .. Height :
    /\ i .. r - 1 \subseteq ink /\ \A s \in i .. r - 1 : s < i + column.avg_staff_space
    /\ r = Height \/ r >= i + column.avg_staff_space \/ r \notin ink

Up(i) ==
  CHOOSE r \in 0 .. i :
    /\ r + 1 .. i \subseteq ink /\ \A s \in r + 1 .. i : s > i - column.avg_staff_space
    /\ r = 0 \/ r <= i - column.avg_staff_space \/ r \notin ink

ThinAt(i) ==
  LET width == Down(i) - Up(i) - 1
  IN  width < column.line_max_width /\ width >= column.line_min_width

ScanLine ==
  /\ pc = "scan" /\ n <= Len(column.lines)
  /\ LET i == Nearest(column.lines[n])
     IN  lined' = IF i \in ink /\ ThinAt(i) THEN lined \cup ((Up(i) .. Down(i)) \cap Row) ELSE lined
  /\ n' = n + 1
  /\ UNCHANGED <<column, copy, pc>>

EndLines ==
  /\ pc = "scan" /\ n > Len(column.lines)
  /\ pc' = "remove"
  /\ UNCHANGED <<column, lined, n, copy>>

(* But for a margin of two rows. *)
Remove ==
  /\ pc = "remove"
  /\ copy' = ink \ (lined \cap (2 .. Height - 3))
  /\ pc' = "done"
  /\ UNCHANGED <<column, lined, n>>

Next == ScanLine \/ EndLines \/ Remove

Spec == Init /\ [][Next]_vars

-----------------------------------------------------------------------------
TypeOK ==
  /\ lined \subseteq Row /\ copy \subseteq Row
  /\ n \in 1 .. Len(column.lines) + 1
  /\ pc \in {"scan", "remove", "done"}

(* The runs of ink, without the scan. *)
Runs ==
  {g \in Row \X Row :
     g[1] <= g[2] /\ g[1] .. g[2] \subseteq ink /\ g[1] - 1 \notin ink /\ g[2] + 1 \notin ink}

Distance(p, g) == IF p < g[1] THEN g[1] - p ELSE IF p > g[2] THEN p - g[2] ELSE 0

(* g is the run the staff line at p stands for. *)
Stands(p, g) ==
  /\ Distance(p, g) <= column.searh_h
  /\ \A h \in Runs : \/ Distance(p, g) < Distance(p, h)
                     \/ Distance(p, g) = Distance(p, h) /\ g[1] >= h[1]

(* Neither the first row has ink nor the last, where the scan stops short. *)
Inside == 0 \notin ink /\ Height - 1 \notin ink

(* Where a staff space is not less than a line may be wide, the ink that   *)
(* goes is that of the runs which are thin and which a staff line stands   *)
(* for: whole runs, whatever the number and the order of the lines.        *)
RemovedExact ==
  (pc = "done" /\ Inside /\ column.avg_staff_space >= column.line_max_width) =>
    copy = {r \in ink :
              \/ r \notin 2 .. Height - 3
              \/ \A g \in Runs, k \in DOMAIN column.lines :
                   (g[1] <= r /\ r <= g[2] /\ Stands(column.lines[k], g)) =>
                     \/ g[2] - g[1] + 1 < column.line_min_width
                     \/ g[2] - g[1] + 1 >= column.line_max_width}

(* Whatever the bounds: a row loses its ink only within a staff space, and *)
(* the search range, of a staff line.                                      *)
RemovedNear ==
  pc = "done" =>
    \A r \in ink \ copy : \E k \in DOMAIN column.lines :
      LET p == column.lines[k]
          far == column.searh_h + column.avg_staff_space
      IN  p - far <= r /\ r <= p + far
=============================================================================
