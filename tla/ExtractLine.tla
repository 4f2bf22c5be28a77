---------------------------- MODULE ExtractLine ----------------------------
(***************************************************************************)
(* extract_line.cpp: each page is cut into text lines at the thin and the  *)
(* empty rows of its horizontal projection, and each line saved as a file  *)
(* with a number counted over all pages, beside a file that names its page *)
(* and its first row.                                                      *)
(*                                                                         *)
(* A page is the sequence of the numbers of ink pixels in its rows; rows   *)
(* are numbered from 0.                                                    *)
(***************************************************************************)
EXTENDS Integers, Sequences, FiniteSets

CONSTANTS
  Pages,       \* directories of pages: sequences of projections
  Unreadable,  \* a page that cannot be loaded
  Thin,        \* 1 / threshold1: 5
  Least        \* the part of the height a line must exceed: 20

Inputs ==
  /\ Thin \in Nat \ {0} /\ Least \in Nat \ {0}
  /\ \A P \in Pages : P \in Seq(Seq(Nat) \cup {Unreadable})
  /\ Unreadable \notin Seq(Nat)

VARIABLES
  pages,           \* the directory
  page,            \* number of the page
  ymin, ymax,      \* the rows of the loop
  line_no,
  lines,           \* files saved: number, page and rows
  pc

vars == <<pages, page, ymin, ymax, line_no, lines, pc>>

proj   == pages[page]
height == Len(proj)

MaxProj(p) == CHOOSE n \in {p[k] : k \in DOMAIN p} : \A k \in DOMAIN p : p[k] <= n

(* proj[y] <= threshold2, which is less than one pixel. *)
Empty(p, y) == p[y + 1] = 0

(* proj[y] / max_proj <= threshold1, asked only of rows that are not empty. *)
ThinRow(p, y) == ~Empty(p, y) /\ p[y + 1] * Thin <= MaxProj(p)

Tall(p, top, bottom) == bottom - top + 1 > Len(p) \div Least

-----------------------------------------------------------------------------
Init ==
  /\ pages \in Pages
  /\ page = 1
  /\ ymin = 0 /\ ymax = 0
  /\ line_no = 0
  /\ lines = {}
  /\ pc = "page"

SkipPage ==
  /\ pc = "page" /\ page <= Len(pages)
  /\ pages[page] = Unreadable
  /\ page' = page + 1
  /\ UNCHANGED <<pages, ymin, ymax, line_no, lines, pc>>

OpenPage ==
  /\ pc = "page" /\ page <= Len(pages)
  /\ pages[page] # Unreadable
  /\ ymin' = 0 /\ ymax' = 0
  /\ pc' = "row"
  /\ UNCHANGED <<pages, page, line_no, lines>>

(* Mutant: the start of the line stays. *)
EmptyRowKeeps ==
  /\ pc = "row" /\ ymax < height
  /\ Empty(proj, ymax)
  /\ ymax' = ymax + 1
  /\ UNCHANGED <<pages, page, ymin, line_no, lines, pc>>

EmptyRow ==
  /\ pc = "row" /\ ymax < height
  /\ Empty(proj, ymax)
  /\ ymin' = ymax /\ ymax' = ymax + 1
  /\ UNCHANGED <<pages, page, line_no, lines, pc>>

InkRow ==
  /\ pc = "row" /\ ymax < height
  /\ ~Empty(proj, ymax) /\ ~ThinRow(proj, ymax)
  /\ ymax' = ymax + 1
  /\ UNCHANGED <<pages, page, ymin, line_no, lines, pc>>

(* A thin row ends a line, and is the first row of the next one. *)
CutRow ==
  /\ pc = "row" /\ ymax < height
  /\ ThinRow(proj, ymax)
  /\ IF Tall(proj, ymin, ymax)
     THEN /\ lines' = lines \cup {[no |-> line_no, page |-> page, top |-> ymin, bottom |-> ymax]}
          /\ line_no' = line_no + 1
     ELSE UNCHANGED <<lines, line_no>>
  /\ ymin' = ymax /\ ymax' = ymax + 1
  /\ UNCHANGED <<pages, page, pc>>

(* What lies between ymin and the foot of the page is not saved. *)
EndPage ==
  /\ pc = "row" /\ ymax = height
  /\ page' = page + 1
  /\ pc' = "page"
  /\ UNCHANGED <<pages, ymin, ymax, line_no, lines>>

EndPages ==
  /\ pc = "page" /\ page > Len(pages)
  /\ pc' = "done"
  /\ UNCHANGED <<pages, page, ymin, ymax, line_no, lines>>

Next == SkipPage \/ OpenPage \/ EmptyRow \/ InkRow \/ CutRow \/ EndPage \/ EndPages

Spec == Init /\ [][Next]_vars

-----------------------------------------------------------------------------
Row(k) == 0 .. Len(pages[k]) - 1

Readable == {k \in DOMAIN pages : pages[k] # Unreadable}

TypeOK ==
  /\ page \in 1 .. Len(pages) + 1
  /\ ymin \in Nat /\ ymax \in Nat /\ ymin <= ymax
  /\ pc = "row" => page \in Readable /\ ymax <= height
  /\ line_no \in Nat
  /\ lines \subseteq [no : Nat, page : Readable, top : Nat, bottom : Nat]
  /\ pc \in {"page", "row", "done"}

(* The lines of a page, without a loop: a thin row and the nearest row     *)
(* above it that is thin, empty or the first, if the line is tall enough.  *)
Above(k, y) == {r \in Row(k) : r < y /\ (r = 0 \/ Empty(pages[k], r) \/ ThinRow(pages[k], r))}

CutsOf(k) ==
  {c \in Row(k) \X Row(k) :
     /\ ThinRow(pages[k], c[2])
     /\ \/ c[2] = 0 /\ c[1] = 0
        \/ c[1] \in Above(k, c[2]) /\ \A r \in Above(k, c[2]) : r <= c[1]}

LinesOf(k) == {c \in CutsOf(k) : Tall(pages[k], c[1], c[2])}

(* The files saved are exactly the lines of the pages read so far. *)
LinesExact ==
  pc = "page" =>
    \A k \in Readable :
      {<<l.top, l.bottom>> : l \in {m \in lines : m.page = k}} =
        IF k < page THEN LinesOf(k) ELSE {}

(* Each file has a number of its own, the numbers have no hole, and they   *)
(* rise with the pages and from the top of a page to its foot; two lines   *)
(* share at most the thin row between them.                                *)
LinesNumbered ==
  /\ {l.no : l \in lines} = 0 .. line_no - 1
  /\ \A l, m \in lines :
       /\ l.no = m.no => l = m
       /\ l.no < m.no => \/ l.page < m.page
                         \/ l.page = m.page /\ l.bottom <= m.top

(* When all is done, a row with ink is in no line only if the next thin    *)
(* or empty row, or the foot of the page, is no thin one: a line that ends *)
(* in a clean gap or at the foot is lost; or else if its line is too low.  *)
OnlyTailsLost ==
  pc = "done" =>
    \A k \in Readable : \A y \in Row(k) :
      \/ Empty(pages[k], y)
      \/ \E l \in lines : l.page = k /\ l.top <= y /\ y <= l.bottom
      \/ ~\E b \in Row(k) : /\ y <= b /\ ThinRow(pages[k], b)
                            /\ \A r \in y .. b : ~Empty(pages[k], r)
      \/ \E c \in CutsOf(k) \ LinesOf(k) : c[1] <= y /\ y <= c[2]
=============================================================================
