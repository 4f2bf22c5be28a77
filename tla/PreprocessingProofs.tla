------------------------- MODULE PreprocessingProofs -------------------------
(***************************************************************************)
(* The functions that prepare pages, for every page, column and directory. *)
(*                                                                         *)
(* The argument.  extract_line: ymin is the nearest row above ymax at      *)
(* which a line may start, and the files saved of the page at hand are     *)
(* the lines that end above ymax.  HorizontalScan: the rows marked are     *)
(* those of the staff lines scanned, and a row is of a line exactly if it  *)
(* is of the run the line stands for, the nearest one.  type_detect: the   *)
(* positions are the middle rows of the lines that ended above row i, and  *)
(* behind them the rows of the line at hand, if there is one; after a      *)
(* restart within a line the scan is on rows of this line only, with a     *)
(* count that the first row below them turns into a write outside of the   *)
(* array.  VerticalThinning: what is set and counted is that of the runs   *)
(* which end above row i of column j or in a column before.                *)
(***************************************************************************)
EXTENDS Preprocessing, Sequences, FiniteSetTheorems, TLAPS

-----------------------------------------------------------------------------
(* Least and greatest numbers. *)

(* A set of finite sets has a member none of whose proper subsets is in it. *)
LEMMA SmallestSet ==
  ASSUME NEW F, F # {}, \A T \in F : IsFiniteSet(T)
  PROVE  \E T \in F : \A W \in F : ~(W \subseteq T /\ W # T)
<1> DEFINE U == UNION F
<1>1. IsWellFoundedOn(StrictSubsetOrdering(U), FiniteSubsetsOf(U))
  BY FS_StrictSubsetOrderingWellFounded
<1>2. F \subseteq FiniteSubsetsOf(U)
  BY DEF FiniteSubsetsOf
<1>3. PICK T \in F : \A W \in F : ~(<<W, T>> \in StrictSubsetOrdering(U))
  BY <1>1, <1>2, WFMin
<1> QED
  BY <1>3 DEF StrictSubsetOrdering

LEMMA LeastNat ==
  ASSUME NEW N \in SUBSET Nat, N # {}
  PROVE  \E x \in N : \A y \in N : x <= y
<1> DEFINE F == {0 .. m : m \in N}
<1>1. \A T \in F : IsFiniteSet(T)
  <2> SUFFICES ASSUME NEW m \in N PROVE IsFiniteSet(0 .. m)
    OBVIOUS
  <2> QED
    BY FS_Interval
<1>2. F # {}
  OBVIOUS
<1> HIDE DEF F
<1>3. PICK T \in F : \A W \in F : ~(W \subseteq T /\ W # T)
  BY <1>1, <1>2, SmallestSet
<1>4. PICK x \in N : T = 0 .. x
  BY DEF F
<1>5. ASSUME NEW y \in N, y < x PROVE FALSE
  <2>1. 0 .. y \in F
    BY DEF F
  <2>2. 0 .. y \subseteq 0 .. x /\ x \in 0 .. x /\ x \notin 0 .. y /\ x \in Nat /\ y \in Nat
    BY <1>5
  <2> QED
    BY <2>1, <2>2, <1>3, <1>4
<1> QED
  BY <1>5

LEMMA GreatestNat ==
  ASSUME NEW m \in Nat, NEW N \in SUBSET (0 .. m), N # {}
  PROVE  \E x \in N : \A y \in N : y <= x
<1> DEFINE B == {b \in 0 .. m : \A y \in N : y <= b}
<1>1. B \in SUBSET Nat /\ B # {}
  <2>1. m \in B
    OBVIOUS
  <2> QED
    BY <2>1
<1>2. PICK b \in B : \A c \in B : b <= c
  BY <1>1, LeastNat
<1>3. b \in 0 .. m /\ \A y \in N : y <= b
  BY <1>2
<1>4. CASE b \in N
  BY <1>3, <1>4
<1>5. CASE b \notin N
  <2>1. \A y \in N : y \in 0 .. m /\ y < b
    BY <1>3, <1>5
  <2>2. PICK y0 \in N : TRUE
    OBVIOUS
  <2>3. b - 1 \in 0 .. m /\ \A y \in N : y <= b - 1
    BY <1>3, <2>1, <2>2
  <2>4. b - 1 \in B
    BY <2>3
  <2>5. b <= b - 1
    BY <1>2, <2>4
  <2> QED
    BY <1>3, <2>5
<1> QED
  BY <1>4, <1>5

-----------------------------------------------------------------------------
(* extract_line. *)

(* ymin: the nearest row above y that is thin, empty or the first. *)
Nearest(k, y, top) ==
  \/ y = 0 /\ top = 0
  \/ top \in L!Above(k, y) /\ \A r \in L!Above(k, y) : r <= top

SavedOf(k) == {<<l.top, l.bottom>> : l \in {m \in lines : m.page = k}}

LineInv ==
  /\ pages \in Pages
  /\ L!TypeOK
  /\ pc = "page" => \A k \in L!Readable : SavedOf(k) = IF k < page THEN L!LinesOf(k) ELSE {}
  /\ pc = "row" =>
       /\ \A k \in L!Readable :
            SavedOf(k) = IF k < page THEN L!LinesOf(k)
                         ELSE IF k = page THEN {c \in L!LinesOf(k) : c[2] < ymax} ELSE {}
       /\ Nearest(page, ymax, ymin)
       /\ \A l \in lines : l.page = page => l.bottom <= ymin
  /\ pc = "done" => \A k \in L!Readable : SavedOf(k) = L!LinesOf(k)
  /\ L!LinesNumbered
  /\ \A l \in lines : l.page < page \/ (pc = "row" /\ l.page = page)

LEMMA LineInputs ==
  /\ Thin \in Nat \ {0} /\ Least \in Nat \ {0}
  /\ \A P \in Pages : P \in Seq(Seq(Nat) \cup {Unreadable})
  /\ Unreadable \notin Seq(Nat)
BY PreprocessingAssumption DEF L!Inputs

LEMMA LineInit == ASSUME L!Init PROVE LineInv
<1>1. pages \in Seq(Seq(Nat) \cup {Unreadable}) /\ Len(pages) \in Nat
  BY LineInputs DEF L!Init
<1>2. pc = "page" /\ page = 1 /\ ymin = 0 /\ ymax = 0 /\ line_no = 0 /\ lines = {} /\ pages \in Pages
  BY DEF L!Init
<1>3. L!TypeOK
  BY <1>1, <1>2 DEF L!TypeOK
<1>4. L!LinesNumbered
  BY <1>2 DEF L!LinesNumbered
<1>5. ASSUME NEW k \in L!Readable PROVE SavedOf(k) = {} /\ ~(k < page)
  BY <1>1, <1>2 DEF SavedOf, L!Readable
<1> QED
  BY <1>2, <1>3, <1>4, <1>5 DEF LineInv

(* What the rows of a page are. *)
LEMMA PageOf ==
  ASSUME LineInv, NEW k \in L!Readable
  PROVE  pages[k] \in Seq(Nat) /\ k \in 1 .. Len(pages) /\ Len(pages) \in Nat
BY LineInputs DEF LineInv, L!Readable

(* With a row that is not thin the next line starts further down, or not. *)
LEMMA NearestNext ==
  ASSUME NEW k, pages[k] \in Seq(Nat), NEW y \in 0 .. Len(pages[k]) - 1, NEW top, Nearest(k, y, top)
  PROVE  /\ L!Empty(pages[k], y) \/ L!ThinRow(pages[k], y) => Nearest(k, y + 1, y)
         /\ ~(L!Empty(pages[k], y) \/ L!ThinRow(pages[k], y)) => Nearest(k, y + 1, top)
         /\ top \in Nat /\ top <= y
<1>1. Len(pages[k]) \in Nat
  OBVIOUS
<1>2. top \in Nat /\ top <= y
  BY <1>1 DEF Nearest, L!Above, L!Row
<1>3. ASSUME L!Empty(pages[k], y) \/ L!ThinRow(pages[k], y) PROVE Nearest(k, y + 1, y)
  BY <1>1, <1>3 DEF Nearest, L!Above, L!Row
<1>4. ASSUME ~(L!Empty(pages[k], y) \/ L!ThinRow(pages[k], y)) PROVE Nearest(k, y + 1, top)
  <2>1. CASE y = 0
    BY <1>1, <1>4, <2>1 DEF Nearest, L!Above, L!Row
  <2>2. CASE y # 0
    <3>1. top \in L!Above(k, y) /\ \A r \in L!Above(k, y) : r <= top
      BY <2>2 DEF Nearest
    <3>2. L!Above(k, y + 1) = L!Above(k, y)
      BY <1>1, <1>4, <2>2 DEF L!Above, L!Row
    <3> QED
      BY <3>1, <3>2 DEF Nearest
  <2> QED
    BY <2>1, <2>2
<1> QED
  BY <1>2, <1>3, <1>4

(* There is only one nearest row. *)
LEMMA NearestUnique ==
  ASSUME NEW k, pages[k] \in Seq(Nat), NEW y \in Nat, NEW a, Nearest(k, y, a), NEW b, Nearest(k, y, b)
  PROVE  a = b
<1>1. ASSUME NEW r \in L!Above(k, y) PROVE r \in Nat /\ r < y
  BY <1>1 DEF L!Above, L!Row
<1> QED
  BY <1>1 DEF Nearest

(* The lines of a page that end at row y. *)
LEMMA CutsAt ==
  ASSUME NEW k, pages[k] \in Seq(Nat), NEW y \in 0 .. Len(pages[k]) - 1, NEW top, Nearest(k, y, top)
  PROVE  {c \in L!CutsOf(k) : c[2] = y} = IF L!ThinRow(pages[k], y) THEN {<<top, y>>} ELSE {}
<1>1. Len(pages[k]) \in Nat /\ top \in L!Row(k) /\ y \in L!Row(k) /\ y \in Nat
  BY DEF Nearest, L!Above, L!Row
<1>2. ASSUME NEW c \in L!Row(k) \X L!Row(k), c[2] = y
      PROVE  c \in L!CutsOf(k) <=> L!ThinRow(pages[k], y) /\ Nearest(k, y, c[1])
  BY <1>2 DEF L!CutsOf, Nearest
<1>3. ASSUME NEW c \in L!CutsOf(k), c[2] = y PROVE L!ThinRow(pages[k], y) /\ c = <<top, y>>
  <2>1. c \in L!Row(k) \X L!Row(k)
    BY <1>3 DEF L!CutsOf
  <2>2. L!ThinRow(pages[k], y) /\ Nearest(k, y, c[1])
    BY <1>2, <1>3, <2>1
  <2>3. c[1] = top
    BY <1>1, <2>2, NearestUnique
  <2> QED
    BY <1>3, <2>1, <2>2, <2>3
<1>4. ASSUME L!ThinRow(pages[k], y) PROVE <<top, y>> \in L!CutsOf(k)
  <2>1. <<top, y>> \in L!Row(k) \X L!Row(k) /\ <<top, y>>[2] = y /\ <<top, y>>[1] = top
    BY <1>1
  <2> QED
    BY <1>2, <1>4, <2>1
<1> QED
  BY <1>3, <1>4

(* The rows read before the next one: the lines that end above it. *)
EndedAbove(k, y) == {c \in L!LinesOf(k) : c[2] < y}

LEMMA EndedAboveNext ==
  ASSUME NEW k, pages[k] \in Seq(Nat), NEW y \in 0 .. Len(pages[k]) - 1, NEW top, Nearest(k, y, top)
  PROVE  EndedAbove(k, y + 1) =
           EndedAbove(k, y) \cup
             (IF L!ThinRow(pages[k], y) /\ L!Tall(pages[k], top, y) THEN {<<top, y>>} ELSE {})
<1>1. \A c \in L!LinesOf(k) : c[2] \in Nat /\ c \in L!CutsOf(k) /\ L!Tall(pages[k], c[1], c[2])
  BY DEF L!LinesOf, L!CutsOf, L!Row
<1>2. \A c \in L!LinesOf(k) : c[2] < y + 1 <=> (c[2] < y \/ c[2] = y)
  BY <1>1
<1>3. {c \in L!LinesOf(k) : c[2] = y} =
        IF L!ThinRow(pages[k], y) /\ L!Tall(pages[k], top, y) THEN {<<top, y>>} ELSE {}
  <2>1. {c \in L!LinesOf(k) : c[2] = y} = {c \in {b \in L!CutsOf(k) : b[2] = y} : L!Tall(pages[k], c[1], c[2])}
    BY DEF L!LinesOf
  <2> QED
    BY <2>1, CutsAt
<1> QED
  BY <1>2, <1>3 DEF EndedAbove

LEMMA LineSkip == ASSUME LineInv, L!SkipPage PROVE LineInv'
<1>1. /\ pc = "page" /\ page <= Len(pages) /\ pages[page] = Unreadable /\ page' = page + 1
      /\ pages' = pages /\ ymin' = ymin /\ ymax' = ymax /\ line_no' = line_no /\ lines' = lines /\ pc' = pc
  BY DEF L!SkipPage
<1>2. pages \in Seq(Seq(Nat) \cup {Unreadable}) /\ Len(pages) \in Nat /\ page \in 1 .. Len(pages) + 1
  BY LineInputs DEF LineInv, L!TypeOK
<1>3. L!TypeOK'
  BY <1>1, <1>2 DEF LineInv, L!TypeOK, L!Readable
<1>4. L!LinesNumbered'
  BY <1>1 DEF LineInv, L!LinesNumbered
<1>5. ASSUME NEW k \in L!Readable' PROVE SavedOf(k)' = IF k < page' THEN L!LinesOf(k)' ELSE {}
  <2>1. k \in L!Readable /\ k # page /\ k \in Nat
    BY <1>1, <1>2 DEF L!Readable
  <2>2. SavedOf(k)' = SavedOf(k) /\ L!LinesOf(k)' = L!LinesOf(k)
    BY <1>1 DEF SavedOf, L!LinesOf, L!CutsOf, L!Row, L!Above
  <2>3. k < page' <=> k < page
    BY <1>1, <1>2, <2>1
  <2> QED
    BY <1>1, <2>1, <2>2, <2>3 DEF LineInv
<1>6. \A l \in lines' : l.page < page'
  BY <1>1, <1>2, <1>3 DEF LineInv, L!TypeOK, L!Readable
<1>7. pc' = "page" /\ pages' \in Pages
  BY <1>1 DEF LineInv
<1> QED
  BY <1>3, <1>4, <1>5, <1>6, <1>7 DEF LineInv

LEMMA LineOpen == ASSUME LineInv, L!OpenPage PROVE LineInv'
<1>1. /\ pc = "page" /\ page <= Len(pages) /\ pages[page] # Unreadable /\ page' = page
      /\ pages' = pages /\ ymin' = 0 /\ ymax' = 0 /\ line_no' = line_no /\ lines' = lines /\ pc' = "row"
  BY DEF L!OpenPage
<1>2. pages \in Seq(Seq(Nat) \cup {Unreadable}) /\ Len(pages) \in Nat /\ page \in 1 .. Len(pages) + 1
  BY LineInputs DEF LineInv, L!TypeOK
<1>3. page \in L!Readable /\ pages[page] \in Seq(Nat)
  BY <1>1, <1>2 DEF L!Readable
<1>4. L!TypeOK'
  BY <1>1, <1>2, <1>3 DEF LineInv, L!TypeOK, L!Readable, L!height, L!proj
<1>5. L!LinesNumbered'
  BY <1>1 DEF LineInv, L!LinesNumbered
<1>6. ASSUME NEW k \in L!Readable'
      PROVE  SavedOf(k)' = IF k < page' THEN L!LinesOf(k)'
                           ELSE IF k = page' THEN {c \in L!LinesOf(k)' : c[2] < ymax'} ELSE {}
  <2>1. k \in L!Readable
    BY <1>1 DEF L!Readable
  <2>2. SavedOf(k)' = SavedOf(k) /\ L!LinesOf(k)' = L!LinesOf(k)
    BY <1>1 DEF SavedOf, L!LinesOf, L!CutsOf, L!Row, L!Above
  <2>3. {c \in L!LinesOf(k) : c[2] < 0} = {}
    BY DEF L!LinesOf, L!CutsOf, L!Row
  <2>4. SavedOf(k) = IF k < page THEN L!LinesOf(k) ELSE {}
    BY <1>1, <2>1 DEF LineInv
  <2> QED
    BY <1>1, <2>2, <2>3, <2>4
<1>7. \A l \in lines' : l.page < page' /\ l.page # page'
  BY <1>1, <1>2, <1>4 DEF LineInv, L!TypeOK, L!Readable
<1>8. Nearest(page, ymax, ymin)'
  BY <1>1 DEF Nearest
<1> QED
  BY <1>1, <1>4, <1>5, <1>6, <1>7, <1>8 DEF LineInv

(* A row is read: what all the branches have in common. *)
LEMMA LineRow ==
  ASSUME LineInv, pc = "row", ymax < L!height, pages' = pages, page' = page, pc' = pc,
         ymax' = ymax + 1,
         ymin' = IF L!Empty(L!proj, ymax) \/ L!ThinRow(L!proj, ymax) THEN ymax ELSE ymin
  PROVE  /\ page \in L!Readable /\ pages[page] \in Seq(Nat) /\ page \in Nat
         /\ ymax \in 0 .. Len(pages[page]) - 1 /\ Nearest(page, ymax, ymin)
         /\ Nearest(page, ymax, ymin)'
         /\ ymin \in Nat /\ ymin' \in Nat /\ ymin <= ymin' /\ ymin' <= ymax' /\ ymin <= ymax
<1>1. page \in L!Readable /\ pages[page] \in Seq(Nat) /\ page \in Nat
  BY PageOf DEF LineInv, L!TypeOK
<1>2. ymax \in 0 .. Len(pages[page]) - 1 /\ Nearest(page, ymax, ymin) /\ ymin \in Nat /\ ymin <= ymax
  BY <1>1 DEF LineInv, L!TypeOK, L!height, L!proj
<1>3. Nearest(page, ymax + 1, ymin')
  BY <1>1, <1>2, NearestNext DEF L!proj
<1>4. Nearest(page, ymax, ymin)'
  BY <1>3 DEF Nearest, L!Above, L!Row
<1> QED
  BY <1>1, <1>2, <1>4

(* A row that saves nothing. *)
LEMMA LineRowQuiet ==
  ASSUME LineInv, pc = "row", ymax < L!height, pages' = pages, page' = page, pc' = pc,
         ymax' = ymax + 1, lines' = lines, line_no' = line_no,
         ymin' = IF L!Empty(L!proj, ymax) \/ L!ThinRow(L!proj, ymax) THEN ymax ELSE ymin,
         L!ThinRow(L!proj, ymax) => ~L!Tall(L!proj, ymin, ymax)
  PROVE  LineInv'
<1>1. /\ page \in L!Readable /\ pages[page] \in Seq(Nat) /\ page \in Nat
      /\ ymax \in 0 .. Len(pages[page]) - 1 /\ Nearest(page, ymax, ymin)
      /\ Nearest(page, ymax, ymin)'
      /\ ymin \in Nat /\ ymin' \in Nat /\ ymin <= ymin' /\ ymin' <= ymax'
  BY LineRow
<1>2. L!TypeOK'
  BY <1>1 DEF LineInv, L!TypeOK, L!Readable, L!height, L!proj
<1>3. L!LinesNumbered'
  BY DEF LineInv, L!LinesNumbered
<1>4. EndedAbove(page, ymax + 1) = EndedAbove(page, ymax)
  <2>1. ~(L!ThinRow(pages[page], ymax) /\ L!Tall(pages[page], ymin, ymax))
    BY DEF L!proj
  <2>2. EndedAbove(page, ymax + 1) =
          EndedAbove(page, ymax) \cup
            (IF L!ThinRow(pages[page], ymax) /\ L!Tall(pages[page], ymin, ymax) THEN {<<ymin, ymax>>} ELSE {})
    BY <1>1, EndedAboveNext
  <2> QED
    BY <2>1, <2>2
<1>5. ASSUME NEW k \in L!Readable'
      PROVE  SavedOf(k)' = IF k < page' THEN L!LinesOf(k)'
                           ELSE IF k = page' THEN {c \in L!LinesOf(k)' : c[2] < ymax'} ELSE {}
  <2>1. k \in L!Readable
    BY DEF L!Readable
  <2>2. SavedOf(k)' = SavedOf(k) /\ L!LinesOf(k)' = L!LinesOf(k)
    BY DEF SavedOf, L!LinesOf, L!CutsOf, L!Row, L!Above
  <2>3. SavedOf(k) = IF k < page THEN L!LinesOf(k)
                     ELSE IF k = page THEN EndedAbove(k, ymax) ELSE {}
    BY <2>1 DEF LineInv, EndedAbove
  <2> QED
    BY <1>4, <2>2, <2>3 DEF EndedAbove
<1>6. \A l \in lines : l.page = page => l.bottom \in Nat /\ l.bottom <= ymin'
  BY <1>1 DEF LineInv, L!TypeOK
<1> QED
  BY <1>1, <1>2, <1>3, <1>5, <1>6 DEF LineInv

(* A thin row that saves the line it ends. *)
LEMMA LineRowSaves ==
  ASSUME LineInv, pc = "row", ymax < L!height, L!ThinRow(L!proj, ymax), L!Tall(L!proj, ymin, ymax),
         L!CutRow
  PROVE  LineInv'
<1> DEFINE new == [no |-> line_no, page |-> page, top |-> ymin, bottom |-> ymax]
<1>1. /\ pages' = pages /\ page' = page /\ pc' = pc /\ ymax' = ymax + 1 /\ ymin' = ymax
      /\ lines' = lines \cup {new} /\ line_no' = line_no + 1
  BY DEF L!CutRow
<1>2. /\ page \in L!Readable /\ pages[page] \in Seq(Nat) /\ page \in Nat
      /\ ymax \in 0 .. Len(pages[page]) - 1 /\ Nearest(page, ymax, ymin)
      /\ Nearest(page, ymax, ymin)'
      /\ ymin \in Nat /\ ymin' \in Nat /\ ymin <= ymin' /\ ymin' <= ymax' /\ ymin <= ymax
  BY <1>1, LineRow
<1>3. line_no \in Nat /\ ymax \in Nat
  BY DEF LineInv, L!TypeOK
<1>4. new \in [no : Nat, page : L!Readable, top : Nat, bottom : Nat]
  BY <1>2, <1>3
<1>5. lines \subseteq [no : Nat, page : L!Readable, top : Nat, bottom : Nat]
  BY DEF LineInv, L!TypeOK
<1>6. L!TypeOK'
  BY <1>1, <1>2, <1>3, <1>4 DEF LineInv, L!TypeOK, L!Readable, L!height, L!proj
<1>7. \A l \in lines : /\ l.no \in 0 .. line_no - 1
                       /\ l.page \in Nat /\ l.bottom \in Nat
                       /\ l.page < page \/ (l.page = page /\ l.bottom <= ymin)
  <2> SUFFICES ASSUME NEW l \in lines
               PROVE /\ l.no \in 0 .. line_no - 1
                     /\ l.page \in Nat /\ l.bottom \in Nat
                     /\ l.page < page \/ (l.page = page /\ l.bottom <= ymin)
    OBVIOUS
  <2>1. l.no \in 0 .. line_no - 1
    BY DEF LineInv, L!LinesNumbered
  <2>2. l.page \in L!Readable /\ l.bottom \in Nat
    BY <1>5
  <2>3. l.page \in Nat
    BY <2>2, PageOf
  <2>4. l.page < page \/ (l.page = page /\ l.bottom <= ymin)
    BY DEF LineInv
  <2> QED
    BY <2>1, <2>2, <2>3, <2>4
<1>8. L!LinesNumbered'
  <2>1. {l.no : l \in lines'} = {l.no : l \in lines} \cup {line_no}
    <3>1. new.no = line_no
      OBVIOUS
    <3> HIDE DEF new
    <3> QED
      BY <1>1, <3>1
  <2>2. {l.no : l \in lines'} = 0 .. line_no' - 1
    BY <1>1, <1>3, <2>1 DEF LineInv, L!LinesNumbered
  <2>3. ASSUME NEW l \in lines', NEW m \in lines'
        PROVE  /\ l.no = m.no => l = m
               /\ l.no < m.no => \/ l.page < m.page
                                 \/ l.page = m.page /\ l.bottom <= m.top
    <3>1. CASE l \in lines /\ m \in lines
      BY <3>1 DEF LineInv, L!LinesNumbered
    <3>2. CASE l \in lines /\ m = new
      <4>1. l.no < line_no
        BY <1>3, <1>7, <3>2
      <4>2. l.page < page \/ (l.page = page /\ l.bottom <= ymin)
        BY <1>7, <3>2
      <4>3. m.no = line_no /\ m.page = page /\ m.top = ymin
        BY <3>2
      <4> QED
        BY <1>3, <1>7, <3>2, <4>1, <4>2, <4>3
    <3>3. CASE l = new /\ m \in lines
      <4>1. m.no < line_no /\ m.no \in Int /\ l.no = line_no
        BY <1>3, <1>7, <3>3
      <4> QED
        BY <1>3, <4>1
    <3>4. CASE l = new /\ m = new
      BY <1>3, <3>4
    <3> QED
      BY <1>1, <3>1, <3>2, <3>3, <3>4
  <2> QED
    BY <2>2, <2>3 DEF L!LinesNumbered
<1>9. EndedAbove(page, ymax + 1) = EndedAbove(page, ymax) \cup {<<ymin, ymax>>}
  BY <1>2, EndedAboveNext DEF L!proj
<1>10. ASSUME NEW k \in L!Readable'
       PROVE  SavedOf(k)' = IF k < page' THEN L!LinesOf(k)'
                            ELSE IF k = page' THEN {c \in L!LinesOf(k)' : c[2] < ymax'} ELSE {}
  <2>1. k \in L!Readable
    BY <1>1 DEF L!Readable
  <2>2. L!LinesOf(k)' = L!LinesOf(k)
    BY <1>1 DEF L!LinesOf, L!CutsOf, L!Row, L!Above
  <2>3. SavedOf(k) = IF k < page THEN L!LinesOf(k)
                     ELSE IF k = page THEN EndedAbove(k, ymax) ELSE {}
    BY <2>1 DEF LineInv, EndedAbove
  <2>4. SavedOf(k)' = SavedOf(k) \cup (IF k = page THEN {<<ymin, ymax>>} ELSE {})
    <3>1. {m \in lines' : m.page = k} = {m \in lines : m.page = k} \cup (IF k = page THEN {new} ELSE {})
      BY <1>1
    <3>2. <<new.top, new.bottom>> = <<ymin, ymax>>
      OBVIOUS
    <3> HIDE DEF new
    <3>3. SavedOf(k)' = {<<l.top, l.bottom>> : l \in {m \in lines' : m.page = k}}
      BY DEF SavedOf
    <3> QED
      BY <3>1, <3>2, <3>3 DEF SavedOf
  <2>5. page \in Nat /\ ~(page < page)
    BY <1>2
  <2> QED
    BY <1>1, <1>9, <2>2, <2>3, <2>4, <2>5 DEF EndedAbove
<1>11. \A l \in lines' : /\ l.page < page' \/ l.page = page'
                         /\ l.page = page' => l.bottom <= ymin'
  <2>1. new.page = page /\ new.bottom = ymax
    OBVIOUS
  <2> HIDE DEF new
  <2> QED
    BY <1>1, <1>2, <1>3, <1>7, <2>1
<1> QED
  BY <1>1, <1>2, <1>6, <1>8, <1>10, <1>11 DEF LineInv

LEMMA LineCut == ASSUME LineInv, L!CutRow PROVE LineInv'
<1>1. /\ pages' = pages /\ page' = page /\ pc = "row" /\ pc' = pc /\ ymax' = ymax + 1 /\ ymin' = ymax
      /\ ymax < L!height /\ L!ThinRow(L!proj, ymax)
  BY DEF L!CutRow
<1>2. CASE L!Tall(L!proj, ymin, ymax)
  BY <1>1, <1>2, LineRowSaves
<1>3. CASE ~L!Tall(L!proj, ymin, ymax)
  <2>1. lines' = lines /\ line_no' = line_no
    BY <1>3 DEF L!CutRow
  <2> QED
    BY <1>1, <1>3, <2>1, LineRowQuiet
<1> QED
  BY <1>2, <1>3

LEMMA LineOther == ASSUME LineInv, L!EmptyRow \/ L!InkRow PROVE LineInv'
<1>1. CASE L!EmptyRow
  <2>1. /\ pages' = pages /\ page' = page /\ pc = "row" /\ pc' = pc /\ ymax' = ymax + 1 /\ ymin' = ymax
        /\ ymax < L!height /\ L!Empty(L!proj, ymax) /\ lines' = lines /\ line_no' = line_no
    BY <1>1 DEF L!EmptyRow
  <2>2. ~L!ThinRow(L!proj, ymax)
    BY <2>1 DEF L!ThinRow
  <2> QED
    BY <2>1, <2>2, LineRowQuiet
<1>2. CASE L!InkRow
  <2>1. /\ pages' = pages /\ page' = page /\ pc = "row" /\ pc' = pc /\ ymax' = ymax + 1 /\ ymin' = ymin
        /\ ymax < L!height /\ ~L!Empty(L!proj, ymax) /\ ~L!ThinRow(L!proj, ymax)
        /\ lines' = lines /\ line_no' = line_no
    BY <1>2 DEF L!InkRow
  <2> QED
    BY <2>1, LineRowQuiet
<1> QED
  BY <1>1, <1>2

LEMMA LineEnd == ASSUME LineInv, L!EndPage \/ L!EndPages PROVE LineInv'
<1>1. /\ pages' = pages /\ ymin' = ymin /\ ymax' = ymax /\ line_no' = line_no /\ lines' = lines
  BY DEF L!EndPage, L!EndPages
<1>2. pages \in Seq(Seq(Nat) \cup {Unreadable}) /\ Len(pages) \in Nat /\ page \in 1 .. Len(pages) + 1
  BY LineInputs DEF LineInv, L!TypeOK
<1>3. L!LinesNumbered'
  BY <1>1 DEF LineInv, L!LinesNumbered
<1>4. \A k : SavedOf(k)' = SavedOf(k) /\ L!LinesOf(k)' = L!LinesOf(k)
  BY <1>1 DEF SavedOf, L!LinesOf, L!CutsOf, L!Row, L!Above
<1>5. L!Readable' = L!Readable /\ \A k \in L!Readable : k \in 1 .. Len(pages)
  BY <1>1, <1>2 DEF L!Readable
<1>6. CASE L!EndPage
  <2>1. pc = "row" /\ ymax = L!height /\ page' = page + 1 /\ pc' = "page"
    BY <1>6 DEF L!EndPage
  <2>2. page \in L!Readable /\ pages[page] \in Seq(Nat)
    BY <2>1, PageOf DEF LineInv, L!TypeOK
  <2>3. \A c \in L!LinesOf(page) : c[2] < ymax
    BY <2>1, <2>2 DEF L!LinesOf, L!CutsOf, L!Row, L!height, L!proj
  <2>4. L!TypeOK'
    BY <1>1, <1>2, <1>5, <2>1, <2>2 DEF LineInv, L!TypeOK
  <2>5. ASSUME NEW k \in L!Readable' PROVE SavedOf(k)' = IF k < page' THEN L!LinesOf(k)' ELSE {}
    <3>1. k < page' <=> k < page \/ k = page
      BY <1>2, <1>5, <2>1
    <3> QED
      BY <1>4, <1>5, <2>1, <2>3, <3>1 DEF LineInv
  <2>6. \A l \in lines' : l.page < page'
    BY <1>1, <1>2, <1>5, <2>1 DEF LineInv, L!TypeOK
  <2>7. pc' = "page" /\ pages' \in Pages
    BY <1>1, <2>1 DEF LineInv
  <2> QED
    BY <1>3, <2>4, <2>5, <2>6, <2>7 DEF LineInv
<1>7. CASE L!EndPages
  <2>1. pc = "page" /\ page > Len(pages) /\ page' = page /\ pc' = "done"
    BY <1>7 DEF L!EndPages
  <2>2. L!TypeOK'
    BY <1>1, <1>2, <1>5, <2>1 DEF LineInv, L!TypeOK
  <2>3. ASSUME NEW k \in L!Readable' PROVE SavedOf(k)' = L!LinesOf(k)'
    <3>1. k < page
      BY <1>2, <1>5, <2>1
    <3> QED
      BY <1>4, <1>5, <2>1, <3>1 DEF LineInv
  <2> QED
    BY <1>1, <1>3, <2>1, <2>2, <2>3 DEF LineInv
<1> QED
  BY <1>6, <1>7

(* What is in no line of a page, when the lines saved are all of them. *)
LEMMA LineTails == ASSUME LineInv PROVE L!OnlyTailsLost
<1> SUFFICES ASSUME pc = "done",
                    NEW k \in L!Readable, NEW y \in L!Row(k), ~L!Empty(pages[k], y),
                    NEW b0 \in L!Row(k), y <= b0, L!ThinRow(pages[k], b0),
                    \A r \in y .. b0 : ~L!Empty(pages[k], r)
             PROVE  \/ \E l \in lines : l.page = k /\ l.top <= y /\ y <= l.bottom
                    \/ \E c \in L!CutsOf(k) \ L!LinesOf(k) : c[1] <= y /\ y <= c[2]
  BY DEF L!OnlyTailsLost
<1>1. pages[k] \in Seq(Nat) /\ Len(pages[k]) \in Nat /\ y \in Nat /\ b0 \in Nat
  BY PageOf DEF L!Row
<1> DEFINE thin == {r \in y .. b0 : L!ThinRow(pages[k], r)}
<1>2. thin \in SUBSET Nat /\ thin # {}
  BY <1>1
<1>3. PICK b \in thin : \A r \in thin : b <= r
  BY <1>2, LeastNat
<1>4. /\ b \in Nat /\ b \in L!Row(k) /\ y <= b /\ b <= b0 /\ L!ThinRow(pages[k], b)
      /\ \A r \in y .. b - 1 : ~L!Empty(pages[k], r) /\ ~L!ThinRow(pages[k], r)
  BY <1>1, <1>3 DEF L!Row
<1>5. PICK t \in L!Row(k) : Nearest(k, b, t)
  <2>1. CASE b = 0
    BY <1>4, <2>1 DEF Nearest
  <2>2. CASE b # 0
    <3>1. L!Above(k, b) \in SUBSET (0 .. b) /\ 0 \in L!Above(k, b)
      BY <1>1, <1>4, <2>2 DEF L!Above, L!Row
    <3>2. PICK t \in L!Above(k, b) : \A r \in L!Above(k, b) : r <= t
      BY <1>4, <3>1, GreatestNat
    <3> QED
      BY <3>2 DEF Nearest, L!Above
  <2> QED
    BY <2>1, <2>2
<1>6. t <= y
  <2> SUFFICES ASSUME y < t PROVE FALSE
    BY <1>1, <1>5 DEF L!Row
  <2>1. t \in L!Above(k, b) /\ t # 0 /\ t \in Nat
    BY <1>1, <1>5 DEF Nearest, L!Row
  <2>2. t < b /\ (L!Empty(pages[k], t) \/ L!ThinRow(pages[k], t))
    BY <2>1 DEF L!Above
  <2>3. t \in y .. b - 1
    BY <1>1, <1>4, <2>1, <2>2
  <2> QED
    BY <1>4, <2>2, <2>3
<1>7. <<t, b>> \in L!CutsOf(k)
  <2>1. b \in 0 .. Len(pages[k]) - 1
    BY <1>4 DEF L!Row
  <2>2. {c \in L!CutsOf(k) : c[2] = b} = {<<t, b>>}
    BY <1>1, <1>4, <1>5, <2>1, CutsAt
  <2> QED
    BY <2>2
<1>8. <<t, b>>[1] <= y /\ y <= <<t, b>>[2]
  BY <1>4, <1>6
<1>9. CASE <<t, b>> \notin L!LinesOf(k)
  BY <1>7, <1>8, <1>9
<1>10. CASE <<t, b>> \in L!LinesOf(k)
  <2>1. <<t, b>> \in SavedOf(k)
    BY <1>10 DEF LineInv
  <2>2. PICK l \in lines : l.page = k /\ <<l.top, l.bottom>> = <<t, b>>
    BY <2>1 DEF SavedOf
  <2>3. l.top = t /\ l.bottom = b
    BY <2>2
  <2> QED
    BY <1>4, <1>6, <2>2, <2>3
<1> QED
  BY <1>9, <1>10

LinesSavedInv == function = "extract_line" => LineInv

LEMMA LinesSavedInductive ==
  /\ Init => LinesSavedInv
  /\ LinesSavedInv /\ [Next]_<<function, pages, page, i, pc, thinning, detected, scanned, cut>> => LinesSavedInv'
<1>1. Init => LinesSavedInv
  BY LineInit DEF Init, LinesSavedInv
<1>2. ASSUME LinesSavedInv, Next PROVE LinesSavedInv'
  <2>1. CASE Extraction
    <3>1. function = "extract_line" /\ function' = function /\ L!Next
      BY <2>1 DEF Extraction
    <3>2. LineInv'
      BY <1>2, <3>1, LineSkip, LineOpen, LineOther, LineCut, LineEnd DEF LinesSavedInv, L!Next
    <3> QED
      BY <3>2 DEF LinesSavedInv
  <2>2. CASE Thinning \/ Detection \/ Scan
    BY <2>2 DEF Thinning, Detection, Scan, LinesSavedInv
  <2> QED
    BY <1>2, <2>1, <2>2 DEF Next
<1>3. ASSUME LinesSavedInv, UNCHANGED <<function, pages, page, i, pc, thinning, detected, scanned, cut>>
      PROVE  LinesSavedInv'
  <2>1. /\ function' = function /\ pages' = pages /\ page' = page /\ pc' = pc
        /\ ymin' = ymin /\ ymax' = ymax /\ line_no' = line_no /\ lines' = lines
    BY <1>3 DEF cut
  <2>2. L!TypeOK' = L!TypeOK /\ L!LinesNumbered' = L!LinesNumbered /\ L!Readable' = L!Readable
    BY <2>1 DEF L!TypeOK, L!LinesNumbered, L!Readable, L!height, L!proj
  <2>3. \A k : SavedOf(k)' = SavedOf(k) /\ L!LinesOf(k)' = L!LinesOf(k)
    BY <2>1 DEF SavedOf, L!LinesOf, L!CutsOf, L!Row, L!Above
  <2>4. Nearest(page, ymax, ymin)' = Nearest(page, ymax, ymin)
    BY <2>1 DEF Nearest, L!Above, L!Row
  <2>5. LineInv' = LineInv
    BY <2>1, <2>2, <2>3, <2>4 DEF LineInv
  <2> QED
    BY <1>3, <2>1, <2>5 DEF LinesSavedInv
<1> QED
  BY <1>1, <1>2, <1>3

(* extract_line: whatever the pages, the files saved are exactly their     *)
(* lines, numbered without a hole from page to page and from top to        *)
(* bottom, and a row with ink is lost only in the tail of a page, before a *)
(* clean gap, or in a line that is too low.                                *)
THEOREM LinesSavedHolds == Spec => []LinesSaved
<1>1. LinesSavedInv => LinesSaved
  <2>1. LineInv => L!LinesExact
    BY DEF LineInv, L!LinesExact, SavedOf
  <2>2. LineInv => L!TypeOK /\ L!LinesNumbered /\ L!OnlyTailsLost
    BY LineTails DEF LineInv
  <2> QED
    BY <2>1, <2>2 DEF LinesSavedInv, LinesSaved
<1> QED
  BY <1>1, LinesSavedInductive, PTL DEF Spec

-----------------------------------------------------------------------------
(* HorizontalScan. *)

LEMMA ColumnTypes ==
  ASSUME column \in Columns
  PROVE  /\ Height \in Nat /\ S!ink \subseteq 0 .. Height - 1
         /\ column.lines \in Seq(0 .. Height - 1) /\ Len(column.lines) \in Nat
         /\ column.searh_h \in Nat /\ column.avg_staff_space \in Nat
         /\ column.line_min_width \in Nat /\ column.line_max_width \in Nat
         /\ \A k \in DOMAIN column.lines : column.lines[k] \in 0 .. Height - 1
<1>1. Height \in Nat /\ Columns \subseteq
        [ink : SUBSET S!Row, lines : Seq(S!Row), searh_h : Nat,
         line_min_width : Nat, line_max_width : Nat, avg_staff_space : Nat]
  BY PreprocessingAssumption DEF S!Inputs
<1>2. /\ column.ink \in SUBSET S!Row /\ column.lines \in Seq(S!Row)
      /\ column.searh_h \in Nat /\ column.avg_staff_space \in Nat
      /\ column.line_min_width \in Nat /\ column.line_max_width \in Nat
  BY <1>1
<1> QED
  BY <1>1, <1>2 DEF S!ink, S!Row

(* Down is where the scan below row r stops. *)
LEMMA DownIs ==
  ASSUME column \in Columns, NEW r \in S!ink
  PROVE  /\ S!Down(r) \in r .. Height /\ S!Down(r) <= r + column.avg_staff_space
         /\ r .. S!Down(r) - 1 \subseteq S!ink
         /\ S!Down(r) = Height \/ S!Down(r) = r + column.avg_staff_space \/ S!Down(r) \notin S!ink
<1> DEFINE far == r + column.avg_staff_space
           Stop(d) == d = Height \/ d >= far \/ d \notin S!ink
           N == {d \in r .. Height : Stop(d)}
           Good(d) == r .. d - 1 \subseteq S!ink /\ (\A s \in r .. d - 1 : s < far) /\ Stop(d)
<1>1. r \in 0 .. Height - 1 /\ Height \in Nat /\ far \in Nat
  BY ColumnTypes
<1>2. Height \in N /\ N \in SUBSET Nat
  BY <1>1
<1>3. PICK d \in N : \A e \in N : d <= e
  BY <1>2, LeastNat
<1>4. d \in r .. Height /\ Good(d)
  <2>1. \A s \in r .. d - 1 : s \in r .. Height /\ s \notin N
    BY <1>1, <1>3
  <2>2. \A s \in r .. d - 1 : s < far /\ s \in S!ink
    BY <1>1, <1>3, <2>1
  <2> QED
    BY <1>3, <2>2
<1> DEFINE x == S!Down(r)
<1>5. x = CHOOSE e \in r .. Height : Good(e)
  BY DEF S!Down
<1>6. x \in r .. Height /\ Good(x)
  BY <1>4, <1>5
<1> HIDE DEF x
<1>7. x <= far
  <2>1. CASE x = r
    BY <1>1, <2>1, ColumnTypes
  <2>2. CASE x # r
    <3>1. x - 1 \in r .. x - 1
      BY <1>1, <1>6, <2>2
    <3> QED
      BY <1>1, <1>6, <3>1
  <2> QED
    BY <2>1, <2>2
<1>8. x = Height \/ x = far \/ x \notin S!ink
  BY <1>1, <1>6, <1>7
<1> QED
  BY <1>6, <1>7, <1>8 DEF x

LEMMA UpIs ==
  ASSUME column \in Columns, NEW r \in S!ink
  PROVE  /\ S!Up(r) \in 0 .. r /\ S!Up(r) >= r - column.avg_staff_space
         /\ S!Up(r) + 1 .. r \subseteq S!ink
         /\ S!Up(r) = 0 \/ S!Up(r) = r - column.avg_staff_space \/ S!Up(r) \notin S!ink
<1> DEFINE far == r - column.avg_staff_space
           Stop(d) == d = 0 \/ d <= far \/ d \notin S!ink
           N == {d \in 0 .. r : Stop(d)}
           Good(d) == d + 1 .. r \subseteq S!ink /\ (\A s \in d + 1 .. r : s > far) /\ Stop(d)
<1>1. r \in 0 .. Height - 1 /\ r \in Nat /\ Height \in Nat /\ far \in Int
  BY ColumnTypes
<1>2. 0 \in N /\ N \in SUBSET (0 .. r)
  BY <1>1
<1>3. PICK d \in N : \A e \in N : e <= d
  BY <1>1, <1>2, GreatestNat
<1>4. d \in 0 .. r /\ Good(d)
  <2>1. \A s \in d + 1 .. r : s \in 0 .. r /\ s \notin N
    BY <1>1, <1>3
  <2>2. \A s \in d + 1 .. r : s > far /\ s \in S!ink
    BY <1>1, <1>3, <2>1
  <2> QED
    BY <1>3, <2>2
<1> DEFINE x == S!Up(r)
<1>5. x = CHOOSE e \in 0 .. r : Good(e)
  BY DEF S!Up
<1>6. x \in 0 .. r /\ Good(x)
  BY <1>4, <1>5
<1> HIDE DEF x
<1>7. x >= far
  <2>1. CASE x = r
    BY <1>1, <2>1, ColumnTypes
  <2>2. CASE x # r
    <3>1. x + 1 \in x + 1 .. r
      BY <1>1, <1>6, <2>2
    <3> QED
      BY <1>1, <1>6, <3>1
  <2> QED
    BY <2>1, <2>2
<1>8. x = 0 \/ x = far \/ x \notin S!ink
  BY <1>1, <1>6, <1>7
<1> QED
  BY <1>6, <1>7, <1>8 DEF x

(* A row of ink is on a run. *)
LEMMA RunAt ==
  ASSUME column \in Columns, S!Inside, NEW r \in S!ink
  PROVE  \E g \in S!Runs : g[1] <= r /\ r <= g[2]
<1>1. r \in 0 .. Height - 1 /\ r \in Nat /\ Height \in Nat /\ S!ink \subseteq 0 .. Height - 1
  BY ColumnTypes
<1> DEFINE N == {d \in 0 .. r : d \notin S!ink}
           B == {d \in Nat : d > r /\ d \notin S!ink}
<1>2. 0 \in N /\ N \in SUBSET (0 .. r) /\ Height \in B /\ B \in SUBSET Nat
  BY <1>1 DEF S!Inside
<1>3. PICK a \in N : \A e \in N : e <= a
  <2> HIDE DEF N
  <2> QED
    BY <1>1, <1>2, GreatestNat
<1>4. PICK b \in B : \A e \in B : b <= e
  BY <1>2, LeastNat
<1>5. a \in 0 .. r /\ a # r /\ a \notin S!ink /\ \A d \in a + 1 .. r : d \in S!ink
  BY <1>1, <1>3
<1>6. b \in Nat /\ b > r /\ b \notin S!ink /\ \A d \in r .. b - 1 : d \in S!ink
  BY <1>1, <1>4
<1>7. b - 1 \in S!ink
  BY <1>1, <1>6
<1>8. a + 1 \in 0 .. Height - 1 /\ b - 1 \in 0 .. Height - 1 /\ a + 1 <= r /\ r <= b - 1
  BY <1>1, <1>5, <1>6, <1>7
<1>9. a + 1 .. b - 1 \subseteq S!ink /\ a + 1 - 1 \notin S!ink /\ b - 1 + 1 \notin S!ink
  <2>1. ASSUME NEW d \in a + 1 .. b - 1 PROVE d \in S!ink
    <3>1. d \in a + 1 .. r \/ d \in r .. b - 1
      BY <1>1, <1>5, <1>6
    <3> QED
      BY <1>5, <1>6, <3>1
  <2>2. a + 1 - 1 = a /\ b - 1 + 1 = b
    BY <1>1, <1>5, <1>6
  <2> QED
    BY <1>5, <1>6, <2>1, <2>2
<1> DEFINE g == <<a + 1, b - 1>>
<1>10. g \in S!Row \X S!Row /\ g[1] = a + 1 /\ g[2] = b - 1
  BY <1>8 DEF S!Row
<1> HIDE DEF g
<1>11. g[1] <= g[2]
  BY <1>1, <1>5, <1>6, <1>8, <1>10
<1>12. g[1] .. g[2] \subseteq S!ink /\ g[1] - 1 \notin S!ink /\ g[2] + 1 \notin S!ink
  BY <1>9, <1>10
<1>13. g \in S!Runs
  BY <1>10, <1>11, <1>12 DEF S!Runs
<1> QED
  BY <1>8, <1>10, <1>13

LEMMA RunIs ==
  ASSUME column \in Columns, NEW g \in S!Runs
  PROVE  /\ g[1] \in 0 .. Height - 1 /\ g[2] \in 0 .. Height - 1 /\ g[1] <= g[2] /\ g = <<g[1], g[2]>>
         /\ g[1] \in S!ink /\ g[2] \in S!ink /\ g[1] - 1 \notin S!ink /\ g[2] + 1 \notin S!ink
         /\ \A s \in Int : (g[1] <= s /\ s <= g[2]) => s \in S!ink
<1>1. /\ g \in S!Row \X S!Row /\ g[1] <= g[2] /\ g[1] .. g[2] \subseteq S!ink
      /\ g[1] - 1 \notin S!ink /\ g[2] + 1 \notin S!ink
  BY DEF S!Runs
<1>2. g[1] \in 0 .. Height - 1 /\ g[2] \in 0 .. Height - 1 /\ g = <<g[1], g[2]>>
  BY <1>1 DEF S!Row
<1>3. Height \in Nat /\ g[1] \in Int /\ g[2] \in Int
  BY <1>2, ColumnTypes
<1>4. \A s \in Int : (g[1] <= s /\ s <= g[2]) => s \in g[1] .. g[2]
  BY <1>3
<1>5. \A s \in Int : (g[1] <= s /\ s <= g[2]) => s \in S!ink
  BY <1>1, <1>4
<1>6. g[1] \in S!ink /\ g[2] \in S!ink
  BY <1>1, <1>3, <1>5
<1> QED
  BY <1>1, <1>2, <1>5, <1>6

(* Two runs that share a row are the same. *)
LEMMA OneRun ==
  ASSUME column \in Columns, NEW g \in S!Runs, NEW f \in S!Runs, NEW r \in Int,
         g[1] <= r, r <= g[2], f[1] <= r, r <= f[2]
  PROVE  f = g
<1>1. /\ g[1] \in Int /\ g[2] \in Int /\ f[1] \in Int /\ f[2] \in Int
  BY RunIs, ColumnTypes
<1>2. f[1] = g[1]
  <2>1. ~(f[1] < g[1])
    <3>1. f[1] < g[1] => f[1] <= g[1] - 1 /\ g[1] - 1 <= f[2]
      BY <1>1
    <3> QED
      BY <1>1, <3>1, RunIs
  <2>2. ~(g[1] < f[1])
    <3>1. g[1] < f[1] => g[1] <= f[1] - 1 /\ f[1] - 1 <= g[2]
      BY <1>1
    <3> QED
      BY <1>1, <3>1, RunIs
  <2> QED
    BY <1>1, <2>1, <2>2
<1>3. f[2] = g[2]
  <2>1. ~(f[2] < g[2])
    <3>1. f[2] < g[2] => g[1] <= f[2] + 1 /\ f[2] + 1 <= g[2]
      BY <1>1
    <3> QED
      BY <1>1, <3>1, RunIs
  <2>2. ~(g[2] < f[2])
    <3>1. g[2] < f[2] => f[1] <= g[2] + 1 /\ g[2] + 1 <= f[2]
      BY <1>1
    <3> QED
      BY <1>1, <3>1, RunIs
  <2> QED
    BY <1>1, <2>1, <2>2
<1> QED
  BY <1>2, <1>3, RunIs

Wide(g) == g[2] - g[1] + 1

IsThin(g) == Wide(g) < column.line_max_width /\ Wide(g) >= column.line_min_width

(* Where a staff space is not less than a line may be wide, ThinAt tells   *)
(* whether the run is thin, and if it is Up and Down are its neighbours.   *)
LEMMA ThinIs ==
  ASSUME column \in Columns, S!Inside, column.avg_staff_space >= column.line_max_width,
         NEW g \in S!Runs, NEW r \in S!ink, g[1] <= r, r <= g[2]
  PROVE  /\ S!ThinAt(r) <=> IsThin(g)
         /\ IsThin(g) => S!Up(r) = g[1] - 1 /\ S!Down(r) = g[2] + 1
<1> DEFINE up == S!Up(r)
           down == S!Down(r)
           space == column.avg_staff_space
           low == column.line_min_width
           high == column.line_max_width
           a == g[1]
           b == g[2]
<1>1. /\ Height \in Nat /\ r \in 0 .. Height - 1 /\ space \in Nat /\ low \in Nat /\ high \in Nat
      /\ space >= high /\ r \in Int
  BY ColumnTypes
<1>2. /\ a \in 0 .. Height - 1 /\ b \in 0 .. Height - 1 /\ a <= r /\ r <= b
      /\ a \in S!ink /\ b \in S!ink /\ a - 1 \notin S!ink /\ b + 1 \notin S!ink
      /\ \A s \in Int : (a <= s /\ s <= b) => s \in S!ink
  BY RunIs
<1>3. a # 0 /\ b # Height - 1
  BY <1>2 DEF S!Inside
<1>4. /\ down \in r .. Height /\ down <= r + space /\ r .. down - 1 \subseteq S!ink
      /\ down = Height \/ down = r + space \/ down \notin S!ink
  BY DownIs
<1>5. /\ up \in 0 .. r /\ up >= r - space /\ up + 1 .. r \subseteq S!ink
      /\ up = 0 \/ up = r - space \/ up \notin S!ink
  BY UpIs
<1>6. S!ThinAt(r) <=> down - up - 1 < high /\ down - up - 1 >= low
  BY DEF S!ThinAt
<1>7. IsThin(g) <=> b - a + 1 < high /\ b - a + 1 >= low
  BY DEF IsThin, Wide
<1> HIDE DEF up, down, space, low, high, a, b
<1>8. down <= b + 1
  <2>1. b + 1 \in r .. down - 1 => FALSE
    BY <1>2, <1>4
  <2> QED
    BY <1>1, <1>2, <1>4, <2>1
<1>9. up >= a - 1
  <2>1. a - 1 \in up + 1 .. r => FALSE
    BY <1>2, <1>5
  <2> QED
    BY <1>1, <1>2, <1>5, <2>1
<1>10. down = b + 1 \/ down = r + space
  <2>1. down <= b => down \in S!ink /\ down # Height
    BY <1>1, <1>2, <1>4
  <2> QED
    BY <1>1, <1>2, <1>4, <1>8, <2>1
<1>11. up = a - 1 \/ up = r - space
  <2>1. up >= a => up \in S!ink /\ up # 0
    BY <1>1, <1>2, <1>3, <1>5
  <2> QED
    BY <1>1, <1>2, <1>5, <1>9, <2>1
<1>12. b - a + 1 < high => up = a - 1 /\ down = b + 1
  BY <1>1, <1>2, <1>8, <1>9, <1>10, <1>11
<1>13. (down - up - 1 < high /\ down - up - 1 >= low) => up = a - 1 /\ down = b + 1
  BY <1>1, <1>2, <1>4, <1>5, <1>8, <1>9, <1>10, <1>11
<1>14. (down - up - 1 < high /\ down - up - 1 >= low) <=> (b - a + 1 < high /\ b - a + 1 >= low)
  BY <1>1, <1>2, <1>4, <1>5, <1>12, <1>13
<1> QED
  BY <1>6, <1>7, <1>12, <1>14 DEF up, down, a, b

(* Which row the scan looks at. *)
LEMMA NearestIs ==
  ASSUME column \in Columns, NEW p \in 0 .. Height - 1, p \notin S!ink
  PROVE  \/ /\ S!Nearest(p) = p
            /\ \A d \in 1 .. column.searh_h : ~S!Below(p, d) /\ ~S!Above(p, d)
         \/ \E d \in 1 .. column.searh_h :
              /\ \A c \in 1 .. column.searh_h : c < d => ~S!Below(p, c) /\ ~S!Above(p, c)
              /\ S!Below(p, d) \/ S!Above(p, d)
              /\ S!Nearest(p) = IF S!Below(p, d) THEN p + d ELSE p - d
<1> DEFINE N == {d \in 1 .. column.searh_h : S!Below(p, d) \/ S!Above(p, d)}
           d0 == CHOOSE c \in N : \A b \in N : c <= b
<1>1. S!Nearest(p) = IF N = {} THEN p ELSE IF S!Below(p, d0) THEN p + d0 ELSE p - d0
  BY DEF S!Nearest
<1>2. column.searh_h \in Nat
  BY ColumnTypes
<1>3. CASE N = {}
  BY <1>1, <1>3
<1>4. CASE N # {}
  <2>1. N \in SUBSET Nat
    BY <1>2
  <2>2. \E c \in N : \A b \in N : c <= b
    BY <1>4, <2>1, LeastNat
  <2>3. d0 \in N /\ \A b \in N : d0 <= b
    BY <2>2
  <2>4. S!Nearest(p) = IF S!Below(p, d0) THEN p + d0 ELSE p - d0
    BY <1>1, <1>4
  <2> HIDE DEF d0
  <2>5. d0 \in 1 .. column.searh_h /\ (S!Below(p, d0) \/ S!Above(p, d0))
    BY <2>3
  <2>6. ASSUME NEW c \in 1 .. column.searh_h, c < d0 PROVE ~S!Below(p, c) /\ ~S!Above(p, c)
    <3>1. c \notin N
      BY <1>2, <2>3, <2>5, <2>6
    <3> QED
      BY <3>1
  <2> QED
    BY <2>4, <2>5, <2>6
<1> QED
  BY <1>3, <1>4

LEMMA DistanceIs ==
  ASSUME column \in Columns, NEW g \in S!Runs, NEW p \in 0 .. Height - 1
  PROVE  /\ S!Distance(p, g) \in Nat
         /\ g[1] <= p /\ p <= g[2] => S!Distance(p, g) = 0
         /\ p < g[1] => S!Distance(p, g) = g[1] - p
         /\ p > g[2] => S!Distance(p, g) = p - g[2]
         /\ \/ S!Distance(p, g) = 0 /\ g[1] <= p /\ p <= g[2]
            \/ S!Distance(p, g) > 0 /\ p + S!Distance(p, g) = g[1]
            \/ S!Distance(p, g) > 0 /\ p - S!Distance(p, g) = g[2]
<1>1. g[1] \in Int /\ g[2] \in Int /\ g[1] <= g[2] /\ p \in Int
  BY RunIs, ColumnTypes
<1> QED
  BY <1>1 DEF S!Distance

LEMMA InkBeside ==
  ASSUME column \in Columns, S!Inside, NEW p \in 0 .. Height - 1, NEW d \in Nat
  PROVE  (S!Below(p, d) <=> p + d \in S!ink) /\ (S!Above(p, d) <=> p - d \in S!ink)
<1>1. /\ Height \in Nat /\ p \in Int
      /\ \A s \in S!ink : s \in 0 .. Height - 1 /\ s # 0 /\ s # Height - 1
  BY ColumnTypes DEF S!Inside
<1>2. \A s \in S!ink : s < Height - 1 /\ s > 0
  BY <1>1
<1> QED
  BY <1>2 DEF S!Below, S!Above

LEMMA StandsOnce ==
  ASSUME column \in Columns, NEW p \in 0 .. Height - 1, NEW f \in S!Runs, NEW g \in S!Runs,
         S!Stands(p, f), S!Stands(p, g)
  PROVE  f = g
<1>1. /\ f[1] \in Int /\ g[1] \in Int /\ f[1] <= f[2] /\ g[1] <= g[2]
      /\ S!Distance(p, f) \in Nat /\ S!Distance(p, g) \in Nat
  BY RunIs, DistanceIs, ColumnTypes
<1>2. /\ S!Distance(p, f) < S!Distance(p, g) \/ (S!Distance(p, f) = S!Distance(p, g) /\ f[1] >= g[1])
      /\ S!Distance(p, g) < S!Distance(p, f) \/ (S!Distance(p, g) = S!Distance(p, f) /\ g[1] >= f[1])
  BY DEF S!Stands
<1>3. f[1] = g[1]
  BY <1>1, <1>2
<1> QED
  BY <1>1, <1>3, OneRun

(* The scan looks at a row of the run a line stands for, if there is one. *)
LEMMA SomeStands ==
  ASSUME column \in Columns, S!Inside, NEW p \in 0 .. Height - 1,
         S!Nearest(p) \in S!ink \/ \E g \in S!Runs : S!Stands(p, g)
  PROVE  /\ S!Nearest(p) \in S!ink
         /\ \E f \in S!Runs : S!Stands(p, f) /\ f[1] <= S!Nearest(p) /\ S!Nearest(p) <= f[2]
<1>1. /\ Height \in Nat /\ p \in Int /\ S!ink \subseteq 0 .. Height - 1 /\ S!ink \subseteq Int
      /\ column.searh_h \in Nat
  BY ColumnTypes
<1>2. CASE p \in S!ink
  <2>1. S!Nearest(p) = p
    BY <1>2 DEF S!Nearest
  <2>2. PICK f \in S!Runs : f[1] <= p /\ p <= f[2]
    BY <1>2, RunAt
  <2>3. S!Distance(p, f) = 0
    BY <2>2, DistanceIs
  <2>4. ASSUME NEW h \in S!Runs
        PROVE  S!Distance(p, f) < S!Distance(p, h) \/ (S!Distance(p, f) = S!Distance(p, h) /\ f[1] >= h[1])
    <3>1. CASE S!Distance(p, h) = 0
      <4>1. h[1] <= p /\ p <= h[2]
        BY <3>1, DistanceIs
      <4>2. h = f
        BY <1>1, <2>2, <4>1, OneRun
      <4>3. f[1] \in Int
        BY RunIs, ColumnTypes
      <4> QED
        BY <4>2, <4>3
    <3>2. CASE S!Distance(p, h) # 0
      BY <2>3, <3>2, DistanceIs
    <3> QED
      BY <3>1, <3>2
  <2>5. S!Stands(p, f)
    BY <1>1, <2>3, <2>4 DEF S!Stands
  <2> QED
    BY <1>2, <2>1, <2>2, <2>5
<1>3. CASE p \notin S!ink
  <2> DEFINE H == column.searh_h
             Ink(d) == p + d \in S!ink \/ p - d \in S!ink
  <2>1. \A d \in 1 .. H : (S!Below(p, d) <=> p + d \in S!ink) /\ (S!Above(p, d) <=> p - d \in S!ink)
    BY <1>1, InkBeside
  <2>2. ASSUME NEW h \in S!Runs
        PROVE  S!Distance(p, h) \in Nat /\ S!Distance(p, h) > 0 /\ Ink(S!Distance(p, h))
    <3>1. ~(h[1] <= p /\ p <= h[2])
      BY <1>1, <1>3, RunIs
    <3> QED
      BY <3>1, DistanceIs, RunIs
  <2>3. CASE S!Nearest(p) = p /\ \A d \in 1 .. H : ~S!Below(p, d) /\ ~S!Above(p, d)
    <3>1. PICK g \in S!Runs : S!Stands(p, g)
      BY <1>3, <2>3
    <3>2. S!Distance(p, g) \in 1 .. H
      BY <1>1, <2>2, <3>1 DEF S!Stands
    <3> QED
      BY <2>1, <2>2, <2>3, <3>2
  <2>4. CASE \E d \in 1 .. H :
               /\ \A c \in 1 .. H : c < d => ~S!Below(p, c) /\ ~S!Above(p, c)
               /\ S!Below(p, d) \/ S!Above(p, d)
               /\ S!Nearest(p) = IF S!Below(p, d) THEN p + d ELSE p - d
    <3>1. PICK d \in 1 .. H :
               /\ \A c \in 1 .. H : c < d => ~S!Below(p, c) /\ ~S!Above(p, c)
               /\ S!Below(p, d) \/ S!Above(p, d)
               /\ S!Nearest(p) = IF S!Below(p, d) THEN p + d ELSE p - d
      BY <2>4
    <3>2. d \in Nat /\ d > 0 /\ d <= H /\ \A c \in 1 .. H : c < d => ~Ink(c)
      BY <1>1, <2>1, <3>1
    <3>3. \/ S!Nearest(p) = p + d /\ p + d \in S!ink
          \/ S!Nearest(p) = p - d /\ p - d \in S!ink /\ p + d \notin S!ink
      BY <2>1, <3>1
    <3>4. PICK f \in S!Runs : f[1] <= S!Nearest(p) /\ S!Nearest(p) <= f[2]
      BY <3>3, RunAt
    <3>5. \A h \in S!Runs : S!Distance(p, h) \in Nat /\ S!Distance(p, h) >= d
      BY <1>1, <2>2, <3>2
    <3>6. f[1] \in Int /\ f[2] \in Int /\ f[1] <= f[2] /\ ~(f[1] <= p /\ p <= f[2])
      BY <1>1, <1>3, RunIs
    <3>7. S!Distance(p, f) = d /\ (p + d \in S!ink => f[1] = p + d) /\ (p + d \notin S!ink => f[2] = p - d)
      <4>1. CASE S!Nearest(p) = p + d /\ p + d \in S!ink
        <5>1. f[1] > p /\ f[1] <= p + d
          BY <1>1, <3>2, <3>4, <3>6, <4>1
        <5>2. S!Distance(p, f) = f[1] - p
          BY <1>1, <3>6, <5>1, DistanceIs
        <5>3. f[1] - p >= d
          BY <3>5, <5>2
        <5> QED
          BY <1>1, <3>2, <3>6, <4>1, <5>1, <5>2, <5>3
      <4>2. CASE S!Nearest(p) = p - d /\ p - d \in S!ink /\ p + d \notin S!ink
        <5>1. f[2] < p /\ f[2] >= p - d
          BY <1>1, <3>2, <3>4, <3>6, <4>2
        <5>2. S!Distance(p, f) = p - f[2]
          BY <1>1, <3>6, <5>1, DistanceIs
        <5>3. p - f[2] >= d
          BY <3>5, <5>2
        <5> QED
          BY <1>1, <3>2, <3>6, <4>2, <5>1, <5>2, <5>3
      <4> QED
        BY <3>3, <4>1, <4>2
    <3>8. ASSUME NEW h \in S!Runs
          PROVE  S!Distance(p, f) < S!Distance(p, h) \/ (S!Distance(p, f) = S!Distance(p, h) /\ f[1] >= h[1])
      <4>1. h[1] \in Int /\ h[2] \in Int /\ h[1] <= h[2] /\ h[1] \in S!ink /\ h[2] \in S!ink
        BY RunIs, ColumnTypes
      <4>2. CASE S!Distance(p, h) # d
        BY <3>2, <3>5, <3>7, <4>2
      <4>3. CASE S!Distance(p, h) = d
        <5>1. p + d = h[1] \/ p - d = h[2]
          BY <3>2, <4>3, DistanceIs
        <5>2. CASE p + d \in S!ink
          BY <1>1, <3>2, <3>7, <4>1, <4>3, <5>1, <5>2
        <5>3. CASE p + d \notin S!ink
          <6>1. p - d = h[2] /\ f[2] = p - d
            BY <3>7, <4>1, <5>1, <5>3
          <6>2. h = f
            BY <1>1, <3>2, <3>6, <4>1, <6>1, OneRun
          <6> QED
            BY <3>6, <6>2
        <5> QED
          BY <5>2, <5>3
      <4> QED
        BY <4>2, <4>3
    <3>9. S!Stands(p, f)
      BY <3>2, <3>7, <3>8 DEF S!Stands
    <3> QED
      BY <3>3, <3>4, <3>9
  <2> QED
    BY <1>3, <2>3, <2>4, NearestIs
<1> QED
  BY <1>2, <1>3

LEMMA StandsAtNearest ==
  ASSUME column \in Columns, S!Inside, NEW p \in 0 .. Height - 1, NEW g \in S!Runs
  PROVE  S!Stands(p, g) <=> (S!Nearest(p) \in S!ink /\ g[1] <= S!Nearest(p) /\ S!Nearest(p) <= g[2])
<1>1. ASSUME S!Stands(p, g) PROVE S!Nearest(p) \in S!ink /\ g[1] <= S!Nearest(p) /\ S!Nearest(p) <= g[2]
  BY <1>1, SomeStands, StandsOnce
<1>2. ASSUME S!Nearest(p) \in S!ink, g[1] <= S!Nearest(p), S!Nearest(p) <= g[2] PROVE S!Stands(p, g)
  <2>1. PICK f \in S!Runs : S!Stands(p, f) /\ f[1] <= S!Nearest(p) /\ S!Nearest(p) <= f[2]
    BY <1>2, SomeStands
  <2>2. S!Nearest(p) \in Int
    BY <1>2, ColumnTypes
  <2>3. f = g
    BY <1>2, <2>1, <2>2, OneRun
  <2> QED
    BY <2>1, <2>3
<1> QED
  BY <1>1, <1>2

(* The row looked at is within the range of the line. *)
LEMMA NearestNear ==
  ASSUME column \in Columns, NEW p \in 0 .. Height - 1, S!Nearest(p) \in S!ink
  PROVE  S!Nearest(p) \in Int /\ p - column.searh_h <= S!Nearest(p) /\ S!Nearest(p) <= p + column.searh_h
<1>1. column.searh_h \in Nat /\ p \in Int /\ S!Nearest(p) \in Int
  BY ColumnTypes
<1>2. CASE p \in S!ink
  <2>1. S!Nearest(p) = p
    BY <1>2 DEF S!Nearest
  <2> QED
    BY <1>1, <2>1
<1>3. CASE p \notin S!ink
  <2>1. \E d \in 1 .. column.searh_h : S!Nearest(p) = p + d \/ S!Nearest(p) = p - d
    BY <1>3, NearestIs
  <2> QED
    BY <1>1, <2>1
<1> QED
  BY <1>2, <1>3

(* The rows that the scan of line k marks. *)
MarkedBy(k) ==
  {r \in S!Row : LET m == S!Nearest(column.lines[k])
                 IN  m \in S!ink /\ S!ThinAt(m) /\ S!Up(m) <= r /\ r <= S!Down(m)}

ScanInv ==
  /\ column \in Columns
  /\ n \in 1 .. Len(column.lines) + 1
  /\ copy \subseteq S!Row
  /\ pc \in {"scan", "remove", "done"}
  /\ lined = UNION {MarkedBy(k) : k \in 1 .. n - 1}
  /\ pc # "scan" => n = Len(column.lines) + 1
  /\ pc = "done" => copy = S!ink \ (lined \cap (2 .. Height - 3))

LEMMA MarkedKept ==
  ASSUME column' = column
  PROVE  S!ink' = S!ink /\ \A k : MarkedBy(k)' = MarkedBy(k)
<1>1. S!ink' = S!ink
  BY DEF S!ink
<1>2. \A k : MarkedBy(k)' = MarkedBy(k)
  BY <1>1 DEF MarkedBy, S!Nearest, S!ThinAt, S!Up, S!Down, S!Below, S!Above
<1> QED
  BY <1>1, <1>2

LEMMA ScanInit == ASSUME S!Init PROVE ScanInv
<1>1. column \in Columns /\ lined = {} /\ n = 1 /\ copy = column.ink /\ pc = "scan"
  BY DEF S!Init
<1>2. n \in 1 .. Len(column.lines) + 1 /\ 1 .. n - 1 = {} /\ copy \subseteq S!Row
  BY <1>1, ColumnTypes DEF S!ink, S!Row
<1>3. UNION {MarkedBy(k) : k \in 1 .. n - 1} = {}
  BY <1>2
<1> QED
  BY <1>1, <1>2, <1>3 DEF ScanInv

LEMMA ScanOfLine == ASSUME ScanInv, S!ScanLine PROVE ScanInv'
<1> DEFINE m == S!Nearest(column.lines[n])
<1>1. /\ pc = "scan" /\ n <= Len(column.lines) /\ n' = n + 1
      /\ column' = column /\ copy' = copy /\ pc' = pc
      /\ lined' = IF m \in S!ink /\ S!ThinAt(m) THEN lined \cup ((S!Up(m) .. S!Down(m)) \cap S!Row) ELSE lined
  BY DEF S!ScanLine
<1>2. Len(column.lines) \in Nat /\ n \in Nat /\ n' \in 1 .. Len(column.lines) + 1 /\ n \in DOMAIN column.lines
  BY <1>1, ColumnTypes DEF ScanInv
<1>3. lined' = lined \cup MarkedBy(n)
  <2>1. CASE m \in S!ink /\ S!ThinAt(m)
    <3>1. S!Up(m) \in Int /\ S!Down(m) \in Int
      BY <2>1, UpIs, DownIs, ColumnTypes DEF ScanInv
    <3>2. MarkedBy(n) = (S!Up(m) .. S!Down(m)) \cap S!Row
      BY <2>1, <3>1, ColumnTypes DEF MarkedBy, S!Row, ScanInv
    <3> QED
      BY <1>1, <2>1, <3>2
  <2>2. CASE ~(m \in S!ink /\ S!ThinAt(m))
    <3>1. MarkedBy(n) = {}
      BY <2>2 DEF MarkedBy
    <3> QED
      BY <1>1, <2>2, <3>1
  <2> QED
    BY <2>1, <2>2
<1>4. 1 .. n' - 1 = (1 .. n - 1) \cup {n}
  BY <1>1, <1>2 DEF ScanInv
<1>5. \A k : MarkedBy(k)' = MarkedBy(k)
  BY <1>1, MarkedKept
<1>6. lined' = UNION {MarkedBy(k) : k \in 1 .. n' - 1}
  BY <1>3, <1>4 DEF ScanInv
<1>7. lined' = (UNION {MarkedBy(k) : k \in 1 .. n - 1})'
  BY <1>5, <1>6
<1> QED
  BY <1>1, <1>2, <1>7 DEF ScanInv

LEMMA ScanKept ==
  ASSUME ScanInv, column' = column, lined' = lined, n' = n
  PROVE  lined' = (UNION {MarkedBy(k) : k \in 1 .. n - 1})' /\ S!ink' = S!ink
BY MarkedKept DEF ScanInv

LEMMA ScanEnd == ASSUME ScanInv, S!EndLines \/ S!Remove PROVE ScanInv'
<1>1. column' = column /\ lined' = lined /\ n' = n
  BY DEF S!EndLines, S!Remove
<1>2. lined' = (UNION {MarkedBy(k) : k \in 1 .. n - 1})' /\ S!ink' = S!ink
  BY <1>1, ScanKept
<1>3. CASE S!EndLines
  <2>1. pc = "scan" /\ n > Len(column.lines) /\ pc' = "remove" /\ copy' = copy
    BY <1>3 DEF S!EndLines
  <2>2. Len(column.lines) \in Nat /\ n \in 1 .. Len(column.lines) + 1
    BY ColumnTypes DEF ScanInv
  <2>3. n = Len(column.lines) + 1
    BY <2>1, <2>2
  <2> QED
    BY <1>1, <1>2, <2>1, <2>2, <2>3 DEF ScanInv
<1>4. CASE S!Remove
  <2>1. pc = "remove" /\ pc' = "done" /\ copy' = S!ink \ (lined \cap (2 .. Height - 3))
    BY <1>4 DEF S!Remove
  <2>2. copy' \subseteq S!Row
    BY <2>1, ColumnTypes DEF ScanInv, S!Row
  <2> QED
    BY <1>1, <1>2, <2>1, <2>2 DEF ScanInv
<1> QED
  BY <1>3, <1>4

(* What is marked of the ink: the thin runs that lines stand for. *)
LEMMA MarkedIs ==
  ASSUME column \in Columns, S!Inside, column.avg_staff_space >= column.line_max_width,
         NEW k \in DOMAIN column.lines, NEW r \in S!ink
  PROVE  r \in MarkedBy(k) <=>
           \E g \in S!Runs : g[1] <= r /\ r <= g[2] /\ S!Stands(column.lines[k], g) /\ IsThin(g)
<1> DEFINE p == column.lines[k]
           m == S!Nearest(p)
<1>1. p \in 0 .. Height - 1 /\ S!ink \subseteq Int /\ r \in Int /\ r \in S!Row
  BY ColumnTypes DEF S!Row
<1>2. r \in MarkedBy(k) <=> m \in S!ink /\ S!ThinAt(m) /\ S!Up(m) <= r /\ r <= S!Down(m)
  BY <1>1 DEF MarkedBy
<1>3. ASSUME NEW g \in S!Runs, m \in S!ink, g[1] <= m, m <= g[2], IsThin(g)
      PROVE  (S!Up(m) <= r /\ r <= S!Down(m)) <=> (g[1] <= r /\ r <= g[2])
  <2>1. S!Up(m) = g[1] - 1 /\ S!Down(m) = g[2] + 1
    BY <1>3, ThinIs
  <2>2. g[1] \in Int /\ g[2] \in Int /\ r # g[1] - 1 /\ r # g[2] + 1
    BY RunIs, ColumnTypes
  <2> QED
    BY <1>1, <2>1, <2>2
<1>4. ASSUME r \in MarkedBy(k)
      PROVE  \E g \in S!Runs : g[1] <= r /\ r <= g[2] /\ S!Stands(p, g) /\ IsThin(g)
  <2>1. m \in S!ink /\ S!ThinAt(m) /\ S!Up(m) <= r /\ r <= S!Down(m)
    BY <1>2, <1>4
  <2>2. PICK g \in S!Runs : g[1] <= m /\ m <= g[2]
    BY <2>1, RunAt
  <2>3. IsThin(g)
    BY <2>1, <2>2, ThinIs
  <2>4. S!Stands(p, g)
    BY <1>1, <2>1, <2>2, StandsAtNearest
  <2> QED
    BY <1>3, <2>1, <2>2, <2>3, <2>4
<1>5. ASSUME NEW g \in S!Runs, g[1] <= r, r <= g[2], S!Stands(p, g), IsThin(g)
      PROVE  r \in MarkedBy(k)
  <2>1. m \in S!ink /\ g[1] <= m /\ m <= g[2]
    BY <1>1, <1>5, StandsAtNearest
  <2>2. S!ThinAt(m)
    BY <1>5, <2>1, ThinIs
  <2> QED
    BY <1>2, <1>3, <1>5, <2>1, <2>2
<1> QED
  BY <1>4, <1>5

LEMMA LinedIs ==
  ASSUME ScanInv, pc = "done"
  PROVE  /\ lined = UNION {MarkedBy(k) : k \in DOMAIN column.lines}
         /\ copy = S!ink \ (lined \cap (2 .. Height - 3))
<1>1. DOMAIN column.lines = 1 .. n - 1
  BY ColumnTypes DEF ScanInv
<1> QED
  BY <1>1 DEF ScanInv

LEMMA ScanRemovedExact == ASSUME ScanInv PROVE S!RemovedExact
<1> SUFFICES ASSUME pc = "done", S!Inside, column.avg_staff_space >= column.line_max_width,
                    NEW r
             PROVE  r \in copy <=>
                      /\ r \in S!ink
                      /\ \/ r \notin 2 .. Height - 3
                         \/ \A g \in S!Runs, k \in DOMAIN column.lines :
                              (g[1] <= r /\ r <= g[2] /\ S!Stands(column.lines[k], g)) =>
                                \/ g[2] - g[1] + 1 < column.line_min_width
                                \/ g[2] - g[1] + 1 >= column.line_max_width
  <2> SUFFICES ASSUME pc = "done", S!Inside, column.avg_staff_space >= column.line_max_width
               PROVE  copy = {r \in S!ink :
                         \/ r \notin 2 .. Height - 3
                         \/ \A g \in S!Runs, k \in DOMAIN column.lines :
                              (g[1] <= r /\ r <= g[2] /\ S!Stands(column.lines[k], g)) =>
                                \/ g[2] - g[1] + 1 < column.line_min_width
                                \/ g[2] - g[1] + 1 >= column.line_max_width}
    BY DEF S!RemovedExact
  <2> QED
    OBVIOUS
<1>1. column \in Columns /\ lined = UNION {MarkedBy(k) : k \in DOMAIN column.lines}
      /\ copy = S!ink \ (lined \cap (2 .. Height - 3))
  BY LinedIs DEF ScanInv
<1>2. \A g \in S!Runs : IsThin(g) <=> ~(\/ g[2] - g[1] + 1 < column.line_min_width
                                       \/ g[2] - g[1] + 1 >= column.line_max_width)
  <2> SUFFICES ASSUME NEW g \in S!Runs
               PROVE IsThin(g) <=> ~(\/ g[2] - g[1] + 1 < column.line_min_width
                                     \/ g[2] - g[1] + 1 >= column.line_max_width)
    OBVIOUS
  <2>1. g[1] \in Int /\ g[2] \in Int /\ column.line_min_width \in Int /\ column.line_max_width \in Int
    BY <1>1, RunIs, ColumnTypes
  <2> QED
    BY <2>1 DEF IsThin, Wide
<1>3. r \in S!ink => (r \in lined <=>
        \E k \in DOMAIN column.lines, g \in S!Runs :
          g[1] <= r /\ r <= g[2] /\ S!Stands(column.lines[k], g) /\ IsThin(g))
  BY <1>1, MarkedIs
<1> QED
  BY <1>1, <1>2, <1>3

LEMMA ScanRemovedNear == ASSUME ScanInv PROVE S!RemovedNear
<1> SUFFICES ASSUME pc = "done", NEW r \in S!ink \ copy
             PROVE  \E k \in DOMAIN column.lines :
                      /\ column.lines[k] - (column.searh_h + column.avg_staff_space) <= r
                      /\ r <= column.lines[k] + (column.searh_h + column.avg_staff_space)
  BY DEF S!RemovedNear
<1>1. PICK k \in DOMAIN column.lines : r \in MarkedBy(k)
  BY LinedIs
<1> DEFINE p == column.lines[k]
           m == S!Nearest(p)
<1>2. m \in S!ink /\ S!Up(m) <= r /\ r <= S!Down(m)
  BY <1>1 DEF MarkedBy
<1>3. /\ p \in 0 .. Height - 1 /\ p \in Int /\ r \in Int /\ column \in Columns
      /\ column.searh_h \in Nat /\ column.avg_staff_space \in Nat
  BY ColumnTypes DEF ScanInv
<1>4. m \in Int /\ p - column.searh_h <= m /\ m <= p + column.searh_h
  BY <1>2, <1>3, NearestNear
<1>5. /\ S!Up(m) \in Int /\ S!Up(m) >= m - column.avg_staff_space
      /\ S!Down(m) \in Int /\ S!Down(m) <= m + column.avg_staff_space
  <2>1. /\ S!Up(m) \in 0 .. m /\ S!Up(m) >= m - column.avg_staff_space
        /\ S!Down(m) \in m .. Height /\ S!Down(m) <= m + column.avg_staff_space
    BY <1>2, <1>3, UpIs, DownIs
  <2> QED
    BY <2>1
<1>6. /\ p - (column.searh_h + column.avg_staff_space) <= r
      /\ r <= p + (column.searh_h + column.avg_staff_space)
  BY <1>2, <1>3, <1>4, <1>5
<1> QED
  BY <1>6

LinesRemovedInv == function = "HorizontalScan" => ScanInv

(* HorizontalScan: whatever the column, the lines and the bounds, no ink   *)
(* goes that is far from a staff line, and where a staff space is not less *)
(* than a line may be wide exactly the thin runs go for which a line       *)
(* stands.                                                                 *)
THEOREM LinesRemovedHolds == Spec => []LinesRemoved
<1>1. Init => LinesRemovedInv
  BY ScanInit DEF Init, LinesRemovedInv
<1>2. LinesRemovedInv /\ [Next]_<<function, pages, page, i, pc, thinning, detected, scanned, cut>>
        => LinesRemovedInv'
  <2> SUFFICES ASSUME LinesRemovedInv, function' = "HorizontalScan",
                      [Next]_<<function, pages, page, i, pc, thinning, detected, scanned, cut>>
               PROVE  ScanInv'
    BY DEF LinesRemovedInv
  <2>1. CASE Scan
    <3>1. function = "HorizontalScan" /\ S!Next
      BY <2>1 DEF Scan
    <3> QED
      BY <3>1, ScanOfLine, ScanEnd DEF LinesRemovedInv, S!Next
  <2>2. CASE Thinning \/ Detection \/ Extraction
    BY <2>2 DEF Thinning, Detection, Extraction
  <2>3. CASE UNCHANGED <<function, pages, page, i, pc, thinning, detected, scanned, cut>>
    <3>1. ScanInv /\ column' = column /\ lined' = lined /\ n' = n /\ copy' = copy /\ pc' = pc
      BY <2>3 DEF LinesRemovedInv, scanned
    <3>2. lined' = (UNION {MarkedBy(k) : k \in 1 .. n - 1})' /\ S!ink' = S!ink
      BY <3>1, ScanKept
    <3> QED
      BY <3>1, <3>2 DEF ScanInv
  <2> QED
    BY <2>1, <2>2, <2>3 DEF Next
<1>3. LinesRemovedInv => LinesRemoved
  <2>1. ASSUME ScanInv PROVE S!TypeOK
    <3>1. lined \subseteq S!Row
      BY <2>1 DEF ScanInv, MarkedBy
    <3> QED
      BY <2>1, <3>1 DEF ScanInv, S!TypeOK
  <2> QED
    BY <2>1, ScanRemovedExact, ScanRemovedNear DEF LinesRemovedInv, LinesRemoved
<1> QED
  BY <1>1, <1>2, <1>3, PTL DEF Spec

-----------------------------------------------------------------------------
(* type_detect. *)

LEMMA DetectInputs ==
  /\ MaxLines \in Nat \ {0} /\ MinLines \in Nat \ {0}
  /\ Documents \subseteq Seq(D!Page)
BY PreprocessingAssumption DEF D!Inputs

LEMMA SameCount == ASSUME NEW X PROVE D!Cardinality(X) = Cardinality(X)
  BY DEF D!Cardinality, Cardinality

LEMMA LevelIs ==
  ASSUME pages \in Documents, page \in DOMAIN pages
  PROVE  /\ pages[page] \in D!Page /\ page \in Nat \ {0} /\ page <= Len(pages) /\ Len(pages) \in Nat
         /\ Len(D!level) \in Nat /\ Len(D!level) > 1 /\ DOMAIN D!level = 1 .. Len(D!level)
         /\ \A r \in 1 .. Len(D!level) : D!level[r] \in 0 .. 2
         /\ D!level[1] = 0 /\ D!level[Len(D!level)] = 0
<1>1. pages \in Seq(D!Page)
  BY DetectInputs
<1>2. pages[page] \in D!Page /\ page \in Nat \ {0} /\ page <= Len(pages) /\ Len(pages) \in Nat
  BY <1>1
<1>3. D!level \in Seq(0 .. 2)
  BY <1>2 DEF D!Page, D!level
<1>4. Len(D!level) > 1 /\ D!level[1] = 0 /\ D!level[Len(D!level)] = 0
  BY PreprocessingAssumption DEF D!Inputs, D!level
<1>5. Len(D!level) \in Nat /\ DOMAIN D!level = 1 .. Len(D!level)
  BY <1>3
<1> QED
  BY <1>2, <1>3, <1>4, <1>5

LEMMA MiddleIs ==
  ASSUME NEW a \in Int, NEW b \in Int, a <= b
  PROVE  /\ D!Middle(<<a, b>>) \in Int /\ a <= D!Middle(<<a, b>>) /\ D!Middle(<<a, b>>) <= b
         /\ D!Middle(<<a, b>>) = a + (b - a) \div 2
<1>1. D!Middle(<<a, b>>) = (a + b) \div 2
  BY DEF D!Middle
<1>2. (a + b) \div 2 = a + (b - a) \div 2
  OBVIOUS
<1>3. (b - a) \div 2 \in Int /\ 0 <= (b - a) \div 2 /\ (b - a) \div 2 <= b - a
  OBVIOUS
<1> QED
  BY <1>1, <1>2, <1>3

(* The histogram of a page, and its lines as D!Groups has them. *)
Level(H) ==
  /\ Len(H) \in Nat /\ Len(H) > 1 /\ DOMAIN H = 1 .. Len(H)
  /\ \A r \in 1 .. Len(H) : H[r] \in 0 .. 2
  /\ H[1] = 0 /\ H[Len(H)] = 0

GroupsIn(H, th) ==
  {g \in (DOMAIN H) \X (DOMAIN H) :
     /\ g[1] <= g[2]
     /\ \A r \in g[1] .. g[2] : H[r] >= th
     /\ H[g[1] - 1] < th /\ H[g[2] + 1] < th}

LEMMA LevelFacts ==
  ASSUME NEW H, Level(H)
  PROVE  /\ Len(H) \in Nat /\ Len(H) > 1 /\ DOMAIN H = 1 .. Len(H)
         /\ \A r \in 1 .. Len(H) : H[r] \in 0 .. 2
         /\ H[1] = 0 /\ H[Len(H)] = 0
BY DEF Level

LEMMA LevelOfPage ==
  ASSUME pages \in Documents, page \in DOMAIN pages
  PROVE  Level(D!level) /\ \A th : D!Groups(th) = GroupsIn(D!level, th)
BY LevelIs DEF Level, GroupsIn, D!Groups

(* A line, and the rows about it. *)
LEMMA GroupIs ==
  ASSUME NEW H, Level(H), NEW th \in 1 .. 2, NEW g \in GroupsIn(H, th)
  PROVE  /\ g = <<g[1], g[2]>> /\ g[1] \in 1 .. Len(H) /\ g[2] \in 1 .. Len(H)
         /\ g[1] \in Int /\ g[2] \in Int /\ g[1] <= g[2]
         /\ 2 <= g[1] /\ g[2] < Len(H)
         /\ \A r \in Int : (g[1] <= r /\ r <= g[2]) => H[r] >= th
         /\ H[g[1] - 1] < th /\ H[g[2] + 1] < th
<1>1. /\ g \in (DOMAIN H) \X (DOMAIN H) /\ g[1] <= g[2]
      /\ \A r \in g[1] .. g[2] : H[r] >= th
      /\ H[g[1] - 1] < th /\ H[g[2] + 1] < th
  BY DEF GroupsIn
<1>2. /\ g = <<g[1], g[2]>> /\ g[1] \in 1 .. Len(H) /\ g[2] \in 1 .. Len(H)
  BY <1>1, LevelFacts
<1>3. g[1] \in Int /\ g[2] \in Int /\ Len(H) \in Nat
  BY <1>2, LevelFacts
<1>4. \A r \in Int : (g[1] <= r /\ r <= g[2]) => H[r] >= th
  BY <1>1, <1>3
<1>5. H[g[1]] >= th /\ H[g[2]] >= th
  BY <1>1, <1>3, <1>4
<1>6. g[1] # 1 /\ g[2] # Len(H)
  BY <1>5, LevelFacts
<1> QED
  BY <1>1, <1>2, <1>3, <1>4, <1>6

LEMMA GroupFrom ==
  ASSUME NEW H, Level(H), NEW th \in 1 .. 2,
         NEW a \in 1 .. Len(H), NEW b \in 1 .. Len(H), a <= b,
         \A r \in Int : (a <= r /\ r <= b) => H[r] >= th,
         H[a - 1] < th, H[b + 1] < th
  PROVE  <<a, b>> \in GroupsIn(H, th)
<1> DEFINE g == <<a, b>>
<1>1. g \in (DOMAIN H) \X (DOMAIN H) /\ g[1] = a /\ g[2] = b
  BY LevelFacts
<1>2. a \in Int /\ b \in Int
  BY LevelFacts
<1>3. \A r \in a .. b : H[r] >= th
  BY <1>2
<1> HIDE DEF g
<1>4. g \in GroupsIn(H, th)
  BY <1>1, <1>3 DEF GroupsIn
<1> QED
  BY <1>4 DEF g

(* The lines that end in row b at the latest. *)
Closed(H, th, b) == {g \in GroupsIn(H, th) : g[2] <= b}

(* Row r - 1 is on a line from a. *)
OpenFrom(H, th, a, r) ==
  /\ a \in 2 .. r - 1 /\ H[a - 1] < th
  /\ \A s \in Int : (a <= s /\ s <= r - 1) => H[s] >= th

(* The lines that end before one that is open, end above it. *)
LEMMA ClosedAbove ==
  ASSUME NEW H, Level(H), NEW th \in 1 .. 2, NEW r \in Nat, NEW a,
         OpenFrom(H, th, a, r), NEW g \in Closed(H, th, r - 2)
  PROVE  g[2] < a
<1>1. g[2] \in Int /\ g[2] <= r - 2 /\ H[g[2] + 1] < th /\ a \in Int
  BY GroupIs DEF Closed, OpenFrom
<1>2. SUFFICES ASSUME a <= g[2] PROVE FALSE
  BY <1>1
<1>3. H[g[2] + 1] >= th
  BY <1>1, <1>2 DEF OpenFrom
<1>4. g[2] + 1 \in 1 .. Len(H)
  BY GroupIs, LevelFacts DEF Closed
<1>5. H[g[2] + 1] \in Int
  BY <1>4, LevelFacts
<1> QED
  BY <1>1, <1>3, <1>5

(* What a row more adds to the lines that have ended. *)
LEMMA ClosedNext ==
  ASSUME NEW H, Level(H), NEW th \in 1 .. 2, NEW r \in 1 .. Len(H)
  PROVE  /\ H[r] >= th => Closed(H, th, r - 1) = Closed(H, th, r - 2)
         /\ r = 1 \/ H[r - 1] < th => Closed(H, th, r - 1) = Closed(H, th, r - 2)
         /\ \A a : (H[r] < th /\ OpenFrom(H, th, a, r)) =>
              /\ Closed(H, th, r - 1) = Closed(H, th, r - 2) \cup {<<a, r - 1>>}
              /\ <<a, r - 1>> \notin Closed(H, th, r - 2)
<1>1. r \in Int /\ Len(H) \in Nat /\ th \in Int /\ \A s \in 1 .. Len(H) : H[s] \in Int
  BY LevelFacts
<1>2. \A g \in Closed(H, th, r - 1) : g \notin Closed(H, th, r - 2) => g[2] = r - 1
  BY <1>1, GroupIs DEF Closed
<1>3. Closed(H, th, r - 2) \subseteq Closed(H, th, r - 1)
  BY <1>1, GroupIs DEF Closed
<1>4. \A g \in Closed(H, th, r - 1) : g[2] = r - 1 => H[r] < th /\ H[r - 1] >= th /\ r - 1 \in 1 .. Len(H)
  <2> SUFFICES ASSUME NEW g \in GroupsIn(H, th), g[2] = r - 1
               PROVE  H[r] < th /\ H[r - 1] >= th /\ r - 1 \in 1 .. Len(H)
    BY DEF Closed
  <2>1. g[2] + 1 = r
    BY <1>1
  <2> QED
    BY <2>1, GroupIs
<1>5. ASSUME H[r] >= th \/ r = 1 \/ H[r - 1] < th
      PROVE  Closed(H, th, r - 1) = Closed(H, th, r - 2)
  <2>1. H[r] \in Int /\ (r - 1 \in 1 .. Len(H) => H[r - 1] \in Int /\ r # 1)
    BY <1>1
  <2>2. ASSUME NEW g \in Closed(H, th, r - 1), g \notin Closed(H, th, r - 2) PROVE FALSE
    <3>1. H[r] < th /\ H[r - 1] >= th /\ r - 1 \in 1 .. Len(H)
      BY <1>2, <1>4, <2>2
    <3> QED
      BY <1>1, <1>5, <2>1, <3>1
  <2> QED
    BY <1>3, <2>2
<1>7. ASSUME NEW a, H[r] < th, OpenFrom(H, th, a, r)
      PROVE  /\ Closed(H, th, r - 1) = Closed(H, th, r - 2) \cup {<<a, r - 1>>}
             /\ <<a, r - 1>> \notin Closed(H, th, r - 2)
  <2>1. a \in Int /\ 2 <= a /\ a <= r - 1 /\ H[a - 1] < th
        /\ \A s \in Int : (a <= s /\ s <= r - 1) => H[s] >= th
    BY <1>1, <1>7 DEF OpenFrom
  <2> DEFINE new == <<a, r - 1>>
  <2>2. new \in GroupsIn(H, th)
    <3>1. a \in 1 .. Len(H) /\ r - 1 \in 1 .. Len(H) /\ r - 1 + 1 = r
      BY <1>1, <2>1
    <3> QED
      BY <1>7, <2>1, <3>1, GroupFrom
  <2>3. new[1] = a /\ new[2] = r - 1
    OBVIOUS
  <2> HIDE DEF new
  <2>4. new \in Closed(H, th, r - 1) /\ new \notin Closed(H, th, r - 2)
    BY <1>1, <2>2, <2>3 DEF Closed
  <2>5. ASSUME NEW g \in GroupsIn(H, th), g[2] = r - 1 PROVE g = new
    <3>1. g[1] \in Int /\ g[1] <= r - 1 /\ H[g[1] - 1] < th /\ g = <<g[1], g[2]>> /\ 2 <= g[1]
          /\ \A s \in Int : (g[1] <= s /\ s <= r - 1) => H[s] >= th
      BY <2>5, GroupIs
    <3>2. ~(g[1] < a)
      <4>1. g[1] < a => H[a - 1] >= th /\ a - 1 \in 1 .. Len(H)
        BY <1>1, <2>1, <3>1
      <4> QED
        BY <1>1, <2>1, <4>1
    <3>3. ~(a < g[1])
      <4>1. a < g[1] => H[g[1] - 1] >= th /\ g[1] - 1 \in 1 .. Len(H)
        BY <1>1, <2>1, <3>1
      <4> QED
        BY <1>1, <3>1, <4>1
    <3>4. g[1] = a
      BY <2>1, <3>1, <3>2, <3>3
    <3> QED
      BY <2>5, <3>1, <3>4 DEF new
  <2>6. Closed(H, th, r - 1) = Closed(H, th, r - 2) \cup {new}
    BY <1>2, <1>3, <2>4, <2>5 DEF Closed
  <2> QED
    BY <2>4, <2>6 DEF new
<1> QED
  BY <1>5, <1>7

(* The first c positions are the middle rows of the lines in G, from top   *)
(* to bottom, each once.                                                   *)
Filed(P, c, G) ==
  /\ c \in Nat /\ IsFiniteSet(G) /\ Cardinality(G) = c
  /\ \A k \in 0 .. c - 1 : P[k] \in Int /\ \E g \in G : P[k] = D!Middle(g)
  /\ \A g \in G : \E k \in 0 .. c - 1 : P[k] = D!Middle(g)
  /\ \A k, m \in 0 .. c - 1 : k < m => P[k] < P[m]

LEMMA FiledNone == ASSUME NEW P PROVE Filed(P, 0, {})
<1>1. IsFiniteSet({}) /\ Cardinality({}) = 0
  BY FS_EmptySet
<1> QED
  BY <1>1 DEF Filed

LEMMA FiledSame ==
  ASSUME NEW P, NEW c, NEW G, Filed(P, c, G), NEW Q, \A k \in 0 .. c - 1 : Q[k] = P[k]
  PROVE  Filed(Q, c, G)
BY DEF Filed

LEMMA FiledAdd ==
  ASSUME NEW P, NEW c, NEW G, Filed(P, c, G), NEW g, g \notin G, D!Middle(g) \in Int,
         \A h \in G : D!Middle(h) < D!Middle(g),
         NEW Q, \A k \in 0 .. c - 1 : Q[k] = P[k], Q[c] = D!Middle(g)
  PROVE  Filed(Q, c + 1, G \cup {g})
<1>1. c \in Nat /\ IsFiniteSet(G) /\ Cardinality(G) = c
  BY DEF Filed
<1>2. IsFiniteSet(G \cup {g}) /\ Cardinality(G \cup {g}) = c + 1
  BY <1>1, FS_AddElement
<1>3. \A k \in 0 .. c + 1 - 1 : k \in 0 .. c - 1 \/ k = c
  BY <1>1
<1>4. c \in 0 .. c + 1 - 1 /\ 0 .. c - 1 \subseteq 0 .. c + 1 - 1 /\ c + 1 \in Nat
  BY <1>1
<1>5. \A k \in 0 .. c + 1 - 1 : Q[k] \in Int /\ \E h \in G \cup {g} : Q[k] = D!Middle(h)
  BY <1>3 DEF Filed
<1>6. \A h \in G \cup {g} : \E k \in 0 .. c + 1 - 1 : Q[k] = D!Middle(h)
  BY <1>4 DEF Filed
<1>7. ASSUME NEW k \in 0 .. c + 1 - 1, NEW m \in 0 .. c + 1 - 1, k < m PROVE Q[k] < Q[m]
  <2>1. k \in 0 .. c - 1
    BY <1>1, <1>7
  <2>2. CASE m = c
    BY <2>1, <2>2 DEF Filed
  <2>3. CASE m \in 0 .. c - 1
    BY <1>7, <2>1, <2>3 DEF Filed
  <2> QED
    BY <1>3, <2>2, <2>3
<1> QED
  BY <1>2, <1>4, <1>5, <1>6, <1>7 DEF Filed

(* The rows that the lines in G have beyond one. *)
ThickOf(G) == {g \in G : g[1] < g[2]}

ExtraRows(g) == {<<g, r>> : r \in g[1] + 1 .. g[2]}

Extra(G) == UNION {ExtraRows(g) : g \in ThickOf(G)}

Summed(G, sum, number) ==
  /\ IsFiniteSet(ThickOf(G)) /\ Cardinality(ThickOf(G)) = number
  /\ IsFiniteSet(Extra(G)) /\ Cardinality(Extra(G)) = sum

LEMMA SummedNone == Summed({}, 0, 0)
<1>1. ThickOf({}) = {}
  BY DEF ThickOf
<1>2. Extra({}) = {}
  BY <1>1 DEF Extra
<1> QED
  BY <1>1, <1>2, FS_EmptySet DEF Summed

LEMMA ExtraCount ==
  ASSUME NEW a \in Int, NEW b \in Int, a <= b
  PROVE  IsFiniteSet(ExtraRows(<<a, b>>)) /\ Cardinality(ExtraRows(<<a, b>>)) = b - a
<1> DEFINE K == a + 1 .. b
           g == <<a, b>>
           f == [r \in K |-> <<g, r>>]
<1>1. IsFiniteSet(K) /\ Cardinality(K) = IF a + 1 > b THEN 0 ELSE b - (a + 1) + 1
  BY FS_Interval
<1>2. ExtraRows(g) = {<<g, r>> : r \in K}
  BY DEF ExtraRows
<1> HIDE DEF g
<1>3. f \in Bijection(K, ExtraRows(g))
  BY <1>2 DEF Bijection, Injection, Surjection, IsInjective
<1>4. IsFiniteSet(ExtraRows(g)) /\ Cardinality(ExtraRows(g)) = Cardinality(K)
  BY <1>1, <1>3, FS_Bijection DEF ExistsBijection
<1> QED
  BY <1>1, <1>4 DEF g

LEMMA SummedAdd ==
  ASSUME NEW G, NEW sum \in Nat, NEW number \in Nat, Summed(G, sum, number),
         NEW a \in Int, NEW b \in Int, <<a, b>> \notin G
  PROVE  /\ a < b => Summed(G \cup {<<a, b>>}, sum + (b - a), number + 1)
         /\ a = b => Summed(G \cup {<<a, b>>}, sum, number)
<1> DEFINE g == <<a, b>>
<1>1. g[1] = a /\ g[2] = b /\ g \notin G
  OBVIOUS
<1>2. a = b => ThickOf(G \cup {g}) = ThickOf(G)
  BY <1>1 DEF ThickOf
<1>3. a < b => ThickOf(G \cup {g}) = ThickOf(G) \cup {g}
  BY <1>1 DEF ThickOf
<1>4. CASE a = b
  <2>1. Extra(G \cup {g}) = Extra(G)
    BY <1>2, <1>4 DEF Extra
  <2> QED
    BY <1>2, <1>4, <2>1 DEF Summed
<1>5. CASE a < b
  <2>1. Extra(G \cup {g}) = Extra(G) \cup ExtraRows(g)
    BY <1>3, <1>5 DEF Extra
  <2>2. IsFiniteSet(ExtraRows(g)) /\ Cardinality(ExtraRows(g)) = b - a
    BY <1>5, ExtraCount
  <2> HIDE DEF g
  <2>3. Extra(G) \cap ExtraRows(g) = {}
    BY <1>1 DEF Extra, ExtraRows, ThickOf
  <2>4. g \notin ThickOf(G)
    BY <1>1 DEF ThickOf
  <2>5. /\ IsFiniteSet(Extra(G) \cup ExtraRows(g))
        /\ Cardinality(Extra(G) \cup ExtraRows(g)) =
             Cardinality(Extra(G)) + Cardinality(ExtraRows(g)) - Cardinality(Extra(G) \cap ExtraRows(g))
    BY <2>2, FS_Union DEF Summed
  <2>6. Cardinality(Extra(G) \cap ExtraRows(g)) = 0 /\ Cardinality(Extra(G)) = sum
    BY <2>3, FS_EmptySet DEF Summed
  <2>7. Cardinality(Extra(G) \cup ExtraRows(g)) = sum + (b - a)
    BY <2>2, <2>5, <2>6
  <2>8. IsFiniteSet(ThickOf(G) \cup {g}) /\ Cardinality(ThickOf(G) \cup {g}) = number + 1
    BY <2>4, FS_AddElement DEF Summed
  <2>9. Summed(G \cup {g}, sum + (b - a), number + 1)
    BY <1>3, <1>5, <2>1, <2>5, <2>7, <2>8 DEF Summed
  <2> QED
    BY <1>5, <2>9 DEF g
<1>6. CASE ~(a = b \/ a < b)
  BY <1>6
<1> QED
  BY <1>4, <1>5, <1>6

(* Row r - 1 is on no line. *)
NoneOpen(H, th, r) == r = 1 \/ H[r - 1] < th

(* The scan, c lines having ended, is on no line; and on one from row a. *)
Between(c) ==
  /\ Filed(positions, c, Closed(D!level, hist_line_thresh, i - 2))
  /\ NoneOpen(D!level, hist_line_thresh, i)
  /\ count = c /\ Consecutive_count = 0

Within(c, a) ==
  /\ Filed(positions, c, Closed(D!level, hist_line_thresh, i - 2))
  /\ OpenFrom(D!level, hist_line_thresh, a, i)
  /\ count = c + (i - a) /\ Consecutive_count = i - a - 1
  /\ \A s \in Int : (a <= s /\ s <= i - 1) => positions[c + (s - a)] = s

Sums ==
  /\ raised = -1 => Summed(Closed(D!level, hist_line_thresh, i - 2), var_sum, var_c)
  /\ ThickOf(Closed(D!level, hist_line_thresh, i - 2)) # {} => var_c > 0

Clean ==
  /\ i \in 1 .. Len(D!level) + 1 /\ raised <= 0 /\ ans = "s"
  /\ Sums
  /\ \E c \in Nat : Between(c) \/ \E a \in Int : Within(c, a)

(* The scan after a restart within a line: what was counted of that line   *)
(* is never made good.                                                     *)
Doomed ==
  /\ hist_line_thresh = 2 /\ raised > 0 /\ ans = "s"
  /\ i \in 2 .. Len(D!level)
  /\ \A s \in Int : (2 <= s /\ s <= i - 1) => D!level[s] >= 2
  /\ count = i - 2
  /\ IF count = 0 THEN Consecutive_count = raised
     ELSE Consecutive_count = raised + count - 1 /\ positions[count - 1] = i - 1

GivenUp == i = Len(D!level) + 1 /\ ans = "u" /\ count = 0

Typed ==
  /\ ans \in {"s", "u"}
  /\ ans = "s" =>
       /\ i = Len(D!level) + 1 /\ raised <= 0
       /\ Filed(positions, Staff_count, GroupsIn(D!level, hist_line_thresh))
       /\ raised = -1 => Summed(GroupsIn(D!level, hist_line_thresh), var_sum, var_c)
       /\ ThickOf(GroupsIn(D!level, hist_line_thresh)) # {} => var_c > 0

DetectInv ==
  /\ pages \in Documents /\ D!TypeOK
  /\ raised \in -1 .. MaxLines /\ var_sum \in Nat /\ var_c \in Nat
  /\ \A k \in 1 .. page - 1 : pages[k].loads
  /\ pc \in {"row", "type", "route"} => page \in DOMAIN pages /\ pages[page].loads
  /\ pc = "row" => pages[page].straight /\ (Clean \/ Doomed \/ GivenUp)
  /\ pc = "wild" => raised > 0
  /\ pc = "type" => Typed
  /\ pc = "route" => D!OwnVariation
  /\ pc = "done" => page = Len(pages) + 1

LEMMA DetectTypes ==
  ASSUME DetectInv
  PROVE  /\ pages \in Seq(D!Page) /\ Len(pages) \in Nat /\ DOMAIN pages = 1 .. Len(pages)
         /\ page \in Nat /\ page \in 1 .. Len(pages) + 1 /\ hist_line_thresh \in 1 .. 2 /\ i \in Nat
         /\ pc # "wild" => count \in Int /\ count \in 0 .. MaxLines
         /\ Consecutive_count \in 0 .. 2 * MaxLines /\ Consecutive_count \in Int
         /\ positions \in [0 .. MaxLines -> Nat]
         /\ raised \in Int /\ raised >= -1 /\ raised <= MaxLines /\ var_sum \in Nat /\ var_c \in Nat
         /\ MaxLines \in Nat /\ MaxLines > 0
<1>1. pages \in Seq(D!Page)
  BY DetectInputs DEF DetectInv
<1>2. Len(pages) \in Nat /\ DOMAIN pages = 1 .. Len(pages) /\ page \in 1 .. Len(pages) + 1
  BY <1>1 DEF DetectInv, D!TypeOK
<1>3. MaxLines \in Nat /\ MaxLines > 0
  BY DetectInputs
<1> QED
  BY <1>1, <1>2, <1>3 DEF DetectInv, D!TypeOK

LEMMA DetectInit == ASSUME D!Init PROVE DetectInv
<1>1. /\ pages \in Documents /\ page = 1 /\ hist_line_thresh = 1 /\ i = 1 /\ count = 0 /\ Consecutive_count = 0
      /\ var_sum = 0 /\ var_c = 0 /\ ans = "u" /\ Staff_count = 0 /\ measured = 0 /\ raised = -1 /\ pc = "page"
  BY DEF D!Init
<1>2. positions = [k \in 0 .. MaxLines |-> 0] /\ Variation = <<0, 1>>
  BY DEF D!Init
<1>3. pages \in Seq(D!Page) /\ Len(pages) \in Nat /\ MaxLines \in Nat
  BY <1>1, DetectInputs
<1>4. positions \in [0 .. MaxLines -> Nat] /\ Variation \in Nat \X (Nat \ {0})
  BY <1>2
<1>5. /\ page \in 1 .. Len(pages) + 1 /\ count \in 0 .. MaxLines /\ Consecutive_count \in 0 .. 2 * MaxLines
      /\ Staff_count \in 0 .. MaxLines /\ measured \in 0 .. Len(pages) /\ raised \in -1 .. MaxLines
      /\ hist_line_thresh \in 1 .. 2 /\ i \in Nat /\ var_sum \in Nat /\ var_c \in Nat
  BY <1>1, <1>3
<1>6. D!TypeOK
  BY <1>1, <1>4, <1>5 DEF D!TypeOK
<1>7. 1 .. page - 1 = {}
  BY <1>1
<1> QED
  BY <1>1, <1>5, <1>6, <1>7 DEF DetectInv

LEMMA DetectStart == ASSUME DetectInv, D!StartPage PROVE DetectInv'
<1>1. /\ pc = "page" /\ page <= Len(pages) /\ pages[page].loads
      /\ hist_line_thresh' = 1 /\ i' = 1 /\ count' = 0 /\ Consecutive_count' = 0
      /\ var_sum' = 0 /\ var_c' = 0 /\ ans' = (IF pages[page].straight THEN "s" ELSE "u")
      /\ Staff_count' = 0 /\ raised' = -1
      /\ pc' = (IF pages[page].straight THEN "row" ELSE "type")
      /\ pages' = pages /\ page' = page /\ positions' = positions /\ Variation' = Variation /\ measured' = measured
  BY DEF D!StartPage
<1>2. page \in DOMAIN pages /\ MaxLines \in Nat /\ page \in Nat
  BY <1>1, DetectTypes
<1>3. D!TypeOK'
  <2>1. ans' \in {"s", "n", "y", "u"} /\ pc' \in {"page", "row", "type", "route", "wild", "caught", "done"}
    BY <1>1
  <2>2. count' \in 0 .. MaxLines /\ Consecutive_count' \in 0 .. 2 * MaxLines /\ Staff_count' \in 0 .. MaxLines
        /\ hist_line_thresh' \in 1 .. 2 /\ i' \in Nat
    BY <1>1, <1>2
  <2> QED
    BY <1>1, <2>1, <2>2 DEF DetectInv, D!TypeOK
<1>4. CASE pages[page].straight
  <2>1. Level(D!level) /\ D!level' = D!level
    BY <1>1, <1>2, LevelOfPage DEF DetectInv, D!level
  <2>2. Closed(D!level, 1, 1 - 2) = {}
    <3>1. \A g \in GroupsIn(D!level, 1) : g[2] \in Int /\ 2 <= g[1] /\ g[1] <= g[2] /\ g[1] \in Int
      BY <2>1, GroupIs
    <3> QED
      BY <3>1 DEF Closed
  <2>3. Between(0)'
    BY <1>1, <2>1, <2>2, FiledNone DEF Between, NoneOpen
  <2>4. Sums'
    <3>1. ThickOf({}) = {}
      BY DEF ThickOf
    <3> QED
      BY <1>1, <2>1, <2>2, <3>1, SummedNone DEF Sums
  <2>5. i' \in 1 .. Len(D!level') + 1 /\ raised' <= 0 /\ ans' = "s"
    BY <1>1, <1>4, <2>1, LevelFacts
  <2>6. Clean'
    BY <2>3, <2>4, <2>5 DEF Clean
  <2> QED
    BY <1>1, <1>2, <1>3, <1>4, <2>6 DEF DetectInv
<1>5. CASE ~pages[page].straight
  <2>1. Typed'
    BY <1>1, <1>5 DEF Typed
  <2> QED
    BY <1>1, <1>2, <1>3, <1>5, <2>1 DEF DetectInv
<1> QED
  BY <1>4, <1>5

LEMMA RowFacts ==
  ASSUME DetectInv, pc = "row"
  PROVE  /\ page \in DOMAIN pages /\ pages[page].loads /\ pages[page].straight
         /\ Level(D!level) /\ Len(D!level) \in Nat
         /\ hist_line_thresh \in 1 .. 2 /\ i \in Int /\ count \in Int /\ count >= 0 /\ count <= MaxLines
         /\ \A r \in 1 .. Len(D!level) : D!level[r] \in Int
<1>1. page \in DOMAIN pages /\ pages[page].loads /\ pages[page].straight /\ pages \in Documents
  BY DEF DetectInv
<1>2. Level(D!level)
  BY <1>1, LevelOfPage
<1>3. Len(D!level) \in Nat /\ \A r \in 1 .. Len(D!level) : D!level[r] \in Int
  BY <1>2, LevelFacts
<1> QED
  BY <1>1, <1>2, <1>3, DetectTypes

(* The last position is that of the row before, or of a line above it. *)
LEMMA ConsecutiveBetween ==
  ASSUME DetectInv, pc = "row", NEW c \in Nat, Between(c)
  PROVE  D!Consecutive = 0
<1>1. count = c /\ Consecutive_count = 0
  BY DEF Between
<1>2. ASSUME c # 0 PROVE positions[c - 1] # i - 1
  <2>1. c - 1 \in 0 .. c - 1
    BY <1>2
  <2>2. PICK g \in Closed(D!level, hist_line_thresh, i - 2) : positions[c - 1] = D!Middle(g)
    BY <2>1 DEF Between, Filed
  <2>3. g \in GroupsIn(D!level, hist_line_thresh) /\ g[2] <= i - 2
    BY <2>2 DEF Closed
  <2>4. g = <<g[1], g[2]>> /\ g[1] \in Int /\ g[2] \in Int /\ g[1] <= g[2]
    BY <2>3, RowFacts, GroupIs
  <2>5. D!Middle(g) \in Int /\ D!Middle(g) <= g[2]
    BY <2>4, MiddleIs
  <2> QED
    BY <2>2, <2>3, <2>4, <2>5, RowFacts
<1> QED
  BY <1>1, <1>2 DEF D!Consecutive

LEMMA ConsecutiveWithin ==
  ASSUME DetectInv, pc = "row", NEW c \in Nat, NEW a \in Int, Within(c, a)
  PROVE  D!Consecutive = i - a /\ a >= 2 /\ a <= i - 1
<1>1. /\ count = c + (i - a) /\ Consecutive_count = i - a - 1
      /\ \A s \in Int : (a <= s /\ s <= i - 1) => positions[c + (s - a)] = s
      /\ a \in 2 .. i - 1
  BY DEF Within, OpenFrom
<1>2. i \in Int /\ a >= 2 /\ a <= i - 1 /\ i - 1 \in Int
  BY <1>1, RowFacts
<1>3. positions[c + (i - 1 - a)] = i - 1
  BY <1>1, <1>2
<1>4. c + (i - 1 - a) = count - 1 /\ count # 0
  BY <1>1, <1>2
<1>5. positions[count - 1] = i - 1
  BY <1>3, <1>4
<1> QED
  BY <1>1, <1>2, <1>4, <1>5 DEF D!Consecutive

LEMMA ConsecutiveDoomed ==
  ASSUME DetectInv, pc = "row", Doomed
  PROVE  D!Consecutive = raised + count
<1>1. raised \in Int /\ count \in Int
  BY DetectTypes, RowFacts
<1> QED
  BY <1>1 DEF Doomed, D!Consecutive

(* A row more of a line. *)
LEMMA CleanLine == ASSUME DetectInv, D!LineRow, Clean PROVE Clean' /\ D!Consecutive <= count
<1>1. /\ pc = "row" /\ i <= Len(D!level) /\ D!level[i] >= hist_line_thresh /\ count < MaxLines
      /\ Consecutive_count' = D!Consecutive
      /\ positions' = [positions EXCEPT ![count] = i] /\ count' = count + 1 /\ i' = i + 1
      /\ pages' = pages /\ page' = page /\ hist_line_thresh' = hist_line_thresh
      /\ var_sum' = var_sum /\ var_c' = var_c /\ ans' = ans /\ raised' = raised
  BY DEF D!LineRow, D!MoreRows, D!Line
<1> DEFINE H == D!level
           th == hist_line_thresh
<1>2. H' = H /\ th' = th
  BY <1>1 DEF D!level
<1>3. /\ Level(H) /\ Len(H) \in Nat /\ th \in 1 .. 2 /\ i \in Int /\ count \in Int /\ count >= 0
      /\ \A r \in 1 .. Len(H) : H[r] \in Int
  BY <1>1, RowFacts
<1>4. /\ i \in 1 .. Len(H) /\ i' \in 1 .. Len(H) + 1 /\ i' = i + 1 /\ i' \in Int
      /\ i' - 2 = i - 1 /\ i' - 1 = i
  BY <1>1, <1>3 DEF Clean
<1>5. Closed(H, th, i - 1) = Closed(H, th, i - 2)
  BY <1>1, <1>3, <1>4, ClosedNext
<1>6. i # 1
  BY <1>1, <1>3, LevelFacts
<1>7. \A k \in Int : (0 <= k /\ k < count) => positions'[k] = positions[k]
  BY <1>1, <1>3, DetectTypes
<1>8. positions'[count] = i
  <2>1. count \in 0 .. MaxLines
    BY <1>1, DetectTypes
  <2> QED
    BY <1>1, <2>1, DetectTypes
<1> HIDE DEF H, th
<1>9. ASSUME NEW c \in Nat, Between(c), NEW a \in Int, a = i
      PROVE  Within(c, a)' /\ D!Consecutive <= count
  <2>1. /\ Filed(positions, c, Closed(H, th, i - 2)) /\ NoneOpen(H, th, i) /\ count = c
        /\ D!Consecutive = 0
    BY <1>1, <1>9, ConsecutiveBetween DEF Between, H, th
  <2>2. Filed(positions', c, Closed(H, th, i' - 2))
    <3>1. \A k \in 0 .. c - 1 : positions'[k] = positions[k]
      BY <1>3, <1>7, <2>1
    <3> QED
      BY <1>4, <1>5, <2>1, <3>1, FiledSame
  <2>3. OpenFrom(H, th, a, i')
    <3>1. a \in 2 .. i' - 1 /\ H[a - 1] < th
      BY <1>3, <1>4, <1>6, <1>9, <2>1 DEF NoneOpen
    <3>2. \A s \in Int : (a <= s /\ s <= i' - 1) => s = i
      BY <1>3, <1>4, <1>9
    <3> QED
      BY <1>1, <3>1, <3>2 DEF OpenFrom, H, th
  <2>4. count' = c + (i' - a) /\ Consecutive_count' = i' - a - 1
    BY <1>1, <1>3, <1>9, <2>1
  <2>5. ASSUME NEW s \in Int, a <= s, s <= i' - 1 PROVE positions'[c + (s - a)] = s
    <3>1. s = i /\ c + (s - a) = count
      BY <1>3, <1>4, <1>9, <2>1, <2>5
    <3> QED
      BY <1>8, <3>1
  <2>6. Within(c, a)'
    BY <1>2, <2>2, <2>3, <2>4, <2>5 DEF Within, H, th
  <2> QED
    BY <1>3, <2>1, <2>6
<1>10. ASSUME NEW c \in Nat, NEW a \in Int, Within(c, a)
       PROVE  Within(c, a)' /\ D!Consecutive <= count
  <2>1. /\ Filed(positions, c, Closed(H, th, i - 2)) /\ OpenFrom(H, th, a, i) /\ count = c + (i - a)
        /\ \A s \in Int : (a <= s /\ s <= i - 1) => positions[c + (s - a)] = s
        /\ D!Consecutive = i - a /\ a >= 2 /\ a <= i - 1
    BY <1>1, <1>10, ConsecutiveWithin DEF Within, H, th
  <2>2. \A k \in 0 .. c - 1 : positions'[k] = positions[k]
    BY <1>3, <1>7, <2>1
  <2>3. Filed(positions', c, Closed(H, th, i' - 2))
    BY <1>4, <1>5, <2>1, <2>2, FiledSame
  <2>4. OpenFrom(H, th, a, i')
    <3>1. a \in 2 .. i' - 1
      BY <1>3, <1>4, <2>1
    <3>2. \A s \in Int : (a <= s /\ s <= i' - 1) => s = i \/ s <= i - 1
      BY <1>3, <1>4
    <3> QED
      BY <1>1, <2>1, <3>1, <3>2 DEF OpenFrom, H, th
  <2>5. count' = c + (i' - a) /\ Consecutive_count' = i' - a - 1
    BY <1>1, <1>3, <2>1
  <2>6. ASSUME NEW s \in Int, a <= s, s <= i' - 1 PROVE positions'[c + (s - a)] = s
    <3>1. CASE s = i
      <4>1. c + (s - a) = count
        BY <2>1, <3>1
      <4> QED
        BY <1>8, <3>1, <4>1
    <3>2. CASE s <= i - 1
      <4>1. c + (s - a) \in Int /\ 0 <= c + (s - a) /\ c + (s - a) < count
        BY <1>3, <2>1, <2>6, <3>2
      <4> QED
        BY <1>7, <2>1, <2>6, <3>2, <4>1
    <3> QED
      BY <1>3, <1>4, <2>6, <3>1, <3>2
  <2>7. Within(c, a)'
    BY <1>2, <2>3, <2>4, <2>5, <2>6 DEF Within, H, th
  <2> QED
    BY <1>3, <2>1, <2>7
<1>11. D!Consecutive <= count /\ \E c \in Nat : Between(c)' \/ \E a \in Int : Within(c, a)'
  BY <1>3, <1>9, <1>10 DEF Clean
<1>12. Sums'
  BY <1>1, <1>2, <1>4, <1>5 DEF Clean, Sums, H, th
<1> QED
  BY <1>1, <1>2, <1>4, <1>11, <1>12 DEF Clean, H

LEMMA CleanConsecutive ==
  ASSUME DetectInv, pc = "row", Clean \/ Doomed
  PROVE  D!Consecutive \in Nat /\ (Clean => D!Consecutive <= count) /\ D!Consecutive <= MaxLines + count
<1>1. i \in Int /\ count \in Int /\ count >= 0 /\ count <= MaxLines /\ MaxLines \in Nat
  BY RowFacts, DetectTypes
<1>2. ASSUME NEW c \in Nat, Between(c) PROVE D!Consecutive = 0
  BY <1>2, ConsecutiveBetween
<1>3. ASSUME NEW c \in Nat, NEW a \in Int, Within(c, a) PROVE D!Consecutive \in Nat /\ D!Consecutive <= count
  <2>1. D!Consecutive = i - a /\ a <= i - 1 /\ count = c + (i - a)
    BY <1>3, ConsecutiveWithin DEF Within
  <2> QED
    BY <1>1, <2>1
<1>4. Clean => D!Consecutive \in Nat /\ D!Consecutive <= count
  BY <1>1, <1>2, <1>3 DEF Clean
<1>5. Doomed => D!Consecutive \in Nat /\ D!Consecutive <= MaxLines + count
  <2>1. raised \in Int /\ raised <= MaxLines
    BY DetectTypes
  <2> QED
    BY <1>1, <2>1, ConsecutiveDoomed DEF Doomed
<1> QED
  BY <1>1, <1>4, <1>5

LEMMA DetectLine == ASSUME DetectInv, D!LineRow PROVE DetectInv'
<1>1. /\ pc = "row" /\ i <= Len(D!level) /\ D!level[i] >= hist_line_thresh /\ count < MaxLines
      /\ Consecutive_count' = D!Consecutive
      /\ positions' = [positions EXCEPT ![count] = i] /\ count' = count + 1 /\ i' = i + 1
      /\ pages' = pages /\ page' = page /\ hist_line_thresh' = hist_line_thresh
      /\ var_sum' = var_sum /\ var_c' = var_c /\ ans' = ans /\ raised' = raised
      /\ Staff_count' = Staff_count /\ Variation' = Variation /\ measured' = measured /\ pc' = pc
  BY DEF D!LineRow, D!MoreRows, D!Line
<1>2. /\ i \in Int /\ Level(D!level) /\ Len(D!level) \in Nat /\ count \in Int /\ count >= 0
      /\ i \in Nat /\ MaxLines \in Nat
  BY <1>1, RowFacts, DetectTypes
<1>3. D!level' = D!level
  BY <1>1 DEF D!level
<1>4. Clean \/ Doomed
  BY <1>1, <1>2 DEF DetectInv, GivenUp
<1>5. Clean' \/ Doomed'
  <2>1. CASE Clean
    BY <2>1, CleanLine
  <2>2. CASE Doomed
    <3>1. i # Len(D!level)
      BY <1>1, <1>2, <2>2, LevelFacts DEF Doomed
    <3>2. i' \in 2 .. Len(D!level)
      BY <1>1, <1>2, <2>2, <3>1 DEF Doomed
    <3>3. \A s \in Int : (2 <= s /\ s <= i' - 1) => D!level[s] >= 2
      <4>1. \A s \in Int : s <= i' - 1 => s = i \/ s <= i - 1
        BY <1>1, <1>2
      <4> QED
        BY <1>1, <2>2, <4>1 DEF Doomed
    <3>4. count' = i' - 2 /\ count' # 0
      BY <1>1, <1>2, <2>2 DEF Doomed
    <3>5. Consecutive_count' = raised' + count' - 1
      <4>1. D!Consecutive = raised + count /\ raised \in Int
        BY <1>1, <2>2, ConsecutiveDoomed, DetectTypes
      <4> QED
        BY <1>1, <1>2, <4>1
    <3>6. positions'[count' - 1] = i' - 1
      <4>1. positions'[count] = i
        <5>1. count \in 0 .. MaxLines
          BY <1>1, DetectTypes
        <5> QED
          BY <1>1, <5>1, DetectTypes
      <4>2. count' - 1 = count /\ i' - 1 = i
        BY <1>1, <1>2
      <4> QED
        BY <4>1, <4>2
    <3>7. hist_line_thresh' = 2 /\ raised' > 0 /\ ans' = "s"
      BY <1>1, <2>2 DEF Doomed
    <3> QED
      BY <1>3, <3>2, <3>3, <3>4, <3>5, <3>6, <3>7 DEF Doomed
  <2> QED
    BY <1>4, <2>1, <2>2
<1>6. D!TypeOK'
  <2>1. positions' \in [0 .. MaxLines -> Nat]
    BY <1>1, <1>2, DetectTypes
  <2>2. i' \in Nat /\ count' \in 0 .. MaxLines /\ Consecutive_count' \in 0 .. 2 * MaxLines
    <3>1. D!Consecutive \in Nat /\ D!Consecutive <= MaxLines + count
      BY <1>1, <1>4, CleanConsecutive
    <3> QED
      BY <1>1, <1>2, <3>1
  <2> QED
    BY <1>1, <2>1, <2>2 DEF DetectInv, D!TypeOK
<1> QED
  BY <1>1, <1>5, <1>6 DEF DetectInv

LEMMA DetectRaise == ASSUME DetectInv, D!RaiseThreshold PROVE DetectInv'
<1>1. /\ pc = "row" /\ i <= Len(D!level) /\ hist_line_thresh = 1 /\ count = MaxLines
      /\ hist_line_thresh' = 2 /\ Consecutive_count' = D!Consecutive /\ raised' = D!Consecutive
      /\ positions' = [positions EXCEPT ![count] = i] /\ count' = 0 /\ i' = 2
      /\ pages' = pages /\ page' = page /\ var_sum' = var_sum /\ var_c' = var_c /\ ans' = ans
      /\ Staff_count' = Staff_count /\ Variation' = Variation /\ measured' = measured /\ pc' = pc
  BY DEF D!RaiseThreshold, D!MoreRows, D!CanRaise
<1>2. /\ i \in Nat /\ Level(D!level) /\ Len(D!level) \in Nat /\ MaxLines \in Nat
  BY <1>1, RowFacts, DetectTypes
<1>3. D!level' = D!level
  BY <1>1 DEF D!level
<1>4. Clean
  BY <1>1, <1>2 DEF DetectInv, GivenUp, Doomed
<1>5. D!Consecutive \in Nat /\ D!Consecutive <= MaxLines
  BY <1>1, <1>4, CleanConsecutive
<1>6. Len(D!level) > 1 /\ D!level[1] = 0
  BY <1>2, LevelFacts
<1>7. ASSUME D!Consecutive = 0 PROVE Clean'
  <2>1. Closed(D!level, 2, 2 - 2) = {}
    <3>1. \A g \in GroupsIn(D!level, 2) : g[2] \in Int /\ 2 <= g[1] /\ g[1] <= g[2] /\ g[1] \in Int
      BY <1>2, GroupIs
    <3> QED
      BY <3>1 DEF Closed
  <2>2. Between(0)'
    <3>1. Filed(positions', 0, Closed(D!level', hist_line_thresh', i' - 2))
      BY <1>1, <1>3, <2>1, FiledNone
    <3>2. NoneOpen(D!level', hist_line_thresh', i')
      <4>1. i' - 1 = 1 /\ hist_line_thresh' = 2
        BY <1>1
      <4> QED
        BY <1>3, <1>6, <4>1 DEF NoneOpen
    <3> QED
      BY <1>1, <1>7, <3>1, <3>2 DEF Between
  <2>3. Sums'
    <3>1. ThickOf({}) = {}
      BY DEF ThickOf
    <3> QED
      BY <1>1, <1>3, <1>7, <2>1, <3>1 DEF Sums
  <2>4. i' \in 1 .. Len(D!level') + 1 /\ raised' <= 0 /\ ans' = "s"
    BY <1>1, <1>2, <1>3, <1>4, <1>6, <1>7 DEF Clean
  <2> QED
    BY <2>2, <2>3, <2>4 DEF Clean
<1>8. ASSUME D!Consecutive # 0 PROVE Doomed'
  <2>1. i' \in 2 .. Len(D!level') /\ raised' > 0 /\ count' = i' - 2
    BY <1>1, <1>2, <1>3, <1>5, <1>6, <1>8
  <2>2. \A s \in Int : ~(2 <= s /\ s <= i' - 1)
    BY <1>1
  <2> QED
    BY <1>1, <1>4, <2>1, <2>2 DEF Doomed, Clean
<1>9. D!TypeOK'
  <2>1. positions' \in [0 .. MaxLines -> Nat]
    BY <1>1, <1>2, DetectTypes
  <2>2. i' \in Nat /\ count' \in 0 .. MaxLines /\ Consecutive_count' \in 0 .. 2 * MaxLines /\ hist_line_thresh' \in 1 .. 2
    BY <1>1, <1>2, <1>5
  <2> QED
    BY <1>1, <2>1, <2>2 DEF DetectInv, D!TypeOK
<1>10. raised' \in -1 .. MaxLines
  BY <1>1, <1>2, <1>5
<1>11. Clean' \/ Doomed'
  BY <1>7, <1>8
<1> QED
  BY <1>1, <1>9, <1>10, <1>11 DEF DetectInv

LEMMA DetectGiveUp == ASSUME DetectInv, D!GiveUp PROVE DetectInv'
<1>1. /\ pc = "row" /\ i <= Len(D!level) /\ count = MaxLines
      /\ Consecutive_count' = D!Consecutive
      /\ positions' = [positions EXCEPT ![count] = i] /\ count' = 0 /\ i' = Len(D!level) + 1 /\ ans' = "u"
      /\ pages' = pages /\ page' = page /\ var_sum' = var_sum /\ var_c' = var_c /\ raised' = raised
      /\ hist_line_thresh' = hist_line_thresh
      /\ Staff_count' = Staff_count /\ Variation' = Variation /\ measured' = measured /\ pc' = pc
  BY DEF D!GiveUp, D!MoreRows
<1>2. i \in Nat /\ Len(D!level) \in Nat /\ MaxLines \in Nat
  BY <1>1, RowFacts, DetectTypes
<1>3. D!level' = D!level
  BY <1>1 DEF D!level
<1>4. Clean \/ Doomed
  BY <1>1, <1>2 DEF DetectInv, GivenUp
<1>5. D!Consecutive \in Nat /\ D!Consecutive <= MaxLines + count
  BY <1>1, <1>4, CleanConsecutive
<1>6. GivenUp'
  BY <1>1, <1>3 DEF GivenUp
<1>7. D!TypeOK'
  <2>1. positions' \in [0 .. MaxLines -> Nat]
    BY <1>1, <1>2, DetectTypes
  <2>2. i' \in Nat /\ count' \in 0 .. MaxLines /\ Consecutive_count' \in 0 .. 2 * MaxLines
    BY <1>1, <1>2, <1>5
  <2> QED
    BY <1>1, <2>1, <2>2 DEF DetectInv, D!TypeOK
<1> QED
  BY <1>1, <1>6, <1>7 DEF DetectInv

(* The end of a line: its middle row is filed. *)
LEMMA FiledMiddle ==
  ASSUME NEW H, Level(H), NEW th \in 1 .. 2, NEW r \in 1 .. Len(H), H[r] < th,
         NEW a \in Int, OpenFrom(H, th, a, r),
         NEW P, NEW c \in Nat, Filed(P, c, Closed(H, th, r - 2)),
         NEW Q, \A k \in 0 .. c - 1 : Q[k] = P[k], Q[c] = D!Middle(<<a, r - 1>>)
  PROVE  Filed(Q, c + 1, Closed(H, th, r - 1))
<1> DEFINE g == <<a, r - 1>>
<1>1. /\ Closed(H, th, r - 1) = Closed(H, th, r - 2) \cup {g}
      /\ g \notin Closed(H, th, r - 2)
  BY ClosedNext
<1>2. r \in Nat /\ a <= r - 1 /\ r - 1 \in Int
  BY LevelFacts DEF OpenFrom
<1>3. D!Middle(g) \in Int /\ a <= D!Middle(g)
  BY <1>2, MiddleIs
<1>4. ASSUME NEW h \in Closed(H, th, r - 2) PROVE D!Middle(h) < D!Middle(g)
  <2>1. h[2] < a
    BY <1>2, ClosedAbove
  <2>2. h = <<h[1], h[2]>> /\ h[1] \in Int /\ h[2] \in Int /\ h[1] <= h[2]
    BY GroupIs DEF Closed
  <2>3. D!Middle(h) \in Int /\ D!Middle(h) <= h[2]
    BY <2>2, MiddleIs
  <2> QED
    BY <1>3, <2>1, <2>2, <2>3
<1> HIDE DEF g
<1> DEFINE G == Closed(H, th, r - 2)
<1>5. Q[c] = D!Middle(g)
  BY DEF g
<1>6. Filed(P, c, G) /\ g \notin G /\ \A h \in G : D!Middle(h) < D!Middle(g)
  BY <1>1, <1>4
<1> HIDE DEF G
<1>7. Filed(Q, c + 1, G \cup {g})
  BY <1>3, <1>5, <1>6, FiledAdd
<1> QED
  BY <1>1, <1>7 DEF G

LEMMA SummedMiddle ==
  ASSUME NEW H, Level(H), NEW th \in 1 .. 2, NEW r \in 1 .. Len(H), H[r] < th,
         NEW a \in Int, OpenFrom(H, th, a, r),
         NEW sum \in Nat, NEW number \in Nat, Summed(Closed(H, th, r - 2), sum, number)
  PROVE  /\ a < r - 1 => Summed(Closed(H, th, r - 1), sum + (r - 1 - a), number + 1)
         /\ a = r - 1 => Summed(Closed(H, th, r - 1), sum, number)
<1> DEFINE G == Closed(H, th, r - 2)
           b == r - 1
<1>1. Closed(H, th, b) = G \cup {<<a, b>>} /\ <<a, b>> \notin G
  BY ClosedNext
<1>2. b \in Int
  BY LevelFacts
<1>3. Summed(G, sum, number)
  OBVIOUS
<1> HIDE DEF G, b
<1>4. /\ a < b => Summed(G \cup {<<a, b>>}, sum + (b - a), number + 1)
      /\ a = b => Summed(G \cup {<<a, b>>}, sum, number)
  BY <1>1, <1>2, <1>3, SummedAdd
<1>5. /\ a < b => Summed(Closed(H, th, b), sum + (b - a), number + 1)
      /\ a = b => Summed(Closed(H, th, b), sum, number)
  BY <1>1, <1>4
<1> QED
  BY <1>5 DEF b

LEMMA DetectEndGroup == ASSUME DetectInv, D!EndGroup PROVE DetectInv'
<1>1. /\ pc = "row" /\ i <= Len(D!level) /\ ~(D!level[i] >= hist_line_thresh) /\ Consecutive_count > 0
      /\ count' = count - Consecutive_count /\ i' = i + 1 /\ Consecutive_count' = 0
      /\ count' < 1 => pc' = "wild" /\ positions' = positions /\ var_sum' = var_sum /\ var_c' = var_c
      /\ ~(count' < 1) =>
           /\ positions' = [positions EXCEPT
                              ![count' - 1] = positions[count' - 1 + Consecutive_count \div 2]]
           /\ var_sum' = var_sum + Consecutive_count
           /\ var_c' = var_c + 1
           /\ pc' = pc
      /\ pages' = pages /\ page' = page /\ hist_line_thresh' = hist_line_thresh /\ ans' = ans
      /\ Staff_count' = Staff_count /\ Variation' = Variation /\ measured' = measured /\ raised' = raised
  BY DEF D!EndGroup, D!MoreRows, D!Line
<1> DEFINE H == D!level
           th == hist_line_thresh
<1>2. H' = H /\ th' = th
  BY <1>1 DEF D!level
<1>3. /\ Level(H) /\ Len(H) \in Nat /\ th \in 1 .. 2 /\ i \in Int /\ i \in Nat /\ count \in Int /\ count >= 0
      /\ \A r \in 1 .. Len(H) : H[r] \in Int
      /\ count <= MaxLines /\ MaxLines \in Nat
  BY <1>1, RowFacts, DetectTypes
<1>4. Consecutive_count \in Int /\ var_sum \in Nat /\ var_c \in Nat
      /\ positions \in [0 .. MaxLines -> Nat]
  BY DetectTypes
<1>5. Clean \/ Doomed
  BY <1>1, <1>3 DEF DetectInv, GivenUp
<1> HIDE DEF H, th
<1>6. ASSUME Doomed PROVE DetectInv'
  <2>1. raised > 0 /\ raised \in Int
    BY <1>6, DetectTypes DEF Doomed
  <2>2. count' < 1
    BY <1>1, <1>3, <1>6, <2>1 DEF Doomed
  <2>3. D!TypeOK'
    BY <1>1, <1>3, <2>2, DetectTypes DEF DetectInv, D!TypeOK
  <2> QED
    BY <1>1, <2>1, <2>2, <2>3 DEF DetectInv
<1>7. ASSUME NEW c \in Nat, Between(c) PROVE FALSE
  BY <1>1, <1>7 DEF Between
<1>8. ASSUME Clean, NEW c \in Nat, NEW a \in Int, Within(c, a) PROVE DetectInv'
  <2>1. /\ Filed(positions, c, Closed(H, th, i - 2)) /\ OpenFrom(H, th, a, i) /\ count = c + (i - a)
        /\ Consecutive_count = i - a - 1
        /\ \A s \in Int : (a <= s /\ s <= i - 1) => positions[c + (s - a)] = s
        /\ a \in 2 .. i - 1
    BY <1>8 DEF Within, OpenFrom, H, th
  <2>2. i \in 1 .. Len(H) /\ H[i] < th /\ i' - 2 = i - 1 /\ i' - 1 = i /\ i' \in Int
    <3>1. i \in 1 .. Len(H)
      BY <1>1, <1>3, <1>8 DEF Clean, H
    <3>2. H[i] < th
      BY <1>1, <1>3, <3>1 DEF H, th
    <3> QED
      BY <1>1, <1>3, <3>1, <3>2
  <2>3. count' = c + 1 /\ ~(count' < 1) /\ count' - 1 = c /\ count' \in Int /\ c + 1 <= count
    <3>1. count' = count - Consecutive_count /\ count = c + (i - a) /\ Consecutive_count = i - a - 1
          /\ Consecutive_count > 0
      BY <1>1, <2>1
    <3>2. i \in Int
      BY <1>3
    <3> QED
      BY <3>1, <3>2
  <2>4. /\ Consecutive_count \div 2 \in Int /\ 0 <= Consecutive_count \div 2
        /\ Consecutive_count \div 2 <= Consecutive_count
    BY <1>1, <1>4
  <2>5. D!Middle(<<a, i - 1>>) = a + Consecutive_count \div 2
    <3>1. D!Middle(<<a, i - 1>>) = a + (i - 1 - a) \div 2
      <4>1. a <= i - 1 /\ i - 1 \in Int
        BY <1>3, <2>1
      <4> QED
        BY <4>1, MiddleIs
    <3>2. i - 1 - a = Consecutive_count
      BY <1>3, <2>1
    <3> QED
      BY <3>1, <3>2
  <2>6. positions[count' - 1 + Consecutive_count \div 2] = a + Consecutive_count \div 2
    <3> DEFINE s == a + Consecutive_count \div 2
    <3>1. s \in Int /\ a <= s /\ s <= i - 1 /\ s - a = Consecutive_count \div 2
      BY <1>3, <2>1, <2>4
    <3> HIDE DEF s
    <3>2. positions[c + (s - a)] = s
      BY <2>1, <3>1
    <3> QED
      BY <2>3, <3>1, <3>2 DEF s
  <2>7. /\ positions' = [positions EXCEPT ![c] = D!Middle(<<a, i - 1>>)]
        /\ D!Middle(<<a, i - 1>>) \in Nat /\ c \in 0 .. MaxLines
    <3>1. c \in 0 .. MaxLines
      BY <1>3, <2>1, <2>3
    <3>2. D!Middle(<<a, i - 1>>) \in Nat
      BY <1>3, <2>1, <2>4, <2>5
    <3> QED
      BY <1>1, <2>3, <2>5, <2>6, <3>1, <3>2
  <2>8. positions' \in [0 .. MaxLines -> Nat] /\ positions'[c] = D!Middle(<<a, i - 1>>)
        /\ \A k \in 0 .. c - 1 : positions'[k] = positions[k]
    BY <1>4, <2>7
  <2>9. Filed(positions', c + 1, Closed(H, th, i - 1))
    <3>1. Filed(positions, c, Closed(H, th, i - 2)) /\ OpenFrom(H, th, a, i) /\ H[i] < th /\ i \in 1 .. Len(H)
      BY <2>1, <2>2
    <3> QED
      BY <1>3, <2>8, <3>1, FiledMiddle
  <2>10. NoneOpen(H, th, i')
    BY <2>2 DEF NoneOpen
  <2>11. Between(c + 1)'
    BY <1>1, <1>2, <2>2, <2>3, <2>9, <2>10 DEF Between, H, th
  <2>12. Closed(H, th, i - 1) = Closed(H, th, i - 2) \cup {<<a, i - 1>>} /\ <<a, i - 1>> \notin Closed(H, th, i - 2)
    BY <1>3, <2>1, <2>2, ClosedNext
  <2>13. a < i - 1 /\ a \in Int /\ i - 1 \in Int /\ i - 1 - a = Consecutive_count
    BY <1>1, <1>3, <2>1
  <2>14. raised = -1 => Summed(Closed(H, th, i - 1), var_sum + Consecutive_count, var_c + 1)
    <3>1. raised = -1 => Summed(Closed(H, th, i - 2), var_sum, var_c)
      BY <1>8 DEF Clean, Sums, H, th
    <3>2. /\ a < i - 1 /\ i - 1 - a = Consecutive_count
          /\ H[i] < th /\ i \in 1 .. Len(H) /\ OpenFrom(H, th, a, i)
      BY <2>1, <2>2, <2>13
    <3>3. raised = -1 => Summed(Closed(H, th, i - 1), var_sum + (i - 1 - a), var_c + 1)
      BY <1>3, <1>4, <3>1, <3>2, SummedMiddle
    <3> QED
      BY <3>2, <3>3
  <2>15. Sums'
    BY <1>1, <1>2, <1>4, <2>2, <2>3, <2>14 DEF Sums, H, th
  <2>16. Clean'
    <3>1. i' \in 1 .. Len(H') + 1 /\ raised' <= 0 /\ ans' = "s"
      BY <1>1, <1>2, <1>3, <1>8, <2>2 DEF Clean
    <3>2. c + 1 \in Nat
      OBVIOUS
    <3> QED
      BY <2>11, <2>15, <3>1, <3>2 DEF Clean, H
  <2>17. D!TypeOK'
    <3>1. i' \in Nat /\ count' \in 0 .. MaxLines
      <4>1. i' = i + 1 /\ i \in Nat /\ MaxLines \in Nat /\ count \in Int /\ count <= MaxLines
        BY <1>1, <1>3
      <4> QED
        BY <2>3, <4>1
    <3>2. Consecutive_count' \in 0 .. 2 * MaxLines
      BY <1>1, <1>3
    <3> QED
      BY <1>1, <2>3, <2>8, <3>1, <3>2 DEF DetectInv, D!TypeOK
  <2>18. var_sum' \in Nat /\ var_c' \in Nat
    BY <1>1, <1>4, <2>3
  <2> QED
    BY <1>1, <2>3, <2>16, <2>17, <2>18 DEF DetectInv
<1> QED
  BY <1>5, <1>6, <1>7, <1>8 DEF Clean

LEMMA DetectOtherRow == ASSUME DetectInv, D!OtherRow PROVE DetectInv'
<1>1. /\ pc = "row" /\ i <= Len(D!level) /\ ~(D!level[i] >= hist_line_thresh) /\ Consecutive_count = 0
      /\ i' = i + 1
      /\ pages' = pages /\ page' = page /\ hist_line_thresh' = hist_line_thresh /\ ans' = ans
      /\ count' = count /\ Consecutive_count' = Consecutive_count /\ positions' = positions
      /\ var_sum' = var_sum /\ var_c' = var_c /\ pc' = pc
      /\ Staff_count' = Staff_count /\ Variation' = Variation /\ measured' = measured /\ raised' = raised
  BY DEF D!OtherRow, D!MoreRows, D!Line
<1> DEFINE H == D!level
           th == hist_line_thresh
<1>2. H' = H /\ th' = th
  BY <1>1 DEF D!level
<1>3. /\ Level(H) /\ Len(H) \in Nat /\ th \in 1 .. 2 /\ i \in Int /\ i \in Nat /\ count \in Int /\ count >= 0
      /\ \A r \in 1 .. Len(H) : H[r] \in Int
      /\ count <= MaxLines /\ MaxLines \in Nat
  BY <1>1, RowFacts, DetectTypes
<1>4. var_sum \in Nat /\ var_c \in Nat
  BY DetectTypes
<1>5. Clean \/ Doomed
  BY <1>1, <1>3 DEF DetectInv, GivenUp
<1>6. ~Doomed
  <2>1. raised \in Int
    BY DetectTypes
  <2> QED
    BY <1>1, <1>3, <2>1 DEF Doomed
<1>7. Clean /\ raised <= 0 /\ ans = "s"
  BY <1>5, <1>6 DEF Clean
<1>8. i \in 1 .. Len(H) /\ H[i] < th /\ i' - 2 = i - 1 /\ i' - 1 = i /\ i' \in Int /\ i' \in Nat
  <2>1. i \in 1 .. Len(H)
    BY <1>1, <1>3, <1>7 DEF Clean, H
  <2>2. H[i] < th
    BY <1>1, <1>3, <2>1 DEF H, th
  <2> QED
    BY <1>1, <1>3, <2>1, <2>2
<1> HIDE DEF H, th
<1>9. NoneOpen(H, th, i')
  BY <1>8 DEF NoneOpen
<1>10. raised = -1 => Summed(Closed(H, th, i - 2), var_sum, var_c)
  BY <1>7 DEF Clean, Sums, H, th
<1>11. ThickOf(Closed(H, th, i - 2)) # {} => var_c > 0
  BY <1>7 DEF Clean, Sums, H, th
<1>12. ASSUME NEW c \in Nat, Between(c)
       PROVE  /\ Between(c)'
              /\ Sums'
  <2>1. Filed(positions, c, Closed(H, th, i - 2)) /\ NoneOpen(H, th, i) /\ count = c
    BY <1>12 DEF Between, H, th
  <2>2. Closed(H, th, i - 1) = Closed(H, th, i - 2)
    BY <1>3, <1>8, <2>1, ClosedNext DEF NoneOpen
  <2>3. Between(c)'
    BY <1>1, <1>2, <1>8, <1>9, <2>1, <2>2 DEF Between, H, th
  <2>4. Sums'
    BY <1>1, <1>2, <1>8, <1>10, <1>11, <2>2 DEF Sums, H, th
  <2> QED
    BY <2>3, <2>4
<1>13. ASSUME NEW c \in Nat, NEW a \in Int, Within(c, a)
       PROVE  /\ Between(c + 1)'
              /\ Sums'
  <2>1. /\ Filed(positions, c, Closed(H, th, i - 2)) /\ OpenFrom(H, th, a, i) /\ count = c + (i - a)
        /\ Consecutive_count = i - a - 1
        /\ \A s \in Int : (a <= s /\ s <= i - 1) => positions[c + (s - a)] = s
        /\ a \in 2 .. i - 1
    BY <1>13 DEF Within, OpenFrom, H, th
  <2>2. a = i - 1 /\ count = c + 1
    BY <1>1, <1>3, <2>1
  <2>3. positions[c] = D!Middle(<<a, i - 1>>)
    <3>1. positions[c + (a - a)] = a /\ c + (a - a) = c
      BY <1>3, <2>1, <2>2
    <3>2. D!Middle(<<a, i - 1>>) \in Int /\ a <= D!Middle(<<a, i - 1>>) /\ D!Middle(<<a, i - 1>>) <= i - 1
      BY <1>3, <2>2, MiddleIs
    <3>3. D!Middle(<<a, i - 1>>) = a
      BY <1>3, <2>2, <3>2
    <3> QED
      BY <3>1, <3>3
  <2>4. Filed(positions, c + 1, Closed(H, th, i - 1))
    BY <1>3, <1>8, <2>1, <2>3, FiledMiddle
  <2>5. Between(c + 1)'
    BY <1>1, <1>2, <1>8, <1>9, <2>2, <2>4 DEF Between, H, th
  <2>6. Closed(H, th, i - 1) = Closed(H, th, i - 2) \cup {<<a, i - 1>>} /\ <<a, i - 1>> \notin Closed(H, th, i - 2)
    BY <1>3, <1>8, <2>1, ClosedNext
  <2>7. raised = -1 => Summed(Closed(H, th, i - 1), var_sum, var_c)
    <3>1. a = i - 1 /\ H[i] < th /\ i \in 1 .. Len(H) /\ OpenFrom(H, th, a, i)
      BY <1>8, <2>1, <2>2
    <3> QED
      BY <1>3, <1>4, <1>10, <3>1, SummedMiddle
  <2>8. ThickOf(Closed(H, th, i - 1)) = ThickOf(Closed(H, th, i - 2))
    <3>1. <<a, i - 1>>[1] = a /\ <<a, i - 1>>[2] = a /\ ~(a < a)
      BY <2>2
    <3> HIDE <2>2
    <3> QED
      BY <2>6, <3>1 DEF ThickOf
  <2>9. Sums'
    BY <1>1, <1>2, <1>8, <1>11, <2>7, <2>8 DEF Sums, H, th
  <2> QED
    BY <2>5, <2>9
<1>14. Sums' /\ \E c \in Nat : Between(c)'
  <2>1. PICK c \in Nat : Between(c) \/ \E a \in Int : Within(c, a)
    BY <1>7 DEF Clean
  <2>2. c + 1 \in Nat
    OBVIOUS
  <2> QED
    BY <1>12, <1>13, <2>1, <2>2
<1>15. Clean'
  <2>1. i' \in 1 .. Len(H') + 1 /\ raised' <= 0 /\ ans' = "s"
    BY <1>1, <1>2, <1>3, <1>7, <1>8
  <2> QED
    BY <1>14, <2>1 DEF Clean, H
<1>16. D!TypeOK'
  BY <1>1, <1>8 DEF DetectInv, D!TypeOK
<1> QED
  BY <1>1, <1>15, <1>16 DEF DetectInv

LEMMA DetectEndRows == ASSUME DetectInv, D!EndRows PROVE DetectInv'
<1>1. /\ pc = "row" /\ ~(i <= Len(D!level))
      /\ \/ count < MinLines /\ Staff_count' = 0 /\ ans' = "u"
         \/ ~(count < MinLines) /\ Staff_count' = count /\ ans' = ans
      /\ pc' = "type" /\ i' = i
      /\ pages' = pages /\ page' = page /\ hist_line_thresh' = hist_line_thresh
      /\ count' = count /\ Consecutive_count' = Consecutive_count /\ positions' = positions
      /\ var_sum' = var_sum /\ var_c' = var_c
      /\ Variation' = Variation /\ measured' = measured /\ raised' = raised
  BY DEF D!EndRows, D!MoreRows, D!scan
<1> DEFINE H == D!level
           th == hist_line_thresh
<1>2. H' = H /\ th' = th
  BY <1>1 DEF D!level
<1>3. /\ Level(H) /\ Len(H) \in Nat /\ th \in 1 .. 2 /\ i \in Int /\ count \in 0 .. MaxLines
      /\ MaxLines \in Nat
  BY <1>1, RowFacts, DetectTypes
<1>4. D!TypeOK'
  <2>1. Staff_count' \in 0 .. MaxLines /\ ans' \in {"s", "n", "y", "u"}
    BY <1>1, <1>3 DEF DetectInv, D!TypeOK
  <2> QED
    BY <1>1, <2>1 DEF DetectInv, D!TypeOK
<1>5. Closed(H, th, Len(H) - 1) = GroupsIn(H, th)
  <2>1. \A g \in GroupsIn(H, th) : g[2] \in Int /\ g[2] < Len(H)
    BY <1>3, GroupIs
  <2>2. \A g \in GroupsIn(H, th) : g[2] <= Len(H) - 1
    BY <1>3, <2>1
  <2> QED
    BY <2>2 DEF Closed
<1> HIDE DEF H, th
<1>6. ASSUME Clean, ans' # "u" PROVE Typed'
  <2>1. i = Len(H) + 1 /\ ans = "s" /\ raised <= 0
    BY <1>1, <1>3, <1>6 DEF Clean, H
  <2>2. i - 2 = Len(H) - 1 /\ i - 1 = Len(H)
    BY <1>3, <2>1
  <2>3. ASSUME NEW c \in Nat, NEW a \in Int, Within(c, a) PROVE FALSE
    <3>1. OpenFrom(H, th, a, i)
      BY <2>3 DEF Within, H, th
    <3>2. a <= i - 1 /\ i - 1 \in Int
      BY <1>3, <3>1 DEF OpenFrom
    <3>3. H[Len(H)] >= th
      BY <2>2, <3>1, <3>2 DEF OpenFrom
    <3> QED
      BY <1>3, <3>3, LevelFacts
  <2>4. PICK c \in Nat : Between(c)
    BY <1>6, <2>3 DEF Clean
  <2>5. Filed(positions, count, GroupsIn(H, th))
    BY <1>5, <2>2, <2>4 DEF Between, H, th
  <2>6. /\ raised = -1 => Summed(GroupsIn(H, th), var_sum, var_c)
        /\ ThickOf(GroupsIn(H, th)) # {} => var_c > 0
    BY <1>5, <1>6, <2>2 DEF Clean, Sums, H, th
  <2>7. Staff_count' = count /\ ans' = ans
    BY <1>1, <1>6
  <2> QED
    BY <1>1, <1>2, <2>1, <2>5, <2>6, <2>7 DEF Typed, H, th
<1>7. ~Doomed
  BY <1>1, <1>3 DEF Doomed, H
<1>8. GivenUp => ans' = "u"
  BY <1>1, DetectInputs DEF GivenUp
<1>9. ans' = "u" => Typed'
  BY DEF Typed
<1>10. Typed'
  BY <1>1, <1>6, <1>7, <1>8, <1>9 DEF DetectInv
<1> QED
  BY <1>1, <1>4, <1>10 DEF DetectInv

LEMMA ThickIs ==
  ASSUME pages \in Documents, page \in DOMAIN pages
  PROVE  D!Thick = ThickOf(GroupsIn(D!level, hist_line_thresh))
BY LevelOfPage DEF D!Thick, ThickOf

LEMMA DetectVary == ASSUME DetectInv, D!Vary PROVE DetectInv'
<1>1. /\ pc = "type" /\ pc' = "route" /\ i' = i
      /\ pages' = pages /\ page' = page /\ hist_line_thresh' = hist_line_thresh
      /\ count' = count /\ Consecutive_count' = Consecutive_count /\ positions' = positions
      /\ var_sum' = var_sum /\ var_c' = var_c
      /\ Staff_count' = Staff_count /\ raised' = raised
  BY DEF D!Vary, D!scan
<1>2. ASSUME var_c > 0
      PROVE  /\ Variation' = <<var_sum, var_c>> /\ measured' = page
             /\ ans' \in {"y", "n"} \cup {ans}
             /\ D!Above(Variation', 26) => ans' = "y"
  BY <1>2 DEF D!Vary
<1>3. ~(var_c > 0) => Variation' = Variation /\ measured' = measured /\ ans' = ans
  BY DEF D!Vary
<1>4. page \in DOMAIN pages /\ pages \in Documents /\ Typed /\ ans \in {"s", "u"}
  BY <1>1 DEF DetectInv, Typed
<1>5. D!level' = D!level /\ D!Thick' = D!Thick
  BY <1>1 DEF D!level, D!Thick, D!Groups
<1>6. D!OwnVariation'
  <2>1. CASE var_c > 0
    BY <1>1, <1>2, <2>1 DEF D!OwnVariation, D!Horizontal, D!ParametersSet
  <2>2. CASE ~(var_c > 0)
    <3>1. ans' # "n" /\ ans' = ans
      BY <1>3, <1>4, <2>2
    <3>2. ans = "s" => D!Thick = {}
      BY <1>4, <2>2, ThickIs DEF Typed
    <3> QED
      BY <1>4, <1>5, <3>1, <3>2 DEF D!OwnVariation, D!Horizontal
  <2> QED
    BY <2>1, <2>2
<1>7. D!TypeOK'
  <2>1. Variation' \in Nat \X (Nat \ {0}) /\ measured' \in 0 .. Len(pages)
    <3>1. CASE var_c > 0
      <4>1. page \in 0 .. Len(pages)
        BY <1>4, DetectTypes
      <4>2. var_sum \in Nat /\ var_c \in Nat \ {0}
        BY <3>1, DetectTypes
      <4> QED
        BY <1>2, <3>1, <4>1, <4>2
    <3>2. CASE ~(var_c > 0)
      BY <1>3, <3>2 DEF DetectInv, D!TypeOK
    <3> QED
      BY <3>1, <3>2
  <2>2. ans' \in {"s", "n", "y", "u"}
    BY <1>2, <1>3, <1>4
  <2> QED
    BY <1>1, <2>1, <2>2 DEF DetectInv, D!TypeOK
<1> QED
  BY <1>1, <1>6, <1>7 DEF DetectInv

LEMMA DetectRoute == ASSUME DetectInv, D!Route PROVE DetectInv'
<1>1. /\ pc = "route" /\ page' = page + 1 /\ pc' = "page" /\ i' = i
      /\ pages' = pages /\ hist_line_thresh' = hist_line_thresh
      /\ count' = count /\ Consecutive_count' = Consecutive_count /\ positions' = positions
      /\ var_sum' = var_sum /\ var_c' = var_c /\ ans' = ans
      /\ Staff_count' = Staff_count /\ Variation' = Variation /\ measured' = measured /\ raised' = raised
  BY DEF D!Route, D!scan
<1>2. page \in DOMAIN pages /\ pages[page].loads /\ \A k \in 1 .. page - 1 : pages[k].loads
  BY <1>1 DEF DetectInv
<1>3. page \in Nat /\ page' \in 1 .. Len(pages) + 1
  BY <1>1, <1>2, DetectTypes
<1>4. \A k \in 1 .. page' - 1 : k = page \/ k \in 1 .. page - 1
  BY <1>1, <1>3
<1>5. D!TypeOK'
  BY <1>1, <1>3 DEF DetectInv, D!TypeOK
<1> QED
  BY <1>1, <1>2, <1>4, <1>5 DEF DetectInv

LEMMA DetectLeave == ASSUME DetectInv, D!CannotLoad \/ D!EndPages PROVE DetectInv'
<1>1. /\ pc = "page" /\ i' = i /\ page' = page /\ pages' = pages /\ hist_line_thresh' = hist_line_thresh
      /\ count' = count /\ Consecutive_count' = Consecutive_count /\ positions' = positions
      /\ var_sum' = var_sum /\ var_c' = var_c /\ ans' = ans
      /\ Staff_count' = Staff_count /\ Variation' = Variation /\ measured' = measured /\ raised' = raised
      /\ pc' = "caught" \/ (pc' = "done" /\ page > Len(pages))
  BY DEF D!CannotLoad, D!EndPages, D!scan
<1>2. page > Len(pages) => page = Len(pages) + 1
  BY DetectTypes
<1>3. D!TypeOK'
  BY <1>1 DEF DetectInv, D!TypeOK
<1> QED
  BY <1>1, <1>2, <1>3 DEF DetectInv

LEMMA DetectSame ==
  ASSUME DetectInv,
         i' = i, page' = page, pages' = pages, hist_line_thresh' = hist_line_thresh,
         count' = count, Consecutive_count' = Consecutive_count, positions' = positions,
         var_sum' = var_sum, var_c' = var_c, ans' = ans, Staff_count' = Staff_count,
         Variation' = Variation, measured' = measured, raised' = raised, pc' = pc
  PROVE  DetectInv'
<1>1. D!level' = D!level
  BY DEF D!level
<1>2. D!TypeOK'
  BY DEF DetectInv, D!TypeOK
<1>3. Clean => Clean'
  <2>1. Sums => Sums'
    BY <1>1 DEF Sums
  <2>2. ASSUME NEW c \in Nat PROVE Between(c) => Between(c)'
    BY <1>1 DEF Between
  <2>3. ASSUME NEW c \in Nat, NEW a \in Int PROVE Within(c, a) => Within(c, a)'
    BY <1>1 DEF Within
  <2> QED
    BY <1>1, <2>1, <2>2, <2>3 DEF Clean
<1>4. Doomed => Doomed'
  BY <1>1 DEF Doomed
<1>5. GivenUp => GivenUp'
  BY <1>1 DEF GivenUp
<1>6. Typed => Typed'
  BY <1>1 DEF Typed
<1>7. D!OwnVariation => D!OwnVariation'
  BY <1>1 DEF D!OwnVariation, D!Horizontal, D!ParametersSet, D!Thick, D!Groups
<1> QED
  BY <1>2, <1>3, <1>4, <1>5, <1>6, <1>7 DEF DetectInv

LEMMA DetectNext == ASSUME DetectInv, D!Next PROVE DetectInv'
BY DetectStart, DetectLine, DetectRaise, DetectGiveUp, DetectEndGroup, DetectOtherRow, DetectEndRows,
   DetectVary, DetectRoute, DetectLeave DEF D!Next

DetectedInv == function = "type_detect" => DetectInv

LEMMA DetectedInductive ==
  /\ Init => DetectedInv
  /\ DetectedInv /\ [Next]_<<function, pages, page, i, pc, thinning, detected, scanned, cut>>
       => DetectedInv'
<1>1. Init => DetectedInv
  BY DetectInit DEF Init, DetectedInv
<1>2. ASSUME DetectedInv, function' = "type_detect",
             [Next]_<<function, pages, page, i, pc, thinning, detected, scanned, cut>>
      PROVE  DetectInv'
  <2>1. CASE Detection
    BY <1>2, <2>1, DetectNext DEF Detection, DetectedInv
  <2>2. CASE Thinning \/ Scan \/ Extraction
    BY <1>2, <2>2 DEF Thinning, Scan, Extraction
  <2>3. CASE UNCHANGED <<function, pages, page, i, pc, thinning, detected, scanned, cut>>
    BY <1>2, <2>3, DetectSame DEF detected, DetectedInv
  <2> QED
    BY <1>2, <2>1, <2>2, <2>3 DEF Next
<1>3. ASSUME DetectedInv, [Next]_<<function, pages, page, i, pc, thinning, detected, scanned, cut>>
      PROVE  DetectedInv'
  BY <1>2, <1>3 DEF DetectedInv
<1> QED
  BY <1>1, <1>3

LEMMA DetectPositions == ASSUME DetectInv, D!Scanned PROVE D!PositionsExact
<1> DEFINE G == GroupsIn(D!level, hist_line_thresh)
<1>1. Typed /\ ans # "u" /\ page \in DOMAIN pages /\ pages \in Documents
  BY DEF DetectInv, D!Scanned
<1>2. D!Groups(hist_line_thresh) = G
  BY <1>1, LevelOfPage
<1> HIDE DEF G
<1>3. Filed(positions, Staff_count, G)
  BY <1>1 DEF Typed, G
<1>4. D!Cardinality(G) = Staff_count
  BY <1>3, SameCount DEF Filed
<1>5. {positions[k] : k \in 0 .. Staff_count - 1} = {D!Middle(g) : g \in G}
  BY <1>3 DEF Filed
<1>6. \A k, m \in 0 .. Staff_count - 1 : k < m => positions[k] < positions[m]
  BY <1>3 DEF Filed
<1> QED
  BY <1>2, <1>4, <1>5, <1>6 DEF D!PositionsExact

LEMMA DetectVariation == ASSUME DetectInv, D!Scanned, raised = -1 PROVE D!VariationExact
<1> DEFINE G == GroupsIn(D!level, hist_line_thresh)
<1>1. Typed /\ ans # "u" /\ page \in DOMAIN pages /\ pages \in Documents
  BY DEF DetectInv, D!Scanned
<1>2. D!Thick = ThickOf(G)
  BY <1>1, ThickIs
<1>3. Summed(G, var_sum, var_c)
  BY <1>1 DEF Typed
<1> HIDE DEF G
<1>4. Extra(G) = UNION {{<<g, r>> : r \in g[1] + 1 .. g[2]} : g \in ThickOf(G)}
  BY DEF Extra, ExtraRows
<1>5. D!Cardinality(ThickOf(G)) = var_c /\ D!Cardinality(Extra(G)) = var_sum
  BY <1>3, SameCount DEF Summed
<1> QED
  BY <1>2, <1>4, <1>5 DEF D!VariationExact

(* type_detect: for every page, threshold and size of the array, the       *)
(* positions a scan ends with are the middle rows of the page's lines, all *)
(* of them, from top to bottom; an element before the array is written     *)
(* only when the scan was restarted within a line.                         *)
THEOREM StaffLinesExactHolds == Spec => []StaffLinesExact
<1>1. DetectedInv => StaffLinesExact
  <2>1. ASSUME DetectInv PROVE D!TypeOK /\ D!PositionsExact /\ D!WildExplained
    <3>1. D!Scanned => D!PositionsExact
      BY <2>1, DetectPositions
    <3>2. ~D!Scanned => D!PositionsExact
      BY DEF D!PositionsExact
    <3> QED
      BY <2>1, <3>1, <3>2 DEF DetectInv, D!WildExplained
  <2> QED
    BY <2>1 DEF DetectedInv, StaffLinesExact
<1> QED
  BY <1>1, DetectedInductive, PTL DEF Spec

(* type_detect and main's loop: the mean height of the lines is that of    *)
(* the page's own, a page with a line of more than one row is sent to      *)
(* HorizontalScan with a Variation measured on it, and a program that ends *)
(* of itself has treated every page.                                       *)
THEOREM PagesKeptApartHolds == Spec => []PagesKeptApart
<1>1. DetectedInv => PagesKeptApart
  <2>1. ASSUME DetectInv PROVE D!VariationExact /\ D!OwnVariation /\ D!NonePassedOver
    <3>1. D!VariationExact
      <4>1. D!Scanned /\ raised = -1 => D!VariationExact
        BY <2>1, DetectVariation
      <4>2. ~(D!Scanned /\ raised = -1) => D!VariationExact
        BY DEF D!VariationExact
      <4> QED
        BY <4>1, <4>2
    <3>2. D!OwnVariation
      BY <2>1 DEF DetectInv, D!OwnVariation
    <3>3. D!NonePassedOver
      <4>1. pc = "done" => \A k \in 1 .. Len(pages) : pages[k].loads
        <5>1. pc = "done" => page - 1 = Len(pages)
          BY <2>1, DetectTypes DEF DetectInv
        <5> QED
          BY <2>1, <5>1 DEF DetectInv
      <4> QED
        BY <2>1, <4>1, DetectTypes DEF D!NonePassedOver
    <3> QED
      BY <3>1, <3>2, <3>3
  <2> QED
    BY <2>1 DEF DetectedInv, PagesKeptApart
<1> QED
  BY <1>1, DetectedInductive, PTL DEF Spec

-----------------------------------------------------------------------------
(* VerticalThinning. *)

LEMMA CountIs == ASSUME NEW X PROVE V!Cardinality(X) = Cardinality(X)
  BY DEF V!Cardinality, Cardinality

LEMMA ThinningTypes ==
  ASSUME V!TypeOK
  PROVE  /\ Top \in Nat /\ Top > 0 /\ Bottom \in Nat /\ Top < Bottom
         /\ Left \in Nat /\ Left > 0 /\ Right \in Nat /\ Left < Right
         /\ j \in Int /\ Left <= j /\ j < Right /\ j \in V!Column
         /\ i \in Int /\ Top <= i /\ i <= Bottom + 1
         /\ start \in Int /\ 0 <= start /\ start < Bottom /\ end \in Int /\ 0 <= end /\ end < Bottom
         /\ V!Row = {q \in Int : Top <= q /\ q < Bottom}
         /\ out_image \in [Left - 1 .. Right - 1 -> SUBSET (Top - 1 .. Bottom)]
         /\ p_height \in [V!Size -> Nat] /\ p_space \in [V!Size -> Nat]
<1>1. /\ Top \in Nat /\ Top > 0 /\ Bottom \in Nat /\ Top < Bottom
      /\ Left \in Nat /\ Left > 0 /\ Right \in Nat /\ Left < Right
  BY PreprocessingAssumption DEF V!Inputs
<1>2. V!Row = {q \in Int : Top <= q /\ q < Bottom}
  BY <1>1 DEF V!Row
<1> QED
  BY <1>1, <1>2 DEF V!TypeOK, V!Column

LEMMA EndOfIs ==
  ASSUME NEW r \in Nat, r <= Bottom, Bottom \in Nat, NEW rows
  PROVE  /\ V!EndOf(r, rows) \in Int /\ r <= V!EndOf(r, rows) /\ V!EndOf(r, rows) <= Bottom
         /\ V!EndOf(r, rows) = Bottom \/ V!EndOf(r, rows) \notin rows
         /\ \A q \in Int : (r <= q /\ q < V!EndOf(r, rows)) => q \in rows
<1> DEFINE N == {e \in r .. Bottom : e = Bottom \/ e \notin rows}
           Is(e) == (e = Bottom \/ e \notin rows) /\ r .. e - 1 \subseteq rows
<1>1. Bottom \in N /\ N \in SUBSET Nat
  OBVIOUS
<1>2. PICK e \in N : \A y \in N : e <= y
  <2> HIDE DEF N
  <2> QED
    BY <1>1, LeastNat
<1>3. ASSUME NEW q \in r .. e - 1 PROVE q \in rows
  <2>1. q \in r .. Bottom /\ q < e
    BY <1>2
  <2>2. q \notin N
    BY <1>2, <2>1
  <2> QED
    BY <2>1, <2>2
<1>4. \E x \in r .. Bottom : Is(x)
  BY <1>2, <1>3
<1>5. V!EndOf(r, rows) = CHOOSE x \in r .. Bottom : Is(x)
  BY DEF V!EndOf
<1> HIDE DEF Is
<1>6. V!EndOf(r, rows) \in r .. Bottom /\ Is(V!EndOf(r, rows))
  BY <1>4, <1>5
<1> QED
  BY <1>6 DEF Is

LEMMA ThinnedIs ==
  ASSUME V!TypeOK, NEW s \in Int, NEW e \in Int, Top <= s, s <= e, e < Bottom,
         \A q \in Int : (s <= q /\ q <= e) => q \in image[j]
  PROVE  /\ V!Thinned(s, e) \subseteq s - 1 .. e + 1
         /\ V!Thinned(s, e) # {}
         /\ \A p \in V!Near(s, e) : p - 1 \notin V!Near(s, e) => {p - 1, p, p + 1} \cap V!Thinned(s, e) # {}
<1> DEFINE pos == V!Near(s, e)
           p0 == CHOOSE q \in pos : TRUE
           m == V!Centre(s, e)
           T == V!Thinned(s, e)
<1>1. pos \subseteq s - 1 .. e + 1 /\ pos \in SUBSET Nat /\ IsFiniteSet(pos)
  <2>1. pos \subseteq s - 1 .. e + 1
    BY DEF V!Near
  <2>2. s - 1 \in Nat /\ e + 1 \in Nat
    BY ThinningTypes
  <2>3. IsFiniteSet(s - 1 .. e + 1)
    BY <2>2, FS_Interval
  <2> HIDE DEF pos
  <2>4. IsFiniteSet(pos)
    BY <2>1, <2>3, FS_Subset
  <2> QED
    BY <2>1, <2>2, <2>4
<1>2. m \in Int /\ s <= m /\ m <= e
  BY DEF V!Centre
<1>3. T = IF pos = {} THEN {m}
          ELSE IF V!Cardinality(pos) > 1 THEN {q \in pos : q - 1 \notin pos}
          ELSE IF m = p0 THEN {p0}
          ELSE IF m > p0 THEN {p0 + 1} \cap image[j]
          ELSE {p0 - 1} \cap image[j]
  BY DEF V!Thinned, V!Black
<1> HIDE DEF pos, m, T, p0
<1>4. CASE pos = {}
  BY <1>2, <1>3, <1>4 DEF T, pos
<1>5. CASE V!Cardinality(pos) > 1 /\ pos # {}
  <2>1. PICK q \in pos : \A y \in pos : q <= y
    BY <1>1, <1>5, LeastNat
  <2>2. q - 1 \notin pos
    BY <1>1, <2>1
  <2>3. T = {y \in pos : y - 1 \notin pos}
    BY <1>3, <1>5
  <2>4. T \subseteq s - 1 .. e + 1 /\ q \in T
    BY <1>1, <2>1, <2>2, <2>3
  <2>5. \A p \in pos : p - 1 \notin pos => p \in T
    BY <2>3
  <2> QED
    BY <2>4, <2>5 DEF T, pos
<1>6. CASE ~(V!Cardinality(pos) > 1) /\ pos # {}
  <2>1. Cardinality(pos) = 1
    <3>1. Cardinality(pos) \in Nat /\ Cardinality(pos) # 0
      BY <1>1, <1>6, FS_CardinalityType, FS_EmptySet
    <3> QED
      BY <1>6, <3>1, CountIs
  <2>2. PICK p \in pos : pos = {p}
    BY <1>1, <2>1, FS_Singleton
  <2>3. p0 = p /\ p \in Int /\ s - 1 <= p /\ p <= e + 1
    BY <1>1, <2>2 DEF p0
  <2>4. T = IF m = p THEN {p} ELSE IF m > p THEN {p + 1} \cap image[j] ELSE {p - 1} \cap image[j]
    BY <1>3, <1>6, <2>3
  <2>5. \E t \in {p - 1, p, p + 1} : T = {t} /\ s <= t /\ t <= e
    <3>1. CASE m = p
      BY <1>2, <2>4, <3>1
    <3>2. CASE m > p
      <4>1. p + 1 \in image[j] /\ s <= p + 1 /\ p + 1 <= e
        BY <1>2, <2>3, <3>2
      <4> QED
        BY <2>4, <3>2, <4>1, <1>2, <2>3
    <3>3. CASE m < p
      <4>1. p - 1 \in image[j] /\ s <= p - 1 /\ p - 1 <= e
        BY <1>2, <2>3, <3>3
      <4> QED
        BY <2>4, <3>3, <4>1, <1>2, <2>3
    <3> QED
      BY <1>2, <2>3, <3>1, <3>2, <3>3
  <2>6. PICK t \in {p - 1, p, p + 1} : T = {t} /\ s <= t /\ t <= e
    BY <2>5
  <2>7. T \subseteq s - 1 .. e + 1
    BY <2>3, <2>6
  <2> QED
    BY <2>2, <2>6, <2>7 DEF T, pos
<1> QED
  BY <1>4, <1>5, <1>6

(* The runs of a column. *)
LEMMA RunFacts ==
  ASSUME V!TypeOK, NEW rows, NEW g \in V!Runs(rows)
  PROVE  /\ g = <<g[1], g[2]>> /\ g[1] \in Int /\ g[2] \in Int
         /\ Top <= g[1] /\ g[1] <= g[2] /\ g[2] < Bottom
         /\ \A q \in Int : (g[1] <= q /\ q <= g[2]) => q \in rows
         /\ g[1] - 1 \notin rows /\ g[2] + 1 \notin rows
<1>1. /\ g \in V!Row \X V!Row /\ g[1] <= g[2] /\ g[1] .. g[2] \subseteq rows
      /\ g[1] - 1 \notin rows /\ g[2] + 1 \notin rows
  BY DEF V!Runs
<1>2. g = <<g[1], g[2]>> /\ g[1] \in V!Row /\ g[2] \in V!Row
  BY <1>1
<1>3. g[1] \in Int /\ g[2] \in Int /\ Top <= g[1] /\ g[2] < Bottom
  BY <1>2, ThinningTypes
<1> QED
  BY <1>1, <1>2, <1>3

LEMMA RunOnly ==
  ASSUME V!TypeOK, NEW rows, NEW a \in Int, NEW b \in Int, Top <= a, a <= b, b < Bottom,
         \A q \in Int : (a <= q /\ q <= b) => q \in rows,
         a - 1 \notin rows, b + 1 \notin rows
  PROVE  /\ <<a, b>> \in V!Runs(rows)
         /\ \A g \in V!Runs(rows) : (a <= g[2] /\ g[2] <= b) => g = <<a, b>>
<1>1. <<a, b>> \in V!Runs(rows)
  <2> DEFINE g == <<a, b>>
  <2>1. a \in V!Row /\ b \in V!Row
    BY ThinningTypes
  <2>2. g \in V!Row \X V!Row /\ g[1] = a /\ g[2] = b
    BY <2>1
  <2>3. a .. b \subseteq rows
    OBVIOUS
  <2> HIDE DEF g
  <2>4. g \in V!Runs(rows)
    BY <2>2, <2>3 DEF V!Runs
  <2> QED
    BY <2>4 DEF g
<1>2. ASSUME NEW g \in V!Runs(rows), a <= g[2], g[2] <= b PROVE g = <<a, b>>
  <2>1. /\ g = <<g[1], g[2]>> /\ g[1] \in Int /\ g[2] \in Int /\ g[1] <= g[2]
        /\ \A q \in Int : (g[1] <= q /\ q <= g[2]) => q \in rows
        /\ g[1] - 1 \notin rows /\ g[2] + 1 \notin rows
    BY RunFacts
  <2>2. g[2] = b
    <3>1. ~(g[2] + 1 <= b)
      <4>1. g[2] + 1 \in Int /\ a <= g[2] + 1
        BY <1>2, <2>1
      <4> QED
        BY <2>1, <4>1
    <3> QED
      BY <1>2, <2>1, <3>1
  <2>3. ~(g[1] < a)
    <3>1. g[1] < a => g[1] <= a - 1 /\ a - 1 <= g[2] /\ a - 1 \in Int
      BY <1>2, <2>1
    <3> QED
      BY <2>1, <3>1
  <2>4. ~(g[1] > a)
    <3>1. g[1] > a => a <= g[1] - 1 /\ g[1] - 1 <= b /\ g[1] - 1 \in Int
      BY <2>1, <2>2
    <3> QED
      BY <2>1, <3>1
  <2> QED
    BY <2>1, <2>2, <2>3, <2>4
<1> QED
  BY <1>1, <1>2

(* Those that end above row r of column c, or in a column before.          *)
Upto(R, c, r) == {x \in R : x[1] < c \/ (x[1] = c /\ x[2][2] < r)}

(* The runs of all columns: of the black rows, or of the others.           *)
RunsOf(rows) == {x \in V!Column \X (V!Row \X V!Row) : x[2] \in V!Runs(rows[x[1]])}

Whites == [c \in V!Column |-> V!Row \ image[c]]

LEMMA RunsOfIs ==
  /\ V!BlackRuns = RunsOf(image)
  /\ V!WhiteRuns = RunsOf(Whites)
BY DEF V!BlackRuns, V!WhiteRuns, RunsOf, Whites

LEMMA RunOf ==
  ASSUME V!TypeOK, NEW rows, NEW x \in RunsOf(rows)
  PROVE  /\ x = <<x[1], x[2]>> /\ x[1] \in V!Column /\ x[1] \in Int /\ Left <= x[1] /\ x[1] < Right
         /\ x[2] \in V!Runs(rows[x[1]])
<1>1. /\ x = <<x[1], x[2]>> /\ x[1] \in V!Column
      /\ x[2] \in V!Runs(rows[x[1]])
  BY DEF RunsOf
<1>2. x[1] \in Int /\ Left <= x[1] /\ x[1] < Right
  BY <1>1, ThinningTypes DEF V!Column
<1> QED
  BY <1>1, <1>2

LEMMA FiniteRuns ==
  ASSUME V!TypeOK, NEW rows, NEW R \in SUBSET RunsOf(rows)
  PROVE  IsFiniteSet(R)
<1>1. /\ Left \in Int /\ Right - 1 \in Int /\ Top \in Int /\ Bottom - 1 \in Int
  BY ThinningTypes
<1>2. IsFiniteSet(V!Column) /\ IsFiniteSet(V!Row)
  BY <1>1, FS_Interval DEF V!Column, V!Row
<1>3. IsFiniteSet(V!Column \X (V!Row \X V!Row))
  <2>1. IsFiniteSet(V!Row \X V!Row)
    BY <1>2, FS_Product
  <2> QED
    BY <1>2, <2>1, FS_Product
<1>4. R \subseteq V!Column \X (V!Row \X V!Row)
  BY DEF RunsOf
<1> QED
  BY <1>3, <1>4, FS_Subset

(* A scan over rows that hold no end of a run, and over those of one run.  *)
LEMMA UptoSame ==
  ASSUME V!TypeOK, NEW rows, NEW a \in Int, NEW b \in Int, a <= b,
         \A q \in Int : (a <= q /\ q < b /\ q < Bottom) => q \notin rows[j]
  PROVE  Upto(RunsOf(rows), j, b) = Upto(RunsOf(rows), j, a)
<1>1. ASSUME NEW x \in RunsOf(rows), x[1] = j
      PROVE  x[2][2] < a \/ ~(x[2][2] < b)
  <2>1. x[2] \in V!Runs(rows[j])
    BY <1>1, RunOf
  <2>2. x[2][2] \in Int /\ x[2][2] < Bottom /\ x[2][2] \in rows[j]
    BY <2>1, RunFacts
  <2> QED
    BY <2>2
<1>2. ASSUME NEW x \in RunsOf(rows), x[1] = j PROVE x[2][2] < a => x[2][2] < b
  <2>1. x[2] \in V!Runs(rows[j])
    BY <1>2, RunOf
  <2>2. x[2][2] \in Int
    BY <2>1, RunFacts
  <2> QED
    BY <2>2
<1> QED
  BY <1>1, <1>2 DEF Upto

LEMMA UptoAdds ==
  ASSUME V!TypeOK, NEW rows, NEW a \in Int, NEW b \in Int, NEW r \in Int,
         Top <= a, a <= r, r <= b, b < Bottom,
         \A q \in Int : (a <= q /\ q <= b) => q \in rows[j],
         a - 1 \notin rows[j], b + 1 \notin rows[j]
  PROVE  /\ Upto(RunsOf(rows), j, b + 1) = Upto(RunsOf(rows), j, r) \cup {<<j, <<a, b>>>>}
         /\ <<j, <<a, b>>>> \notin Upto(RunsOf(rows), j, r)
         /\ <<j, <<a, b>>>> \in RunsOf(rows)
<1> DEFINE g == <<a, b>>
           x0 == <<j, g>>
<1>1. g \in V!Runs(rows[j]) /\ \A h \in V!Runs(rows[j]) : (a <= h[2] /\ h[2] <= b) => h = g
  BY RunOnly
<1>2. g[2] = b /\ g \in V!Row \X V!Row
  BY <1>1 DEF V!Runs
<1> HIDE DEF g
<1>3. x0 \in RunsOf(rows) /\ x0[1] = j /\ x0[2] = g
  BY <1>1, <1>2, ThinningTypes DEF RunsOf
<1>4. ASSUME NEW x \in RunsOf(rows), x[1] = j, x[2][2] < b + 1, ~(x[2][2] < r) PROVE x = x0
  <2>1. x[2] \in V!Runs(rows[j]) /\ x = <<j, x[2]>>
    BY <1>4, RunOf
  <2>2. x[2][2] \in Int
    BY <2>1, RunFacts
  <2>3. a <= x[2][2] /\ x[2][2] <= b
    BY <1>4, <2>2
  <2>4. x[2] = g
    BY <1>1, <2>1, <2>3
  <2> QED
    BY <2>1, <2>4
<1>5. ASSUME NEW x \in RunsOf(rows), x[1] = j, x[2][2] < r PROVE x[2][2] < b + 1
  <2>1. x[2] \in V!Runs(rows[j])
    BY <1>5, RunOf
  <2>2. x[2][2] \in Int
    BY <2>1, RunFacts
  <2> QED
    BY <1>5, <2>2
<1>6. x0[2][2] = b /\ ~(b < r) /\ b < b + 1 /\ ~(j < j)
  BY <1>2, <1>3, ThinningTypes
<1> HIDE DEF x0
<1>7. x0 \notin Upto(RunsOf(rows), j, r)
  BY <1>3, <1>6 DEF Upto
<1>8. Upto(RunsOf(rows), j, b + 1) = Upto(RunsOf(rows), j, r) \cup {x0}
  BY <1>3, <1>4, <1>5, <1>6 DEF Upto
<1> QED
  BY <1>3, <1>7, <1>8 DEF x0, g

LEMMA UptoColumn ==
  ASSUME V!TypeOK, NEW rows, i >= Bottom
  PROVE  /\ Upto(RunsOf(rows), j + 1, Top) = Upto(RunsOf(rows), j, i)
         /\ j + 1 >= Right => Upto(RunsOf(rows), j, i) = RunsOf(rows)
<1>1. ASSUME NEW x \in RunsOf(rows)
      PROVE  /\ x[1] \in Int /\ x[1] < Right
             /\ ~(x[2][2] < Top) /\ x[2][2] < i
  <2>1. x[1] \in Int /\ x[1] < Right /\ x[2] \in V!Runs(rows[x[1]])
    BY RunOf
  <2>2. x[2][2] \in Int /\ Top <= x[2][2] /\ x[2][2] < Bottom
    BY <2>1, RunFacts, ThinningTypes
  <2> QED
    BY <2>1, <2>2, ThinningTypes
<1>2. \A x \in RunsOf(rows) : x[1] < j + 1 <=> x[1] < j \/ x[1] = j
  BY <1>1, ThinningTypes
<1>3. j + 1 >= Right => \A x \in RunsOf(rows) : x[1] < j + 1
  BY <1>1, ThinningTypes
<1> QED
  BY <1>1, <1>2, <1>3 DEF Upto

(* What is counted of a run: the height of a black one; of a white one the *)
(* place WhiteRun counts it at.                                            *)
Place(kind, x) ==
  IF kind = "black" THEN V!HeightOf(x)
  ELSE IF x[2][1] = Top THEN V!HeightOf(x) + Top - 2 ELSE V!HeightOf(x) - 1

At(kind, R, h) == {x \in R : Place(kind, x) = h}

Tallied(kind, R, p) == \A h \in V!Size : p[h] = Cardinality(At(kind, R, h))

LEMMA TalliedNone ==
  ASSUME NEW kind, NEW p, p = [h \in V!Size |-> 0]
  PROVE  Tallied(kind, {}, p)
<1>1. \A h : At(kind, {}, h) = {}
  BY DEF At
<1> QED
  BY <1>1, FS_EmptySet DEF Tallied

LEMMA TalliedAdd ==
  ASSUME NEW kind, NEW R, IsFiniteSet(R), NEW x, x \notin R, NEW p \in [V!Size -> Nat],
         Tallied(kind, R, p), NEW h0 \in V!Size, Place(kind, x) = h0
  PROVE  Tallied(kind, R \cup {x}, [p EXCEPT ![h0] = @ + 1])
<1>1. ASSUME NEW h \in V!Size, h # h0 PROVE At(kind, R \cup {x}, h) = At(kind, R, h)
  BY <1>1 DEF At
<1>2. At(kind, R \cup {x}, h0) = At(kind, R, h0) \cup {x} /\ x \notin At(kind, R, h0)
  BY DEF At
<1>3. IsFiniteSet(At(kind, R, h0))
  <2>1. At(kind, R, h0) \in SUBSET R
    BY DEF At
  <2> QED
    BY <2>1, FS_Subset
<1>4. Cardinality(At(kind, R \cup {x}, h0)) = p[h0] + 1
  BY <1>2, <1>3, FS_AddElement DEF Tallied
<1>5. ASSUME NEW h \in V!Size PROVE [p EXCEPT ![h0] = @ + 1][h] = Cardinality(At(kind, R \cup {x}, h))
  <2>1. CASE h = h0
    BY <1>4, <2>1
  <2>2. CASE h # h0
    <3>1. [p EXCEPT ![h0] = @ + 1][h] = p[h]
      BY <2>2
    <3>2. p[h] = Cardinality(At(kind, R, h))
      BY DEF Tallied
    <3> QED
      BY <1>1, <2>2, <3>1, <3>2
  <2> QED
    BY <2>1, <2>2
<1> QED
  BY <1>5 DEF Tallied

(* A run from s to e of column c has pixels in O, joined to those on the   *)
(* left.                                                                   *)
PixelsNear(rows, s, e) == rows \cap (s - 1 .. e + 1)

Joined(O, c, s, e) ==
  /\ PixelsNear(O[c], s, e) # {}
  /\ \A p \in PixelsNear(O[c - 1], s, e) :
       p - 1 \notin PixelsNear(O[c - 1], s, e) => {p - 1, p, p + 1} \cap O[c] # {}

AllJoined(O, R) == \A x \in R : Joined(O, x[1], x[2][1], x[2][2])

OnRuns(O) == \A c \in V!Column : \A p \in O[c] : {p - 1, p, p + 1} \cap image[c] # {}

(* The rows between end and i are white.                                   *)
Behind ==
  /\ end < i /\ (end = 0 \/ (Top <= end /\ end \in image[j]))
  /\ \A q \in Int : (end < q /\ q < i) => q \notin image[j]

ThinInv ==
  /\ image \in Images /\ V!TypeOK /\ OnRuns(out_image)
  /\ pc \in {"black", "white"} =>
       /\ AllJoined(out_image, Upto(RunsOf(image), j, i))
       /\ Tallied("black", Upto(RunsOf(image), j, i), p_height)
       /\ Tallied("white", Upto(RunsOf(Whites), j, i), p_space)
       /\ Behind
  /\ pc = "black" => i - 1 \notin image[j]
  /\ pc = "white" =>
       /\ i <= Bottom
       /\ IF i = Bottom THEN start <= end ELSE i \notin image[j]
  /\ pc \in {"mode", "done"} =>
       /\ AllJoined(out_image, RunsOf(image))
       /\ Tallied("black", RunsOf(image), p_height)
       /\ Tallied("white", RunsOf(Whites), p_space)
  /\ pc = "done" => staff_height \in V!Mode(p_height)

LEMMA ColumnFacts ==
  ASSUME ThinInv
  PROVE  /\ image[j] \subseteq V!Row
         /\ \A q \in image[j] : q \in Int /\ Top <= q /\ q < Bottom
         /\ Whites[j] = V!Row \ image[j]
         /\ \A q \in Int : q \in Whites[j] <=> (Top <= q /\ q < Bottom /\ q \notin image[j])
<1>1. V!TypeOK /\ image \in [V!Column -> SUBSET V!Row]
  BY PreprocessingAssumption DEF ThinInv, V!Inputs
<1>2. image[j] \subseteq V!Row /\ j \in V!Column
  BY <1>1, ThinningTypes
<1>3. Whites[j] = V!Row \ image[j]
  BY <1>2 DEF Whites
<1>4. V!Row = {q \in Int : Top <= q /\ q < Bottom}
  BY <1>1, ThinningTypes
<1> QED
  BY <1>2, <1>3, <1>4

LEMMA ThinInit == ASSUME V!Init PROVE ThinInv
<1>1. /\ image \in Images /\ j = Left /\ i = Top /\ start = 0 /\ end = 0
      /\ staff_height = 0 /\ staff_space = 0 /\ pc = "black"
      /\ out_image = [c \in Left - 1 .. Right - 1 |-> {}]
      /\ p_height = [h \in V!Size |-> 0] /\ p_space = [h \in V!Size |-> 0]
  BY DEF V!Init
<1>2. /\ Top \in Nat /\ Top > 0 /\ Bottom \in Nat /\ Top < Bottom
      /\ Left \in Nat /\ Left > 0 /\ Right \in Nat /\ Left < Right
      /\ image \in [V!Column -> SUBSET V!Row]
  BY <1>1, PreprocessingAssumption DEF V!Inputs
<1>3. V!TypeOK
  <2>1. out_image \in [Left - 1 .. Right - 1 -> SUBSET (Top - 1 .. Bottom)]
    BY <1>1
  <2>2. p_height \in [V!Size -> Nat] /\ p_space \in [V!Size -> Nat]
    BY <1>1
  <2>3. j \in V!Column /\ i \in Top .. Bottom + 1 /\ start \in 0 .. Bottom - 1 /\ end \in 0 .. Bottom - 1
        /\ staff_height \in V!Size /\ staff_space \in V!Size
    BY <1>1, <1>2 DEF V!Column, V!Size
  <2> QED
    BY <1>1, <2>1, <2>2, <2>3 DEF V!TypeOK
<1>4. \A c \in V!Column : out_image[c] = {}
  BY <1>1, <1>2 DEF V!Column
<1>5. OnRuns(out_image)
  BY <1>4 DEF OnRuns
<1>6. ASSUME NEW rows PROVE Upto(RunsOf(rows), j, i) = {}
  <2>1. ASSUME NEW x \in RunsOf(rows) PROVE ~(x[1] < j) /\ ~(x[2][2] < i)
    <3>1. x[1] \in Int /\ Left <= x[1] /\ x[2] \in V!Runs(rows[x[1]])
      BY <1>3, RunOf
    <3>2. x[2][2] \in Int /\ Top <= x[2][2]
      BY <1>2, <1>3, <3>1, RunFacts
    <3> QED
      BY <1>1, <1>2, <3>1, <3>2
  <2> QED
    BY <2>1 DEF Upto
<1>7. i - 1 \notin image[j] /\ Behind
  <2>1. \A q \in image[j] : q \in Int /\ Top <= q
    BY <1>1, <1>2 DEF V!Column, V!Row
  <2> QED
    BY <1>1, <1>2, <2>1 DEF Behind
<1>8. AllJoined(out_image, {})
  BY DEF AllJoined
<1>9. /\ Tallied("black", {}, p_height) /\ Tallied("white", {}, p_space)
  BY <1>1, TalliedNone
<1> QED
  BY <1>1, <1>3, <1>5, <1>6, <1>7, <1>8, <1>9 DEF ThinInv

LEMMA ThinBlackRun == ASSUME ThinInv, V!BlackRun PROVE ThinInv'
<1> DEFINE e == V!EndOf(i, image[j])
<1>1. /\ pc = "black" /\ i < Bottom /\ start' = i
      /\ end' = (IF e > i THEN e - 1 ELSE end) /\ i' = e
      /\ end' >= start' =>
           /\ out_image' = [out_image EXCEPT ![j] = @ \cup V!Thinned(start', end')]
           /\ p_height' = [p_height EXCEPT ![end' - start' + 1] = @ + 1]
      /\ ~(end' >= start') => out_image' = out_image /\ p_height' = p_height
      /\ pc' = "white" /\ image' = image /\ j' = j /\ p_space' = p_space
      /\ staff_height' = staff_height /\ staff_space' = staff_space
  BY DEF V!BlackRun, V!Black
<1>2. V!TypeOK /\ image \in Images
  BY DEF ThinInv
<1>3. /\ Top \in Nat /\ Top > 0 /\ Bottom \in Nat /\ Top < Bottom
      /\ Left \in Nat /\ Left > 0 /\ Right \in Nat /\ Left < Right
      /\ j \in Int /\ Left <= j /\ j < Right /\ j \in V!Column
      /\ i \in Nat /\ Top <= i /\ i <= Bottom + 1
      /\ start \in Int /\ 0 <= start /\ start < Bottom /\ end \in Int /\ 0 <= end /\ end < Bottom
  BY <1>2, ThinningTypes
<1>4. /\ e \in Int /\ i <= e /\ e <= Bottom
      /\ e = Bottom \/ e \notin image[j]
      /\ \A q \in Int : (i <= q /\ q < e) => q \in image[j]
  BY <1>1, <1>3, EndOfIs
<1> HIDE DEF e
<1>5. /\ AllJoined(out_image, Upto(RunsOf(image), j, i))
      /\ Tallied("black", Upto(RunsOf(image), j, i), p_height)
      /\ Tallied("white", Upto(RunsOf(Whites), j, i), p_space)
      /\ Behind /\ i - 1 \notin image[j] /\ OnRuns(out_image)
  BY <1>1 DEF ThinInv
<1>6. end < i
  BY <1>5 DEF Behind
<1>7. Whites' = Whites /\ Upto(RunsOf(Whites), j, e) = Upto(RunsOf(Whites), j, i)
  <2>1. \A q \in Int : (i <= q /\ q < e /\ q < Bottom) => q \notin Whites[j]
    BY <1>4, ColumnFacts
  <2> QED
    BY <1>1, <1>2, <1>3, <1>4, <2>1, UptoSame DEF Whites
<1>8. CASE e = i
  <2>1. end' = end /\ i' = i /\ ~(end' >= start')
    BY <1>1, <1>3, <1>6, <1>8
  <2>2. out_image' = out_image /\ p_height' = p_height
    BY <1>1, <2>1
  <2>3. i \notin image[j] /\ i # Bottom /\ i <= Bottom
    BY <1>1, <1>3, <1>4, <1>8
  <2>4. V!TypeOK'
    <3>1. start' \in 0 .. Bottom - 1
      BY <1>1, <1>3
    <3> QED
      BY <1>1, <1>2, <2>1, <2>2, <3>1 DEF V!TypeOK
  <2>5. OnRuns(out_image)' /\ Behind'
    BY <1>1, <1>5, <2>1, <2>2 DEF OnRuns, Behind
  <2> QED
    BY <1>1, <1>2, <1>5, <1>7, <2>1, <2>2, <2>3, <2>4, <2>5 DEF ThinInv
<1>9. CASE e # i
  <2> DEFINE b == e - 1
             x0 == <<j, <<i, b>>>>
             T == V!Thinned(i, b)
             R == Upto(RunsOf(image), j, i)
  <2>1. /\ b \in Int /\ i <= b /\ b < Bottom /\ b + 1 = e /\ end' = b /\ end' >= start' /\ i' = b + 1
        /\ b - i + 1 \in V!Size /\ start' = i
    BY <1>1, <1>3, <1>4, <1>9 DEF V!Size
  <2>2. \A q \in Int : (i <= q /\ q <= b) => q \in image[j]
    BY <1>4, <2>1
  <2>3. b + 1 \notin image[j]
    BY <1>3, <1>4, <2>1, ColumnFacts
  <2> HIDE DEF b
  <2>4. /\ out_image' = [out_image EXCEPT ![j] = @ \cup T]
        /\ p_height' = [p_height EXCEPT ![b - i + 1] = @ + 1]
    BY <1>1, <2>1
  <2>5. /\ T \subseteq i - 1 .. b + 1 /\ T # {}
        /\ \A p \in V!Near(i, b) : p - 1 \notin V!Near(i, b) => {p - 1, p, p + 1} \cap T # {}
    BY <1>2, <1>3, <2>1, <2>2, ThinnedIs
  <2> HIDE DEF T
  <2>6. /\ Upto(RunsOf(image), j, b + 1) = R \cup {x0}
        /\ x0 \notin R /\ x0 \in RunsOf(image)
    BY <1>2, <1>3, <1>5, <2>1, <2>2, <2>3, UptoAdds
  <2>7. x0[1] = j /\ x0[2][1] = i /\ x0[2][2] = b
    OBVIOUS
  <2>8. out_image \in [Left - 1 .. Right - 1 -> SUBSET (Top - 1 .. Bottom)] /\ j \in Left - 1 .. Right - 1
        /\ j - 1 \in Left - 1 .. Right - 1 /\ j - 1 # j
    BY <1>2, <1>3, ThinningTypes
  <2>9. /\ out_image'[j] = out_image[j] \cup T
        /\ \A c \in Left - 1 .. Right - 1 : c # j => out_image'[c] = out_image[c]
        /\ \A c \in Left - 1 .. Right - 1 : out_image[c] \subseteq out_image'[c]
    BY <2>4, <2>8
  <2>10. out_image' \in [Left - 1 .. Right - 1 -> SUBSET (Top - 1 .. Bottom)]
    <3>1. T \subseteq Top - 1 .. Bottom
      BY <1>3, <2>1, <2>5
    <3> QED
      BY <2>4, <2>8, <3>1
  <2>11. V!TypeOK'
    <3>1. start' \in 0 .. Bottom - 1 /\ end' \in 0 .. Bottom - 1 /\ i' \in Top .. Bottom + 1
      BY <1>3, <2>1
    <3>2. p_height' \in [V!Size -> Nat]
      <4>1. p_height \in [V!Size -> Nat]
        BY <1>2, ThinningTypes
      <4> QED
        BY <2>1, <2>4, <4>1
    <3> QED
      BY <1>1, <1>2, <2>10, <3>1, <3>2 DEF V!TypeOK
  <2>12. OnRuns(out_image)'
    <3>1. ASSUME NEW c \in V!Column, NEW p \in out_image'[c] PROVE {p - 1, p, p + 1} \cap image[c] # {}
      <4>1. CASE p \in out_image[c]
        BY <1>5, <4>1 DEF OnRuns
      <4>2. CASE c = j /\ p \in T
        <5>1. p \in Int /\ i - 1 <= p /\ p <= b + 1
          BY <1>3, <2>1, <2>5, <4>2
        <5>2. CASE p < i
          <6>1. p + 1 = i /\ i \in Int
            BY <1>3, <5>1, <5>2
          <6>2. i \in image[j]
            BY <2>1, <2>2, <6>1
          <6> QED
            BY <4>2, <6>1, <6>2
        <5>3. CASE p > b
          <6>1. p - 1 = b
            BY <2>1, <5>1, <5>3
          <6>2. b \in image[j]
            BY <1>3, <2>1, <2>2
          <6> QED
            BY <4>2, <6>1, <6>2
        <5>4. CASE i <= p /\ p <= b
          BY <2>2, <4>2, <5>1, <5>4
        <5> QED
          BY <1>3, <2>1, <5>1, <5>2, <5>3, <5>4
      <4>3. c \in Left - 1 .. Right - 1
        BY <1>3 DEF V!Column
      <4> QED
        BY <2>9, <3>1, <4>1, <4>2, <4>3
    <3> QED
      BY <1>1, <3>1 DEF OnRuns
  <2>13. AllJoined(out_image', R \cup {x0})
    <3>1. ASSUME NEW x \in R PROVE Joined(out_image', x[1], x[2][1], x[2][2])
      <4>1. Joined(out_image, x[1], x[2][1], x[2][2])
        BY <1>5 DEF AllJoined
      <4>2. x \in RunsOf(image) /\ (x[1] < j \/ x[1] = j)
        BY DEF Upto
      <4>3. x[1] \in Int /\ Left <= x[1] /\ x[1] < Right
        BY <1>2, <4>2, RunOf
      <4>4. x[1] \in Left - 1 .. Right - 1 /\ x[1] - 1 \in Left - 1 .. Right - 1 /\ x[1] - 1 # j
        BY <1>3, <4>2, <4>3
      <4>5. out_image[x[1]] \subseteq out_image'[x[1]] /\ out_image'[x[1] - 1] = out_image[x[1] - 1]
        BY <2>9, <4>4
      <4> QED
        BY <4>1, <4>5 DEF Joined, PixelsNear
    <3>2. Joined(out_image', j, i, b)
      <4>1. out_image'[j - 1] = out_image[j - 1]
        BY <2>8, <2>9
      <4>2. V!Near(i, b) = PixelsNear(out_image'[j - 1], i, b)
        BY <4>1 DEF V!Near, PixelsNear
      <4>3. T \subseteq out_image'[j]
        BY <2>9
      <4>4. PixelsNear(out_image'[j], i, b) # {}
        BY <2>5, <4>3 DEF PixelsNear
      <4> QED
        BY <2>5, <4>2, <4>3, <4>4 DEF Joined
    <3> QED
      BY <2>7, <3>1, <3>2 DEF AllJoined
  <2>14. Tallied("black", R \cup {x0}, p_height')
    <3>1. Place("black", x0) = b - i + 1
      BY <2>7 DEF Place, V!HeightOf
    <3>2. IsFiniteSet(R)
      <4>1. R \in SUBSET RunsOf(image)
        BY DEF Upto
      <4> QED
        BY <1>2, <4>1, FiniteRuns
    <3>3. p_height \in [V!Size -> Nat]
      BY <1>2, ThinningTypes
    <3> HIDE DEF R, x0
    <3> QED
      BY <1>5, <2>1, <2>4, <2>6, <3>1, <3>2, <3>3, TalliedAdd DEF R
  <2>15. Behind'
    <3>1. Top <= end' /\ end' \in image'[j']
      BY <1>1, <1>3, <2>1, <2>2
    <3>2. end' < i' /\ \A q \in Int : ~(end' < q /\ q < i')
      BY <2>1
    <3> QED
      BY <3>1, <3>2 DEF Behind
  <2>16. /\ AllJoined(out_image', Upto(RunsOf(image'), j', i'))
         /\ Tallied("black", Upto(RunsOf(image'), j', i'), p_height')
         /\ Tallied("white", Upto(RunsOf(Whites'), j', i'), p_space')
    BY <1>1, <1>5, <1>7, <2>1, <2>6, <2>13, <2>14
  <2>17. i' <= Bottom /\ (IF i' = Bottom THEN start' <= end' ELSE i' \notin image'[j'])
    BY <1>1, <1>3, <2>1, <2>3
  <2> QED
    BY <1>1, <1>2, <2>11, <2>12, <2>15, <2>16, <2>17 DEF ThinInv
<1> QED
  BY <1>8, <1>9

LEMMA ThinWhiteRun == ASSUME ThinInv, V!WhiteRun PROVE ThinInv'
<1> DEFINE w == V!EndOf(i, Whites[j])
<1>1. V!TypeOK /\ image \in Images /\ Whites[j] = V!White
  BY ColumnFacts DEF ThinInv, V!White
<1>2. /\ pc = "white" /\ start' = (IF w > i THEN w - 1 ELSE start)
      /\ start' > end =>
           p_space' = [p_space EXCEPT ![start' - end - 1] = @ + 1] /\ i' = w
      /\ ~(start' > end) => p_space' = p_space /\ i' = w + 1
      /\ pc' = "black" /\ image' = image /\ out_image' = out_image /\ j' = j /\ end' = end
      /\ p_height' = p_height /\ staff_height' = staff_height /\ staff_space' = staff_space
  BY <1>1 DEF V!WhiteRun
<1>3. /\ Top \in Nat /\ Top > 0 /\ Bottom \in Nat /\ Top < Bottom
      /\ j \in Int /\ i \in Nat /\ Top <= i
      /\ start \in Int /\ 0 <= start /\ start < Bottom /\ end \in Int /\ 0 <= end /\ end < Bottom
  BY <1>1, ThinningTypes
<1>4. /\ AllJoined(out_image, Upto(RunsOf(image), j, i))
      /\ Tallied("black", Upto(RunsOf(image), j, i), p_height)
      /\ Tallied("white", Upto(RunsOf(Whites), j, i), p_space)
      /\ Behind /\ OnRuns(out_image)
      /\ i <= Bottom /\ IF i = Bottom THEN start <= end ELSE i \notin image[j]
  BY <1>2 DEF ThinInv
<1>5. /\ w \in Int /\ i <= w /\ w <= Bottom
      /\ w = Bottom \/ w \notin Whites[j]
      /\ \A q \in Int : (i <= q /\ q < w) => q \in Whites[j]
  BY <1>3, <1>4, EndOfIs
<1> HIDE DEF w
<1>6. /\ end < i /\ (end = 0 \/ (Top <= end /\ end \in image[j]))
      /\ \A q \in Int : (end < q /\ q < i) => q \notin image[j]
  BY <1>4 DEF Behind
<1>7. Whites' = Whites /\ OnRuns(out_image)'
  BY <1>2, <1>4 DEF Whites, OnRuns
<1>8. CASE i = Bottom
  <2>1. start' = start /\ ~(start' > end) /\ i' = Bottom + 1 /\ p_space' = p_space
    BY <1>2, <1>3, <1>4, <1>5, <1>8
  <2>2. /\ Upto(RunsOf(image), j, Bottom + 1) = Upto(RunsOf(image), j, i)
        /\ Upto(RunsOf(Whites), j, Bottom + 1) = Upto(RunsOf(Whites), j, i)
    <3>1. \A q \in Int : ~(i <= q /\ q < Bottom + 1 /\ q < Bottom)
      BY <1>3, <1>8
    <3>2. i \in Int /\ Bottom + 1 \in Int /\ i <= Bottom + 1
      BY <1>3, <1>8
    <3> QED
      BY <1>1, <3>1, <3>2, UptoSame
  <2>3. Behind' /\ i' - 1 \notin image[j]
    <3>1. \A q \in Int : (end < q /\ q < i') => q < i \/ q = Bottom
      BY <1>3, <1>8, <2>1
    <3>2. Bottom \notin image[j] /\ i' - 1 = Bottom /\ end < i'
      BY <1>3, <2>1, ColumnFacts
    <3> QED
      BY <1>2, <1>6, <3>1, <3>2 DEF Behind
  <2>4. V!TypeOK'
    <3>1. i' \in Top .. Bottom + 1
      BY <1>3, <2>1
    <3> QED
      BY <1>1, <1>2, <2>1, <3>1 DEF V!TypeOK
  <2> QED
    BY <1>1, <1>2, <1>4, <1>7, <2>1, <2>2, <2>3, <2>4 DEF ThinInv
<1>9. CASE i # Bottom
  <2> DEFINE a == IF end = 0 THEN Top ELSE end + 1
             b == w - 1
             h0 == b - end - 1
             x0 == <<j, <<a, b>>>>
             R == Upto(RunsOf(Whites), j, i)
  <2>1. w # i
    BY <1>3, <1>4, <1>5, <1>9, ColumnFacts
  <2>2. start' = b /\ i' = b + 1 /\ p_space' = [p_space EXCEPT ![h0] = @ + 1]
        /\ b \in Int /\ i <= b /\ b < Bottom /\ w = b + 1
    BY <1>2, <1>3, <1>5, <1>6, <2>1
  <2>3. /\ a \in Int /\ Top <= a /\ a <= i /\ h0 \in V!Size
        /\ a = Top => end = 0
        /\ a # Top => end = a - 1 /\ end \in image[j]
    BY <1>3, <1>6, <2>2 DEF V!Size
  <2> HIDE DEF a, b
  <2>4. ASSUME NEW q \in Int, a <= q, q <= b PROVE q \in Whites[j]
    <3>1. CASE q < i
      <4>1. end < q
        BY <1>3, <2>3, <2>4
      <4>2. Top <= q /\ q < Bottom
        BY <1>3, <2>2, <2>3, <2>4
      <4> QED
        BY <1>6, <3>1, <4>1, <4>2, ColumnFacts
    <3>2. CASE i <= q
      BY <1>5, <2>2, <2>4, <3>2
    <3> QED
      BY <1>3, <3>1, <3>2
  <2>5. a - 1 \notin Whites[j] /\ b + 1 \notin Whites[j]
    <3>1. a - 1 \notin Whites[j]
      BY <1>3, <2>3, ColumnFacts
    <3>2. b + 1 \notin Whites[j]
      BY <1>3, <1>5, <2>2, ColumnFacts
    <3> QED
      BY <3>1, <3>2
  <2>6. /\ Upto(RunsOf(Whites), j, b + 1) = R \cup {x0}
        /\ x0 \notin R /\ x0 \in RunsOf(Whites)
    BY <1>1, <1>3, <2>2, <2>3, <2>4, <2>5, UptoAdds
  <2>7. Upto(RunsOf(image), j, b + 1) = Upto(RunsOf(image), j, i)
    <3>1. \A q \in Int : (i <= q /\ q < b + 1 /\ q < Bottom) => q \notin image[j]
      <4>1. \A q \in Int : (i <= q /\ q < b + 1) => q \in Whites[j]
        BY <1>5, <2>2
      <4> QED
        BY <4>1, ColumnFacts
    <3>2. i \in Int /\ b + 1 \in Int /\ i <= b + 1
      BY <1>3, <2>2
    <3> QED
      BY <1>1, <3>1, <3>2, UptoSame
  <2>8. x0[1] = j /\ x0[2][1] = a /\ x0[2][2] = b
    OBVIOUS
  <2>9. Tallied("white", R \cup {x0}, p_space')
    <3>1. Place("white", x0) = h0
      <4>1. V!HeightOf(x0) = b - a + 1
        BY <2>8 DEF V!HeightOf
      <4>2. CASE a = Top
        BY <1>3, <2>2, <2>3, <2>8, <4>1, <4>2 DEF Place
      <4>3. CASE a # Top
        BY <1>3, <2>2, <2>3, <2>8, <4>1, <4>3 DEF Place
      <4> QED
        BY <4>2, <4>3
    <3>2. IsFiniteSet(R)
      <4>1. R \in SUBSET RunsOf(Whites)
        BY DEF Upto
      <4> QED
        BY <1>1, <4>1, FiniteRuns
    <3>3. p_space \in [V!Size -> Nat]
      BY <1>1, ThinningTypes
    <3> HIDE DEF R, x0, h0
    <3> QED
      BY <1>4, <2>2, <2>3, <2>6, <3>1, <3>2, <3>3, TalliedAdd DEF R
  <2>10. Behind' /\ i' - 1 \notin image[j]
    <3>1. \A q \in Int : (end < q /\ q < i') => q < i \/ q \in Whites[j]
      BY <1>3, <1>5, <2>2
    <3>2. b \in Whites[j] /\ i' - 1 = b /\ end < i'
      BY <1>3, <1>5, <1>6, <2>2
    <3> QED
      BY <1>2, <1>6, <3>1, <3>2, ColumnFacts DEF Behind
  <2>11. V!TypeOK'
    <3>1. start' \in 0 .. Bottom - 1 /\ i' \in Top .. Bottom + 1
      BY <1>3, <2>2
    <3>2. p_space' \in [V!Size -> Nat]
      <4>1. p_space \in [V!Size -> Nat]
        BY <1>1, ThinningTypes
      <4> QED
        BY <2>2, <2>3, <4>1
    <3> QED
      BY <1>1, <1>2, <3>1, <3>2 DEF V!TypeOK
  <2>12. /\ AllJoined(out_image', Upto(RunsOf(image'), j', i'))
         /\ Tallied("black", Upto(RunsOf(image'), j', i'), p_height')
         /\ Tallied("white", Upto(RunsOf(Whites'), j', i'), p_space')
    BY <1>2, <1>4, <1>7, <2>2, <2>6, <2>7, <2>9
  <2> QED
    BY <1>1, <1>2, <1>7, <2>10, <2>11, <2>12 DEF ThinInv
<1> QED
  BY <1>8, <1>9

LEMMA ThinEndColumn == ASSUME ThinInv, V!EndColumn PROVE ThinInv'
<1>1. /\ pc = "black" /\ i >= Bottom /\ i' = Top /\ end' = 0
      /\ j + 1 < Right => j' = j + 1 /\ pc' = "black"
      /\ ~(j + 1 < Right) => j' = j /\ pc' = "mode"
      /\ image' = image /\ out_image' = out_image /\ start' = start
      /\ p_height' = p_height /\ p_space' = p_space
      /\ staff_height' = staff_height /\ staff_space' = staff_space
  BY DEF V!EndColumn, V!counts
<1>2. V!TypeOK /\ image \in Images
  BY DEF ThinInv
<1>3. /\ Top \in Nat /\ Top > 0 /\ Bottom \in Nat /\ Top < Bottom
      /\ Left \in Nat /\ Left > 0 /\ Right \in Nat /\ Left < Right
      /\ j \in Int /\ Left <= j /\ j < Right
  BY <1>2, ThinningTypes
<1>4. /\ AllJoined(out_image, Upto(RunsOf(image), j, i))
      /\ Tallied("black", Upto(RunsOf(image), j, i), p_height)
      /\ Tallied("white", Upto(RunsOf(Whites), j, i), p_space)
      /\ OnRuns(out_image)
  BY <1>1 DEF ThinInv
<1>5. Whites' = Whites /\ OnRuns(out_image)'
  BY <1>1, <1>4 DEF Whites, OnRuns
<1>6. V!TypeOK'
  <2>1. i' \in Top .. Bottom + 1 /\ end' \in 0 .. Bottom - 1 /\ j' \in V!Column
        /\ pc' \in {"black", "white", "mode", "done"}
    BY <1>1, <1>3 DEF V!Column
  <2> QED
    BY <1>1, <1>2, <2>1 DEF V!TypeOK
<1>7. CASE j + 1 < Right
  <2>1. /\ Upto(RunsOf(image), j + 1, Top) = Upto(RunsOf(image), j, i)
        /\ Upto(RunsOf(Whites), j + 1, Top) = Upto(RunsOf(Whites), j, i)
    BY <1>1, <1>2, UptoColumn
  <2>2. image \in [V!Column -> SUBSET V!Row] /\ j + 1 \in V!Column
    BY <1>2, <1>3, <1>7, PreprocessingAssumption DEF V!Inputs, V!Column
  <2>3. \A q \in image[j + 1] : q \in Int /\ Top <= q
    BY <1>2, <2>2, ThinningTypes
  <2>4. Behind' /\ Top - 1 \notin image[j + 1]
    <3>1. Top - 1 \notin image[j + 1]
      BY <1>3, <2>3
    <3>2. \A q \in image[j + 1] : ~(q < Top)
      BY <1>3, <2>3
    <3> QED
      BY <1>1, <1>3, <1>7, <3>1, <3>2 DEF Behind
  <2> QED
    BY <1>1, <1>2, <1>4, <1>5, <1>6, <1>7, <2>1, <2>4 DEF ThinInv
<1>8. CASE ~(j + 1 < Right)
  <2>1. /\ RunsOf(image) = Upto(RunsOf(image), j, i)
        /\ RunsOf(Whites) = Upto(RunsOf(Whites), j, i)
    BY <1>1, <1>2, <1>3, <1>8, UptoColumn
  <2> QED
    BY <1>1, <1>2, <1>4, <1>5, <1>6, <1>8, <2>1 DEF ThinInv
<1> QED
  BY <1>7, <1>8

LEMMA ThinModes == ASSUME ThinInv, V!Modes PROVE ThinInv'
<1>1. /\ pc = "mode" /\ pc' = "done" /\ staff_height' \in V!Mode(p_height) /\ staff_space' \in V!Mode(p_space)
      /\ image' = image /\ out_image' = out_image /\ j' = j /\ i' = i /\ start' = start /\ end' = end
      /\ p_height' = p_height /\ p_space' = p_space
  BY DEF V!Modes, V!bounds, V!counts
<1>2. staff_height' \in V!Size /\ staff_space' \in V!Size
  BY <1>1 DEF V!Mode
<1>3. V!TypeOK'
  BY <1>1, <1>2 DEF ThinInv, V!TypeOK
<1>4. OnRuns(out_image)' /\ Whites' = Whites
  BY <1>1 DEF ThinInv, OnRuns, Whites
<1> QED
  BY <1>1, <1>3, <1>4 DEF ThinInv

LEMMA ThinSame ==
  ASSUME ThinInv, image' = image, out_image' = out_image, j' = j, i' = i, start' = start, end' = end,
         p_height' = p_height, p_space' = p_space, staff_height' = staff_height,
         staff_space' = staff_space, pc' = pc
  PROVE  ThinInv'
<1>1. V!TypeOK'
  BY DEF ThinInv, V!TypeOK
<1>2. OnRuns(out_image)' /\ Whites' = Whites /\ (Behind => Behind')
  BY DEF ThinInv, OnRuns, Whites, Behind
<1> QED
  BY <1>1, <1>2 DEF ThinInv

LEMMA BlackAt ==
  ASSUME NEW h
  PROVE  {x \in V!BlackRuns : V!HeightOf(x) = h} = At("black", RunsOf(image), h)
BY RunsOfIs DEF At, Place

LEMMA WhiteAt ==
  ASSUME V!TypeOK, NEW h \in V!Size
  PROVE  {x \in V!WhiteRuns : V!HeightOf(x) = IF x[2][1] = Top THEN h - Top + 2 ELSE h + 1}
           = At("white", RunsOf(Whites), h)
<1>1. h \in Int /\ Top \in Int
  BY ThinningTypes DEF V!Size
<1>2. ASSUME NEW x \in RunsOf(Whites)
      PROVE  V!HeightOf(x) = (IF x[2][1] = Top THEN h - Top + 2 ELSE h + 1) <=> Place("white", x) = h
  <2>1. x[2][1] \in Int /\ x[2][2] \in Int
    BY RunOf, RunFacts
  <2>2. V!HeightOf(x) \in Int
    BY <2>1 DEF V!HeightOf
  <2> QED
    BY <1>1, <2>2 DEF Place
<1> QED
  BY <1>2, RunsOfIs DEF At

LEMMA ThinJoined == ASSUME ThinInv PROVE V!RunsThinned /\ V!Connected
<1>1. /\ V!TypeOK /\ OnRuns(out_image) /\ pc \in {"black", "white", "mode", "done"}
      /\ pc \in {"black", "white"} => AllJoined(out_image, Upto(RunsOf(image), j, i))
      /\ pc \in {"mode", "done"} => AllJoined(out_image, RunsOf(image))
  BY DEF ThinInv, V!TypeOK
<1>2. ASSUME NEW c \in V!Column, V!Finished(c), NEW g \in V!Runs(image[c])
      PROVE  Joined(out_image, c, g[1], g[2])
  <2> DEFINE x == <<c, g>>
  <2>1. g \in V!Row \X V!Row
    BY DEF V!Runs
  <2>2. x \in RunsOf(image) /\ x[1] = c /\ x[2] = g
    BY <2>1 DEF RunsOf
  <2> HIDE DEF x
  <2>3. CASE pc \in {"mode", "done"}
    BY <1>1, <2>2, <2>3 DEF AllJoined
  <2>4. CASE pc \in {"black", "white"}
    <3>1. c < j
      BY <1>2, <2>4 DEF V!Finished
    <3>2. x \in Upto(RunsOf(image), j, i)
      BY <2>2, <3>1 DEF Upto
    <3> QED
      BY <1>1, <2>2, <2>4, <3>2 DEF AllJoined
  <2> QED
    BY <1>1, <2>3, <2>4
<1>3. V!RunsThinned
  BY <1>1, <1>2 DEF V!RunsThinned, Joined, PixelsNear, OnRuns
<1>4. V!Connected
  BY <1>2 DEF V!Connected, Joined, PixelsNear
<1> QED
  BY <1>3, <1>4

LEMMA ThinCounted == ASSUME ThinInv PROVE V!RunsCounted /\ V!HeightIsMode
<1>1. V!TypeOK
  BY DEF ThinInv
<1>2. ASSUME pc \in {"mode", "done"}, NEW h \in V!Size
      PROVE  /\ p_height[h] = V!Cardinality({x \in V!BlackRuns : V!HeightOf(x) = h})
             /\ p_space[h] = V!Cardinality({x \in V!WhiteRuns :
                               V!HeightOf(x) = IF x[2][1] = Top THEN h - Top + 2 ELSE h + 1})
  <2>1. p_height[h] = Cardinality(At("black", RunsOf(image), h))
        /\ p_space[h] = Cardinality(At("white", RunsOf(Whites), h))
    BY <1>2 DEF ThinInv, Tallied
  <2>2. /\ V!Cardinality(At("black", RunsOf(image), h)) = Cardinality(At("black", RunsOf(image), h))
        /\ V!Cardinality(At("white", RunsOf(Whites), h)) = Cardinality(At("white", RunsOf(Whites), h))
    BY CountIs
  <2> QED
    BY <1>1, <2>1, <2>2, BlackAt, WhiteAt
<1>3. V!RunsCounted
  BY <1>2 DEF V!RunsCounted
<1>4. V!HeightIsMode
  <2> SUFFICES ASSUME pc = "done", NEW h \in V!Size
               PROVE  V!Cardinality({x \in V!BlackRuns : V!HeightOf(x) = h})
                        <= V!Cardinality({x \in V!BlackRuns : V!HeightOf(x) = staff_height})
    BY DEF V!HeightIsMode
  <2>1. staff_height \in V!Mode(p_height)
    BY DEF ThinInv
  <2>2. staff_height \in V!Size /\ p_height[h] <= p_height[staff_height]
    <3>1. p_height[h] \in Nat
      BY <1>1, ThinningTypes
    <3> QED
      BY <2>1, <3>1 DEF V!Mode
  <2> QED
    BY <1>2, <2>2
<1> QED
  BY <1>3, <1>4

ThinnedInv == function = "VerticalThinning" => ThinInv

(* VerticalThinning: on every page each run leaves a pixel, joined to what *)
(* the column on the left has beside it; each pixel is on a run or next to *)
(* one; and the height of a staff line is the most frequent one.           *)
THEOREM ThinnedLinesHolds == Spec => []ThinnedLines
<1>1. Init => ThinnedInv
  BY ThinInit DEF Init, ThinnedInv
<1>2. ThinnedInv /\ [Next]_<<function, pages, page, i, pc, thinning, detected, scanned, cut>>
        => ThinnedInv'
  <2> SUFFICES ASSUME ThinnedInv, function' = "VerticalThinning",
                      [Next]_<<function, pages, page, i, pc, thinning, detected, scanned, cut>>
               PROVE  ThinInv'
    BY DEF ThinnedInv
  <2>1. CASE Thinning
    <3>1. function = "VerticalThinning" /\ V!Next
      BY <2>1 DEF Thinning
    <3> QED
      BY <3>1, ThinBlackRun, ThinWhiteRun, ThinEndColumn, ThinModes DEF ThinnedInv, V!Next
  <2>2. CASE Detection \/ Scan \/ Extraction
    BY <2>2 DEF Detection, Scan, Extraction
  <2>3. CASE UNCHANGED <<function, pages, page, i, pc, thinning, detected, scanned, cut>>
    BY <2>3, ThinSame DEF ThinnedInv, thinning
  <2> QED
    BY <2>1, <2>2, <2>3 DEF Next
<1>3. ThinnedInv => ThinnedLines
  <2>1. ThinInv => V!TypeOK
    BY DEF ThinInv
  <2> QED
    BY <2>1, ThinJoined, ThinCounted DEF ThinnedInv, ThinnedLines
<1> QED
  BY <1>1, <1>2, <1>3, PTL DEF Spec
=============================================================================
