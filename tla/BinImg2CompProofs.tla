------------------------- MODULE BinImg2CompProofs -------------------------
(***************************************************************************)
(* BinImg2Comp returns exactly the 8-connected components of its image,    *)
(* for every image of every size.                                          *)
(*                                                                         *)
(* The argument.  A label set is record-closed (map-closed) when no record  *)
(* (no parent link) leaves or enters it.  During the scan, neighbouring    *)
(* scanned pixels are in the same record-closed sets (completeness), and   *)
(* the labels of an isolated set of pixels form a record-closed set        *)
(* (soundness).  Merging carries both over from the records to maptable:   *)
(* every map-closed set is closed for the records replayed so far, and the *)
(* labels of an isolated set stay map-closed.  The painting pass gives     *)
(* every pixel the root that is in the same map-closed sets as its label,  *)
(* and two roots that no map-closed set separates are equal.  Closed sets  *)
(* replace chains of links, so no step needs an induction over data.  The  *)
(* list is in raster order because labels are, and links go to smaller     *)
(* labels.                                                                 *)
(***************************************************************************)
EXTENDS BinImg2Comp, FiniteSetTheorems, TLAPS

-----------------------------------------------------------------------------
(* The loops stay inside the image. *)
LEMMA NextPixelInside ==
  ASSUME here \in Pixel, NextPixel
  PROVE  here' \in Pixel
<1> USE SizeAssumption DEF Pixel, here
<1>1. i \in 0 .. Height - 1 /\ j \in 0 .. Width - 1
  OBVIOUS
<1>2. i' \in 0 .. Height - 1 /\ j' \in 0 .. Width - 1
  BY <1>1 DEF NextPixel
<1> QED
  BY <1>2

(* The pixels before the next one are those before this one, and this one. *)
LEMMA BeforeNext ==
  ASSUME here \in Pixel, NextPixel, ~LastPixel
  PROVE  \A p \in Pixel : Before(p)' <=> Before(p) \/ p = here
<1> USE SizeAssumption DEF Pixel, here
<1>1. i \in 0 .. Height - 1 /\ j \in 0 .. Width - 1
  OBVIOUS
<1> SUFFICES ASSUME NEW r \in 0 .. Height - 1, NEW c \in 0 .. Width - 1
             PROVE  Before(<<r, c>>)' <=> Before(<<r, c>>) \/ <<r, c>> = here
  OBVIOUS
<1> QED
  BY <1>1 DEF NextPixel, LastPixel, Before

(* Only the last pixel has every other pixel before it. *)
LEMMA BeforeLast ==
  ASSUME here \in Pixel, LastPixel
  PROVE  \A p \in Pixel : Before(p) \/ p = here
<1> USE SizeAssumption DEF Pixel, here
<1> SUFFICES ASSUME NEW r \in 0 .. Height - 1, NEW c \in 0 .. Width - 1
             PROVE  Before(<<r, c>>) \/ <<r, c>> = here
  OBVIOUS
<1> QED
  BY DEF LastPixel, Before

LEMMA NotBeforeFirst ==
  ASSUME i = 0, j = 0
  PROVE  \A p \in Pixel : ~Before(p)
<1> USE SizeAssumption DEF Pixel
<1> SUFFICES ASSUME NEW r \in 0 .. Height - 1, NEW c \in 0 .. Width - 1
             PROVE  ~Before(<<r, c>>)
  OBVIOUS
<1> QED
  BY DEF Before

LEMMA NotBeforeItself ==
  ASSUME here \in Pixel
  PROVE  ~Before(here)
BY SizeAssumption DEF Pixel, here, Before

(* After the last pixel the loop variables stand at the first one. *)
LEMMA WrapAround ==
  ASSUME here \in Pixel, NextPixel, LastPixel
  PROVE  i' = 0 /\ j' = 0
BY SizeAssumption DEF Pixel, here, NextPixel, LastPixel

(* The white neighbours of a pixel that precede it in raster order. *)
LEMMA EarlierNeighbours ==
  ASSUME here \in Pixel, NEW p \in Pixel, Before(p), Adjacent(p, here)
  PROVE  p \in {L(here), LU(here), U(here), RU(here)}
<1> USE SizeAssumption DEF Pixel, here
<1> SUFFICES ASSUME NEW r \in 0 .. Height - 1, NEW c \in 0 .. Width - 1,
                    Before(<<r, c>>), Adjacent(<<r, c>>, here)
             PROVE  <<r, c>> \in {L(here), LU(here), U(here), RU(here)}
  BY SMT
<1>1. i \in 0 .. Height - 1 /\ j \in 0 .. Width - 1
  OBVIOUS
<1>2. (r = i /\ c = j - 1) \/ (r = i - 1 /\ c \in {j - 1, j, j + 1})
  BY <1>1 DEF Before, Adjacent, Near
<1> QED
  BY <1>2 DEF L, LU, U, RU

-----------------------------------------------------------------------------
(* The record of a pixel pairs labels of pixels scanned before it. *)
LEMMA RecordType ==
  ASSUME TypeOK, pc = "scan",
         \A p \in src : Before(p) => labelMAT[p] \in Labels
  PROVE  RecordOf(here) \in Seq(Labels \X Labels)
<1>1. \A p \in {L(here), LU(here), U(here), RU(here)} : p \in src => labelMAT[p] \in Labels
  <2> SUFFICES ASSUME NEW p \in {L(here), LU(here), U(here), RU(here)}, p \in src
               PROVE  Before(p)
    OBVIOUS
  <2> QED
    BY SizeAssumption DEF TypeOK, Pixel, here, L, LU, U, RU, Before
<1> QED
  BY <1>1 DEF RecordOf, Clash

(* The labels already given out are labels. *)
LabelsGiven == pc = "scan" => LN = 1 /\ \A p \in src : Before(p) => labelMAT[p] \in Labels

LabelsPlaced ==
  /\ pc \in {"merge", "find"} => \A p \in src : labelMAT[p] \in Labels
  /\ pc \in {"paint", "climb"} => \A p \in src : ~Before(p) => labelMAT[p] \in Labels
  /\ \A p \in Pixel \ src : labelMAT[p] = 0
  /\ pc = "climb" => here \in src
  /\ pc \in {"merge", "find", "list"} => i = 0 /\ j = 0

TypeInv == TypeOK /\ LabelsGiven /\ LabelsPlaced

LEMMA LabelOfType ==
  ASSUME TypeOK, LabelsGiven, pc = "scan"
  PROVE  LabelOf(here) \in 1 .. newlabel
<1>1. \A p \in {L(here), LU(here), U(here), RU(here)} : p \in src => Before(p)
  BY SizeAssumption DEF TypeOK, Pixel, here, L, LU, U, RU, Before
<1>2. \A p \in {L(here), LU(here), U(here), RU(here)} : p \in src => labelMAT[p] \in 1 .. newlabel
  BY <1>1 DEF TypeOK, LabelsGiven, Labels
<1> QED
  BY <1>2 DEF LabelOf, TypeOK

LEMMA TypeInit == Init => TypeInv
<1> SUFFICES ASSUME Init PROVE TypeInv
  OBVIOUS
<1>1. here \in Pixel
  BY SizeAssumption DEF Init, here, Pixel
<1>2. \A p \in Pixel : ~Before(p)
  BY NotBeforeFirst DEF Init
<1> QED
  BY <1>1, <1>2 DEF Init, TypeInv, TypeOK, LabelsGiven, LabelsPlaced, Labels

LEMMA TypeScan ==
  ASSUME TypeInv, Scan
  PROVE  TypeInv'
<1> USE DEF TypeInv
<1>1. here \in Pixel /\ here' \in Pixel /\ pc = "scan" /\ NextPixel /\ src' = src
  BY NextPixelInside DEF Scan, TypeOK
<1>2. /\ newlabel' \in Nat \ {0}
      /\ newlabel <= newlabel'
      /\ LabelOf(here) \in 1 .. newlabel
      /\ here \in src => LabelOf(here) \in 1 .. newlabel' - 1
  BY <1>1, LabelOfType DEF Scan, ScanWhite, ScanBlack, TypeOK
<1>3. Labels \subseteq Labels'
  BY <1>2 DEF Labels, TypeOK
<1>4. numlist' \in Seq(Labels' \X Labels') /\ Len(numlist) <= Len(numlist')
  <2> DEFINE P == Labels' \X Labels'
  <2>1. numlist \in Seq(P)
    BY <1>3 DEF TypeOK
  <2>2. RecordOf(here) \in Seq(P)
    BY <1>1, <1>3, RecordType DEF LabelsGiven
  <2> HIDE DEF P
  <2>3. /\ numlist \o RecordOf(here) \in Seq(P)
        /\ Len(numlist \o RecordOf(here)) = Len(numlist) + Len(RecordOf(here))
        /\ Len(numlist) \in Nat /\ Len(RecordOf(here)) \in Nat
    BY <2>1, <2>2
  <2>4. numlist' = numlist \/ numlist' = numlist \o RecordOf(here)
    BY DEF Scan, ScanWhite, ScanBlack
  <2>5. CASE numlist' = numlist
    <3>1. Len(numlist') = Len(numlist)
      BY <2>5
    <3> QED
      BY <2>1, <2>3, <2>5, <3>1 DEF P
  <2>6. CASE numlist' = numlist \o RecordOf(here)
    <3>1. Len(numlist') = Len(numlist) + Len(RecordOf(here))
      BY <2>3, <2>6
    <3> QED
      BY <2>3, <2>6, <3>1 DEF P
  <2> QED
    BY <2>4, <2>5, <2>6
<1>5. labelMAT' \in [Pixel -> Int]
  BY <1>1, <1>2 DEF Scan, ScanWhite, ScanBlack, TypeOK
<1>6. \A p \in src : Before(p) \/ p = here => labelMAT'[p] \in Labels'
  BY <1>1, <1>2, <1>3, <1>5 DEF Scan, ScanWhite, ScanBlack, LabelsGiven, TypeOK, Labels
<1>7. \A p \in Pixel \ src' : labelMAT'[p] = 0
  BY <1>1, <1>5 DEF Scan, ScanWhite, ScanBlack, LabelsPlaced, TypeOK
<1>8. CASE ~LastPixel
  <2>1. pc' = "scan"
    BY <1>8 DEF Scan
  <2>2. LabelsGiven'
    <3>1. LN' = 1
      BY <1>1 DEF Scan, LabelsGiven
    <3>2. \A p \in src' : Before(p)' => labelMAT'[p] \in Labels'
      BY <1>1, <1>6, <1>8, BeforeNext DEF TypeOK
    <3> QED
      BY <3>1, <3>2 DEF LabelsGiven
  <2> QED
    BY <1>1, <1>2, <1>4, <1>5, <1>7, <2>1, <2>2 DEF Scan, TypeOK, LabelsPlaced
<1>9. CASE LastPixel
  <2>1. pc' = "merge"
    BY <1>9 DEF Scan
  <2>2. \A p \in src' : labelMAT'[p] \in Labels'
    BY <1>1, <1>6, <1>9, BeforeLast DEF TypeOK
  <2>3. maptable' \in [Labels' -> Labels']
    BY <1>9 DEF Scan, Labels
  <2> QED
    BY <1>1, <1>2, <1>4, <1>5, <1>7, <1>9, <2>1, <2>2, <2>3, WrapAround
       DEF Scan, TypeOK, LabelsPlaced, LabelsGiven
<1> QED
  BY <1>8, <1>9

-----------------------------------------------------------------------------
(* The scan. *)

Scanning == pc \in {"scan", "merge", "find"}

(* The labels given to the pixels of S. *)
LabelsIn(S) == {labelMAT[p] : p \in S \cap Scanned}

ScanSound ==
  Scanning =>
    \A S \in SUBSET src :
      Isolated(S) =>
        /\ \A p, q \in Scanned : labelMAT[p] = labelMAT[q] => (p \in S <=> q \in S)
        /\ RecordClosed(LabelsIn(S))

(* Every label is carried, and by a pixel before all those with larger ones. *)
LabelsUsed ==
  Scanning =>
    \A l \in Labels : \E p \in Scanned :
      labelMAT[p] = l /\ \A q \in Scanned : labelMAT[q] > l => RasterLess(p, q)

ScanInv == ScanLosesNoClash /\ ScanSound /\ LabelsUsed

LEMMA ScannedLabels ==
  ASSUME TypeInv, Scanning
  PROVE  /\ Scanned \subseteq src
         /\ \A p \in Scanned : labelMAT[p] \in Labels
BY DEF TypeInv, TypeOK, Scanning, Scanned, LabelsGiven, LabelsPlaced

(* A pixel is touched by each of its earlier neighbours, and these touch one *)
(* another except across the gap above it.                                 *)
LEMMA NeighbourGeometry ==
  ASSUME here \in Pixel, src \subseteq Pixel, pc = "scan"
  PROVE  /\ \A p \in {L(here), LU(here), U(here), RU(here)} :
              Adjacent(p, here) /\ Adjacent(here, p) /\ (p \in src => p \in Scanned)
         /\ Adjacent(L(here), LU(here))
         /\ Adjacent(L(here), U(here))
         /\ Adjacent(LU(here), U(here))
         /\ Adjacent(U(here), RU(here))
<1> USE SizeAssumption DEF Pixel, here
<1>1. i \in 0 .. Height - 1 /\ j \in 0 .. Width - 1
  OBVIOUS
<1>2. \A p \in {L(here), LU(here), U(here), RU(here)} : p \in src => p \in Scanned
  BY <1>1 DEF L, LU, U, RU, Scanned, Before
<1>3. \A p \in {L(here), LU(here), U(here), RU(here)} : Adjacent(p, here) /\ Adjacent(here, p)
  BY <1>1 DEF L, LU, U, RU, Adjacent, Near
<1>4. /\ Adjacent(L(here), LU(here))
      /\ Adjacent(L(here), U(here))
      /\ Adjacent(LU(here), U(here))
      /\ Adjacent(U(here), RU(here))
  BY <1>1 DEF L, LU, U, RU, Adjacent, Near
<1> QED
  BY <1>2, <1>3, <1>4

LEMMA AdjacentSymmetric ==
  ASSUME NEW p \in Pixel, NEW q \in Pixel, Adjacent(p, q)
  PROVE  Adjacent(q, p)
BY SizeAssumption DEF Pixel, Adjacent, Near

(* What a step of the scan does to the scanned pixels, their labels and the *)
(* records.                                                                *)
LEMMA ScanEffect ==
  ASSUME TypeInv, Scan
  PROVE  /\ here \in Pixel /\ here \notin Scanned
         /\ Scanned' = Scanned \cup ({here} \cap src)
         /\ \A p \in Scanned : labelMAT'[p] = labelMAT[p]
         /\ here \in src => labelMAT'[here] = LabelOf(here)
         /\ src' = src
         /\ Scanning /\ Scanning'
<1> USE DEF TypeInv
<1>1. here \in Pixel /\ NextPixel /\ pc = "scan" /\ src' = src /\ src \subseteq Pixel
  BY DEF Scan, TypeOK
<1>2. here \notin Scanned
  BY <1>1, NotBeforeItself DEF Scanned
<1>3. Scanned' = Scanned \cup ({here} \cap src)
  <2>1. CASE LastPixel
    <3>1. pc' = "merge"
      BY <2>1 DEF Scan
    <3> QED
      BY <1>1, <2>1, <3>1, BeforeLast DEF Scanned
  <2>2. CASE ~LastPixel
    <3>1. pc' = "scan"
      BY <2>2 DEF Scan
    <3>2. \A p \in src : Before(p)' <=> Before(p) \/ p = here
      BY <1>1, <2>2, BeforeNext
    <3> QED
      BY <1>1, <3>1, <3>2 DEF Scanned
  <2> QED
    BY <2>1, <2>2
<1>4. \A p \in Scanned : labelMAT'[p] = labelMAT[p]
  BY <1>1, <1>2 DEF Scan, ScanWhite, ScanBlack, Scanned, TypeOK
<1>5. here \in src => labelMAT'[here] = LabelOf(here)
  BY <1>1 DEF Scan, ScanWhite, ScanBlack, TypeOK
<1>6. Scanning /\ Scanning'
  BY DEF Scan, Scanning
<1> QED
  BY <1>1, <1>2, <1>3, <1>4, <1>5, <1>6

(* What concatenation does to a sequence. *)
LEMMA Concatenation ==
  ASSUME NEW P, NEW s \in Seq(P), NEW r \in Seq(P)
  PROVE  /\ Len(s) \in Nat /\ Len(r) \in Nat
         /\ Len(s \o r) = Len(s) + Len(r)
         /\ \A n \in 1 .. Len(s) : s[n] \in P /\ (s \o r)[n] = s[n]
         /\ \A n \in 1 .. Len(r) : (s \o r)[Len(s) + n] = r[n]
OBVIOUS

(* The records grow by appending. *)
LEMMA RecordsGrow ==
  ASSUME TypeInv, Scan
  PROVE  /\ Len(numlist) \in Nat /\ Len(numlist') \in Nat
         /\ Len(numlist) <= Len(numlist')
         /\ \A n \in 1 .. Len(numlist) : numlist'[n] = numlist[n]
         /\ \A n \in 1 .. Len(numlist) : numlist[n] \in Labels \X Labels
         /\ here \notin src => numlist' = numlist
         /\ here \in src =>
              /\ Len(numlist') = Len(numlist) + Len(RecordOf(here))
              /\ Len(RecordOf(here)) \in {0, 1}
              /\ Len(RecordOf(here)) = 1 => numlist'[Len(numlist')] = RecordOf(here)[1]
<1> USE DEF TypeInv
<1> DEFINE P == Labels \X Labels
<1>1. numlist \in Seq(P) /\ RecordOf(here) \in Seq(P)
  BY RecordType DEF TypeOK, LabelsGiven, Scan
<1>2. Len(RecordOf(here)) \in {0, 1}
  BY DEF RecordOf
<1>3. here \in src => numlist' = numlist \o RecordOf(here)
  BY DEF Scan, ScanWhite, ScanBlack
<1>4. here \notin src => numlist' = numlist
  BY DEF Scan, ScanWhite, ScanBlack
<1>5. /\ Len(numlist) \in Nat
      /\ \A n \in 1 .. Len(numlist) : numlist[n] \in P
  <2> HIDE DEF P
  <2> QED
    BY <1>1
<1>6. CASE here \in src
  <2> DEFINE r == RecordOf(here)
  <2>1. /\ Len(numlist \o r) = Len(numlist) + Len(r)
        /\ \A n \in 1 .. Len(numlist) : (numlist \o r)[n] = numlist[n]
        /\ \A n \in 1 .. Len(r) : (numlist \o r)[Len(numlist) + n] = r[n]
    <3> HIDE DEF P, r
    <3>1. r \in Seq(P)
      BY <1>1 DEF r
    <3> QED
      BY <1>1, <3>1, Concatenation
  <2>2. Len(r) = 1 => numlist'[Len(numlist')] = r[1]
    BY <1>3, <1>5, <1>6, <2>1
  <2> QED
    BY <1>2, <1>3, <1>5, <1>6, <2>1, <2>2
<1>7. CASE here \notin src
  <2>1. numlist' = numlist
    BY <1>4, <1>7
  <2>2. Len(numlist') = Len(numlist) /\ \A n \in 1 .. Len(numlist) : numlist'[n] = numlist[n]
    BY <2>1
  <2>3. Len(numlist') \in Nat /\ Len(numlist) <= Len(numlist')
    BY <1>5, <2>2
  <2> QED
    BY <1>5, <1>7, <2>1, <2>2, <2>3, Zenon
<1> QED
  BY <1>6, <1>7

(* A set closed for the grown records was closed for the old ones. *)
LEMMA RecordClosedBefore ==
  ASSUME TypeInv, Scan, NEW T, RecordClosed(T)'
  PROVE  RecordClosed(T \cap Labels)
<1> SUFFICES ASSUME NEW n \in 1 .. Len(numlist)
             PROVE  numlist[n][1] \in T \cap Labels <=> numlist[n][2] \in T \cap Labels
  BY DEF RecordClosed
<1>1. numlist[n] \in Labels \X Labels /\ numlist'[n] = numlist[n] /\ n \in 1 .. Len(numlist')
  BY RecordsGrow
<1>2. numlist'[n][1] \in T <=> numlist'[n][2] \in T
  BY <1>1 DEF RecordClosed
<1> QED
  BY <1>1, <1>2

(* A pixel joins the class of every earlier neighbour. *)
LEMMA NeighboursEquivalent ==
  ASSUME TypeInv, ScanLosesNoClash, Scan, here \in src,
         NEW T \in SUBSET Labels', RecordClosed(T)',
         NEW p \in {L(here), LU(here), U(here), RU(here)}, p \in src
  PROVE  labelMAT[p] \in T <=> LabelOf(here) \in T
<1> DEFINE l == L(here)  lu == LU(here)  u == U(here)  ru == RU(here)
           Same(a, b) == labelMAT[a] \in T <=> labelMAT[b] \in T
<1>1. pc = "scan" /\ here \in Pixel /\ src \subseteq Pixel /\ Scanning
  BY ScanEffect DEF TypeInv, TypeOK, Scan
<1>2. \A a, b \in Scanned : Adjacent(a, b) => Same(a, b)
  <2> SUFFICES ASSUME NEW a \in Scanned, NEW b \in Scanned, Adjacent(a, b)
               PROVE  Same(a, b)
    OBVIOUS
  <2> DEFINE T0 == T \cap Labels
  <2>1. RecordClosed(T0)
    BY RecordClosedBefore
  <2>2. labelMAT[a] \in T0 <=> labelMAT[b] \in T0
    BY <1>1, <2>1 DEF ScanLosesNoClash, Equivalent
  <2> QED
    BY <1>1, <2>2, ScannedLabels
<1>3. /\ l \in src /\ lu \in src => Same(l, lu)
      /\ l \in src /\ u \in src => Same(l, u)
      /\ lu \in src /\ u \in src => Same(lu, u)
      /\ u \in src /\ ru \in src => Same(u, ru)
  <2> HIDE DEF Same
  <2> QED
    BY <1>1, <1>2, NeighbourGeometry
<1>4. ASSUME Len(RecordOf(here)) = 1
      PROVE  RecordOf(here)[1][1] \in T <=> RecordOf(here)[1][2] \in T
  BY <1>4, RecordsGrow DEF RecordClosed
<1>5. l \in src /\ u \notin src /\ ru \in src => Same(l, ru)
  <2> SUFFICES ASSUME l \in src, u \notin src, ru \in src, labelMAT[l] # labelMAT[ru]
               PROVE  Same(l, ru)
    OBVIOUS
  <2>1. RecordOf(here) = << <<labelMAT[ru], labelMAT[l]>> >>
    BY DEF RecordOf, Clash
  <2> QED
    BY <1>4, <2>1
<1>6. l \notin src /\ lu \in src /\ u \notin src /\ ru \in src => Same(lu, ru)
  <2> SUFFICES ASSUME l \notin src, lu \in src, u \notin src, ru \in src,
                      labelMAT[lu] # labelMAT[ru]
               PROVE  Same(lu, ru)
    OBVIOUS
  <2>1. RecordOf(here) = << <<labelMAT[lu], labelMAT[ru]>> >>
    BY DEF RecordOf, Clash
  <2> QED
    BY <1>4, <2>1
<1> QED
  BY <1>3, <1>5, <1>6 DEF LabelOf

(* Completeness of the scan: see ScanLosesNoClash. *)
LEMMA ScanComplete ==
  ASSUME TypeInv, ScanLosesNoClash, Scan
  PROVE  ScanLosesNoClash'
<1> SUFFICES ASSUME NEW p \in Scanned', NEW q \in Scanned', Adjacent(p, q),
                    NEW T \in SUBSET Labels', RecordClosed(T)'
             PROVE  labelMAT'[p] \in T <=> labelMAT'[q] \in T
  BY DEF ScanLosesNoClash, Equivalent, Adjacent, Near
<1>1. /\ here \in Pixel
      /\ Scanned' = Scanned \cup ({here} \cap src)
      /\ \A a \in Scanned : labelMAT'[a] = labelMAT[a]
      /\ here \in src => labelMAT'[here] = LabelOf(here)
      /\ here \notin Scanned /\ Scanning
  BY ScanEffect
<1>2. src \subseteq Pixel /\ Scanned \subseteq src /\ pc = "scan"
  BY <1>1, ScannedLabels DEF TypeInv, TypeOK, Scan
<1>3. ASSUME NEW a \in Scanned, Adjacent(a, here), here \in src
      PROVE  labelMAT'[a] \in T <=> labelMAT'[here] \in T
  <2>1. Before(a)
    BY <1>2 DEF Scanned
  <2>2. a \in {L(here), LU(here), U(here), RU(here)}
    BY <1>1, <1>2, <1>3, <2>1, EarlierNeighbours
  <2> QED
    BY <1>1, <1>2, <1>3, <2>2, NeighboursEquivalent
<1>4. CASE p \in Scanned /\ q \in Scanned
  <2> DEFINE T0 == T \cap Labels
  <2>1. RecordClosed(T0)
    BY RecordClosedBefore
  <2>2. labelMAT[p] \in T0 <=> labelMAT[q] \in T0
    BY <1>2, <1>4, <2>1 DEF ScanLosesNoClash, Equivalent
  <2> QED
    BY <1>1, <1>4, <2>2, ScannedLabels
<1>5. CASE p \in Scanned /\ q = here
  BY <1>1, <1>3, <1>5
<1>6. CASE p = here /\ q \in Scanned
  BY <1>1, <1>2, <1>3, <1>6, AdjacentSymmetric
<1> QED
  BY <1>1, <1>4, <1>5, <1>6

(* Soundness of the scan: the labels of an isolated set of pixels are those *)
(* of no other pixel, and no record connects them to another label.        *)
LEMMA ScanIsSound ==
  ASSUME TypeInv, ScanSound, Scan
  PROVE  ScanSound'
<1>1. /\ here \in Pixel /\ here \notin Scanned
      /\ Scanned' = Scanned \cup ({here} \cap src)
      /\ \A a \in Scanned : labelMAT'[a] = labelMAT[a]
      /\ here \in src => labelMAT'[here] = LabelOf(here)
      /\ src' = src /\ Scanning
  BY ScanEffect
<1>2. src \subseteq Pixel /\ Scanned \subseteq src /\ pc = "scan"
  BY <1>1, ScannedLabels DEF TypeInv, TypeOK, Scan
<1>3. \A a \in Scanned : labelMAT[a] \in Labels /\ labelMAT[a] # newlabel
  <2>1. \A a \in Scanned : labelMAT[a] \in Labels
    BY <1>1, ScannedLabels
  <2>2. newlabel \notin Labels
    BY DEF Labels, TypeInv, TypeOK
  <2> QED
    BY <2>1, <2>2
<1> SUFFICES ASSUME NEW S \in SUBSET src, Isolated(S)
             PROVE  /\ \A p, q \in Scanned' : labelMAT'[p] = labelMAT'[q] => (p \in S <=> q \in S)
                    /\ RecordClosed(LabelsIn(S))'
  BY <1>1 DEF ScanSound, Isolated
<1>4. /\ \A p, q \in Scanned : labelMAT[p] = labelMAT[q] => (p \in S <=> q \in S)
      /\ RecordClosed(LabelsIn(S))
  BY <1>1 DEF ScanSound
<1>5. ASSUME NEW n \in {L(here), LU(here), U(here), RU(here)}, n \in src, here \in src
      PROVE  n \in Scanned /\ (n \in S <=> here \in S)
  BY <1>1, <1>2, <1>5, NeighbourGeometry DEF Isolated
<1>6. here \in src =>
        \/ LabelOf(here) = newlabel
        \/ \E n \in {L(here), LU(here), U(here), RU(here)} :
             n \in src /\ LabelOf(here) = labelMAT[n]
  BY DEF LabelOf
<1>7. ASSUME here \in src, NEW q \in Scanned, LabelOf(here) = labelMAT[q]
      PROVE  here \in S <=> q \in S
  <2>1. PICK n \in {L(here), LU(here), U(here), RU(here)} :
          n \in src /\ LabelOf(here) = labelMAT[n]
    BY <1>3, <1>6, <1>7
  <2> QED
    BY <1>4, <1>5, <1>7, <2>1
<1>8. \A p, q \in Scanned' : labelMAT'[p] = labelMAT'[q] => (p \in S <=> q \in S)
  <2> SUFFICES ASSUME NEW p \in Scanned', NEW q \in Scanned', labelMAT'[p] = labelMAT'[q]
               PROVE  p \in S <=> q \in S
    OBVIOUS
  <2>1. CASE p \in Scanned /\ q \in Scanned
    BY <1>1, <1>4, <2>1
  <2>2. CASE p = here /\ q \in Scanned
    BY <1>1, <1>7, <2>2
  <2>3. CASE p \in Scanned /\ q = here
    BY <1>1, <1>7, <2>3
  <2> QED
    BY <1>1, <2>1, <2>2, <2>3
<1>9. LabelsIn(S)' \cap Labels = LabelsIn(S)
  <2>1. LabelsIn(S)' = {labelMAT'[p] : p \in S \cap Scanned'}
    BY DEF LabelsIn
  <2>2. LabelsIn(S) \subseteq LabelsIn(S)' \cap Labels
    BY <1>1, <1>3, <2>1 DEF LabelsIn
  <2>3. ASSUME NEW l \in LabelsIn(S)' \cap Labels
        PROVE  l \in LabelsIn(S)
    <3>1. PICK p \in S \cap Scanned' : l = labelMAT'[p]
      BY <2>1, <2>3
    <3>2. CASE p \in Scanned
      BY <1>1, <3>1, <3>2 DEF LabelsIn
    <3>3. CASE p = here
      <4>1. l = LabelOf(here) /\ here \in src /\ l # newlabel
        BY <1>1, <2>3, <3>1, <3>3 DEF Labels, TypeInv, TypeOK
      <4>2. PICK n \in {L(here), LU(here), U(here), RU(here)} :
              n \in src /\ l = labelMAT[n]
        BY <1>6, <4>1
      <4> QED
        BY <1>5, <3>1, <3>3, <4>1, <4>2 DEF LabelsIn
    <3> QED
      BY <1>1, <3>1, <3>2, <3>3
  <2> QED
    BY <2>2, <2>3
<1>10. ASSUME NEW x \in Scanned
       PROVE  labelMAT[x] \in LabelsIn(S)' <=> x \in S
  BY <1>3, <1>4, <1>9 DEF LabelsIn
<1>11. RecordClosed(LabelsIn(S))'
  <2> DEFINE T == LabelsIn(S)'
  <2> HIDE DEF T
  <2> SUFFICES ASSUME NEW n \in 1 .. Len(numlist')
               PROVE  numlist'[n][1] \in T <=> numlist'[n][2] \in T
    BY DEF RecordClosed, T
  <2>1. CASE n \in 1 .. Len(numlist)
    <3>1. numlist'[n] = numlist[n] /\ numlist[n] \in Labels \X Labels
      BY <2>1, RecordsGrow
    <3>2. numlist[n][1] \in LabelsIn(S) <=> numlist[n][2] \in LabelsIn(S)
      BY <1>4, <2>1 DEF RecordClosed
    <3> QED
      BY <1>9, <3>1, <3>2 DEF T
  <2>2. CASE n \notin 1 .. Len(numlist)
    <3>1. here \in src /\ Len(RecordOf(here)) = 1 /\ numlist'[n] = RecordOf(here)[1]
      <4>1. here \in src
        BY <2>2, RecordsGrow
      <4>2. /\ Len(numlist) \in Nat
            /\ Len(numlist') = Len(numlist) + Len(RecordOf(here))
            /\ Len(RecordOf(here)) = 0 \/ Len(RecordOf(here)) = 1
        BY <4>1, RecordsGrow
      <4>3. Len(RecordOf(here)) # 0
        <5> SUFFICES ASSUME Len(RecordOf(here)) = 0 PROVE FALSE
          OBVIOUS
        <5>1. Len(numlist') = Len(numlist)
          BY <4>2
        <5> QED
          BY <2>2, <5>1
      <4>4. Len(numlist') = Len(numlist) + 1
        BY <4>2, <4>3
      <4>5. Len(RecordOf(here)) = 1 /\ n = Len(numlist')
        BY <2>2, <4>2, <4>3, <4>4
      <4> QED
        BY <4>1, <4>5, RecordsGrow
    <3>2. PICK a \in {L(here), LU(here), U(here), RU(here)}, b \in {L(here), LU(here), U(here), RU(here)} :
            /\ a \in src /\ b \in src
            /\ RecordOf(here)[1] = <<labelMAT[a], labelMAT[b]>>
      BY <3>1 DEF RecordOf, Clash
    <3>3. a \in Scanned /\ b \in Scanned /\ (a \in S <=> b \in S)
      BY <1>5, <3>1, <3>2
    <3>4. labelMAT[a] \in T <=> labelMAT[b] \in T
      BY <1>10, <3>3 DEF T
    <3> QED
      BY <3>1, <3>2, <3>4
  <2> QED
    BY <2>1, <2>2
<1> QED
  BY <1>8, <1>11

(* Labels are given out in raster order: a new one is the largest so far, and *)
(* its pixel comes after all that have been scanned.                       *)
LEMMA ScanUsesLabels ==
  ASSUME TypeInv, LabelsUsed, Scan
  PROVE  LabelsUsed'
<1>1. /\ here \notin Scanned
      /\ Scanned' = Scanned \cup ({here} \cap src)
      /\ \A a \in Scanned : labelMAT'[a] = labelMAT[a]
      /\ here \in src => labelMAT'[here] = LabelOf(here)
      /\ Scanning
  BY ScanEffect
<1>2. \A a \in Scanned : RasterLess(a, here) /\ labelMAT[a] \in Labels
  BY <1>1, ScannedLabels DEF Scanned, Before, RasterLess, here, Scan
<1>3. /\ here \in src => LabelOf(here) \in 1 .. newlabel
      /\ newlabel \in Nat
  BY LabelOfType DEF TypeInv, TypeOK, Scan
<1> SUFFICES ASSUME NEW l \in Labels'
             PROVE  \E p \in Scanned' :
                      labelMAT'[p] = l /\ \A q \in Scanned' : labelMAT'[q] > l => RasterLess(p, q)
  BY DEF LabelsUsed
<1>4. CASE l \in Labels
  <2>1. PICK p \in Scanned :
          labelMAT[p] = l /\ \A q \in Scanned : labelMAT[q] > l => RasterLess(p, q)
    BY <1>1, <1>4 DEF LabelsUsed
  <2>2. ASSUME NEW q \in Scanned', labelMAT'[q] > l
        PROVE  RasterLess(p, q)
    BY <1>1, <1>2, <2>1, <2>2
  <2> QED
    BY <1>1, <2>1, <2>2
<1>5. CASE l \notin Labels
  <2>1. here \in src /\ LabelOf(here) = newlabel /\ l = newlabel
    BY <1>5 DEF Labels, Scan, ScanWhite, ScanBlack, TypeInv, TypeOK
  <2>2. \A q \in Scanned' : ~(labelMAT'[q] > l)
    BY <1>1, <1>2, <1>3, <2>1 DEF Labels
  <2> QED
    BY <1>1, <2>1, <2>2
<1> QED
  BY <1>4, <1>5

(* Init and the other steps of the first two passes. *)
LEMMA ScanInvInit == Init => ScanInv
<1> SUFFICES ASSUME Init PROVE ScanInv
  OBVIOUS
<1>1. Scanned = {}
  BY NotBeforeFirst DEF Init, Scanned
<1>2. Labels = {} /\ Len(numlist) = 0
  BY DEF Init, Labels
<1> QED
  BY <1>1, <1>2 DEF ScanInv, ScanLosesNoClash, ScanSound, LabelsUsed, RecordClosed

-----------------------------------------------------------------------------
(* Types in the passes after the scan. *)

LEMMA RootsBelowCardinality ==
  ASSUME NEW l \in Nat
  PROVE  IsFiniteSet(RootsBelow(l)) /\ Cardinality(RootsBelow(l)) \in Nat
<1>1. IsFiniteSet(1 .. l - 1)
  BY FS_Interval
<1>2. RootsBelow(l) \in SUBSET (1 .. l - 1)
  BY DEF RootsBelow
<1>3. IsFiniteSet(RootsBelow(l))
  BY <1>1, <1>2, FS_Subset
<1> QED
  BY <1>3, FS_CardinalityType

Merging == TakeRecord \/ FindRoot1 \/ FindRoot2 \/ Link

LEMMA TypeMerge ==
  ASSUME TypeInv, Merging
  PROVE  TypeInv'
<1> USE DEF TypeInv
<1>1. /\ pc \in {"merge", "find"} /\ pc' \in {"merge", "find"}
      /\ UNCHANGED <<src, labelMAT, newlabel, numlist, checklabel, comp, i, j>>
      /\ Labels' = Labels /\ here' = here
  BY DEF Merging, TakeRecord, FindRoot1, FindRoot2, Link, Labels, here
<1>2. LabelsPlaced' /\ LabelsGiven'
  BY <1>1 DEF LabelsPlaced, LabelsGiven, Before
<1>3. maptable \in [Labels -> Labels] /\ Len(numlist) \in Nat /\ LN \in 1 .. Len(numlist) + 1
  <2>1. numlist \in Seq(Labels \X Labels)
    BY DEF TypeOK
  <2> QED
    BY <1>1, <2>1 DEF TypeOK
<1>4. CASE TakeRecord
  <2>1. numlist[LN] \in Labels \X Labels
    <3> DEFINE P == Labels \X Labels
    <3>1. numlist \in Seq(P) /\ LN \in 1 .. Len(numlist)
      BY <1>4 DEF TypeOK, TakeRecord
    <3> HIDE DEF P
    <3>2. numlist[LN] \in P
      BY <3>1
    <3> QED
      BY <3>2 DEF P
  <2>2. val1' \in Labels /\ val2' \in Labels /\ LN' = LN /\ LN <= Len(numlist) /\ maptable' = maptable
    BY <1>3, <1>4, <2>1 DEF TakeRecord
  <2> QED
    BY <1>1, <1>2, <1>3, <2>2 DEF TypeOK
<1>5. CASE FindRoot1
  BY <1>1, <1>2, <1>3, <1>5 DEF TypeOK, FindRoot1
<1>6. CASE FindRoot2
  BY <1>1, <1>2, <1>3, <1>6 DEF TypeOK, FindRoot2
<1>7. CASE Link
  <2>1. val1 \in Labels /\ val2 \in Labels /\ LN <= Len(numlist) /\ pc' = "merge" /\ LN' = LN + 1
    BY <1>7 DEF TypeOK, Link
  <2>2. maptable' \in [Labels -> Labels]
    BY <1>3, <1>7, <2>1 DEF Link, Linked
  <2> QED
    BY <1>1, <1>2, <1>3, <2>1, <2>2 DEF TypeOK
<1> QED
  BY <1>4, <1>5, <1>6, <1>7 DEF Merging

LEMMA TypeNumberRoots ==
  ASSUME TypeInv, NumberRoots
  PROVE  TypeInv'
<1> USE DEF TypeInv
<1>1. /\ pc = "merge" /\ pc' = "paint" /\ LN' = 1 /\ numlist' = <<>>
      /\ UNCHANGED <<src, labelMAT, newlabel, maptable, i, j>>
      /\ Labels' = Labels /\ here' = here
  BY DEF NumberRoots, Labels, here
<1>2. LabelsPlaced' /\ LabelsGiven'
  BY <1>1 DEF LabelsPlaced, LabelsGiven, Before
<1>3. checklabel' \in [Labels -> Int]
  <2>1. \A l \in Labels : Cardinality(RootsBelow(l)) \in Int
    BY RootsBelowCardinality DEF Labels, TypeOK
  <2> QED
    BY <2>1 DEF NumberRoots
<1>4. DOMAIN comp' \subseteq Nat /\ \A n \in DOMAIN comp' : comp'[n] \subseteq src
  <2>1. Cardinality(RootsBelow(newlabel)) \in Nat
    BY RootsBelowCardinality DEF TypeOK
  <2> QED
    BY <2>1 DEF NumberRoots
<1>5. numlist' \in Seq(Labels' \X Labels') /\ LN' \in 1 .. Len(numlist') + 1
  BY <1>1
<1> QED
  BY <1>1, <1>2, <1>3, <1>4, <1>5 DEF TypeOK

(* The painting pass steps over exactly the black pixels. *)
LEMMA PaintingWhite ==
  ASSUME TypeInv, pc = "paint"
  PROVE  labelMAT[here] # 0 <=> here \in src
<1>1. here \in Pixel /\ ~Before(here)
  BY NotBeforeItself DEF TypeInv, TypeOK
<1>2. here \in src => labelMAT[here] \in Labels
  BY <1>1 DEF TypeInv, LabelsPlaced
<1>3. 0 \notin Labels
  BY DEF Labels
<1> QED
  BY <1>1, <1>2, <1>3 DEF TypeInv, LabelsPlaced

Painting == SkipBlack \/ TakeLabel \/ Climb \/ Paint

(* Where the painting pass stands. *)
LEMMA PaintMoves ==
  ASSUME TypeInv, SkipBlack \/ Paint
  PROVE  /\ here' \in Pixel
         /\ pc' = "paint" => \A p \in Pixel : Before(p)' <=> Before(p) \/ p = here
         /\ pc' = "list"  => i' = 0 /\ j' = 0 /\ \A p \in Pixel : Before(p) \/ p = here
         /\ pc' \in {"paint", "list"}
<1>1. here \in Pixel /\ NextPixel /\ pc' = AfterPixel
  BY DEF TypeInv, TypeOK, SkipBlack, Paint
<1>2. here' \in Pixel
  BY <1>1, NextPixelInside
<1>3. CASE LastPixel
  BY <1>1, <1>2, <1>3, BeforeLast, WrapAround DEF AfterPixel
<1>4. CASE ~LastPixel
  BY <1>1, <1>2, <1>4, BeforeNext DEF AfterPixel
<1> QED
  BY <1>3, <1>4

LEMMA TypePaint ==
  ASSUME TypeInv, Painting \/ BuildList
  PROVE  TypeInv'
<1> USE DEF TypeInv
<1>1. /\ pc \in {"paint", "climb", "list"} /\ pc' \in {"paint", "climb", "list", "done"}
      /\ UNCHANGED <<src, newlabel, numlist, maptable, checklabel, LN>>
      /\ Labels' = Labels
  BY DEF Painting, SkipBlack, TakeLabel, Climb, Paint, BuildList, AfterPixel, Labels
<1>2. LabelsGiven'
  BY <1>1 DEF LabelsGiven
<1>3. CASE SkipBlack
  <2>1. pc = "paint" /\ labelMAT' = labelMAT /\ comp' = comp
    BY <1>3 DEF SkipBlack
  <2>2. LabelsPlaced'
    BY <1>1, <1>3, <2>1, PaintMoves DEF LabelsPlaced, TypeOK
  <2> QED
    BY <1>1, <1>2, <1>3, <2>1, <2>2, PaintMoves DEF TypeOK
<1>4. CASE TakeLabel
  <2>1. here \in src /\ labelMAT[here] \in Labels
    BY <1>4, PaintingWhite, NotBeforeItself DEF TakeLabel, LabelsPlaced, TypeOK
  <2>2. /\ pc = "paint" /\ pc' = "climb" /\ val1' \in Labels /\ here' = here
        /\ UNCHANGED <<labelMAT, comp, i, j>>
    BY <1>4, <2>1 DEF TakeLabel, here
  <2> QED
    BY <1>1, <1>2, <2>1, <2>2 DEF TypeOK, LabelsPlaced, Before
<1>5. CASE Climb
  <2>1. /\ pc = "climb" /\ pc' = "climb" /\ val1' \in Labels /\ here' = here
        /\ UNCHANGED <<labelMAT, comp, i, j>>
    BY <1>5 DEF Climb, here, TypeOK
  <2> QED
    BY <1>1, <1>2, <2>1 DEF TypeOK, LabelsPlaced, Before
<1>6. CASE Paint
  <2>1. pc = "climb" /\ here \in src /\ here \in Pixel /\ src \subseteq Pixel
    BY <1>6 DEF Paint, LabelsPlaced, TypeOK
  <2>2. /\ labelMAT' \in [Pixel -> Int]
        /\ \A p \in Pixel : p # here => labelMAT'[p] = labelMAT[p]
    BY <1>6, <2>1 DEF Paint, TypeOK
  <2>3. /\ DOMAIN comp' = DOMAIN comp
        /\ \A n \in DOMAIN comp : comp'[n] \subseteq src
    BY <1>6, <2>1 DEF Paint, TypeOK
  <2>4. LabelsPlaced'
    BY <1>1, <1>6, <2>1, <2>2, PaintMoves DEF LabelsPlaced
  <2> QED
    BY <1>1, <1>2, <1>6, <2>2, <2>3, <2>4, PaintMoves DEF TypeOK
<1>7. CASE BuildList
  <2>1. pc = "list" /\ pc' = "done" /\ UNCHANGED <<labelMAT, comp, i, j>> /\ here' = here
    BY <1>7 DEF BuildList, here
  <2> QED
    BY <1>1, <1>2, <2>1 DEF TypeOK, LabelsPlaced
<1> QED
  BY <1>3, <1>4, <1>5, <1>6, <1>7 DEF Painting

LEMMA TypeStutter ==
  ASSUME TypeInv, UNCHANGED vars
  PROVE  TypeInv'
BY DEF TypeInv, TypeOK, LabelsGiven, LabelsPlaced, Labels, Before, here, vars

(* TypeInv is inductive. *)
LEMMA TypeInvariant == Spec => []TypeInv
<1>1. TypeInv /\ [Next]_vars => TypeInv'
  BY TypeScan, TypeMerge, TypeNumberRoots, TypePaint, TypeStutter
     DEF Next, Merging, Painting
<1> QED
  BY TypeInit, <1>1, PTL DEF Spec

(* The type invariant of the model. *)
THEOREM TypeCorrect == Spec => []TypeOK
<1>1. TypeInv => TypeOK
  BY DEF TypeInv
<1> QED
  BY <1>1, TypeInvariant, PTL

-----------------------------------------------------------------------------
(* Replaying the records. *)

(* A set of labels that no parent link leaves or enters. *)
MapClosed(T) == \A l \in Labels : l \in T <=> maptable[l] \in T

MergeComplete ==
  pc \in {"merge", "find"} =>
    \A T \in SUBSET Labels :
      MapClosed(T) => \A n \in 1 .. LN - 1 : numlist[n][1] \in T <=> numlist[n][2] \in T

MergeSound ==
  pc \in {"merge", "find"} =>
    \A S \in SUBSET src : Isolated(S) => MapClosed(LabelsIn(S))

FindInv ==
  pc = "find" =>
    \A T \in SUBSET Labels :
      MapClosed(T) => /\ val1 \in T <=> numlist[LN][1] \in T
                      /\ val2 \in T <=> numlist[LN][2] \in T

(* Parents are smaller. *)
Forest == pc # "scan" => \A l \in Labels : maptable[l] <= l

MergeInv == MergeComplete /\ MergeSound /\ FindInv /\ Forest

(* The forest of roots the scan leaves behind. *)
LEMMA MergeStarts ==
  ASSUME TypeInv, ScanInv', MergeInv, Scan
  PROVE  MergeInv'
<1>1. CASE pc' = "scan"
  BY <1>1 DEF MergeInv, MergeComplete, MergeSound, FindInv, Forest
<1>2. CASE pc' # "scan"
  <2>1. pc' = "merge" /\ LN' \in {1} /\ maptable' = [l \in Labels' |-> l] /\ newlabel' \in Nat
    <3>1. LN = 1
      BY DEF Scan, TypeInv, LabelsGiven
    <3> QED
      BY <1>2, <3>1, TypeScan DEF Scan, Labels, TypeInv, TypeOK
  <2>2. \A l \in Labels' : maptable'[l] = l /\ l \in Nat
    BY <2>1 DEF Labels
  <2> QED
    BY <2>1, <2>2 DEF MergeInv, MergeComplete, MergeSound, FindInv, Forest, MapClosed
<1> QED
  BY <1>1, <1>2

(* The steps of the replay leave the labelled image alone. *)
LEMMA MergeKeepsScan ==
  ASSUME TypeInv, Merging
  PROVE  /\ UNCHANGED <<src, labelMAT, newlabel, numlist>>
         /\ Scanned = src /\ Scanned' = src
         /\ Labels' = Labels
         /\ \A S \in SUBSET src : LabelsIn(S)' = LabelsIn(S)
<1>1. /\ UNCHANGED <<src, labelMAT, newlabel, numlist>>
      /\ pc \in {"merge", "find"} /\ pc' \in {"merge", "find"}
  BY DEF Merging, TakeRecord, FindRoot1, FindRoot2, Link
<1>2. Scanned = src /\ Scanned' = src
  BY <1>1 DEF Scanned
<1> QED
  BY <1>1, <1>2 DEF Labels, LabelsIn

LEMMA ScanInvMerge ==
  ASSUME TypeInv, ScanInv, Merging
  PROVE  ScanInv'
<1>1. /\ UNCHANGED <<src, labelMAT, newlabel, numlist>>
      /\ Scanned = src /\ Scanned' = src
      /\ Labels' = Labels
      /\ pc \in {"merge", "find"} /\ pc' \in {"merge", "find"}
      /\ \A S \in SUBSET src : LabelsIn(S)' = LabelsIn(S)
  BY MergeKeepsScan DEF Merging, TakeRecord, FindRoot1, FindRoot2, Link
<1>2. Scanning /\ Scanning'
  BY <1>1 DEF Scanning
<1>3. ScanLosesNoClash'
  BY <1>1 DEF ScanInv, ScanLosesNoClash, Equivalent, RecordClosed
<1>4. ScanSound'
  BY <1>1, <1>2 DEF ScanInv, ScanSound, RecordClosed, Isolated
<1>5. LabelsUsed'
  BY <1>1, <1>2 DEF ScanInv, LabelsUsed
<1> QED
  BY <1>3, <1>4, <1>5 DEF ScanInv

(* Linking two roots closes the closed sets under that link, and changes    *)
(* them in no other way.                                                   *)
LEMMA LinkCloses ==
  ASSUME TypeInv, Link, NEW T \in SUBSET Labels
  PROVE  MapClosed(T)' <=> MapClosed(T) /\ (val1 \in T <=> val2 \in T)
<1>1. /\ maptable \in [Labels -> Labels] /\ val1 \in Labels /\ val2 \in Labels
      /\ maptable[val1] = val1 /\ maptable[val2] = val2
      /\ maptable' = Linked /\ Labels' = Labels /\ Labels \subseteq Int
  <2>1. pc = "find" /\ IsRoot(val1) /\ IsRoot(val2) /\ maptable' = Linked /\ newlabel' = newlabel
    BY DEF Link
  <2>2. maptable \in [Labels -> Labels] /\ val1 \in Labels /\ val2 \in Labels
    BY <2>1 DEF TypeInv, TypeOK
  <2>3. Labels' = Labels /\ Labels \subseteq Int
    BY <2>1 DEF Labels
  <2> QED
    BY <2>1, <2>2, <2>3 DEF IsRoot
<1>2. CASE val1 > val2
  <2>1. \A l \in Labels : maptable'[l] = IF l = val1 THEN val2 ELSE maptable[l]
    BY <1>1, <1>2 DEF Linked
  <2> QED
    BY <1>1, <2>1 DEF MapClosed
<1>3. CASE val1 < val2
  <2>1. \A l \in Labels : maptable'[l] = IF l = val2 THEN val1 ELSE maptable[l]
    BY <1>1, <1>3 DEF Linked
  <2> QED
    BY <1>1, <2>1 DEF MapClosed
<1>4. CASE val1 = val2
  <2>1. maptable' = maptable
    BY <1>1, <1>4 DEF Linked
  <2> QED
    BY <1>1, <1>4, <2>1 DEF MapClosed
<1> QED
  BY <1>1, <1>2, <1>3, <1>4

LEMMA MergeStep ==
  ASSUME TypeInv, ScanInv, MergeInv, Merging
  PROVE  MergeInv'
<1>1. /\ UNCHANGED <<src, labelMAT, newlabel, numlist>>
      /\ Labels' = Labels
      /\ pc \in {"merge", "find"} /\ pc' \in {"merge", "find"}
      /\ \A S \in SUBSET src : LabelsIn(S)' = LabelsIn(S)
  BY MergeKeepsScan DEF Merging, TakeRecord, FindRoot1, FindRoot2, Link
<1>2. maptable \in [Labels -> Labels] /\ LN \in Nat \ {0} /\ Len(numlist) \in Nat
  BY <1>1 DEF TypeInv, TypeOK
<1>3. CASE TakeRecord \/ FindRoot1 \/ FindRoot2
  <2>1. maptable' = maptable /\ LN' = LN /\ pc' = "find"
    BY <1>3 DEF TakeRecord, FindRoot1, FindRoot2
  <2>2. MergeComplete' /\ MergeSound' /\ Forest'
    BY <1>1, <2>1 DEF MergeInv, MergeComplete, MergeSound, Forest, MapClosed, Isolated
  <2>3. FindInv'
    <3> SUFFICES ASSUME NEW T \in SUBSET Labels, MapClosed(T)
                 PROVE  /\ val1' \in T <=> numlist[LN][1] \in T
                        /\ val2' \in T <=> numlist[LN][2] \in T
      BY <1>1, <2>1 DEF FindInv, MapClosed
    <3>1. CASE TakeRecord
      BY <3>1 DEF TakeRecord
    <3>2. CASE FindRoot1
      BY <3>2 DEF FindRoot1, FindInv, MergeInv, MapClosed, TypeInv, TypeOK
    <3>3. CASE FindRoot2
      BY <3>3 DEF FindRoot2, FindInv, MergeInv, MapClosed, TypeInv, TypeOK
    <3> QED
      BY <1>3, <3>1, <3>2, <3>3
  <2> QED
    BY <2>2, <2>3 DEF MergeInv
<1>4. CASE Link
  <2>1. /\ pc = "find" /\ pc' = "merge" /\ LN' = LN + 1 /\ LN <= Len(numlist)
        /\ val1 \in Labels /\ val2 \in Labels
    BY <1>4 DEF Link, TypeInv, TypeOK
  <2>2. ASSUME NEW T \in SUBSET Labels, MapClosed(T)
        PROVE  /\ val1 \in T <=> numlist[LN][1] \in T
               /\ val2 \in T <=> numlist[LN][2] \in T
    BY <2>1, <2>2 DEF MergeInv, FindInv
  <2>3. MergeComplete'
    <3> SUFFICES ASSUME NEW T \in SUBSET Labels, MapClosed(T)', NEW n \in 1 .. LN
                 PROVE  numlist[n][1] \in T <=> numlist[n][2] \in T
      BY <1>1, <1>2, <2>1 DEF MergeComplete
    <3>1. MapClosed(T) /\ (val1 \in T <=> val2 \in T)
      BY <1>4, LinkCloses
    <3>2. CASE n = LN
      BY <2>2, <3>1, <3>2
    <3>3. CASE n \in 1 .. LN - 1
      BY <2>1, <3>1, <3>3 DEF MergeInv, MergeComplete
    <3> QED
      BY <1>2, <3>2, <3>3
  <2>4. MergeSound'
    <3> SUFFICES ASSUME NEW S \in SUBSET src, Isolated(S)
                 PROVE  MapClosed(LabelsIn(S))'
      BY <1>1 DEF MergeSound, Isolated
    <3>1. Scanning /\ Scanned = src
      BY <1>1 DEF Scanning, Scanned
    <3>2. LabelsIn(S) \in SUBSET Labels
      BY <3>1, ScannedLabels DEF LabelsIn
    <3>3. MapClosed(LabelsIn(S)) /\ RecordClosed(LabelsIn(S))
      BY <1>1, <3>1 DEF MergeInv, MergeSound, ScanInv, ScanSound
    <3>4. numlist[LN][1] \in LabelsIn(S) <=> numlist[LN][2] \in LabelsIn(S)
      BY <1>2, <2>1, <3>3 DEF RecordClosed
    <3>5. val1 \in LabelsIn(S) <=> val2 \in LabelsIn(S)
      BY <2>2, <3>2, <3>3, <3>4
    <3> QED
      BY <1>1, <1>4, <3>2, <3>3, <3>5, LinkCloses DEF MapClosed
  <2>5. Forest'
    BY <1>1, <1>2, <1>4, <2>1 DEF MergeInv, Forest, Link, Linked, Labels
  <2>6. FindInv'
    BY <2>1 DEF FindInv
  <2> QED
    BY <2>3, <2>4, <2>5, <2>6 DEF MergeInv
<1> QED
  BY <1>3, <1>4 DEF Merging

-----------------------------------------------------------------------------
(* Numbering the roots. *)

(* The labels that climb to r: the members of every set that contains r and  *)
(* all labels whose parent it contains.                                    *)
Up(r, B) == r \in B /\ \A l \in Labels : maptable[l] \in B => l \in B

Climbers(r) == {x \in Labels : \A B \in SUBSET Labels : Up(r, B) => x \in B}

LEMMA ClimbersClosed ==
  ASSUME maptable \in [Labels -> Labels], NEW r \in Labels, IsRoot(r)
  PROVE  MapClosed(Climbers(r)) /\ Climbers(r) \in SUBSET Labels /\ r \in Climbers(r)
<1> DEFINE D == Climbers(r)
<1> USE DEF Climbers, Up
<1>1. ASSUME NEW l \in Labels, maptable[l] \in D
      PROVE  l \in D
  BY <1>1
<1>2. ASSUME NEW l \in D
      PROVE  maptable[l] \in D
  <2>1. CASE l = r
    BY <2>1 DEF IsRoot
  <2>2. CASE l # r
    <3> SUFFICES ASSUME NEW B \in SUBSET Labels, Up(r, B), maptable[l] \notin B
                 PROVE  FALSE
      OBVIOUS
    <3>1. Up(r, B \ {l})
      BY <2>2
    <3>2. B \ {l} \in SUBSET Labels
      OBVIOUS
    <3> QED
      BY <1>2, <3>1, <3>2
  <2> QED
    BY <2>1, <2>2
<1>3. MapClosed(D) /\ D \in SUBSET Labels
  BY <1>1, <1>2 DEF MapClosed
<1> QED
  BY <1>3

(* Two roots that no map-closed set separates are the same label. *)
LEMMA RootsDistinct ==
  ASSUME maptable \in [Labels -> Labels],
         NEW r \in Labels, NEW s \in Labels, IsRoot(r), IsRoot(s),
         \A T \in SUBSET Labels : MapClosed(T) => (r \in T <=> s \in T)
  PROVE  r = s
<1> SUFFICES ASSUME r # s PROVE FALSE
  OBVIOUS
<1>1. s \notin Climbers(r)
  <2>1. Up(r, Labels \ {s})
    BY DEF IsRoot, Up
  <2> QED
    BY <2>1 DEF Climbers
<1> QED
  BY <1>1, ClimbersClosed

(* A root is the least label of its class, since parents are smaller. *)
LEMMA RootIsLeast ==
  ASSUME maptable \in [Labels -> Labels], newlabel \in Nat,
         \A l \in Labels : maptable[l] <= l,
         NEW r \in Labels, NEW a \in Labels, IsRoot(r),
         \A T \in SUBSET Labels : MapClosed(T) => (a \in T <=> r \in T)
  PROVE  r <= a
<1> DEFINE B == {l \in Labels : r <= l}
<1>1. Labels \subseteq Int
  BY DEF Labels
<1>2. Up(r, B) /\ B \in SUBSET Labels
  <2>1. r \in B
    BY <1>1
  <2>2. ASSUME NEW l \in Labels, maptable[l] \in B
        PROVE  l \in B
    <3>1. r \in Int /\ l \in Int /\ maptable[l] \in Int
      BY <1>1
    <3>2. r <= maptable[l] /\ maptable[l] <= l
      BY <2>2
    <3> QED
      BY <3>1, <3>2
  <2> QED
    BY <2>1, <2>2 DEF Up
<1>3. a \in Climbers(r)
  BY ClimbersClosed
<1> QED
  BY <1>2, <1>3 DEF Climbers

Roots == {r \in Labels : IsRoot(r)}

PaintPc == pc \in {"paint", "climb", "list", "done"}

(* checklabel numbers the roots one to one, and in order. *)
Numbered ==
  /\ DOMAIN comp = 0 .. Cardinality(RootsBelow(newlabel)) - 1
  /\ \A r \in Roots : checklabel[r] \in DOMAIN comp
  /\ \A r, s \in Roots : checklabel[r] = checklabel[s] => r = s
  /\ \A r, s \in Roots : r < s => checklabel[r] < checklabel[s]
  /\ \A n \in DOMAIN comp : \E r \in Roots : checklabel[r] = n

LEMMA RootsAreNumbered ==
  ASSUME TypeInv, NumberRoots
  PROVE  Numbered'
<1> DEFINE Card(l) == Cardinality(RootsBelow(l))
<1>1. newlabel \in Nat \ {0} /\ Labels \subseteq Nat /\ maptable \in [Labels -> Labels]
  BY DEF TypeInv, TypeOK, Labels, NumberRoots
<1>2. Roots = RootsBelow(newlabel) /\ IsFiniteSet(Roots) /\ Card(newlabel) \in Nat
  BY <1>1, RootsBelowCardinality DEF Roots, RootsBelow, Labels
<1>3. \A r \in Roots : Card(r) \in Nat
  BY <1>1, RootsBelowCardinality DEF Roots
<1>4. ASSUME NEW r \in Roots, NEW b \in 1 .. newlabel, r < b
      PROVE  Card(r) < Card(b)
  <2>1. /\ b \in Nat /\ r \in Nat
        /\ IsFiniteSet(RootsBelow(b)) /\ Card(b) \in Nat /\ Card(r) \in Nat
    <3>1. b \in Nat /\ r \in Nat
      BY <1>1 DEF Roots
    <3>2. IsFiniteSet(RootsBelow(b)) /\ Card(b) \in Nat
      BY <3>1, RootsBelowCardinality
    <3> QED
      BY <1>3, <3>1, <3>2
  <2>2. RootsBelow(r) \in SUBSET RootsBelow(b)
    BY <1>4, <2>1 DEF RootsBelow
  <2>3. r \in RootsBelow(b) /\ r \notin RootsBelow(r)
    BY <1>4, <2>1 DEF RootsBelow, Roots, Labels
  <2>4. Card(r) <= Card(b) /\ (Card(r) = Card(b) => RootsBelow(r) = RootsBelow(b))
    BY <2>1, <2>2, FS_Subset
  <2> QED
    BY <2>1, <2>3, <2>4
<1>5. \A r \in Roots : Card(r) \in 0 .. Card(newlabel) - 1
  <2> SUFFICES ASSUME NEW r \in Roots
               PROVE  Card(r) \in 0 .. Card(newlabel) - 1
    OBVIOUS
  <2>1. newlabel \in 1 .. newlabel /\ r < newlabel
    BY <1>1 DEF Roots, Labels
  <2>2. Card(r) < Card(newlabel)
    BY <1>4, <2>1
  <2> HIDE DEF Card
  <2> QED
    BY <1>2, <1>3, <2>2
<1>6. \A r, s \in Roots : Card(r) = Card(s) => r = s
  <2> SUFFICES ASSUME NEW r \in Roots, NEW s \in Roots, r # s
               PROVE  Card(r) # Card(s)
    OBVIOUS
  <2>1. r \in 1 .. newlabel /\ s \in 1 .. newlabel /\ (r < s \/ s < r)
    BY <1>1 DEF Roots, Labels
  <2>2. Card(r) < Card(s) \/ Card(s) < Card(r)
    BY <1>4, <2>1
  <2> HIDE DEF Card
  <2> QED
    BY <1>3, <2>2
<1>7. \A n \in 0 .. Card(newlabel) - 1 : \E r \in Roots : Card(r) = n
  <2> DEFINE K == Card(newlabel)  f == [r \in Roots |-> Card(r)]
  <2>1. IsFiniteSet(0 .. K - 1) /\ Cardinality(0 .. K - 1) = K
    <3>1. K - 1 \in Int /\ K \in Nat /\ 0 \in Int
      BY <1>2
    <3> HIDE DEF K
    <3>2. /\ IsFiniteSet(0 .. K - 1)
          /\ Cardinality(0 .. K - 1) = IF 0 > K - 1 THEN 0 ELSE (K - 1) - 0 + 1
      BY <3>1, FS_Interval, Zenon
    <3> QED
      BY <3>1, <3>2
  <2>2. f \in Injection(Roots, 0 .. K - 1)
    <3> HIDE DEF Card
    <3> QED
      BY <1>5, <1>6 DEF Injection, IsInjective
  <2>3. Cardinality(Roots) = K
    BY <1>2
  <2> HIDE DEF K, f
  <2>4. f \in Surjection(Roots, 0 .. K - 1)
    BY <2>1, <2>2, <2>3, FS_Injection
  <2>5. \A n \in 0 .. K - 1 : \E r \in Roots : f[r] = n
    BY <2>4 DEF Surjection
  <2> QED
    BY <2>5 DEF f, K
<1>8. /\ Roots' = Roots /\ newlabel' = newlabel
      /\ \A r \in Roots : checklabel'[r] = Card(r)
      /\ DOMAIN comp' = 0 .. Card(newlabel) - 1
      /\ RootsBelow(newlabel)' = RootsBelow(newlabel)
  BY DEF NumberRoots, Roots, RootsBelow, IsRoot, Labels
<1>10. \A r, s \in Roots : r < s => Card(r) < Card(s)
  <2> SUFFICES ASSUME NEW r \in Roots, NEW s \in Roots, r < s
               PROVE  Card(r) < Card(s)
    OBVIOUS
  <2>1. s \in 1 .. newlabel
    BY <1>1 DEF Roots, Labels
  <2> QED
    BY <1>4, <2>1
<1> HIDE DEF Card
<1>9. /\ \A r \in Roots' : checklabel'[r] \in DOMAIN comp'
      /\ \A r, s \in Roots' : checklabel'[r] = checklabel'[s] => r = s
      /\ \A r, s \in Roots' : r < s => checklabel'[r] < checklabel'[s]
      /\ \A n \in DOMAIN comp' : \E r \in Roots' : checklabel'[r] = n
  BY <1>5, <1>6, <1>7, <1>8, <1>10
<1> QED
  BY <1>8, <1>9 DEF Numbered, Card

-----------------------------------------------------------------------------
(* Painting.  The labels the scan gave are overwritten as the pass goes, so  *)
(* the invariant speaks of a labelling lab0 that every unpainted pixel still *)
(* carries.                                                                *)

Tracks(lab0) ==
  /\ \A T \in SUBSET Labels :
       MapClosed(T) => \A p, q \in src : Adjacent(p, q) => (lab0[p] \in T <=> lab0[q] \in T)
  /\ \A S \in SUBSET src :
       Isolated(S) => /\ MapClosed({lab0[p] : p \in S})
                      /\ \A p, q \in src : lab0[p] = lab0[q] => (p \in S <=> q \in S)
  /\ \A l \in Labels : \E p \in src :
       lab0[p] = l /\ \A q \in src : lab0[q] > l => RasterLess(p, q)

Painted(p) == pc \in {"list", "done"} \/ Before(p)

(* No map-closed set separates the two labels. *)
SameClass(a, b) == \A T \in SUBSET Labels : MapClosed(T) => (a \in T <=> b \in T)

Collects(lab0) ==
  /\ \A p \in src : ~Painted(p) => labelMAT[p] = lab0[p]
  /\ \A p \in src : Painted(p) => \E n \in DOMAIN comp : p \in comp[n]
  /\ \A n \in DOMAIN comp : \A p \in comp[n] :
       Painted(p) /\ \E r \in Roots : checklabel[r] = n /\ SameClass(lab0[p], r)
  /\ pc = "climb" => SameClass(lab0[here], val1)

Listed ==
  pc = "done" =>
    /\ DOMAIN Clist = 1 .. Cardinality(RootsBelow(newlabel))
    /\ \A n \in DOMAIN Clist : Clist[n].Pt = comp[n - 1]

PaintInv ==
  PaintPc =>
    /\ Numbered
    /\ \E lab0 \in [src -> Labels] : Tracks(lab0) /\ Collects(lab0)
    /\ Listed

LEMMA PaintStarts ==
  ASSUME TypeInv, ScanInv, MergeInv, NumberRoots
  PROVE  PaintInv'
<1>1. /\ pc = "merge" /\ pc' = "paint" /\ LN = Len(numlist) + 1
      /\ UNCHANGED <<src, labelMAT, newlabel, maptable, i, j>>
      /\ i = 0 /\ j = 0 /\ Labels' = Labels
      /\ \A n \in DOMAIN comp' : comp'[n] = {}
  BY DEF NumberRoots, Labels, TypeInv, LabelsPlaced
<1>2. /\ \A p \in src : labelMAT[p] \in Labels
      /\ Scanned = src /\ Scanning /\ src \subseteq Pixel
      /\ numlist \in Seq(Labels \X Labels)
  BY <1>1 DEF TypeInv, TypeOK, LabelsPlaced, Scanned, Scanning
<1>3. \A T \in SUBSET Labels : MapClosed(T) => RecordClosed(T)
  <2>1. Len(numlist) \in Nat
    BY <1>2
  <2>2. LN - 1 = Len(numlist)
    BY <1>1, <2>1
  <2> QED
    BY <1>1, <2>2 DEF MergeInv, MergeComplete, RecordClosed
<1> PICK lab0 \in [src -> Labels] : \A p \in src : lab0[p] = labelMAT[p]
  <2> DEFINE f == [p \in src |-> labelMAT[p]]
  <2>1. f \in [src -> Labels] /\ \A p \in src : f[p] = labelMAT[p]
    BY <1>2
  <2> QED
    BY <2>1
<1>4. Tracks(lab0)
  <2>1. ASSUME NEW T \in SUBSET Labels, MapClosed(T), NEW p \in src, NEW q \in src, Adjacent(p, q)
        PROVE  lab0[p] \in T <=> lab0[q] \in T
    BY <1>1, <1>2, <1>3, <2>1 DEF ScanInv, ScanLosesNoClash, Equivalent
  <2>2. ASSUME NEW S \in SUBSET src, Isolated(S)
        PROVE  /\ MapClosed({lab0[p] : p \in S})
               /\ \A p, q \in src : lab0[p] = lab0[q] => (p \in S <=> q \in S)
    <3>1. {lab0[p] : p \in S} = LabelsIn(S)
      BY <1>2 DEF LabelsIn
    <3>2. MapClosed(LabelsIn(S))
      BY <1>1, <2>2 DEF MergeInv, MergeSound
    <3>3. \A p, q \in src : labelMAT[p] = labelMAT[q] => (p \in S <=> q \in S)
      BY <1>2, <2>2 DEF ScanInv, ScanSound
    <3> QED
      BY <3>1, <3>2, <3>3
  <2>3. \A l \in Labels : \E p \in src :
          lab0[p] = l /\ \A q \in src : lab0[q] > l => RasterLess(p, q)
    BY <1>2 DEF ScanInv, LabelsUsed
  <2> QED
    BY <2>1, <2>2, <2>3 DEF Tracks
<1>5. Tracks(lab0)'
  BY <1>1, <1>4 DEF Tracks, MapClosed, Isolated
<1>6. Collects(lab0)'
  <2>1. \A p \in src : ~Painted(p)'
    BY <1>1, <1>2, NotBeforeFirst DEF Painted, Before
  <2> QED
    BY <1>1, <2>1 DEF Collects
<1> QED
  BY <1>1, <1>2, <1>5, <1>6, RootsAreNumbered DEF PaintInv, Listed

LEMMA PaintStep ==
  ASSUME TypeInv, PaintInv, Painting \/ BuildList
  PROVE  PaintInv'
<1>1. /\ PaintPc /\ PaintPc' /\ UNCHANGED <<src, newlabel, maptable, checklabel>>
      /\ Labels' = Labels /\ Roots' = Roots
      /\ RootsBelow(newlabel)' = RootsBelow(newlabel)
      /\ src \subseteq Pixel /\ maptable \in [Labels -> Labels] /\ here \in Pixel
  <2>1. /\ PaintPc /\ PaintPc' /\ UNCHANGED <<src, newlabel, maptable, checklabel>>
    BY DEF Painting, SkipBlack, TakeLabel, Climb, Paint, BuildList, AfterPixel, PaintPc
  <2> QED
    BY <2>1 DEF Labels, Roots, RootsBelow, IsRoot, TypeInv, TypeOK, PaintPc
<1>2. PICK lab0 \in [src -> Labels] : Tracks(lab0) /\ Collects(lab0)
  BY <1>1 DEF PaintInv
<1>3. Tracks(lab0)'
  BY <1>1, <1>2 DEF Tracks, MapClosed, Isolated
<1>4. \A a, b : SameClass(a, b)' <=> SameClass(a, b)
  BY <1>1 DEF SameClass, MapClosed
<1>5. CASE SkipBlack
  <2>1. pc = "paint" /\ here \notin src /\ UNCHANGED <<labelMAT, comp>>
    BY <1>5, PaintingWhite DEF SkipBlack
  <2>2. \A p \in src : Painted(p)' <=> Painted(p)
    BY <1>1, <1>5, <2>1, PaintMoves DEF Painted
  <2>3. pc' \in {"paint", "list"} /\ \A n \in DOMAIN comp : comp[n] \subseteq src
    BY <1>5, PaintMoves DEF TypeInv, TypeOK
  <2>4. Collects(lab0)'
    BY <1>1, <1>2, <1>4, <2>1, <2>2, <2>3 DEF Collects
  <2> QED
    BY <1>1, <1>2, <1>3, <2>1, <2>3, <2>4 DEF PaintInv, Numbered, Listed
<1>6. CASE TakeLabel
  <2>1. /\ pc = "paint" /\ pc' = "climb" /\ here \in src /\ val1' = labelMAT[here]
        /\ UNCHANGED <<labelMAT, comp, i, j>> /\ here' = here
    BY <1>6, PaintingWhite DEF TakeLabel, here
  <2>2. \A p : Painted(p)' <=> Painted(p)
    BY <2>1 DEF Painted, Before
  <2>3. val1' = lab0[here]
    BY <1>1, <1>2, <2>1, NotBeforeItself DEF Collects, Painted
  <2>4. SameClass(lab0[here], val1')
    BY <2>3 DEF SameClass
  <2>5. Collects(lab0)'
    BY <1>1, <1>2, <1>4, <2>1, <2>2, <2>4 DEF Collects
  <2> QED
    BY <1>1, <1>2, <1>3, <2>1, <2>5 DEF PaintInv, Numbered, Listed
<1>7. CASE Climb
  <2>1. /\ pc = "climb" /\ pc' = "climb" /\ val1' = maptable[val1] /\ val1 \in Labels
        /\ UNCHANGED <<labelMAT, comp, i, j>> /\ here' = here
    BY <1>7 DEF Climb, here, TypeInv, TypeOK
  <2>2. \A p : Painted(p)' <=> Painted(p)
    BY <2>1 DEF Painted, Before
  <2>3. SameClass(lab0[here], val1')
    BY <1>2, <2>1 DEF Collects, SameClass, MapClosed
  <2>4. Collects(lab0)'
    BY <1>1, <1>2, <1>4, <2>1, <2>2, <2>3 DEF Collects
  <2> QED
    BY <1>1, <1>2, <1>3, <2>1, <2>4 DEF PaintInv, Numbered, Listed
<1>8. CASE Paint
  <2> DEFINE m == checklabel[val1]
  <2>1. /\ pc = "climb" /\ val1 \in Roots /\ here \in src
        /\ \A p \in Pixel : p # here => labelMAT'[p] = labelMAT[p]
        /\ comp' = [comp EXCEPT ![m] = @ \cup {here}]
        /\ pc' \in {"paint", "list"}
    <3>1. pc' \in {"paint", "list"}
      BY <1>8, PaintMoves
    <3> QED
      BY <1>8, <3>1 DEF Paint, TypeInv, TypeOK, LabelsPlaced, Roots
  <2>2. m \in DOMAIN comp
    BY <1>1, <2>1 DEF PaintInv, Numbered
  <2> HIDE DEF m
  <2>3. /\ DOMAIN comp' = DOMAIN comp
        /\ \A n \in DOMAIN comp : n # m => comp'[n] = comp[n]
        /\ comp'[m] = comp[m] \cup {here}
    BY <2>1, <2>2
  <2>4. \A p \in src : Painted(p)' <=> Painted(p) \/ p = here
    BY <1>1, <1>8, <2>1, PaintMoves DEF Painted
  <2>5. SameClass(lab0[here], val1)
    BY <1>2, <2>1 DEF Collects
  <2>6. \A n \in DOMAIN comp : comp[n] \subseteq src
    BY DEF TypeInv, TypeOK
  <2>7. \A p \in src : ~Painted(p)' => labelMAT'[p] = lab0[p]
    BY <1>1, <1>2, <2>1, <2>4 DEF Collects
  <2>8. \A p \in src : Painted(p)' => \E n \in DOMAIN comp' : p \in comp'[n]
    BY <1>2, <2>2, <2>3, <2>4 DEF Collects
  <2>9. \A n \in DOMAIN comp' : \A p \in comp'[n] :
          Painted(p)' /\ \E r \in Roots : checklabel[r] = n /\ SameClass(lab0[p], r)
    <3> SUFFICES ASSUME NEW n \in DOMAIN comp', NEW p \in comp'[n]
                 PROVE  Painted(p)' /\ \E r \in Roots : checklabel[r] = n /\ SameClass(lab0[p], r)
      OBVIOUS
    <3>1. CASE p \in comp[n]
      BY <1>2, <2>3, <2>4, <2>6, <3>1 DEF Collects
    <3>2. CASE p \notin comp[n]
      <4>1. n = m /\ p = here
        BY <2>3, <3>2
      <4> QED
        BY <2>1, <2>4, <2>5, <4>1 DEF m
    <3> QED
      BY <3>1, <3>2
  <2>10. Collects(lab0)'
    BY <1>1, <1>4, <2>1, <2>7, <2>8, <2>9 DEF Collects
  <2> QED
    BY <1>1, <1>2, <1>3, <2>1, <2>3, <2>10 DEF PaintInv, Numbered, Listed
<1>9. CASE BuildList
  <2>1. pc = "list" /\ pc' = "done" /\ UNCHANGED <<labelMAT, comp, i, j>>
    BY <1>9 DEF BuildList
  <2>2. Collects(lab0)'
    BY <1>1, <1>2, <1>4, <2>1 DEF Collects, Painted
  <2>3. Listed'
    BY <1>1, <1>9, <2>1 DEF BuildList, Listed, ComponentProperty
  <2> QED
    BY <1>1, <1>2, <1>3, <2>1, <2>2, <2>3 DEF PaintInv, Numbered
<1> QED
  BY <1>5, <1>6, <1>7, <1>8, <1>9 DEF Painting

-----------------------------------------------------------------------------
(* The theorems. *)

IInv == TypeInv /\ ScanInv /\ MergeInv /\ PaintInv

LEMMA InitIInv == Init => IInv
BY TypeInit, ScanInvInit
   DEF Init, IInv, MergeInv, MergeComplete, MergeSound, FindInv, Forest, PaintInv, PaintPc

LEMMA NextIInv == IInv /\ [Next]_vars => IInv'
<1> SUFFICES ASSUME IInv, [Next]_vars PROVE IInv'
  OBVIOUS
<1> USE DEF IInv
<1>1. CASE Scan
  <2>1. TypeInv'
    BY <1>1, TypeScan
  <2>2. ScanInv'
    BY <1>1, ScanComplete, ScanIsSound, ScanUsesLabels DEF ScanInv
  <2>3. MergeInv'
    BY <1>1, <2>2, MergeStarts
  <2>4. PaintInv'
    BY <1>1 DEF Scan, PaintInv, PaintPc
  <2> QED
    BY <2>1, <2>2, <2>3, <2>4
<1>2. CASE Merging
  <2>1. PaintInv'
    BY <1>2 DEF Merging, TakeRecord, FindRoot1, FindRoot2, Link, PaintInv, PaintPc
  <2> QED
    BY <1>2, <2>1, TypeMerge, ScanInvMerge, MergeStep
<1>3. CASE NumberRoots \/ Painting \/ BuildList
  <2>1. /\ pc' \in {"paint", "climb", "list", "done"} /\ UNCHANGED <<newlabel, maptable>>
        /\ pc # "scan"
    BY <1>3 DEF NumberRoots, Painting, SkipBlack, TakeLabel, Climb, Paint, BuildList, AfterPixel
  <2>2. ScanInv' /\ MergeInv'
    BY <2>1 DEF ScanInv, ScanLosesNoClash, ScanSound, LabelsUsed, Scanning, MergeInv,
                MergeComplete, MergeSound, FindInv, Forest, Labels
  <2>3. TypeInv'
    BY <1>3, TypeNumberRoots, TypePaint
  <2>4. PaintInv'
    BY <1>3, PaintStarts, PaintStep
  <2> QED
    BY <2>2, <2>3, <2>4
<1>4. CASE UNCHANGED vars
  <2>1. TypeInv'
    BY <1>4, TypeStutter
  <2>2. ScanInv'
    <3>1. /\ UNCHANGED <<src, labelMAT, newlabel, numlist, pc>>
          /\ Labels' = Labels /\ Scanned' = Scanned /\ Scanning' = Scanning
          /\ \A S : LabelsIn(S)' = LabelsIn(S)
      BY <1>4 DEF vars, Labels, Scanned, Scanning, Before, LabelsIn
    <3>2. ScanLosesNoClash'
      BY <3>1 DEF ScanInv, ScanLosesNoClash, Equivalent, RecordClosed
    <3>3. ScanSound'
      BY <3>1 DEF ScanInv, ScanSound, RecordClosed, Isolated
    <3>4. LabelsUsed'
      BY <3>1 DEF ScanInv, LabelsUsed
    <3> QED
      BY <3>2, <3>3, <3>4 DEF ScanInv
  <2>3. MergeInv'
    BY <1>4 DEF MergeInv, MergeComplete, MergeSound, FindInv, Forest, MapClosed,
                LabelsIn, Scanned, Before, Isolated, Labels, vars
  <2>4. PaintInv'
    <3>1. /\ UNCHANGED <<src, labelMAT, newlabel, maptable, checklabel, comp, Clist, i, j, val1, pc>>
          /\ Labels' = Labels /\ Roots' = Roots /\ here' = here
          /\ RootsBelow(newlabel)' = RootsBelow(newlabel)
          /\ \A p : Painted(p)' <=> Painted(p)
      BY <1>4 DEF vars, Labels, Roots, RootsBelow, IsRoot, here, Painted, Before
    <3>2. \A a, b : SameClass(a, b)' <=> SameClass(a, b)
      BY <3>1 DEF SameClass, MapClosed
    <3>3. ASSUME NEW lab0 \in [src -> Labels], Tracks(lab0), Collects(lab0)
          PROVE  Tracks(lab0)' /\ Collects(lab0)'
      <4>1. Tracks(lab0)'
        BY <3>1, <3>3 DEF Tracks, MapClosed, Isolated
      <4>2. Collects(lab0)'
        BY <3>1, <3>2, <3>3 DEF Collects
      <4> QED
        BY <4>1, <4>2
    <3> QED
      BY <3>1, <3>3 DEF PaintInv, PaintPc, Numbered, Listed
  <2> QED
    BY <2>1, <2>2, <2>3, <2>4
<1> QED
  BY <1>1, <1>2, <1>3, <1>4 DEF Next, Merging, Painting

LEMMA Invariance == Spec => []IInv
BY InitIInv, NextIInv, PTL DEF Spec

(* No clash of labels is lost by the scan, whatever the image. *)
THEOREM ScanCorrect == Spec => []ScanLosesNoClash
<1>1. IInv => ScanLosesNoClash
  BY DEF IInv, ScanInv
<1> QED
  BY <1>1, Invariance, PTL

(* A component number belongs to one root, and that root's class is the      *)
(* component.                                                              *)
LEMMA ComponentClass ==
  ASSUME TypeInv, PaintPc, NEW lab0 \in [src -> Labels], Numbered, Collects(lab0),
         NEW n \in DOMAIN comp, NEW p \in comp[n], NEW m \in DOMAIN comp, NEW q \in comp[m],
         SameClass(lab0[p], lab0[q])
  PROVE  n = m
<1>1. PICK r \in Roots : checklabel[r] = n /\ SameClass(lab0[p], r)
  BY DEF Collects
<1>2. PICK s \in Roots : checklabel[s] = m /\ SameClass(lab0[q], s)
  BY DEF Collects
<1>3. SameClass(r, s)
  BY <1>1, <1>2 DEF SameClass
<1>4. r = s
  BY <1>3, RootsDistinct DEF SameClass, Roots, TypeInv, TypeOK, PaintPc
<1> QED
  BY <1>1, <1>2, <1>4

LEMMA NoneEmpty ==
  ASSUME TypeInv, PaintPc, NEW lab0 \in [src -> Labels], Numbered, Tracks(lab0), Collects(lab0),
         pc \in {"list", "done"}, NEW n \in DOMAIN comp
  PROVE  comp[n] # {}
<1>1. PICK r \in Roots : checklabel[r] = n
  BY DEF Numbered
<1>2. PICK p \in src : lab0[p] = r
  BY DEF Tracks, Roots
<1>3. PICK m \in DOMAIN comp : p \in comp[m]
  BY DEF Collects, Painted
<1>4. PICK s \in Roots : checklabel[s] = m /\ SameClass(lab0[p], s)
  BY <1>3 DEF Collects
<1>5. r = s
  BY <1>2, <1>4, RootsDistinct DEF SameClass, Roots, TypeInv, TypeOK, PaintPc
<1> QED
  BY <1>1, <1>3, <1>4, <1>5

(* ComponentProperty always finds the first pixel it dereferences. *)
THEOREM ComponentsHavePixels == Spec => []NoEmptyComponent
<1>1. IInv => NoEmptyComponent
  BY NoneEmpty DEF IInv, PaintInv, PaintPc, NoEmptyComponent
<1> QED
  BY <1>1, Invariance, PTL

LEMMA ResultIsCorrect == IInv => ExtractsComponents
<1> SUFFICES ASSUME IInv, pc = "done" PROVE ExtractsComponents
  BY DEF ExtractsComponents
<1>1. /\ TypeInv /\ PaintPc /\ Numbered
      /\ DOMAIN Clist = 1 .. Cardinality(RootsBelow(newlabel))
      /\ \A n \in DOMAIN Clist : Clist[n].Pt = comp[n - 1]
  BY DEF IInv, PaintInv, PaintPc, Listed
<1>2. PICK lab0 \in [src -> Labels] : Tracks(lab0) /\ Collects(lab0)
  BY <1>1 DEF IInv, PaintInv
<1>3. /\ Cardinality(RootsBelow(newlabel)) \in Nat
      /\ DOMAIN comp = 0 .. Cardinality(RootsBelow(newlabel)) - 1
      /\ src \subseteq Pixel
      /\ \A n \in DOMAIN comp : comp[n] \subseteq src
  BY <1>1, RootsBelowCardinality DEF Numbered, TypeInv, TypeOK
<1>4. /\ \A n \in DOMAIN Clist : n - 1 \in DOMAIN comp /\ n \in Int
      /\ \A m \in DOMAIN comp : m + 1 \in DOMAIN Clist /\ Clist[m + 1].Pt = comp[m]
  <2>1. \A m \in DOMAIN comp : (m + 1) - 1 = m /\ m + 1 \in DOMAIN Clist
    BY <1>1, <1>3
  <2>2. \A m \in DOMAIN comp : Clist[m + 1].Pt = comp[m]
    <3> SUFFICES ASSUME NEW m \in DOMAIN comp PROVE Clist[m + 1].Pt = comp[m]
      OBVIOUS
    <3>1. Clist[m + 1].Pt = comp[(m + 1) - 1]
      BY <1>1, <2>1
    <3> QED
      BY <2>1, <3>1
  <2>3. \A n \in DOMAIN Clist : n - 1 \in DOMAIN comp /\ n \in Int
    BY <1>1, <1>3
  <2> QED
    BY <2>1, <2>2, <2>3
<1>5. \A p \in src : \E n \in DOMAIN comp : p \in comp[n]
  BY <1>2 DEF Collects, Painted
<1>6. ASSUME NEW n \in DOMAIN comp
      PROVE  IsComponent(comp[n])
  <2>1. comp[n] # {} /\ comp[n] \subseteq src
    BY <1>1, <1>2, <1>3, NoneEmpty
  <2>2. Isolated(comp[n])
    <3> SUFFICES ASSUME NEW p \in comp[n], NEW q \in src \ comp[n], Adjacent(p, q)
                 PROVE  FALSE
      BY DEF Isolated
    <3>1. PICK m \in DOMAIN comp : q \in comp[m]
      BY <1>5
    <3>2. SameClass(lab0[p], lab0[q])
      BY <1>2, <2>1 DEF Tracks, SameClass
    <3> QED
      BY <1>1, <1>2, <3>1, <3>2, ComponentClass
  <2>3. ASSUME NEW S \in SUBSET comp[n], S # {}, Isolated(S)
        PROVE  S = comp[n]
    <3> SUFFICES ASSUME NEW y \in comp[n] PROVE y \in S
      OBVIOUS
    <3>1. PICK x \in S : TRUE
      BY <2>3
    <3>2. SameClass(lab0[x], lab0[y])
      <4>1. PICK r \in Roots : checklabel[r] = n /\ SameClass(lab0[x], r)
        BY <1>2, <3>1 DEF Collects
      <4>2. PICK s \in Roots : checklabel[s] = n /\ SameClass(lab0[y], s)
        BY <1>2 DEF Collects
      <4>3. r = s
        BY <1>1, <4>1, <4>2 DEF Numbered
      <4> QED
        BY <4>1, <4>2, <4>3 DEF SameClass
    <3> DEFINE T == {lab0[p] : p \in S}
    <3>3. /\ MapClosed(T) /\ T \in SUBSET Labels
          /\ \A p, q \in src : lab0[p] = lab0[q] => (p \in S <=> q \in S)
      <4>1. S \in SUBSET src
        BY <2>1
      <4>2. /\ MapClosed({lab0[p] : p \in S})
            /\ \A p, q \in src : lab0[p] = lab0[q] => (p \in S <=> q \in S)
        BY <1>2, <2>3, <4>1 DEF Tracks
      <4>3. T \in SUBSET Labels
        BY <4>1
      <4> QED
        BY <4>2, <4>3
    <3>4. lab0[y] \in T
      <4>1. lab0[x] \in T
        BY <3>1
      <4> HIDE DEF T
      <4> QED
        BY <3>2, <3>3, <4>1 DEF SameClass
    <3>5. PICK z \in S : lab0[y] = lab0[z]
      BY <3>4
    <3> QED
      BY <2>1, <3>3, <3>5
  <2> QED
    BY <2>1, <2>2, <2>3 DEF IsComponent
<1>7. \A n \in DOMAIN Clist : IsComponent(Clist[n].Pt)
  BY <1>1, <1>4, <1>6
<1>8. ASSUME NEW m \in DOMAIN Clist, NEW n \in DOMAIN Clist, Clist[m].Pt = Clist[n].Pt
      PROVE  m = n
  <2>1. /\ m - 1 \in DOMAIN comp /\ n - 1 \in DOMAIN comp
        /\ comp[m - 1] = comp[n - 1] /\ comp[m - 1] # {}
    BY <1>1, <1>2, <1>4, <1>8, NoneEmpty
  <2>2. PICK p \in comp[m - 1] : p \in comp[n - 1]
    BY <2>1
  <2>3. m - 1 = n - 1
    BY <1>1, <1>2, <2>1, <2>2, ComponentClass DEF SameClass
  <2> QED
    BY <1>4, <2>3
<1>9. src = UNION {Clist[n].Pt : n \in DOMAIN Clist}
  <2>1. \A n \in DOMAIN Clist : Clist[n].Pt \subseteq src
    BY <1>1, <1>3, <1>4
  <2>2. \A p \in src : \E n \in DOMAIN Clist : p \in Clist[n].Pt
    BY <1>4, <1>5
  <2> QED
    BY <2>1, <2>2
<1> QED
  BY <1>7, <1>8, <1>9 DEF ExtractsComponents

(* BinImg2Comp returns the 8-connected components of its image. *)
THEOREM ComponentsCorrect == Spec => []ExtractsComponents
BY ResultIsCorrect, Invariance, PTL

LEMMA ResultInOrder == IInv => ListInRasterOrder
<1> SUFFICES ASSUME IInv, pc = "done", NEW m \in DOMAIN Clist, NEW n \in DOMAIN Clist, m < n
             PROVE  \E p \in Clist[m].Pt : \A q \in Clist[n].Pt : RasterLess(p, q)
  BY DEF ListInRasterOrder
<1>1. /\ TypeInv /\ PaintPc /\ Numbered
      /\ DOMAIN Clist = 1 .. Cardinality(RootsBelow(newlabel))
      /\ \A k \in DOMAIN Clist : Clist[k].Pt = comp[k - 1]
  BY DEF IInv, PaintInv, PaintPc, Listed
<1>2. PICK lab0 \in [src -> Labels] : Tracks(lab0) /\ Collects(lab0)
  BY <1>1 DEF IInv, PaintInv
<1>3. /\ newlabel \in Nat /\ Labels \subseteq Int /\ maptable \in [Labels -> Labels]
      /\ \A l \in Labels : maptable[l] <= l
      /\ \A k \in DOMAIN comp : comp[k] \subseteq src
  BY DEF TypeInv, TypeOK, IInv, MergeInv, Forest, Labels
<1>4. /\ m - 1 \in DOMAIN comp /\ n - 1 \in DOMAIN comp /\ m - 1 < n - 1
      /\ m \in Int /\ n \in Int
  <2> DEFINE K == Cardinality(RootsBelow(newlabel))
  <2>1. K \in Nat
    BY <1>3, RootsBelowCardinality
  <2>2. DOMAIN comp = 0 .. K - 1 /\ m \in 1 .. K /\ n \in 1 .. K
    BY <1>1 DEF Numbered
  <2> HIDE DEF K
  <2> QED
    BY <2>1, <2>2
<1>5. PICK r \in Roots : checklabel[r] = m - 1
  BY <1>1, <1>4 DEF Numbered
<1>6. PICK s \in Roots : checklabel[s] = n - 1
  BY <1>1, <1>4 DEF Numbered
<1>7. r \in Labels /\ s \in Labels /\ IsRoot(r) /\ IsRoot(s)
  BY DEF Roots
<1>8. r < s
  <2>1. r # s
    BY <1>1, <1>4, <1>5, <1>6
  <2>2. ~(s < r)
    BY <1>1, <1>4, <1>5, <1>6 DEF Numbered
  <2> QED
    BY <1>3, <1>7, <2>1, <2>2
<1>9. PICK p \in src : lab0[p] = r /\ \A q \in src : lab0[q] > r => RasterLess(p, q)
  BY <1>2, <1>7 DEF Tracks
<1>10. p \in comp[m - 1]
  <2>1. PICK k \in DOMAIN comp : p \in comp[k]
    BY <1>2 DEF Collects, Painted
  <2>2. PICK t \in Roots : checklabel[t] = k /\ SameClass(lab0[p], t)
    BY <1>2, <2>1 DEF Collects
  <2>3. r = t
    BY <1>3, <1>7, <1>9, <2>2, RootsDistinct DEF SameClass, Roots
  <2> QED
    BY <1>5, <2>1, <2>2, <2>3
<1>11. ASSUME NEW q \in comp[n - 1]
       PROVE  RasterLess(p, q)
  <2>1. PICK t \in Roots : checklabel[t] = n - 1 /\ SameClass(lab0[q], t)
    BY <1>2, <1>4 DEF Collects
  <2>2. t = s
    BY <1>1, <1>6, <2>1 DEF Numbered
  <2>3. q \in src /\ lab0[q] \in Labels
    BY <1>3, <1>4
  <2>4. s <= lab0[q]
    BY <1>3, <1>7, <2>1, <2>2, <2>3, RootIsLeast DEF SameClass
  <2>5. lab0[q] > r
    <3>1. r \in Int /\ s \in Int /\ lab0[q] \in Int
      BY <1>3, <1>7, <2>3
    <3> QED
      BY <1>8, <2>4, <3>1
  <2> QED
    BY <1>9, <2>3, <2>5
<1> QED
  BY <1>1, <1>10, <1>11

(* The list is in raster order: labels are given out in that order, the root *)
(* of a component is its least label, and roots are numbered in order.     *)
THEOREM ResultOrdered == Spec => []ListInRasterOrder
BY ResultInOrder, Invariance, PTL

(* Labels are linked once, and to smaller ones. *)
THEOREM LinksCorrect == Spec => LinkedOnce
<1> DEFINE Step == pc \in {"find", "merge"} =>
                     \A l \in Labels : maptable'[l] <= l /\ (IsRoot(l) \/ maptable'[l] = maptable[l])
<1>1. IInv /\ IInv' /\ [Next]_vars => [Step]_vars
  <2> SUFFICES ASSUME IInv, IInv', Next, pc \in {"find", "merge"}, NEW l \in Labels
               PROVE  maptable'[l] <= l /\ (IsRoot(l) \/ maptable'[l] = maptable[l])
    OBVIOUS
  <2>1. Merging \/ NumberRoots
    BY DEF Next, Merging, Scan, SkipBlack, TakeLabel, Climb, Paint, BuildList
  <2>2. Labels' = Labels /\ pc' # "scan"
    BY <2>1 DEF Merging, TakeRecord, FindRoot1, FindRoot2, Link, NumberRoots, Labels
  <2>3. maptable'[l] <= l
    BY <2>2 DEF IInv, MergeInv, Forest
  <2>4. IsRoot(l) \/ maptable'[l] = maptable[l]
    <3>1. CASE Link
      BY <3>1 DEF Link, Linked, IsRoot, IInv, TypeInv, TypeOK
    <3>2. CASE ~Link
      BY <2>1, <3>2 DEF Merging, TakeRecord, FindRoot1, FindRoot2, NumberRoots
    <3> QED
      BY <3>1, <3>2
  <2> QED
    BY <2>3, <2>4
<1> QED
  BY <1>1, Invariance, PTL DEF Spec, LinkedOnce

=============================================================================
