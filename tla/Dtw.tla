-------------------------------- MODULE Dtw --------------------------------
(***************************************************************************)
(* dtw.h: the distance of two signals by dynamic time warping, divided by  *)
(* the length of the warping path.                                         *)
(*                                                                         *)
(*  idle  between two calls                                                *)
(*  cell  the table is filled, row by row                                  *)
(*  path  warpingPath walks back from its last cell                        *)
(*  done  the distance is there for the caller                             *)
(*                                                                         *)
(* d is the matrix of the distances of single values, given or computed    *)
(* from the signals.                                                       *)
(***************************************************************************)
EXTENDS Integers, Sequences, FiniteSets, Functions, FiniteSetsExt

CONSTANTS
  ValueDistances,  \* the matrices d there may be
  Infinity    \* larger than all sums

Inputs ==
  /\ Infinity \in Nat
  /\ \A m \in ValueDistances :
       (\A c \in DOMAIN m : m[c] \in Nat) /\ SumFunctionOnSet(m, DOMAIN m) < Infinity

VARIABLES
  n1, n2, d,
  DTW,       \* the table, with a border of Infinity
  i, j,      \* the loops; in warpingPath j is the row of the table
  K,         \* cells on the path so far
  visited,   \* history: the cells walked over
  pc

vars == <<n1, n2, d, DTW, i, j, K, visited, pc>>

Least(x, y, z) == Min({x, y, z})

Init ==
  /\ n1 = 0 /\ n2 = 0
  /\ d = <<>> /\ DTW = <<>>
  /\ i = 0 /\ j = 0
  /\ K = 0 /\ visited = {}
  /\ pc = "idle"

(* The call, with any signals of these lengths. *)
dTWDistance(l1, l2) ==
  /\ pc = "idle"
  /\ n1' = l1 /\ n2' = l2
  /\ d' \in {m \in ValueDistances : DOMAIN m = (1 .. l1) \X (1 .. l2)}
  /\ DTW' = [c \in (0 .. l1) \X (0 .. l2) |-> IF c = <<0, 0>> THEN 0 ELSE Infinity]
  /\ i' = 1 /\ j' = 1
  /\ K' = 0 /\ visited' = {}
  /\ pc' = "cell"

(* Mutant: no diagonal. *)
FillCellSteps ==
  /\ pc = "cell" /\ i <= n1
  /\ DTW' = [DTW EXCEPT ![<<i, j>>] = d[<<i, j>>] +
               (IF i = 1 /\ j = 1 THEN 0 ELSE Min({DTW[<<i-1, j>>], DTW[<<i, j-1>>]}))]
  /\ IF j < n2 THEN j' = j + 1 /\ i' = i ELSE j' = 1 /\ i' = i + 1
  /\ UNCHANGED <<n1, n2, d, K, visited, pc>>

FillCell ==
  /\ pc = "cell" /\ i <= n1
  /\ DTW' = [DTW EXCEPT ![<<i, j>>] =
               d[<<i, j>>] + Least(DTW[<<i-1, j>>], DTW[<<i, j-1>>], DTW[<<i-1, j-1>>])]
  /\ IF j < n2 THEN j' = j + 1 /\ i' = i ELSE j' = 1 /\ i' = i + 1
  /\ UNCHANGED <<n1, n2, d, K, visited, pc>>

(* warpingPath is called with the numbers of the table's rows and columns  *)
(* exchanged, and reads it the same way.                                   *)
StartPath ==
  /\ pc = "cell" /\ i > n1
  /\ i' = n2 /\ j' = n1
  /\ visited' = {<<n1, n2>>}
  /\ pc' = "path"
  /\ UNCHANGED <<n1, n2, d, DTW, K>>

Walk(di, dj) ==
  /\ i' = i - di /\ j' = j - dj
  /\ visited' = IF i' > 0 /\ j' > 0 THEN visited \cup {<<j', i'>>} ELSE visited

(* Along the first row or column nothing is added to the path. *)
AlongBorder ==
  /\ pc = "path" /\ i > 0 /\ j > 0
  /\ i = 1 \/ j = 1
  /\ IF i = 1 THEN Walk(0, 1) ELSE Walk(1, 0)
  /\ UNCHANGED <<n1, n2, d, DTW, K, pc>>

(* Towards the least neighbour, the diagonal last. *)
StepBack ==
  /\ pc = "path" /\ i > 1 /\ j > 1
  /\ LET left == DTW[<<j, i-1>>]   up == DTW[<<j-1, i>>]   both == DTW[<<j-1, i-1>>]
         least == Least(left, up, both)
     IN  IF left = least THEN Walk(1, 0) ELSE IF up = least THEN Walk(0, 1) ELSE Walk(1, 1)
  /\ K' = K + 1
  /\ UNCHANGED <<n1, n2, d, DTW, pc>>

EndPath ==
  /\ pc = "path" /\ (i = 0 \/ j = 0)
  /\ pc' = "done"
  /\ UNCHANGED <<n1, n2, d, DTW, i, j, K, visited>>

(* The distance, dist / K. *)
Result == <<DTW[<<n1, n2>>], K>>

Discard ==
  /\ pc = "done"
  /\ n1' = 0 /\ n2' = 0
  /\ d' = <<>> /\ DTW' = <<>>
  /\ i' = 0 /\ j' = 0
  /\ K' = 0 /\ visited' = {}
  /\ pc' = "idle"

(* The steps of a call. *)
Next == FillCell \/ StartPath \/ AlongBorder \/ StepBack \/ EndPath

-----------------------------------------------------------------------------
Cell == (1 .. n1) \X (1 .. n2)

Cost(S) == SumFunctionOnSet(d, S)

(* The sets of cells a path from the first to the last can go over: any    *)
(* two in order, and each but the first one step from another.             *)
WarpingPaths ==
  {S \in SUBSET Cell :
     /\ <<1, 1>> \in S /\ <<n1, n2>> \in S
     /\ \A a, b \in S : (a[1] <= b[1] /\ a[2] <= b[2]) \/ (b[1] <= a[1] /\ b[2] <= a[2])
     /\ \A a \in S \ {<<1, 1>>} :
          \E s \in {<<0, 1>>, <<1, 0>>, <<1, 1>>} : <<a[1] - s[1], a[2] - s[2]>> \in S}

(* The path found again in the table is a warping path, the way along the *)
(* border included, and its cost, the last cell of the table, is the least *)
(* of all.  Its length, by which it is divided, is zero just for signals of *)
(* one value.                                                              *)
PathOptimal ==
  pc = "done" =>
    /\ visited \in WarpingPaths
    /\ Result[1] = Cost(visited)
    /\ Result[1] = Min({Cost(S) : S \in WarpingPaths})
    /\ K = 0 <=> n1 = 1 \/ n2 = 1
=============================================================================
