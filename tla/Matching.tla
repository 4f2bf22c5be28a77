------------------------------ MODULE Matching ------------------------------
(***************************************************************************)
(* The two ways in which the search programs get the cost of matching the  *)
(* components of a text with those of a query: "search (... -KMeans).cpp"  *)
(* by the cluster centres (KMeans), "search (... -SOM).cpp" by the nodes   *)
(* of a map, with time warping (Som, which calls Dtw).  A run is one of    *)
(* the programs.                                                           *)
(***************************************************************************)
EXTENDS KMeans

CONSTANTS Maps, GarbagePoints, Text, Query, ValueDistances, Infinity

VARIABLES
  program,
  width, height, n, c, x, y, min, minpt, cluster, seen, at,   \* of Som
  n1, n2, d, DTW, si, sj, K, visited, dtw                     \* of Dtw

som == <<width, height, n, c, x, y, min, minpt, cluster, seen, at,
         n1, n2, d, DTW, si, sj, K, visited, dtw>>

S == INSTANCE Som WITH i <- si, j <- sj, pc <- dtw

ASSUME MatchingAssumption == S!Inputs

(* The variables of the program that is not run. *)
NoKMeans ==
  /\ sample = <<>> /\ label = <<>> /\ clusterCentre = <<>> /\ cluster_size = <<>>
  /\ vector = <<>> /\ which = "text" /\ dist = <<>> /\ num = <<>>
  /\ i = 0 /\ j = 0 /\ mean = <<>> /\ pc = "none"

NoSom ==
  /\ width = 0 /\ height = 0 /\ n = 0 /\ c = "" /\ x = 0 /\ y = 0
  /\ min = <<>> /\ minpt = <<>> /\ cluster = <<>> /\ seen = <<>> /\ at = "none"
  /\ S!D!Init

StartProgram ==
  \/ program = "KMeans" /\ Init /\ NoSom
  \/ program = "SOM" /\ S!Init /\ NoKMeans

RunKMeans == program = "KMeans" /\ Next /\ UNCHANGED <<program, som>>

RunSom == program = "SOM" /\ S!Next /\ UNCHANGED <<program, vars>>

Run == RunKMeans \/ RunSom

MatchingSpec == StartProgram /\ [][Run]_<<program, vars, som>>

-----------------------------------------------------------------------------
(* A component is taken for the nearest of its program's classes: of the   *)
(* nodes by the best warping, or of the means of the clusters' samples.    *)
ClassNearest == IF program = "SOM" THEN S!ClusterNearest ELSE CentreIsMean /\ NearestAgrees

(* The warping that dtw.h finds is the best one, and has a length. *)
WarpingOptimal == program = "SOM" => S!D!PathOptimal

(* Both programs hand approximateStringMatch costs of zero to one: a       *)
(* replacement never costs more than an insertion.                         *)
CostsInUnit == IF program = "SOM" THEN S!CostInUnit ELSE CostInUnit
=============================================================================
