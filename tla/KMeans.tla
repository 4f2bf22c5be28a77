------------------------------- MODULE KMeans -------------------------------
(***************************************************************************)
(* kmeans.h: the cost of matching a text's component with a query's is the *)
(* distance of two means, each of the N cluster centres nearest to the     *)
(* component, relative to the largest distance of two centres.             *)
(*                                                                         *)
(*  add    a sample is added to the centre of its cluster                  *)
(*  divide a sum is divided by the size of its cluster                     *)
(*                                                                         *)
(* getNearestMeanClusterCentre sorts the centres by their distance, the    *)
(* far ones first, but only in N passes of the bubble sort:                *)
(*                                                                         *)
(*  pass   head of its outer loop                                          *)
(*  bubble its inner loop                                                  *)
(*  mean   the last N centres are averaged with the weights 1, 3, 5, ...   *)
(*                                                                         *)
(* Features have one dimension.  The clustering itself, cvKMeans2, labels  *)
(* the training samples in any way.                                        *)
(***************************************************************************)
EXTENDS Integers, Sequences, FiniteSets, Functions

CONSTANTS
  ClusterCount, N,   \* 20 and 3 in the program
  Samples, Labels,   \* the training samples and their clusters, sequences
  Vectors            \* features of a component

Cluster == 0 .. ClusterCount - 1

ASSUME KMeansAssumption ==
  /\ ClusterCount \in Nat /\ N \in 1 .. ClusterCount
  /\ \A s \in Samples : s \in Seq(Int)
  /\ \A l \in Labels : l \in Seq(Cluster)
  /\ Vectors \subseteq Int

VARIABLES
  sample, label,
  clusterCentre, cluster_size,
  vector,        \* the component of the text and that of the query
  which,         \* the one whose mean is computed
  dist, num,     \* the distances, and the centres they belong to
  i, j,
  mean,          \* the means, times the sum of the weights
  pc

vars == <<sample, label, clusterCentre, cluster_size, vector, which, dist, num, i, j, mean, pc>>

-----------------------------------------------------------------------------
euclideanDistance(x, y) == IF x <= y THEN y - x ELSE x - y

Distances == {euclideanDistance(clusterCentre[c], clusterCentre[d]) : c, d \in Cluster}

maxCentreDistance == CHOOSE m \in Distances : \A n \in Distances : n <= m

(* The first of the nearest centres. *)
getNearestCluster(v) ==
  CHOOSE c \in Cluster : \A d \in Cluster :
    LET at(b) == euclideanDistance(clusterCentre[b], v)
    IN  at(c) <= at(d) /\ (d < c => at(c) < at(d))

(* The distances of a vector, as they are computed before the sort. *)
At(v) == [c \in Cluster |-> euclideanDistance(clusterCentre[c], v)]

-----------------------------------------------------------------------------
Init ==
  /\ sample \in Samples /\ label \in {l \in Labels : Len(l) = Len(sample)}
  /\ clusterCentre = [c \in Cluster |-> 0]
  /\ cluster_size = [c \in Cluster |-> 0]
  /\ vector = <<>>
  /\ which = "text"
  /\ dist = <<>> /\ num = <<>>
  /\ i = 0 /\ j = 0
  /\ mean = [w \in {"text", "query"} |-> 0]
  /\ pc = "add"

AddSample ==
  /\ pc = "add" /\ i < Len(sample)
  /\ clusterCentre' = [clusterCentre EXCEPT ![label[i + 1]] = @ + sample[i + 1]]
  /\ cluster_size' = [cluster_size EXCEPT ![label[i + 1]] = @ + 1]
  /\ i' = i + 1
  /\ UNCHANGED <<sample, label, vector, which, dist, num, j, mean, pc>>

AddedAll ==
  /\ pc = "add" /\ i = Len(sample)
  /\ i' = 0
  /\ pc' = "divide"
  /\ UNCHANGED <<sample, label, clusterCentre, cluster_size, vector, which, dist, num, j, mean>>

(* The centre of an empty cluster stays at zero. *)
DivideByClusterSize ==
  /\ pc = "divide" /\ i < ClusterCount
  /\ clusterCentre' = [clusterCentre EXCEPT ![i] =
                         IF cluster_size[i] > 0 THEN @ \div cluster_size[i] ELSE @]
  /\ i' = i + 1
  /\ UNCHANGED <<sample, label, cluster_size, vector, which, dist, num, j, mean, pc>>

(* The centres are there, and the cost of two components is asked for. *)
StartCost ==
  /\ pc = "divide" /\ i = ClusterCount
  /\ \E v \in [{"text", "query"} -> Vectors] : vector' = v /\ dist' = At(v["text"])
  /\ num' = [c \in Cluster |-> c]
  /\ i' = 0
  /\ pc' = "pass"
  /\ UNCHANGED <<sample, label, clusterCentre, cluster_size, which, j, mean>>

StartPass ==
  /\ pc = "pass" /\ i < N
  /\ j' = 0
  /\ pc' = "bubble"
  /\ UNCHANGED <<sample, label, clusterCentre, cluster_size, vector, which, dist, num, i, mean>>

Swapped(f) == [k \in Cluster |-> IF k = j THEN f[j + 1] ELSE IF k = j + 1 THEN f[j] ELSE f[k]]

(* Mutants: the numbers are left alone; the near ones go first. *)
CompareDistances ==
  /\ pc = "bubble" /\ j < ClusterCount - i - 1
  /\ dist' = IF dist[j] < dist[j + 1] THEN Swapped(dist) ELSE dist
  /\ j' = j + 1
  /\ UNCHANGED <<sample, label, clusterCentre, cluster_size, vector, which, num, i, mean, pc>>

CompareAscending ==
  /\ pc = "bubble" /\ j < ClusterCount - i - 1
  /\ IF dist[j] > dist[j + 1]
     THEN dist' = Swapped(dist) /\ num' = Swapped(num)
     ELSE UNCHANGED <<dist, num>>
  /\ j' = j + 1
  /\ UNCHANGED <<sample, label, clusterCentre, cluster_size, vector, which, i, mean, pc>>

Compare ==
  /\ pc = "bubble" /\ j < ClusterCount - i - 1
  /\ IF dist[j] < dist[j + 1]
     THEN dist' = Swapped(dist) /\ num' = Swapped(num)
     ELSE UNCHANGED <<dist, num>>
  /\ j' = j + 1
  /\ UNCHANGED <<sample, label, clusterCentre, cluster_size, vector, which, i, mean, pc>>

EndPass ==
  /\ pc = "bubble" /\ j = ClusterCount - i - 1
  /\ i' = i + 1
  /\ pc' = "pass"
  /\ UNCHANGED <<sample, label, clusterCentre, cluster_size, vector, which, dist, num, j, mean>>

EndPasses ==
  /\ pc = "pass" /\ i = N
  /\ pc' = "mean"
  /\ UNCHANGED <<sample, label, clusterCentre, cluster_size, vector, which, dist, num, i, j, mean>>

Last == ClusterCount - N .. ClusterCount - 1

(* Mutant: the weight is stepped from one end to the other. *)
WeightUneven(k) == 2 * (k - (ClusterCount - N)) + 2

Weight(k) == 2 * (k - (ClusterCount - N)) + 1

TotalWeight == N * N

Average ==
  /\ pc = "mean"
  /\ mean' = [mean EXCEPT ![which] =
                SumFunctionOnSet([k \in Last |-> clusterCentre[num[k]] * Weight(k)], Last)]
  /\ IF which = "text"
     THEN /\ which' = "query"
          /\ dist' = At(vector["query"])
          /\ num' = [c \in Cluster |-> c]
          /\ i' = 0 /\ j' = 0
          /\ pc' = "pass"
     ELSE pc' = "done" /\ UNCHANGED <<which, dist, num, i, j>>
  /\ UNCHANGED <<sample, label, clusterCentre, cluster_size, vector>>

Next ==
  \/ AddSample \/ AddedAll \/ DivideByClusterSize \/ StartCost
  \/ StartPass \/ Compare \/ EndPass \/ EndPasses \/ Average

Spec == Init /\ [][Next]_vars

(* The cost, as a pair of numerator and denominator. *)
calculateCost ==
  <<euclideanDistance(mean["text"], mean["query"]), TotalWeight * maxCentreDistance>>

-----------------------------------------------------------------------------
Ready == pc \in {"pass", "bubble", "mean", "done"}

TypeOK ==
  /\ clusterCentre \in [Cluster -> Int] /\ cluster_size \in [Cluster -> Nat]
  /\ which \in {"text", "query"}
  /\ pc \in {"add", "divide", "pass", "bubble", "mean", "done"}
  /\ pc = "add" => i \in 0 .. Len(sample)
  /\ pc = "divide" => i \in 0 .. ClusterCount
  /\ Ready => /\ vector \in [{"text", "query"} -> Vectors]
              /\ dist \in [Cluster -> Int]
              /\ num \in [Cluster -> Cluster]
              /\ i \in 0 .. N
  /\ j \in 0 .. ClusterCount - 1

(* A centre is the mean of the samples of its cluster, and zero when there *)
(* are none (calculateClusterCentre sums in one loop, divides in another). *)
CentreIsMean ==
  Ready => \A c \in Cluster :
    LET members == {k \in DOMAIN sample : label[k] = c}
    IN  clusterCentre[c] = IF members = {} THEN 0
                           ELSE SumFunctionOnSet(sample, members) \div Cardinality(members)

(* Every exchange moves a centre together with its distance, and none is   *)
(* lost or doubled.                                                        *)
Paired ==
  Ready => /\ \A k \in Cluster : dist[k] = At(vector[which])[num[k]]
           /\ \A k, m \in Cluster : num[k] = num[m] => k = m
           /\ \A c \in Cluster : \E k \in Cluster : num[k] = c

(* N passes are enough for the positions that are used: the last N hold    *)
(* the N nearest centres, the nearest of all at the end.                   *)
NearestLast ==
  pc \in {"mean", "done"} =>
    \A k \in Last, m \in Cluster : m <= k => dist[k] <= dist[m]

(* The last centre is as near as the one the vector is classified with,    *)
(* though not always the same.                                             *)
NearestAgrees ==
  pc \in {"mean", "done"} =>
    euclideanDistance(clusterCentre[num[ClusterCount - 1]], vector[which]) =
      euclideanDistance(clusterCentre[getNearestCluster(vector[which])], vector[which])

(* The costs lie between zero and one, or all are 0/0, when the centres    *)
(* coincide.                                                               *)
CostInUnit ==
  pc = "done" => /\ calculateCost[1] <= calculateCost[2]
                 /\ calculateCost[2] = 0 <=> \A c, d \in Cluster : clusterCentre[c] = clusterCentre[d]
=============================================================================
