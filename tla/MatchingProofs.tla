--------------------------- MODULE MatchingProofs ---------------------------
(***************************************************************************)
(* The classification of components, for any samples, labels, components,  *)
(* maps and tables of distances.                                           *)
(*                                                                         *)
(* The argument.  kmeans.h: while samples are added, a centre holds the    *)
(* sum of those of its cluster so far; after it is divided, the mean.  A   *)
(* pass of the sort carries the farthest of what is left over along, so    *)
(* i passes settle the last i positions, and the exchanges keep every      *)
(* centre beside its own distance.  The weighted mean of N centres lies    *)
(* between the least and the greatest, as the weights are the odd numbers  *)
(* and sum to N * N; so two means differ by the largest distance of two    *)
(* centres at most.                                                        *)
(*                                                                         *)
(* dtw.h: the cells filled so far hold their own distance more than the    *)
(* least of their three neighbours; so no path to a cell costs less than   *)
(* the cell holds (LowerBound, by a smallest path that does).  On the way  *)
(* back the cells walked over cost what the last one holds more than the   *)
(* one reached (Trail); along the border this is so as no cell of it holds *)
(* more than Infinity, which is larger than all sums (OnBorder).           *)
(*                                                                         *)
(* som_loader.h: minpt is a node that has been looked at, and none of them *)
(* is nearer; the cost is taken of places on the map, so it is at most the *)
(* square of the diagonal.                                                 *)
(***************************************************************************)
EXTENDS Matching, FiniteSetTheorems, TLAPS

(* A set of finite sets has one that is a superset of no other: induction  *)
(* over finite sets.                                                       *)
LEMMA SmallestSet ==
  ASSUME NEW F, F # {}, \A T \in F : IsFiniteSet(T)
  PROVE  \E T \in F : \A W \in F : ~(W \subseteq T /\ W # T)
<1> DEFINE U == UNION F
<1>1. IsWellFoundedOn(StrictSubsetOrdering(U), FiniteSubsetsOf(U))
  BY FS_StrictSubsetOrderingWellFounded
<1>2. F \subseteq FiniteSubsetsOf(U)
  BY DEF FiniteSubsetsOf
<1>3. PICK T \in F : \A W \in F : ~(<<W, T>> \in StrictSubsetOrdering(U))
  BY <1>1, <1>2, WFMin
<1> QED
  BY <1>3 DEF StrictSubsetOrdering

(* And a set of numbers has a least: induction over the numbers.           *)
LEMMA LeastNat ==
  ASSUME NEW Bad \in SUBSET Nat, Bad # {}
  PROVE  \E u \in Bad : \A v \in Bad : u <= v
<1> DEFINE F == {0 .. m : m \in Bad}
<1>1. \A T \in F : IsFiniteSet(T)
  <2> SUFFICES ASSUME NEW m \in Bad PROVE IsFiniteSet(0 .. m)
    OBVIOUS
  <2> QED
    BY FS_Interval
<1>2. F # {}
  OBVIOUS
<1> HIDE DEF F
<1>3. PICK T \in F : \A W \in F : ~(W \subseteq T /\ W # T)
  BY <1>1, <1>2, SmallestSet
<1>4. PICK u \in Bad : T = 0 .. u
  BY DEF F
<1>5. ASSUME NEW v \in Bad, v < u PROVE FALSE
  <2>1. 0 .. v \in F
    BY DEF F
  <2>2. 0 .. v \subseteq 0 .. u /\ u \in 0 .. u /\ u \notin 0 .. v /\ u \in Nat /\ v \in Nat
    BY <1>5
  <2> QED
    BY <2>1, <2>2, <1>3, <1>4
<1> QED
  BY <1>5

-----------------------------------------------------------------------------
(* Sums over finite sets, of a function that is an integer on them: what   *)
(* the fold of SumFunctionOnSet computes, whatever element it takes first. *)
FirstOf(s) == CHOOSE u \in s : TRUE

SumStep(f, g, s) == IF s = {} THEN 0 ELSE f[FirstOf(s)] + g[s \ {FirstOf(s)}]

Sums(f, A, g) == g \in [SUBSET A -> Int] /\ \A s \in SUBSET A : g[s] = SumStep(f, g, s)

(* The element a fold takes first. *)
LEMMA FirstIn ==
  ASSUME NEW s, IsFiniteSet(s), s # {}
  PROVE  /\ FirstOf(s) \in s
         /\ Cardinality(s) \in Nat /\ Cardinality(s) > 0
         /\ Cardinality(s \ {FirstOf(s)}) = Cardinality(s) - 1
<1>1. FirstOf(s) \in s
  BY DEF FirstOf
<1>2. Cardinality(s \ {FirstOf(s)}) = Cardinality(s) - 1
  BY <1>1, FS_RemoveElement
<1>3. Cardinality(s) \in Nat /\ Cardinality(s) # 0
  BY FS_CardinalityType, FS_EmptySet
<1> QED
  BY <1>1, <1>2, <1>3

(* The table of all partial sums exists, and two of them agree. *)
LEMMA SumsExist ==
  ASSUME NEW A, IsFiniteSet(A), NEW f, \A u \in A : f[u] \in Int
  PROVE  \E g : Sums(f, A, g)
<1> DEFINE Upto(g, k) == \A s \in SUBSET A : Cardinality(s) <= k => g[s] = SumStep(f, g, s)
           Bad == {k \in Nat : ~\E g \in [SUBSET A -> Int] : Upto(g, k)}
<1>0. \A s \in SUBSET A : IsFiniteSet(s)
  BY FS_Subset
<1>1. 0 \notin Bad
  <2> DEFINE g0 == [s \in SUBSET A |-> 0]
  <2>1. \A s \in SUBSET A : s # {} => ~(Cardinality(s) <= 0)
    <3> SUFFICES ASSUME NEW s \in SUBSET A, s # {} PROVE ~(Cardinality(s) <= 0)
      OBVIOUS
    <3>1. Cardinality(s) \in Nat /\ Cardinality(s) > 0
      BY <1>0, FirstIn
    <3> QED
      BY <3>1
  <2>2. Upto(g0, 0)
    <3>1. \A s \in SUBSET A : Cardinality(s) <= 0 => g0[s] = 0 /\ SumStep(f, g0, s) = 0
      BY <2>1 DEF SumStep
    <3> HIDE DEF g0
    <3> QED
      BY <3>1
  <2>3. g0 \in [SUBSET A -> Int]
    OBVIOUS
  <2> HIDE DEF g0, Upto
  <2> QED
    BY <2>2, <2>3
<1>2. ASSUME NEW k \in Nat, k \notin Bad PROVE k + 1 \notin Bad
  <2>1. PICK g \in [SUBSET A -> Int] : Upto(g, k)
    BY <1>2
  <2> DEFINE h == [s \in SUBSET A |-> IF Cardinality(s) <= k THEN g[s] ELSE SumStep(f, g, s)]
  <2>2. ASSUME NEW s \in SUBSET A PROVE SumStep(f, g, s) \in Int
    <3>1. CASE s = {}
      BY <3>1 DEF SumStep
    <3>2. CASE s # {}
      <4>1. FirstOf(s) \in s /\ s \ {FirstOf(s)} \in SUBSET A
        BY <1>0, <3>2, FirstIn
      <4>2. f[FirstOf(s)] \in Int /\ g[s \ {FirstOf(s)}] \in Int
        BY <4>1
      <4> QED
        BY <3>2, <4>2 DEF SumStep
    <3> QED
      BY <3>1, <3>2
  <2>3. h \in [SUBSET A -> Int]
    BY <2>2
  <2>4. \A s \in SUBSET A : h[s] = SumStep(f, g, s)
    BY <2>1
  <2>5. ASSUME NEW s \in SUBSET A, Cardinality(s) <= k + 1 PROVE h[s] = SumStep(f, h, s)
    <3>1. CASE s = {}
      BY <2>4, <3>1 DEF SumStep
    <3>2. CASE s # {}
      <4>1. s \ {FirstOf(s)} \in SUBSET A /\ Cardinality(s \ {FirstOf(s)}) <= k
        <5>1. Cardinality(s) \in Nat /\ Cardinality(s \ {FirstOf(s)}) = Cardinality(s) - 1
          BY <1>0, <3>2, FirstIn
        <5> QED
          BY <2>5, <5>1
      <4>2. h[s \ {FirstOf(s)}] = g[s \ {FirstOf(s)}]
        BY <4>1
      <4> HIDE DEF h
      <4> QED
        BY <2>4, <3>2, <4>2 DEF SumStep
    <3> QED
      BY <3>1, <3>2
  <2> HIDE DEF h
  <2> QED
    BY <2>3, <2>5
<1>3. Bad = {}
  <2> SUFFICES ASSUME Bad # {} PROVE FALSE
    OBVIOUS
  <2>1. Bad \in SUBSET Nat
    OBVIOUS
  <2>2. PICK k \in Bad : \A m \in Bad : k <= m
    <3> HIDE DEF Bad
    <3> QED
      BY <2>1, LeastNat
  <2> HIDE DEF Bad
  <2>3. k # 0 /\ k - 1 \in Nat
    BY <1>1, <2>1, <2>2
  <2>4. k - 1 \in Bad
    <3>1. (k - 1) + 1 = k
      BY <2>1
    <3> QED
      BY <1>2, <2>2, <2>3, <3>1
  <2> QED
    BY <2>1, <2>2, <2>4
<1>4. Cardinality(A) \in Nat /\ \A s \in SUBSET A : Cardinality(s) <= Cardinality(A)
  BY FS_CardinalityType, FS_Subset
<1>5. PICK g \in [SUBSET A -> Int] : Upto(g, Cardinality(A))
  BY <1>3, <1>4
<1> QED
  BY <1>4, <1>5 DEF Sums

LEMMA SumsAgree ==
  ASSUME NEW A, IsFiniteSet(A), NEW T \in SUBSET A, NEW f, NEW g, NEW h, Sums(f, A, g), Sums(f, T, h)
  PROVE  \A s \in SUBSET T : g[s] = h[s]
<1> DEFINE F == {s \in SUBSET T : g[s] # h[s]}
<1> SUFFICES ASSUME F # {} PROVE FALSE
  OBVIOUS
<1>1. \A s \in F : IsFiniteSet(s) /\ s \in SUBSET T /\ s \in SUBSET A /\ g[s] # h[s]
  BY FS_Subset
<1>2. PICK s \in F : \A W \in F : ~(W \subseteq s /\ W # s)
  <2> HIDE DEF F
  <2> QED
    BY <1>1, SmallestSet
<1>3. g[s] = SumStep(f, g, s) /\ h[s] = SumStep(f, h, s)
  BY <1>1 DEF Sums
<1>4. s # {}
  BY <1>1, <1>3 DEF SumStep
<1>5. FirstOf(s) \in s
  BY <1>4 DEF FirstOf
<1>6. g[s \ {FirstOf(s)}] = h[s \ {FirstOf(s)}]
  BY <1>2, <1>5
<1> QED
  BY <1>1, <1>3, <1>4, <1>6 DEF SumStep

SumOf(f, A) == SumFunctionOnSet(f, A)

(* The sum is what the table says. *)
LEMMA SumIs ==
  ASSUME NEW A, IsFiniteSet(A), NEW f, NEW g, Sums(f, A, g)
  PROVE  SumOf(f, A) = g[A]
<1> DEFINE R(q) == q = [s \in SUBSET A |->
                          IF s = {} THEN 0
                          ELSE f[CHOOSE u \in s : TRUE] + q[s \ {CHOOSE u \in s : TRUE}]]
           it == CHOOSE q : R(q)
<1>1. SumOf(f, A) = it[A]
  BY DEF SumOf, SumFunctionOnSet, FoldFunctionOnSet, MapThenFoldSet
<1>2. R(g)
  BY DEF Sums, SumStep, FirstOf
<1> HIDE DEF R
<1>3. R(it)
  BY <1>2
<1>4. \A s \in SUBSET A : it[s] = SumStep(f, it, s)
  BY <1>3 DEF R, SumStep, FirstOf
<1> HIDE DEF it
<1> DEFINE F == {s \in SUBSET A : it[s] # g[s]}
<1>5. ASSUME F # {} PROVE FALSE
  <2>1. \A s \in F : IsFiniteSet(s) /\ s \in SUBSET A /\ g[s] # it[s]
    BY FS_Subset
  <2>2. PICK s \in F : \A W \in F : ~(W \subseteq s /\ W # s)
    <3> HIDE DEF F
    <3> QED
      BY <1>5, <2>1, SmallestSet
  <2>3. g[s] = SumStep(f, g, s) /\ it[s] = SumStep(f, it, s)
    BY <1>4, <2>1 DEF Sums
  <2>4. s # {}
    BY <2>1, <2>3 DEF SumStep
  <2>5. FirstOf(s) \in s
    BY <2>4 DEF FirstOf
  <2>6. g[s \ {FirstOf(s)}] = it[s \ {FirstOf(s)}]
    BY <2>2, <2>5
  <2> QED
    BY <2>1, <2>3, <2>4, <2>6 DEF SumStep
<1>6. it[A] = g[A]
  BY <1>5
<1> QED
  BY <1>1, <1>6

(* One step of the fold. *)
LEMMA SumNext ==
  ASSUME NEW A, IsFiniteSet(A), NEW f, \A u \in A : f[u] \in Int
  PROVE  /\ SumOf(f, A) \in Int
         /\ A = {} => SumOf(f, A) = 0
         /\ A # {} => FirstOf(A) \in A /\ SumOf(f, A) = f[FirstOf(A)] + SumOf(f, A \ {FirstOf(A)})
<1>1. PICK g : Sums(f, A, g)
  BY SumsExist
<1>2. SumOf(f, A) = g[A] /\ g[A] \in Int /\ g[A] = SumStep(f, g, A)
  BY <1>1, SumIs DEF Sums
<1>3. A = {} => SumOf(f, A) = 0
  BY <1>2 DEF SumStep
<1>4. ASSUME A # {} PROVE FirstOf(A) \in A /\ SumOf(f, A) = f[FirstOf(A)] + SumOf(f, A \ {FirstOf(A)})
  <2> DEFINE T == A \ {FirstOf(A)}
  <2>1. FirstOf(A) \in A /\ T \in SUBSET A /\ IsFiniteSet(T)
    BY <1>4, FS_Subset DEF FirstOf
  <2>2. PICK h : Sums(f, T, h)
    BY <2>1, SumsExist
  <2>3. SumOf(f, T) = h[T]
    BY <2>1, <2>2, SumIs
  <2>4. g[T] = h[T]
    BY <1>1, <2>1, <2>2, SumsAgree
  <2> QED
    BY <1>2, <1>4, <2>1, <2>3, <2>4 DEF SumStep
<1> QED
  BY <1>2, <1>3, <1>4

(* Any element can be taken out of a sum. *)
LEMMA SumTake ==
  ASSUME NEW A, IsFiniteSet(A), NEW f, \A u \in A : f[u] \in Int, NEW e \in A
  PROVE  SumOf(f, A) = f[e] + SumOf(f, A \ {e})
<1> DEFINE F == {s \in SUBSET A : \E u \in s : SumOf(f, s) # f[u] + SumOf(f, s \ {u})}
<1>1. ASSUME F # {} PROVE FALSE
  <2>1. \A s \in F : IsFiniteSet(s)
    BY FS_Subset
  <2>2. PICK s \in F : \A W \in F : ~(W \subseteq s /\ W # s)
    <3> HIDE DEF F
    <3> QED
      BY <1>1, <2>1, SmallestSet
  <2>3. PICK u \in s : SumOf(f, s) # f[u] + SumOf(f, s \ {u})
    BY <2>2
  <2> DEFINE v == FirstOf(s)
  <2>4. /\ IsFiniteSet(s) /\ s \in SUBSET A /\ v \in s /\ SumOf(f, s) = f[v] + SumOf(f, s \ {v})
    <3>1. IsFiniteSet(s) /\ s \in SUBSET A /\ s # {} /\ \A z \in s : f[z] \in Int
      BY <2>1, <2>2, <2>3
    <3> QED
      BY <3>1, SumNext
  <2> HIDE DEF v
  <2>5. u # v
    BY <2>3, <2>4
  <2>6. \A W \in SUBSET s : W # s => \A z \in W : SumOf(f, W) = f[z] + SumOf(f, W \ {z})
    BY <2>2, <2>4
  <2>7. SumOf(f, s \ {v}) = f[u] + SumOf(f, (s \ {v}) \ {u})
    BY <2>3, <2>4, <2>5, <2>6
  <2>8. SumOf(f, s \ {u}) = f[v] + SumOf(f, (s \ {u}) \ {v})
    BY <2>3, <2>4, <2>5, <2>6
  <2>9. (s \ {v}) \ {u} = (s \ {u}) \ {v}
    OBVIOUS
  <2>10. SumOf(f, (s \ {u}) \ {v}) \in Int /\ f[u] \in Int /\ f[v] \in Int
    <3>1. (s \ {u}) \ {v} \in SUBSET A
      BY <2>4
    <3>2. IsFiniteSet((s \ {u}) \ {v})
      BY <3>1, FS_Subset
    <3> QED
      BY <2>3, <2>4, <3>1, <3>2, SumNext
  <2> DEFINE z == SumOf(f, (s \ {u}) \ {v})
  <2>11. /\ SumOf(f, s) = f[v] + (f[u] + z) /\ SumOf(f, s \ {u}) = f[v] + z
    BY <2>4, <2>7, <2>8, <2>9
  <2>12. z \in Int /\ f[u] \in Int /\ f[v] \in Int
    BY <2>10
  <2> HIDE DEF z
  <2>13. f[v] + (f[u] + z) = f[u] + (f[v] + z)
    BY <2>12
  <2> QED
    BY <2>3, <2>11, <2>13
<1> QED
  BY <1>1

(* An element more. *)
LEMMA SumMore ==
  ASSUME NEW A, IsFiniteSet(A), NEW f, NEW e, e \notin A, \A u \in A \cup {e} : f[u] \in Int
  PROVE  SumOf(f, A \cup {e}) = SumOf(f, A) + f[e]
<1>1. IsFiniteSet(A \cup {e})
  BY FS_AddElement
<1>2. (A \cup {e}) \ {e} = A
  OBVIOUS
<1>3. SumOf(f, A \cup {e}) = f[e] + SumOf(f, A)
  BY <1>1, <1>2, SumTake
<1>4. SumOf(f, A) \in Int /\ f[e] \in Int
  BY SumNext
<1> QED
  BY <1>3, <1>4

LEMMA SumAtMost ==
  ASSUME NEW A, IsFiniteSet(A), NEW f, NEW g, \A u \in A : f[u] \in Int /\ g[u] \in Int /\ f[u] <= g[u]
  PROVE  SumOf(f, A) <= SumOf(g, A)
<1> DEFINE F == {s \in SUBSET A : ~(SumOf(f, s) <= SumOf(g, s))}
<1>1. ASSUME F # {} PROVE FALSE
  <2>1. \A s \in F : IsFiniteSet(s)
    BY FS_Subset
  <2>2. PICK s \in F : \A W \in F : ~(W \subseteq s /\ W # s)
    <3> HIDE DEF F
    <3> QED
      BY <1>1, <2>1, SmallestSet
  <2>3. s \in SUBSET A /\ IsFiniteSet(s) /\ ~(SumOf(f, s) <= SumOf(g, s))
    BY <2>1, <2>2
  <2>4. (\A u \in s : f[u] \in Int) /\ (\A u \in s : g[u] \in Int)
    BY <2>3
  <2>5. s # {}
    <3>1. s = {} => SumOf(f, s) = 0 /\ SumOf(g, s) = 0
      BY <2>3, <2>4, SumNext
    <3> QED
      BY <2>3, <3>1
  <2> DEFINE v == FirstOf(s)
             W == s \ {v}
  <2>6. v \in s /\ SumOf(f, s) = f[v] + SumOf(f, W) /\ SumOf(g, s) = g[v] + SumOf(g, W)
    BY <2>3, <2>4, <2>5, SumNext
  <2>7. W \in SUBSET A /\ W \subseteq s /\ W # s /\ IsFiniteSet(W)
    BY <2>3, <2>6, FS_Subset
  <2> HIDE DEF v, W
  <2>8. SumOf(f, W) <= SumOf(g, W)
    BY <2>2, <2>7
  <2>9. SumOf(f, W) \in Int /\ SumOf(g, W) \in Int
    BY <2>4, <2>7, SumNext
  <2> QED
    BY <2>3, <2>6, <2>8, <2>9
<1> QED
  BY <1>1

LEMMA SumSame ==
  ASSUME NEW A, IsFiniteSet(A), NEW f, NEW g, \A u \in A : f[u] \in Int /\ g[u] = f[u]
  PROVE  SumOf(f, A) = SumOf(g, A)
<1>1. SumOf(f, A) <= SumOf(g, A) /\ SumOf(g, A) <= SumOf(f, A)
  <2>1. \A u \in A : f[u] <= g[u] /\ g[u] <= f[u] /\ g[u] \in Int
    OBVIOUS
  <2> QED
    BY <2>1, SumAtMost
<1>2. SumOf(f, A) \in Int /\ SumOf(g, A) \in Int
  BY SumNext
<1> QED
  BY <1>1, <1>2
-----------------------------------------------------------------------------
(* The search by cluster centres.                                          *)
Given == sample \in Samples /\ label \in Labels /\ Len(label) = Len(sample)

Centres == clusterCentre \in [Cluster -> Int] /\ cluster_size \in [Cluster -> Nat]

Sorting == Ready => /\ vector \in [{"text", "query"} -> Vectors]
                    /\ dist \in [Cluster -> Int]
                    /\ num \in [Cluster -> Cluster]
                    /\ i \in 0 .. N

Phase ==
  /\ which \in {"text", "query"}
  /\ pc \in {"add", "divide"} => which = "text"
  /\ pc \in {"add", "divide", "pass", "bubble", "mean", "done"}
  /\ pc = "add" => i \in 0 .. Len(sample)
  /\ pc = "divide" => i \in 0 .. ClusterCount
  /\ pc \in {"mean", "done"} => i = N
  /\ pc = "bubble" => i < N /\ j <= ClusterCount - i - 1
  /\ j \in 0 .. ClusterCount - 1

Typed == Given /\ Centres /\ Sorting /\ Phase

LEMMA Sizes ==
  /\ ClusterCount \in Nat /\ N \in Nat /\ 1 <= N /\ N <= ClusterCount
  /\ Vectors \subseteq Int
BY KMeansAssumption

LEMMA Distance ==
  ASSUME NEW u \in Int, NEW v \in Int
  PROVE  euclideanDistance(u, v) \in Int
BY DEF euclideanDistance

LEMMA AtType ==
  ASSUME Centres, NEW v \in Int
  PROVE  At(v) \in [Cluster -> Int]
BY Distance DEF Centres, At

LEMMA ElementIn ==
  ASSUME NEW A, NEW s \in Seq(A), NEW k \in 1 .. Len(s)
  PROVE  s[k] \in A
OBVIOUS

LEMMA SwappedType ==
  ASSUME NEW A, NEW f \in [Cluster -> A], j \in Cluster, j + 1 \in Cluster
  PROVE  Swapped(f) \in [Cluster -> A]
BY DEF Swapped

LEMMA InBubble ==
  ASSUME Typed, pc = "bubble", j < ClusterCount - i - 1
  PROVE  /\ i \in Nat /\ j \in Nat
         /\ j \in Cluster /\ j + 1 \in Cluster /\ j + 1 <= ClusterCount - i - 1
BY Sizes DEF Typed, Phase, Sorting, Ready, Cluster

LEMMA TypedInit ==
  ASSUME Init
  PROVE  Typed
<1>1. Given
  BY DEF Init, Given
<1>2. Centres
  BY DEF Init, Centres
<1>3. Sorting
  BY DEF Init, Sorting, Ready
<1>4. Phase
  <2>1. Len(sample) \in Nat
    BY <1>1, KMeansAssumption DEF Given
  <2> QED
    BY <2>1, Sizes DEF Init, Phase
<1> QED
  BY <1>1, <1>2, <1>3, <1>4 DEF Typed

LEMMA TypedStep ==
  ASSUME Typed, [Next]_vars
  PROVE  Typed'
<1> USE DEF Typed
<1>1. Given'
  BY DEF Given, Next, vars, AddSample, AddedAll, DivideByClusterSize, StartCost, StartPass,
         Compare, EndPass, EndPasses, Average
<1>0. Len(sample) \in Nat /\ sample \in Seq(Int) /\ label \in Seq(Cluster)
  BY KMeansAssumption DEF Given
<1>2. CASE AddSample
  <2>1. i \in Nat /\ i + 1 \in 1 .. Len(sample)
    BY <1>2, <1>0 DEF AddSample, Phase
  <2>2. label[i + 1] \in Cluster /\ sample[i + 1] \in Int
    BY <2>1, <1>0, ElementIn DEF Given
  <2>3. Centres'
    BY <1>2, <2>2 DEF Centres, AddSample
  <2>4. Sorting' /\ Phase'
    BY <1>2, <2>1, <1>0 DEF AddSample, Sorting, Phase, Ready
  <2> QED
    BY <1>1, <2>3, <2>4
<1>3. CASE AddedAll
  BY <1>1, <1>3, Sizes DEF AddedAll, Centres, Sorting, Phase, Ready
<1>4. CASE DivideByClusterSize
  <2>1. i \in Cluster /\ i \in Nat
    BY <1>4, Sizes DEF DivideByClusterSize, Phase, Cluster
  <2>2. cluster_size[i] > 0 => clusterCentre[i] \div cluster_size[i] \in Int
    BY <2>1 DEF Centres
  <2>3. Centres'
    BY <1>4, <2>1, <2>2 DEF Centres, DivideByClusterSize
  <2>4. Sorting' /\ Phase'
    BY <1>4, <2>1, Sizes DEF DivideByClusterSize, Sorting, Phase, Ready, Cluster
  <2> QED
    BY <1>1, <2>3, <2>4
<1>5. CASE StartCost
  <2>1. Centres'
    BY <1>5 DEF Centres, StartCost
  <2>2. PICK v \in [{"text", "query"} -> Vectors] : vector' = v /\ dist' = At(v["text"])
    BY <1>5 DEF StartCost
  <2>3. dist' \in [Cluster -> Int]
    BY <2>2, Sizes, AtType
  <2>4. Sorting'
    BY <1>5, <2>2, <2>3, Sizes DEF StartCost, Sorting
  <2>5. Phase'
    BY <1>5, Sizes DEF StartCost, Phase
  <2> QED
    BY <1>1, <2>1, <2>4, <2>5
<1>6. CASE StartPass
  BY <1>1, <1>6, Sizes DEF StartPass, Centres, Sorting, Phase, Ready
<1>7. CASE Compare
  <2>1. j \in Cluster /\ j + 1 \in Cluster /\ j + 1 <= ClusterCount - i - 1 /\ i \in Nat /\ j \in Nat
    BY <1>7, InBubble DEF Compare
  <2>2. Swapped(dist) \in [Cluster -> Int] /\ Swapped(num) \in [Cluster -> Cluster]
    BY <2>1, <1>7, SwappedType DEF Compare, Sorting, Ready
  <2>3. Sorting'
    BY <1>7, <2>2 DEF Compare, Sorting, Ready
  <2>4. Centres' /\ Phase'
    BY <1>7, <2>1, Sizes DEF Compare, Centres, Phase
  <2> QED
    BY <1>1, <2>3, <2>4
<1>8. CASE EndPass
  BY <1>1, <1>8, Sizes DEF EndPass, Centres, Sorting, Phase, Ready
<1>9. CASE EndPasses
  BY <1>1, <1>9, Sizes DEF EndPasses, Centres, Sorting, Phase, Ready
<1>10. CASE Average
  <2>1. Centres' /\ vector' = vector /\ vector \in [{"text", "query"} -> Vectors]
    BY <1>10 DEF Average, Centres, Sorting, Ready
  <2>2. At(vector["query"]) \in [Cluster -> Int]
    BY <2>1, Sizes, AtType
  <2>3. Sorting'
    BY <1>10, <2>1, <2>2, Sizes DEF Average, Sorting, Ready
  <2>4. Phase'
    BY <1>10, Sizes DEF Average, Phase
  <2> QED
    BY <1>1, <2>1, <2>3, <2>4
<1>11. CASE UNCHANGED vars
  BY <1>1, <1>11 DEF vars, Centres, Sorting, Phase, Ready
<1> QED
  BY <1>2, <1>3, <1>4, <1>5, <1>6, <1>7, <1>8, <1>9, <1>10, <1>11 DEF Next

(* The variables keep their types in every run. *)
THEOREM TypeCorrect == Spec => []TypeOK
<1>1. Typed => TypeOK
  BY DEF Typed, Centres, Sorting, Phase, TypeOK
<1> QED
  BY <1>1, TypedInit, TypedStep, PTL DEF Spec

-----------------------------------------------------------------------------
(* An exchange leaves the set of centres alone and every centre with its   *)
(* distance.                                                               *)
Apart == \A k, m \in Cluster : num[k] = num[m] => k = m
Onto  == \A b \in Cluster : \E k \in Cluster : num[k] = b
Along == \A k \in Cluster : dist[k] = At(vector[which])[num[k]]

LEMMA SwapPaired ==
  ASSUME j \in Cluster, j + 1 \in Cluster, j \in Nat, dist \in [Cluster -> Int], num \in [Cluster -> Cluster],
         Apart, Onto, Along,
         dist' = Swapped(dist), num' = Swapped(num), UNCHANGED <<vector, which, clusterCentre>>
  PROVE  Apart' /\ Onto' /\ Along'
<1>1. \A k \in Cluster : /\ num'[k] = IF k = j THEN num[j + 1] ELSE IF k = j + 1 THEN num[j] ELSE num[k]
                         /\ dist'[k] = IF k = j THEN dist[j + 1] ELSE IF k = j + 1 THEN dist[j] ELSE dist[k]
  BY DEF Swapped
<1>2. Apart'
  BY <1>1 DEF Apart
<1>3. Onto'
  <2> SUFFICES ASSUME NEW b \in Cluster
               PROVE  \E k \in Cluster : num'[k] = b
    BY DEF Onto
  <2>1. PICK k \in Cluster : num[k] = b
    BY DEF Onto
  <2>2. CASE k = j
    BY <2>1, <2>2, <1>1
  <2>3. CASE k = j + 1
    BY <2>1, <2>3, <1>1
  <2>4. CASE k # j /\ k # j + 1
    BY <2>1, <2>4, <1>1
  <2> QED
    BY <2>2, <2>3, <2>4
<1>4. Along'
  <2> SUFFICES ASSUME NEW k \in Cluster
               PROVE  dist'[k] = At(vector[which])[num'[k]]
    BY DEF Along, At
  <2>1. CASE k = j
    BY <2>1, <1>1 DEF Along
  <2>2. CASE k = j + 1
    BY <2>2, <1>1 DEF Along
  <2>3. CASE k # j /\ k # j + 1
    BY <2>3, <1>1 DEF Along
  <2> QED
    BY <2>1, <2>2, <2>3
<1> QED
  BY <1>2, <1>3, <1>4

LEMMA StartPaired ==
  ASSUME NEW v, vector'[which'] = v, clusterCentre' = clusterCentre,
         dist' = At(v), num' = [b \in Cluster |-> b]
  PROVE  (Apart /\ Onto /\ Along)'
BY DEF Apart, Onto, Along, At

LEMMA PairedStep ==
  ASSUME Typed, Paired, [Next]_vars
  PROVE  Paired'
<1> SUFFICES ASSUME Ready'
             PROVE  (Apart /\ Onto /\ Along)'
  BY DEF Paired, Apart, Onto, Along
<1>1. Ready => Apart /\ Onto /\ Along
  BY DEF Paired, Apart, Onto, Along
<1>2. CASE UNCHANGED <<num, dist, vector, which, clusterCentre>> /\ Ready
  BY <1>1, <1>2 DEF Apart, Onto, Along, At
<1>3. CASE AddSample \/ AddedAll \/ DivideByClusterSize
  BY <1>3 DEF Ready, AddSample, AddedAll, DivideByClusterSize
<1>4. CASE StartCost
  <2>1. PICK v \in [{"text", "query"} -> Vectors] : vector' = v /\ dist' = At(v["text"])
    BY <1>4 DEF StartCost
  <2>2. which' = "text" /\ clusterCentre' = clusterCentre
    BY <1>4 DEF StartCost, Typed, Phase
  <2>3. vector'[which'] = v["text"] /\ num' = [b \in Cluster |-> b]
    BY <1>4, <2>1, <2>2 DEF StartCost
  <2> QED
    BY <2>1, <2>2, <2>3, StartPaired
<1>5. CASE Compare
  <2>1. j \in Cluster /\ j + 1 \in Cluster /\ j \in Nat
    BY <1>5, InBubble DEF Compare
  <2>2. Ready
    BY <1>5 DEF Compare, Ready
  <2>3. UNCHANGED <<vector, which, clusterCentre>>
    BY <1>5 DEF Compare
  <2>4. CASE dist[j] < dist[j + 1]
    <3>1. dist' = Swapped(dist) /\ num' = Swapped(num)
      BY <1>5, <2>4 DEF Compare
    <3> QED
      BY <1>1, <2>1, <2>2, <2>3, <3>1, SwapPaired DEF Typed, Sorting
  <2>5. CASE ~(dist[j] < dist[j + 1])
    BY <1>5, <1>2, <2>2, <2>5 DEF Compare
  <2> QED
    BY <2>4, <2>5
<1>6. CASE StartPass \/ EndPass \/ EndPasses
  BY <1>6, <1>2 DEF StartPass, EndPass, EndPasses, Ready
<1>7. CASE Average
  <2>1. CASE which = "text"
    <3>1. PICK v : v = vector["query"]
      OBVIOUS
    <3>2. vector'[which'] = v /\ dist' = At(v) /\ num' = [b \in Cluster |-> b] /\ clusterCentre' = clusterCentre
      BY <1>7, <2>1, <3>1 DEF Average
    <3> QED
      BY <3>2, StartPaired
  <2>2. CASE which # "text"
    BY <1>7, <2>2, <1>2 DEF Average, Ready
  <2> QED
    BY <2>1, <2>2
<1>8. CASE UNCHANGED vars
  BY <1>8, <1>2 DEF vars, Ready
<1> QED
  BY <1>3, <1>4, <1>5, <1>6, <1>7, <1>8 DEF Next

(* Whatever is exchanged, every centre stays beside its own distance, once. *)
THEOREM CentresPaired == Spec => []Paired
<1>1. Init => Paired
  BY DEF Init, Paired, Ready
<1> QED
  BY <1>1, TypedInit, TypedStep, PairedStep, PTL DEF Spec

-----------------------------------------------------------------------------
(* What the passes have settled, and what the current one carries along.   *)
Settled ==
  Ready => \A k, m \in Cluster : ClusterCount - i <= k /\ m <= k => dist[k] <= dist[m]

Carried ==
  pc = "bubble" => \A m \in Cluster : m <= j => dist[j] <= dist[m]

LEMMA ClusterInt == Cluster \subseteq Int
BY DEF Cluster

LEMMA CompareSettles ==
  ASSUME Typed, Settled, Carried, Compare
  PROVE  Settled' /\ Carried'
<1>1. /\ j \in Cluster /\ j + 1 \in Cluster /\ j + 1 <= ClusterCount - i - 1
      /\ i \in Nat /\ j \in Nat
  BY InBubble DEF Compare
<1>2. dist \in [Cluster -> Int] /\ i' = i /\ j' = j + 1 /\ ClusterCount \in Nat
  BY Sizes DEF Typed, Sorting, Compare, Ready
<1>3. \A k, m \in Cluster : ClusterCount - i <= k /\ m <= k => dist[k] <= dist[m]
  BY DEF Settled, Compare, Ready
<1>4. \A m \in Cluster : m <= j => dist[j] <= dist[m]
  BY DEF Carried, Compare
<1>5. CASE dist[j] < dist[j + 1]
  <2>1. \A k \in Cluster :
          dist'[k] = IF k = j THEN dist[j + 1] ELSE IF k = j + 1 THEN dist[j] ELSE dist[k]
    BY <1>5 DEF Compare, Swapped
  <2>2. Settled'
    <3> SUFFICES ASSUME NEW k \in Cluster, NEW m \in Cluster, ClusterCount - i <= k, m <= k
                 PROVE  dist'[k] <= dist'[m]
      BY <1>2 DEF Settled
    <3>1. dist'[k] = dist[k] /\ j <= k /\ j + 1 <= k
      BY <1>1, <1>2, <2>1, ClusterInt
    <3> QED
      BY <1>1, <1>2, <1>3, <2>1, <3>1
  <2>3. Carried'
    <3> SUFFICES ASSUME NEW m \in Cluster, m <= j + 1
                 PROVE  dist'[j + 1] <= dist'[m]
      BY <1>2 DEF Carried
    <3> QED
      BY <1>1, <1>2, <1>4, <1>5, <2>1, ClusterInt
  <2> QED
    BY <2>2, <2>3
<1>6. CASE ~(dist[j] < dist[j + 1])
  <2>1. dist' = dist
    BY <1>6 DEF Compare
  <2>2. Settled'
    BY <2>1, <1>2, <1>3 DEF Settled
  <2>3. Carried'
    <3> SUFFICES ASSUME NEW m \in Cluster, m <= j + 1
                 PROVE  dist[j + 1] <= dist[m]
      BY <1>2, <2>1 DEF Carried
    <3> QED
      BY <1>1, <1>2, <1>4, <1>6, ClusterInt
  <2> QED
    BY <2>2, <2>3
<1> QED
  BY <1>5, <1>6

LEMMA EndSettles ==
  ASSUME Typed, Settled, Carried, EndPass
  PROVE  Settled' /\ Carried'
<1>1. /\ \A k, m \in Cluster : ClusterCount - i <= k /\ m <= k => dist[k] <= dist[m]
      /\ \A m \in Cluster : m <= j => dist[j] <= dist[m]
  BY DEF Settled, Carried, EndPass, Ready
<1>2. dist' = dist /\ i' = i + 1 /\ j = ClusterCount - i - 1 /\ i \in Nat /\ ClusterCount \in Nat
  BY Sizes DEF Typed, Sorting, EndPass, Ready
<1>3. Settled'
  <2> SUFFICES ASSUME NEW k \in Cluster, NEW m \in Cluster, ClusterCount - (i + 1) <= k, m <= k
               PROVE  dist[k] <= dist[m]
    BY <1>2 DEF Settled
  <2>1. k = j \/ ClusterCount - i <= k
    BY <1>2, ClusterInt
  <2> QED
    BY <1>1, <2>1
<1>4. Carried'
  BY DEF EndPass, Carried
<1> QED
  BY <1>3, <1>4

LEMMA NothingSettledYet ==
  ASSUME i = 0
  PROVE  \A k, m \in Cluster : ClusterCount - i <= k /\ m <= k => dist[k] <= dist[m]
BY Sizes DEF Cluster

LEMMA SettledStep ==
  ASSUME Typed, Typed', Settled, Carried, [Next]_vars
  PROVE  Settled' /\ Carried'
<1>1. CASE AddSample \/ AddedAll \/ DivideByClusterSize
  BY <1>1 DEF Settled, Carried, Ready, AddSample, AddedAll, DivideByClusterSize
<1>2. CASE StartCost
  <2>1. i' = 0 /\ pc' = "pass"
    BY <1>2 DEF StartCost
  <2> QED
    BY <2>1, Sizes DEF Settled, Carried, Cluster
<1>3. CASE StartPass
  <2>1. j' = 0 /\ dist' = dist /\ i' = i /\ Ready
    BY <1>3 DEF StartPass, Ready
  <2>2. Settled'
    BY <2>1 DEF Settled
  <2>3. Carried'
    <3> SUFFICES ASSUME NEW m \in Cluster, m <= 0
                 PROVE  dist[0] <= dist[m]
      BY <2>1 DEF Carried
    <3>1. m = 0
      BY DEF Cluster
    <3> QED
      BY <2>1, <3>1 DEF Typed, Sorting
  <2> QED
    BY <2>2, <2>3
<1>4. CASE Compare
  BY <1>4, CompareSettles
<1>5. CASE EndPass
  BY <1>5, EndSettles
<1>6. CASE EndPasses
  BY <1>6 DEF EndPasses, Settled, Carried, Ready
<1>7. CASE Average
  <2>1. CASE which = "text"
    <3>1. i' = 0 /\ pc' = "pass"
      BY <1>7, <2>1 DEF Average
    <3> QED
      BY <3>1, Sizes DEF Settled, Carried, Cluster
  <2>2. CASE which # "text"
    BY <1>7, <2>2 DEF Average, Settled, Carried, Ready
  <2> QED
    BY <2>1, <2>2
<1>8. CASE UNCHANGED vars
  BY <1>8 DEF vars, Settled, Carried, Ready
<1> QED
  BY <1>1, <1>2, <1>3, <1>4, <1>5, <1>6, <1>7, <1>8 DEF Next

LEMMA SettledIsLast ==
  ASSUME Typed, Settled
  PROVE  NearestLast
<1> SUFFICES ASSUME pc \in {"mean", "done"}, NEW k \in Last, NEW m \in Cluster, m <= k
             PROVE  dist[k] <= dist[m]
  BY DEF NearestLast
<1>1. i = N /\ Ready
  BY DEF Typed, Phase, Ready
<1>2. k \in Cluster /\ ClusterCount - i <= k
  BY <1>1, Sizes DEF Last, Cluster
<1> QED
  BY <1>1, <1>2 DEF Settled

(* The N passes settle the N positions the mean is taken from: the nearest *)
(* centres, the nearest at the end.                                        *)
THEOREM NearestSettled == Spec => []NearestLast
<1>1. Init => Settled /\ Carried
  BY DEF Init, Settled, Carried, Ready
<1>2. Typed /\ Settled => NearestLast
  BY SettledIsLast
<1> QED
  BY <1>1, <1>2, TypedInit, TypedStep, SettledStep, PTL DEF Spec
-----------------------------------------------------------------------------
(* A centre while the samples are added and while it is divided.           *)
Members(upto, b) == {k \in 1 .. upto : label[k] = b}

Mean(b) == LET members == Members(Len(sample), b)
           IN  IF members = {} THEN 0 ELSE SumOf(sample, members) \div Cardinality(members)

CentreInv ==
  /\ pc = "add" => \A b \in Cluster : /\ clusterCentre[b] = SumOf(sample, Members(i, b))
                                      /\ cluster_size[b] = Cardinality(Members(i, b))
  /\ pc = "divide" => \A b \in Cluster :
       /\ cluster_size[b] = Cardinality(Members(Len(sample), b))
       /\ clusterCentre[b] = IF b < i THEN Mean(b) ELSE SumOf(sample, Members(Len(sample), b))
  /\ Ready => \A b \in Cluster : clusterCentre[b] = Mean(b)

LEMMA MembersFinite ==
  ASSUME NEW upto \in Nat, NEW b
  PROVE  IsFiniteSet(Members(upto, b)) /\ Members(upto, b) \subseteq 1 .. upto
<1>1. IsFiniteSet(1 .. upto) /\ Members(upto, b) \subseteq 1 .. upto
  BY FS_Interval DEF Members
<1> QED
  BY <1>1, FS_Subset

LEMMA SamplesKept ==
  ASSUME [Next]_vars
  PROVE  sample' = sample /\ label' = label
BY DEF Next, vars, AddSample, AddedAll, DivideByClusterSize, StartCost, StartPass,
       Compare, EndPass, EndPasses, Average

LEMMA SampleIn ==
  ASSUME Typed
  PROVE  /\ Len(sample) \in Nat /\ DOMAIN sample = 1 .. Len(sample)
         /\ \A k \in 1 .. Len(sample) : sample[k] \in Int /\ label[k] \in Cluster
<1>1. sample \in Seq(Int) /\ label \in Seq(Cluster) /\ Len(label) = Len(sample)
  BY KMeansAssumption DEF Typed, Given
<1> QED
  BY <1>1, ElementIn

LEMMA CentreStart ==
  ASSUME Init
  PROVE  CentreInv
<1>1. \A b : Members(0, b) = {}
  BY DEF Members
<1>2. SumOf(sample, {}) = 0
  <2>1. IsFiniteSet({}) /\ \A u \in {} : sample[u] \in Int
    BY FS_EmptySet
  <2> QED
    BY <2>1, SumNext
<1>3. Cardinality({}) = 0
  BY FS_EmptySet
<1> QED
  BY <1>1, <1>2, <1>3 DEF Init, CentreInv, Ready

LEMMA AddStep ==
  ASSUME Typed, CentreInv, AddSample
  PROVE  CentreInv'
<1>1. sample' = sample /\ label' = label /\ i' = i + 1 /\ pc = "add" /\ pc' = "add"
  BY DEF AddSample
<1>2. i \in Nat /\ i + 1 \in 1 .. Len(sample) /\ i < Len(sample)
  <2>1. Len(sample) \in Nat
    BY SampleIn
  <2> QED
    BY <2>1 DEF AddSample, Typed, Phase
<1>3. label[i + 1] \in Cluster /\ sample[i + 1] \in Int
  BY <1>2, SampleIn
<1>4. \A b : Members(i + 1, b) = IF label[i + 1] = b THEN Members(i, b) \cup {i + 1} ELSE Members(i, b)
  <2>1. 1 .. i + 1 = (1 .. i) \cup {i + 1}
    BY <1>2
  <2> QED
    BY <2>1 DEF Members
<1>5. ASSUME NEW b \in Cluster
      PROVE  /\ clusterCentre'[b] = SumOf(sample, Members(i + 1, b))
             /\ cluster_size'[b] = Cardinality(Members(i + 1, b))
  <2>1. clusterCentre[b] = SumOf(sample, Members(i, b)) /\ cluster_size[b] = Cardinality(Members(i, b))
    BY <1>1 DEF CentreInv
  <2>2. CASE label[i + 1] = b
    <3>1. clusterCentre'[b] = clusterCentre[b] + sample[i + 1] /\ cluster_size'[b] = cluster_size[b] + 1
      BY <2>2 DEF AddSample, Typed, Centres
    <3>2. IsFiniteSet(Members(i, b)) /\ Members(i, b) \subseteq 1 .. i /\ i + 1 \notin Members(i, b)
      BY <1>2, MembersFinite
    <3>3. \A u \in Members(i, b) \cup {i + 1} : sample[u] \in Int
      <4>1. Members(i, b) \cup {i + 1} \subseteq 1 .. Len(sample)
        BY <1>2, <3>2, SampleIn
      <4> QED
        BY <4>1, SampleIn
    <3>4. SumOf(sample, Members(i, b) \cup {i + 1}) = SumOf(sample, Members(i, b)) + sample[i + 1]
      BY <3>2, <3>3, SumMore
    <3>5. Cardinality(Members(i, b) \cup {i + 1}) = Cardinality(Members(i, b)) + 1
      BY <3>2, FS_AddElement
    <3> QED
      BY <1>4, <2>1, <2>2, <3>1, <3>4, <3>5
  <2>3. CASE label[i + 1] # b
    BY <1>4, <2>1, <2>3 DEF AddSample, Typed, Centres
  <2> QED
    BY <2>2, <2>3
<1>6. \A b : Members(i + 1, b)' = Members(i + 1, b)'
  OBVIOUS
<1>7. \A b \in Cluster : /\ clusterCentre'[b] = SumOf(sample, Members(i + 1, b))
                         /\ cluster_size'[b] = Cardinality(Members(i + 1, b))
  BY <1>5
<1>8. \A b : Members(i, b)' = Members(i + 1, b)
  BY <1>1 DEF Members
<1>9. (\A b \in Cluster : /\ clusterCentre[b] = SumOf(sample, Members(i, b))
                          /\ cluster_size[b] = Cardinality(Members(i, b)))'
  BY <1>1, <1>7, <1>8
<1> QED
  BY <1>1, <1>9 DEF CentreInv, Ready

LEMMA CentreKept ==
  ASSUME Ready, Ready', CentreInv, clusterCentre' = clusterCentre, sample' = sample, label' = label
  PROVE  CentreInv'
<1>1. \A b : Mean(b)' = Mean(b)
  BY DEF Mean, Members
<1>2. \A b \in Cluster : clusterCentre[b] = Mean(b)
  BY DEF CentreInv
<1>3. pc' \notin {"add", "divide"}
  BY DEF Ready
<1> QED
  BY <1>1, <1>2, <1>3 DEF CentreInv

LEMMA CentreStep ==
  ASSUME Typed, CentreInv, [Next]_vars
  PROVE  CentreInv'
<1>0. sample' = sample /\ label' = label /\ Len(sample) \in Nat
  BY SamplesKept, SampleIn
<1>1. CASE AddSample
  BY <1>1, AddStep
<1>2. CASE AddedAll
  <2>1. \A b : Members(Len(sample), b)' = Members(Len(sample), b) /\ Mean(b)' = Mean(b)
    BY <1>0 DEF Members, Mean
  <2>2. /\ i = Len(sample) /\ i' = 0 /\ pc = "add" /\ pc' = "divide"
        /\ UNCHANGED <<clusterCentre, cluster_size>>
    BY <1>2 DEF AddedAll
  <2>3. \A b \in Cluster : ~(b < 0)
    BY Sizes DEF Cluster
  <2>4. \A b \in Cluster : /\ clusterCentre[b] = SumOf(sample, Members(Len(sample), b))
                           /\ cluster_size[b] = Cardinality(Members(Len(sample), b))
    BY <2>2 DEF CentreInv
  <2> QED
    BY <1>0, <2>1, <2>2, <2>3, <2>4 DEF CentreInv, Ready
<1>3. CASE DivideByClusterSize
  <2>1. \A b : Members(Len(sample), b)' = Members(Len(sample), b) /\ Mean(b)' = Mean(b)
    BY <1>0 DEF Members, Mean
  <2>2. /\ i' = i + 1 /\ pc = "divide" /\ pc' = "divide" /\ cluster_size' = cluster_size
        /\ i \in Nat /\ i \in Cluster
    BY <1>3, Sizes DEF DivideByClusterSize, Typed, Phase, Cluster
  <2>3. \A b \in Cluster :
          /\ cluster_size[b] = Cardinality(Members(Len(sample), b))
          /\ clusterCentre[b] = IF b < i THEN Mean(b) ELSE SumOf(sample, Members(Len(sample), b))
    BY <2>2 DEF CentreInv
  <2>4. \A b \in Cluster : clusterCentre'[b] =
          IF b = i /\ cluster_size[i] > 0 THEN clusterCentre[i] \div cluster_size[i] ELSE clusterCentre[b]
    BY <1>3, <2>2 DEF DivideByClusterSize, Typed, Centres
  <2>5. clusterCentre'[i] = Mean(i)
    <3> DEFINE members == Members(Len(sample), i)
    <3>1. IsFiniteSet(members)
      BY <1>0, MembersFinite
    <3>2. clusterCentre[i] = SumOf(sample, members) /\ cluster_size[i] = Cardinality(members)
      BY <2>2, <2>3
    <3>3. CASE members = {}
      <4>1. Cardinality(members) = 0
        BY <3>3, FS_EmptySet
      <4>2. SumOf(sample, members) = 0
        <5>1. IsFiniteSet({}) /\ \A u \in {} : sample[u] \in Int
          BY FS_EmptySet
        <5> QED
          BY <5>1, <3>3, SumNext
      <4>3. clusterCentre'[i] = 0
        BY <2>2, <2>4, <3>2, <4>1, <4>2
      <4> QED
        BY <3>3, <4>3 DEF Mean
    <3>4. CASE members # {}
      <4>1. Cardinality(members) > 0
        BY <3>1, <3>4, FirstIn
      <4>2. clusterCentre'[i] = SumOf(sample, members) \div Cardinality(members)
        BY <2>2, <2>4, <3>2, <4>1
      <4> QED
        BY <3>4, <4>2 DEF Mean
    <3> QED
      BY <3>3, <3>4
  <2>6. \A b \in Cluster :
          clusterCentre'[b] = IF b < i + 1 THEN Mean(b) ELSE SumOf(sample, Members(Len(sample), b))
    <3> SUFFICES ASSUME NEW b \in Cluster
                 PROVE  clusterCentre'[b] = IF b < i + 1 THEN Mean(b) ELSE SumOf(sample, Members(Len(sample), b))
      OBVIOUS
    <3>1. b \in Int
      BY ClusterInt
    <3>2. CASE b = i
      BY <2>2, <2>5, <3>2
    <3>3. CASE b # i
      <4>1. b < i + 1 <=> b < i
        BY <2>2, <3>1, <3>3
      <4> QED
        BY <2>3, <2>4, <3>3, <4>1
    <3> QED
      BY <3>2, <3>3
  <2> QED
    BY <1>0, <2>1, <2>2, <2>3, <2>6 DEF CentreInv, Ready
<1>4. CASE StartCost
  <2>1. i = ClusterCount /\ pc = "divide" /\ pc' = "pass" /\ clusterCentre' = clusterCentre
    BY <1>4 DEF StartCost
  <2>2. \A b \in Cluster : b < i
    BY <2>1, Sizes DEF Cluster
  <2>3. \A b \in Cluster : clusterCentre[b] = Mean(b)
    BY <2>1, <2>2 DEF CentreInv
  <2>4. \A b : Mean(b)' = Mean(b)
    BY <1>0 DEF Members, Mean
  <2> QED
    BY <2>1, <2>3, <2>4 DEF CentreInv
<1>5. CASE StartPass \/ Compare \/ EndPass \/ EndPasses \/ Average
  <2>1. Ready /\ Ready' /\ clusterCentre' = clusterCentre
    BY <1>5 DEF StartPass, Compare, EndPass, EndPasses, Average, Ready
  <2> QED
    BY <1>0, <2>1, CentreKept
<1>6. CASE UNCHANGED vars
  <2>1. UNCHANGED <<sample, label, clusterCentre, cluster_size, i, pc>>
    BY <1>6 DEF vars
  <2>2. \A upto, b : (Members(upto, b) = Members(upto, b)) /\ Mean(b)' = Mean(b)
    BY <2>1 DEF Mean, Members
  <2>3. \A b : Members(i, b)' = Members(i, b) /\ Members(Len(sample), b)' = Members(Len(sample), b)
    BY <2>1 DEF Members
  <2> QED
    BY <2>1, <2>2, <2>3 DEF CentreInv, Ready
<1> QED
  BY <1>1, <1>2, <1>3, <1>4, <1>5, <1>6 DEF Next

LEMMA CentresAreMeans ==
  ASSUME Typed, CentreInv
  PROVE  CentreIsMean
<1> SUFFICES ASSUME Ready, NEW b \in Cluster
             PROVE  clusterCentre[b] = LET members == {k \in DOMAIN sample : label[k] = b}
                                       IN  IF members = {} THEN 0
                                           ELSE SumFunctionOnSet(sample, members) \div Cardinality(members)
  BY DEF CentreIsMean
<1>1. clusterCentre[b] = Mean(b)
  BY DEF CentreInv
<1>2. Members(Len(sample), b) = {k \in DOMAIN sample : label[k] = b}
  BY SampleIn DEF Members
<1> QED
  BY <1>1, <1>2 DEF Mean, SumOf

-----------------------------------------------------------------------------
(* The nearest centre, and the greatest distance of two.                   *)
LEMMA HighestOf ==
  ASSUME NEW A, IsFiniteSet(A), A # {}, NEW f, \A u \in A : f[u] \in Int
  PROVE  \E u \in A : \A v \in A : f[v] <= f[u]
<1> DEFINE Higher(u) == {v \in A : f[v] > f[u]}
           F == {Higher(u) : u \in A}
<1>1. \A T \in F : IsFiniteSet(T)
  BY FS_Subset
<1>2. F # {}
  OBVIOUS
<1>3. \A T \in F : \E u \in A : T = Higher(u)
  OBVIOUS
<1>4. \A u \in A : Higher(u) \in F
  OBVIOUS
<1> HIDE DEF F
<1>5. PICK T \in F : \A W \in F : ~(W \subseteq T /\ W # T)
  BY <1>1, <1>2, SmallestSet
<1>6. PICK u \in A : T = Higher(u)
  BY <1>3
<1>7. ASSUME NEW v \in A, ~(f[v] <= f[u]) PROVE FALSE
  <2>1. f[v] > f[u] /\ f[v] \in Int /\ f[u] \in Int
    BY <1>7
  <2>2. v \in Higher(u) /\ v \notin Higher(v)
    BY <2>1
  <2>3. Higher(v) \subseteq Higher(u)
    BY <2>1
  <2> HIDE DEF Higher
  <2> QED
    BY <1>4, <1>5, <1>6, <2>2, <2>3
<1> QED
  BY <1>7

LEMMA DistanceNat ==
  ASSUME NEW u \in Int, NEW v \in Int
  PROVE  /\ euclideanDistance(u, v) \in Nat
         /\ euclideanDistance(u, v) >= u - v /\ euclideanDistance(u, v) >= v - u
         /\ euclideanDistance(u, v) \in {u - v, v - u}
         /\ euclideanDistance(u, v) = 0 <=> u = v
BY DEF euclideanDistance

LEMMA ClusterFinite == IsFiniteSet(Cluster) /\ Cluster # {} /\ ClusterCount - 1 \in Cluster
<1>1. IsFiniteSet(Cluster)
  BY Sizes, FS_Interval DEF Cluster
<1> QED
  BY <1>1, Sizes DEF Cluster

LEMMA NearestExists ==
  ASSUME Centres, NEW v \in Int
  PROVE  /\ getNearestCluster(v) \in Cluster
         /\ \A b \in Cluster : euclideanDistance(clusterCentre[getNearestCluster(v)], v)
                                 <= euclideanDistance(clusterCentre[b], v)
<1> DEFINE far(b) == euclideanDistance(clusterCentre[b], v)
           Is(e) == \A b \in Cluster : far(e) <= far(b) /\ (b < e => far(e) < far(b))
<1>1. \A b \in Cluster : far(b) \in Nat
  BY DistanceNat DEF Centres
<1> HIDE DEF far
<1>2. PICK a \in Cluster : \A b \in Cluster : far(a) <= far(b)
  <2> DEFINE reach == {far(b) : b \in Cluster}
  <2>1. reach \in SUBSET Nat /\ reach # {}
    BY <1>1, ClusterFinite
  <2>2. \A b \in Cluster : far(b) \in reach
    OBVIOUS
  <2>3. \A r \in reach : \E b \in Cluster : r = far(b)
    OBVIOUS
  <2> HIDE DEF reach
  <2>4. PICK r \in reach : \A q \in reach : r <= q
    BY <2>1, LeastNat
  <2> QED
    BY <2>2, <2>3, <2>4
<1>3. \E e \in Cluster : Is(e)
  <2> DEFINE best == {b \in Cluster : far(b) = far(a)}
  <2>1. best \in SUBSET Nat /\ a \in best
    BY DEF Cluster
  <2>2. PICK e \in best : \A b \in best : e <= b
    BY <2>1, LeastNat
  <2>3. e \in Cluster /\ e \in Int /\ far(e) = far(a)
    BY <2>2, ClusterInt
  <2>4. ASSUME NEW b \in Cluster PROVE far(e) <= far(b) /\ (b < e => far(e) < far(b))
    <3>1. far(a) <= far(b) /\ far(a) \in Nat /\ far(b) \in Nat /\ b \in Int
      BY <1>1, <1>2, ClusterInt
    <3>2. far(b) = far(a) => e <= b
      BY <2>2
    <3> QED
      BY <2>3, <3>1, <3>2
  <2> QED
    BY <2>3, <2>4
<1>4. getNearestCluster(v) = CHOOSE e \in Cluster : Is(e)
  BY DEF getNearestCluster, far
<1> HIDE DEF Is
<1>5. getNearestCluster(v) \in Cluster /\ Is(getNearestCluster(v))
  BY <1>3, <1>4
<1> QED
  BY <1>5 DEF Is, far

LEMMA LastIsNearest ==
  ASSUME Typed, Paired, NearestLast
  PROVE  NearestAgrees
<1> SUFFICES ASSUME pc \in {"mean", "done"}
             PROVE  euclideanDistance(clusterCentre[num[ClusterCount - 1]], vector[which]) =
                      euclideanDistance(clusterCentre[getNearestCluster(vector[which])], vector[which])
  BY DEF NearestAgrees
<1> DEFINE v == vector[which]
           nearest == getNearestCluster(v)
           far(b) == euclideanDistance(clusterCentre[b], v)
           top == ClusterCount - 1
<1>1. Ready /\ Centres /\ v \in Int /\ num \in [Cluster -> Cluster]
  BY Sizes DEF Typed, Ready, Sorting, Phase
<1>2. nearest \in Cluster /\ \A b \in Cluster : far(nearest) <= far(b)
  BY <1>1, NearestExists
<1>3. top \in Cluster /\ top \in Last /\ \A m \in Cluster : m <= top
  BY Sizes DEF Cluster, Last
<1>4. \A m \in Cluster : dist[top] <= dist[m]
  BY <1>3 DEF NearestLast
<1>5. \A k \in Cluster : dist[k] = far(num[k])
  BY <1>1 DEF Paired, At
<1>6. PICK k \in Cluster : num[k] = nearest
  BY <1>1, <1>2 DEF Paired
<1>7. far(num[top]) <= far(nearest) /\ far(nearest) <= far(num[top])
  BY <1>1, <1>2, <1>3, <1>4, <1>5, <1>6
<1>8. far(num[top]) \in Nat /\ far(nearest) \in Nat
  BY <1>1, <1>2, <1>3, DistanceNat DEF Centres
<1> HIDE DEF far, nearest, v, top
<1>9. far(num[top]) = far(nearest)
  BY <1>7, <1>8
<1> QED
  BY <1>9 DEF far, nearest, v, top

-----------------------------------------------------------------------------
(* A weighted mean lies between the least and the greatest centre: times   *)
(* the sum of the weights, which is N * N.                                 *)
LEMMA OddSum ==
  ASSUME NEW low \in Int
  PROVE  /\ \A k \in Last : low * Weight(k) \in Int
         /\ SumOf([k \in Last |-> low * Weight(k)], Last) = low * TotalWeight
<1> DEFINE f == [k \in Last |-> low * Weight(k)]
           from == ClusterCount - N
           Part(m) == from .. from + m - 1
           wrong == {m \in 0 .. N : SumOf(f, Part(m)) # low * (m * m)}
<1>1. from \in Nat /\ N \in Nat /\ Last = Part(N) /\ Part(0) = {}
  BY Sizes DEF Last
<1>2. \A m \in 0 .. N - 1 : /\ from + m \in Last /\ Part(m + 1) = Part(m) \cup {from + m}
                            /\ from + m \notin Part(m) /\ Part(m) \subseteq Last
  BY <1>1
<1>3. \A k \in Last : Weight(k) \in Int
  BY <1>1, Sizes DEF Last, Weight
<1>4. \A k \in Last : f[k] = low * Weight(k) /\ f[k] \in Int
  BY <1>3
<1>5. \A m \in 0 .. N - 1 : Weight(from + m) = 2 * m + 1
  BY <1>1 DEF Weight
<1>6. IsFiniteSet(Last)
  BY <1>1, FS_Interval DEF Last
<1> HIDE DEF f, Part
<1>7. ASSUME wrong # {} PROVE FALSE
  <2>1. PICK k \in wrong : \A m \in wrong : k <= m
    <3>1. wrong \in SUBSET Nat
      BY <1>1
    <3> HIDE DEF wrong
    <3> QED
      BY <1>7, <3>1, LeastNat
  <2>2. k \in 0 .. N /\ SumOf(f, Part(k)) # low * (k * k)
    BY <2>1
  <2>3. k # 0
    <3>1. IsFiniteSet({}) /\ \A u \in {} : f[u] \in Int
      BY FS_EmptySet
    <3>2. SumOf(f, {}) = 0
      BY <3>1, SumNext
    <3> QED
      BY <1>1, <2>2, <3>2
  <2> DEFINE m == k - 1
  <2>4. m \in 0 .. N - 1 /\ m + 1 = k /\ m \notin wrong /\ m \in 0 .. N
    BY <1>1, <2>1, <2>2, <2>3
  <2>5. SumOf(f, Part(m)) = low * (m * m)
    BY <2>4
  <2> HIDE DEF m, wrong, from
  <2>6. /\ Part(k) = Part(m) \cup {from + m} /\ from + m \notin Part(m) /\ IsFiniteSet(Part(m))
        /\ \A u \in Part(m) \cup {from + m} : f[u] \in Int
    BY <1>2, <1>4, <1>6, <2>4, FS_Subset
  <2>7. SumOf(f, Part(k)) = SumOf(f, Part(m)) + f[from + m]
    BY <2>6, SumMore
  <2>8. f[from + m] = low * (2 * m + 1)
    BY <1>2, <1>4, <1>5, <2>4
  <2>9. low * (m * m) + low * (2 * m + 1) = low * (k * k)
    <3>1. m \in Int /\ k = m + 1
      BY <2>4
    <3> QED
      BY <3>1
  <2> QED
    BY <2>2, <2>5, <2>7, <2>8, <2>9
<1>8. SumOf(f, Part(N)) = low * (N * N)
  <2>1. N \in 0 .. N
    BY <1>1
  <2> QED
    BY <1>7, <2>1
<1> QED
  BY <1>1, <1>3, <1>8 DEF f, TotalWeight

Between(m) ==
  /\ m \in Int
  /\ \A low, high \in Int :
       (\A b \in Cluster : low <= clusterCentre[b] /\ clusterCentre[b] <= high) =>
         low * TotalWeight <= m /\ m <= high * TotalWeight

LEMMA AverageBetween ==
  ASSUME Centres, num \in [Cluster -> Cluster]
  PROVE  Between(SumOf([k \in Last |-> clusterCentre[num[k]] * Weight(k)], Last))
<1> DEFINE f == [k \in Last |-> clusterCentre[num[k]] * Weight(k)]
<1>1. IsFiniteSet(Last)
  BY Sizes, FS_Interval DEF Last
<1>2. \A k \in Last : Weight(k) \in Nat /\ k \in Cluster
  BY Sizes DEF Last, Weight, Cluster
<1>3. \A k \in Last : clusterCentre[num[k]] \in Int /\ num[k] \in Cluster
  BY <1>2 DEF Centres
<1>4. \A k \in Last : f[k] = clusterCentre[num[k]] * Weight(k) /\ f[k] \in Int
  BY <1>2, <1>3
<1> HIDE DEF f
<1>5. SumOf(f, Last) \in Int
  BY <1>1, <1>4, SumNext
<1>6. ASSUME NEW low \in Int, NEW high \in Int,
             \A b \in Cluster : low <= clusterCentre[b] /\ clusterCentre[b] <= high
      PROVE  low * TotalWeight <= SumOf(f, Last) /\ SumOf(f, Last) <= high * TotalWeight
  <2> DEFINE g == [k \in Last |-> low * Weight(k)]
             h == [k \in Last |-> high * Weight(k)]
  <2>1. ASSUME NEW k \in Last
        PROVE  g[k] \in Int /\ h[k] \in Int /\ f[k] \in Int /\ g[k] <= f[k] /\ f[k] <= h[k]
    <3>1. low <= clusterCentre[num[k]] /\ clusterCentre[num[k]] <= high
      BY <1>3, <1>6
    <3>2. g[k] = low * Weight(k) /\ h[k] = high * Weight(k)
      OBVIOUS
    <3> DEFINE w == Weight(k)   u == clusterCentre[num[k]]
    <3>3. w \in Nat /\ u \in Int /\ low <= u /\ u <= high
      BY <1>2, <1>3, <3>1
    <3>4. f[k] = u * w /\ f[k] \in Int /\ g[k] = low * w /\ h[k] = high * w
      BY <1>4, <3>2
    <3> HIDE DEF w, u, g, h
    <3>5. low * w <= u * w /\ u * w <= high * w /\ low * w \in Int /\ high * w \in Int
      BY <3>3
    <3> QED
      BY <3>4, <3>5
  <2>2. SumOf(g, Last) = low * TotalWeight /\ SumOf(h, Last) = high * TotalWeight
    BY OddSum
  <2> HIDE DEF g, h
  <2>3. SumOf(g, Last) <= SumOf(f, Last)
    BY <1>1, <2>1, SumAtMost
  <2>4. SumOf(f, Last) <= SumOf(h, Last)
    BY <1>1, <2>1, SumAtMost
  <2> QED
    BY <2>2, <2>3, <2>4
<1> QED
  BY <1>5, <1>6 DEF Between, f

MeanInv ==
  /\ mean \in [{"text", "query"} -> Int]
  /\ which = "query" => Between(mean["text"])
  /\ pc = "done" => which = "query" /\ Between(mean["query"])

LEMMA MeanStep ==
  ASSUME Typed, MeanInv, [Next]_vars
  PROVE  MeanInv'
<1>1. CASE AddSample \/ DivideByClusterSize
  <2>1. which' = which /\ which = "text" /\ mean' = mean /\ pc' # "done"
    BY <1>1 DEF AddSample, DivideByClusterSize, Typed, Phase
  <2> QED
    BY <2>1 DEF MeanInv
<1>2. CASE UNCHANGED <<clusterCentre, which, mean>> /\ (pc' = pc \/ pc' # "done")
  BY <1>2 DEF MeanInv, Between
<1>3. CASE AddedAll \/ StartCost \/ StartPass \/ Compare \/ EndPass \/ EndPasses
  BY <1>2, <1>3 DEF AddedAll, StartCost, StartPass, Compare, EndPass, EndPasses
<1>4. CASE Average
  <2> DEFINE m == SumOf([k \in Last |-> clusterCentre[num[k]] * Weight(k)], Last)
  <2>1. Between(m)
    BY <1>4, AverageBetween DEF Average, Typed, Sorting, Ready
  <2>2. mean' = [mean EXCEPT ![which] = m] /\ clusterCentre' = clusterCentre /\ pc = "mean"
    BY <1>4 DEF Average, SumOf
  <2>3. m \in Int /\ which \in {"text", "query"}
    BY <2>1 DEF Between, Typed, Phase
  <2> HIDE DEF m
  <2>4. mean' \in [{"text", "query"} -> Int]
    BY <2>2, <2>3 DEF MeanInv
  <2>5. \A w : (Between(w) => /\ w \in Int
                              /\ \A low, high \in Int :
                                   (\A b \in Cluster : low <= clusterCentre'[b] /\ clusterCentre'[b] <= high) =>
                                     low * TotalWeight <= w /\ w <= high * TotalWeight)
    BY <2>2 DEF Between
  <2>6. CASE which = "text"
    <3>1. which' = "query" /\ pc' = "pass" /\ mean'["text"] = m
      BY <1>4, <2>2, <2>6 DEF Average, MeanInv
    <3>2. Between(mean["text"])'
      BY <2>1, <2>5, <3>1 DEF Between
    <3> QED
      BY <2>4, <3>1, <3>2 DEF MeanInv
  <2>7. CASE which = "query"
    <3>1. which' = "query" /\ pc' = "done" /\ mean'["text"] = mean["text"] /\ mean'["query"] = m
      BY <1>4, <2>2, <2>7 DEF Average, MeanInv
    <3>2. Between(mean["text"])
      BY <2>7 DEF MeanInv
    <3>3. Between(mean["text"])' /\ Between(mean["query"])'
      BY <2>1, <2>5, <3>1, <3>2 DEF Between
    <3> QED
      BY <2>4, <3>1, <3>3 DEF MeanInv
  <2> QED
    BY <2>3, <2>6, <2>7
<1>5. CASE UNCHANGED vars
  BY <1>2, <1>5 DEF vars
<1> QED
  BY <1>1, <1>3, <1>4, <1>5 DEF Next

LEMMA MaxDistance ==
  ASSUME Centres
  PROVE  \E low, high \in Int :
           /\ \A b \in Cluster : low <= clusterCentre[b] /\ clusterCentre[b] <= high
           /\ maxCentreDistance = high - low
           /\ low = high => \A a, b \in Cluster : clusterCentre[a] = clusterCentre[b]
           /\ (\A a, b \in Cluster : clusterCentre[a] = clusterCentre[b]) => low = high
           /\ low <= high
<1>1. \A b \in Cluster : clusterCentre[b] \in Int
  BY DEF Centres
<1>2. PICK a \in Cluster : \A b \in Cluster : clusterCentre[b] <= clusterCentre[a]
  BY <1>1, ClusterFinite, HighestOf
<1> DEFINE g == [b \in Cluster |-> -clusterCentre[b]]
<1>3. \A b \in Cluster : g[b] = -clusterCentre[b] /\ g[b] \in Int
  BY <1>1
<1>4. PICK e \in Cluster : \A b \in Cluster : g[b] <= g[e]
  <2> HIDE DEF g
  <2> QED
    BY <1>3, ClusterFinite, HighestOf
<1>5. \A b \in Cluster : clusterCentre[e] <= clusterCentre[b]
  BY <1>1, <1>3, <1>4
<1> HIDE DEF g
<1> DEFINE high == clusterCentre[a]   low == clusterCentre[e]
<1>6. high \in Int /\ low \in Int /\ low <= high
  BY <1>1, <1>2
<1>7. high - low \in Distances
  <2>1. euclideanDistance(clusterCentre[e], clusterCentre[a]) = high - low
    BY <1>6 DEF euclideanDistance
  <2> QED
    BY <2>1 DEF Distances
<1>8. \A r \in Distances : r \in Int /\ r <= high - low
  <2> SUFFICES ASSUME NEW b1 \in Cluster, NEW b2 \in Cluster
               PROVE  /\ euclideanDistance(clusterCentre[b1], clusterCentre[b2]) \in Int
                      /\ euclideanDistance(clusterCentre[b1], clusterCentre[b2]) <= high - low
    BY DEF Distances
  <2>1. /\ clusterCentre[b1] \in Int /\ clusterCentre[b2] \in Int
        /\ low <= clusterCentre[b1] /\ clusterCentre[b1] <= high
        /\ low <= clusterCentre[b2] /\ clusterCentre[b2] <= high
    BY <1>1, <1>2, <1>5
  <2> QED
    BY <1>6, <2>1 DEF euclideanDistance
<1>9. maxCentreDistance = high - low
  <2>1. \E m \in Distances : \A r \in Distances : r <= m
    BY <1>7, <1>8
  <2>2. maxCentreDistance \in Distances /\ \A r \in Distances : r <= maxCentreDistance
    BY <2>1 DEF maxCentreDistance
  <2>3. high - low <= maxCentreDistance /\ maxCentreDistance <= high - low /\ maxCentreDistance \in Int
    BY <1>7, <1>8, <2>2
  <2> QED
    BY <1>6, <2>3
<1>10. low = high => \A b \in Cluster : clusterCentre[b] = low
  BY <1>1, <1>2, <1>5, <1>6
<1> QED
  BY <1>2, <1>5, <1>6, <1>9, <1>10

LEMMA CostBounded ==
  ASSUME Typed, MeanInv
  PROVE  CostInUnit
<1> SUFFICES ASSUME pc = "done"
             PROVE  /\ calculateCost[1] <= calculateCost[2]
                    /\ calculateCost[2] = 0 <=> \A b, e \in Cluster : clusterCentre[b] = clusterCentre[e]
  BY DEF CostInUnit
<1> DEFINE t == mean["text"]   q == mean["query"]   w == TotalWeight   m == maxCentreDistance
<1>1. PICK low, high \in Int :
        /\ \A b \in Cluster : low <= clusterCentre[b] /\ clusterCentre[b] <= high
        /\ maxCentreDistance = high - low
        /\ low = high => \A a, b \in Cluster : clusterCentre[a] = clusterCentre[b]
        /\ (\A a, b \in Cluster : clusterCentre[a] = clusterCentre[b]) => low = high
        /\ low <= high
  BY MaxDistance DEF Typed
<1>2. Between(t) /\ Between(q)
  BY DEF MeanInv
<1>3. /\ t \in Int /\ q \in Int
      /\ low * w <= t /\ t <= high * w /\ low * w <= q /\ q <= high * w
  BY <1>1, <1>2 DEF Between
<1>4. w \in Nat /\ w > 0
  <2>1. N * N > 0 /\ N * N \in Nat
    BY Sizes
  <2> QED
    BY <2>1 DEF TotalWeight
<1>5. calculateCost[1] = euclideanDistance(t, q) /\ calculateCost[2] = w * m
  BY DEF calculateCost
<1> HIDE DEF t, q, w
<1>6. w * (high - low) = high * w - low * w /\ high * w \in Int /\ low * w \in Int
  BY <1>4
<1>7. euclideanDistance(t, q) <= high * w - low * w
  BY <1>3, <1>6 DEF euclideanDistance
<1>8. w * (high - low) = 0 <=> high = low
  BY <1>4
<1> QED
  BY <1>1, <1>5, <1>6, <1>7, <1>8

-----------------------------------------------------------------------------
(* Time warping.  A part of a sum of naturals is at most the whole.        *)
LEMMA SumPart ==
  ASSUME NEW A, IsFiniteSet(A), NEW B \in SUBSET A, NEW f, \A u \in A : f[u] \in Nat
  PROVE  SumOf(f, B) <= SumOf(f, A)
<1> DEFINE F == {s \in SUBSET A : B \subseteq s /\ ~(SumOf(f, B) <= SumOf(f, s))}
<1>1. ASSUME F # {} PROVE FALSE
  <2>1. \A s \in F : IsFiniteSet(s)
    BY FS_Subset
  <2>2. PICK s \in F : \A W \in F : ~(W \subseteq s /\ W # s)
    <3> HIDE DEF F
    <3> QED
      BY <1>1, <2>1, SmallestSet
  <2>3. s \in SUBSET A /\ IsFiniteSet(s) /\ B \subseteq s /\ ~(SumOf(f, B) <= SumOf(f, s))
    BY <2>1, <2>2
  <2>4. SumOf(f, s) \in Int
    <3>1. \A u \in s : f[u] \in Int
      BY <2>3
    <3> QED
      BY <2>3, <3>1, SumNext
  <2>5. PICK e \in s : e \notin B
    BY <2>3, <2>4
  <2> DEFINE W == s \ {e}
  <2>6. W \in SUBSET A /\ B \subseteq W /\ W \subseteq s /\ W # s /\ IsFiniteSet(W)
    BY <2>3, <2>5, FS_Subset
  <2>7. SumOf(f, s) = f[e] + SumOf(f, W)
    <3>1. \A u \in s : f[u] \in Int
      BY <2>3
    <3> QED
      BY <2>3, <2>5, <3>1, SumTake
  <2> HIDE DEF W
  <2>8. SumOf(f, B) <= SumOf(f, W)
    BY <2>2, <2>6
  <2>9. SumOf(f, W) \in Int /\ SumOf(f, B) \in Int /\ f[e] \in Nat
    <3>1. (\A u \in W : f[u] \in Int) /\ (\A u \in B : f[u] \in Int) /\ IsFiniteSet(B)
      BY <2>3, <2>6, FS_Subset
    <3> QED
      BY <2>3, <2>5, <2>6, <3>1, SumNext
  <2> QED
    BY <2>3, <2>7, <2>8, <2>9
<1>2. A \in F \/ SumOf(f, B) <= SumOf(f, A)
  OBVIOUS
<1> HIDE DEF F
<1> QED
  BY <1>1, <1>2

LEMMA LeastOf ==
  ASSUME NEW u \in Int, NEW v \in Int, NEW w \in Int
  PROVE  /\ S!D!Least(u, v, w) \in {u, v, w}
         /\ S!D!Least(u, v, w) <= u /\ S!D!Least(u, v, w) <= v /\ S!D!Least(u, v, w) <= w
<1> DEFINE A == {u, v, w}
<1>1. \E e \in A : \A f \in A : e <= f
  <2>1. CASE u <= v /\ u <= w
    BY <2>1
  <2>2. CASE v <= u /\ v <= w
    BY <2>2
  <2>3. CASE w <= u /\ w <= v
    BY <2>3
  <2> QED
    BY <2>1, <2>2, <2>3
<1>2. S!D!Least(u, v, w) = CHOOSE e \in A : \A f \in A : e <= f
  BY DEF S!D!Least, S!D!Min
<1>3. S!D!Least(u, v, w) \in A /\ \A f \in A : S!D!Least(u, v, w) <= f
  BY <1>1, <1>2
<1> QED
  BY <1>3

(* The table: its border, and what a cell holds that has been filled.      *)
Table(tab, dd, r, q) ==
  /\ r \in Nat \ {0} /\ q \in Nat \ {0}
  /\ \A e \in (1 .. r) \X (1 .. q) : dd[e] \in Nat
  /\ SumOf(dd, (1 .. r) \X (1 .. q)) < Infinity
  /\ tab \in [(0 .. r) \X (0 .. q) -> Nat]
  /\ tab[<<0, 0>>] = 0
  /\ \A a \in 1 .. r : tab[<<a, 0>>] = Infinity
  /\ \A b \in 1 .. q : tab[<<0, b>>] = Infinity

Fits(tab, dd, a, b) ==
  tab[<<a, b>>] = dd[<<a, b>>] + S!D!Least(tab[<<a-1, b>>], tab[<<a, b-1>>], tab[<<a-1, b-1>>])

Complete(tab, dd, r, q) == \A a \in 1 .. r, b \in 1 .. q : Fits(tab, dd, a, b)

(* The paths from the first cell to another.                               *)
Chain(T) == \A e, f \in T : (e[1] <= f[1] /\ e[2] <= f[2]) \/ (f[1] <= e[1] /\ f[2] <= e[2])

Before(T, e) == \E s \in {<<0, 1>>, <<1, 0>>, <<1, 1>>} : <<e[1] - s[1], e[2] - s[2]>> \in T

PathTo(T, a, b) ==
  /\ T \subseteq (1 .. a) \X (1 .. b)
  /\ <<1, 1>> \in T /\ <<a, b>> \in T
  /\ Chain(T)
  /\ \A e \in T \ {<<1, 1>>} : Before(T, e)

LEMMA BeforeIs ==
  ASSUME NEW T, NEW a \in Int, NEW b \in Int
  PROVE  Before(T, <<a, b>>) <=> <<a, b-1>> \in T \/ <<a-1, b>> \in T \/ <<a-1, b-1>> \in T
<1>1. a - 0 = a /\ b - 0 = b
  OBVIOUS
<1> QED
  BY <1>1 DEF Before

LEMMA PathShorter ==
  ASSUME NEW a \in Nat \ {0}, NEW b \in Nat \ {0}, NEW T, PathTo(T, a, b), <<a, b>> # <<1, 1>>
  PROVE  \E a2 \in {a, a-1}, b2 \in {b, b-1} :
           /\ <<a2, b2>> # <<a, b>> /\ a2 >= 1 /\ b2 >= 1
           /\ PathTo(T \ {<<a, b>>}, a2, b2)
<1> DEFINE R == T \ {<<a, b>>}
<1>1. \A e \in T : e = <<e[1], e[2]>> /\ e[1] \in 1 .. a /\ e[2] \in 1 .. b
  BY DEF PathTo
<1>2. <<1, 1>> \in R /\ Chain(R)
  BY DEF PathTo, Chain
<1>3. ASSUME NEW e \in R \ {<<1, 1>>} PROVE Before(R, e)
  <2>1. e \in T \ {<<1, 1>>} /\ e = <<e[1], e[2]>> /\ e[1] \in 1 .. a /\ e[2] \in 1 .. b
    BY <1>1
  <2> DEFINE p1 == e[1]   p2 == e[2]
  <2>2. Before(T, <<p1, p2>>)
    BY <2>1 DEF PathTo
  <2>3. p1 \in Int /\ p2 \in Int /\ p1 <= a /\ p2 <= b
    BY <2>1
  <2> HIDE DEF p1, p2
  <2>4. <<p1, p2-1>> # <<a, b>> /\ <<p1-1, p2>> # <<a, b>> /\ <<p1-1, p2-1>> # <<a, b>>
    BY <2>3
  <2>5. <<p1, p2-1>> \in R \/ <<p1-1, p2>> \in R \/ <<p1-1, p2-1>> \in R
    BY <2>2, <2>3, <2>4, BeforeIs
  <2>6. Before(R, <<p1, p2>>)
    BY <2>3, <2>5, BeforeIs
  <2> QED
    BY <2>1, <2>6 DEF p1, p2
<1>4. <<a, b-1>> \in T \/ <<a-1, b>> \in T \/ <<a-1, b-1>> \in T
  <2>1. Before(T, <<a, b>>)
    BY DEF PathTo
  <2> QED
    BY <2>1, BeforeIs
<1>5. \A e \in R, f \in R : (e[1] <= f[1] /\ e[2] <= f[2]) \/ (f[1] <= e[1] /\ f[2] <= e[2])
  BY <1>2 DEF Chain
<1>6. \A e \in R : e = <<e[1], e[2]>> /\ e[1] \in 1 .. a /\ e[2] \in 1 .. b /\ (e[1] # a \/ e[2] # b)
  BY <1>1
<1>7. CASE <<a-1, b>> \in T
  <2>1. <<a-1, b>> \in R /\ <<a-1, b>>[1] = a - 1 /\ <<a-1, b>>[2] = b /\ a - 1 >= 1
    BY <1>7, <1>1
  <2>2. ASSUME NEW e \in R PROVE e \in (1 .. a-1) \X (1 .. b)
    <3>1. (e[1] <= a-1 /\ e[2] <= b) \/ (a-1 <= e[1] /\ b <= e[2])
      BY <1>5, <2>1
    <3>2. e[1] \in 1 .. a /\ e[2] \in 1 .. b /\ (e[1] # a \/ e[2] # b)
      BY <1>6
    <3>3. e[1] \in 1 .. a-1
      BY <3>1, <3>2
    <3> QED
      BY <1>6, <3>2, <3>3
  <2>3. PathTo(R, a-1, b)
    BY <1>2, <1>3, <2>1, <2>2 DEF PathTo
  <2> QED
    BY <2>1, <2>3
<1>8. CASE <<a, b-1>> \in T
  <2>1. <<a, b-1>> \in R /\ <<a, b-1>>[1] = a /\ <<a, b-1>>[2] = b - 1 /\ b - 1 >= 1
    BY <1>8, <1>1
  <2>2. ASSUME NEW e \in R PROVE e \in (1 .. a) \X (1 .. b-1)
    <3>1. (e[1] <= a /\ e[2] <= b-1) \/ (a <= e[1] /\ b-1 <= e[2])
      BY <1>5, <2>1
    <3>2. e[1] \in 1 .. a /\ e[2] \in 1 .. b /\ (e[1] # a \/ e[2] # b)
      BY <1>6
    <3>3. e[2] \in 1 .. b-1
      BY <3>1, <3>2
    <3> QED
      BY <1>6, <3>2, <3>3
  <2>3. PathTo(R, a, b-1)
    BY <1>2, <1>3, <2>1, <2>2 DEF PathTo
  <2> QED
    BY <2>1, <2>3
<1>9. CASE <<a-1, b>> \notin T /\ <<a, b-1>> \notin T
  <2>0. <<a-1, b-1>> \in T
    BY <1>4, <1>9
  <2>1. <<a-1, b-1>> \in R /\ <<a-1, b-1>>[1] = a - 1 /\ <<a-1, b-1>>[2] = b - 1 /\ a - 1 >= 1 /\ b - 1 >= 1
    BY <2>0, <1>1
  <2>2. ASSUME NEW e \in R PROVE e \in (1 .. a-1) \X (1 .. b-1)
    <3>1. (e[1] <= a-1 /\ e[2] <= b-1) \/ (a-1 <= e[1] /\ b-1 <= e[2])
      BY <1>5, <2>1
    <3>2. e = <<e[1], e[2]>> /\ e[1] \in 1 .. a /\ e[2] \in 1 .. b /\ (e[1] # a \/ e[2] # b)
      BY <1>6
    <3>3. ~(e[1] = a /\ e[2] = b-1) /\ ~(e[1] = a-1 /\ e[2] = b)
      BY <1>9, <3>2
    <3>4. e[1] \in 1 .. a-1 /\ e[2] \in 1 .. b-1
      BY <3>1, <3>2, <3>3
    <3> QED
      BY <3>2, <3>4
  <2>3. PathTo(R, a-1, b-1)
    BY <1>2, <1>3, <2>1, <2>2 DEF PathTo
  <2> QED
    BY <2>1, <2>3
<1> QED
  BY <1>7, <1>8, <1>9

LEMMA NeighboursNat ==
  ASSUME NEW tab, NEW dd, NEW r, NEW q, Table(tab, dd, r, q), NEW a \in 1 .. r, NEW b \in 1 .. q
  PROVE  /\ tab[<<a-1, b>>] \in Nat /\ tab[<<a, b-1>>] \in Nat /\ tab[<<a-1, b-1>>] \in Nat
         /\ tab[<<a, b>>] \in Nat /\ dd[<<a, b>>] \in Nat
<1>1. /\ <<a-1, b>> \in (0 .. r) \X (0 .. q) /\ <<a, b-1>> \in (0 .. r) \X (0 .. q)
      /\ <<a-1, b-1>> \in (0 .. r) \X (0 .. q) /\ <<a, b>> \in (0 .. r) \X (0 .. q)
      /\ <<a, b>> \in (1 .. r) \X (1 .. q)
  BY DEF Table
<1> QED
  BY <1>1 DEF Table

LEMMA CellsFinite ==
  ASSUME NEW r \in Nat, NEW q \in Nat
  PROVE  IsFiniteSet((1 .. r) \X (1 .. q))
<1>1. IsFiniteSet(1 .. r) /\ IsFiniteSet(1 .. q)
  BY FS_Interval
<1> QED
  BY <1>1, FS_Product

(* No path to a cell costs less than the cell holds.                       *)
LEMMA LowerBound ==
  ASSUME NEW tab, NEW dd, NEW r, NEW q, Table(tab, dd, r, q), Complete(tab, dd, r, q),
         NEW a1 \in 1 .. r, NEW b1 \in 1 .. q, NEW T1, PathTo(T1, a1, b1)
  PROVE  tab[<<a1, b1>>] <= SumOf(dd, T1)
<1> DEFINE Cells == (1 .. r) \X (1 .. q)
           Cheaper(T) == \E a \in 1 .. r, b \in 1 .. q :
                           PathTo(T, a, b) /\ ~(tab[<<a, b>>] <= SumOf(dd, T))
           F == {T \in SUBSET Cells : Cheaper(T)}
<1>0. r \in Nat \ {0} /\ q \in Nat \ {0} /\ \A e \in Cells : dd[e] \in Nat
  BY DEF Table
<1>1. IsFiniteSet(Cells)
  BY <1>0, CellsFinite
<1>2. T1 \subseteq Cells
  BY <1>0 DEF PathTo
<1>3. ASSUME F # {} PROVE FALSE
  <2>1. \A T \in F : IsFiniteSet(T) /\ T \in SUBSET Cells /\ Cheaper(T)
    BY <1>1, FS_Subset
  <2>2. \A T \in SUBSET Cells : Cheaper(T) => T \in F
    OBVIOUS
  <2> HIDE DEF F, Cheaper
  <2>3. PICK T \in F : \A W \in F : ~(W \subseteq T /\ W # T)
    BY <1>3, <2>1, SmallestSet
  <2>4. PICK a \in 1 .. r, b \in 1 .. q : PathTo(T, a, b) /\ ~(tab[<<a, b>>] <= SumOf(dd, T))
    BY <2>1, <2>3 DEF Cheaper
  <2>5. T \in SUBSET Cells /\ IsFiniteSet(T) /\ <<a, b>> \in T
    BY <2>1, <2>3, <2>4 DEF PathTo
  <2> DEFINE R == T \ {<<a, b>>}
  <2>6. SumOf(dd, T) = dd[<<a, b>>] + SumOf(dd, R)
    <3>1. \A u \in T : dd[u] \in Int
      BY <1>0, <2>5
    <3> QED
      BY <2>5, <3>1, SumTake
  <2>7. /\ tab[<<a-1, b>>] \in Nat /\ tab[<<a, b-1>>] \in Nat /\ tab[<<a-1, b-1>>] \in Nat
        /\ tab[<<a, b>>] \in Nat /\ dd[<<a, b>>] \in Nat
    BY NeighboursNat
  <2>8. /\ tab[<<a, b>>] <= dd[<<a, b>>] + tab[<<a-1, b>>]
        /\ tab[<<a, b>>] <= dd[<<a, b>>] + tab[<<a, b-1>>]
        /\ tab[<<a, b>>] <= dd[<<a, b>>] + tab[<<a-1, b-1>>]
    <3> DEFINE u == tab[<<a-1, b>>]   v == tab[<<a, b-1>>]   w == tab[<<a-1, b-1>>]
               least == S!D!Least(u, v, w)
    <3>1. tab[<<a, b>>] = dd[<<a, b>>] + least
      BY DEF Complete, Fits
    <3>2. u \in Int /\ v \in Int /\ w \in Int
      BY <2>7
    <3> HIDE DEF u, v, w
    <3>3. least \in {u, v, w} /\ least <= u /\ least <= v /\ least <= w
      BY <3>2, LeastOf
    <3> HIDE DEF least
    <3>4. least \in Int
      BY <3>2, <3>3
    <3>5. /\ tab[<<a, b>>] <= dd[<<a, b>>] + u /\ tab[<<a, b>>] <= dd[<<a, b>>] + v
          /\ tab[<<a, b>>] <= dd[<<a, b>>] + w
      BY <2>7, <3>1, <3>2, <3>3, <3>4
    <3> QED
      BY <3>5 DEF u, v, w
  <2>9. SumOf(dd, R) \in Int /\ R \in SUBSET Cells
    <3>1. IsFiniteSet(R) /\ R \in SUBSET Cells
      BY <2>5, FS_Subset
    <3>2. \A u \in R : dd[u] \in Int
      BY <1>0, <2>5
    <3> QED
      BY <3>1, <3>2, SumNext
  <2>10. CASE <<a, b>> = <<1, 1>>
    <3>1. a = 1 /\ b = 1
      BY <2>10
    <3>2. T = {<<1, 1>>}
      <4>1. T \subseteq (1 .. 1) \X (1 .. 1) /\ <<1, 1>> \in T
        BY <2>4, <3>1 DEF PathTo
      <4>2. \A e \in (1 .. 1) \X (1 .. 1) : e = <<1, 1>>
        OBVIOUS
      <4> QED
        BY <4>1, <4>2
    <3>3. R = {}
      BY <2>10, <3>2
    <3>4. SumOf(dd, R) = 0
      <4>1. IsFiniteSet({}) /\ \A u \in {} : dd[u] \in Int
        BY FS_EmptySet
      <4> QED
        BY <4>1, <3>3, SumNext
    <3>5. tab[<<a-1, b-1>>] = 0
      BY <3>1 DEF Table
    <3> QED
      BY <2>4, <2>6, <2>7, <2>8, <3>4, <3>5
  <2>11. CASE <<a, b>> # <<1, 1>>
    <3>0. a \in Nat \ {0} /\ b \in Nat \ {0}
      BY <1>0
    <3>1. PICK a2 \in {a, a-1}, b2 \in {b, b-1} :
            /\ <<a2, b2>> # <<a, b>> /\ a2 >= 1 /\ b2 >= 1
            /\ PathTo(R, a2, b2)
      BY <2>4, <2>11, <3>0, PathShorter
    <3>2. a2 \in 1 .. r /\ b2 \in 1 .. q
      BY <1>0, <3>1
    <3>3. tab[<<a2, b2>>] <= SumOf(dd, R)
      <4>1. ~Cheaper(R)
        BY <2>2, <2>3, <2>5, <2>9
      <4> QED
        BY <3>1, <3>2, <4>1 DEF Cheaper
    <3>4. tab[<<a2, b2>>] \in Nat /\ tab[<<a, b>>] <= dd[<<a, b>>] + tab[<<a2, b2>>]
      BY <2>7, <2>8, <3>1
    <3> QED
      BY <2>4, <2>6, <2>7, <2>9, <3>3, <3>4
  <2> QED
    BY <2>10, <2>11
<1>4. Cheaper(T1) => FALSE
  BY <1>2, <1>3
<1> QED
  BY <1>4

(* Along the border no cell holds more than Infinity.                      *)
LEMMA StraightPath ==
  ASSUME NEW r \in Nat \ {0}, NEW q \in Nat \ {0}
  PROVE  /\ PathTo((1 .. r) \X {1}, r, 1)
         /\ PathTo({1} \X (1 .. q), 1, q)
<1>1. PathTo((1 .. r) \X {1}, r, 1)
  <2> DEFINE T == (1 .. r) \X {1}
  <2>1. \A e \in T : e = <<e[1], e[2]>> /\ e[1] \in 1 .. r /\ e[2] = 1
    OBVIOUS
  <2>2. \A k \in 1 .. r : <<k, 1>> \in T
    OBVIOUS
  <2>3. T \subseteq (1 .. r) \X (1 .. 1) /\ <<1, 1>> \in T /\ <<r, 1>> \in T
    OBVIOUS
  <2> HIDE DEF T
  <2>4. Chain(T)
    BY <2>1 DEF Chain
  <2>5. ASSUME NEW e \in T \ {<<1, 1>>} PROVE Before(T, e)
    <3> DEFINE p == e[1]
    <3>1. e = <<p, 1>> /\ p \in 1 .. r /\ p # 1
      BY <2>1, <2>5
    <3> HIDE DEF p
    <3>2. p - 1 \in 1 .. r /\ p \in Int
      BY <3>1
    <3>3. <<p - 1, 1>> \in T
      BY <2>2, <3>2
    <3>4. Before(T, <<p, 1>>)
      <4>1. 1 \in Int
        OBVIOUS
      <4> QED
        BY <3>2, <3>3, <4>1, BeforeIs
    <3> QED
      BY <3>1, <3>4
  <2>6. PathTo(T, r, 1)
    BY <2>3, <2>4, <2>5 DEF PathTo
  <2> QED
    BY <2>6 DEF T
<1>2. PathTo({1} \X (1 .. q), 1, q)
  <2> DEFINE T == {1} \X (1 .. q)
  <2>1. \A e \in T : e = <<e[1], e[2]>> /\ e[2] \in 1 .. q /\ e[1] = 1
    OBVIOUS
  <2>2. \A k \in 1 .. q : <<1, k>> \in T
    OBVIOUS
  <2>3. T \subseteq (1 .. 1) \X (1 .. q) /\ <<1, 1>> \in T /\ <<1, q>> \in T
    OBVIOUS
  <2> HIDE DEF T
  <2>4. Chain(T)
    BY <2>1 DEF Chain
  <2>5. ASSUME NEW e \in T \ {<<1, 1>>} PROVE Before(T, e)
    <3> DEFINE p == e[2]
    <3>1. e = <<1, p>> /\ p \in 1 .. q /\ p # 1
      BY <2>1, <2>5
    <3> HIDE DEF p
    <3>2. p - 1 \in 1 .. q /\ p \in Int
      BY <3>1
    <3>3. <<1, p - 1>> \in T
      BY <2>2, <3>2
    <3>4. Before(T, <<1, p>>)
      <4>1. 1 \in Int
        OBVIOUS
      <4> QED
        BY <3>2, <3>3, <4>1, BeforeIs
    <3> QED
      BY <3>1, <3>4
  <2>6. PathTo(T, 1, q)
    BY <2>3, <2>4, <2>5 DEF PathTo
  <2> QED
    BY <2>6 DEF T
<1> QED
  BY <1>1, <1>2

LEMMA BorderBound ==
  ASSUME NEW tab, NEW dd, NEW r, NEW q, Table(tab, dd, r, q), Complete(tab, dd, r, q)
  PROVE  /\ \A a \in 1 .. r : tab[<<a, 1>>] <= Infinity
         /\ \A b \in 1 .. q : tab[<<1, b>>] <= Infinity
<1> DEFINE Cells == (1 .. r) \X (1 .. q)
<1>0. r \in Nat \ {0} /\ q \in Nat \ {0} /\ (\A e \in Cells : dd[e] \in Nat) /\ SumOf(dd, Cells) < Infinity
  BY DEF Table
<1>1. IsFiniteSet(Cells) /\ Infinity \in Nat
  BY <1>0, CellsFinite, MatchingAssumption DEF S!Inputs, S!D!Inputs
<1>2. SumOf(dd, Cells) \in Int
  <2>1. \A e \in Cells : dd[e] \in Int
    BY <1>0
  <2> QED
    BY <1>1, <2>1, SumNext
<1>3. ASSUME NEW a \in 1 .. r, NEW b \in 1 .. q, NEW T, PathTo(T, a, b)
      PROVE  tab[<<a, b>>] <= Infinity
  <2>1. T \in SUBSET Cells /\ IsFiniteSet(T)
    <3>1. T \in SUBSET Cells
      BY <1>0, <1>3 DEF PathTo
    <3> QED
      BY <1>1, <3>1, FS_Subset
  <2>2. SumOf(dd, T) <= SumOf(dd, Cells)
    BY <1>0, <1>1, <2>1, SumPart
  <2>3. tab[<<a, b>>] <= SumOf(dd, T)
    BY <1>3, LowerBound
  <2>4. SumOf(dd, T) \in Int
    <3>1. \A e \in T : dd[e] \in Int
      BY <1>0, <2>1
    <3> QED
      BY <2>1, <3>1, SumNext
  <2>5. tab[<<a, b>>] \in Nat
    BY NeighboursNat
  <2> QED
    BY <1>0, <1>1, <1>2, <2>2, <2>3, <2>4, <2>5
<1>4. ASSUME NEW a \in 1 .. r PROVE tab[<<a, 1>>] <= Infinity
  <2>1. a \in Nat \ {0} /\ 1 \in 1 .. q
    BY <1>0
  <2>2. PathTo((1 .. a) \X {1}, a, 1)
    BY <2>1, StraightPath
  <2> QED
    BY <1>3, <2>1, <2>2
<1>5. ASSUME NEW b \in 1 .. q PROVE tab[<<1, b>>] <= Infinity
  <2>1. b \in Nat \ {0} /\ 1 \in 1 .. r
    BY <1>0
  <2>2. PathTo({1} \X (1 .. b), 1, b)
    BY <2>1, StraightPath
  <2> QED
    BY <1>3, <2>1, <2>2
<1> QED
  BY <1>4, <1>5

(* So a cell of the border holds what the one before it does, and its own. *)
LEMMA OnBorder ==
  ASSUME NEW tab, NEW dd, NEW r, NEW q, Table(tab, dd, r, q), Complete(tab, dd, r, q)
  PROVE  /\ tab[<<1, 1>>] = dd[<<1, 1>>]
         /\ \A a \in 2 .. r : tab[<<a, 1>>] = dd[<<a, 1>>] + tab[<<a-1, 1>>]
         /\ \A b \in 2 .. q : tab[<<1, b>>] = dd[<<1, b>>] + tab[<<1, b-1>>]
<1>0. /\ r \in Nat \ {0} /\ q \in Nat \ {0} /\ Infinity \in Nat /\ 1 \in 1 .. r /\ 1 \in 1 .. q
      /\ tab[<<0, 0>>] = 0
      /\ \A a \in 1 .. r : tab[<<a, 0>>] = Infinity
      /\ \A b \in 1 .. q : tab[<<0, b>>] = Infinity
  BY MatchingAssumption DEF Table, S!Inputs, S!D!Inputs
<1>1. tab[<<1, 1>>] = dd[<<1, 1>>]
  <2>1. tab[<<1, 1>>] = dd[<<1, 1>>] + S!D!Least(tab[<<0, 1>>], tab[<<1, 0>>], tab[<<0, 0>>])
    <3>1. 1 - 1 = 0
      OBVIOUS
    <3> QED
      BY <1>0, <3>1 DEF Complete, Fits
  <2>2. S!D!Least(Infinity, Infinity, 0) = 0
    <3> DEFINE least == S!D!Least(Infinity, Infinity, 0)
    <3>1. least \in {Infinity, 0} /\ least <= 0
      BY <1>0, LeastOf
    <3> HIDE DEF least
    <3>2. least = 0
      BY <1>0, <3>1
    <3> QED
      BY <3>2 DEF least
  <2>3. dd[<<1, 1>>] \in Nat
    BY <1>0, NeighboursNat
  <2> QED
    BY <1>0, <2>1, <2>2, <2>3
<1>2. ASSUME NEW u \in Nat, u <= Infinity
      PROVE  S!D!Least(u, Infinity, Infinity) = u /\ S!D!Least(Infinity, u, Infinity) = u
  <2> DEFINE one == S!D!Least(u, Infinity, Infinity)   two == S!D!Least(Infinity, u, Infinity)
  <2>1. one \in {u, Infinity} /\ one <= u /\ two \in {u, Infinity} /\ two <= u
    BY <1>0, LeastOf
  <2> HIDE DEF one, two
  <2>2. one = u /\ two = u
    BY <1>0, <1>2, <2>1
  <2> QED
    BY <2>2 DEF one, two
<1>3. ASSUME NEW a \in 2 .. r PROVE tab[<<a, 1>>] = dd[<<a, 1>>] + tab[<<a-1, 1>>]
  <2>1. a \in 1 .. r /\ a - 1 \in 1 .. r /\ 1 - 1 = 0
    BY <1>0
  <2>2. tab[<<a, 1>>] = dd[<<a, 1>>] + S!D!Least(tab[<<a-1, 1>>], tab[<<a, 0>>], tab[<<a-1, 0>>])
    BY <1>0, <2>1 DEF Complete, Fits
  <2>3. tab[<<a, 0>>] = Infinity /\ tab[<<a-1, 0>>] = Infinity
    BY <1>0, <2>1
  <2>4. tab[<<a-1, 1>>] \in Nat /\ tab[<<a-1, 1>>] <= Infinity
    BY <1>0, <2>1, NeighboursNat, BorderBound
  <2>5. S!D!Least(tab[<<a-1, 1>>], Infinity, Infinity) = tab[<<a-1, 1>>]
    BY <1>2, <2>4
  <2> QED
    BY <2>2, <2>3, <2>5
<1>4. ASSUME NEW b \in 2 .. q PROVE tab[<<1, b>>] = dd[<<1, b>>] + tab[<<1, b-1>>]
  <2>1. b \in 1 .. q /\ b - 1 \in 1 .. q /\ 1 - 1 = 0
    BY <1>0
  <2>2. tab[<<1, b>>] = dd[<<1, b>>] + S!D!Least(tab[<<0, b>>], tab[<<1, b-1>>], tab[<<0, b-1>>])
    BY <1>0, <2>1 DEF Complete, Fits
  <2>3. tab[<<0, b>>] = Infinity /\ tab[<<0, b-1>>] = Infinity
    BY <1>0, <2>1
  <2>4. tab[<<1, b-1>>] \in Nat /\ tab[<<1, b-1>>] <= Infinity
    BY <1>0, <2>1, NeighboursNat, BorderBound
  <2>5. S!D!Least(Infinity, tab[<<1, b-1>>], Infinity) = tab[<<1, b-1>>]
    BY <1>2, <2>4
  <2> QED
    BY <2>2, <2>3, <2>5
<1> QED
  BY <1>1, <1>3, <1>4

(* The way back from the last cell.  Before it has left the table, the     *)
(* cells walked over cost what the last holds more than the one reached.   *)
Trail(T, tab, dd, r, q, a, b) ==
  /\ T \subseteq (1 .. r) \X (1 .. q) /\ <<r, q>> \in T /\ Chain(T)
  /\ <<a, b>> \in T /\ a \in 1 .. r /\ b \in 1 .. q
  /\ \A e \in T : a <= e[1] /\ b <= e[2]
  /\ \A e \in T \ {<<a, b>>} : Before(T, e)
  /\ SumOf(dd, T) = tab[<<r, q>>] - tab[<<a, b>>] + dd[<<a, b>>]

Arrived(T, tab, dd, r, q) == PathTo(T, r, q) /\ SumOf(dd, T) = tab[<<r, q>>]

LEMMA TrailStarts ==
  ASSUME NEW tab, NEW dd, NEW r, NEW q, Table(tab, dd, r, q)
  PROVE  Trail({<<r, q>>}, tab, dd, r, q, r, q)
<1>1. r \in 1 .. r /\ q \in 1 .. q /\ r \in Int /\ q \in Int
  BY DEF Table
<1>2. tab[<<r, q>>] \in Nat /\ dd[<<r, q>>] \in Nat
  BY <1>1, NeighboursNat
<1>3. SumOf(dd, {<<r, q>>}) = dd[<<r, q>>]
  <2>0. IsFiniteSet({<<r, q>>})
    BY FS_Singleton
  <2>1. IsFiniteSet({<<r, q>>}) /\ \A u \in {<<r, q>>} : dd[u] \in Int
    BY <1>2, <2>0
  <2>2. SumOf(dd, {<<r, q>>}) = dd[<<r, q>>] + SumOf(dd, {<<r, q>>} \ {<<r, q>>})
    BY <2>1, SumTake
  <2>3. IsFiniteSet({}) /\ \A u \in {} : dd[u] \in Int
    BY FS_EmptySet
  <2>4. SumOf(dd, {}) = 0
    BY <2>3, SumNext
  <2>5. {<<r, q>>} \ {<<r, q>>} = {}
    OBVIOUS
  <2> QED
    BY <1>2, <2>2, <2>4, <2>5
<1>4. Chain({<<r, q>>})
  BY <1>1 DEF Chain
<1> QED
  BY <1>1, <1>2, <1>3, <1>4 DEF Trail

LEMMA TrailGoesOn ==
  ASSUME NEW tab, NEW dd, NEW r, NEW q, Table(tab, dd, r, q), NEW a, NEW b, NEW T,
         Trail(T, tab, dd, r, q, a, b),
         NEW a2, NEW b2, a2 \in 1 .. r, b2 \in 1 .. q,
         (a2 = a /\ b2 = b-1) \/ (a2 = a-1 /\ b2 = b) \/ (a2 = a-1 /\ b2 = b-1),
         tab[<<a, b>>] = dd[<<a, b>>] + tab[<<a2, b2>>]
  PROVE  Trail(T \cup {<<a2, b2>>}, tab, dd, r, q, a2, b2)
<1> DEFINE U == T \cup {<<a2, b2>>}
<1>1. /\ a \in 1 .. r /\ b \in 1 .. q /\ r \in Nat \ {0} /\ q \in Nat \ {0}
      /\ T \subseteq (1 .. r) \X (1 .. q) /\ <<a, b>> \in T
  BY DEF Trail, Table
<1>2. a \in Int /\ b \in Int /\ a2 \in Int /\ b2 \in Int /\ a2 <= a /\ b2 <= b /\ (a2 < a \/ b2 < b)
  BY <1>1
<1>3. \A e \in T : e[1] \in Int /\ e[2] \in Int /\ a <= e[1] /\ b <= e[2]
  BY <1>1 DEF Trail
<1>4. <<a2, b2>> \notin T /\ <<a2, b2>>[1] = a2 /\ <<a2, b2>>[2] = b2
  <2>1. ASSUME <<a2, b2>> \in T PROVE FALSE
    <3>1. a <= <<a2, b2>>[1] /\ b <= <<a2, b2>>[2]
      BY <1>3, <2>1
    <3> QED
      BY <1>2, <3>1
  <2> QED
    BY <2>1
<1>5. U \subseteq (1 .. r) \X (1 .. q) /\ <<r, q>> \in U /\ <<a2, b2>> \in U
  BY <1>1 DEF Trail
<1>6. \A e \in U : a2 <= e[1] /\ b2 <= e[2]
  <2>1. \A e \in T : a2 <= e[1] /\ b2 <= e[2]
    BY <1>2, <1>3
  <2> QED
    BY <1>2, <1>4, <2>1
<1>7. Chain(U)
  <2> SUFFICES ASSUME NEW e \in U, NEW f \in U
               PROVE  (e[1] <= f[1] /\ e[2] <= f[2]) \/ (f[1] <= e[1] /\ f[2] <= e[2])
    BY DEF Chain
  <2>1. CASE e \in T /\ f \in T
    BY <2>1 DEF Trail, Chain
  <2>2. CASE e = <<a2, b2>>
    BY <1>4, <1>6, <2>2
  <2>3. CASE f = <<a2, b2>>
    BY <1>4, <1>6, <2>3
  <2> QED
    BY <2>1, <2>2, <2>3
<1>8. \A e \in U \ {<<a2, b2>>} : Before(U, e)
  <2> SUFFICES ASSUME NEW e \in T PROVE Before(U, e)
    OBVIOUS
  <2>1. CASE e = <<a, b>>
    <3>1. <<a, b-1>> \in U \/ <<a-1, b>> \in U \/ <<a-1, b-1>> \in U
      BY <1>5
    <3>2. Before(U, <<a, b>>)
      BY <1>2, <3>1, BeforeIs
    <3> QED
      BY <2>1, <3>2
  <2>2. CASE e # <<a, b>>
    <3>1. Before(T, e)
      BY <2>2 DEF Trail
    <3> QED
      BY <3>1 DEF Before
  <2> QED
    BY <2>1, <2>2
<1>9. SumOf(dd, U) = SumOf(dd, T) + dd[<<a2, b2>>]
  <2>1. IsFiniteSet((1 .. r) \X (1 .. q))
    BY <1>1, CellsFinite
  <2>2. IsFiniteSet(T)
    BY <1>1, <2>1, FS_Subset
  <2>3. \A u \in U : dd[u] \in Int
    BY <1>5 DEF Table
  <2>4. IsFiniteSet(U) /\ <<a2, b2>> \in U /\ U \ {<<a2, b2>>} = T
    <3>1. IsFiniteSet(T \cup {<<a2, b2>>})
      BY <2>2, FS_AddElement
    <3> QED
      BY <1>4, <3>1
  <2> HIDE DEF U
  <2>5. SumOf(dd, U) = dd[<<a2, b2>>] + SumOf(dd, U \ {<<a2, b2>>})
    BY <2>3, <2>4, SumTake
  <2>6. SumOf(dd, T) \in Int /\ dd[<<a2, b2>>] \in Int
    <3>1. \A u \in T : dd[u] \in Int
      BY <2>3, <2>4
    <3>2. SumOf(dd, T) \in Int
      BY ONLY <2>2, <3>1, SumNext
    <3>3. dd[<<a2, b2>>] \in Int
      BY <2>3, <2>4
    <3> QED
      BY <3>2, <3>3
  <2>7. SumOf(dd, U) = dd[<<a2, b2>>] + SumOf(dd, T)
    BY <2>4, <2>5
  <2> QED
    BY <2>6, <2>7
<1>10. SumOf(dd, T) = tab[<<r, q>>] - tab[<<a, b>>] + dd[<<a, b>>]
  BY DEF Trail
<1>11. /\ tab[<<r, q>>] \in Nat /\ tab[<<a, b>>] \in Nat /\ dd[<<a, b>>] \in Nat
       /\ tab[<<a2, b2>>] \in Nat /\ dd[<<a2, b2>>] \in Nat
  <2>1. r \in 1 .. r /\ q \in 1 .. q
    BY <1>1
  <2> QED
    BY <1>1, <2>1, NeighboursNat
<1> HIDE DEF U
<1>12. SumOf(dd, U) = tab[<<r, q>>] - tab[<<a2, b2>>] + dd[<<a2, b2>>]
  BY <1>9, <1>10, <1>11
<1>13. Trail(U, tab, dd, r, q, a2, b2)
  BY <1>5, <1>6, <1>7, <1>8, <1>12 DEF Trail
<1> QED
  BY <1>13 DEF U

LEMMA TrailEnds ==
  ASSUME NEW tab, NEW dd, NEW r, NEW q, Table(tab, dd, r, q), Complete(tab, dd, r, q), NEW T,
         Trail(T, tab, dd, r, q, 1, 1)
  PROVE  Arrived(T, tab, dd, r, q)
<1>1. tab[<<1, 1>>] = dd[<<1, 1>>]
  BY OnBorder
<1>2. tab[<<r, q>>] \in Nat /\ dd[<<1, 1>>] \in Nat
  <2>1. r \in 1 .. r /\ q \in 1 .. q /\ 1 \in 1 .. r /\ 1 \in 1 .. q
    BY DEF Table
  <2> QED
    BY <2>1, NeighboursNat
<1>3. SumOf(dd, T) = tab[<<r, q>>]
  BY <1>1, <1>2 DEF Trail
<1> QED
  BY <1>3 DEF Trail, Arrived, PathTo

(* What is filled in fits, and goes on to fit.                             *)
FillIn(tab, dd, a, b) ==
  [tab EXCEPT ![<<a, b>>] =
     dd[<<a, b>>] + S!D!Least(tab[<<a-1, b>>], tab[<<a, b-1>>], tab[<<a-1, b-1>>])]

LEMMA Filled ==
  ASSUME NEW tab, NEW dd, NEW r, NEW q, Table(tab, dd, r, q), NEW a \in 1 .. r, NEW b \in 1 .. q,
         NEW tab2, tab2 = FillIn(tab, dd, a, b)
  PROVE  /\ Table(tab2, dd, r, q)
         /\ Fits(tab2, dd, a, b)
         /\ \A a1 \in 1 .. r, b1 \in 1 .. q :
              (Fits(tab, dd, a1, b1) /\ (a1 < a \/ (a1 = a /\ b1 < b))) => Fits(tab2, dd, a1, b1)
<1> DEFINE fill == dd[<<a, b>>] + S!D!Least(tab[<<a-1, b>>], tab[<<a, b-1>>], tab[<<a-1, b-1>>])
<1>1. fill \in Nat
  <2>1. /\ tab[<<a-1, b>>] \in Nat /\ tab[<<a, b-1>>] \in Nat /\ tab[<<a-1, b-1>>] \in Nat
        /\ dd[<<a, b>>] \in Nat
    BY NeighboursNat
  <2> DEFINE u == tab[<<a-1, b>>]   v == tab[<<a, b-1>>]   w == tab[<<a-1, b-1>>]
             least == S!D!Least(u, v, w)
  <2>2. u \in Nat /\ v \in Nat /\ w \in Nat
    BY <2>1
  <2> HIDE DEF u, v, w
  <2>3. least \in {u, v, w}
    BY <2>2, LeastOf
  <2> HIDE DEF least
  <2>4. dd[<<a, b>>] + least \in Nat
    BY <2>1, <2>2, <2>3
  <2> QED
    BY <2>4 DEF u, v, w, least
<1>2. /\ a \in Int /\ b \in Int /\ a >= 1 /\ b >= 1 /\ r \in Nat /\ q \in Nat
      /\ tab \in [(0 .. r) \X (0 .. q) -> Nat] /\ <<a, b>> \in (0 .. r) \X (0 .. q)
  BY DEF Table
<1>3. tab2 = [tab EXCEPT ![<<a, b>>] = fill]
  BY DEF FillIn
<1> HIDE DEF fill
<1>4. tab2 \in [(0 .. r) \X (0 .. q) -> Nat] /\ tab2[<<a, b>>] = fill
  BY <1>1, <1>2, <1>3
<1>5. \A e \in (0 .. r) \X (0 .. q) : e # <<a, b>> => tab2[e] = tab[e]
  BY <1>2, <1>3
<1>6. \A a1 \in 0 .. r, b1 \in 0 .. q : (a1 # a \/ b1 # b) => tab2[<<a1, b1>>] = tab[<<a1, b1>>]
  BY <1>5
<1>7. Table(tab2, dd, r, q)
  <2>1. tab2[<<0, 0>>] = tab[<<0, 0>>]
    BY <1>2, <1>6
  <2>2. \A a1 \in 1 .. r : tab2[<<a1, 0>>] = tab[<<a1, 0>>]
    BY <1>2, <1>6
  <2>3. \A b1 \in 1 .. q : tab2[<<0, b1>>] = tab[<<0, b1>>]
    BY <1>2, <1>6
  <2> QED
    BY <1>4, <2>1, <2>2, <2>3 DEF Table
<1>8. Fits(tab2, dd, a, b)
  <2>1. a - 1 \in 0 .. r /\ b - 1 \in 0 .. q /\ a \in 0 .. r /\ b \in 0 .. q /\ a - 1 # a /\ b - 1 # b
    BY <1>2
  <2>2. /\ tab2[<<a-1, b>>] = tab[<<a-1, b>>] /\ tab2[<<a, b-1>>] = tab[<<a, b-1>>]
        /\ tab2[<<a-1, b-1>>] = tab[<<a-1, b-1>>]
    BY <1>6, <2>1
  <2> QED
    BY <1>4, <2>2 DEF Fits, fill
<1>9. ASSUME NEW a1 \in 1 .. r, NEW b1 \in 1 .. q, Fits(tab, dd, a1, b1), a1 < a \/ (a1 = a /\ b1 < b)
      PROVE  Fits(tab2, dd, a1, b1)
  <2>1. a1 - 1 \in 0 .. r /\ b1 - 1 \in 0 .. q /\ a1 \in 0 .. r /\ b1 \in 0 .. q
    BY <1>2
  <2>2. (a1 - 1 # a) /\ (a1 # a \/ (b1 # b /\ b1 - 1 # b))
    BY <1>2, <1>9
  <2>3. tab2[<<a1-1, b1>>] = tab[<<a1-1, b1>>] /\ tab2[<<a1-1, b1-1>>] = tab[<<a1-1, b1-1>>]
    BY <1>6, <2>1, <2>2
  <2>4. tab2[<<a1, b1>>] = tab[<<a1, b1>>] /\ tab2[<<a1, b1-1>>] = tab[<<a1, b1-1>>]
    BY <1>6, <2>1, <2>2
  <2> QED
    BY <1>9, <2>3, <2>4 DEF Fits
<1> QED
  BY <1>7, <1>8, <1>9

LEMMA LeastSwapped ==
  ASSUME NEW u \in Int, NEW v \in Int, NEW w \in Int
  PROVE  S!D!Least(u, v, w) = S!D!Least(v, u, w)
<1>1. {u, v, w} = {v, u, w}
  OBVIOUS
<1> QED
  BY <1>1 DEF S!D!Least

LEMMA SameSum ==
  ASSUME NEW f, NEW A
  PROVE  S!D!SumFunctionOnSet(f, A) = SumOf(f, A)
<1> QED
  BY DEF SumOf, S!D!SumFunctionOnSet, S!D!FoldFunctionOnSet, S!D!MapThenFoldSet,
         SumFunctionOnSet, FoldFunctionOnSet, MapThenFoldSet

LEMMA SameLeast ==
  ASSUME NEW A, NEW e \in A, e \in Int, \A f \in A : f \in Int /\ e <= f
  PROVE  S!D!Min(A) = e
<1>1. S!D!Min(A) = CHOOSE u \in A : \A v \in A : u <= v
  BY DEF S!D!Min
<1>2. S!D!Min(A) \in A /\ \A v \in A : S!D!Min(A) <= v
  BY <1>1
<1>3. S!D!Min(A) <= e /\ e <= S!D!Min(A) /\ S!D!Min(A) \in Int
  BY <1>2
<1> QED
  BY <1>3

(* The invariant of a call: the cells filled so far fit; after that the    *)
(* trail leads from the last cell to the one reached, or the path is found *)
(* already.  The path has a length just if neither signal has one value.   *)
Filling ==
  /\ si \in 1 .. n1 + 1 /\ sj \in 1 .. n2 /\ (si = n1 + 1 => sj = 1)
  /\ \A a \in 1 .. n1, b \in 1 .. n2 : (a < si \/ (a = si /\ b < sj)) => Fits(DTW, d, a, b)
  /\ K = 0

Returning ==
  /\ Complete(DTW, d, n1, n2)
  /\ sj \in 0 .. n1 /\ si \in 0 .. n2
  /\ (si > 0 /\ sj > 0) => Trail(visited, DTW, d, n1, n2, sj, si)
  /\ (si = 0 \/ sj = 0) => Arrived(visited, DTW, d, n1, n2)
  /\ K \in Nat
  /\ K > 0 => n1 > 1 /\ n2 > 1
  /\ (n1 > 1 /\ n2 > 1) => K > 0 \/ (si = n2 /\ sj = n1)

WarpInv ==
  /\ dtw \in {"idle", "cell", "path", "done"}
  /\ dtw # "idle" => Table(DTW, d, n1, n2)
  /\ dtw = "cell" => Filling
  /\ dtw \in {"path", "done"} => Returning
  /\ dtw = "done" => si = 0 \/ sj = 0

LEMMA WarpCalled ==
  ASSUME NEW a \in Nat \ {0}, NEW b \in Nat \ {0}, S!D!dTWDistance(a, b)
  PROVE  WarpInv'
<1>1. /\ dtw' = "cell" /\ n1' = a /\ n2' = b /\ si' = 1 /\ sj' = 1 /\ K' = 0
      /\ d' \in ValueDistances /\ DOMAIN d' = (1 .. a) \X (1 .. b)
      /\ DTW' = [e \in (0 .. a) \X (0 .. b) |-> IF e = <<0, 0>> THEN 0 ELSE Infinity]
  BY DEF S!D!dTWDistance
<1> DEFINE m == d'   tab == DTW'   Cells == (1 .. a) \X (1 .. b)
<1>2. /\ Infinity \in Nat /\ (\A e \in DOMAIN m : m[e] \in Nat)
      /\ S!D!SumFunctionOnSet(m, DOMAIN m) < Infinity
  BY <1>1, MatchingAssumption DEF S!Inputs, S!D!Inputs
<1>3. m \in ValueDistances /\ DOMAIN m = Cells
  BY <1>1
<1>4. /\ tab = [e \in (0 .. a) \X (0 .. b) |-> IF e = <<0, 0>> THEN 0 ELSE Infinity]
  BY <1>1
<1>5. Table(tab, m, a, b)
  <2> HIDE DEF m, tab
  <2>1. SumOf(m, Cells) < Infinity /\ \A e \in Cells : m[e] \in Nat
    <3>1. S!D!SumFunctionOnSet(m, Cells) < Infinity
      BY <1>2, <1>3
    <3>2. S!D!SumFunctionOnSet(m, Cells) = SumOf(m, Cells)
      BY SameSum
    <3>3. SumOf(m, Cells) < Infinity
      BY <3>1, <3>2
    <3> QED
      BY <1>2, <1>3, <3>3
  <2>2. \A e \in (0 .. a) \X (0 .. b) : tab[e] = IF e = <<0, 0>> THEN 0 ELSE Infinity
    BY <1>4
  <2>3. tab \in [(0 .. a) \X (0 .. b) -> Nat]
    BY <1>2, <1>4
  <2>4. <<0, 0>> \in (0 .. a) \X (0 .. b) /\ tab[<<0, 0>>] = 0
    BY <2>2
  <2>5. ASSUME NEW k \in 1 .. a PROVE tab[<<k, 0>>] = Infinity
    <3>1. <<k, 0>> \in (0 .. a) \X (0 .. b) /\ <<k, 0>> # <<0, 0>>
      OBVIOUS
    <3> QED
      BY <2>2, <3>1
  <2>6. ASSUME NEW k \in 1 .. b PROVE tab[<<0, k>>] = Infinity
    <3>1. <<0, k>> \in (0 .. a) \X (0 .. b) /\ <<0, k>> # <<0, 0>>
      OBVIOUS
    <3> QED
      BY <2>2, <3>1
  <2> QED
    BY <2>1, <2>3, <2>4, <2>5, <2>6 DEF Table
<1>6. Filling'
  BY <1>1 DEF Filling
<1> QED
  BY <1>1, <1>5, <1>6 DEF WarpInv

LEMMA WarpFills ==
  ASSUME WarpInv, S!D!FillCell
  PROVE  WarpInv'
<1>1. /\ dtw = "cell" /\ dtw' = "cell" /\ si <= n1
      /\ n1' = n1 /\ n2' = n2 /\ d' = d /\ K' = K
      /\ DTW' = [DTW EXCEPT ![<<si, sj>>] =
           d[<<si, sj>>] + S!D!Least(DTW[<<si-1, sj>>], DTW[<<si, sj-1>>], DTW[<<si-1, sj-1>>])]
      /\ IF sj < n2 THEN sj' = sj + 1 /\ si' = si ELSE sj' = 1 /\ si' = si + 1
  BY DEF S!D!FillCell
<1>2. Table(DTW, d, n1, n2) /\ Filling
  BY <1>1 DEF WarpInv
<1>3. n1 \in Nat \ {0} /\ n2 \in Nat \ {0}
  BY <1>2 DEF Table
<1>4. si \in 1 .. n1 /\ sj \in 1 .. n2 /\ K = 0
  BY <1>1, <1>2, <1>3 DEF Filling
<1> DEFINE tab == DTW'
<1>5. tab = FillIn(DTW, d, si, sj)
  BY <1>1 DEF FillIn
<1>6. /\ Table(tab, d, n1, n2) /\ Fits(tab, d, si, sj)
      /\ \A a \in 1 .. n1, b \in 1 .. n2 :
           (Fits(DTW, d, a, b) /\ (a < si \/ (a = si /\ b < sj))) => Fits(tab, d, a, b)
  <2> HIDE DEF tab
  <2> QED
    BY <1>2, <1>4, <1>5, Filled
<1>7. \A a \in 1 .. n1, b \in 1 .. n2 :
        (a < si \/ (a = si /\ b <= sj)) => Fits(tab, d, a, b)
  <2> HIDE DEF tab
  <2> SUFFICES ASSUME NEW a \in 1 .. n1, NEW b \in 1 .. n2, a < si \/ (a = si /\ b <= sj)
               PROVE  Fits(tab, d, a, b)
    OBVIOUS
  <2>1. CASE a = si /\ b = sj
    BY <1>6, <2>1
  <2>2. CASE ~(a = si /\ b = sj)
    <3>1. a < si \/ (a = si /\ b < sj)
      BY <1>4, <2>2
    <3>2. Fits(DTW, d, a, b)
      BY <1>2, <3>1 DEF Filling
    <3> QED
      BY <1>6, <3>1, <3>2
  <2> QED
    BY <2>1, <2>2
<1>8. \A a \in 1 .. n1, b \in 1 .. n2 :
        (a < si' \/ (a = si' /\ b < sj')) => (a < si \/ (a = si /\ b <= sj))
  BY <1>1, <1>3, <1>4
<1>9. si' \in 1 .. n1 + 1 /\ sj' \in 1 .. n2 /\ (si' = n1 + 1 => sj' = 1)
  BY <1>1, <1>3, <1>4
<1>10. Filling'
  BY <1>1, <1>4, <1>7, <1>8, <1>9 DEF Filling
<1> QED
  BY <1>1, <1>6, <1>10 DEF WarpInv

LEMMA WarpReturns ==
  ASSUME WarpInv, S!D!StartPath
  PROVE  WarpInv'
<1>1. /\ dtw = "cell" /\ dtw' = "path" /\ si > n1 /\ si' = n2 /\ sj' = n1
      /\ visited' = {<<n1, n2>>}
      /\ n1' = n1 /\ n2' = n2 /\ d' = d /\ DTW' = DTW /\ K' = K
  BY DEF S!D!StartPath
<1>2. Table(DTW, d, n1, n2) /\ Filling
  BY <1>1 DEF WarpInv
<1>3. n1 \in Nat \ {0} /\ n2 \in Nat \ {0} /\ si \in Int
  BY <1>2 DEF Table, Filling
<1>4. Complete(DTW, d, n1, n2)
  BY <1>1, <1>2, <1>3 DEF Filling, Complete
<1>5. Trail({<<n1, n2>>}, DTW, d, n1, n2, n1, n2)
  BY <1>2, TrailStarts
<1>6. K = 0
  BY <1>2 DEF Filling
<1>7. Returning'
  BY <1>1, <1>3, <1>4, <1>5, <1>6 DEF Returning
<1> QED
  BY <1>1, <1>2, <1>7 DEF WarpInv

(* A step back, along the border or not: the cell reached next.            *)
LEMMA WarpWalks ==
  ASSUME WarpInv, dtw = "path", dtw' = "path", si > 0, sj > 0,
         n1' = n1, n2' = n2, d' = d, DTW' = DTW,
         NEW a, NEW b, sj' = a, si' = b,
         (a = sj /\ b = si-1) \/ (a = sj-1 /\ b = si) \/ (a = sj-1 /\ b = si-1),
         (a > 0 /\ b > 0) => DTW[<<sj, si>>] = d[<<sj, si>>] + DTW[<<a, b>>],
         (a = 0 \/ b = 0) => si = 1 /\ sj = 1,
         visited' = IF b > 0 /\ a > 0 THEN visited \cup {<<a, b>>} ELSE visited,
         \/ K' = K /\ (si = 1 \/ sj = 1)
         \/ K' = K + 1 /\ si > 1 /\ sj > 1
  PROVE  WarpInv'
<1>1. Table(DTW, d, n1, n2) /\ Returning
  BY DEF WarpInv
<1>2. n1 \in Nat \ {0} /\ n2 \in Nat \ {0} /\ sj \in 1 .. n1 /\ si \in 1 .. n2 /\ K \in Nat
  BY <1>1 DEF Table, Returning
<1>3. Trail(visited, DTW, d, n1, n2, sj, si) /\ Complete(DTW, d, n1, n2)
  BY <1>1, <1>2 DEF Returning
<1>4. a \in 0 .. n1 /\ b \in 0 .. n2
  BY <1>2
<1>5. ASSUME a > 0, b > 0 PROVE Trail(visited', DTW, d, n1, n2, a, b)
  <2>1. a \in 1 .. n1 /\ b \in 1 .. n2 /\ visited' = visited \cup {<<a, b>>}
    BY <1>4, <1>5
  <2>2. DTW[<<sj, si>>] = d[<<sj, si>>] + DTW[<<a, b>>]
    BY <1>5
  <2>3. Trail(visited \cup {<<a, b>>}, DTW, d, n1, n2, a, b)
    BY <1>1, <1>3, <2>1, <2>2, TrailGoesOn
  <2> QED
    BY <2>1, <2>3
<1>6. ASSUME a = 0 \/ b = 0 PROVE Arrived(visited', DTW, d, n1, n2)
  <2>1. si = 1 /\ sj = 1 /\ visited' = visited
    BY <1>4, <1>6
  <2>2. Arrived(visited, DTW, d, n1, n2)
    BY <1>1, <1>3, <2>1, TrailEnds
  <2> QED
    BY <2>1, <2>2
<1>7. /\ K' \in Nat /\ (K' > 0 => n1 > 1 /\ n2 > 1)
      /\ (n1 > 1 /\ n2 > 1) => K' > 0
  <2>1. (K > 0 => n1 > 1 /\ n2 > 1) /\ ((n1 > 1 /\ n2 > 1) => K > 0 \/ (si = n2 /\ sj = n1))
    BY <1>1 DEF Returning
  <2>2. CASE K' = K /\ (si = 1 \/ sj = 1)
    BY <1>2, <2>1, <2>2
  <2>3. CASE K' = K + 1 /\ si > 1 /\ sj > 1
    BY <1>2, <2>3
  <2> QED
    BY <2>2, <2>3
<1>8. Returning'
  BY <1>3, <1>4, <1>5, <1>6, <1>7 DEF Returning
<1> QED
  BY <1>1, <1>8 DEF WarpInv

LEMMA WarpAlongBorder ==
  ASSUME WarpInv, S!D!AlongBorder
  PROVE  WarpInv'
<1>1. /\ dtw = "path" /\ dtw' = "path" /\ si > 0 /\ sj > 0 /\ (si = 1 \/ sj = 1)
      /\ n1' = n1 /\ n2' = n2 /\ d' = d /\ DTW' = DTW /\ K' = K
      /\ IF si = 1 THEN S!D!Walk(0, 1) ELSE S!D!Walk(1, 0)
  BY DEF S!D!AlongBorder
<1>2. Table(DTW, d, n1, n2) /\ Returning
  BY <1>1 DEF WarpInv
<1>3. n1 \in Nat \ {0} /\ n2 \in Nat \ {0} /\ sj \in 1 .. n1 /\ si \in 1 .. n2
  BY <1>1, <1>2 DEF Table, Returning
<1>4. Complete(DTW, d, n1, n2)
  BY <1>2 DEF Returning
<1>5. CASE si = 1
  <2>1. si' = si /\ sj' = sj - 1 /\ si - 0 = si
    BY <1>1, <1>3, <1>5 DEF S!D!Walk
  <2>2. visited' = IF si > 0 /\ sj - 1 > 0 THEN visited \cup {<<sj - 1, si>>} ELSE visited
    BY <1>1, <1>5, <2>1 DEF S!D!Walk
  <2>3. sj - 1 > 0 => DTW[<<sj, si>>] = d[<<sj, si>>] + DTW[<<sj - 1, si>>]
    <3>1. ASSUME sj - 1 > 0 PROVE sj \in 2 .. n1
      BY <1>3, <3>1
    <3> QED
      BY <1>2, <1>4, <1>5, <3>1, OnBorder
  <2>4. (sj - 1 = 0 \/ si = 0) => si = 1 /\ sj = 1
    BY <1>3, <1>5
  <2> DEFINE a == sj - 1   b == si
  <2>5. /\ sj' = a /\ si' = b /\ a = sj - 1 /\ b = si
        /\ (a > 0 /\ b > 0) => DTW[<<sj, si>>] = d[<<sj, si>>] + DTW[<<a, b>>]
        /\ (a = 0 \/ b = 0) => si = 1 /\ sj = 1
        /\ visited' = IF b > 0 /\ a > 0 THEN visited \cup {<<a, b>>} ELSE visited
    BY <2>1, <2>2, <2>3, <2>4
  <2> HIDE DEF a, b
  <2> QED
    BY <1>1, <2>5, WarpWalks
<1>6. CASE si # 1
  <2>0. sj = 1
    BY <1>1, <1>6
  <2>1. si' = si - 1 /\ sj' = sj /\ sj - 0 = sj
    BY <1>1, <1>3, <1>6 DEF S!D!Walk
  <2>2. visited' = IF si - 1 > 0 /\ sj > 0 THEN visited \cup {<<sj, si - 1>>} ELSE visited
    BY <1>1, <1>6, <2>1 DEF S!D!Walk
  <2>3. DTW[<<sj, si>>] = d[<<sj, si>>] + DTW[<<sj, si - 1>>]
    <3>1. si \in 2 .. n2
      BY <1>3, <1>6
    <3> QED
      BY <1>2, <1>4, <2>0, <3>1, OnBorder
  <2>4. ~(sj = 0 \/ si - 1 = 0)
    BY <1>3, <1>6
  <2> DEFINE a == sj   b == si - 1
  <2>5. /\ sj' = a /\ si' = b /\ a = sj /\ b = si - 1
        /\ (a > 0 /\ b > 0) => DTW[<<sj, si>>] = d[<<sj, si>>] + DTW[<<a, b>>]
        /\ (a = 0 \/ b = 0) => si = 1 /\ sj = 1
        /\ visited' = IF b > 0 /\ a > 0 THEN visited \cup {<<a, b>>} ELSE visited
    BY <2>1, <2>2, <2>3, <2>4
  <2> HIDE DEF a, b
  <2> QED
    BY <1>1, <2>5, WarpWalks
<1> QED
  BY <1>5, <1>6

LEMMA WarpStepsBack ==
  ASSUME WarpInv, S!D!StepBack
  PROVE  WarpInv'
<1> DEFINE left == DTW[<<sj, si-1>>]   up == DTW[<<sj-1, si>>]   both == DTW[<<sj-1, si-1>>]
           least == S!D!Least(left, up, both)
<1>1. /\ dtw = "path" /\ dtw' = "path" /\ si > 1 /\ sj > 1
      /\ n1' = n1 /\ n2' = n2 /\ d' = d /\ DTW' = DTW /\ K' = K + 1
      /\ IF left = least THEN S!D!Walk(1, 0)
         ELSE IF up = least THEN S!D!Walk(0, 1) ELSE S!D!Walk(1, 1)
  BY DEF S!D!StepBack
<1>2. Table(DTW, d, n1, n2) /\ Returning
  BY <1>1 DEF WarpInv
<1>3. n1 \in Nat \ {0} /\ n2 \in Nat \ {0} /\ sj \in 1 .. n1 /\ si \in 1 .. n2
  BY <1>1, <1>2 DEF Table, Returning
<1>4. left \in Nat /\ up \in Nat /\ both \in Nat
  BY <1>2, <1>3, NeighboursNat
<1>5. DTW[<<sj, si>>] = d[<<sj, si>>] + S!D!Least(up, left, both)
  BY <1>2, <1>3 DEF Returning, Complete, Fits
<1>6. least \in {left, up, both} /\ DTW[<<sj, si>>] = d[<<sj, si>>] + least
  <2> HIDE DEF left, up, both
  <2>1. least \in {left, up, both} /\ S!D!Least(up, left, both) = least
    BY <1>4, LeastOf, LeastSwapped
  <2> QED
    BY <1>5, <2>1
<1>7. ASSUME NEW a \in {sj, sj-1}, NEW b \in {si, si-1}, a # sj \/ b # si,
             sj' = a, si' = b, DTW[<<a, b>>] = least,
             visited' = IF b > 0 /\ a > 0 THEN visited \cup {<<a, b>>} ELSE visited
      PROVE  WarpInv'
  <2>1. (a = sj /\ b = si-1) \/ (a = sj-1 /\ b = si) \/ (a = sj-1 /\ b = si-1)
    BY <1>7
  <2>2. ~(a = 0 \/ b = 0)
    BY <1>1, <1>3, <1>7
  <2>3. DTW[<<sj, si>>] = d[<<sj, si>>] + DTW[<<a, b>>]
    BY <1>6, <1>7
  <2>4. si > 0 /\ sj > 0
    BY <1>3
  <2> QED
    BY <1>1, <1>7, <2>1, <2>2, <2>3, <2>4, WarpWalks
<1>8. CASE left = least
  <2>1. S!D!Walk(1, 0) /\ sj - 0 = sj
    BY <1>1, <1>3, <1>8
  <2>2. si' = si - 1 /\ sj' = sj
    BY <2>1 DEF S!D!Walk
  <2>3. visited' = IF si - 1 > 0 /\ sj > 0 THEN visited \cup {<<sj, si - 1>>} ELSE visited
    BY <2>1, <2>2 DEF S!D!Walk
  <2>4. si - 1 # si
    BY <1>3
  <2> QED
    BY <1>7, <1>8, <2>2, <2>3, <2>4
<1>9. CASE left # least /\ up = least
  <2>1. S!D!Walk(0, 1) /\ si - 0 = si
    BY <1>1, <1>3, <1>9
  <2>2. si' = si /\ sj' = sj - 1
    BY <2>1 DEF S!D!Walk
  <2>3. visited' = IF si > 0 /\ sj - 1 > 0 THEN visited \cup {<<sj - 1, si>>} ELSE visited
    BY <2>1, <2>2 DEF S!D!Walk
  <2>4. sj - 1 # sj
    BY <1>3
  <2> QED
    BY <1>7, <1>9, <2>2, <2>3, <2>4
<1>10. CASE left # least /\ up # least
  <2>1. S!D!Walk(1, 1) /\ both = least
    BY <1>1, <1>6, <1>10
  <2>2. si' = si - 1 /\ sj' = sj - 1
    BY <2>1 DEF S!D!Walk
  <2>3. visited' = IF si - 1 > 0 /\ sj - 1 > 0 THEN visited \cup {<<sj - 1, si - 1>>} ELSE visited
    BY <2>1, <2>2 DEF S!D!Walk
  <2>4. sj - 1 # sj
    BY <1>3
  <2> QED
    BY <1>7, <2>1, <2>2, <2>3, <2>4
<1> QED
  BY <1>8, <1>9, <1>10

LEMMA WarpNext ==
  ASSUME WarpInv
  PROVE  /\ S!D!Next => WarpInv'
         /\ S!D!Discard => WarpInv'
         /\ UNCHANGED S!D!vars => WarpInv'
<1>1. ASSUME S!D!EndPath PROVE WarpInv'
  <2>1. /\ dtw = "path" /\ dtw' = "done" /\ (si = 0 \/ sj = 0) /\ si' = si /\ sj' = sj
        /\ n1' = n1 /\ n2' = n2 /\ d' = d /\ DTW' = DTW /\ K' = K /\ visited' = visited
    BY <1>1 DEF S!D!EndPath
  <2>2. Returning'
    BY <2>1 DEF WarpInv, Returning
  <2> QED
    BY <2>1, <2>2 DEF WarpInv
<1>2. S!D!Next => WarpInv'
  BY <1>1, WarpFills, WarpReturns, WarpAlongBorder, WarpStepsBack DEF S!D!Next
<1>3. S!D!Discard => WarpInv'
  BY DEF S!D!Discard, WarpInv
<1>4. UNCHANGED S!D!vars => WarpInv'
  BY DEF S!D!vars, WarpInv, Filling, Returning
<1> QED
  BY <1>2, <1>3, <1>4

LEMMA PathsAre ==
  ASSUME n1 \in Nat \ {0}, n2 \in Nat \ {0}
  PROVE  \A T : T \in S!D!WarpingPaths <=> PathTo(T, n1, n2)
<1> TAKE T
<1>1. T \in SUBSET S!D!Cell <=> T \subseteq (1 .. n1) \X (1 .. n2)
  BY DEF S!D!Cell
<1> QED
  BY <1>1 DEF S!D!WarpingPaths, PathTo, Chain, Before

LEMMA OptimalThen ==
  ASSUME WarpInv
  PROVE  S!D!PathOptimal
<1> SUFFICES ASSUME dtw = "done"
             PROVE  /\ visited \in S!D!WarpingPaths
                    /\ S!D!Result[1] = S!D!Cost(visited)
                    /\ S!D!Result[1] = S!D!Min({S!D!Cost(T) : T \in S!D!WarpingPaths})
                    /\ K = 0 <=> n1 = 1 \/ n2 = 1
  BY DEF S!D!PathOptimal
<1>1. Table(DTW, d, n1, n2) /\ Returning /\ (si = 0 \/ sj = 0)
  BY DEF WarpInv
<1>2. n1 \in Nat \ {0} /\ n2 \in Nat \ {0} /\ n1 \in 1 .. n1 /\ n2 \in 1 .. n2
  BY <1>1 DEF Table
<1>3. Arrived(visited, DTW, d, n1, n2) /\ Complete(DTW, d, n1, n2)
  BY <1>1 DEF Returning
<1>4. visited \in S!D!WarpingPaths
  BY <1>2, <1>3, PathsAre DEF Arrived
<1>5. \A T : S!D!Cost(T) = SumOf(d, T)
  BY SameSum DEF S!D!Cost
<1>6. S!D!Result[1] = DTW[<<n1, n2>>]
  BY DEF S!D!Result
<1>7. DTW[<<n1, n2>>] = SumOf(d, visited)
  BY <1>3 DEF Arrived
<1>8. DTW[<<n1, n2>>] \in Nat
  BY <1>1, <1>2, NeighboursNat
<1>9. ASSUME NEW T \in S!D!WarpingPaths
      PROVE  SumOf(d, T) \in Int /\ DTW[<<n1, n2>>] <= SumOf(d, T)
  <2>1. PathTo(T, n1, n2)
    BY <1>2, PathsAre
  <2>2. T \in SUBSET ((1 .. n1) \X (1 .. n2))
    BY <2>1 DEF PathTo
  <2>3. IsFiniteSet(T)
    BY <1>2, <2>2, CellsFinite, FS_Subset
  <2>4. \A u \in T : d[u] \in Int
    BY <1>1, <2>2 DEF Table
  <2>5. SumOf(d, T) \in Int
    BY <2>3, <2>4, SumNext
  <2>6. DTW[<<n1, n2>>] <= SumOf(d, T)
    BY <1>1, <1>2, <1>3, <2>1, LowerBound
  <2> QED
    BY <2>5, <2>6
<1>10. S!D!Result[1] = S!D!Min({S!D!Cost(T) : T \in S!D!WarpingPaths})
  <2> DEFINE A == {S!D!Cost(T) : T \in S!D!WarpingPaths}
             e == DTW[<<n1, n2>>]
  <2>1. e \in A
    BY <1>4, <1>5, <1>7
  <2>2. \A v \in A : v \in Int /\ e <= v
    BY <1>5, <1>9
  <2>3. e \in Int
    BY <1>8
  <2> HIDE DEF A, e
  <2>4. S!D!Min(A) = e
    BY <2>1, <2>2, <2>3, SameLeast
  <2> QED
    BY <1>6, <2>4 DEF A, e
<1>11. K = 0 <=> n1 = 1 \/ n2 = 1
  <2>1. /\ K \in Nat /\ (K > 0 => n1 > 1 /\ n2 > 1)
        /\ ((n1 > 1 /\ n2 > 1) => K > 0 \/ (si = n2 /\ sj = n1))
    BY <1>1 DEF Returning
  <2> QED
    BY <1>1, <1>2, <2>1
<1> QED
  BY <1>4, <1>5, <1>6, <1>7, <1>10, <1>11

-----------------------------------------------------------------------------
(* The node of a component.  Distances that are quotients, compared.       *)
Quotient == Nat \X (Nat \ {0})

LEMMA Times ==
  ASSUME NEW u \in Int, NEW v \in Int, NEW k \in Nat \ {0}
  PROVE  /\ u < v => u * k < v * k
         /\ u <= v => u * k <= v * k
<1>1. v * k - u * k = (v - u) * k
  OBVIOUS
<1>2. u < v => (v - u) * k > 0
  OBVIOUS
<1>3. u <= v => (v - u) * k >= 0
  OBVIOUS
<1>4. u * k \in Int /\ v * k \in Int
  OBVIOUS
<1> QED
  BY <1>1, <1>2, <1>3, <1>4

LEMMA LessChain ==
  ASSUME NEW u \in Quotient, NEW v \in Quotient, NEW w \in Quotient,
         ~S!Less(u, w), S!Less(v, w)
  PROVE  ~S!Less(u, v)
<1> DEFINE u1 == u[1]   u2 == u[2]   v1 == v[1]   v2 == v[2]   w1 == w[1]   w2 == w[2]
<1>1. /\ u1 \in Nat /\ u2 \in Nat \ {0} /\ v1 \in Nat /\ v2 \in Nat \ {0}
      /\ w1 \in Nat /\ w2 \in Nat \ {0}
  BY DEF Quotient
<1>2. ~(u1 * w2 < w1 * u2) /\ v1 * w2 < w1 * v2
  BY <1>1 DEF S!Less
<1>3. S!Less(u, v) => u1 * v2 < v1 * u2
  BY <1>1 DEF S!Less
<1> HIDE DEF u1, u2, v1, v2, w1, w2
<1>4. ASSUME u1 * v2 < v1 * u2 PROVE FALSE
  <2> DEFINE p1 == w1 * u2   p2 == u1 * w2   p3 == v1 * w2   p4 == w1 * v2   p5 == u1 * v2   p6 == v1 * u2
  <2>1. p1 \in Int /\ p2 \in Int /\ p3 \in Int /\ p4 \in Int /\ p5 \in Int /\ p6 \in Int
    BY <1>1
  <2>2. p1 <= p2 /\ p3 < p4 /\ p5 < p6
    <3>1. ~(p2 < p1) /\ p3 < p4 /\ p5 < p6
      BY <1>2, <1>4
    <3> HIDE DEF p1, p2, p3, p4, p5, p6
    <3> QED
      BY <2>1, <3>1
  <2>3. p1 * v2 = p4 * u2 /\ p2 * v2 = p5 * w2 /\ p3 * u2 = p6 * w2
    BY <1>1
  <2> HIDE DEF p1, p2, p3, p4, p5, p6
  <2>4. p1 * v2 <= p2 * v2 /\ p3 * u2 < p4 * u2 /\ p5 * w2 < p6 * w2
    BY <1>1, <2>1, <2>2, Times
  <2>5. p1 * v2 \in Int /\ p4 * u2 \in Int /\ p2 * v2 \in Int /\ p5 * w2 \in Int /\ p3 * u2 \in Int /\ p6 * w2 \in Int
    BY <1>1, <2>1
  <2> QED
    BY <2>3, <2>4, <2>5
<1> QED
  BY <1>3, <1>4

LEMMA NotLessItself ==
  ASSUME NEW u \in Quotient
  PROVE  ~S!Less(u, u)
<1>1. u[1] * u[2] \in Int /\ u[2] # 0
  BY DEF Quotient
<1> QED
  BY <1>1 DEF S!Less

(* The nodes before one, in the order of the loops.                        *)
NodesBefore(a, b) == {p \in S!Node : p[2] < b \/ (p[2] = b /\ p[1] < a)}

Nearer ==
  /\ \A p \in DOMAIN seen : seen[p] \in Quotient
  /\ DOMAIN seen = {} => min = S!INFINITY
  /\ DOMAIN seen # {} =>
       /\ minpt \in DOMAIN seen /\ min = seen[minpt]
       /\ \A p \in DOMAIN seen : ~S!Less(seen[p], min)

SomInv ==
  /\ width \in Nat \ {0} /\ height \in Nat \ {0} /\ n \in Nat \ {0}
  /\ WarpInv
  /\ dtw # "idle" => n1 = n /\ n2 = n /\ at = "node" /\ y < height
  /\ at = "node" =>
       /\ x \in 0 .. width - 1 /\ y \in 0 .. height /\ (y = height => x = 0)
       /\ DOMAIN seen = NodesBefore(x, y)
       /\ n > 1 => Nearer
  /\ n > 1 => \A e \in DOMAIN cluster : cluster[e] \in S!Node
  /\ S!ClusterNearest
  /\ at = "done" => S!Component \subseteq DOMAIN cluster

LEMMA SomStart == S!Init => SomInv
<1> SUFFICES ASSUME S!Init PROVE SomInv
  OBVIOUS
<1>1. width \in Nat \ {0} /\ height \in Nat \ {0} /\ n \in Nat \ {0}
  BY MatchingAssumption DEF S!Init, S!Inputs
<1>2. dtw = "idle"
  BY DEF S!Init, S!D!Init
<1>3. cluster = <<>> /\ at = "component"
  BY DEF S!Init
<1>4. DOMAIN cluster = {}
  BY <1>3
<1>5. S!ClusterNearest
  BY <1>4 DEF S!ClusterNearest
<1> QED
  BY <1>1, <1>2, <1>3, <1>4, <1>5 DEF SomInv, WarpInv

LEMMA SomAsks ==
  ASSUME SomInv, S!GetCluster
  PROVE  SomInv'
<1>1. /\ at = "component" /\ at' = "node" /\ x' = 0 /\ y' = 0 /\ min' = S!INFINITY /\ seen' = <<>>
      /\ width' = width /\ height' = height /\ n' = n /\ cluster' = cluster /\ UNCHANGED S!D!vars
  BY DEF S!GetCluster, S!warp, S!D!vars
<1>2. width \in Nat \ {0} /\ height \in Nat \ {0} /\ n \in Nat \ {0} /\ dtw' = dtw
  BY <1>1 DEF SomInv, S!D!vars
<1>3. WarpInv'
  BY <1>1, WarpNext DEF SomInv
<1>4. dtw = "idle"
  BY <1>1 DEF SomInv
<1>5. S!Node' = S!Node
  BY <1>1 DEF S!Node
<1>6. DOMAIN seen' = {}
  BY <1>1
<1>7. NodesBefore(0, 0) = {}
  BY DEF NodesBefore, S!Node
<1>8. (NodesBefore(x, y))' = {}
  BY <1>1, <1>2, <1>5, <1>7 DEF NodesBefore
<1>9. Nearer'
  <2>1. (S!INFINITY)' = S!INFINITY
    BY DEF S!INFINITY
  <2> QED
    BY <1>1, <1>6, <2>1 DEF Nearer
<1>10. S!ClusterNearest'
  BY <1>1 DEF S!ClusterNearest
<1>11. x' \in 0 .. width' - 1 /\ y' \in 0 .. height'
  BY <1>1, <1>2
<1> QED
  BY <1>1, <1>2, <1>3, <1>4, <1>5, <1>6, <1>8, <1>9, <1>10, <1>11 DEF SomInv

LEMMA SomCalls ==
  ASSUME SomInv, S!CallDTW
  PROVE  SomInv'
<1>1. /\ at = "node" /\ y < height /\ S!D!dTWDistance(n, n)
      /\ width' = width /\ height' = height /\ n' = n /\ c' = c /\ x' = x /\ y' = y /\ min' = min
      /\ minpt' = minpt /\ cluster' = cluster /\ seen' = seen /\ at' = at
  BY DEF S!CallDTW, S!state
<1>2. WarpInv' /\ n1' = n /\ n2' = n
  BY <1>1, WarpCalled DEF SomInv, S!D!dTWDistance
<1>3. S!Node' = S!Node /\ (NodesBefore(x, y))' = NodesBefore(x, y)
  BY <1>1 DEF S!Node, NodesBefore
<1>4. Nearer => Nearer'
  BY <1>1 DEF Nearer
<1>5. S!ClusterNearest'
  BY <1>1 DEF S!ClusterNearest
<1> QED
  BY <1>1, <1>2, <1>3, <1>4, <1>5 DEF SomInv

LEMMA SomWarps ==
  ASSUME SomInv, S!StepDTW
  PROVE  SomInv'
<1>1. /\ S!D!Next
      /\ width' = width /\ height' = height /\ n' = n /\ c' = c /\ x' = x /\ y' = y /\ min' = min
      /\ minpt' = minpt /\ cluster' = cluster /\ seen' = seen /\ at' = at
  BY DEF S!StepDTW, S!state
<1>2. WarpInv'
  BY <1>1, WarpNext DEF SomInv
<1>3. n1' = n1 /\ n2' = n2 /\ dtw \in {"cell", "path"}
  BY <1>1 DEF S!D!Next, S!D!FillCell, S!D!StartPath, S!D!AlongBorder, S!D!StepBack, S!D!EndPath
<1>4. at = "node" /\ n1 = n /\ n2 = n /\ y < height
  BY <1>3 DEF SomInv
<1>5. S!Node' = S!Node /\ (NodesBefore(x, y))' = NodesBefore(x, y)
  BY <1>1 DEF S!Node, NodesBefore
<1>6. Nearer => Nearer'
  BY <1>1 DEF Nearer
<1>7. S!ClusterNearest'
  BY <1>1, <1>4 DEF S!ClusterNearest
<1> QED
  BY <1>1, <1>2, <1>3, <1>4, <1>5, <1>6, <1>7 DEF SomInv

LEMMA ResultIs ==
  ASSUME SomInv, dtw = "done", n > 1
  PROVE  S!D!Result \in Quotient
<1>1. Table(DTW, d, n1, n2) /\ Returning /\ (si = 0 \/ sj = 0) /\ n1 = n /\ n2 = n
  BY DEF SomInv, WarpInv
<1>2. n1 \in 1 .. n1 /\ n2 \in 1 .. n2 /\ n1 \in Nat \ {0} /\ n2 \in Nat \ {0}
  BY <1>1 DEF Table
<1>3. DTW[<<n1, n2>>] \in Nat
  BY <1>1, <1>2, NeighboursNat
<1>4. K \in Nat \ {0}
  <2>1. K \in Nat /\ ((n1 > 1 /\ n2 > 1) => K > 0 \/ (si = n2 /\ sj = n1))
    BY <1>1 DEF Returning
  <2> QED
    BY <1>1, <1>2, <2>1
<1> QED
  BY <1>3, <1>4 DEF S!D!Result, Quotient

LEMMA SomLooks ==
  ASSUME SomInv, S!LookAt
  PROVE  SomInv'
<1> DEFINE res == S!D!Result
           next == [p \in DOMAIN seen \cup {<<x, y>>} |-> IF p = <<x, y>> THEN res ELSE seen[p]]
<1>1. /\ at = "node" /\ at' = "node" /\ dtw = "done" /\ S!D!Discard
      /\ seen' = next /\ S!NextNode
      /\ IF S!Less(res, min) THEN min' = res /\ minpt' = <<x, y>> ELSE min' = min /\ minpt' = minpt
      /\ width' = width /\ height' = height /\ n' = n /\ c' = c /\ cluster' = cluster
  BY DEF S!LookAt
<1>2. /\ width \in Nat \ {0} /\ height \in Nat \ {0} /\ n \in Nat \ {0}
      /\ x \in 0 .. width - 1 /\ y \in 0 .. height - 1
      /\ DOMAIN seen = NodesBefore(x, y) /\ (n > 1 => Nearer)
  BY <1>1 DEF SomInv
<1>3. WarpInv' /\ dtw' = "idle"
  BY <1>1, WarpNext DEF SomInv, S!D!Discard
<1>4. IF x < width - 1 THEN x' = x + 1 /\ y' = y ELSE x' = 0 /\ y' = y + 1
  BY <1>1 DEF S!NextNode
<1>5. x' \in 0 .. width - 1 /\ y' \in 0 .. height /\ (y' = height => x' = 0)
  BY <1>2, <1>4
<1>6. S!Node' = S!Node
  BY <1>1 DEF S!Node
<1>7. NodesBefore(x, y) \cup {<<x, y>>} = NodesBefore(x', y')
  <2>1. <<x, y>> \in S!Node /\ <<x, y>>[1] = x /\ <<x, y>>[2] = y
    BY <1>2 DEF S!Node
  <2>2. ASSUME NEW p \in S!Node
        PROVE  (p[2] < y' \/ (p[2] = y' /\ p[1] < x')) <=> (p[2] < y \/ (p[2] = y /\ p[1] < x) \/ p = <<x, y>>)
    <3>1. p[1] \in 0 .. width - 1 /\ p[2] \in 0 .. height - 1 /\ p = <<p[1], p[2]>>
      BY DEF S!Node
    <3>2. p = <<x, y>> <=> p[1] = x /\ p[2] = y
      BY <3>1
    <3> DEFINE k == p[1]   m == p[2]
    <3>3. k \in 0 .. width - 1 /\ m \in Int
      BY <3>1, <1>2
    <3> HIDE DEF k, m
    <3>4. (m < y' \/ (m = y' /\ k < x')) <=> (m < y \/ (m = y /\ k < x) \/ (k = x /\ m = y))
      BY <1>2, <1>4, <3>3
    <3> QED
      BY <3>2, <3>4 DEF k, m
  <2>3. \A p : p \in NodesBefore(x', y') <=> p \in NodesBefore(x, y) \cup {<<x, y>>}
    BY <2>1, <2>2 DEF NodesBefore
  <2> QED
    BY <2>3
<1>8. DOMAIN seen' = NodesBefore(x', y')
  BY <1>1, <1>2, <1>7
<1>9. (NodesBefore(x, y))' = NodesBefore(x', y')
  BY <1>6 DEF NodesBefore
<1>10. ASSUME n > 1 PROVE Nearer'
  <2>1. res \in Quotient
    BY <1>1, <1>10, ResultIs
  <2>2. Nearer
    BY <1>2, <1>10
  <2>3. <<x, y>> \notin DOMAIN seen
    BY <1>2 DEF NodesBefore
  <2>4. /\ DOMAIN next = DOMAIN seen \cup {<<x, y>>} /\ next[<<x, y>>] = res
        /\ \A p \in DOMAIN seen : next[p] = seen[p]
    BY <2>3
  <2> DEFINE k == <<x, y>>
  <2>5. /\ DOMAIN seen' = DOMAIN seen \cup {k} /\ seen'[k] = res
        /\ \A p \in DOMAIN seen : seen'[p] = seen[p]
    BY <1>1, <2>4
  <2>6. IF S!Less(res, min) THEN min' = res /\ minpt' = k ELSE min' = min /\ minpt' = minpt
    BY <1>1
  <2> HIDE DEF res, next, k
  <2>7. \A p \in DOMAIN seen' : seen'[p] \in Quotient
    BY <2>1, <2>2, <2>5 DEF Nearer
  <2>8. CASE DOMAIN seen = {}
    <3>1. min = S!INFINITY
      BY <2>2, <2>8 DEF Nearer
    <3>2. S!Less(res, min)
      BY <2>1, <3>1 DEF S!Less, S!INFINITY, Quotient
    <3>3. min' = res /\ minpt' = k
      BY <2>6, <3>2
    <3>4. ~S!Less(res, res)
      BY <2>1, NotLessItself
    <3>5. \A p \in DOMAIN seen' : ~S!Less(seen'[p], min')
      BY <2>5, <2>8, <3>3, <3>4
    <3>6. minpt' \in DOMAIN seen' /\ min' = seen'[minpt']
      BY <2>5, <3>3
    <3> QED
      BY <2>7, <3>5, <3>6 DEF Nearer
  <2>9. CASE DOMAIN seen # {}
    <3>1. /\ minpt \in DOMAIN seen /\ min = seen[minpt]
          /\ \A p \in DOMAIN seen : ~S!Less(seen[p], min)
          /\ \A p \in DOMAIN seen : seen[p] \in Quotient
      BY <2>2, <2>9 DEF Nearer
    <3>2. CASE S!Less(res, min)
      <4>1. min' = res /\ minpt' = k
        BY <2>6, <3>2
      <4>2. \A p \in DOMAIN seen : ~S!Less(seen[p], res)
        BY <2>1, <3>1, <3>2, LessChain
      <4>3. ~S!Less(res, res)
        BY <2>1, NotLessItself
      <4>4. \A p \in DOMAIN seen' : ~S!Less(seen'[p], min')
        BY <2>5, <4>1, <4>2, <4>3
      <4>5. minpt' \in DOMAIN seen' /\ min' = seen'[minpt']
        BY <2>5, <4>1
      <4> QED
        BY <2>7, <4>4, <4>5 DEF Nearer
    <3>3. CASE ~S!Less(res, min)
      <4>1. min' = min /\ minpt' = minpt
        BY <2>6, <3>3
      <4>2. \A p \in DOMAIN seen' : ~S!Less(seen'[p], min')
        BY <2>5, <3>1, <3>3, <4>1
      <4>3. minpt' \in DOMAIN seen' /\ min' = seen'[minpt']
        BY <2>5, <3>1, <4>1
      <4> QED
        BY <2>7, <4>2, <4>3 DEF Nearer
    <3> QED
      BY <3>2, <3>3
  <2> QED
    BY <2>8, <2>9
<1>11. S!ClusterNearest'
  BY <1>1 DEF S!ClusterNearest
<1>12. /\ width' \in Nat \ {0} /\ height' \in Nat \ {0} /\ n' \in Nat \ {0}
       /\ (n' > 1 => \A e \in DOMAIN cluster' : cluster'[e] \in S!Node')
  BY <1>1, <1>2, <1>6 DEF SomInv
<1> HIDE DEF res, next
<1>13. /\ x' \in 0 .. width' - 1 /\ y' \in 0 .. height' /\ (y' = height' => x' = 0)
       /\ DOMAIN seen' = (NodesBefore(x, y))' /\ (n' > 1 => Nearer')
  BY <1>1, <1>5, <1>8, <1>9, <1>10
<1> QED
  BY <1>1, <1>3, <1>11, <1>12, <1>13 DEF SomInv

LEMMA SomReturns ==
  ASSUME SomInv, S!ReturnCluster
  PROVE  SomInv'
<1>1. /\ at = "node" /\ at' = "component" /\ y = height
      /\ cluster' = [e \in DOMAIN cluster \cup {c} |-> IF e = c THEN minpt ELSE cluster[e]]
      /\ width' = width /\ height' = height /\ n' = n /\ c' = c /\ seen' = seen /\ UNCHANGED S!D!vars
  BY DEF S!ReturnCluster, S!warp, S!D!vars
<1>2. /\ width \in Nat \ {0} /\ height \in Nat \ {0} /\ n \in Nat \ {0} /\ dtw' = dtw
      /\ DOMAIN seen = NodesBefore(x, y) /\ (n > 1 => Nearer)
  BY <1>1 DEF SomInv, S!D!vars
<1>3. WarpInv'
  BY <1>1, WarpNext DEF SomInv
<1>4. dtw = "idle"
  BY <1>1, <1>2 DEF SomInv
<1>5. S!Node' = S!Node
  BY <1>1 DEF S!Node
<1>6. DOMAIN seen = S!Node
  <2>1. \A p \in S!Node : p[2] < height
    BY <1>2 DEF S!Node
  <2> QED
    BY <1>1, <1>2, <2>1 DEF NodesBefore
<1>7. <<0, 0>> \in S!Node
  BY <1>2 DEF S!Node
<1>8. DOMAIN cluster' = DOMAIN cluster \cup {c} /\ cluster'[c] = minpt
      /\ \A e \in DOMAIN cluster : e # c => cluster'[e] = cluster[e]
  BY <1>1
<1>9. ASSUME n > 1
      PROVE  minpt \in S!Node /\ \A p \in S!Node : ~S!Less(seen[p], seen[minpt])
  BY <1>2, <1>6, <1>7, <1>9 DEF Nearer
<1>10. n > 1 => \A e \in DOMAIN cluster' : cluster'[e] \in S!Node
  BY <1>8, <1>9 DEF SomInv
<1>11. S!ClusterNearest'
  <2>1. n > 1 => /\ DOMAIN seen' = S!Node' /\ cluster'[c'] \in S!Node'
                 /\ \A p \in S!Node' : ~S!Less(seen'[p], seen'[cluster'[c']])
    BY <1>1, <1>5, <1>6, <1>8, <1>9
  <2> QED
    BY <1>1, <2>1 DEF S!ClusterNearest, S!Less
<1> QED
  BY <1>1, <1>2, <1>3, <1>4, <1>5, <1>10, <1>11 DEF SomInv

LEMMA SomEnds ==
  ASSUME SomInv, S!EndComponents
  PROVE  SomInv'
<1>1. /\ at = "component" /\ at' = "done" /\ S!Todo = {}
      /\ width' = width /\ height' = height /\ n' = n /\ cluster' = cluster /\ UNCHANGED S!D!vars
  BY DEF S!EndComponents, S!warp, S!D!vars
<1>2. WarpInv' /\ dtw' = dtw
  BY <1>1, WarpNext DEF SomInv, S!D!vars
<1>3. dtw = "idle"
  BY <1>1 DEF SomInv
<1>4. S!Node' = S!Node
  BY <1>1 DEF S!Node
<1>5. S!Component \subseteq DOMAIN cluster
  BY <1>1 DEF S!Todo
<1>6. S!ClusterNearest'
  BY <1>1 DEF S!ClusterNearest
<1> QED
  BY <1>1, <1>2, <1>3, <1>4, <1>5, <1>6 DEF SomInv

LEMMA SomNext ==
  ASSUME SomInv
  PROVE  (S!Next \/ UNCHANGED som) => SomInv'
<1>1. S!Next => SomInv'
  BY SomAsks, SomCalls, SomWarps, SomLooks, SomReturns, SomEnds DEF S!Next
<1>2. UNCHANGED som => SomInv'
  <2> SUFFICES ASSUME UNCHANGED som PROVE SomInv'
    OBVIOUS
  <2>1. UNCHANGED S!D!vars
    BY DEF som, S!D!vars
  <2>2. WarpInv'
    BY <2>1, WarpNext DEF SomInv
  <2>3. /\ width' = width /\ height' = height /\ n' = n /\ c' = c /\ x' = x /\ y' = y
        /\ min' = min /\ minpt' = minpt /\ cluster' = cluster /\ seen' = seen /\ at' = at
        /\ n1' = n1 /\ n2' = n2 /\ dtw' = dtw
    BY DEF som
  <2>4. S!Node' = S!Node
    BY <2>3 DEF S!Node
  <2>5. (NodesBefore(x, y))' = NodesBefore(x, y)
    BY <2>3, <2>4 DEF NodesBefore
  <2>6. Nearer => Nearer'
    BY <2>3 DEF Nearer, S!INFINITY
  <2>7. S!ClusterNearest'
    BY <2>3, <2>4 DEF SomInv, S!ClusterNearest, S!Less
  <2> QED
    BY <2>2, <2>3, <2>4, <2>5, <2>6, <2>7 DEF SomInv
<1> QED
  BY <1>1, <1>2

-----------------------------------------------------------------------------
(* The costs of the search with the map.                                   *)
LEMMA Squared ==
  ASSUME NEW u \in Int, NEW w \in Nat, -w <= u, u <= w
  PROVE  /\ S!Square(u) \in Nat /\ S!Square(u) <= S!Square(w)
         /\ S!Square(u) = 0 <=> u = 0
<1>1. u * u \in Int /\ w * w \in Int /\ u * u >= 0
  OBVIOUS
<1>2. w * w - u * u = (w - u) * (w + u) /\ (w - u) * (w + u) >= 0
  OBVIOUS
<1>3. u * u = 0 <=> u = 0
  OBVIOUS
<1>4. u * u <= w * w
  <2>1. w * w - u * u >= 0
    BY <1>2
  <2> QED
    BY <1>1, <2>1
<1> QED
  BY <1>1, <1>3, <1>4 DEF S!Square

LEMMA SameLabel ==
  ASSUME NEW w \in Nat \ {0}, NEW u1 \in 0 .. w - 1, NEW u2 \in Int,
         NEW v1 \in 0 .. w - 1, NEW v2 \in Int
  PROVE  u2 * w + u1 = v2 * w + v1 <=> u1 = v1 /\ u2 = v2
<1>1. u2 * w \in Int /\ v2 * w \in Int
  OBVIOUS
<1>2. ASSUME u2 < v2 PROVE u2 * w + w <= v2 * w
  <2>1. (u2 + 1) * w <= v2 * w
    <3>1. u2 + 1 \in Int /\ u2 + 1 <= v2
      BY <1>2
    <3> QED
      BY <3>1, Times
  <2>2. (u2 + 1) * w = u2 * w + w
    OBVIOUS
  <2> QED
    BY <2>1, <2>2
<1>3. ASSUME v2 < u2 PROVE v2 * w + w <= u2 * w
  <2>1. (v2 + 1) * w <= u2 * w
    <3>1. v2 + 1 \in Int /\ v2 + 1 <= u2
      BY <1>3
    <3> QED
      BY <3>1, Times
  <2>2. (v2 + 1) * w = v2 * w + w
    OBVIOUS
  <2> QED
    BY <2>1, <2>2
<1> DEFINE p == u2 * w   q == v2 * w
<1>4. p \in Int /\ q \in Int /\ (u2 < v2 => p + w <= q) /\ (v2 < u2 => q + w <= p) /\ (u2 = v2 => p = q)
  BY <1>1, <1>2, <1>3
<1> HIDE DEF p, q
<1>5. p + u1 = q + v1 <=> u1 = v1 /\ u2 = v2
  BY <1>4
<1> QED
  BY <1>5 DEF p, q

LEMMA NodeCount ==
  ASSUME width \in Nat \ {0}, height \in Nat \ {0}
  PROVE  Cardinality(S!Node) = 1 <=> width = 1 /\ height = 1
<1> DEFINE A == 0 .. width - 1   B == 0 .. height - 1
<1>1. /\ IsFiniteSet(A) /\ IsFiniteSet(B) /\ Cardinality(A) = width /\ Cardinality(B) = height
  <2>1. 0 \in Int /\ width - 1 \in Int /\ height - 1 \in Int
    OBVIOUS
  <2>2. IsFiniteSet(A) /\ Cardinality(A) = IF 0 > width - 1 THEN 0 ELSE width - 1 - 0 + 1
    BY <2>1, FS_Interval
  <2>3. IsFiniteSet(B) /\ Cardinality(B) = IF 0 > height - 1 THEN 0 ELSE height - 1 - 0 + 1
    BY <2>1, FS_Interval
  <2> QED
    BY <2>2, <2>3
<1>2. Cardinality(A \X B) = Cardinality(A) * Cardinality(B)
  BY <1>1, FS_Product
<1>3. Cardinality(S!Node) = width * height
  BY <1>1, <1>2 DEF S!Node
<1>4. width * height = 1 <=> width = 1 /\ height = 1
  <2>1. ASSUME width * height = 1 PROVE width = 1 /\ height = 1
    <3>1. 1 <= height /\ 1 <= width
      OBVIOUS
    <3>2. 1 * width <= height * width
      BY <3>1, Times
    <3>3. 1 * height <= width * height
      BY <3>1, Times
    <3>4. height * width = width * height /\ 1 * width = width /\ 1 * height = height
      OBVIOUS
    <3> QED
      BY <2>1, <3>1, <3>2, <3>3, <3>4
  <2> QED
    BY <2>1
<1> QED
  BY <1>3, <1>4

LEMMA SameCount ==
  ASSUME NEW A
  PROVE  S!Cardinality(A) = Cardinality(A)
BY DEF S!Cardinality, Cardinality

LEMMA SomCostBounded ==
  ASSUME SomInv
  PROVE  S!CostInUnit
<1> SUFFICES ASSUME at = "done", n > 1, NEW q \in Query, NEW t \in Text
             PROVE  LET cost == S!createCost(q, t)
                    IN  /\ cost[1] <= cost[2]
                        /\ cost[1] = 0 <=> S!Label(cluster[q]) = S!Label(cluster[t])
                        /\ cost[2] = 0 <=> S!Cardinality(S!Node) = 1
  BY DEF S!CostInUnit
<1>1. width \in Nat \ {0} /\ height \in Nat \ {0}
  BY DEF SomInv
<1>2. q \in DOMAIN cluster /\ t \in DOMAIN cluster
  BY DEF SomInv, S!Component
<1>3. cluster[q] \in S!Node /\ cluster[t] \in S!Node
  BY <1>2 DEF SomInv
<1> DEFINE u1 == cluster[q][1]   u2 == cluster[q][2]   v1 == cluster[t][1]   v2 == cluster[t][2]
           w == width - 1   h == height - 1
<1>4. /\ u1 \in 0 .. width - 1 /\ u2 \in 0 .. height - 1 /\ v1 \in 0 .. width - 1 /\ v2 \in 0 .. height - 1
  BY <1>3 DEF S!Node
<1>5. /\ S!createCost(q, t)[1] = S!Square(u1 - v1) + S!Square(u2 - v2)
      /\ S!createCost(q, t)[2] = S!Square(w) + S!Square(h)
  BY DEF S!createCost
<1>6. S!Label(cluster[q]) = u2 * width + u1 /\ S!Label(cluster[t]) = v2 * width + v1
  BY DEF S!Label
<1> DEFINE e == u1 - v1   f == u2 - v2
<1>7. /\ w \in Nat /\ h \in Nat /\ e \in Int /\ f \in Int
      /\ -w <= e /\ e <= w /\ -h <= f /\ f <= h
      /\ (e = 0 <=> u1 = v1) /\ (f = 0 <=> u2 = v2)
      /\ (w = 0 <=> width = 1) /\ (h = 0 <=> height = 1) /\ -w <= w /\ -h <= h
  <2>1. w \in Nat /\ h \in Nat /\ w = width - 1 /\ h = height - 1
    BY <1>1
  <2> HIDE DEF u1, u2, v1, v2
  <2> QED
    BY <1>1, <1>4, <2>1
<1>8. u2 * width + u1 = v2 * width + v1 <=> u1 = v1 /\ u2 = v2
  <2> HIDE DEF u1, u2, v1, v2
  <2>1. u2 \in Int /\ v2 \in Int
    BY <1>1, <1>4
  <2> QED
    BY <1>1, <1>4, <2>1, SameLabel
<1> HIDE DEF u1, u2, v1, v2, w, h
<1>9. S!createCost(q, t)[1] = S!Square(e) + S!Square(f)
  BY <1>5
<1> HIDE DEF e, f
<1>10. /\ S!Square(e) \in Nat /\ S!Square(e) <= S!Square(w) /\ (S!Square(e) = 0 <=> e = 0)
       /\ S!Square(f) \in Nat /\ S!Square(f) <= S!Square(h) /\ (S!Square(f) = 0 <=> f = 0)
       /\ S!Square(w) \in Nat /\ (S!Square(w) = 0 <=> w = 0)
       /\ S!Square(h) \in Nat /\ (S!Square(h) = 0 <=> h = 0)
  <2>1. S!Square(e) \in Nat /\ S!Square(e) <= S!Square(w) /\ (S!Square(e) = 0 <=> e = 0)
    BY <1>7, Squared
  <2>2. S!Square(f) \in Nat /\ S!Square(f) <= S!Square(h) /\ (S!Square(f) = 0 <=> f = 0)
    BY <1>7, Squared
  <2>3. S!Square(w) \in Nat /\ (S!Square(w) = 0 <=> w = 0)
    <3>1. w \in Int /\ w <= w
      BY <1>7
    <3> QED
      BY <1>7, <3>1, Squared
  <2>4. S!Square(h) \in Nat /\ (S!Square(h) = 0 <=> h = 0)
    <3>1. h \in Int /\ h <= h
      BY <1>7
    <3> QED
      BY <1>7, <3>1, Squared
  <2> QED
    BY <2>1, <2>2, <2>3, <2>4
<1>11. /\ S!Square(e) + S!Square(f) <= S!Square(w) + S!Square(h)
       /\ S!Square(e) + S!Square(f) = 0 <=> e = 0 /\ f = 0
       /\ S!Square(w) + S!Square(h) = 0 <=> w = 0 /\ h = 0
  BY <1>10
<1>12. Cardinality(S!Node) = 1 <=> width = 1 /\ height = 1
  BY <1>1, NodeCount
<1>13. S!createCost(q, t)[1] <= S!createCost(q, t)[2]
  BY <1>5, <1>9, <1>11
<1>14. S!createCost(q, t)[1] = 0 <=> S!Label(cluster[q]) = S!Label(cluster[t])
  BY <1>6, <1>7, <1>8, <1>9, <1>11
<1>15. S!createCost(q, t)[2] = 0 <=> S!Cardinality(S!Node) = 1
  BY <1>5, <1>7, <1>11, <1>12, SameCount
<1> QED
  BY <1>13, <1>14, <1>15

-----------------------------------------------------------------------------
(* The invariant of a run: that of the program that is run.                *)
KMeansInv == Typed /\ Paired /\ Settled /\ Carried /\ CentreInv /\ MeanInv

RunInv ==
  /\ program \in {"KMeans", "SOM"}
  /\ program = "KMeans" => KMeansInv
  /\ program = "SOM" => SomInv

LEMMA RunStarts == StartProgram => RunInv
<1>1. ASSUME program = "KMeans", Init PROVE KMeansInv
  <2>1. Typed /\ CentreInv /\ Paired
    BY <1>1, TypedInit, CentreStart DEF Init, Paired, Ready
  <2>2. Settled /\ Carried /\ MeanInv
    BY <1>1 DEF Init, Settled, Carried, Ready, MeanInv
  <2> QED
    BY <2>1, <2>2 DEF KMeansInv
<1> QED
  BY <1>1, SomStart DEF StartProgram, RunInv

LEMMA KMeansSteps ==
  ASSUME KMeansInv, [Next]_vars
  PROVE  KMeansInv'
<1>1. Typed /\ Paired /\ Settled /\ Carried /\ CentreInv /\ MeanInv
  BY DEF KMeansInv
<1>2. Typed'
  BY <1>1, TypedStep
<1>3. Paired'
  BY <1>1, <1>2, PairedStep
<1>4. Settled' /\ Carried'
  BY <1>1, <1>2, SettledStep
<1>5. CentreInv'
  BY <1>1, <1>2, CentreStep
<1>6. MeanInv'
  BY <1>1, <1>2, MeanStep
<1> QED
  BY <1>2, <1>3, <1>4, <1>5, <1>6 DEF KMeansInv

LEMMA RunSteps ==
  ASSUME RunInv, [Run]_<<program, vars, som>>
  PROVE  RunInv'
<1>1. program' = program
  BY DEF Run, RunKMeans, RunSom
<1>2. CASE program = "KMeans"
  <2>1. [Next]_vars
    BY <1>2 DEF Run, RunKMeans, RunSom
  <2>2. KMeansInv'
    BY <1>2, <2>1, KMeansSteps DEF RunInv
  <2> QED
    BY <1>1, <1>2, <2>2 DEF RunInv
<1>3. CASE program = "SOM"
  <2>1. S!Next \/ UNCHANGED som
    BY <1>3 DEF Run, RunKMeans, RunSom
  <2>2. SomInv'
    BY <1>3, <2>1, SomNext DEF RunInv
  <2> QED
    BY <1>1, <1>3, <2>2 DEF RunInv
<1> QED
  BY <1>2, <1>3 DEF RunInv

LEMMA RunInvHolds == MatchingSpec => []RunInv
<1>1. StartProgram => RunInv
  BY RunStarts
<1>2. RunInv /\ [Run]_<<program, vars, som>> => RunInv'
  BY RunSteps
<1> QED
  BY <1>1, <1>2, PTL DEF MatchingSpec

(* Both programs classify a component with the nearest of their classes.   *)
THEOREM ClassNearestHolds == MatchingSpec => []ClassNearest
<1>1. RunInv => ClassNearest
  <2> SUFFICES ASSUME RunInv PROVE ClassNearest
    OBVIOUS
  <2>1. CASE program = "SOM"
    BY <2>1 DEF RunInv, SomInv, ClassNearest
  <2>2. CASE program # "SOM"
    <3>1. KMeansInv
      BY <2>2 DEF RunInv
    <3>2. NearestLast
      BY <3>1, SettledIsLast DEF KMeansInv
    <3>3. CentreIsMean /\ NearestAgrees
      BY <3>1, <3>2, CentresAreMeans, LastIsNearest DEF KMeansInv
    <3> QED
      BY <2>2, <3>3 DEF ClassNearest
  <2> QED
    BY <2>1, <2>2
<1> QED
  BY <1>1, RunInvHolds, PTL

(* The walk back from the last cell finds a cheapest warping path.         *)
THEOREM WarpingOptimalHolds == MatchingSpec => []WarpingOptimal
<1>1. RunInv => WarpingOptimal
  <2> SUFFICES ASSUME RunInv, program = "SOM" PROVE S!D!PathOptimal
    BY DEF WarpingOptimal
  <2> QED
    BY OptimalThen DEF RunInv, SomInv
<1> QED
  BY <1>1, RunInvHolds, PTL

(* The costs handed to the matching lie between zero and one.              *)
THEOREM CostsInUnitHolds == MatchingSpec => []CostsInUnit
<1>1. RunInv => CostsInUnit
  <2> SUFFICES ASSUME RunInv PROVE CostsInUnit
    OBVIOUS
  <2>1. CASE program = "SOM"
    BY <2>1, SomCostBounded DEF RunInv, CostsInUnit
  <2>2. CASE program # "SOM"
    BY <2>2, CostBounded DEF RunInv, KMeansInv, CostsInUnit
  <2> QED
    BY <2>1, <2>2
<1> QED
  BY <1>1, RunInvHolds, PTL

=============================================================================
