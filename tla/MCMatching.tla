----------------------------- MODULE MCMatching -----------------------------
(* Three samples in five clusters, of which some are empty; all samples    *)
(* are multiples of six, so that a mean of up to three is exact.  Maps of  *)
(* up to four nodes for features of two values, of one node for three.     *)
EXTENDS Matching

CONSTANTS t1, q1

MCSamples == [1 .. 3 -> {-6, 6, 18}]
MCLabels  == [1 .. 3 -> 0 .. 4]
MCVectors == {-6, 0, 9}

MCMaps    == {<<1, 1, 3>>, <<3, 1, 2>>, <<2, 2, 2>>, <<2, 1, 1>>}
MCGarbage == {<<0, 0>>, <<-1, 7>>}

Abs(a) == IF a < 0 THEN -a ELSE a
Matrices(l, Values) ==
  {[e \in (1 .. l) \X (1 .. l) |-> Abs(v[e[1]] - w[e[2]])] : v, w \in [1 .. l -> Values]}
MCDistances == Matrices(1, {0, 1}) \cup Matrices(2, {0, 1}) \cup Matrices(3, {0, 1, 3})
=============================================================================
