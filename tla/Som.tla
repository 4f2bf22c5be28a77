-------------------------------- MODULE Som --------------------------------
(***************************************************************************)
(* som_loader.h: each component is assigned the node of the map nearest to *)
(* it by dynamic time warping (dtw.h, module Dtw), and the cost of         *)
(* matching two is the distance of their nodes on the grid, relative to    *)
(* the diagonal.                                                           *)
(*                                                                         *)
(*  component  createCostMatrix asks for the node of the next component    *)
(*  node       the loops of getCluster; at a node it calls dTWDistance     *)
(***************************************************************************)
EXTENDS Integers, Sequences, FiniteSets

CONSTANTS
  Maps,          \* width and height of the map, and the length of a feature
  GarbagePoints, \* what an uninitialised point may hold
  Text, Query,   \* the components
  ValueDistances, Infinity   \* of Dtw

Component == Text \cup Query

VARIABLES
  width, height, n,
  c,          \* the component
  x, y,       \* the node looked at
  min, minpt, \* the nearest so far
  cluster,    \* the nodes found: ST and SQ
  seen,       \* history: the distances of the component, as far as known
  at,         \* where in the program
  n1, n2, d, DTW, i, j, K, visited, pc   \* of Dtw

D == INSTANCE Dtw

state == <<width, height, n, c, x, y, min, minpt, cluster, seen, at>>
warp  == <<n1, n2, d, DTW, i, j, K, visited, pc>>

Inputs ==
  /\ Maps \subseteq (Nat \ {0}) \X (Nat \ {0}) \X (Nat \ {0})
  /\ GarbagePoints \subseteq Int \X Int
  /\ Text \cap Query = {}
  /\ D!Inputs

Node == (0 .. width - 1) \X (0 .. height - 1)

(* Distances are quotients; dist < min is false of what is not a number,   *)
(* 0/0, and of INFINITY.                                                   *)
INFINITY == <<1, 0>>

Less(a, b) == a[2] > 0 /\ (b[2] = 0 \/ a[1] * b[2] < b[1] * a[2])

Todo == Component \ DOMAIN cluster

Init ==
  /\ \E m \in Maps : width = m[1] /\ height = m[2] /\ n = m[3]
  /\ c \in Component
  /\ x = 0 /\ y = 0
  /\ min = INFINITY /\ minpt = <<0, 0>>
  /\ cluster = <<>> /\ seen = <<>>
  /\ at = "component"
  /\ D!Init

(* getCluster is called; minpt is not initialised. *)
GetCluster ==
  /\ at = "component" /\ Todo # {}
  /\ c' \in IF Todo \cap Query # {} THEN Todo \cap Query ELSE Todo
  /\ x' = 0 /\ y' = 0
  /\ min' = INFINITY /\ minpt' \in GarbagePoints
  /\ seen' = <<>>
  /\ at' = "node"
  /\ UNCHANGED <<width, height, n, cluster, warp>>

CallDTW ==
  /\ at = "node" /\ y < height
  /\ D!dTWDistance(n, n)
  /\ UNCHANGED state

StepDTW == D!Next /\ UNCHANGED state

NextNode == IF x < width - 1 THEN x' = x + 1 /\ y' = y ELSE x' = 0 /\ y' = y + 1

(* Mutant: the least distance is forgotten. *)
LookAtForget ==
  /\ at = "node" /\ pc = "done"
  /\ minpt' = IF Less(D!Result, min) THEN <<x, y>> ELSE minpt
  /\ seen' = [p \in DOMAIN seen \cup {<<x, y>>} |-> IF p = <<x, y>> THEN D!Result ELSE seen[p]]
  /\ NextNode
  /\ D!Discard
  /\ UNCHANGED <<width, height, n, c, min, cluster, at>>

LookAt ==
  /\ at = "node" /\ pc = "done"
  /\ IF Less(D!Result, min)
     THEN min' = D!Result /\ minpt' = <<x, y>>
     ELSE UNCHANGED <<min, minpt>>
  /\ seen' = [p \in DOMAIN seen \cup {<<x, y>>} |-> IF p = <<x, y>> THEN D!Result ELSE seen[p]]
  /\ NextNode
  /\ D!Discard
  /\ UNCHANGED <<width, height, n, c, cluster, at>>

ReturnCluster ==
  /\ at = "node" /\ y = height
  /\ cluster' = [e \in DOMAIN cluster \cup {c} |-> IF e = c THEN minpt ELSE cluster[e]]
  /\ at' = "component"
  /\ UNCHANGED <<width, height, n, c, x, y, min, minpt, seen, warp>>

EndComponents ==
  /\ at = "component" /\ Todo = {}
  /\ at' = "done"
  /\ UNCHANGED <<width, height, n, c, x, y, min, minpt, cluster, seen, warp>>

Next ==
  \/ GetCluster \/ CallDTW \/ StepDTW \/ LookAt \/ ReturnCluster
  \/ EndComponents

-----------------------------------------------------------------------------
Square(a) == a * a

(* cost[q][t], squared, as a pair of numerator and denominator. *)
createCost(q, t) ==
  <<Square(cluster[q][1] - cluster[t][1]) + Square(cluster[q][2] - cluster[t][2]),
    Square(width - 1) + Square(height - 1)>>

(* createSequence's number of a node. *)
Label(p) == p[2] * width + p[1]

-----------------------------------------------------------------------------
(* Features have two values or more: then the node found for a component   *)
(* is one of the map, and none is nearer by the best warping.  (With a     *)
(* single value every distance is x/0 or 0/0, and the point stays          *)
(* uninitialised.)                                                         *)
ClusterNearest ==
  (at = "component" /\ n > 1 /\ c \in DOMAIN cluster) =>
    /\ DOMAIN seen = Node /\ cluster[c] \in Node
    /\ \A p \in Node : ~Less(seen[p], seen[cluster[c]])

(* Then the costs lie between zero and one, zero just for components of    *)
(* the same class, but on the map of one node, where they are 0/0.         *)
CostInUnit ==
  (at = "done" /\ n > 1) =>
    \A q \in Query, t \in Text :
      LET cost == createCost(q, t)
      IN  /\ cost[1] <= cost[2]
          /\ cost[1] = 0 <=> Label(cluster[q]) = Label(cluster[t])
          /\ cost[2] = 0 <=> Cardinality(Node) = 1
=============================================================================
