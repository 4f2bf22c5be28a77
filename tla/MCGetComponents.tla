-------------------------- MODULE MCGetComponents --------------------------
(* Lists of up to four of these boxes, in the order of the raster scan.  The *)
(* boxes are chosen so that each pass keeps, drops, joins and cascades.     *)
EXTENDS GetComponents, FiniteSetsExt

At(x1, x2, y1, y2) == [left |-> x1, right |-> x2, top |-> y1, bottom |-> y2]

MCBoxes ==
  {At(0, 19, 0, 39),       \* grouped with the next one
   At(4, 21, 50, 89),
   At(0, 39, 1, 199),      \* tall: the small ones near it are its parts
   At(45, 56, 10, 39),
   At(60, 70, 160, 182),   \* a small part within reach of a grown component
   At(100, 129, 2, 31),    \* joined only when the next two have been joined
   At(140, 169, 20, 99),
   At(125, 145, 60, 100),
   At(5, 9, 3, 9),         \* noise
   At(100, 119, 230, 430), \* too tall for its width for the second filter
   At(0, 19, 240, 300),
   At(200, 219, 4, 44),    \* matches the next one only when grown by the third
   At(208, 227, 61, 101),
   At(204, 223, 120, 161),
   At(240, 259, 5, 44),    \* small part of the next one grown by the third
   At(262, 290, 11, 80),
   At(264, 279, 90, 115)}

(* Two components cannot cross: a path from the left to the right edge of   *)
(* one and a path from the top to the bottom edge of the other would meet. *)
Crosses(a, b) ==
  /\ a.left <= b.left /\ a.right >= b.right
  /\ b.top <= a.top /\ b.bottom >= a.bottom

Possible(S) == \A a, b \in S : a # b => ~Crosses(a, b)

MCInputs ==
  {SetToSortSeq(S, LAMBDA a, b : a.top < b.top) :
     S \in {T \in UNION {kSubset(n, MCBoxes) : n \in 0 .. 4} : Possible(T)}}
=============================================================================
