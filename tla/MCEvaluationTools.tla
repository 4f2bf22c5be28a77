------------------------- MODULE MCEvaluationTools -------------------------
(* Drawing: two texts and two queries, of which one image may be           *)
(* unreadable, two places in the window, two boxes, three sessions.        *)
(* Comparing: two pages, two methods, boxes in one row of four points.     *)
(* BoxA, BoxB, BoxE share points: BoxB has three quarters of BoxA, BoxE    *)
(* just half of it; BoxC the other half.  BoxR has its corners reversed.   *)
EXTENDS EvaluationTools, Sequences

CONSTANTS p1, p2

MCText  == <<"t1", "t2">>
MCQuery == <<"q1", "q2">>
MCUnreadable == {{}, {"t1"}, {"t2"}, {"q2"}}
MCPoint == {<<1, 1>>, <<2, 1>>}

Rec(q, x1, x2, dist) ==
  [query |-> q, x1 |-> x1, y1 |-> 0, x2 |-> x2, y2 |-> 0, editDistance |-> dist]

BoxA(d) == Rec("q1", 0, 3, d)
BoxB(d) == Rec("q1", 0, 2, d)
BoxE(d) == Rec("q1", 0, 1, d)
BoxC(d) == Rec("q1", 2, 3, d)
BoxR(d) == Rec("q1", 3, 0, d)
BoxO(d) == Rec("q2", 0, 3, d)

MCRecord  == UNION {{BoxA(d), BoxB(d), BoxC(d), BoxE(d), BoxR(d), BoxO(d)} : d \in 0 .. 2}
MCGarbage == {Rec("", 0, 1, 0), Rec("", 1, 0, 2)}

Truths ==
  {NoFile, <<>>, <<BoxA(0)>>, <<BoxA(0), BoxB(0)>>, <<BoxC(0), BoxE(0), BoxR(0)>>}

Matched ==
  {NoFile, <<>>, <<BoxO(0)>>, <<BoxB(1), BoxA(0)>>, <<BoxA(2), BoxB(0), BoxR(1)>>,
   <<BoxE(0), BoxC(1)>>}

MCGroundTruths == [Page -> Truths]
MCOutputs ==
  {<<f, [p \in Page |-> g]>> : f \in [Page -> Matched \cup {Unreadable, Unparsable}],
                                g \in {NoFile, <<BoxA(0)>>}}
MCAbsent == {{}, {1}, {2}, {1, 2}}
MCMarked == {{}, {<<1, p1>>}}
=============================================================================
