------------------------ MODULE GetComponentsProofs ------------------------
(***************************************************************************)
(* The passes of getComponents, for every list of boxes: types, the        *)
(* settled results of the grouping and joining passes, and that the boxes  *)
(* returned are disjoint, tight, in order and past the second filter.      *)
(*                                                                         *)
(* The argument.  A search or joining pass that has found nothing so far   *)
(* has compared all pairs before (i, j); when it ends without having found *)
(* anything it has compared all pairs, and the tests are symmetric.  What  *)
(* runs after the last pass only takes components out or permutes them.    *)
(* The box of a merge is the least around both boxes, so it stays tight;   *)
(* the second filter has passed all before i, an erasure keeping i; and    *)
(* after a pass of the bubble sort the largest of what was left is last.   *)
(*                                                                         *)
(* Last, that getComponents implements Grouping: its passes only join two  *)
(* blocks of labelled components or drop one.  The components in use       *)
(* always have non-empty and pairwise disjoint sets of parts, so that      *)
(* taking one out of the list takes one block away and a merge replaces    *)
(* exactly two; the copy that CompOverlapRemove works on and the list it   *)
(* refills hold the same blocks when they change roles.                    *)
(*                                                                         *)
(* At the end: every step lowers a measure that cannot fall for ever.      *)
(***************************************************************************)
EXTENDS GetComponents, SequenceTheorems, FiniteSetTheorems,
        WellFoundedInduction, TLAPS

-----------------------------------------------------------------------------
(* What erasing an element does to a list. *)

(* Removing the element at n closes the gap. *)
LEMMA RemoveAtElements ==
  ASSUME NEW S, NEW s \in Seq(S), NEW n \in 1 .. Len(s)
  PROVE  /\ RemoveAt(s, n) \in Seq(S)
         /\ Len(RemoveAt(s, n)) = Len(s) - 1
         /\ \A k \in 1 .. Len(s) - 1 : RemoveAt(s, n)[k] = IF k < n THEN s[k] ELSE s[k + 1]
<1> DEFINE front == SubSeq(s, 1, n - 1)
           back  == SubSeq(s, n + 1, Len(s))
<1>1. Len(s) \in Nat /\ \A k \in 1 .. Len(s) : s[k] \in S
  OBVIOUS
<1>2. /\ front \in Seq(S)
      /\ Len(front) = n - 1
      /\ \A k \in 1 .. n - 1 : front[k] = s[k]
  <2>1. 1 \in Int /\ n - 1 \in Int /\ \A k \in 1 .. n - 1 : s[k] \in S
    BY <1>1
  <2>2. /\ front \in Seq(S)
        /\ Len(front) = IF 1 <= n - 1 THEN n - 1 - 1 + 1 ELSE 0
        /\ \A k \in 1 .. n - 1 - 1 + 1 : front[k] = s[1 + k - 1]
    BY <2>1, SubSeqProperties
  <2> QED
    BY <2>2, <1>1
<1>3. /\ back \in Seq(S)
      /\ Len(back) = Len(s) - n
      /\ \A k \in 1 .. Len(s) - n : back[k] = s[n + k]
  <2>1. n + 1 \in Int /\ Len(s) \in Int /\ \A k \in n + 1 .. Len(s) : s[k] \in S
    BY <1>1
  <2>2. /\ back \in Seq(S)
        /\ Len(back) = IF n + 1 <= Len(s) THEN Len(s) - (n + 1) + 1 ELSE 0
        /\ \A k \in 1 .. Len(s) - (n + 1) + 1 : back[k] = s[n + 1 + k - 1]
    BY <2>1, SubSeqProperties
  <2> QED
    BY <2>2, <1>1
<1> HIDE DEF front, back
<1>4. /\ front \o back \in Seq(S)
      /\ Len(front \o back) = Len(front) + Len(back)
      /\ \A k \in 1 .. Len(front) + Len(back) :
           (front \o back)[k] = IF k <= Len(front) THEN front[k] ELSE back[k - Len(front)]
  BY <1>2, <1>3, ConcatProperties
<1>5. RemoveAt(s, n) = front \o back
  BY DEF RemoveAt, front, back
<1>6. ASSUME NEW k \in 1 .. Len(s) - 1
      PROVE  (front \o back)[k] = IF k < n THEN s[k] ELSE s[k + 1]
  <2>1. k \in 1 .. Len(front) + Len(back)
    BY <1>1, <1>2, <1>3
  <2>2. CASE k < n
    BY <1>1, <1>2, <1>4, <2>1, <2>2
  <2>3. CASE ~(k < n)
    <3>1. k - (n - 1) \in 1 .. Len(s) - n /\ n + (k - (n - 1)) = k + 1
      BY <1>1, <2>3
    <3>2. (front \o back)[k] = back[k - (n - 1)]
      BY <1>1, <1>2, <1>4, <2>1, <2>3
    <3> QED
      BY <1>3, <2>3, <3>1, <3>2
  <2> QED
    BY <2>2, <2>3
<1>7. Len(front \o back) = Len(s) - 1
  BY <1>1, <1>2, <1>3, <1>4
<1> QED
  BY <1>4, <1>5, <1>6, <1>7

-----------------------------------------------------------------------------
(* Types.  The Boolean is kept apart from the numbers. *)
Rest ==
  /\ input \in Seq(Box)
  /\ l \in Seq(Component)
  /\ tmp \in Seq(Component)
  /\ flagged \subseteq 1 .. Len(tmp)
  /\ i \in Nat \ {0}
  /\ j \in Nat \ {0, 1}
  /\ th \in Nat
  /\ pc \in {"filter1", "overlap", "collect", "sum", "small", "bbox",
             "filter2", "sort", "done", "crash"}

LEMMA TypeSplit == TypeOK <=> Rest /\ changed \in BOOLEAN
BY Zenon DEF TypeOK, Rest

LEMMA ComponentFields ==
  ASSUME NEW c \in Component
  PROVE  /\ c.parts \subseteq 1 .. Len(input)
         /\ c.box \in Box
         /\ c.box.left \in Int /\ c.box.right \in Int
         /\ c.box.top \in Int /\ c.box.bottom \in Int
         /\ c.box.left <= c.box.right /\ c.box.top <= c.box.bottom
         /\ width(c) \in Nat \ {0} /\ height(c) \in Nat \ {0}
BY DEF Component, Box, width, height

LEMMA MergedType ==
  ASSUME NEW a \in Component, NEW b \in Component
  PROVE  Merged(a, b) \in Component
BY ComponentFields DEF Merged, Component, Box, Smaller, Larger

LEMMA InitType == ASSUME Init PROVE TypeOK
<1>1. input \in Seq(Box)
  BY InputsAssumption DEF Init
<1>2. l \in Seq(Component)
  BY <1>1 DEF Init, Component
<1>3. tmp \in Seq(Component) /\ flagged \subseteq 1 .. Len(tmp)
  BY EmptySeq DEF Init
<1>4. i \in Nat \ {0} /\ j \in Nat \ {0, 1} /\ th \in Nat /\ pc = "filter1"
  BY DEF Init
<1>5. changed \in BOOLEAN
  BY Zenon DEF Init
<1> QED
  BY <1>1, <1>2, <1>3, <1>4, <1>5, TypeSplit DEF Rest

LEMMA PassType ==
  ASSUME NEW phase, StartPass(phase)
  PROVE  i' \in Nat \ {0} /\ j' \in Nat \ {0, 1} /\ pc' = phase
BY DEF StartPass

LEMMA ChangedType == ASSUME changed \in BOOLEAN, [Next]_vars PROVE changed' \in BOOLEAN
BY Zenon DEF Next, vars, StartPass, KeepComp, EraseComp, EndFilter1, EndFilter2, Absorb,
         PassOver, NextToGroup, EndSearch, Collect, EndCollect, AddWidth, DivideSum, Join,
         Skip, NextToJoin, EndPass, Compare, NextBubble, EndSort

LEMMA NextType == ASSUME Rest, [Next]_vars PROVE Rest'
<1> USE DEF Rest
<1>0. Len(l) \in Nat /\ Len(tmp) \in Nat
  OBVIOUS
<1>c. input' = input /\ Component' = Component
  BY DEF Next, vars, KeepComp, EraseComp, EndFilter1, EndFilter2, Absorb, PassOver, NextToGroup,
         EndSearch, Collect, EndCollect, AddWidth, DivideSum, Join, Skip, NextToJoin, EndPass,
         Compare, NextBubble, EndSort, Component
<1> USE <1>c
<1>1. CASE KeepComp
  BY <1>1 DEF KeepComp
<1>2. CASE EraseComp
  BY <1>2, RemoveAtElements DEF EraseComp
<1>3. CASE EndFilter1 \/ EndFilter2
  <2>1. /\ i' \in Nat \ {0} /\ j' \in Nat \ {0, 1} 
        /\ th' = th /\ l' = l
    BY <1>3, PassType DEF EndFilter1, EndFilter2
  <2>2. tmp' \in Seq(Component) /\ flagged' \subseteq 1 .. Len(tmp')
    BY <1>3 DEF EndFilter1, EndFilter2
  <2>3. pc' \in {"overlap", "sort", "crash"}
    BY <1>3 DEF EndFilter1, EndFilter2, StartPass
  <2> QED
    BY <2>1, <2>2, <2>3
<1>4. CASE Absorb
  <2>1. tmp[i] \in Component /\ tmp[j] \in Component
    BY <1>4 DEF Absorb
  <2>2. tmp' \in Seq(Component) /\ Len(tmp') = Len(tmp)
    <3> HIDE DEF Rest
    <3>1. tmp \in Seq(Component) /\ i \in 1 .. Len(tmp)
      BY <1>4 DEF Rest, Absorb
    <3>2. Merged(tmp[i], tmp[j]) \in Component
      BY <2>1, MergedType
    <3> QED
      BY <1>4, <3>1, <3>2, ExceptSeq DEF Absorb
  <2>3. flagged' \subseteq 1 .. Len(tmp)
    BY <1>4, <1>0 DEF Absorb
  <2>4. /\ i' \in Nat \ {0} /\ j' \in Nat \ {0, 1} 
        /\ pc' = "overlap" /\ th' = th /\ l' = l
    BY <1>4, PassType DEF Absorb
  <2>5. flagged' \subseteq 1 .. Len(tmp')
    BY <2>2, <2>3
  <2> QED
    BY <2>2, <2>4, <2>5
<1>5. CASE PassOver \/ NextToGroup
  <2>1. UNCHANGED <<input, tmp, flagged, th>>
    BY <1>5 DEF PassOver, NextToGroup
  <2>2. l' \in Seq(Component)
    BY <1>5, EmptySeq DEF PassOver, NextToGroup
  <2>3. i' \in Nat \ {0} /\ j' \in Nat \ {0, 1}
    BY <1>5, PassType DEF PassOver, NextToGroup
  <2>4. pc' \in {"overlap", "collect", "sum", "small", "bbox", "sort", "done"}
    BY <1>5, PassType DEF PassOver, NextToGroup, Joining
  <2> QED
    BY <2>1, <2>2, <2>3, <2>4
<1>6. CASE EndSearch \/ EndCollect
  <2>1. UNCHANGED <<input, tmp, flagged, th>>
    BY <1>6 DEF EndSearch, EndCollect
  <2>2. l' \in Seq(Component)
    BY <1>6, EmptySeq DEF EndSearch, EndCollect
  <2>3. i' \in Nat \ {0} /\ j' \in Nat \ {0, 1}
    BY <1>6, PassType DEF EndSearch, EndCollect
  <2>4. pc' \in {"overlap", "collect", "sum", "small", "bbox", "sort", "done"}
    BY <1>6, PassType DEF EndSearch, EndCollect, Joining
  <2> QED
    BY <2>1, <2>2, <2>3, <2>4
<1>7. CASE Collect
  <2>1. tmp[i] \in Component
    BY <1>7 DEF Collect
  <2> QED
    BY <1>7, <2>1 DEF Collect
<1>8. CASE AddWidth
  <2>1. l[i] \in Component
    BY <1>8 DEF AddWidth
  <2>2. width(l[i]) \in Nat
    BY <2>1, ComponentFields
  <2> QED
    BY <1>8, <2>2 DEF AddWidth
<1>9. CASE DivideSum
  <2>1. l # <<>> => Len(l) > 0
    BY EmptySeq
  <2>2. l # <<>> => th \div (4 * Len(l)) \in Nat
    BY <2>1, <1>0, SMTT(30)
  <2> QED
    BY <1>9, <2>2 DEF DivideSum, StartPass
<1>10. CASE Join
  <2> HIDE DEF Rest
  <2>1. l \in Seq(Component) /\ i \in 1 .. Len(l) /\ j \in 1 .. Len(l)
    BY <1>10 DEF Rest, Join
  <2>2. Merged(l[i], l[j]) \in Component
    BY <2>1, MergedType
  <2>3. [l EXCEPT ![i] = Merged(l[i], l[j])] \in Seq(Component)
        /\ Len([l EXCEPT ![i] = Merged(l[i], l[j])]) = Len(l)
    BY <2>1, <2>2, ExceptSeq
  <2>4. l' \in Seq(Component)
    BY <1>10, <2>1, <2>3, RemoveAtElements DEF Join
  <2> QED
    BY <1>10, <2>4 DEF Join, Rest
<1>11. CASE Skip \/ NextToJoin
  <2>1. UNCHANGED <<input, tmp, flagged, th>>
    BY <1>11 DEF Skip, NextToJoin
  <2>2. l' \in Seq(Component)
    BY <1>11, EmptySeq DEF Skip, NextToJoin
  <2>3. i' \in Nat \ {0} /\ j' \in Nat \ {0, 1}
    BY <1>11, PassType DEF Skip, NextToJoin
  <2>4. pc' \in {"overlap", "collect", "sum", "small", "bbox", "sort", "done"}
    BY <1>11, PassType DEF Skip, NextToJoin, Joining
  <2> QED
    BY <2>1, <2>2, <2>3, <2>4
<1>12. CASE EndPass
  BY <1>12 DEF EndPass, StartPass, Joining
<1>13. CASE Compare
  <2>1. j - 1 \in 1 .. Len(l) /\ j \in 1 .. Len(l)
    BY <1>13, <1>0 DEF Compare
  <2>2. l' \in Seq(Component)
    BY <1>13, <2>1 DEF Compare, Exchanged
  <2> QED
    BY <1>13, <2>2 DEF Compare
<1>14. CASE NextBubble \/ EndSort
  <2>1. UNCHANGED <<input, tmp, flagged, th>>
    BY <1>14 DEF NextBubble, EndSort
  <2>2. l' \in Seq(Component)
    BY <1>14, EmptySeq DEF NextBubble, EndSort
  <2>3. i' \in Nat \ {0} /\ j' \in Nat \ {0, 1}
    BY <1>14, PassType DEF NextBubble, EndSort
  <2>4. pc' \in {"overlap", "collect", "sum", "small", "bbox", "sort", "done"}
    BY <1>14, PassType DEF NextBubble, EndSort, Joining
  <2> QED
    BY <2>1, <2>2, <2>3, <2>4
<1>15. CASE UNCHANGED vars
  BY <1>15 DEF vars
<1> QED
  BY <1>1, <1>2, <1>3, <1>4, <1>5, <1>6, <1>7, <1>8, <1>9, <1>10, <1>11, <1>12, <1>13, <1>14,
     <1>15 DEF Next

(* The type invariant, for all lists of boxes. *)
THEOREM TypeCorrect == Spec => []TypeOK
<1>1. TypeOK /\ [Next]_vars => TypeOK'
  <2>1. Rest' /\ changed' \in BOOLEAN => TypeOK'
    BY Zenon DEF TypeOK, Rest
  <2> QED
    BY <2>1, NextType, ChangedType, TypeSplit
<1> QED
  BY InitType, <1>1, PTL DEF Spec

-----------------------------------------------------------------------------
(* The inductive invariant. *)

Compared(a, b) == a < i \/ (a = i /\ b < j)

Unflagged == (1 .. Len(tmp)) \ flagged

SearchInv ==
  pc = "overlap" =>
    \A a, b \in Unflagged : a < b /\ Compared(a, b) => ~Groups(tmp[a], tmp[b])

CollectInv ==
  pc = "collect" =>
    /\ \A a, b \in Unflagged : a < b => ~Groups(tmp[a], tmp[b])
    /\ \A k \in 1 .. Len(l) : \E m \in Unflagged : m < i /\ l[k] = tmp[m]
    /\ \A k, n \in 1 .. Len(l) : k < n => ~Groups(l[k], l[n])

SettledInv ==
  pc = "sum" => \A k, n \in 1 .. Len(l) : k < n => ~Groups(l[k], l[n])

PassInv ==
  Joining /\ ~changed =>
    \A a, b \in 1 .. Len(l) : a < b /\ Compared(a, b) => ~Joins(l[a], l[b])

Disjoint(s) ==
  \A a, b \in 1 .. Len(s) : a # b => ~boundingBoxOverlaps(s[a], s[b])

AfterInv == pc \in {"filter2", "sort", "done"} => Disjoint(l)

IInv == Rest /\ SearchInv /\ CollectInv /\ SettledInv /\ PassInv /\ AfterInv

-----------------------------------------------------------------------------
(* The searching and joining loops. *)

LEMMA InitInv == ASSUME Init PROVE IInv
<1>1. pc = "filter1"
  BY DEF Init
<1>2. Rest
  BY InitType, TypeSplit
<1> QED
  BY <1>1, <1>2 DEF IInv, SearchInv, CollectInv, SettledInv, PassInv, AfterInv, Joining

(* Nothing has been compared when a pass starts. *)
LEMMA NothingCompared ==
  ASSUME NEW phase, StartPass(phase), NEW a \in Nat \ {0}, NEW b \in Nat, a < b
  PROVE  ~Compared(a, b)'
BY DEF StartPass, Compared

LEMMA SearchStep == ASSUME IInv, Rest', Next PROVE SearchInv'
<1> USE DEF IInv, Rest
<1> SUFFICES ASSUME pc' = "overlap", NEW a \in Unflagged', NEW b \in Unflagged',
                    a < b, Compared(a, b)'
             PROVE  ~Groups(tmp[a], tmp[b])'
  BY DEF SearchInv
<1>0. a \in Nat \ {0} /\ b \in Nat \ {0} /\ a <= Len(tmp') /\ b <= Len(tmp')
  BY DEF Unflagged
<1>1. CASE EndFilter1 \/ Absorb
  <2>1. StartPass("overlap")
    BY <1>1 DEF EndFilter1, Absorb
  <2> QED
    BY <2>1, <1>0, NothingCompared
<1>2. CASE PassOver
  <2>1. tmp' = tmp /\ flagged' = flagged /\ i' = i /\ j' = j + 1 /\ pc = "overlap"
    BY <1>2 DEF PassOver
  <2>2. a \in Unflagged /\ b \in Unflagged
    BY <2>1 DEF Unflagged
  <2>3. CASE Compared(a, b)
    BY <2>1, <2>2, <2>3 DEF SearchInv, Groups, SameWidth, Overlap2Line, width
  <2>4. CASE ~Compared(a, b)
    <3>1. a = i /\ b = j
      BY <2>1, <2>4, <1>0 DEF Compared
    <3>2. ~Groups(tmp[i], tmp[j])
      BY <1>2, <3>1, <2>2 DEF PassOver, Unflagged
    <3> QED
      BY <3>1, <3>2, <2>1
  <2> QED
    BY <2>3, <2>4
<1>3. CASE NextToGroup
  <2>1. /\ tmp' = tmp /\ flagged' = flagged /\ i' = i + 1 /\ j' = i + 2 /\ pc = "overlap"
        /\ i \in flagged \/ j > Len(tmp)
    BY <1>3 DEF NextToGroup
  <2>2. a \in Unflagged /\ b \in Unflagged
    BY <2>1 DEF Unflagged
  <2>3. a < i \/ a = i
    BY <2>1, <1>0 DEF Compared
  <2>4. Compared(a, b)
    BY <2>1, <2>2, <2>3, <1>0 DEF Compared, Unflagged
  <2> QED
    BY <2>1, <2>2, <2>4 DEF SearchInv
<1>4. CASE ~(EndFilter1 \/ Absorb \/ PassOver \/ NextToGroup)
  BY <1>4 DEF Next, StartPass, KeepComp, EraseComp, EndFilter2, EndSearch, Collect,
       EndCollect, AddWidth, DivideSum, Join, Skip, NextToJoin, EndPass, Compare,
       NextBubble, EndSort, Joining, Filtering
<1> QED
  BY <1>1, <1>2, <1>3, <1>4

LEMMA EarlierIndex ==
  ASSUME NEW N \in Nat, NEW k \in 1 .. N + 1, NEW n \in 1 .. N + 1, k < n
  PROVE  k \in 1 .. N
OBVIOUS

LEMMA CollectStep == ASSUME IInv, Rest', Next PROVE CollectInv'
<1> USE DEF IInv, Rest
<1> SUFFICES ASSUME pc' = "collect" PROVE CollectInv'
  BY DEF CollectInv
<1>1. CASE EndSearch
  <2>1. /\ tmp' = tmp /\ flagged' = flagged /\ l' = <<>> /\ pc = "overlap" /\ i > Len(tmp)
    BY <1>1 DEF EndSearch
  <2>2. \A a, b \in Unflagged : a < b => ~Groups(tmp[a], tmp[b])
    <3> TAKE a, b \in Unflagged
    <3>1. Compared(a, b)
      BY <2>1 DEF Compared, Unflagged
    <3> QED
      BY <2>1, <3>1 DEF SearchInv
  <2>3. Unflagged' = Unflagged /\ 1 .. Len(l') = {}
    BY <2>1, EmptySeq DEF Unflagged
  <2> QED
    BY <2>1, <2>2, <2>3 DEF CollectInv
<1>2. CASE Collect
  <2>1. /\ tmp' = tmp /\ flagged' = flagged /\ i' = i + 1 /\ pc = "collect" /\ i <= Len(tmp)
        /\ l' = IF i \in flagged THEN l ELSE Append(l, tmp[i])
    BY <1>2 DEF Collect
  <2>2. Unflagged' = Unflagged
    BY <2>1 DEF Unflagged
  <2>3. CASE i \in flagged
    <3>1. l' = l
      BY <2>1, <2>3
    <3>2. \A k \in 1 .. Len(l) : \E m \in Unflagged : m < i + 1 /\ l[k] = tmp[m]
      <4> TAKE k \in 1 .. Len(l)
      <4>1. PICK m \in Unflagged : m < i /\ l[k] = tmp[m]
        BY <2>1 DEF CollectInv
      <4>2. m < i + 1
        BY <4>1 DEF Unflagged
      <4> QED
        BY <4>1, <4>2
    <3> QED
      BY <2>1, <2>2, <3>1, <3>2 DEF CollectInv
  <2>4. CASE i \notin flagged
    <3>1. i \in Unflagged /\ tmp[i] \in Component
      BY <2>1, <2>4 DEF Unflagged
    <3>2. /\ Len(l) \in Nat /\ Len(l') = Len(l) + 1
          /\ l'[Len(l) + 1] = tmp[i]
          /\ \A k \in 1 .. Len(l) : l'[k] = l[k]
      BY <2>1, <2>4, <3>1
    <3>3. ASSUME NEW k \in 1 .. Len(l')
          PROVE  \E m \in Unflagged : m < i + 1 /\ l'[k] = tmp[m]
      <4>1. CASE k = Len(l) + 1
        <5>1. l'[k] = tmp[i] /\ i < i + 1
          BY <4>1, <3>2
        <5> QED
          BY <3>1, <5>1
      <4>2. CASE k # Len(l) + 1
        <5>1. k \in 1 .. Len(l) /\ l'[k] = l[k]
          BY <4>2, <3>2
        <5>2. PICK m \in Unflagged : m < i /\ l[k] = tmp[m]
          BY <2>1, <5>1 DEF CollectInv
        <5>3. m < i + 1
          BY <5>2 DEF Unflagged
        <5> QED
          BY <5>1, <5>2, <5>3
      <4> QED
        BY <4>1, <4>2
    <3>4. ASSUME NEW k \in 1 .. Len(l'), NEW n \in 1 .. Len(l'), k < n
          PROVE  ~Groups(l'[k], l'[n])
      <4>0. k \in 1 .. Len(l)
        BY <3>2, <3>4, EarlierIndex
      <4>1. k \in 1 .. Len(l) /\ l'[k] = l[k]
        BY <3>2, <4>0
      <4>2. CASE n = Len(l) + 1
        <5>1. PICK m \in Unflagged : m < i /\ l[k] = tmp[m]
          BY <2>1, <4>1 DEF CollectInv
        <5>2. ~Groups(tmp[m], tmp[i])
          BY <2>1, <3>1, <5>1 DEF CollectInv
        <5> QED
          BY <4>1, <4>2, <3>2, <5>1, <5>2
      <4>3. CASE n # Len(l) + 1
        <5>1. n \in 1 .. Len(l) /\ l'[n] = l[n]
          BY <4>3, <3>2
        <5> QED
          BY <2>1, <4>1, <5>1, <3>4 DEF CollectInv
      <4> QED
        BY <4>2, <4>3
    <3>5. \A a, b \in Unflagged : a < b => ~Groups(tmp[a], tmp[b])
      BY <2>1 DEF CollectInv
    <3> QED
      BY <2>1, <2>2, <3>3, <3>4, <3>5, SMTT(30) DEF CollectInv
  <2> QED
    BY <2>3, <2>4
<1>3. CASE ~(EndSearch \/ Collect)
  BY <1>3 DEF Next, StartPass, KeepComp, EraseComp, EndFilter1, EndFilter2, Absorb, PassOver,
       NextToGroup, EndCollect, AddWidth, DivideSum, Join, Skip, NextToJoin, EndPass, Compare,
       NextBubble, EndSort, Joining, Filtering
<1> QED
  BY <1>1, <1>2, <1>3

LEMMA SettledStep == ASSUME IInv, Rest', Next PROVE SettledInv'
<1> SUFFICES ASSUME pc' = "sum" PROVE SettledInv'
  BY DEF SettledInv
<1>1. CASE EndCollect \/ AddWidth
  <2>1. l' = l /\ (pc = "collect" \/ pc = "sum")
    BY <1>1 DEF EndCollect, AddWidth
  <2> QED
    BY <2>1 DEF IInv, CollectInv, SettledInv
<1>2. CASE ~(EndCollect \/ AddWidth)
  BY <1>2 DEF Next, StartPass, KeepComp, EraseComp, EndFilter1, EndFilter2, Absorb, PassOver,
       NextToGroup, EndSearch, Collect, DivideSum, Join, Skip, NextToJoin, EndPass, Compare,
       NextBubble, EndSort, Joining, Filtering
<1> QED
  BY <1>1, <1>2

LEMMA PassStep == ASSUME IInv, Rest', Next PROVE PassInv'
<1> USE DEF IInv, Rest
<1> SUFFICES ASSUME Joining', ~changed', NEW a \in 1 .. Len(l'), NEW b \in 1 .. Len(l'),
                    a < b, Compared(a, b)'
             PROVE  ~Joins(l[a], l[b])'
  BY DEF PassInv
<1>0. a \in Nat \ {0} /\ b \in Nat \ {0} /\ a <= Len(l') /\ b <= Len(l')
  OBVIOUS
<1>1. CASE DivideSum \/ EndPass
  <2>1. PICK phase : StartPass(phase)
    BY <1>1 DEF DivideSum, EndPass
  <2> QED
    BY <2>1, <1>0, NothingCompared
<1>2. CASE Join
  BY <1>2 DEF Join
<1>3. CASE Skip
  <2>1. l' = l /\ i' = i /\ j' = j + 1 /\ pc' = pc /\ th' = th /\ Joining /\ changed' = changed
    BY <1>3 DEF Skip
  <2>2. ~Joins(l[a], l[b])
    <3>1. CASE Compared(a, b)
      BY <2>1, <3>1 DEF PassInv
    <3>2. CASE ~Compared(a, b)
      <4>1. a = i /\ b = j
        BY <2>1, <3>2, <1>0 DEF Compared
      <4> QED
        BY <1>3, <4>1 DEF Skip
    <3> QED
      BY <3>1, <3>2
  <2> QED
    BY <2>1, <2>2 DEF Joins, isSmallPartOf, boundingBoxOverlaps, height, width
<1>4. CASE NextToJoin
  <2>1. /\ l' = l /\ i' = i + 1 /\ j' = i + 2 /\ pc' = pc /\ th' = th /\ Joining
        /\ changed' = changed /\ j > Len(l)
    BY <1>4 DEF NextToJoin
  <2>2. Compared(a, b)
    BY <2>1, <1>0 DEF Compared
  <2>3. ~Joins(l[a], l[b])
    BY <2>1, <2>2 DEF PassInv
  <2> QED
    BY <2>1, <2>3 DEF Joins, isSmallPartOf, boundingBoxOverlaps, height, width
<1>5. CASE ~(DivideSum \/ EndPass \/ Join \/ Skip \/ NextToJoin)
  BY <1>5 DEF Next, StartPass, KeepComp, EraseComp, EndFilter1, EndFilter2, Absorb, PassOver,
       NextToGroup, EndSearch, Collect, EndCollect, AddWidth, Compare, NextBubble, EndSort,
       Joining, Filtering
<1> QED
  BY <1>1, <1>2, <1>3, <1>4, <1>5

(* The pass that ends the phase has compared all pairs. *)
LEMMA AllCompared ==
  ASSUME IInv, EndPass, ~changed
  PROVE  \A a, b \in 1 .. Len(l) : a < b => ~Joins(l[a], l[b])
<1> TAKE a, b \in 1 .. Len(l)
<1>1. Compared(a, b) /\ Joining
  BY DEF EndPass, Compared, IInv, Rest
<1> QED
  BY <1>1 DEF IInv, PassInv

LEMMA OverlapSymmetric ==
  ASSUME NEW c \in Component, NEW d \in Component
  PROVE  boundingBoxOverlaps(c, d) <=> boundingBoxOverlaps(d, c)
BY ComponentFields DEF boundingBoxOverlaps

LEMMA AfterStep == ASSUME IInv, Rest', Next PROVE AfterInv'
<1> USE DEF IInv, Rest
<1> SUFFICES ASSUME pc' \in {"filter2", "sort", "done"} PROVE Disjoint(l')
  BY DEF AfterInv, Disjoint, boundingBoxOverlaps
<1>1. CASE EndPass
  <2>1. l' = l /\ ~changed /\ pc = "bbox"
    BY <1>1 DEF EndPass, StartPass, Joining
  <2>2. ASSUME NEW a \in 1 .. Len(l), NEW b \in 1 .. Len(l), a # b
        PROVE  ~boundingBoxOverlaps(l[a], l[b])
    <3>1. l[a] \in Component /\ l[b] \in Component
      OBVIOUS
    <3>2. \A x, y \in 1 .. Len(l) : x < y => ~boundingBoxOverlaps(l[x], l[y])
      BY <1>1, <2>1, AllCompared DEF Joins
    <3>3. a < b \/ b < a
      BY <2>2
    <3> QED
      BY <3>1, <3>2, <3>3, OverlapSymmetric
  <2> QED
    BY <2>1, <2>2 DEF Disjoint
<1>2. CASE EraseComp
  <2>1. l' = RemoveAt(l, i) /\ i \in 1 .. Len(l) /\ pc' = pc
    BY <1>2 DEF EraseComp
  <2>2. Disjoint(l)
    BY <2>1 DEF AfterInv
  <2>3. Len(l') = Len(l) - 1
    BY <2>1, RemoveAtElements
  <2>4. ASSUME NEW k \in 1 .. Len(l'), NEW m \in 1 .. Len(l'), k # m
        PROVE  ~boundingBoxOverlaps(l'[k], l'[m])
    <3> DEFINE from(n) == IF n < i THEN n ELSE n + 1
    <3>1. from(k) \in 1 .. Len(l) /\ from(m) \in 1 .. Len(l) /\ from(k) # from(m)
      BY <2>1, <2>3, <2>4
    <3>2. l'[k] = l[from(k)] /\ l'[m] = l[from(m)]
      BY <2>1, <2>3, RemoveAtElements
    <3> HIDE DEF from
    <3> QED
      BY <2>2, <3>1, <3>2 DEF Disjoint
  <2> QED
    BY <2>4 DEF Disjoint
<1>3. CASE Compare
  <2>1. /\ j - 1 \in 1 .. Len(l) /\ j \in 1 .. Len(l) /\ pc = "sort"
        /\ l' = l \/ l' = Exchanged
    BY <1>3 DEF Compare
  <2>2. Disjoint(l)
    BY <2>1 DEF AfterInv
  <2>3. CASE l' = Exchanged
    <3>1. /\ Len(l') = Len(l)
          /\ \A k \in 1 .. Len(l) :
               l'[k] = IF k = j THEN l[j - 1] ELSE IF k = j - 1 THEN l[j] ELSE l[k]
      BY <2>1, <2>3, SMTT(30) DEF Exchanged
    <3>2. ASSUME NEW k \in 1 .. Len(l), NEW m \in 1 .. Len(l), k # m
          PROVE  \E a, b \in 1 .. Len(l) : a # b /\ l'[k] = l[a] /\ l'[m] = l[b]
      <4> DEFINE from(n) == IF n = j THEN j - 1 ELSE IF n = j - 1 THEN j ELSE n
      <4>1. from(k) \in 1 .. Len(l) /\ from(m) \in 1 .. Len(l) /\ from(k) # from(m)
        BY <2>1, <3>2
      <4>2. l'[k] = l[from(k)] /\ l'[m] = l[from(m)]
        BY <3>1
      <4> QED
        BY <4>1, <4>2
    <3>3. ASSUME NEW k \in 1 .. Len(l'), NEW m \in 1 .. Len(l'), k # m
          PROVE  ~boundingBoxOverlaps(l'[k], l'[m])
      <4>1. PICK a \in 1 .. Len(l), b \in 1 .. Len(l) : a # b /\ l'[k] = l[a] /\ l'[m] = l[b]
        BY <3>1, <3>2, <3>3
      <4> QED
        BY <2>2, <4>1 DEF Disjoint
    <3> QED
      BY <3>3 DEF Disjoint
  <2> QED
    BY <2>1, <2>2, <2>3
<1>4. CASE ~(EndPass \/ EraseComp \/ Compare)
  <2>1. l' = l /\ pc \in {"filter2", "sort", "done"}
    BY <1>4 DEF Next, StartPass, KeepComp, EndFilter1, EndFilter2, Absorb, PassOver,
         NextToGroup, EndSearch, Collect, EndCollect, AddWidth, DivideSum, Join, Skip,
         NextToJoin, NextBubble, EndSort, Joining, Filtering
  <2> QED
    BY <2>1 DEF AfterInv
<1> QED
  BY <1>1, <1>2, <1>3, <1>4

LEMMA StutterInv == ASSUME IInv, UNCHANGED vars PROVE IInv'
<1>1. /\ l' = l /\ tmp' = tmp /\ flagged' = flagged /\ i' = i /\ j' = j
      /\ changed' = changed /\ th' = th /\ pc' = pc /\ input' = input
  BY DEF vars
<1>2. Rest'
  BY <1>1 DEF IInv, Rest, Component
<1>3. SearchInv' /\ CollectInv'
  BY <1>1 DEF IInv, SearchInv, CollectInv, Compared, Unflagged, Groups, SameWidth,
              Overlap2Line, width
<1>4. SettledInv'
  BY <1>1 DEF IInv, SettledInv, Groups, SameWidth, Overlap2Line, width
<1>5. PassInv'
  <2>1. ASSUME NEW a, NEW b PROVE Joins(l[a], l[b])' <=> Joins(l[a], l[b])
    BY <1>1 DEF Joins, isSmallPartOf, boundingBoxOverlaps, width, height
  <2>2. ASSUME NEW a, NEW b PROVE Compared(a, b)' <=> Compared(a, b)
    BY <1>1 DEF Compared
  <2>3. (Joining' <=> Joining) /\ PassInv
    BY <1>1 DEF Joining, IInv
  <2> QED
    BY <1>1, <2>1, <2>2, <2>3 DEF PassInv
<1>6. AfterInv'
  BY <1>1 DEF IInv, AfterInv, Disjoint, boundingBoxOverlaps
<1> QED
  BY <1>2, <1>3, <1>4, <1>5, <1>6 DEF IInv

LEMMA Invariance == Spec => []IInv
<1>1. IInv /\ [Next]_vars => IInv'
  <2>1. ASSUME IInv, Next PROVE IInv'
    <3>1. Rest'
      BY <2>1, NextType DEF IInv
    <3>2. SearchInv' /\ CollectInv' /\ SettledInv' /\ PassInv' /\ AfterInv'
      BY <2>1, <3>1, SearchStep, CollectStep, SettledStep, PassStep, AfterStep
    <3> QED
      BY <3>1, <3>2 DEF IInv
  <2> QED
    BY <2>1, StutterInv
<1> QED
  BY InitInv, <1>1, PTL DEF Spec

-----------------------------------------------------------------------------
LEMMA Domains == ASSUME Rest PROVE DOMAIN l = 1 .. Len(l)
BY DEF Rest

(* CompOverlapRemove leaves no two components it would group. *)
THEOREM GroupingSettles == Spec => []OverlapSettled
<1>1. IInv => OverlapSettled
  BY Domains DEF IInv, SettledInv, OverlapSettled
<1> QED
  BY <1>1, Invariance, PTL

(* The boxes returned are pairwise disjoint. *)
THEOREM BoxesDisjoint == Spec => []DisjointBoxes
<1>1. IInv => DisjointBoxes
  BY Domains DEF IInv, AfterInv, Disjoint, DisjointBoxes
<1> QED
  BY <1>1, Invariance, PTL

(* No small part is left when compJoinSmallParts returns. *)
THEOREM NoSmallPartLeft == Spec => SmallPartsJoined
<1> DEFINE Step == (pc = "small" /\ pc' = "bbox") =>
                     \A m, n \in DOMAIN l : m # n => ~isSmallPartOf(l[m], l[n])
<1>1. IInv /\ [Next]_vars => [Step]_vars
  <2> SUFFICES ASSUME IInv, Next, pc = "small", pc' = "bbox",
                      NEW m \in DOMAIN l, NEW n \in DOMAIN l, m # n
               PROVE  ~isSmallPartOf(l[m], l[n])
    OBVIOUS
  <2>1. EndPass /\ ~changed
    BY DEF Next, StartPass, KeepComp, EraseComp, EndFilter1, EndFilter2, Absorb, PassOver,
       NextToGroup, EndSearch, Collect, EndCollect, AddWidth, DivideSum, Join, Skip,
       NextToJoin, EndPass, Compare, NextBubble, EndSort, Joining, Filtering
  <2>2. m \in 1 .. Len(l) /\ n \in 1 .. Len(l) /\ (m < n \/ n < m)
    BY Domains DEF IInv
  <2> QED
    BY <2>1, <2>2, AllCompared DEF Joins
<1> QED
  BY <1>1, Invariance, PTL DEF Spec, SmallPartsJoined

-----------------------------------------------------------------------------
(* The result.  Every list holds tight components only; the second filter   *)
(* has looked at what stands before i; a bubble has carried the rightmost   *)
(* of the first j - 1 components to j - 1, and behind the last bubbles the  *)
(* components are in order and right of all others.                        *)

TightBox(c) ==
  /\ \A k \in c.parts : /\ c.box.left <= input[k].left /\ input[k].right <= c.box.right
                        /\ c.box.top <= input[k].top /\ input[k].bottom <= c.box.bottom
  /\ \E k \in c.parts : input[k].left = c.box.left
  /\ \E k \in c.parts : input[k].right = c.box.right
  /\ \E k \in c.parts : input[k].top = c.box.top
  /\ \E k \in c.parts : input[k].bottom = c.box.bottom

Tight == {c \in Component : TightBox(c)}

TightInv == l \in Seq(Tight) /\ tmp \in Seq(Tight)

FilterInv ==
  /\ pc = "filter2" => \A n \in 1 .. Len(l) : n < i => Passes(l[n])
  /\ pc \in {"sort", "done"} => \A n \in 1 .. Len(l) : Passes(l[n])

Left(n) == l[n].box.left

SortInv ==
  /\ pc = "sort" =>
       /\ \A m, n \in 1 .. Len(l) : m < n /\ n > Len(l) - i + 1 => Left(m) <= Left(n)
       /\ i < Len(l) => /\ j <= Len(l) - i + 2
                        /\ \A m \in 1 .. Len(l) : m < j - 1 => Left(m) <= Left(j - 1)
  /\ pc = "done" => \A m, n \in 1 .. Len(l) : m < n => Left(m) <= Left(n)

ResultInv == TightInv /\ FilterInv /\ SortInv

LEMMA AtMost == \A x, y, z \in Int : x <= y /\ y <= z => x <= z
OBVIOUS

LEMMA MergedTight ==
  ASSUME Rest, NEW a \in Tight, NEW b \in Tight
  PROVE  Merged(a, b) \in Tight
<1> DEFINE c == Merged(a, b)
<1>1. a \in Component /\ b \in Component /\ TightBox(a) /\ TightBox(b)
  BY DEF Tight
<1>2. c \in Component
  BY <1>1, MergedType
<1>3. /\ a.box.left \in Int /\ a.box.right \in Int /\ a.box.top \in Int /\ a.box.bottom \in Int
      /\ b.box.left \in Int /\ b.box.right \in Int /\ b.box.top \in Int /\ b.box.bottom \in Int
      /\ a.parts \subseteq 1 .. Len(input) /\ b.parts \subseteq 1 .. Len(input)
  BY <1>1, ComponentFields
<1>4. ASSUME NEW k \in 1 .. Len(input)
      PROVE  /\ input[k].left \in Int /\ input[k].right \in Int
             /\ input[k].top \in Int /\ input[k].bottom \in Int
  BY DEF Rest, Box
<1>5. /\ c.parts = a.parts \cup b.parts
      /\ c.box.left = Smaller(a.box.left, b.box.left)
      /\ c.box.right = Larger(a.box.right, b.box.right)
      /\ c.box.top = Smaller(a.box.top, b.box.top)
      /\ c.box.bottom = Larger(a.box.bottom, b.box.bottom)
  BY DEF Merged
<1> HIDE DEF c
<1>6. \A k \in c.parts : /\ c.box.left <= input[k].left /\ input[k].right <= c.box.right
                         /\ c.box.top <= input[k].top /\ input[k].bottom <= c.box.bottom
  <2> TAKE k \in c.parts
  <2>1. /\ k \in 1 .. Len(input) /\ (k \in a.parts \/ k \in b.parts)
        /\ input[k].left \in Int /\ input[k].right \in Int
        /\ input[k].top \in Int /\ input[k].bottom \in Int
    BY <1>3, <1>4, <1>5
  <2>2. \/ /\ a.box.left <= input[k].left /\ input[k].right <= a.box.right
           /\ a.box.top <= input[k].top /\ input[k].bottom <= a.box.bottom
        \/ /\ b.box.left <= input[k].left /\ input[k].right <= b.box.right
           /\ b.box.top <= input[k].top /\ input[k].bottom <= b.box.bottom
    BY <1>1, <2>1, Zenon DEF TightBox
  <2>3. /\ c.box.left \in Int /\ c.box.right \in Int /\ c.box.top \in Int /\ c.box.bottom \in Int
        /\ c.box.left <= a.box.left /\ c.box.left <= b.box.left
        /\ c.box.top <= a.box.top /\ c.box.top <= b.box.top
        /\ a.box.right <= c.box.right /\ b.box.right <= c.box.right
        /\ a.box.bottom <= c.box.bottom /\ b.box.bottom <= c.box.bottom
    BY <1>3, <1>5 DEF Smaller, Larger
  <2>4. /\ a.box.left \in Int /\ a.box.right \in Int /\ a.box.top \in Int /\ a.box.bottom \in Int
        /\ b.box.left \in Int /\ b.box.right \in Int /\ b.box.top \in Int /\ b.box.bottom \in Int
    BY <1>3
  <2>5. CASE /\ a.box.left <= input[k].left /\ input[k].right <= a.box.right
             /\ a.box.top <= input[k].top /\ input[k].bottom <= a.box.bottom
    BY <2>1, <2>3, <2>4, <2>5, AtMost, Zenon
  <2>6. CASE /\ b.box.left <= input[k].left /\ input[k].right <= b.box.right
             /\ b.box.top <= input[k].top /\ input[k].bottom <= b.box.bottom
    BY <2>1, <2>3, <2>4, <2>6, AtMost, Zenon
  <2> QED
    BY <2>2, <2>5, <2>6
<1>7. \E k \in c.parts : input[k].left = c.box.left
  BY <1>1, <1>3, <1>5 DEF TightBox, Smaller
<1>8. \E k \in c.parts : input[k].right = c.box.right
  BY <1>1, <1>3, <1>5 DEF TightBox, Larger
<1>9. \E k \in c.parts : input[k].top = c.box.top
  BY <1>1, <1>3, <1>5 DEF TightBox, Smaller
<1>10. \E k \in c.parts : input[k].bottom = c.box.bottom
  BY <1>1, <1>3, <1>5 DEF TightBox, Larger
<1>11. TightBox(c)
  BY <1>6, <1>7, <1>8, <1>9, <1>10 DEF TightBox
<1> QED
  BY <1>2, <1>11 DEF Tight, c

LEMMA InitTight == ASSUME Init PROVE TightInv
<1>1. Rest
  BY InitType, TypeSplit
<1>2. /\ l = [k \in 1 .. Len(input) |-> [parts |-> {k}, box |-> input[k]]] /\ tmp = <<>>
      /\ Len(input) \in Nat
  BY <1>1 DEF Init, Rest
<1>3. ASSUME NEW k \in 1 .. Len(input)
      PROVE  [parts |-> {k}, box |-> input[k]] \in Tight
  <2> DEFINE c == [parts |-> {k}, box |-> input[k]]
  <2>1. input[k] \in Box
    BY <1>1 DEF Rest
  <2>2. c.parts = {k} /\ c.box = input[k] /\ c \in Component
    BY <2>1 DEF Component
  <2>3. /\ input[k].left \in Int /\ input[k].right \in Int
        /\ input[k].top \in Int /\ input[k].bottom \in Int
    BY <2>1 DEF Box
  <2> HIDE DEF c
  <2>4. TightBox(c)
    BY <2>2, <2>3 DEF TightBox
  <2>5. c \in Tight
    BY <2>2, <2>4 DEF Tight
  <2> QED
    BY <2>5 DEF c
<1> HIDE DEF Tight
<1>4. l \in Seq(Tight)
  BY <1>2, <1>3
<1> QED
  BY <1>2, <1>4, EmptySeq DEF TightInv

(* Lists are merged in, erased from, refilled and exchanged; the parts of   *)
(* the input are never assigned.                                           *)
LEMMA TightStep == ASSUME Rest, TightInv, Next PROVE TightInv'
<1>0. Len(l) \in Nat /\ Len(tmp) \in Nat /\ i \in Nat \ {0} /\ j \in Nat \ {0, 1}
  BY DEF Rest
<1>c. input' = input
  BY DEF Next, KeepComp, EraseComp, EndFilter1, EndFilter2, Absorb, PassOver, NextToGroup,
         EndSearch, Collect, EndCollect, AddWidth, DivideSum, Join, Skip, NextToJoin, EndPass,
         Compare, NextBubble, EndSort
<1>s. Tight' = Tight
  BY <1>c DEF Tight, TightBox, Component
<1>l. l \in Seq(Tight) /\ tmp \in Seq(Tight)
  BY DEF TightInv
<1> SUFFICES l' \in Seq(Tight) /\ tmp' \in Seq(Tight)
  BY <1>s DEF TightInv
<1>1. CASE EraseComp
  <2>1. i \in 1 .. Len(l) /\ l' = RemoveAt(l, i) /\ tmp' = tmp
    BY <1>1, <1>0 DEF EraseComp
  <2> QED
    BY <2>1, <1>l, RemoveAtElements
<1>2. CASE EndFilter1
  BY <1>2, <1>l DEF EndFilter1
<1>3. CASE Absorb
  <2>1. /\ i \in 1 .. Len(tmp) /\ j \in 1 .. Len(tmp) /\ l' = l
        /\ tmp' = [tmp EXCEPT ![i] = Merged(tmp[i], tmp[j])]
    BY <1>3, <1>0 DEF Absorb
  <2>2. tmp[i] \in Tight /\ tmp[j] \in Tight
    BY <2>1, <1>l
  <2>3. Merged(tmp[i], tmp[j]) \in Tight
    BY <2>2, MergedTight
  <2> QED
    BY <2>1, <2>3, <1>l, ExceptSeq
<1>4. CASE EndSearch
  BY <1>4, <1>l, EmptySeq DEF EndSearch
<1>5. CASE Collect
  <2>1. i \in 1 .. Len(tmp) /\ tmp' = tmp /\ l' = IF i \in flagged THEN l ELSE Append(l, tmp[i])
    BY <1>5, <1>0 DEF Collect
  <2>2. tmp[i] \in Tight
    BY <2>1, <1>l
  <2> QED
    BY <2>1, <2>2, <1>l
<1>6. CASE Join
  <2>1. /\ i \in 1 .. Len(l) /\ j \in 1 .. Len(l) /\ tmp' = tmp
        /\ l' = RemoveAt([l EXCEPT ![i] = Merged(l[i], l[j])], j)
    BY <1>6, <1>0 DEF Join
  <2>2. l[i] \in Tight /\ l[j] \in Tight
    BY <2>1, <1>l
  <2>3. Merged(l[i], l[j]) \in Tight
    BY <2>2, MergedTight
  <2>4. [l EXCEPT ![i] = Merged(l[i], l[j])] \in Seq(Tight)
        /\ Len([l EXCEPT ![i] = Merged(l[i], l[j])]) = Len(l)
    BY <2>1, <2>3, <1>l, ExceptSeq
  <2> QED
    BY <2>1, <2>4, <1>l, RemoveAtElements
<1>7. CASE Compare
  <2>1. j - 1 \in 1 .. Len(l) /\ j \in 1 .. Len(l) /\ tmp' = tmp /\ (l' = l \/ l' = Exchanged)
    BY <1>7, <1>0 DEF Compare
  <2>2. l[j - 1] \in Tight /\ l[j] \in Tight
    BY <2>1, <1>l
  <2>3. Exchanged \in Seq(Tight)
    BY <2>1, <2>2, <1>l DEF Exchanged
  <2> QED
    BY <2>1, <2>3, <1>l
<1>8. CASE ~(EraseComp \/ EndFilter1 \/ Absorb \/ EndSearch \/ Collect \/ Join \/ Compare)
  <2>1. l' = l /\ tmp' = tmp
    BY <1>8 DEF Next, KeepComp, EndFilter2, PassOver, NextToGroup, EndCollect, AddWidth,
         DivideSum, Skip, NextToJoin, EndPass, NextBubble, EndSort
  <2> QED
    BY <2>1, <1>l
<1> QED
  BY <1>1, <1>2, <1>3, <1>4, <1>5, <1>6, <1>7, <1>8

(* What an exchange of neighbours does. *)
LEMMA ExchangeElements ==
  ASSUME Rest, pc = "sort", i < Len(l), j <= Len(l) - i + 1
  PROVE  /\ j - 1 \in 1 .. Len(l) /\ j \in 1 .. Len(l)
         /\ Len(Exchanged) = Len(l)
         /\ \A k \in 1 .. Len(l) :
              Exchanged[k] = IF k = j THEN l[j - 1] ELSE IF k = j - 1 THEN l[j] ELSE l[k]
<1>1. l \in Seq(Component) /\ j - 1 \in 1 .. Len(l) /\ j \in 1 .. Len(l)
  BY DEF Rest
<1> QED
  BY <1>1, SMTT(30) DEF Exchanged

(* Both filters' ratios apart, Passes looks at nothing but the component. *)
LEMMA FilterStep == ASSUME Rest, FilterInv, Next PROVE FilterInv'
<1>0. l \in Seq(Component) /\ Len(l) \in Nat /\ i \in Nat \ {0} /\ j \in Nat \ {0, 1}
  BY DEF Rest
<1>p. ASSUME pc # "filter1", pc' # "filter1", NEW c PROVE Passes(c)' <=> Passes(c)
  BY <1>p DEF Passes, MaxHeightWidthRatio, width, height
<1> SUFFICES ASSUME pc' \in {"filter2", "sort", "done"},
                    NEW n \in 1 .. Len(l'), pc' = "filter2" => n < i'
             PROVE  Passes(l[n])'
  BY DEF FilterInv
<1>1. CASE EndPass
  <2>1. i' = 1
    BY <1>1 DEF EndPass, StartPass
  <2>2. pc' = "filter2"
    BY <1>1 DEF EndPass, StartPass, Joining
  <2> QED
    BY <2>1, <2>2
<1>2. CASE KeepComp
  <2>1. pc = "filter2" /\ pc' = pc /\ l' = l /\ i' = i + 1 /\ Passes(l[i])
    BY <1>2 DEF KeepComp, Filtering
  <2>2. Passes(l[n])
    BY <2>1, <1>0 DEF FilterInv
  <2> QED
    BY <2>1, <2>2, <1>p
<1>3. CASE EraseComp
  <2>1. pc = "filter2" /\ pc' = pc /\ l' = RemoveAt(l, i) /\ i' = i /\ i \in 1 .. Len(l)
    BY <1>3, <1>0 DEF EraseComp, Filtering
  <2>2. n < i /\ n \in 1 .. Len(l) - 1 /\ l'[n] = l[n]
    BY <2>1, <1>0, RemoveAtElements
  <2>3. Passes(l[n])
    BY <2>1, <2>2, <1>0 DEF FilterInv
  <2> QED
    BY <2>1, <2>2, <2>3, <1>p
<1>4. CASE EndFilter2
  <2>1. pc = "filter2" /\ l' = l /\ i > Len(l)
    BY <1>4 DEF EndFilter2
  <2>2. Passes(l[n])
    BY <2>1, <1>0 DEF FilterInv
  <2> QED
    BY <2>1, <2>2, <1>p
<1>5. CASE Compare
  <2>1. pc = "sort" /\ pc' = pc /\ i < Len(l) /\ j <= Len(l) - i + 1 /\ (l' = l \/ l' = Exchanged)
    BY <1>5 DEF Compare
  <2>2. \E k \in 1 .. Len(l) : l'[n] = l[k]
    BY <2>1, ExchangeElements
  <2>3. PICK k \in 1 .. Len(l) : l'[n] = l[k]
    BY <2>2
  <2>4. Passes(l[k])
    BY <2>1 DEF FilterInv
  <2> QED
    BY <2>1, <2>3, <2>4, <1>p
<1>6. CASE ~(EndPass \/ KeepComp \/ EraseComp \/ EndFilter2 \/ Compare)
  <2>1. l' = l /\ pc = "sort" /\ pc' \in {"sort", "done"}
    BY <1>6 DEF Next, StartPass, EndFilter1, Absorb, PassOver, NextToGroup, EndSearch,
         Collect, EndCollect, AddWidth, DivideSum, Join, Skip, NextToJoin, NextBubble,
         EndSort, Joining, Filtering
  <2>2. Passes(l[n])
    BY <2>1 DEF FilterInv
  <2> QED
    BY <2>1, <2>2, <1>p
<1> QED
  BY <1>1, <1>2, <1>3, <1>4, <1>5, <1>6

(* A comparison leaves the tail in order and takes the bubble one further.  *)
LEMMA BubbleStep ==
  ASSUME pc' = "sort", i' = i, j' = j + 1, i \in Nat, j \in Nat, Len(l') = Len(l), Len(l) \in Nat,
         j <= Len(l) - i + 1,
         \A m, n \in 1 .. Len(l) : m < n /\ n > Len(l) - i + 1 => Left(m)' <= Left(n)',
         \A m \in 1 .. Len(l) : m < j => Left(m)' <= l'[j].box.left
  PROVE  SortInv'
<1>1. j' - 1 = j /\ j' <= Len(l') - i' + 2 /\ pc' # "done"
  OBVIOUS
<1>2. \A m \in 1 .. Len(l') : m < j' - 1 => l'[m].box.left <= l'[j' - 1].box.left
  BY <1>1 DEF Left
<1> QED
  BY <1>1, <1>2 DEF SortInv, Left

LEMMA SortStep == ASSUME Rest, SortInv, Next PROVE SortInv'
<1> USE DEF Left
<1>0. /\ l \in Seq(Component) /\ Len(l) \in Nat /\ i \in Nat \ {0} /\ j \in Nat \ {0, 1}
      /\ \A k \in 1 .. Len(l) : Left(k) \in Int
  <2>1. l \in Seq(Component) /\ Len(l) \in Nat /\ i \in Nat \ {0} /\ j \in Nat \ {0, 1}
    BY DEF Rest
  <2>2. ASSUME NEW k \in 1 .. Len(l) PROVE Left(k) \in Int
    <3>1. l[k] \in Component
      BY <2>1
    <3> QED
      BY <3>1, ComponentFields
  <2> QED
    BY <2>1, <2>2
<1>1. CASE EndFilter2
  <2>1. l' = l /\ i' = 1 /\ j' = 2 /\ pc' \in {"sort", "crash"}
    BY <1>1 DEF EndFilter2, StartPass
  <2> QED
    BY <2>1, <1>0 DEF SortInv
<1>2. CASE Compare
  <2>0. pc = "sort" /\ pc' = pc /\ i < Len(l) /\ j <= Len(l) - i + 1 /\ i' = i /\ j' = j + 1
    BY <1>2 DEF Compare
  <2>1. /\ \A m, n \in 1 .. Len(l) : m < n /\ n > Len(l) - i + 1 => Left(m) <= Left(n)
        /\ \A m \in 1 .. Len(l) : m < j - 1 => Left(m) <= Left(j - 1)
    BY <2>0 DEF SortInv
  <2>2. j - 1 \in 1 .. Len(l) /\ j \in 1 .. Len(l)
    BY <2>0, ExchangeElements
  <2>3. CASE l' = l
    <3>1. Left(j - 1) <= Left(j)
      BY <1>2, <2>2, <2>3, <1>0, ExchangeElements, <2>0 DEF Compare
    <3>2. \A m \in 1 .. Len(l) : m < j => Left(m) <= Left(j)
      BY <2>1, <2>2, <3>1, <1>0
    <3>3. Len(l') = Len(l) /\ \A m \in 1 .. Len(l) : Left(m)' = Left(m)
      BY <2>3
    <3>4. \A m \in 1 .. Len(l) : m < j => Left(m)' <= l'[j].box.left
      BY <3>2, <3>3, <2>2
    <3>5. \A m, n \in 1 .. Len(l) : m < n /\ n > Len(l) - i + 1 => Left(m)' <= Left(n)'
      BY <2>1, <3>3
    <3> QED
      BY <2>0, <2>2, <3>3, <3>4, <3>5, <1>0, BubbleStep
  <2>4. CASE l' = Exchanged /\ Left(j - 1) > Left(j)
    <3> DEFINE from(n) == IF n = j THEN j - 1 ELSE IF n = j - 1 THEN j ELSE n
    <3>1. /\ Len(l') = Len(l)
          /\ \A k \in 1 .. Len(l) : from(k) \in 1 .. Len(l) /\ Left(k)' = Left(from(k))
      BY <2>0, <2>2, <2>4, ExchangeElements
    <3>2. ASSUME NEW m \in 1 .. Len(l), NEW n \in 1 .. Len(l), m < n, n > Len(l) - i + 1
          PROVE  Left(m)' <= Left(n)'
      <4>1. from(n) = n /\ from(m) < n /\ from(m) \in 1 .. Len(l)
        BY <2>0, <2>2, <3>2, <1>0
      <4>2. Left(from(m)) <= Left(n)
        BY <4>1, <3>2, <2>1
      <4> HIDE DEF from
      <4> QED
        BY <3>1, <4>1, <4>2
    <3>3. ASSUME NEW m \in 1 .. Len(l), m < j PROVE Left(m)' <= l'[j].box.left
      <4>1. l'[j].box.left = Left(j - 1)
        <5>1. from(j) = j - 1
          OBVIOUS
        <5> QED
          BY <3>1, <2>2, <5>1
      <4>2. CASE m = j - 1
        BY <4>1, <4>2, <3>1, <2>2, <2>4, <1>0
      <4>3. CASE m < j - 1
        BY <4>1, <4>3, <3>1, <2>1, <2>2, <1>0
      <4> QED
        BY <4>2, <4>3, <3>3, <1>0
    <3> HIDE DEF from
    <3> QED
      BY <2>0, <2>2, <3>1, <3>2, <3>3, <1>0, BubbleStep
  <2> QED
    BY <1>2, <2>3, <2>4 DEF Compare
<1>3. CASE NextBubble
  <2>0. /\ pc = "sort" /\ pc' = pc /\ i < Len(l) /\ j > Len(l) - i + 1 /\ l' = l
        /\ i' = i + 1 /\ j' = 2
    BY <1>3 DEF NextBubble
  <2>1. /\ \A m, n \in 1 .. Len(l) : m < n /\ n > Len(l) - i + 1 => Left(m) <= Left(n)
        /\ j = Len(l) - i + 2
        /\ \A m \in 1 .. Len(l) : m < j - 1 => Left(m) <= Left(j - 1)
    BY <2>0, <1>0 DEF SortInv
  <2>2. ASSUME NEW m \in 1 .. Len(l), NEW n \in 1 .. Len(l), m < n, n > Len(l) - (i + 1) + 1
        PROVE  Left(m) <= Left(n)
    <3>1. j = Len(l) - i + 2 /\ i \in Nat /\ Len(l) \in Nat
      BY <2>1, <1>0
    <3>2. n > Len(l) - i + 1 \/ n = j - 1
      BY <2>2, <3>1
    <3> QED
      BY <2>1, <2>2, <3>2
  <2>3. Len(l') = Len(l) /\ \A m \in 1 .. Len(l) : Left(m)' = Left(m)
    BY <2>0
  <2>4. 2 <= Len(l) - (i + 1) + 2 /\ \A m \in 1 .. Len(l) : ~(m < 2 - 1)
    BY <2>0, <1>0
  <2> QED
    BY <2>0, <2>2, <2>3, <2>4 DEF SortInv
<1>4. CASE EndSort
  <2>0. pc = "sort" /\ pc' = "done" /\ i >= Len(l) /\ l' = l
    BY <1>4 DEF EndSort
  <2>1. \A m, n \in 1 .. Len(l) : m < n => Left(m) <= Left(n)
    BY <2>0, <1>0 DEF SortInv
  <2> QED
    BY <2>0, <2>1 DEF SortInv
<1>5. CASE ~(EndFilter2 \/ Compare \/ NextBubble \/ EndSort)
  <2>1. pc' \notin {"sort", "done"}
    BY <1>5 DEF Next, StartPass, KeepComp, EraseComp, EndFilter1, Absorb, PassOver,
         NextToGroup, EndSearch, Collect, EndCollect, AddWidth, DivideSum, Join, Skip,
         NextToJoin, EndPass, Joining, Filtering
  <2> QED
    BY <2>1 DEF SortInv
<1> QED
  BY <1>1, <1>2, <1>3, <1>4, <1>5

LEMMA ResultInvariance == Spec => [](Rest /\ ResultInv)
<1>1. Init => Rest /\ ResultInv
  <2> SUFFICES ASSUME Init PROVE Rest /\ ResultInv
    OBVIOUS
  <2>1. pc = "filter1"
    BY DEF Init
  <2> QED
    BY <2>1, InitType, TypeSplit, InitTight DEF ResultInv, FilterInv, SortInv
<1>2. Rest /\ ResultInv /\ [Next]_vars => (Rest /\ ResultInv)'
  <2>1. ASSUME Rest, ResultInv, Next PROVE ResultInv'
    BY <2>1, TightStep, FilterStep, SortStep DEF ResultInv
  <2>2. ASSUME Rest, ResultInv, UNCHANGED vars PROVE ResultInv'
    <3>1. UNCHANGED <<input, l, tmp, i, j, pc>>
      BY <2>2 DEF vars
    <3>2. TightInv'
      BY <2>2, <3>1 DEF ResultInv, TightInv, Tight, TightBox, Component
    <3>3. FilterInv'
      BY <2>2, <3>1 DEF ResultInv, FilterInv, Passes, MaxHeightWidthRatio, width, height
    <3>4. SortInv'
      BY <2>2, <3>1 DEF ResultInv, SortInv, Left
    <3> QED
      BY <3>2, <3>3, <3>4 DEF ResultInv
  <2> QED
    BY <2>1, <2>2, NextType
<1> QED
  BY <1>1, <1>2, PTL DEF Spec

(* What is returned is a line of symbols: every box the tightest one around *)
(* what was merged into it, in the order of the left edges, and all that    *)
(* the second filter should have dropped dropped.                          *)
THEOREM ResultCorrect == Spec => []ResultExact
<1>1. Rest /\ ResultInv => ResultExact
  <2> SUFFICES ASSUME Rest, ResultInv PROVE ResultExact
    OBVIOUS
  <2>0. DOMAIN l = 1 .. Len(l)
    BY Domains
  <2>1. ASSUME NEW n \in DOMAIN l PROVE TightBox(l[n])
    <3>1. l \in Seq(Tight)
      BY DEF ResultInv, TightInv
    <3>2. l[n] \in Tight
      BY <3>1, <2>0
    <3> QED
      BY <3>2 DEF Tight
  <2>2. TightBoxes
    BY <2>1, Zenon DEF TightBoxes, TightBox
  <2>3. SortedByLeft
    BY <2>0 DEF SortedByLeft, ResultInv, SortInv, Left
  <2>4. ResultPasses
    BY <2>0 DEF ResultPasses, ResultInv, FilterInv
  <2> QED
    BY <2>2, <2>3, <2>4 DEF ResultExact
<1> QED
  BY <1>1, ResultInvariance, PTL

-----------------------------------------------------------------------------
(* Blocks of the components of s at the indices I. *)

Apart(s, I) ==
  \A a, b \in I : s[a].parts # {} /\ (a # b => s[a].parts \cap s[b].parts = {})

(* Removing an element of a sequence renames the other indices. *)
LEMMA RemovedParts ==
  ASSUME NEW S, NEW s \in Seq(S), NEW n \in 1 .. Len(s),
         Apart(s, (1 .. Len(s)) \ {n})
  PROVE  /\ PartsOf(RemoveAt(s, n), 1 .. Len(RemoveAt(s, n))) = PartsOf(s, (1 .. Len(s)) \ {n})
         /\ Apart(RemoveAt(s, n), 1 .. Len(RemoveAt(s, n)))
<1> DEFINE r == RemoveAt(s, n)
           I == (1 .. Len(s)) \ {n}
           from(k) == IF k < n THEN k ELSE k + 1
<1>1. Len(s) \in Nat /\ Len(r) = Len(s) - 1
  BY RemoveAtElements
<1>2. \A k \in 1 .. Len(r) : r[k] = s[from(k)]
  BY <1>1, RemoveAtElements
<1> HIDE DEF r
<1>3. \A k \in 1 .. Len(r) : from(k) \in I
  BY <1>1
<1>4. \A k, m \in 1 .. Len(r) : k # m => from(k) # from(m)
  BY <1>1
<1>5. \A m \in I : \E k \in 1 .. Len(r) : from(k) = m
  <2> TAKE m \in I
  <2>1. CASE m < n
    BY <1>1, <2>1
  <2>2. CASE m > n
    <3>1. m - 1 \in 1 .. Len(r) /\ from(m - 1) = m
      BY <1>1, <2>2
    <3> QED
      BY <3>1
  <2> QED
    BY <1>1, <2>1, <2>2
<1> HIDE DEF from, I
<1>6. PartsOf(r, 1 .. Len(r)) = PartsOf(s, I)
  <2>1. ASSUME NEW k \in 1 .. Len(r) PROVE r[k].parts \in PartsOf(s, I)
    BY <1>2, <1>3 DEF PartsOf
  <2>2. ASSUME NEW m \in I PROVE s[m].parts \in PartsOf(r, 1 .. Len(r))
    BY <1>2, <1>5 DEF PartsOf
  <2> QED
    BY <2>1, <2>2 DEF PartsOf
<1>7. Apart(s, I)
  BY DEF I
<1>8. Apart(r, 1 .. Len(r))
  BY <1>2, <1>3, <1>4, <1>7 DEF Apart
<1> QED
  BY <1>6, <1>8 DEF r, I

(* t is s with the component at b merged into the one at a. *)
Merging(s, t, I, a, b) ==
  /\ a \in I /\ b \in I /\ a # b
  /\ Apart(s, I)
  /\ t[a].parts = s[a].parts \cup s[b].parts
  /\ \A k \in I \ {a, b} : t[k].parts = s[k].parts

(* A merge replaces two blocks by their union. *)
LEMMA MergedParts ==
  ASSUME NEW s, NEW t, NEW I, NEW a, NEW b, Merging(s, t, I, a, b)
  PROVE  /\ PartsOf(t, I \ {b})
              = (PartsOf(s, I) \ {s[a].parts, s[b].parts}) \cup {s[a].parts \cup s[b].parts}
         /\ Apart(t, I \ {b})
         /\ s[a].parts # s[b].parts
<1> USE DEF Merging
<1>1. s[a].parts # s[b].parts
  BY DEF Apart
<1>2. ASSUME NEW k \in I \ {b}
      PROVE  t[k].parts \in (PartsOf(s, I) \ {s[a].parts, s[b].parts}) \cup {s[a].parts \cup s[b].parts}
  <2>1. CASE k = a
    BY <2>1
  <2>2. CASE k # a
    BY <2>2 DEF Apart, PartsOf
  <2> QED
    BY <2>1, <2>2
<1>3. ASSUME NEW k \in I, s[k].parts # s[a].parts, s[k].parts # s[b].parts
      PROVE  s[k].parts \in PartsOf(t, I \ {b})
  BY <1>3 DEF PartsOf
<1>4. s[a].parts \cup s[b].parts \in PartsOf(t, I \ {b})
  BY DEF PartsOf
<1>5. PartsOf(t, I \ {b})
        = (PartsOf(s, I) \ {s[a].parts, s[b].parts}) \cup {s[a].parts \cup s[b].parts}
  <2> DEFINE left == (PartsOf(s, I) \ {s[a].parts, s[b].parts})
                       \cup {s[a].parts \cup s[b].parts}
  <2>1. ASSUME NEW P \in PartsOf(t, I \ {b}) PROVE P \in left
    <3>1. PICK k \in I \ {b} : P = t[k].parts
      BY DEF PartsOf
    <3> QED
      BY <1>2, <3>1
  <2>2. ASSUME NEW P \in left PROVE P \in PartsOf(t, I \ {b})
    BY <1>3, <1>4 DEF PartsOf
  <2> QED
    BY <2>1, <2>2
<1>6. Apart(t, I \ {b})
  <2> SUFFICES ASSUME NEW x \in I \ {b}, NEW y \in I \ {b}
               PROVE  t[x].parts # {} /\ (x # y => t[x].parts \cap t[y].parts = {})
    BY DEF Apart
  <2>1. t[x].parts # {}
    BY DEF Apart
  <2>2. CASE x = a /\ y # a
    BY <2>2 DEF Apart
  <2>3. CASE x # a /\ y = a
    BY <2>3 DEF Apart
  <2>4. CASE x # a /\ y # a
    BY <2>4 DEF Apart
  <2> QED
    BY <2>1, <2>2, <2>3, <2>4
<1> QED
  BY <1>1, <1>5, <1>6

(* Dropping one element takes one block away. *)
LEMMA DroppedParts ==
  ASSUME NEW s, NEW I, NEW a \in I, Apart(s, I)
  PROVE  PartsOf(s, I \ {a}) = PartsOf(s, I) \ {s[a].parts} /\ Apart(s, I \ {a})
<1>1. ASSUME NEW k \in I \ {a} PROVE s[k].parts # s[a].parts
  BY DEF Apart
<1>2. Apart(s, I \ {a})
  BY DEF Apart
<1>3. PartsOf(s, I \ {a}) = PartsOf(s, I) \ {s[a].parts}
  BY <1>1 DEF PartsOf
<1> QED
  BY <1>2, <1>3

-----------------------------------------------------------------------------
(* The invariant. *)

Copying == pc \in {"overlap", "collect"}

ListApart == ~Copying => Apart(l, 1 .. Len(l))

CopyApart == Copying => Apart(tmp, Unflagged)

Refilled ==
  pc = "collect" =>
    /\ PartsOf(l, 1 .. Len(l)) = PartsOf(tmp, {m \in Unflagged : m < i})
    /\ Apart(l, 1 .. Len(l))

Ahead == pc \in {"overlap", "small", "bbox"} => i < j

Emptied == /\ pc \in {"sort", "done"} => l # <<>>
           /\ pc = "crash" => l = <<>>

PartsInv == ListApart /\ CopyApart /\ Refilled /\ Ahead /\ Emptied

LEMMA BlocksAre ==
  ASSUME Rest
  PROVE  Blocks = IF Copying THEN PartsOf(tmp, Unflagged) ELSE PartsOf(l, 1 .. Len(l))
<1>1. DOMAIN tmp = 1 .. Len(tmp) /\ DOMAIN l = 1 .. Len(l)
  BY DEF Rest
<1> QED
  BY <1>1 DEF Blocks, Copying, Unflagged

LEMMA NextBlocksAre ==
  ASSUME Rest'
  PROVE  Blocks' = IF Copying' THEN PartsOf(tmp', Unflagged') ELSE PartsOf(l', 1 .. Len(l'))
<1>1. DOMAIN tmp' = 1 .. Len(tmp') /\ DOMAIN l' = 1 .. Len(l')
  BY DEF Rest
<1> QED
  BY <1>1 DEF Blocks, Copying, Unflagged, PartsOf

LEMMA InitParts == ASSUME Init PROVE PartsInv /\ Grouped!Init
<1>1. pc = "filter1" /\ i < j /\ Len(input) \in Nat
  BY InputsAssumption DEF Init
<1>2. Len(l) = Len(input) /\ \A k \in 1 .. Len(l) : l[k].parts = {k}
  BY <1>1 DEF Init
<1>3. Apart(l, 1 .. Len(l))
  BY <1>2 DEF Apart
<1>4. PartsInv
  BY <1>1, <1>3 DEF PartsInv, ListApart, CopyApart, Refilled, Ahead, Emptied, Copying
<1>5. Blocks = PartsOf(l, 1 .. Len(l))
  BY <1>1, BlocksAre, InitType, TypeSplit DEF Copying
<1>6. Blocks = {{k} : k \in 1 .. Len(l)}
  BY <1>2, <1>5 DEF PartsOf
<1>7. UNION Blocks = 1 .. Len(l)
  BY <1>6
<1> QED
  BY <1>1, <1>4, <1>6, <1>7 DEF Grouped!Init, Stage

-----------------------------------------------------------------------------
(* Every step. *)

Quiet == PartsInv' /\ UNCHANGED <<Blocks, Stage>>
Real  == PartsInv' /\ Grouped!Next

LEMMA EraseParts == ASSUME Rest, Rest', PartsInv, EraseComp PROVE Real
<1> USE DEF Rest
<1>1. /\ l' = RemoveAt(l, i) /\ i \in 1 .. Len(l) /\ pc' = pc /\ Filtering /\ tmp' = tmp
      /\ ~Copying /\ ~Copying'
  BY DEF EraseComp, Filtering, Copying
<1>2. Apart(l, 1 .. Len(l))
  BY <1>1 DEF PartsInv, ListApart
<1>3. /\ PartsOf(l, (1 .. Len(l)) \ {i}) = PartsOf(l, 1 .. Len(l)) \ {l[i].parts}
      /\ Apart(l, (1 .. Len(l)) \ {i})
  BY <1>1, <1>2, DroppedParts
<1>4. /\ PartsOf(l', 1 .. Len(l')) = PartsOf(l, (1 .. Len(l)) \ {i})
      /\ Apart(l', 1 .. Len(l'))
  BY <1>1, <1>3, RemovedParts
<1>5. PartsInv'
  BY <1>1, <1>4 DEF PartsInv, ListApart, CopyApart, Refilled, Ahead, Emptied, Copying, Filtering, Apart
<1>6. Blocks = PartsOf(l, 1 .. Len(l)) /\ Blocks' = PartsOf(l', 1 .. Len(l'))
  BY <1>1, BlocksAre, NextBlocksAre
<1>7. Blocks' = Blocks \ {l[i].parts} /\ l[i].parts \in Blocks
  BY <1>1, <1>3, <1>4, <1>6 DEF PartsOf
<1>8. Stage = "grouping" /\ Stage' = "grouping"
  BY <1>1 DEF Stage, Filtering
<1> QED
  BY <1>5, <1>7, <1>8 DEF Real, Grouped!Next, Grouped!Drop

LEMMA AbsorbParts == ASSUME Rest, Rest', PartsInv, Absorb PROVE Real
<1> USE DEF Rest
<1>1. /\ pc = "overlap" /\ pc' = "overlap" /\ i \in Unflagged /\ j \in Unflagged /\ i # j
      /\ tmp' = [tmp EXCEPT ![i] = Merged(tmp[i], tmp[j])]
      /\ flagged' = flagged \cup {j} /\ Copying /\ Copying' /\ i' < j'
  BY DEF Absorb, StartPass, Unflagged, Copying, PartsInv, Ahead
<1>2. /\ Len(tmp') = Len(tmp)
      /\ tmp'[i].parts = tmp[i].parts \cup tmp[j].parts
      /\ \A k \in Unflagged \ {i, j} : tmp'[k].parts = tmp[k].parts
  BY <1>1 DEF Unflagged, Merged
<1>3. Unflagged' = Unflagged \ {j}
  BY <1>1, <1>2 DEF Unflagged
<1>4. Apart(tmp, Unflagged)
  BY <1>1 DEF PartsInv, CopyApart
<1>5. /\ PartsOf(tmp', Unflagged \ {j})
           = (PartsOf(tmp, Unflagged) \ {tmp[i].parts, tmp[j].parts}) \cup {tmp[i].parts \cup tmp[j].parts}
      /\ Apart(tmp', Unflagged \ {j})
      /\ tmp[i].parts # tmp[j].parts
  <2>1. i \in Unflagged /\ j \in Unflagged /\ i # j
    BY <1>1
  <2>2. Merging(tmp, tmp', Unflagged, i, j)
    BY <2>1, <1>2, <1>4 DEF Merging
  <2> HIDE DEF Rest
  <2> QED
    BY <2>2, MergedParts
<1>6. PartsInv'
  BY <1>1, <1>3, <1>5 DEF PartsInv, ListApart, CopyApart, Refilled, Ahead, Emptied, Apart
<1>7. Blocks = PartsOf(tmp, Unflagged) /\ Blocks' = PartsOf(tmp', Unflagged')
  BY <1>1, BlocksAre, NextBlocksAre
<1>8. /\ tmp[i].parts \in Blocks /\ tmp[j].parts \in Blocks
      /\ Blocks' = (Blocks \ {tmp[i].parts, tmp[j].parts}) \cup {tmp[i].parts \cup tmp[j].parts}
  BY <1>1, <1>3, <1>5, <1>7 DEF PartsOf
<1>9. Stage = "grouping" /\ Stage' = "grouping"
  BY <1>1 DEF Stage
<1> QED
  BY <1>5, <1>6, <1>8, <1>9 DEF Real, Grouped!Next, Grouped!Join

LEMMA JoinParts == ASSUME Rest, Rest', PartsInv, Join PROVE Real
<1> USE DEF Rest
<1> DEFINE t == [l EXCEPT ![i] = Merged(l[i], l[j])]
<1>1. /\ l' = RemoveAt(t, j) /\ i \in 1 .. Len(l) /\ j \in 1 .. Len(l) /\ i < j
      /\ pc' = pc /\ i' = i /\ j' = j /\ Joining /\ ~Copying /\ ~Copying'
  BY DEF Join, Joining, Copying, PartsInv, Ahead
<1>2. /\ Len(t) = Len(l)
      /\ t[i].parts = l[i].parts \cup l[j].parts
      /\ \A k \in (1 .. Len(l)) \ {i, j} : t[k].parts = l[k].parts
  BY <1>1 DEF Merged
<1>3. t \in Seq(Component)
  <2>1. l[i] \in Component /\ l[j] \in Component /\ l \in Seq(Component)
    BY <1>1
  <2> QED
    BY <1>1, <2>1, MergedType, ExceptSeq
<1> HIDE DEF t
<1>4. Apart(l, 1 .. Len(l))
  BY <1>1 DEF PartsInv, ListApart
<1>5. /\ PartsOf(t, (1 .. Len(l)) \ {j})
           = (PartsOf(l, 1 .. Len(l)) \ {l[i].parts, l[j].parts}) \cup {l[i].parts \cup l[j].parts}
      /\ Apart(t, (1 .. Len(l)) \ {j})
      /\ l[i].parts # l[j].parts
  <2>1. i \in 1 .. Len(l) /\ j \in 1 .. Len(l) /\ i # j
    BY <1>1
  <2> DEFINE I == 1 .. Len(l)
  <2> HIDE DEF Rest, I
  <2>2. Merging(l, t, I, i, j)
    BY <2>1, <1>2, <1>4 DEF Merging, I
  <2>3. /\ PartsOf(t, I \ {j}) = (PartsOf(l, I) \ {l[i].parts, l[j].parts}) \cup {l[i].parts \cup l[j].parts}
        /\ Apart(t, I \ {j})
        /\ l[i].parts # l[j].parts
    BY <2>2, MergedParts
  <2> QED
    BY <2>3 DEF I
<1>6. /\ PartsOf(l', 1 .. Len(l')) = PartsOf(t, (1 .. Len(l)) \ {j})
      /\ Apart(l', 1 .. Len(l'))
  BY <1>1, <1>2, <1>3, <1>5, RemovedParts
<1>7. PartsInv'
  BY <1>1, <1>6 DEF PartsInv, ListApart, CopyApart, Refilled, Ahead, Emptied, Apart, Joining, Copying
<1>8. Blocks = PartsOf(l, 1 .. Len(l)) /\ Blocks' = PartsOf(l', 1 .. Len(l'))
  BY <1>1, BlocksAre, NextBlocksAre
<1>9. /\ l[i].parts \in Blocks /\ l[j].parts \in Blocks
      /\ Blocks' = (Blocks \ {l[i].parts, l[j].parts}) \cup {l[i].parts \cup l[j].parts}
  BY <1>1, <1>5, <1>6, <1>8 DEF PartsOf
<1>10. Stage = "grouping" /\ Stage' = "grouping"
  BY <1>1 DEF Stage, Joining
<1> QED
  BY <1>5, <1>7, <1>9, <1>10 DEF Real, Grouped!Next, Grouped!Join

(* The copy is the list. *)
LEMMA CopyParts == ASSUME Rest, Rest', PartsInv, EndFilter1 PROVE Quiet
<1>1. /\ pc = "filter1" /\ pc' = "overlap" /\ tmp' = l /\ flagged' = {} /\ ~Copying /\ Copying'
      /\ i' < j'
  BY DEF EndFilter1, StartPass, Copying
<1>2. Unflagged' = 1 .. Len(l)
  BY <1>1 DEF Unflagged
<1>3. Blocks' = Blocks
  BY <1>1, <1>2, BlocksAre, NextBlocksAre
<1>4. Apart(tmp', Unflagged')
  BY <1>1, <1>2 DEF PartsInv, ListApart
<1>5. PartsInv'
  BY <1>1, <1>4 DEF PartsInv, ListApart, CopyApart, Refilled, Ahead, Emptied, Apart
<1> QED
  BY <1>1, <1>3, <1>5 DEF Quiet, Stage

(* The list is emptied and refilled while the copy holds the blocks. *)
LEMMA RefillParts == ASSUME Rest, Rest', PartsInv, EndSearch \/ Collect PROVE Quiet
<1> USE DEF Rest
<1>1. /\ Copying /\ pc' = "collect" /\ tmp' = tmp /\ flagged' = flagged
      /\ Unflagged' = Unflagged /\ Copying'
  BY DEF EndSearch, Collect, StartPass, Copying, Unflagged
<1>2. Blocks' = Blocks /\ Stage' = Stage
  BY <1>1, BlocksAre, NextBlocksAre DEF Stage, Copying
<1>3. Apart(tmp, Unflagged)
  BY <1>1 DEF PartsInv, CopyApart
<1>4. /\ PartsOf(l', 1 .. Len(l')) = PartsOf(tmp, {m \in Unflagged : m < i'})
      /\ Apart(l', 1 .. Len(l'))
  <2>1. CASE EndSearch
    <3>1. l' = <<>> /\ i' = 1 /\ 1 .. Len(l') = {}
      BY <2>1, EmptySeq DEF EndSearch, StartPass
    <3>2. {m \in Unflagged : m < i'} = {}
      BY <3>1 DEF Unflagged
    <3> QED
      BY <3>1, <3>2 DEF PartsOf, Apart
  <2>2. CASE Collect
    <3>1. /\ pc = "collect" /\ i \in 1 .. Len(tmp) /\ i' = i + 1
          /\ l' = IF i \in flagged THEN l ELSE Append(l, tmp[i])
      BY <2>2 DEF Collect
    <3>2. /\ PartsOf(l, 1 .. Len(l)) = PartsOf(tmp, {m \in Unflagged : m < i})
          /\ Apart(l, 1 .. Len(l))
      BY <3>1 DEF PartsInv, Refilled
    <3>3. CASE i \in flagged
      <4>1. {m \in Unflagged : m < i'} = {m \in Unflagged : m < i}
        BY <3>1, <3>3 DEF Unflagged
      <4> QED
        BY <3>1, <3>2, <3>3, <4>1
    <3>4. CASE i \notin flagged
      <4>1. i \in Unflagged /\ tmp[i] \in Component
        BY <3>1, <3>4 DEF Unflagged
      <4>2. {m \in Unflagged : m < i'} = {m \in Unflagged : m < i} \cup {i}
        BY <3>1, <4>1 DEF Unflagged
      <4>3. /\ Len(l) \in Nat /\ 1 .. Len(l') = (1 .. Len(l)) \cup {Len(l) + 1}
            /\ l'[Len(l) + 1] = tmp[i]
            /\ \A k \in 1 .. Len(l) : l'[k] = l[k]
        BY <3>1, <3>4, <4>1
      <4>4. PartsOf(l', 1 .. Len(l')) = PartsOf(l, 1 .. Len(l)) \cup {tmp[i].parts}
        <5> DEFINE I == 1 .. Len(l)
        <5>1. /\ 1 .. Len(l') = I \cup {Len(l) + 1}
              /\ l'[Len(l) + 1] = tmp[i]
              /\ \A k \in I : l'[k] = l[k]
          BY <4>3
        <5> HIDE DEF I
        <5>2. \A k \in I \cup {Len(l) + 1} : l'[k].parts \in PartsOf(l, I) \cup {tmp[i].parts}
          BY <5>1 DEF PartsOf
        <5>3. \A k \in I : l[k].parts \in PartsOf(l', I \cup {Len(l) + 1})
          BY <5>1 DEF PartsOf
        <5>4. tmp[i].parts \in PartsOf(l', I \cup {Len(l) + 1})
          BY <5>1 DEF PartsOf
        <5>5. PartsOf(l', I \cup {Len(l) + 1}) = PartsOf(l, I) \cup {tmp[i].parts}
          BY <5>2, <5>3, <5>4 DEF PartsOf
        <5> QED
          BY <5>1, <5>5 DEF I
      <4>5. PartsOf(tmp, {m \in Unflagged : m < i} \cup {i})
              = PartsOf(tmp, {m \in Unflagged : m < i}) \cup {tmp[i].parts}
        BY DEF PartsOf
      <4>6. ASSUME NEW k \in 1 .. Len(l)
            PROVE  l[k].parts \cap tmp[i].parts = {}
        <5>1. l[k].parts \in PartsOf(tmp, {m \in Unflagged : m < i})
          BY <3>2 DEF PartsOf
        <5>2. PICK m \in Unflagged : m < i /\ l[k].parts = tmp[m].parts
          BY <5>1 DEF PartsOf
        <5>3. m # i
          BY <5>2 DEF Unflagged
        <5> QED
          BY <1>3, <4>1, <5>2, <5>3 DEF Apart
      <4>7. tmp[i].parts # {}
        BY <1>3, <4>1 DEF Apart
      <4>8. Apart(l', 1 .. Len(l'))
        <5> SUFFICES ASSUME NEW x \in 1 .. Len(l'), NEW y \in 1 .. Len(l')
                     PROVE  l'[x].parts # {} /\ (x # y => l'[x].parts \cap l'[y].parts = {})
          BY DEF Apart
        <5>1. CASE x \in 1 .. Len(l) /\ y \in 1 .. Len(l)
          BY <5>1, <3>2, <4>3 DEF Apart
        <5>2. CASE x \in 1 .. Len(l) /\ y = Len(l) + 1
          BY <5>2, <3>2, <4>3, <4>6 DEF Apart
        <5>3. CASE x = Len(l) + 1 /\ y \in 1 .. Len(l)
          BY <5>3, <4>3, <4>6, <4>7
        <5>4. CASE x = Len(l) + 1 /\ y = Len(l) + 1
          BY <5>4, <4>3, <4>7
        <5> QED
          BY <4>3, <5>1, <5>2, <5>3, <5>4
      <4> QED
        BY <3>2, <4>2, <4>4, <4>5, <4>8
    <3> QED
      BY <3>3, <3>4
  <2> QED
    BY <2>1, <2>2
<1>5. Apart(tmp', Unflagged') /\ {m \in Unflagged' : m < i'} = {m \in Unflagged : m < i'}
  BY <1>1, <1>3
<1>6. Refilled'
  <2>1. PartsOf(l', 1 .. Len(l')) = PartsOf(tmp', {m \in Unflagged' : m < i'})
    BY <1>1, <1>4, <1>5
  <2> QED
    BY <2>1, <1>4 DEF Refilled, PartsOf, Apart
<1>7. PartsInv'
  BY <1>1, <1>5, <1>6 DEF PartsInv, ListApart, CopyApart, Ahead, Emptied, Apart
<1> QED
  BY <1>2, <1>7 DEF Quiet

LEMMA RefilledParts == ASSUME Rest, Rest', PartsInv, EndCollect PROVE Quiet
<1> USE DEF Rest
<1>1. /\ pc = "collect" /\ pc' = "sum" /\ l' = l /\ Copying /\ ~Copying' /\ i > Len(tmp)
  BY DEF EndCollect, StartPass, Copying
<1>2. {m \in Unflagged : m < i} = Unflagged
  BY <1>1 DEF Unflagged
<1>3. PartsOf(l, 1 .. Len(l)) = PartsOf(tmp, Unflagged) /\ Apart(l, 1 .. Len(l))
  BY <1>1, <1>2 DEF PartsInv, Refilled
<1>4. Blocks' = Blocks
  BY <1>1, <1>3, BlocksAre, NextBlocksAre
<1>5. PartsInv'
  BY <1>1, <1>3 DEF PartsInv, ListApart, CopyApart, Refilled, Ahead, Emptied, Apart
<1> QED
  BY <1>1, <1>4, <1>5 DEF Quiet, Stage

(* Neighbours change places. *)
LEMMA CompareParts == ASSUME Rest, Rest', PartsInv, Compare PROVE Quiet
<1> USE DEF Rest
<1>1. /\ j - 1 \in 1 .. Len(l) /\ j \in 1 .. Len(l) /\ pc = "sort" /\ pc' = "sort"
      /\ l' = l \/ l' = Exchanged
      /\ ~Copying /\ ~Copying' /\ Len(l) # 0
  BY DEF Compare, Copying
<1>2. /\ Len(l') = Len(l)
      /\ l' = l \/ \A k \in 1 .. Len(l) :
                     l'[k] = IF k = j THEN l[j - 1] ELSE IF k = j - 1 THEN l[j] ELSE l[k]
  BY <1>1, SMTT(30) DEF Exchanged
<1>3. Apart(l, 1 .. Len(l)) /\ Blocks = PartsOf(l, 1 .. Len(l)) /\ Blocks' = PartsOf(l', 1 .. Len(l'))
  BY <1>1, BlocksAre, NextBlocksAre DEF PartsInv, ListApart
<1>4. CASE l' = l
  <2>1. PartsInv'
    BY <1>1, <1>3, <1>4 DEF PartsInv, ListApart, CopyApart, Refilled, Ahead, Emptied, Apart
  <2> QED
    BY <1>1, <1>3, <1>4, <2>1 DEF Quiet, Stage
<1>5. CASE l' # l
  <2> DEFINE from(n) == IF n = j THEN j - 1 ELSE IF n = j - 1 THEN j ELSE n
             I == 1 .. Len(l)
  <2>1. \A k \in I : from(k) \in I /\ from(from(k)) = k
    BY <1>1
  <2>2. \A k \in I : l'[k] = l[from(k)]
    BY <1>2, <1>5
  <2>3. Apart(l, I) /\ Blocks = PartsOf(l, I) /\ Blocks' = PartsOf(l', I)
    BY <1>2, <1>3
  <2> HIDE DEF from, I
  <2>4. PartsOf(l', I) = PartsOf(l, I)
    <3>1. \A k \in I : l'[k].parts \in PartsOf(l, I)
      BY <2>1, <2>2 DEF PartsOf
    <3>2. \A k \in I : l'[from(k)] = l[k]
      BY <2>1, <2>2
    <3>3. \A k \in I : l[k].parts \in PartsOf(l', I)
      BY <2>1, <3>2 DEF PartsOf
    <3> QED
      BY <3>1, <3>3 DEF PartsOf
  <2>5. Apart(l', I)
    <3>1. \A k, m \in I : k # m => from(k) # from(m)
      BY <2>1
    <3>2. ASSUME NEW k \in I, NEW m \in I
          PROVE  l'[k].parts # {} /\ (k # m => l'[k].parts \cap l'[m].parts = {})
      <4>1. from(k) \in I /\ from(m) \in I /\ l'[k] = l[from(k)] /\ l'[m] = l[from(m)]
            /\ (k # m => from(k) # from(m))
        BY <2>1, <2>2, <3>1
      <4> QED
        BY <2>3, <4>1 DEF Apart
    <3> QED
      BY <3>2 DEF Apart
  <2>6. Apart(l', 1 .. Len(l')) /\ l' # <<>>
    BY <1>1, <1>2, <2>5, EmptySeq DEF I
  <2>7. PartsInv'
    BY <1>1, <2>6 DEF PartsInv, ListApart, CopyApart, Refilled, Ahead, Emptied, Apart
  <2> QED
    BY <1>1, <2>3, <2>4, <2>7 DEF Quiet, Stage
<1> QED
  BY <1>4, <1>5

(* The call returns, or fails on an empty list. *)
LEMMA ReturnParts == ASSUME Rest, Rest', PartsInv, EndSort PROVE Real
<1> USE DEF Rest
<1>1. pc = "sort" /\ pc' = "done" /\ l' = l /\ ~Copying /\ ~Copying'
  BY DEF EndSort, Copying
<1>2. l # <<>> /\ Apart(l, 1 .. Len(l))
  BY <1>1 DEF PartsInv, Emptied, ListApart
<1>3. Blocks' = Blocks /\ l[1].parts \in Blocks
  <2>1. 1 \in 1 .. Len(l)
    BY <1>2, EmptySeq
  <2> QED
    BY <1>1, <2>1, BlocksAre, NextBlocksAre DEF PartsOf
<1>4. PartsInv'
  BY <1>1, <1>2 DEF PartsInv, ListApart, CopyApart, Refilled, Ahead, Emptied, Apart
<1>5. Stage = "grouping" /\ Stage' = "returned"
  BY <1>1 DEF Stage
<1> QED
  BY <1>3, <1>4, <1>5 DEF Real, Grouped!Next, Grouped!Return

LEMMA CrashParts ==
  ASSUME Rest, Rest', PartsInv, EndFilter2 \/ DivideSum
  PROVE  Quiet \/ Real
<1> USE DEF Rest
<1>1. /\ pc \in {"filter2", "sum"} /\ l' = l /\ ~Copying /\ ~Copying'
      /\ pc' = "crash" <=> l = <<>>
      /\ pc' \in {"crash", "sort", "small"}
      /\ i' < j'
  BY DEF EndFilter2, DivideSum, StartPass, Copying
<1>2. Apart(l, 1 .. Len(l)) /\ Blocks' = Blocks /\ Blocks = PartsOf(l, 1 .. Len(l))
  BY <1>1, BlocksAre, NextBlocksAre DEF PartsInv, ListApart
<1>3. PartsInv'
  BY <1>1, <1>2 DEF PartsInv, ListApart, CopyApart, Refilled, Ahead, Emptied, Apart
<1>4. CASE l = <<>>
  <2>1. Blocks = {}
    BY <1>2, <1>4, EmptySeq DEF PartsOf
  <2>2. Stage = "grouping" /\ Stage' = "crashed"
    BY <1>1, <1>4 DEF Stage
  <2> QED
    BY <1>2, <1>3, <2>1, <2>2 DEF Real, Grouped!Next, Grouped!Crash
<1>5. CASE l # <<>>
  BY <1>1, <1>2, <1>3, <1>5 DEF Quiet, Stage
<1> QED
  BY <1>4, <1>5

(* The loops' other turns move an index only. *)
LEMMA LoopParts ==
  ASSUME Rest, Rest', PartsInv,
         KeepComp \/ PassOver \/ NextToGroup \/ AddWidth \/ Skip \/ NextToJoin \/ EndPass \/ NextBubble
  PROVE  Quiet
<1> USE DEF Rest
<1>1. /\ l' = l /\ tmp' = tmp /\ flagged' = flagged /\ Unflagged' = Unflagged
      /\ Copying' = Copying
      /\ pc \notin {"collect", "done", "crash"} /\ pc' \notin {"collect", "done", "crash"}
      /\ pc' = "sort" => pc = "sort"
  BY DEF KeepComp, PassOver, NextToGroup, AddWidth, Skip, NextToJoin, EndPass, NextBubble,
         StartPass, Copying, Unflagged, Joining, Filtering
<1>2. Ahead'
  BY DEF KeepComp, PassOver, NextToGroup, AddWidth, Skip, NextToJoin, EndPass, NextBubble,
         StartPass, Joining, Filtering, PartsInv, Ahead
<1>3. Blocks' = Blocks /\ Stage' = Stage
  BY <1>1, BlocksAre, NextBlocksAre DEF Stage
<1>4. PartsInv'
  BY <1>1, <1>2 DEF PartsInv, ListApart, CopyApart, Refilled, Emptied, Apart
<1> QED
  BY <1>3, <1>4 DEF Quiet

LEMMA StepParts ==
  ASSUME Rest, PartsInv, [Next]_vars
  PROVE  Rest' /\ PartsInv' /\ [Grouped!Next]_<<Blocks, Stage>>
<1>1. Rest'
  BY NextType
<1>2. ASSUME Next PROVE Quiet \/ Real
  BY <1>1, <1>2, EraseParts, AbsorbParts, JoinParts, CopyParts, RefillParts, RefilledParts,
     CompareParts, ReturnParts, CrashParts, LoopParts DEF Next
<1>3. ASSUME UNCHANGED vars PROVE Quiet
  <2>1. UNCHANGED <<l, tmp, flagged, i, j, pc>> /\ Unflagged' = Unflagged /\ Copying' = Copying
    BY <1>3 DEF vars, Unflagged, Copying
  <2>2. UNCHANGED <<Blocks, Stage>>
    BY <2>1, <1>1, BlocksAre, NextBlocksAre DEF Stage
  <2>3. ListApart' /\ CopyApart'
    BY <2>1 DEF PartsInv, ListApart, CopyApart, Apart
  <2>4. Refilled'
    <3> SUFFICES ASSUME pc' = "collect" PROVE Refilled'
      BY DEF Refilled
    <3>1. /\ PartsOf(l, 1 .. Len(l)) = PartsOf(tmp, {m \in Unflagged : m < i})
          /\ Apart(l, 1 .. Len(l))
      BY <2>1 DEF PartsInv, Refilled
    <3>2. {m \in Unflagged : m < i} = {m \in Unflagged' : m < i'}
      BY <2>1
    <3>3. PartsOf(l', 1 .. Len(l')) = PartsOf(tmp', {m \in Unflagged' : m < i'})
      BY <2>1, <3>1, <3>2
    <3>4. Apart(l', 1 .. Len(l'))
      BY <2>1, <3>1
    <3> QED
      BY <3>3, <3>4 DEF Refilled, PartsOf, Apart
  <2>5. Ahead' /\ Emptied'
    BY <2>1 DEF PartsInv, Ahead, Emptied
  <2> QED
    BY <2>2, <2>3, <2>4, <2>5 DEF Quiet, PartsInv
<1> QED
  BY <1>1, <1>2, <1>3 DEF Quiet, Real

-----------------------------------------------------------------------------
(* getComponents implements Grouping, for every list of boxes. *)
THEOREM Implements == Spec => ImplementsGrouping
<1>1. Init => Rest /\ PartsInv /\ Grouped!Init
  BY InitType, TypeSplit, InitParts
<1> QED
  BY <1>1, StepParts, PTL DEF Spec, ImplementsGrouping, Grouped!Spec

-----------------------------------------------------------------------------
(* Termination.  Five numbers compared from the left; no sequence of them   *)
(* descends for ever.                                                      *)
Less   == OpToRel(<, Nat)
Order2 == LexPairOrdering(Less, Less, Nat, Nat)
Order3 == LexPairOrdering(Less, Order2, Nat, Nat \X Nat)
Order4 == LexPairOrdering(Less, Order3, Nat, Nat \X (Nat \X Nat))
Order  == LexPairOrdering(Less, Order4, Nat, Nat \X (Nat \X (Nat \X Nat)))

Five(a, b, c, e, f) == <<a, <<b, <<c, <<e, f>>>>>>>>

(* No sequence of them descends for ever. *)
LEMMA OrderWellFounded == IsWellFoundedOn(Order, Nat \X (Nat \X (Nat \X (Nat \X Nat))))
<1>1. IsWellFoundedOn(Less, Nat)
  BY NatLessThanWellFounded, Zenon DEF Less
<1>2. IsWellFoundedOn(Order2, Nat \X Nat)
  BY <1>1, WFLexPairOrdering DEF Order2
<1>3. IsWellFoundedOn(Order3, Nat \X (Nat \X Nat))
  BY <1>1, <1>2, WFLexPairOrdering DEF Order3
<1>4. IsWellFoundedOn(Order4, Nat \X (Nat \X (Nat \X Nat)))
  BY <1>1, <1>3, WFLexPairOrdering DEF Order4
<1> QED
  BY <1>1, <1>4, WFLexPairOrdering DEF Order

(* What descends in the first of the numbers that changes. *)
LEMMA InOrder ==
  ASSUME NEW a \in Nat, NEW b \in Nat, NEW c \in Nat, NEW e \in Nat, NEW f \in Nat,
         NEW u \in Nat, NEW v \in Nat, NEW w \in Nat, NEW x \in Nat, NEW y \in Nat,
         \/ u < a
         \/ u = a /\ v < b
         \/ u = a /\ v = b /\ w < c
         \/ u = a /\ v = b /\ w = c /\ x < e
         \/ u = a /\ v = b /\ w = c /\ x = e /\ y < f
  PROVE  <<Five(u, v, w, x, y), Five(a, b, c, e, f)>> \in Order
<1>1. \A k, m \in Nat : k < m => <<k, m>> \in Less
  BY DEF Less, OpToRel
<1>2. (x < e \/ (x = e /\ y < f)) => <<<<x, y>>, <<e, f>>>> \in Order2
  BY <1>1 DEF Order2, LexPairOrdering
<1>3. (w < c \/ (w = c /\ (x < e \/ (x = e /\ y < f))))
        => <<<<w, <<x, y>>>>, <<c, <<e, f>>>>>> \in Order3
  BY <1>1, <1>2 DEF Order3, LexPairOrdering
<1>4. (v < b \/ (v = b /\ (w < c \/ (w = c /\ (x < e \/ (x = e /\ y < f))))))
        => <<<<v, <<w, <<x, y>>>>>>, <<b, <<c, <<e, f>>>>>>>> \in Order4
  BY <1>1, <1>3 DEF Order4, LexPairOrdering
<1> QED
  BY <1>1, <1>4 DEF Order, Five, LexPairOrdering

(* The phases before the end; the components that can still be merged; the  *)
(* pass still to be made; and what is left of the two loops.               *)
Phase ==
  CASE pc = "filter1" -> 8
    [] pc = "overlap" -> 7
    [] pc = "collect" -> 6
    [] pc = "sum" -> 5
    [] pc = "small" -> 4
    [] pc = "bbox" -> 3
    [] pc = "filter2" -> 2
    [] pc = "sort" -> 1
    [] OTHER -> 0

ComponentsLeft ==
  CASE pc = "overlap" -> Cardinality(Unflagged)
    [] Joining \/ Filtering -> Len(l)
    [] OTHER -> 0

PassesLeft == IF changed THEN 1 ELSE 0

(* The elements from place k on. *)
From(k, len) == IF k <= len THEN len + 1 - k ELSE 0

OuterLeft == From(i, IF pc \in {"overlap", "collect"} THEN Len(tmp) ELSE Len(l))

InnerLeft == From(j, IF pc = "overlap" THEN Len(tmp) ELSE Len(l))

StepsLeft == Five(Phase, ComponentsLeft, PassesLeft, OuterLeft, InnerLeft)

NearerToEnd == <<StepsLeft', StepsLeft>> \in Order

StepsLeftDescend == [][NearerToEnd]_vars

StepsCounted ==
  /\ Phase \in Nat /\ ComponentsLeft \in Nat /\ PassesLeft \in Nat
  /\ OuterLeft \in Nat /\ InnerLeft \in Nat

LEMMA FromNat == \A k, len \in Nat : From(k, len) \in Nat /\ (k <= len => From(k + 1, len) < From(k, len))
BY DEF From

LEMMA UnflaggedFinite ==
  ASSUME Rest
  PROVE  IsFiniteSet(Unflagged) /\ Cardinality(Unflagged) \in Nat
<1>1. Len(tmp) \in Nat
  BY DEF Rest
<1>2. IsFiniteSet(1 .. Len(tmp))
  BY <1>1, FS_Interval
<1>3. IsFiniteSet(Unflagged)
  BY <1>2, FS_Subset DEF Unflagged
<1> QED
  BY <1>3, FS_CardinalityType

LEMMA CountsAreNumbers == Rest => StepsCounted
<1> SUFFICES ASSUME Rest PROVE StepsCounted
  OBVIOUS
<1>1. i \in Nat /\ j \in Nat /\ Len(l) \in Nat /\ Len(tmp) \in Nat
  BY DEF Rest
<1>2. Phase \in Nat
  BY DEF Phase
<1>3. ComponentsLeft \in Nat
  BY <1>1, UnflaggedFinite DEF ComponentsLeft
<1>4. PassesLeft \in Nat
  BY DEF PassesLeft
<1>5. OuterLeft \in Nat /\ InnerLeft \in Nat
  BY <1>1, FromNat DEF OuterLeft, InnerLeft
<1> QED
  BY <1>2, <1>3, <1>4, <1>5 DEF StepsCounted

LEMMA StepDescends ==
  Rest /\ StepsCounted /\ StepsCounted' /\ Next => NearerToEnd
<1> SUFFICES ASSUME Rest, StepsCounted, StepsCounted', Next PROVE NearerToEnd
  OBVIOUS
<1> DEFINE Descends(u, v, w, x, y) ==
      \/ u < Phase
      \/ u = Phase /\ v < ComponentsLeft
      \/ u = Phase /\ v = ComponentsLeft /\ w < PassesLeft
      \/ u = Phase /\ v = ComponentsLeft /\ w = PassesLeft /\ x < OuterLeft
      \/ u = Phase /\ v = ComponentsLeft /\ w = PassesLeft /\ x = OuterLeft /\ y < InnerLeft
<1>1. SUFFICES Descends(Phase', ComponentsLeft', PassesLeft', OuterLeft', InnerLeft')
  <2>1. <<Five(Phase', ComponentsLeft', PassesLeft', OuterLeft', InnerLeft'),
          Five(Phase, ComponentsLeft, PassesLeft, OuterLeft, InnerLeft)>> \in Order
    BY <1>1, InOrder DEF StepsCounted
  <2> QED
    BY <2>1 DEF NearerToEnd, StepsLeft, Five
<1>2. /\ i \in Nat \ {0} /\ j \in Nat \ {0, 1} /\ Len(l) \in Nat /\ Len(tmp) \in Nat
      /\ l \in Seq(Component) /\ tmp \in Seq(Component)
  BY DEF Rest
<1>3. pc' = pc => Phase' = Phase
  BY DEF Phase
<1>4. changed' = changed => PassesLeft' = PassesLeft
  BY DEF PassesLeft
<1>5. ASSUME pc' = pc, l' = l, tmp' = tmp, flagged' = flagged, changed' = changed
      PROVE  /\ Phase' = Phase /\ ComponentsLeft' = ComponentsLeft /\ PassesLeft' = PassesLeft
             /\ i' = i => OuterLeft' = OuterLeft
  BY <1>3, <1>4, <1>5 DEF ComponentsLeft, Unflagged, Joining, Filtering, OuterLeft
<1>6. ASSUME pc' = pc, l' = l, tmp' = tmp, i' = i + 1,
             i <= IF pc \in {"overlap", "collect"} THEN Len(tmp) ELSE Len(l)
      PROVE  OuterLeft' < OuterLeft
  BY <1>2, <1>6, FromNat DEF OuterLeft
<1>7. ASSUME pc' = pc, l' = l, tmp' = tmp, j' = j + 1,
             j <= IF pc = "overlap" THEN Len(tmp) ELSE Len(l)
      PROVE  InnerLeft' < InnerLeft
  BY <1>2, <1>7, FromNat DEF InnerLeft
<1>8. CASE KeepComp
  <2>1. /\ pc' = pc /\ l' = l /\ tmp' = tmp /\ flagged' = flagged /\ changed' = changed
        /\ i' = i + 1 /\ i <= Len(l) /\ pc \notin {"overlap", "collect"}
    BY <1>8 DEF KeepComp, Filtering
  <2> QED
    BY <1>5, <1>6, <2>1
<1>9. CASE EraseComp
  <2>1. Filtering /\ pc' = pc /\ l' = RemoveAt(l, i) /\ i \in 1 .. Len(l)
    BY <1>2, <1>9 DEF EraseComp
  <2>2. Len(l') = Len(l) - 1
    BY <1>2, <2>1, RemoveAtElements
  <2>3. ComponentsLeft' < ComponentsLeft
    BY <1>2, <2>1, <2>2 DEF ComponentsLeft, Filtering, Joining
  <2> QED
    BY <1>3, <2>1, <2>3
<1>10. CASE EndFilter1 \/ EndFilter2 \/ EndSearch \/ EndCollect \/ DivideSum \/ EndSort
  BY <1>10 DEF EndFilter1, EndFilter2, EndSearch, EndCollect, DivideSum, EndSort, StartPass, Phase
<1>11. CASE Absorb
  <2>1. /\ pc = "overlap" /\ pc' = "overlap" /\ flagged' = flagged \cup {j}
        /\ j \in Unflagged /\ Len(tmp') = Len(tmp)
    BY <1>2, <1>11 DEF Absorb, StartPass, Unflagged
  <2>2. Unflagged' = Unflagged \ {j}
    BY <2>1 DEF Unflagged
  <2>3. Cardinality(Unflagged') = Cardinality(Unflagged) - 1
    BY <2>1, <2>2, UnflaggedFinite, FS_RemoveElement
  <2>4. ComponentsLeft = Cardinality(Unflagged) /\ ComponentsLeft' = Cardinality(Unflagged')
    BY <2>1 DEF ComponentsLeft, Joining, Filtering
  <2>5. ComponentsLeft' < ComponentsLeft
    BY <2>3, <2>4, UnflaggedFinite
  <2> QED
    BY <1>3, <2>1, <2>5
<1>12. CASE PassOver
  <2>1. /\ pc' = pc /\ l' = l /\ tmp' = tmp /\ flagged' = flagged /\ changed' = changed
        /\ i' = i /\ j' = j + 1 /\ j <= Len(tmp) /\ pc = "overlap"
    BY <1>12 DEF PassOver
  <2> QED
    BY <1>5, <1>7, <2>1
<1>13. CASE NextToGroup
  <2>1. /\ pc' = pc /\ l' = l /\ tmp' = tmp /\ flagged' = flagged /\ changed' = changed
        /\ i' = i + 1 /\ i <= Len(tmp) /\ pc = "overlap"
    BY <1>13 DEF NextToGroup
  <2> QED
    BY <1>5, <1>6, <2>1
<1>14. CASE Collect
  <2>1. /\ pc = "collect" /\ pc' = "collect" /\ tmp' = tmp /\ changed' = changed
        /\ i' = i + 1 /\ i <= Len(tmp)
    BY <1>14 DEF Collect
  <2>2. ComponentsLeft' = ComponentsLeft
    BY <2>1 DEF ComponentsLeft, Joining, Filtering
  <2>3. OuterLeft' < OuterLeft
    BY <1>2, <2>1, FromNat DEF OuterLeft
  <2> QED
    BY <1>3, <1>4, <2>1, <2>2, <2>3
<1>15. CASE AddWidth
  <2>1. /\ pc' = pc /\ l' = l /\ tmp' = tmp /\ flagged' = flagged /\ changed' = changed
        /\ i' = i + 1 /\ i <= Len(l) /\ pc = "sum"
    BY <1>15 DEF AddWidth
  <2> QED
    BY <1>5, <1>6, <2>1
<1>16. CASE Join
  <2> DEFINE s == [l EXCEPT ![i] = Merged(l[i], l[j])]
  <2>1. Joining /\ pc' = pc /\ l' = RemoveAt(s, j) /\ i \in 1 .. Len(l) /\ j \in 1 .. Len(l)
    BY <1>2, <1>16 DEF Join
  <2>2. l[i] \in Component /\ l[j] \in Component
    BY <1>2, <2>1
  <2>3. s \in Seq(Component) /\ Len(s) = Len(l)
    BY <1>2, <2>1, <2>2, MergedType
  <2> HIDE DEF s
  <2>4. Len(l') = Len(l) - 1
    BY <2>1, <2>3, RemoveAtElements
  <2>5. ComponentsLeft' < ComponentsLeft
    BY <1>2, <2>1, <2>4 DEF ComponentsLeft, Filtering, Joining
  <2> QED
    BY <1>3, <2>1, <2>5
<1>17. CASE Skip
  <2>1. /\ pc' = pc /\ l' = l /\ tmp' = tmp /\ flagged' = flagged /\ changed' = changed
        /\ i' = i /\ j' = j + 1 /\ j <= Len(l) /\ pc # "overlap"
    BY <1>17 DEF Skip, Joining
  <2> QED
    BY <1>5, <1>7, <2>1
<1>18. CASE NextToJoin
  <2>1. /\ pc' = pc /\ l' = l /\ tmp' = tmp /\ flagged' = flagged /\ changed' = changed
        /\ i' = i + 1 /\ i <= Len(l) /\ pc \notin {"overlap", "collect"}
    BY <1>18 DEF NextToJoin, Joining
  <2> QED
    BY <1>5, <1>6, <2>1
<1>19. CASE EndPass
  <2>1. Joining /\ l' = l
    BY <1>19 DEF EndPass
  <2>2. CASE changed
    <3>1. pc' = pc /\ ~changed'
      BY <1>19, <2>2, Zenon DEF EndPass, StartPass
    <3>2. PassesLeft = 1 /\ PassesLeft' = 0
      BY <2>2, <3>1, Zenon DEF PassesLeft
    <3>3. ComponentsLeft' = ComponentsLeft
      BY <2>1, <3>1 DEF ComponentsLeft, Joining, Filtering
    <3> QED
      BY <1>3, <3>1, <3>2, <3>3
  <2>3. CASE ~changed
    <3>1. pc' = IF pc = "small" THEN "bbox" ELSE "filter2"
      BY <1>19, <2>3, Zenon DEF EndPass, StartPass
    <3> QED
      BY <2>1, <3>1 DEF Joining, Phase
  <2> QED
    BY <2>2, <2>3
<1>20. CASE Compare
  <2>1. /\ pc = "sort" /\ pc' = "sort" /\ tmp' = tmp /\ changed' = changed /\ i' = i
        /\ j' = j + 1 /\ j <= Len(l)
    BY <1>2, <1>20 DEF Compare
  <2>2. Len(l') = Len(l)
    BY <1>2, <1>20 DEF Compare, Exchanged
  <2>3. ComponentsLeft' = ComponentsLeft /\ OuterLeft' = OuterLeft
    BY <2>1, <2>2 DEF ComponentsLeft, Joining, Filtering, OuterLeft
  <2>4. InnerLeft' < InnerLeft
    BY <1>2, <2>1, <2>2, FromNat DEF InnerLeft
  <2> QED
    BY <1>3, <1>4, <2>1, <2>3, <2>4
<1>21. CASE NextBubble
  <2>1. /\ pc' = pc /\ l' = l /\ tmp' = tmp /\ flagged' = flagged /\ changed' = changed
        /\ i' = i + 1 /\ i <= Len(l) /\ pc = "sort"
    BY <1>2, <1>21 DEF NextBubble
  <2> QED
    BY <1>5, <1>6, <2>1
<1> QED
  BY <1>8, <1>9, <1>10, <1>11, <1>12, <1>13, <1>14, <1>15, <1>16, <1>17, <1>18, <1>19,
     <1>20, <1>21 DEF Next

(* No call goes on for ever, although the search for components to group    *)
(* starts over after every merge and the joining passes are repeated: every *)
(* step brings the call nearer to its end, in an order in which nothing    *)
(* descends for ever.                                                      *)
THEOREM EveryStepDescends ==
  /\ IsWellFoundedOn(Order, Nat \X (Nat \X (Nat \X (Nat \X Nat))))
  /\ Spec => [](StepsLeft \in Nat \X (Nat \X (Nat \X (Nat \X Nat))))
  /\ Spec => StepsLeftDescend
<1>1. Rest => StepsLeft \in Nat \X (Nat \X (Nat \X (Nat \X Nat)))
  BY CountsAreNumbers DEF StepsCounted, StepsLeft, Five
<1>2. Rest /\ StepsCounted /\ StepsCounted' /\ [Next]_vars => [NearerToEnd]_vars
  BY StepDescends
<1>3. TypeOK => Rest
  BY TypeSplit
<1>4. Spec => [](StepsLeft \in Nat \X (Nat \X (Nat \X (Nat \X Nat))))
  BY <1>1, <1>3, TypeCorrect, PTL
<1>5. Spec => StepsLeftDescend
  BY <1>2, <1>3, CountsAreNumbers, TypeCorrect, PTL DEF Spec, StepsLeftDescend
<1> QED
  BY <1>4, <1>5, OrderWellFounded

=============================================================================
