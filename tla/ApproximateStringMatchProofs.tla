-------------------- MODULE ApproximateStringMatchProofs --------------------
(***************************************************************************)
(* approximateStringMatch for every text, pattern, cost matrix and         *)
(* threshold, the empty ones included: types, the iterators of the pruning *)
(* loop, what pruning may erase, when no match is left, and that the ends, *)
(* the distances and the starts are those of the definition by alignments, *)
(* with the best match kept.                                               *)
(*                                                                         *)
(* The argument of the last part.  Price is what an alignment costs; Reach *)
(* and Back say that a value is the least price of a prefix of the pattern *)
(* and the windows that end at a column, and of a suffix and the windows   *)
(* that start at one.  An alignment without the pair of the two last       *)
(* symbols leaves one of them out, as two pairs would cross; that gives    *)
(* the recurrence of a cell (ReachStep, BackStep).  So every cell filled   *)
(* is right (ForwardCells, BackwardCells), although the passes share d;    *)
(* every match has its end's distance and every good end a match (Listed); *)
(* and every start sought is the last of its distance (StartsFound).  The  *)
(* distances of the definition exist, as no price is below a bound.        *)
(*                                                                         *)
(* At the end: every step lowers a measure that cannot fall for ever.      *)
(***************************************************************************)
EXTENDS ApproximateStringMatch, SequenceTheorems, FiniteSetTheorems,
        WellFoundedInduction, TLAPS

-----------------------------------------------------------------------------
(* What erasing an element does to a list. *)

(* Removing the element at place closes the gap. *)
LEMMA RemoveAtElements ==
  ASSUME NEW S, NEW s \in Seq(S), NEW place \in 1 .. Len(s)
  PROVE  /\ RemoveAt(s, place) \in Seq(S)
         /\ Len(RemoveAt(s, place)) = Len(s) - 1
         /\ \A k \in 1 .. Len(s) - 1 : RemoveAt(s, place)[k] = IF k < place THEN s[k] ELSE s[k + 1]
<1> DEFINE front == SubSeq(s, 1, place - 1)
           back  == SubSeq(s, place + 1, Len(s))
<1>1. Len(s) \in Nat /\ \A k \in 1 .. Len(s) : s[k] \in S
  OBVIOUS
<1>2. /\ front \in Seq(S)
      /\ Len(front) = place - 1
      /\ \A k \in 1 .. place - 1 : front[k] = s[k]
  <2>1. 1 \in Int /\ place - 1 \in Int /\ \A k \in 1 .. place - 1 : s[k] \in S
    BY <1>1
  <2>2. /\ front \in Seq(S)
        /\ Len(front) = IF 1 <= place - 1 THEN place - 1 - 1 + 1 ELSE 0
        /\ \A k \in 1 .. place - 1 - 1 + 1 : front[k] = s[1 + k - 1]
    BY <2>1, SubSeqProperties
  <2> QED
    BY <2>2, <1>1
<1>3. /\ back \in Seq(S)
      /\ Len(back) = Len(s) - place
      /\ \A k \in 1 .. Len(s) - place : back[k] = s[place + k]
  <2>1. place + 1 \in Int /\ Len(s) \in Int /\ \A k \in place + 1 .. Len(s) : s[k] \in S
    BY <1>1
  <2>2. /\ back \in Seq(S)
        /\ Len(back) = IF place + 1 <= Len(s) THEN Len(s) - (place + 1) + 1 ELSE 0
        /\ \A k \in 1 .. Len(s) - (place + 1) + 1 : back[k] = s[place + 1 + k - 1]
    BY <2>1, SubSeqProperties
  <2> QED
    BY <2>2, <1>1
<1> HIDE DEF front, back
<1>4. /\ front \o back \in Seq(S)
      /\ Len(front \o back) = Len(front) + Len(back)
      /\ \A k \in 1 .. Len(front) + Len(back) :
           (front \o back)[k] = IF k <= Len(front) THEN front[k] ELSE back[k - Len(front)]
  BY <1>2, <1>3, ConcatProperties
<1>5. RemoveAt(s, place) = front \o back
  BY DEF RemoveAt, front, back
<1>6. ASSUME NEW k \in 1 .. Len(s) - 1
      PROVE  (front \o back)[k] = IF k < place THEN s[k] ELSE s[k + 1]
  <2>1. k \in 1 .. Len(front) + Len(back)
    BY <1>1, <1>2, <1>3
  <2>2. CASE k < place
    BY <1>1, <1>2, <1>4, <2>1, <2>2
  <2>3. CASE ~(k < place)
    <3>1. k - (place - 1) \in 1 .. Len(s) - place /\ place + (k - (place - 1)) = k + 1
      BY <1>1, <2>3
    <3>2. (front \o back)[k] = back[k - (place - 1)]
      BY <1>1, <1>2, <1>4, <2>1, <2>3
    <3> QED
      BY <1>3, <2>3, <3>1, <3>2
  <2> QED
    BY <2>2, <2>3
<1>7. Len(front \o back) = Len(s) - 1
  BY <1>1, <1>2, <1>3, <1>4
<1> QED
  BY <1>4, <1>5, <1>6, <1>7

-----------------------------------------------------------------------------
(* Types, with the ranges of the loops' indices in each phase. *)
Types ==
  /\ d \in [Row -> [Column -> Int]]
  /\ match \in Seq(MatchType)
  /\ p \in -1 .. PatternSize + 1
  /\ t \in -1 .. textsize + 1
  /\ i \in Nat \ {0}
  /\ last \in MatchType \cup {Match(0, 0, 0)}
  /\ pc \in {"forward", "collect", "next", "backward", "start", "prune",
             "done", "crash"}

Arguments ==
  /\ textsize \in 0 .. MaxTextSize
  /\ cost \in [0 .. PatternSize - 1 -> [0 .. textsize - 1 -> Costs]]
  /\ n \in Thresholds

Ranges ==
  /\ pc = "forward" => p \in 1 .. PatternSize /\ t \in 1 .. textsize
  /\ pc = "collect" => t \in 1 .. textsize
  /\ pc = "backward" => /\ i \in DOMAIN match
                        /\ p \in 0 .. PatternSize - 1
                        /\ t \in 0 .. match[i].end
  /\ pc = "start" => i \in DOMAIN match /\ t \in -1 .. match[i].end + 1
  /\ pc = "prune" => i \in 2 .. Len(match) + 1

Typed == Types /\ Ranges

(* Nothing assigns the text. *)
LEMMA SameText ==
  [Next]_vars => textsize' = textsize /\ Column' = Column /\ MatchType' = MatchType
BY DEF Column, MatchType, Next, vars, args, ForwardCell, Collect, StartBackward,
       BackwardCell, StartHere, StartNotHere, NoStart, EndMatches, StartPrune,
       KeepLast, ReplaceLast, TakeNext, EndPrune

LEMMA InitTyped == Init => Typed /\ Arguments
<1> SUFFICES ASSUME Init PROVE Typed /\ Arguments
  OBVIOUS
<1> USE SizeAssumption, CostAssumption
<1>1. d \in [Row -> [Column -> Int]]
  <2>1. \A a \in Row : a * Unit \in Int
    BY DEF Row
  <2> QED
    BY <2>1 DEF Init, FirstCells
<1>2. match \in Seq(MatchType)
  BY DEF Init
<1>3. textsize \in Nat /\ last = Match(0, 0, 0) /\ match = <<>>
  BY DEF Init
<1>4. Types
  BY <1>1, <1>2, <1>3 DEF Init, Types
<1>5. Ranges
  BY <1>3 DEF Init, Ranges
<1>6. Arguments
  BY DEF Init, Arguments
<1> QED
  BY <1>4, <1>5, <1>6 DEF Typed

LEMMA NextArguments == Arguments /\ [Next]_vars => Arguments'
BY DEF Arguments, Next, vars, args, ForwardCell, Collect, StartBackward,
       BackwardCell, StartHere, StartNotHere, NoStart, EndMatches, StartPrune,
       KeepLast, ReplaceLast, TakeNext, EndPrune

(* Costs and thresholds are numbers. *)
LEMMA CostsAreNumbers ==
  ASSUME Arguments,
         NEW a \in 0 .. PatternSize - 1, NEW b \in 0 .. textsize - 1
  PROVE  cost[a][b] \in Nat
BY CostAssumption DEF Arguments

LEMMA MatchTyped ==
  ASSUME match \in Seq(MatchType), NEW k \in DOMAIN match
  PROVE  /\ match[k] \in MatchType
         /\ match[k].start \in Column
         /\ match[k].end \in 0 .. textsize - 1
         /\ match[k].edit_distance \in Int
<1>1. match[k] \in MatchType
  OBVIOUS
<1> QED
  BY <1>1 DEF MatchType

(* Assigning one cell. *)
LEMMA CellAssigned ==
  ASSUME d \in [Row -> [Column -> Int]],
         NEW a \in Row, NEW b \in Column, NEW v \in Int
  PROVE  [d EXCEPT ![a][b] = v] \in [Row -> [Column -> Int]]
OBVIOUS

LEMMA ForwardTyped == Typed /\ Arguments /\ ForwardCell => Typed'
<1> SUFFICES ASSUME Typed, Arguments, ForwardCell PROVE Typed'
  OBVIOUS
<1> USE SizeAssumption, CostAssumption
<1> textsize \in Nat /\ textsize' = textsize /\ Column' = Column /\ MatchType' = MatchType
  BY SizeAssumption, SameText DEF Arguments, Next
<1>1. p \in 1 .. PatternSize /\ t \in 1 .. textsize
  BY DEF Typed, Ranges, ForwardCell
<1>2. /\ cost[p - 1][t - 1] \in Int
      /\ d[p - 1][t - 1] \in Int /\ d[p][t - 1] \in Int /\ d[p - 1][t] \in Int
  <2>1. cost[p - 1][t - 1] \in Nat
    BY <1>1, CostsAreNumbers
  <2>2. /\ p - 1 \in Row /\ t - 1 \in Column
        /\ p \in Row /\ t - 1 \in Column
        /\ p - 1 \in Row /\ t \in Column
    BY <1>1 DEF Row, Column
  <2> QED
    BY <2>1, <2>2 DEF Typed, Types
<1>3. d' \in [Row -> [Column -> Int]]
  <2> DEFINE v == Least(d[p - 1][t - 1] + cost[p - 1][t - 1],
                        d[p][t - 1] + Unit, d[p - 1][t] + Unit)
  <2>1. v \in Int
    <3>1. /\ d[p - 1][t - 1] + cost[p - 1][t - 1] \in Int
          /\ d[p][t - 1] + Unit \in Int
          /\ d[p - 1][t] + Unit \in Int
      BY <1>2
    <3> QED
      BY <3>1 DEF Least
  <2>2. d' = [d EXCEPT ![p][t] = v]
    BY DEF ForwardCell
  <2>3. p \in Row /\ t \in Column /\ d \in [Row -> [Column -> Int]]
    BY <1>1 DEF Row, Column, Typed, Types
  <2> HIDE DEF v
  <2> QED
    BY <2>1, <2>2, <2>3, CellAssigned
<1> QED
  BY <1>1, <1>3 DEF ForwardCell, Typed, Types, Ranges

LEMMA CollectTyped == Typed /\ Arguments /\ Collect => Typed'
<1> SUFFICES ASSUME Typed, Arguments, Collect PROVE Typed'
  OBVIOUS
<1> USE SizeAssumption
<1> textsize \in Nat /\ textsize' = textsize /\ Column' = Column /\ MatchType' = MatchType
  BY SizeAssumption, SameText DEF Arguments, Next
<1>1. t \in 1 .. textsize
  BY DEF Typed, Ranges, Collect
<1>2. Match(t - 1, t - 1, d[PatternSize][t]) \in MatchType
  <2>1. PatternSize \in Row /\ t \in Column
    BY <1>1 DEF Row, Column
  <2>2. d[PatternSize][t] \in Int
    BY <2>1 DEF Typed, Types
  <2> QED
    BY <1>1, <2>2 DEF Match, MatchType, Column
<1>3. match' \in Seq(MatchType)
  BY <1>2 DEF Collect, Typed, Types
<1> QED
  BY <1>1, <1>3 DEF Collect, Typed, Types, Ranges

LEMMA StartBackwardTyped == Typed /\ Arguments /\ StartBackward => Typed'
<1> SUFFICES ASSUME Typed, Arguments, StartBackward PROVE Typed'
  OBVIOUS
<1> USE SizeAssumption, CostAssumption
<1> textsize \in Nat /\ textsize' = textsize /\ Column' = Column /\ MatchType' = MatchType
  BY SizeAssumption, SameText DEF Arguments, Next
<1>1. i \in DOMAIN match /\ match[i] \in MatchType
  BY DEF Typed, Types, StartBackward
<1>2. match[i].end \in 0 .. textsize - 1
  BY <1>1, MatchTyped DEF Typed, Types
<1>3. LastCells \in [Row -> [Column -> Int]]
  <2>1. \A a \in Row, b \in Column : d[a][b] \in Int
    BY DEF Typed, Types
  <2>2. \A a \in Row : (PatternSize - a) * Unit \in Int
    BY DEF Row
  <2> QED
    BY <2>1, <2>2 DEF LastCells
<1>4. CASE PatternSize = 0
  BY <1>1, <1>2, <1>3, <1>4 DEF StartBackward, Typed, Types, Ranges
<1>5. CASE PatternSize # 0
  BY <1>1, <1>2, <1>3, <1>5 DEF StartBackward, Typed, Types, Ranges
<1> QED
  BY <1>4, <1>5

LEMMA BackwardTyped == Typed /\ Arguments /\ BackwardCell => Typed'
<1> SUFFICES ASSUME Typed, Arguments, BackwardCell PROVE Typed'
  OBVIOUS
<1> USE SizeAssumption, CostAssumption
<1> textsize \in Nat /\ textsize' = textsize /\ Column' = Column /\ MatchType' = MatchType
  BY SizeAssumption, SameText DEF Arguments, Next
<1>1. i \in DOMAIN match /\ p \in 0 .. PatternSize - 1 /\ t \in 0 .. match[i].end
  BY DEF Typed, Ranges, BackwardCell
<1>2. match[i].end \in 0 .. textsize - 1
  BY <1>1, MatchTyped DEF Typed, Types
<1>3. /\ cost[p][t] \in Int
      /\ d[p + 1][t + 1] \in Int /\ d[p][t + 1] \in Int /\ d[p + 1][t] \in Int
  <2>1. cost[p][t] \in Nat
    BY <1>1, <1>2, CostsAreNumbers
  <2>2. /\ p + 1 \in Row /\ t + 1 \in Column
        /\ p \in Row /\ t + 1 \in Column
        /\ p + 1 \in Row /\ t \in Column
    BY <1>1, <1>2 DEF Row, Column
  <2> QED
    BY <2>1, <2>2 DEF Typed, Types
<1>4. d' \in [Row -> [Column -> Int]]
  <2> DEFINE v == Least(d[p + 1][t + 1] + cost[p][t],
                        d[p][t + 1] + Unit, d[p + 1][t] + Unit)
  <2>1. v \in Int
    <3>1. /\ d[p + 1][t + 1] + cost[p][t] \in Int
          /\ d[p][t + 1] + Unit \in Int
          /\ d[p + 1][t] + Unit \in Int
      BY <1>3
    <3> QED
      BY <3>1 DEF Least
  <2>2. d' = [d EXCEPT ![p][t] = v]
    BY DEF BackwardCell
  <2>3. p \in Row /\ t \in Column
    BY <1>1, <1>2 DEF Row, Column
  <2>4. d \in [Row -> [Column -> Int]]
    BY DEF Typed, Types
  <2> HIDE DEF v
  <2> QED
    BY <2>1, <2>2, <2>3, <2>4, CellAssigned
<1> QED
  BY <1>1, <1>2, <1>4, SMTT(30) DEF BackwardCell, Typed, Types, Ranges

LEMMA StartTyped == Typed /\ Arguments /\ (StartHere \/ StartNotHere \/ NoStart) => Typed'
<1> SUFFICES ASSUME Typed, Arguments, StartHere \/ StartNotHere \/ NoStart PROVE Typed'
  OBVIOUS
<1> USE SizeAssumption
<1> textsize \in Nat /\ textsize' = textsize /\ Column' = Column /\ MatchType' = MatchType
  BY SizeAssumption, SameText DEF Arguments, Next
<1>1. i \in DOMAIN match /\ t \in -1 .. match[i].end + 1
  BY DEF Typed, Ranges, StartHere, StartNotHere, NoStart
<1>2. match[i] \in MatchType /\ match[i].end \in 0 .. textsize - 1
  BY <1>1, MatchTyped DEF Typed, Types
<1>3. CASE StartHere
  <2>1. [match[i] EXCEPT !.start = t] \in MatchType
    BY <1>1, <1>2, <1>3 DEF StartHere, MatchType, Column
  <2>2. match' = [match EXCEPT ![i] = [match[i] EXCEPT !.start = t]]
    BY <1>1, <1>3 DEF StartHere, Typed, Types
  <2>3. match' \in Seq(MatchType)
    BY <1>1, <2>1, <2>2 DEF Typed, Types
  <2> QED
    BY <1>1, <1>3, <2>3 DEF StartHere, Typed, Types, Ranges
<1>4. CASE StartNotHere
  BY <1>1, <1>2, <1>4 DEF StartNotHere, Typed, Types, Ranges
<1>5. CASE NoStart
  BY <1>1, <1>5 DEF NoStart, Typed, Types, Ranges
<1> QED
  BY <1>3, <1>4, <1>5

LEMMA PruneTyped ==
  Typed /\ Arguments /\ (StartPrune \/ KeepLast \/ ReplaceLast \/ TakeNext) => Typed'
<1> SUFFICES ASSUME Typed, Arguments, StartPrune \/ KeepLast \/ ReplaceLast \/ TakeNext
             PROVE  Typed'
  OBVIOUS
<1> textsize \in Nat /\ textsize' = textsize /\ Column' = Column /\ MatchType' = MatchType
  BY SizeAssumption, SameText DEF Arguments, Next
<1>1. CASE StartPrune
  <2>1. match = <<>> \/ (match # <<>> /\ 1 \in DOMAIN match /\ match[1] \in MatchType)
    BY DEF Typed, Types
  <2> QED
    BY <1>1, <2>1 DEF StartPrune, Typed, Types, Ranges
<1>2. ASSUME Pruning
      PROVE  /\ i \in DOMAIN match /\ i - 1 \in DOMAIN match
             /\ match[i] \in MatchType
             /\ RemoveAt(match, i) \in Seq(MatchType)
             /\ RemoveAt(match, i - 1) \in Seq(MatchType)
             /\ Len(RemoveAt(match, i)) = Len(match) - 1
             /\ Len(RemoveAt(match, i - 1)) = Len(match) - 1
  <2>1. i \in 1 .. Len(match) /\ i - 1 \in 1 .. Len(match)
    BY <1>2 DEF Pruning, Typed, Types, Ranges
  <2>2. match \in Seq(MatchType) /\ DOMAIN match = 1 .. Len(match)
    BY DEF Typed, Types
  <2>3. match[i] \in MatchType
    BY <2>1, <2>2
  <2>4. /\ RemoveAt(match, i) \in Seq(MatchType)
        /\ Len(RemoveAt(match, i)) = Len(match) - 1
    BY <2>1, <2>2, RemoveAtElements
  <2>5. /\ RemoveAt(match, i - 1) \in Seq(MatchType)
        /\ Len(RemoveAt(match, i - 1)) = Len(match) - 1
    BY <2>1, <2>2, RemoveAtElements
  <2> QED
    BY <2>1, <2>2, <2>3, <2>4, <2>5
<1>3. CASE KeepLast
  BY <1>2, <1>3 DEF KeepLast, Pruning, Typed, Types, Ranges
<1>4. CASE ReplaceLast
  BY <1>2, <1>4 DEF ReplaceLast, Pruning, Typed, Types, Ranges
<1>5. CASE TakeNext
  BY <1>2, <1>5 DEF TakeNext, Pruning, Typed, Types, Ranges
<1> QED
  BY <1>1, <1>3, <1>4, <1>5

LEMMA NextTyped == Typed /\ Arguments /\ [Next]_vars => Typed'
<1> SUFFICES ASSUME Typed, Arguments, [Next]_vars PROVE Typed'
  OBVIOUS
<1> textsize \in Nat /\ textsize' = textsize /\ Column' = Column /\ MatchType' = MatchType
  BY SizeAssumption, SameText DEF Arguments
<1>1. CASE ForwardCell
  BY <1>1, ForwardTyped
<1>2. CASE Collect
  BY <1>2, CollectTyped
<1>3. CASE StartBackward
  BY <1>3, StartBackwardTyped
<1>4. CASE BackwardCell
  BY <1>4, BackwardTyped
<1>5. CASE StartHere \/ StartNotHere \/ NoStart
  BY <1>5, StartTyped
<1>6. CASE StartPrune \/ KeepLast \/ ReplaceLast \/ TakeNext
  BY <1>6, PruneTyped
<1>7. CASE EndMatches
  BY <1>7 DEF EndMatches, Typed, Types, Ranges
<1>8. CASE EndPrune
  BY <1>8 DEF EndPrune, Typed, Types, Ranges
<1>9. CASE UNCHANGED vars
  BY <1>9 DEF vars, Typed, Types, Ranges
<1> QED
  BY <1>1, <1>2, <1>3, <1>4, <1>5, <1>6, <1>7, <1>8, <1>9 DEF Next

(* The types and ranges, and the arguments, which nothing assigns. *)
LEMMA TypesCorrect == Spec => [](Typed /\ Arguments)
<1>1. Typed /\ Arguments /\ [Next]_vars => (Typed /\ Arguments)'
  BY NextTyped, NextArguments
<1> QED
  BY InitTyped, <1>1, PTL DEF Spec

(* Every reachable state has the right types. *)
THEOREM TypeCorrect == Spec => []TypeOK
<1>1. Typed /\ Arguments /\ overlapping \in BOOLEAN => TypeOK
  BY DEF Typed, Types, Arguments, TypeOK
<1>2. Init => overlapping \in BOOLEAN
  BY DEF Init
<1>3. overlapping \in BOOLEAN /\ [Next]_vars => (overlapping \in BOOLEAN)'
  BY DEF Next, vars, args, ForwardCell, Collect, StartBackward, BackwardCell,
         StartHere, StartNotHere, NoStart, EndMatches, StartPrune, KeepLast,
         ReplaceLast, TakeNext, EndPrune
<1> QED
  BY <1>1, <1>2, <1>3, TypesCorrect, PTL DEF Spec

-----------------------------------------------------------------------------
(* The pruning loop. *)

LEMMA PruneStep ==
  Typed /\ LastIsPredecessor /\ [Next]_vars => LastIsPredecessor'
<1> SUFFICES ASSUME Typed, LastIsPredecessor, [Next]_vars, pc' = "prune"
             PROVE  i' >= 2 /\ i' <= Len(match') + 1 /\ last' = match'[i' - 1]
  BY DEF LastIsPredecessor
<1>1. match \in Seq(MatchType)
  BY DEF Typed, Types
<1>2. CASE StartPrune
  <2>1. match # <<>> /\ i' = 2 /\ last' = match[1] /\ match' = match
    BY <1>2 DEF StartPrune
  <2> QED
    BY <1>1, <2>1
<1>3. ASSUME Pruning
      PROVE  /\ i \in 2 .. Len(match) /\ i - 1 \in 1 .. Len(match)
             /\ last = match[i - 1]
             /\ Len(match) \in Nat
  BY <1>1, <1>3 DEF Pruning, Typed, Ranges, LastIsPredecessor
<1>4. CASE KeepLast
  <2>1. /\ Len(match') = Len(match) - 1
        /\ \A k \in 1 .. Len(match) - 1 :
             match'[k] = IF k < i THEN match[k] ELSE match[k + 1]
    <3>1. i \in 1 .. Len(match)
      BY <1>3, <1>4 DEF KeepLast
    <3>2. match' = RemoveAt(match, i)
      BY <1>4 DEF KeepLast
    <3> QED
      BY <1>1, <3>1, <3>2, RemoveAtElements
  <2>2. match'[i - 1] = match[i - 1]
    BY <1>3, <1>4, <2>1 DEF KeepLast
  <2> QED
    BY <1>3, <1>4, <2>1, <2>2 DEF KeepLast
<1>5. CASE ReplaceLast
  <2>1. /\ Len(match') = Len(match) - 1
        /\ \A k \in 1 .. Len(match) - 1 :
             match'[k] = IF k < i - 1 THEN match[k] ELSE match[k + 1]
    BY <1>1, <1>3, <1>5, RemoveAtElements DEF ReplaceLast
  <2>2. match'[i - 1] = match[i]
    BY <1>3, <1>5, <2>1 DEF ReplaceLast
  <2> QED
    BY <1>3, <1>5, <2>1, <2>2 DEF ReplaceLast
<1>6. CASE TakeNext
  BY <1>3, <1>6 DEF TakeNext
<1>7. CASE UNCHANGED vars
  BY <1>7 DEF vars, LastIsPredecessor
<1> QED
  BY <1>2, <1>4, <1>5, <1>6, <1>7
  DEF Next, ForwardCell, Collect, StartBackward, BackwardCell, StartHere,
      StartNotHere, NoStart, EndMatches, EndPrune

(* The pruning loop's copy last is the element before its iterator, for any *)
(* list of matches.                                                        *)
THEOREM PruningKeepsItsPlace == Spec => []LastIsPredecessor
<1>1. Init => LastIsPredecessor
  BY DEF Init, LastIsPredecessor
<1> QED
  BY <1>1, PruneStep, TypesCorrect, PTL DEF Spec

(* A match that a step of the pruning erases is next to one that overlaps  *)
(* it and is as good.                                                      *)
LEMMA ErasedStep ==
  ASSUME Typed, LastIsPredecessor, [Next]_vars, pc = "prune", NEW m \in Matches, m \notin Matches'
  PROVE  \E b \in Matches' : /\ b.edit_distance <= m.edit_distance
                             /\ overlaps(b, m) \/ overlaps(m, b)
<1>1. match \in Seq(MatchType)
  BY DEF Typed, Types
<1>2. match' # match
  BY DEF Matches
<1>3. CASE KeepLast \/ ReplaceLast
  <2>1. /\ i \in 2 .. Len(match) /\ i - 1 \in 1 .. Len(match)
        /\ last = match[i - 1]
        /\ Len(match) \in Nat
    <3>1. Pruning
      BY <1>3 DEF KeepLast, ReplaceLast
    <3>2. i \in 2 .. Len(match) + 1 /\ i <= Len(match) /\ last = match[i - 1]
      BY <3>1 DEF Pruning, Typed, Ranges, LastIsPredecessor
    <3>3. Len(match) \in Nat
      BY <1>1
    <3> QED
      BY <3>2, <3>3
  <2>2. /\ match[i].edit_distance \in Int
        /\ match[i - 1].edit_distance \in Int
    BY <1>1, <2>1, MatchTyped
  <2>3. PICK k \in DOMAIN match : m = match[k]
    BY DEF Matches
  <2>4. k \in 1 .. Len(match)
    BY <1>1, <2>3
  <2>5. CASE KeepLast
    <3>1. /\ Len(match') = Len(match) - 1 /\ match' \in Seq(MatchType)
          /\ \A q \in 1 .. Len(match) - 1 :
               match'[q] = IF q < i THEN match[q] ELSE match[q + 1]
      <4>1. i \in 1 .. Len(match) /\ match' = RemoveAt(match, i)
        BY <2>1, <2>5 DEF KeepLast
      <4> QED
        BY <1>1, <4>1, RemoveAtElements
    <3>2. DOMAIN match' = 1 .. Len(match) - 1
      BY <3>1
    <3>3. k = i
      <4>1. CASE k < i
        <5>1. k \in DOMAIN match' /\ match'[k] = m
          BY <2>1, <2>3, <2>4, <3>1, <3>2, <4>1
        <5> QED
          BY <5>1 DEF Matches
      <4>2. CASE k > i
        <5>1. k - 1 \in DOMAIN match' /\ match'[k - 1] = m
          BY <2>1, <2>3, <2>4, <3>1, <3>2, <4>2
        <5> QED
          BY <5>1 DEF Matches
      <4> QED
        BY <2>1, <2>4, <4>1, <4>2
    <3>4. i - 1 \in DOMAIN match' /\ match'[i - 1] = last
      BY <2>1, <3>1, <3>2
    <3>5. last \in Matches'
      BY <3>4 DEF Matches
    <3>6. last.edit_distance <= m.edit_distance /\ overlaps(last, m)
      BY <2>1, <2>2, <2>3, <2>5, <3>3 DEF KeepLast
    <3> QED
      BY <3>5, <3>6
  <2>6. CASE ReplaceLast
    <3>1. /\ Len(match') = Len(match) - 1 /\ match' \in Seq(MatchType)
          /\ \A q \in 1 .. Len(match) - 1 :
               match'[q] = IF q < i - 1 THEN match[q] ELSE match[q + 1]
      BY <1>1, <2>1, <2>6, RemoveAtElements DEF ReplaceLast
    <3>2. DOMAIN match' = 1 .. Len(match) - 1
      BY <3>1
    <3>3. k = i - 1
      <4>1. CASE k < i - 1
        <5>1. k \in DOMAIN match' /\ match'[k] = m
          BY <2>1, <2>3, <2>4, <3>1, <3>2, <4>1
        <5> QED
          BY <5>1 DEF Matches
      <4>2. CASE k > i - 1
        <5>1. k - 1 \in DOMAIN match' /\ match'[k - 1] = m
          BY <2>1, <2>3, <2>4, <3>1, <3>2, <4>2
        <5> QED
          BY <5>1 DEF Matches
      <4> QED
        BY <2>1, <2>4, <4>1, <4>2
    <3>4. i - 1 \in DOMAIN match' /\ match'[i - 1] = match[i]
      BY <2>1, <3>1, <3>2
    <3>5. match[i] \in Matches'
      BY <3>4 DEF Matches
    <3>6. match[i].edit_distance <= m.edit_distance /\ overlaps(m, match[i])
      BY <2>1, <2>2, <2>3, <2>6, <3>3 DEF ReplaceLast
    <3> QED
      BY <3>5, <3>6
  <2> QED
    BY <1>3, <2>5, <2>6
<1> QED
  BY <1>2, <1>3
  DEF Next, vars, ForwardCell, Collect, StartBackward, BackwardCell, StartHere,
      StartNotHere, NoStart, EndMatches, StartPrune, TakeNext, EndPrune

(* Pruning erases a match only next to one that overlaps it and is as good. *)
THEOREM PruningKeepsTheBetter == Spec => ErasedForBetter
<1> DEFINE A == pc = "prune" =>
                  \A m \in Matches \ Matches' :
                    \E b \in Matches' : /\ b.edit_distance <= m.edit_distance
                                        /\ overlaps(b, m) \/ overlaps(m, b)
<1>1. ASSUME Typed, LastIsPredecessor, [Next]_vars
      PROVE  [A]_vars
  BY <1>1, ErasedStep
<1> QED
  BY <1>1, TypesCorrect, PruningKeepsItsPlace, PTL DEF Spec, ErasedForBetter, A

-----------------------------------------------------------------------------
(* A threshold of the pattern's length.  Deleting the pattern costs no more *)
(* than that, so every end of a text is a match; and pruning, whose        *)
(* iterator is behind the first match, never erases the last one left.     *)

Filled(a, b) == a = 0 \/ b = 0 \/ a < p \/ (a = p /\ b < t)

Bounded ==
  /\ pc = "forward" =>
       \A a \in Row, b \in Column : Filled(a, b) => d[a][b] <= a * Unit
  /\ pc = "collect" => \A a \in Row, b \in Column : d[a][b] <= a * Unit

SomeMatch ==
  n >= PatternSize * Unit /\ textsize > 0 =>
    /\ pc = "collect" /\ t > 1 => match # <<>>
    /\ pc \in {"next", "backward", "start", "prune", "done"} => match # <<>>
    /\ pc # "crash"

LEMMA ForwardBounded == Typed /\ Arguments /\ Bounded /\ ForwardCell => Bounded'
<1> SUFFICES ASSUME Typed, Arguments, Bounded, ForwardCell PROVE Bounded'
  OBVIOUS
<1> textsize \in Nat /\ Column' = Column
  BY SizeAssumption, SameText DEF Arguments, Next
<1> SUFFICES ASSUME NEW a \in Row, NEW b \in Column, Filled(a, b)' \/ pc' = "collect"
             PROVE  d'[a][b] <= a * Unit
  BY DEF Bounded, Row
<1> USE SizeAssumption, CostAssumption
<1>1. p \in 1 .. PatternSize /\ t \in 1 .. textsize
  BY DEF Typed, Ranges, ForwardCell
<1>2. d \in [Row -> [Column -> Int]]
  BY DEF Typed, Types
<1>3. p \in Row /\ t \in Column /\ p - 1 \in Row /\ t - 1 \in Column
  BY <1>1 DEF Row, Column
<1>4. a \in Nat /\ b \in Nat /\ a <= PatternSize /\ b <= textsize
  BY DEF Row, Column
<1> DEFINE v == Least(d[p - 1][t - 1] + cost[p - 1][t - 1],
                      d[p][t - 1] + Unit, d[p - 1][t] + Unit)
<1>5. d' = [d EXCEPT ![p][t] = v]
  BY DEF ForwardCell
<1>6. CASE a = p /\ b = t
  <2>1. d[p - 1][t] <= (p - 1) * Unit
    BY <1>1, <1>3 DEF Bounded, Filled, ForwardCell
  <2>2. /\ cost[p - 1][t - 1] \in Int
        /\ d[p - 1][t - 1] \in Int /\ d[p][t - 1] \in Int /\ d[p - 1][t] \in Int
    BY <1>1, <1>2, <1>3, CostsAreNumbers
  <2>3. v <= d[p - 1][t] + Unit
    BY <2>2 DEF Least
  <2>4. v \in Int
    BY <2>2 DEF Least
  <2>5. d'[a][b] = v
    BY <1>2, <1>3, <1>5, <1>6
  <2>6. (p - 1) * Unit + Unit = p * Unit /\ (p - 1) * Unit \in Int
    BY <1>1
  <2> HIDE DEF v
  <2> QED
    BY <1>1, <1>6, <2>1, <2>2, <2>3, <2>4, <2>5, <2>6
<1>7. CASE ~(a = p /\ b = t)
  <2>1. d'[a][b] = d[a][b]
    BY <1>2, <1>3, <1>5, <1>7
  <2>2. Filled(a, b)
    <3>1. t' = (IF t < textsize THEN t + 1 ELSE 1) /\ p' = (IF t < textsize THEN p ELSE p + 1)
      BY DEF ForwardCell
    <3>2. pc' = "collect" => t = textsize /\ p = PatternSize
      BY DEF ForwardCell
    <3> QED
      BY <1>1, <1>4, <1>7, <3>1, <3>2 DEF Filled
  <2> QED
    BY <2>1, <2>2 DEF Bounded, ForwardCell
<1> QED
  BY <1>6, <1>7

LEMMA NextBounded == Typed /\ Arguments /\ Bounded /\ [Next]_vars => Bounded'
<1> SUFFICES ASSUME Typed, Arguments, Bounded, [Next]_vars PROVE Bounded'
  OBVIOUS
<1> textsize \in Nat /\ textsize' = textsize /\ Column' = Column /\ MatchType' = MatchType
  BY SizeAssumption, SameText DEF Arguments
<1>1. CASE ForwardCell
  BY <1>1, ForwardBounded
<1>2. CASE UNCHANGED vars
  BY <1>2 DEF vars, Bounded, Filled
<1>3. CASE Collect
  BY <1>3 DEF Collect, Bounded, Filled
<1> QED
  BY <1>1, <1>2, <1>3
  DEF Next, Bounded, StartBackward, BackwardCell, StartHere, StartNotHere,
      NoStart, EndMatches, StartPrune, KeepLast, ReplaceLast, TakeNext, EndPrune,
      Pruning

LEMMA NextSomeMatch ==
  Typed /\ Arguments /\ Bounded /\ SomeMatch /\ [Next]_vars => SomeMatch'
<1> SUFFICES ASSUME Typed, Arguments, Bounded, SomeMatch, [Next]_vars,
                    n' >= PatternSize * Unit,
                    textsize' > 0
             PROVE  /\ pc' = "collect" /\ t' > 1 => match' # <<>>
                    /\ pc' \in {"next", "backward", "start", "prune", "done"} => match' # <<>>
                    /\ pc' # "crash"
  BY DEF SomeMatch
<1> USE SizeAssumption, CostAssumption
<1>1. match \in Seq(MatchType) /\ n \in Nat /\ textsize \in Nat
  BY DEF Typed, Types, Arguments
<1>2. n' = n /\ textsize' = textsize
  BY DEF Next, vars, args, ForwardCell, Collect, StartBackward, BackwardCell,
         StartHere, StartNotHere, NoStart, EndMatches, StartPrune, KeepLast,
         ReplaceLast, TakeNext, EndPrune
<1>3. CASE ForwardCell
  BY <1>3 DEF ForwardCell, Typed, Ranges
<1>4. CASE Collect
  <2>1. t \in Column /\ PatternSize \in Row
    BY <1>4 DEF Collect, Typed, Ranges, Row, Column
  <2>2. d[PatternSize][t] <= PatternSize * Unit /\ d[PatternSize][t] \in Int
    BY <1>4, <2>1 DEF Bounded, Collect, Typed, Types
  <2>3. d[PatternSize][t] <= n
    BY <1>1, <1>2, <2>2
  <2>4. match' # <<>>
    BY <1>1, <1>4, <2>3 DEF Collect
  <2> QED
    BY <1>4, <2>4 DEF Collect
<1>5. CASE StartHere
  <2>1. match # <<>>
    BY <1>2, <1>5 DEF SomeMatch, StartHere
  <2> QED
    BY <1>1, <1>5, <2>1 DEF StartHere
<1>6. CASE StartPrune
  BY <1>2, <1>6 DEF SomeMatch, StartPrune
<1>7. CASE StartBackward \/ BackwardCell \/ StartNotHere \/ NoStart \/ EndMatches \/ TakeNext \/ EndPrune
  BY <1>2, <1>7 DEF SomeMatch, StartBackward, BackwardCell, StartNotHere, NoStart,
                    EndMatches, TakeNext, EndPrune, Pruning
<1>8. CASE KeepLast \/ ReplaceLast
  <2>1. pc' = "prune" /\ i \in 1 .. Len(match) /\ i - 1 \in 1 .. Len(match)
    BY <1>1, <1>8 DEF KeepLast, ReplaceLast, Pruning, Typed, Ranges
  <2>2. PICK place \in 1 .. Len(match) : match' = RemoveAt(match, place)
    BY <1>8, <2>1 DEF KeepLast, ReplaceLast
  <2>3. Len(match') = Len(match) - 1
    BY <1>1, <2>2, RemoveAtElements
  <2>4. Len(match') # 0
    BY <1>1, <2>1, <2>3
  <2> QED
    BY <2>1, <2>4
<1>9. CASE UNCHANGED vars
  BY <1>2, <1>9 DEF SomeMatch, vars
<1> QED
  BY <1>3, <1>4, <1>5, <1>6, <1>7, <1>8, <1>9 DEF Next

(* No match is left, and pruning reads the first element of an empty list, *)
(* only under a threshold below the pattern's length or in an empty text.  *)
THEOREM NoMatchExplainedHolds == Spec => []NoMatchExplained
<1>1. Init => Bounded /\ SomeMatch
  <2> SUFFICES ASSUME Init PROVE Bounded /\ SomeMatch
    OBVIOUS
  <2> USE SizeAssumption, CostAssumption
  <2>1. pc \in {"forward", "collect", "next"} /\ textsize \in Nat /\ p = 1 /\ t = 1
    BY DEF Init
  <2>2. (pc = "collect" => PatternSize = 0) /\ (pc = "next" => textsize = 0)
    BY DEF Init
  <2>3. ASSUME NEW a \in Row, NEW b \in Column, Filled(a, b) \/ PatternSize = 0
        PROVE  d[a][b] <= a * Unit
    <3>1. a = 0 \/ b = 0
      BY <2>1, <2>3 DEF Filled, Row, Column
    <3>2. d[a][b] = (IF a = 0 THEN 0 ELSE IF b = 0 THEN a * Unit ELSE Garbage)
      BY DEF Init, FirstCells
    <3>3. a * Unit \in Nat
      BY DEF Row
    <3> QED
      BY <3>1, <3>2, <3>3
  <2>4. Bounded
    BY <2>2, <2>3 DEF Bounded
  <2>5. SomeMatch
    BY <2>1, <2>2 DEF SomeMatch
  <2> QED
    BY <2>4, <2>5
<1>2. Typed /\ Arguments /\ SomeMatch => NoMatchExplained
  <2> SUFFICES ASSUME Arguments, SomeMatch, pc = "crash" \/ (pc = "done" /\ match = <<>>)
               PROVE  n < PatternSize * Unit \/ textsize = 0
    BY DEF NoMatchExplained
  <2>1. n \in Nat /\ PatternSize * Unit \in Nat /\ textsize \in Nat
    BY SizeAssumption, CostAssumption DEF Arguments
  <2> QED
    BY <2>1 DEF SomeMatch
<1> QED
  BY <1>1, <1>2, NextBounded, NextSomeMatch, TypesCorrect, PTL DEF Spec

-----------------------------------------------------------------------------
(* A set of finite sets has one that is a superset of no other: induction  *)
(* over finite sets.                                                       *)
LEMMA SmallestSet ==
  ASSUME NEW F, F # {}, \A T \in F : IsFiniteSet(T)
  PROVE  \E T \in F : \A W \in F : ~(W \subseteq T /\ W # T)
<1> DEFINE U == UNION F
<1>1. IsWellFoundedOn(StrictSubsetOrdering(U), FiniteSubsetsOf(U))
  BY FS_StrictSubsetOrderingWellFounded
<1>2. F \subseteq FiniteSubsetsOf(U)
  BY DEF FiniteSubsetsOf
<1>3. PICK T \in F : \A W \in F : ~(<<W, T>> \in StrictSubsetOrdering(U))
  BY <1>1, <1>2, WFMin
<1> QED
  BY <1>3 DEF StrictSubsetOrdering

(* And a set of numbers has a least: induction over the numbers.           *)
LEMMA LeastNat ==
  ASSUME NEW Bad \in SUBSET Nat, Bad # {}
  PROVE  \E u \in Bad : \A v \in Bad : u <= v
<1> DEFINE F == {0 .. m : m \in Bad}
<1>1. \A T \in F : IsFiniteSet(T)
  <2> SUFFICES ASSUME NEW m \in Bad PROVE IsFiniteSet(0 .. m)
    OBVIOUS
  <2> QED
    BY FS_Interval
<1>2. F # {}
  OBVIOUS
<1> HIDE DEF F
<1>3. PICK T \in F : \A W \in F : ~(W \subseteq T /\ W # T)
  BY <1>1, <1>2, SmallestSet
<1>4. PICK u \in Bad : T = 0 .. u
  BY DEF F
<1>5. ASSUME NEW v \in Bad, v < u PROVE FALSE
  <2>1. 0 .. v \in F
    BY DEF F
  <2>2. 0 .. v \subseteq 0 .. u /\ u \in 0 .. u /\ u \notin 0 .. v /\ u \in Nat /\ v \in Nat
    BY <1>5
  <2> QED
    BY <2>1, <2>2, <1>3, <1>4
<1> QED
  BY <1>5

-----------------------------------------------------------------------------
(* Sums over finite sets, of a function that is an integer on them: what   *)
(* the fold of SumFunctionOnSet computes, whatever element it takes first. *)
At(q, u) == q[u[1]][u[2]]

FirstOf(s) == CHOOSE u \in s : TRUE

SumStep(q, g, s) == IF s = {} THEN 0 ELSE At(q, FirstOf(s)) + g[s \ {FirstOf(s)}]

Sums(q, A, g) == g \in [SUBSET A -> Int] /\ \A s \in SUBSET A : g[s] = SumStep(q, g, s)

(* The element a fold takes first. *)
LEMMA FirstIn ==
  ASSUME NEW s, IsFiniteSet(s), s # {}
  PROVE  /\ FirstOf(s) \in s
         /\ Cardinality(s) \in Nat /\ Cardinality(s) > 0
         /\ Cardinality(s \ {FirstOf(s)}) = Cardinality(s) - 1
<1>1. FirstOf(s) \in s
  BY DEF FirstOf
<1>2. Cardinality(s \ {FirstOf(s)}) = Cardinality(s) - 1
  BY <1>1, FS_RemoveElement
<1>3. Cardinality(s) \in Nat /\ Cardinality(s) # 0
  BY FS_CardinalityType, FS_EmptySet
<1> QED
  BY <1>1, <1>2, <1>3

(* The table of all partial sums exists, and two of them agree. *)
LEMMA SumsExist ==
  ASSUME NEW A, IsFiniteSet(A), NEW q, \A u \in A : At(q, u) \in Int
  PROVE  \E g : Sums(q, A, g)
<1> DEFINE Upto(g, k) == \A s \in SUBSET A : Cardinality(s) <= k => g[s] = SumStep(q, g, s)
           Bad == {k \in Nat : ~\E g \in [SUBSET A -> Int] : Upto(g, k)}
<1>0. \A s \in SUBSET A : IsFiniteSet(s)
  BY FS_Subset
<1>1. 0 \notin Bad
  <2> DEFINE g0 == [s \in SUBSET A |-> 0]
  <2>1. \A s \in SUBSET A : s # {} => ~(Cardinality(s) <= 0)
    <3> SUFFICES ASSUME NEW s \in SUBSET A, s # {} PROVE ~(Cardinality(s) <= 0)
      OBVIOUS
    <3>1. Cardinality(s) \in Nat /\ Cardinality(s) > 0
      BY <1>0, FirstIn
    <3> QED
      BY <3>1
  <2>2. Upto(g0, 0)
    <3>1. \A s \in SUBSET A : Cardinality(s) <= 0 => g0[s] = 0 /\ SumStep(q, g0, s) = 0
      BY <2>1 DEF SumStep
    <3> HIDE DEF g0
    <3> QED
      BY <3>1
  <2>3. g0 \in [SUBSET A -> Int]
    OBVIOUS
  <2> HIDE DEF g0, Upto
  <2> QED
    BY <2>2, <2>3
<1>2. ASSUME NEW k \in Nat, k \notin Bad PROVE k + 1 \notin Bad
  <2>1. PICK g \in [SUBSET A -> Int] : Upto(g, k)
    BY <1>2
  <2> DEFINE h == [s \in SUBSET A |-> IF Cardinality(s) <= k THEN g[s] ELSE SumStep(q, g, s)]
  <2>2. ASSUME NEW s \in SUBSET A PROVE SumStep(q, g, s) \in Int
    <3>1. CASE s = {}
      BY <3>1 DEF SumStep
    <3>2. CASE s # {}
      <4>1. FirstOf(s) \in s /\ s \ {FirstOf(s)} \in SUBSET A
        BY <1>0, <3>2, FirstIn
      <4>2. At(q, FirstOf(s)) \in Int /\ g[s \ {FirstOf(s)}] \in Int
        BY <4>1
      <4> QED
        BY <3>2, <4>2 DEF SumStep
    <3> QED
      BY <3>1, <3>2
  <2>3. h \in [SUBSET A -> Int]
    BY <2>2
  <2>4. \A s \in SUBSET A : h[s] = SumStep(q, g, s)
    BY <2>1
  <2>5. ASSUME NEW s \in SUBSET A, Cardinality(s) <= k + 1 PROVE h[s] = SumStep(q, h, s)
    <3>1. CASE s = {}
      BY <2>4, <3>1 DEF SumStep
    <3>2. CASE s # {}
      <4>1. s \ {FirstOf(s)} \in SUBSET A /\ Cardinality(s \ {FirstOf(s)}) <= k
        <5>1. Cardinality(s) \in Nat /\ Cardinality(s \ {FirstOf(s)}) = Cardinality(s) - 1
          BY <1>0, <3>2, FirstIn
        <5> QED
          BY <2>5, <5>1
      <4>2. h[s \ {FirstOf(s)}] = g[s \ {FirstOf(s)}]
        BY <4>1
      <4> HIDE DEF h
      <4> QED
        BY <2>4, <3>2, <4>2 DEF SumStep
    <3> QED
      BY <3>1, <3>2
  <2> HIDE DEF h
  <2> QED
    BY <2>3, <2>5
<1>3. Bad = {}
  <2> SUFFICES ASSUME Bad # {} PROVE FALSE
    OBVIOUS
  <2>1. Bad \in SUBSET Nat
    OBVIOUS
  <2>2. PICK k \in Bad : \A m \in Bad : k <= m
    <3> HIDE DEF Bad
    <3> QED
      BY <2>1, LeastNat
  <2> HIDE DEF Bad
  <2>3. k # 0 /\ k - 1 \in Nat
    BY <1>1, <2>1, <2>2
  <2>4. k - 1 \in Bad
    <3>1. (k - 1) + 1 = k
      BY <2>1
    <3> QED
      BY <1>2, <2>2, <2>3, <3>1
  <2> QED
    BY <2>1, <2>2, <2>4
<1>4. Cardinality(A) \in Nat /\ \A s \in SUBSET A : Cardinality(s) <= Cardinality(A)
  BY FS_CardinalityType, FS_Subset
<1>5. PICK g \in [SUBSET A -> Int] : Upto(g, Cardinality(A))
  BY <1>3, <1>4
<1> QED
  BY <1>4, <1>5 DEF Sums

LEMMA SumsAgree ==
  ASSUME NEW A, IsFiniteSet(A), NEW T \in SUBSET A, NEW q, NEW g, NEW h, Sums(q, A, g), Sums(q, T, h)
  PROVE  \A s \in SUBSET T : g[s] = h[s]
<1> DEFINE F == {s \in SUBSET T : g[s] # h[s]}
<1> SUFFICES ASSUME F # {} PROVE FALSE
  OBVIOUS
<1>1. \A s \in F : IsFiniteSet(s) /\ s \in SUBSET T /\ s \in SUBSET A /\ g[s] # h[s]
  BY FS_Subset
<1>2. PICK s \in F : \A W \in F : ~(W \subseteq s /\ W # s)
  <2> HIDE DEF F
  <2> QED
    BY <1>1, SmallestSet
<1>3. g[s] = SumStep(q, g, s) /\ h[s] = SumStep(q, h, s)
  BY <1>1 DEF Sums
<1>4. s # {}
  BY <1>1, <1>3 DEF SumStep
<1>5. FirstOf(s) \in s
  BY <1>4 DEF FirstOf
<1>6. g[s \ {FirstOf(s)}] = h[s \ {FirstOf(s)}]
  BY <1>2, <1>5
<1> QED
  BY <1>1, <1>3, <1>4, <1>6 DEF SumStep

SumOf(q, A) == MapThenSumSet(LAMBDA c : q[c[1]][c[2]], A)

(* The sum is what the table says. *)
LEMMA SumIs ==
  ASSUME NEW A, IsFiniteSet(A), NEW q, NEW g, Sums(q, A, g)
  PROVE  SumOf(q, A) = g[A]
<1> DEFINE R(r) == r = [s \in SUBSET A |->
                          IF s = {} THEN 0
                          ELSE At(q, CHOOSE u \in s : TRUE) + r[s \ {CHOOSE u \in s : TRUE}]]
           it == CHOOSE r : R(r)
<1>1. SumOf(q, A) = it[A]
  BY DEF SumOf, MapThenSumSet, MapThenFoldSet, At
<1>2. R(g)
  BY DEF Sums, SumStep, FirstOf
<1> HIDE DEF R
<1>3. R(it)
  BY <1>2
<1>4. \A s \in SUBSET A : it[s] = SumStep(q, it, s)
  BY <1>3 DEF R, SumStep, FirstOf
<1> HIDE DEF it
<1> DEFINE F == {s \in SUBSET A : it[s] # g[s]}
<1>5. ASSUME F # {} PROVE FALSE
  <2>1. \A s \in F : IsFiniteSet(s) /\ s \in SUBSET A /\ g[s] # it[s]
    BY FS_Subset
  <2>2. PICK s \in F : \A W \in F : ~(W \subseteq s /\ W # s)
    <3> HIDE DEF F
    <3> QED
      BY <1>5, <2>1, SmallestSet
  <2>3. g[s] = SumStep(q, g, s) /\ it[s] = SumStep(q, it, s)
    BY <1>4, <2>1 DEF Sums
  <2>4. s # {}
    BY <2>1, <2>3 DEF SumStep
  <2>5. FirstOf(s) \in s
    BY <2>4 DEF FirstOf
  <2>6. g[s \ {FirstOf(s)}] = it[s \ {FirstOf(s)}]
    BY <2>2, <2>5
  <2> QED
    BY <2>1, <2>3, <2>4, <2>6 DEF SumStep
<1>6. it[A] = g[A]
  BY <1>5
<1> QED
  BY <1>1, <1>6

(* One step of the fold. *)
LEMMA SumNext ==
  ASSUME NEW A, IsFiniteSet(A), NEW q, \A u \in A : At(q, u) \in Int
  PROVE  /\ SumOf(q, A) \in Int
         /\ A = {} => SumOf(q, A) = 0
         /\ A # {} => FirstOf(A) \in A /\ SumOf(q, A) = At(q, FirstOf(A)) + SumOf(q, A \ {FirstOf(A)})
<1>1. PICK g : Sums(q, A, g)
  BY SumsExist
<1>2. SumOf(q, A) = g[A] /\ g[A] \in Int /\ g[A] = SumStep(q, g, A)
  BY <1>1, SumIs DEF Sums
<1>3. A = {} => SumOf(q, A) = 0
  BY <1>2 DEF SumStep
<1>4. ASSUME A # {} PROVE FirstOf(A) \in A /\ SumOf(q, A) = At(q, FirstOf(A)) + SumOf(q, A \ {FirstOf(A)})
  <2> DEFINE T == A \ {FirstOf(A)}
  <2>1. FirstOf(A) \in A /\ T \in SUBSET A /\ IsFiniteSet(T)
    BY <1>4, FS_Subset DEF FirstOf
  <2>2. PICK h : Sums(q, T, h)
    BY <2>1, SumsExist
  <2>3. SumOf(q, T) = h[T]
    BY <2>1, <2>2, SumIs
  <2>4. g[T] = h[T]
    BY <1>1, <2>1, <2>2, SumsAgree
  <2> QED
    BY <1>2, <1>4, <2>1, <2>3, <2>4 DEF SumStep
<1> QED
  BY <1>2, <1>3, <1>4

(* Any element can be taken out of a sum. *)
LEMMA SumTake ==
  ASSUME NEW A, IsFiniteSet(A), NEW q, \A u \in A : At(q, u) \in Int, NEW e \in A
  PROVE  SumOf(q, A) = At(q, e) + SumOf(q, A \ {e})
<1> DEFINE F == {s \in SUBSET A : \E u \in s : SumOf(q, s) # At(q, u) + SumOf(q, s \ {u})}
<1>1. ASSUME F # {} PROVE FALSE
  <2>1. \A s \in F : IsFiniteSet(s)
    BY FS_Subset
  <2>2. PICK s \in F : \A W \in F : ~(W \subseteq s /\ W # s)
    <3> HIDE DEF F
    <3> QED
      BY <1>1, <2>1, SmallestSet
  <2>3. PICK u \in s : SumOf(q, s) # At(q, u) + SumOf(q, s \ {u})
    BY <2>2
  <2> DEFINE v == FirstOf(s)
  <2>4. /\ IsFiniteSet(s) /\ s \in SUBSET A /\ v \in s /\ SumOf(q, s) = At(q, v) + SumOf(q, s \ {v})
    <3>1. IsFiniteSet(s) /\ s \in SUBSET A /\ s # {} /\ \A z \in s : At(q, z) \in Int
      BY <2>1, <2>2, <2>3
    <3> QED
      BY <3>1, SumNext
  <2> HIDE DEF v
  <2>5. u # v
    BY <2>3, <2>4
  <2>6. \A W \in SUBSET s : W # s => \A z \in W : SumOf(q, W) = At(q, z) + SumOf(q, W \ {z})
    BY <2>2, <2>4
  <2>7. SumOf(q, s \ {v}) = At(q, u) + SumOf(q, (s \ {v}) \ {u})
    BY <2>3, <2>4, <2>5, <2>6
  <2>8. SumOf(q, s \ {u}) = At(q, v) + SumOf(q, (s \ {u}) \ {v})
    BY <2>3, <2>4, <2>5, <2>6
  <2>9. (s \ {v}) \ {u} = (s \ {u}) \ {v}
    OBVIOUS
  <2>10. SumOf(q, (s \ {u}) \ {v}) \in Int /\ At(q, u) \in Int /\ At(q, v) \in Int
    <3>1. (s \ {u}) \ {v} \in SUBSET A
      BY <2>4
    <3>2. IsFiniteSet((s \ {u}) \ {v})
      BY <3>1, FS_Subset
    <3> QED
      BY <2>3, <2>4, <3>1, <3>2, SumNext
  <2> DEFINE z == SumOf(q, (s \ {u}) \ {v})
  <2>11. /\ SumOf(q, s) = At(q, v) + (At(q, u) + z) /\ SumOf(q, s \ {u}) = At(q, v) + z
    BY <2>4, <2>7, <2>8, <2>9
  <2>12. z \in Int /\ At(q, u) \in Int /\ At(q, v) \in Int
    BY <2>10
  <2> HIDE DEF z
  <2>13. At(q, v) + (At(q, u) + z) = At(q, u) + (At(q, v) + z)
    BY <2>12
  <2> QED
    BY <2>3, <2>11, <2>13
<1> QED
  BY <1>1

(* An element more. *)
LEMMA SumMore ==
  ASSUME NEW A, IsFiniteSet(A), NEW q, NEW e, e \notin A, \A u \in A \cup {e} : At(q, u) \in Int
  PROVE  SumOf(q, A \cup {e}) = SumOf(q, A) + At(q, e)
<1>1. IsFiniteSet(A \cup {e})
  BY FS_AddElement
<1>2. (A \cup {e}) \ {e} = A
  OBVIOUS
<1>3. SumOf(q, A \cup {e}) = At(q, e) + SumOf(q, A)
  BY <1>1, <1>2, SumTake
<1>4. SumOf(q, A) \in Int /\ At(q, e) \in Int
  BY SumNext
<1> QED
  BY <1>3, <1>4

(* A set of numbers above a bound has a least one. *)
LEMMA LeastInt ==
  ASSUME NEW S, S # {}, S \subseteq Int, NEW low \in Int, \A u \in S : low <= u
  PROVE  \E u \in S : \A v \in S : u <= v
<1> DEFINE Shifted == {u - low : u \in S}
<1>1. Shifted \in SUBSET Nat /\ Shifted # {}
  <2>1. \A u \in S : u - low \in Nat
    OBVIOUS
  <2> QED
    BY <2>1
<1>2. PICK x \in Shifted : \A y \in Shifted : x <= y
  <2> HIDE DEF Shifted
  <2> QED
    BY <1>1, LeastNat
<1>3. PICK u \in S : x = u - low
  OBVIOUS
<1>4. ASSUME NEW v \in S PROVE u <= v
  <2>1. v - low \in Shifted
    OBVIOUS
  <2>2. u - low <= v - low /\ u \in Int /\ v \in Int
    BY <1>2, <1>3, <2>1
  <2> QED
    BY <2>2
<1> QED
  BY <1>4

-----------------------------------------------------------------------------
(* Alignments and what they cost.  The lemmas on them are about the longest *)
(* text there may be; a shorter one is followed by symbols that no window  *)
(* considered holds, and that cost nothing.                                *)

Places == 0 .. MaxTextSize

Positions == (0 .. PatternSize - 1) \X (0 .. MaxTextSize - 1)

Before(x, y) == x[1] < y[1] /\ x[2] < y[2]

Ordered(A) == \A x, y \in A : x = y \/ Before(x, y) \/ Before(y, x)

(* An alignment of the symbols a0, ..., a1 - 1 of the pattern with the     *)
(* window from s to e.                                                     *)
Within(A, a0, a1, s, e) ==
  /\ A \subseteq Positions
  /\ Ordered(A)
  /\ \A c \in A : c[1] \in a0 .. a1 - 1 /\ c[2] \in s .. e - 1

(* What an alignment costs of which both sides have r symbols together. *)
PriceAt(x, k, r) == x + Unit * (r - 2 * k)

Price(q, A, r) == PriceAt(SumOf(q, A), Cardinality(A), r)

Matrix(q) == q \in [0 .. PatternSize - 1 -> [0 .. MaxTextSize - 1 -> Nat]]

Pad(q, m) ==
  [a \in 0 .. PatternSize - 1 |->
     [b \in 0 .. MaxTextSize - 1 |-> IF b < m THEN q[a][b] ELSE 0]]

padded == Pad(cost, textsize)

LEMMA PositionsFinite ==
  ASSUME NEW A, A \subseteq Positions
  PROVE  /\ IsFiniteSet(A)
         /\ Cardinality(A) \in Nat
         /\ Cardinality(Positions) \in Nat
         /\ Cardinality(A) <= Cardinality(Positions)
<1>1. IsFiniteSet(0 .. PatternSize - 1) /\ IsFiniteSet(0 .. MaxTextSize - 1)
  <2>1. 0 \in Int /\ PatternSize - 1 \in Int /\ MaxTextSize - 1 \in Int
    BY SizeAssumption
  <2> QED
    BY <2>1, FS_Interval
<1>2. IsFiniteSet(Positions)
  BY <1>1, FS_Product DEF Positions
<1>3. IsFiniteSet(A) /\ Cardinality(A) <= Cardinality(Positions)
  BY <1>2, FS_Subset
<1> QED
  BY <1>2, <1>3, FS_CardinalityType

LEMMA PositionCosts ==
  ASSUME NEW q, Matrix(q), NEW A, A \subseteq Positions
  PROVE  \A u \in A : At(q, u) \in Nat
<1> SUFFICES ASSUME NEW u \in A PROVE At(q, u) \in Nat
  OBVIOUS
<1>1. u[1] \in 0 .. PatternSize - 1 /\ u[2] \in 0 .. MaxTextSize - 1
  BY DEF Positions
<1> QED
  BY <1>1 DEF Matrix, At

LEMMA SumPlain ==
  ASSUME NEW q, Matrix(q), NEW A, A \subseteq Positions
  PROVE  SumOf(q, A) \in Int
<1>1. IsFiniteSet(A) /\ \A u \in A : At(q, u) \in Int
  BY PositionsFinite, PositionCosts
<1> QED
  BY <1>1, SumNext

(* Costs are at least 0, and so are sums of them. *)
LEMMA SumPositive ==
  ASSUME NEW q, Matrix(q), NEW A, A \subseteq Positions
  PROVE  SumOf(q, A) >= 0
<1> DEFINE F == {s \in SUBSET A : ~(SumOf(q, s) >= 0)}
<1>1. ASSUME F # {} PROVE FALSE
  <2>1. \A s \in F : IsFiniteSet(s)
    <3>1. IsFiniteSet(A)
      BY PositionsFinite
    <3> QED
      BY <3>1, FS_Subset
  <2>2. PICK s \in F : \A W \in F : ~(W \subseteq s /\ W # s)
    <3> HIDE DEF F
    <3> QED
      BY <1>1, <2>1, SmallestSet
  <2>3. s \subseteq Positions /\ s \subseteq A /\ IsFiniteSet(s) /\ ~(SumOf(q, s) >= 0)
    BY <2>1, <2>2
  <2>4. \A u \in s : At(q, u) \in Nat
    BY <2>3, PositionCosts
  <2> DEFINE v == FirstOf(s)
             W == s \ {v}
  <2>5. s # {} /\ v \in s /\ SumOf(q, s) = At(q, v) + SumOf(q, W)
    <3>1. \A u \in s : At(q, u) \in Int
      BY <2>4
    <3>2. s = {} => SumOf(q, s) = 0
      BY <2>3, <3>1, SumNext
    <3>3. s # {}
      BY <2>3, <3>2
    <3> QED
      BY <2>3, <3>1, <3>3, SumNext
  <2>6. W \subseteq s /\ W # s
    BY <2>5
  <2> HIDE DEF v, W
  <2>7. SumOf(q, W) \in Int /\ SumOf(q, W) >= 0
    <3>1. W \subseteq Positions /\ W \subseteq A
      BY <2>3, <2>6
    <3>2. SumOf(q, W) \in Int
      BY <3>1, SumPlain
    <3> QED
      BY <2>2, <2>6, <3>1, <3>2
  <2>8. At(q, v) \in Nat
    BY <2>4, <2>5
  <2> QED
    BY <2>3, <2>5, <2>7, <2>8
<1>2. A \notin F
  BY <1>1
<1> QED
  BY <1>2

LEMMA PricePlain ==
  ASSUME NEW q, Matrix(q), NEW A, A \subseteq Positions, NEW r \in Int
  PROVE  /\ Price(q, A, r) \in Int
         /\ Price(q, A, r + 1) = Price(q, A, r) + Unit
         /\ Price(q, A, r) >= Unit * (r - 2 * Cardinality(Positions))
<1> DEFINE z == SumOf(q, A)
           k == Cardinality(A)
           m == Cardinality(Positions)
<1>1. z \in Int /\ z >= 0
  BY SumPlain, SumPositive
<1>2. k \in Nat /\ m \in Nat /\ k <= m
  BY PositionsFinite
<1> HIDE DEF z, k, m
<1>3. Unit \in Nat
  BY CostAssumption
<1>4. Unit * (r - 2 * k) \in Int /\ Unit * (r + 1 - 2 * k) = Unit * (r - 2 * k) + Unit
  BY <1>2, <1>3
<1>5. Unit * (r - 2 * k) >= Unit * (r - 2 * m)
  <2>1. Unit * (r - 2 * k) = Unit * (r - 2 * m) + Unit * (2 * (m - k))
    BY <1>2, <1>3
  <2>2. m - k \in Nat
    BY <1>2
  <2>3. Unit * (2 * (m - k)) \in Nat
    BY <1>3, <2>2
  <2>4. Unit * (r - 2 * m) \in Int
    BY <1>2, <1>3
  <2> QED
    BY <2>1, <2>3, <2>4
<1>6. Unit * (r - 2 * m) \in Int
  BY <1>2, <1>3
<1>7. Price(q, A, r) = z + Unit * (r - 2 * k) /\ Price(q, A, r + 1) = z + Unit * (r + 1 - 2 * k)
  <2>1. Price(q, A, r) = PriceAt(z, k, r) /\ Price(q, A, r + 1) = PriceAt(z, k, r + 1)
    BY DEF Price, z, k
  <2> QED
    BY <2>1, <1>1, <1>2, <1>3 DEF PriceAt
<1>8. z + Unit * (r - 2 * k) \in Int
  BY <1>1, <1>4
<1>9. z + Unit * (r + 1 - 2 * k) = (z + Unit * (r - 2 * k)) + Unit
  BY <1>1, <1>3, <1>4
<1>10. z + Unit * (r - 2 * k) >= Unit * (r - 2 * m)
  BY <1>1, <1>4, <1>5, <1>6
<1> QED
  BY <1>7, <1>8, <1>9, <1>10 DEF m

(* Pairing two symbols saves leaving both out. *)
LEMMA PriceWith ==
  ASSUME NEW q, Matrix(q), NEW A, A \subseteq Positions, NEW c \in Positions, c \notin A, NEW r \in Int
  PROVE  Price(q, A \cup {c}, r + 2) = Price(q, A, r) + At(q, c)
<1>1. IsFiniteSet(A) /\ A \cup {c} \subseteq Positions
  BY PositionsFinite
<1>2. \A u \in A \cup {c} : At(q, u) \in Int
  BY <1>1, PositionCosts
<1>3. SumOf(q, A \cup {c}) = SumOf(q, A) + At(q, c)
  BY <1>1, <1>2, SumMore
<1>4. Cardinality(A \cup {c}) = Cardinality(A) + 1
  BY <1>1, FS_AddElement
<1>5. Cardinality(A) \in Nat
  BY PositionsFinite
<1>6. SumOf(q, A) \in Int /\ At(q, c) \in Int
  BY <1>2, SumPlain
<1> DEFINE z == SumOf(q, A)
           k == Cardinality(A)
           x == At(q, c)
<1>7. Price(q, A \cup {c}, r + 2) = PriceAt(z + x, k + 1, r + 2) /\ Price(q, A, r) = PriceAt(z, k, r)
  BY <1>3, <1>4 DEF Price
<1>8. z \in Int /\ k \in Nat /\ x \in Int /\ Unit \in Nat
  BY <1>5, <1>6, CostAssumption
<1> HIDE DEF z, k, x
<1>9. r + 2 - 2 * (k + 1) = r - 2 * k /\ Unit * (r - 2 * k) \in Int
  BY <1>8
<1>10. (z + x) + Unit * (r - 2 * k) = (z + Unit * (r - 2 * k)) + x
  BY <1>8, <1>9
<1>11. PriceAt(z + x, k + 1, r + 2) = PriceAt(z, k, r) + x
  BY <1>8, <1>9, <1>10 DEF PriceAt
<1> QED
  BY <1>7, <1>11 DEF x

LEMMA PriceEmpty ==
  ASSUME NEW q, NEW r \in Int
  PROVE  Price(q, {}, r) = Unit * r
<1>1. IsFiniteSet({}) /\ Cardinality({}) = 0
  BY FS_EmptySet
<1>2. \A u \in {} : At(q, u) \in Int
  OBVIOUS
<1>3. SumOf(q, {}) = 0
  BY <1>1, <1>2, SumNext
<1>4. Unit * r \in Int /\ r - 2 * 0 = r
  BY CostAssumption
<1> QED
  BY <1>1, <1>3, <1>4 DEF Price, PriceAt

-----------------------------------------------------------------------------
(* The least cost of a prefix of the pattern and a window that ends at b,  *)
(* and of a suffix of the pattern and a window that starts at b and ends   *)
(* no later than E.                                                        *)

Reach(q, a, b, v) ==
  /\ v \in Int
  /\ \E s \in 0 .. b, A \in SUBSET Positions :
       Within(A, 0, a, s, b) /\ v = Price(q, A, a + b - s)
  /\ \A s \in 0 .. b, A \in SUBSET Positions :
       Within(A, 0, a, s, b) => v <= Price(q, A, a + b - s)

Back(q, a, b, E, v) ==
  /\ v \in Int
  /\ \E e \in b .. E, A \in SUBSET Positions :
       Within(A, a, PatternSize, b, e) /\ v = Price(q, A, PatternSize - a + e - b)
  /\ \A e \in b .. E, A \in SUBSET Positions :
       Within(A, a, PatternSize, b, e) => v <= Price(q, A, PatternSize - a + e - b)

LEMMA ReachOnce ==
  ASSUME NEW q, NEW a, NEW b, NEW v, NEW w, Reach(q, a, b, v), Reach(q, a, b, w)
  PROVE  v = w
<1>1. v \in Int /\ w \in Int
  BY DEF Reach
<1>2. v <= w /\ w <= v
  BY DEF Reach
<1> QED
  BY <1>1, <1>2

LEMMA BackOnce ==
  ASSUME NEW q, NEW a, NEW b, NEW E, NEW v, NEW w, Back(q, a, b, E, v), Back(q, a, b, E, w)
  PROVE  v = w
<1>1. v \in Int /\ w \in Int
  BY DEF Back
<1>2. v <= w /\ w <= v
  BY DEF Back
<1> QED
  BY <1>1, <1>2

LEMMA NothingWithin ==
  ASSUME NEW a0, NEW a1, NEW s, NEW e
  PROVE  Within({}, a0, a1, s, e)
BY DEF Within, Ordered

LEMMA OnlyNothing ==
  ASSUME NEW a0 \in Int, NEW a1 \in Int, NEW s \in Int, NEW e \in Int,
         a0 >= a1 \/ s >= e,
         NEW A, Within(A, a0, a1, s, e)
  PROVE  A = {}
<1> SUFFICES ASSUME NEW c \in A PROVE FALSE
  OBVIOUS
<1>1. c[1] \in a0 .. a1 - 1 /\ c[2] \in s .. e - 1
  BY DEF Within
<1> QED
  BY <1>1

(* Positions that belong to an alignment and lie within smaller bounds. *)
LEMMA WithinPart ==
  ASSUME NEW a0, NEW a1, NEW s, NEW e, NEW A, Within(A, a0, a1, s, e), NEW B, B \subseteq A,
         NEW b0, NEW b1, NEW x, NEW y,
         \A c \in B : c[1] \in b0 .. b1 - 1 /\ c[2] \in x .. y - 1
  PROVE  Within(B, b0, b1, x, y)
BY DEF Within, Ordered

(* One more pair, before or behind all the others. *)
Beyond(A, c) == (\A u \in A : Before(u, c)) \/ (\A u \in A : Before(c, u))

LEMMA WithinMore ==
  ASSUME NEW a0, NEW a1, NEW s, NEW e, NEW A, Within(A, a0, a1, s, e),
         NEW c \in Positions, Beyond(A, c), c[1] \in a0 .. a1 - 1, c[2] \in s .. e - 1
  PROVE  c \notin A /\ Within(A \cup {c}, a0, a1, s, e)
<1>1. c[1] \in Int /\ c[2] \in Int
  BY DEF Positions
<1>2. c \notin A
  <2> SUFFICES ASSUME c \in A PROVE FALSE
    OBVIOUS
  <2>1. Before(c, c)
    BY DEF Beyond
  <2> QED
    BY <1>1, <2>1 DEF Before
<1>3. Ordered(A \cup {c})
  BY DEF Ordered, Within, Beyond
<1> QED
  BY <1>2, <1>3 DEF Within

LEMMA PlaceIn ==
  ASSUME NEW a \in 0 .. PatternSize - 1, NEW b \in 0 .. MaxTextSize - 1
  PROVE  <<a, b>> \in Positions /\ <<a, b>>[1] = a /\ <<a, b>>[2] = b
BY DEF Positions

(* The first row and the first column. *)
LEMMA ReachTop ==
  ASSUME NEW q, NEW b \in Places
  PROVE  Reach(q, 0, b, 0)
<1>1. ASSUME NEW s \in 0 .. b, NEW A, Within(A, 0, 0, s, b) PROVE 0 <= Price(q, A, 0 + b - s)
  <2>1. 0 \in Int /\ s \in Int /\ b \in Int
    BY DEF Places
  <2>2. A = {}
    BY <1>1, <2>1, OnlyNothing
  <2>3. Price(q, {}, b - s) = Unit * (b - s)
    BY <2>1, PriceEmpty
  <2>4. b - s \in Nat /\ 0 + b - s = b - s
    BY <2>1
  <2>5. Unit * (b - s) \in Nat
    BY <2>4, CostAssumption
  <2> QED
    BY <2>2, <2>3, <2>4, <2>5
<1>2. b \in 0 .. b /\ Within({}, 0, 0, b, b)
  BY NothingWithin DEF Places
<1>3. Price(q, {}, 0 + b - b) = 0
  <2>1. 0 + b - b = 0 /\ 0 \in Int
    BY DEF Places
  <2>2. Price(q, {}, 0) = Unit * 0 /\ Unit * 0 = 0
    BY <2>1, PriceEmpty, CostAssumption
  <2> QED
    BY <2>1, <2>2
<1>4. \E s \in 0 .. b, A \in SUBSET Positions : Within(A, 0, 0, s, b) /\ 0 = Price(q, A, 0 + b - s)
  <2>1. {} \in SUBSET Positions
    OBVIOUS
  <2> QED
    BY <1>2, <1>3, <2>1
<1> QED
  BY <1>1, <1>4 DEF Reach

LEMMA ReachLeft ==
  ASSUME NEW q, NEW a \in Row
  PROVE  Reach(q, a, 0, a * Unit)
<1>1. a \in Int /\ 0 \in Int /\ 0 .. 0 = {0} /\ a + 0 - 0 = a
  BY DEF Row
<1>2. Price(q, {}, a) = Unit * a /\ Unit * a = a * Unit /\ a * Unit \in Int
  BY <1>1, PriceEmpty, CostAssumption
<1>3. ASSUME NEW A, Within(A, 0, a, 0, 0) PROVE A = {}
  BY <1>1, <1>3, OnlyNothing
<1>4. {} \in SUBSET Positions /\ Within({}, 0, a, 0, 0)
  BY NothingWithin
<1>5. \E s \in 0 .. 0, A \in SUBSET Positions : Within(A, 0, a, s, 0) /\ a * Unit = Price(q, A, a + 0 - s)
  <2>1. Price(q, {}, a + 0 - 0) = a * Unit
    BY <1>1, <1>2
  <2> QED
    BY <1>1, <1>4, <2>1
<1>6. ASSUME NEW s \in 0 .. 0, NEW A \in SUBSET Positions, Within(A, 0, a, s, 0)
      PROVE  a * Unit <= Price(q, A, a + 0 - s)
  <2>1. s = 0
    BY <1>1
  <2>2. A = {}
    BY <1>3, <1>6, <2>1
  <2>3. Price(q, A, a + 0 - s) = a * Unit
    BY <1>1, <1>2, <2>1, <2>2
  <2> QED
    BY <1>2, <2>3
<1> QED
  BY <1>2, <1>5, <1>6 DEF Reach

LEMMA BackBottom ==
  ASSUME NEW q, NEW E \in Places, NEW b \in 0 .. E
  PROVE  Back(q, PatternSize, b, E, 0)
<1>0. PatternSize \in Int /\ b \in Int /\ E \in Int /\ 0 <= b /\ b <= E
  BY SizeAssumption DEF Places
<1>1. ASSUME NEW e \in b .. E, NEW A, Within(A, PatternSize, PatternSize, b, e)
      PROVE  0 <= Price(q, A, PatternSize - PatternSize + e - b)
  <2>2. A = {}
    BY <1>0, <1>1, OnlyNothing
  <2>3. Price(q, {}, e - b) = Unit * (e - b)
    BY <1>0, PriceEmpty
  <2>4. e - b \in Nat /\ PatternSize - PatternSize + e - b = e - b
    BY <1>0
  <2>5. Unit * (e - b) \in Nat
    BY <2>4, CostAssumption
  <2> QED
    BY <2>2, <2>3, <2>4, <2>5
<1>2. b \in b .. E /\ Within({}, PatternSize, PatternSize, b, b)
  BY <1>0, NothingWithin
<1>3. Price(q, {}, PatternSize - PatternSize + b - b) = 0
  <2>1. PatternSize - PatternSize + b - b = 0 /\ 0 \in Int
    BY <1>0
  <2>2. Price(q, {}, 0) = Unit * 0 /\ Unit * 0 = 0
    BY <2>1, PriceEmpty, CostAssumption
  <2> QED
    BY <2>1, <2>2
<1>4. \E e \in b .. E, A \in SUBSET Positions :
        Within(A, PatternSize, PatternSize, b, e) /\ 0 = Price(q, A, PatternSize - PatternSize + e - b)
  <2>1. {} \in SUBSET Positions
    OBVIOUS
  <2> QED
    BY <1>2, <1>3, <2>1
<1> QED
  BY <1>1, <1>4 DEF Back

LEMMA BackRight ==
  ASSUME NEW q, NEW a \in Row, NEW E \in Places
  PROVE  Back(q, a, E, E, (PatternSize - a) * Unit)
<1>1. /\ a \in Int /\ PatternSize \in Int /\ E \in Int
      /\ E .. E = {E} /\ PatternSize - a + E - E = PatternSize - a /\ PatternSize - a \in Int
  BY SizeAssumption DEF Row, Places
<1>2. /\ Price(q, {}, PatternSize - a) = Unit * (PatternSize - a)
      /\ Unit * (PatternSize - a) = (PatternSize - a) * Unit
      /\ (PatternSize - a) * Unit \in Int
  BY <1>1, PriceEmpty, CostAssumption
<1>3. ASSUME NEW A, Within(A, a, PatternSize, E, E) PROVE A = {}
  BY <1>1, <1>3, OnlyNothing
<1>4. {} \in SUBSET Positions /\ Within({}, a, PatternSize, E, E)
  BY NothingWithin
<1> QED
  BY <1>1, <1>2, <1>3, <1>4 DEF Back

(* Every cell has a least cost: no alignment costs less than a bound. *)
LEMMA PricesBounded ==
  ASSUME NEW q, Matrix(q), NEW A, A \subseteq Positions, NEW r \in Nat
  PROVE  Price(q, A, r) >= Unit * (0 - 2 * Cardinality(Positions))
<1> DEFINE m == Cardinality(Positions)
<1>1. Price(q, A, r) \in Int /\ Price(q, A, r) >= Unit * (r - 2 * m)
  BY PricePlain
<1>2. m \in Nat /\ Unit \in Nat
  BY PositionsFinite, CostAssumption
<1> HIDE DEF m
<1>3. Unit * (r - 2 * m) = Unit * r + Unit * (0 - 2 * m) /\ Unit * r \in Nat /\ Unit * (0 - 2 * m) \in Int
  BY <1>2
<1>4. Unit * (r - 2 * m) >= Unit * (0 - 2 * m)
  BY <1>3
<1>5. Unit * (r - 2 * m) \in Int
  BY <1>2
<1> QED
  BY <1>1, <1>3, <1>4, <1>5 DEF m

LEMMA ReachExists ==
  ASSUME NEW q, Matrix(q), NEW a \in Row, NEW b \in Places
  PROVE  \E v : Reach(q, a, b, v)
<1> DEFINE S == {Price(q, x[2], a + b - x[1]) :
                   x \in {y \in (0 .. b) \X SUBSET Positions : Within(y[2], 0, a, y[1], b)}}
           low == Unit * (0 - 2 * Cardinality(Positions))
<1>1. ASSUME NEW s \in 0 .. b, NEW A \in SUBSET Positions, Within(A, 0, a, s, b)
      PROVE  Price(q, A, a + b - s) \in S
  <2>1. <<s, A>> \in {y \in (0 .. b) \X SUBSET Positions : Within(y[2], 0, a, y[1], b)}
    BY <1>1
  <2>2. Price(q, <<s, A>>[2], a + b - <<s, A>>[1]) \in S
    BY <2>1
  <2> QED
    BY <2>2
<1>2. ASSUME NEW u \in S
      PROVE  /\ \E s \in 0 .. b, A \in SUBSET Positions : Within(A, 0, a, s, b) /\ u = Price(q, A, a + b - s)
             /\ u \in Int /\ low <= u
  <2>1. PICK x \in (0 .. b) \X SUBSET Positions :
           Within(x[2], 0, a, x[1], b) /\ u = Price(q, x[2], a + b - x[1])
    OBVIOUS
  <2> DEFINE s == x[1]
             A == x[2]
  <2>2. s \in 0 .. b /\ A \in SUBSET Positions /\ Within(A, 0, a, s, b) /\ u = Price(q, A, a + b - s)
    BY <2>1
  <2> HIDE DEF s, A
  <2>3. a + b - s \in Nat /\ A \subseteq Positions
    BY <2>2 DEF Row, Places
  <2>4. Price(q, A, a + b - s) \in Int /\ Price(q, A, a + b - s) >= low
    BY <2>3, PricePlain, PricesBounded
  <2>5. low \in Int
    BY PositionsFinite, CostAssumption
  <2> QED
    BY <2>2, <2>4, <2>5
<1>3. S # {} /\ low \in Int
  <2>1. b \in 0 .. b /\ {} \in SUBSET Positions /\ Within({}, 0, a, b, b)
    BY NothingWithin DEF Places
  <2>2. Cardinality(Positions) \in Int /\ Unit \in Int
    <3>1. {} \subseteq Positions
      OBVIOUS
    <3> QED
      BY <3>1, PositionsFinite, CostAssumption
  <2> QED
    BY <1>1, <2>1, <2>2
<1> HIDE DEF S, low
<1>4. PICK v \in S : \A w \in S : v <= w
  BY <1>2, <1>3, LeastInt
<1>5. Reach(q, a, b, v)
  BY <1>1, <1>2, <1>4 DEF Reach
<1> QED
  BY <1>5

LEMMA BackExists ==
  ASSUME NEW q, Matrix(q), NEW a \in Row, NEW E \in Places, NEW b \in 0 .. E
  PROVE  \E v : Back(q, a, b, E, v)
<1> DEFINE S == {Price(q, x[2], PatternSize - a + x[1] - b) :
                   x \in {y \in (b .. E) \X SUBSET Positions : Within(y[2], a, PatternSize, b, y[1])}}
           low == Unit * (0 - 2 * Cardinality(Positions))
<1>1. ASSUME NEW e \in b .. E, NEW A \in SUBSET Positions, Within(A, a, PatternSize, b, e)
      PROVE  Price(q, A, PatternSize - a + e - b) \in S
  <2>1. <<e, A>> \in {y \in (b .. E) \X SUBSET Positions : Within(y[2], a, PatternSize, b, y[1])}
    BY <1>1
  <2>2. Price(q, <<e, A>>[2], PatternSize - a + <<e, A>>[1] - b) \in S
    BY <2>1
  <2> QED
    BY <2>2
<1>2. ASSUME NEW u \in S
      PROVE  /\ \E e \in b .. E, A \in SUBSET Positions :
                   Within(A, a, PatternSize, b, e) /\ u = Price(q, A, PatternSize - a + e - b)
             /\ u \in Int /\ low <= u
  <2>1. PICK x \in (b .. E) \X SUBSET Positions :
           Within(x[2], a, PatternSize, b, x[1]) /\ u = Price(q, x[2], PatternSize - a + x[1] - b)
    OBVIOUS
  <2> DEFINE e == x[1]
             A == x[2]
  <2>2. e \in b .. E /\ A \in SUBSET Positions /\ Within(A, a, PatternSize, b, e) /\ u = Price(q, A, PatternSize - a + e - b)
    BY <2>1
  <2> HIDE DEF e, A
  <2>3. PatternSize - a + e - b \in Nat /\ A \subseteq Positions
    BY <2>2, SizeAssumption DEF Row, Places
  <2>4. Price(q, A, PatternSize - a + e - b) \in Int /\ Price(q, A, PatternSize - a + e - b) >= low
    BY <2>3, PricePlain, PricesBounded
  <2>5. low \in Int
    BY PositionsFinite, CostAssumption
  <2> QED
    BY <2>2, <2>4, <2>5
<1>3. S # {} /\ low \in Int
  <2>1. b \in b .. E /\ {} \in SUBSET Positions /\ Within({}, a, PatternSize, b, b)
    BY NothingWithin DEF Places
  <2>2. Cardinality(Positions) \in Int /\ Unit \in Int
    <3>1. {} \subseteq Positions
      OBVIOUS
    <3> QED
      BY <3>1, PositionsFinite, CostAssumption
  <2> QED
    BY <1>1, <2>1, <2>2
<1> HIDE DEF S, low
<1>4. PICK v \in S : \A w \in S : v <= w
  BY <1>2, <1>3, LeastInt
<1>5. Back(q, a, b, E, v)
  BY <1>1, <1>2, <1>4 DEF Back
<1> QED
  BY <1>5

-----------------------------------------------------------------------------
(* The recurrences. *)

(* Without the pair of the last two symbols, the last symbol of one of the *)
(* sides is in no pair: two pairs would cross.                             *)
LEMMA LastUnpaired ==
  ASSUME NEW a \in 1 .. PatternSize, NEW b \in 1 .. MaxTextSize, NEW s \in 0 .. b,
         NEW A, Within(A, 0, a, s, b), <<a - 1, b - 1>> \notin A
  PROVE  \/ Within(A, 0, a - 1, s, b)
         \/ s <= b - 1 /\ Within(A, 0, a, s, b - 1)
<1>1. a \in Int /\ b \in Int /\ s \in Int
  OBVIOUS
<1>2. ASSUME NEW c \in A
      PROVE  /\ c = <<c[1], c[2]>> /\ c[1] \in Int /\ c[2] \in Int
             /\ 0 <= c[1] /\ c[1] <= a - 1 /\ s <= c[2] /\ c[2] <= b - 1
  <2>1. c[1] \in 0 .. a - 1 /\ c[2] \in s .. b - 1 /\ c \in Positions
    BY DEF Within
  <2> QED
    BY <1>1, <2>1 DEF Positions
<1>3. CASE \A c \in A : c[1] # a - 1
  <2>1. \A c \in A : c[1] \in 0 .. (a - 1) - 1 /\ c[2] \in s .. b - 1
    BY <1>1, <1>2, <1>3
  <2>2. A \subseteq A
    OBVIOUS
  <2> QED
    BY <2>1, <2>2, WithinPart
<1>4. ASSUME NEW x \in A, x[1] = a - 1 PROVE s <= b - 1 /\ Within(A, 0, a, s, b - 1)
  <2>1. s <= b - 1
    BY <1>1, <1>2
  <2>2. ASSUME NEW c \in A, c[2] = b - 1 PROVE FALSE
    <3>1. x = c \/ Before(x, c) \/ Before(c, x)
      BY DEF Within, Ordered
    <3>2. CASE x = c
      BY <1>2, <1>4, <2>2, <3>2
    <3>3. CASE Before(x, c)
      BY <1>1, <1>2, <1>4, <3>3 DEF Before
    <3>4. CASE Before(c, x)
      BY <1>1, <1>2, <2>2, <3>4 DEF Before
    <3> QED
      BY <3>1, <3>2, <3>3, <3>4
  <2>3. \A c \in A : c[1] \in 0 .. a - 1 /\ c[2] \in s .. (b - 1) - 1
    BY <1>1, <1>2, <2>2
  <2>4. A \subseteq A
    OBVIOUS
  <2> QED
    BY <2>1, <2>3, <2>4, WithinPart
<1> QED
  BY <1>3, <1>4

(* With that pair, the others are pairs of what precedes the two symbols. *)
LEMMA LastPaired ==
  ASSUME NEW a \in 1 .. PatternSize, NEW b \in 1 .. MaxTextSize, NEW s \in 0 .. b,
         NEW A, Within(A, 0, a, s, b), NEW k, k \in A, k[1] = a - 1, k[2] = b - 1
  PROVE  s <= b - 1 /\ Within(A \ {k}, 0, a - 1, s, b - 1)
<1>1. a \in Int /\ b \in Int /\ s \in Int
  OBVIOUS
<1>2. ASSUME NEW c \in A
      PROVE  c[1] \in Int /\ c[2] \in Int /\ 0 <= c[1] /\ c[1] <= a - 1 /\ s <= c[2] /\ c[2] <= b - 1
  <2>1. c[1] \in 0 .. a - 1 /\ c[2] \in s .. b - 1
    BY DEF Within
  <2> QED
    BY <1>1, <2>1
<1>3. s <= b - 1
  BY <1>2
<1>4. ASSUME NEW c \in A \ {k} PROVE c[1] \in 0 .. (a - 1) - 1 /\ c[2] \in s .. (b - 1) - 1
  <2>1. Before(c, k) \/ Before(k, c)
    BY DEF Within, Ordered
  <2>2. ~Before(k, c)
    BY <1>1, <1>2 DEF Before
  <2> QED
    BY <1>1, <1>2, <2>1, <2>2 DEF Before
<1>5. A \ {k} \subseteq A
  OBVIOUS
<1> QED
  BY <1>3, <1>4, <1>5, WithinPart

LEMMA LeastOfThree ==
  ASSUME NEW x \in Int, NEW y \in Int, NEW z \in Int
  PROVE  /\ Least(x, y, z) \in Int
         /\ Least(x, y, z) <= x /\ Least(x, y, z) <= y /\ Least(x, y, z) <= z
         /\ Least(x, y, z) = x \/ Least(x, y, z) = y \/ Least(x, y, z) = z
BY DEF Least

(* The cell of the forward pass. *)
LEMMA ReachStep ==
  ASSUME NEW q, Matrix(q), NEW a \in 1 .. PatternSize, NEW b \in 1 .. MaxTextSize,
         NEW u, NEW v, NEW w, Reach(q, a - 1, b - 1, u), Reach(q, a, b - 1, v), Reach(q, a - 1, b, w)
  PROVE  Reach(q, a, b, Least(u + q[a - 1][b - 1], v + Unit, w + Unit))
<1> DEFINE k == <<a - 1, b - 1>>
           x == At(q, k)
           r == Least(u + x, v + Unit, w + Unit)
<1>1. k \in Positions /\ k[1] = a - 1 /\ k[2] = b - 1 /\ x = q[a - 1][b - 1]
  <2>1. a - 1 \in 0 .. PatternSize - 1 /\ b - 1 \in 0 .. MaxTextSize - 1
    BY SizeAssumption
  <2>2. k \in Positions /\ k[1] = a - 1 /\ k[2] = b - 1
    BY <2>1, PlaceIn
  <2> HIDE DEF k
  <2> QED
    BY <2>2 DEF At
<1>2. x \in Nat
  <2>1. {k} \subseteq Positions
    BY <1>1
  <2> HIDE DEF k
  <2> QED
    BY <2>1, PositionCosts
<1>3. u \in Int /\ v \in Int /\ w \in Int /\ Unit \in Nat /\ a \in Int /\ b \in Int
  BY CostAssumption DEF Reach
<1>4. r \in Int /\ r <= u + x /\ r <= v + Unit /\ r <= w + Unit /\ (r = u + x \/ r = v + Unit \/ r = w + Unit)
  <2>1. u + x \in Int /\ v + Unit \in Int /\ w + Unit \in Int
    BY <1>2, <1>3
  <2> HIDE DEF x
  <2> QED
    BY <2>1, LeastOfThree
<1> HIDE DEF x, r
<1>5. ASSUME NEW s \in 0 .. b, NEW A \in SUBSET Positions, Within(A, 0, a, s, b)
      PROVE  r <= Price(q, A, a + b - s)
  <2>1. s \in Int /\ A \subseteq Positions
    OBVIOUS
  <2>2. CASE k \in A
    <3> DEFINE B == A \ {k}
    <3>1. s <= b - 1 /\ Within(B, 0, a - 1, s, b - 1)
      <4> HIDE DEF k
      <4> QED
        BY <1>1, <1>5, <2>2, LastPaired
    <3>2. B \in SUBSET Positions /\ B \subseteq Positions /\ k \notin B /\ B \cup {k} = A
      BY <2>1, <2>2
    <3> HIDE DEF B, k
    <3>3. s \in 0 .. b - 1 /\ (a - 1) + (b - 1) - s = a + b - s - 2 /\ a + b - s - 2 \in Int
      BY <1>3, <2>1, <3>1
    <3>4. u <= Price(q, B, a + b - s - 2)
      BY <3>1, <3>2, <3>3 DEF Reach
    <3>5. Price(q, A, (a + b - s - 2) + 2) = Price(q, B, a + b - s - 2) + x
      BY <1>1, <3>2, <3>3, PriceWith DEF x
    <3>6. (a + b - s - 2) + 2 = a + b - s
      BY <1>3, <2>1
    <3>7. Price(q, B, a + b - s - 2) \in Int
      BY <3>2, <3>3, PricePlain
    <3> QED
      BY <1>2, <1>3, <1>4, <3>4, <3>5, <3>6, <3>7
  <2>3. CASE k \notin A
    <3>1. Within(A, 0, a - 1, s, b) \/ (s <= b - 1 /\ Within(A, 0, a, s, b - 1))
      BY <1>5, <2>3, LastUnpaired
    <3> HIDE DEF k
    <3>2. a + b - s - 1 \in Int /\ (a + b - s - 1) + 1 = a + b - s
      BY <1>3, <2>1
    <3>3. Price(q, A, a + b - s) = Price(q, A, a + b - s - 1) + Unit /\ Price(q, A, a + b - s - 1) \in Int
      <4>1. Price(q, A, (a + b - s - 1) + 1) = Price(q, A, a + b - s - 1) + Unit /\ Price(q, A, a + b - s - 1) \in Int
        BY <2>1, <3>2, PricePlain
      <4> QED
        BY <3>2, <4>1
    <3>4. CASE Within(A, 0, a - 1, s, b)
      <4>1. (a - 1) + b - s = a + b - s - 1
        BY <1>3, <2>1
      <4>2. w <= Price(q, A, a + b - s - 1)
        BY <3>4, <4>1 DEF Reach
      <4> QED
        BY <1>3, <1>4, <3>3, <4>2
    <3>5. CASE s <= b - 1 /\ Within(A, 0, a, s, b - 1)
      <4>1. a + (b - 1) - s = a + b - s - 1 /\ s \in 0 .. b - 1
        BY <1>3, <2>1, <3>5
      <4>2. v <= Price(q, A, a + b - s - 1)
        BY <3>5, <4>1 DEF Reach
      <4> QED
        BY <1>3, <1>4, <3>3, <4>2
    <3> QED
      BY <3>1, <3>4, <3>5
  <2> QED
    BY <2>2, <2>3
<1>6. \E s \in 0 .. b, A \in SUBSET Positions : Within(A, 0, a, s, b) /\ r = Price(q, A, a + b - s)
  <2>1. CASE r = u + x
    <3>1. PICK s \in 0 .. b - 1, B \in SUBSET Positions :
             Within(B, 0, a - 1, s, b - 1) /\ u = Price(q, B, (a - 1) + (b - 1) - s)
      BY DEF Reach
    <3> HIDE DEF k
    <3>2. s \in Int /\ s \in 0 .. b /\ s <= b - 1 /\ 0 <= s
      BY <1>3, <3>1
    <3>3. \A c \in B : Before(c, k)
      <4> SUFFICES ASSUME NEW c \in B PROVE Before(c, k)
        OBVIOUS
      <4>1. c[1] \in 0 .. (a - 1) - 1 /\ c[2] \in s .. (b - 1) - 1
        BY <3>1 DEF Within
      <4> QED
        BY <1>1, <1>3, <3>2, <4>1 DEF Before
    <3>4. k \notin B /\ Within(B \cup {k}, 0, a, s, b)
      <4>1. \A c \in B : c[1] \in 0 .. a - 1 /\ c[2] \in s .. b - 1
        <5> SUFFICES ASSUME NEW c \in B PROVE c[1] \in 0 .. a - 1 /\ c[2] \in s .. b - 1
          OBVIOUS
        <5>1. c[1] \in 0 .. (a - 1) - 1 /\ c[2] \in s .. (b - 1) - 1
          BY <3>1 DEF Within
        <5> QED
          BY <1>3, <3>2, <5>1
      <4>2. B \subseteq B
        OBVIOUS
      <4>3. Within(B, 0, a, s, b)
        BY <3>1, <4>1, <4>2, WithinPart
      <4>4. k[1] \in 0 .. a - 1 /\ k[2] \in s .. b - 1
        BY <1>1, <1>3, <3>2
      <4>5. Beyond(B, k)
        BY <3>3 DEF Beyond
      <4> QED
        BY <1>1, <4>3, <4>4, <4>5, WithinMore
    <3>5. (a - 1) + (b - 1) - s \in Int /\ (a - 1) + (b - 1) - s + 2 = a + b - s
      BY <1>3, <3>2
    <3>6. Price(q, B \cup {k}, a + b - s) = u + x
      <4>1. Price(q, B \cup {k}, (a - 1) + (b - 1) - s + 2) = Price(q, B, (a - 1) + (b - 1) - s) + x
        <5>1. B \subseteq Positions
          OBVIOUS
        <5> QED
          BY <1>1, <3>4, <3>5, <5>1, PriceWith DEF x
      <4> QED
        BY <3>1, <3>5, <4>1
    <3>7. B \cup {k} \in SUBSET Positions
      BY <1>1
    <3> QED
      BY <2>1, <3>2, <3>4, <3>6, <3>7
  <2>2. CASE r = v + Unit
    <3>1. PICK s \in 0 .. b - 1, A \in SUBSET Positions :
             Within(A, 0, a, s, b - 1) /\ v = Price(q, A, a + (b - 1) - s)
      BY DEF Reach
    <3>2. /\ s \in Int /\ s \in 0 .. b /\ a + (b - 1) - s \in Int
          /\ (a + (b - 1) - s) + 1 = a + b - s
      BY <1>3, <3>1
    <3>3. Price(q, A, a + b - s) = v + Unit
      <4>1. A \subseteq Positions
        OBVIOUS
      <4>2. Price(q, A, (a + (b - 1) - s) + 1) = Price(q, A, a + (b - 1) - s) + Unit
        BY <3>2, <4>1, PricePlain
      <4> QED
        BY <3>1, <3>2, <4>2
    <3>4. Within(A, 0, a, s, b)
      <4>1. \A c \in A : c[1] \in 0 .. a - 1 /\ c[2] \in s .. b - 1
        <5> SUFFICES ASSUME NEW c \in A PROVE c[1] \in 0 .. a - 1 /\ c[2] \in s .. b - 1
          OBVIOUS
        <5>1. c[1] \in 0 .. a - 1 /\ c[2] \in s .. (b - 1) - 1
          BY <3>1 DEF Within
        <5> QED
          BY <1>3, <3>2, <5>1
      <4>2. A \subseteq A
        OBVIOUS
      <4> QED
        BY <3>1, <4>1, <4>2, WithinPart
    <3> QED
      BY <2>2, <3>2, <3>3, <3>4
  <2>3. CASE r = w + Unit
    <3>1. PICK s \in 0 .. b, A \in SUBSET Positions :
             Within(A, 0, a - 1, s, b) /\ w = Price(q, A, (a - 1) + b - s)
      BY DEF Reach
    <3>2. s \in Int /\ (a - 1) + b - s \in Int /\ ((a - 1) + b - s) + 1 = a + b - s
      BY <1>3, <3>1
    <3>3. Price(q, A, a + b - s) = w + Unit
      <4>1. A \subseteq Positions
        OBVIOUS
      <4>2. Price(q, A, ((a - 1) + b - s) + 1) = Price(q, A, (a - 1) + b - s) + Unit
        BY <3>2, <4>1, PricePlain
      <4> QED
        BY <3>1, <3>2, <4>2
    <3>4. Within(A, 0, a, s, b)
      <4>1. \A c \in A : c[1] \in 0 .. a - 1 /\ c[2] \in s .. b - 1
        <5> SUFFICES ASSUME NEW c \in A PROVE c[1] \in 0 .. a - 1 /\ c[2] \in s .. b - 1
          OBVIOUS
        <5>1. c[1] \in 0 .. (a - 1) - 1 /\ c[2] \in s .. b - 1
          BY <3>1 DEF Within
        <5> QED
          BY <1>3, <3>2, <5>1
      <4>2. A \subseteq A
        OBVIOUS
      <4> QED
        BY <3>1, <4>1, <4>2, WithinPart
    <3> QED
      BY <2>3, <3>3, <3>4
  <2> QED
    BY <1>4, <2>1, <2>2, <2>3
<1>7. Reach(q, a, b, r)
  BY <1>4, <1>5, <1>6 DEF Reach
<1>8. r = Least(u + q[a - 1][b - 1], v + Unit, w + Unit)
  BY <1>1 DEF r, x
<1> QED
  BY <1>7, <1>8

(* The same at the other end: without the pair of the first two symbols,   *)
(* the first symbol of one of the sides is in no pair.                     *)
LEMMA FirstUnpaired ==
  ASSUME NEW a \in 0 .. PatternSize - 1, NEW E \in Places, NEW b \in 0 .. E - 1, NEW e \in b .. E,
         NEW A, Within(A, a, PatternSize, b, e), <<a, b>> \notin A
  PROVE  \/ Within(A, a + 1, PatternSize, b, e)
         \/ b + 1 <= e /\ Within(A, a, PatternSize, b + 1, e)
<1>1. a \in Int /\ b \in Int /\ e \in Int /\ PatternSize \in Int
  BY SizeAssumption
<1>2. ASSUME NEW c \in A
      PROVE  /\ c = <<c[1], c[2]>> /\ c[1] \in Int /\ c[2] \in Int
             /\ a <= c[1] /\ c[1] <= PatternSize - 1 /\ b <= c[2] /\ c[2] <= e - 1
  <2>1. c[1] \in a .. PatternSize - 1 /\ c[2] \in b .. e - 1 /\ c \in Positions
    BY DEF Within
  <2> QED
    BY <1>1, <2>1 DEF Positions
<1>3. CASE \A c \in A : c[1] # a
  <2>1. \A c \in A : c[1] \in a + 1 .. PatternSize - 1 /\ c[2] \in b .. e - 1
    BY <1>1, <1>2, <1>3
  <2>2. A \subseteq A
    OBVIOUS
  <2> QED
    BY <2>1, <2>2, WithinPart
<1>4. ASSUME NEW x \in A, x[1] = a PROVE b + 1 <= e /\ Within(A, a, PatternSize, b + 1, e)
  <2>1. b + 1 <= e
    BY <1>1, <1>2
  <2>2. ASSUME NEW c \in A, c[2] = b PROVE FALSE
    <3>1. x = c \/ Before(x, c) \/ Before(c, x)
      BY DEF Within, Ordered
    <3>2. CASE x = c
      BY <1>2, <1>4, <2>2, <3>2
    <3>3. CASE Before(x, c)
      BY <1>1, <1>2, <2>2, <3>3 DEF Before
    <3>4. CASE Before(c, x)
      BY <1>1, <1>2, <1>4, <3>4 DEF Before
    <3> QED
      BY <3>1, <3>2, <3>3, <3>4
  <2>3. \A c \in A : c[1] \in a .. PatternSize - 1 /\ c[2] \in b + 1 .. e - 1
    BY <1>1, <1>2, <2>2
  <2>4. A \subseteq A
    OBVIOUS
  <2> QED
    BY <2>1, <2>3, <2>4, WithinPart
<1> QED
  BY <1>3, <1>4

LEMMA FirstPaired ==
  ASSUME NEW a \in 0 .. PatternSize - 1, NEW E \in Places, NEW b \in 0 .. E - 1, NEW e \in b .. E,
         NEW A, Within(A, a, PatternSize, b, e), NEW k, k \in A, k[1] = a, k[2] = b
  PROVE  b + 1 <= e /\ Within(A \ {k}, a + 1, PatternSize, b + 1, e)
<1>1. a \in Int /\ b \in Int /\ e \in Int /\ PatternSize \in Int
  BY SizeAssumption
<1>2. ASSUME NEW c \in A
      PROVE  /\ c[1] \in Int /\ c[2] \in Int
             /\ a <= c[1] /\ c[1] <= PatternSize - 1 /\ b <= c[2] /\ c[2] <= e - 1
  <2>1. c[1] \in a .. PatternSize - 1 /\ c[2] \in b .. e - 1
    BY DEF Within
  <2> QED
    BY <1>1, <2>1
<1>3. b + 1 <= e
  BY <1>1, <1>2
<1>4. ASSUME NEW c \in A \ {k} PROVE c[1] \in a + 1 .. PatternSize - 1 /\ c[2] \in b + 1 .. e - 1
  <2>1. Before(c, k) \/ Before(k, c)
    BY DEF Within, Ordered
  <2>2. ~Before(c, k)
    BY <1>1, <1>2 DEF Before
  <2> QED
    BY <1>1, <1>2, <2>1, <2>2 DEF Before
<1>5. A \ {k} \subseteq A
  OBVIOUS
<1> QED
  BY <1>3, <1>4, <1>5, WithinPart

(* The cell of a backward pass. *)
LEMMA BackStep ==
  ASSUME NEW q, Matrix(q), NEW a \in 0 .. PatternSize - 1, NEW E \in Places, NEW b \in 0 .. E - 1,
         NEW u, NEW v, NEW w, Back(q, a + 1, b + 1, E, u), Back(q, a, b + 1, E, v), Back(q, a + 1, b, E, w)
  PROVE  Back(q, a, b, E, Least(u + q[a][b], v + Unit, w + Unit))
<1> DEFINE k == <<a, b>>
           x == At(q, k)
           r == Least(u + x, v + Unit, w + Unit)
           F(e) == PatternSize - a + e - b
<1>1. k \in Positions /\ k[1] = a /\ k[2] = b /\ x = q[a][b]
  <2>1. a \in 0 .. PatternSize - 1 /\ b \in 0 .. MaxTextSize - 1
    BY SizeAssumption DEF Places
  <2>2. k \in Positions /\ k[1] = a /\ k[2] = b
    BY <2>1, PlaceIn
  <2> HIDE DEF k
  <2> QED
    BY <2>2 DEF At
<1>2. x \in Nat
  <2>1. {k} \subseteq Positions
    BY <1>1
  <2> HIDE DEF k
  <2> QED
    BY <2>1, PositionCosts
<1>3. /\ u \in Int /\ v \in Int /\ w \in Int /\ Unit \in Nat /\ a \in Int /\ b \in Int /\ E \in Int
      /\ PatternSize \in Int
  BY SizeAssumption, CostAssumption DEF Back, Places
<1>4. r \in Int /\ r <= u + x /\ r <= v + Unit /\ r <= w + Unit /\ (r = u + x \/ r = v + Unit \/ r = w + Unit)
  <2>1. u + x \in Int /\ v + Unit \in Int /\ w + Unit \in Int
    BY <1>2, <1>3
  <2> HIDE DEF x
  <2> QED
    BY <2>1, LeastOfThree
<1> HIDE DEF x, r
<1>5. ASSUME NEW e \in b .. E, NEW A \in SUBSET Positions, Within(A, a, PatternSize, b, e)
      PROVE  r <= Price(q, A, F(e))
  <2>1. e \in Int /\ A \subseteq Positions
    OBVIOUS
  <2>2. CASE k \in A
    <3> DEFINE B == A \ {k}
    <3>1. b + 1 <= e /\ Within(B, a + 1, PatternSize, b + 1, e)
      <4> HIDE DEF k
      <4> QED
        BY <1>1, <1>5, <2>2, FirstPaired
    <3>2. B \in SUBSET Positions /\ B \subseteq Positions /\ k \notin B /\ B \cup {k} = A
      BY <2>1, <2>2
    <3> HIDE DEF B, k
    <3>3. e \in b + 1 .. E /\ PatternSize - (a + 1) + e - (b + 1) = F(e) - 2 /\ F(e) - 2 \in Int
      BY <1>3, <2>1, <3>1
    <3>4. u <= Price(q, B, F(e) - 2)
      BY <3>1, <3>2, <3>3 DEF Back
    <3>5. Price(q, A, (F(e) - 2) + 2) = Price(q, B, F(e) - 2) + x
      BY <1>1, <3>2, <3>3, PriceWith DEF x
    <3>6. (F(e) - 2) + 2 = F(e)
      BY <1>3, <2>1
    <3>7. Price(q, B, F(e) - 2) \in Int
      BY <3>2, <3>3, PricePlain
    <3> QED
      BY <1>2, <1>3, <1>4, <3>4, <3>5, <3>6, <3>7
  <2>3. CASE k \notin A
    <3>1. Within(A, a + 1, PatternSize, b, e) \/ (b + 1 <= e /\ Within(A, a, PatternSize, b + 1, e))
      BY <1>5, <2>3, FirstUnpaired
    <3> HIDE DEF k
    <3>2. F(e) - 1 \in Int /\ (F(e) - 1) + 1 = F(e)
      BY <1>3, <2>1
    <3>3. Price(q, A, F(e)) = Price(q, A, F(e) - 1) + Unit /\ Price(q, A, F(e) - 1) \in Int
      <4>1. Price(q, A, (F(e) - 1) + 1) = Price(q, A, F(e) - 1) + Unit /\ Price(q, A, F(e) - 1) \in Int
        BY <2>1, <3>2, PricePlain
      <4> QED
        BY <3>2, <4>1
    <3>4. CASE Within(A, a + 1, PatternSize, b, e)
      <4>1. PatternSize - (a + 1) + e - b = F(e) - 1
        BY <1>3, <2>1
      <4>2. w <= Price(q, A, F(e) - 1)
        BY <3>4, <4>1 DEF Back
      <4> QED
        BY <1>3, <1>4, <3>3, <4>2
    <3>5. CASE b + 1 <= e /\ Within(A, a, PatternSize, b + 1, e)
      <4>1. PatternSize - a + e - (b + 1) = F(e) - 1 /\ e \in b + 1 .. E
        BY <1>3, <2>1, <3>5
      <4>2. v <= Price(q, A, F(e) - 1)
        BY <3>5, <4>1 DEF Back
      <4> QED
        BY <1>3, <1>4, <3>3, <4>2
    <3> QED
      BY <3>1, <3>4, <3>5
  <2> QED
    BY <2>2, <2>3
<1>6. \E e \in b .. E, A \in SUBSET Positions : Within(A, a, PatternSize, b, e) /\ r = Price(q, A, F(e))
  <2>1. CASE r = u + x
    <3>1. PICK e \in b + 1 .. E, B \in SUBSET Positions :
             Within(B, a + 1, PatternSize, b + 1, e) /\ u = Price(q, B, PatternSize - (a + 1) + e - (b + 1))
      BY DEF Back
    <3> HIDE DEF k
    <3>2. e \in Int /\ e \in b .. E /\ b + 1 <= e /\ e <= E
      BY <1>3, <3>1
    <3>3. \A c \in B : Before(k, c)
      <4> SUFFICES ASSUME NEW c \in B PROVE Before(k, c)
        OBVIOUS
      <4>1. c[1] \in a + 1 .. PatternSize - 1 /\ c[2] \in b + 1 .. e - 1
        BY <3>1 DEF Within
      <4> QED
        BY <1>1, <1>3, <3>2, <4>1 DEF Before
    <3>4. k \notin B /\ Within(B \cup {k}, a, PatternSize, b, e)
      <4>1. \A c \in B : c[1] \in a .. PatternSize - 1 /\ c[2] \in b .. e - 1
        <5> SUFFICES ASSUME NEW c \in B PROVE c[1] \in a .. PatternSize - 1 /\ c[2] \in b .. e - 1
          OBVIOUS
        <5>1. c[1] \in a + 1 .. PatternSize - 1 /\ c[2] \in b + 1 .. e - 1
          BY <3>1 DEF Within
        <5> QED
          BY <1>3, <3>2, <5>1
      <4>2. B \subseteq B
        OBVIOUS
      <4>3. Within(B, a, PatternSize, b, e)
        BY <3>1, <4>1, <4>2, WithinPart
      <4>4. k[1] \in a .. PatternSize - 1 /\ k[2] \in b .. e - 1
        BY <1>1, <1>3, <3>2
      <4>5. Beyond(B, k)
        BY <3>3 DEF Beyond
      <4>6. k \in Positions
        BY <1>1
      <4>7. k \notin B
        BY ONLY <4>3, <4>4, <4>5, <4>6, WithinMore
      <4>8. Within(B \cup {k}, a, PatternSize, b, e)
        BY ONLY <4>3, <4>4, <4>5, <4>6, WithinMore
      <4> QED
        BY <4>7, <4>8
    <3>5. F(e) - 2 \in Int /\ (F(e) - 2) + 2 = F(e) /\ PatternSize - (a + 1) + e - (b + 1) = F(e) - 2
      BY <1>3, <3>2
    <3>6. Price(q, B \cup {k}, F(e)) = u + x
      <4>1. Price(q, B \cup {k}, (F(e) - 2) + 2) = Price(q, B, F(e) - 2) + x
        <5>1. B \subseteq Positions
          OBVIOUS
        <5> QED
          BY <1>1, <3>4, <3>5, <5>1, PriceWith DEF x
      <4> QED
        BY <3>1, <3>5, <4>1
    <3>7. B \cup {k} \in SUBSET Positions
      BY <1>1
    <3> QED
      BY <2>1, <3>2, <3>4, <3>6, <3>7
  <2>2. CASE r = v + Unit
    <3>1. PICK e \in b + 1 .. E, A \in SUBSET Positions :
             Within(A, a, PatternSize, b + 1, e) /\ v = Price(q, A, PatternSize - a + e - (b + 1))
      BY DEF Back
    <3>2. /\ e \in Int /\ e \in b .. E /\ F(e) - 1 \in Int /\ PatternSize - a + e - (b + 1) = F(e) - 1
          /\ (F(e) - 1) + 1 = F(e)
      BY <1>3, <3>1
    <3>3. Price(q, A, F(e)) = v + Unit
      <4>1. A \subseteq Positions
        OBVIOUS
      <4>2. Price(q, A, (F(e) - 1) + 1) = Price(q, A, F(e) - 1) + Unit
        BY <3>2, <4>1, PricePlain
      <4> QED
        BY <3>1, <3>2, <4>2
    <3>4. Within(A, a, PatternSize, b, e)
      <4>1. \A c \in A : c[1] \in a .. PatternSize - 1 /\ c[2] \in b .. e - 1
        <5> SUFFICES ASSUME NEW c \in A PROVE c[1] \in a .. PatternSize - 1 /\ c[2] \in b .. e - 1
          OBVIOUS
        <5>1. c[1] \in a .. PatternSize - 1 /\ c[2] \in b + 1 .. e - 1
          BY <3>1 DEF Within
        <5> QED
          BY <1>3, <3>2, <5>1
      <4>2. A \subseteq A
        OBVIOUS
      <4> QED
        BY <3>1, <4>1, <4>2, WithinPart
    <3> QED
      BY <2>2, <3>2, <3>3, <3>4
  <2>3. CASE r = w + Unit
    <3>1. PICK e \in b .. E, A \in SUBSET Positions :
             Within(A, a + 1, PatternSize, b, e) /\ w = Price(q, A, PatternSize - (a + 1) + e - b)
      BY DEF Back
    <3>2. e \in Int /\ F(e) - 1 \in Int /\ (F(e) - 1) + 1 = F(e) /\ PatternSize - (a + 1) + e - b = F(e) - 1
      BY <1>3, <3>1
    <3>3. Price(q, A, F(e)) = w + Unit
      <4>1. A \subseteq Positions
        OBVIOUS
      <4>2. Price(q, A, (F(e) - 1) + 1) = Price(q, A, F(e) - 1) + Unit
        BY <3>2, <4>1, PricePlain
      <4> QED
        BY <3>1, <3>2, <4>2
    <3>4. Within(A, a, PatternSize, b, e)
      <4>1. \A c \in A : c[1] \in a .. PatternSize - 1 /\ c[2] \in b .. e - 1
        <5> SUFFICES ASSUME NEW c \in A PROVE c[1] \in a .. PatternSize - 1 /\ c[2] \in b .. e - 1
          OBVIOUS
        <5>1. c[1] \in a + 1 .. PatternSize - 1 /\ c[2] \in b .. e - 1
          BY <3>1 DEF Within
        <5> QED
          BY <1>3, <3>2, <5>1
      <4>2. A \subseteq A
        OBVIOUS
      <4> QED
        BY <3>1, <4>1, <4>2, WithinPart
    <3> QED
      BY <2>3, <3>3, <3>4
  <2> QED
    BY <1>4, <2>1, <2>2, <2>3
<1>7. Back(q, a, b, E, r)
  BY <1>4, <1>5, <1>6 DEF Back
<1>8. r = Least(u + q[a][b], v + Unit, w + Unit)
  BY <1>1 DEF r, x
<1> QED
  BY <1>7, <1>8

-----------------------------------------------------------------------------
(* What the function is to compute is what the cells reach. *)

LEMMA MinIs ==
  ASSUME NEW S, S \subseteq Int, NEW v \in S, \A w \in S : v <= w
  PROVE  Min(S) = v
<1> DEFINE m == Min(S)
<1>1. m \in S /\ \A w \in S : m <= w
  BY DEF Min
<1> HIDE DEF m
<1>2. m <= v /\ v <= m /\ m \in Int /\ v \in Int
  BY <1>1
<1>3. m = v
  BY <1>2
<1> QED
  BY <1>3 DEF m

(* Costs that are the same have the same sum. *)
LEMMA SumSame ==
  ASSUME NEW A, IsFiniteSet(A), NEW q, NEW h, \A u \in A : At(q, u) \in Int /\ At(h, u) = At(q, u)
  PROVE  SumOf(h, A) = SumOf(q, A)
<1> DEFINE F == {s \in SUBSET A : SumOf(h, s) # SumOf(q, s)}
<1>1. ASSUME F # {} PROVE FALSE
  <2>1. \A s \in F : IsFiniteSet(s)
    BY FS_Subset
  <2>2. PICK s \in F : \A W \in F : ~(W \subseteq s /\ W # s)
    <3> HIDE DEF F
    <3> QED
      BY <1>1, <2>1, SmallestSet
  <2>3. s \subseteq A /\ IsFiniteSet(s) /\ SumOf(h, s) # SumOf(q, s)
    BY <2>1, <2>2
  <2>4. \A u \in s : At(q, u) \in Int /\ At(h, u) \in Int /\ At(h, u) = At(q, u)
    BY <2>3
  <2> DEFINE v == FirstOf(s)
             W == s \ {v}
  <2>5. s # {}
    <3>1. s = {} => SumOf(q, s) = 0 /\ SumOf(h, s) = 0
      BY <2>3, <2>4, SumNext
    <3> QED
      BY <2>3, <3>1
  <2>6. v \in s /\ SumOf(q, s) = At(q, v) + SumOf(q, W)
    BY <2>3, <2>4, <2>5, SumNext
  <2>7. SumOf(h, s) = At(h, v) + SumOf(h, W)
    BY <2>3, <2>4, <2>5, SumNext
  <2>8. W \subseteq s /\ W # s
    BY <2>6
  <2> HIDE DEF v, W
  <2>9. SumOf(h, W) = SumOf(q, W) /\ At(h, v) = At(q, v)
    BY <2>2, <2>3, <2>4, <2>6, <2>8
  <2> QED
    BY <2>3, <2>6, <2>7, <2>9
<1>2. A \notin F
  BY <1>1
<1> QED
  BY <1>2

LEMMA PaddedMatrix ==
  ASSUME Arguments
  PROVE  Matrix(padded)
<1>1. ASSUME NEW a \in 0 .. PatternSize - 1, NEW b \in 0 .. MaxTextSize - 1
      PROVE  (IF b < textsize THEN cost[a][b] ELSE 0) \in Nat
  <2>1. CASE b < textsize
    <3>1. b \in 0 .. textsize - 1
      BY <2>1, SizeAssumption DEF Arguments
    <3> QED
      BY <2>1, <3>1, CostsAreNumbers
  <2> QED
    BY <2>1
<1> QED
  BY <1>1 DEF Matrix, padded, Pad

(* Up to the text's end these are the costs. *)
LEMMA PaddedAt ==
  ASSUME Arguments, NEW a \in 0 .. PatternSize - 1, NEW b \in 0 .. textsize - 1
  PROVE  padded[a][b] = cost[a][b]
BY SizeAssumption DEF Arguments, padded, Pad

LEMMA ColumnsArePlaces ==
  ASSUME Arguments
  PROVE  Column \subseteq Places /\ textsize \in Nat /\ MaxTextSize \in Nat
BY SizeAssumption DEF Arguments, Column, Places

LEMMA CostIsPrice ==
  ASSUME Arguments, NEW s \in Int, NEW e \in Column,
         NEW A, A \subseteq Positions, \A c \in A : c[2] < e
  PROVE  AlignmentCost(A, s, e) = Price(padded, A, PatternSize + e - s)
<1> DEFINE x == SumOf(padded, A)
           k == Cardinality(A)
<1>0. Matrix(padded) /\ e \in Int /\ e <= textsize /\ textsize \in Nat
  BY PaddedMatrix, ColumnsArePlaces DEF Column
<1>1. x \in Int /\ k \in Nat /\ IsFiniteSet(A) /\ PatternSize \in Int /\ Unit \in Nat
  BY <1>0, SumPlain, PositionsFinite, SizeAssumption, CostAssumption
<1>2. PairsCost(A) = x
  <2>1. ASSUME NEW u \in A PROVE At(padded, u) \in Int /\ At(cost, u) = At(padded, u)
    <3>1. u[1] \in 0 .. PatternSize - 1 /\ u[2] \in 0 .. MaxTextSize - 1 /\ u[2] < e
      BY DEF Positions
    <3>2. u[2] \in 0 .. textsize - 1
      BY <1>0, <3>1
    <3>3. padded[u[1]][u[2]] = cost[u[1]][u[2]] /\ cost[u[1]][u[2]] \in Nat
      BY <3>1, <3>2, PaddedAt, CostsAreNumbers
    <3> QED
      BY <3>3 DEF At
  <2>2. SumOf(cost, A) = SumOf(padded, A)
    BY <1>1, <2>1, SumSame
  <2> QED
    BY <2>2 DEF PairsCost, SumOf
<1>3. Price(padded, A, PatternSize + e - s) = PriceAt(x, k, PatternSize + e - s)
  BY DEF Price
<1> HIDE DEF x
<1>4. AlignmentCost(A, s, e) = x + Unit * ((PatternSize - k) + (e - s - k))
  BY <1>1, <1>2 DEF AlignmentCost
<1> HIDE DEF k
<1>5. (PatternSize - k) + (e - s - k) = PatternSize + e - s - 2 * k
  BY <1>0, <1>1
<1>6. PriceAt(x, k, PatternSize + e - s) = x + Unit * (PatternSize + e - s - 2 * k)
  BY <1>0, <1>1 DEF PriceAt
<1> QED
  BY <1>3, <1>4, <1>5, <1>6

LEMMA AlignmentsWithin ==
  ASSUME Arguments, NEW e \in Column, NEW s \in 0 .. e, NEW A
  PROVE  A \in {B \in Alignments : \A c \in B : s <= c[2] /\ c[2] < e}
           <=> A \in SUBSET Positions /\ Within(A, 0, PatternSize, s, e)
<1> DEFINE Held == (0 .. PatternSize - 1) \X (0 .. textsize - 1)
<1>0. /\ textsize \in Nat /\ MaxTextSize \in Nat /\ textsize <= MaxTextSize
      /\ e \in Int /\ s \in Int /\ 0 <= s /\ e <= textsize
  BY SizeAssumption DEF Arguments, Column
<1>1. A \in Alignments <=> A \subseteq Held /\ Ordered(A)
  BY DEF Alignments, Ordered, Before
<1>2. Held \subseteq Positions
  BY <1>0 DEF Positions
<1>3. ASSUME A \subseteq Positions, NEW c \in A
      PROVE  /\ c[1] \in 0 .. PatternSize - 1
             /\ (s <= c[2] /\ c[2] < e) <=> c[2] \in s .. e - 1
             /\ c[2] \in s .. e - 1 => c \in Held
  <2>1. c[1] \in 0 .. PatternSize - 1 /\ c[2] \in 0 .. MaxTextSize - 1 /\ c = <<c[1], c[2]>>
    BY <1>3 DEF Positions
  <2>2. c[2] \in Int
    BY <2>1
  <2>3. (s <= c[2] /\ c[2] < e) <=> c[2] \in s .. e - 1
    BY <1>0, <2>2
  <2>4. c[2] \in s .. e - 1 => c[2] \in 0 .. textsize - 1
    BY <1>0
  <2> QED
    BY <2>1, <2>3, <2>4
<1> HIDE DEF Held
<1> QED
  BY <1>1, <1>2, <1>3 DEF Within

LEMMA WindowIs ==
  ASSUME Arguments, NEW e \in Column, NEW s \in 0 .. e
  PROVE  /\ WindowDistance(s, e) \in Int
         /\ \E A \in SUBSET Positions : Within(A, 0, PatternSize, s, e)
                                         /\ WindowDistance(s, e) = Price(padded, A, PatternSize + e - s)
         /\ \A A \in SUBSET Positions : Within(A, 0, PatternSize, s, e)
                                         => WindowDistance(s, e) <= Price(padded, A, PatternSize + e - s)
<1> DEFINE W == {B \in Alignments : \A c \in B : s <= c[2] /\ c[2] < e}
           S == {AlignmentCost(A, s, e) : A \in W}
           low == Unit * (0 - 2 * Cardinality(Positions))
<1>0. s \in Int /\ e \in Int /\ PatternSize + e - s \in Nat /\ Matrix(padded)
  BY SizeAssumption, PaddedMatrix DEF Column
<1>1. \A A : A \in W <=> A \in SUBSET Positions /\ Within(A, 0, PatternSize, s, e)
  BY AlignmentsWithin
<1>2. WindowDistance(s, e) = Min(S)
  BY DEF WindowDistance
<1> HIDE DEF W
<1>3. ASSUME NEW A \in W
      PROVE  /\ AlignmentCost(A, s, e) = Price(padded, A, PatternSize + e - s)
             /\ AlignmentCost(A, s, e) \in Int /\ low <= AlignmentCost(A, s, e)
  <2>1. A \subseteq Positions /\ \A c \in A : c[2] < e
    <3>1. A \subseteq Positions /\ \A c \in A : c[2] \in s .. e - 1
      BY <1>1 DEF Within
    <3> QED
      BY <1>0, <3>1
  <2>2. AlignmentCost(A, s, e) = Price(padded, A, PatternSize + e - s)
    BY <1>0, <2>1, CostIsPrice
  <2>3. PatternSize + e - s \in Int
    BY <1>0
  <2>4. Price(padded, A, PatternSize + e - s) \in Int /\ Price(padded, A, PatternSize + e - s) >= low
    BY <1>0, <2>1, <2>3, PricePlain, PricesBounded
  <2>5. low \in Int
    BY <2>1, PositionsFinite, CostAssumption
  <2> HIDE DEF low
  <2> QED
    BY <2>2, <2>4, <2>5
<1>4. {} \in W
  <2>1. {} \in SUBSET Positions /\ Within({}, 0, PatternSize, s, e)
    BY NothingWithin
  <2> QED
    BY <1>1, <2>1
<1>5. low \in Int
  <2>1. {} \subseteq Positions
    OBVIOUS
  <2> QED
    BY <2>1, PositionsFinite, CostAssumption
<1> HIDE DEF low
<1>6. S # {} /\ S \subseteq Int /\ \A u \in S : low <= u
  BY <1>3, <1>4
<1>7. PICK v \in S : \A w \in S : v <= w
  <2> HIDE DEF S
  <2> QED
    BY <1>5, <1>6, LeastInt
<1>8. Min(S) = v
  <2> HIDE DEF S
  <2> QED
    BY <1>6, <1>7, MinIs
<1>9. PICK A \in W : v = AlignmentCost(A, s, e)
  BY <1>7
<1>10. A \in SUBSET Positions /\ Within(A, 0, PatternSize, s, e) /\ v = Price(padded, A, PatternSize + e - s)
  BY <1>1, <1>3, <1>9
<1>11. ASSUME NEW B \in SUBSET Positions, Within(B, 0, PatternSize, s, e)
       PROVE  v <= Price(padded, B, PatternSize + e - s)
  <2>1. B \in W
    BY <1>1, <1>11
  <2> QED
    BY <1>3, <1>7, <2>1
<1>12. v \in Int
  BY <1>6, <1>7
<1> QED
  BY <1>2, <1>8, <1>10, <1>11, <1>12

LEMMA EndIs ==
  ASSUME Arguments, NEW e \in Column, NEW v, Reach(padded, PatternSize, e, v)
  PROVE  EndDistance(e) = v
<1> DEFINE S == {WindowDistance(s, e) : s \in 0 .. e}
<1>1. ASSUME NEW s \in 0 .. e PROVE WindowDistance(s, e) \in Int /\ v <= WindowDistance(s, e)
  BY WindowIs DEF Reach
<1>2. PICK s \in 0 .. e, A \in SUBSET Positions :
         Within(A, 0, PatternSize, s, e) /\ v = Price(padded, A, PatternSize + e - s)
  BY DEF Reach
<1>3. WindowDistance(s, e) <= v
  BY <1>2, WindowIs
<1>4. v = WindowDistance(s, e) /\ v \in Int
  <2>1. WindowDistance(s, e) \in Int /\ v <= WindowDistance(s, e) /\ v \in Int
    BY <1>1 DEF Reach
  <2> QED
    BY <1>3, <2>1
<1>5. S \subseteq Int /\ v \in S /\ \A w \in S : v <= w
  BY <1>1, <1>4
<1>6. Min(S) = v
  <2> HIDE DEF S
  <2> QED
    BY <1>5, MinIs
<1> QED
  BY <1>6 DEF EndDistance

LEMMA StartIs ==
  ASSUME Arguments, NEW E \in Column, NEW s \in 0 .. E, NEW v, Back(padded, 0, s, E, v)
  PROVE  StartDistance(s, E) = v
<1> DEFINE S == {WindowDistance(s, e) : e \in s .. E}
<1>0. /\ s \in Int /\ E \in Int /\ PatternSize \in Int /\ textsize \in Int
      /\ 0 <= s /\ s <= E /\ E <= textsize
  BY SizeAssumption DEF Arguments, Column
<1>1. ASSUME NEW e \in s .. E PROVE e \in Column /\ s \in 0 .. e /\ PatternSize - 0 + e - s = PatternSize + e - s
  BY <1>0 DEF Column
<1>2. ASSUME NEW e \in s .. E PROVE WindowDistance(s, e) \in Int /\ v <= WindowDistance(s, e)
  <2>1. PICK A \in SUBSET Positions : Within(A, 0, PatternSize, s, e) /\ WindowDistance(s, e) = Price(padded, A, PatternSize + e - s)
    BY <1>1, WindowIs
  <2>2. WindowDistance(s, e) \in Int
    BY <1>1, WindowIs
  <2>3. v <= Price(padded, A, PatternSize - 0 + e - s)
    BY <2>1 DEF Back
  <2> QED
    BY <1>1, <2>1, <2>2, <2>3
<1>3. PICK e \in s .. E, A \in SUBSET Positions :
         Within(A, 0, PatternSize, s, e) /\ v = Price(padded, A, PatternSize - 0 + e - s)
  BY DEF Back
<1>4. WindowDistance(s, e) <= v
  BY <1>1, <1>3, WindowIs
<1>5. v = WindowDistance(s, e) /\ v \in Int
  <2>1. WindowDistance(s, e) \in Int /\ v <= WindowDistance(s, e) /\ v \in Int
    BY <1>2 DEF Back
  <2> QED
    BY <1>4, <2>1
<1>6. S \subseteq Int /\ v \in S /\ \A w \in S : v <= w
  BY <1>2, <1>5
<1>7. Min(S) = v
  <2> HIDE DEF S
  <2> QED
    BY <1>6, MinIs
<1> QED
  BY <1>7 DEF StartDistance

-----------------------------------------------------------------------------
(* The forward pass.  Every cell filled holds the least cost of its prefix *)
(* and of the windows that end at its column.                              *)

ForwardCells ==
  /\ pc = "forward" => \A a \in Row, b \in Column : Filled(a, b) => Reach(padded, a, b, d[a][b])
  /\ pc = "collect" => \A a \in Row, b \in Column : Reach(padded, a, b, d[a][b])

LEMMA NextCost ==
  [Next]_vars => /\ padded' = padded /\ n' = n
                 /\ textsize' = textsize /\ Column' = Column /\ Row' = Row
<1> SUFFICES ASSUME [Next]_vars
             PROVE  /\ padded' = padded /\ n' = n
                    /\ textsize' = textsize /\ Column' = Column /\ Row' = Row
  OBVIOUS
<1>1. cost' = cost /\ n' = n /\ textsize' = textsize
  BY DEF Next, vars, args, ForwardCell, Collect, StartBackward, BackwardCell,
         StartHere, StartNotHere, NoStart, EndMatches, StartPrune, KeepLast,
         ReplaceLast, TakeNext, EndPrune
<1> QED
  BY <1>1 DEF padded, Column, Row

LEMMA InitForwardCells == Init /\ Arguments => ForwardCells
<1> SUFFICES ASSUME Init, Arguments, NEW a \in Row, NEW b \in Column,
                    Filled(a, b) \/ pc = "collect"
             PROVE  Reach(padded, a, b, d[a][b])
  BY DEF ForwardCells
<1>1. a = 0 \/ b = 0
  <2>1. pc = "collect" => PatternSize = 0
    BY DEF Init
  <2>2. a \in Nat /\ b \in Nat /\ a <= PatternSize /\ p = 1 /\ t = 1
    BY SizeAssumption DEF Arguments, Init, Row, Column
  <2> QED
    BY <2>1, <2>2 DEF Filled
<1>2. d[a][b] = (IF a = 0 THEN 0 ELSE IF b = 0 THEN a * Unit ELSE Garbage)
  BY DEF Init, FirstCells
<1>3. CASE a = 0
  <2>1. b \in Places
    BY ColumnsArePlaces
  <2> QED
    BY <1>2, <1>3, <2>1, ReachTop
<1>4. CASE a # 0
  <2>1. b = 0 /\ d[a][b] = a * Unit
    BY <1>1, <1>2, <1>4
  <2> QED
    BY <2>1, ReachLeft
<1> QED
  BY <1>3, <1>4

LEMMA ForwardCellsStep == Typed /\ Arguments /\ ForwardCells /\ ForwardCell => ForwardCells'
<1> SUFFICES ASSUME Typed, Arguments, ForwardCells, ForwardCell PROVE ForwardCells'
  OBVIOUS
<1> /\ textsize \in Nat /\ MaxTextSize \in Nat /\ Column \subseteq Places
    /\ Row' = Row /\ Column' = Column
  BY ColumnsArePlaces, NextCost DEF Next
<1> SUFFICES ASSUME NEW a \in Row, NEW b \in Column, Filled(a, b)' \/ pc' = "collect"
             PROVE  Reach(padded', a, b, d'[a][b])
  BY DEF ForwardCells, Row
<1> USE SizeAssumption
<1>1. p \in 1 .. PatternSize /\ t \in 1 .. textsize
  BY DEF Typed, Ranges, ForwardCell
<1>2. d \in [Row -> [Column -> Int]]
  BY DEF Typed, Types
<1>3. p \in Row /\ t \in Column /\ p - 1 \in Row /\ t - 1 \in Column
  BY <1>1 DEF Row, Column
<1>4. a \in Nat /\ b \in Nat /\ a <= PatternSize /\ b <= textsize
  BY DEF Row, Column
<1>5. /\ padded' = padded /\ Matrix(padded)
      /\ padded[p - 1][t - 1] = cost[p - 1][t - 1]
      /\ p \in 1 .. PatternSize /\ t \in 1 .. MaxTextSize
  <2>1. p - 1 \in 0 .. PatternSize - 1 /\ t - 1 \in 0 .. textsize - 1
    BY <1>1
  <2>2. padded[p - 1][t - 1] = cost[p - 1][t - 1]
    BY <2>1, PaddedAt
  <2>3. t \in 1 .. MaxTextSize
    BY <1>1 DEF Arguments
  <2> QED
    BY <1>1, <2>2, <2>3, PaddedMatrix, NextCost DEF Next
<1> DEFINE v == Least(d[p - 1][t - 1] + cost[p - 1][t - 1],
                      d[p][t - 1] + Unit, d[p - 1][t] + Unit)
<1>6. d' = [d EXCEPT ![p][t] = v]
  BY DEF ForwardCell
<1>7. CASE a = p /\ b = t
  <2>1. /\ Reach(padded, p - 1, t - 1, d[p - 1][t - 1])
        /\ Reach(padded, p, t - 1, d[p][t - 1])
        /\ Reach(padded, p - 1, t, d[p - 1][t])
    BY <1>1, <1>3 DEF ForwardCells, Filled, ForwardCell
  <2>2. Reach(padded, p, t, v)
    <3>1. Reach(padded, p, t, Least(d[p - 1][t - 1] + padded[p - 1][t - 1],
                                    d[p][t - 1] + Unit, d[p - 1][t] + Unit))
      BY <1>5, <2>1, ReachStep
    <3> QED
      BY <1>5, <3>1
  <2>3. d'[a][b] = v
    BY <1>2, <1>3, <1>6, <1>7
  <2> HIDE DEF v
  <2> QED
    BY <1>5, <1>7, <2>2, <2>3
<1>8. CASE ~(a = p /\ b = t)
  <2>1. d'[a][b] = d[a][b]
    BY <1>2, <1>3, <1>6, <1>8
  <2>2. Filled(a, b)
    <3>1. t' = (IF t < textsize THEN t + 1 ELSE 1) /\ p' = (IF t < textsize THEN p ELSE p + 1)
      BY DEF ForwardCell
    <3>2. pc' = "collect" => t = textsize /\ p = PatternSize
      BY DEF ForwardCell
    <3> QED
      BY <1>1, <1>4, <1>8, <3>1, <3>2 DEF Filled
  <2> QED
    BY <1>5, <2>1, <2>2 DEF ForwardCells, ForwardCell
<1> QED
  BY <1>7, <1>8

LEMMA NextForwardCells == Typed /\ Arguments /\ ForwardCells /\ [Next]_vars => ForwardCells'
<1> SUFFICES ASSUME Typed, Arguments, ForwardCells, [Next]_vars PROVE ForwardCells'
  OBVIOUS
<1>1. CASE ForwardCell
  BY <1>1, ForwardCellsStep
<1> padded' = padded /\ textsize' = textsize /\ Column' = Column /\ Row' = Row
  BY NextCost
<1>2. CASE UNCHANGED vars
  BY <1>2 DEF vars, ForwardCells, Filled
<1>3. CASE Collect
  BY <1>3 DEF Collect, ForwardCells
<1> QED
  BY <1>1, <1>2, <1>3
  DEF Next, ForwardCells, StartBackward, BackwardCell, StartHere, StartNotHere,
      NoStart, EndMatches, StartPrune, KeepLast, ReplaceLast, TakeNext, EndPrune,
      Pruning

-----------------------------------------------------------------------------
(* The list of matches: each has the distance of its end, which is within  *)
(* the threshold; every end passed with such a distance has one; and while *)
(* the list is pruned, one as good as each of these is kept.               *)

Good(q, lim, m) == Reach(q, PatternSize, m.end + 1, m.edit_distance) /\ m.edit_distance <= lim

Covered(q, lim, s, e1) ==
  \A e \in 1 .. e1, v \in Int :
    Reach(q, PatternSize, e, v) /\ v <= lim => \E k \in DOMAIN s : s[k].end = e - 1

Better(q, lim, s, size) ==
  \A e \in 1 .. size, v \in Int :
    Reach(q, PatternSize, e, v) /\ v <= lim => \E k \in DOMAIN s : s[k].edit_distance <= v

Listed ==
  /\ pc = "forward" => match = <<>>
  /\ \A k \in DOMAIN match : Good(padded, n, match[k])
  /\ pc = "collect" => Covered(padded, n, match, t - 1)
  /\ pc \in {"next", "backward", "start"} => Covered(padded, n, match, textsize)
  /\ pc \in {"prune", "done"} => Better(padded, n, match, textsize)

(* A list with all the ends has one as good as any. *)
LEMMA CoveredBetter ==
  ASSUME NEW q, NEW lim, NEW size, NEW s, Covered(q, lim, s, size), \A k \in DOMAIN s : Good(q, lim, s[k])
  PROVE  Better(q, lim, s, size)
<1> SUFFICES ASSUME NEW e \in 1 .. size, NEW v \in Int, Reach(q, PatternSize, e, v), v <= lim
             PROVE  \E k \in DOMAIN s : s[k].edit_distance <= v
  BY DEF Better
<1>1. PICK k \in DOMAIN s : s[k].end = e - 1
  BY DEF Covered
<1>2. Reach(q, PatternSize, s[k].end + 1, s[k].edit_distance)
  BY DEF Good
<1>3. s[k].end + 1 = e
  BY <1>1
<1>4. s[k].edit_distance = v
  BY <1>2, <1>3, ReachOnce
<1> QED
  BY <1>4

(* What erasing leaves was there before. *)
LEMMA PruneSelects ==
  ASSUME Typed, KeepLast \/ ReplaceLast, NEW k \in DOMAIN match'
  PROVE  \E j \in DOMAIN match : match'[k] = match[j]
<1>1. match \in Seq(MatchType) /\ Len(match) \in Nat /\ DOMAIN match = 1 .. Len(match)
  BY DEF Typed, Types
<1>2. i \in 1 .. Len(match) /\ i - 1 \in 1 .. Len(match)
  BY <1>1 DEF KeepLast, ReplaceLast, Pruning, Typed, Ranges
<1>3. PICK place \in 1 .. Len(match) : match' = RemoveAt(match, place)
  BY <1>2 DEF KeepLast, ReplaceLast
<1>4. /\ match' \in Seq(MatchType)
      /\ Len(match') = Len(match) - 1
      /\ \A j \in 1 .. Len(match) - 1 : match'[j] = IF j < place THEN match[j] ELSE match[j + 1]
  BY <1>1, <1>3, RemoveAtElements
<1>5. k \in 1 .. Len(match) - 1
  BY <1>4
<1>6. CASE k < place
  <2>1. match'[k] = match[k] /\ k \in DOMAIN match
    BY <1>1, <1>4, <1>5, <1>6
  <2> QED
    BY <2>1
<1>7. CASE ~(k < place)
  <2>1. match'[k] = match[k + 1] /\ k + 1 \in DOMAIN match
    BY <1>1, <1>4, <1>5, <1>7
  <2> QED
    BY <2>1
<1> QED
  BY <1>6, <1>7

LEMMA CollectListed == Typed /\ Arguments /\ ForwardCells /\ Listed /\ Collect => Listed'
<1> SUFFICES ASSUME Typed, Arguments, ForwardCells, Listed, Collect PROVE Listed'
  OBVIOUS
<1>1. match \in Seq(MatchType) /\ t \in 1 .. textsize /\ textsize \in Nat
  BY ColumnsArePlaces DEF Typed, Types, Ranges, Collect
<1>2. padded' = padded /\ n' = n /\ textsize' = textsize
  BY NextCost DEF Next
<1>3. PatternSize \in Row /\ t \in Column
  BY <1>1, SizeAssumption DEF Row, Column
<1> DEFINE v == d[PatternSize][t]
           m == Match(t - 1, t - 1, v)
<1>4. Reach(padded, PatternSize, t, v) /\ v \in Int
  <2>1. Reach(padded, PatternSize, t, v)
    BY <1>3 DEF ForwardCells, Collect
  <2> QED
    BY <2>1 DEF Reach
<1>5. match' = IF v <= n THEN Append(match, m) ELSE match
  BY DEF Collect
<1>6. m.end = t - 1 /\ m.edit_distance = v /\ m.end + 1 = t
  BY <1>1 DEF Match
<1> HIDE DEF v, m
<1>7. /\ DOMAIN match \subseteq DOMAIN match'
      /\ \A k \in DOMAIN match : match'[k] = match[k]
      /\ \A k \in DOMAIN match' : k \in DOMAIN match \/ (match'[k] = m /\ v <= n)
      /\ v <= n => \E k \in DOMAIN match' : match'[k] = m
  <2>1. CASE v <= n
    <3>1. match' = Append(match, m)
      BY <1>5, <2>1
    <3>2. Len(match) \in Nat /\ DOMAIN match = 1 .. Len(match) /\ DOMAIN match' = 1 .. Len(match) + 1
      BY <1>1, <3>1
    <3>3. match'[Len(match) + 1] = m /\ \A k \in 1 .. Len(match) : match'[k] = match[k]
      BY <1>1, <3>1
    <3> QED
      BY <2>1, <3>2, <3>3
  <2>2. CASE ~(v <= n)
    BY <1>5, <2>2
  <2> QED
    BY <2>1, <2>2
<1>8. \A k \in DOMAIN match' : Good(padded, n, match'[k])
  <2> SUFFICES ASSUME NEW k \in DOMAIN match' PROVE Good(padded, n, match'[k])
    OBVIOUS
  <2>1. CASE k \in DOMAIN match
    BY <1>7, <2>1 DEF Listed
  <2>2. CASE match'[k] = m /\ v <= n
    BY <1>4, <1>6, <2>2 DEF Good
  <2> QED
    BY <1>7, <2>1, <2>2
<1>9. Covered(padded, n, match', t)
  <2> SUFFICES ASSUME NEW e \in 1 .. t, NEW w \in Int, Reach(padded, PatternSize, e, w), w <= n
               PROVE  \E k \in DOMAIN match' : match'[k].end = e - 1
    BY DEF Covered
  <2>1. CASE e = t
    <3>1. w = v
      BY <1>4, <2>1, ReachOnce
    <3> QED
      BY <1>6, <1>7, <2>1, <3>1
  <2>2. CASE e # t
    <3>1. e \in 1 .. t - 1
      BY <1>1, <2>2
    <3>2. Covered(padded, n, match, t - 1)
      BY DEF Listed, Collect
    <3>3. PICK k \in DOMAIN match : match[k].end = e - 1
      BY <3>1, <3>2 DEF Covered
    <3> QED
      BY <1>7, <3>3
  <2> QED
    BY <2>1, <2>2
<1>10. t' = t + 1 /\ t' - 1 = t /\ pc' \in {"collect", "next"} /\ (pc' = "next" => t = textsize)
  BY <1>1 DEF Collect
<1> QED
  BY <1>2, <1>8, <1>9, <1>10 DEF Listed

LEMMA StartHereListed == Typed /\ Arguments /\ Listed /\ StartHere => Listed'
<1> SUFFICES ASSUME Typed, Arguments, Listed, StartHere PROVE Listed'
  OBVIOUS
<1>1. match \in Seq(MatchType)
  BY DEF Typed, Types
<1>2. padded' = padded /\ n' = n /\ textsize' = textsize /\ pc = "start" /\ pc' = "next"
  BY NextCost DEF StartHere, Next
<1>3. DOMAIN match' = DOMAIN match
  BY <1>1 DEF StartHere
<1>4. ASSUME NEW k \in DOMAIN match
      PROVE  match'[k].end = match[k].end /\ match'[k].edit_distance = match[k].edit_distance
  <2>1. match[k] \in MatchType /\ match' = [match EXCEPT ![i].start = t]
    BY <1>1 DEF StartHere
  <2>2. match'[k] = IF k = i THEN [match[k] EXCEPT !.start = t] ELSE match[k]
    BY <1>1, <2>1
  <2> QED
    BY <2>1, <2>2 DEF MatchType
<1>5. \A k \in DOMAIN match' : Good(padded, n, match'[k])
  BY <1>3, <1>4 DEF Listed, Good
<1>6. Covered(padded, n, match', textsize)
  BY <1>2, <1>3, <1>4 DEF Listed, Covered
<1> QED
  BY <1>2, <1>5, <1>6 DEF Listed

LEMMA PruneListed == Typed /\ LastIsPredecessor /\ Listed /\ (KeepLast \/ ReplaceLast) => Listed'
<1> SUFFICES ASSUME Typed, LastIsPredecessor, Listed, KeepLast \/ ReplaceLast PROVE Listed'
  OBVIOUS
<1>1. padded' = padded /\ n' = n /\ textsize' = textsize /\ pc = "prune" /\ pc' = "prune"
  BY NextCost DEF KeepLast, ReplaceLast, Pruning, Next
<1>2. match \in Seq(MatchType)
  BY DEF Typed, Types
<1>3. ASSUME NEW k \in DOMAIN match' PROVE Good(padded, n, match'[k])
  BY PruneSelects DEF Listed
<1>4. Better(padded, n, match', textsize)
  <2> SUFFICES ASSUME NEW e \in 1 .. textsize, NEW v \in Int, Reach(padded, PatternSize, e, v), v <= n
               PROVE  \E k \in DOMAIN match' : match'[k].edit_distance <= v
    BY DEF Better
  <2>1. PICK k \in DOMAIN match : match[k].edit_distance <= v
    BY <1>1 DEF Listed, Better
  <2>2. CASE match[k] \in Matches'
    BY <2>1, <2>2 DEF Matches
  <2>3. CASE match[k] \notin Matches'
    <3>1. match[k] \in Matches /\ [Next]_vars
      BY DEF Matches, Next
    <3>2. PICK b \in Matches' : b.edit_distance <= match[k].edit_distance
      BY <1>1, <2>3, <3>1, ErasedStep
    <3>3. PICK j \in DOMAIN match' : b = match'[j]
      BY DEF Matches
    <3>4. b.edit_distance \in Int
      BY <1>3, <3>3 DEF Good, Reach
    <3>5. match[k].edit_distance \in Int
      BY <1>2, MatchTyped
    <3> QED
      BY <2>1, <3>2, <3>3, <3>4, <3>5
  <2> QED
    BY <2>2, <2>3
<1> QED
  BY <1>1, <1>3, <1>4 DEF Listed

LEMMA NextListed ==
  Typed /\ Arguments /\ LastIsPredecessor /\ ForwardCells /\ Listed /\ [Next]_vars => Listed'
<1> SUFFICES ASSUME Typed, Arguments, LastIsPredecessor, ForwardCells, Listed, [Next]_vars PROVE Listed'
  OBVIOUS
<1>0. padded' = padded /\ n' = n /\ textsize' = textsize
  BY NextCost
<1>1. CASE ForwardCell
  <2>1. match = <<>> /\ match' = match /\ DOMAIN match = {}
    BY <1>1 DEF ForwardCell, Listed
  <2>2. pc' = "forward" \/ (pc' = "collect" /\ t' = 1)
    BY <1>1 DEF ForwardCell, Typed, Ranges
  <2>3. Covered(padded, n, match, 1 - 1)
    BY DEF Covered
  <2> QED
    BY <1>0, <2>1, <2>2, <2>3 DEF Listed
<1>2. CASE Collect
  BY <1>2, CollectListed
<1>3. CASE StartHere
  BY <1>3, StartHereListed
<1>4. CASE KeepLast \/ ReplaceLast
  BY <1>4, PruneListed
<1>5. CASE StartBackward \/ BackwardCell \/ StartNotHere \/ NoStart
  BY <1>0, <1>5 DEF Listed, StartBackward, BackwardCell, StartNotHere, NoStart
<1>6. CASE EndMatches \/ StartPrune
  <2>1. match' = match /\ pc = "next" /\ pc' \in {"prune", "done", "crash"}
    BY <1>6 DEF EndMatches, StartPrune
  <2>2. Better(padded, n, match, textsize)
    BY <2>1, CoveredBetter DEF Listed
  <2> QED
    BY <1>0, <2>1, <2>2 DEF Listed
<1>7. CASE TakeNext \/ EndPrune
  BY <1>0, <1>7 DEF Listed, TakeNext, EndPrune, Pruning
<1>8. CASE UNCHANGED vars
  BY <1>0, <1>8 DEF Listed, vars
<1> QED
  BY <1>1, <1>2, <1>3, <1>4, <1>5, <1>6, <1>7, <1>8 DEF Next

LEMMA InitListed == Init => Listed
<1> SUFFICES ASSUME Init PROVE Listed
  OBVIOUS
<1>1. match = <<>> /\ DOMAIN match = {} /\ pc \in {"forward", "collect", "next"} /\ t = 1
  BY DEF Init
<1>2. pc = "next" => textsize = 0
  BY DEF Init
<1>3. Covered(padded, n, match, 0)
  BY DEF Covered
<1> QED
  BY <1>1, <1>2, <1>3 DEF Listed

-----------------------------------------------------------------------------
(* The backward passes.  Every cell computed holds the least cost of its   *)
(* suffix and of the windows that start at its column and end no later     *)
(* than the match.                                                         *)

Passed(a, b, E, a0, b0) == a = PatternSize \/ b = E \/ a > a0 \/ (a = a0 /\ b > b0)

BackwardCells ==
  /\ pc = "backward" =>
       \A a \in Row : \A b \in 0 .. match[i].end + 1 :
         Passed(a, b, match[i].end + 1, p, t) => Back(padded, a, b, match[i].end + 1, d[a][b])
  /\ pc = "start" =>
       /\ \A b \in 0 .. match[i].end + 1 : Back(padded, 0, b, match[i].end + 1, d[0][b])
       /\ \A b \in t + 1 .. match[i].end + 1 : d[0][b] # match[i].edit_distance

LEMMA StartBackwardCells == Typed /\ Arguments /\ StartBackward => BackwardCells'
<1> SUFFICES ASSUME Typed, Arguments, StartBackward PROVE BackwardCells'
  OBVIOUS
<1> USE SizeAssumption, CostAssumption
<1> DEFINE E == match[i].end + 1
<1>1. match \in Seq(MatchType) /\ i \in DOMAIN match
  BY DEF Typed, Types, StartBackward
<1>2. match[i].end \in 0 .. textsize - 1
  BY <1>1, MatchTyped
<1>3. /\ E \in Column /\ E \in Places /\ E \in Int /\ PatternSize \in Int
      /\ match' = match /\ i' = i /\ E' = E
      /\ p' = PatternSize - 1 /\ padded' = padded /\ Row' = Row
      /\ PatternSize = 0 => pc' = "start" /\ t' = E
      /\ PatternSize # 0 => pc' = "backward" /\ t' = E - 1
  <2>1. E \in Column
    BY <1>2, ColumnsArePlaces DEF Column
  <2>2. E \in Places /\ padded' = padded /\ Row' = Row
    BY <2>1, ColumnsArePlaces, NextCost DEF Next
  <2> QED
    BY <1>2, <2>1, <2>2 DEF StartBackward
<1>4. d' = [a \in Row |-> [b \in Column |->
              IF a = PatternSize /\ b <= E THEN 0
              ELSE IF b = E THEN (PatternSize - a) * Unit
              ELSE d[a][b]]]
  BY DEF StartBackward, LastCells
<1> HIDE DEF E
<1>5. ASSUME NEW a \in Row, NEW b \in 0 .. E, Passed(a, b, E, PatternSize - 1, E - 1)
      PROVE  Back(padded, a, b, E, d'[a][b])
  <2>1. b \in Column /\ b <= E /\ b \in Int /\ a \in Int /\ a <= PatternSize
    BY <1>3, ColumnsArePlaces DEF Column, Row
  <2>2. a = PatternSize \/ b = E
    BY <1>3, <1>5, <2>1 DEF Passed
  <2>3. CASE a = PatternSize
    <3>1. d'[a][b] = 0
      BY <1>4, <2>1, <2>3
    <3> QED
      BY <1>3, <2>3, <3>1, BackBottom
  <2>4. CASE a # PatternSize
    <3>1. b = E /\ d'[a][b] = (PatternSize - a) * Unit
      BY <1>4, <2>1, <2>2, <2>4
    <3> QED
      BY <1>3, <3>1, BackRight
  <2> QED
    BY <2>3, <2>4
<1>6. match'[i'].end + 1 = E
  BY <1>3 DEF E
<1>7. CASE PatternSize = 0
  <2>1. \A b \in 0 .. E : Back(padded, 0, b, E, d'[0][b])
    <3> SUFFICES ASSUME NEW b \in 0 .. E PROVE Back(padded, 0, b, E, d'[0][b])
      OBVIOUS
    <3>1. 0 \in Row /\ Passed(0, b, E, PatternSize - 1, E - 1)
      BY <1>7 DEF Row, Passed
    <3> QED
      BY <1>5, <3>1
  <2>2. \A b \in t' + 1 .. E : FALSE
    BY <1>3, <1>7
  <2> QED
    BY <1>3, <1>6, <1>7, <2>1, <2>2 DEF BackwardCells
<1>8. CASE PatternSize # 0
  BY <1>3, <1>5, <1>6, <1>8 DEF BackwardCells
<1> QED
  BY <1>7, <1>8

LEMMA BackwardCellsStep == Typed /\ Arguments /\ BackwardCells /\ BackwardCell => BackwardCells'
<1> SUFFICES ASSUME Typed, Arguments, BackwardCells, BackwardCell PROVE BackwardCells'
  OBVIOUS
<1> USE SizeAssumption
<1> DEFINE E == match[i].end + 1
           v == Least(d[p + 1][t + 1] + cost[p][t], d[p][t + 1] + Unit, d[p + 1][t] + Unit)
<1>1. match \in Seq(MatchType) /\ i \in DOMAIN match /\ d \in [Row -> [Column -> Int]]
  BY DEF Typed, Types, Ranges, BackwardCell
<1>2. match[i].end \in 0 .. textsize - 1
  BY <1>1, MatchTyped
<1>3. /\ E \in Column /\ E \in Places /\ E \in Int /\ PatternSize \in Int /\ textsize \in Nat
      /\ pc = "backward" /\ padded' = padded /\ match' = match /\ i' = i /\ Row' = Row
      /\ p \in 0 .. PatternSize - 1 /\ t \in 0 .. E - 1 /\ Matrix(padded)
      /\ padded[p][t] = cost[p][t]
  <2>1. textsize \in Nat /\ E \in Column /\ E \in Int /\ E <= textsize
    BY <1>2, ColumnsArePlaces DEF Column
  <2>2. p \in 0 .. PatternSize - 1 /\ t \in 0 .. E - 1
    BY <1>2 DEF BackwardCell, Typed, Ranges
  <2>3. t \in 0 .. textsize - 1
    BY <2>1, <2>2
  <2>4. padded[p][t] = cost[p][t] /\ Matrix(padded) /\ E \in Places
    BY <2>1, <2>2, <2>3, PaddedAt, PaddedMatrix, ColumnsArePlaces
  <2>5. padded' = padded /\ Row' = Row
    BY NextCost DEF Next
  <2> QED
    BY <2>1, <2>2, <2>4, <2>5 DEF BackwardCell
<1>4. d' = [d EXCEPT ![p][t] = v]
  BY DEF BackwardCell
<1>5. /\ t' = (IF t > 0 THEN t - 1 ELSE IF p > 0 THEN E - 1 ELSE E)
      /\ p' = (IF t = 0 /\ p > 0 THEN p - 1 ELSE p)
      /\ pc' = (IF t = 0 /\ p = 0 THEN "start" ELSE pc)
  BY <1>2 DEF BackwardCell
<1>6. \A a \in Row : \A b \in 0 .. E : Passed(a, b, E, p, t) => Back(padded, a, b, E, d[a][b])
  BY <1>3 DEF BackwardCells
<1> HIDE DEF E
<1>7. p \in Row /\ t \in Column /\ p + 1 \in Row /\ t + 1 \in 0 .. E /\ t \in 0 .. E
  BY <1>3 DEF Row, Column
<1>8. Back(padded, p, t, E, v)
  <2>1. Passed(p + 1, t + 1, E, p, t) /\ Passed(p, t + 1, E, p, t) /\ Passed(p + 1, t, E, p, t)
    BY <1>3 DEF Passed
  <2>2. /\ Back(padded, p + 1, t + 1, E, d[p + 1][t + 1])
        /\ Back(padded, p, t + 1, E, d[p][t + 1])
        /\ Back(padded, p + 1, t, E, d[p + 1][t])
    BY <1>6, <1>7, <2>1
  <2>3. Back(padded, p, t, E, Least(d[p + 1][t + 1] + padded[p][t], d[p][t + 1] + Unit, d[p + 1][t] + Unit))
    BY <1>3, <2>2, BackStep
  <2> QED
    BY <1>3, <2>3
<1> HIDE DEF v
<1>9. ASSUME NEW a \in Row, NEW b \in 0 .. E, Passed(a, b, E, p, t) \/ (a = p /\ b = t)
      PROVE  Back(padded, a, b, E, d'[a][b])
  <2>1. b \in Column
    BY <1>3 DEF Column
  <2>2. CASE a = p /\ b = t
    <3>1. d'[a][b] = v
      BY <1>1, <1>4, <1>7, <2>2
    <3> QED
      BY <1>8, <2>2, <3>1
  <2>3. CASE ~(a = p /\ b = t)
    <3>1. d'[a][b] = d[a][b]
      BY <1>1, <1>4, <1>7, <2>1, <2>3
    <3> QED
      BY <1>6, <1>9, <2>3, <3>1
  <2> QED
    BY <2>2, <2>3
<1>10. match'[i'].end + 1 = E
  BY <1>3 DEF E
<1>11. CASE t = 0 /\ p = 0
  <2>1. pc' = "start" /\ t' = E
    BY <1>5, <1>11
  <2>2. 0 \in Row
    BY DEF Row
  <2>3. \A b \in 0 .. E : Back(padded, 0, b, E, d'[0][b])
    <3> SUFFICES ASSUME NEW b \in 0 .. E PROVE Back(padded, 0, b, E, d'[0][b])
      OBVIOUS
    <3>1. Passed(0, b, E, p, t) \/ (0 = p /\ b = t)
      BY <1>3, <1>11 DEF Passed
    <3> QED
      BY <1>9, <2>2, <3>1
  <2>4. \A b \in t' + 1 .. E : FALSE
    BY <1>3, <2>1
  <2> QED
    BY <1>3, <1>10, <2>1, <2>3, <2>4 DEF BackwardCells
<1>12. CASE ~(t = 0 /\ p = 0)
  <2>1. pc' = "backward"
    BY <1>3, <1>5, <1>12
  <2>2. ASSUME NEW a \in Row, NEW b \in 0 .. E, Passed(a, b, E, p', t')
        PROVE  Passed(a, b, E, p, t) \/ (a = p /\ b = t)
    <3>1. a \in Int /\ b \in Int /\ 0 <= b /\ b <= E /\ 0 <= a /\ a <= PatternSize
      BY <1>3 DEF Row
    <3>2. CASE t > 0
      <4>1. t' = t - 1 /\ p' = p
        BY <1>3, <1>5, <3>2
      <4> QED
        BY <1>3, <2>2, <3>1, <4>1 DEF Passed
    <3>3. CASE ~(t > 0)
      <4>1. t' = E - 1 /\ p' = p - 1 /\ t = 0
        BY <1>3, <1>5, <1>12, <3>3
      <4> QED
        BY <1>3, <2>2, <3>1, <4>1 DEF Passed
    <3> QED
      BY <3>2, <3>3
  <2>3. \A a \in Row : \A b \in 0 .. E : Passed(a, b, E, p', t') => Back(padded, a, b, E, d'[a][b])
    BY <1>9, <2>2
  <2> QED
    BY <1>3, <1>10, <2>1, <2>3 DEF BackwardCells
<1> QED
  BY <1>11, <1>12

LEMMA StartNotHereCells == Typed /\ Arguments /\ BackwardCells /\ StartNotHere => BackwardCells'
<1> SUFFICES ASSUME Typed, Arguments, BackwardCells, StartNotHere PROVE BackwardCells'
  OBVIOUS
<1> DEFINE E == match[i].end + 1
<1>1. match \in Seq(MatchType) /\ i \in DOMAIN match /\ t \in Int
  BY DEF Typed, Types, Ranges, StartNotHere
<1>2. E \in Int
  <2>1. match[i].end \in 0 .. textsize - 1
    BY <1>1, MatchTyped
  <2> QED
    BY <2>1
<1>3. pc = "start" /\ pc' = "start" /\ match' = match /\ i' = i /\ d' = d /\ padded' = padded /\ t' = t - 1
  BY NextCost DEF StartNotHere, Next
<1>4. d[0][t] # match[i].edit_distance
  BY DEF StartNotHere
<1>5. \A b \in t + 1 .. E : d[0][b] # match[i].edit_distance
  BY <1>3 DEF BackwardCells
<1> HIDE DEF E
<1>6. \A b \in t' + 1 .. E : d'[0][b] # match[i].edit_distance
  BY <1>1, <1>2, <1>3, <1>4, <1>5
<1> QED
  BY <1>3, <1>6 DEF BackwardCells, E

LEMMA NextBackwardCells == Typed /\ Arguments /\ BackwardCells /\ [Next]_vars => BackwardCells'
<1> SUFFICES ASSUME Typed, Arguments, BackwardCells, [Next]_vars PROVE BackwardCells'
  OBVIOUS
<1>1. CASE StartBackward
  BY <1>1, StartBackwardCells
<1>2. CASE BackwardCell
  BY <1>2, BackwardCellsStep
<1>3. CASE StartNotHere
  BY <1>3, StartNotHereCells
<1>4. CASE UNCHANGED vars
  <2>1. padded' = padded /\ Row' = Row
    BY NextCost
  <2> QED
    BY <1>4, <2>1 DEF vars, BackwardCells
<1> QED
  BY <1>1, <1>2, <1>3, <1>4
  DEF Next, BackwardCells, ForwardCell, Collect, StartHere, NoStart, EndMatches,
      StartPrune, KeepLast, ReplaceLast, TakeNext, EndPrune, Pruning

-----------------------------------------------------------------------------
(* The starts.  A match whose start has been sought starts at the last     *)
(* place of its own distance, or where it ends if there is none.           *)

Started(q, m) ==
  \/ /\ m.start \in 0 .. m.end + 1
     /\ Back(q, 0, m.start, m.end + 1, m.edit_distance)
     /\ \A s \in m.start + 1 .. m.end + 1 : ~Back(q, 0, s, m.end + 1, m.edit_distance)
  \/ /\ m.start = m.end
     /\ \A s \in 0 .. m.end + 1 : ~Back(q, 0, s, m.end + 1, m.edit_distance)

StartsFound ==
  /\ pc \in {"forward", "collect"} => i = 1
  /\ pc \notin {"prune", "done", "crash"} =>
       \A k \in DOMAIN match : IF k < i THEN Started(padded, match[k]) ELSE match[k].start = match[k].end
  /\ pc \in {"prune", "done"} => \A k \in DOMAIN match : Started(padded, match[k])

LEMMA CollectStarts == Typed /\ StartsFound /\ Collect => StartsFound'
<1> SUFFICES ASSUME Typed, StartsFound, Collect PROVE StartsFound'
  OBVIOUS
<1>1. match \in Seq(MatchType) /\ pc' \in {"collect", "next"} /\ i = 1 /\ i' = 1 /\ padded' = padded
  BY NextCost DEF Typed, Types, StartsFound, Collect, Next
<1>2. \A k \in DOMAIN match : match[k].start = match[k].end
  BY <1>1 DEF StartsFound, Collect
<1> DEFINE m == Match(t - 1, t - 1, d[PatternSize][t])
<1>3. m.start = m.end
  BY DEF Match
<1>4. match' = Append(match, m) \/ match' = match
  BY DEF Collect
<1> HIDE DEF m
<1>5. ASSUME NEW k \in DOMAIN match' PROVE match'[k].start = match'[k].end /\ ~(k < 1)
  <2>1. CASE match' = match
    BY <1>1, <1>2, <2>1
  <2>2. CASE match' = Append(match, m)
    <3>1. Len(match) \in Nat /\ k \in 1 .. Len(match) + 1
      BY <1>1, <2>2
    <3>2. CASE k = Len(match) + 1
      <4>1. match'[k] = m
        BY <1>1, <2>2, <3>2
      <4> QED
        BY <1>3, <3>1, <4>1
    <3>3. CASE k # Len(match) + 1
      <4>1. k \in DOMAIN match /\ match'[k] = match[k]
        BY <1>1, <2>2, <3>1, <3>3
      <4> QED
        BY <1>2, <3>1, <4>1
    <3> QED
      BY <3>2, <3>3
  <2> QED
    BY <1>4, <2>1, <2>2
<1> QED
  BY <1>1, <1>5 DEF StartsFound

(* The search for a start meets every place from the right. *)
LEMMA SearchStarts == Typed /\ Arguments /\ BackwardCells /\ StartsFound /\ (StartHere \/ NoStart) => StartsFound'
<1> SUFFICES ASSUME Typed, Arguments, BackwardCells, StartsFound, StartHere \/ NoStart PROVE StartsFound'
  OBVIOUS
<1> DEFINE m  == match[i]
           E  == m.end + 1
           ed == m.edit_distance
<1>1. /\ match \in Seq(MatchType) /\ i \in DOMAIN match /\ i \in Nat /\ DOMAIN match \subseteq Nat
      /\ t \in -1 .. E /\ m \in MatchType
  BY DEF Typed, Types, Ranges, StartHere, NoStart
<1>2. /\ pc = "start" /\ pc' = "next" /\ padded' = padded /\ i' = i + 1
  BY NextCost DEF StartHere, NoStart, Next
<1>3. /\ \A b \in 0 .. E : Back(padded, 0, b, E, d[0][b])
      /\ \A b \in t + 1 .. E : d[0][b] # ed
  BY <1>2 DEF BackwardCells
<1>4. E \in Int
  <2>1. m.end \in 0 .. textsize - 1
    BY <1>1, MatchTyped
  <2> QED
    BY <2>1
<1>5. \A k \in DOMAIN match : IF k < i THEN Started(padded, match[k]) ELSE match[k].start = match[k].end
  BY <1>2 DEF StartsFound
<1>6. CASE StartHere
  <2> DEFINE r == match'[i]
  <2>1. match' = [match EXCEPT ![i].start = t] /\ d[0][t] = ed /\ t >= 0
    BY <1>6 DEF StartHere
  <2>2. /\ DOMAIN match' = DOMAIN match
        /\ \A k \in DOMAIN match : k # i => match'[k] = match[k]
    BY <1>1, <2>1
  <2>3. r = [m EXCEPT !.start = t]
    BY <1>1, <2>1
  <2>4. r.start = t /\ r.end = m.end /\ r.edit_distance = ed
    <3> HIDE DEF m, r
    <3> QED
      BY <1>1, <2>3 DEF MatchType
  <2> HIDE DEF m, E, ed, r
  <2>5. Started(padded, r)
    <3>1. t \in 0 .. E
      BY <1>1, <1>4, <2>1
    <3>2. Back(padded, 0, t, E, ed)
      BY <1>3, <2>1, <3>1
    <3>3. \A s \in t + 1 .. E : ~Back(padded, 0, s, E, ed)
      <4> SUFFICES ASSUME NEW s \in t + 1 .. E, Back(padded, 0, s, E, ed) PROVE FALSE
        OBVIOUS
      <4>1. s \in 0 .. E
        BY <1>4, <3>1
      <4>2. d[0][s] = ed
        BY <1>3, <4>1, BackOnce
      <4> QED
        BY <1>3, <4>2
    <3>4. r.end + 1 = E
      BY <2>4 DEF E
    <3> QED
      BY <2>4, <3>1, <3>2, <3>3, <3>4 DEF Started
  <2>6. ASSUME NEW k \in DOMAIN match
        PROVE  IF k < i' THEN Started(padded, match'[k]) ELSE match'[k].start = match'[k].end
    <3>1. CASE k = i
      <4>1. k < i'
        BY <1>1, <1>2, <3>1
      <4> QED
        BY <2>5, <3>1, <4>1 DEF r
    <3>2. CASE k # i
      <4>1. k < i' <=> k < i
        BY <1>1, <1>2, <3>2
      <4> QED
        BY <1>5, <2>2, <3>2, <4>1
    <3> QED
      BY <3>1, <3>2
  <2> QED
    BY <1>2, <2>2, <2>6 DEF StartsFound
<1>7. CASE NoStart
  <2>1. match' = match /\ t = -1
    BY <1>1, <1>4, <1>7 DEF NoStart
  <2>2. Started(padded, m)
    <3>1. m.start = m.end
      BY <1>1, <1>5
    <3>2. \A s \in 0 .. E : ~Back(padded, 0, s, E, ed)
      <4> HIDE DEF m, E, ed
      <4> SUFFICES ASSUME NEW s \in 0 .. E, Back(padded, 0, s, E, ed) PROVE FALSE
        OBVIOUS
      <4>1. d[0][s] = ed
        BY <1>3, BackOnce
      <4>2. s \in t + 1 .. E
        BY <1>4, <2>1
      <4> QED
        BY <1>3, <4>1, <4>2
    <3> QED
      BY <3>1, <3>2 DEF Started
  <2>3. ASSUME NEW k \in DOMAIN match
        PROVE  IF k < i' THEN Started(padded, match[k]) ELSE match[k].start = match[k].end
    <3>1. CASE k = i
      <4>1. k < i'
        BY <1>1, <1>2, <3>1
      <4> QED
        BY <2>2, <3>1, <4>1
    <3>2. CASE k # i
      <4>1. k < i' <=> k < i
        BY <1>1, <1>2, <3>2
      <4> QED
        BY <1>5, <3>2, <4>1
    <3> QED
      BY <3>1, <3>2
  <2> QED
    BY <1>2, <2>1, <2>3 DEF StartsFound
<1> QED
  BY <1>6, <1>7

LEMMA NextStarts == Typed /\ Arguments /\ BackwardCells /\ StartsFound /\ [Next]_vars => StartsFound'
<1> SUFFICES ASSUME Typed, Arguments, BackwardCells, StartsFound, [Next]_vars PROVE StartsFound'
  OBVIOUS
<1>0. padded' = padded
  BY NextCost
<1>1. CASE ForwardCell
  BY <1>0, <1>1 DEF ForwardCell, StartsFound
<1>2. CASE Collect
  BY <1>2, CollectStarts
<1>3. CASE StartBackward \/ BackwardCell \/ StartNotHere
  BY <1>0, <1>3 DEF StartBackward, BackwardCell, StartNotHere, StartsFound
<1>4. CASE StartHere \/ NoStart
  BY <1>4, SearchStarts
<1>5. CASE EndMatches \/ StartPrune
  <2>1. match' = match /\ pc = "next" /\ pc' \in {"prune", "done", "crash"} /\ i > Len(match)
    BY <1>5 DEF EndMatches, StartPrune
  <2>2. \A k \in DOMAIN match : k < i
    BY <2>1 DEF Typed, Types
  <2> QED
    BY <1>0, <2>1, <2>2 DEF StartsFound
<1>6. CASE KeepLast \/ ReplaceLast
  <2>1. pc = "prune" /\ pc' = "prune"
    BY <1>6 DEF KeepLast, ReplaceLast, Pruning
  <2>2. \A k \in DOMAIN match' : Started(padded, match'[k])
    BY <1>6, <2>1, PruneSelects DEF StartsFound
  <2> QED
    BY <1>0, <2>1, <2>2 DEF StartsFound
<1>7. CASE TakeNext \/ EndPrune
  BY <1>0, <1>7 DEF TakeNext, EndPrune, Pruning, StartsFound
<1>8. CASE UNCHANGED vars
  BY <1>0, <1>8 DEF vars, StartsFound
<1> QED
  BY <1>1, <1>2, <1>3, <1>4, <1>5, <1>6, <1>7, <1>8 DEF Next

-----------------------------------------------------------------------------
(* A match has a start.  When a replacement costs nothing or a Unit, all   *)
(* costs are multiples of a Unit, and the cost of the windows that start   *)
(* one place further right is at most a Unit more; so on the way from the  *)
(* match's end, where deleting the pattern costs no less than the match,   *)
(* to a window of the match's cost, no multiple is left out.               *)

Whole(v) == \E k \in Int : v = k * Unit

LEMMA WholeSum ==
  ASSUME NEW v, NEW w, Whole(v), Whole(w)
  PROVE  Whole(v + w)
<1>1. PICK j \in Int : v = j * Unit
  BY DEF Whole
<1>2. PICK k \in Int : w = k * Unit
  BY DEF Whole
<1>3. v + w = (j + k) * Unit /\ j + k \in Int
  BY <1>1, <1>2, CostAssumption
<1> QED
  BY <1>3 DEF Whole

(* The next multiple is a Unit away. *)
LEMMA WholeNext ==
  ASSUME NEW v \in Int, NEW w \in Int, Whole(v), Whole(w), v <= w, w < v + Unit
  PROVE  v = w
<1>1. PICK j \in Int : v = j * Unit
  BY DEF Whole
<1>2. PICK k \in Int : w = k * Unit
  BY DEF Whole
<1>3. Unit \in Nat /\ Unit > 0
  BY CostAssumption
<1>4. CASE k <= j - 1
  <2>1. j - 1 - k \in Nat
    BY <1>4
  <2>2. (j - 1 - k) * Unit \in Nat
    BY <1>3, <2>1
  <2>3. (j - 1 - k) * Unit = j * Unit - Unit - k * Unit
    BY <1>3
  <2> QED
    BY <1>1, <1>2, <1>3, <2>2, <2>3
<1>5. CASE k >= j + 1
  <2>1. k - j - 1 \in Nat
    BY <1>5
  <2>2. (k - j - 1) * Unit \in Nat
    BY <1>3, <2>1
  <2>3. (k - j - 1) * Unit = k * Unit - j * Unit - Unit
    BY <1>3
  <2> QED
    BY <1>1, <1>2, <1>3, <2>2, <2>3
<1>6. k = j \/ k <= j - 1 \/ k >= j + 1
  OBVIOUS
<1> QED
  BY <1>1, <1>2, <1>4, <1>5, <1>6

LEMMA SumWhole ==
  ASSUME NEW q, Matrix(q), \A u \in Positions : At(q, u) \in {0, Unit}, NEW A, A \subseteq Positions
  PROVE  Whole(SumOf(q, A))
<1> DEFINE F == {s \in SUBSET A : ~Whole(SumOf(q, s))}
<1>0. Whole(0) /\ Whole(Unit)
  <2>1. 0 = 0 * Unit /\ Unit = 1 * Unit
    BY CostAssumption
  <2> QED
    BY <2>1 DEF Whole
<1>1. ASSUME F # {} PROVE FALSE
  <2>1. \A s \in F : IsFiniteSet(s)
    <3>1. IsFiniteSet(A)
      BY PositionsFinite
    <3> QED
      BY <3>1, FS_Subset
  <2>2. PICK s \in F : \A W \in F : ~(W \subseteq s /\ W # s)
    <3> HIDE DEF F
    <3> QED
      BY <1>1, <2>1, SmallestSet
  <2>3. s \subseteq Positions /\ s \subseteq A /\ IsFiniteSet(s) /\ ~Whole(SumOf(q, s))
    BY <2>1, <2>2
  <2>4. \A u \in s : At(q, u) \in Int
    BY <2>3, PositionCosts
  <2> DEFINE v == FirstOf(s)
             W == s \ {v}
  <2>5. v \in s /\ SumOf(q, s) = At(q, v) + SumOf(q, W)
    <3>1. s = {} => SumOf(q, s) = 0
      BY <2>3, <2>4, SumNext
    <3>2. s # {}
      BY <1>0, <2>3, <3>1
    <3> QED
      BY <2>3, <2>4, <3>2, SumNext
  <2>6. W \subseteq s /\ W # s
    BY <2>5
  <2> HIDE DEF v, W
  <2>7. Whole(SumOf(q, W))
    BY <2>2, <2>3, <2>6
  <2>8. Whole(At(q, v))
    BY <1>0, <2>3, <2>5
  <2>9. Whole(At(q, v) + SumOf(q, W))
    BY <2>7, <2>8, WholeSum
  <2> QED
    BY <2>3, <2>5, <2>9
<1>2. A \notin F
  BY <1>1
<1> QED
  BY <1>2

LEMMA PriceWhole ==
  ASSUME NEW q, Matrix(q), \A u \in Positions : At(q, u) \in {0, Unit},
         NEW A, A \subseteq Positions, NEW r \in Int
  PROVE  Whole(Price(q, A, r))
<1> DEFINE k == Cardinality(A)
           x == SumOf(q, A)
<1>1. Whole(x)
  BY SumWhole
<1>2. k \in Nat /\ Unit \in Nat
  BY PositionsFinite, CostAssumption
<1>3. Price(q, A, r) = PriceAt(x, k, r)
  BY DEF Price
<1> HIDE DEF k, x
<1>4. Whole(Unit * (r - 2 * k))
  <2>1. Unit * (r - 2 * k) = (r - 2 * k) * Unit /\ r - 2 * k \in Int
    BY <1>2
  <2> QED
    BY <2>1 DEF Whole
<1>5. Whole(x + Unit * (r - 2 * k))
  BY <1>1, <1>4, WholeSum
<1> QED
  BY <1>3, <1>5 DEF PriceAt

(* Leaving out the first symbol of the windows. *)
LEMMA BackSlow ==
  ASSUME NEW q, Matrix(q), NEW E \in Places, NEW s \in 0 .. E - 1,
         NEW v, NEW w, Back(q, 0, s, E, v), Back(q, 0, s + 1, E, w)
  PROVE  w <= v + Unit
<1>1. v \in Int /\ w \in Int /\ Unit \in Nat /\ E \in Int /\ s \in Int /\ PatternSize \in Nat
  BY SizeAssumption, CostAssumption DEF Back, Places
<1>2. PICK e \in s .. E, A \in SUBSET Positions :
         Within(A, 0, PatternSize, s, e) /\ v = Price(q, A, PatternSize - 0 + e - s)
  BY DEF Back
<1>3. e \in Int /\ A \subseteq Positions /\ PatternSize - 0 + e - s = PatternSize + e - s /\ PatternSize + e - s \in Int
  BY <1>1
<1>4. CASE e = s
  <2>1. A = {}
    <3>1. 0 \in Int /\ PatternSize \in Int /\ s >= e
      BY <1>1, <1>4
    <3> QED
      BY <1>1, <1>2, <1>3, <3>1, OnlyNothing
  <2>2. v = Price(q, {}, PatternSize)
    <3>1. PatternSize + e - s = PatternSize
      BY <1>1, <1>4
    <3> QED
      BY <1>2, <1>3, <2>1, <3>1
  <2>3. w <= Price(q, {}, PatternSize)
    <3>1. s + 1 \in s + 1 .. E /\ PatternSize - 0 + (s + 1) - (s + 1) = PatternSize
      BY <1>1
    <3>2. {} \in SUBSET Positions /\ Within({}, 0, PatternSize, s + 1, s + 1)
      BY NothingWithin
    <3> QED
      BY <3>1, <3>2 DEF Back
  <2> QED
    BY <1>1, <2>2, <2>3
<1>5. CASE e # s
  <2> DEFINE r == PatternSize + e - s - 1
  <2>1. e \in s + 1 .. E /\ PatternSize - 0 + e - (s + 1) = r /\ r \in Int /\ r + 1 = PatternSize + e - s
    BY <1>1, <1>3, <1>5
  <2> HIDE DEF r
  <2>2. ASSUME NEW c \in A
        PROVE  c[1] \in 0 .. PatternSize - 1 /\ c[2] \in s .. e - 1 /\ c[1] \in Int /\ c[2] \in Int
    BY <1>2 DEF Within
  <2>3. CASE \A c \in A : c[2] # s
    <3>1. \A c \in A : c[1] \in 0 .. PatternSize - 1 /\ c[2] \in s + 1 .. e - 1
      BY <1>1, <1>3, <2>2, <2>3
    <3>2. A \subseteq A
      OBVIOUS
    <3>3. Within(A, 0, PatternSize, s + 1, e)
      BY <1>2, <3>1, <3>2, WithinPart
    <3>4. w <= Price(q, A, r)
      BY <2>1, <3>3 DEF Back
    <3>5. Price(q, A, r + 1) = Price(q, A, r) + Unit /\ Price(q, A, r) \in Int
      BY <1>3, <2>1, PricePlain
    <3>6. v = Price(q, A, r) + Unit
      BY <1>2, <1>3, <2>1, <3>5
    <3> QED
      BY <1>1, <3>4, <3>5, <3>6
  <2>4. ASSUME NEW c \in A, c[2] = s PROVE w <= v + Unit
    <3> DEFINE B == A \ {c}
    <3>1. ASSUME NEW u \in B PROVE u[1] \in 0 .. PatternSize - 1 /\ u[2] \in s + 1 .. e - 1
      <4>1. u \in A /\ (Before(u, c) \/ Before(c, u))
        BY <1>2 DEF Within, Ordered
      <4>2. u[2] # s
        BY <2>2, <2>4, <4>1 DEF Before
      <4> QED
        BY <1>1, <1>3, <2>2, <4>1, <4>2
    <3>2. B \subseteq A /\ B \subseteq Positions /\ c \notin B /\ B \cup {c} = A /\ c \in Positions
      BY <1>3
    <3> HIDE DEF B
    <3>3. Within(B, 0, PatternSize, s + 1, e)
      BY <1>2, <3>1, <3>2, WithinPart
    <3>4. w <= Price(q, B, r)
      BY <2>1, <3>2, <3>3 DEF Back
    <3>5. r - 1 \in Int /\ (r - 1) + 1 = r /\ (r - 1) + 2 = r + 1
      BY <2>1
    <3>6. Price(q, B, r) = Price(q, B, r - 1) + Unit /\ Price(q, B, r - 1) \in Int
      <4>1. Price(q, B, (r - 1) + 1) = Price(q, B, r - 1) + Unit /\ Price(q, B, r - 1) \in Int
        BY <3>2, <3>5, PricePlain
      <4> QED
        BY <3>5, <4>1
    <3>7. Price(q, A, r + 1) = Price(q, B, r - 1) + At(q, c)
      <4>1. Price(q, B \cup {c}, (r - 1) + 2) = Price(q, B, r - 1) + At(q, c)
        BY <3>2, <3>5, PriceWith
      <4> QED
        BY <3>2, <3>5, <4>1
    <3>8. At(q, c) \in Nat
      BY <1>3, PositionCosts
    <3>9. v = Price(q, B, r - 1) + At(q, c)
      BY <1>2, <1>3, <2>1, <3>7
    <3> QED
      BY <1>1, <3>4, <3>6, <3>8, <3>9
  <2> QED
    BY <2>3, <2>4
<1> QED
  BY <1>4, <1>5

(* Every end has a start of its own distance. *)
LEMMA SomeStart ==
  ASSUME NEW q, Matrix(q), \A u \in Positions : At(q, u) \in {0, Unit},
         NEW E \in Places, NEW v, Reach(q, PatternSize, E, v)
  PROVE  \E s \in 0 .. E : Back(q, 0, s, E, v)
<1> DEFINE Below(s) == \E w \in Int : Back(q, 0, s, E, w) /\ w <= v
           Far == {E - s : s \in {x \in 0 .. E : Below(x)}}
<1>1. E \in Nat /\ PatternSize \in Nat /\ PatternSize \in Row /\ 0 \in Row /\ Unit \in Nat /\ v \in Int
  BY SizeAssumption, CostAssumption DEF Places, Row, Reach
<1>2. PICK s0 \in 0 .. E, A \in SUBSET Positions :
         Within(A, 0, PatternSize, s0, E) /\ v = Price(q, A, PatternSize + E - s0)
  BY DEF Reach
<1>3. Below(s0)
  <2>1. PICK w : Back(q, 0, s0, E, w)
    BY <1>1, BackExists
  <2>2. PatternSize - 0 + E - s0 = PatternSize + E - s0 /\ E \in s0 .. E
    BY <1>1
  <2>3. w <= v /\ w \in Int
    BY <1>2, <2>1, <2>2 DEF Back
  <2> QED
    BY <2>1, <2>3
<1>4. PICK s \in 0 .. E : Below(s) /\ \A x \in s + 1 .. E : ~Below(x)
  <2> HIDE DEF Below
  <2>1. Far \in SUBSET Nat /\ Far # {}
    <3>1. \A x \in 0 .. E : E - x \in Nat
      BY <1>1
    <3> QED
      BY <1>3, <3>1
  <2>2. PICK f \in Far : \A g \in Far : f <= g
    <3> HIDE DEF Far
    <3> QED
      BY <2>1, LeastNat
  <2>3. PICK s \in 0 .. E : Below(s) /\ f = E - s
    OBVIOUS
  <2>4. ASSUME NEW x \in s + 1 .. E, Below(x) PROVE FALSE
    <3>1. x \in 0 .. E /\ s < x
      BY <1>1, <2>4
    <3>2. x \in {y \in 0 .. E : Below(y)}
      BY <2>4, <3>1
    <3>3. E - x \in Far
      BY <3>2
    <3>4. E - s <= E - x
      BY <2>2, <2>3, <3>3
    <3> QED
      BY <1>1, <3>1, <3>4
  <2> QED
    BY <2>3, <2>4
<1>5. PICK w \in Int : Back(q, 0, s, E, w) /\ w <= v
  BY <1>4
<1>6. CASE s = E
  <2>1. Back(q, 0, E, E, (PatternSize - 0) * Unit)
    BY <1>1, BackRight
  <2>2. w = (PatternSize - 0) * Unit
    BY <1>5, <1>6, <2>1, BackOnce
  <2>3. v <= Price(q, {}, PatternSize + E - E)
    <3>1. {} \in SUBSET Positions /\ Within({}, 0, PatternSize, E, E) /\ E \in 0 .. E
      BY <1>1, NothingWithin
    <3> QED
      BY <3>1 DEF Reach
  <2>4. Price(q, {}, PatternSize) = Unit * PatternSize
    BY <1>1, PriceEmpty
  <2>5. PatternSize + E - E = PatternSize /\ Unit * PatternSize = (PatternSize - 0) * Unit /\ Unit * PatternSize \in Int
    BY <1>1
  <2>6. v = w
    BY <1>1, <1>5, <2>2, <2>3, <2>4, <2>5
  <2> QED
    BY <1>5, <2>6
<1>7. CASE s # E
  <2>1. s \in 0 .. E - 1 /\ s + 1 \in 0 .. E /\ s + 1 \in s + 1 .. E
    BY <1>1, <1>7
  <2>2. PICK u : Back(q, 0, s + 1, E, u)
    BY <1>1, <2>1, BackExists
  <2>3. u \in Int
    BY <2>2 DEF Back
  <2>4. ~(u <= v)
    BY <1>4, <2>1, <2>2, <2>3
  <2>5. u <= w + Unit
    BY <1>5, <2>1, <2>2, BackSlow
  <2>6. Whole(v)
    <3>1. PatternSize + E - s0 \in Int /\ A \subseteq Positions
      BY <1>1
    <3> QED
      BY <1>2, <3>1, PriceWhole
  <2>7. Whole(w)
    <3>1. PICK e \in s .. E, B \in SUBSET Positions :
             Within(B, 0, PatternSize, s, e) /\ w = Price(q, B, PatternSize - 0 + e - s)
      BY <1>5 DEF Back
    <3>2. PatternSize - 0 + e - s \in Int /\ B \subseteq Positions
      BY <1>1
    <3> QED
      BY <3>1, <3>2, PriceWhole
  <2>8. w = v
    BY <1>1, <1>5, <2>3, <2>4, <2>5, <2>6, <2>7, WholeNext
  <2> QED
    BY <1>5, <2>8
<1> QED
  BY <1>6, <1>7

-----------------------------------------------------------------------------
(* The theorems. *)

LEMMA CellsAndLists ==
  Spec => [](Typed /\ Arguments /\ LastIsPredecessor /\ ForwardCells /\ Listed /\ BackwardCells /\ StartsFound)
<1>1. Init => ForwardCells /\ Listed
  BY InitForwardCells, InitListed, InitTyped
<1>2. Init => BackwardCells /\ StartsFound
  <2> SUFFICES ASSUME Init PROVE BackwardCells /\ StartsFound
    OBVIOUS
  <2>1. pc \in {"forward", "collect", "next"} /\ match = <<>> /\ DOMAIN match = {} /\ i = 1
    BY DEF Init
  <2> QED
    BY <2>1 DEF BackwardCells, StartsFound
<1> QED
  BY <1>1, <1>2, NextForwardCells, NextListed, NextBackwardCells, NextStarts, TypesCorrect,
     PruningKeepsItsPlace, PTL DEF Spec

(* The matches collected are the ends within the threshold, each with the  *)
(* least distance of a window before it.                                   *)
LEMMA ListIsExact ==
  ASSUME Typed, Arguments, Listed
  PROVE  CandidatesExact
<1> SUFFICES ASSUME pc = "next"
             PROVE  {<<m.end, m.edit_distance>> : m \in Matches}
                      = {c \in {<<e - 1, EndDistance(e)>> : e \in 1 .. textsize} : c[2] <= n}
  BY DEF CandidatesExact
<1> DEFINE L == {<<m.end, m.edit_distance>> : m \in Matches}
           C == {<<e - 1, EndDistance(e)>> : e \in 1 .. textsize}
<1>1. /\ Matrix(padded) /\ match \in Seq(MatchType) /\ textsize \in Nat /\ PatternSize \in Row
      /\ Column \subseteq Places
  BY PaddedMatrix, ColumnsArePlaces, SizeAssumption DEF Typed, Types, Row
<1>2. ASSUME NEW x \in L PROVE x \in C /\ x[2] <= n
  <2>1. PICK k \in DOMAIN match : x = <<match[k].end, match[k].edit_distance>>
    BY DEF Matches
  <2> DEFINE e  == match[k].end + 1
             ed == match[k].edit_distance
  <2>2. match[k].end \in 0 .. textsize - 1
    BY <1>1, MatchTyped
  <2>3. e \in 1 .. textsize /\ e \in Column /\ e - 1 = match[k].end
    BY <1>1, <2>2 DEF Column
  <2>4. Reach(padded, PatternSize, e, ed) /\ ed <= n
    BY DEF Listed, Good
  <2> HIDE DEF e, ed
  <2>5. EndDistance(e) = ed
    BY <2>3, <2>4, EndIs
  <2>6. x = <<e - 1, EndDistance(e)>> /\ x[2] = ed
    BY <2>1, <2>3, <2>5 DEF ed
  <2> QED
    BY <2>3, <2>4, <2>6
<1>3. ASSUME NEW x \in C, x[2] <= n PROVE x \in L
  <2>1. PICK e \in 1 .. textsize : x = <<e - 1, EndDistance(e)>>
    OBVIOUS
  <2>2. e \in Column
    BY <1>1 DEF Column
  <2>3. PICK v : Reach(padded, PatternSize, e, v)
    BY <1>1, <2>2, ReachExists
  <2>4. EndDistance(e) = v /\ v \in Int
    BY <1>1, <2>2, <2>3, EndIs DEF Reach
  <2>5. v <= n
    BY <1>3, <2>1, <2>4
  <2>6. PICK k \in DOMAIN match : match[k].end = e - 1
    BY <2>3, <2>4, <2>5 DEF Listed, Covered
  <2>7. Reach(padded, PatternSize, match[k].end + 1, match[k].edit_distance) /\ match[k].end + 1 = e
    BY <2>6 DEF Listed, Good
  <2>8. match[k].edit_distance = v
    BY <2>3, <2>7, ReachOnce
  <2>9. x = <<match[k].end, match[k].edit_distance>> /\ match[k] \in Matches
    BY <2>1, <2>4, <2>6, <2>8 DEF Matches
  <2> QED
    BY <2>9
<1> QED
  BY <1>2, <1>3

THEOREM CandidatesExactHolds == Spec => []CandidatesExact
BY CellsAndLists, ListIsExact, PTL

(* The search returns all the ends within the threshold; and when a        *)
(* replacement costs nothing or as much as a deletion, as with the         *)
(* comparison of symbols, for each a start of a window of its own distance. *)
THEOREM MatchesExactHolds == Spec => []MatchesExact
<1>1. ASSUME Typed, Arguments, Listed, StartsFound, WholeCosts PROVE AlwaysAStart
  <2> SUFFICES ASSUME pc \in {"prune", "done"}, NEW k \in DOMAIN match
               PROVE  StartDistance(match[k].start, match[k].end + 1) = match[k].edit_distance
    BY DEF AlwaysAStart, Matches
  <2> DEFINE E  == match[k].end + 1
             ed == match[k].edit_distance
             s  == match[k].start
  <2>1. Matrix(padded) /\ match \in Seq(MatchType) /\ textsize \in Nat /\ Column \subseteq Places
    BY <1>1, PaddedMatrix, ColumnsArePlaces DEF Typed, Types
  <2>2. E \in Column
    <3>1. match[k].end \in 0 .. textsize - 1
      BY <2>1, MatchTyped
    <3> QED
      BY <2>1, <3>1 DEF Column
  <2>3. \A u \in Positions : At(padded, u) \in {0, Unit}
    <3> SUFFICES ASSUME NEW u \in Positions PROVE At(padded, u) \in {0, Unit}
      OBVIOUS
    <3>1. u[1] \in 0 .. PatternSize - 1 /\ u[2] \in 0 .. MaxTextSize - 1
      BY DEF Positions
    <3>2. CASE u[2] < textsize
      <4>1. u[2] \in 0 .. textsize - 1
        BY <2>1, <3>1, <3>2
      <4>2. padded[u[1]][u[2]] = cost[u[1]][u[2]] /\ cost[u[1]][u[2]] \in {0, Unit}
        BY <1>1, <3>1, <4>1, PaddedAt DEF WholeCosts
      <4> QED
        BY <4>2 DEF At
    <3>3. CASE ~(u[2] < textsize)
      BY <3>1, <3>3 DEF At, padded, Pad
    <3> QED
      BY <3>2, <3>3
  <2>4. Reach(padded, PatternSize, E, ed)
    BY <1>1 DEF Listed, Good
  <2>5. Started(padded, match[k])
    BY <1>1 DEF StartsFound
  <2> HIDE DEF E, ed, s
  <2>6. PICK r \in 0 .. E : Back(padded, 0, r, E, ed)
    BY <2>1, <2>2, <2>3, <2>4, SomeStart
  <2>7. s \in 0 .. E /\ Back(padded, 0, s, E, ed)
    BY <2>5, <2>6 DEF Started, s, E, ed
  <2>8. StartDistance(s, E) = ed
    BY <1>1, <2>2, <2>7, StartIs
  <2> QED
    BY <2>8 DEF s, E, ed
<1>2. Typed /\ Arguments /\ Listed /\ StartsFound => MatchesExact
  BY <1>1, ListIsExact DEF MatchesExact
<1> QED
  BY <1>2, CellsAndLists, PTL

LEMMA MaxIs ==
  ASSUME NEW S, S \subseteq Int, NEW v \in S, \A w \in S : w <= v
  PROVE  Max(S) = v
<1> DEFINE m == Max(S)
<1>1. m \in S /\ \A w \in S : m >= w
  <2>1. \E x \in S : \A w \in S : x >= w
    <3>1. \A w \in S : v >= w
      OBVIOUS
    <3> QED
      BY <3>1
  <2> QED
    BY <2>1 DEF Max
<1> HIDE DEF m
<1>2. m <= v /\ v <= m /\ m \in Int /\ v \in Int
  BY <1>1
<1>3. m = v
  BY <1>2
<1> QED
  BY <1>3 DEF m

(* The start of a match is the last place of its own distance, or its last *)
(* symbol if there is none, whatever the costs.                            *)
THEOREM StartExactHolds == Spec => []StartExact
<1>1. ASSUME Typed, Arguments, StartsFound PROVE StartExact
  <2> SUFFICES ASSUME pc \in {"prune", "done"}, NEW m \in Matches
               PROVE  LET S == {s \in 0 .. m.end + 1 : StartDistance(s, m.end + 1) = m.edit_distance}
                      IN  m.start = IF S = {} THEN m.end ELSE Max(S)
    BY DEF StartExact
  <2> DEFINE E  == m.end + 1
             ed == m.edit_distance
             S  == {s \in 0 .. E : StartDistance(s, E) = ed}
  <2>1. PICK k \in DOMAIN match : m = match[k]
    BY DEF Matches
  <2>2. /\ Matrix(padded) /\ match \in Seq(MatchType) /\ textsize \in Nat /\ 0 \in Row
        /\ Column \subseteq Places
    BY <1>1, PaddedMatrix, ColumnsArePlaces, SizeAssumption DEF Typed, Types, Row
  <2>3. E \in Column /\ E \in Int
    <3>1. match[k].end \in 0 .. textsize - 1
      BY <2>2, MatchTyped
    <3> QED
      BY <2>1, <2>2, <3>1 DEF Column
  <2>4. Started(padded, m)
    BY <1>1, <2>1 DEF StartsFound
  <2> HIDE DEF E, ed
  <2>5. ASSUME NEW s \in 0 .. E PROVE s \in S <=> Back(padded, 0, s, E, ed)
    <3>1. PICK v : Back(padded, 0, s, E, v)
      BY <2>2, <2>3, BackExists
    <3>2. StartDistance(s, E) = v
      BY <1>1, <2>3, <3>1, StartIs
    <3>3. Back(padded, 0, s, E, ed) => v = ed
      BY <3>1, BackOnce
    <3> QED
      BY <3>1, <3>2, <3>3
  <2>6. CASE /\ m.start \in 0 .. E
             /\ Back(padded, 0, m.start, E, ed)
             /\ \A s \in m.start + 1 .. E : ~Back(padded, 0, s, E, ed)
    <3>1. m.start \in S /\ S \subseteq Int
      BY <2>5, <2>6
    <3>2. ASSUME NEW s \in S PROVE s <= m.start
      <4>1. s \in 0 .. E /\ Back(padded, 0, s, E, ed)
        BY <2>5
      <4>2. ~(s \in m.start + 1 .. E)
        BY <2>6, <4>1
      <4> QED
        BY <2>3, <2>6, <4>1, <4>2
    <3> HIDE DEF S
    <3>3. Max(S) = m.start /\ S # {}
      BY <3>1, <3>2, MaxIs
    <3> QED
      BY <3>3 DEF S, E, ed
  <2>7. CASE m.start = m.end /\ \A s \in 0 .. E : ~Back(padded, 0, s, E, ed)
    <3>1. S = {}
      BY <2>5, <2>7
    <3> QED
      BY <2>7, <3>1 DEF E, ed
  <2> QED
    BY <2>4, <2>6, <2>7 DEF Started, E, ed
<1>2. Typed /\ Arguments /\ StartsFound => StartExact
  BY <1>1
<1> QED
  BY <1>2, CellsAndLists, PTL

(* Whatever pruning erased, a match as good as the best remains.            *)
THEOREM BestMatchKeptHolds == Spec => []BestMatchKept
<1>1. ASSUME Typed, Arguments, Listed PROVE BestMatchKept
  <2> SUFFICES ASSUME pc = "done", NEW e \in 1 .. textsize, EndDistance(e) <= n
               PROVE  \E m \in Matches : m.edit_distance <= EndDistance(e)
    BY DEF BestMatchKept
  <2>1. Matrix(padded) /\ e \in Column /\ e \in Places /\ PatternSize \in Row
    <3>1. e \in Column
      BY <1>1, ColumnsArePlaces DEF Column
    <3> QED
      BY <1>1, <3>1, PaddedMatrix, ColumnsArePlaces, SizeAssumption DEF Row
  <2>2. PICK v : Reach(padded, PatternSize, e, v)
    BY <2>1, ReachExists
  <2>3. EndDistance(e) = v /\ v \in Int
    BY <1>1, <2>1, <2>2, EndIs DEF Reach
  <2>4. PICK k \in DOMAIN match : match[k].edit_distance <= v
    BY <1>1, <2>2, <2>3 DEF Listed, Better
  <2> QED
    BY <2>3, <2>4 DEF Matches
<1>2. Typed /\ Arguments /\ Listed => BestMatchKept
  BY <1>1
<1> QED
  BY <1>2, CellsAndLists, PTL

-----------------------------------------------------------------------------
(* Termination.  Five numbers compared from the left; no sequence of them   *)
(* descends for ever.                                                      *)
Less   == OpToRel(<, Nat)
Order2 == LexPairOrdering(Less, Less, Nat, Nat)
Order3 == LexPairOrdering(Less, Order2, Nat, Nat \X Nat)
Order4 == LexPairOrdering(Less, Order3, Nat, Nat \X (Nat \X Nat))
Order  == LexPairOrdering(Less, Order4, Nat, Nat \X (Nat \X (Nat \X Nat)))

Five(a, b, c, e, f) == <<a, <<b, <<c, <<e, f>>>>>>>>

(* No sequence of them descends for ever. *)
LEMMA OrderWellFounded == IsWellFoundedOn(Order, Nat \X (Nat \X (Nat \X (Nat \X Nat))))
<1>1. IsWellFoundedOn(Less, Nat)
  BY NatLessThanWellFounded, Zenon DEF Less
<1>2. IsWellFoundedOn(Order2, Nat \X Nat)
  BY <1>1, WFLexPairOrdering DEF Order2
<1>3. IsWellFoundedOn(Order3, Nat \X (Nat \X Nat))
  BY <1>1, <1>2, WFLexPairOrdering DEF Order3
<1>4. IsWellFoundedOn(Order4, Nat \X (Nat \X (Nat \X Nat)))
  BY <1>1, <1>3, WFLexPairOrdering DEF Order4
<1> QED
  BY <1>1, <1>4, WFLexPairOrdering DEF Order

(* What descends in the first of the numbers that changes. *)
LEMMA InOrder ==
  ASSUME NEW a \in Nat, NEW b \in Nat, NEW c \in Nat, NEW e \in Nat, NEW f \in Nat,
         NEW u \in Nat, NEW v \in Nat, NEW w \in Nat, NEW x \in Nat, NEW y \in Nat,
         \/ u < a
         \/ u = a /\ v < b
         \/ u = a /\ v = b /\ w < c
         \/ u = a /\ v = b /\ w = c /\ x < e
         \/ u = a /\ v = b /\ w = c /\ x = e /\ y < f
  PROVE  <<Five(u, v, w, x, y), Five(a, b, c, e, f)>> \in Order
<1>1. \A k, m \in Nat : k < m => <<k, m>> \in Less
  BY DEF Less, OpToRel
<1>2. (x < e \/ (x = e /\ y < f)) => <<<<x, y>>, <<e, f>>>> \in Order2
  BY <1>1 DEF Order2, LexPairOrdering
<1>3. (w < c \/ (w = c /\ (x < e \/ (x = e /\ y < f))))
        => <<<<w, <<x, y>>>>, <<c, <<e, f>>>>>> \in Order3
  BY <1>1, <1>2 DEF Order3, LexPairOrdering
<1>4. (v < b \/ (v = b /\ (w < c \/ (w = c /\ (x < e \/ (x = e /\ y < f))))))
        => <<<<v, <<w, <<x, y>>>>>>, <<b, <<c, <<e, f>>>>>>>> \in Order4
  BY <1>1, <1>3 DEF Order4, LexPairOrdering
<1> QED
  BY <1>1, <1>4 DEF Order, Five, LexPairOrdering

(* The phases before the end, the matches before the end of the list, the   *)
(* loops over one match, and the rows and columns still to be computed.    *)
Phase ==
  CASE pc = "forward" -> 4
    [] pc = "collect" -> 3
    [] pc \in {"next", "backward", "start"} -> 2
    [] pc = "prune" -> 1
    [] OTHER -> 0

MatchesLeft ==
  IF pc \in {"next", "backward", "start", "prune"} /\ i <= Len(match) THEN Len(match) + 1 - i ELSE 0

LoopsLeft == IF pc = "next" THEN 2 ELSE IF pc = "backward" THEN 1 ELSE 0

RowsLeft ==
  IF pc = "forward" THEN PatternSize - p ELSE IF pc = "backward" THEN p ELSE 0

ColumnsLeft ==
  CASE pc \in {"forward", "collect"} -> textsize - t
    [] pc = "backward" -> t
    [] pc = "start" -> t + 1
    [] OTHER -> 0

StepsLeft == Five(Phase, MatchesLeft, LoopsLeft, RowsLeft, ColumnsLeft)

NearerToEnd == <<StepsLeft', StepsLeft>> \in Order

StepsLeftDescend == [][NearerToEnd]_vars

StepsCounted ==
  /\ Phase \in Nat /\ MatchesLeft \in Nat /\ LoopsLeft \in Nat
  /\ RowsLeft \in Nat /\ ColumnsLeft \in Nat

LEMMA CountsAreNumbers == Typed /\ Arguments => StepsCounted
<1> SUFFICES ASSUME Typed, Arguments PROVE StepsCounted
  OBVIOUS
<1>1. match \in Seq(MatchType) /\ i \in Nat /\ p \in Int /\ t \in Int
  BY DEF Typed, Types
<1>2. Len(match) \in Nat /\ PatternSize \in Nat /\ textsize \in Nat
  BY <1>1, SizeAssumption DEF Arguments
<1>3. Phase \in Nat /\ LoopsLeft \in Nat
  BY DEF Phase, LoopsLeft
<1>4. MatchesLeft \in Nat
  BY <1>1, <1>2 DEF MatchesLeft
<1>5. RowsLeft \in Nat
  BY <1>1, <1>2 DEF RowsLeft, Typed, Ranges
<1>6. ColumnsLeft \in Nat
  <2>1. (pc = "forward" => t \in 1 .. textsize) /\ (pc = "collect" => t \in 1 .. textsize)
    BY DEF Typed, Ranges
  <2>2. pc = "backward" => t \in Nat
    <3> SUFFICES ASSUME pc = "backward" PROVE t \in Nat
      OBVIOUS
    <3>1. i \in DOMAIN match /\ t \in 0 .. match[i].end
      BY DEF Typed, Ranges
    <3> QED
      BY <3>1
  <2>3. pc = "start" => t + 1 \in Nat
    <3> SUFFICES ASSUME pc = "start" PROVE t + 1 \in Nat
      OBVIOUS
    <3>1. i \in DOMAIN match /\ t \in -1 .. match[i].end + 1
      BY DEF Typed, Ranges
    <3> QED
      BY <3>1
  <2> QED
    BY <1>1, <1>2, <2>1, <2>2, <2>3 DEF ColumnsLeft
<1> QED
  BY <1>3, <1>4, <1>5, <1>6 DEF StepsCounted

LEMMA StepDescends ==
  Typed /\ Arguments /\ StepsCounted /\ StepsCounted' /\ Next => NearerToEnd
<1> SUFFICES ASSUME Typed, Arguments, StepsCounted, StepsCounted', Next PROVE NearerToEnd
  OBVIOUS
<1> DEFINE Descends(u, v, w, x, y) ==
      \/ u < Phase
      \/ u = Phase /\ v < MatchesLeft
      \/ u = Phase /\ v = MatchesLeft /\ w < LoopsLeft
      \/ u = Phase /\ v = MatchesLeft /\ w = LoopsLeft /\ x < RowsLeft
      \/ u = Phase /\ v = MatchesLeft /\ w = LoopsLeft /\ x = RowsLeft /\ y < ColumnsLeft
<1>1. SUFFICES Descends(Phase', MatchesLeft', LoopsLeft', RowsLeft', ColumnsLeft')
  <2>1. <<Five(Phase', MatchesLeft', LoopsLeft', RowsLeft', ColumnsLeft'),
          Five(Phase, MatchesLeft, LoopsLeft, RowsLeft, ColumnsLeft)>> \in Order
    BY <1>1, InOrder DEF StepsCounted
  <2> QED
    BY <2>1 DEF NearerToEnd, StepsLeft, Five
<1>2. match \in Seq(MatchType) /\ i \in Nat /\ p \in Int /\ t \in Int /\ Len(match) \in Nat
  BY DEF Typed, Types
<1>3. PatternSize \in Nat /\ textsize \in Nat /\ textsize' = textsize
  BY SizeAssumption, NextCost DEF Arguments
<1>4. CASE ForwardCell
  <2>1. p \in 1 .. PatternSize /\ t \in 1 .. textsize /\ pc = "forward"
    BY <1>4 DEF ForwardCell, Typed, Ranges
  <2>2. CASE t = textsize /\ p = PatternSize
    BY <1>4, <2>1, <2>2 DEF ForwardCell, Phase
  <2>3. CASE t = textsize /\ p # PatternSize
    <3>1. p' = p + 1 /\ pc' = "forward"
      BY <1>3, <1>4, <2>1, <2>3 DEF ForwardCell
    <3>2. RowsLeft' < RowsLeft
      BY <1>2, <1>3, <2>1, <3>1 DEF RowsLeft
    <3> QED
      BY <2>1, <3>1, <3>2 DEF Phase, MatchesLeft, LoopsLeft
  <2>4. CASE t # textsize
    <3>1. p' = p /\ t' = t + 1 /\ pc' = "forward"
      BY <1>3, <1>4, <2>1, <2>4 DEF ForwardCell
    <3>2. ColumnsLeft' < ColumnsLeft
      BY <1>2, <1>3, <2>1, <3>1 DEF ColumnsLeft
    <3> QED
      BY <2>1, <3>1, <3>2 DEF Phase, MatchesLeft, LoopsLeft, RowsLeft
  <2> QED
    BY <2>2, <2>3, <2>4
<1>5. CASE Collect
  <2>1. pc = "collect" /\ t' = t + 1 /\ t \in 1 .. textsize
    BY <1>5 DEF Collect, Typed, Ranges
  <2>2. CASE pc' = "next"
    BY <2>1, <2>2 DEF Phase
  <2>3. CASE pc' = "collect"
    <3>1. ColumnsLeft' < ColumnsLeft
      BY <1>2, <1>3, <2>1, <2>3 DEF ColumnsLeft
    <3> QED
      BY <2>1, <2>3, <3>1 DEF Phase, MatchesLeft, LoopsLeft, RowsLeft
  <2> QED
    BY <1>5, <2>2, <2>3 DEF Collect
<1>6. CASE StartBackward
  <2>1. pc = "next" /\ pc' \in {"backward", "start"} /\ match' = match /\ i' = i
    BY <1>6 DEF StartBackward
  <2> QED
    BY <2>1 DEF Phase, MatchesLeft, LoopsLeft
<1>7. CASE BackwardCell
  <2>1. pc = "backward" /\ match' = match /\ i' = i /\ p \in 0 .. PatternSize - 1
    BY <1>7 DEF BackwardCell, Typed, Ranges
  <2>2. t \in Nat
    BY <2>1, <1>2 DEF Typed, Ranges
  <2>3. CASE t = 0 /\ p = 0
    BY <1>7, <2>1, <2>3 DEF BackwardCell, Phase, MatchesLeft, LoopsLeft
  <2>4. CASE t = 0 /\ p > 0
    <3>1. p' = p - 1 /\ pc' = "backward"
      BY <1>7, <2>1, <2>4 DEF BackwardCell
    <3>2. RowsLeft' < RowsLeft
      BY <1>2, <2>1, <3>1 DEF RowsLeft
    <3> QED
      BY <2>1, <3>1, <3>2 DEF Phase, MatchesLeft, LoopsLeft
  <2>5. CASE t > 0
    <3>1. p' = p /\ t' = t - 1 /\ pc' = "backward"
      BY <1>7, <2>1, <2>2, <2>5 DEF BackwardCell
    <3>2. ColumnsLeft' < ColumnsLeft
      BY <1>2, <2>1, <3>1 DEF ColumnsLeft
    <3> QED
      BY <2>1, <3>1, <3>2 DEF Phase, MatchesLeft, LoopsLeft, RowsLeft
  <2> QED
    BY <2>1, <2>2, <2>3, <2>4, <2>5
<1>8. CASE StartHere \/ NoStart
  <2>1. pc = "start" /\ pc' = "next" /\ i' = i + 1 /\ i \in DOMAIN match
    BY <1>8 DEF StartHere, NoStart, Typed, Ranges
  <2>2. Len(match') = Len(match)
    BY <1>2, <1>8 DEF StartHere, NoStart
  <2>3. i <= Len(match)
    BY <1>2, <2>1
  <2>4. MatchesLeft' < MatchesLeft
    BY <1>2, <2>1, <2>2, <2>3 DEF MatchesLeft
  <2> QED
    BY <2>1, <2>4 DEF Phase
<1>9. CASE StartNotHere
  <2>1. pc = "start" /\ pc' = "start" /\ t' = t - 1 /\ i' = i /\ match' = match
    BY <1>9 DEF StartNotHere
  <2>2. ColumnsLeft' < ColumnsLeft
    BY <1>2, <2>1 DEF ColumnsLeft
  <2> QED
    BY <2>1, <2>2 DEF Phase, MatchesLeft, LoopsLeft, RowsLeft
<1>10. CASE EndMatches \/ StartPrune \/ EndPrune
  BY <1>10 DEF EndMatches, StartPrune, EndPrune, Phase
<1>11. CASE KeepLast \/ ReplaceLast
  <2>1. pc = "prune" /\ pc' = "prune" /\ i' = i /\ i \in 2 .. Len(match)
    BY <1>2, <1>11 DEF KeepLast, ReplaceLast, Pruning, Typed, Ranges
  <2>2. match' = RemoveAt(match, i) \/ match' = RemoveAt(match, i - 1)
    BY <1>11 DEF KeepLast, ReplaceLast
  <2>3. i \in 1 .. Len(match) /\ i - 1 \in 1 .. Len(match)
    BY <1>2, <2>1
  <2>4. Len(match') = Len(match) - 1
    BY <1>2, <2>2, <2>3, RemoveAtElements
  <2>5. MatchesLeft' < MatchesLeft
    BY <1>2, <2>1, <2>4 DEF MatchesLeft
  <2> QED
    BY <2>1, <2>5 DEF Phase
<1>12. CASE TakeNext
  <2>1. pc = "prune" /\ pc' = "prune" /\ i' = i + 1 /\ match' = match /\ i <= Len(match)
    BY <1>12 DEF TakeNext, Pruning
  <2>2. MatchesLeft' < MatchesLeft
    BY <1>2, <2>1 DEF MatchesLeft
  <2> QED
    BY <2>1, <2>2 DEF Phase
<1> QED
  BY <1>4, <1>5, <1>6, <1>7, <1>8, <1>9, <1>10, <1>11, <1>12 DEF Next

(* No call goes on for ever: every step brings it nearer to its end, in an  *)
(* order in which nothing descends for ever.  Erasing a match brings the   *)
(* iterator nearer to the end of the list as stepping over it does.        *)
THEOREM EveryStepDescends ==
  /\ IsWellFoundedOn(Order, Nat \X (Nat \X (Nat \X (Nat \X Nat))))
  /\ Spec => [](StepsLeft \in Nat \X (Nat \X (Nat \X (Nat \X Nat))))
  /\ Spec => StepsLeftDescend
<1>1. Typed /\ Arguments => StepsLeft \in Nat \X (Nat \X (Nat \X (Nat \X Nat)))
  BY CountsAreNumbers DEF StepsCounted, StepsLeft, Five
<1>2. Typed /\ Arguments /\ StepsCounted /\ StepsCounted' /\ [Next]_vars => [NearerToEnd]_vars
  BY StepDescends
<1>3. Spec => [](StepsLeft \in Nat \X (Nat \X (Nat \X (Nat \X Nat))))
  BY <1>1, TypesCorrect, PTL
<1>4. Spec => StepsLeftDescend
  BY <1>2, CountsAreNumbers, TypesCorrect, PTL DEF Spec, StepsLeftDescend
<1> QED
  BY <1>3, <1>4, OrderWellFounded

=============================================================================
