----------------------- MODULE ApproximateStringMatch -----------------------
(***************************************************************************)
(* approximateStringMatch (asm.h): all places of a text at which a pattern *)
(* ends with an edit distance of at most n, and where each of them starts. *)
(*                                                                         *)
(*  forward   d[p][t], the least distance between the first p symbols of    *)
(*            the pattern and a part of the text that ends before t        *)
(*  collect   a match for every end whose distance is at most n            *)
(*  next      head of the loop over the matches                            *)
(*  backward  d is computed again, from the end of one match to the left   *)
(*  start     the search for the start of that match in the first row      *)
(*  prune     of two overlapping matches the worse one is erased           *)
(*                                                                         *)
(* The two overloads differ in where a cost comes from: the matrix, or the *)
(* comparison of two symbols, which is a matrix of zeroes and ones.  The   *)
(* doubles are integers here, Unit being 1.0.  The pattern and the text may *)
(* be empty, as the features read from an empty file are: then the loops    *)
(* over their symbols are passed at once.                                  *)
(***************************************************************************)
EXTENDS Integers, Sequences, SequencesExt

CONSTANTS
  PatternSize,  \* symbols of the pattern
  MaxTextSize,  \* bound on the symbols of the text
  Unit,         \* the cost of an insertion and of a deletion, 1.0
  Costs,        \* what it may cost to replace a symbol
  Thresholds,   \* what the callers may pass for n
  Garbage       \* what memory holds that has not been assigned

ASSUME SizeAssumption ==
  /\ PatternSize \in Nat
  /\ MaxTextSize \in Nat

ASSUME CostAssumption ==
  /\ Unit \in Nat \ {0}
  /\ Costs \subseteq Nat
  /\ Thresholds \subseteq Nat
  /\ Garbage \in Int

VARIABLES
  textsize,              \* symbols of the text
  cost, n, overlapping,  \* the other arguments; none is ever assigned
  d,                     \* the matrix of distances
  match,                 \* the list of matches
  p, t,                  \* the loops' cell of d
  i,                     \* the loops' place in match
  last,                  \* the match that precedes i in the pruned list
  pc

vars == <<textsize, cost, n, overlapping, d, match, p, t, i, last, pc>>

args == <<textsize, cost, n, overlapping>>

Match(s, e, ed) == [start |-> s, end |-> e, edit_distance |-> ed]

(* An end of m lies in a. *)
overlaps(a, m) ==
  \/ m.start >= a.start /\ m.start <= a.end
  \/ m.end >= a.start /\ m.end <= a.end

Least(x, y, z) ==
  LET m == IF x < y THEN x ELSE y
  IN  IF m < z THEN m ELSE z

Row    == 0 .. PatternSize
Column == 0 .. textsize

(* Mutant: a match would have to start where the text starts. *)
FirstCellsAnchored ==
  [a \in Row |-> [b \in Column |->
     IF a = 0 THEN b * Unit ELSE IF b = 0 THEN a * Unit ELSE Garbage]]

(* A match may start anywhere in the text. *)
FirstCells ==
  [a \in Row |-> [b \in Column |->
     IF a = 0 THEN 0 ELSE IF b = 0 THEN a * Unit ELSE Garbage]]

Init ==
  /\ textsize \in 0 .. MaxTextSize
  /\ cost \in [0 .. PatternSize - 1 -> [0 .. textsize - 1 -> Costs]]
  /\ n \in Thresholds
  /\ overlapping \in BOOLEAN
  /\ d = FirstCells
  /\ match = <<>>
  /\ p = 1 /\ t = 1
  /\ i = 1
  /\ last = Match(0, 0, 0)
  /\ pc = IF textsize = 0 THEN "next"
          ELSE IF PatternSize = 0 THEN "collect" ELSE "forward"

-----------------------------------------------------------------------------
ForwardCell ==
  /\ pc = "forward"
  /\ d' = [d EXCEPT ![p][t] = Least(d[p - 1][t - 1] + cost[p - 1][t - 1],
                                        d[p][t - 1] + Unit,
                                        d[p - 1][t] + Unit)]
  /\ t' = IF t < textsize THEN t + 1 ELSE 1
  /\ p' = IF t < textsize THEN p ELSE p + 1
  /\ pc' = IF t = textsize /\ p = PatternSize THEN "collect" ELSE pc
  /\ UNCHANGED <<args, match, i, last>>

(* Mutants: the column taken for the text's index; an exact bound. *)
CollectColumn ==
  /\ pc = "collect"
  /\ match' = IF d[PatternSize][t] <= n
              THEN Append(match, Match(t, t, d[PatternSize][t]))
              ELSE match
  /\ t' = t + 1
  /\ pc' = IF t = textsize THEN "next" ELSE pc
  /\ UNCHANGED <<args, d, p, i, last>>

CollectBelow ==
  /\ pc = "collect"
  /\ match' = IF d[PatternSize][t] < n
              THEN Append(match, Match(t - 1, t - 1, d[PatternSize][t]))
              ELSE match
  /\ t' = t + 1
  /\ pc' = IF t = textsize THEN "next" ELSE pc
  /\ UNCHANGED <<args, d, p, i, last>>

(* Until its start is found a match starts where it ends. *)
Collect ==
  /\ pc = "collect"
  /\ match' = IF d[PatternSize][t] <= n
              THEN Append(match, Match(t - 1, t - 1, d[PatternSize][t]))
              ELSE match
  /\ t' = t + 1
  /\ pc' = IF t = textsize THEN "next" ELSE pc
  /\ UNCHANGED <<args, d, p, i, last>>

(* Mutant: the column behind the match keeps what was in it. *)
LastCellsStale ==
  LET E == match[i].end + 1
  IN  [a \in Row |-> [b \in Column |->
         IF a = PatternSize /\ b <= E THEN 0 ELSE d[a][b]]]

(* The last row up to the match's end, and the column behind it. *)
LastCells ==
  LET E == match[i].end + 1
  IN  [a \in Row |-> [b \in Column |->
         IF a = PatternSize /\ b <= E THEN 0
         ELSE IF b = E THEN (PatternSize - a) * Unit
         ELSE d[a][b]]]

StartBackward ==
  /\ pc = "next"
  /\ i <= Len(match)
  /\ d' = LastCells
  /\ p' = PatternSize - 1
  /\ IF PatternSize = 0 THEN pc' = "start" /\ t' = match[i].end + 1
     ELSE pc' = "backward" /\ t' = match[i].end
  /\ UNCHANGED <<args, match, i, last>>

BackwardCell ==
  /\ pc = "backward"
  /\ d' = [d EXCEPT ![p][t] = Least(d[p + 1][t + 1] + cost[p][t],
                                        d[p][t + 1] + Unit,
                                        d[p + 1][t] + Unit)]
  /\ t' = IF t > 0 THEN t - 1 ELSE IF p > 0 THEN match[i].end ELSE match[i].end + 1
  /\ p' = IF t = 0 /\ p > 0 THEN p - 1 ELSE p
  /\ pc' = IF t = 0 /\ p = 0 THEN "start" ELSE pc
  /\ UNCHANGED <<args, match, i, last>>

(* The code compares both rounded to 1e-6, as the sums are not exact. *)
StartHere ==
  /\ pc = "start"
  /\ t >= 0
  /\ d[0][t] = match[i].edit_distance
  /\ match' = [match EXCEPT ![i].start = t]
  /\ i' = i + 1
  /\ pc' = "next"
  /\ UNCHANGED <<args, d, p, t, last>>

StartNotHere ==
  /\ pc = "start"
  /\ t >= 0
  /\ d[0][t] # match[i].edit_distance
  /\ t' = t - 1
  /\ UNCHANGED <<args, d, match, p, i, last, pc>>

NoStart ==
  /\ pc = "start"
  /\ t < 0
  /\ i' = i + 1
  /\ pc' = "next"
  /\ UNCHANGED <<args, d, match, p, t, last>>

EndMatches ==
  /\ pc = "next"
  /\ i > Len(match)
  /\ overlapping
  /\ pc' = "done"
  /\ UNCHANGED <<args, d, match, p, t, i, last>>

-----------------------------------------------------------------------------
(* Pruning starts with the first match; without one it reads behind an     *)
(* empty list, which may or may not end the process.                       *)

StartPrune ==
  /\ pc = "next"
  /\ i > Len(match)
  /\ ~overlapping
  /\ IF match = <<>> THEN pc' \in {"crash", "done"} /\ UNCHANGED <<i, last>>
     ELSE pc' = "prune" /\ i' = 2 /\ last' = match[1]
  /\ UNCHANGED <<args, d, match, p, t>>

Pruning == pc = "prune" /\ i <= Len(match)

(* Mutant: the better one is erased. *)
KeepLastWorse ==
  /\ Pruning
  /\ overlaps(last, match[i])
  /\ last.edit_distance > match[i].edit_distance
  /\ match' = RemoveAt(match, i)
  /\ UNCHANGED <<args, d, p, t, i, last, pc>>

KeepLast ==
  /\ Pruning
  /\ overlaps(last, match[i])
  /\ last.edit_distance < match[i].edit_distance
  /\ match' = RemoveAt(match, i)
  /\ UNCHANGED <<args, d, p, t, i, last, pc>>

(* The predecessor is erased; the iterator steps back and forth again. *)
ReplaceLast ==
  /\ Pruning
  /\ overlaps(last, match[i])
  /\ last.edit_distance >= match[i].edit_distance
  /\ match' = RemoveAt(match, i - 1)
  /\ last' = match[i]
  /\ UNCHANGED <<args, d, p, t, i, pc>>

(* Mutant: the iterator is not moved. *)
TakeStays ==
  /\ Pruning
  /\ ~overlaps(last, match[i])
  /\ last' = match[i]
  /\ UNCHANGED <<args, d, match, p, t, i, pc>>

TakeNext ==
  /\ Pruning
  /\ ~overlaps(last, match[i])
  /\ last' = match[i]
  /\ i' = i + 1
  /\ UNCHANGED <<args, d, match, p, t, pc>>

EndPrune ==
  /\ pc = "prune"
  /\ i > Len(match)
  /\ pc' = "done"
  /\ UNCHANGED <<args, d, match, p, t, i, last>>

-----------------------------------------------------------------------------
Next ==
  \/ ForwardCell \/ Collect
  \/ StartBackward \/ BackwardCell \/ StartHere \/ StartNotHere \/ NoStart
  \/ EndMatches \/ StartPrune
  \/ KeepLast \/ ReplaceLast \/ TakeNext \/ EndPrune

Spec == Init /\ [][Next]_vars

(* The function runs in one thread and waits for nothing. *)
FairSpec == Spec /\ WF_vars(Next)

-----------------------------------------------------------------------------
(* What the function is to compute, without a recurrence.  An alignment    *)
(* pairs symbols of the pattern with symbols of the text, in order; the    *)
(* symbols of the pattern and of the window that it leaves out cost a Unit *)
(* each.  The window from s to e holds the symbols s, ..., e - 1.          *)

Alignments ==
  {A \in SUBSET ((0 .. PatternSize - 1) \X (0 .. textsize - 1)) :
     \A x, y \in A : \/ x = y
                     \/ x[1] < y[1] /\ x[2] < y[2]
                     \/ y[1] < x[1] /\ y[2] < x[2]}

PairsCost(A) == MapThenSumSet(LAMBDA c : cost[c[1]][c[2]], A)

AlignmentCost(A, s, e) ==
  PairsCost(A) + Unit * ((PatternSize - Cardinality(A)) + (e - s - Cardinality(A)))

WindowDistance(s, e) ==
  Min({AlignmentCost(A, s, e) :
         A \in {B \in Alignments : \A c \in B : s <= c[2] /\ c[2] < e}})

EndDistance(e)      == Min({WindowDistance(s, e) : s \in 0 .. e})
StartDistance(s, E) == Min({WindowDistance(s, e) : e \in s .. E})

Matches == {match[k] : k \in DOMAIN match}

MatchType == [start : Column, end : 0 .. textsize - 1, edit_distance : Int]

TypeOK ==
  /\ textsize \in 0 .. MaxTextSize
  /\ cost \in [0 .. PatternSize - 1 -> [0 .. textsize - 1 -> Costs]]
  /\ n \in Thresholds
  /\ overlapping \in BOOLEAN
  /\ d \in [Row -> [Column -> Int]]
  /\ match \in Seq(MatchType)
  /\ p \in -1 .. PatternSize + 1
  /\ t \in -1 .. textsize + 1
  /\ i \in Nat \ {0}
  /\ last \in MatchType \cup {Match(0, 0, 0)}
  /\ pc \in {"forward", "collect", "next", "backward", "start", "prune",
             "done", "crash"}

(* The matches collected are exactly the ends with some window before them *)
(* within the threshold, each with the least distance of such a window: no *)
(* cell is read before it is assigned, and none after the backward passes  *)
(* have overwritten it.                                                    *)
CandidatesExact ==
  (pc = "next" /\ i = 1) =>
    {<<m.end, m.edit_distance>> : m \in Matches}
      = {c \in {<<e - 1, EndDistance(e)>> : e \in 1 .. textsize} : c[2] <= n}

(* The start of a match is the last one from which a window that ends no   *)
(* later than the match has the match's distance; the window may end       *)
(* before the match does.  Without such a start the match is its last      *)
(* symbol alone.  The backward passes share d, each one starting from what *)
(* the ones before left in it.                                             *)
StartExact ==
  pc \in {"prune", "done"} =>
    \A m \in Matches :
      LET S == {s \in 0 .. m.end + 1 : StartDistance(s, m.end + 1) = m.edit_distance}
      IN  m.start = IF S = {} THEN m.end ELSE Max(S)

(* When a replacement costs nothing or as much as a deletion, every match  *)
(* has a start of its own distance.                                        *)
AlwaysAStart ==
  pc \in {"prune", "done"} =>
    \A m \in Matches : StartDistance(m.start, m.end + 1) = m.edit_distance

WholeCosts ==
  \A a \in 0 .. PatternSize - 1, b \in 0 .. textsize - 1 : cost[a][b] \in {0, Unit}

(* What the search computes: all the ends, and a start for each.           *)
MatchesExact == CandidatesExact /\ (WholeCosts => AlwaysAStart)

(* While pruning erases behind the iterator, last is the element before it. *)
LastIsPredecessor ==
  pc = "prune" => i >= 2 /\ i <= Len(match) + 1 /\ last = match[i - 1]

(* A match is erased only next to one that is as good and overlaps it.     *)
ErasedForBetter ==
  [][pc = "prune" =>
       \A m \in Matches \ Matches' :
         \E b \in Matches' : /\ b.edit_distance <= m.edit_distance
                             /\ overlaps(b, m) \/ overlaps(m, b)]_vars

(* The best match of the pattern in the text is among those returned,      *)
(* whatever pruning erased.                                                *)
BestMatchKept ==
  pc = "done" =>
    \A e \in 1 .. textsize :
      EndDistance(e) <= n => \E m \in Matches : m.edit_distance <= EndDistance(e)

(* No match is left only under a threshold below the pattern's length, or   *)
(* in an empty text, even with query.size() * 1.0: then pruning reads the  *)
(* first match of a list that has none.  Pruning itself never empties it.  *)
NoMatchExplained ==
  (pc = "crash" \/ (pc = "done" /\ match = <<>>)) =>
    n < PatternSize * Unit \/ textsize = 0

(* Every call ends: erasing and stepping both bring the iterator closer to *)
(* the end of the list.                                                    *)
Terminates == <>(pc \in {"done", "crash"})

(* The driver takes the left edge of a match from the component start and   *)
(* the right edge from the component end.                                  *)
StartsBeforeItEnds ==
  (pc = "done" /\ ~overlapping) => \A m \in Matches : m.start <= m.end
=============================================================================
