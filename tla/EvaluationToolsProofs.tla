------------------------ MODULE EvaluationToolsProofs ------------------------
(***************************************************************************)
(* The two programs a search is judged with, for any collections of pages, *)
(* texts, queries, records and sessions.                                   *)
(*                                                                         *)
(* The argument.  ground_truth_maker: the pairs before the place the loops *)
(* have reached have been displayed, and a pair behind it only if an       *)
(* earlier session has ended on its text.  graph: each counter is the size *)
(* of a set that grows with the file read, and a matching pair is told by  *)
(* either of its records when the boxes of the other list are disjoint.    *)
(***************************************************************************)
EXTENDS EvaluationTools, Sequences, FiniteSetTheorems, TLAPS

-----------------------------------------------------------------------------
(* What a list is when an element has been appended. *)
LEMMA Appended ==
  ASSUME NEW T, NEW s \in Seq(T), NEW e \in T, NEW r, r = Append(s, e)
  PROVE  /\ r \in Seq(T) /\ Len(r) = Len(s) + 1 /\ Len(s) \in Nat
         /\ \A m \in DOMAIN s : m \in DOMAIN r /\ r[m] = s[m]
         /\ Len(r) \in DOMAIN r /\ r[Len(r)] = e
         /\ \A m \in DOMAIN r : m \notin DOMAIN s => m = Len(r)
         /\ \A k, m \in DOMAIN r : k < m => k \in DOMAIN s
<1>1. Len(s) \in Nat /\ DOMAIN s = 1 .. Len(s)
  OBVIOUS
<1>2. r \in Seq(T) /\ Len(r) = Len(s) + 1 /\ r[Len(s) + 1] = e /\ \A m \in 1 .. Len(s) : r[m] = s[m]
  OBVIOUS
<1>3. DOMAIN r = 1 .. Len(s) + 1
  BY <1>1, <1>2
<1> QED
  BY <1>1, <1>2, <1>3

-----------------------------------------------------------------------------
(* ground_truth_maker. *)

TextNo  == 1 .. Len(Text)
QueryNo == 1 .. Len(Query)

Pair(a, b) == <<Text[a], Query[b]>>

(* The pairs that this session has displayed or skipped. *)
Past(a, b) == a <= start \/ a < i \/ (a = i /\ b <= j)

(* An earlier session has ended on text a. *)
Stale(a) == \E s \in stopped : s[2] = Text[a] /\ s[1] < session

MakerPlace ==
  /\ pc \in {"query", "wait", "ended"} => i \in TextNo /\ start < i
  /\ pc \in {"wait", "ended"} => /\ j \in QueryNo
                                 /\ textname = Text[i] /\ queryname = Query[j]
  /\ (pc \in {"text", "done"} /\ start < i) => j = Len(Query)
  /\ pc = "done" => i = Len(Text)
  /\ pc = "ended" => \E s \in stopped : s[2] = Text[i] /\ s[1] = session

MakerShown ==
  /\ stopped \subseteq Nat \X STRING \X STRING
  /\ pc = "wait" => Len(shown) > 0 /\ shown[Len(shown)] = Pair(i, j)
  /\ \A m \in DOMAIN shown : \E a \in TextNo, b \in QueryNo :
       shown[m] = Pair(a, b) /\ (Past(a, b) \/ Stale(a))
  /\ M!ShownAgain
  /\ unreadable \cap M!ToSet(Query) = {} =>
       \A a \in TextNo, b \in QueryNo :
         (Past(a, b) /\ Text[a] \notin unreadable) => \E m \in DOMAIN shown : shown[m] = Pair(a, b)

MakerDrags ==
  /\ records \in Seq([text : STRING, query : STRING, x1 : Nat, y1 : Nat, x2 : Nat, y2 : Nat])
  /\ drag \in Seq(Nat \X Nat)
  /\ \A k \in DOMAIN drag : drag[k][2] \in DOMAIN shown
  /\ M!OneDrag
  /\ press \in Nat
  /\ (careful /\ held) => pc \in {"wait", "ended"} /\ press = Len(shown)

MakerInv == M!TypeOK /\ careful \in BOOLEAN /\ MakerPlace /\ MakerShown /\ MakerDrags

LEMMA MakerInputs ==
  /\ Text \in Seq(STRING) /\ Query \in Seq(STRING)
  /\ Len(Text) \in Nat /\ Len(Query) \in Nat
  /\ \A k, m \in TextNo : Text[k] = Text[m] => k = m
  /\ \A k, m \in QueryNo : Query[k] = Query[m] => k = m
  /\ \A k \in TextNo : Text[k] \in STRING /\ Text[k] \in M!ToSet(Text)
  /\ \A k \in QueryNo : Query[k] \in STRING /\ Query[k] \in M!ToSet(Query)
  /\ \A x \in M!ToSet(Text) : \E k \in TextNo : x = Text[k]
  /\ \A x \in M!ToSet(Query) : \E k \in QueryNo : x = Query[k]
  /\ Point \subseteq Nat \X Nat
  /\ MaxRecords \in Nat /\ MaxSessions \in Nat \ {0}
<1>1. /\ Text \in Seq(STRING) /\ Query \in Seq(STRING)
      /\ \A k, m \in DOMAIN Text : Text[k] = Text[m] => k = m
      /\ \A k, m \in DOMAIN Query : Query[k] = Query[m] => k = m
      /\ Point \subseteq Nat \X Nat
      /\ MaxRecords \in Nat /\ MaxSessions \in Nat \ {0}
  BY EvaluationToolsAssumption DEF M!Inputs
<1>2. DOMAIN Text = TextNo /\ DOMAIN Query = QueryNo /\ Len(Text) \in Nat /\ Len(Query) \in Nat
  BY <1>1 DEF TextNo, QueryNo
<1>3. (\A k \in TextNo : Text[k] \in STRING) /\ (\A k \in QueryNo : Query[k] \in STRING)
  BY <1>1 DEF TextNo, QueryNo
<1> QED
  BY <1>1, <1>2, <1>3 DEF M!ToSet

LEMMA MakerTypes ==
  ASSUME MakerInv
  PROVE  /\ start \in Nat /\ i \in Nat /\ j \in Nat /\ session \in Nat
         /\ i <= Len(Text) /\ j <= Len(Query) /\ Len(Text) \in Nat /\ Len(Query) \in Nat
         /\ shown \in Seq(M!ToSet(Text) \X M!ToSet(Query))
         /\ DOMAIN shown = 1 .. Len(shown) /\ Len(shown) \in Nat
         /\ DOMAIN records = DOMAIN drag
<1>1. start \in 0 .. Len(Text) /\ i \in 0 .. Len(Text) /\ j \in 0 .. Len(Query)
  BY DEF MakerInv, M!TypeOK
<1>2. session \in 1 .. MaxSessions /\ Len(drag) = Len(records)
  BY DEF MakerInv, M!TypeOK
<1>3. shown \in Seq(M!ToSet(Text) \X M!ToSet(Query))
  BY DEF MakerInv, M!TypeOK
<1>4. /\ records \in Seq([text : STRING, query : STRING, x1 : Nat, y1 : Nat, x2 : Nat, y2 : Nat])
      /\ drag \in Seq(Nat \X Nat)
  BY DEF MakerInv, MakerDrags
<1>5. DOMAIN records = 1 .. Len(records) /\ DOMAIN drag = 1 .. Len(drag)
  BY <1>4
<1>6. DOMAIN shown = 1 .. Len(shown) /\ Len(shown) \in Nat
  BY <1>3
<1>7. Len(Text) \in Nat /\ Len(Query) \in Nat /\ MaxSessions \in Nat
  BY MakerInputs
<1> QED
  BY <1>1, <1>2, <1>3, <1>5, <1>6, <1>7

LEMMA PairsDiffer ==
  ASSUME NEW a \in TextNo, NEW c \in TextNo, NEW b \in QueryNo, NEW e \in QueryNo, Pair(a, b) = Pair(c, e)
  PROVE  a = c /\ b = e
<1>1. Text[a] = Text[c] /\ Query[b] = Query[e]
  BY DEF Pair
<1> QED
  BY <1>1, MakerInputs

LEMMA MakerInit == ASSUME M!Init PROVE MakerInv
<1>1. start = 0 /\ i = 0 /\ j = 0 /\ session = 1 /\ press = 0 /\ pc = "text"
  BY DEF M!Init
<1>2. textname = "" /\ queryname = "" /\ corner = <<0, 0>>
  BY DEF M!Init
<1>3. records = <<>> /\ shown = <<>> /\ drag = <<>> /\ stopped = {}
  BY DEF M!Init
<1>4. held = FALSE /\ careful \in BOOLEAN
  BY DEF M!Init
<1>5. M!TypeOK
  <2>1. shown \in Seq(M!ToSet(Text) \X M!ToSet(Query)) /\ Len(records) = 0 /\ Len(drag) = 0
    BY <1>3
  <2>2. corner \in Point \cup {<<0, 0>>} /\ held \in BOOLEAN
    BY <1>2, <1>4
  <2>3. textname \in {""} \cup M!ToSet(Text) /\ queryname \in {""} \cup M!ToSet(Query)
    BY <1>2
  <2>4. session \in 1 .. MaxSessions /\ Len(records) \in 0 .. MaxRecords /\ Len(drag) = Len(records)
    BY <1>1, <2>1, MakerInputs
  <2>5. start \in 0 .. Len(Text) /\ i \in 0 .. Len(Text) /\ j \in 0 .. Len(Query)
    BY <1>1, MakerInputs
  <2> QED
    BY <1>1, <2>1, <2>2, <2>3, <2>4, <2>5 DEF M!TypeOK
<1>6. MakerPlace
  BY <1>1 DEF MakerPlace
<1>7. MakerShown
  <2>1. \A a \in TextNo, b \in QueryNo : ~Past(a, b)
    BY <1>1 DEF Past, TextNo, QueryNo
  <2>2. DOMAIN shown = {} /\ pc # "wait"
    BY <1>1, <1>3
  <2> QED
    BY <1>3, <2>1, <2>2 DEF MakerShown, M!ShownAgain
<1>8. MakerDrags
  <2>1. DOMAIN records = {} /\ DOMAIN drag = {}
    BY <1>3
  <2>2. /\ records \in Seq([text : STRING, query : STRING, x1 : Nat, y1 : Nat, x2 : Nat, y2 : Nat])
        /\ drag \in Seq(Nat \X Nat)
    BY <1>3
  <2> QED
    BY <1>1, <1>4, <2>1, <2>2 DEF MakerDrags, M!OneDrag
<1> QED
  BY <1>4, <1>5, <1>6, <1>7, <1>8 DEF MakerInv

(* Steps that leave the loops' place, the displays and the records alone.  *)
LEMMA MakerText == ASSUME MakerInv, M!NextText \/ M!EndTexts \/ M!EndQueries PROVE MakerInv'
<1>1. /\ start' = start /\ textname' = textname /\ queryname' = queryname /\ corner' = corner
      /\ held' = held /\ records' = records /\ session' = session /\ shown' = shown
      /\ press' = press /\ drag' = drag /\ stopped' = stopped /\ careful' = careful
      /\ unreadable' = unreadable
  BY DEF M!NextText, M!EndTexts, M!EndQueries, M!names, M!mouse, M!history
<1>2. i \in 0 .. Len(Text) /\ j \in 0 .. Len(Query) /\ start \in 0 .. Len(Text)
  BY DEF MakerInv, M!TypeOK
<1>3. \/ /\ pc = "text" /\ i < Len(Text) /\ i' = i + 1 /\ i < start /\ j' = j /\ pc' = "text"
      \/ /\ pc = "text" /\ i < Len(Text) /\ i' = i + 1 /\ start <= i /\ j' = 0 /\ pc' = "query"
      \/ /\ pc = "text" /\ i = Len(Text) /\ i' = i /\ j' = j /\ pc' = "done"
      \/ /\ pc = "query" /\ j = Len(Query) /\ i' = i /\ j' = j /\ pc' = "text"
  BY <1>2 DEF M!NextText, M!EndTexts, M!EndQueries
<1>4. M!TypeOK'
  <2>1. i' \in 0 .. Len(Text) /\ j' \in 0 .. Len(Query) /\ pc' \in {"text", "query", "wait", "ended", "done"}
    BY <1>2, <1>3, MakerInputs
  <2> QED
    BY <1>1, <2>1 DEF MakerInv, M!TypeOK
<1>5. MakerPlace'
  BY <1>1, <1>2, <1>3, MakerInputs DEF MakerInv, MakerPlace, TextNo, QueryNo
<1>6. ASSUME NEW a \in TextNo, NEW b \in QueryNo PROVE Past(a, b)' <=> Past(a, b)
  <2>1. a \in Int /\ b \in 1 .. Len(Query) /\ i \in Int /\ j \in Int /\ start \in Int
    BY <1>2, MakerInputs DEF TextNo, QueryNo
  <2>2. pc = "text" /\ start < i => j = Len(Query)
    BY DEF MakerInv, MakerPlace
  <2>3. Past(a, b)' <=> a <= start \/ a < i' \/ (a = i' /\ b <= j')
    BY <1>1 DEF Past
  <2> QED
    BY <1>3, <2>1, <2>2, <2>3 DEF Past
<1>7. \A a : Stale(a)' <=> Stale(a)
  BY <1>1 DEF Stale
<1>8. MakerShown'
  <2>1. M!ShownAgain'
    BY <1>1 DEF MakerInv, MakerShown, M!ShownAgain
  <2>2. pc' # "wait"
    BY <1>3
  <2> QED
    BY <1>1, <1>6, <1>7, <2>1, <2>2 DEF MakerInv, MakerShown
<1>9. MakerDrags'
  <2>1. M!OneDrag'
    BY <1>1 DEF MakerInv, MakerDrags, M!OneDrag
  <2>2. ~(careful /\ held)
    BY <1>3 DEF MakerInv, MakerDrags
  <2> QED
    BY <1>1, <2>1, <2>2 DEF MakerInv, MakerDrags
<1> QED
  BY <1>1, <1>4, <1>5, <1>8, <1>9 DEF MakerInv

LEMMA MakerShow == ASSUME MakerInv, M!Show PROVE MakerInv'
<1>1. /\ start' = start /\ corner' = corner /\ i' = i
      /\ held' = held /\ records' = records /\ session' = session
      /\ press' = press /\ drag' = drag /\ careful' = careful
      /\ unreadable' = unreadable
  BY DEF M!Show, M!names, M!mouse, M!history
<1>2. /\ pc = "query" /\ j < Len(Query) /\ j' = j + 1 /\ textname' = Text[i] /\ queryname' = Query[j + 1]
  BY DEF M!Show
<1>3. \/ /\ {Text[i], Query[j + 1]} \cap unreadable # {}
         /\ stopped' = stopped \cup {<<session, Text[i], Query[j + 1]>>}
         /\ pc' = "ended" /\ shown' = shown
      \/ /\ shown' = Append(shown, <<Text[i], Query[j + 1]>>)
         /\ pc' = "wait" /\ stopped' = stopped
  BY DEF M!Show
<1>4. i \in TextNo /\ j' \in QueryNo /\ start < i /\ i \in Nat /\ j \in Nat /\ start \in Nat
  BY <1>2, MakerTypes DEF MakerInv, MakerPlace, TextNo, QueryNo
<1>5. Text[i] \in M!ToSet(Text) /\ Query[j + 1] \in M!ToSet(Query) /\ Text[i] \in STRING /\ Query[j + 1] \in STRING
  BY <1>2, <1>4, MakerInputs
<1>6. shown \in Seq(M!ToSet(Text) \X M!ToSet(Query)) /\ DOMAIN shown = 1 .. Len(shown) /\ Len(shown) \in Nat
  BY MakerTypes
<1>7. /\ shown' \in Seq(M!ToSet(Text) \X M!ToSet(Query))
      /\ \A m \in DOMAIN shown : m \in DOMAIN shown' /\ shown'[m] = shown[m]
      /\ pc' = "wait" => /\ Len(shown') > 0 /\ Len(shown') \in DOMAIN shown'
                         /\ shown'[Len(shown')] = Pair(i, j + 1)
      /\ \A m \in DOMAIN shown' : m \notin DOMAIN shown => pc' = "wait" /\ m = Len(shown')
      /\ \A k, m \in DOMAIN shown' : k < m => k \in DOMAIN shown
  <2>1. Pair(i, j + 1) \in M!ToSet(Text) \X M!ToSet(Query)
    BY <1>5 DEF Pair
  <2>2. CASE shown' = shown /\ pc' = "ended"
    BY <1>6, <2>2
  <2>3. CASE shown' = Append(shown, Pair(i, j + 1)) /\ pc' = "wait"
    BY <1>6, <2>1, <2>3, Appended
  <2> QED
    BY <1>3, <2>2, <2>3 DEF Pair
<1>8. M!TypeOK'
  <2>1. i' \in 0 .. Len(Text) /\ j' \in 0 .. Len(Query) /\ pc' \in {"text", "query", "wait", "ended", "done"}
    BY <1>1, <1>2, <1>3, <1>4, MakerInputs DEF TextNo, QueryNo
  <2> QED
    BY <1>1, <1>2, <1>5, <1>7, <2>1 DEF MakerInv, M!TypeOK
<1>9. MakerPlace'
  <2>1. pc' = "ended" => <<session, Text[i], Query[j + 1]>> \in stopped'
    BY <1>3
  <2>2. <<session, Text[i], Query[j + 1]>>[2] = Text[i] /\ <<session, Text[i], Query[j + 1]>>[1] = session
    OBVIOUS
  <2>3. pc' = "ended" => \E s \in stopped' : s[2] = Text[i] /\ s[1] = session
    BY <2>1, <2>2
  <2>4. pc' \in {"wait", "ended"}
    BY <1>3
  <2> QED
    BY <1>1, <1>2, <1>4, <2>3, <2>4 DEF MakerPlace
<1>10. \A a : Stale(a) => Stale(a)'
  <2>1. stopped \subseteq stopped'
    BY <1>3
  <2> QED
    BY <1>1, <2>1 DEF Stale
<1>11. ASSUME NEW a \in TextNo, NEW b \in QueryNo PROVE Past(a, b)' <=> Past(a, b) \/ (a = i /\ b = j + 1)
  <2>1. a \in Int /\ b \in Int
    BY MakerInputs DEF TextNo, QueryNo
  <2>2. Past(a, b)' <=> a <= start \/ a < i \/ (a = i /\ b <= j + 1)
    BY <1>1, <1>2 DEF Past
  <2> QED
    BY <1>4, <2>1, <2>2 DEF Past
<1>12. MakerShown'
  <2>1. stopped' \subseteq Nat \X STRING \X STRING
    <3>1. session \in Nat
      BY MakerTypes
    <3>2. <<session, Text[i], Query[j + 1]>> \in Nat \X STRING \X STRING
      BY <1>5, <3>1
    <3> QED
      BY <1>3, <3>2 DEF MakerInv, MakerShown
  <2>2. pc' = "wait" => Len(shown') > 0 /\ shown'[Len(shown')] = Pair(i, j + 1)
    BY <1>7
  <2>3. ASSUME NEW m \in DOMAIN shown', m \notin DOMAIN shown PROVE pc' = "wait" /\ m = Len(shown')
    BY <1>7, <2>3
  <2>4. ASSUME NEW m \in DOMAIN shown PROVE shown'[m] = shown[m] /\ m \in DOMAIN shown'
    BY <1>7
  <2>5. ASSUME NEW m \in DOMAIN shown'
        PROVE  \E a \in TextNo, b \in QueryNo : shown'[m] = Pair(a, b) /\ (Past(a, b)' \/ Stale(a)')
    <3>1. CASE m \in DOMAIN shown
      <4>1. PICK a \in TextNo, b \in QueryNo : shown[m] = Pair(a, b) /\ (Past(a, b) \/ Stale(a))
        BY <3>1 DEF MakerInv, MakerShown
      <4> QED
        BY <1>10, <1>11, <2>4, <3>1, <4>1
    <3>2. CASE m \notin DOMAIN shown
      BY <1>2, <1>4, <1>11, <2>2, <2>3, <3>2
    <3> QED
      BY <3>1, <3>2
  <2>6. M!ShownAgain'
    <3>1. SUFFICES ASSUME NEW k \in DOMAIN shown', NEW m \in DOMAIN shown', k < m, shown'[k] = shown'[m]
                   PROVE  \E s \in stopped' : s[2] = shown'[k][1] /\ s[1] < session
      BY <1>1 DEF M!ShownAgain
    <3>2. k \in DOMAIN shown
      BY <1>7, <3>1
    <3>3. CASE m \in DOMAIN shown
      <4>1. PICK s \in stopped : s[2] = shown[k][1] /\ s[1] < session
        BY <2>4, <3>1, <3>2, <3>3 DEF MakerInv, MakerShown, M!ShownAgain
      <4>2. s \in stopped'
        BY <1>3
      <4> QED
        BY <2>4, <3>2, <4>1, <4>2
    <3>4. CASE m \notin DOMAIN shown
      <4>1. shown[k] = Pair(i, j + 1)
        BY <2>2, <2>3, <2>4, <3>1, <3>2, <3>4
      <4>2. PICK a \in TextNo, b \in QueryNo : shown[k] = Pair(a, b) /\ (Past(a, b) \/ Stale(a))
        BY <3>2 DEF MakerInv, MakerShown
      <4>3. a = i /\ b = j + 1
        BY <1>2, <1>4, <4>1, <4>2, PairsDiffer
      <4>4. ~Past(a, b)
        BY <1>4, <4>3 DEF Past
      <4>5. Stale(i)
        BY <4>2, <4>3, <4>4
      <4>6. shown'[k][1] = Text[i]
        BY <2>4, <3>2, <4>1 DEF Pair
      <4>7. PICK s \in stopped : s[2] = Text[i] /\ s[1] < session
        BY <4>5 DEF Stale
      <4>8. s \in stopped'
        BY <1>3
      <4> QED
        BY <4>6, <4>7, <4>8
    <3> QED
      BY <3>3, <3>4
  <2>7. ASSUME unreadable \cap M!ToSet(Query) = {}, NEW a \in TextNo, NEW b \in QueryNo, Past(a, b)',
               Text[a] \notin unreadable
        PROVE  \E m \in DOMAIN shown' : shown'[m] = Pair(a, b)
    <3>1. CASE Past(a, b)
      <4>1. PICK m \in DOMAIN shown : shown[m] = Pair(a, b)
        BY <2>7, <3>1 DEF MakerInv, MakerShown
      <4> QED
        BY <2>4, <4>1
    <3>2. CASE a = i /\ b = j + 1
      <4>1. {Text[i], Query[j + 1]} \cap unreadable = {}
        BY <1>5, <2>7, <3>2
      <4>2. pc' = "wait"
        BY <1>3, <4>1
      <4>3. Len(shown') \in DOMAIN shown'
        BY <1>7, <4>2
      <4> QED
        BY <2>2, <3>2, <4>2, <4>3
    <3> QED
      BY <1>11, <2>7, <3>1, <3>2
  <2> QED
    BY <1>1, <1>2, <2>1, <2>2, <2>5, <2>6, <2>7 DEF MakerShown
<1>13. MakerDrags'
  <2>1. ~(careful /\ held)
    BY <1>2 DEF MakerInv, MakerDrags
  <2>2. DOMAIN shown \subseteq DOMAIN shown' /\ \A m \in DOMAIN shown : shown'[m] = shown[m]
    BY <1>7
  <2>3. DOMAIN records = DOMAIN drag
    BY MakerTypes
  <2>4. M!OneDrag'
    BY <1>1, <2>2, <2>3 DEF MakerInv, MakerDrags, M!OneDrag
  <2> QED
    BY <1>1, <2>1, <2>2, <2>4 DEF MakerInv, MakerDrags
<1> QED
  BY <1>1, <1>8, <1>9, <1>12, <1>13 DEF MakerInv

(* What the mouse and the keys do not touch stays true. *)
LEMMA MakerKeepsShown ==
  ASSUME MakerInv, pc \in {"query", "wait", "ended"}, pc' \in {"query", "wait", "ended"},
         start' = start, i' = i, j' = j, session' = session, shown' = shown,
         stopped' = stopped, unreadable' = unreadable, pc' = "wait" => pc = "wait"
  PROVE  MakerShown'
<1>1. \A a, b : Past(a, b)' <=> Past(a, b)
  BY DEF Past
<1>2. \A a : Stale(a)' <=> Stale(a)
  BY DEF Stale
<1>3. M!ShownAgain'
  BY DEF MakerInv, MakerShown, M!ShownAgain
<1> QED
  BY <1>1, <1>2, <1>3 DEF MakerInv, MakerShown

LEMMA MakerButton ==
  ASSUME MakerInv, M!ButtonDownElsewhere \/ M!Key \/ \E q \in Point : M!ButtonDown(q)
  PROVE  MakerInv'
<1>1. /\ start' = start /\ i' = i /\ j' = j /\ session' = session /\ shown' = shown
      /\ stopped' = stopped /\ unreadable' = unreadable /\ careful' = careful
      /\ textname' = textname /\ queryname' = queryname /\ records' = records /\ drag' = drag
  BY DEF M!ButtonDownElsewhere, M!Key, M!ButtonDown, M!names, M!mouse, M!history
<1>2. /\ pc = "wait"
      /\ \/ /\ held' = TRUE /\ pc' = pc /\ corner' \in Point /\ press' = Len(shown)
         \/ /\ held' = TRUE /\ pc' = pc /\ corner' = corner /\ press' = press /\ ~careful
         \/ /\ held' = held /\ pc' = "query" /\ corner' = corner /\ press' = press /\ (careful => ~held)
  BY DEF M!ButtonDownElsewhere, M!Key, M!ButtonDown, M!mouse, M!history
<1>3. M!TypeOK'
  <2>1. corner' \in Point \cup {<<0, 0>>} /\ held' \in BOOLEAN /\ pc' \in {"text", "query", "wait", "ended", "done"}
    BY <1>2 DEF MakerInv, M!TypeOK
  <2> QED
    BY <1>1, <2>1 DEF MakerInv, M!TypeOK
<1>4. MakerPlace'
  BY <1>1, <1>2 DEF MakerInv, MakerPlace
<1>5. MakerShown'
  BY <1>1, <1>2, MakerKeepsShown
<1>6. MakerDrags'
  <2>1. M!OneDrag'
    BY <1>1 DEF MakerInv, MakerDrags, M!OneDrag
  <2>2. press' \in Nat
    BY <1>2, MakerTypes DEF MakerInv, MakerDrags
  <2>3. (careful /\ held') => pc' \in {"wait", "ended"} /\ press' = Len(shown)
    BY <1>2 DEF MakerInv, MakerDrags
  <2> QED
    BY <1>1, <2>1, <2>2, <2>3 DEF MakerInv, MakerDrags
<1> QED
  BY <1>1, <1>3, <1>4, <1>5, <1>6 DEF MakerInv

(* A box is drawn: its names are those of the display. *)
LEMMA MakerUp == ASSUME MakerInv, NEW q \in Point, M!ButtonUp(q) PROVE MakerInv'
<1>1. /\ start' = start /\ i' = i /\ j' = j /\ session' = session /\ shown' = shown
      /\ stopped' = stopped /\ unreadable' = unreadable /\ careful' = careful
      /\ textname' = textname /\ queryname' = queryname /\ corner' = corner /\ press' = press
      /\ pc' = pc
  BY DEF M!ButtonUp, M!names
<1>2. pc = "wait" /\ held /\ ~held'
  BY DEF M!ButtonUp
<1>3. MakerPlace' /\ MakerShown'
  <2>1. MakerPlace'
    BY <1>1 DEF MakerInv, MakerPlace
  <2> QED
    BY <1>1, <1>2, <2>1, MakerKeepsShown
<1> DEFINE record == [text |-> textname, query |-> queryname,
                      x1 |-> corner[1], y1 |-> corner[2], x2 |-> q[1], y2 |-> q[2]]
           ends == <<press, Len(shown)>>
           Record0 == [text : STRING, query : STRING, x1 : Nat, y1 : Nat, x2 : Nat, y2 : Nat]
<1>4. records \in Seq(Record0) /\ drag \in Seq(Nat \X Nat) /\ Len(drag) = Len(records) /\ press \in Nat
  BY DEF MakerInv, MakerDrags, M!TypeOK
<1>5. Len(shown) \in Nat /\ Len(shown) \in DOMAIN shown /\ shown[Len(shown)] = Pair(i, j)
  <2>1. Len(shown) > 0 /\ shown[Len(shown)] = Pair(i, j)
    BY <1>2 DEF MakerInv, MakerShown
  <2> QED
    BY <2>1, MakerTypes
<1>6. textname = Text[i] /\ queryname = Query[j] /\ i \in TextNo /\ j \in QueryNo
  BY <1>2 DEF MakerInv, MakerPlace
<1>7. \/ records' = records /\ drag' = drag
      \/ /\ Len(records) < MaxRecords
         /\ records' = Append(records, record) /\ drag' = Append(drag, ends)
  BY DEF M!ButtonUp
<1>8. CASE records' = records /\ drag' = drag
  <2>1. M!TypeOK'
    BY <1>1, <1>2, <1>8 DEF MakerInv, M!TypeOK, M!ButtonUp
  <2>2. MakerDrags'
    BY <1>1, <1>2, <1>8 DEF MakerInv, MakerDrags, M!OneDrag
  <2> QED
    BY <1>1, <1>3, <2>1, <2>2 DEF MakerInv
<1>9. CASE /\ Len(records) < MaxRecords
           /\ records' = Append(records, record) /\ drag' = Append(drag, ends)
  <2>1. record \in Record0 /\ record.text = textname /\ record.query = queryname
    <3>1. corner \in Nat \X Nat /\ q \in Nat \X Nat
      <4>1. corner \in Point \cup {<<0, 0>>}
        BY DEF MakerInv, M!TypeOK
      <4> QED
        BY <4>1, MakerInputs
    <3>2. textname \in STRING /\ queryname \in STRING
      BY <1>6, MakerInputs
    <3>3. corner[1] \in Nat /\ corner[2] \in Nat /\ q[1] \in Nat /\ q[2] \in Nat
      BY <3>1
    <3> QED
      BY <3>2, <3>3
  <2>2. ends \in Nat \X Nat /\ ends[1] = press /\ ends[2] = Len(shown)
    BY <1>4, <1>5
  <2> HIDE DEF record, ends, Record0
  <2>3. /\ records' \in Seq(Record0) /\ Len(records') = Len(records) + 1 /\ Len(records) \in Nat
        /\ \A m \in DOMAIN records : m \in DOMAIN records' /\ records'[m] = records[m]
        /\ Len(records') \in DOMAIN records' /\ records'[Len(records')] = record
        /\ \A m \in DOMAIN records' : m \notin DOMAIN records => m = Len(records')
    BY <1>4, <1>9, <2>1, Appended
  <2>4. /\ drag' \in Seq(Nat \X Nat) /\ Len(drag') = Len(drag) + 1
        /\ \A m \in DOMAIN drag : m \in DOMAIN drag' /\ drag'[m] = drag[m]
        /\ Len(drag') \in DOMAIN drag' /\ drag'[Len(drag')] = ends
        /\ \A m \in DOMAIN drag' : m \notin DOMAIN drag => m = Len(drag')
    BY <1>4, <1>9, <2>2, Appended
  <2>5. M!TypeOK'
    <3>1. Len(records') \in 0 .. MaxRecords
      BY <1>9, <2>3, MakerInputs
    <3>2. held' \in BOOLEAN
      BY DEF M!ButtonUp
    <3> QED
      BY <1>1, <1>4, <2>3, <2>4, <3>1, <3>2 DEF MakerInv, M!TypeOK
  <2>6. DOMAIN records = DOMAIN drag /\ Len(records') = Len(drag')
    BY <1>4, <2>3, <2>4, MakerTypes
  <2>7. \A k \in DOMAIN drag' : drag'[k][2] \in DOMAIN shown
    BY <1>5, <2>2, <2>4 DEF MakerInv, MakerDrags
  <2>8. M!OneDrag'
    <3>1. SUFFICES ASSUME NEW k \in DOMAIN records'
                   PROVE  /\ shown[drag'[k][2]] = <<records'[k].text, records'[k].query>>
                          /\ careful => drag'[k][1] = drag'[k][2]
      BY <1>1 DEF M!OneDrag
    <3>2. CASE k \in DOMAIN records
      <4>1. drag'[k] = drag[k] /\ records'[k] = records[k]
        BY <2>3, <2>4, <2>6, <3>2
      <4> QED
        BY <3>2, <4>1 DEF MakerInv, MakerDrags, M!OneDrag
    <3>3. CASE k \notin DOMAIN records
      <4>1. k = Len(records') /\ drag'[k] = ends /\ records'[k] = record
        BY <2>3, <2>4, <2>6, <3>3
      <4>2. shown[Len(shown)] = <<record.text, record.query>>
        BY <1>5, <1>6, <2>1 DEF Pair
      <4>3. careful => press = Len(shown)
        BY <1>2 DEF MakerInv, MakerDrags
      <4> QED
        BY <2>2, <4>1, <4>2, <4>3
    <3> QED
      BY <3>2, <3>3
  <2>9. MakerDrags'
    BY <1>1, <1>2, <1>4, <2>3, <2>4, <2>7, <2>8 DEF MakerDrags, Record0
  <2> QED
    BY <1>1, <1>3, <2>5, <2>9 DEF MakerInv
<1> QED
  BY <1>7, <1>8, <1>9

LEMMA MakerStop == ASSUME MakerInv, M!Stop PROVE MakerInv'
<1>1. /\ start' = start /\ i' = i /\ j' = j /\ session' = session /\ shown' = shown
      /\ unreadable' = unreadable /\ careful' = careful
      /\ textname' = textname /\ queryname' = queryname /\ corner' = corner /\ press' = press
      /\ records' = records /\ drag' = drag /\ held' = held
  BY DEF M!Stop, M!names, M!mouse
<1>2. pc = "wait" /\ pc' = "ended" /\ stopped' = stopped \cup {<<session, textname, queryname>>}
  BY DEF M!Stop
<1>3. textname = Text[i] /\ queryname = Query[j] /\ i \in TextNo /\ j \in QueryNo /\ start < i
  BY <1>2 DEF MakerInv, MakerPlace
<1>4. M!TypeOK'
  BY <1>1, <1>2 DEF MakerInv, M!TypeOK
<1>5. \E s \in stopped' : s[2] = Text[i] /\ s[1] = session
  <2>1. <<session, textname, queryname>>[2] = Text[i] /\ <<session, textname, queryname>>[1] = session
    BY <1>3
  <2> QED
    BY <1>2, <2>1
<1>6. MakerPlace'
  BY <1>1, <1>2, <1>3, <1>5 DEF MakerPlace
<1>7. MakerShown'
  <2>1. stopped' \subseteq Nat \X STRING \X STRING
    <3>1. <<session, textname, queryname>> \in Nat \X STRING \X STRING
      BY <1>3, MakerTypes, MakerInputs
    <3> QED
      BY <1>2, <3>1 DEF MakerInv, MakerShown
  <2>2. stopped \subseteq stopped'
    BY <1>2
  <2>3. \A a, b : Past(a, b)' <=> Past(a, b)
    BY <1>1 DEF Past
  <2>4. \A a : Stale(a) => Stale(a)'
    BY <1>1, <2>2 DEF Stale
  <2>5. M!ShownAgain'
    BY <1>1, <2>2 DEF MakerInv, MakerShown, M!ShownAgain
  <2> QED
    BY <1>1, <1>2, <2>1, <2>3, <2>4, <2>5 DEF MakerInv, MakerShown
<1>8. MakerDrags'
  BY <1>1, <1>2 DEF MakerInv, MakerDrags, M!OneDrag
<1> QED
  BY <1>1, <1>4, <1>6, <1>7, <1>8 DEF MakerInv

(* What was displayed on the text a session ended at may be displayed      *)
(* again; what was before it is past for the next session, too.            *)
LEMMA MakerRestart == ASSUME MakerInv, M!Restart PROVE MakerInv'
<1>1. /\ unreadable' = unreadable /\ careful' = careful /\ records' = records /\ shown' = shown
      /\ drag' = drag /\ stopped' = stopped
  BY DEF M!Restart
<1>2. /\ pc = "ended" /\ session < MaxSessions /\ session' = session + 1
      /\ start' = IF textname \in unreadable THEN i ELSE i - 1
      /\ i' = 0 /\ j' = 0 /\ press' = 0 /\ pc' = "text"
  BY DEF M!Restart
<1>3. textname' = "" /\ queryname' = "" /\ corner' = <<0, 0>> /\ held' = FALSE
  BY DEF M!Restart
<1>4. i \in TextNo /\ start < i /\ textname = Text[i] /\ \E s \in stopped : s[2] = Text[i] /\ s[1] = session
  BY <1>2 DEF MakerInv, MakerPlace
<1>5. i \in Nat /\ i <= Len(Text) /\ Len(Text) \in Nat /\ Len(Query) \in Nat /\ start \in Nat /\ session \in Nat
  BY MakerTypes
<1>6. start' \in Nat /\ start' <= i /\ i - 1 <= start' /\ start' <= Len(Text)
  BY <1>2, <1>4, <1>5 DEF TextNo
<1>7. M!TypeOK'
  <2>1. start' \in 0 .. Len(Text) /\ i' \in 0 .. Len(Text) /\ j' \in 0 .. Len(Query)
    BY <1>2, <1>5, <1>6
  <2>2. session' \in 1 .. MaxSessions
    BY <1>2, <1>5, MakerInputs
  <2>3. corner' \in Point \cup {<<0, 0>>} /\ held' \in BOOLEAN
    BY <1>3
  <2>4. textname' \in {""} \cup M!ToSet(Text) /\ queryname' \in {""} \cup M!ToSet(Query)
    BY <1>3
  <2>5. pc' \in {"text", "query", "wait", "ended", "done"}
    BY <1>2
  <2> QED
    BY <1>1, <2>1, <2>2, <2>3, <2>4, <2>5 DEF MakerInv, M!TypeOK
<1>8. MakerPlace'
  BY <1>2, <1>6 DEF MakerPlace
<1>9. \A a : Stale(a) => Stale(a)'
  <2>1. \A s \in stopped : s[1] \in Nat
    BY DEF MakerInv, MakerShown
  <2> QED
    BY <1>1, <1>2, <1>5, <2>1 DEF Stale
<1>10. ASSUME NEW a, a = i PROVE Stale(a)'
  <2>1. PICK s \in stopped : s[2] = Text[i] /\ s[1] = session
    BY <1>4
  <2>2. s[1] < session'
    BY <1>2, <1>5, <2>1
  <2>3. \E r \in stopped' : r[2] = Text[i] /\ r[1] < session'
    BY <1>1, <2>1, <2>2
  <2> QED
    BY <1>10, <2>3 DEF Stale
<1>11. ASSUME NEW a \in TextNo, NEW b \in QueryNo, Past(a, b) PROVE Past(a, b)' \/ a = i
  <2>1. a \in Nat
    BY DEF TextNo
  <2> QED
    BY <1>4, <1>5, <1>6, <1>11, <2>1 DEF Past
<1>12. MakerShown'
  <2>1. M!ShownAgain'
    <3>1. \A s \in stopped : s[1] < session => s[1] < session'
      <4>1. \A s \in stopped : s[1] \in Nat
        BY DEF MakerInv, MakerShown
      <4> QED
        BY <1>2, <1>5, <4>1
    <3> QED
      BY <1>1, <3>1 DEF MakerInv, MakerShown, M!ShownAgain
  <2>2. ASSUME NEW m \in DOMAIN shown
        PROVE  \E a \in TextNo, b \in QueryNo : shown[m] = Pair(a, b) /\ (Past(a, b)' \/ Stale(a)')
    <3>1. PICK a \in TextNo, b \in QueryNo : shown[m] = Pair(a, b) /\ (Past(a, b) \/ Stale(a))
      BY DEF MakerInv, MakerShown
    <3>2. Past(a, b)' \/ Stale(a)'
      BY <1>9, <1>10, <1>11, <3>1
    <3> QED
      BY <3>1, <3>2
  <2>3. ASSUME unreadable \cap M!ToSet(Query) = {}, NEW a \in TextNo, NEW b \in QueryNo, Past(a, b)',
               Text[a] \notin unreadable
        PROVE  \E m \in DOMAIN shown : shown[m] = Pair(a, b)
    <3>1. a \in Nat /\ a <= start'
      <4>1. a \in 1 .. Len(Text) /\ b \in 1 .. Len(Query)
        BY DEF TextNo, QueryNo
      <4>2. a <= start' \/ a < 0 \/ (a = 0 /\ b <= 0)
        BY <1>2, <2>3 DEF Past
      <4> QED
        BY <4>1, <4>2
    <3>2. a < i
      <4>1. CASE textname \in unreadable
        BY <1>2, <1>4, <1>5, <2>3, <3>1, <4>1
      <4>2. CASE textname \notin unreadable
        BY <1>2, <1>5, <3>1, <4>2
      <4> QED
        BY <4>1, <4>2
    <3>3. Past(a, b)
      BY <3>2 DEF Past
    <3> QED
      BY <2>3, <3>3 DEF MakerInv, MakerShown
  <2> QED
    BY <1>1, <1>2, <2>1, <2>2, <2>3 DEF MakerInv, MakerShown
<1>13. MakerDrags'
  BY <1>1, <1>2, <1>3 DEF MakerInv, MakerDrags, M!OneDrag
<1> QED
  BY <1>1, <1>7, <1>8, <1>12, <1>13 DEF MakerInv

BoxesInv == tool = "ground_truth_maker" => MakerInv

LEMMA BoxesInductive ==
  /\ Init => BoxesInv
  /\ BoxesInv /\ [Next]_<<tool, pc, maker, curves>> => BoxesInv'
<1>1. Init => BoxesInv
  BY MakerInit DEF Init, BoxesInv
<1>2. ASSUME BoxesInv, Next PROVE BoxesInv'
  <2>1. CASE MakeGroundTruth
    <3>1. tool = "ground_truth_maker" /\ tool' = tool /\ M!Next
      BY <2>1 DEF MakeGroundTruth
    <3>2. MakerInv
      BY <1>2, <3>1 DEF BoxesInv
    <3>3. \/ M!NextText \/ M!EndTexts \/ M!Show \/ M!EndQueries
          \/ \E q \in Point : M!ButtonDown(q)
          \/ \E q \in Point : M!ButtonUp(q)
          \/ M!ButtonDownElsewhere \/ M!Key \/ M!Stop \/ M!Restart
      BY <3>1 DEF M!Next
    <3>4. MakerInv'
      BY <3>2, <3>3, MakerText, MakerShow, MakerButton, MakerUp, MakerStop, MakerRestart
    <3> QED
      BY <3>4 DEF BoxesInv
  <2>2. CASE DrawGraph
    BY <2>2 DEF DrawGraph, BoxesInv
  <2> QED
    BY <1>2, <2>1, <2>2 DEF Next
<1>3. ASSUME BoxesInv, UNCHANGED <<tool, pc, maker, curves>> PROVE BoxesInv'
  <2>1. /\ tool' = tool /\ pc' = pc /\ unreadable' = unreadable /\ careful' = careful /\ start' = start
        /\ i' = i /\ j' = j /\ textname' = textname /\ queryname' = queryname /\ corner' = corner
        /\ held' = held /\ records' = records /\ session' = session /\ shown' = shown
        /\ press' = press /\ drag' = drag /\ stopped' = stopped
    BY <1>3 DEF maker
  <2>2. M!TypeOK' = M!TypeOK
    BY <2>1 DEF M!TypeOK
  <2>3. MakerPlace' = MakerPlace
    BY <2>1 DEF MakerPlace
  <2>4. MakerDrags' = MakerDrags
    BY <2>1 DEF MakerDrags, M!OneDrag
  <2>5. MakerShown' = MakerShown
    <3>1. \A a, b : Past(a, b)' <=> Past(a, b)
      BY <2>1 DEF Past
    <3>2. \A a : Stale(a)' <=> Stale(a)
      BY <2>1 DEF Stale
    <3>3. M!ShownAgain' = M!ShownAgain
      BY <2>1 DEF M!ShownAgain
    <3> QED
      BY <2>1, <3>1, <3>2, <3>3 DEF MakerShown
  <2> QED
    BY <1>3, <2>1, <2>2, <2>3, <2>4, <2>5 DEF BoxesInv, MakerInv
<1> QED
  BY <1>1, <1>2, <1>3

(* ground_truth_maker: whatever the texts, the queries and the user do, a  *)
(* box bears the names of the pair on display when it was finished, and if *)
(* the user is careful it was begun on that display.                       *)
THEOREM BoxesOnDisplayHolds == Spec => []BoxesOnDisplay
<1>1. BoxesInv => BoxesOnDisplay
  BY DEF BoxesInv, BoxesOnDisplay, MakerInv, MakerDrags
<1> QED
  BY <1>1, BoxesInductive, PTL DEF Spec

(* When the maker is done all the pairs of a text that can be displayed    *)
(* have been, if all the queries can be.                                   *)
LEMMA MakerAll == ASSUME MakerInv PROVE M!AllShown
<1> SUFFICES ASSUME pc = "done", unreadable \cap M!ToSet(Query) = {},
                    NEW x \in M!ToSet(Text) \ unreadable, NEW q \in M!ToSet(Query)
             PROVE  <<x, q>> \in M!ToSet(shown)
  BY DEF M!AllShown
<1>1. PICK a \in TextNo, b \in QueryNo : x = Text[a] /\ q = Query[b]
  BY MakerInputs
<1>2. i = Len(Text) /\ (start < i => j = Len(Query))
  BY DEF MakerInv, MakerPlace
<1>3. a \in 1 .. Len(Text) /\ b \in 1 .. Len(Query)
  BY DEF TextNo, QueryNo
<1>4. Past(a, b)
  BY <1>2, <1>3, MakerTypes DEF Past
<1>5. PICK m \in DOMAIN shown : shown[m] = Pair(a, b)
  BY <1>1, <1>4 DEF MakerInv, MakerShown
<1> QED
  BY <1>1, <1>5 DEF Pair, M!ToSet

(* ground_truth_maker: over any number of sessions every pair is shown,    *)
(* and a pair is shown again only where an earlier session has ended on    *)
(* its text.                                                               *)
THEOREM PairsDisplayedHolds == Spec => []PairsDisplayed
<1>1. BoxesInv => PairsDisplayed
  BY MakerAll DEF BoxesInv, PairsDisplayed, MakerInv, MakerShown
<1> QED
  BY <1>1, BoxesInductive, PTL DEF Spec

-----------------------------------------------------------------------------
(* graph. *)

LEMMA SameFiniteSets == ASSUME NEW X PROVE E!IsFiniteSet(X) <=> IsFiniteSet(X)
  BY DEF E!IsFiniteSet, IsFiniteSet

LEMMA SameCardinality == ASSUME NEW X PROVE E!Cardinality(X) = Cardinality(X)
  BY DEF E!Cardinality, Cardinality

LEMMA CurveInputs ==
  /\ IsFiniteSet(Page) /\ MethodCount \in Nat
  /\ Threshold \subseteq Int /\ Threshold # {}
  /\ Record \cup Garbage \subseteq
       [query : STRING, x1 : Int, y1 : Int, x2 : Int, y2 : Int, editDistance : Int]
  /\ \A drawn \in SUBSET E!Method : NoFile # drawn
  /\ GroundTruths \subseteq [Page -> Seq(Record) \cup {NoFile}]
  /\ Outputs \subseteq [E!Method -> [Page -> Seq(Record) \cup {NoFile, Unreadable, Unparsable}]]
  /\ AbsentSets \subseteq SUBSET E!Method
  /\ MarkedSets \subseteq SUBSET (E!Method \X Page)
BY EvaluationToolsAssumption, SameFiniteSets DEF E!Inputs

Box == Record \cup Garbage

LEMMA PointsFinite == ASSUME NEW d \in Box PROVE IsFiniteSet(E!Points(d))
<1>1. d.x1 \in Int /\ d.x2 \in Int /\ d.y1 \in Int /\ d.y2 \in Int
  BY CurveInputs DEF Box
<1>2. IsFiniteSet(d.x1 .. d.x2) /\ IsFiniteSet(d.y1 .. d.y2)
  BY <1>1, FS_Interval
<1> QED
  BY <1>2, FS_Product DEF E!Points

(* A set cannot share more than half with each of two that share nothing. *)
LEMMA HalfOnce ==
  ASSUME NEW A, NEW B, NEW C, IsFiniteSet(A), IsFiniteSet(B), IsFiniteSet(C), B \cap C = {},
         2 * Cardinality(A \cap B) > Cardinality(A \cup B),
         2 * Cardinality(A \cap C) > Cardinality(A \cup C)
  PROVE  FALSE
<1> DEFINE P == A \cap B
           Q == A \cap C
<1>1. IsFiniteSet(P) /\ IsFiniteSet(Q) /\ P \cap Q = {} /\ P \cup Q \subseteq A
  BY FS_Subset
<1>2. Cardinality(P \cup Q) = Cardinality(P) + Cardinality(Q)
  <2>1. Cardinality(P \cup Q) = Cardinality(P) + Cardinality(Q) - Cardinality(P \cap Q)
    BY <1>1, FS_Union
  <2>2. Cardinality(P) \in Nat /\ Cardinality(Q) \in Nat /\ Cardinality(P \cap Q) = 0
    BY <1>1, FS_CardinalityType, FS_EmptySet
  <2> QED
    BY <2>1, <2>2
<1>3. Cardinality(P \cup Q) <= Cardinality(A)
  BY <1>1, FS_Subset
<1>4. IsFiniteSet(A \cup B) /\ IsFiniteSet(A \cup C)
  BY FS_Union
<1>5. Cardinality(A) <= Cardinality(A \cup B) /\ Cardinality(A) <= Cardinality(A \cup C)
  BY <1>4, FS_Subset
<1>6. /\ Cardinality(P) \in Nat /\ Cardinality(Q) \in Nat /\ Cardinality(A) \in Nat
      /\ Cardinality(A \cup B) \in Nat /\ Cardinality(A \cup C) \in Nat
  BY <1>1, <1>4, FS_CardinalityType
<1>7. 2 * Cardinality(P) > Cardinality(A \cup B) /\ 2 * Cardinality(Q) > Cardinality(A \cup C)
  OBVIOUS
<1> HIDE DEF P, Q
<1> QED
  BY <1>2, <1>3, <1>5, <1>6, <1>7

LEMMA MatchesOnce ==
  ASSUME NEW d \in Box, NEW e \in Box, NEW g \in Box, E!Points(e) \cap E!Points(g) = {}
  PROVE  /\ ~(E!Matches(d, e) /\ E!Matches(d, g))
         /\ ~(E!Matches(e, d) /\ E!Matches(g, d))
<1> DEFINE A == E!Points(d)
           B == E!Points(e)
           C == E!Points(g)
<1>1. IsFiniteSet(A) /\ IsFiniteSet(B) /\ IsFiniteSet(C) /\ B \cap C = {}
  BY PointsFinite
<1>2. E!Matches(d, e) => 2 * Cardinality(A \cap B) > Cardinality(A \cup B)
  BY SameCardinality DEF E!Matches
<1>3. E!Matches(d, g) => 2 * Cardinality(A \cap C) > Cardinality(A \cup C)
  BY SameCardinality DEF E!Matches
<1>4. E!Matches(e, d) => 2 * Cardinality(B \cap A) > Cardinality(B \cup A)
  BY SameCardinality DEF E!Matches
<1>5. E!Matches(g, d) => 2 * Cardinality(C \cap A) > Cardinality(C \cup A)
  BY SameCardinality DEF E!Matches
<1>6. B \cap A = A \cap B /\ B \cup A = A \cup B /\ C \cap A = A \cap C /\ C \cup A = A \cup C
  OBVIOUS
<1> HIDE DEF A, B, C
<1>7. ~(2 * Cardinality(A \cap B) > Cardinality(A \cup B) /\ 2 * Cardinality(A \cap C) > Cardinality(A \cup C))
  BY <1>1, HalfOnce
<1> QED
  BY <1>2, <1>3, <1>4, <1>5, <1>6, <1>7

Tagged(f, K) == {<<f, k>> : k \in K}

(* A set grows by the pairs of a new tag. *)
LEMMA TaggedAdd ==
  ASSUME NEW U, IsFiniteSet(U), NEW f, NEW K, IsFiniteSet(K), Tagged(f, K) \cap U = {}
  PROVE  /\ IsFiniteSet(U \cup Tagged(f, K))
         /\ Cardinality(U \cup Tagged(f, K)) = Cardinality(U) + Cardinality(K)
<1> DEFINE T == Tagged(f, K)
           b == [k \in K |-> <<f, k>>]
<1>1. b \in Bijection(K, T)
  BY DEF Tagged, Bijection, Injection, Surjection, IsInjective
<1>2. IsFiniteSet(T) /\ Cardinality(T) = Cardinality(K)
  BY <1>1, FS_Bijection DEF ExistsBijection
<1>3. /\ IsFiniteSet(U \cup T)
      /\ Cardinality(U \cup T) = Cardinality(U) + Cardinality(T) - Cardinality(U \cap T)
  BY <1>2, FS_Union
<1>4. U \cap T = {}
  OBVIOUS
<1>5. Cardinality(U) \in Nat /\ Cardinality(T) \in Nat /\ Cardinality(U \cap T) = 0
  BY <1>2, <1>4, FS_CardinalityType, FS_EmptySet
<1> QED
  BY <1>2, <1>3, <1>5

LEMMA FirstNumbers ==
  ASSUME NEW n \in Nat PROVE IsFiniteSet(1 .. n) /\ Cardinality(1 .. n) = n
<1>1. IsFiniteSet(1 .. n) /\ Cardinality(1 .. n) = IF 1 > n THEN 0 ELSE n - 1 + 1
  BY FS_Interval
<1> QED
  BY <1>1

LEMMA RecordSets ==
  ASSUME NEW out \in Seq(Box), NEW gt \in Seq(Box), NEW th \in Threshold
  PROVE  /\ IsFiniteSet(DOMAIN gt) /\ Cardinality(DOMAIN gt) = Len(gt)
         /\ IsFiniteSet(E!InEditDistance(out, th))
         /\ IsFiniteSet(E!MatchingPairs(out, gt, th))
         /\ E!numberOfDataInEditDistance(out, th) = Cardinality(E!InEditDistance(out, th))
         /\ E!numberOfMatchingDataInEditDistance(out, gt, th) = Cardinality(E!MatchingPairs(out, gt, th))
<1>1. Len(out) \in Nat /\ Len(gt) \in Nat /\ DOMAIN out = 1 .. Len(out) /\ DOMAIN gt = 1 .. Len(gt)
  OBVIOUS
<1>2. IsFiniteSet(DOMAIN out) /\ IsFiniteSet(DOMAIN gt) /\ Cardinality(DOMAIN gt) = Len(gt)
  BY <1>1, FirstNumbers
<1>3. IsFiniteSet(E!InEditDistance(out, th))
  BY <1>2, FS_Subset DEF E!InEditDistance
<1>4. IsFiniteSet(E!InEditDistance(out, th) \X (DOMAIN gt))
  BY <1>2, <1>3, FS_Product
<1>5. IsFiniteSet(E!MatchingPairs(out, gt, th))
  BY <1>4, FS_Subset DEF E!MatchingPairs
<1> QED
  BY <1>2, <1>3, <1>5, SameCardinality
  DEF E!numberOfDataInEditDistance, E!numberOfMatchingDataInEditDistance

CurveCounts ==
  /\ IsFiniteSet(E!AllRelevant) /\ relevant = Cardinality(E!AllRelevant)
  /\ \A th \in Threshold :
       /\ IsFiniteSet(E!AllRetrieved(th)) /\ retrieved[th] = Cardinality(E!AllRetrieved(th))
       /\ IsFiniteSet(E!AllMatching(th)) /\ retrieved_relevant[th] = Cardinality(E!AllMatching(th))

CurvePages ==
  pc = "page" =>
    /\ iOutputDir \in E!Method \ absent
    /\ unread \subseteq E!FilesOf(iOutputDir)
    /\ E!Evaluated \cap unread = {}
    /\ E!Evaluated \cup {f \in unread : E!Compared(iOutputDir, f)} =
         {f \in E!FilesOf(iOutputDir) : E!Compared(iOutputDir, f)}

CurveReports ==
  /\ csv = [m \in E!Method |-> csv[m]]
  /\ (frame \/ graph # NoFile) =>
       \A m \in E!Method \ absent : m < iOutputDir => graph # NoFile /\ m \in graph /\ csv[m] # <<>>
  /\ pc = "done" => graph # NoFile /\ iOutputDir > MethodCount

CurveInv ==
  /\ E!TypeOK
  /\ groundTruth \in GroundTruths /\ output \in Outputs /\ absent \subseteq E!Method
  /\ CurveCounts /\ CurvePages /\ CurveReports

LEMMA NoRecords ==
  ASSUME outputData = E!None, groundTruthData = E!None
  PROVE  /\ E!Evaluated = {} /\ E!AllRelevant = {}
         /\ \A th \in Threshold : E!AllRetrieved(th) = {} /\ E!AllMatching(th) = {}
         /\ DOMAIN groundTruthData = {}
BY DEF E!None, E!Evaluated, E!AllRelevant, E!AllRetrieved, E!AllMatching

LEMMA CurveInit == ASSUME E!Init PROVE CurveInv
<1>1. /\ groundTruth \in GroundTruths /\ output \in Outputs /\ absent \subseteq E!Method
      /\ iOutputDir = 1 /\ unread = {} /\ outputData = E!None /\ groundTruthData = E!None
      /\ relevant = 0 /\ graph = NoFile /\ pc = "method"
  BY CurveInputs DEF E!Init
<1>2. /\ retrieved = [th \in Threshold |-> 0] /\ retrieved_relevant = [th \in Threshold |-> 0]
      /\ csv = [m \in E!Method |-> <<>>]
  BY DEF E!Init
<1>3. /\ E!Evaluated = {} /\ E!AllRelevant = {}
      /\ \A th \in Threshold : E!AllRetrieved(th) = {} /\ E!AllMatching(th) = {}
      /\ DOMAIN groundTruthData = {}
  BY <1>1, NoRecords
<1>4. E!TypeOK
  <2>1. retrieved \in [Threshold -> Nat] /\ retrieved_relevant \in [Threshold -> Nat]
    BY <1>2
  <2>2. iOutputDir \in 1 .. MethodCount + 1
    BY <1>1, CurveInputs
  <2> QED
    BY <1>1, <1>3, <2>1, <2>2 DEF E!TypeOK
<1>5. CurveCounts
  BY <1>1, <1>2, <1>3, FS_EmptySet DEF CurveCounts
<1>6. CurvePages
  BY <1>1 DEF CurvePages
<1>7. CurveReports
  BY <1>1, <1>2 DEF CurveReports, E!Method
<1> QED
  BY <1>1, <1>4, <1>5, <1>6, <1>7 DEF CurveInv

LEMMA CurveOpen == ASSUME CurveInv, E!OpenMethod PROVE CurveInv'
<1>1. /\ pc = "method" /\ iOutputDir \in E!Method \ absent /\ unread' = E!FilesOf(iOutputDir) /\ pc' = "page"
      /\ groundTruth' = groundTruth /\ output' = output /\ absent' = absent /\ marked' = marked
      /\ frame' = frame /\ iOutputDir' = iOutputDir /\ csv' = csv /\ graph' = graph
      /\ outputData' = E!None /\ groundTruthData' = E!None /\ relevant' = 0
  BY DEF E!OpenMethod, E!NewCurve, E!given
<1>2. /\ retrieved' = [th \in Threshold |-> 0] /\ retrieved_relevant' = [th \in Threshold |-> 0]
  BY DEF E!OpenMethod, E!NewCurve
<1>3. /\ E!Evaluated' = {} /\ E!AllRelevant' = {}
      /\ \A th \in Threshold : E!AllRetrieved(th)' = {} /\ E!AllMatching(th)' = {}
      /\ DOMAIN groundTruthData' = {}
  BY <1>1 DEF E!None, E!Evaluated, E!AllRelevant, E!AllRetrieved, E!AllMatching
<1>4. E!TypeOK'
  <2>1. retrieved' \in [Threshold -> Nat] /\ retrieved_relevant' \in [Threshold -> Nat]
    BY <1>2
  <2>2. unread' \subseteq E!File
    BY <1>1 DEF E!FilesOf
  <2> QED
    BY <1>1, <1>3, <2>1, <2>2 DEF CurveInv, E!TypeOK
<1>5. CurveCounts'
  BY <1>1, <1>2, <1>3, FS_EmptySet DEF CurveCounts
<1>6. CurvePages'
  <2>1. E!FilesOf(iOutputDir)' = E!FilesOf(iOutputDir)
    BY <1>1 DEF E!FilesOf
  <2> QED
    BY <1>1, <1>3, <2>1 DEF CurvePages
<1>7. CurveReports'
  BY <1>1 DEF CurveInv, CurveReports
<1> QED
  BY <1>1, <1>4, <1>5, <1>6, <1>7 DEF CurveInv

(* Steps that count nothing. *)
LEMMA CountsKept ==
  ASSUME CurveInv, outputData' = outputData, groundTruthData' = groundTruthData, relevant' = relevant,
         retrieved' = retrieved, retrieved_relevant' = retrieved_relevant
  PROVE  CurveCounts' /\ E!Evaluated' = E!Evaluated
BY DEF CurveInv, CurveCounts, E!Evaluated, E!AllRelevant, E!AllRetrieved, E!AllMatching

LEMMA CurveSkip == ASSUME CurveInv, E!SkipMethod \/ \E f \in E!File : E!SkipFile(f) PROVE CurveInv'
<1>1. /\ groundTruth' = groundTruth /\ output' = output /\ absent' = absent /\ marked' = marked
      /\ frame' = frame /\ csv' = csv /\ graph' = graph /\ pc' = pc
      /\ outputData' = outputData /\ groundTruthData' = groundTruthData /\ relevant' = relevant
      /\ retrieved' = retrieved /\ retrieved_relevant' = retrieved_relevant
  BY DEF E!SkipMethod, E!SkipFile, E!given, E!curve
<1>2. CurveCounts' /\ E!Evaluated' = E!Evaluated
  BY <1>1, CountsKept
<1>3. CASE E!SkipMethod
  <2>1. pc = "method" /\ iOutputDir \in absent /\ iOutputDir' = iOutputDir + 1 /\ unread' = unread
    BY <1>3 DEF E!SkipMethod
  <2>2. iOutputDir \in Nat /\ iOutputDir' \in 1 .. MethodCount + 1
    BY <2>1, CurveInputs DEF CurveInv, E!Method
  <2>3. E!TypeOK'
    BY <1>1, <1>2, <2>1, <2>2 DEF CurveInv, E!TypeOK
  <2>4. CurvePages'
    BY <1>1, <2>1 DEF CurvePages
  <2>5. \A m \in E!Method \ absent : m < iOutputDir' => m < iOutputDir
    BY <2>1, <2>2 DEF E!Method
  <2>6. CurveReports'
    BY <1>1, <2>1, <2>5 DEF CurveInv, CurveReports
  <2> QED
    BY <1>1, <1>2, <2>3, <2>4, <2>6 DEF CurveInv
<1>4. CASE \E f \in E!File : E!SkipFile(f)
  <2>1. PICK f \in E!File : E!SkipFile(f)
    BY <1>4
  <2>2. pc = "page" /\ f \in unread /\ ~E!Compared(iOutputDir, f) /\ unread' = unread \ {f} /\ iOutputDir' = iOutputDir
    BY <2>1 DEF E!SkipFile
  <2>3. E!TypeOK'
    BY <1>1, <1>2, <2>2 DEF CurveInv, E!TypeOK
  <2>4. \A g : E!Compared(iOutputDir, g)' <=> E!Compared(iOutputDir, g)
    BY <1>1, <2>2 DEF E!Compared
  <2>5. E!FilesOf(iOutputDir)' = E!FilesOf(iOutputDir)
    BY <1>1, <2>2 DEF E!FilesOf
  <2>6. CurvePages'
    BY <1>1, <1>2, <2>2, <2>4, <2>5 DEF CurveInv, CurvePages
  <2>7. CurveReports'
    BY <1>1, <2>2 DEF CurveInv, CurveReports
  <2> QED
    BY <1>1, <1>2, <2>3, <2>6, <2>7 DEF CurveInv
<1> QED
  BY <1>3, <1>4

(* One file more: each set gets the pairs of that file. *)
LEMMA CurveEvaluate == ASSUME CurveInv, NEW f \in E!File, E!EvaluateFile(f) PROVE CurveInv'
<1>1. /\ pc = "page" /\ f \in unread /\ E!Compared(iOutputDir, f) /\ unread' = unread \ {f}
      /\ groundTruth' = groundTruth /\ output' = output /\ absent' = absent /\ marked' = marked
      /\ frame' = frame /\ iOutputDir' = iOutputDir /\ csv' = csv /\ graph' = graph /\ pc' = pc
  BY DEF E!EvaluateFile, E!given
<1>2. PICK contents \in E!Contents(f) \ {Unparsable} :
        \E out \in E!ReadRecords(contents), gt \in E!ReadRecords(groundTruth[f[1]]) :
         /\ outputData' = E!Extend(outputData, f, out)
         /\ groundTruthData' = E!Extend(groundTruthData, f, gt)
         /\ relevant' = relevant + Len(gt)
         /\ retrieved' = [th \in Threshold |-> retrieved[th] + E!numberOfDataInEditDistance(out, th)]
         /\ retrieved_relevant' = [th \in Threshold |->
              retrieved_relevant[th] + E!numberOfMatchingDataInEditDistance(out, gt, th)]
  BY DEF E!EvaluateFile
<1>3. PICK out \in E!ReadRecords(contents), gt \in E!ReadRecords(groundTruth[f[1]]) :
         /\ outputData' = E!Extend(outputData, f, out)
         /\ groundTruthData' = E!Extend(groundTruthData, f, gt)
         /\ relevant' = relevant + Len(gt)
         /\ retrieved' = [th \in Threshold |-> retrieved[th] + E!numberOfDataInEditDistance(out, th)]
         /\ retrieved_relevant' = [th \in Threshold |->
              retrieved_relevant[th] + E!numberOfMatchingDataInEditDistance(out, gt, th)]
  BY <1>2
<1>4. out \in Seq(Box) /\ gt \in Seq(Box)
  <2>1. f[1] \in Page /\ iOutputDir \in E!Method
    BY <1>1 DEF E!File, CurveInv, CurvePages
  <2>2. groundTruth[f[1]] \in Seq(Record)
    BY <1>1, <2>1, CurveInputs DEF CurveInv, E!Compared
  <2>3. output[iOutputDir][f[1]] \in Seq(Record) \cup {NoFile, Unreadable, Unparsable}
    BY <2>1, CurveInputs DEF CurveInv
  <2>4. f \in E!FilesOf(iOutputDir) /\ f[2] \in {"txt", "png"}
    BY <1>1 DEF CurveInv, CurvePages, E!File
  <2>5. f[2] # "png" => f[2] = "txt" /\ contents = output[iOutputDir][f[1]]
    BY <1>2, <2>4 DEF E!Contents
  <2>6. f[2] = "png" => contents = <<>>
    BY <1>2 DEF E!Contents
  <2>7. contents \in Seq(Record)
    <3>1. CASE f[2] = "png"
      BY <3>1, <2>6
    <3>2. CASE f[2] # "png"
      BY <3>2, <1>1, <1>2, <2>3, <2>4, <2>5 DEF E!Compared, E!FilesOf
    <3> QED
      BY <3>1, <3>2
  <2>8. ASSUME NEW c \in Seq(Record), NEW r \in E!ReadRecords(c) PROVE r \in Seq(Box)
    <3>1. c \in Seq(Box) /\ \A g \in Garbage : <<g>> \in Seq(Box)
      BY DEF Box
    <3>2. r = c \/ \E g \in Garbage : r = <<g>>
      BY DEF E!ReadRecords
    <3> QED
      BY <3>1, <3>2
  <2> QED
    BY <1>3, <2>2, <2>7, <2>8
<1>5. /\ DOMAIN outputData = E!Evaluated /\ DOMAIN groundTruthData = E!Evaluated /\ f \notin E!Evaluated
      /\ relevant \in Nat /\ retrieved \in [Threshold -> Nat] /\ retrieved_relevant \in [Threshold -> Nat]
  BY <1>1 DEF CurveInv, CurvePages, E!TypeOK, E!Evaluated
<1>6. /\ outputData' = [g \in E!Evaluated \cup {f} |-> IF g = f THEN out ELSE outputData[g]]
      /\ groundTruthData' = [g \in E!Evaluated \cup {f} |-> IF g = f THEN gt ELSE groundTruthData[g]]
      /\ E!Evaluated' = E!Evaluated \cup {f}
  BY <1>3, <1>5 DEF E!Extend, E!Evaluated
<1>7. /\ outputData'[f] = out /\ groundTruthData'[f] = gt
      /\ \A g \in E!Evaluated : outputData'[g] = outputData[g] /\ groundTruthData'[g] = groundTruthData[g]
  BY <1>5, <1>6
<1>8. E!AllRelevant' = E!AllRelevant \cup {<<f, k>> : k \in DOMAIN gt}
  <2>1. E!AllRelevant' = UNION {{<<g, k>> : k \in DOMAIN groundTruthData'[g]} : g \in E!Evaluated \cup {f}}
    BY <1>6 DEF E!AllRelevant
  <2>2. E!AllRelevant = UNION {{<<g, k>> : k \in DOMAIN groundTruthData'[g]} : g \in E!Evaluated}
    BY <1>7 DEF E!AllRelevant
  <2> QED
    BY <1>7, <2>1, <2>2
<1>9. ASSUME NEW th \in Threshold
      PROVE  /\ E!AllRetrieved(th)' = E!AllRetrieved(th) \cup {<<f, k>> : k \in E!InEditDistance(out, th)}
             /\ E!AllMatching(th)' = E!AllMatching(th) \cup {<<f, c>> : c \in E!MatchingPairs(out, gt, th)}
  <2>1. E!AllRetrieved(th)' =
          UNION {{<<g, k>> : k \in E!InEditDistance(outputData'[g], th)} : g \in E!Evaluated \cup {f}}
    BY <1>6 DEF E!AllRetrieved, E!InEditDistance
  <2>2. E!AllRetrieved(th) =
          UNION {{<<g, k>> : k \in E!InEditDistance(outputData'[g], th)} : g \in E!Evaluated}
    BY <1>7 DEF E!AllRetrieved
  <2>3. E!AllMatching(th)' =
          UNION {{<<g, c>> : c \in E!MatchingPairs(outputData'[g], groundTruthData'[g], th)} : g \in E!Evaluated \cup {f}}
    BY <1>6 DEF E!AllMatching, E!MatchingPairs, E!InEditDistance, E!Matches, E!Points
  <2>4. E!AllMatching(th) =
          UNION {{<<g, c>> : c \in E!MatchingPairs(outputData'[g], groundTruthData'[g], th)} : g \in E!Evaluated}
    BY <1>7 DEF E!AllMatching
  <2>5. E!AllRetrieved(th)' = E!AllRetrieved(th) \cup {<<f, k>> : k \in E!InEditDistance(out, th)}
    BY <1>7, <2>1, <2>2
  <2>6. E!AllMatching(th)' = E!AllMatching(th) \cup {<<f, c>> : c \in E!MatchingPairs(out, gt, th)}
    BY <1>7, <2>3, <2>4
  <2> QED
    BY <2>5, <2>6
<1>10. IsFiniteSet(E!AllRelevant)' /\ relevant' = Cardinality(E!AllRelevant)'
  <2>1. \A x \in E!AllRelevant : x[1] # f
    BY <1>5 DEF E!AllRelevant
  <2>2. IsFiniteSet(DOMAIN gt) /\ Cardinality(DOMAIN gt) = Len(gt)
    BY <1>4, CurveInputs, RecordSets
  <2>3. IsFiniteSet(E!AllRelevant) /\ relevant = Cardinality(E!AllRelevant)
    BY DEF CurveInv, CurveCounts
  <2>4. Tagged(f, DOMAIN gt) \cap E!AllRelevant = {}
    BY <2>1 DEF Tagged
  <2>5. E!AllRelevant' = E!AllRelevant \cup Tagged(f, DOMAIN gt)
    BY <1>8 DEF Tagged
  <2>6. IsFiniteSet(E!AllRelevant') /\ Cardinality(E!AllRelevant') = relevant + Len(gt)
    BY <2>2, <2>3, <2>4, <2>5, TaggedAdd
  <2> QED
    BY <1>3, <2>6
<1>11. ASSUME NEW th \in Threshold
       PROVE  /\ IsFiniteSet(E!AllRetrieved(th))' /\ retrieved'[th] = Cardinality(E!AllRetrieved(th))'
              /\ IsFiniteSet(E!AllMatching(th))' /\ retrieved_relevant'[th] = Cardinality(E!AllMatching(th))'
  <2>1. (\A x \in E!AllRetrieved(th) : x[1] # f) /\ (\A x \in E!AllMatching(th) : x[1] # f)
    BY <1>5 DEF E!AllRetrieved, E!AllMatching
  <2>2. /\ IsFiniteSet(E!InEditDistance(out, th)) /\ IsFiniteSet(E!MatchingPairs(out, gt, th))
        /\ E!numberOfDataInEditDistance(out, th) = Cardinality(E!InEditDistance(out, th))
        /\ E!numberOfMatchingDataInEditDistance(out, gt, th) = Cardinality(E!MatchingPairs(out, gt, th))
    BY <1>4, RecordSets
  <2>3. /\ IsFiniteSet(E!AllRetrieved(th)) /\ retrieved[th] = Cardinality(E!AllRetrieved(th))
        /\ IsFiniteSet(E!AllMatching(th)) /\ retrieved_relevant[th] = Cardinality(E!AllMatching(th))
    BY DEF CurveInv, CurveCounts
  <2> DEFINE newR == Tagged(f, E!InEditDistance(out, th))
             newM == Tagged(f, E!MatchingPairs(out, gt, th))
  <2>4. newR \cap E!AllRetrieved(th) = {} /\ newM \cap E!AllMatching(th) = {}
    BY <2>1 DEF Tagged
  <2>5. E!AllRetrieved(th)' = E!AllRetrieved(th) \cup newR /\ E!AllMatching(th)' = E!AllMatching(th) \cup newM
    BY <1>9 DEF Tagged
  <2>6. /\ retrieved'[th] = retrieved[th] + Cardinality(E!InEditDistance(out, th))
        /\ retrieved_relevant'[th] = retrieved_relevant[th] + Cardinality(E!MatchingPairs(out, gt, th))
    BY <1>3, <2>2
  <2>7. /\ IsFiniteSet(E!AllRetrieved(th) \cup newR)
        /\ Cardinality(E!AllRetrieved(th) \cup newR) = retrieved'[th]
    BY <2>2, <2>3, <2>4, <2>6, TaggedAdd
  <2>8. /\ IsFiniteSet(E!AllMatching(th) \cup newM)
        /\ Cardinality(E!AllMatching(th) \cup newM) = retrieved_relevant'[th]
    BY <2>2, <2>3, <2>4, <2>6, TaggedAdd
  <2> QED
    BY <2>5, <2>7, <2>8
<1>12. CurveCounts'
  BY <1>10, <1>11 DEF CurveCounts
<1>13. E!TypeOK'
  <2>1. relevant' \in Nat
    BY <1>10, FS_CardinalityType
  <2>2. retrieved' \in [Threshold -> Nat] /\ retrieved_relevant' \in [Threshold -> Nat]
    <3>1. \A th \in Threshold : retrieved'[th] \in Nat /\ retrieved_relevant'[th] \in Nat
      BY <1>11, FS_CardinalityType
    <3> QED
      BY <1>3, <3>1
  <2>3. DOMAIN groundTruthData' = E!Evaluated' /\ E!Evaluated' \subseteq E!File
    BY <1>6 DEF CurveInv, E!TypeOK
  <2>4. \A g \in E!Evaluated' : outputData'[g] \in Seq(Box) /\ groundTruthData'[g] \in Seq(Box)
    BY <1>4, <1>6, <1>7 DEF CurveInv, E!TypeOK, Box
  <2> QED
    BY <1>1, <2>1, <2>2, <2>3, <2>4 DEF CurveInv, E!TypeOK, Box
<1>14. CurvePages'
  <2>1. \A g : E!Compared(iOutputDir, g)' <=> E!Compared(iOutputDir, g)
    BY <1>1 DEF E!Compared
  <2>2. E!FilesOf(iOutputDir)' = E!FilesOf(iOutputDir)
    BY <1>1 DEF E!FilesOf
  <2> QED
    BY <1>1, <1>6, <2>1, <2>2 DEF CurveInv, CurvePages
<1>15. CurveReports'
  BY <1>1 DEF CurveInv, CurveReports
<1> QED
  BY <1>1, <1>12, <1>13, <1>14, <1>15 DEF CurveInv

LEMMA CurvePlot == ASSUME CurveInv, E!Plot PROVE CurveInv'
<1>1. /\ pc = "page" /\ unread = {} /\ iOutputDir' = iOutputDir + 1 /\ pc' = "method"
      /\ groundTruth' = groundTruth /\ output' = output /\ absent' = absent /\ marked' = marked
      /\ frame' = frame /\ unread' = unread
      /\ outputData' = outputData /\ groundTruthData' = groundTruthData /\ relevant' = relevant
      /\ retrieved' = retrieved /\ retrieved_relevant' = retrieved_relevant
  BY DEF E!Plot, E!given, E!curve
<1>2. CurveCounts' /\ E!Evaluated' = E!Evaluated
  BY <1>1, CountsKept
<1>3. iOutputDir \in E!Method /\ iOutputDir \in Nat /\ iOutputDir' \in 1 .. MethodCount + 1
  BY <1>1, CurveInputs DEF CurveInv, CurvePages, E!Method
<1>4. CurvePages'
  BY <1>1 DEF CurvePages
<1>5. CASE graph = NoFile /\ ~frame
  <2>1. csv' = csv /\ graph' = graph
    BY <1>5 DEF E!Plot
  <2>2. E!TypeOK'
    BY <1>1, <1>2, <1>3, <2>1 DEF CurveInv, E!TypeOK
  <2>3. CurveReports'
    BY <1>1, <1>5, <2>1 DEF CurveInv, CurveReports
  <2> QED
    BY <1>1, <1>2, <1>4, <2>2, <2>3 DEF CurveInv
<1>6. CASE ~(graph = NoFile /\ ~frame)
  <2> DEFINE drawn == IF graph = NoFile THEN {} ELSE graph
  <2>1. csv' = [csv EXCEPT ![iOutputDir] = E!Rows] /\ graph' = drawn \cup {iOutputDir}
    BY <1>6 DEF E!Plot
  <2>2. drawn \subseteq E!Method
    BY DEF CurveInv, E!TypeOK
  <2>3. graph' \subseteq E!Method /\ graph' # NoFile
    BY <1>3, <2>1, <2>2, CurveInputs
  <2>4. E!TypeOK'
    BY <1>1, <1>2, <1>3, <2>3 DEF CurveInv, E!TypeOK
  <2>5. E!Rows # <<>>
    <3>1. DOMAIN E!Rows = Threshold
      BY DEF E!Rows
    <3>2. DOMAIN <<>> = {}
      OBVIOUS
    <3> QED
      BY <3>1, <3>2, CurveInputs
  <2>6. /\ csv' = [m \in E!Method |-> csv'[m]] /\ csv'[iOutputDir] = E!Rows
        /\ \A m \in E!Method : m # iOutputDir => csv'[m] = csv[m]
    BY <1>3, <2>1 DEF CurveInv, CurveReports
  <2>7. ASSUME NEW m \in E!Method \ absent, m < iOutputDir'
        PROVE  m \in graph' /\ csv'[m] # <<>>
    <3>1. m < iOutputDir \/ m = iOutputDir
      BY <1>1, <1>3, <2>7 DEF E!Method
    <3>2. CASE m = iOutputDir
      BY <2>1, <2>5, <2>6, <3>2
    <3>3. CASE m < iOutputDir
      <4>1. m # iOutputDir
        BY <1>3, <3>3 DEF E!Method
      <4>2. m \in graph /\ graph # NoFile /\ csv[m] # <<>>
        BY <1>6, <3>3 DEF CurveInv, CurveReports
      <4> QED
        BY <2>1, <2>6, <4>1, <4>2
    <3> QED
      BY <3>1, <3>2, <3>3
  <2>8. CurveReports'
    BY <1>1, <2>3, <2>6, <2>7 DEF CurveReports
  <2> QED
    BY <1>1, <1>2, <1>4, <2>4, <2>8 DEF CurveInv
<1> QED
  BY <1>5, <1>6

LEMMA CurveEnd ==
  ASSUME CurveInv, E!SaveGraph \/ \E f \in E!File : E!EvaluateUnparsable(f)
  PROVE  CurveInv'
<1>1. /\ groundTruth' = groundTruth /\ output' = output /\ absent' = absent /\ marked' = marked
      /\ frame' = frame /\ csv' = csv /\ graph' = graph /\ unread' = unread /\ iOutputDir' = iOutputDir
      /\ outputData' = outputData /\ groundTruthData' = groundTruthData /\ relevant' = relevant
      /\ retrieved' = retrieved /\ retrieved_relevant' = retrieved_relevant
  BY DEF E!SaveGraph, E!EvaluateUnparsable, E!given, E!curve
<1>2. pc' \in {"crash", "done"} /\ (pc' = "done" => iOutputDir > MethodCount /\ graph # NoFile)
  BY DEF E!SaveGraph, E!EvaluateUnparsable
<1>3. CurveCounts' /\ E!Evaluated' = E!Evaluated
  BY <1>1, CountsKept
<1>4. E!TypeOK'
  BY <1>1, <1>2, <1>3 DEF CurveInv, E!TypeOK
<1>5. CurvePages'
  BY <1>2 DEF CurvePages
<1>6. CurveReports'
  BY <1>1, <1>2 DEF CurveInv, CurveReports
<1> QED
  BY <1>1, <1>3, <1>4, <1>5, <1>6 DEF CurveInv

(* What a matching pair is. *)
LEMMA PairOf ==
  ASSUME CurveInv, NEW th \in Threshold, NEW x \in E!AllMatching(th)
  PROVE  /\ x = <<x[1], <<x[2][1], x[2][2]>>>> /\ x[1] \in E!Evaluated
         /\ x[2][1] \in DOMAIN outputData[x[1]] /\ x[2][2] \in DOMAIN groundTruthData[x[1]]
         /\ outputData[x[1]][x[2][1]] \in Box /\ groundTruthData[x[1]][x[2][2]] \in Box
         /\ E!Matches(outputData[x[1]][x[2][1]], groundTruthData[x[1]][x[2][2]])
         /\ <<x[1], x[2][1]>> \in E!AllRetrieved(th) /\ <<x[1], x[2][2]>> \in E!AllRelevant
<1>1. PICK f \in E!Evaluated :
        \E c \in E!MatchingPairs(outputData[f], groundTruthData[f], th) : x = <<f, c>>
  BY DEF E!AllMatching
<1>2. PICK c \in E!MatchingPairs(outputData[f], groundTruthData[f], th) : x = <<f, c>>
  BY <1>1
<1>3. /\ c \in E!InEditDistance(outputData[f], th) \X (DOMAIN groundTruthData[f])
      /\ E!Matches(outputData[f][c[1]], groundTruthData[f][c[2]])
  BY DEF E!MatchingPairs
<1>4. /\ c = <<c[1], c[2]>> /\ c[1] \in E!InEditDistance(outputData[f], th)
      /\ c[1] \in DOMAIN outputData[f] /\ c[2] \in DOMAIN groundTruthData[f]
  BY <1>3 DEF E!InEditDistance
<1>5. outputData[f] \in Seq(Box) /\ groundTruthData[f] \in Seq(Box)
  BY DEF CurveInv, E!TypeOK, Box
<1>6. outputData[f][c[1]] \in Box /\ groundTruthData[f][c[2]] \in Box
  BY <1>4, <1>5
<1>7. <<f, c[1]>> \in E!AllRetrieved(th) /\ <<f, c[2]>> \in E!AllRelevant
  BY <1>4 DEF E!AllRetrieved, E!AllRelevant
<1> QED
  BY <1>2, <1>3, <1>4, <1>6, <1>7

(* As no record of a search matches two of the ground truth's, a pair is   *)
(* told by the record of the search.                                       *)
LEMMA PrecisionBound == ASSUME CurveInv PROVE E!PrecisionAtMostOne
<1> SUFFICES ASSUME \A f \in E!Evaluated : E!Disjoint(groundTruthData[f]), NEW th \in Threshold
             PROVE  retrieved_relevant[th] <= retrieved[th]
  BY DEF E!PrecisionAtMostOne
<1> DEFINE S == E!AllMatching(th)
           T == E!AllRetrieved(th)
           h == [x \in S |-> <<x[1], x[2][1]>>]
<1>1. ASSUME NEW x \in S, NEW y \in S, h[x] = h[y] PROVE x = y
  <2>1. x[1] = y[1] /\ x[2][1] = y[2][1]
    BY <1>1
  <2> DEFINE gt == groundTruthData[x[1]]
             d == outputData[x[1]][x[2][1]]
  <2>2. /\ d \in Box /\ x[2][2] \in DOMAIN gt /\ y[2][2] \in DOMAIN gt
        /\ gt[x[2][2]] \in Box /\ gt[y[2][2]] \in Box /\ x[1] \in E!Evaluated
        /\ E!Matches(d, gt[x[2][2]]) /\ E!Matches(d, gt[y[2][2]])
    BY <2>1, PairOf
  <2>3. d.query = gt[x[2][2]].query /\ d.query = gt[y[2][2]].query
    BY <2>2 DEF E!Matches
  <2>4. x[2][2] # y[2][2] => E!Points(gt[x[2][2]]) \cap E!Points(gt[y[2][2]]) = {}
    BY <2>2, <2>3 DEF E!Disjoint
  <2>5. x[2][2] = y[2][2]
    BY <2>2, <2>4, MatchesOnce
  <2> QED
    BY <2>1, <2>5, PairOf
<1>2. h \in Injection(S, T)
  <2>1. h \in [S -> T]
    BY PairOf
  <2> HIDE DEF h
  <2> QED
    BY <1>1, <2>1 DEF Injection, IsInjective
<1>3. IsFiniteSet(T) /\ retrieved[th] = Cardinality(T) /\ retrieved_relevant[th] = Cardinality(S)
  BY DEF CurveInv, CurveCounts
<1> HIDE DEF S, T, h
<1>4. Cardinality(S) <= Cardinality(T)
  BY <1>2, <1>3, FS_Injection
<1> QED
  BY <1>3, <1>4

(* Nor does a record of the ground truth match two of the search's. *)
LEMMA RecallBound == ASSUME CurveInv PROVE E!RecallAtMostOne
<1> SUFFICES ASSUME \A f \in E!Evaluated : E!Disjoint(outputData[f]), NEW th \in Threshold
             PROVE  retrieved_relevant[th] <= relevant
  BY DEF E!RecallAtMostOne
<1> DEFINE S == E!AllMatching(th)
           T == E!AllRelevant
           h == [x \in S |-> <<x[1], x[2][2]>>]
<1>1. ASSUME NEW x \in S, NEW y \in S, h[x] = h[y] PROVE x = y
  <2>1. x[1] = y[1] /\ x[2][2] = y[2][2]
    BY <1>1
  <2> DEFINE out == outputData[x[1]]
             d == groundTruthData[x[1]][x[2][2]]
  <2>2. /\ d \in Box /\ x[2][1] \in DOMAIN out /\ y[2][1] \in DOMAIN out
        /\ out[x[2][1]] \in Box /\ out[y[2][1]] \in Box /\ x[1] \in E!Evaluated
        /\ E!Matches(out[x[2][1]], d) /\ E!Matches(out[y[2][1]], d)
    BY <2>1, PairOf
  <2>3. out[x[2][1]].query = d.query /\ out[y[2][1]].query = d.query
    BY <2>2 DEF E!Matches
  <2>4. x[2][1] # y[2][1] => E!Points(out[x[2][1]]) \cap E!Points(out[y[2][1]]) = {}
    BY <2>2, <2>3 DEF E!Disjoint
  <2>5. x[2][1] = y[2][1]
    BY <2>2, <2>4, MatchesOnce
  <2> QED
    BY <2>1, <2>5, PairOf
<1>2. h \in Injection(S, T)
  <2>1. h \in [S -> T]
    BY PairOf
  <2> HIDE DEF h
  <2> QED
    BY <1>1, <2>1 DEF Injection, IsInjective
<1>3. IsFiniteSet(T) /\ relevant = Cardinality(T) /\ retrieved_relevant[th] = Cardinality(S)
  BY DEF CurveInv, CurveCounts
<1> HIDE DEF S, T, h
<1>4. Cardinality(S) <= Cardinality(T)
  BY <1>2, <1>3, FS_Injection
<1> QED
  BY <1>3, <1>4

CurvesInv == tool = "graph" => CurveInv

LEMMA CurvesInductive == Spec => []CurvesInv
<1>1. Init => CurvesInv
  BY CurveInit DEF Init, CurvesInv
<1>2. CurvesInv /\ [Next]_<<tool, pc, maker, curves>> => CurvesInv'
  <2> SUFFICES ASSUME CurvesInv, [Next]_<<tool, pc, maker, curves>>, tool' = "graph"
               PROVE  CurveInv'
    BY DEF CurvesInv
  <2>1. CASE DrawGraph
    <3>1. tool = "graph" /\ E!Next
      BY <2>1 DEF DrawGraph
    <3>2. CurveInv
      BY <3>1 DEF CurvesInv
    <3> QED
      BY <3>1, <3>2, CurveOpen, CurveSkip, CurveEvaluate, CurvePlot, CurveEnd DEF E!Next
  <2>2. CASE MakeGroundTruth
    BY <2>2 DEF MakeGroundTruth
  <2>3. CASE UNCHANGED <<tool, pc, maker, curves>>
    <3>1. /\ CurveInv /\ pc' = pc /\ groundTruth' = groundTruth /\ output' = output /\ absent' = absent
          /\ marked' = marked /\ frame' = frame /\ iOutputDir' = iOutputDir /\ unread' = unread
          /\ outputData' = outputData /\ groundTruthData' = groundTruthData /\ relevant' = relevant
          /\ retrieved' = retrieved /\ retrieved_relevant' = retrieved_relevant
          /\ csv' = csv /\ graph' = graph
      BY <2>3 DEF CurvesInv, curves
    <3>2. CurveCounts' /\ E!Evaluated' = E!Evaluated
      BY <3>1, CountsKept
    <3>3. E!TypeOK'
      BY <3>1, <3>2 DEF CurveInv, E!TypeOK
    <3>4. CurvePages'
      <4>1. \A g : E!Compared(iOutputDir, g)' <=> E!Compared(iOutputDir, g)
        BY <3>1 DEF E!Compared
      <4>2. E!FilesOf(iOutputDir)' = E!FilesOf(iOutputDir)
        BY <3>1 DEF E!FilesOf
      <4> QED
        BY <3>1, <3>2, <4>1, <4>2 DEF CurveInv, CurvePages
    <3>5. CurveReports'
      BY <3>1 DEF CurveInv, CurveReports
    <3> QED
      BY <3>1, <3>2, <3>3, <3>4, <3>5 DEF CurveInv
  <2> QED
    BY <2>1, <2>2, <2>3 DEF Next
<1> QED
  BY <1>1, <1>2, PTL DEF Spec

(* graph: for any files, methods and thresholds, read in any order, the    *)
(* points of a curve count the records and matching pairs of the files of  *)
(* its method and of no other; precision and recall exceed one only where  *)
(* boxes overlap; and every method with a directory is in the graph.       *)
THEOREM CurvesExactHolds == Spec => []CurvesExact
<1>1. ASSUME CurveInv PROVE E!CountsExact
  BY <1>1, SameCardinality DEF CurveInv, CurveCounts, E!CountsExact
<1>2. ASSUME CurveInv PROVE E!EveryMethodReported
  <2>1. \A m \in E!Method : iOutputDir > MethodCount => m < iOutputDir
    BY <1>2, CurveInputs DEF CurveInv, E!TypeOK, E!Method
  <2> QED
    BY <1>2, <2>1 DEF CurveInv, CurveReports, E!EveryMethodReported
<1>3. CurvesInv => CurvesExact
  BY <1>1, <1>2, PrecisionBound, RecallBound DEF CurvesInv, CurvesExact, CurveInv
<1> QED
  BY <1>3, CurvesInductive, PTL

(* graph: a row is written only when every file of the method that can be  *)
(* compared has been counted, and a page counts twice only where mark.cpp  *)
(* has left its image.                                                     *)
THEOREM AllPagesCountedHolds == Spec => AllPagesCounted
<1>1. ASSUME CurveInv, E!Plot PROVE E!PagesCounted
  <2>1. pc = "page" /\ unread = {}
    BY <1>1 DEF E!Plot
  <2>2. E!Evaluated = {f \in E!FilesOf(iOutputDir) : E!Compared(iOutputDir, f)}
    BY <1>1, <2>1 DEF CurveInv, CurvePages
  <2>3. ASSUME NEW m \in E!Method, csv'[m] # csv[m] PROVE m = iOutputDir
    BY <1>1, <2>3 DEF E!Plot, CurveInv, CurveReports
  <2>4. ASSUME NEW f \in E!Evaluated, NEW g \in E!Evaluated, f[1] = g[1]
        PROVE  f = g \/ <<iOutputDir, f[1]>> \in marked
    <3>1. f \in E!FilesOf(iOutputDir) /\ g \in E!FilesOf(iOutputDir)
      BY <2>2
    <3>2. f \in Page \X {"txt", "png"} /\ g \in Page \X {"txt", "png"}
      BY <3>1 DEF E!FilesOf, E!File
    <3>3. f = <<f[1], f[2]>> /\ g = <<g[1], g[2]>>
      BY <3>2
    <3>4. CASE f[2] = "png"
      BY <3>1, <3>4 DEF E!FilesOf
    <3>5. CASE g[2] = "png"
      BY <2>4, <3>1, <3>5 DEF E!FilesOf
    <3>6. CASE f[2] = "txt" /\ g[2] = "txt"
      BY <2>4, <3>3, <3>6
    <3> QED
      BY <3>2, <3>4, <3>5, <3>6
  <2> QED
    BY <2>2, <2>3, <2>4 DEF E!PagesCounted
<1>2. ASSUME csv' = csv PROVE E!PagesCounted
  BY <1>2 DEF E!PagesCounted
<1>3. CurvesInv /\ [Next]_<<tool, pc, maker, curves>>
        => [tool = "graph" => E!PagesCounted]_<<tool, pc, maker, curves>>
  <2> SUFFICES ASSUME CurvesInv, Next, tool = "graph" PROVE E!PagesCounted
    OBVIOUS
  <2>1. DrawGraph
    BY DEF Next, MakeGroundTruth
  <2>2. E!Next /\ CurveInv
    BY <2>1 DEF DrawGraph, CurvesInv
  <2>3. E!Plot \/ csv' = csv
    BY <2>2 DEF E!Next, E!OpenMethod, E!SkipMethod, E!SkipFile, E!EvaluateFile, E!EvaluateUnparsable,
                E!SaveGraph
  <2> QED
    BY <1>1, <1>2, <2>2, <2>3
<1> QED
  BY <1>3, CurvesInductive, PTL DEF Spec, AllPagesCounted
=============================================================================
