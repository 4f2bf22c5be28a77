-------------------------- MODULE SearchRunProofs --------------------------
(***************************************************************************)
(* A run of run.bat for any directories, any batches in order and whatever *)
(* fails: types, no match stored twice, what a process can rely on that    *)
(* searches a later text of its batch, and that no search is left out: the *)
(* batches before this one, in this one the texts before the current one,  *)
(* and of this text the queries before the current one are done.           *)
(*                                                                         *)
(* At the end: every step lowers a measure that cannot fall for ever.      *)
(***************************************************************************)
EXTENDS SearchRun, SequenceTheorems, WellFoundedInduction, TLAPS

InText  == {"feature", "query", "qfeature", "search", "store", "save"}
InQuery == {"qfeature", "search", "store", "save"}

Lower == Batches[batch].lower
Upper == Batches[batch].upper

-----------------------------------------------------------------------------
(* What the processes make of the files they work on. *)
Made == map \in BOOLEAN /\ emptyFeature \subseteq textFeature

LEMMA NextMade == Made /\ [Next]_vars => Made'
<1> SUFFICES ASSUME Made, [Next]_vars PROVE Made'
  OBVIOUS
<1>1. CASE StartBatch
  BY <1>1 DEF Made, StartBatch, ReadTraining, ReadMap, texts
<1>2. CASE TextFeature
  BY <1>2 DEF Made, TextFeature, MATLAB
<1>3. CASE ~(StartBatch \/ TextFeature)
  <2>1. map' = map /\ UNCHANGED texts
    BY <1>3 DEF Next, vars, files, EndBatch, SkipText, ExtractText, SkipQuery,
       ExtractQuery, QueryFeature, Search, StoreMatch, StoreBeyond, EndStore,
       SaveImage, EndQueries
  <2> QED
    BY <2>1 DEF Made, texts
<1> QED
  BY <1>1, <1>2, <1>3

LEMMA MadeKept == Spec => []Made
<1>1. Init => Made
  BY DEF Init, Made
<1> QED
  BY <1>1, NextMade, PTL DEF Spec

(* How a process begins. *)
LEMMA Begins ==
  ASSUME StartBatch, batch \in DOMAIN Batches
  PROVE  /\ pc' \in {"text", "exit", "crash"}
         /\ text_num' = 0 /\ query_num' = 0 /\ query_comps' = {} /\ found' = 0
         /\ batch' = batch
<1>1. /\ text_num' = 0 /\ query_num' = 0 /\ query_comps' = {} /\ found' = 0
      /\ batch' = batch
      /\ ReadTraining \/ ReadMap \/ pc' = "text"
  BY DEF StartBatch
<1> QED
  BY <1>1 DEF ReadTraining, ReadMap

LEMMA StartsOrEnds ==
  ASSUME StartBatch
  PROVE  /\ pc = "start" /\ pc' \in {"text", "exit", "crash", "done"}
         /\ pc' = "done" => batch \notin DOMAIN Batches
         /\ pc' # "done" => batch \in DOMAIN Batches /\ query_num' = 0 /\ text_num' = 0
         /\ batch' = batch /\ kind' = kind
BY Begins DEF StartBatch, given

(* Why it may end there. *)
LEMMA EndsAtOnce ==
  ASSUME StartBatch, pc' = "exit"
  PROVE  (kind = "kmeans" /\ training = "missing") \/ (kind = "som" /\ ~map')
<1>1. ReadTraining \/ ReadMap
  BY DEF StartBatch
<1>2. CASE ReadTraining
  BY <1>2 DEF ReadTraining
<1>3. CASE ReadMap
  <2>1. kind = "som" /\ pc' = IF map' THEN "text" ELSE "exit"
    BY <1>3 DEF ReadMap
  <2> QED
    BY <2>1
<1> QED
  BY <1>1, <1>2, <1>3

-----------------------------------------------------------------------------
(* Types, and where the loops stand. *)
Files ==
  /\ textFeature \subseteq Text /\ queryFeature \subseteq Queries
  /\ outputDir \subseteq Queries
  /\ drawn \subseteq searched /\ searched \subseteq Text \X Queries
  /\ query_comps \subseteq Queries
  /\ failed \subseteq Text \cup Queries
  /\ died \subseteq DOMAIN Batches

Counters ==
  /\ batch \in 1 .. Len(Batches) + 1
  /\ text_num \in 0 .. TextCount
  /\ query_num \in 0 .. Len(Query)
  /\ found \in 0 .. MaxMatches
  /\ pc \in InText \cup {"start", "text", "exit", "crash", "done"}

Loops ==
  /\ pc \in InText \cup {"text", "exit", "crash"} => batch \in DOMAIN Batches
  /\ pc = "text" => text <= Upper + 1
  /\ pc \in InText \cup {"exit", "crash"} => text <= Upper
  /\ pc \in InText => text < TextCount
  /\ pc \in InQuery => query_num < Len(Query)
  /\ pc \in {"store", "save"} => <<text, query>> \in searched

Lines == stored \in Seq(Text \X Queries \X (1 .. MaxMatches))

Typed == Files /\ Counters /\ Loops

LEMMA ElementIn ==
  ASSUME NEW S, NEW s \in Seq(S), NEW k \in DOMAIN s
  PROVE  s[k] \in S
OBVIOUS

(* The current text and the current query. *)
LEMMA CurrentText ==
  ASSUME Counters, batch \in DOMAIN Batches
  PROVE  /\ Lower \in Nat /\ Upper \in Nat /\ Lower <= Upper
         /\ text = Lower + text_num
         /\ text \in Nat /\ text_num \in Nat
         /\ text < TextCount => text \in Text /\ text_num + 1 \in 0 .. TextCount
<1>1. Batches[batch] \in [lower : Nat, upper : Nat]
  <2>1. Batches \in Seq([lower : Nat, upper : Nat])
    BY RunAssumption
  <2> QED
    BY <2>1, ElementIn
<1>2. Lower \in Nat /\ Upper \in Nat
  BY <1>1 DEF Lower, Upper
<1>3. Lower <= Upper
  BY BatchesAssumption DEF Lower, Upper
<1>4. text_num \in Nat /\ TextCount \in Nat
  BY RunAssumption DEF Counters
<1>5. text = Lower + text_num
  BY DEF text, Lower
<1>6. text < TextCount => text \in Text /\ text_num + 1 \in 0 .. TextCount
  BY <1>2, <1>4, <1>5 DEF Text
<1> QED
  BY <1>2, <1>3, <1>4, <1>5, <1>6

LEMMA CurrentQuery ==
  ASSUME Counters, query_num < Len(Query)
  PROVE  /\ query_num \in Nat
         /\ query_num + 1 \in DOMAIN Query
         /\ query_num + 1 \in 0 .. Len(Query)
         /\ query \in Queries
<1>1. Query \in Seq(Queries)
  BY RunAssumption
<1>2. query_num \in Nat /\ Len(Query) \in Nat /\ DOMAIN Query = 1 .. Len(Query)
  BY <1>1 DEF Counters
<1>3. query_num + 1 \in DOMAIN Query
  BY <1>2
<1> QED
  BY <1>2, <1>3 DEF query, Queries

LEMMA InitTyped == Init => Typed /\ Lines
<1> SUFFICES ASSUME Init PROVE Typed /\ Lines
  OBVIOUS
<1>1. Len(Batches) \in Nat /\ Len(Query) \in Nat /\ TextCount \in Nat /\ MaxMatches \in Nat
  BY RunAssumption
<1> QED
  BY <1>1 DEF Init, Typed, Files, Counters, Loops, Lines, InText, InQuery

LEMMA ProcessTyped ==
  Typed /\ (StartBatch \/ EndBatch \/ SkipText \/ ExtractText \/ EndQueries) => Typed'
<1> SUFFICES ASSUME Typed,
                    StartBatch \/ EndBatch \/ SkipText \/ ExtractText \/ EndQueries
             PROVE  Typed'
  OBVIOUS
<1>1. /\ Len(Batches) \in Nat /\ DOMAIN Batches = 1 .. Len(Batches)
      /\ Len(Query) \in Nat /\ TextCount \in Nat /\ MaxMatches \in Nat
  BY RunAssumption
<1>2. CASE StartBatch
  <2>1. CASE batch \in DOMAIN Batches
    <3>0. /\ pc' \in {"text", "exit", "crash"} /\ batch' = batch
          /\ text_num' = 0 /\ query_num' = 0 /\ query_comps' = {} /\ found' = 0
      BY <1>2, <2>1, Begins
    <3>1. Counters'
      BY <1>1, <3>0 DEF Typed, Counters
    <3>2. Lower <= Upper /\ Lower \in Nat /\ Upper \in Nat
      BY <2>1, CurrentText DEF Typed
    <3>3. text' = Lower + 0 /\ Upper' = Upper
      BY <3>0 DEF text, Lower, Upper
    <3>4. Loops'
      BY <2>1, <3>0, <3>2, <3>3 DEF Loops, InText, InQuery
    <3> QED
      BY <1>2, <2>1, <3>0, <3>1, <3>4 DEF StartBatch, Typed, Files, texts, history
  <2>2. CASE batch \notin DOMAIN Batches
    BY <1>2, <2>2
    DEF StartBatch, Typed, Files, Counters, Loops, InText, InQuery, files, texts, history,
        process
  <2> QED
    BY <2>1, <2>2
<1>3. CASE EndBatch
  <2>1. batch \in DOMAIN Batches /\ pc' = "start" /\ batch' = batch + 1
    BY <1>3 DEF EndBatch, Typed, Loops
  <2>2. died' \subseteq DOMAIN Batches
    BY <1>3, <2>1 DEF EndBatch, Typed, Files
  <2>3. Counters'
    BY <1>1, <1>3, <2>1 DEF EndBatch, Typed, Counters, process
  <2>4. Loops'
    BY <2>1 DEF Loops, InText, InQuery
  <2> QED
    BY <1>3, <2>2, <2>3, <2>4 DEF EndBatch, Typed, Files, files, texts, process
<1>4. CASE SkipText
  <2>1. batch \in DOMAIN Batches /\ text <= Upper /\ text < TextCount
    BY <1>4 DEF SkipText, MoreTexts, Typed, Loops, Upper
  <2>2. /\ text_num' = text_num + 1 /\ text_num + 1 \in 0 .. TextCount
        /\ text' = text + 1 /\ text \in Nat /\ Upper \in Nat
    BY <1>4, <2>1, CurrentText DEF SkipText, Typed, text, Lower
  <2>3. Counters'
    BY <1>4, <2>2 DEF SkipText, Typed, Counters
  <2>4. Loops'
    BY <1>4, <2>1, <2>2 DEF SkipText, Loops, InText, InQuery, Upper
  <2> QED
    BY <1>4, <2>3, <2>4 DEF SkipText, Typed, Files, files, texts, history
<1>5. CASE ExtractText
  <2>1. batch \in DOMAIN Batches /\ text <= Upper /\ text < TextCount
    BY <1>5 DEF ExtractText, MoreTexts, Typed, Loops, Upper
  <2>2. text' = text /\ pc' \in {"crash", "feature", "query"}
    BY <1>5 DEF ExtractText, text
  <2>3. Counters'
    BY <1>1, <1>5, <2>2 DEF ExtractText, Typed, Counters, InText
  <2>4. Loops'
    BY <1>5, <2>1, <2>2 DEF ExtractText, Loops, InText, InQuery, Upper
  <2> QED
    BY <1>5, <2>3, <2>4 DEF ExtractText, Typed, Files, files, texts, history
<1>6. CASE EndQueries
  <2>1. batch \in DOMAIN Batches /\ text <= Upper /\ text < TextCount
    BY <1>6 DEF EndQueries, Typed, Loops, InText
  <2>2. /\ text_num' = text_num + 1 /\ text_num + 1 \in 0 .. TextCount
        /\ text' = text + 1 /\ text \in Nat /\ Upper \in Nat
    BY <1>6, <2>1, CurrentText DEF EndQueries, Typed, text, Lower
  <2>3. Counters'
    BY <1>6, <2>2 DEF EndQueries, Typed, Counters
  <2>4. Loops'
    BY <1>6, <2>1, <2>2 DEF EndQueries, Loops, InText, InQuery, Upper
  <2> QED
    BY <1>6, <2>3, <2>4 DEF EndQueries, Typed, Files, files, texts, history
<1> QED
  BY <1>2, <1>3, <1>4, <1>5, <1>6

LEMMA TextTyped ==
  Typed /\ (TextFeature \/ SkipQuery \/ ExtractQuery \/ QueryFeature \/ Search
              \/ StoreMatch \/ StoreBeyond \/ EndStore \/ SaveImage) => Typed'
<1> SUFFICES ASSUME Typed,
                    TextFeature \/ SkipQuery \/ ExtractQuery \/ QueryFeature \/ Search
                      \/ StoreMatch \/ StoreBeyond \/ EndStore \/ SaveImage
             PROVE  Typed'
  OBVIOUS
<1>1. batch \in DOMAIN Batches /\ text <= Upper /\ text < TextCount
  BY DEF TextFeature, SkipQuery, ExtractQuery, QueryFeature, Search, StoreMatch,
         StoreBeyond, EndStore, SaveImage, Typed, Loops, InText
<1>2. text \in Text
  BY <1>1, CurrentText DEF Typed
<1>3. text' = text /\ Upper' = Upper /\ batch' = batch /\ text_num' = text_num
  BY DEF TextFeature, SkipQuery, ExtractQuery, QueryFeature, Search, StoreMatch,
         StoreBeyond, EndStore, SaveImage, text, Upper, process
<1>4. MaxMatches \in Nat
  BY RunAssumption
<1>5. CASE TextFeature
  <2>1. textFeature' \subseteq Text /\ failed' \subseteq Text \cup Queries
    BY <1>2, <1>5 DEF TextFeature, MATLAB, Typed, Files
  <2> QED
    BY <1>1, <1>3, <1>5, <2>1
    DEF TextFeature, Typed, Files, Counters, Loops, InText, InQuery, process
<1>6. CASE SkipQuery
  <2>1. query_num < Len(Query)
    BY <1>6 DEF SkipQuery, MoreQueries
  <2>2. query_num + 1 \in 0 .. Len(Query)
    BY <2>1, CurrentQuery DEF Typed
  <2> QED
    BY <1>1, <1>3, <1>6, <2>2
    DEF SkipQuery, Typed, Files, Counters, Loops, InText, InQuery, files, texts, history
<1>7. CASE ExtractQuery
  <2>1. query_num < Len(Query)
    BY <1>7 DEF ExtractQuery, MoreQueries
  <2>2. query \in Queries
    BY <2>1, CurrentQuery DEF Typed
  <2>3. query_comps' \subseteq Queries
    BY <1>7, <2>2 DEF ExtractQuery, Typed, Files
  <2>4. pc' \in {"crash", "qfeature", "search"}
    BY <1>7 DEF ExtractQuery
  <2> QED
    BY <1>1, <1>3, <1>7, <2>1, <2>3, <2>4
    DEF ExtractQuery, Typed, Files, Counters, Loops, InText, InQuery, files, texts, history
<1>8. CASE QueryFeature
  <2>1. query_num < Len(Query)
    BY <1>8 DEF QueryFeature, Typed, Loops, InQuery
  <2>2. query \in Queries
    BY <2>1, CurrentQuery DEF Typed
  <2>3. queryFeature' \subseteq Queries /\ failed' \subseteq Text \cup Queries
    BY <1>8, <2>2 DEF QueryFeature, MATLAB, Typed, Files
  <2>4. pc' \in {"search", "exit"}
    BY <1>8 DEF QueryFeature
  <2> QED
    BY <1>1, <1>3, <1>8, <2>1, <2>3, <2>4
    DEF QueryFeature, Typed, Files, Counters, Loops, InText, InQuery, process, texts
<1>9. CASE Search
  <2>1. query_num < Len(Query) /\ query' = query
    BY <1>9 DEF Search, Typed, Loops, InQuery, query
  <2>2. query \in Queries
    BY <2>1, CurrentQuery DEF Typed
  <2>3. /\ searched' \subseteq Text \X Queries /\ searched \subseteq searched'
        /\ <<text, query>> \in searched'
    BY <1>2, <1>9, <2>2 DEF Search, Typed, Files
  <2>4. pc' \in {"store", "crash"} /\ found' \in 0 .. MaxMatches
    BY <1>4, <1>9 DEF Search
  <2> QED
    BY <1>1, <1>3, <1>9, <2>1, <2>3, <2>4
    DEF Search, Typed, Files, Counters, Loops, InText, InQuery, files, texts
<1>10. CASE StoreMatch
  <2>1. found - 1 \in 0 .. MaxMatches /\ query' = query
    BY <1>4, <1>10 DEF StoreMatch, Typed, Counters, query
  <2> QED
    BY <1>1, <1>3, <1>10, <2>1
    DEF StoreMatch, Typed, Files, Counters, Loops, InText, InQuery, history, texts
<1>11. CASE StoreBeyond
  BY <1>1, <1>3, <1>11
  DEF StoreBeyond, Typed, Files, Counters, Loops, InText, InQuery, files, texts, process, history
<1>12. CASE EndStore
  <2>1. query' = query
    BY <1>12 DEF EndStore, query, process
  <2> QED
    BY <1>1, <1>3, <1>12, <2>1
    DEF EndStore, Typed, Files, Counters, Loops, InText, InQuery, files, texts, process, history
<1>13. CASE SaveImage
  <2>1. query_num < Len(Query) /\ <<text, query>> \in searched
    BY <1>13 DEF SaveImage, Typed, Loops, InQuery
  <2>2. query \in Queries /\ query_num + 1 \in 0 .. Len(Query)
    BY <2>1, CurrentQuery DEF Typed
  <2>3. outputDir' \subseteq Queries /\ drawn' \subseteq searched
    BY <1>13, <2>1, <2>2 DEF SaveImage, Typed, Files
  <2> QED
    BY <1>1, <1>3, <1>13, <2>2, <2>3
    DEF SaveImage, Typed, Files, Counters, Loops, InText, InQuery, history, texts
<1> QED
  BY <1>5, <1>6, <1>7, <1>8, <1>9, <1>10, <1>11, <1>12, <1>13

LEMMA NextTyped == Typed /\ [Next]_vars => Typed'
<1> SUFFICES ASSUME Typed, [Next]_vars PROVE Typed'
  OBVIOUS
<1>1. CASE UNCHANGED vars
  <2>1. text' = text /\ query' = query /\ Upper' = Upper
    BY <1>1 DEF vars, process, text, query, Upper
  <2> QED
    BY <1>1, <2>1 DEF vars, files, texts, process, history, Typed, Files, Counters, Loops
<1> QED
  BY <1>1, ProcessTyped, TextTyped DEF Next

(* The types, and where the loops stand. *)
LEMMA TypesCorrect == Spec => []Typed
<1> QED
  BY InitTyped, NextTyped, PTL DEF Spec

-----------------------------------------------------------------------------
(* Every line stored belongs to a search before the current one.           *)

(* The queries the loop is past. *)
Passed(m) == {Query[k] : k \in 1 .. m}

(* A line of this text or an earlier one, of this one only for those queries. *)
Before(x, Q) == x[1] < text \/ (x[1] = text /\ x[2] \in Q)

Old(x) ==
  /\ pc = "start" => \A c \in DOMAIN Batches : c >= batch => x[1] < Batches[c].lower
  /\ pc \in {"text", "feature"} => x[1] < text
  /\ pc \in {"query", "qfeature", "search"} => Before(x, Passed(query_num))
  /\ pc = "store" => \/ Before(x, Passed(query_num))
                     \/ x[1] = text /\ x[2] = query /\ x[3] > found
  /\ pc = "save" => Before(x, Passed(query_num + 1))
  /\ pc \in {"exit", "crash"} => x[1] <= text

Stored == {stored[k] : k \in DOMAIN stored}

AllOld == \A x \in Stored : Old(x)

(* Going on to the next query. *)
LEMMA PassedGrows ==
  ASSUME Counters, query_num < Len(Query)
  PROVE  /\ Passed(query_num + 1) = Passed(query_num) \cup {query}
         /\ query \notin Passed(query_num)
<1>1. query_num \in Nat /\ query_num + 1 \in DOMAIN Query /\ query = Query[query_num + 1]
  BY CurrentQuery DEF query
<1>2. DOMAIN Query = 1 .. Len(Query) /\ Len(Query) \in Nat
  BY RunAssumption
<1>3. 1 .. query_num + 1 = (1 .. query_num) \cup {query_num + 1}
  BY <1>1
<1>4. \A k \in 1 .. query_num : Query[k] # query
  <2> SUFFICES ASSUME NEW k \in 1 .. query_num PROVE Query[k] # query
    OBVIOUS
  <2>1. k \in DOMAIN Query /\ k # query_num + 1
    BY <1>1, <1>2
  <2> QED
    BY <1>1, <2>1, RunAssumption
<1> QED
  BY <1>1, <1>3, <1>4 DEF Passed

LEMMA NextOld ==
  ASSUME Typed, [Next]_vars, pc # "start", pc # "store",
         NEW x, x[1] \in Int, Old(x)
  PROVE  Old(x)'
<1>1. CASE UNCHANGED vars
  <2>1. text' = text /\ query' = query
    BY <1>1 DEF vars, process, text, query
  <2> QED
    BY <1>1, <2>1 DEF vars, process, Old, Before, Passed
<1>2. CASE EndBatch
  <2>1. batch \in DOMAIN Batches
    BY <1>2 DEF EndBatch, Typed, Loops
  <2>2. Upper \in Nat /\ text \in Nat
    BY <2>1, CurrentText DEF Typed
  <2>3. x[1] <= Upper
    <3>1. CASE pc = "text"
      BY <2>2, <3>1 DEF Old, Typed, Loops
    <3>2. CASE pc \in {"exit", "crash"}
      BY <2>2, <3>2 DEF Old, Typed, Loops
    <3> QED
      BY <1>2, <3>1, <3>2 DEF EndBatch
  <2>4. ASSUME NEW c \in DOMAIN Batches, c >= batch + 1
        PROVE  x[1] < Batches[c].lower
    <3>1. DOMAIN Batches = 1 .. Len(Batches) /\ Len(Batches) \in Nat
      BY RunAssumption
    <3>2. batch < c
      BY <2>1, <2>4, <3>1
    <3>3. Upper < Batches[c].lower
      BY <2>1, <3>2, BatchesAssumption DEF Upper
    <3>4. Batches[c] \in [lower : Nat, upper : Nat]
      <4>1. Batches \in Seq([lower : Nat, upper : Nat])
        BY RunAssumption
      <4> QED
        BY <4>1, ElementIn
    <3>5. Batches[c].lower \in Nat
      BY <3>4
    <3> QED
      BY <2>2, <2>3, <3>3, <3>5
  <2> QED
    BY <1>2, <2>4 DEF EndBatch, Old
<1>3. CASE SkipText \/ EndQueries
  <2>1. batch \in DOMAIN Batches /\ text < TextCount
    BY <1>3 DEF SkipText, EndQueries, MoreTexts, Typed, Loops, InText
  <2>2. text \in Nat /\ text' = text + 1
    BY <1>3, <2>1, CurrentText DEF SkipText, EndQueries, Typed, text, Lower
  <2>3. x[1] <= text
    BY <1>3, <2>2 DEF SkipText, EndQueries, Old, Before
  <2> QED
    BY <1>3, <2>2, <2>3 DEF SkipText, EndQueries, Old
<1>4. CASE ExtractText
  <2>1. text' = text /\ pc' \in {"crash", "feature", "query"} /\ x[1] < text
    BY <1>4 DEF ExtractText, text, Old
  <2>2. batch \in DOMAIN Batches
    BY <1>4 DEF ExtractText, Typed, Loops
  <2>3. text \in Nat
    BY <2>2, CurrentText DEF Typed
  <2> QED
    BY <2>1, <2>3 DEF Old, Before
<1>5. CASE TextFeature
  <2>1. text' = text /\ pc' \in {"query", "exit"} /\ x[1] < text
    BY <1>5 DEF TextFeature, text, process, Old
  <2>2. batch \in DOMAIN Batches
    BY <1>5 DEF TextFeature, Typed, Loops, InText
  <2>3. text \in Nat
    BY <2>2, CurrentText DEF Typed
  <2> QED
    BY <2>1, <2>3 DEF Old, Before
<1>6. CASE SkipQuery \/ SaveImage
  <2>1. query_num < Len(Query)
    BY <1>6 DEF SkipQuery, SaveImage, MoreQueries, Typed, Loops, InQuery
  <2>2. Passed(query_num) \subseteq Passed(query_num + 1)
    BY <2>1, PassedGrows DEF Typed
  <2>3. /\ text' = text /\ query_num' = query_num + 1 /\ pc' = "query"
        /\ Before(x, Passed(query_num + 1))
    BY <1>6, <2>2 DEF SkipQuery, SaveImage, text, Old, Before
  <2> QED
    BY <2>3 DEF Old, Before, Passed
<1>7. CASE ExtractQuery \/ QueryFeature \/ Search
  <2>1. /\ text' = text /\ query_num' = query_num
        /\ pc' \in {"crash", "exit", "qfeature", "search", "store"}
        /\ Before(x, Passed(query_num))
    BY <1>7 DEF ExtractQuery, QueryFeature, Search, text, process, Old
  <2>2. batch \in DOMAIN Batches
    BY <1>7 DEF ExtractQuery, QueryFeature, Search, Typed, Loops, InText
  <2>3. text \in Nat
    BY <2>2, CurrentText DEF Typed
  <2> QED
    BY <2>1, <2>3 DEF Old, Before, Passed
<1> QED
  BY <1>1, <1>2, <1>3, <1>4, <1>5, <1>6, <1>7
  DEF Next, StartBatch, StoreMatch, StoreBeyond, EndStore

LEMMA StoreOld ==
  ASSUME Typed, [Next]_vars, pc \in {"start", "store"},
         NEW x, x[1] \in Int, x[3] \in Int, Old(x)
  PROVE  Old(x)'
<1>1. CASE UNCHANGED vars
  <2>1. text' = text /\ query' = query
    BY <1>1 DEF vars, process, text, query
  <2> QED
    BY <1>1, <2>1 DEF vars, process, Old, Before, Passed
<1>2. CASE StartBatch
  <2>1. CASE batch \in DOMAIN Batches
    <3>1. Batches[batch].lower \in Nat
      BY <2>1, CurrentText DEF Typed, Lower
    <3>2. text' = Batches[batch].lower + 0
      BY <1>2, <2>1 DEF StartBatch, text
    <3>3. batch >= batch
      BY RunAssumption DEF Typed, Counters
    <3>4. x[1] < Batches[batch].lower
      BY <1>2, <2>1, <3>3 DEF StartBatch, Old
    <3>5. pc' \in {"text", "exit", "crash"}
      BY <1>2, <2>1, Begins
    <3> QED
      BY <3>1, <3>2, <3>4, <3>5 DEF Old
  <2>2. CASE batch \notin DOMAIN Batches
    BY <1>2, <2>2 DEF StartBatch, Old
  <2> QED
    BY <2>1, <2>2
<1>3. ASSUME pc = "store"
      PROVE  /\ query_num < Len(Query) /\ text \in Nat /\ found \in Nat
             /\ Passed(query_num + 1) = Passed(query_num) \cup {query}
  <2>1. batch \in DOMAIN Batches /\ query_num < Len(Query)
    BY <1>3 DEF Typed, Loops, InText, InQuery
  <2>2. text \in Nat
    BY <2>1, CurrentText DEF Typed
  <2>3. found \in Nat
    BY RunAssumption DEF Typed, Counters
  <2> QED
    BY <2>1, <2>2, <2>3, PassedGrows DEF Typed
<1>4. CASE StoreMatch
  <2>1. /\ text' = text /\ query' = query /\ query_num' = query_num
        /\ found' = found - 1 /\ pc' = "store"
    BY <1>4 DEF StoreMatch, text, query
  <2>2. \/ Before(x, Passed(query_num))
        \/ x[1] = text /\ x[2] = query /\ x[3] > found - 1
    BY <1>3, <1>4 DEF StoreMatch, Old
  <2> QED
    BY <2>1, <2>2 DEF Old, Before, Passed
<1>5. CASE StoreBeyond
  <2>1. text' = text /\ pc' = "crash"
    BY <1>5 DEF StoreBeyond, process, text
  <2> QED
    BY <1>3, <1>5, <2>1 DEF StoreBeyond, Old, Before
<1>6. CASE EndStore
  <2>1. text' = text /\ query_num' = query_num /\ pc' = "save"
    BY <1>6 DEF EndStore, process, text
  <2>2. Before(x, Passed(query_num + 1))
    BY <1>3, <1>6 DEF EndStore, Old, Before
  <2> QED
    BY <2>1, <2>2 DEF Old, Before, Passed
<1> QED
  BY <1>1, <1>2, <1>4, <1>5, <1>6
  DEF Next, EndBatch, SkipText, ExtractText, TextFeature, SkipQuery, ExtractQuery,
      QueryFeature, Search, SaveImage, EndQueries

StoredInv == Lines /\ AllOld /\ StoredOnce

LEMMA NextStored == Typed /\ StoredInv /\ [Next]_vars => StoredInv'
<1> SUFFICES ASSUME Typed, StoredInv, [Next]_vars PROVE StoredInv'
  OBVIOUS
<1>1. /\ stored \in Seq(Text \X Queries \X (1 .. MaxMatches))
      /\ Text \subseteq Int /\ 1 .. MaxMatches \subseteq Int
  BY RunAssumption DEF StoredInv, Lines, Text
<1>2. ASSUME NEW x \in Stored
      PROVE  Old(x)'
  <2>1. x \in Text \X Queries \X (1 .. MaxMatches)
    BY <1>1 DEF Stored
  <2>2. x[1] \in Int /\ x[3] \in Int
    BY <1>1, <2>1
  <2>3. Old(x)
    BY DEF StoredInv, AllOld
  <2> QED
    BY <2>2, <2>3, NextOld, StoreOld
<1>3. CASE stored' = stored
  <2>1. Stored' = Stored
    BY <1>3 DEF Stored
  <2> QED
    BY <1>2, <1>3, <2>1 DEF StoredInv, Lines, AllOld, StoredOnce
<1>4. CASE stored' # stored
  <2>1. /\ StoreMatch
        /\ stored' = Append(stored, <<text, query, found>>)
    BY <1>4 DEF Next, vars, files, texts, StartBatch, EndBatch, SkipText, ExtractText,
                TextFeature, SkipQuery, ExtractQuery, QueryFeature, Search,
                StoreMatch, StoreBeyond, EndStore, SaveImage, EndQueries
  <2>2. batch \in DOMAIN Batches /\ text < TextCount /\ query_num < Len(Query)
    BY <2>1 DEF StoreMatch, Typed, Loops, InText, InQuery
  <2>3. text \in Text /\ query \in Queries
    BY <2>2, CurrentText, CurrentQuery DEF Typed
  <2>4. found \in 1 .. MaxMatches
    BY <2>1, RunAssumption DEF StoreMatch, Typed, Counters
  <2>5. PICK y : y = <<text, query, found>>
    OBVIOUS
  <2>6. /\ y[1] = text /\ y[2] = query /\ y[3] = found
        /\ y \in Text \X Queries \X (1 .. MaxMatches)
    BY <2>3, <2>4, <2>5
  <2>7. y \notin Stored
    <3> SUFFICES ASSUME y \in Stored PROVE FALSE
      OBVIOUS
    <3>1. Old(y)
      BY DEF StoredInv, AllOld
    <3>2. Before(y, Passed(query_num)) \/ y[3] > found
      BY <2>1, <3>1 DEF Old, StoreMatch
    <3>3. query \notin Passed(query_num)
      BY <2>2, PassedGrows DEF Typed
    <3>4. ~(text < text) /\ ~(found > found)
      BY <1>1, <2>3, <2>4
    <3> QED
      BY <2>6, <3>2, <3>3, <3>4 DEF Before
  <2>8. /\ stored' \in Seq(Text \X Queries \X (1 .. MaxMatches))
        /\ Len(stored') = Len(stored) + 1 /\ Len(stored) \in Nat
        /\ \A k \in 1 .. Len(stored) : stored'[k] = stored[k]
        /\ stored'[Len(stored) + 1] = y
    BY <1>1, <2>1, <2>5, <2>6
  <2>9. DOMAIN stored' = 1 .. Len(stored) + 1 /\ DOMAIN stored = 1 .. Len(stored)
    BY <1>1, <2>8
  <2>10. Old(y)'
    <3>1. /\ text' = text /\ query' = query /\ pc' = "store" /\ found' = found - 1
      BY <2>1 DEF StoreMatch, text, query
    <3>2. y[3] > found - 1
      BY <2>4, <2>6
    <3> QED
      BY <2>6, <3>1, <3>2 DEF Old
  <2>11. AllOld'
    <3> SUFFICES ASSUME NEW x \in Stored' PROVE Old(x)'
      BY DEF AllOld
    <3>1. x = y \/ x \in Stored
      BY <2>8, <2>9 DEF Stored
    <3> QED
      BY <1>2, <2>10, <3>1
  <2>12. StoredOnce'
    <3>1. \A k \in DOMAIN stored : stored[k] # y
      BY <2>7 DEF Stored
    <3> SUFFICES ASSUME NEW k \in DOMAIN stored', NEW m \in DOMAIN stored',
                        stored'[k] = stored'[m]
                 PROVE  k = m
      BY DEF StoredOnce
    <3>2. CASE k \in DOMAIN stored /\ m \in DOMAIN stored
      <4>1. stored[k] = stored[m]
        BY <2>8, <2>9, <3>2
      <4> QED
        BY <3>2, <4>1 DEF StoredInv, StoredOnce
    <3>3. CASE k \in DOMAIN stored /\ m = Len(stored) + 1
      BY <2>8, <2>9, <3>1, <3>3
    <3>4. CASE k = Len(stored) + 1 /\ m \in DOMAIN stored
      BY <2>8, <2>9, <3>1, <3>4
    <3> QED
      BY <2>8, <2>9, <3>2, <3>3, <3>4
  <2> QED
    BY <2>8, <2>11, <2>12 DEF StoredInv, Lines
<1> QED
  BY <1>3, <1>4

(* No match is appended twice to the files in MATCH, over all the processes *)
(* of a run.                                                               *)
THEOREM NoMatchTwice == Spec => []StoredOnce
<1>1. Init => StoredInv
  <2> SUFFICES ASSUME Init PROVE StoredInv
    OBVIOUS
  <2>1. stored = <<>>
    BY DEF Init
  <2> QED
    BY <2>1, InitTyped DEF StoredInv, AllOld, Stored, StoredOnce
<1>2. StoredInv => StoredOnce
  BY DEF StoredInv
<1> QED
  BY <1>1, <1>2, NextStored, TypesCorrect, PTL DEF Spec

-----------------------------------------------------------------------------
(* What the first text of a batch leaves to the others.                    *)

FirstReadable == Batches[batch].lower \notin unreadable

Prepared(q) ==
  /\ kind # "dtw" => q \in queryFeature
  /\ kind = "dtw" => q \in query_comps
  /\ q \in outputDir

(* Once the first text has been searched every query is prepared; while it  *)
(* is searched those are that the loop is past.                            *)
AllPrepared ==
  (pc \in InText \cup {"text"} /\ FirstReadable) =>
    /\ text_num > 0 => \A q \in Queries \ unreadable : Prepared(q)
    /\ (text_num = 0 /\ pc \in InQuery \cup {"query"}) =>
         \A q \in Passed(query_num) \ unreadable : Prepared(q)

OwnQuery ==
  /\ kind \in {"kmeans", "som", "dtw"}
  /\ pc = "feature" => query_num = 0
  /\ pc = "qfeature" => kind # "dtw"
  /\ pc \in InQuery => query \notin unreadable
  /\ (pc \in {"search", "store", "save"} /\ kind # "dtw") => query \in queryFeature
  /\ (pc \in InQuery /\ kind = "dtw" /\ text_num = 0) => query \in query_comps

Ready == AllPrepared /\ OwnQuery

(* Within a batch nothing prepared is lost. *)
LEMMA StaysPrepared ==
  ASSUME [Next]_vars, pc # "start", NEW q, Prepared(q)
  PROVE  Prepared(q)'
<1>1. kind' = kind
  BY DEF Next, vars, given, StartBatch, EndBatch, SkipText, ExtractText,
         TextFeature, SkipQuery, ExtractQuery, QueryFeature, Search, StoreMatch,
         StoreBeyond, EndStore, SaveImage, EndQueries
<1>2. queryFeature \subseteq queryFeature'
  BY DEF Next, vars, files, texts, StartBatch, EndBatch, SkipText, ExtractText, MATLAB,
         TextFeature, SkipQuery, ExtractQuery, QueryFeature, Search, StoreMatch,
         StoreBeyond, EndStore, SaveImage, EndQueries
<1>3. outputDir \subseteq outputDir'
  BY DEF Next, vars, files, texts, StartBatch, EndBatch, SkipText, ExtractText,
         TextFeature, SkipQuery, ExtractQuery, QueryFeature, Search, StoreMatch,
         StoreBeyond, EndStore, SaveImage, EndQueries
<1>4. query_comps \subseteq query_comps'
  BY DEF Next, vars, process, StartBatch, EndBatch, SkipText, ExtractText,
         TextFeature, SkipQuery, ExtractQuery, QueryFeature, Search, StoreMatch,
         StoreBeyond, EndStore, SaveImage, EndQueries
<1> QED
  BY <1>1, <1>2, <1>3, <1>4 DEF Prepared

LEMMA NextOwnQuery == Typed /\ Ready /\ [Next]_vars => OwnQuery'
<1> SUFFICES ASSUME Typed, Ready, [Next]_vars PROVE OwnQuery'
  OBVIOUS
<1>1. CASE UNCHANGED vars
  <2>1. query' = query
    BY <1>1 DEF vars, process, query
  <2> QED
    BY <1>1, <2>1 DEF vars, given, files, texts, process, Ready, OwnQuery
<1>2. CASE StartBatch
  BY <1>2, StartsOrEnds DEF Ready, OwnQuery, InQuery
<1>3. CASE EndBatch \/ SkipText \/ ExtractText \/ TextFeature \/ SkipQuery
           \/ StoreBeyond \/ SaveImage \/ EndQueries
  BY <1>3 DEF EndBatch, SkipText, ExtractText, TextFeature, SkipQuery, StoreBeyond,
              SaveImage, EndQueries, Ready, OwnQuery, InQuery, given
<1>4. CASE ExtractQuery
  <2>1. query' = query /\ query \notin unreadable /\ unreadable' = unreadable
    BY <1>4 DEF ExtractQuery, query, given
  <2> QED
    BY <1>4, <2>1 DEF ExtractQuery, Ready, OwnQuery, InQuery, given, files, texts
<1>5. CASE QueryFeature
  <2>1. query' = query
    BY <1>5 DEF QueryFeature, query, process
  <2> QED
    BY <1>5, <2>1 DEF QueryFeature, Ready, OwnQuery, InQuery, given, process
<1>6. CASE Search \/ StoreMatch \/ EndStore
  <2>1. query' = query
    BY <1>6 DEF Search, StoreMatch, EndStore, query, process
  <2> QED
    BY <1>6, <2>1 DEF Search, StoreMatch, EndStore, Ready, OwnQuery, InQuery,
                      given, files, texts, process
<1> QED
  BY <1>1, <1>2, <1>3, <1>4, <1>5, <1>6 DEF Next

LEMMA NextAllPrepared == Typed /\ Ready /\ [Next]_vars => AllPrepared'
<1> SUFFICES ASSUME Typed, Ready, [Next]_vars PROVE AllPrepared'
  OBVIOUS
<1>1. CASE UNCHANGED vars
  BY <1>1 DEF vars, given, files, texts, process, Ready, AllPrepared, FirstReadable,
              Prepared, Passed
<1>2. CASE StartBatch
  BY <1>2, StartsOrEnds DEF AllPrepared, InText, InQuery
<1>3. CASE EndBatch \/ StoreBeyond
  BY <1>3 DEF EndBatch, StoreBeyond, AllPrepared, InText
<1>4. ASSUME pc \in InText \cup {"text"}, FirstReadable, Next,
             text_num' = text_num \/ text_num > 0,
             text_num' > 0
      PROVE  \A q \in (Queries \ unreadable)' : Prepared(q)'
  <2>1. text_num > 0
    BY <1>4
  <2>2. unreadable' = unreadable
    BY <1>4 DEF Next, given, StartBatch, EndBatch, SkipText, ExtractText,
         TextFeature, SkipQuery, ExtractQuery, QueryFeature, Search, StoreMatch,
         StoreBeyond, EndStore, SaveImage, EndQueries
  <2>3. Queries' = Queries
    BY DEF Queries
  <2>4. pc # "start"
    BY <1>4 DEF InText
  <2>5. \A q \in Queries \ unreadable : Prepared(q)
    BY <1>4, <2>1 DEF Ready, AllPrepared
  <2> QED
    BY <2>2, <2>3, <2>4, <2>5, StaysPrepared
<1>5. ASSUME ~(EndBatch \/ StoreBeyond \/ StartBatch), Next
      PROVE  /\ pc \in InText \cup {"text"} /\ pc # "start"
             /\ batch \in DOMAIN Batches
             /\ FirstReadable' <=> FirstReadable
             /\ unreadable' = unreadable
  <2>1. /\ pc \in InText \cup {"text"} /\ pc # "start"
        /\ batch' = batch /\ unreadable' = unreadable
    BY <1>5 DEF Next, given, SkipText, ExtractText, TextFeature, SkipQuery,
         ExtractQuery, QueryFeature, Search, StoreMatch, EndStore, SaveImage,
         EndQueries, InText
  <2> QED
    BY <2>1 DEF FirstReadable, Typed, Loops
<1>6. CASE SkipText
  <2> SUFFICES ASSUME FirstReadable'
               PROVE  \A q \in (Queries \ unreadable)' : Prepared(q)'
    BY <1>6 DEF SkipText, AllPrepared, InQuery
  <2>0. Next /\ FirstReadable /\ pc = "text" /\ batch \in DOMAIN Batches
    BY <1>5, <1>6 DEF Next, SkipText, StartBatch, EndBatch, StoreBeyond, MoreTexts
  <2>1. text # Batches[batch].lower
    BY <1>6, <2>0 DEF SkipText, FirstReadable
  <2>2. Lower \in Nat /\ text = Lower + text_num /\ text_num \in Nat
    BY <2>0, CurrentText DEF Typed
  <2>3. text_num > 0 /\ text_num' > 0
    BY <1>6, <2>1, <2>2 DEF Lower, SkipText
  <2> QED
    BY <1>4, <2>0, <2>3
<1>7. CASE EndQueries
  <2> SUFFICES ASSUME FirstReadable'
               PROVE  \A q \in (Queries \ unreadable)' : Prepared(q)'
    BY <1>7 DEF EndQueries, AllPrepared, InQuery
  <2>0. /\ Next /\ FirstReadable /\ pc = "query" /\ batch \in DOMAIN Batches
        /\ unreadable' = unreadable
    BY <1>5, <1>7 DEF Next, EndQueries, StartBatch, EndBatch, StoreBeyond
  <2>1. text_num \in Nat /\ text_num' = text_num + 1
    BY <1>7, <2>0, CurrentText DEF EndQueries, Typed
  <2>2. CASE text_num > 0
    BY <1>4, <2>0, <2>1, <2>2 DEF InText
  <2>3. CASE text_num = 0
    <3>1. query_num = Len(Query) /\ DOMAIN Query = 1 .. Len(Query)
      BY <1>7, RunAssumption DEF EndQueries, MoreQueries, Typed, Counters
    <3>2. Passed(query_num) = Queries
      BY <3>1 DEF Passed, Queries
    <3>3. \A q \in Queries \ unreadable : Prepared(q)
      BY <2>0, <2>3, <3>2 DEF Ready, AllPrepared, InText
    <3>4. Queries' = Queries
      BY DEF Queries
    <3> QED
      BY <2>0, <3>3, <3>4, StaysPrepared
  <2> QED
    BY <2>1, <2>2, <2>3
<1>8. CASE ExtractText \/ TextFeature \/ SkipQuery \/ ExtractQuery \/ QueryFeature
           \/ Search \/ StoreMatch \/ EndStore \/ SaveImage
  <2>1. Next /\ text_num' = text_num
    BY <1>8 DEF Next, ExtractText, TextFeature, SkipQuery, ExtractQuery, QueryFeature,
                Search, StoreMatch, EndStore, SaveImage, process
  <2>2. ~(EndBatch \/ StoreBeyond \/ StartBatch)
    BY <1>8 DEF ExtractText, TextFeature, SkipQuery, ExtractQuery, QueryFeature,
                Search, StoreMatch, EndStore, SaveImage, EndBatch, StoreBeyond,
                StartBatch
  <2>3. /\ pc \in InText \cup {"text"} /\ pc # "start"
        /\ batch \in DOMAIN Batches
        /\ FirstReadable' <=> FirstReadable
        /\ unreadable' = unreadable
    BY <1>5, <2>1, <2>2
  <2>4. ASSUME FirstReadable', text_num' > 0
        PROVE  \A q \in (Queries \ unreadable)' : Prepared(q)'
    BY <1>4, <2>1, <2>3, <2>4
  <2>5. ASSUME FirstReadable', text_num' = 0, pc' \in InQuery \cup {"query"},
               NEW q \in (Passed(query_num))', q \notin unreadable'
        PROVE  Prepared(q)'
    <3>1. CASE ExtractText \/ TextFeature
      <4>1. CASE ExtractText
        <5>1. query_num' = 0
          BY <4>1 DEF ExtractText
        <5>2. FALSE
          BY <2>5, <5>1 DEF Passed
        <5> QED
          BY <5>2
      <4>2. CASE TextFeature
        <5>1. query_num' = 0
          BY <4>2 DEF TextFeature, process, Ready, OwnQuery
        <5>2. FALSE
          BY <2>5, <5>1 DEF Passed
        <5> QED
          BY <5>2
      <4> QED
        BY <3>1, <4>1, <4>2
    <3>2. CASE ExtractQuery \/ QueryFeature \/ Search \/ StoreMatch \/ EndStore
      <4>1. query_num' = query_num /\ pc \in InQuery \cup {"query"}
        BY <3>2 DEF ExtractQuery, QueryFeature, Search, StoreMatch, EndStore,
                    process, InQuery
      <4>2. Prepared(q)
        BY <2>1, <2>3, <2>5, <4>1 DEF Ready, AllPrepared, Passed
      <4> QED
        BY <2>3, <4>2, StaysPrepared
    <3>3. CASE SkipQuery \/ SaveImage
      <4>1. /\ query_num' = query_num + 1 /\ pc \in InQuery \cup {"query"}
            /\ query_num < Len(Query)
        BY <3>3 DEF SkipQuery, SaveImage, MoreQueries, InQuery, Typed, Loops
      <4>2. q = query \/ q \in Passed(query_num)
        <5>1. Passed(query_num + 1) = Passed(query_num) \cup {query}
          BY <4>1, PassedGrows DEF Typed
        <5>2. q \in Passed(query_num + 1)
          BY <2>5, <4>1 DEF Passed
        <5> QED
          BY <5>1, <5>2
      <4>3. CASE q \in Passed(query_num)
        <5>1. Prepared(q)
          BY <2>1, <2>3, <2>5, <4>1, <4>3 DEF Ready, AllPrepared
        <5> QED
          BY <2>3, <5>1, StaysPrepared
      <4>4. CASE q = query /\ SkipQuery
        BY <2>3, <2>5, <4>4 DEF SkipQuery
      <4>5. CASE q = query /\ SaveImage
        BY <2>1, <2>5, <4>5 DEF SaveImage, Prepared, Ready, OwnQuery, InQuery, given
      <4> QED
        BY <3>3, <4>2, <4>3, <4>4, <4>5
    <3> QED
      BY <1>8, <3>1, <3>2, <3>3
  <2> QED
    BY <2>4, <2>5 DEF AllPrepared
<1> QED
  BY <1>1, <1>2, <1>3, <1>6, <1>7, <1>8 DEF Next

LEMMA NextReady == Typed /\ Ready /\ [Next]_vars => Ready'
BY NextOwnQuery, NextAllPrepared DEF Ready

(* What the first text of a batch leaves to the others is always there. *)
LEMMA ReadyHolds == Spec => []Ready
<1>1. Init => Ready
  BY DEF Init, Ready, AllPrepared, OwnQuery, InText, InQuery
<1> QED
  BY <1>1, NextReady, TypesCorrect, PTL DEF Spec

(* A query that can be read and is not the first one's business any more. *)
LEMMA PreparedQuery ==
  ASSUME Typed, Ready, pc \in InQuery, FirstReadable
  PROVE  text_num = 0 \/ Prepared(query)
<1>1. query_num < Len(Query) /\ batch \in DOMAIN Batches
  BY DEF Typed, Loops, InQuery, InText
<1>2. query \in Queries /\ query \notin unreadable
  BY <1>1, CurrentQuery DEF Typed, Ready, OwnQuery
<1>3. text_num \in Nat
  BY <1>1, CurrentText DEF Typed
<1> QED
  BY <1>2, <1>3 DEF Ready, AllPrepared, InText, InQuery

(* DTW searches with the query's own components, if the first text of its  *)
(* batch could be loaded.                                                  *)
THEOREM DtwHasQuery == Spec => []SearchHasQuery
<1>1. Typed /\ Ready => SearchHasQuery
  BY PreparedQuery DEF Ready, OwnQuery, SearchHasQuery, Prepared, FirstReadable, InQuery
<1> QED
  BY <1>1, TypesCorrect, ReadyHolds, PTL

(* The image of every search is saved, under the same condition.           *)
THEOREM ImagesSaved == Spec => ImageSaved
<1> DEFINE A == pc = "save" =>
                  <<text, query>> \in drawn' \/ Batches[batch].lower \in unreadable
<1>1. ASSUME Typed, Ready, [Next]_vars PROVE [A]_vars
  <2> SUFFICES ASSUME pc = "save", FirstReadable, ~UNCHANGED vars
               PROVE  <<text, query>> \in drawn'
    BY DEF A, FirstReadable
  <2>1. SaveImage
    BY <1>1 DEF Next, StartBatch, EndBatch, SkipText, ExtractText, TextFeature,
                SkipQuery, ExtractQuery, QueryFeature, Search, StoreMatch,
                StoreBeyond, EndStore, EndQueries
  <2>2. text_num = 0 \/ query \in outputDir
    BY <1>1, PreparedQuery DEF InQuery, Prepared
  <2> QED
    BY <2>1, <2>2 DEF SaveImage
<1> QED
  BY <1>1, TypesCorrect, ReadyHolds, PTL DEF Spec, ImageSaved, A

(* A process that gives up for a missing file had no training features or  *)
(* no map from the beginning, or MATLAB failed on the image, or the first  *)
(* text of its batch could not be loaded.                                  *)
Untrained == (kind = "kmeans" /\ training = "missing") \/ (kind = "som" /\ ~map)

THEOREM ExitsExplained == Spec => []ExitExplained
<1>1. Init => ExitExplained
  BY DEF Init, ExitExplained
<1>2. ASSUME Typed, Ready, ExitExplained, [Next]_vars PROVE ExitExplained'
  <2> SUFFICES ASSUME pc' = "exit", FirstReadable'
               PROVE  Untrained' \/ text' \in failed' \/ (MoreQueries' /\ query' \in failed')
    BY DEF ExitExplained, FirstReadable, Untrained
  <2>1. CASE UNCHANGED vars
    <3>1. /\ FirstReadable /\ pc = "exit"
          /\ Untrained' <=> Untrained
          /\ text' = text /\ query' = query
          /\ MoreQueries' <=> MoreQueries
      BY <2>1 DEF vars, given, files, process, FirstReadable, Untrained, text, query, MoreQueries
    <3>2. Untrained \/ text \in failed \/ (MoreQueries /\ query \in failed)
      BY <1>2, <3>1 DEF ExitExplained, FirstReadable, Untrained
    <3> QED
      BY <2>1, <3>1, <3>2 DEF vars, history
  <2>4. CASE StartBatch
    BY <2>4, EndsAtOnce DEF StartBatch, given, Untrained
  <2>2. CASE TextFeature
    BY <2>2 DEF TextFeature, MATLAB, text, process
  <2>3. CASE QueryFeature
    <3>1. /\ query' = query /\ MoreQueries' = MoreQueries /\ FirstReadable
          /\ query_num < Len(Query)
      BY <1>2, <2>3 DEF QueryFeature, query, process, given, MoreQueries,
                        FirstReadable, Typed, Loops, InQuery
    <3>2. CASE text_num = 0
      BY <2>3, <3>1, <3>2 DEF QueryFeature, MATLAB, MoreQueries
    <3>3. CASE text_num # 0
      <4>1. query \in queryFeature
        BY <1>2, <2>3, <3>1, <3>3, PreparedQuery
        DEF QueryFeature, InQuery, Prepared, Ready, OwnQuery
      <4> QED
        BY <2>3, <3>3, <4>1 DEF QueryFeature
    <3> QED
      BY <3>2, <3>3
  <2> QED
    BY <1>2, <2>1, <2>2, <2>3, <2>4
    DEF Next, EndBatch, SkipText, ExtractText, SkipQuery, ExtractQuery,
        Search, StoreMatch, StoreBeyond, EndStore, SaveImage, EndQueries
<1> QED
  BY <1>1, <1>2, TypesCorrect, ReadyHolds, PTL DEF Spec

-----------------------------------------------------------------------------
(* What a process leaves undone.  The texts behind the loop have been       *)
(* searched for every query, the current one for the queries behind the    *)
(* inner loop; a process that ends early is in died.                       *)

Given(x, q) ==
  <<x, q>> \in searched \/ \E b \in died : Batches[b].lower <= x /\ x <= Batches[b].upper

BatchesDone ==
  \A b \in DOMAIN Batches, x \in Text \ unreadable, q \in Queries \ unreadable :
    b < batch /\ Batches[b].lower <= x /\ x <= Batches[b].upper => Given(x, q)

TextsDone ==
  pc \in InText \cup {"text"} =>
    \A x \in Text \ unreadable, q \in Queries \ unreadable :
      Lower <= x /\ x < text => <<x, q>> \in searched

QueriesDone ==
  pc \in InText => \A q \in Passed(query_num) \ unreadable : <<text, q>> \in searched

NoneLeft == pc = "done" => batch \notin DOMAIN Batches

AllDone == BatchesDone /\ TextsDone /\ QueriesDone /\ NoneLeft

LEMMA HistoryGrows ==
  ASSUME [Next]_vars
  PROVE  searched \subseteq searched' /\ died \subseteq died' /\ unreadable' = unreadable
BY DEF Next, vars, given, history, StartBatch, EndBatch, SkipText, ExtractText, TextFeature,
       SkipQuery, ExtractQuery, QueryFeature, Search, StoreMatch, StoreBeyond, EndStore,
       SaveImage, EndQueries

LEMMA NextBatchesDone == Typed /\ AllDone /\ [Next]_vars => BatchesDone'
<1> SUFFICES ASSUME Typed, AllDone, [Next]_vars,
                    NEW b \in DOMAIN Batches, NEW x \in Text \ unreadable,
                    NEW q \in Queries \ unreadable,
                    b < batch', Batches[b].lower <= x, x <= Batches[b].upper
             PROVE  Given(x, q)'
  BY HistoryGrows DEF BatchesDone, Text, Queries
<1>0. /\ batch \in Nat /\ b \in Nat /\ x \in Nat
      /\ x < TextCount
  BY RunAssumption DEF Typed, Counters, Text
<1>1. CASE b < batch
  <2>1. Given(x, q)
    BY <1>1 DEF AllDone, BatchesDone
  <2> QED
    BY <2>1, HistoryGrows DEF Given
<1>2. CASE ~(b < batch)
  <2>1. EndBatch /\ b = batch
    BY <1>0, <1>2 DEF Next, vars, StartBatch, EndBatch, SkipText, ExtractText, TextFeature,
       SkipQuery, ExtractQuery, QueryFeature, Search, StoreMatch, StoreBeyond, EndStore,
       SaveImage, EndQueries
  <2>2. CASE pc \in {"exit", "crash"}
    <3>1. batch \in died'
      BY <2>1, <2>2 DEF EndBatch
    <3> QED
      BY <2>1, <3>1 DEF Given
  <2>3. CASE pc = "text" /\ ~MoreTexts
    <3>1. Upper \in Nat /\ text \in Nat
      BY <2>1, CurrentText DEF Typed
    <3>2. x < text
      BY <1>0, <2>1, <2>3, <3>1, RunAssumption DEF MoreTexts, Upper
    <3>3. <<x, q>> \in searched
      BY <2>1, <2>3, <3>2 DEF AllDone, TextsDone, Lower
    <3> QED
      BY <3>3, HistoryGrows DEF Given
  <2> QED
    BY <2>1, <2>2, <2>3 DEF EndBatch
<1> QED
  BY <1>1, <1>2

(* The loop over the texts goes on when the current one is done or cannot   *)
(* be loaded.                                                              *)
LEMMA NextTextsDone == Typed /\ AllDone /\ [Next]_vars => TextsDone'
<1> SUFFICES ASSUME Typed, AllDone, [Next]_vars, pc' \in InText \cup {"text"},
                    NEW x \in Text \ unreadable, NEW q \in Queries \ unreadable,
                    Lower' <= x, x < text'
             PROVE  <<x, q>> \in searched'
  BY HistoryGrows DEF TextsDone, Text, Queries
<1>0. x \in Nat
  BY RunAssumption DEF Text
<1>1. CASE StartBatch
  <2>1. batch \in DOMAIN Batches /\ batch' = batch /\ text_num' = 0
    BY <1>1 DEF StartBatch, InText
  <2>2. Lower \in Nat /\ Lower' = Lower /\ text' = Lower + 0
    BY <2>1, CurrentText DEF Typed, Lower, text
  <2> QED
    BY <1>0, <2>2
<1>2. CASE SkipText \/ EndQueries
  <2>1. /\ batch \in DOMAIN Batches /\ batch' = batch /\ text_num' = text_num + 1
        /\ pc \in InText \cup {"text"}
    BY <1>2 DEF SkipText, EndQueries, Typed, Loops, InText
  <2>2. /\ Lower \in Nat /\ text \in Nat /\ Lower' = Lower /\ text' = text + 1
    BY <2>1, CurrentText DEF Typed, Lower, text
  <2>3. CASE x < text
    BY <2>1, <2>2, <2>3, HistoryGrows DEF AllDone, TextsDone
  <2>4. CASE x = text
    <3>1. EndQueries
      BY <1>2, <2>4 DEF SkipText
    <3>2. query_num = Len(Query) /\ DOMAIN Query = 1 .. Len(Query)
      BY <3>1, RunAssumption DEF EndQueries, MoreQueries, Typed, Counters
    <3>3. Passed(query_num) = Queries
      BY <3>2 DEF Passed, Queries
    <3>4. <<text, q>> \in searched
      BY <3>1, <3>3 DEF EndQueries, AllDone, QueriesDone, InText
    <3> QED
      BY <2>4, <3>4, HistoryGrows
  <2> QED
    BY <1>0, <2>2, <2>3, <2>4
<1>3. CASE ~(StartBatch \/ SkipText \/ EndQueries)
  <2>1. batch' = batch /\ text_num' = text_num /\ pc \in InText \cup {"text"}
    BY <1>3 DEF Next, vars, process, EndBatch, ExtractText, TextFeature, SkipQuery,
       ExtractQuery, QueryFeature, Search, StoreMatch, StoreBeyond, EndStore, SaveImage, InText
  <2>2. Lower' = Lower /\ text' = text
    BY <2>1 DEF Lower, text
  <2> QED
    BY <2>1, <2>2, HistoryGrows DEF AllDone, TextsDone
<1> QED
  BY <1>1, <1>2, <1>3

(* The loop over the queries goes on when the current one has been searched *)
(* for or cannot be loaded.                                                *)
LEMMA NextQueriesDone == Typed /\ Ready /\ AllDone /\ [Next]_vars => QueriesDone'
<1> SUFFICES ASSUME Typed, Ready, AllDone, [Next]_vars, pc' \in InText,
                    NEW q \in Passed(query_num'), q \notin unreadable
             PROVE  <<text', q>> \in searched'
  BY HistoryGrows DEF QueriesDone, Passed
<1>1. CASE ExtractText
  <2>1. query_num' = 0
    BY <1>1 DEF ExtractText
  <2> QED
    BY <2>1 DEF Passed
<1>2. CASE SkipQuery \/ SaveImage
  <2>1. /\ query_num' = query_num + 1 /\ query_num < Len(Query) /\ text' = text /\ pc \in InText
    BY <1>2 DEF SkipQuery, SaveImage, MoreQueries, Typed, Loops, InQuery, InText, text
  <2>2. q = query \/ q \in Passed(query_num)
    <3>1. Passed(query_num + 1) = Passed(query_num) \cup {query}
      BY <2>1, PassedGrows DEF Typed
    <3> QED
      BY <2>1, <3>1
  <2>3. CASE q \in Passed(query_num)
    BY <2>1, <2>3, HistoryGrows DEF AllDone, QueriesDone
  <2>4. CASE q = query
    <3>1. SaveImage
      BY <1>2, <2>4 DEF SkipQuery
    <3>2. <<text, query>> \in searched
      BY <3>1 DEF SaveImage, Typed, Loops
    <3> QED
      BY <2>1, <2>4, <3>2, HistoryGrows
  <2> QED
    BY <2>2, <2>3, <2>4
<1>3. CASE ~(ExtractText \/ SkipQuery \/ SaveImage)
  <2>1. /\ query_num' = query_num /\ batch' = batch /\ text_num' = text_num /\ pc \in InText
    BY <1>3, StartsOrEnds DEF Next, vars, process, EndBatch, SkipText, TextFeature, EndQueries,
       ExtractQuery, QueryFeature, Search, StoreMatch, StoreBeyond, EndStore, InText
  <2>2. text' = text
    BY <2>1 DEF text
  <2> QED
    BY <2>1, <2>2, HistoryGrows DEF AllDone, QueriesDone
<1> QED
  BY <1>1, <1>2, <1>3

LEMMA NextAllDone == Typed /\ Ready /\ AllDone /\ [Next]_vars => AllDone'
<1> SUFFICES ASSUME Typed, Ready, AllDone, [Next]_vars PROVE AllDone'
  OBVIOUS
<1>1. NoneLeft'
  BY StartsOrEnds DEF AllDone, NoneLeft, Next, vars, EndBatch, SkipText, ExtractText,
     TextFeature, SkipQuery, ExtractQuery, QueryFeature, Search, StoreMatch, StoreBeyond,
     EndStore, SaveImage, EndQueries
<1> QED
  BY <1>1, NextBatchesDone, NextTextsDone, NextQueriesDone DEF AllDone

(* Whatever fails, every text and query that can be loaded have been        *)
(* searched when run.bat is done, but for the texts of a process that ended *)
(* early: no batch costs another one a search.                             *)
THEOREM EverySearchMade == Spec => []NothingSkipped
<1>1. Init => AllDone
  <2> SUFFICES ASSUME Init PROVE AllDone
    OBVIOUS
  <2>1. pc = "start" /\ batch = 1
    BY DEF Init
  <2>2. \A b \in DOMAIN Batches : ~(b < 1)
    BY RunAssumption
  <2> QED
    BY <2>1, <2>2 DEF AllDone, BatchesDone, TextsDone, QueriesDone, NoneLeft, InText
<1>2. Typed /\ AllDone => NothingSkipped
  <2> SUFFICES ASSUME Typed, AllDone, pc = "done",
                      NEW x \in Text \ unreadable, NEW q \in Queries \ unreadable
               PROVE  Given(x, q)
    BY DEF NothingSkipped, Given
  <2>1. PICK b \in DOMAIN Batches : Batches[b].lower <= x /\ x <= Batches[b].upper
    BY CoverAssumption
  <2>2. b < batch
    BY RunAssumption DEF Typed, Counters, AllDone, NoneLeft
  <2> QED
    BY <2>1, <2>2 DEF AllDone, BatchesDone
<1> QED
  BY <1>1, <1>2, NextAllDone, TypesCorrect, ReadyHolds, PTL DEF Spec

-----------------------------------------------------------------------------
(* Every reachable state has the right types. *)
THEOREM TypeCorrect == Spec => []TypeOK
<1>1. Typed /\ Made /\ StoredInv => TypeOK
  BY DEF Typed, Made, Files, Counters, InText, StoredInv, Lines, TypeOK
<1>2. Init => StoredInv
  <2> SUFFICES ASSUME Init PROVE StoredInv
    OBVIOUS
  <2>1. stored = <<>>
    BY DEF Init
  <2> QED
    BY <2>1, InitTyped DEF StoredInv, AllOld, Stored, StoredOnce
<1> QED
  BY <1>1, <1>2, NextStored, TypesCorrect, MadeKept, PTL DEF Spec

-----------------------------------------------------------------------------
(* Termination.  Five numbers compared from the left; no sequence of them   *)
(* descends for ever.                                                      *)
Less   == OpToRel(<, Nat)
Order2 == LexPairOrdering(Less, Less, Nat, Nat)
Order3 == LexPairOrdering(Less, Order2, Nat, Nat \X Nat)
Order4 == LexPairOrdering(Less, Order3, Nat, Nat \X (Nat \X Nat))
Order  == LexPairOrdering(Less, Order4, Nat, Nat \X (Nat \X (Nat \X Nat)))

Five(a, b, c, e, f) == <<a, <<b, <<c, <<e, f>>>>>>>>

(* No sequence of them descends for ever. *)
LEMMA OrderWellFounded == IsWellFoundedOn(Order, Nat \X (Nat \X (Nat \X (Nat \X Nat))))
<1>1. IsWellFoundedOn(Less, Nat)
  BY NatLessThanWellFounded, Zenon DEF Less
<1>2. IsWellFoundedOn(Order2, Nat \X Nat)
  BY <1>1, WFLexPairOrdering DEF Order2
<1>3. IsWellFoundedOn(Order3, Nat \X (Nat \X Nat))
  BY <1>1, <1>2, WFLexPairOrdering DEF Order3
<1>4. IsWellFoundedOn(Order4, Nat \X (Nat \X (Nat \X Nat)))
  BY <1>1, <1>3, WFLexPairOrdering DEF Order4
<1> QED
  BY <1>1, <1>4, WFLexPairOrdering DEF Order

(* What descends in the first of the numbers that changes. *)
LEMMA InOrder ==
  ASSUME NEW a \in Nat, NEW b \in Nat, NEW c \in Nat, NEW e \in Nat, NEW f \in Nat,
         NEW u \in Nat, NEW v \in Nat, NEW w \in Nat, NEW x \in Nat, NEW y \in Nat,
         \/ u < a
         \/ u = a /\ v < b
         \/ u = a /\ v = b /\ w < c
         \/ u = a /\ v = b /\ w = c /\ x < e
         \/ u = a /\ v = b /\ w = c /\ x = e /\ y < f
  PROVE  <<Five(u, v, w, x, y), Five(a, b, c, e, f)>> \in Order
<1>1. \A k, m \in Nat : k < m => <<k, m>> \in Less
  BY DEF Less, OpToRel
<1>2. (x < e \/ (x = e /\ y < f)) => <<<<x, y>>, <<e, f>>>> \in Order2
  BY <1>1 DEF Order2, LexPairOrdering
<1>3. (w < c \/ (w = c /\ (x < e \/ (x = e /\ y < f))))
        => <<<<w, <<x, y>>>>, <<c, <<e, f>>>>>> \in Order3
  BY <1>1, <1>2 DEF Order3, LexPairOrdering
<1>4. (v < b \/ (v = b /\ (w < c \/ (w = c /\ (x < e \/ (x = e /\ y < f))))))
        => <<<<v, <<w, <<x, y>>>>>>, <<b, <<c, <<e, f>>>>>>>> \in Order4
  BY <1>1, <1>3 DEF Order4, LexPairOrdering
<1> QED
  BY <1>1, <1>4 DEF Order, Five, LexPairOrdering

(* The batches left, where the process is, its texts left, the queries left *)
(* of the current text, and the steps left of the current query.           *)
BatchesLeft == Len(Batches) + 1 - batch

Process ==
  CASE pc = "start" -> 3
    [] pc = "text" \/ pc \in InText -> 2
    [] pc \in {"exit", "crash"} -> 1
    [] OTHER -> 0

TextsLeft == TextCount - text_num

QueriesLeft ==
  CASE pc = "text" -> Len(Query) + 2
    [] pc = "feature" -> Len(Query) + 1
    [] OTHER -> Len(Query) - query_num

MatchesLeft ==
  CASE pc = "query" -> MaxMatches + 4
    [] pc = "qfeature" -> MaxMatches + 3
    [] pc = "search" -> MaxMatches + 2
    [] pc = "store" -> found + 1
    [] OTHER -> 0

StepsLeft == Five(BatchesLeft, Process, TextsLeft, QueriesLeft, MatchesLeft)

NearerToEnd == <<StepsLeft', StepsLeft>> \in Order

StepsLeftDescend == [][NearerToEnd]_vars

StepsCounted ==
  /\ BatchesLeft \in Nat /\ Process \in Nat /\ TextsLeft \in Nat
  /\ QueriesLeft \in Nat /\ MatchesLeft \in Nat

LEMMA CountsAreNumbers == Typed => StepsCounted
<1> SUFFICES ASSUME Typed PROVE StepsCounted
  OBVIOUS
<1>1. /\ Len(Batches) \in Nat /\ Len(Query) \in Nat /\ TextCount \in Nat /\ MaxMatches \in Nat
      /\ batch \in 1 .. Len(Batches) + 1 /\ text_num \in 0 .. TextCount
      /\ query_num \in 0 .. Len(Query) /\ found \in 0 .. MaxMatches
  BY RunAssumption DEF Typed, Counters
<1>2. BatchesLeft \in Nat /\ TextsLeft \in Nat
  BY <1>1 DEF BatchesLeft, TextsLeft
<1>3. Process \in Nat
  BY DEF Process
<1>4. QueriesLeft \in Nat
  BY <1>1 DEF QueriesLeft
<1>5. MatchesLeft \in Nat
  BY <1>1 DEF MatchesLeft
<1> QED
  BY <1>2, <1>3, <1>4, <1>5 DEF StepsCounted

LEMMA StepDescends ==
  Typed /\ StepsCounted /\ StepsCounted' /\ Next => NearerToEnd
<1> SUFFICES ASSUME Typed, StepsCounted, StepsCounted', Next PROVE NearerToEnd
  OBVIOUS
<1> DEFINE Descends(u, v, w, x, y) ==
      \/ u < BatchesLeft
      \/ u = BatchesLeft /\ v < Process
      \/ u = BatchesLeft /\ v = Process /\ w < TextsLeft
      \/ u = BatchesLeft /\ v = Process /\ w = TextsLeft /\ x < QueriesLeft
      \/ u = BatchesLeft /\ v = Process /\ w = TextsLeft /\ x = QueriesLeft /\ y < MatchesLeft
<1>1. SUFFICES Descends(BatchesLeft', Process', TextsLeft', QueriesLeft', MatchesLeft')
  <2>1. <<Five(BatchesLeft', Process', TextsLeft', QueriesLeft', MatchesLeft'),
          Five(BatchesLeft, Process, TextsLeft, QueriesLeft, MatchesLeft)>> \in Order
    BY <1>1, InOrder DEF StepsCounted
  <2> QED
    BY <2>1 DEF NearerToEnd, StepsLeft, Five
<1>2. /\ Len(Batches) \in Nat /\ Len(Query) \in Nat /\ TextCount \in Nat /\ MaxMatches \in Nat
      /\ batch \in 1 .. Len(Batches) + 1 /\ text_num \in 0 .. TextCount
      /\ query_num \in 0 .. Len(Query) /\ found \in 0 .. MaxMatches
  BY RunAssumption DEF Typed, Counters
<1>3. batch' = batch => BatchesLeft' = BatchesLeft
  BY DEF BatchesLeft
<1>4. text_num' = text_num => TextsLeft' = TextsLeft
  BY DEF TextsLeft
<1>5. text_num' = text_num + 1 => TextsLeft' < TextsLeft
  BY <1>2 DEF TextsLeft
<1>6. pc = pc' => Process' = Process
  BY DEF Process
<1>7. CASE StartBatch
  BY <1>3, <1>7, StartsOrEnds DEF Process, InText
<1>8. CASE EndBatch
  BY <1>2, <1>8 DEF EndBatch, BatchesLeft
<1>9. CASE SkipText
  BY <1>3, <1>5, <1>6, <1>9 DEF SkipText
<1>10. CASE ExtractText
  <2>1. batch' = batch /\ text_num' = text_num /\ pc = "text"
    BY <1>10 DEF ExtractText
  <2>2. CASE pc' = "crash"
    BY <1>3, <2>1, <2>2 DEF Process, InText
  <2>3. CASE pc' \in {"feature", "query"}
    <3>1. Process' = Process
      BY <2>1, <2>3 DEF Process, InText
    <3>2. query_num' = 0
      BY <1>10 DEF ExtractText
    <3>3. QueriesLeft' < QueriesLeft
      BY <1>2, <2>1, <2>3, <3>2 DEF QueriesLeft
    <3> QED
      BY <1>3, <1>4, <2>1, <3>1, <3>3
  <2> QED
    BY <1>10, <2>2, <2>3 DEF ExtractText
<1>11. CASE TextFeature
  <2>1. batch' = batch /\ text_num' = text_num /\ query_num' = query_num /\ pc = "feature"
    BY <1>11 DEF TextFeature, process
  <2>2. CASE pc' = "exit"
    BY <1>3, <2>1, <2>2 DEF Process, InText
  <2>3. CASE pc' = "query"
    <3>1. Process' = Process
      BY <2>1, <2>3 DEF Process, InText
    <3>2. QueriesLeft' < QueriesLeft
      BY <1>2, <2>1, <2>3 DEF QueriesLeft
    <3> QED
      BY <1>3, <1>4, <2>1, <3>1, <3>2
  <2> QED
    BY <1>11, <2>2, <2>3 DEF TextFeature
<1>12. CASE SkipQuery
  <2>1. /\ batch' = batch /\ text_num' = text_num /\ query_num' = query_num + 1
        /\ pc = "query" /\ pc' = pc
    BY <1>12 DEF SkipQuery
  <2>2. QueriesLeft' < QueriesLeft
    BY <1>2, <2>1 DEF QueriesLeft
  <2> QED
    BY <1>3, <1>4, <1>6, <2>1, <2>2
<1>13. CASE ExtractQuery
  <2>1. batch' = batch /\ text_num' = text_num /\ query_num' = query_num /\ pc = "query"
    BY <1>13 DEF ExtractQuery
  <2>2. CASE pc' = "crash"
    BY <1>3, <2>1, <2>2 DEF Process, InText
  <2>3. CASE pc' \in {"qfeature", "search"}
    <3>1. Process' = Process
      BY <2>1, <2>3 DEF Process, InText
    <3>2. QueriesLeft' = QueriesLeft
      BY <2>1, <2>3 DEF QueriesLeft
    <3>3. MatchesLeft' < MatchesLeft
      BY <1>2, <2>1, <2>3 DEF MatchesLeft
    <3> QED
      BY <1>3, <1>4, <2>1, <3>1, <3>2, <3>3
  <2> QED
    BY <1>13, <2>2, <2>3 DEF ExtractQuery
<1>14. CASE QueryFeature
  <2>1. batch' = batch /\ text_num' = text_num /\ query_num' = query_num /\ pc = "qfeature"
    BY <1>14 DEF QueryFeature, process
  <2>2. CASE pc' = "exit"
    BY <1>3, <2>1, <2>2 DEF Process, InText
  <2>3. CASE pc' = "search"
    <3>1. Process' = Process
      BY <2>1, <2>3 DEF Process, InText
    <3>2. QueriesLeft' = QueriesLeft
      BY <2>1, <2>3 DEF QueriesLeft
    <3>3. MatchesLeft' < MatchesLeft
      BY <1>2, <2>1, <2>3 DEF MatchesLeft
    <3> QED
      BY <1>3, <1>4, <2>1, <3>1, <3>2, <3>3
  <2> QED
    BY <1>14, <2>2, <2>3 DEF QueryFeature
<1>15. CASE Search
  <2>1. batch' = batch /\ text_num' = text_num /\ query_num' = query_num /\ pc = "search"
    BY <1>15 DEF Search
  <2>2. CASE pc' = "crash"
    BY <1>3, <2>1, <2>2 DEF Process, InText
  <2>3. CASE pc' = "store" /\ found' \in Nat /\ found' <= MaxMatches
    <3>1. Process' = Process
      BY <2>1, <2>3 DEF Process, InText
    <3>2. QueriesLeft' = QueriesLeft
      BY <2>1, <2>3 DEF QueriesLeft
    <3>3. MatchesLeft' < MatchesLeft
      BY <1>2, <2>1, <2>3 DEF MatchesLeft
    <3> QED
      BY <1>3, <1>4, <2>1, <3>1, <3>2, <3>3
  <2> QED
    BY <1>2, <1>15, <2>2, <2>3 DEF Search
<1>16. CASE StoreMatch \/ EndStore
  <2>1. batch' = batch /\ text_num' = text_num /\ query_num' = query_num /\ pc = "store"
    BY <1>16 DEF StoreMatch, EndStore, process
  <2>2. (pc' = "store" /\ found' = found - 1) \/ pc' = "save"
    BY <1>16 DEF StoreMatch, EndStore
  <2>3. Process' = Process
    BY <2>1, <2>2 DEF Process, InText
  <2>4. QueriesLeft' = QueriesLeft
    BY <2>1, <2>2 DEF QueriesLeft
  <2>5. MatchesLeft' < MatchesLeft
    BY <1>2, <2>1, <2>2 DEF MatchesLeft
  <2> QED
    BY <1>3, <1>4, <2>1, <2>3, <2>4, <2>5
<1>17. CASE StoreBeyond
  BY <1>3, <1>17 DEF StoreBeyond, Process, InText
<1>18. CASE SaveImage
  <2>1. /\ batch' = batch /\ text_num' = text_num /\ query_num' = query_num + 1
        /\ pc = "save" /\ pc' = "query"
    BY <1>18 DEF SaveImage
  <2>2. Process' = Process
    BY <2>1 DEF Process, InText
  <2>3. QueriesLeft' < QueriesLeft
    BY <1>2, <2>1 DEF QueriesLeft
  <2> QED
    BY <1>3, <1>4, <2>1, <2>2, <2>3
<1>19. CASE EndQueries
  <2>1. /\ batch' = batch /\ text_num' = text_num + 1 /\ pc = "query" /\ pc' = "text"
    BY <1>19 DEF EndQueries
  <2>2. Process' = Process
    BY <2>1 DEF Process, InText
  <2> QED
    BY <1>3, <1>5, <2>1, <2>2
<1> QED
  BY <1>7, <1>8, <1>9, <1>10, <1>11, <1>12, <1>13, <1>14, <1>15, <1>16, <1>17, <1>18, <1>19 DEF Next

(* run.bat does not go on for ever, whatever fails: every step brings it    *)
(* nearer to its end, in an order in which nothing descends for ever.  A   *)
(* process that ends early costs its batch, and no process is started anew. *)
THEOREM EveryStepDescends ==
  /\ IsWellFoundedOn(Order, Nat \X (Nat \X (Nat \X (Nat \X Nat))))
  /\ Spec => [](StepsLeft \in Nat \X (Nat \X (Nat \X (Nat \X Nat))))
  /\ Spec => StepsLeftDescend
<1>1. Typed => StepsLeft \in Nat \X (Nat \X (Nat \X (Nat \X Nat)))
  BY CountsAreNumbers DEF StepsCounted, StepsLeft, Five
<1>2. Typed /\ StepsCounted /\ StepsCounted' /\ [Next]_vars => [NearerToEnd]_vars
  BY StepDescends
<1>3. Spec => [](StepsLeft \in Nat \X (Nat \X (Nat \X (Nat \X Nat))))
  BY <1>1, TypesCorrect, PTL
<1>4. Spec => StepsLeftDescend
  BY <1>2, CountsAreNumbers, TypesCorrect, PTL DEF Spec, StepsLeftDescend
<1> QED
  BY <1>3, <1>4, OrderWellFounded

=============================================================================
