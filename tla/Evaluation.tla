----------------------------- MODULE Evaluation -----------------------------
(***************************************************************************)
(* graph.cpp: the match files of each method are compared with the ground  *)
(* truth, page by page, and a precision-recall curve is drawn for each.    *)
(*                                                                         *)
(*  method  head of the loop over the output directories                   *)
(*  page    loop over the files of one directory                           *)
(*  save    the graph is saved                                             *)
(*                                                                         *)
(* A box is the record of its corners, a file a sequence of records; a     *)
(* directory is read in any order.  Beside the match files it may hold the *)
(* images mark.cpp saves there under the same names; graph.cpp does not    *)
(* look at extensions.                                                     *)
(***************************************************************************)
EXTENDS Integers, Sequences, FiniteSets

CONSTANTS
  Page,          \* pages of the collection
  MethodCount,   \* output directories, numbered from 1
  Threshold,     \* the edit distances of the curve's points
  Record,        \* records a file may hold: query, box and edit distance
  Garbage,       \* what a record that could not be read may hold
  NoFile,        \* contents of a file that is not there,
  Unreadable,    \* of one that cannot be opened,
  Unparsable,    \* of one in which a number does not parse
  GroundTruths, Outputs, AbsentSets, MarkedSets   \* the files there may be

Method == 1 .. MethodCount

File == Page \X {"txt", "png"}

Inputs ==
  /\ IsFiniteSet(Page)
  /\ MethodCount \in Nat
  /\ Threshold \subseteq Int /\ Threshold # {}
  /\ Record \cup Garbage \subseteq
       [query : STRING, x1 : Int, y1 : Int, x2 : Int, y2 : Int, editDistance : Int]
  /\ \A drawn \in SUBSET Method : NoFile # drawn
  /\ NoFile \notin Seq(Record) /\ Unreadable \notin Seq(Record) /\ Unparsable \notin Seq(Record)
  /\ GroundTruths \subseteq [Page -> Seq(Record) \cup {NoFile}]
  /\ Outputs \subseteq [Method -> [Page -> Seq(Record) \cup {NoFile, Unreadable, Unparsable}]]
  /\ AbsentSets \subseteq SUBSET Method
  /\ MarkedSets \subseteq SUBSET (Method \X Page)

VARIABLES
  groundTruth,      \* the files in GROUND_TRUTH
  output,           \* the files in each method's MATCH
  absent,           \* methods without an output directory
  marked,           \* pages of which mark.cpp has saved an image
  frame,            \* DATA/graph_frame.jpg can be loaded
  iOutputDir,       \* the method
  unread,           \* files of its directory not yet read
  outputData, groundTruthData,  \* history: what was read of each file
  relevant, retrieved, retrieved_relevant,   \* the curve
  csv,              \* rows written for each method
  graph,            \* methods drawn, or NoFile
  pc

given == <<groundTruth, output, absent, marked, frame>>
curve == <<outputData, groundTruthData, relevant, retrieved, retrieved_relevant>>
vars  == <<given, iOutputDir, unread, curve, csv, graph, pc>>

-----------------------------------------------------------------------------
(* A box whose corners are reversed has no points. *)
Points(d) == (d.x1 .. d.x2) \X (d.y1 .. d.y2)

(* MatchData::operator==, true if more than 50% of the total overlap.      *)
(* Two boxes without points give 0/0, which is not more.                   *)
Matches(d, e) ==
  /\ d.query = e.query
  /\ 2 * Cardinality(Points(d) \cap Points(e)) > Cardinality(Points(d) \cup Points(e))

InEditDistance(data, th) == {k \in DOMAIN data : data[k].editDistance < th}

numberOfDataInEditDistance(data, th) == Cardinality(InEditDistance(data, th))

MatchingPairs(out, gt, th) ==
  {p \in InEditDistance(out, th) \X (DOMAIN gt) : Matches(out[p[1]], gt[p[2]])}

(* Every pair counts. *)
numberOfMatchingDataInEditDistance(out, gt, th) == Cardinality(MatchingPairs(out, gt, th))

(* The loop asks for the end of the file before it reads: an empty file    *)
(* gives one record of uninitialised numbers.                              *)
ReadRecords(contents) ==
  IF contents = <<>> THEN {<<g>> : g \in Garbage} ELSE {contents}

-----------------------------------------------------------------------------
None == [f \in {} |-> <<>>]

Extend(data, f, records) ==
  [g \in DOMAIN data \cup {f} |-> IF g = f THEN records ELSE data[g]]

NewCurve ==
  /\ outputData' = None /\ groundTruthData' = None
  /\ relevant' = 0
  /\ retrieved' = [th \in Threshold |-> 0]
  /\ retrieved_relevant' = [th \in Threshold |-> 0]

Init ==
  /\ groundTruth \in GroundTruths /\ output \in Outputs /\ absent \in AbsentSets
  /\ marked \in MarkedSets /\ frame \in BOOLEAN
  /\ iOutputDir = 1
  /\ unread = {}
  /\ outputData = None /\ groundTruthData = None
  /\ relevant = 0
  /\ retrieved = [th \in Threshold |-> 0]
  /\ retrieved_relevant = [th \in Threshold |-> 0]
  /\ csv = [m \in Method |-> <<>>]
  /\ graph = NoFile
  /\ pc = "method"

FilesOf(m) ==
  {f \in File : output[m][f[1]] # NoFile /\ (f[2] = "png" => <<m, f[1]>> \in marked)}

(* Mutant: one curve for all methods. *)
OpenMethodKeeps ==
  /\ pc = "method" /\ iOutputDir \in Method \ absent
  /\ unread' = FilesOf(iOutputDir)
  /\ pc' = "page"
  /\ UNCHANGED <<given, iOutputDir, curve, csv, graph>>

OpenMethod ==
  /\ pc = "method" /\ iOutputDir \in Method \ absent
  /\ unread' = FilesOf(iOutputDir)
  /\ NewCurve
  /\ pc' = "page"
  /\ UNCHANGED <<given, iOutputDir, csv, graph>>

SkipMethod ==
  /\ pc = "method" /\ iOutputDir \in absent
  /\ iOutputDir' = iOutputDir + 1
  /\ UNCHANGED <<given, unread, curve, csv, graph, pc>>

(* The file can be opened, and there is a ground truth of the same name. *)
Compared(m, f) ==
  /\ f[2] = "txt" => output[m][f[1]] # Unreadable
  /\ groundTruth[f[1]] # NoFile

(* Mutant: the loop ends. *)
SkipFileBreaks(f) ==
  /\ pc = "page" /\ f \in unread /\ ~Compared(iOutputDir, f)
  /\ unread' = {}
  /\ UNCHANGED <<given, iOutputDir, curve, csv, graph, pc>>

SkipFile(f) ==
  /\ pc = "page" /\ f \in unread /\ ~Compared(iOutputDir, f)
  /\ unread' = unread \ {f}
  /\ UNCHANGED <<given, iOutputDir, curve, csv, graph, pc>>

(* An image ends for a text reader at its first control-Z, or does not     *)
(* parse; which of the two depends on the system.                          *)
Contents(f) ==
  IF f[2] = "png" THEN {<<>>, Unparsable} ELSE {output[iOutputDir][f[1]]}

EvaluateFile(f) ==
  /\ pc = "page" /\ f \in unread /\ Compared(iOutputDir, f)
  /\ unread' = unread \ {f}
  /\ \E contents \in Contents(f) \ {Unparsable} :
       \E out \in ReadRecords(contents), gt \in ReadRecords(groundTruth[f[1]]) :
         /\ outputData' = Extend(outputData, f, out)
         /\ groundTruthData' = Extend(groundTruthData, f, gt)
         /\ relevant' = relevant + Len(gt)
         /\ retrieved' = [th \in Threshold |-> retrieved[th] + numberOfDataInEditDistance(out, th)]
         /\ retrieved_relevant' = [th \in Threshold |->
              retrieved_relevant[th] + numberOfMatchingDataInEditDistance(out, gt, th)]
  /\ UNCHANGED <<given, iOutputDir, csv, graph, pc>>

(* A number that does not parse leaves the stream failed, not at its end:  *)
(* the same record is pushed again and again until there is no memory.     *)
EvaluateUnparsable(f) ==
  /\ pc = "page" /\ f \in unread /\ Compared(iOutputDir, f)
  /\ Unparsable \in Contents(f)
  /\ pc' = "crash"
  /\ UNCHANGED <<given, iOutputDir, unread, curve, csv, graph>>

(* Ratios are pairs of a numerator and a denominator. *)
Precision(th) == IF retrieved[th] = 0 THEN <<1, 1>> ELSE <<retrieved_relevant[th], retrieved[th]>>
Recall(th)    == IF relevant = 0 THEN <<1, 1>> ELSE <<retrieved_relevant[th], relevant>>

Rows == [th \in Threshold |-> [precision |-> Precision(th), recall |-> Recall(th)]]

(* Without the frame nothing is drawn and no row is written, either. *)
Plot ==
  /\ pc = "page" /\ unread = {}
  /\ IF graph = NoFile /\ ~frame
     THEN UNCHANGED <<csv, graph>>
     ELSE /\ csv' = [csv EXCEPT ![iOutputDir] = Rows]
          /\ graph' = (IF graph = NoFile THEN {} ELSE graph) \cup {iOutputDir}
  /\ iOutputDir' = iOutputDir + 1
  /\ pc' = "method"
  /\ UNCHANGED <<given, unread, curve>>

(* cvSaveImage does not survive an image that is not there. *)
SaveGraph ==
  /\ pc = "method" /\ iOutputDir > MethodCount
  /\ pc' = IF graph = NoFile THEN "crash" ELSE "done"
  /\ UNCHANGED <<given, iOutputDir, unread, curve, csv, graph>>

Next ==
  \/ OpenMethod \/ SkipMethod
  \/ \E f \in File : SkipFile(f) \/ EvaluateFile(f) \/ EvaluateUnparsable(f)
  \/ Plot \/ SaveGraph

Spec == Init /\ [][Next]_vars

-----------------------------------------------------------------------------
Evaluated == DOMAIN outputData

TypeOK ==
  /\ iOutputDir \in 1 .. MethodCount + 1
  /\ unread \subseteq File
  /\ Evaluated \subseteq File /\ DOMAIN groundTruthData = Evaluated
  /\ \A f \in Evaluated :
       /\ outputData[f] \in Seq(Record \cup Garbage)
       /\ groundTruthData[f] \in Seq(Record \cup Garbage)
  /\ relevant \in Nat
  /\ retrieved \in [Threshold -> Nat]
  /\ retrieved_relevant \in [Threshold -> Nat]
  /\ graph = NoFile \/ graph \subseteq Method
  /\ pc \in {"method", "page", "crash", "done"}

(* What the curve of a method counts: its records in the files evaluated,  *)
(* those below the threshold, and their matching pairs.                    *)
AllRelevant == UNION {{<<f, k>> : k \in DOMAIN groundTruthData[f]} : f \in Evaluated}

AllRetrieved(th) ==
  UNION {{<<f, k>> : k \in InEditDistance(outputData[f], th)} : f \in Evaluated}

AllMatching(th) ==
  UNION {{<<f, c>> : c \in MatchingPairs(outputData[f], groundTruthData[f], th)} : f \in Evaluated}

(* Whatever the order of the files and the methods before, the counters    *)
(* are the numbers of records and pairs in this method's files.            *)
CountsExact ==
  pc = "page" =>
    /\ relevant = Cardinality(AllRelevant)
    /\ \A th \in Threshold :
         /\ retrieved[th] = Cardinality(AllRetrieved(th))
         /\ retrieved_relevant[th] = Cardinality(AllMatching(th))

(* Two records for the same query share no point. *)
Disjoint(data) ==
  \A k, m \in DOMAIN data :
    (k # m /\ data[k].query = data[m].query) => Points(data[k]) \cap Points(data[m]) = {}

(* Pairs are counted, not records.  Yet if no two boxes of the ground truth *)
(* overlap, a box cannot match two of them: then the precision is at most  *)
(* one.                                                                    *)
PrecisionAtMostOne ==
  (\A f \in Evaluated : Disjoint(groundTruthData[f])) =>
    \A th \in Threshold : retrieved_relevant[th] <= retrieved[th]

(* And if no two boxes a search returned on a page overlap, the recall is. *)
RecallAtMostOne ==
  (\A f \in Evaluated : Disjoint(outputData[f])) =>
    \A th \in Threshold : retrieved_relevant[th] <= relevant

(* A row is written for a method only when each of its files that has a    *)
(* ground truth has been counted, and unless mark.cpp has been there these *)
(* are its pages, once each.                                               *)
PagesCounted ==
  \A m \in Method : csv'[m] # csv[m] =>
    /\ m = iOutputDir
    /\ Evaluated = {f \in FilesOf(m) : Compared(m, f)}
    /\ \A f, g \in Evaluated : f[1] = g[1] => f = g \/ <<m, f[1]>> \in marked

(* If the program gets as far as its graph, every method with a directory  *)
(* is in it and has its rows.                                              *)
EveryMethodReported ==
  pc = "done" => \A m \in Method \ absent : m \in graph /\ csv[m] # <<>>
=============================================================================
