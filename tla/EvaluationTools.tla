--------------------------- MODULE EvaluationTools ---------------------------
(***************************************************************************)
(* The two programs a search is judged with: ground_truth_maker, in which  *)
(* someone draws boxes, and graph, which compares the boxes with those the *)
(* searches found.  Someone starts the one or the other; the files the     *)
(* first leaves are for the second any files.                              *)
(***************************************************************************)
EXTENDS Integers

CONSTANTS
  Text, Query, UnreadableSets, Point, MaxRecords, MaxSessions,   \* of GroundTruth
  Page, MethodCount, Threshold, Record, Garbage, NoFile, Unreadable, Unparsable,
  GroundTruths, Outputs, AbsentSets, MarkedSets                  \* of Evaluation

VARIABLES
  tool, pc,
  unreadable, careful, start, i, j, textname, queryname, corner, held, records, session,
  shown, press, drag, stopped,
  groundTruth, output, absent, marked, frame, iOutputDir, unread, outputData, groundTruthData,
  relevant, retrieved, retrieved_relevant, csv, graph

M == INSTANCE GroundTruth
E == INSTANCE Evaluation

ASSUME EvaluationToolsAssumption == M!Inputs /\ E!Inputs

maker == <<unreadable, careful, start, i, j, textname, queryname, corner, held, records,
           session, shown, press, drag, stopped>>
curves == <<groundTruth, output, absent, marked, frame, iOutputDir, unread, outputData,
            groundTruthData, relevant, retrieved, retrieved_relevant, csv, graph>>

NoMaker ==
  /\ unreadable = {} /\ careful = FALSE /\ start = 0 /\ i = 0 /\ j = 0
  /\ textname = "" /\ queryname = "" /\ corner = <<>> /\ held = FALSE /\ records = <<>>
  /\ session = 0 /\ shown = <<>> /\ press = 0 /\ drag = <<>> /\ stopped = {}

NoCurves ==
  /\ groundTruth = <<>> /\ output = <<>> /\ absent = {} /\ marked = {} /\ frame = FALSE
  /\ iOutputDir = 0 /\ unread = {} /\ outputData = <<>> /\ groundTruthData = <<>>
  /\ relevant = 0 /\ retrieved = <<>> /\ retrieved_relevant = <<>> /\ csv = <<>> /\ graph = {}

Init ==
  \/ tool = "ground_truth_maker" /\ M!Init /\ NoCurves
  \/ tool = "graph" /\ E!Init /\ NoMaker

MakeGroundTruth == tool = "ground_truth_maker" /\ M!Next /\ UNCHANGED <<tool, curves>>

DrawGraph == tool = "graph" /\ E!Next /\ UNCHANGED <<tool, maker>>

Next == MakeGroundTruth \/ DrawGraph

Spec == Init /\ [][Next]_<<tool, pc, maker, curves>>

-----------------------------------------------------------------------------
(* A box belongs to the pair on display, and with a careful user to one    *)
(* drag of the mouse.                                                      *)
BoxesOnDisplay == tool = "ground_truth_maker" => M!TypeOK /\ M!OneDrag

(* Over all sessions every pair is displayed, and again only where a       *)
(* session was taken up at the text another had ended at.                  *)
PairsDisplayed == tool = "ground_truth_maker" => M!ShownAgain /\ M!AllShown

(* The points of a curve are those of the files of its method, a ratio     *)
(* exceeds one only where boxes overlap, and every method gets its curve.  *)
CurvesExact ==
  tool = "graph" =>
    /\ E!TypeOK /\ E!CountsExact /\ E!PrecisionAtMostOne /\ E!RecallAtMostOne
    /\ E!EveryMethodReported

(* A row is written only when all the pages of its method are counted.     *)
AllPagesCounted == [][tool = "graph" => E!PagesCounted]_<<tool, pc, maker, curves>>
=============================================================================
