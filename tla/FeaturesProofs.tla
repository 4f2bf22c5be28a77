--------------------------- MODULE FeaturesProofs ---------------------------
(***************************************************************************)
(* The files between the search program and its feature program, for any   *)
(* number of components and of runs: types, and which features are used    *)
(* for which component, whatever was not saved, died or was left behind.   *)
(*                                                                         *)
(* Then the grid over one image, for every image, every size of it and     *)
(* every number of strips: the box is followed scan by scan (BoxInv), and  *)
(* the strips add up because each ends where the next begins.              *)
(***************************************************************************)
EXTENDS Features, SequenceTheorems, FiniteSetTheorems, TLAPS

Vector(k) == [run |-> run, comp |-> k, kind |-> "vector"]

Running == pc \notin {"start", "done"}

Types ==
  /\ run \in 0 .. MaxRuns
  /\ comps \in 0 .. MaxComps
  /\ dir \in [Number -> File \cup {NoFile}]
  /\ data \in Seq(Record)
  /\ i \in 0 .. MaxComps
  /\ features \in Seq(Record)
  /\ lost \subseteq Number
  /\ pc \in {"start", "save", "open", "scan", "read", "search", "exit", "memory", "done"}

Flags == exists \in BOOLEAN /\ header \in BOOLEAN /\ cut \in BOOLEAN /\ opened \in BOOLEAN

Phase ==
  /\ Len(data) <= MaxComps
  /\ Running => run >= 1 /\ comps >= 1
  /\ pc = "save" => i <= comps
  /\ pc = "open" => i = 0
  /\ pc \in {"save", "open"} => ~opened
  /\ pc \in {"save", "open", "scan"} => features = <<>>
  /\ pc = "scan" => opened /\ ~cut /\ Len(data) <= i

(* What is on the disk is of this run or an earlier one, each file under   *)
(* the number of its component; until the feature program has opened its   *)
(* file, the records there are of earlier runs.                            *)
Disk ==
  /\ \A k \in Number : dir[k] # NoFile => dir[k].comp = k /\ dir[k].run \in 1 .. run
  /\ \A k \in 1 .. Len(data) : data[k].run \in 1 .. run
  /\ Running /\ ~opened => \A k \in 1 .. Len(data) : data[k].run < run

(* The components saved so far are in the directory, or lost. *)
Saved ==
  /\ pc = "save" => \A k \in 0 .. i - 1 : k \in lost \/ dir[k] = Vector(k)
  /\ pc \in {"open", "scan"} => \A k \in 0 .. comps - 1 : k \in lost \/ dir[k] = Vector(k)

(* A file passed over leaves a lost component before the end of the        *)
(* records, unless all components are there.                               *)
Scanned ==
  pc = "scan" => \/ Len(data) = i
                 \/ \E m \in lost : m <= Len(data)
                 \/ Len(data) >= comps

(* A record is in its place up to the first component lost; one of an      *)
(* earlier run stands for a component this run does not have, or lost.     *)
Written ==
  opened => \A k \in 1 .. Len(data) :
    /\ (\E m \in lost : m < k) \/ k > comps \/ data[k] = Vector(k - 1)
    /\ data[k].run < run => data[k].comp >= comps \/ data[k].comp \in lost

(* A record too many, or half of one, was made of a file too many. *)
Beyond ==
  (opened /\ (Len(data) > comps \/ (cut /\ Len(data) = comps))) =>
    \E k \in comps .. MaxComps - 1 : dir[k] # NoFile

(* The features are the records, and at most one made of nothing. *)
Taken ==
  /\ pc = "read" => Len(features) <= Len(data)
  /\ pc \in {"read", "search"} =>
       \A k \in 1 .. Len(features) :
         \/ k <= Len(data) /\ features[k] = data[k]
         \/ /\ pc = "search" /\ k = Len(features) /\ k = Len(data) + 1
            /\ features[k] = Garbage /\ (cut \/ data = <<>>)

IInv ==
  /\ Types /\ Flags /\ Phase /\ Disk /\ Saved /\ Scanned /\ Written /\ Beyond /\ Taken

LEMMA Bounds == MaxComps \in Nat \ {0} /\ MaxRuns \in Nat \ {0}
BY FeatureFileAssumption

LEMMA LenNat ==
  ASSUME Types
  PROVE  Len(data) \in Nat /\ Len(features) \in Nat
BY DEF Types

LEMMA ElementIn ==
  ASSUME NEW S, NEW s \in Seq(S), NEW k \in 1 .. Len(s)
  PROVE  s[k] \in S
OBVIOUS

(* What the feature program makes of a file is a record; and what          *)
(* appending it does.                                                      *)
LEMMA RecordOf ==
  ASSUME Types, pc = "scan", i < MaxComps, Present, dir[i].kind \in {"vector", "nan"}
  PROVE  i \in Number /\ dir[i] \in File /\ dir[i] \in Record
<1>1. i \in Number
  BY Bounds DEF Types, Number
<1>2. dir[i] \in File
  BY <1>1 DEF Types, Present
<1> QED
  BY <1>1, <1>2, Bounds DEF File, Record

LEMMA RecordAppended ==
  ASSUME Types, WriteRecord
  PROVE  /\ i \in Number /\ dir[i] \in File /\ dir[i] \in Record
         /\ data' \in Seq(Record) /\ Len(data') = Len(data) + 1
         /\ \A k \in 1 .. Len(data) : data'[k] = data[k]
         /\ data'[Len(data) + 1] = dir[i]
<1>1. i \in Number /\ dir[i] \in File /\ dir[i] \in Record
  BY RecordOf DEF WriteRecord
<1> QED
  BY <1>1, AppendProperties DEF WriteRecord, Types

LEMMA SavedFile ==
  ASSUME Types, Phase, pc = "save", i < comps, NEW kind \in Kind
  PROVE  i \in Number /\ [run |-> run, comp |-> i, kind |-> kind] \in File
BY Bounds DEF Types, Phase, Running, Number, File

LEMMA ReadFeature ==
  ASSUME Types, ReadRecord
  PROVE  /\ features' \in Seq(Record) /\ Len(features') = Len(features) + 1
         /\ \A k \in 1 .. Len(features) : features'[k] = features[k]
         /\ features'[Len(features) + 1] = data[Len(features) + 1]
<1>1. data[Len(features) + 1] \in Record
  BY LenNat, ElementIn DEF ReadRecord, Types
<1> QED
  BY <1>1, AppendProperties DEF ReadRecord, Types

LEMMA ReadGarbage ==
  ASSUME Types, EndRead
  PROVE  /\ features' \in Seq(Record)
         /\ \/ features' = features
            \/ /\ cut \/ data = <<>>
               /\ Len(features') = Len(features) + 1
               /\ \A k \in 1 .. Len(features) : features'[k] = features[k]
               /\ features'[Len(features) + 1] = Garbage
<1>1. Garbage \in Record
  BY Bounds DEF Garbage, NoFile, Record, Number
<1>2. CASE header /\ (cut \/ data = <<>>)
  BY <1>1, <1>2, AppendProperties DEF EndRead, Types
<1>3. CASE ~(header /\ (cut \/ data = <<>>))
  BY <1>3 DEF EndRead, Types
<1> QED
  BY <1>2, <1>3

(* What the next run finds: the disk as it was, or empty. *)
LEMMA Start ==
  ASSUME StartRun
  PROVE  \/ dir' = dir /\ data' = data
         \/ dir' = [k \in Number |-> NoFile] /\ data' = <<>>
BY DEF StartRun, disk

LEMMA NoRecord == <<>> \in Seq(Record) /\ Len(<<>>) = 0
OBVIOUS

LEMMA TypesStep ==
  ASSUME Types, Phase, [Next]_vars
  PROVE  Types'
<1>1. CASE StartRun
  <2>1. dir' \in [Number -> File \cup {NoFile}] /\ data' \in Seq(Record)
    <3>1. CASE dir' = dir /\ data' = data
      BY <3>1 DEF Types
    <3>2. CASE dir' = [k \in Number |-> NoFile] /\ data' = <<>>
      BY <3>2, NoRecord
    <3> QED
      BY <1>1, <3>1, <3>2, Start
  <2>2. run' \in 0 .. MaxRuns /\ comps' \in 0 .. MaxComps /\ i' \in 0 .. MaxComps
    BY <1>1, Bounds DEF StartRun, Types
  <2> QED
    BY <1>1, <2>1, <2>2, NoRecord DEF StartRun, Types
<1>2. CASE NoMoreRuns
  BY <1>2 DEF NoMoreRuns, disk, Types, Number
<1>3. CASE SaveComp
  <2>1. PICK kind \in Kind :
          dir' = [dir EXCEPT ![i] = [run |-> run, comp |-> i, kind |-> kind]]
    BY <1>3 DEF SaveComp
  <2>2. dir' \in [Number -> File \cup {NoFile}]
    BY <1>3, <2>1, SavedFile DEF SaveComp, Types
  <2>3. lost' \subseteq Number
    BY <1>3, SavedFile DEF SaveComp, Types
  <2> QED
    BY <1>3, <2>2, <2>3, Bounds DEF SaveComp, Types
<1>4. CASE SaveNothing
  BY <1>4, Bounds DEF SaveNothing, disk, Types, Number
<1>5. CASE EndSave
  BY <1>5, Bounds DEF EndSave, disk, Types, Number
<1>6. CASE OpenOutput
  BY <1>6, Bounds DEF OpenOutput, disk, Types, Number
<1>7. CASE NoOutput
  BY <1>7 DEF NoOutput, disk, Types, Number
<1>8. CASE WriteRecord
  <2>1. data' \in Seq(Record)
    BY <1>8, RecordAppended
  <2> QED
    BY <1>8, <2>1, Bounds DEF WriteRecord, Types
<1>9. CASE SkipFile
  BY <1>9, Bounds DEF SkipFile, disk, Types, Number
<1>10. CASE ToolDies
  BY <1>10, Bounds DEF ToolDies, disk, Types, Number
<1>11. CASE EndScan
  BY <1>11, Bounds DEF EndScan, disk, Types, Number
<1>12. CASE NoFeatures
  BY <1>12 DEF NoFeatures, disk, Types, Number
<1>13. CASE ReadRecord
  <2>1. features' \in Seq(Record)
    BY <1>13, ReadFeature
  <2> QED
    BY <1>13, <2>1 DEF ReadRecord, Types, disk
<1>14. CASE ReadForever
  BY <1>14 DEF ReadForever, disk, Types, Number
<1>15. CASE EndRead
  <2>1. features' \in Seq(Record)
    BY <1>15, ReadGarbage
  <2> QED
    BY <1>15, <2>1 DEF EndRead, Types, disk
<1>16. CASE EndRun
  BY <1>16 DEF EndRun, disk, Types, Number
<1>17. CASE UNCHANGED vars
  BY <1>17 DEF vars, disk, Types, Number
<1> QED
  BY <1>1, <1>2, <1>3, <1>4, <1>5, <1>6, <1>7, <1>8, <1>9, <1>10, <1>11, <1>12, <1>13, <1>14, <1>15, <1>16, <1>17 DEF Next

LEMMA FlagsStep ==
  ASSUME Flags, [Next]_vars
  PROVE  Flags'
<1>1. CASE StartRun
  BY <1>1 DEF StartRun, disk, Flags
<1>2. CASE NoMoreRuns
  BY <1>2 DEF NoMoreRuns, disk, Flags
<1>3. CASE SaveComp
  BY <1>3 DEF SaveComp, disk, Flags
<1>4. CASE SaveNothing
  BY <1>4 DEF SaveNothing, disk, Flags
<1>5. CASE EndSave
  BY <1>5 DEF EndSave, disk, Flags
<1>6. CASE OpenOutput
  BY <1>6 DEF OpenOutput, disk, Flags
<1>7. CASE NoOutput
  BY <1>7 DEF NoOutput, disk, Flags
<1>8. CASE WriteRecord
  BY <1>8 DEF WriteRecord, disk, Flags
<1>9. CASE SkipFile
  BY <1>9 DEF SkipFile, disk, Flags
<1>10. CASE ToolDies
  <2>1. cut' \in BOOLEAN
    BY <1>10, Zenon DEF ToolDies
  <2> QED
    BY <1>10, <2>1 DEF ToolDies, Flags
<1>11. CASE EndScan
  BY <1>11 DEF EndScan, disk, Flags
<1>12. CASE NoFeatures
  BY <1>12 DEF NoFeatures, disk, Flags
<1>13. CASE ReadRecord
  BY <1>13 DEF ReadRecord, disk, Flags
<1>14. CASE ReadForever
  BY <1>14 DEF ReadForever, disk, Flags
<1>15. CASE EndRead
  BY <1>15 DEF EndRead, disk, Flags
<1>16. CASE EndRun
  BY <1>16 DEF EndRun, disk, Flags
<1>17. CASE UNCHANGED vars
  BY <1>17 DEF vars, disk, Flags
<1> QED
  BY <1>1, <1>2, <1>3, <1>4, <1>5, <1>6, <1>7, <1>8, <1>9, <1>10, <1>11, <1>12, <1>13, <1>14, <1>15, <1>16, <1>17 DEF Next

LEMMA PhaseStep ==
  ASSUME Types, Phase, [Next]_vars
  PROVE  Phase'
<1>1. CASE StartRun
  <2>1. Len(data') <= MaxComps
    BY <1>1, Start, NoRecord, Bounds DEF Phase
  <2> QED
    BY <1>1, <2>1, Bounds DEF StartRun, Types, Phase, Running
<1>2. CASE NoMoreRuns
  BY <1>2 DEF NoMoreRuns, disk, Types, Phase, Running
<1>3. CASE SaveComp
  BY <1>3 DEF SaveComp, disk, Types, Phase, Running
<1>4. CASE SaveNothing
  BY <1>4 DEF SaveNothing, disk, Types, Phase, Running
<1>5. CASE EndSave
  BY <1>5, Bounds DEF EndSave, disk, Types, Phase, Running
<1>6. CASE OpenOutput
  BY <1>6, NoRecord, Bounds DEF OpenOutput, disk, Types, Phase, Running
<1>7. CASE NoOutput
  BY <1>7 DEF NoOutput, disk, Types, Phase, Running
<1>8. CASE WriteRecord
  <2>1. Len(data') = Len(data) + 1
    BY <1>8, RecordAppended
  <2> QED
    BY <1>8, <2>1, LenNat, Bounds DEF WriteRecord, Types, Phase, Running
<1>9. CASE SkipFile
  BY <1>9, LenNat DEF SkipFile, disk, Types, Phase, Running
<1>10. CASE ToolDies
  BY <1>10 DEF ToolDies, disk, Types, Phase, Running
<1>11. CASE EndScan
  BY <1>11 DEF EndScan, disk, Types, Phase, Running
<1>12. CASE NoFeatures
  BY <1>12 DEF NoFeatures, disk, Types, Phase, Running
<1>13. CASE ReadRecord
  BY <1>13 DEF ReadRecord, disk, Types, Phase, Running
<1>14. CASE ReadForever
  BY <1>14 DEF ReadForever, disk, Types, Phase, Running
<1>15. CASE EndRead
  BY <1>15 DEF EndRead, disk, Types, Phase, Running
<1>16. CASE EndRun
  BY <1>16 DEF EndRun, disk, Types, Phase, Running
<1>17. CASE UNCHANGED vars
  BY <1>17 DEF vars, disk, Types, Phase, Running
<1> QED
  BY <1>1, <1>2, <1>3, <1>4, <1>5, <1>6, <1>7, <1>8, <1>9, <1>10, <1>11, <1>12, <1>13, <1>14, <1>15, <1>16, <1>17 DEF Next

LEMMA DiskStep ==
  ASSUME Types, Phase, Disk, [Next]_vars
  PROVE  Disk'
<1>1. CASE StartRun
  <2>1. run \in Nat /\ run' = run + 1
    BY <1>1 DEF StartRun, Types
  <2>2. CASE dir' = dir /\ data' = data
    <3>1. \A k \in Number : dir'[k] # NoFile => dir'[k].comp = k /\ dir'[k].run \in 1 .. run'
      BY <2>1, <2>2 DEF Disk
    <3>2. \A k \in 1 .. Len(data') : data'[k].run \in 1 .. run' /\ data'[k].run < run'
      BY <2>1, <2>2 DEF Disk
    <3> QED
      BY <3>1, <3>2 DEF Disk
  <2>3. CASE dir' = [k \in Number |-> NoFile] /\ data' = <<>>
    BY <2>3, NoRecord DEF Disk
  <2> QED
    BY <1>1, <2>2, <2>3, Start
<1>2. CASE NoMoreRuns
  BY <1>2 DEF NoMoreRuns, disk, Disk, Running
<1>3. CASE SaveComp
  <2>1. PICK kind \in Kind :
          dir' = [dir EXCEPT ![i] = [run |-> run, comp |-> i, kind |-> kind]]
    BY <1>3 DEF SaveComp
  <2>2. i \in Number /\ run \in 1 .. run
    <3>1. i \in Number
      BY <1>3, SavedFile DEF SaveComp, Kind
    <3>2. run \in Nat /\ run >= 1
      BY <1>3 DEF SaveComp, Types, Phase, Running
    <3> QED
      BY <3>1, <3>2
  <2>3. \A k \in Number : dir'[k] # NoFile => dir'[k].comp = k /\ dir'[k].run \in 1 .. run
    BY <2>1, <2>2 DEF Disk, Types
  <2>4. UNCHANGED <<run, data, opened, pc>>
    BY <1>3 DEF SaveComp
  <2>5. \A k \in 1 .. Len(data') : data'[k].run \in 1 .. run'
    BY <2>4 DEF Disk
  <2>6. Running' /\ ~opened' => \A k \in 1 .. Len(data') : data'[k].run < run'
    BY <2>4 DEF Disk, Running
  <2> QED
    BY <2>3, <2>4, <2>5, <2>6 DEF Disk
<1>4. CASE SaveNothing
  BY <1>4 DEF SaveNothing, disk, Disk, Running
<1>5. CASE EndSave
  BY <1>5 DEF EndSave, disk, Disk, Running
<1>6. CASE OpenOutput
  BY <1>6, NoRecord DEF OpenOutput, disk, Disk, Running
<1>7. CASE NoOutput
  BY <1>7 DEF NoOutput, disk, Disk, Running
<1>8. CASE WriteRecord
  <2>1. /\ UNCHANGED <<run, dir, opened>> /\ opened
        /\ Present
    BY <1>8 DEF WriteRecord, Phase
  <2>2. dir[i].run \in 1 .. run
    BY <1>8, RecordAppended, <2>1 DEF Disk, Present
  <2>3. \A k \in 1 .. Len(data') : data'[k].run \in 1 .. run
    BY <1>8, <2>2, RecordAppended, LenNat DEF Disk
  <2> QED
    BY <2>1, <2>3 DEF Disk
<1>9. CASE SkipFile
  BY <1>9 DEF SkipFile, disk, Disk, Running
<1>10. CASE ToolDies
  BY <1>10 DEF ToolDies, disk, Disk, Running
<1>11. CASE EndScan
  BY <1>11 DEF EndScan, disk, Disk, Running
<1>12. CASE NoFeatures
  BY <1>12 DEF NoFeatures, disk, Disk, Running
<1>13. CASE ReadRecord
  BY <1>13 DEF ReadRecord, disk, Disk, Running
<1>14. CASE ReadForever
  BY <1>14 DEF ReadForever, disk, Disk, Running
<1>15. CASE EndRead
  BY <1>15 DEF EndRead, disk, Disk, Running
<1>16. CASE EndRun
  BY <1>16 DEF EndRun, disk, Disk, Running
<1>17. CASE UNCHANGED vars
  BY <1>17 DEF vars, disk, Disk, Running
<1> QED
  BY <1>1, <1>2, <1>3, <1>4, <1>5, <1>6, <1>7, <1>8, <1>9, <1>10, <1>11, <1>12, <1>13, <1>14, <1>15, <1>16, <1>17 DEF Next

LEMMA SavedStep ==
  ASSUME Types, Phase, Saved, [Next]_vars
  PROVE  Saved'
<1>1. CASE StartRun
  BY <1>1 DEF StartRun, Saved
<1>2. CASE NoMoreRuns
  BY <1>2 DEF NoMoreRuns, disk, Saved, Vector, Types
<1>3. CASE SaveComp
  <2>1. PICK kind \in Kind :
          /\ dir' = [dir EXCEPT ![i] = [run |-> run, comp |-> i, kind |-> kind]]
          /\ lost' = IF kind = "vector" THEN lost ELSE lost \cup {i}
    BY <1>3 DEF SaveComp
  <2>2. i \in Number
    BY <1>3, SavedFile DEF SaveComp
  <2>3. i \in lost' \/ dir'[i] = Vector(i)
    BY <2>1, <2>2 DEF Types, Vector
  <2>4. ASSUME NEW k \in 0 .. i - 1
        PROVE  k \in lost' \/ dir'[k] = Vector(k)
    BY <1>3, <2>1, <2>2, <2>4, Bounds DEF SaveComp, Saved, Types, Number
  <2>5. \A k \in 0 .. i' - 1 : k \in lost' \/ dir'[k] = Vector(k)
    BY <1>3, <2>3, <2>4 DEF SaveComp, Types
  <2>6. run' = run /\ pc' = "save"
    BY <1>3 DEF SaveComp
  <2> QED
    BY <2>5, <2>6 DEF Saved, Vector
<1>4. CASE SaveNothing
  <2>1. \A k \in 0 .. i' - 1 : k \in lost' \/ dir[k] = Vector(k)
    BY <1>4 DEF SaveNothing, Saved, Types
  <2> QED
    BY <1>4, <2>1 DEF SaveNothing, Saved, Vector, disk
<1>5. CASE EndSave
  BY <1>5 DEF EndSave, disk, Saved, Vector, Types
<1>6. CASE OpenOutput
  BY <1>6 DEF OpenOutput, disk, Saved, Vector, Types
<1>7. CASE NoOutput
  BY <1>7 DEF NoOutput, disk, Saved, Vector, Types
<1>8. CASE WriteRecord
  BY <1>8 DEF WriteRecord, disk, Saved, Vector, Types
<1>9. CASE SkipFile
  BY <1>9 DEF SkipFile, disk, Saved, Vector, Types
<1>10. CASE ToolDies
  BY <1>10 DEF ToolDies, disk, Saved, Vector, Types
<1>11. CASE EndScan
  BY <1>11 DEF EndScan, disk, Saved, Vector, Types
<1>12. CASE NoFeatures
  BY <1>12 DEF NoFeatures, disk, Saved, Vector, Types
<1>13. CASE ReadRecord
  BY <1>13 DEF ReadRecord, disk, Saved, Vector, Types
<1>14. CASE ReadForever
  BY <1>14 DEF ReadForever, disk, Saved, Vector, Types
<1>15. CASE EndRead
  BY <1>15 DEF EndRead, disk, Saved, Vector, Types
<1>16. CASE EndRun
  BY <1>16 DEF EndRun, disk, Saved, Vector, Types
<1>17. CASE UNCHANGED vars
  BY <1>17 DEF vars, disk, Saved, Vector, Types
<1> QED
  BY <1>1, <1>2, <1>3, <1>4, <1>5, <1>6, <1>7, <1>8, <1>9, <1>10, <1>11, <1>12, <1>13, <1>14, <1>15, <1>16, <1>17 DEF Next

LEMMA ScannedStep ==
  ASSUME Types, Phase, Saved, Scanned, [Next]_vars
  PROVE  Scanned'
<1>1. CASE StartRun
  BY <1>1 DEF StartRun, disk, Scanned
<1>2. CASE NoMoreRuns
  BY <1>2 DEF NoMoreRuns, disk, Scanned
<1>3. CASE SaveComp
  BY <1>3 DEF SaveComp, disk, Scanned
<1>4. CASE SaveNothing
  BY <1>4 DEF SaveNothing, disk, Scanned
<1>5. CASE EndSave
  BY <1>5 DEF EndSave, disk, Scanned
<1>6. CASE OpenOutput
  BY <1>6, NoRecord DEF OpenOutput, disk, Scanned, Phase
<1>7. CASE NoOutput
  BY <1>7 DEF NoOutput, disk, Scanned
<1>8. CASE WriteRecord
  <2>1. Len(data') = Len(data) + 1
    BY <1>8, RecordAppended
  <2>2. /\ UNCHANGED <<comps, lost>> /\ i' = i + 1
        /\ \/ Len(data) = i
           \/ \E m \in lost : m <= Len(data)
           \/ Len(data) >= comps
    BY <1>8 DEF WriteRecord, Scanned
  <2>3. lost \subseteq Int
    BY Bounds DEF Types, Number
  <2> QED
    BY <2>1, <2>2, <2>3, LenNat DEF Scanned, Types
<1>9. CASE SkipFile
  <2>1. /\ UNCHANGED <<comps, lost, data>> /\ i' = i + 1
        /\ \/ Len(data) = i
           \/ \E m \in lost : m <= Len(data)
           \/ Len(data) >= comps
    BY <1>9 DEF SkipFile, Scanned, disk
  <2>2. CASE Len(data) = i /\ i < comps
    <3>1. i \in lost \/ dir[i] = Vector(i)
      BY <1>9, <2>2 DEF SkipFile, Saved, Types
    <3>2. dir[i] # Vector(i)
      <4>1. run # 0
        BY <1>9 DEF SkipFile, Phase, Running
      <4> QED
        BY <1>9, <4>1 DEF SkipFile, Present, NoFile, Vector
    <3> QED
      BY <2>1, <2>2, <3>1, <3>2, LenNat DEF Scanned, Types
  <2> QED
    BY <2>1, <2>2, LenNat DEF Scanned, Types
<1>10. CASE ToolDies
  BY <1>10 DEF ToolDies, disk, Scanned
<1>11. CASE EndScan
  BY <1>11 DEF EndScan, disk, Scanned
<1>12. CASE NoFeatures
  BY <1>12 DEF NoFeatures, disk, Scanned
<1>13. CASE ReadRecord
  BY <1>13 DEF ReadRecord, disk, Scanned
<1>14. CASE ReadForever
  BY <1>14 DEF ReadForever, disk, Scanned
<1>15. CASE EndRead
  BY <1>15 DEF EndRead, disk, Scanned
<1>16. CASE EndRun
  BY <1>16 DEF EndRun, disk, Scanned
<1>17. CASE UNCHANGED vars
  BY <1>17 DEF vars, disk, Scanned
<1> QED
  BY <1>1, <1>2, <1>3, <1>4, <1>5, <1>6, <1>7, <1>8, <1>9, <1>10, <1>11, <1>12, <1>13, <1>14, <1>15, <1>16, <1>17 DEF Next

LEMMA WrittenStep ==
  ASSUME Types, Phase, Disk, Saved, Scanned, Written, [Next]_vars
  PROVE  Written'
<1>1. CASE StartRun
  BY <1>1 DEF StartRun, disk, Written, Vector
<1>2. CASE NoMoreRuns
  BY <1>2 DEF NoMoreRuns, disk, Written, Vector
<1>3. CASE SaveComp
  BY <1>3 DEF SaveComp, Written, Phase
<1>4. CASE SaveNothing
  BY <1>4 DEF SaveNothing, Written, Phase
<1>5. CASE EndSave
  BY <1>5 DEF EndSave, disk, Written, Vector
<1>6. CASE OpenOutput
  BY <1>6, NoRecord DEF OpenOutput, disk, Written, Vector
<1>7. CASE NoOutput
  BY <1>7 DEF NoOutput, disk, Written, Vector
<1>8. CASE WriteRecord
  <2> DEFINE n == Len(data) + 1
  <2>1. /\ UNCHANGED <<run, comps, lost>> /\ opened /\ pc = "scan"
        /\ Present /\ Len(data) <= i /\ i < MaxComps
    BY <1>8 DEF WriteRecord, Phase
  <2>2. /\ Len(data') = n /\ data'[n] = dir[i]
        /\ \A k \in 1 .. Len(data) : data'[k] = data[k]
    BY <1>8, RecordAppended
  <2>3. dir[i].comp = i /\ (i < comps => i \in lost \/ dir[i] = Vector(i))
    BY <1>8, <2>1, RecordAppended DEF Disk, Saved, Present, Types
  <2>4. (\E m \in lost : m < n) \/ n > comps \/ dir[i] = Vector(n - 1)
    <3>1. CASE Len(data) = i
      BY <2>1, <2>3, <3>1, LenNat DEF Types
    <3>2. CASE \E m \in lost : m <= Len(data)
      <4>1. lost \subseteq Int
        BY Bounds DEF Types, Number
      <4> QED
        BY <3>2, <4>1, LenNat
    <3>3. CASE Len(data) >= comps
      BY <3>3, LenNat DEF Types
    <3> QED
      BY <2>1, <3>1, <3>2, <3>3 DEF Scanned
  <2>5. dir[i].run < run => dir[i].comp >= comps \/ dir[i].comp \in lost
    BY <2>3 DEF Vector, Types
  <2>6. ASSUME NEW k \in 1 .. n
        PROVE  /\ (\E m \in lost : m < k) \/ k > comps \/ data'[k] = Vector(k - 1)
               /\ data'[k].run < run => data'[k].comp >= comps \/ data'[k].comp \in lost
    <3>1. CASE k = n
      BY <2>2, <2>4, <2>5, <3>1
    <3>2. CASE k # n
      BY <2>1, <2>2, <3>2, LenNat DEF Written
    <3> QED
      BY <3>1, <3>2
  <2> QED
    BY <2>1, <2>2, <2>6 DEF Written, Vector
<1>9. CASE SkipFile
  BY <1>9 DEF SkipFile, disk, Written, Vector
<1>10. CASE ToolDies
  BY <1>10 DEF ToolDies, disk, Written, Vector
<1>11. CASE EndScan
  BY <1>11 DEF EndScan, disk, Written, Vector
<1>12. CASE NoFeatures
  BY <1>12 DEF NoFeatures, disk, Written, Vector
<1>13. CASE ReadRecord
  BY <1>13 DEF ReadRecord, disk, Written, Vector
<1>14. CASE ReadForever
  BY <1>14 DEF ReadForever, disk, Written, Vector
<1>15. CASE EndRead
  BY <1>15 DEF EndRead, disk, Written, Vector
<1>16. CASE EndRun
  BY <1>16 DEF EndRun, disk, Written, Vector
<1>17. CASE UNCHANGED vars
  BY <1>17 DEF vars, disk, Written, Vector
<1> QED
  BY <1>1, <1>2, <1>3, <1>4, <1>5, <1>6, <1>7, <1>8, <1>9, <1>10, <1>11, <1>12, <1>13, <1>14, <1>15, <1>16, <1>17 DEF Next

LEMMA BeyondStep ==
  ASSUME Types, Phase, Beyond, [Next]_vars
  PROVE  Beyond'
<1>1. CASE StartRun
  BY <1>1 DEF StartRun, disk, Beyond, Phase
<1>2. CASE NoMoreRuns
  BY <1>2 DEF NoMoreRuns, disk, Beyond, Phase
<1>3. CASE SaveComp
  BY <1>3 DEF SaveComp, Beyond, Phase
<1>4. CASE SaveNothing
  BY <1>4 DEF SaveNothing, disk, Beyond, Phase
<1>5. CASE EndSave
  BY <1>5 DEF EndSave, disk, Beyond, Phase
<1>6. CASE OpenOutput
  <2>1. Len(data') = 0 /\ cut' = FALSE /\ comps' = comps
    BY <1>6, NoRecord DEF OpenOutput
  <2>2. comps >= 1
    BY <1>6 DEF OpenOutput, Phase, Running
  <2> QED
    BY <2>1, <2>2 DEF Beyond, Types
<1>7. CASE NoOutput
  BY <1>7 DEF NoOutput, disk, Beyond, Phase
<1>8. CASE WriteRecord
  <2>1. /\ UNCHANGED <<comps, dir>> /\ cut' = cut /\ ~cut /\ opened' = opened
        /\ Present /\ Len(data) <= i /\ i < MaxComps
    BY <1>8 DEF WriteRecord, Phase
  <2>2. Len(data') = Len(data) + 1
    BY <1>8, RecordAppended
  <2>3. ASSUME Len(data') > comps
        PROVE  \E k \in comps .. MaxComps - 1 : dir[k] # NoFile
    <3>1. i \in comps .. MaxComps - 1
      BY <2>1, <2>2, <2>3, LenNat, Bounds DEF Types
    <3> QED
      BY <2>1, <3>1 DEF Present
  <2> QED
    BY <2>1, <2>3 DEF Beyond
<1>9. CASE SkipFile
  BY <1>9 DEF SkipFile, disk, Beyond, Phase
<1>10. CASE ToolDies
  <2>1. /\ UNCHANGED <<comps, dir, data>> /\ opened' = opened /\ opened
        /\ Present /\ Len(data) <= i /\ i < MaxComps
    BY <1>10 DEF ToolDies, Phase
  <2>2. ASSUME Len(data) >= comps
        PROVE  \E k \in comps .. MaxComps - 1 : dir[k] # NoFile
    <3>1. i \in comps .. MaxComps - 1
      BY <2>1, <2>2, LenNat, Bounds DEF Types
    <3> QED
      BY <2>1, <3>1 DEF Present
  <2>3. Len(data) > comps => Len(data) >= comps
    BY LenNat DEF Types
  <2>4. Len(data) = comps => Len(data) >= comps
    BY LenNat DEF Types
  <2> QED
    BY <2>1, <2>2, <2>3, <2>4 DEF Beyond
<1>11. CASE EndScan
  BY <1>11 DEF EndScan, disk, Beyond, Phase
<1>12. CASE NoFeatures
  BY <1>12 DEF NoFeatures, disk, Beyond, Phase
<1>13. CASE ReadRecord
  BY <1>13 DEF ReadRecord, disk, Beyond, Phase
<1>14. CASE ReadForever
  BY <1>14 DEF ReadForever, disk, Beyond, Phase
<1>15. CASE EndRead
  BY <1>15 DEF EndRead, disk, Beyond, Phase
<1>16. CASE EndRun
  BY <1>16 DEF EndRun, disk, Beyond, Phase
<1>17. CASE UNCHANGED vars
  BY <1>17 DEF vars, disk, Beyond, Phase
<1> QED
  BY <1>1, <1>2, <1>3, <1>4, <1>5, <1>6, <1>7, <1>8, <1>9, <1>10, <1>11, <1>12, <1>13, <1>14, <1>15, <1>16, <1>17 DEF Next

LEMMA TakenStep ==
  ASSUME Types, Phase, Taken, [Next]_vars
  PROVE  Taken'
<1>1. CASE StartRun
  BY <1>1 DEF StartRun, Taken
<1>2. CASE NoMoreRuns
  BY <1>2 DEF NoMoreRuns, disk, Taken, Phase
<1>3. CASE SaveComp
  BY <1>3 DEF SaveComp, disk, Taken, Phase
<1>4. CASE SaveNothing
  BY <1>4 DEF SaveNothing, disk, Taken, Phase
<1>5. CASE EndSave
  BY <1>5 DEF EndSave, disk, Taken, Phase
<1>6. CASE OpenOutput
  BY <1>6, NoRecord DEF OpenOutput, disk, Taken, Phase
<1>7. CASE NoOutput
  BY <1>7, NoRecord, LenNat DEF NoOutput, disk, Taken, Phase
<1>8. CASE WriteRecord
  BY <1>8 DEF WriteRecord, Taken
<1>9. CASE SkipFile
  BY <1>9 DEF SkipFile, disk, Taken, Phase
<1>10. CASE ToolDies
  <2>1. features' = <<>> /\ UNCHANGED data /\ pc' = "read"
    BY <1>10 DEF ToolDies, Phase
  <2> QED
    BY <2>1, NoRecord, LenNat DEF Taken
<1>11. CASE EndScan
  BY <1>11, NoRecord, LenNat DEF EndScan, disk, Taken, Phase
<1>12. CASE NoFeatures
  BY <1>12 DEF NoFeatures, disk, Taken, Phase
<1>13. CASE ReadRecord
  <2>1. UNCHANGED <<data, pc>> /\ pc = "read" /\ Len(features) < Len(data)
    BY <1>13 DEF ReadRecord, disk
  <2>2. /\ Len(features') = Len(features) + 1
        /\ \A k \in 1 .. Len(features) : features'[k] = features[k]
        /\ features'[Len(features) + 1] = data[Len(features) + 1]
    BY <1>13, ReadFeature
  <2>3. ASSUME NEW k \in 1 .. Len(features')
        PROVE  k <= Len(data) /\ features'[k] = data[k]
    BY <2>1, <2>2, <2>3, LenNat DEF Taken
  <2> QED
    BY <2>1, <2>2, <2>3, LenNat DEF Taken
<1>14. CASE ReadForever
  BY <1>14 DEF ReadForever, disk, Taken, Phase
<1>15. CASE EndRead
  <2>1. /\ data' = data /\ cut' = cut /\ pc = "read" /\ pc' = "search"
        /\ Len(features) = Len(data)
    BY <1>15 DEF EndRead, disk
  <2>2. \A k \in 1 .. Len(features) : k <= Len(data) /\ features[k] = data[k]
    BY <2>1 DEF Taken
  <2>3. CASE features' = features
    BY <2>1, <2>2, <2>3 DEF Taken
  <2>4. CASE /\ cut \/ data = <<>>
             /\ Len(features') = Len(features) + 1
             /\ \A k \in 1 .. Len(features) : features'[k] = features[k]
             /\ features'[Len(features) + 1] = Garbage
    <3>1. ASSUME NEW k \in 1 .. Len(features')
          PROVE  \/ k <= Len(data) /\ features'[k] = data[k]
                 \/ /\ k = Len(features') /\ k = Len(data) + 1
                    /\ features'[k] = Garbage
      BY <2>1, <2>2, <2>4, LenNat
    <3> QED
      BY <2>1, <2>4, <3>1 DEF Taken
  <2> QED
    BY <1>15, <2>3, <2>4, ReadGarbage
<1>16. CASE EndRun
  BY <1>16 DEF EndRun, disk, Taken, Phase
<1>17. CASE UNCHANGED vars
  BY <1>17 DEF vars, disk, Taken, Phase
<1> QED
  BY <1>1, <1>2, <1>3, <1>4, <1>5, <1>6, <1>7, <1>8, <1>9, <1>10, <1>11, <1>12, <1>13, <1>14, <1>15, <1>16, <1>17 DEF Next

LEMMA InitInv ==
  ASSUME Init
  PROVE  IInv
<1>1. data = <<>> /\ features = <<>> /\ Len(data) = 0 /\ pc = "start" /\ opened = FALSE
  BY NoRecord DEF Init
<1>2. Types
  <2>1. dir \in [Number -> File \cup {NoFile}]
    BY DEF Init
  <2>2. run \in 0 .. MaxRuns /\ comps \in 0 .. MaxComps /\ i \in 0 .. MaxComps
    BY Bounds DEF Init
  <2> QED
    BY <1>1, <2>1, <2>2, NoRecord DEF Init, Types
<1>3. Flags
  BY Zenon DEF Init, Flags
<1>4. Phase
  BY <1>1, Bounds DEF Phase, Running
<1>5. Disk /\ Saved /\ Scanned /\ Written /\ Beyond /\ Taken
  BY <1>1 DEF Init, Disk, Saved, Scanned, Written, Beyond, Taken
<1> QED
  BY <1>2, <1>3, <1>4, <1>5 DEF IInv

LEMMA StepInv ==
  ASSUME IInv, [Next]_vars
  PROVE  IInv'
<1>1. /\ Types /\ Flags /\ Phase /\ Disk /\ Saved /\ Scanned /\ Written /\ Beyond /\ Taken
  BY DEF IInv
<1>2. Types' /\ Flags' /\ Phase' /\ Disk'
  BY <1>1, TypesStep, FlagsStep, PhaseStep, DiskStep
<1>3. Saved' /\ Scanned' /\ Written' /\ Beyond' /\ Taken'
  BY <1>1, SavedStep, ScannedStep, WrittenStep, BeyondStep, TakenStep
<1> QED
  BY <1>2, <1>3 DEF IInv

LEMMA Invariant == Spec => []IInv
<1>1. IInv /\ [Next]_vars => IInv'
  BY StepInv
<1> QED
  BY <1>1, InitInv, PTL DEF Spec

(* The type invariant, for any number of components and runs: the records  *)
(* never outnumber the files.                                              *)
THEOREM TypeCorrect == Spec => []TypeOK
<1>1. IInv => TypeOK
  BY DEF IInv, Types, Flags, Phase, TypeOK
<1> QED
  BY <1>1, Invariant, PTL

(* Once the feature program has opened its file, the features before the   *)
(* first lost component are each the component's of their place, whatever  *)
(* was on the disk and however the program ended.                          *)
THEOREM FeaturesInPlace == Spec => []InPlace
<1>1. ASSUME IInv, pc = "search", opened, NEW k \in 1 .. Len(features)
      PROVE  \/ \E m \in lost : m < k
             \/ k > comps
             \/ features[k] = [run |-> run, comp |-> k - 1, kind |-> "vector"]
             \/ k = Len(features) /\ features[k] = Garbage /\ (cut \/ data = <<>>)
  <2>1. CASE k <= Len(data) /\ features[k] = data[k]
    <3>1. k \in 1 .. Len(data)
      BY <1>1, <2>1, LenNat DEF IInv
    <3> QED
      BY <1>1, <2>1, <3>1 DEF IInv, Written, Vector
  <2> QED
    BY <1>1, <2>1 DEF IInv, Taken
<1>2. IInv => InPlace
  BY <1>1 DEF InPlace
<1> QED
  BY <1>2, Invariant, PTL

(* More features than components, only where an earlier run had more and   *)
(* its files, or its features, are still there.                            *)
THEOREM MoreFeaturesAreStale == Spec => []MoreOnlyIfStale
<1>1. ASSUME IInv, pc = "search", Len(features) > comps, opened
      PROVE  \E k \in comps .. MaxComps - 1 : dir[k] # NoFile
  <2> DEFINE n == Len(features)
  <2>1. n \in 1 .. Len(features) /\ comps \in Nat /\ comps >= 1
    BY <1>1, LenNat DEF IInv, Types, Phase, Running
  <2>2. CASE n <= Len(data)
    BY <1>1, <2>1, <2>2, LenNat DEF IInv, Beyond
  <2>3. CASE n = Len(data) + 1 /\ (cut \/ data = <<>>)
    <3>1. data # <<>>
      BY <1>1, <2>1, <2>3, NoRecord
    <3>2. Len(data) > comps \/ Len(data) = comps
      BY <1>1, <2>1, <2>3, LenNat DEF IInv
    <3> QED
      BY <1>1, <2>3, <3>1, <3>2 DEF IInv, Beyond
  <2> QED
    BY <1>1, <2>1, <2>2, <2>3 DEF IInv, Taken
<1>2. ASSUME IInv, pc = "search", Len(features) > comps, ~opened
      PROVE  \E k \in DOMAIN features : features[k] = Garbage \/ features[k].run < run
  <2>1. 1 \in 1 .. Len(features) /\ DOMAIN features = 1 .. Len(features)
    BY <1>2, LenNat DEF IInv, Types
  <2>2. CASE 1 <= Len(data) /\ features[1] = data[1]
    <3>1. 1 \in 1 .. Len(data)
      BY <1>2, <2>2, LenNat DEF IInv
    <3>2. data[1].run < run
      BY <1>2, <3>1 DEF IInv, Disk, Running
    <3> QED
      BY <2>1, <2>2, <3>2
  <2>3. CASE features[1] = Garbage
    BY <2>1, <2>3
  <2> QED
    BY <1>2, <2>1, <2>2, <2>3 DEF IInv, Taken
<1>3. IInv => MoreOnlyIfStale
  BY <1>1, <1>2 DEF MoreOnlyIfStale
<1> QED
  BY <1>3, Invariant, PTL

(* A component of an earlier run is taken only for one that this run does  *)
(* not have, or has lost.                                                  *)
THEOREM StaleFeaturesExplained == Spec => []StaleExplained
<1>1. ASSUME IInv, pc = "search", opened, NEW k \in 1 .. Len(features),
             features[k] # Garbage, features[k].run < run
      PROVE  features[k].comp >= comps \/ features[k].comp \in lost
  <2>1. k <= Len(data) /\ features[k] = data[k]
    BY <1>1 DEF IInv, Taken
  <2>2. k \in 1 .. Len(data)
    BY <1>1, <2>1, LenNat DEF IInv
  <2> QED
    BY <1>1, <2>1, <2>2 DEF IInv, Written
<1>2. IInv => StaleExplained
  BY <1>1 DEF StaleExplained
<1> QED
  BY <1>2, Invariant, PTL

-----------------------------------------------------------------------------
(* A set of finite sets has one that is a superset of no other: induction  *)
(* over finite sets.                                                       *)
LEMMA SmallestSet ==
  ASSUME NEW F, F # {}, \A T \in F : IsFiniteSet(T)
  PROVE  \E T \in F : \A W \in F : ~(W \subseteq T /\ W # T)
<1> DEFINE U == UNION F
<1>1. IsWellFoundedOn(StrictSubsetOrdering(U), FiniteSubsetsOf(U))
  BY FS_StrictSubsetOrderingWellFounded
<1>2. F \subseteq FiniteSubsetsOf(U)
  BY DEF FiniteSubsetsOf
<1>3. PICK T \in F : \A W \in F : ~(<<W, T>> \in StrictSubsetOrdering(U))
  BY <1>1, <1>2, WFMin
<1> QED
  BY <1>3 DEF StrictSubsetOrdering

(* And a set of numbers has a least: induction over the numbers.           *)
LEMMA LeastNat ==
  ASSUME NEW N \in SUBSET Nat, N # {}
  PROVE  \E x \in N : \A y \in N : x <= y
<1> DEFINE F == {0 .. m : m \in N}
<1>1. \A T \in F : IsFiniteSet(T)
  <2> SUFFICES ASSUME NEW m \in N PROVE IsFiniteSet(0 .. m)
    OBVIOUS
  <2> QED
    BY FS_Interval
<1>2. F # {}
  OBVIOUS
<1> HIDE DEF F
<1>3. PICK T \in F : \A W \in F : ~(W \subseteq T /\ W # T)
  BY <1>1, <1>2, SmallestSet
<1>4. PICK x \in N : T = 0 .. x
  BY DEF F
<1>5. ASSUME NEW y \in N, y < x PROVE FALSE
  <2>1. 0 .. y \in F
    BY DEF F
  <2>2. 0 .. y \subseteq 0 .. x /\ x \in 0 .. x /\ x \notin 0 .. y /\ x \in Nat /\ y \in Nat
    BY <1>5
  <2> QED
    BY <2>1, <2>2, <1>3, <1>4
<1> QED
  BY <1>5

-----------------------------------------------------------------------------
(* Sums over finite sets, of a function that is an integer on them: what   *)
(* the fold of SumFunctionOnSet computes, whatever element it takes first. *)
FirstOf(s) == CHOOSE x \in s : TRUE

SumStep(f, g, s) == IF s = {} THEN 0 ELSE f[FirstOf(s)] + g[s \ {FirstOf(s)}]

Sums(f, S, g) == g \in [SUBSET S -> Int] /\ \A s \in SUBSET S : g[s] = SumStep(f, g, s)

(* The element a fold takes first. *)
LEMMA FirstIn ==
  ASSUME NEW s, IsFiniteSet(s), s # {}
  PROVE  /\ FirstOf(s) \in s
         /\ Cardinality(s) \in Nat /\ Cardinality(s) > 0
         /\ Cardinality(s \ {FirstOf(s)}) = Cardinality(s) - 1
<1>1. FirstOf(s) \in s
  BY DEF FirstOf
<1>2. Cardinality(s \ {FirstOf(s)}) = Cardinality(s) - 1
  BY <1>1, FS_RemoveElement
<1>3. Cardinality(s) \in Nat /\ Cardinality(s) # 0
  BY FS_CardinalityType, FS_EmptySet
<1> QED
  BY <1>1, <1>2, <1>3

(* The table of all partial sums exists, and two of them agree. *)
LEMMA SumsExist ==
  ASSUME NEW S, IsFiniteSet(S), NEW f, \A x \in S : f[x] \in Int
  PROVE  \E g : Sums(f, S, g)
<1> DEFINE Upto(g, k) == \A s \in SUBSET S : Cardinality(s) <= k => g[s] = SumStep(f, g, s)
           N == {k \in Nat : ~\E g \in [SUBSET S -> Int] : Upto(g, k)}
<1>0. \A s \in SUBSET S : IsFiniteSet(s)
  BY FS_Subset
<1>1. 0 \notin N
  <2> DEFINE g0 == [s \in SUBSET S |-> 0]
  <2>1. \A s \in SUBSET S : s # {} => ~(Cardinality(s) <= 0)
    <3> SUFFICES ASSUME NEW s \in SUBSET S, s # {} PROVE ~(Cardinality(s) <= 0)
      OBVIOUS
    <3>1. Cardinality(s) \in Nat /\ Cardinality(s) > 0
      BY <1>0, FirstIn
    <3> QED
      BY <3>1
  <2>2. Upto(g0, 0)
    <3>1. \A s \in SUBSET S : Cardinality(s) <= 0 => g0[s] = 0 /\ SumStep(f, g0, s) = 0
      BY <2>1 DEF SumStep
    <3> HIDE DEF g0
    <3> QED
      BY <3>1
  <2>3. g0 \in [SUBSET S -> Int]
    OBVIOUS
  <2> HIDE DEF g0, Upto
  <2> QED
    BY <2>2, <2>3
<1>2. ASSUME NEW k \in Nat, k \notin N PROVE k + 1 \notin N
  <2>1. PICK g \in [SUBSET S -> Int] : Upto(g, k)
    BY <1>2
  <2> DEFINE h == [s \in SUBSET S |-> IF Cardinality(s) <= k THEN g[s] ELSE SumStep(f, g, s)]
  <2>2. ASSUME NEW s \in SUBSET S PROVE SumStep(f, g, s) \in Int
    <3>1. CASE s = {}
      BY <3>1 DEF SumStep
    <3>2. CASE s # {}
      <4>1. FirstOf(s) \in s /\ s \ {FirstOf(s)} \in SUBSET S
        BY <1>0, <3>2, FirstIn
      <4>2. f[FirstOf(s)] \in Int /\ g[s \ {FirstOf(s)}] \in Int
        BY <4>1
      <4> QED
        BY <3>2, <4>2 DEF SumStep
    <3> QED
      BY <3>1, <3>2
  <2>3. h \in [SUBSET S -> Int]
    BY <2>2
  <2>4. \A s \in SUBSET S : h[s] = SumStep(f, g, s)
    BY <2>1
  <2>5. ASSUME NEW s \in SUBSET S, Cardinality(s) <= k + 1 PROVE h[s] = SumStep(f, h, s)
    <3>1. CASE s = {}
      BY <2>4, <3>1 DEF SumStep
    <3>2. CASE s # {}
      <4>1. s \ {FirstOf(s)} \in SUBSET S /\ Cardinality(s \ {FirstOf(s)}) <= k
        <5>1. Cardinality(s) \in Nat /\ Cardinality(s \ {FirstOf(s)}) = Cardinality(s) - 1
          BY <1>0, <3>2, FirstIn
        <5> QED
          BY <2>5, <5>1
      <4>2. h[s \ {FirstOf(s)}] = g[s \ {FirstOf(s)}]
        BY <4>1
      <4> HIDE DEF h
      <4> QED
        BY <2>4, <3>2, <4>2 DEF SumStep
    <3> QED
      BY <3>1, <3>2
  <2> HIDE DEF h
  <2> QED
    BY <2>3, <2>5
<1>3. N = {}
  <2> SUFFICES ASSUME N # {} PROVE FALSE
    OBVIOUS
  <2>1. N \in SUBSET Nat
    OBVIOUS
  <2>2. PICK k \in N : \A m \in N : k <= m
    <3> HIDE DEF N
    <3> QED
      BY <2>1, LeastNat
  <2> HIDE DEF N
  <2>3. k # 0 /\ k - 1 \in Nat
    BY <1>1, <2>1, <2>2
  <2>4. k - 1 \in N
    <3>1. (k - 1) + 1 = k
      BY <2>1
    <3> QED
      BY <1>2, <2>2, <2>3, <3>1
  <2> QED
    BY <2>1, <2>2, <2>4
<1>4. Cardinality(S) \in Nat /\ \A s \in SUBSET S : Cardinality(s) <= Cardinality(S)
  BY FS_CardinalityType, FS_Subset
<1>5. PICK g \in [SUBSET S -> Int] : Upto(g, Cardinality(S))
  BY <1>3, <1>4
<1> QED
  BY <1>4, <1>5 DEF Sums

LEMMA SumsAgree ==
  ASSUME NEW S, IsFiniteSet(S), NEW T \in SUBSET S, NEW f, NEW g, NEW h, Sums(f, S, g), Sums(f, T, h)
  PROVE  \A s \in SUBSET T : g[s] = h[s]
<1> DEFINE F == {s \in SUBSET T : g[s] # h[s]}
<1> SUFFICES ASSUME F # {} PROVE FALSE
  OBVIOUS
<1>1. \A s \in F : IsFiniteSet(s) /\ s \in SUBSET T /\ s \in SUBSET S /\ g[s] # h[s]
  BY FS_Subset
<1>2. PICK s \in F : \A W \in F : ~(W \subseteq s /\ W # s)
  <2> HIDE DEF F
  <2> QED
    BY <1>1, SmallestSet
<1>3. g[s] = SumStep(f, g, s) /\ h[s] = SumStep(f, h, s)
  BY <1>1 DEF Sums
<1>4. s # {}
  BY <1>1, <1>3 DEF SumStep
<1>5. FirstOf(s) \in s
  BY <1>4 DEF FirstOf
<1>6. g[s \ {FirstOf(s)}] = h[s \ {FirstOf(s)}]
  BY <1>2, <1>5
<1> QED
  BY <1>1, <1>3, <1>4, <1>6 DEF SumStep

SumOf(f, S) == SumFunctionOnSet(f, S)

(* The sum is what the table says. *)
LEMMA SumIs ==
  ASSUME NEW S, IsFiniteSet(S), NEW f, NEW g, Sums(f, S, g)
  PROVE  SumOf(f, S) = g[S]
<1> DEFINE R(q) == q = [s \in SUBSET S |->
                          IF s = {} THEN 0
                          ELSE f[CHOOSE x \in s : TRUE] + q[s \ {CHOOSE x \in s : TRUE}]]
           it == CHOOSE q : R(q)
<1>1. SumOf(f, S) = it[S]
  BY DEF SumOf, SumFunctionOnSet, FoldFunctionOnSet, MapThenFoldSet
<1>2. R(g)
  BY DEF Sums, SumStep, FirstOf
<1> HIDE DEF R
<1>3. R(it)
  BY <1>2
<1>4. \A s \in SUBSET S : it[s] = SumStep(f, it, s)
  BY <1>3 DEF R, SumStep, FirstOf
<1> HIDE DEF it
<1> DEFINE F == {s \in SUBSET S : it[s] # g[s]}
<1>5. ASSUME F # {} PROVE FALSE
  <2>1. \A s \in F : IsFiniteSet(s) /\ s \in SUBSET S /\ g[s] # it[s]
    BY FS_Subset
  <2>2. PICK s \in F : \A W \in F : ~(W \subseteq s /\ W # s)
    <3> HIDE DEF F
    <3> QED
      BY <1>5, <2>1, SmallestSet
  <2>3. g[s] = SumStep(f, g, s) /\ it[s] = SumStep(f, it, s)
    BY <1>4, <2>1 DEF Sums
  <2>4. s # {}
    BY <2>1, <2>3 DEF SumStep
  <2>5. FirstOf(s) \in s
    BY <2>4 DEF FirstOf
  <2>6. g[s \ {FirstOf(s)}] = it[s \ {FirstOf(s)}]
    BY <2>2, <2>5
  <2> QED
    BY <2>1, <2>3, <2>4, <2>6 DEF SumStep
<1>6. it[S] = g[S]
  BY <1>5
<1> QED
  BY <1>1, <1>6

(* One step of the fold. *)
LEMMA SumNext ==
  ASSUME NEW S, IsFiniteSet(S), NEW f, \A x \in S : f[x] \in Int
  PROVE  /\ SumOf(f, S) \in Int
         /\ S = {} => SumOf(f, S) = 0
         /\ S # {} => FirstOf(S) \in S /\ SumOf(f, S) = f[FirstOf(S)] + SumOf(f, S \ {FirstOf(S)})
<1>1. PICK g : Sums(f, S, g)
  BY SumsExist
<1>2. SumOf(f, S) = g[S] /\ g[S] \in Int /\ g[S] = SumStep(f, g, S)
  BY <1>1, SumIs DEF Sums
<1>3. S = {} => SumOf(f, S) = 0
  BY <1>2 DEF SumStep
<1>4. ASSUME S # {} PROVE FirstOf(S) \in S /\ SumOf(f, S) = f[FirstOf(S)] + SumOf(f, S \ {FirstOf(S)})
  <2> DEFINE T == S \ {FirstOf(S)}
  <2>1. FirstOf(S) \in S /\ T \in SUBSET S /\ IsFiniteSet(T)
    BY <1>4, FS_Subset DEF FirstOf
  <2>2. PICK h : Sums(f, T, h)
    BY <2>1, SumsExist
  <2>3. SumOf(f, T) = h[T]
    BY <2>1, <2>2, SumIs
  <2>4. g[T] = h[T]
    BY <1>1, <2>1, <2>2, SumsAgree
  <2> QED
    BY <1>2, <1>4, <2>1, <2>3, <2>4 DEF SumStep
<1> QED
  BY <1>2, <1>3, <1>4

(* Any element can be taken out of a sum. *)
LEMMA SumTake ==
  ASSUME NEW S, IsFiniteSet(S), NEW f, \A x \in S : f[x] \in Int, NEW e \in S
  PROVE  SumOf(f, S) = f[e] + SumOf(f, S \ {e})
<1> DEFINE F == {s \in SUBSET S : \E x \in s : SumOf(f, s) # f[x] + SumOf(f, s \ {x})}
<1>1. ASSUME F # {} PROVE FALSE
  <2>1. \A s \in F : IsFiniteSet(s)
    BY FS_Subset
  <2>2. PICK s \in F : \A W \in F : ~(W \subseteq s /\ W # s)
    <3> HIDE DEF F
    <3> QED
      BY <1>1, <2>1, SmallestSet
  <2>3. PICK x \in s : SumOf(f, s) # f[x] + SumOf(f, s \ {x})
    BY <2>2
  <2> DEFINE y == FirstOf(s)
  <2>4. /\ IsFiniteSet(s) /\ s \in SUBSET S /\ y \in s /\ SumOf(f, s) = f[y] + SumOf(f, s \ {y})
    <3>1. IsFiniteSet(s) /\ s \in SUBSET S /\ s # {} /\ \A z \in s : f[z] \in Int
      BY <2>1, <2>2, <2>3
    <3> QED
      BY <3>1, SumNext
  <2> HIDE DEF y
  <2>5. x # y
    BY <2>3, <2>4
  <2>6. \A W \in SUBSET s : W # s => \A z \in W : SumOf(f, W) = f[z] + SumOf(f, W \ {z})
    BY <2>2, <2>4
  <2>7. SumOf(f, s \ {y}) = f[x] + SumOf(f, (s \ {y}) \ {x})
    BY <2>3, <2>4, <2>5, <2>6
  <2>8. SumOf(f, s \ {x}) = f[y] + SumOf(f, (s \ {x}) \ {y})
    BY <2>3, <2>4, <2>5, <2>6
  <2>9. (s \ {y}) \ {x} = (s \ {x}) \ {y}
    OBVIOUS
  <2>10. SumOf(f, (s \ {x}) \ {y}) \in Int /\ f[x] \in Int /\ f[y] \in Int
    <3>1. (s \ {x}) \ {y} \in SUBSET S
      BY <2>4
    <3>2. IsFiniteSet((s \ {x}) \ {y})
      BY <3>1, FS_Subset
    <3> QED
      BY <2>3, <2>4, <3>1, <3>2, SumNext
  <2> DEFINE z == SumOf(f, (s \ {x}) \ {y})
  <2>11. /\ SumOf(f, s) = f[y] + (f[x] + z) /\ SumOf(f, s \ {x}) = f[y] + z
    BY <2>4, <2>7, <2>8, <2>9
  <2>12. z \in Int /\ f[x] \in Int /\ f[y] \in Int
    BY <2>10
  <2> HIDE DEF z
  <2>13. f[y] + (f[x] + z) = f[x] + (f[y] + z)
    BY <2>12
  <2> QED
    BY <2>3, <2>11, <2>13
<1> QED
  BY <1>1

(* An element more. *)
LEMMA SumMore ==
  ASSUME NEW S, IsFiniteSet(S), NEW f, NEW e, e \notin S, \A x \in S \cup {e} : f[x] \in Int
  PROVE  SumOf(f, S \cup {e}) = SumOf(f, S) + f[e]
<1>1. IsFiniteSet(S \cup {e})
  BY FS_AddElement
<1>2. (S \cup {e}) \ {e} = S
  OBVIOUS
<1>3. SumOf(f, S \cup {e}) = f[e] + SumOf(f, S)
  BY <1>1, <1>2, SumTake
<1>4. SumOf(f, S) \in Int /\ f[e] \in Int
  BY SumNext
<1> QED
  BY <1>3, <1>4
-----------------------------------------------------------------------------
(* The least and the greatest of a set of numbers. *)
LEMMA LeastIs ==
  ASSUME NEW s \in SUBSET Nat, s # {}
  PROVE  G!Least(s) \in s /\ \A e \in s : G!Least(s) <= e
<1>1. \E e \in s : \A g \in s : e <= g
  BY LeastNat
<1> QED
  BY <1>1 DEF G!Least

LEMMA GreatestIs ==
  ASSUME NEW top \in Nat, NEW s \in SUBSET (0 .. top), s # {}
  PROVE  G!Greatest(s) \in s /\ \A e \in s : e <= G!Greatest(s)
<1> DEFINE below == {m \in Nat : top - m \in s}
<1>1. \A e \in s : e \in 0 .. top /\ top - e \in below
  BY DEF below
<1>2. below # {} /\ below \in SUBSET Nat
  BY <1>1
<1>3. \A m \in below : m \in Nat /\ top - m \in s
  OBVIOUS
<1> HIDE DEF below
<1>4. PICK m \in below : \A e \in below : m <= e
  BY <1>2, LeastNat
<1>5. top - m \in s /\ \A e \in s : e <= top - m
  <2>1. ASSUME NEW e \in s PROVE e <= top - m
    <3>1. top - e \in below /\ e \in 0 .. top
      BY <1>1
    <3>2. m <= top - e
      BY <1>4, <3>1
    <3>3. m \in Nat
      BY <1>3
    <3> QED
      BY <3>1, <3>2, <3>3
  <2> QED
    BY <1>3, <2>1
<1>6. \E e \in s : \A g \in s : g <= e
  BY <1>5
<1> QED
  BY <1>6 DEF G!Greatest

-----------------------------------------------------------------------------
(* The box, scan by scan.  What each leaves for the next:                  *)
Pixels == bin \subseteq (0 .. ER) \X (0 .. EC)

(* the last column, in which there are no pixels but those at the edge,    *)
Right ==
  /\ fla = TRUE /\ bec \in 1 .. EC
  /\ \A r \in 0 .. ER - 1, c \in 1 .. EC : <<r, c>> \in bin => c < bec \/ c = EC
  /\ \E r \in 0 .. ER - 1, c \in {bec - 1, bec} : <<r, c>> \in bin /\ (c < EC \/ bec = EC)

(* the first, *)
Left ==
  /\ bsc \in 0 .. bec - 1
  /\ \A r \in 0 .. ER - 1, c \in 0 .. EC - 1 : <<r, c>> \in bin => bsc <= c
  /\ \/ \E r \in 0 .. ER - 1 : <<r, bsc>> \in bin
     \/ bsc = 0 /\ G!Looked = {}

(* and the rows with pixels between the two. *)
Top ==
  /\ bsr \in 0 .. ER
  /\ \A r \in 0 .. ER - 1, c \in 0 .. EC - 1 : <<r, c>> \in bin => bsr <= r
  /\ \/ \E c \in bsc .. bec - 1 : bsr < ER /\ <<bsr, c>> \in bin
     \/ bsr = 0 /\ G!Looked = {}

Bottom ==
  /\ ber \in bsr .. ER
  /\ \A r \in 0 .. ER - 1, c \in 0 .. EC - 1 : <<r, c>> \in bin => r <= ber
  /\ \/ \E c \in bsc .. bec - 1 : <<ber, c>> \in bin
     \/ ber = ER /\ G!Looked = {}
  /\ G!Looked = {} => ber = ER

NoBox == fla = FALSE /\ bsr = 0 /\ ber = 0 /\ bsc = 0 /\ bec = 0

BoxInv ==
  /\ Pixels
  /\ grid \in {"endcol", "startcol", "startrow", "endrow", "divide", "done"}
  /\ grid = "endcol" => NoBox
  /\ grid = "startcol" => Right /\ bsr = 0 /\ ber = 0 /\ bsc = 0
  /\ grid = "startrow" => Right /\ Left /\ bsr = 0 /\ ber = 0
  /\ grid = "endrow" => Right /\ Left /\ Top /\ ber = 0
  /\ grid \in {"divide", "done"} => NoBox \/ (Right /\ Left /\ Top /\ Bottom)
  /\ grid = "done" => r11 = G!division(G!ro) /\ c11 = G!division(G!co)

LEMMA GridSizes ==
  ER \in Nat /\ EC \in Nat /\ Strips \in Nat /\ Strips > 0
<1>1. ER \in Nat /\ EC \in Nat /\ Strips \in Nat /\ Strips % 2 = 1
  BY FeaturesAssumption DEF G!Inputs
<1>2. Strips # 0
  BY <1>1
<1> QED
  BY <1>1, <1>2

LEMMA InColumns ==
  ASSUME NEW cols
  PROVE  /\ G!InkColumns(cols) \subseteq cols
         /\ \A c \in G!InkColumns(cols) : \E r \in 0 .. ER - 1 : <<r, c>> \in bin
         /\ \A r \in 0 .. ER - 1, c \in cols : <<r, c>> \in bin => c \in G!InkColumns(cols)
BY DEF G!InkColumns

LEMMA InRows ==
  ASSUME NEW rows
  PROVE  /\ G!InkRows(rows) \subseteq rows
         /\ \A r \in G!InkRows(rows) : \E c \in bsc .. bec - 1 : <<r, c>> \in bin
         /\ \A r \in rows, c \in bsc .. bec - 1 : <<r, c>> \in bin => r \in G!InkRows(rows)
BY DEF G!InkRows

LEMMA LookedAt ==
  ASSUME Pixels
  PROVE  /\ \A e \in G!Looked : /\ e = <<e[1], e[2]>> /\ e \in bin
                                /\ e[1] \in 0 .. ER - 1 /\ e[2] \in 0 .. EC - 1
         /\ \A r \in 0 .. ER - 1, c \in 0 .. EC - 1 : <<r, c>> \in bin => <<r, c>> \in G!Looked
<1>1. \A e \in bin : e = <<e[1], e[2]>> /\ e[1] \in 0 .. ER /\ e[2] \in 0 .. EC
  BY DEF Pixels
<1>2. ASSUME NEW e \in G!Looked
      PROVE  e = <<e[1], e[2]>> /\ e \in bin /\ e[1] \in 0 .. ER - 1 /\ e[2] \in 0 .. EC - 1
  <2>1. e \in bin /\ e[1] < ER /\ e[2] < EC
    BY DEF G!Looked
  <2> QED
    BY <1>1, <2>1, GridSizes
<1>3. ASSUME NEW r \in 0 .. ER - 1, NEW c \in 0 .. EC - 1, <<r, c>> \in bin
      PROVE  <<r, c>> \in G!Looked
  BY <1>3, GridSizes DEF G!Looked
<1> QED
  BY <1>2, <1>3

LEMMA EndColumnStep ==
  ASSUME BoxInv, G!EndColumn
  PROVE  BoxInv'
<1> DEFINE cols == G!InkColumns(1 .. EC)
           last == G!Greatest(cols)
<1>1. Pixels' /\ NoBox /\ grid = "endcol"
  BY DEF G!EndColumn, BoxInv, Pixels
<1>2. CASE cols = {}
  BY <1>1, <1>2 DEF G!EndColumn, BoxInv, NoBox, G!box
<1>3. CASE cols # {}
  <2>1. cols \subseteq 0 .. EC /\ cols \subseteq 1 .. EC
    BY InColumns, GridSizes
  <2>2. last \in cols /\ \A e \in cols : e <= last
    <3> HIDE DEF cols
    <3> QED
      BY <1>3, <2>1, GreatestIs, GridSizes
  <2>3. /\ fla' = TRUE /\ bec' = IF last < EC THEN last + 1 ELSE last
        /\ grid' = "startcol" /\ bin' = bin /\ bsr' = 0 /\ ber' = 0 /\ bsc' = 0
    BY <1>1, <1>3 DEF G!EndColumn, NoBox
  <2>4. PICK r \in 0 .. ER - 1 : <<r, last>> \in bin
    BY <2>2, InColumns
  <2>5. \A rr \in 0 .. ER - 1, cc \in 1 .. EC : <<rr, cc>> \in bin => cc \in cols
    BY InColumns
  <2> HIDE DEF cols, last
  <2>6. bec' \in 1 .. EC /\ last \in {bec' - 1, bec'} /\ (last < EC \/ bec' = EC)
    BY <2>1, <2>2, <2>3, GridSizes
  <2>7. \A rr \in 0 .. ER - 1, cc \in 1 .. EC : <<rr, cc>> \in bin => cc < bec' \/ cc = EC
    BY <2>1, <2>2, <2>3, <2>5, GridSizes
  <2>8. Right'
    BY <2>3, <2>4, <2>6, <2>7 DEF Right
  <2> QED
    BY <1>1, <2>3, <2>8 DEF BoxInv
<1> QED
  BY <1>2, <1>3

LEMMA StartColumnStep ==
  ASSUME BoxInv, G!StartColumn
  PROVE  BoxInv'
<1> DEFINE cols == G!InkColumns(0 .. bec - 1)
           first == G!Least(cols)
<1>1. /\ Pixels /\ Pixels' /\ Right /\ grid = "startcol" /\ grid' = "startrow"
      /\ bsr = 0 /\ ber = 0 /\ bsr' = bsr /\ ber' = ber /\ bec' = bec /\ bin' = bin /\ fla' = fla
      /\ bsc' = IF cols = {} THEN 0 ELSE first
  BY DEF G!StartColumn, BoxInv, Pixels
<1>2. Right' /\ bec \in 1 .. EC
  BY <1>1 DEF Right
<1>3. cols \subseteq 0 .. bec - 1 /\ cols \in SUBSET Nat
  BY <1>2, InColumns, GridSizes
<1>4. \A r \in 0 .. ER - 1, c \in 0 .. EC - 1 : <<r, c>> \in bin => c \in cols
  <2> SUFFICES ASSUME NEW r \in 0 .. ER - 1, NEW c \in 0 .. EC - 1, <<r, c>> \in bin PROVE c \in cols
    OBVIOUS
  <2>1. c \in 0 .. bec - 1
    BY <1>1, <1>2, GridSizes DEF Right
  <2> QED
    BY <2>1, InColumns
<1>5. \A c \in cols : \E r \in 0 .. ER - 1 : <<r, c>> \in bin
  BY InColumns
<1>6. G!Looked' = G!Looked
  BY <1>1 DEF G!Looked
<1>7. CASE cols = {}
  <2>1. G!Looked = {}
    BY <1>1, <1>4, <1>7, LookedAt
  <2> HIDE DEF cols
  <2>2. Left'
    BY <1>1, <1>2, <1>4, <1>6, <1>7, <2>1, GridSizes DEF Left
  <2> QED
    BY <1>1, <1>2, <2>2 DEF BoxInv
<1>8. CASE cols # {}
  <2> HIDE DEF cols
  <2>1. first \in cols /\ \A e \in cols : first <= e
    BY <1>3, <1>8, LeastIs
  <2> HIDE DEF first
  <2>2. Left'
    BY <1>1, <1>2, <1>3, <1>4, <1>5, <1>8, <2>1, GridSizes DEF Left
  <2> QED
    BY <1>1, <1>2, <2>2 DEF BoxInv
<1> QED
  BY <1>7, <1>8

LEMMA StartRowStep ==
  ASSUME BoxInv, G!StartRow
  PROVE  BoxInv'
<1> DEFINE rows == G!InkRows(0 .. ER - 1)
           first == G!Least(rows)
<1>1. /\ Pixels /\ Pixels' /\ Right /\ Left /\ grid = "startrow" /\ grid' = "endrow"
      /\ ber = 0 /\ ber' = ber /\ bsc' = bsc /\ bec' = bec /\ bin' = bin /\ fla' = fla
      /\ bsr' = IF rows = {} THEN 0 ELSE first
  BY DEF G!StartRow, BoxInv, Pixels
<1>2. Right' /\ bec \in 1 .. EC /\ bsc \in 0 .. bec - 1
  BY <1>1 DEF Right, Left
<1>3. G!Looked' = G!Looked
  BY <1>1 DEF G!Looked
<1>4. Left'
  BY <1>1, <1>3 DEF Left
<1>5. rows \subseteq 0 .. ER - 1 /\ rows \in SUBSET Nat
  BY InRows, GridSizes
<1>6. \A r \in 0 .. ER - 1, c \in 0 .. EC - 1 : <<r, c>> \in bin => r \in rows /\ c \in bsc .. bec - 1
  <2> SUFFICES ASSUME NEW r \in 0 .. ER - 1, NEW c \in 0 .. EC - 1, <<r, c>> \in bin
               PROVE  r \in rows /\ c \in bsc .. bec - 1
    OBVIOUS
  <2>1. c \in 0 .. bec - 1
    BY <1>1, <1>2, GridSizes DEF Right
  <2>2. bsc <= c
    BY <1>1 DEF Left
  <2>3. c \in bsc .. bec - 1
    BY <1>2, <2>1, <2>2
  <2> QED
    BY <2>3, InRows
<1>7. \A r \in rows : \E c \in bsc .. bec - 1 : <<r, c>> \in bin
  BY InRows
<1>8. CASE rows = {}
  <2>1. G!Looked = {}
    BY <1>1, <1>6, <1>8, LookedAt
  <2> HIDE DEF rows
  <2>2. Top'
    BY <1>1, <1>2, <1>6, <1>3, <1>8, <2>1, GridSizes DEF Top
  <2> QED
    BY <1>1, <1>2, <1>4, <2>2 DEF BoxInv
<1>9. CASE rows # {}
  <2> HIDE DEF rows
  <2>1. first \in rows /\ \A e \in rows : first <= e
    BY <1>5, <1>9, LeastIs
  <2> HIDE DEF first
  <2>2. first \in 0 .. ER - 1 /\ first < ER /\ first \in 0 .. ER
    BY <1>5, <2>1, GridSizes
  <2>3. Top'
    BY <1>1, <1>2, <1>6, <1>7, <1>9, <2>1, <2>2, GridSizes DEF Top
  <2> QED
    BY <1>1, <1>2, <1>4, <2>3 DEF BoxInv
<1> QED
  BY <1>8, <1>9

LEMMA EndRowStep ==
  ASSUME BoxInv, G!EndRow
  PROVE  BoxInv'
<1> DEFINE rows == G!InkRows(bsr .. ER)
           last == G!Greatest(rows)
<1>1. /\ Pixels /\ Pixels' /\ Right /\ Left /\ Top /\ grid = "endrow" /\ grid' = "divide"
      /\ bsr' = bsr /\ bsc' = bsc /\ bec' = bec /\ bin' = bin /\ fla' = fla
      /\ ber' = IF rows = {} THEN ER ELSE last
  BY DEF G!EndRow, BoxInv, Pixels
<1>2. Right' /\ bec \in 1 .. EC /\ bsc \in 0 .. bec - 1 /\ bsr \in 0 .. ER
  BY <1>1 DEF Right, Left, Top
<1>3. G!Looked' = G!Looked
  BY <1>1 DEF G!Looked
<1>4. Left' /\ Top'
  BY <1>1, <1>3 DEF Left, Top
<1>5. rows \subseteq bsr .. ER /\ rows \in SUBSET (0 .. ER)
  BY <1>2, InRows, GridSizes
<1>6. \A r \in 0 .. ER - 1, c \in 0 .. EC - 1 : <<r, c>> \in bin => r \in rows
  <2> SUFFICES ASSUME NEW r \in 0 .. ER - 1, NEW c \in 0 .. EC - 1, <<r, c>> \in bin
               PROVE  r \in rows
    OBVIOUS
  <2>1. c \in 0 .. bec - 1
    BY <1>1, <1>2, GridSizes DEF Right
  <2>2. bsc <= c /\ bsr <= r
    BY <1>1 DEF Left, Top
  <2>3. c \in bsc .. bec - 1 /\ r \in bsr .. ER
    BY <1>2, <2>1, <2>2, GridSizes
  <2> QED
    BY <2>3, InRows
<1>7. \A r \in rows : \E c \in bsc .. bec - 1 : <<r, c>> \in bin
  BY InRows
<1>8. CASE rows = {}
  <2>1. G!Looked = {}
    BY <1>1, <1>6, <1>8, LookedAt
  <2>2. ber' = ER
    BY <1>1, <1>8
  <2> HIDE DEF rows
  <2>3. Bottom'
    BY <1>1, <1>2, <1>3, <2>1, <2>2, GridSizes DEF Bottom
  <2> QED
    BY <1>1, <1>2, <1>4, <2>3 DEF BoxInv
<1>9. CASE rows # {}
  <2> HIDE DEF rows
  <2>1. last \in rows /\ \A e \in rows : e <= last
    BY <1>5, <1>9, GreatestIs, GridSizes
  <2> HIDE DEF last
  <2>2. last \in bsr .. ER
    BY <1>5, <2>1
  <2>3. PICK c \in bsc .. bec - 1 : <<last, c>> \in bin
    BY <1>7, <2>1
  <2>4. G!Looked = {} => last = ER
    <3> SUFFICES ASSUME G!Looked = {}, last # ER PROVE FALSE
      OBVIOUS
    <3>1. last \in 0 .. ER - 1 /\ c \in 0 .. EC - 1
      BY <1>2, <2>2, GridSizes
    <3> QED
      BY <1>1, <2>3, <3>1, LookedAt
  <2>5. ber' = last
    BY <1>1, <1>9
  <2>6. Bottom'
    BY <1>1, <1>2, <1>3, <1>6, <2>1, <2>2, <2>3, <2>4, <2>5, GridSizes DEF Bottom
  <2> QED
    BY <1>1, <1>2, <1>4, <2>6 DEF BoxInv
<1> QED
  BY <1>8, <1>9

LEMMA DivideStep ==
  ASSUME BoxInv, G!Divide
  PROVE  BoxInv'
<1>1. /\ UNCHANGED <<bin, fla, bsr, ber, bsc, bec>> /\ grid = "divide" /\ grid' = "done"
      /\ r11' = G!division(G!ro) /\ c11' = G!division(G!co)
  BY DEF G!Divide, G!box
<1>2. G!ro' = G!ro /\ G!co' = G!co /\ G!Looked' = G!Looked
  BY <1>1 DEF G!ro, G!co, G!Looked
<1>3. NoBox \/ (Right /\ Left /\ Top /\ Bottom)
  BY <1>1 DEF BoxInv
<1>4. NoBox' \/ (Right' /\ Left' /\ Top' /\ Bottom')
  BY <1>1, <1>2, <1>3 DEF NoBox, Right, Left, Top, Bottom
<1>5. Pixels'
  BY <1>1 DEF BoxInv, Pixels
<1>6. G!division(G!ro)' = G!division(G!ro) /\ G!division(G!co)' = G!division(G!co)
  BY <1>2 DEF G!division, G!Edge
<1> QED
  BY <1>1, <1>4, <1>5, <1>6 DEF BoxInv

-----------------------------------------------------------------------------
(* The strips.  A quotient, by what it is multiplied to.                   *)
LEMMA Quotient ==
  ASSUME NEW e \in Int, NEW b \in Nat, b > 0
  PROVE  e \div b \in Int /\ b * (e \div b) <= e /\ e < b * (e \div b) + b
OBVIOUS

LEMMA QuotientIs ==
  ASSUME NEW e \in Int, NEW b \in Nat, b > 0, NEW q \in Int, b * q <= e, e < b * q + b
  PROVE  e \div b = q
OBVIOUS

LEMMA EdgeIs ==
  ASSUME NEW k \in Nat, NEW size \in Nat
  PROVE  /\ G!Edge(k, size) \in Int
         /\ 2 * Strips * G!Edge(k, size) <= 2 * k * size + Strips
         /\ 2 * k * size + Strips < 2 * Strips * G!Edge(k, size) + 2 * Strips
<1> DEFINE e == 2 * k * size + Strips
           b == 2 * Strips
<1>1. e \in Int /\ b \in Nat /\ b > 0
  BY GridSizes
<1>2. G!Edge(k, size) = e \div b
  BY DEF G!Edge
<1> HIDE DEF e, b
<1>3. e \div b \in Int /\ b * (e \div b) <= e /\ e < b * (e \div b) + b
  BY <1>1, Quotient
<1> QED
  BY <1>2, <1>3 DEF e, b

LEMMA FirstEdge ==
  ASSUME NEW size \in Nat
  PROVE  G!Edge(0, size) = 0
<1> DEFINE b == 2 * Strips
<1>1. Strips \in Int /\ b \in Nat /\ b > 0 /\ b * 0 <= Strips /\ Strips < b * 0 + b
  BY GridSizes
<1>2. G!Edge(0, size) = Strips \div b
  <2>1. 2 * 0 * size + Strips = Strips
    BY GridSizes
  <2> QED
    BY <2>1 DEF G!Edge
<1> HIDE DEF b
<1> QED
  BY <1>1, <1>2, QuotientIs

LEMMA LastEdge ==
  ASSUME NEW size \in Nat
  PROVE  G!Edge(Strips, size) = size
<1> DEFINE b == 2 * Strips
           e == 2 * Strips * size + Strips
<1>1. e \in Int /\ b \in Nat /\ b > 0 /\ b * size <= e /\ e < b * size + b
  BY GridSizes
<1>2. G!Edge(Strips, size) = e \div b
  BY DEF G!Edge
<1> HIDE DEF b, e
<1> QED
  BY <1>1, <1>2, QuotientIs

LEMMA EqualStrips ==
  ASSUME NEW size \in Nat, NEW k \in 1 .. Strips, NEW m \in 1 .. Strips
  PROVE  G!division(size)[k] - G!division(size)[m] \in {-1, 0, 1}
<1> DEFINE a == G!Edge(k, size)      aa == G!Edge(k - 1, size)
           b == G!Edge(m, size)      bb == G!Edge(m - 1, size)
<1>1. G!division(size)[k] = a - aa /\ G!division(size)[m] = b - bb
  BY DEF G!division
<1>2. k \in Nat /\ k - 1 \in Nat /\ m \in Nat /\ m - 1 \in Nat /\ Strips \in Nat /\ Strips > 0
  BY GridSizes
<1>3. /\ a \in Int /\ 2 * Strips * a <= 2 * k * size + Strips
      /\ 2 * k * size + Strips < 2 * Strips * a + 2 * Strips
  BY <1>2, EdgeIs
<1>4. /\ aa \in Int /\ 2 * Strips * aa <= 2 * (k - 1) * size + Strips
      /\ 2 * (k - 1) * size + Strips < 2 * Strips * aa + 2 * Strips
  BY <1>2, EdgeIs
<1>5. /\ b \in Int /\ 2 * Strips * b <= 2 * m * size + Strips
      /\ 2 * m * size + Strips < 2 * Strips * b + 2 * Strips
  BY <1>2, EdgeIs
<1>6. /\ bb \in Int /\ 2 * Strips * bb <= 2 * (m - 1) * size + Strips
      /\ 2 * (m - 1) * size + Strips < 2 * Strips * bb + 2 * Strips
  BY <1>2, EdgeIs
<1> HIDE DEF a, aa, b, bb
<1>7. 2 * (k - 1) * size = 2 * k * size - 2 * size /\ 2 * (m - 1) * size = 2 * m * size - 2 * size
  BY <1>2
<1> DEFINE A == Strips * a   AA == Strips * aa   B == Strips * b   BB == Strips * bb
           K == k * size     M == m * size
<1>8. /\ A \in Int /\ AA \in Int /\ B \in Int /\ BB \in Int /\ K \in Int /\ M \in Int
      /\ 2 * Strips * a = 2 * A /\ 2 * Strips * aa = 2 * AA
      /\ 2 * Strips * b = 2 * B /\ 2 * Strips * bb = 2 * BB
      /\ 2 * k * size = 2 * K /\ 2 * m * size = 2 * M
  BY <1>2, <1>3, <1>4, <1>5, <1>6
<1>9. Strips * ((a - aa) - (b - bb)) = (A - AA) - (B - BB)
  BY <1>2, <1>3, <1>4, <1>5, <1>6
<1> HIDE DEF A, AA, B, BB, K, M
<1>10. (A - AA) - (B - BB) < 2 * Strips /\ (B - BB) - (A - AA) < 2 * Strips
  BY <1>2, <1>3, <1>4, <1>5, <1>6, <1>7, <1>8
<1> DEFINE diff == (a - aa) - (b - bb)
<1>11. diff \in Int
  BY <1>3, <1>4, <1>5, <1>6
<1> HIDE DEF diff
<1>12. Strips * diff < 2 * Strips /\ -(Strips * diff) < 2 * Strips
  BY <1>8, <1>9, <1>10 DEF diff
<1>13. diff < 2 /\ diff > -2
  <2>1. ASSUME diff >= 2 PROVE FALSE
    <3>1. Strips * diff >= Strips * 2
      BY <1>2, <1>11, <2>1
    <3> QED
      BY <1>2, <1>11, <1>12, <3>1
  <2>2. ASSUME diff <= -2 PROVE FALSE
    <3>1. Strips * diff <= Strips * (-2)
      BY <1>2, <1>11, <2>2
    <3> QED
      BY <1>2, <1>11, <1>12, <3>1
  <2> QED
    BY <1>11, <2>1, <2>2
<1> QED
  BY <1>1, <1>11, <1>13 DEF diff

(* The first k strips together end at the k-th edge.                       *)
LEMMA StripsTogether ==
  ASSUME NEW size \in Nat
  PROVE  G!Total(G!division(size)) = size
<1> DEFINE f == G!division(size)
           wrong == {k \in 0 .. Strips : SumOf(f, 1 .. k) # G!Edge(k, size)}
<1>1. \A k \in 1 .. Strips : /\ f[k] = G!Edge(k, size) - G!Edge(k - 1, size) /\ f[k] \in Int
                             /\ G!Edge(k, size) \in Int /\ G!Edge(k - 1, size) \in Int
  <2> SUFFICES ASSUME NEW k \in 1 .. Strips
               PROVE  /\ f[k] = G!Edge(k, size) - G!Edge(k - 1, size) /\ f[k] \in Int
                      /\ G!Edge(k, size) \in Int /\ G!Edge(k - 1, size) \in Int
    OBVIOUS
  <2>1. k \in Nat /\ k - 1 \in Nat
    OBVIOUS
  <2>2. G!Edge(k, size) \in Int /\ G!Edge(k - 1, size) \in Int
    BY <2>1, EdgeIs
  <2>3. f[k] = G!Edge(k, size) - G!Edge(k - 1, size)
    BY DEF G!division
  <2> QED
    BY <2>2, <2>3
<1> HIDE DEF f
<1>2. ASSUME wrong # {} PROVE FALSE
  <2>1. PICK k \in wrong : \A m \in wrong : k <= m
    <3>1. wrong \in SUBSET Nat
      BY GridSizes
    <3> HIDE DEF wrong
    <3> QED
      BY <1>2, <3>1, LeastNat
  <2>2. k \in 0 .. Strips /\ SumOf(f, 1 .. k) # G!Edge(k, size)
    BY <2>1
  <2>3. k # 0
    <3>1. IsFiniteSet({}) /\ \A e \in {} : f[e] \in Int
      BY FS_EmptySet
    <3>2. SumOf(f, {}) = 0
      BY <3>1, SumNext
    <3>3. 1 .. 0 = {}
      OBVIOUS
    <3> QED
      BY <2>2, <3>2, <3>3, FirstEdge
  <2>4. k - 1 \in 0 .. Strips /\ k - 1 \notin wrong /\ k \in 1 .. Strips
    BY <2>1, <2>2, <2>3, GridSizes
  <2>5. SumOf(f, 1 .. k - 1) = G!Edge(k - 1, size)
    BY <2>4
  <2>6. 1 .. k = (1 .. k - 1) \cup {k} /\ k \notin 1 .. k - 1
    BY <2>4
  <2>7. \A e \in (1 .. k - 1) \cup {k} : f[e] \in Int
    <3>1. (1 .. k - 1) \cup {k} \subseteq 1 .. Strips
      BY <2>4, GridSizes
    <3> QED
      BY <1>1, <3>1
  <2>8. IsFiniteSet(1 .. k - 1)
    BY <2>4, FS_Interval
  <2> HIDE DEF wrong
  <2>9. SumOf(f, (1 .. k - 1) \cup {k}) = SumOf(f, 1 .. k - 1) + f[k]
    BY <2>6, <2>7, <2>8, SumMore
  <2>10. SumOf(f, 1 .. k) = G!Edge(k - 1, size) + f[k]
    BY <2>5, <2>6, <2>9
  <2> QED
    BY <1>1, <2>2, <2>4, <2>10
<1>3. SumOf(f, 1 .. Strips) = G!Edge(Strips, size)
  BY <1>2, GridSizes
<1>4. DOMAIN f = 1 .. Strips
  BY DEF f, G!division
<1>5. G!Total(f) = SumOf(f, 1 .. Strips)
  BY <1>4 DEF G!Total, G!FoldFunction, G!FoldFunctionOnSet, G!MapThenFoldSet,
              SumOf, SumFunctionOnSet, FoldFunctionOnSet, MapThenFoldSet
<1> QED
  BY <1>3, <1>5, LastEdge DEF f

-----------------------------------------------------------------------------
LEMMA GridStart ==
  ASSUME G!Init
  PROVE  BoxInv
<1>1. Pixels
  BY FeaturesAssumption DEF G!Init, G!Inputs, G!Row, G!Col, Pixels
<1> QED
  BY <1>1 DEF G!Init, BoxInv, NoBox

LEMMA GridStep ==
  ASSUME BoxInv, G!Next
  PROVE  BoxInv'
BY EndColumnStep, StartColumnStep, StartRowStep, EndRowStep, DivideStep DEF G!Next

LEMMA BoxIn ==
  ASSUME BoxInv
  PROVE  /\ fla \in BOOLEAN
         /\ bsr \in 0 .. ER /\ ber \in 0 .. ER /\ bsc \in 0 .. EC /\ bec \in 0 .. EC
         /\ grid \in {"divide", "done"} => bsr <= ber /\ bsc <= bec
<1>1. NoBox => /\ bsr \in 0 .. ER /\ ber \in 0 .. ER /\ bsc \in 0 .. EC /\ bec \in 0 .. EC
               /\ bsr <= ber /\ bsc <= bec
  BY GridSizes DEF NoBox
<1>7. NoBox => fla \in BOOLEAN
  BY DEF NoBox
<1>2. Right => fla \in BOOLEAN /\ bec \in 0 .. EC /\ bec \in 1 .. EC
  BY GridSizes DEF Right
<1>3. Right /\ Left => bsc \in 0 .. EC /\ bsc <= bec
  BY <1>2, GridSizes DEF Left
<1>4. Top => bsr \in 0 .. ER
  BY DEF Top
<1>5. Top /\ Bottom => ber \in 0 .. ER /\ bsr <= ber
  BY <1>4, GridSizes DEF Bottom
<1>6. 0 \in 0 .. ER /\ 0 \in 0 .. EC
  BY GridSizes
<1> QED
  BY <1>1, <1>2, <1>3, <1>4, <1>5, <1>6, <1>7 DEF BoxInv

LEMMA BoxIsRight ==
  ASSUME BoxInv, grid = "done", fla
  PROVE  G!BoxHolds /\ G!BoxTight /\ G!WholeImage /\ G!WideEnough
<1>1. Right /\ Left /\ Top /\ Bottom /\ Pixels
  BY DEF BoxInv, NoBox
<1>2. /\ bec \in 1 .. EC /\ bsc \in 0 .. bec - 1 /\ bsr \in 0 .. ER /\ ber \in bsr .. ER
      /\ ER \in Nat /\ EC \in Nat
  BY <1>1, GridSizes DEF Right, Left, Top, Bottom
<1>3. \A e \in G!Looked : /\ e = <<e[1], e[2]>> /\ e \in bin
                          /\ e[1] \in 0 .. ER - 1 /\ e[2] \in 0 .. EC - 1
  BY <1>1, LookedAt
<1>4. ASSUME NEW e \in G!Looked
      PROVE  bsr <= e[1] /\ e[1] <= ber /\ bsc <= e[2] /\ e[2] < bec
  <2>1. <<e[1], e[2]>> \in bin /\ e[1] \in 0 .. ER - 1 /\ e[2] \in 0 .. EC - 1
    BY <1>3
  <2>2. bsr <= e[1] /\ e[1] <= ber /\ bsc <= e[2]
    BY <1>1, <2>1 DEF Left, Top, Bottom
  <2>3. e[2] < bec
    BY <1>1, <1>2, <2>1 DEF Right
  <2> QED
    BY <2>2, <2>3
<1>5. G!BoxHolds
  BY <1>2, <1>3, <1>4 DEF G!BoxHolds
<1>6. ASSUME G!Looked # {}
      PROVE  /\ \E e \in G!Looked : e[1] = bsr
             /\ \E e \in G!Looked : e[2] = bsc
             /\ \E e \in bin : e[1] = ber /\ e[2] < bec
  <2>1. PICK r \in 0 .. ER - 1 : <<r, bsc>> \in bin
    BY <1>1, <1>6 DEF Left
  <2>2. bsc \in 0 .. EC - 1
    BY <1>2
  <2>3. <<r, bsc>> \in G!Looked /\ <<r, bsc>>[2] = bsc
    BY <1>1, <2>1, <2>2, LookedAt
  <2>4. PICK c \in bsc .. bec - 1 : bsr < ER /\ <<bsr, c>> \in bin
    BY <1>1, <1>6 DEF Top
  <2>5. bsr \in 0 .. ER - 1 /\ c \in 0 .. EC - 1
    BY <1>2, <2>4
  <2>6. <<bsr, c>> \in G!Looked /\ <<bsr, c>>[1] = bsr
    BY <1>1, <2>4, <2>5, LookedAt
  <2>7. PICK cc \in bsc .. bec - 1 : <<ber, cc>> \in bin
    BY <1>1, <1>6 DEF Bottom
  <2>8. <<ber, cc>>[1] = ber /\ <<ber, cc>>[2] < bec
    BY <1>2, <2>7
  <2> QED
    BY <2>3, <2>6, <2>7, <2>8
<1>7. \E e \in bin : e[2] \in {bec - 1, bec}
  <2>1. PICK r \in 0 .. ER - 1, c \in {bec - 1, bec} : <<r, c>> \in bin
    BY <1>1 DEF Right
  <2>2. <<r, c>>[2] = c
    OBVIOUS
  <2> QED
    BY <2>1, <2>2
<1>8. G!BoxTight
  BY <1>6, <1>7 DEF G!BoxTight
<1>9. G!WholeImage
  <2> SUFFICES ASSUME G!Looked = {} PROVE bsr = 0 /\ ber = ER /\ bsc = 0 /\ bec = EC
    BY DEF G!WholeImage, G!box
  <2>1. ber = ER
    BY <1>1 DEF Bottom
  <2>2. bsc = 0
    <3> SUFFICES ASSUME bsc # 0 PROVE FALSE
      OBVIOUS
    <3>1. PICK r \in 0 .. ER - 1 : <<r, bsc>> \in bin
      BY <1>1 DEF Left
    <3>2. bsc \in 0 .. EC - 1
      BY <1>2
    <3> QED
      BY <1>1, <3>1, <3>2, LookedAt
  <2>3. bsr = 0
    <3> SUFFICES ASSUME bsr # 0 PROVE FALSE
      OBVIOUS
    <3>1. PICK c \in bsc .. bec - 1 : bsr < ER /\ <<bsr, c>> \in bin
      BY <1>1 DEF Top
    <3>2. bsr \in 0 .. ER - 1 /\ c \in 0 .. EC - 1
      BY <1>2, <3>1
    <3> QED
      BY <1>1, <3>1, <3>2, LookedAt
  <2>4. bec = EC
    <3> SUFFICES ASSUME bec # EC PROVE FALSE
      OBVIOUS
    <3>1. PICK r \in 0 .. ER - 1, c \in {bec - 1, bec} : <<r, c>> \in bin /\ (c < EC \/ bec = EC)
      BY <1>1 DEF Right
    <3>2. c \in 0 .. EC - 1
      BY <1>2, <3>1
    <3> QED
      BY <1>1, <3>1, <3>2, LookedAt
  <2> QED
    BY <2>1, <2>2, <2>3, <2>4
<1>10. G!WideEnough
  <2>1. G!co >= 2
    BY <1>2 DEF G!co
  <2>2. ASSUME G!ro = 1, NEW e \in G!Looked PROVE e[1] = bsr
    <3>1. ber = bsr
      BY <1>2, <2>2 DEF G!ro
    <3> QED
      BY <1>2, <1>3, <1>4, <2>2, <3>1
  <2> QED
    BY <2>1, <2>2 DEF G!WideEnough
<1> QED
  BY <1>5, <1>8, <1>9, <1>10

GridInv == part = "grid" => BoxInv

(* FindBoundingBox and division: for every image and size, the box holds   *)
(* and touches the pixels that all four scans look at, or is the whole     *)
(* image when there are none, is two columns wide at least, and its strips *)
(* cover it exactly, with sizes that differ by one at most.                *)
THEOREM GridExactHolds == FeaturesSpec => []GridExact
<1>1. StartPart => GridInv
  BY GridStart DEF StartPart, GridInv
<1>2. GridInv /\ [Run]_<<part, vars, image>> => GridInv'
  <2> SUFFICES ASSUME GridInv, [Run]_<<part, vars, image>>, part' = "grid" PROVE BoxInv'
    BY DEF GridInv
  <2>1. CASE Files
    BY <2>1 DEF Files, Run
  <2>2. CASE Grid
    BY <2>2, GridStep DEF Grid, GridInv
  <2>3. CASE UNCHANGED <<part, vars, image>>
    <3>1. BoxInv
      BY <2>3 DEF GridInv
    <3>2. UNCHANGED <<bin, fla, bsr, ber, bsc, bec, r11, c11, grid>>
      BY <2>3 DEF image
    <3>3. G!ro' = G!ro /\ G!co' = G!co /\ G!Looked' = G!Looked
      BY <3>2 DEF G!ro, G!co, G!Looked
    <3>4. G!division(G!ro)' = G!division(G!ro) /\ G!division(G!co)' = G!division(G!co)
      BY <3>3 DEF G!division, G!Edge
    <3> QED
      BY <3>1, <3>2, <3>3, <3>4 DEF BoxInv, Pixels, NoBox, Right, Left, Top, Bottom
  <2> QED
    BY <2>1, <2>2, <2>3 DEF Run
<1>3. ASSUME BoxInv
      PROVE  G!TypeOK /\ G!BoxHolds /\ G!BoxTight /\ G!WholeImage /\ G!WideEnough /\ G!StripsExact
  <2>1. G!TypeOK
    BY <1>3, BoxIn DEF BoxInv, G!TypeOK, G!Row, G!Col
  <2>2. G!BoxHolds /\ G!BoxTight /\ G!WholeImage /\ G!WideEnough
    <3>1. CASE grid = "done" /\ fla
      BY <1>3, <3>1, BoxIsRight
    <3>2. CASE ~(grid = "done" /\ fla)
      BY <3>2 DEF G!BoxHolds, G!BoxTight, G!WholeImage, G!WideEnough
    <3> QED
      BY <3>1, <3>2
  <2>3. G!StripsExact
    <3> SUFFICES ASSUME grid = "done" PROVE G!StripsExact
      BY DEF G!StripsExact
    <3>1. r11 = G!division(G!ro) /\ c11 = G!division(G!co)
      BY <1>3 DEF BoxInv
    <3>2. G!ro \in Nat /\ G!co \in Nat
      BY <1>3, BoxIn, GridSizes DEF G!ro, G!co
    <3>3. G!Total(r11) = G!ro /\ G!Total(c11) = G!co
      BY <3>1, <3>2, StripsTogether
    <3>4. \A k, m \in 1 .. Strips : r11[k] - r11[m] \in {-1, 0, 1} /\ c11[k] - c11[m] \in {-1, 0, 1}
      BY <3>1, <3>2, EqualStrips
    <3> QED
      BY <3>3, <3>4 DEF G!StripsExact
  <2> QED
    BY <2>1, <2>2, <2>3
<1>4. GridInv => GridExact
  BY <1>3 DEF GridInv, GridExact
<1> QED
  BY <1>1, <1>2, <1>4, PTL DEF FeaturesSpec
=============================================================================
