---------------------------- MODULE FeatureFile ----------------------------
(***************************************************************************)
(* How the components of an image become its features.  The search program *)
(* saves each component as a numbered file of a directory, runs the        *)
(* feature program on the directory, and reads the file that one wrote;    *)
(* then it takes the k-th feature for that of the k-th component it has in *)
(* memory.  Directory and file stay behind for the next run on an image of *)
(* the name, unless run.bat, which clears them, starts it.                 *)
(*                                                                         *)
(*  start   between two runs of the search program                         *)
(*  save    saveListComp                                                   *)
(*  open    the feature program opens its directory and its file           *)
(*  scan    its loop over the directory                                    *)
(*  read    the constructor of ImageFeature                                *)
(*  search  the features are used                                          *)
(*  exit    there is no feature file                                       *)
(*  memory  the reading does not end, until there is no memory             *)
(***************************************************************************)
EXTENDS Integers, Sequences, FiniteSets

CONSTANTS
  MaxComps,  \* bound on the components of an image
  MaxRuns    \* bound on the runs

ASSUME FeatureFileAssumption == MaxComps \in Nat \ {0} /\ MaxRuns \in Nat \ {0}

(* What the feature program makes of the image in a file: a vector, one    *)
(* with something that is no number (counter is 0), nothing as it does not *)
(* load, nor anything of the files that follow as it dies of it.           *)
Kind == {"vector", "nan", "unloadable", "fatal"}

Number == 0 .. MaxComps - 1

NoFile == [run |-> 0, comp |-> 0, kind |-> "vector"]

File == [run : 1 .. MaxRuns, comp : Number, kind : Kind]

Record == [run : 0 .. MaxRuns, comp : Number, kind : {"vector", "nan"}]

(* A record of which not all numbers are in the file. *)
Garbage == NoFile

VARIABLES
  run,
  comps,     \* the components in memory
  dir,       \* the directory, by the numbers of the files
  exists, header,  \* there is a feature file; its dimension was written
  data,      \* the records of the feature file
  cut,       \* it ends within a record
  i,         \* loop counter
  features,  \* sample
  lost,      \* history: components this run has no vector of
  opened,    \* history: this run's feature program has opened its file
  pc

disk == <<dir, exists, header, data, cut>>
vars == <<run, comps, disk, i, features, lost, opened, pc>>

Init ==
  /\ run = 0 /\ comps = 0
  /\ dir = [k \in Number |-> NoFile]
  /\ exists = FALSE /\ header = FALSE
  /\ data = <<>>
  /\ cut = FALSE
  /\ i = 0
  /\ features = <<>>
  /\ lost = {} /\ opened = FALSE
  /\ pc = "start"

-----------------------------------------------------------------------------
(* run.bat, or someone, starts the search program; the image may have been *)
(* replaced.  Without components getComponents does not return.            *)
StartRun ==
  /\ pc = "start" /\ run < MaxRuns
  /\ run' = run + 1
  /\ comps' \in 1 .. MaxComps
  /\ i' = 0
  /\ features' = <<>>
  /\ lost' = {} /\ opened' = FALSE
  /\ \/ UNCHANGED disk
     \/ /\ dir' = [k \in Number |-> NoFile]
        /\ exists' = FALSE /\ header' = FALSE
        /\ data' = <<>>
        /\ cut' = FALSE
  /\ pc' = "save"

NoMoreRuns ==
  /\ pc = "start" /\ run = MaxRuns
  /\ pc' = "done"
  /\ UNCHANGED <<run, comps, disk, i, features, lost, opened>>

SaveComp ==
  /\ pc = "save" /\ i < comps
  /\ \E kind \in Kind :
       /\ dir' = [dir EXCEPT ![i] = [run |-> run, comp |-> i, kind |-> kind]]
       /\ lost' = IF kind = "vector" THEN lost ELSE lost \cup {i}
  /\ i' = i + 1
  /\ UNCHANGED <<run, comps, exists, header, data, cut, features, opened, pc>>

(* Nobody looks at whether the image was saved. *)
SaveNothing ==
  /\ pc = "save" /\ i < comps
  /\ lost' = lost \cup {i}
  /\ i' = i + 1
  /\ UNCHANGED <<run, comps, disk, features, opened, pc>>

EndSave ==
  /\ pc = "save" /\ i = comps
  /\ i' = 0
  /\ pc' = "open"
  /\ UNCHANGED <<run, comps, disk, features, lost, opened>>

-----------------------------------------------------------------------------
(* Mutant: the file is opened at its end. *)
OpenOutputAppends ==
  /\ pc = "open"
  /\ exists' = TRUE
  /\ header' = TRUE
  /\ opened' = TRUE
  /\ pc' = "scan"
  /\ UNCHANGED <<run, comps, dir, data, cut, i, features, lost>>

(* Opening it empties the file.  The dimension is written, or there is no  *)
(* room on the disk for it.                                                *)
OpenOutput ==
  /\ pc = "open"
  /\ exists' = TRUE
  /\ header' \in BOOLEAN
  /\ data' = <<>>
  /\ cut' = FALSE
  /\ opened' = TRUE
  /\ pc' = IF header' THEN "scan" ELSE "read"
  /\ UNCHANGED <<run, comps, dir, i, features, lost>>

(* The program is not found, or its directory or file does not open, and   *)
(* the search program does not look at that.                               *)
NoOutput ==
  /\ pc = "open"
  /\ pc' = "read"
  /\ UNCHANGED <<run, comps, disk, i, features, lost, opened>>

Present == dir[i] # NoFile

(* Every file of the directory, whichever run saved it. *)
WriteRecord ==
  /\ pc = "scan" /\ i < MaxComps /\ Present
  /\ dir[i].kind \in {"vector", "nan"}
  /\ data' = Append(data, dir[i])
  /\ i' = i + 1
  /\ UNCHANGED <<run, comps, dir, exists, header, cut, features, lost, opened, pc>>

SkipFile ==
  /\ pc = "scan" /\ i < MaxComps
  /\ Present => dir[i].kind = "unloadable"
  /\ i' = i + 1
  /\ UNCHANGED <<run, comps, disk, features, lost, opened, pc>>

(* Each record is written out as it ends.  The program may die between two *)
(* of them, or within one.                                                 *)
ToolDies ==
  /\ pc = "scan" /\ i < MaxComps /\ Present
  /\ dir[i].kind # "unloadable"
  /\ IF dir[i].kind = "fatal" THEN cut' = FALSE ELSE cut' \in BOOLEAN
  /\ i' = 0
  /\ pc' = "read"
  /\ UNCHANGED <<run, comps, dir, exists, header, data, features, lost, opened>>

EndScan ==
  /\ pc = "scan" /\ i = MaxComps
  /\ i' = 0
  /\ pc' = "read"
  /\ UNCHANGED <<run, comps, disk, features, lost, opened>>

-----------------------------------------------------------------------------
NoFeatures ==
  /\ pc = "read" /\ ~exists
  /\ pc' = "exit"
  /\ UNCHANGED <<run, comps, disk, i, features, lost, opened>>

ReadRecord ==
  /\ pc = "read" /\ exists
  /\ Len(features) < Len(data)
  /\ data[Len(features) + 1].kind = "vector"
  /\ features' = Append(features, data[Len(features) + 1])
  /\ UNCHANGED <<run, comps, disk, i, lost, opened, pc>>

(* What is no number fails the stream, which then never is at its end. *)
ReadForever ==
  /\ pc = "read" /\ exists
  /\ Len(features) < Len(data)
  /\ data[Len(features) + 1].kind = "nan"
  /\ pc' = "memory"
  /\ UNCHANGED <<run, comps, disk, i, features, lost, opened>>

(* Mutant: eof is tested before the line end is skipped. *)
EndReadLate ==
  /\ pc = "read" /\ exists
  /\ Len(features) = Len(data)
  /\ features' = IF header THEN Append(features, Garbage) ELSE features
  /\ pc' = "search"
  /\ UNCHANGED <<run, comps, disk, i, lost, opened>>

(* The file ends behind the last record.  If it ends within one, or after  *)
(* the dimension, a record is made of what there is; if there is no        *)
(* dimension, none.                                                        *)
EndRead ==
  /\ pc = "read" /\ exists
  /\ Len(features) = Len(data)
  /\ features' = IF header /\ (cut \/ data = <<>>) THEN Append(features, Garbage) ELSE features
  /\ pc' = "search"
  /\ UNCHANGED <<run, comps, disk, i, lost, opened>>

EndRun ==
  /\ pc \in {"search", "exit", "memory"}
  /\ pc' = "start"
  /\ UNCHANGED <<run, comps, disk, i, features, lost, opened>>

Next ==
  \/ StartRun \/ NoMoreRuns
  \/ SaveComp \/ SaveNothing \/ EndSave
  \/ OpenOutput \/ NoOutput \/ WriteRecord \/ SkipFile \/ ToolDies \/ EndScan
  \/ NoFeatures \/ ReadRecord \/ ReadForever \/ EndRead \/ EndRun

Spec == Init /\ [][Next]_vars

-----------------------------------------------------------------------------
TypeOK ==
  /\ run \in 0 .. MaxRuns
  /\ comps \in 0 .. MaxComps
  /\ dir \in [Number -> File \cup {NoFile}]
  /\ exists \in BOOLEAN /\ header \in BOOLEAN /\ cut \in BOOLEAN
  /\ data \in Seq(Record)
  /\ Len(data) <= MaxComps
  /\ i \in 0 .. MaxComps
  /\ features \in Seq(Record)
  /\ lost \subseteq Number /\ opened \in BOOLEAN
  /\ pc \in {"start", "save", "open", "scan", "read", "search", "exit", "memory", "done"}

(* When the features are used, those before the first component that was   *)
(* lost are each the component's of its place, of this run, whatever files *)
(* earlier runs have left; only where the file was cut short there is one  *)
(* made of nothing.                                                        *)
InPlace ==
  (pc = "search" /\ opened) =>
    \A k \in 1 .. Len(features) :
      \/ \E m \in lost : m < k
      \/ k > comps
      \/ features[k] = [run |-> run, comp |-> k - 1, kind |-> "vector"]
      \/ k = Len(features) /\ features[k] = Garbage /\ (cut \/ data = <<>>)

(* There are more features than components, so that a match may lie beyond *)
(* the list of the components, only if an earlier run on the image had     *)
(* more components, and its files or its features are still there.         *)
MoreOnlyIfStale ==
  (pc = "search" /\ Len(features) > comps) =>
    IF opened THEN \E k \in comps .. MaxComps - 1 : dir[k] # NoFile
    ELSE \E k \in DOMAIN features : features[k] = Garbage \/ features[k].run < run

(* A component of an earlier run gets into the features only where this    *)
(* run has none to put in its place, or did not write the file.            *)
StaleExplained ==
  (pc = "search" /\ opened) =>
    \A k \in 1 .. Len(features) :
      (features[k] # Garbage /\ features[k].run < run) =>
        features[k].comp >= comps \/ features[k].comp \in lost
=============================================================================
