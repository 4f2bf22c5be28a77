----------------------------- MODULE SearchRun -----------------------------
(***************************************************************************)
(* One retrieval method under run.bat: the search program is started for   *)
(* one batch of text lines after the other, on the files left by the ones  *)
(* before it.  Each step is one call of the program's main that succeeds   *)
(* or fails on its own.                                                    *)
(*                                                                         *)
(*  start     a new process reads the directory, takes its batch, and      *)
(*            clusters the training features or reads the trained map      *)
(*  text      head of the loop over the text lines                         *)
(*  feature   MATLAB is run on the text's components                       *)
(*  query     head of the loop over the queries                            *)
(*  qfeature  MATLAB is run on the query's components, by the first text   *)
(*  search    the string matching                                          *)
(*  store     the matches are appended to the page's file                  *)
(*  save      the text with its matches marked is saved as an image        *)
(*  exit      the process has ended by exit(0) on a file it cannot open: a *)
(*            feature file, the training features, the map                 *)
(*  crash     the process has died                                         *)
(*                                                                         *)
(* kind tells the programs apart that work on feature files, of Zernike    *)
(* moments or of 400 dimensions, by clusters (kmeans) or by a map (som),   *)
(* and the one that matches the components themselves (dtw).               *)
(***************************************************************************)
EXTENDS Integers, Sequences, FiniteSets

CONSTANTS
  TextCount,   \* text lines in DATA/TEXTLINE, numbered from 0
  Query,       \* the query images in DATA/QUERY, in directory order
  Batches,     \* the bounds run.bat passes: a sequence of [lower, upper]
  MaxMatches,  \* bound on the matches one search finds
  UnreadableSets, BlankSets, NoInfoSets  \* what may be wrong with the images

Text == 0 .. TextCount - 1
Queries == {Query[k] : k \in DOMAIN Query}

ASSUME RunAssumption ==
  /\ TextCount \in Nat
  /\ Batches \in Seq([lower : Nat, upper : Nat])
  /\ MaxMatches \in Nat \ {0}
  /\ Queries \cap Text = {}
  /\ Query \in Seq(Queries)
  /\ \A k, m \in DOMAIN Query : Query[k] = Query[m] => k = m
  /\ UnreadableSets \subseteq SUBSET (Text \cup Queries)
  /\ BlankSets \subseteq SUBSET (Text \cup Queries)
  /\ NoInfoSets \subseteq SUBSET Text

(* The bounds in run.bat: 0 99, 100 199, 200 299, 300.                     *)
ASSUME BatchesAssumption ==
  /\ \A b \in DOMAIN Batches : Batches[b].lower <= Batches[b].upper
  /\ \A b, c \in DOMAIN Batches : b < c => Batches[b].upper < Batches[c].lower

(* They leave no text line out.                                            *)
ASSUME CoverAssumption ==
  \A x \in Text : \E b \in DOMAIN Batches : Batches[b].lower <= x /\ x <= Batches[b].upper

VARIABLES
  kind,          \* "kmeans", "som" or "dtw"
  training,      \* the file of the training features: missing, empty or usable
  unreadable,    \* images cvLoadImage does not load
  blank,         \* images without components
  noinfo,        \* text lines without the file that names their page
  map,           \* the trained map is there
  textFeature,   \* files in TEXT_FEATURE
  emptyFeature,  \* those of them without a record
  queryFeature,  \* files in QUERY_FEATURE
  outputDir,     \* directories in OUTPUT
  stored,        \* lines of the files in MATCH, in the order written
  drawn,         \* images in OUTPUT, as pairs of text and query
  batch,         \* number of the process
  text_num, query_num,  \* its loop counters
  query_comps,   \* queries whose components it has in memory
  found,         \* matches of the last search not yet stored
  failed,        \* history: images whose features MATLAB failed to write
  searched,      \* history: pairs of text and query searched
  died,          \* history: batches whose process ended early
  pc

texts   == <<textFeature, emptyFeature>>
files   == <<map, texts, queryFeature, outputDir, stored, drawn>>
process == <<text_num, query_num, query_comps, found>>
given   == <<kind, training, unreadable, blank, noinfo>>
history == <<failed, searched, died>>
vars    == <<given, files, process, batch, history, pc>>

(* The batch is the slice of the directory from lower to upper. *)
text == Batches[batch].lower + text_num

(* Mutant: the next batch's first text taken too. *)
MoreTextsTwice == text <= Batches[batch].upper + 1 /\ text < TextCount

MoreTexts == text <= Batches[batch].upper /\ text < TextCount

query == Query[query_num + 1]

MoreQueries == query_num < Len(Query)

-----------------------------------------------------------------------------
(* run.bat removes DATA\OUTPUT first. *)
Init ==
  /\ kind \in {"kmeans", "som", "dtw"}
  /\ training \in {"missing", "empty", "usable"}
  /\ kind = "dtw" => training = "usable"
  /\ unreadable \in UnreadableSets
  /\ blank \in BlankSets
  /\ noinfo \in NoInfoSets
  /\ map = FALSE
  /\ textFeature = {} /\ emptyFeature = {} /\ queryFeature = {}
  /\ outputDir = {}
  /\ stored = <<>>
  /\ drawn = {}
  /\ batch = 1
  /\ text_num = 0 /\ query_num = 0
  /\ query_comps = {}
  /\ found = 0
  /\ failed = {} /\ searched = {} /\ died = {}
  /\ pc = "start"

(* The constructor of the sample reads the training features and clusters  *)
(* them; cvKMeans2 takes no sample without a record.                       *)
ReadTraining ==
  /\ kind = "kmeans"
  /\ pc' = IF training = "missing" THEN "exit"
           ELSE IF training = "empty" THEN "crash" ELSE "text"
  /\ UNCHANGED map

(* Every process has som_pak train the map anew, and looks at no result of *)
(* it: where that fails, the map of an earlier process is read, if any.    *)
ReadMap ==
  /\ kind = "som"
  /\ \/ training = "usable" /\ map' = TRUE
     \/ UNCHANGED map
  /\ pc' = IF map' THEN "text" ELSE "exit"

StartBatch ==
  /\ pc = "start"
  /\ IF batch \in DOMAIN Batches
     THEN /\ text_num' = 0 /\ query_num' = 0
          /\ query_comps' = {}
          /\ found' = 0
          /\ \/ ReadTraining
             \/ ReadMap
             \/ kind = "dtw" /\ pc' = "text" /\ UNCHANGED map
     ELSE pc' = "done" /\ UNCHANGED <<map, process>>
  /\ UNCHANGED <<given, texts, queryFeature, outputDir, stored, drawn, batch, history>>

(* Mutant: run.bat gives up with the first process that ends early. *)
EndBatchStops ==
  /\ \/ pc = "text" /\ ~MoreTexts /\ died' = died /\ batch' = batch + 1
     \/ pc \in {"exit", "crash"} /\ died' = died \cup {batch} /\ batch' = Len(Batches) + 1
  /\ pc' = "start"
  /\ UNCHANGED <<given, files, process, failed, searched>>

(* However the process ends, run.bat goes on with the next one. *)
EndBatch ==
  /\ \/ pc = "text" /\ ~MoreTexts /\ died' = died
     \/ pc \in {"exit", "crash"} /\ died' = died \cup {batch}
  /\ batch' = batch + 1
  /\ pc' = "start"
  /\ UNCHANGED <<given, files, process, failed, searched>>

-----------------------------------------------------------------------------
(* Mutant: the loop goes on without the next text. *)
SkipTextStays ==
  /\ pc = "text" /\ MoreTexts
  /\ text \in unreadable
  /\ UNCHANGED <<given, files, process, batch, history, pc>>

(* text_num counts the texts that are skipped, too. *)
SkipText ==
  /\ pc = "text" /\ MoreTexts
  /\ text \in unreadable
  /\ text_num' = text_num + 1
  /\ UNCHANGED <<given, files, batch, query_num, query_comps, found, history, pc>>

(* getComponents does not survive an image without components. *)
ExtractText ==
  /\ pc = "text" /\ MoreTexts
  /\ text \notin unreadable
  /\ query_num' = 0
  /\ pc' = IF text \in blank THEN "crash" ELSE IF kind = "dtw" THEN "query" ELSE "feature"
  /\ UNCHANGED <<given, files, batch, text_num, query_comps, found, history>>

(* MATLAB writes the feature file or it does not; its result is not looked *)
(* at, but the file is opened next.                                        *)
MATLAB(image, before, after) ==
  \/ after = before \cup {image} /\ failed' = failed
  \/ after = before /\ failed' = failed \cup {image}

(* A MATLAB that dies may have opened the file and have left it empty.     *)
TextFeature ==
  /\ pc = "feature"
  /\ MATLAB(text, textFeature, textFeature')
  /\ \/ emptyFeature' = emptyFeature \cup ({text} \cap textFeature')
     \/ emptyFeature' = emptyFeature \ {text}
  /\ pc' = IF text \in textFeature' THEN "query" ELSE "exit"
  /\ UNCHANGED <<given, map, queryFeature, outputDir, stored, drawn, process, batch,
                 searched, died>>

-----------------------------------------------------------------------------
SkipQuery ==
  /\ pc = "query" /\ MoreQueries
  /\ query \in unreadable
  /\ query_num' = query_num + 1
  /\ UNCHANGED <<given, files, batch, text_num, query_comps, found, history, pc>>

(* Mutant: the counter compared with 1. *)
ExtractQueryLate ==
  /\ pc = "query" /\ MoreQueries
  /\ query \notin unreadable
  /\ query_comps' = IF text_num = 1 THEN query_comps \cup {query} ELSE query_comps
  /\ pc' = IF text_num = 1 /\ query \in blank THEN "crash"
           ELSE IF kind = "dtw" THEN "search" ELSE "qfeature"
  /\ UNCHANGED <<given, files, batch, text_num, query_num, found, history>>

(* Only while the first text of the batch is searched. *)
ExtractQuery ==
  /\ pc = "query" /\ MoreQueries
  /\ query \notin unreadable
  /\ query_comps' = IF text_num = 0 THEN query_comps \cup {query} ELSE query_comps
  /\ pc' = IF text_num = 0 /\ query \in blank THEN "crash"
           ELSE IF kind = "dtw" THEN "search" ELSE "qfeature"
  /\ UNCHANGED <<given, files, batch, text_num, query_num, found, history>>

(* Mutant: the counter compared with 1. *)
QueryFeatureLate ==
  /\ pc = "qfeature"
  /\ IF text_num = 1 THEN MATLAB(query, queryFeature, queryFeature')
     ELSE UNCHANGED <<queryFeature, failed>>
  /\ pc' = IF query \in queryFeature' THEN "search" ELSE "exit"
  /\ UNCHANGED <<given, map, texts, outputDir, stored, drawn, process, batch,
                 searched, died>>

(* The files left by an earlier batch are overwritten, or used. *)
QueryFeature ==
  /\ pc = "qfeature"
  /\ IF text_num = 0 THEN MATLAB(query, queryFeature, queryFeature')
     ELSE UNCHANGED <<queryFeature, failed>>
  /\ pc' = IF query \in queryFeature' THEN "search" ELSE "exit"
  /\ UNCHANGED <<given, map, texts, outputDir, stored, drawn, process, batch,
                 searched, died>>

(* A text has a match under the threshold of the programs that work on      *)
(* feature files, unless its own file has no record.  Under that of DTW it *)
(* may have none, unless the query has no components: then every place of  *)
(* the text matches.                                                       *)
SomeMatch == kind = "dtw" \/ text \notin emptyFeature

NoMatch == IF kind = "dtw" THEN query \in query_comps ELSE text \in emptyFeature

(* Without a match the pruning reads behind an empty list, which the        *)
(* process may or may not survive.                                         *)
Search ==
  /\ pc = "search"
  /\ searched' = searched \cup {<<text, query>>}
  /\ \/ SomeMatch /\ found' \in 1 .. MaxMatches /\ pc' = "store"
     \/ NoMatch /\ found' = 0 /\ pc' \in {"store", "crash"}
  /\ UNCHANGED <<given, files, batch, text_num, query_num, query_comps, failed, died>>

(* Each match is appended and the file closed before the next one. *)
StoreMatch ==
  /\ pc = "store"
  /\ found > 0
  /\ stored' = IF text \in noinfo THEN stored ELSE Append(stored, <<text, query, found>>)
  /\ found' = found - 1
  /\ UNCHANGED <<given, map, texts, queryFeature, outputDir, drawn, batch,
                 text_num, query_num, query_comps, history, pc>>

(* The start of a match may lie behind the last component. *)
StoreBeyond ==
  /\ pc = "store"
  /\ found > 0
  /\ pc' = "crash"
  /\ UNCHANGED <<given, files, process, batch, history>>

EndStore ==
  /\ pc = "store"
  /\ found = 0
  /\ pc' = "save"
  /\ UNCHANGED <<given, files, process, batch, history>>

(* Without the query's directory the image is not saved, silently. *)
SaveImage ==
  /\ pc = "save"
  /\ outputDir' = IF text_num = 0 THEN outputDir \cup {query} ELSE outputDir
  /\ drawn' = IF query \in outputDir' THEN drawn \cup {<<text, query>>} ELSE drawn
  /\ query_num' = query_num + 1
  /\ pc' = "query"
  /\ UNCHANGED <<given, map, texts, queryFeature, stored, batch, text_num,
                 query_comps, found, history>>

EndQueries ==
  /\ pc = "query" /\ ~MoreQueries
  /\ text_num' = text_num + 1
  /\ pc' = "text"
  /\ UNCHANGED <<given, files, batch, query_num, query_comps, found, history>>

-----------------------------------------------------------------------------
Next ==
  \/ StartBatch \/ EndBatch
  \/ SkipText \/ ExtractText \/ TextFeature
  \/ SkipQuery \/ ExtractQuery \/ QueryFeature
  \/ Search \/ StoreMatch \/ StoreBeyond \/ EndStore \/ SaveImage \/ EndQueries

Spec == Init /\ [][Next]_vars

(* run.bat and the programs it starts run one after the other to their end. *)
FairSpec == Spec /\ WF_vars(Next)

-----------------------------------------------------------------------------
TypeOK ==
  /\ map \in BOOLEAN
  /\ textFeature \subseteq Text /\ emptyFeature \subseteq textFeature
  /\ queryFeature \subseteq Queries
  /\ outputDir \subseteq Queries
  /\ stored \in Seq(Text \X Queries \X (1 .. MaxMatches))
  /\ drawn \subseteq searched /\ searched \subseteq Text \X Queries
  /\ batch \in 1 .. Len(Batches) + 1
  /\ text_num \in 0 .. TextCount
  /\ query_num \in 0 .. Len(Query)
  /\ query_comps \subseteq Queries
  /\ found \in 0 .. MaxMatches
  /\ failed \subseteq Text \cup Queries
  /\ died \subseteq DOMAIN Batches
  /\ pc \in {"start", "text", "feature", "query", "qfeature", "search", "store",
             "save", "exit", "crash", "done"}

(* The files in MATCH are only ever appended to, by every process: no match *)
(* is in them twice, which the evaluation would count twice.               *)
StoredOnce == \A k, m \in DOMAIN stored : stored[k] = stored[m] => k = m

(* When run.bat is done, every text has been searched for every query,     *)
(* unless one of the two could not be loaded or the text's process ended   *)
(* early: what happens in one batch costs no other batch a search, but for *)
(* the query features it was to leave.                                     *)
NothingSkipped ==
  pc = "done" =>
    \A x \in Text \ unreadable, q \in Queries \ unreadable :
      \/ <<x, q>> \in searched
      \/ \E b \in died : Batches[b].lower <= x /\ x <= Batches[b].upper

(* A process gives up for a missing file only                              *)
(*   without the file of the training features,                            *)
(*   when som_pak has trained no map, for this process or one before it,   *)
(*   when MATLAB did not write the file,                                   *)
(*   when the first text of its batch could not be loaded: then no text of *)
(*   the batch is the one that extracts the queries' features.             *)
ExitExplained ==
  pc = "exit" => \/ kind = "kmeans" /\ training = "missing"
                 \/ kind = "som" /\ ~map
                 \/ text \in failed
                 \/ MoreQueries /\ query \in failed
                 \/ Batches[batch].lower \in unreadable

(* DTW searches with the query's own components, but for the same case:    *)
(* then it searches with none.                                             *)
SearchHasQuery ==
  (pc = "search" /\ kind = "dtw") =>
    query \in query_comps \/ Batches[batch].lower \in unreadable

(* The marked image of a search is saved, but for the same case.           *)
ImageSaved ==
  [][pc = "save" =>
       <<text, query>> \in drawn' \/ Batches[batch].lower \in unreadable]_vars

(* run.bat comes to its end, whatever fails. *)
Terminates == <>(pc = "done")
=============================================================================
