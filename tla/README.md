# Verification of the musical document retrieval program

TLA+ models of the program in `src/src/`: pages of sheet music are freed of
their staff lines and cut into text lines, a line into components (the
symbols), components are classified, and a query (a short line cut out by hand)
is searched in every line by approximate string matching over the classes; the
boxes found are compared with those a user has drawn. The models are checked by
TLC on small instances; what matters most is proved by TLAPS for every value of
the constants. File names below are relative to `src/src/`.

## 1. Inventory

All programs are sequential, single threaded and communicate only through files
in `DATA/`; `run.bat` starts one after the other. What is hard is therefore
rarely interleaving (the mouse callback of the ground truth maker is the only
one) but (a) loops that change the list, the array or the counter they run over,
(b) tables, counters and files that one iteration, page or run leaves to the
next, (c) steps that fail on their own, after which the rest goes on with what
is there, (d) empty lists and other boundaries.

| Component | State it keeps | Operations | What makes it correct |
|---|---|---|---|
| Staff lines: `staff_line_removal/` | thinned image, counts of heights; histogram, positions of the lines, `Variation` (kept from page to page); marked pixels | thin, find lines and type of page, scan for thin lines, remove | positions are those of the page's lines; a page is treated by its own numbers; only lines are removed |
| Line extraction: `extract_line.cpp` | rows of the line at hand, number of the next line file | cut at gaps of the horizontal projection | what is saved is a line, under a number of its own; what is lost is known |
| Labelling: `component.h` 48-169, `BinImg2Comp`, `ComponentProperty` | label matrix, list of label clashes, parent table, numbers of the roots, pixels per component | raster scan, replay of the clashes, painting | returns exactly the 8-connected components, each once; the climbs end |
| Grouping: `component.h` 170-355, `getComponents` | the list of components, a flagged copy, the list iterators | filter, group with restart, two joining loops, filter, sort | passes settle: nothing they would join is left; no pixel group is lost, split or doubled; the result is disjoint and in reading order |
| Component and feature files: `component.h` 356-371, `feature_400dim.cpp`, `image_processing.h` | a directory of images, a file of vectors, both left from run to run | save the components, compute and append the features, read them | the k-th feature is that of the k-th component, or it is known why not |
| Features: `400dimfeature.h` | bounding box, strips | four scans, division | the box holds the pixels, the strips cover the box |
| KMeans, SOM, DTW: `kmeans.h`, `som_loader.h`, `dtw.h` | cluster centres, map, table of distances | nearest class, cost of two components, warping path | the class is the nearest; costs lie in [0, 1]; the path is a best one |
| Matching: `asm.h` | one table of distances for the forward and all backward passes, the list of matches | forward table, collection, start of each match, pruning | ends and distances exact, starts real, best match survives pruning |
| Search drivers and batches: `search (*).cpp`, `run.bat` | counters, components of the queries in memory; feature files, match files, output directories on disk | per text and query: extract, classify, search, store, draw | nothing skipped or stored twice except for a named reason; each failure costs only its own batch |
| Ground truth: `ground_truth_maker.cpp` | corner kept by the mouse callback, names shared with the main loop | press, release, next image, start again | a box belongs to one drag on one image; no pair is left out |
| Evaluation: `graph.cpp`, `precision_recall.h` | records read, counters per threshold, the graph | read files, match boxes, count, draw | recall and precision count each record once, of every page |
| Other programs: `gmm.h`, `extract_component.cpp`, `remove_barline.cpp`, MATLAB files | | | started by hand, or numeric |

The interaction: `staff_line_removal` and `extract_line` leave line images; a
search driver calls `getComponents` (which calls `BinImg2Comp`) for each of them
and, while it is at its first, for every query; MATLAB or `feature_400dim` turns
the component files into a feature file; `KMeans`/`SOM` turn two feature files
into a cost matrix (DTW compares the images themselves); `approximateStringMatch`
returns matches by component index; the driver looks up their boxes and appends
them to the page's file, which `graph` reads together with the ground truth. The
hazards of each part, line by line, are listed in `PROJECT.json`.

## 2. Modules

    Preprocessing            a page before the search, one function per behaviour
      VerticalThinning         runs of black to single pixels, their heights
      TypeDetect               rows of the staff lines, type of the page
      ThinLines                search for thin lines in a column, removal
      ExtractLine              pages to text lines
      PreprocessingProofs
      MCPreprocessing
    BinImg2Comp              the labelling
      BinImg2CompProofs
      MCBinImg2Comp          TLC: every image of one size
    GetComponents            the passes of getComponents behind it
      Grouping               abstract specification: blocks joined or dropped
      GetComponentsProofs    settling, disjointness, order; Grouping implemented
      MCGetComponents        TLC: boxes that trigger every pass
    FeatureFile              component files, feature file, two or more runs
      Features               with
        FeatureGrid            the box and the strips of one image
      FeaturesProofs
      MCFeatures
    KMeans                   centres, partial sort, mean, cost
      Matching               or, for the other programs,
        Som                    nearest node of a map, which calls
          Dtw                    time warping
      MatchingProofs
      MCMatching
    ApproximateStringMatch   the matching
      ApproximateStringMatchProofs
      MCApproximateStringMatch
    SearchRun                one method under run.bat
      SearchRunProofs
      MCSearchRun
    EvaluationTools          what a search is judged with
      GroundTruth              boxes drawn by a user
      Evaluation               boxes compared, precision and recall
      EvaluationToolsProofs
      MCEvaluationTools

The modules follow the pipeline. They are joined in two ways. `Som` calls `Dtw`
as the code does, step for step. The others communicate through files and
results, so each states what it may assume of its predecessor: the inputs of
`GetComponents` are lists of boxes in raster order, which is what
`ListInRasterOrder` shows `BinImg2Comp` to return (it is proved; the proofs about
`GetComponents` ask only for boxes); `SearchRun` takes from `GetComponents` that a call returns or dies of an
empty list, and from `ApproximateStringMatch` that a search returns some
matches, that their start may lie behind the last component
(`StartsBeforeItEnds`), and that it finds none, and may die of that, only under a
threshold below the pattern size, DTW's, or in an empty text (`NoMatchExplained`),
which a feature file without a record is. That costs are at most those of
an insertion, as the thresholds suppose, is `CostsInUnit`.

`Preprocessing`, `Features`, `Matching` and `EvaluationTools` each put programs
or functions side by side that do not share state while they run: a behaviour
is one of them, on any of its inputs, and the variables of the others hold a
constant.  Their properties are the conjunctions of those of their parts.

### VerticalThinning, TypeDetect, ThinLines

`VerticalThinning`: one action per black and per white run of a column; `start`
and `end` are kept as the code keeps them, since what the code counts is a
difference of the two. `TypeDetect`: one action per row of the histogram, which
has three levels (below both thresholds, above the lower, above both); the
restart of the scan with the higher threshold leaves what the code leaves;
`positions`, `Staff_count` and `Variation` are variables of `main`. A write
before the array leads to the state `wild`. `ThinLines`: one action per staff
line, in one column, since columns do not depend on one another.

### ExtractLine

One action per row. A page is the sequence of its ink counts.

### BinImg2Comp

One action per pixel of the scan, per record, per climb of a `while` loop, per
pixel of the painting pass. The image is the set of white pixels; the border
flags of the code are the test whether a neighbour is in the set. The branch at
line 75 is kept as it is: it writes one label twice and, as the head of an
`else if` chain, hides the branches behind it. That no clash is lost all the
same is the point of `ScanLosesNoClash`. `ComponentProperty` is an operator on
the pixels collected; the four extreme pixels of a box are reduced to its edges.

### GetComponents

A component is its bounding box and the set of labelled components merged into
it (for its pixels). One action is one turn of the innermost loop of a pass:
`KeepComp`/`EraseComp` (compFilter, both calls), `Absorb`/`PassOver`/
`NextToGroup`/`EndSearch` (the search of `CompOverlapRemove`, `Absorb` being the
merge with its `goto lab`), `Collect`, `AddWidth`/`DivideSum` (the reach of small
parts), `Join`/`Skip`/`NextToJoin`/`EndPass` (both joining loops), `Compare`/
`NextBubble` (the bubble sort). The list iterators are indices; `erase` returns
the next element, which has the index of the erased one. An empty list kills the
process twice over: the mean width is divided by its size (270), and
`size()-1` (314) is unsigned. Both lead to the state `crash`.

`Grouping` says what all these passes are to the labelled components: a
partition of some of them of which two blocks may be joined or one dropped, and
which is returned once. The refinement maps the list to its blocks, but the
unflagged entries of the copy while `CompOverlapRemove` works; losing the flag,
erasing the wrong element or copying one appear as steps Grouping does not have.

### ApproximateStringMatch

Both overloads differ only in where a cost comes from and are one model. One
action is one cell of the table, one column of the collection, one step of the
search for a start, one turn of pruning. `d` is one table, shared by all passes,
and its unassigned cells hold `Garbage`. Doubles are integers, `Unit` being 1.0;
the comparison rounded to 1e-6 (line 103) is exact in the model. The size of the
text is chosen in `Init`, from 0: `kmeans.h:141` passes the number of feature
records, and `ImageFeature` reads none from an empty file. The pattern may be empty
for the same reason. Reading the first of no matches (line 110) is undefined, and
ends in `crash` or in `done` without a match. The reference (`WindowDistance`) is
defined by alignments, without a recurrence.

### SearchRun

The processes `run.bat` starts for one method, each with its loops over texts
and queries. Files on disk survive a process; counters and query components do
not. Which images cannot be loaded, hold no component, or name no page is chosen
in `Init`; each MATLAB call may fail, and may leave a feature file without a record
(`emptyFeature`), in which the search finds no match and reads behind an empty list.
The programs are distinguished by `kind`: `"kmeans"` reads the training features
when it starts and ends at once if they are missing (`ReadTraining`), `"som"` has
som_pak train the map, whose success it does not look at, and ends if there is
none (`ReadMap`), `"dtw"` does neither. A feature file found from an earlier batch
is used, as the code does. `failed`, `searched` and `died` are history variables
for the properties. `MaxMatches` bounds the matches per search.

### FeatureFile, FeatureGrid

The directory of component files and the feature file survive a run of the
search program; each run may find those of an earlier one. Saving a file may
fail, a file may not load, give something that is no number (then the reading
never ends: `memory`) or kill the feature program, which may also die between
two records or within one, or not start. `lost` and `opened` are history.
`FeatureGrid` has one action per scan of `FindBoundingBox`.

### KMeans, Som, Dtw

Features have one dimension in `KMeans`, whose partial bubble sort is modelled
comparison by comparison; samples are labelled in any way, as `cvKMeans2` may.
Distances in `Dtw` are quotients, kept as pairs, so that 0/0 and x/0 can be told
from numbers. `warpingPath` is called with rows and columns exchanged and reads
the table so; the model does the same.

### GroundTruth, Evaluation

`GroundTruth`: button events, keys, and a program that is stopped and started
again with a text number; `careful` tells a user who finishes a drag before
striking a key. `Evaluation`: one action per file; `Matches` is the overlap of
the two boxes' points, pairs are counted as the code does. The directory may
hold files that cannot be opened, are empty or do not parse, and the images of
`mark.cpp`.

## 3. Runs

| Run | Instance | What it shows |
|---|---|---|
| `preprocessing` | all pages of 3 columns of 4 rows; all histograms of 5 rows, 8 longer ones, and pairs; all columns of 9 rows with 1 or 2 lines; all pages of up to 7 rows for the cut | thinning keeps lines connected and counts each run; positions exact; no page treated with another's counters; only lines removed; the lines saved are exact |
| `comment_average` | the same | violated: a comment on where the average position is saved |
| `labelling` | all 4096 images of 3 x 4 | result exact and in raster order, no clash lost, links made once and to smaller labels |
| `grouping` | all lists of up to 4 of 17 boxes, in order of their top edge, without pairs that cross | the settling of each pass, disjoint, tight and sorted result, refinement of `Grouping`, termination |
| `paper_grouping` | the same | violated, behind `CompOverlapRemove`: the rule of the paper, that a contained component is grouped |
| `features` | 2 runs of up to 3 components, all failures; all images of 4 x 4 with 3 x 3 strips | features in their place, more or stale ones explained; box and strips exact |
| `matching` | 3 samples, 5 clusters, N = 3; maps of up to 4 nodes, features of up to 3 values | the partial sort; costs in [0, 1]; the class found is the nearest; the warping path is optimal |
| `asm_unit` | pattern 2, texts of 0 to 4, all costs in {0, 1}, thresholds 1 and 2 | ends exact, each with a start, pruning keeps the best match and erases only for a better one, no match only for a named reason, termination |
| `asm_fraction` | pattern 3, texts of 0 to 3, Unit 3, costs in {0, 2}, thresholds 4 and 9 | the start found, for costs that are not whole units: some matches have none |
| `asm_start` | as `asm_unit` | violated: a match does not end before it starts |
| `search_run` | all three kinds, training features missing, empty or usable; 3 texts in 2 batches, 2 queries, up to 2 unreadable images, 1 blank, 1 without page | nothing skipped or doubled, exits explained, termination |
| `evaluation` | 2 texts, 2 queries, 2 boxes, 3 sessions; 2 methods, 2 pages, 6 kinds of match file and 5 of ground truth, and files that do not open or parse | boxes belong to the pair displayed, all pairs displayed, curves exact, all pages counted |

The bounds. In 3 x 4 pixels there is room for a U and a W, whose arms get labels of
their own that clash one or two rows below, for clashes by each of the scan's
branches, and for records whose labels have to climb to their roots; the theorems
about this module hold for every size. Four boxes are the fewest in which a component joined with a third one
reaches a fourth that was passed before; the seventeen boxes were chosen so that
every action of every pass fires and every restart matters. For the matching, a text of four symbols gives
chains of three overlapping matches; a pattern of two or three symbols gives
insertions, deletions and replacements together, and the text may be empty; an empty
pattern is left to the theorems, which are about every size from 0 on. In the search run, the second
batch meets what the first has left, and its first text may be the unreadable one.
Three columns of four rows give a thinned line with none, one and two pixels on
its left. `MaxLines` is 5 instead of 100 (`TypeDetect`), with histograms of more
lines than that, which raise the threshold within a group of rows and outside
of one. Two runs are what a stale feature takes. Five clusters leave two out of
the N = 3 positions, and as many empty. Three sessions let the user be stopped
twice. `MaxMatches`, `MaxRecords`, `MaxSessions`, `MaxComps` and `MaxRuns` are the
names of the bounds.

Fairness is `WF_vars(Next)`, and stated only where a run checks termination
(`grouping`, `asm_unit`, `search_run`): each program is a single thread that
waits for nothing, and `run.bat` starts the next program when the last has ended.
A MATLAB call that never returns is outside of the models. The other modules
state safety only. Deadlock is not checked because every model stops, in `done`,
`crash` or another last state.

### What was found

* `paper_grouping`: the paper says components are grouped if one is completely
  overlapped by the other; `component.h:229-230` asks for similar widths as well,
  so that `CompOverlapRemove`, which is the grouping, leaves such pairs. The next
  pass, `compJoinSmallParts`, may join them by a rule of its own, as it would the
  pair of the trace.
* `asm_start`: the start of a match is searched from `end + 1`, the empty
  window, whose distance is the length of the pattern. A match of that distance
  is returned with its start behind its end, and the driver then takes the left
  edge of the box from a component to the right of the one it takes the right
  edge from, or reads behind the last component. The papers say (x1, y1) is the
  top left and (x2, y2) the bottom right corner.
* `comment_average`: when `type_detect` raises its threshold within a group of
  rows, the group's count is not reset (`type_detect.cpp:69`); the next group
  then ends with an index before the array.

Worth knowing, and covered by properties that hold with their exception named:

* an unreadable first text of a batch disables the whole batch (`ExitExplained`,
  `SearchHasQuery`); a line without components kills its process;
* without the training features, or without a map, every process of the method ends
  at once with status 0 (`ExitExplained`, `search (Zernike-KMeans).cpp:58`,
  `som_loader.h:41-43`); an empty file of training features does not survive
  `cvKMeans2`;
* a text whose feature file has no record has no match, even under the full
  threshold, and `asm.h:110` reads the first of an empty list
  (`NoMatchExplained`);
* a feature lost shifts all behind it to the wrong component (`InPlace`), and
  files of an earlier run give features beyond the components (`MoreOnlyIfStale`);
* a line that ends in a clean gap, or at the foot of the page, is not saved
  (`LinesSaved`);
* `staff_space` is the height of a white run less one (`VerticalThinning`,
  `RunsCounted`), because `start` is its last row and not the row behind it;
* too few lines reset the type of a page (`type_detect.cpp:93`), which the test of
  the variation may set again to one that is scanned, with no lines;
* a page without lines of its own is scanned with the `Variation` of an earlier
  one (`OwnVariation` says that no other page is); a page that does not load ends the program;
* features of one value leave the node of a component uninitialised
  (`ClusterNearest`); the warping path does not count its steps along the border,
  by which the distance is divided (`dtw.h:14`);
* a component with pixels in the last row or column only is laid in the grid of
  the whole image (`WholeImage`);
* pages of which a method found nothing do not count as relevant for it, and
  match files without ground truth do not count as retrieved (`graph.cpp:81-94`,
  unlike the definitions in the paper); pairs, not records, are counted, so a
  ratio may exceed one when boxes overlap (`CurvesExact`);
* a box drawn from right to left has x1 > x2, and no points for `graph.cpp`;
* after `mark.cpp`, its images are read as match files (`AllPagesCounted`).

## 4. Proofs

`tlapm` checks every theorem below from nothing. The only assumptions are the
named ones on the constants, evaluated by TLC in the runs. Every safety property
of the runs that pass is a theorem.

**BinImg2CompProofs.** For every size of the image: the types, `ScanCorrect`,
`ComponentsHavePixels`, `ComponentsCorrect`, `ResultOrdered`, `LinksCorrect`. The
inductive invariant has three parts. `ScanInv`: labels the records connect are exactly
those carried by connected white pixels. The hard half is that nothing is lost
at the left-upper branch; the argument is that U and RU, or L and U, are
themselves neighbours scanned before, and `Equivalent` is defined by closed sets
so that no induction over paths is needed. `MergeInv`: replayed records are
closed under the roots of the forest, and parents are smaller. `PaintInv`:
a component's pixels so far are those scanned whose root has its number. The
order of the list needs three facts more: each label has a pixel before all those
with larger labels (`LabelsUsed`), a root is the least label of its class
(`RootIsLeast`, since parents are smaller), and the numbers of the roots grow
with them (`Numbered`).

**GetComponentsProofs.** For lists of any length: types, `GroupingSettles`,
`NoSmallPartLeft`, `BoxesDisjoint`, `ResultCorrect`. What each search has looked at since its last
change does not match (`SearchInv`, `PassInv`: all pairs before (i, j), as long as
`changed` is false); the restart, or the repeated pass, throws this knowledge
away with each change, and at the end all pairs have been looked at. Erasing and
exchanging keep disjointness (`AfterInv`, `RemoveAtElements`). For `ResultCorrect` the
invariant follows what each pass leaves to the next: boxes are the tightest
around what was merged (`TightInv`), all before i have passed the second filter
(`FilterInv`), and after k passes of the sort the k last are in place (`SortInv`).
The refinement, `Implements`: the initial list maps to singletons; the blocks are
pairwise disjoint and not empty (the inductive invariant), hence a merge is a `Join`
step, an erasure a `Drop`, and every other step a stutter.

**ApproximateStringMatchProofs.** For all sizes, costs and thresholds. The loops:
`TypeCorrect` (all indices in range), `PruningKeepsItsPlace`,
`PruningKeepsTheBetter`, and `NoMatchExplainedHolds`: the last cell of the table is at
most the pattern's length (`Bounded`: d[p][t] <= p for all cells assigned), so under
the full threshold the last column, if the text has one, gives a match, and pruning
leaves at least one of what it is given. The result: `MatchesExactHolds`, `StartExactHolds`,
`BestMatchKeptHolds`, against the definition by alignments. `Reach` says that a value is
the least price of an alignment of a prefix of the pattern with a window that
ends at a column, `Back` the same of suffixes and windows that start there and end no
later than the match. An alignment without the pair of the two last symbols leaves
one of the two out, as two pairs would cross; with it, the rest aligns what precedes
them. This gives the recurrence of a cell (`ReachStep`, `BackStep`), so every cell
assigned is right (`ForwardCells`, `BackwardCells`), although all passes share the
table; every match has its end's distance and every end within the threshold a match
(`Listed`), and every start that has been sought is the last of its distance
(`StartsFound`). That a start exists, the second half of `MatchesExact`, needs costs
of nothing or a `Unit`: then all
distances are multiples of a `Unit` and move by one at most from one place to the
next (`BackSlow`), so that none is left out on the way. With other costs it is false,
and `StartExact` says what the code does then.

**SearchRunProofs.** For all directories, batches in order and failures:
`TypeCorrect`, `NoMatchTwice` (what is stored is older than what is being
stored, in the order of batch, text, query, match), and the three consequences
of `Ready` (`DtwHasQuery`, `ImagesSaved`, `ExitsExplained`): once the first text of
a batch has been searched every readable query has its features or components and
its directory. `ExitsExplained` counts all the ways to `exit(0)`, those of the
constructors at the start included. `EverySearchMade` follows
the three loops (`AllDone`: what of earlier batches, texts and queries must have
been searched has been) and rests on one assumption more, `CoverAssumption`: the
batches leave no text out, as those of `run.bat` do, the last of which has no
upper bound.

**PreprocessingProofs.** For every page and every order of the two programs:
`LinesSavedHolds` (`ymin` is the nearest row above `ymax` of its kind, and the files
saved are the lines that end above `ymax`, in order), `LinesRemovedHolds` (the rows
marked are those of the staff lines among the rows scanned), `StaffLinesExactHolds`
(the positions found are the middle rows of the maximal runs that end above row i),
`ThinnedLinesHolds` (the runs kept are those that end above row i of column j, or in
an earlier column), and `PagesKeptApartHolds`. The maximal run is what has to be
carried along: its first row is known before its last.

**FeaturesProofs.** For any number of components and runs, and all failures:
`TypeCorrect`, `FeaturesInPlace`, `MoreFeaturesAreStale`,
`StaleFeaturesExplained`. The inductive invariant (`IInv`) follows the data:
`Disk` (every file has the number of its component and is of this run or an
earlier one), `Saved` (what this run has saved so far is there or lost),
`Scanned` (a file passed over leaves a lost component behind the records),
`Written` (the records are in their place up to the first loss), `Beyond` (a
record too many needs a file too many) and `Taken` (the features are the records,
and at most one made of nothing). `GridExactHolds`, for every image, size and number of
strips: each of the four scans for the box stops at the first row or column with a
pixel (`BoxInv`), and the strips follow each other without a gap, so each pixel of
the box is counted in one of them.

**MatchingProofs.** For any samples, labels, maps and distances. `kmeans.h`:
`TypeCorrect`, `CentresPaired` (exchanging both arrays keeps each distance beside its
centre, and none is lost), `NearestSettled` (after i passes the last i positions
hold the i smallest distances, and within a pass the element at j is the
smallest so far), `ClassNearestHolds` (the weighted mean of the nearest centres lies
between the least and the greatest of them, as the weights are the odd numbers,
which sum to N * N). `dtw.h`: `WarpingOptimalHolds`; no path to a cell costs less than
the cell holds (`LowerBound`, by a smallest path that would), and the way back costs
what the last cell holds (`Trail`); along the border this needs that `Infinity` is more than
all sums of distances, which is what `INFINITY` of `dtw.h` is for
(`OnBorder`). `som_loader.h`: `CostsInUnitHolds`; `minpt` is the least of the nodes
looked at (`Nearer`), and the distance of two nodes is the diagonal at most.

**EvaluationToolsProofs.** `BoxesOnDisplayHolds` and `PairsDisplayedHolds` (the pairs
before the loops' place have been displayed), `AllPagesCountedHolds` and `CurvesExactHolds`: each
counter of `graph` is the size of a set that grows with the file read, and as the
boxes of one list are disjoint a matching pair is told by either of its records.

**Sums and tables.** The library's induction theorems cannot be used here, as they
take an operator. In their place stand two facts without one: of any set of finite
sets one has no other below it, and any set of numbers has a least (`SmallestSet`,
`LeastNat`); a property of all sets, paths or sums is proved by a smallest
counterexample. What the library's folds compute follows from their definitions
(`SumIs`, `SumTake`).

**Termination.** `EveryStepDescends` of GetComponentsProofs,
ApproximateStringMatchProofs and SearchRunProofs is the half of the three properties
`Terminates` that needs no fairness: every step lowers five numbers compared from
the left (`StepsLeft`), an order in which nothing descends for ever
(`OrderWellFounded`, from the library's facts on `<` and on pairs). In the passes
the numbers are the phase, the components that can still be merged, whether the pass
must be repeated, and the two loops; so neither the `goto lab` after a merge nor the
repeated passes can go on for ever. In the matching they are the phase, the matches
before the end of the list, the loops over one match, rows and columns; erasing a
match and stepping over one lower the same number. In the run they are the batches
left, where the process is, its texts, the queries of the current text and what is
left of the current query; `query_num` starts over with every text, but `text_num`
never within a batch.

**Model-checked only.** That a step is taken while one is possible, and so the three
liveness properties `Terminates` themselves: TLAPS has no rule here for fairness and
ENABLED.

## 5. Not modelled

* Vendored code: netCDF, som_pak, OpenCV and the MATLAB toolboxes under `src/lib`
  and elsewhere, which hold nearly all of the repository's lines; this is a model of the program, and
  they are external to it. Likewise the older snapshot `src-24-6-12`.
* Image processing without control: thresholding, dilation, binarization, the
  removal of bar lines (a Hough transform), gradients, Zernike moments, profiles.
* In `staff_line_removal`: the scans of thick, curved and rotated lines and
  `remove_false_line`, filters of pixels with tuned constants; `line_trace`, which
  is not called.
* Programs `run.bat` does not start: the Gaussian mixture, two drivers,
  `extract_component`.
* In the search drivers: a training or map file that is there but incomplete, and the
  time a MATLAB call takes.
* Floating point rounding; allocation (`delete` for `new[]` occurs in several
  places, `component.h:249` among them); `interchange` of `std.h:36`, which
  declares a result and returns none; drawing and printing; MATLAB and OpenCV but
  for the ways they fail.

## 6. Plan

What is left, in order of worth: the pixel scans of `verticalScan.cpp`, as far as they
are protocols and not filters.
