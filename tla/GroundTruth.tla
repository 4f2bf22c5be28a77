---------------------------- MODULE GroundTruth ----------------------------
(***************************************************************************)
(* ground_truth_maker.cpp: the user drags a box around each occurrence of  *)
(* the query shown in the text shown, and strikes a key to go on.  The     *)
(* mouse callback runs inside cvWaitKey only, with a corner of its own and *)
(* the names the main loop has set.                                        *)
(*                                                                         *)
(*  text   head of the loop over the texts                                 *)
(*  query  head of the loop over the queries                               *)
(*  wait   both windows are open, events are delivered                     *)
(*  ended  the program has died or has been stopped by the user            *)
(*                                                                         *)
(* The first button event may go to another window, which has no callback; *)
(* a careful user never does that, and strikes no key while the button is  *)
(* down.                                                                   *)
(***************************************************************************)
EXTENDS Integers, Sequences, FiniteSets, SequencesExt

CONSTANTS
  Text, Query,        \* the images, in directory order
  UnreadableSets,     \* which of them cannot be loaded
  Point,              \* places in the text's window, <<x, y>>
  MaxRecords,         \* bound on the boxes drawn
  MaxSessions         \* bound on the times the program is started

Inputs ==
  /\ Text \in Seq(STRING) /\ Query \in Seq(STRING)
  /\ \A k, m \in DOMAIN Text : Text[k] = Text[m] => k = m
  /\ \A k, m \in DOMAIN Query : Query[k] = Query[m] => k = m
  /\ Point \subseteq Nat \X Nat
  /\ MaxRecords \in Nat /\ MaxSessions \in Nat \ {0}

VARIABLES
  unreadable, careful,
  start,              \* texts to skip, the program's argument
  i, j,               \* texts and queries taken from the directories
  textname, queryname,
  corner,             \* x0, y0 of the callback
  held,               \* the button is down
  records,            \* lines of the files in GROUND_TRUTH
  session,
  shown,              \* history: pairs displayed, in order
  press,              \* history: the display on which corner was set, or 0
  drag,               \* history: for each record, the displays of its corners
  stopped,            \* history: pairs on which a session ended early
  pc

names   == <<textname, queryname>>
mouse   == <<corner, held>>
history == <<shown, press, drag, stopped>>
vars    == <<unreadable, careful, start, i, j, names, mouse, records, session, history, pc>>

Init ==
  /\ unreadable \in UnreadableSets /\ careful \in BOOLEAN
  /\ start = 0 /\ i = 0 /\ j = 0
  /\ textname = "" /\ queryname = ""
  /\ corner = <<0, 0>> /\ held = FALSE
  /\ records = <<>>
  /\ session = 1
  /\ shown = <<>> /\ press = 0 /\ drag = <<>> /\ stopped = {}
  /\ pc = "text"

-----------------------------------------------------------------------------
(* Mutant: one text too many is skipped. *)
NextTextLate ==
  /\ pc = "text" /\ i < Len(Text)
  /\ i' = i + 1
  /\ IF i <= start THEN UNCHANGED <<j, pc>> ELSE j' = 0 /\ pc' = "query"
  /\ UNCHANGED <<unreadable, careful, start, names, mouse, records, session, history>>

(* The test steps i in any case. *)
NextText ==
  /\ pc = "text" /\ i < Len(Text)
  /\ i' = i + 1
  /\ IF i < start THEN UNCHANGED <<j, pc>> ELSE j' = 0 /\ pc' = "query"
  /\ UNCHANGED <<unreadable, careful, start, names, mouse, records, session, history>>

EndTexts ==
  /\ pc = "text" /\ i = Len(Text)
  /\ pc' = "done"
  /\ UNCHANGED <<unreadable, careful, start, i, j, names, mouse, records, session, history>>

(* The names are set, the images loaded, the windows opened.  cvShowImage  *)
(* does not survive an image that is not there.                            *)
Show ==
  /\ pc = "query" /\ j < Len(Query)
  /\ j' = j + 1
  /\ textname' = Text[i] /\ queryname' = Query[j + 1]
  /\ IF {Text[i], Query[j + 1]} \cap unreadable # {}
     THEN /\ stopped' = stopped \cup {<<session, Text[i], Query[j + 1]>>}
          /\ pc' = "ended"
          /\ UNCHANGED shown
     ELSE /\ shown' = Append(shown, <<Text[i], Query[j + 1]>>)
          /\ pc' = "wait"
          /\ UNCHANGED stopped
  /\ UNCHANGED <<unreadable, careful, start, i, mouse, records, session, press, drag>>

EndQueries ==
  /\ pc = "query" /\ j = Len(Query)
  /\ pc' = "text"
  /\ UNCHANGED <<unreadable, careful, start, i, j, names, mouse, records, session, history>>

-----------------------------------------------------------------------------
(* Mutant: the box starts where the last one ended. *)
ButtonDownLate(p) ==
  /\ pc = "wait" /\ ~held
  /\ held' = TRUE
  /\ corner' = IF corner = <<0, 0>> THEN p ELSE corner
  /\ press' = IF corner = <<0, 0>> THEN Len(shown) ELSE press
  /\ UNCHANGED <<unreadable, careful, start, i, j, names, records, session, shown, drag, stopped, pc>>

(* CV_EVENT_LBUTTONDOWN on the text. *)
ButtonDown(p) ==
  /\ pc = "wait" /\ ~held
  /\ held' = TRUE
  /\ corner' = p
  /\ press' = Len(shown)
  /\ UNCHANGED <<unreadable, careful, start, i, j, names, records, session, shown, drag, stopped, pc>>

ButtonDownElsewhere ==
  /\ pc = "wait" /\ ~held /\ ~careful
  /\ held' = TRUE
  /\ UNCHANGED <<unreadable, careful, start, i, j, names, corner, records, session, history, pc>>

(* CV_EVENT_LBUTTONUP on the text: a record is appended to the text's file, *)
(* unless the mouse has not moved.                                         *)
ButtonUp(p) ==
  /\ pc = "wait" /\ held
  /\ held' = FALSE
  /\ IF p = corner THEN UNCHANGED <<records, drag>>
     ELSE /\ Len(records) < MaxRecords
          /\ records' = Append(records,
               [text |-> textname, query |-> queryname,
                x1 |-> corner[1], y1 |-> corner[2], x2 |-> p[1], y2 |-> p[2]])
          /\ drag' = Append(drag, <<press, Len(shown)>>)
  /\ UNCHANGED <<unreadable, careful, start, i, j, names, corner, session, shown, press, stopped, pc>>

(* cvWaitKey returns. *)
Key ==
  /\ pc = "wait"
  /\ careful => ~held
  /\ pc' = "query"
  /\ UNCHANGED <<unreadable, careful, start, i, j, names, mouse, records, session, history>>

-----------------------------------------------------------------------------
(* The user stops the program. *)
Stop ==
  /\ pc = "wait"
  /\ stopped' = stopped \cup {<<session, textname, queryname>>}
  /\ pc' = "ended"
  /\ UNCHANGED <<unreadable, careful, start, i, j, names, mouse, records, session, shown, press, drag>>

(* It is started again from the text it ended at, or behind it if that is  *)
(* the one that cannot be shown.                                           *)
Restart ==
  /\ pc = "ended" /\ session < MaxSessions
  /\ session' = session + 1
  /\ start' = IF textname \in unreadable THEN i ELSE i - 1
  /\ i' = 0 /\ j' = 0
  /\ textname' = "" /\ queryname' = ""
  /\ corner' = <<0, 0>> /\ press' = 0 /\ held' = FALSE
  /\ pc' = "text"
  /\ UNCHANGED <<unreadable, careful, records, shown, drag, stopped>>

Next ==
  \/ NextText \/ EndTexts \/ Show \/ EndQueries
  \/ \E p \in Point : ButtonDown(p) \/ ButtonUp(p)
  \/ ButtonDownElsewhere \/ Key \/ Stop \/ Restart

Spec == Init /\ [][Next]_vars

-----------------------------------------------------------------------------
TypeOK ==
  /\ start \in 0 .. Len(Text)
  /\ i \in 0 .. Len(Text) /\ j \in 0 .. Len(Query)
  /\ textname \in {""} \cup ToSet(Text) /\ queryname \in {""} \cup ToSet(Query)
  /\ corner \in Point \cup {<<0, 0>>}
  /\ held \in BOOLEAN
  /\ Len(records) \in 0 .. MaxRecords /\ Len(drag) = Len(records)
  /\ shown \in Seq(ToSet(Text) \X ToSet(Query))
  /\ session \in 1 .. MaxSessions
  /\ pc \in {"text", "query", "wait", "ended", "done"}

(* The names in a record are those of the pair on display when the button  *)
(* was released, and with a careful user both corners are of one drag on   *)
(* that display.                                                           *)
OneDrag ==
  \A k \in DOMAIN records :
    /\ shown[drag[k][2]] = <<records[k].text, records[k].query>>
    /\ careful => drag[k][1] = drag[k][2]

(* A pair is displayed, and its boxes drawn, a second time only if the     *)
(* session before ended on the same text.                                  *)
ShownAgain ==
  \A k, m \in DOMAIN shown :
    (k < m /\ shown[k] = shown[m]) =>
      \E s \in stopped : s[2] = shown[k][1] /\ s[1] < session

(* Resuming at the text a session ended at leaves out no pair that can be  *)
(* displayed, if all queries can be.                                        *)
AllShown ==
  (pc = "done" /\ unreadable \cap ToSet(Query) = {}) =>
    \A t \in ToSet(Text) \ unreadable, q \in ToSet(Query) : <<t, q>> \in ToSet(shown)
=============================================================================
