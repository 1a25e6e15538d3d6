------------------------------- MODULE TuiShell -------------------------------
(***************************************************************************)
(* What a key means in the terminal frontend: the lenses and their         *)
(* sub-views, the panels inside a lens, the overlays over all of them and  *)
(* who owns the keyboard (`handle_key' and its sub-keymaps in app.rs,      *)
(* `draw' in ui/mod.rs).                                                   *)
(*                                                                         *)
(* The rows of the lists are left out (TuiList has them): whether one is   *)
(* selected, and which, is a choice.  A filter is empty or not, and only   *)
(* that of the Index Lens matters here.                                    *)
(***************************************************************************)
EXTENDS Integers, Sequences, FiniteSets, Absent

CONSTANT EscWindow    \* ESC_QUIT_WINDOW_TICKS

ASSUME EscWindowType == EscWindow \in Nat

Titles == <<"Macro", "Micro", "Blocks", "Replication", "Schema", "Index", "Query",
            "Progress", "Records">>
Tabs == {Titles[i] : i \in DOMAIN Titles}
Overlays == {"picker", "help", "confirm", "delete", "databases", "servers"}
Filterable == {"Micro", "Schema", "Index", "Query", "Progress", "Records"}

VARIABLES
  tab, prevTab,           \* active_tab, previous_tab
  schemaView, microView,  \* the sub-views, kept from visit to visit
  detail, waits,          \* detail_open, waits_open
  open,                   \* the overlays that are open
  editing,                \* the lists whose filter is being edited
  indexFilter, indexSaved,\* whether the Index Lens's filter, and the one
                          \* to go back to, have a text
  splash,                 \* no data has come yet
  replaying, viewSaved,          \* replay_state, live_mode_saved_snapshot
  escLeft,                \* ticks for which a second Esc quits, None unarmed
  asked,                  \* what the last pass of the main loop asked the poller
  left                    \* should_quit

places == <<tab, prevTab, schemaView, microView>>
panelVars == <<detail, waits>>
ownerVars == <<open, editing>>
indexVars == <<indexFilter, indexSaved>>
sourceVars == <<splash, replaying, viewSaved>>
shellVars == <<places, panelVars, ownerVars, indexVars, sourceVars, escLeft, asked, left>>

\* App::new for a connection chosen, to be chosen in the picker, or a file.
ShellInit ==
  /\ tab = "Macro" /\ prevTab = None
  /\ schemaView = "Tables" /\ microView = "Activity"
  /\ detail = FALSE /\ waits = FALSE
  /\ editing = {} /\ indexFilter = FALSE /\ indexSaved = FALSE
  /\ \/ open \in {{}, {"picker"}} /\ splash = TRUE /\ replaying = FALSE
     \/ open = {} /\ splash = FALSE /\ replaying = TRUE
  /\ viewSaved = FALSE /\ escLeft = None /\ asked = None /\ left = FALSE

------------------------------------------------------------------------------
\* The arm of handle_key a key reaches once no overlay and no filter has
\* taken it: the first that matches.

Activity == tab = "Micro" /\ microView = "Activity"
Tables == tab = "Schema" /\ schemaView = "Tables"
Signalling == Activity \/ tab \in {"Blocks", "Progress"}
HasDetail == Activity \/ Tables \/ tab \in {"Index", "Query", "Blocks", "Progress", "Replication"}
HasFilter == Activity \/ (tab = "Schema" /\ schemaView # "Vacuum")
             \/ tab \in Filterable \ {"Micro", "Schema"}

On(guard, meaning) == IF guard THEN <<meaning>> ELSE <<>>
Arms(k) ==
  CASE k \in {"c", "K"} -> On(Signalling, "signal")
    [] k = "Enter"      -> On(detail \/ waits, "close") \o On(tab = "Records", "replay")
                           \o On(HasDetail, "detail")
    [] k = "/"          -> On(HasFilter, "filter")
    [] k = "w"          -> On(Activity, "waits")
    [] k = "v"          -> On(tab = "Schema", "vacuum")
    [] k = "S"          -> On(tab = "Schema", "sequences")
    [] k = "I"          -> On(tab = "Micro", "idle")
    [] k = "b"          -> On(tab # "Blocks", "blocks") \o On(tab = "Records", "rescan")
    [] k = "B"          -> On(tab = "Records", "rescan") \o On(TRUE, "recollect")
    [] k = "x"          -> On(Tables, "queries") \o On(tab = "Records", "delete")
    [] k = "i"          -> On(Tables, "indexes")
    [] k = "d"          -> <<"databases">>
    [] k = "C"          -> <<"servers">>
    [] k = "!"          -> <<"psql">>
    [] k = "?"          -> <<"help">>
    [] k = "Backspace"  -> On(prevTab # None, "return")

Keys == {"c", "K", "Enter", "/", "w", "v", "S", "I", "b", "B", "x", "i", "d", "C", "!",
         "?", "Backspace"}

Meaning(k) == IF Arms(k) = <<>> THEN None ELSE Head(Arms(k))

Meanings == {"signal", "close", "replay", "detail", "filter", "waits", "vacuum", "sequences",
             "idle", "blocks", "rescan", "recollect", "queries", "delete", "indexes",
             "databases", "servers", "psql", "help", "return"}
ASSUME NoMeaning == None \notin Meanings

TopLevel == ~left /\ open = {} /\ editing = {}
Pressed(meaning) == TopLevel /\ \E k \in Keys : Meaning(k) = meaning

\* clamp_selection, wherever rows come or go: an empty list closes the panel of
\* its lens, on the lenses that look.
CloseOnEmpty == tab \in {"Micro", "Schema", "Index", "Query", "Progress"}
Clamped == waits' = waits /\ detail' \in IF CloseOnEmpty THEN {detail, FALSE} ELSE {detail}

ASSUME NoRequest == None # "definition"
Asks(what) == asked' \in what \cup {None} /\ UNCHANGED <<escLeft, left>>
NothingAsked == Asks({})
ClosePanels == detail' = FALSE /\ waits' = FALSE
GoTo(t) == tab' = t /\ prevTab' = tab /\ ClosePanels
Views == <<schemaView, microView>>

Position == CHOOSE i \in DOMAIN Titles : Titles[i] = tab
Cycle(step) == GoTo(Titles[((Position - 1 + step + Len(Titles)) % Len(Titles)) + 1])
\* Mutant: the tab keys come before the filter editor.
SwitchTabAnytime ==
  /\ ~left /\ open = {}
  /\ Cycle(1) \/ Cycle(-1)
  /\ NothingAsked /\ UNCHANGED <<Views, ownerVars, indexVars, sourceVars>>

\* Tab, BackTab, a digit (nothing for the lens one is in).
SwitchTab ==
  /\ TopLevel
  /\ \/ Cycle(1) \/ Cycle(-1)
     \/ \E t \in Tabs \ {tab} : GoTo(t)
  /\ NothingAsked /\ UNCHANGED <<Views, ownerVars, indexVars, sourceVars>>
\* Backspace, to and fro; `b'.
ReturnTab ==
  /\ Pressed("return") /\ GoTo(prevTab)
  /\ NothingAsked /\ UNCHANGED <<Views, ownerVars, indexVars, sourceVars>>
JumpToBlocks ==
  /\ Pressed("blocks") /\ GoTo("Blocks")
  /\ NothingAsked /\ UNCHANGED <<Views, ownerVars, indexVars, sourceVars>>

\* From a selected table to its statements or its indexes, whose filter is
\* set to its name.
CrossReference ==
  /\ \/ Pressed("queries") /\ GoTo("Query") /\ UNCHANGED indexVars
     \/ Pressed("indexes") /\ GoTo("Index") /\ indexFilter' = TRUE /\ indexSaved' = TRUE
  /\ NothingAsked /\ UNCHANGED <<Views, ownerVars, sourceVars>>

\* `w', `v', `S', `I'.
ToggleWaits ==
  /\ Pressed("waits") /\ waits' = ~waits /\ detail' = (detail /\ waits)
  /\ NothingAsked /\ UNCHANGED <<places, ownerVars, indexVars, sourceVars>>
NextSchemaView ==
  \/ Pressed("vacuum") /\ schemaView' = IF schemaView = "Tables" THEN "Vacuum" ELSE "Tables"
  \/ Pressed("sequences") /\ schemaView' = IF schemaView = "Sequences" THEN "Tables" ELSE "Sequences"
ToggleSchemaView ==
  /\ NextSchemaView /\ detail' = FALSE
  /\ NothingAsked /\ UNCHANGED <<tab, prevTab, microView, waits, ownerVars, indexVars, sourceVars>>

ToggleIdle ==
  /\ Pressed("idle") /\ microView' = (IF microView = "Idle" THEN "Activity" ELSE "Idle")
  /\ ClosePanels
  /\ NothingAsked /\ UNCHANGED <<tab, prevTab, schemaView, ownerVars, indexVars, sourceVars>>

\* The panel of a table shows its definition, which is fetched (if a table is
\* selected) when the panel opens and when the cursor moves under it, also in a
\* replay, whose tables are those of the recording.
Definition == IF Tables THEN {"definition"} ELSE {}

\* Enter: one panel closes before another opens; a recording is replayed.
EnterKey ==
  /\ \/ /\ Pressed("close") /\ detail' = FALSE /\ waits' = (waits /\ detail)
        /\ NothingAsked /\ UNCHANGED <<tab, sourceVars>>
     \/ /\ Pressed("detail") /\ detail' = TRUE
        /\ Asks(Definition) /\ UNCHANGED <<tab, waits, sourceVars>>
     \/ /\ Pressed("replay") /\ tab' = "Macro"
        /\ splash' \in {splash, FALSE} /\ replaying' = TRUE /\ viewSaved' = TRUE
        /\ NothingAsked /\ UNCHANGED panelVars
  /\ UNCHANGED <<prevTab, Views, ownerVars, indexVars>>

\* The arrows, a page, the ends (which a replay takes for its frames).
MoveInList ==
  /\ TopLevel /\ Asks(IF detail THEN Definition ELSE {})
  /\ UNCHANGED <<places, panelVars, ownerVars, indexVars, sourceVars>>

\* `+', `-': also in a replay; at an end of the range nothing changes.
ChangeInterval ==
  /\ TopLevel /\ Asks({"interval"})
  /\ UNCHANGED <<places, panelVars, ownerVars, indexVars, sourceVars>>

------------------------------------------------------------------------------
(* Esc: the first of what there is to leave, and at last the program.      *)

EscReplay ==
  /\ viewSaved /\ viewSaved' = FALSE /\ replaying' = FALSE /\ Clamped
  /\ UNCHANGED <<places, ownerVars, indexVars, splash, escLeft, left>>
EscPanel ==
  /\ ~viewSaved /\ (detail \/ waits)
  /\ detail' = FALSE /\ waits' = (waits /\ detail)
  /\ UNCHANGED <<places, ownerVars, indexVars, sourceVars, escLeft, left>>
EscSchemaView ==
  /\ ~viewSaved /\ ~detail /\ ~waits /\ tab = "Schema" /\ schemaView # "Tables"
  /\ schemaView' = "Tables"
  /\ UNCHANGED <<tab, prevTab, microView, panelVars, ownerVars, indexVars, sourceVars, escLeft, left>>
Cross == tab = "Index" /\ prevTab = "Schema" /\ indexFilter
EscCross ==
  /\ ~viewSaved /\ ~detail /\ ~waits /\ Cross
  /\ indexFilter' = FALSE /\ tab' = "Schema"
  /\ UNCHANGED <<prevTab, Views, panelVars, ownerVars, indexSaved, sourceVars, escLeft, left>>
EscIdle ==
  /\ ~viewSaved /\ ~detail /\ ~waits /\ tab = "Micro" /\ microView # "Activity"
  /\ microView' = "Activity"
  /\ UNCHANGED <<tab, prevTab, schemaView, panelVars, ownerVars, indexVars, sourceVars, escLeft, left>>
EscLeaves ==
  /\ ~viewSaved /\ ~detail /\ ~waits /\ ~Cross
  /\ ~(tab = "Schema" /\ schemaView # "Tables") /\ ~(tab = "Micro" /\ microView # "Activity")
  /\ \/ escLeft # None /\ left' = TRUE /\ UNCHANGED escLeft
     \/ escLeft = None /\ escLeft' = EscWindow /\ UNCHANGED left
  /\ UNCHANGED <<places, panelVars, ownerVars, indexVars, sourceVars>>
EscKey ==
  /\ TopLevel /\ asked' = None
  /\ EscReplay \/ EscPanel \/ EscSchemaView \/ EscCross \/ EscIdle \/ EscLeaves

\* `q'; Ctrl+C, which an open confirmation alone does not take.
QuitKey ==
  /\ ~left /\ left' = TRUE /\ asked' = None
  /\ open \cap {"confirm"} = {}
  /\ UNCHANGED <<places, panelVars, ownerVars, indexVars, sourceVars, escLeft>>

------------------------------------------------------------------------------
(* Overlays.  Opening what acts on a server is refused in a replay.        *)

\* Mutant: databases can be chosen in a replay.
OpensInReplay(o) ==
  CASE o = "help"      -> Pressed("help")
    [] o = "databases" -> Pressed("databases")
    [] o = "servers"   -> Pressed("servers") /\ ~replaying
    [] OTHER           -> FALSE

Opens(o) ==
  CASE o = "help"      -> Pressed("help")
    [] o = "databases" -> Pressed("databases") /\ ~replaying
    [] o = "servers"   -> Pressed("servers") /\ ~replaying
    [] o = "confirm"   -> Pressed("signal") /\ ~replaying
    [] o = "delete"    -> Pressed("delete")
    [] OTHER           -> FALSE
OpenOverlay(o) ==
  /\ Opens(o) /\ open' = open \cup {o}
  /\ NothingAsked /\ UNCHANGED <<places, panelVars, editing, indexVars, sourceVars>>

\* The overlay that takes a key, in the order handle_key asks them.
Handler ==
  LET order == <<"picker", "help", "confirm", "delete", "databases", "servers">>
      up == {n \in DOMAIN order : order[n] \in open}
  IN  IF up # {} THEN order[CHOOSE n \in up : \A o \in up : n <= o]
      ELSE IF editing # {} THEN "filter" ELSE "lens"

\* What an accepted overlay asks for: nothing for where one already is, and
\* nothing of the real server in mock mode.
Request(o) ==
  CASE o = "confirm"   -> {"admin"}
    [] o = "databases" -> {"database", None}
    [] o = "servers"   -> {"server", None}
    [] OTHER           -> {None}

\* Accepted or dismissed; the help is only dismissed.  The choice in the
\* startup picker starts the poller, leaving it quits.
Close(o) ==
  /\ ~left /\ Handler = o /\ open' = open \ {o}
  /\ asked' \in Request(o) \cup {None}
  /\ Clamped
  /\ UNCHANGED <<places, editing, indexVars, sourceVars, escLeft, left>>
AnswerPrompt == Close("confirm") \/ Close("delete")
LeaveDatabases == Close("databases")
LeaveServers == Close("servers")
CloseHelp == Close("help")
Pick ==
  /\ ~left /\ Handler = "picker" /\ open' = open \ {"picker"}
  /\ NothingAsked /\ UNCHANGED <<places, panelVars, editing, indexVars, sourceVars>>

\* `!' and `B', which the poller hears of in the same pass of the main loop.
OpenPsql ==
  /\ ~replaying /\ Pressed("psql") /\ asked' \in {"psql", None}
  /\ UNCHANGED <<places, panelVars, ownerVars, indexVars, sourceVars, escLeft, left>>
Recollect ==
  /\ ~replaying /\ Pressed("recollect") /\ asked' = "recollect"
  /\ UNCHANGED <<places, panelVars, ownerVars, indexVars, sourceVars, escLeft, left>>

\* `/', the keys of the editor, and its end: kept with Enter, undone with Esc.
EditFilter ==
  /\ Pressed("filter") /\ editing' = editing \cup {tab}
  /\ indexSaved' = IF tab = "Index" THEN indexFilter ELSE indexSaved
  /\ NothingAsked /\ UNCHANGED <<places, panelVars, open, indexFilter, sourceVars>>
TypeInFilter ==
  /\ ~left /\ Handler = "filter"
  /\ indexFilter' \in IF editing = {"Index"} THEN BOOLEAN ELSE {indexFilter}
  /\ Clamped /\ NothingAsked /\ UNCHANGED <<places, ownerVars, indexSaved, sourceVars>>
EndFilter ==
  /\ ~left /\ Handler = "filter" /\ editing' = {}
  /\ \/ UNCHANGED indexVars
     \/ IF editing = {"Index"} THEN indexFilter' = indexSaved /\ indexSaved' = FALSE
        ELSE UNCHANGED indexVars
  /\ Clamped /\ NothingAsked /\ UNCHANGED <<places, open, sourceVars>>

\* `\' outside the editor.
ClearFilter ==
  /\ TopLevel /\ tab = "Index" /\ indexFilter' = FALSE
  /\ Clamped /\ NothingAsked /\ UNCHANGED <<places, ownerVars, indexSaved, sourceVars>>

------------------------------------------------------------------------------
\* A snapshot arrives or a recorded frame is shown; the first good one ends
\* the splash.
ApplySnapshot ==
  /\ ~left /\ "picker" \notin open
  /\ splash' \in {splash, FALSE} /\ Clamped /\ asked' = None
  /\ UNCHANGED <<places, ownerVars, indexVars, replaying, viewSaved, escLeft, left>>

Tick ==
  /\ ~left /\ asked' = None
  /\ escLeft' = IF escLeft \in {None, 0} THEN None ELSE escLeft - 1
  /\ UNCHANGED <<places, panelVars, ownerVars, indexVars, sourceVars, left>>

ShellNext ==
  \/ SwitchTab \/ ReturnTab \/ JumpToBlocks \/ CrossReference \/ ToggleWaits \/ ToggleSchemaView \/ ToggleIdle
  \/ EnterKey \/ MoveInList \/ ChangeInterval \/ EscKey \/ QuitKey
  \/ (\E o \in Overlays : OpenOverlay(o)) \/ AnswerPrompt \/ LeaveDatabases \/ LeaveServers \/ CloseHelp
  \/ Pick \/ OpenPsql \/ Recollect
  \/ EditFilter \/ TypeInFilter \/ EndFilter \/ ClearFilter
  \/ ApplySnapshot \/ Tick

ShellSpec == ShellInit /\ [][ShellNext]_shellVars

------------------------------------------------------------------------------
(* What is on the screen (`draw' in ui/mod.rs).                            *)

\* What lies on top: overlays are drawn over one another in this order, the
\* editor takes the status bar, except that of a replay.
Drawn ==
  LET order == <<"confirm", "delete", "databases", "servers", "help">>
      up == {n \in DOMAIN order : order[n] \in open}
  IN  CASE "picker" \in open -> "picker"
        [] splash /\ "picker" \notin open -> "splash"
        [] OTHER -> IF up # {} THEN order[CHOOSE n \in up : \A o \in up : o <= n]
                    ELSE IF editing # {} /\ ~replaying THEN "filter" ELSE "lens"

\* The status bar's hints, as what a key is said to do; the second half is
\* left out piece by piece where the bar has no room.
Hints ==
  IF replaying THEN {<<"?", "help">>, <<"Enter", "detail">>}
  ELSE {<<"?", "help">>}
       \cup (CASE tab = "Micro"   -> {<<"c", "signal">>, <<"K", "signal">>}
               [] tab = "Blocks"  -> {<<"c", "signal">>, <<"K", "signal">>, <<"Enter", "detail">>}
               [] tab = "Records" -> {<<"Enter", "replay">>, <<"d", "delete">>, <<"x", "delete">>,
                                      <<"b", "rescan">>, <<"B", "rescan">>}
               [] OTHER           -> {<<"Enter", "detail">>})
       \cup (IF tab = "Schema" THEN {<<"v", "vacuum">>} ELSE {})
       \cup (IF tab \in {"Schema", "Index", "Query"} THEN {<<"B", "recollect">>} ELSE {})

HintsIfTheyFit ==
  IF replaying THEN {}
  ELSE {<<"d", "databases">>, <<"!", "psql">>}
       \cup (IF tab = "Micro" THEN {<<"w", "waits">>, <<"I", "idle">>} ELSE {})
       \cup (IF HasFilter \/ tab = "Micro" THEN {<<"/", "filter">>} ELSE {})
       \cup (IF Tables THEN {<<"i", "indexes">>, <<"x", "queries">>} ELSE {})
       \cup (IF tab = "Index" /\ prevTab = "Schema" THEN {<<"Backspace", "return">>} ELSE {})

------------------------------------------------------------------------------
(* Properties.                                                             *)

\* A key goes to what the user sees on top, whatever was opened, edited,
\* jumped to, replayed or received before: one owner at a time, and the filter
\* that is edited is that of the list on the screen.  Two exceptions are the
\* code's: the splash hides the overlays, and a replay hides the editor.
KeysReachWhatIsDrawn ==
  /\ Cardinality(open) + Cardinality(editing) <= 1
  /\ editing \subseteq {tab} /\ (editing # {} => HasFilter)
  /\ ~left /\ (splash => "picker" \in open) /\ ~(replaying /\ editing # {}) => Handler = Drawn

\* A panel is open only on a list that has it, and one at most: jumping to
\* another lens, changing the sub-view, leaving a replay leave none behind for
\* the next Enter or Esc to close unseen.
PanelsBelong ==
  /\ detail => HasDetail
  /\ waits => Activity /\ ~detail

\* What a key does is what the screen suggests (handle_key, draw).
KeysFollowScreen == KeysReachWhatIsDrawn /\ PanelsBelong

\* In a replay, however it was come to, nothing acts on the live server: no
\* overlay that would is open, no signal, switch, psql or collection is asked
\* for (open_confirm, open_db_picker, open_server_picker, open_psql, `B').  What
\* the live poller is still asked for is its interval and, with the recording's
\* oid, the definition under the panel of Schema Tables.
ReplayActsOnNothing ==
  replaying =>
    /\ open \subseteq {"help", "delete"}
    /\ asked \in {"interval", "definition", None}
    /\ asked = "definition" => detail /\ Tables

------------------------------------------------------------------------------
(* A statement of the program that the code does not meet.                 *)

\* The status bar says what the keys do ("d/x: delete", "b/B: rescan").
HintsTrue == TopLevel /\ ~splash => \A h \in Hints \cup HintsIfTheyFit : Meaning(h[1]) = h[2]
=============================================================================
