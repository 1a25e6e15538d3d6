-------------------------------- MODULE TuiList --------------------------------
(***************************************************************************)
(* The table of a lens: rows replaced by snapshots, filtered and sorted    *)
(* into a display order, with a cursor over that order (`resort_*',        *)
(* `clamp_selection', `move_selection', `selected_*', the filter editor,   *)
(* the prompts in app.rs).                                                 *)
(*                                                                         *)
(* All lenses work alike, each on its own fields.  A behaviour is that of  *)
(* one of them, `lens'.  A row has the sort key of its column, and a text  *)
(* that the first `text' characters of the search match; a longer search   *)
(* matches less.  The sorts of a lens are reduced to two, by its column    *)
(* and by identity, which also breaks ties.                                *)
(***************************************************************************)
EXTENDS Integers, Sequences, FiniteSets, Absent

CONSTANTS Ids,        \* identities of rows
          SortKeys,   \* values of the sort column
          Lenses,     \* the lenses looked at
          MaxNeedle,  \* bound on the length of a filter
          Page        \* PAGE_SIZE

ASSUME ListBounds ==
  /\ Ids \subseteq Nat /\ IsFiniteSet(Ids) /\ None \notin Nat
  /\ SortKeys \subseteq Nat /\ MaxNeedle \in Nat /\ Page \in Nat \ {0}
  /\ Lenses \subseteq {"Micro", "Schema", "Index", "Query", "Progress", "Blocks",
                       "Replication", "Records"}

Sorts(l) == l \in {"Micro", "Schema", "Query", "Records"}
Filters(l) == l \in {"Micro", "Schema", "Index", "Query", "Progress", "Records"}
\* clamp_selection closes the panel of these when they empty.
Closes(l) == l \in {"Micro", "Schema", "Index", "Query", "Progress"}
Details(l) == Closes(l) \/ l \in {"Blocks", "Replication"}
Signals(l) == l \in {"Micro", "Blocks", "Progress"}

VARIABLES lens,
          rows,       \* of the snapshot on the screen, by identity
          mode,       \* the sort: "column" or "identity"
          leaves,     \* schema_show_partitions
          needle, needleSaved, typing,  \* the filter, and its editor
          order,      \* the display order, identities
          cursor,     \* the TableState: an index into order, None without
          panel,      \* detail_open
          prompt,     \* the row a prompt was opened for, None without one
          done        \* what the last key did to which row, None if nothing

filter == <<needle, needleSaved, typing>>
listVars == <<lens, rows, mode, leaves, filter, order, cursor, panel, prompt, done>>

RowOf(l) == [key : SortKeys, text : {0, MaxNeedle - 1},
             leaf : IF l = "Schema" THEN BOOLEAN ELSE {FALSE}]
AllRows(l) == UNION {[S -> RowOf(l)] : S \in SUBSET Ids}

\* resort_*: the rows that pass, in the order of the sort.
Passing(r, n, all) == {i \in DOMAIN r : n <= r[i].text /\ (all \/ ~r[i].leaf)}
Ahead(r, m, i, j) ==
  IF m = "column" /\ r[i].key # r[j].key THEN r[i].key > r[j].key ELSE i < j
Resorted(r, m, n, all) ==
  LET S == Passing(r, n, all)
      place(i) == 1 + Cardinality({j \in S \ {i} : Ahead(r, m, j, i)})
  IN  [p \in 1..Cardinality(S) |-> CHOOSE i \in S : place(i) = p]

\* clamp_selection.
ClampedTo(o, c) ==
  IF o = <<>> THEN None
  ELSE LET at == IF c = None THEN 1 ELSE c IN IF at > Len(o) THEN Len(o) ELSE at
Resort(r, m, n, all) == order' = Resorted(r, m, n, all)
\* Mutant: the rows are sorted after the cursor is put in bounds.
ClampBeforeSort ==
  /\ cursor' = ClampedTo(order, cursor)
  /\ panel' = (panel /\ ~(Closes(lens) /\ order = <<>>))

Clamp ==
  /\ cursor' = ClampedTo(order', cursor)
  /\ panel' = (panel /\ ~(Closes(lens) /\ order' = <<>>))

ListInit ==
  /\ lens \in Lenses /\ rows = [i \in {} |-> None]
  /\ mode = "column" /\ leaves = FALSE
  /\ needle = 0 /\ needleSaved = 0 /\ typing = FALSE
  /\ order = <<>> /\ cursor = None /\ panel = FALSE /\ prompt = None /\ done = None

\* apply_snapshot (for recordings refresh_records), whatever is open.
ReplaceRows(r) ==
  /\ rows' = r /\ Resort(r, mode, needle, leaves) /\ Clamp /\ done' = None
  /\ UNCHANGED <<lens, mode, leaves, filter, prompt>>

------------------------------------------------------------------------------
FreeKeys == prompt = None /\ ~typing

\* `s' sorts without a look at the cursor; `p' shows or hides partitions.
CycleSort ==
  /\ FreeKeys /\ Sorts(lens)
  /\ mode' = (IF mode = "column" THEN "identity" ELSE "column")
  /\ Resort(rows, mode', needle, leaves) /\ done' = None
  /\ UNCHANGED <<lens, rows, leaves, filter, cursor, panel, prompt>>
ToggleLeaves ==
  /\ FreeKeys /\ lens = "Schema" /\ leaves' = ~leaves
  /\ Resort(rows, mode, needle, leaves') /\ Clamp /\ done' = None
  /\ UNCHANGED <<lens, rows, mode, filter, prompt>>

\* move_state and move_selection_to.
Toward(d) ==
  IF order = <<>> THEN None
  ELSE LET from == IF cursor = None THEN 1 ELSE IF cursor > Len(order) THEN Len(order) ELSE cursor
       IN  IF from + d < 1 THEN 1 ELSE IF from + d > Len(order) THEN Len(order) ELSE from + d
MoveCursor ==
  /\ FreeKeys /\ done' = None
  /\ cursor' \in {Toward(d) : d \in {-1, 1, -Page, Page, -Cardinality(Ids), Cardinality(Ids)}}
  /\ UNCHANGED <<lens, rows, mode, leaves, filter, order, panel, prompt>>

\* The filter: `/', its editor, `\'.
Refilter(n) == needle' = n /\ Resort(rows, mode, n, leaves)
BeginFilter ==
  /\ FreeKeys /\ Filters(lens)
  /\ typing' = TRUE /\ needleSaved' = needle /\ done' = None
  /\ UNCHANGED <<lens, rows, mode, leaves, needle, order, cursor, panel, prompt>>
TypeFilter ==
  /\ typing /\ done' = None
  /\ \/ needle < MaxNeedle /\ Refilter(needle + 1)
     \/ Refilter(IF needle = 0 THEN 0 ELSE needle - 1)
  /\ Clamp /\ UNCHANGED <<lens, rows, mode, leaves, needleSaved, typing, prompt>>
KeepFilter ==
  /\ typing /\ typing' = FALSE /\ done' = None
  /\ UNCHANGED <<lens, rows, mode, leaves, needle, needleSaved, order, cursor, panel, prompt>>
RevertFilter ==
  /\ typing /\ typing' = FALSE /\ needleSaved' = 0 /\ done' = None
  /\ Refilter(needleSaved) /\ Clamp
  /\ UNCHANGED <<lens, rows, mode, leaves, prompt>>
DropFilter ==
  /\ FreeKeys /\ needle # 0 /\ Refilter(0) /\ Clamp /\ done' = None
  /\ UNCHANGED <<lens, rows, mode, leaves, needleSaved, typing, prompt>>

\* `x' and `i' arrive here from a table, with its name as the filter.
JumpHere(n) ==
  /\ FreeKeys /\ lens \in {"Index", "Query"}
  /\ Refilter(n) /\ needleSaved' = n /\ typing' = FALSE
  /\ cursor' = ClampedTo(order', 1) /\ panel' = FALSE /\ done' = None
  /\ UNCHANGED <<lens, rows, mode, leaves, prompt>>
\* Esc goes back from there: sorted again, but the cursor is left alone.
JumpBack ==
  /\ FreeKeys /\ lens = "Index" /\ ~panel /\ needle # 0 /\ Refilter(0) /\ done' = None
  /\ UNCHANGED <<lens, rows, mode, leaves, needleSaved, typing, cursor, panel, prompt>>

------------------------------------------------------------------------------
\* selected_*: the row a key acts on.
HasRow == cursor # None /\ cursor \in DOMAIN order
SelectedRow == order[cursor]

\* The table draws its rows in the display order and highlights one.
Highlighted == IF HasRow THEN order[cursor] ELSE None

Did(what, row) == done' = [what |-> what, row |-> row]

TogglePanel ==
  /\ FreeKeys /\ Details(lens) /\ done' = None
  /\ \/ panel /\ panel' = FALSE
     \/ ~panel /\ HasRow /\ panel' = TRUE
  /\ UNCHANGED <<lens, rows, mode, leaves, filter, order, cursor, prompt>>

CopyRow ==
  /\ FreeKeys /\ HasRow /\ lens # "Replication" /\ Did("copy", SelectedRow)
  /\ UNCHANGED <<lens, rows, mode, leaves, filter, order, cursor, panel, prompt>>

\* `c', `K' and, for recordings, `x' ask first, and say which row.
AskFirst ==
  /\ FreeKeys /\ HasRow /\ (Signals(lens) \/ lens = "Records")
  /\ prompt' = SelectedRow /\ done' = None
  /\ UNCHANGED <<lens, rows, mode, leaves, filter, order, cursor, panel>>
\* Mutant: the row acted on is looked up again.
AnswerYesSelected ==
  /\ prompt # None /\ prompt' = None /\ HasRow /\ Did("act", SelectedRow)
  /\ UNCHANGED <<lens, rows, mode, leaves, filter, order, cursor, panel>>
AnswerYes ==
  /\ prompt # None /\ prompt' = None /\ Did("act", prompt)
  /\ UNCHANGED <<lens, rows, mode, leaves, filter, order, cursor, panel>>
AnswerNo ==
  /\ prompt # None /\ prompt' = None /\ done' = None
  /\ UNCHANGED <<lens, rows, mode, leaves, filter, order, cursor, panel>>

ListNext ==
  \/ \E r \in AllRows(lens) : ReplaceRows(r)
  \/ CycleSort \/ ToggleLeaves \/ MoveCursor
  \/ BeginFilter \/ TypeFilter \/ KeepFilter \/ RevertFilter \/ DropFilter
  \/ (\E n \in 1..MaxNeedle : JumpHere(n)) \/ JumpBack
  \/ TogglePanel \/ CopyRow \/ AskFirst \/ AnswerYes \/ AnswerNo

ListSpec == ListInit /\ [][ListNext]_listVars

------------------------------------------------------------------------------
\* The order on the screen is that of the rows on the screen: every key and
\* every snapshot that changes the rows, the sort, the filter or the shown
\* partitions sorts again, and each passing row appears once.
OrderInStep ==
  /\ {order[p] : p \in DOMAIN order} = Passing(rows, needle, leaves)
  /\ \A p, q \in DOMAIN order : p < q =>
       order[p] # order[q] /\ Ahead(rows, mode, order[p], order[q])

\* The cursor never points past the rows shown, and a panel is never open
\* over a list that has none (on the lenses that close it); only after Esc
\* went back from the Index Lens may rows be shown with none selected.
CursorValid ==
  /\ cursor # None => cursor \in DOMAIN order
  /\ cursor = None /\ lens # "Index" => order = <<>>
  /\ panel /\ Closes(lens) => cursor # None

\* The list on the screen is the list the keys act on (resort_*,
\* clamp_selection).
ListSound == OrderInStep /\ CursorValid

\* What is copied is the row highlighted, and what is signalled or deleted is
\* the row the prompt names, one that was highlighted when the key was
\* pressed, however the rows have moved in between.
ActsOnWhatIsShown ==
  [][/\ prompt = None /\ prompt' # None => prompt' = Highlighted
     /\ done' # None /\ done'.what = "copy" => done'.row = Highlighted
     /\ done' # None /\ done'.what = "act" => done'.row = prompt]_listVars
=============================================================================
