------------------------------ MODULE SheetGrid -----------------------------
(***************************************************************************)
(* The grid like a spreadsheet in which numbers are entered:               *)
(* web/src/components/Sheet.tsx with web/src/lib/sheet.ts.  The grid knows *)
(* positions only; what stands there, which cells may be written and the   *)
(* order of the rows belong to its owner (ValuesPage.tsx) and may change   *)
(* between two events, also while a cell is being edited.  The months that *)
(* are the columns stay.                                                   *)
(*                                                                         *)
(* Positions count from 1.  Texts are members of Texts, already cleaned    *)
(* (cleanNumber, parseTable).  Left out: scrolling, the look of the cells, *)
(* undo and redo (module ValuesEditor).                                    *)
(***************************************************************************)
EXTENDS Integers, Sequences, FiniteSets

CONSTANTS
  RowKey,    \* what the rows are about: drivers, or lines of amounts
  ReadOnly,  \* the rows that are computed
  Cols,      \* the number of months
  Texts,     \* what a cell may hold
  Empty,     \* the empty text
  None,      \* no position, nothing being edited
  MaxEvents  \* bound on the events

ASSUME ColsAssumption == Cols \in Nat \ {0}
ASSUME RowAssumption == IsFiniteSet(RowKey) /\ RowKey # {} /\ ReadOnly \subseteq RowKey
ASSUME TextAssumption == Empty \in Texts
ASSUME NoneAssumption == None \notin [r : Int, c : Int]

VARIABLES
  rows,      \* the rows on screen, in their order
  entry,     \* whether the numbers of the version may be entered
  actual,    \* the last column of actualMonths, 0 when there is none
  values,    \* what rawValue returns
  anchor, focus,  \* the corners of the selection; focus is the active cell
  editing,   \* the text being edited and whether the caret is shown
  dragging,  \* the mouse button was pressed in the grid
  began,     \* history: the cell in which editing began
  disturbed, \* history: the focus or the grid moved while that cell was edited
  shrunk,    \* history: rows were taken away
  events     \* history: the number of events

view == <<anchor, focus, editing, dragging>>
history == <<began, disturbed, shrunk>>
vars == <<rows, entry, actual, values, view, history, events>>

Keys == RowKey \X (1..Cols)
Pos == [r : 1..Len(rows), c : 1..Cols]
At(r, c) == [r |-> r, c |-> c]

\* keyAt and isEditable.
HasKey(p) == p.r \in 1..Len(rows) /\ p.c \in 1..Cols
KeyAt(p) == <<rows[p.r], p.c>>
IsEditable(k) == entry /\ k[1] \notin ReadOnly /\ k[2] > actual

LeastOf(a, b) == IF a <= b THEN a ELSE b
GreatestOf(a, b) == IF a <= b THEN b ELSE a
RangeOf(a, b) ==
  [top |-> LeastOf(a.r, b.r), left |-> LeastOf(a.c, b.c),
   bottom |-> GreatestOf(a.r, b.r), right |-> GreatestOf(a.c, b.c)]
InRange(range, p) == p.r \in range.top..range.bottom /\ p.c \in range.left..range.right
Cells(range) == {At(r, c) : r \in range.top..range.bottom, c \in range.left..range.right}

\* Mutant: nothing stops at the first row or column.
ClampMutant(v, max) == LeastOf(max, v)

\* move: one step inside the grid, or to its edge.
Clamp(v, max) == GreatestOf(1, LeastOf(max, v))
Edge(v, d, max) == IF d = 0 THEN v ELSE IF d < 0 THEN 1 ELSE max
Move(p, dr, dc, toEdge) ==
  IF toEdge THEN At(Edge(p.r, dr, Len(rows)), Edge(p.c, dc, Cols))
  ELSE At(Clamp(p.r + dr, Len(rows)), Clamp(p.c + dc, Cols))

\* rawValue at a position, the empty text outside the grid.
Raw(p) == IF HasKey(p) THEN values[KeyAt(p)] ELSE Empty

\* pasteCells: one text fills the selection; a block starts at its top left
\* corner and is cut off at the edge of the grid.
PasteCells(range, block) ==
  IF Len(block) = 1 /\ Len(block[1]) = 1
  THEN [p \in Cells(range) |-> block[1][1]]
  ELSE LET height == Len(block)
           width == Len(block[1])
           target == {p \in Pos : p.r \in range.top..(range.top + height - 1)
                                    /\ p.c \in range.left..(range.left + width - 1)}
       IN  [p \in target |-> block[p.r - range.top + 1][p.c - range.left + 1]]

\* fillCells: the first row, or the first column, over the rest of the range.
FillCells(range, down) ==
  LET target == {p \in Cells(range) : IF down THEN p.r > range.top ELSE p.c > range.left}
  IN  [p \in target |-> Raw(IF down THEN At(range.top, p.c) ELSE At(p.r, range.left))]

\* Mutant: computed and closed cells are written too.
ApplyMutant(cells) ==
  values' = [k \in Keys |->
    LET ps == {p \in DOMAIN cells : HasKey(p) /\ KeyAt(p) = k}
    IN  IF ps # {} THEN cells[CHOOSE p \in ps : TRUE] ELSE values[k]]

\* apply: only cells that exist and may be written.
Apply(cells) ==
  values' = [k \in Keys |->
    LET ps == {p \in DOMAIN cells : HasKey(p) /\ KeyAt(p) = k}
    IN  IF ps # {} /\ IsEditable(k) THEN cells[CHOOSE p \in ps : TRUE] ELSE values[k]]

\* commit: to the cell that is active now; nothing checks that it may be written.
CommitAt(p) ==
  values' = IF editing # None /\ HasKey(p)
            THEN [values EXCEPT ![KeyAt(p)] = editing.value] ELSE values

-----------------------------------------------------------------------------
NoEdit == [value |-> Empty, caret |-> FALSE]
Edits == [value : Texts, caret : BOOLEAN]

Init ==
  /\ rows \in {s \in [1..Cardinality(RowKey) -> RowKey] :
                 \A i, j \in DOMAIN s : s[i] = s[j] => i = j}
  /\ entry \in BOOLEAN /\ actual \in 0..Cols
  /\ values = [k \in Keys |-> Empty]
  /\ anchor = None /\ focus = None /\ editing = None /\ dragging = FALSE
  /\ began = None /\ disturbed = FALSE /\ shrunk = FALSE /\ events = 0

Event == events < MaxEvents /\ events' = events + 1
KeepGrid == UNCHANGED <<rows, entry, actual, shrunk>>
KeepHistory == KeepGrid /\ UNCHANGED <<began, disturbed>>
Selecting == editing = None /\ focus # None
Selected == RangeOf(anchor, focus)

\* select: without Shift the selection starts anew.
Select(p, extend) ==
  /\ anchor' = IF ~extend \/ anchor = None THEN p ELSE anchor
  /\ focus' = p

-----------------------------------------------------------------------------
\* The mouse.

\* onMouseDown; a press in the cell being edited belongs to its input field.
MouseDown(p, shift) ==
  /\ Event /\ ~(editing # None /\ focus = p)
  /\ CommitAt(focus)
  /\ editing' = None /\ dragging' = TRUE
  /\ Select(p, shift)
  /\ KeepHistory

\* onMouseEnter: the active cell follows the mouse, and with it the field.
MouseEnter(p) ==
  /\ Event /\ dragging
  /\ focus' = p
  /\ disturbed' = (disturbed \/ (editing # None /\ p # focus))
  /\ KeepGrid /\ UNCHANGED <<values, anchor, editing, dragging, began>>

MouseUp ==
  /\ Event /\ dragging /\ dragging' = FALSE
  /\ KeepHistory /\ UNCHANGED <<values, anchor, focus, editing>>

-----------------------------------------------------------------------------
\* The keyboard, while no cell is edited (onKeyDown).

\* startEdit: F2, Enter and a double click show the old text, a typed
\* character replaces it.
StartEdit(text, caret) ==
  /\ Event /\ focus # None /\ HasKey(focus) /\ IsEditable(KeyAt(focus))
  /\ editing' = [value |-> text, caret |-> caret]
  /\ began' = KeyAt(focus) /\ disturbed' = FALSE
  /\ KeepGrid /\ UNCHANGED <<values, anchor, focus, dragging>>
OpenCell == Selecting /\ StartEdit(Raw(focus), TRUE)
TypeOver(x) == Selecting /\ StartEdit(x, FALSE)

\* onDoubleClick also fires inside the field that is already open.
DoubleClickInside == editing # None /\ StartEdit(Raw(focus), TRUE)

Arrow(dr, dc, shift, mod) ==
  /\ Event /\ Selecting
  /\ LET next == Move(focus, dr, dc, mod)
     IN  IF shift THEN focus' = next /\ UNCHANGED anchor ELSE Select(next, FALSE)
  /\ KeepHistory /\ UNCHANGED <<values, editing, dragging>>

\* At the edge the Tab key leaves the grid.
TabKey(dc) ==
  /\ Event /\ Selecting
  /\ Move(focus, 0, dc, FALSE).c # focus.c
  /\ Select(Move(focus, 0, dc, FALSE), FALSE)
  /\ KeepHistory /\ UNCHANGED <<values, editing, dragging>>

Escape ==
  /\ Event /\ Selecting /\ anchor' = focus
  /\ KeepHistory /\ UNCHANGED <<values, focus, editing, dragging>>

SelectAll ==
  /\ Event /\ Selecting
  /\ anchor' = At(1, 1) /\ focus' = At(Len(rows), Cols)
  /\ KeepHistory /\ UNCHANGED <<values, editing, dragging>>

\* Delete, Backspace and Cut.
Clear ==
  /\ Event /\ Selecting
  /\ Apply([p \in Cells(Selected) |-> Empty])
  /\ KeepHistory /\ UNCHANGED view

Fill(down) ==
  /\ Event /\ Selecting
  /\ Apply(FillCells(Selected, down))
  /\ KeepHistory /\ UNCHANGED view

\* onPaste: what was pasted is selected.
Paste(block) ==
  LET cells == PasteCells(Selected, block)
      ps == DOMAIN cells
  IN  /\ Event /\ Selecting /\ ps # {}
      /\ Apply(cells)
      /\ anchor' = CHOOSE p \in ps : \A q \in ps : p.r <= q.r /\ p.c <= q.c
      /\ focus' = CHOOSE p \in ps : \A q \in ps : p.r >= q.r /\ p.c >= q.c
      /\ KeepHistory /\ UNCHANGED <<editing, dragging>>

-----------------------------------------------------------------------------
\* The field of the cell being edited.

EditorChange(x) ==
  /\ Event /\ editing # None
  /\ editing' = [editing EXCEPT !.value = x]
  /\ KeepHistory /\ UNCHANGED <<values, anchor, focus, dragging>>

\* Mutant: the cell is left, the field stays open.
EditorGoMutant(dr, dc) ==
  /\ Event /\ editing # None
  /\ CommitAt(focus)
  /\ Select(Move(focus, dr, dc, FALSE), FALSE)
  /\ KeepHistory /\ UNCHANGED <<editing, dragging>>

\* Enter and Tab, and the arrows while the text replaces the old one: commit, then move.
EditorGo(dr, dc) ==
  /\ Event /\ editing # None
  /\ CommitAt(focus)
  /\ editing' = None
  /\ Select(Move(focus, dr, dc, FALSE), FALSE)
  /\ KeepHistory /\ UNCHANGED dragging

EditorEscape ==
  /\ Event /\ editing # None /\ editing' = None
  /\ KeepHistory /\ UNCHANGED <<values, anchor, focus, dragging>>

\* onBlur of the field and of the grid.
Blur ==
  /\ Event /\ editing # None
  /\ CommitAt(focus) /\ editing' = None
  /\ KeepHistory /\ UNCHANGED <<anchor, focus, dragging>>

-----------------------------------------------------------------------------
\* The owner of the grid.

\* moveDriver, and the reading after it.
SwapRows(i, j) ==
  /\ Event /\ rows' = [rows EXCEPT ![i] = rows[j], ![j] = rows[i]]
  /\ disturbed' = TRUE
  /\ UNCHANGED <<entry, actual, values, view, began, shrunk>>

\* A driver or a line was deleted elsewhere.
DropRow ==
  /\ Event /\ Len(rows) > 1
  /\ rows' = SubSeq(rows, 1, Len(rows) - 1)
  /\ disturbed' = TRUE /\ shrunk' = TRUE
  /\ UNCHANGED <<entry, actual, values, view, began>>

\* The version is locked, or is no longer the one of the staff.
CloseEntry ==
  /\ Event /\ entry /\ entry' = FALSE
  /\ disturbed' = TRUE
  /\ UNCHANGED <<rows, actual, values, view, began, shrunk>>

\* The last month of actuals of the version is another one at the next reading.
MoveBoundary(last) ==
  /\ Event /\ actual # last /\ actual' = last
  /\ disturbed' = TRUE
  /\ UNCHANGED <<rows, entry, values, view, began, shrunk>>

Steps == {<<-1, 0>>, <<1, 0>>, <<0, -1>>, <<0, 1>>}
Blocks == {<<<<x>>>> : x \in Texts} \union {<<<<x, y>>, <<y, x>>>> : x, y \in Texts}

Next ==
  \/ \E p \in Pos : MouseEnter(p) \/ \E shift \in BOOLEAN : MouseDown(p, shift)
  \/ MouseUp \/ OpenCell \/ DoubleClickInside \/ Escape \/ SelectAll \/ Clear
  \/ \E x \in Texts : TypeOver(x) \/ EditorChange(x)
  \/ \E s \in Steps : EditorGo(s[1], s[2]) \/ \E shift, mod \in BOOLEAN : Arrow(s[1], s[2], shift, mod)
  \/ \E dc \in {-1, 1} : TabKey(dc)
  \/ \E down \in BOOLEAN : Fill(down)
  \/ \E block \in Blocks : Paste(block)
  \/ EditorEscape \/ Blur
  \/ \E i, j \in 1..Len(rows) : i < j /\ SwapRows(i, j)
  \/ DropRow \/ CloseEntry \/ \E last \in 0..Cols : MoveBoundary(last)
Spec == Init /\ [][Next]_vars

-----------------------------------------------------------------------------
TypeOK ==
  /\ rows \in Seq(RowKey) /\ rows # <<>> /\ entry \in BOOLEAN /\ actual \in 0..Cols
  /\ values \in [Keys -> Texts]
  /\ editing \in Edits \union {None}
  /\ dragging \in BOOLEAN /\ disturbed \in BOOLEAN /\ shrunk \in BOOLEAN
  /\ began \in Keys \union {None}
  /\ (anchor = None) <=> (focus = None)
  /\ editing # None => focus # None

\* Every variable has its type, a selection has two ends, and there is no
\* field without one.  Keys, mouse and clipboard never lead the selection out
\* of the grid, at any edge and after any block that was pasted; only rows that
\* are taken away leave it outside (move, pasteCells, Ctrl+A in Sheet.tsx).
SelectionInGrid ==
  /\ TypeOK
  /\ (~shrunk /\ focus # None) => (anchor \in Pos /\ focus \in Pos)

\* What is typed goes to the cell in which typing began: if neither the mouse
\* nor the owner of the grid interferes, the active cell is still that cell,
\* however the field is left (commit takes the position of the focus).
FieldIsWhereEditingBegan ==
  (editing # None /\ ~disturbed) => HasKey(focus) /\ KeyAt(focus) = began

\* No key, paste, fill or cut writes a computed row, a month of actuals, or
\* anything once the numbers are closed, and neither does a field in which
\* typing was not interfered with (apply filters, startEdit asks).  A field
\* that was is written as it is left, for commit asks nothing: even then only
\* the active cell changes, to the text of the field.
WritesEditable ==
  \A k \in Keys : values'[k] # values[k] =>
    \/ IsEditable(k)
    \/ /\ disturbed /\ editing # None /\ editing' = None
       /\ HasKey(focus) /\ k = KeyAt(focus) /\ values'[k] = editing.value
OnlyEditableIsWritten == [][WritesEditable]_vars
=============================================================================
