-------------------------- MODULE SheetGridProofs ---------------------------
(***************************************************************************)
(* Theorems about SheetGrid, for any rows, columns, texts and any number   *)
(* of events.                                                              *)
(*                                                                         *)
(* The code writes what was typed to the cell that is active when the      *)
(* field is left, without asking again whether it may be written.  That    *)
(* this is the cell in which typing began, and that it could be written    *)
(* then, has to be carried through every event in between (FieldOK).       *)
(*                                                                         *)
(* The selection is kept in the grid by the code of each key and of the    *)
(* mouse apart; SelectionOK also covers the corners that a row taken away  *)
(* leaves behind, which are cells of no grid but still counted from one.   *)
(***************************************************************************)
EXTENDS SheetGrid, FiniteSetTheorems, SequenceTheorems, TLAPS

FieldOK ==
  editing # None /\ ~disturbed => /\ HasKey(focus) /\ KeyAt(focus) = began
                                  /\ IsEditable(began)

GridInv == values = [k \in Keys |-> values[k]] /\ FieldOK

\* What a paste, a fill or a cut leaves is a number for every cell, and only
\* cells that may be written have changed (apply in Sheet.tsx).
LEMMA ApplyWrites ==
  ASSUME NEW cells, Apply(cells)
  PROVE  /\ values' = [k \in Keys |-> values'[k]]
         /\ \A k \in Keys : values'[k] # values[k] => IsEditable(k)
  BY DEF Apply

\* Leaving a field changes no cell but the active one (commitAt in Sheet.tsx).
LEMMA CommitWrites ==
  ASSUME values = [k \in Keys |-> values[k]], CommitAt(focus)
  PROVE  /\ values' = [k \in Keys |-> values'[k]]
         /\ \A k \in Keys : values'[k] # values[k]
              => /\ editing # None /\ HasKey(focus) /\ k = KeyAt(focus)
                 /\ values'[k] = editing.value
<1>1. CASE editing # None /\ HasKey(focus)
  <2> DEFINE new == [values EXCEPT ![KeyAt(focus)] = editing.value]
  <2>1. values' = new
    BY <1>1 DEF CommitAt
  <2>2. DOMAIN values = Keys
    OBVIOUS
  <2>3. DOMAIN new = Keys /\ new = [k \in Keys |-> new[k]]
    BY <2>2
  <2>4. \A k \in Keys : k # KeyAt(focus) => new[k] = values[k]
    BY <2>2
  <2> QED
    BY <1>1, <2>1, <2>3, <2>4
<1>2. CASE ~(editing # None /\ HasKey(focus))
  BY <1>2 DEF CommitAt
<1> QED
  BY <1>1, <1>2

THEOREM GridInit == Init => GridInv
  BY DEF Init, GridInv, FieldOK

\* An event that ends the editing of a cell with a commit.
LEMMA Committed ==
  ASSUME GridInv, CommitAt(focus), editing' = None
  PROVE  GridInv' /\ WritesEditable
<1>1. values' = [k \in Keys |-> values'[k]]
  BY CommitWrites DEF GridInv
<1>2. FieldOK'
  BY DEF FieldOK
<1>3. ASSUME NEW k \in Keys, values'[k] # values[k]
      PROVE  \/ IsEditable(k)
             \/ /\ disturbed /\ editing # None /\ editing' = None
                /\ HasKey(focus) /\ k = KeyAt(focus) /\ values'[k] = editing.value
  BY <1>3, CommitWrites DEF GridInv, FieldOK
<1> QED
  BY <1>1, <1>2, <1>3 DEF GridInv, WritesEditable

\* An event of a selection that writes through apply.
LEMMA Applied ==
  ASSUME GridInv, NEW cells, Apply(cells), editing = None, editing' = None
  PROVE  GridInv' /\ WritesEditable
  BY ApplyWrites DEF GridInv, FieldOK, WritesEditable

\* An event that writes nothing.
LEMMA Unwritten ==
  ASSUME GridInv, UNCHANGED values, FieldOK'
  PROVE  GridInv' /\ WritesEditable
  BY DEF GridInv, WritesEditable, Keys

LEMMA StartEditStep ==
  ASSUME GridInv, NEW text, NEW caret, StartEdit(text, caret)
  PROVE  GridInv' /\ WritesEditable
<1>1. FieldOK'
  BY DEF StartEdit, KeepGrid, FieldOK, HasKey, KeyAt, IsEditable
<1> QED
  BY <1>1, Unwritten DEF StartEdit

THEOREM GridStep == GridInv /\ [Next]_vars => GridInv' /\ WritesEditable
<1> SUFFICES ASSUME GridInv, [Next]_vars PROVE GridInv' /\ WritesEditable
  OBVIOUS
<1> USE DEF KeepHistory, KeepGrid, Selecting, view
\* The mouse.
<1>1. ASSUME NEW p \in Pos, MouseEnter(p) PROVE GridInv' /\ WritesEditable
  <2>1. FieldOK'
    BY <1>1 DEF GridInv, MouseEnter, FieldOK, HasKey, KeyAt, IsEditable
  <2> QED
    BY <1>1, <2>1, Unwritten DEF MouseEnter
<1>2. ASSUME NEW p \in Pos, NEW shift \in BOOLEAN, MouseDown(p, shift) PROVE GridInv' /\ WritesEditable
  BY <1>2, Committed DEF MouseDown
<1>3. CASE MouseUp
  <2>1. FieldOK'
    BY <1>3 DEF GridInv, MouseUp, FieldOK, HasKey, KeyAt, IsEditable
  <2> QED
    BY <1>3, <2>1, Unwritten DEF MouseUp
<1>4. CASE DoubleClickInside
  BY <1>4, StartEditStep DEF DoubleClickInside
\* The selection.
<1>5. CASE OpenCell
  BY <1>5, StartEditStep DEF OpenCell
<1>6. ASSUME NEW x \in Texts, TypeOver(x) PROVE GridInv' /\ WritesEditable
  BY <1>6, StartEditStep DEF TypeOver
<1>7. CASE \/ Escape \/ SelectAll
           \/ \E s \in Steps, shift, mod \in BOOLEAN : Arrow(s[1], s[2], shift, mod)
           \/ \E dc \in {-1, 1} : TabKey(dc)
  <2>1. FieldOK' /\ UNCHANGED values
    BY <1>7 DEF Escape, SelectAll, Arrow, TabKey, FieldOK
  <2> QED
    BY <2>1, Unwritten
<1>8. CASE Clear
  BY <1>8, Applied DEF Clear
<1>9. ASSUME NEW down \in BOOLEAN, Fill(down) PROVE GridInv' /\ WritesEditable
  BY <1>9, Applied DEF Fill
<1>10. ASSUME NEW block \in Blocks, Paste(block) PROVE GridInv' /\ WritesEditable
  BY <1>10, Applied DEF Paste
\* The field.
<1>11. ASSUME NEW x \in Texts, EditorChange(x) PROVE GridInv' /\ WritesEditable
  <2>1. FieldOK'
    BY <1>11 DEF GridInv, EditorChange, FieldOK, HasKey, KeyAt, IsEditable
  <2> QED
    BY <1>11, <2>1, Unwritten DEF EditorChange
<1>12. ASSUME NEW s \in Steps, EditorGo(s[1], s[2]) PROVE GridInv' /\ WritesEditable
  BY <1>12, Committed DEF EditorGo
<1>13. CASE EditorEscape
  <2>1. FieldOK'
    BY <1>13 DEF EditorEscape, FieldOK
  <2> QED
    BY <1>13, <2>1, Unwritten DEF EditorEscape
<1>14. CASE Blur
  BY <1>14, Committed DEF Blur
\* The owner of the grid.
<1>15. CASE \/ \E i, j \in 1..Len(rows) : SwapRows(i, j)
            \/ DropRow \/ CloseEntry \/ \E last \in 0..Cols : MoveBoundary(last)
  <2>1. disturbed' /\ UNCHANGED values
    BY <1>15 DEF SwapRows, DropRow, CloseEntry, MoveBoundary
  <2>2. FieldOK'
    BY <2>1 DEF FieldOK
  <2> QED
    BY <2>1, <2>2, Unwritten
<1>16. CASE UNCHANGED vars
  <2>1. FieldOK' /\ UNCHANGED values
    BY <1>16 DEF vars, history, GridInv, FieldOK, HasKey, KeyAt, IsEditable
  <2> QED
    BY <2>1, Unwritten
<1> QED
  BY <1>1, <1>2, <1>3, <1>4, <1>5, <1>6, <1>7, <1>8, <1>9, <1>10, <1>11, <1>12,
     <1>13, <1>14, <1>15, <1>16 DEF Next

\* A field is left in the cell in which typing began, however many events come
\* before, if neither the mouse nor the owner of the grid interfered
\* (FieldIsWhereEditingBegan of SheetGrid).
THEOREM FieldStays == Spec => []FieldIsWhereEditingBegan
<1>1. GridInv => FieldIsWhereEditingBegan
  BY DEF GridInv, FieldOK, FieldIsWhereEditingBegan
<1> QED
  BY GridInit, GridStep, <1>1, PTL DEF Spec

\* Computed rows, months of actuals and closed numbers are written by no key,
\* paste, fill or cut, and by no field but one that was open while the mouse or
\* the owner of the grid interfered, which writes the active cell
\* (OnlyEditableIsWritten of SheetGrid).
THEOREM ComputedRowsStay == Spec => OnlyEditableIsWritten
<1>1. GridInv /\ [Next]_vars => GridInv' /\ [WritesEditable]_vars
  BY GridStep
<1> QED
  BY GridInit, <1>1, PTL DEF Spec, OnlyEditableIsWritten

-----------------------------------------------------------------------------
\* The selection.  Its corners are cells once a row that they were in is taken
\* away, too, only no longer of this grid.

Corner == [r : Nat \ {0}, c : 1..Cols]
SelectionOK ==
  /\ dragging => focus # None
  /\ focus # None => /\ anchor \in Corner /\ focus \in Corner
                     /\ ~shrunk => anchor \in Pos /\ focus \in Pos
SelInv == TypeOK /\ SelectionOK

LEMMA PosAreCorners ==
  ASSUME rows \in Seq(RowKey)
  PROVE  Len(rows) \in Nat /\ Pos \subseteq Corner /\ None \notin Corner
  BY NoneAssumption, ColsAssumption DEF Pos, Corner

\* A step from a cell stays in the grid, and a jump does if the cell is in it
\* (move in sheet.ts).
LEMMA MoveStays ==
  ASSUME rows \in Seq(RowKey), rows # <<>>, NEW p \in Corner,
         NEW dr \in {-1, 0, 1}, NEW dc \in {-1, 0, 1}, NEW toEdge \in BOOLEAN
  PROVE  /\ Move(p, dr, dc, toEdge) \in Corner
         /\ p \in Pos \/ ~toEdge => Move(p, dr, dc, toEdge) \in Pos
<1>1. Len(rows) \in Nat \ {0} /\ Cols \in Nat \ {0}
  BY ColsAssumption
<1>2. \A v \in Int, max \in Nat \ {0} : Clamp(v, max) \in 1..max
  BY DEF Clamp, GreatestOf, LeastOf
<1>3. \A v \in Nat \ {0}, d \in {-1, 0, 1}, max \in Nat \ {0} :
         /\ Edge(v, d, max) \in Nat \ {0}
         /\ v \in 1..max => Edge(v, d, max) \in 1..max
  BY DEF Edge
<1>4. p.r \in Nat \ {0} /\ p.c \in 1..Cols /\ (p \in Pos => p.r \in 1..Len(rows))
  BY DEF Corner, Pos
<1>5. CASE toEdge
  <2> DEFINE er == Edge(p.r, dr, Len(rows))
             ec == Edge(p.c, dc, Cols)
  <2>1. er \in Nat \ {0} /\ (p.r \in 1..Len(rows) => er \in 1..Len(rows))
    BY <1>1, <1>3, <1>4
  <2>2. ec \in 1..Cols
    <3>1. p.c \in Nat \ {0}
      BY <1>1, <1>4
    <3> QED
      BY <1>1, <1>3, <1>4, <3>1
  <2>3. Move(p, dr, dc, toEdge) = [r |-> er, c |-> ec]
    BY <1>5 DEF Move, At
  <2> HIDE DEF er, ec
  <2>4. Move(p, dr, dc, toEdge) \in Corner
    BY <2>1, <2>2, <2>3 DEF Corner
  <2>5. p \in Pos => Move(p, dr, dc, toEdge) \in Pos
    BY <1>4, <2>1, <2>2, <2>3 DEF Pos
  <2> QED
    BY <1>5, <2>4, <2>5
<1>6. CASE ~toEdge
  <2> DEFINE cr == Clamp(p.r + dr, Len(rows))
             cc == Clamp(p.c + dc, Cols)
  <2>1. cr \in 1..Len(rows) /\ cc \in 1..Cols
    <3>1. p.r + dr \in Int /\ p.c + dc \in Int
      BY <1>1, <1>4
    <3> QED
      BY <1>1, <1>2, <3>1
  <2>2. Move(p, dr, dc, toEdge) = [r |-> cr, c |-> cc]
    BY <1>6 DEF Move, At
  <2> HIDE DEF cr, cc
  <2> QED
    BY <1>1, <1>6, <2>1, <2>2 DEF Corner, Pos
<1> QED
  BY <1>5, <1>6

\* The cells of a selection lie between its corners.
LEMMA RangeCells ==
  ASSUME rows \in Seq(RowKey), anchor \in Corner, focus \in Corner
  PROVE  /\ Selected.top \in Nat \ {0} /\ Selected.left \in 1..Cols
         /\ Selected.bottom \in Nat \ {0} /\ Selected.right \in 1..Cols
         /\ Selected.top <= Selected.bottom /\ Selected.left <= Selected.right
         /\ Cells(Selected) \subseteq Corner
         /\ anchor \in Pos /\ focus \in Pos => Cells(Selected) \subseteq Pos
<1>1. /\ Selected.top \in Nat \ {0} /\ Selected.left \in 1..Cols
      /\ Selected.bottom \in Nat \ {0} /\ Selected.right \in 1..Cols
      /\ Selected.top <= Selected.bottom /\ Selected.left <= Selected.right
      /\ anchor \in Pos /\ focus \in Pos => Selected.bottom \in 1..Len(rows)
  BY ColsAssumption DEF Selected, RangeOf, LeastOf, GreatestOf, Corner, Pos
<1>2. ASSUME NEW p \in Cells(Selected)
      PROVE  p \in Corner /\ (Selected.bottom \in 1..Len(rows) => p \in Pos)
  <2>1. PICK r \in Selected.top..Selected.bottom, c \in Selected.left..Selected.right : p = At(r, c)
    BY DEF Cells
  <2>2. r \in Nat \ {0} /\ c \in 1..Cols
    BY <1>1, ColsAssumption
  <2>3. Selected.bottom \in 1..Len(rows) => r \in 1..Len(rows)
    BY <1>1
  <2> QED
    BY <2>1, <2>2, <2>3 DEF At, Corner, Pos
<1> QED
  BY <1>1, <1>2

\* What is pasted covers a rectangle, whose first and last cell become the
\* selection, and every cell of it gets a text (pasteCells in sheet.ts).
LEMMA PasteIsRectangle ==
  ASSUME rows \in Seq(RowKey), anchor \in Corner, focus \in Corner, NEW block \in Blocks,
         DOMAIN PasteCells(Selected, block) # {}
  PROVE  LET cells == PasteCells(Selected, block)
             ps == DOMAIN cells
         IN  /\ \A p \in ps : cells[p] \in Texts
             /\ ps \subseteq Corner
             /\ anchor \in Pos /\ focus \in Pos => ps \subseteq Pos
             /\ \E p \in ps : \A q \in ps : p.r <= q.r /\ p.c <= q.c
             /\ \E p \in ps : \A q \in ps : p.r >= q.r /\ p.c >= q.c
<1> DEFINE top == Selected.top
           left == Selected.left
           bottom == Selected.bottom
           right == Selected.right
<1>r. /\ top \in Nat \ {0} /\ left \in 1..Cols
      /\ bottom \in Nat \ {0} /\ right \in 1..Cols
      /\ top <= bottom /\ left <= right
      /\ Cells(Selected) \subseteq Corner
      /\ anchor \in Pos /\ focus \in Pos => Cells(Selected) \subseteq Pos
  BY RangeCells
<1>1. CASE \E x \in Texts : block = <<<<x>>>>
  <2>1. PICK x \in Texts : block = <<<<x>>>>
    BY <1>1
  <2>2. PasteCells(Selected, block) = [p \in Cells(Selected) |-> x]
    BY <2>1 DEF PasteCells
  <2>3. At(top, left) \in Cells(Selected) /\ At(bottom, right) \in Cells(Selected)
    BY <1>r, ColsAssumption DEF Cells
  <2>4. \A q \in Cells(Selected) : q.r \in top..bottom /\ q.c \in left..right
    BY DEF Cells, At
  <2>5. \A q \in Cells(Selected) : /\ At(top, left).r <= q.r /\ At(top, left).c <= q.c
                                /\ At(bottom, right).r >= q.r /\ At(bottom, right).c >= q.c
    BY <1>r, <2>4, ColsAssumption DEF At
  <2> QED
    BY <1>r, <2>2, <2>3, <2>5
<1>2. CASE \E x, y \in Texts : block = <<<<x, y>>, <<y, x>>>>
  <2>1. PICK x \in Texts, y \in Texts : block = <<<<x, y>>, <<y, x>>>>
    BY <1>2
  <2> DEFINE ps == {p \in Pos : p.r \in top..(top + 2 - 1) /\ p.c \in left..(left + 2 - 1)}
  <2>2. PasteCells(Selected, block) = [p \in ps |-> block[p.r - top + 1][p.c - left + 1]]
    BY <2>1 DEF PasteCells
  <2>3. ASSUME NEW p \in ps PROVE block[p.r - top + 1][p.c - left + 1] \in Texts
    <3> HIDE DEF top, left
    <3>1. top \in Int /\ left \in Int
      BY <1>r, ColsAssumption
    <3>2. p.r \in top..(top + 2 - 1) /\ p.c \in left..(left + 2 - 1)
      OBVIOUS
    <3>3. p.r - top + 1 \in {1, 2} /\ p.c - left + 1 \in {1, 2}
      BY <3>1, <3>2
    <3> QED
      BY <2>1, <3>3
  <2>4. PICK o \in ps : TRUE
    BY <2>2
  <2>5. Len(rows) \in Nat /\ top <= Len(rows) /\ left <= Cols /\ Len(rows) \in Nat \ {0}
    BY <1>r, <2>4, ColsAssumption DEF Pos
  <2> DEFINE last == At(LeastOf(top + 1, Len(rows)), LeastOf(left + 1, Cols))
  <2>6. At(top, left) \in ps /\ last \in ps
    BY <1>r, <2>5, ColsAssumption DEF At, Pos, LeastOf
  <2>7. \A q \in ps : /\ At(top, left).r <= q.r /\ At(top, left).c <= q.c
                      /\ last.r >= q.r /\ last.c >= q.c
    BY <1>r, <2>5, ColsAssumption DEF At, Pos, LeastOf
  <2>8. ps \subseteq Corner
    BY PosAreCorners
  <2> QED
    BY <2>2, <2>3, <2>6, <2>7, <2>8
<1> QED
  BY <1>1, <1>2 DEF Blocks

LEMMA SelInit == Init => SelInv
<1> SUFFICES ASSUME Init PROVE SelInv
  OBVIOUS
<1>1. Cardinality(RowKey) \in Nat \ {0}
  BY RowAssumption, FS_CardinalityType, FS_EmptySet
<1>2. rows \in Seq(RowKey) /\ rows # <<>>
  BY <1>1 DEF Init
<1>3. values \in [Keys -> Texts]
  BY TextAssumption DEF Init
<1> QED
  BY <1>2, <1>3 DEF Init, SelInv, TypeOK, SelectionOK

LEMMA RawIsText ==
  ASSUME TypeOK, NEW p
  PROVE  Raw(p) \in Texts
<1>1. CASE HasKey(p)
  <2>1. KeyAt(p) \in Keys
    BY <1>1 DEF TypeOK, HasKey, KeyAt, Keys
  <2> QED
    BY <1>1, <2>1 DEF Raw, TypeOK
<1>2. CASE ~HasKey(p)
  BY <1>2, TextAssumption DEF Raw
<1> QED
  BY <1>1, <1>2

LEMMA CommitType ==
  ASSUME TypeOK, CommitAt(focus)
  PROVE  values' \in [Keys -> Texts]
  BY DEF TypeOK, CommitAt, Edits

LEMMA ApplyType ==
  ASSUME TypeOK, NEW cells, \A p \in DOMAIN cells : cells[p] \in Texts, Apply(cells)
  PROVE  values' \in [Keys -> Texts]
<1>1. ASSUME NEW k \in Keys PROVE values'[k] \in Texts
  <2> DEFINE ps == {p \in DOMAIN cells : HasKey(p) /\ KeyAt(p) = k}
  <2>1. values'[k] = IF ps # {} /\ IsEditable(k) THEN cells[CHOOSE p \in ps : TRUE] ELSE values[k]
    BY DEF Apply
  <2>2. values[k] \in Texts
    BY DEF TypeOK
  <2>3. CASE ps # {}
    <3>1. (CHOOSE p \in ps : TRUE) \in ps
      BY <2>3
    <3> QED
      BY <2>1, <2>2, <3>1
  <2> QED
    BY <2>1, <2>2, <2>3
<1>2. values' = [k \in Keys |-> values'[k]]
  BY DEF Apply
<1> QED
  BY <1>1, <1>2

\* What is left to show of an event that leaves the rows alone.
LEMMA SelKept ==
  ASSUME SelInv, KeepHistory, values' \in [Keys -> Texts], editing' \in Edits \union {None},
         dragging' \in BOOLEAN, focus # None => focus' # None,
         \/ UNCHANGED <<anchor, focus>>
         \/ /\ anchor' \in Corner /\ focus' \in Corner
            /\ ~shrunk => anchor' \in Pos /\ focus' \in Pos,
         dragging' => dragging \/ focus' # None, editing' # None => editing # None \/ focus' # None
  PROVE  SelInv'
<1>1. Pos' = Pos
  BY DEF KeepHistory, KeepGrid, Pos
<1>2. None \notin Corner
  BY NoneAssumption, ColsAssumption DEF Corner
<1>3. TypeOK'
  BY <1>2 DEF SelInv, TypeOK, SelectionOK, KeepHistory, KeepGrid, Keys
<1>4. SelectionOK'
  BY <1>1, <1>2 DEF SelInv, TypeOK, SelectionOK, KeepHistory, KeepGrid
<1> QED
  BY <1>3, <1>4 DEF SelInv

\* A selection, while there is one.
LEMMA Corners ==
  ASSUME SelInv, focus # None
  PROVE  /\ anchor \in Corner /\ focus \in Corner /\ anchor # None
         /\ ~shrunk => anchor \in Pos /\ focus \in Pos
  BY DEF SelInv, SelectionOK, TypeOK

LEMMA MouseSel ==
  ASSUME SelInv,
         \/ \E p \in Pos : MouseEnter(p) \/ \E shift \in BOOLEAN : MouseDown(p, shift)
         \/ MouseUp
  PROVE  SelInv'
<1>p. rows \in Seq(RowKey) /\ Pos \subseteq Corner /\ None \notin Corner
  BY PosAreCorners DEF SelInv, TypeOK
<1>1. ASSUME NEW p \in Pos, MouseEnter(p) PROVE SelInv'
  <2>1. focus # None
    BY <1>1 DEF MouseEnter, SelInv, SelectionOK
  <2>2. Pos' = Pos
    BY <1>1 DEF MouseEnter, KeepGrid, Pos
  <2>3. TypeOK'
    BY <1>1, <1>p, <2>1, Corners DEF MouseEnter, KeepGrid, SelInv, TypeOK, Keys
  <2>4. SelectionOK'
    BY <1>1, <1>p, <2>1, <2>2, Corners DEF MouseEnter, KeepGrid, SelectionOK
  <2> QED
    BY <2>3, <2>4 DEF SelInv
<1>2. ASSUME NEW p \in Pos, NEW shift \in BOOLEAN, MouseDown(p, shift) PROVE SelInv'
  <2>1. values' \in [Keys -> Texts]
    BY <1>2, CommitType DEF MouseDown, SelInv
  <2>2. focus' = p /\ (anchor' = p \/ (anchor # None /\ anchor' = anchor))
    BY <1>2 DEF MouseDown, Select
  <2>3. anchor # None => focus # None
    BY DEF SelInv, TypeOK
  <2>4. anchor' \in Corner /\ (~shrunk => anchor' \in Pos)
    BY <1>p, <2>2, <2>3, Corners
  <2>5. editing' = None /\ dragging' = TRUE /\ KeepHistory
    BY <1>2 DEF MouseDown
  <2>6. p \in Corner /\ p # None
    BY <1>p
  <2> QED
    BY <2>1, <2>2, <2>4, <2>5, <2>6, SelKept
<1>3. CASE MouseUp
  BY <1>3, SelKept DEF MouseUp, SelInv, TypeOK
<1> QED
  BY <1>1, <1>2, <1>3

LEMMA OpenSel ==
  ASSUME SelInv, NEW text \in Texts, NEW caret \in BOOLEAN, StartEdit(text, caret)
  PROVE  SelInv'
<1>1. KeyAt(focus) \in Keys
  BY DEF StartEdit, SelInv, TypeOK, HasKey, KeyAt, Keys
<1>2. Pos' = Pos
  BY DEF StartEdit, KeepGrid, Pos
<1>3. TypeOK'
  BY <1>1 DEF StartEdit, KeepGrid, SelInv, TypeOK, Edits, Keys
<1>4. SelectionOK'
  BY <1>2 DEF StartEdit, KeepGrid, SelInv, SelectionOK
<1> QED
  BY <1>3, <1>4 DEF SelInv

LEMMA KeySel ==
  ASSUME SelInv,
         \/ \E s \in Steps, shift, mod \in BOOLEAN : Arrow(s[1], s[2], shift, mod)
         \/ \E dc \in {-1, 1} : TabKey(dc)
         \/ \E s \in Steps : EditorGo(s[1], s[2])
         \/ Escape \/ SelectAll
  PROVE  SelInv'
<1>p. rows \in Seq(RowKey) /\ rows # <<>> /\ Pos \subseteq Corner /\ None \notin Corner
  BY PosAreCorners DEF SelInv, TypeOK
<1>t. /\ values \in [Keys -> Texts] /\ editing \in Edits \union {None} /\ dragging \in BOOLEAN
      /\ editing # None => focus # None
  BY DEF SelInv, TypeOK
<1>1. ASSUME NEW s \in Steps, NEW shift \in BOOLEAN, NEW mod \in BOOLEAN,
             Arrow(s[1], s[2], shift, mod)
      PROVE  SelInv'
  <2> DEFINE next == Move(focus, s[1], s[2], mod)
  <2>1. focus # None /\ KeepHistory /\ UNCHANGED <<values, editing, dragging>>
    BY <1>1 DEF Arrow, Selecting
  <2>2. anchor \in Corner /\ focus \in Corner /\ (~shrunk => anchor \in Pos /\ focus \in Pos)
    BY <2>1, Corners
  <2>3. s[1] \in {-1, 0, 1} /\ s[2] \in {-1, 0, 1}
    BY DEF Steps
  <2>4. next \in Corner /\ (~shrunk => next \in Pos)
    BY <1>p, <2>2, <2>3, MoveStays
  <2>5. focus' = next /\ (anchor' = next \/ anchor' = anchor)
    BY <1>1 DEF Arrow, Select
  <2> HIDE DEF next
  <2> QED
    BY <1>p, <1>t, <2>1, <2>2, <2>4, <2>5, SelKept
<1>2. ASSUME NEW dc \in {-1, 1}, TabKey(dc) PROVE SelInv'
  <2> DEFINE next == Move(focus, 0, dc, FALSE)
  <2>1. focus # None /\ KeepHistory /\ UNCHANGED <<values, editing, dragging>>
    BY <1>2 DEF TabKey, Selecting
  <2>2. focus \in Corner
    BY <2>1, Corners
  <2>3. next \in Corner /\ next \in Pos
    BY <1>p, <2>2, MoveStays
  <2>4. focus' = next /\ anchor' = next
    BY <1>2 DEF TabKey, Select
  <2> HIDE DEF next
  <2> QED
    BY <1>p, <1>t, <2>1, <2>3, <2>4, SelKept
<1>3. ASSUME NEW s \in Steps, EditorGo(s[1], s[2]) PROVE SelInv'
  <2> DEFINE next == Move(focus, s[1], s[2], FALSE)
  <2>1. focus # None /\ KeepHistory /\ editing' = None /\ UNCHANGED dragging
    BY <1>3, <1>t DEF EditorGo
  <2>2. focus \in Corner
    BY <2>1, Corners
  <2>3. s[1] \in {-1, 0, 1} /\ s[2] \in {-1, 0, 1}
    BY DEF Steps
  <2>4. next \in Corner /\ next \in Pos
    BY <1>p, <2>2, <2>3, MoveStays
  <2>5. focus' = next /\ anchor' = next
    BY <1>3 DEF EditorGo, Select
  <2>6. values' \in [Keys -> Texts]
    BY <1>3, CommitType DEF EditorGo, SelInv
  <2> HIDE DEF next
  <2> QED
    BY <1>p, <1>t, <2>1, <2>4, <2>5, <2>6, SelKept
<1>4. CASE Escape
  <2>1. focus # None /\ KeepHistory /\ UNCHANGED <<values, focus, editing, dragging>>
        /\ anchor' = focus
    BY <1>4 DEF Escape, Selecting
  <2> QED
    BY <1>p, <1>t, <2>1, Corners, SelKept
<1>5. CASE SelectAll
  <2>1. KeepHistory /\ UNCHANGED <<values, editing, dragging>>
        /\ anchor' = At(1, 1) /\ focus' = At(Len(rows), Cols)
    BY <1>5 DEF SelectAll
  <2>2. At(1, 1) \in Pos /\ At(Len(rows), Cols) \in Pos
    BY <1>p, ColsAssumption DEF At, Pos
  <2> QED
    BY <1>p, <1>t, <2>1, <2>2, SelKept
<1> QED
  BY <1>1, <1>2, <1>3, <1>4, <1>5

LEMMA WriteSel ==
  ASSUME SelInv,
         \/ Clear \/ Blur \/ EditorEscape
         \/ \E down \in BOOLEAN : Fill(down)
         \/ \E block \in Blocks : Paste(block)
         \/ \E x \in Texts : EditorChange(x)
  PROVE  SelInv'
<1>t. /\ rows \in Seq(RowKey) /\ values \in [Keys -> Texts]
      /\ editing \in Edits \union {None} /\ dragging \in BOOLEAN
      /\ TypeOK
  BY DEF SelInv, TypeOK
<1>1. CASE Clear
  <2>1. values' \in [Keys -> Texts]
    BY <1>1, <1>t, ApplyType, TextAssumption DEF Clear
  <2> QED
    BY <1>1, <1>t, <2>1, SelKept DEF Clear, view
<1>2. ASSUME NEW down \in BOOLEAN, Fill(down) PROVE SelInv'
  <2> DEFINE cells == FillCells(Selected, down)
  <2>1. \A p \in DOMAIN cells : cells[p] \in Texts
    BY <1>t, RawIsText DEF FillCells
  <2>2. Apply(cells) /\ KeepHistory /\ UNCHANGED view
    BY <1>2 DEF Fill
  <2> HIDE DEF cells
  <2>3. values' \in [Keys -> Texts]
    BY <1>t, <2>1, <2>2, ApplyType
  <2> QED
    BY <1>t, <2>2, <2>3, SelKept DEF view
<1>3. ASSUME NEW block \in Blocks, Paste(block) PROVE SelInv'
  <2> DEFINE cells == PasteCells(Selected, block)
             ps == DOMAIN cells
  <2>1. focus # None /\ ps # {} /\ Apply(cells) /\ KeepHistory /\ UNCHANGED <<editing, dragging>>
    BY <1>3 DEF Paste, Selecting
  <2>2. /\ anchor' = CHOOSE p \in ps : \A q \in ps : p.r <= q.r /\ p.c <= q.c
        /\ focus' = CHOOSE p \in ps : \A q \in ps : p.r >= q.r /\ p.c >= q.c
    BY <1>3 DEF Paste
  <2>3. /\ \A p \in ps : cells[p] \in Texts
        /\ ps \subseteq Corner /\ (~shrunk => ps \subseteq Pos)
        /\ \E p \in ps : \A q \in ps : p.r <= q.r /\ p.c <= q.c
        /\ \E p \in ps : \A q \in ps : p.r >= q.r /\ p.c >= q.c
    BY <1>t, <2>1, Corners, PasteIsRectangle
  <2> HIDE DEF cells
  <2>4. values' \in [Keys -> Texts]
    BY <1>t, <2>1, <2>3, ApplyType
  <2>5. anchor' \in ps /\ focus' \in ps
    BY <2>2, <2>3
  <2>6. None \notin Corner
    BY <1>t, PosAreCorners
  <2> HIDE DEF ps
  <2> QED
    BY <1>t, <2>1, <2>3, <2>4, <2>5, <2>6, SelKept
<1>4. ASSUME NEW x \in Texts, EditorChange(x) PROVE SelInv'
  <2>1. editing' \in Edits /\ editing # None
    BY <1>4, <1>t DEF EditorChange, Edits
  <2> QED
    BY <1>4, <1>t, <2>1, SelKept DEF EditorChange
<1>5. CASE Blur
  <2>1. values' \in [Keys -> Texts]
    BY <1>5, <1>t, CommitType DEF Blur
  <2> QED
    BY <1>5, <1>t, <2>1, SelKept DEF Blur
<1>6. CASE EditorEscape
  BY <1>6, <1>t, SelKept DEF EditorEscape
<1> QED
  BY <1>1, <1>2, <1>3, <1>4, <1>5, <1>6

LEMMA OwnerSel ==
  ASSUME SelInv,
         \/ \E i, j \in 1..Len(rows) : i < j /\ SwapRows(i, j)
         \/ DropRow \/ CloseEntry \/ \E last \in 0..Cols : MoveBoundary(last)
  PROVE  SelInv'
<1>1. ASSUME NEW i \in 1..Len(rows), NEW j \in 1..Len(rows), SwapRows(i, j) PROVE SelInv'
  <2>1. rows' \in Seq(RowKey) /\ Len(rows') = Len(rows) /\ rows' # <<>>
    BY <1>1 DEF SwapRows, SelInv, TypeOK
  <2>2. Pos' = Pos
    BY <2>1 DEF Pos
  <2>3. TypeOK'
    BY <1>1, <2>1 DEF SwapRows, view, SelInv, TypeOK, Keys
  <2>4. SelectionOK'
    BY <1>1, <2>2 DEF SwapRows, view, SelInv, SelectionOK
  <2> QED
    BY <2>3, <2>4 DEF SelInv
<1>2. CASE DropRow
  <2>1. Len(rows) \in Nat /\ Len(rows) - 1 >= 1 /\ \A i \in 1..(Len(rows) - 1) : rows[i] \in RowKey
    BY <1>2 DEF DropRow, SelInv, TypeOK
  <2>2. rows' \in Seq(RowKey) /\ Len(rows') >= 1
    BY <1>2, <2>1, SubSeqProperties DEF DropRow
  <2>3. rows' # <<>>
    BY <2>2
  <2>4. TypeOK'
    BY <1>2, <2>2, <2>3 DEF DropRow, view, SelInv, TypeOK, Keys
  <2>5. SelectionOK'
    BY <1>2 DEF DropRow, view, SelInv, SelectionOK
  <2> QED
    BY <2>4, <2>5 DEF SelInv
<1>3. CASE CloseEntry
  <2>1. Pos' = Pos
    BY <1>3 DEF CloseEntry, Pos
  <2>2. TypeOK'
    BY <1>3 DEF CloseEntry, view, SelInv, TypeOK, Keys
  <2>3. SelectionOK'
    BY <1>3, <2>1 DEF CloseEntry, view, SelInv, SelectionOK
  <2> QED
    BY <2>2, <2>3 DEF SelInv
<1>4. ASSUME NEW last \in 0..Cols, MoveBoundary(last) PROVE SelInv'
  <2>1. Pos' = Pos
    BY <1>4 DEF MoveBoundary, Pos
  <2>2. TypeOK'
    BY <1>4 DEF MoveBoundary, view, SelInv, TypeOK, Keys
  <2>3. SelectionOK'
    BY <1>4, <2>1 DEF MoveBoundary, view, SelInv, SelectionOK
  <2> QED
    BY <2>2, <2>3 DEF SelInv
<1> QED
  BY <1>1, <1>2, <1>3, <1>4

THEOREM SelStep == SelInv /\ [Next]_vars => SelInv'
<1> SUFFICES ASSUME SelInv, [Next]_vars PROVE SelInv'
  OBVIOUS
<1>1. CASE OpenCell \/ DoubleClickInside \/ \E x \in Texts : TypeOver(x)
  <2>1. Raw(focus) \in Texts
    BY RawIsText DEF SelInv
  <2> QED
    BY <1>1, <2>1, OpenSel DEF OpenCell, DoubleClickInside, TypeOver
<1>2. CASE UNCHANGED vars
  <2>1. Pos' = Pos
    BY <1>2 DEF vars, Pos
  <2> QED
    BY <1>2, <2>1 DEF vars, view, history, SelInv, TypeOK, SelectionOK, Keys
<1>3. CASE Next
  BY <1>1, <1>3, MouseSel, KeySel, WriteSel, OwnerSel DEF Next
<1> QED
  BY <1>2, <1>3

\* Keys, mouse and clipboard keep the selection in the grid, of whatever size
\* it is (SelectionInGrid of SheetGrid).
THEOREM SelectionStays == Spec => []SelectionInGrid
<1>1. SelInv => SelectionInGrid
  BY DEF SelInv, SelectionOK, SelectionInGrid
<1> QED
  BY SelInit, SelStep, <1>1, PTL DEF Spec
=============================================================================
