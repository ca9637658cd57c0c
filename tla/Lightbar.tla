------------------------------ MODULE Lightbar ------------------------------
(***************************************************************************)
(* A list in a window with one item highlighted (bbs/lightbar.py), and     *)
(* what the user sees of it.  Its keys move the selection, by way of       *)
(* properties that record where it was; refresh_quick() draws only the     *)
(* rows that these say have changed.  A script that gives the list another *)
(* content draws the window again, or only the row selected.               *)
(*                                                                         *)
(* An item is its number.  A window of height rows is visible_height high. *)
(***************************************************************************)
EXTENDS Integers, FiniteSetsExt

CONSTANTS
  Height,  \* visible_height
  Sizes    \* the lengths of the lists that scripts give update()

LightbarAssumption == Height \in Nat \ {0, 1} /\ Sizes \subseteq Nat

VARIABLES
  size,       \* len(content)
  idx,        \* vitem_idx: the row selected
  shift,      \* vitem_shift: the item in the first row
  drawn,      \* what each row of the screen shows: an item, None when blank,
              \* or Old, an item that the list no longer has there
  lit,        \* the rows of the screen that are highlighted
  stale,      \* the rows that had to change and have not been drawn since
  unsound     \* _chk_bounds left a position that no list has

vars == <<size, idx, shift, drawn, lit, stale, unsound>>

Row  == 0 .. Height - 1
None == -1
Old  == -2
MaxSize == Max(Sizes)

TypeOK ==
  /\ size \in Sizes
  /\ idx \in 0 .. MaxSize
  /\ shift \in -Height .. MaxSize
  /\ drawn \in [Row -> Old .. MaxSize]
  /\ lit \subseteq Row
  /\ stale \subseteq Row
  /\ unsound \in BOOLEAN

-----------------------------------------------------------------------------
(* Drawing.                                                                *)

Item(row, sh, n) == IF sh + row < n THEN sh + row ELSE None

\* refresh: every row is drawn, and the one selected is highlighted.
Refreshed(i, sh, n) ==
  /\ drawn' = [row \in Row |-> Item(row, sh, n)]
  /\ lit' = {row \in Row : row = i /\ Item(row, sh, n) # None}
  /\ stale' = {}

RefreshRows(rows, i, sh, n) ==
  /\ drawn' = [row \in Row |-> IF row \in rows THEN Item(row, sh, n) ELSE drawn[row]]
  /\ lit' = {row \in Row : IF row \in rows THEN row = i /\ Item(row, sh, n) # None
                           ELSE row \in lit}
  /\ stale' = stale \ rows

\* mutant of RefreshQuick: the row left is not drawn again
RefreshQuickNewRow(i, sh) ==
  IF sh # shift THEN Refreshed(i, sh, size) ELSE RefreshRows({i}, i, sh, size)

\* After a page shift the whole page; otherwise the row left and the one come to.
RefreshQuick(i, sh) ==
  IF sh # shift THEN Refreshed(i, sh, size) ELSE RefreshRows({idx, i}, i, sh, size)

-----------------------------------------------------------------------------
(* Moves.                                                                  *)

Index == shift + idx

AtTop    == Index = 0
AtBottom == Index = size - 1

\* Nothing is drawn where nothing has moved.
MoveTo(i, sh) ==
  /\ idx' = i
  /\ shift' = sh
  /\ IF i = idx /\ sh = shift THEN UNCHANGED <<drawn, lit, stale>> ELSE RefreshQuick(i, sh)
  /\ UNCHANGED <<size, unsound>>

VisibleBottom == IF shift + Height - 1 > size THEN size ELSE Height

MoveDown ==
  /\ ~AtBottom
  /\ IF idx + 1 < VisibleBottom THEN MoveTo(idx + 1, shift)
     ELSE IF idx < size THEN MoveTo(idx, shift + 1)
     ELSE UNCHANGED vars

MoveUp ==
  /\ ~AtTop
  /\ IF idx >= 1 THEN MoveTo(idx - 1, shift)
     ELSE IF shift > 0 THEN MoveTo(idx, shift - 1)
     ELSE UNCHANGED vars

MoveHome == MoveTo(0, 0)

MoveEnd ==
  IF size < Height THEN MoveTo(size - 1, shift)
  ELSE MoveTo(Height - 1, size - Height)

PageDown ==
  IF size < Height THEN MoveTo(size - 1, shift)
  ELSE IF shift + Height < size - Height THEN MoveTo(idx, shift + Height)
  ELSE IF shift # size - Height THEN MoveTo(idx, size - Height)
  ELSE MoveEnd

PageUp ==
  IF shift - Height > 0 THEN MoveTo(idx, shift - Height)
  ELSE IF shift > 0 THEN MoveTo(idx, 0)
  ELSE MoveHome

\* In a list shorter than the window by two, the selection is put on the first
\* row before move_home() looks, which then finds nothing to move or to draw:
\* the row left stays highlighted and the one come to does not show it.
PageUpShort ==
  /\ size < Height - 1
  /\ idx' = 0
  /\ stale' = IF idx = 0 THEN stale ELSE stale \union {0, idx}
  /\ UNCHANGED <<size, shift, drawn, lit, unsound>>

\* goto(), of an item that is there: the least scrolling that shows it, and
\* _chk_bounds.
Goto(item) ==
  LET sh == IF item > shift + Height - 1 THEN item - (Height - 1)
            ELSE IF item < shift THEN item ELSE shift
      over == IF sh > 0 THEN Max({0, sh + Height - 1 - size}) ELSE 0
      down == Min({over, sh}) IN
    MoveTo(item - sh + down, sh - down)

-----------------------------------------------------------------------------
(* update(): the list is replaced, and the position is brought within it.  *)

\* _chk_bounds, for a list of n items
ChkBounds(i, sh, n) ==
  LET \* scroll to the last page, the selection next to the last row
      last  == sh # 0 /\ i + sh + 1 > n
      sh1   == IF last THEN n - Height + 1 ELSE sh
      i1    == IF last THEN Height - 2 ELSE i
      \* scroll up until the last item is in the last row but one
      up    == IF sh1 > 0 THEN Max({0, Min({sh1, sh1 + Height - 1 - n})}) ELSE 0
      sh2   == sh1 - up
      i2    == i1 + up IN
    \* select the last item when there are fewer
    <<IF i2 > 0 /\ i2 + sh2 >= n THEN Max({0, n - 1 - sh2}) ELSE i2, sh2>>

\* Most scripts then refresh the window, also when the list they get has other
\* items than the one before.
Update(n) ==
  LET pos == ChkBounds(idx, shift, n) IN
    /\ size' = n
    /\ idx' = pos[1]
    /\ shift' = pos[2]
    /\ unsound' = (pos[2] < 0)
    /\ IF unsound' THEN UNCHANGED <<drawn, lit, stale>> ELSE Refreshed(pos[1], pos[2], n)

\* Only some rows are drawn; new are those of the others whose item is not the
\* one that the list had there.
UpdateRows(n, new, pos, rows) ==
  /\ size' = n
  /\ idx' = pos[1]
  /\ shift' = pos[2]
  /\ drawn' = [row \in Row |-> IF row \in rows THEN Item(row, pos[2], n)
                              ELSE IF row \in new THEN Old ELSE drawn[row]]
  /\ lit' = {row \in Row : IF row \in rows THEN row = pos[1] /\ Item(row, pos[2], n) # None
                           ELSE row \in lit}
  /\ stale' = (stale \union new
                      \union {row \in Row : Item(row, pos[2], n) # Item(row, shift, size)}
                      \union (IF pos[1] = idx THEN {} ELSE {idx, pos[1]})) \ rows
  /\ UNCHANGED unsound

\* The file browser, when a file is flagged, and the editor, when a line is
\* merged, draw the row selected.  The file browser's refresh_quick() follows:
\* it draws the page if that has changed, and else the row from which
\* _chk_bounds moved the selection last, the one below.
UpdateRow(n, new) ==
  LET pos == ChkBounds(idx, shift, n) IN
    IF pos[2] # shift THEN Update(n)
    ELSE UpdateRows(n, new, pos, IF pos[1] = idx THEN {idx} ELSE {pos[1], pos[1] + 1})

\* The editor, when the lines it has killed leave a row of the window empty,
\* draws a row below the window and none within it.
UpdateKilled(new) ==
  LET pos == ChkBounds(idx, shift, Height - 1) IN
    /\ pos[2] = 0
    /\ UpdateRows(Height - 1, new, pos, {})

\* The rows at which both lists have an item, that of the second another one.
NewItems(n) == {row \in Row : Item(row, shift, n) # None /\ Item(row, shift, size) # None}

Init ==
  /\ size \in Sizes
  /\ idx = 0
  /\ shift = 0
  /\ drawn = [row \in Row |-> Item(row, 0, size)]
  /\ lit = {row \in Row : row = 0 /\ size > 0}
  /\ stale = {}
  /\ unsound = FALSE

\* The keys to the end raise IndexError in an empty list.
ProcessKeystroke ==
  \/ MoveDown \/ MoveUp \/ MoveHome
  \/ size > 0 /\ (MoveEnd \/ PageDown)
  \/ size >= Height - 1 /\ PageUp
  \/ PageUpShort

\* A list that _chk_bounds does not fit (refresh() would draw items twice or
\* raise IndexError) is not followed further.
Next ==
  /\ ~unsound
  /\ \/ ProcessKeystroke
     \/ \E item \in 0 .. MaxSize - 1 : item < size /\ Goto(item)
     \/ \E n \in Sizes : Update(n)
     \/ \E n \in Sizes : \E new \in SUBSET NewItems(n) : UpdateRow(n, new)
     \/ Height - 1 \in Sizes /\ \E new \in SUBSET NewItems(Height - 1) : UpdateKilled(new)

Spec == Init /\ [][Next]_vars

-----------------------------------------------------------------------------
(* Properties.                                                             *)

\* The item selected exists, and every row of the screen shows the item of its
\* place and is highlighted if that is selected, and only then, whichever rows
\* were left as they were.  Excepted are the rows that the code is known to leave
\* (stale), until they are drawn again: the two of a page-up in a short list, and
\* those that an update() changed whose script did not draw them.
SelectionShown ==
  ~unsound =>
    /\ size > 0 => Index \in 0 .. size - 1
    /\ \A row \in Row \ stale :
         /\ drawn[row] = Item(row, shift, size)
         /\ row \in lit <=> row = idx /\ size > 0
=============================================================================
