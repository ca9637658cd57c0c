------------------------------- MODULE Pager -------------------------------
(***************************************************************************)
(* Text scrolled in a window (bbs/pager.py), and what the user sees of it. *)
(* A line is its number; a window is visible_height rows high.             *)
(***************************************************************************)
EXTENDS Integers, FiniteSetsExt

CONSTANTS
  Height,   \* visible_height
  MaxLines  \* lines of the text (a bound)

PagerAssumption == Height \in Nat \ {0} /\ MaxLines \in Nat

VARIABLES
  size,      \* len(_content)
  position,  \* the line in the first row
  drawn      \* the line each row of the screen shows, None when blank

vars == <<size, position, drawn>>

Row  == 0 .. Height - 1
None == -1

TypeOK ==
  /\ size \in 0 .. MaxLines
  /\ position \in 0 .. MaxLines
  /\ drawn \in [Row -> None .. MaxLines - 1]

Init ==
  /\ size \in 0 .. MaxLines
  /\ position = 0
  /\ drawn = [row \in Row |-> IF row < size THEN row ELSE None]

-----------------------------------------------------------------------------
\* bottom: "maximum" is the height of the window itself.
Bottom == LET maximum == Height IN Max({0, maximum - Height})

\* refresh(start): the rows from `start' that have a line are drawn; what was
\* in the others stays.
Refreshed(pos, n, start) ==
  [row \in Row |-> IF row >= start /\ pos + row < n THEN pos + row ELSE drawn[row]]

\* the setter of `position', and the refresh when it moved
Scroll(pos) ==
  /\ position' = Min({Max({0, pos}), Bottom})
  /\ drawn' = IF position' # position THEN Refreshed(position', size, 0) ELSE drawn
  /\ UNCHANGED size

Refresh ==
  /\ drawn' = Refreshed(position, size, 0)
  /\ UNCHANGED <<size, position>>

MoveUp     == Scroll(position - 1)
MoveDown   == Scroll(position + 1)
MoveHome   == Scroll(0)
MoveEnd    == Scroll(size - Height)
MovePgup   == Scroll(position - Height)
MovePgdown == Scroll(position + Height)

\* update(): the position stays as it is
Update ==
  /\ size' \in 0 .. MaxLines
  /\ drawn' = Refreshed(position, size', 0)
  /\ UNCHANGED position

\* append(): the end is moved to, or the rows from `bottom' are drawn.
Append ==
  /\ size < MaxLines
  /\ size' = size + 1
  /\ position' = Min({Max({0, size' - Height}), Bottom})
  /\ drawn' = Refreshed(position', size', IF position' # position THEN 0 ELSE Bottom)

Next ==
  \/ Refresh
  \/ MoveUp \/ MoveDown \/ MoveHome \/ MoveEnd \/ MovePgup \/ MovePgdown
  \/ Update \/ Append

Spec == Init /\ [][Next]_vars

-----------------------------------------------------------------------------
(* Properties.                                                             *)

\* Whatever is appended, replaced and scrolled, each row that has a line of the text shows
\* that line.  (One that has none may still show a line of a longer text.)
TextShown == \A row \in Row : position + row < size => drawn[row] = position + row
=============================================================================
