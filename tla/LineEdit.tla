------------------------------ MODULE LineEdit ------------------------------
(***************************************************************************)
(* The two editors of a single line (bbs/editor.py), and what the user     *)
(* sees: LineEditor, which prints and erases at the cursor, wherever that  *)
(* is, and ScrollingEditor, which has a place on the screen and scrolls    *)
(* its text sideways.                                                      *)
(*                                                                         *)
(* Characters are one column wide.  What distinguishes them is whether     *)
(* they are blank.  (Of two columns, LineEditor takes back one.)           *)
(***************************************************************************)
EXTENDS Integers, Sequences, SequencesExt, FiniteSetsExt

CONSTANTS
  Width,      \* visible_width of ScrollingEditor, width of LineEditor
  ScrollAmt,  \* scroll_amt: a fourth of it
  MarginAmt,  \* margin_amt: a tenth of it
  MaxLength   \* max_length of ScrollingEditor

LineEditAssumption ==
  /\ Width \in Nat /\ ScrollAmt \in 1 .. Width \div 2
  /\ MarginAmt \in 0 .. ScrollAmt /\ MaxLength \in Nat

VARIABLES
  scrolling,  \* whether the editor is a ScrollingEditor
  content,
  shift,      \* _horiz_shift
  pos,        \* _horiz_pos
  screen,     \* what the columns of the editor show
  cursor      \* the column of the cursor

vars == <<scrolling, content, shift, pos, screen, cursor>>

Space  == " "
Marker == "$"
Char   == {"x", Space}
Strip  == <<Marker, Space>>
Column == 1 .. Width + 1    \* the cursor may be after the last

TypeOK ==
  /\ scrolling \in BOOLEAN
  /\ content \in Seq(Char)
  /\ Len(content) <= IF scrolling THEN MaxLength ELSE Width
  /\ shift \in 0 .. MaxLength + 2
  /\ pos \in 0 .. Width
  /\ screen \in [Column -> Char \cup {Marker}]
  /\ cursor \in Column

-----------------------------------------------------------------------------
(* The screen.                                                             *)

\* The text is printed over a bar of blanks, the cursor after it.
Printed(text) == [c \in Column |-> IF c <= Len(text) THEN text[c] ELSE Space]

\* n characters are taken back and erased at the cursor.
Erase(n) ==
  /\ screen' = [c \in Column |-> IF c \in cursor - n .. cursor - 1 THEN Space ELSE screen[c]]
  /\ cursor' = cursor - n

Echo(char) ==
  /\ screen' = [screen EXCEPT ![cursor] = char]
  /\ cursor' = cursor + 1

-----------------------------------------------------------------------------
(* ScrollingEditor.refresh: shift and position are counted anew.           *)

Counted[n \in 0 .. MaxLength] ==
  IF n = 0 THEN [shift |-> 0, pos |-> 0]
  ELSE LET c == Counted[n - 1] IN
       IF c.pos > Width - ScrollAmt
       THEN [shift |-> c.shift + ScrollAmt, pos |-> c.pos - ScrollAmt + 1]
       ELSE [shift |-> c.shift, pos |-> c.pos + 1]

\* The first characters give way to the marker when the text is scrolled by n.
ScrolledText(text, n) ==
  IF n = 0 THEN text ELSE Strip \o SubSeq(text, n + Len(Strip) + 1, Len(text))

ScrollRefresh(text) ==
  LET c == Counted[Len(text)] IN
    /\ shift' = IF c.shift > 0 THEN c.shift + Len(Strip) ELSE 0
    /\ pos' = c.pos
    /\ screen' = Printed(ScrolledText(text, c.shift))
    /\ cursor' = pos' + 1

LineRefresh(text) ==
  /\ screen' = Printed(text)
  /\ cursor' = Len(text) + 1
  /\ UNCHANGED <<shift, pos>>

\* Both are drawn as read() begins, and by callers of process_keystroke().
Init ==
  /\ scrolling \in BOOLEAN
  /\ content \in SeqOf(Char, IF scrolling THEN Min({Width, MaxLength}) ELSE Width)
  /\ LET c == IF scrolling THEN Counted[Len(content)] ELSE [shift |-> 0, pos |-> 0]
         text == IF scrolling THEN ScrolledText(content, c.shift) ELSE content IN
       /\ shift = IF c.shift > 0 THEN c.shift + Len(Strip) ELSE 0
       /\ pos = c.pos
       /\ screen = Printed(text)
       /\ cursor = (IF scrolling THEN c.pos ELSE Len(text)) + 1

-----------------------------------------------------------------------------
(* Keys.                                                                   *)

Refresh ==
  /\ IF scrolling THEN ScrollRefresh(content) ELSE LineRefresh(content)
  /\ UNCHANGED <<scrolling, content>>

\* mutant of Fits: off by one
FitsAtLength == Len(content) <= IF scrolling THEN MaxLength ELSE Width

\* What is typed after that is dropped.
Fits == Len(content) < IF scrolling THEN MaxLength ELSE Width

\* add(), in a ScrollingEditor
Type(char) ==
  /\ Fits
  /\ content' = Append(content, char)
  /\ IF scrolling /\ pos + 1 >= Width - MarginAmt
     THEN ScrollRefresh(content')
     ELSE /\ Echo(char)
          /\ pos' = IF scrolling THEN pos + 1 ELSE pos
          /\ UNCHANGED shift
  /\ UNCHANGED scrolling

\* mutant of Backspace: the text is not scrolled back
BackspaceInPlace ==
  /\ content # << >>
  /\ content' = Front(content)
  /\ cursor > 1
  /\ Erase(1)
  /\ pos' = IF scrolling /\ pos > 0 THEN pos - 1 ELSE pos
  /\ shift' = IF pos < ScrollAmt THEN Max({0, shift - ScrollAmt}) ELSE shift
  /\ UNCHANGED scrolling

Backspace ==
  /\ content # << >>
  /\ content' = Front(content)
  /\ IF scrolling /\ shift > 0 /\ pos < ScrollAmt
     THEN ScrollRefresh(content')
     ELSE /\ Erase(1)
          /\ pos' = IF scrolling THEN pos - 1 ELSE pos
          /\ UNCHANGED shift
  /\ UNCHANGED scrolling

\* The last word and the blanks after it.
WithoutLastWord(text) ==
  LET word   == {i \in DOMAIN text : text[i] # Space}
      before == {i \in DOMAIN text : text[i] = Space /\ \E j \in word : i < j} IN
    SubSeq(text, 1, IF before = {} THEN 0 ELSE Max(before))

Backword ==
  /\ content # << >>
  /\ content' = WithoutLastWord(content)
  /\ IF scrolling THEN ScrollRefresh(content')
     ELSE /\ Erase(Len(content) - Len(content'))
          /\ UNCHANGED <<shift, pos>>
  /\ UNCHANGED scrolling

\* update() of a ScrollingEditor, which its callers refresh
Update ==
  /\ scrolling
  /\ content' = << >>
  /\ ScrollRefresh(content')
  /\ UNCHANGED scrolling

Next ==
  \/ Refresh
  \/ \E char \in Char : Type(char)
  \/ Backspace \/ Backword \/ Update

Spec == Init /\ [][Next]_vars

-----------------------------------------------------------------------------
(* Properties.                                                             *)

\* How many characters are to the left of the first column.
Hidden == IF shift > 0 THEN shift - Len(Strip) ELSE 0

\* The screen shows the end of the content, each character in its column, with
\* the cursor after the last and nothing to the right of it, whatever was typed,
\* erased and scrolled before.
ScreenShowsContent ==
  /\ cursor - 1 = Len(content) - Hidden
  /\ scrolling => cursor - 1 = pos
  /\ \A c \in Column :
       IF c >= cursor THEN screen[c] = Space
       ELSE (shift > 0 /\ c <= Len(Strip)) \/ screen[c] = content[Hidden + c]
=============================================================================
