------------------------------- MODULE Editor -------------------------------
(***************************************************************************)
(* The editor of messages (default/editor.py): lines in a Lightbar, one of *)
(* which is copied into a line editor and merged back when it is left.     *)
(*                                                                         *)
(* A text is words and the ends of lines: '\r\n', hard, ends a paragraph;  *)
(* '\n', soft, is where one was wrapped.  Whatever changes the lines joins *)
(* them to a text and wraps that again (get_lbcontent, set_lbcontent).     *)
(* Wrapping breaks a word at a hyphen, or where it is too long for a line, *)
(* and joining puts a blank there.  Typing, erasing and wrapping are by    *)
(* the part of a word; the window is as high as the text (module Lightbar  *)
(* scrolls it).                                                            *)
(***************************************************************************)
EXTENDS Integers, Sequences, SequencesExt, FiniteSetsExt

CONSTANTS
  Word,        \* words, and the parts in which wrapping breaks some
  Beginning,   \* those of them after which a word goes on
  Widths,      \* parts to a line, in the windows the terminal may have
  UNDOLEVELS,
  MaxRepeat,   \* num_repeat (a bound)
  MaxWords,    \* parts of the text (a bound)
  MaxLines     \* lines of the text (a bound)

EditorAssumption ==
  /\ Beginning \subseteq Word
  /\ Widths \subseteq Nat \ {0} /\ Widths # {} /\ UNDOLEVELS \in Nat
  /\ MaxRepeat \in Nat /\ MaxWords \in Nat /\ MaxLines \in Nat \ {0}

VARIABLES
  lines,     \* lightbar.content
  index,     \* lightbar.index, from 1
  width,     \* lightbar.visible_width
  edit,      \* whether in edit mode
  lneditor,  \* what is in the line editor
  UNDO       \* texts, as they were saved

vars == <<lines, index, width, edit, lneditor, UNDO>>

\* A part, and whether the next one is of the same word: no blank is between them.
Part      == [text : Word, goes_on : BOOLEAN]
Typed     == {[text |-> word, goes_on |-> word \in Beginning] : word \in Word}
Line      == [words : Seq(Part), end : {"hard", "soft", "none"}]
BlankLine == [words |-> << >>, end |-> "hard"]

TypeOK ==
  /\ \A i \in DOMAIN lines : lines[i] \in Line
  /\ index \in DOMAIN lines
  /\ width \in Widths
  /\ edit \in BOOLEAN
  /\ lneditor \in Seq(Part)
  /\ Len(UNDO) <= UNDOLEVELS
  /\ \A u \in DOMAIN UNDO : UNDO[u] \in Seq(Seq(Part))

-----------------------------------------------------------------------------
(* Lines and texts.                                                        *)

\* A blank after what is on a line
Blanked(words) ==
  IF words = << >> THEN words ELSE Append(Front(words), [Last(words) EXCEPT !.goes_on = FALSE])

\* get_lbcontent: a line goes on from one that was wrapped, after a blank; a blank
\* line after such a line is stripped of its own end.
Continued(acc, line) ==
  IF acc # << >> /\ Last(acc).end = "soft"
  THEN Append(Front(acc),
              [words |-> Blanked(Last(acc).words) \o line.words,
               end   |-> IF line.words = << >> THEN "none" ELSE line.end])
  ELSE Append(acc, line)

\* What has no end goes on in the next line, when the text is split again at '\r\n'.
Split(acc, line) ==
  LET open == acc # << >> /\ Last(acc).end # "hard" IN
    IF open THEN Append(Front(acc), [line EXCEPT !.words = Last(acc).words \o @])
            ELSE Append(acc, line)

\* The text of lines: paragraphs.  The last needs no end, unless it is empty.
Text(ls) ==
  LET ps == FoldLeft(Split, << >>, FoldLeft(Continued, << >>, ls)) IN
    [p \in 1 .. (IF Last(ps) = [words |-> << >>, end |-> "none"] THEN Len(ps) - 1 ELSE Len(ps))
       |-> ps[p].words]

\* A paragraph, wrapped to lines of w parts.
Wrap(p, w) ==
  IF p = << >> THEN <<BlankLine>>
  ELSE LET n == (Len(p) + w - 1) \div w IN
       [i \in 1 .. n |-> [words |-> SubSeq(p, (i - 1) * w + 1, Min({i * w, Len(p)})),
                          end   |-> IF i = n THEN "hard" ELSE "soft"]]

\* set_lbcontent
Wrapped(text, w) ==
  IF text = << >> THEN <<BlankLine>> ELSE FlattenSeq([p \in DOMAIN text |-> Wrap(text[p], w)])

Rewrapped(ls) == IF ls = << >> THEN <<BlankLine>> ELSE Wrapped(Text(ls), width)

\* Lightbar.update() keeps the selection, or selects the last line.
Within(i, ls) == Min({i, Len(ls)})

SetLines(ls, i) ==
  /\ Len(ls) <= MaxLines
  /\ lines' = ls
  /\ index' = Within(i, ls)

\* save_draft; the user's attribute is the text that is saved last.
SaveDraft(ls) ==
  LET saved == Append(UNDO, Text(ls)) IN
    UNDO' = IF Len(saved) > UNDOLEVELS THEN Tail(saved) ELSE saved

-----------------------------------------------------------------------------
(* The line editor.                                                        *)

\* merge: what is in the line editor becomes a line with a hard end; the selection
\* goes down by the lines that are added.
Merge ==
  LET replaced == [lines EXCEPT ![index] = [words |-> lneditor, end |-> "hard"]]
      merged == Rewrapped(replaced) IN
    [lines |-> merged,
     index |-> Within(index + Max({0, Len(merged) - Len(lines)}), merged)]

\* get_lneditor: the line editor gets the selected line
Load == lneditor' = lines'[index'].words

\* continue_draft, or nothing
Init ==
  /\ width \in Widths
  /\ \E text \in SeqOf(SeqOf(Typed, 2), 1) : lines = Wrapped(text, width)
  /\ index = 1
  /\ edit = FALSE
  /\ lneditor = lines[1].words
  /\ UNDO = << >>

-----------------------------------------------------------------------------
(* Edit mode.                                                              *)

Words(ls) == FlattenSeq([i \in DOMAIN ls |-> ls[i].words])

\* What the user sees: the words of the line editor, where it is.
Seen == Words(IF edit THEN [lines EXCEPT ![index].words = lneditor] ELSE lines)

Type ==
  /\ edit /\ Len(Seen) < MaxWords
  /\ \E part \in Typed : lneditor' = Append(lneditor, part)
  /\ UNCHANGED <<lines, index, width, edit, UNDO>>

Erase ==
  /\ edit /\ lneditor # << >>
  /\ lneditor' = Front(lneditor)
  /\ UNCHANGED <<lines, index, width, edit, UNDO>>

\* "erase past margin": the line is deleted, and the one above selected
EraseLine ==
  /\ edit /\ lneditor = << >> /\ index > 1
  /\ SetLines(Rewrapped(RemoveAt(lines, index)), index - 1)
  /\ Load
  /\ UNCHANGED <<width, edit, UNDO>>

\* Where the keys of a Lightbar can lead from line i.
Moved(i, ls) == {Max({1, i - 1}), Within(i + 1, ls), 1, Len(ls)}

\* Up, Down, Home, End and the pages: merged, moved and saved.
LeaveLine ==
  /\ edit
  /\ \E i \in Moved(Merge.index, Merge.lines) : SetLines(Merge.lines, i)
  /\ Load
  /\ SaveDraft(lines')
  /\ UNCHANGED <<width, edit>>

\* Enter: a line without an end follows
NewLine ==
  /\ edit
  /\ SetLines(InsertAt(Merge.lines, Merge.index + 1, [words |-> << >>, end |-> "none"]),
              Merge.index + 1)
  /\ Load
  /\ SaveDraft(lines')
  /\ UNCHANGED <<width, edit>>

\* Escape
EndEdit ==
  /\ edit
  /\ SetLines(Merge.lines, Merge.index)
  /\ edit' = FALSE
  /\ UNCHANGED <<width, lneditor, UNDO>>

-----------------------------------------------------------------------------
(* Command mode.                                                           *)

BeginEdit ==
  /\ ~edit
  /\ edit' = TRUE
  /\ SaveDraft(lines)
  /\ UNCHANGED <<lines, index, width>>
  /\ Load

\* goto and the keys of a Lightbar
Move ==
  /\ ~edit
  /\ \E i \in DOMAIN lines : SetLines(lines, i)
  /\ UNCHANGED <<width, edit, lneditor, UNDO>>

\* A command on the lines and the selection, repeated.
Repeat(Op(_), n) ==
  FoldLeft(LAMBDA at, i : Op(at), [lines |-> lines, index |-> index], [i \in 1 .. n |-> i])

Keep(ls, i) == [lines |-> Rewrapped(ls), index |-> Within(i, Rewrapped(ls))]

Command(Op(_)) ==
  /\ ~edit
  /\ \E n \in 1 .. MaxRepeat : SetLines(Repeat(Op, n).lines, Repeat(Op, n).index)
  /\ SaveDraft(lines')
  /\ UNCHANGED <<width, edit, lneditor>>

KilledLine(at)   == Keep(RemoveAt(at.lines, at.index), at.index)
InsertedLine(at) == Keep(InsertAt(at.lines, at.index, BlankLine), at.index)

\* The words of two lines, a blank between, with the end of the second, which a blank one loses; the
\* selection goes down when they are wrapped.
JoinedLines(at) ==
  IF at.index = Len(at.lines) THEN at
  ELSE LET next == at.lines[at.index + 1]
           joined == [words |-> Blanked(at.lines[at.index].words) \o next.words,
                      end   |-> IF next.words = << >> THEN "none" ELSE next.end]
           fewer == [RemoveAt(at.lines, at.index + 1) EXCEPT ![at.index] = joined]
           kept == Keep(fewer, at.index) IN
       IF Len(kept.lines) > Len(fewer)
       THEN [kept EXCEPT !.index = Within(@ + 1, kept.lines)] ELSE kept

Kill   == Command(KilledLine)
Insert == Command(InsertedLine)

\* There is a bell instead when the selection is the last line.
Join == index < Len(lines) /\ Command(JoinedLines)

\* 'O' and 'o': a blank line before or after, and edit mode
InsertAndEdit ==
  /\ ~edit
  /\ \E i \in {index, index + 1} : SetLines(Rewrapped(InsertAt(lines, i, BlankLine)), i)
  /\ edit' = TRUE
  /\ Load
  /\ SaveDraft(lines')
  /\ UNCHANGED width

Undo ==
  /\ ~edit
  /\ \E n \in 1 .. Min({MaxRepeat, Len(UNDO)}) :
       /\ SetLines(Wrapped(UNDO[Len(UNDO) - n + 1], width), index)
       /\ UNDO' = SubSeq(UNDO, 1, Len(UNDO) - n)
  /\ UNCHANGED <<width, edit, lneditor>>

\* mutant of Resize: the line is not merged
ResizeOnly ==
  /\ width' \in Widths \ {width}
  /\ SetLines(Wrapped(Text(lines), width'), index)
  /\ Load
  /\ UNCHANGED <<edit, UNDO>>

\* The window changes: "always re-merge current line on resize".
Resize ==
  /\ width' \in Widths \ {width}
  /\ LET at == IF edit THEN Merge ELSE [lines |-> lines, index |-> index] IN
       SetLines(Wrapped(Text(at.lines), width'), at.index)
  /\ Load
  /\ UNCHANGED <<edit, UNDO>>

Next ==
  \/ Type \/ Erase \/ EraseLine \/ LeaveLine \/ NewLine \/ EndEdit
  \/ BeginEdit \/ Move \/ Kill \/ Insert \/ Join \/ InsertAndEdit \/ Undo
  \/ Resize

Spec == Init /\ [][Next]_vars

-----------------------------------------------------------------------------
(* Properties.                                                             *)

\* Text comes and goes only by typing, erasing, killing lines and undoing: moving,
\* merging, wrapping, joining, inserting lines and resizing the window keep every
\* part of a word, in order, and run no two words together.  (They do not keep the
\* words: one that was broken at the end of a line comes back with a blank in it.)
WordsStay ==
  \/ Type \/ Erase \/ Kill \/ Undo
  \/ /\ Len(Seen') = Len(Seen)
     /\ \A i \in DOMAIN Seen : /\ Seen'[i].text = Seen[i].text
                              /\ Seen'[i].goes_on => Seen[i].goes_on
=============================================================================
