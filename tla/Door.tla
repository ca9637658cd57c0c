-------------------------------- MODULE Door --------------------------------
(***************************************************************************)
(* A door (bbs/door.py): a program that runs on a pty, which the session   *)
(* feeds with what its user types and with the size of his terminal.       *)
(*                                                                         *)
(* A plain door filters nothing; a raw one ignores refresh events; a       *)
(* DOSDoor drops what is typed in its first seconds.  Keys are numbered as *)
(* they are typed; an `input' event has one or more of them.  What the     *)
(* door writes passes through and is left out, and so are drop files.  The *)
(* session has no input buffered as the door begins.                       *)
(***************************************************************************)
EXTENDS Integers, Sequences, SequencesExt

CONSTANTS
  MaxKeys,     \* keys typed (a bound)
  MaxResizes,  \* changes of the terminal's size (a bound)
  MaxGosubs    \* scripts that `gosub' events run inside the door's (a bound)

DoorAssumption == MaxKeys \in Nat /\ MaxResizes \in Nat /\ MaxGosubs \in Nat

VARIABLES
  kind,
  stage,     \* of Door.run and Door._loop
  child,
  blocked,   \* START_BLOCK seconds have not elapsed
  size,      \* of the session's terminal
  winsize,   \* of the pty
  pipe,      \* events on their way to the session
  input,     \* its buffer of input, popped at the end
  refresh,   \* a refresh event is buffered
  typed,     \* how many keys were typed,
  pty,       \* those written to the pty,
  consumed,  \* and those dropped, or taken by another script
  resizes,
  gosubs

vars == <<kind, stage, child, blocked, size, winsize, pipe, input, refresh, typed, pty,
          consumed, resizes, gosubs>>

Key   == 1 .. MaxKeys
Size  == 0 .. MaxResizes
Event == [event : {"input"}, data : Seq(Key)] \cup [event : {"refresh"}, data : Size]
           \cup [event : {"gosub"}]

TypeOK ==
  /\ kind \in {"plain", "raw", "dos"}
  /\ stage \in {"start", "select", "events", "nested", "done"}
  /\ child \in {"none", "running", "exited"}
  /\ blocked \in BOOLEAN
  /\ size \in Size /\ winsize \in Size
  /\ pipe \in Seq(Event)
  /\ input \in Seq(Seq(Key))
  /\ refresh \in BOOLEAN
  /\ typed \in 0 .. MaxKeys
  /\ pty \in Seq(Key)
  /\ consumed \subseteq Key
  /\ resizes \in 0 .. MaxResizes /\ gosubs \in 0 .. MaxGosubs

Init ==
  /\ kind \in {"plain", "raw", "dos"}
  /\ stage = "start"
  /\ child = "none"
  /\ blocked = (kind = "dos")
  /\ size = 0 /\ winsize = 0
  /\ pipe = << >>
  /\ input = << >>
  /\ refresh = FALSE
  /\ typed = 0
  /\ pty = << >>
  /\ consumed = {}
  /\ resizes = 0 /\ gosubs = 0

-----------------------------------------------------------------------------
(* The user, and the other sessions.                                       *)

Type ==
  /\ \E n \in 1 .. MaxKeys - typed :
       /\ typed' = typed + n
       /\ pipe' = Append(pipe, [event |-> "input", data |-> [i \in 1 .. n |-> typed + i]])
  /\ UNCHANGED <<kind, stage, child, blocked, size, winsize, input, refresh, pty, consumed,
                 resizes, gosubs>>

ResizeTerminal ==
  /\ resizes < MaxResizes
  /\ resizes' = resizes + 1
  /\ pipe' = Append(pipe, [event |-> "refresh", data |-> resizes'])
  /\ UNCHANGED <<kind, stage, child, blocked, size, winsize, input, refresh, typed, pty,
                 consumed, gosubs>>

\* A chat request, say.
SendGosub ==
  /\ gosubs < MaxGosubs
  /\ gosubs' = gosubs + 1
  /\ pipe' = Append(pipe, [event |-> "gosub"])
  /\ UNCHANGED <<kind, stage, child, blocked, size, winsize, input, refresh, typed, pty,
                 consumed, resizes>>

-----------------------------------------------------------------------------
(* The door.                                                               *)

\* run: the child gives its pty the size of the terminal.
Run ==
  /\ stage = "start"
  /\ stage' = "select" /\ child' = "running"
  /\ winsize' = size
  /\ UNCHANGED <<kind, blocked, size, pipe, input, refresh, typed, pty, consumed, resizes, gosubs>>

ChildExits ==
  /\ child = "running"
  /\ child' = "exited"
  /\ UNCHANGED <<kind, stage, blocked, size, winsize, pipe, input, refresh, typed, pty,
                 consumed, resizes, gosubs>>

BlockElapses ==
  /\ blocked /\ stage # "start"
  /\ blocked' = FALSE
  /\ UNCHANGED <<kind, stage, child, size, winsize, pipe, input, refresh, typed, pty,
                 consumed, resizes, gosubs>>

Buffered == UNION {ToSet(input[i]) : i \in DOMAIN input}

\* DOSDoor.run flushes the input in the end: what is buffered, and not what is still
\* in the pipe, for a poll does not read from it.
Ends ==
  /\ stage' = "done"
  /\ IF kind = "dos"
     THEN /\ input' = << >>
          /\ consumed' = consumed \cup Buffered
     ELSE UNCHANGED <<input, consumed>>

\* _loop, the first half of a turn: reading fails once the child is gone.
Select ==
  /\ stage = "select"
  /\ IF child = "exited" THEN Ends ELSE stage' = "events" /\ UNCHANGED <<input, consumed>>
  /\ UNCHANGED <<kind, child, blocked, size, winsize, pipe, refresh, typed, pty, resizes, gosubs>>

\* read_events, time_ipoll
NoEvent ==
  /\ stage = "events" /\ input = << >>
  /\ stage' = "select"
  /\ UNCHANGED <<kind, child, blocked, size, winsize, pipe, input, refresh, typed, pty,
                 consumed, resizes, gosubs>>

\* mutant of Rebuffered: what the pty did not take is dropped
RebufferedNothing(buffer, rest) == buffer

\* buffer_input of the rest, at the end it is popped from
Rebuffered(buffer, rest) == IF rest = << >> THEN buffer ELSE Append(buffer, rest)

\* input_filter, and the write, of some of the keys or none.
WriteInput(data, buffer) ==
  IF kind = "dos" /\ blocked
  THEN /\ consumed' = consumed \cup ToSet(data) /\ input' = buffer
       /\ stage' = "select" /\ UNCHANGED pty
  ELSE \E n_written \in 0 .. Len(data) :
         /\ pty' = pty \o SubSeq(data, 1, n_written)
         /\ input' = Rebuffered(buffer, SubSeq(data, n_written + 1, Len(data)))
         /\ stage' = "select" /\ UNCHANGED consumed

\* What is buffered is taken before the pipe is read.
InputEvent ==
  /\ stage = "events"
  /\ IF input # << >>
     THEN WriteInput(Last(input), Front(input)) /\ UNCHANGED pipe
     ELSE /\ pipe # << >> /\ Head(pipe).event = "input" /\ (refresh => kind = "raw")
          /\ pipe' = Tail(pipe)
          /\ WriteInput(Head(pipe).data, input)
  /\ UNCHANGED <<kind, child, blocked, size, winsize, refresh, typed, resizes, gosubs>>

\* The pty is closed at the other end: OSError, what was to be written is lost.
WriteFails ==
  /\ stage = "events" /\ child = "exited"
  /\ \/ /\ input # << >>
        /\ input' = Front(input) /\ consumed' = consumed \cup ToSet(Last(input))
        /\ UNCHANGED pipe
     \/ /\ input = << >> /\ pipe # << >> /\ Head(pipe).event = "input"
        /\ pipe' = Tail(pipe) /\ consumed' = consumed \cup ToSet(Head(pipe).data)
        /\ UNCHANGED input
  /\ stage' = "done"
  /\ UNCHANGED <<kind, child, blocked, size, winsize, refresh, typed, pty, resizes, gosubs>>

\* The size of the terminal changes as the event is received.
ReceiveRefresh ==
  /\ stage = "events" /\ input = << >>
  /\ pipe # << >> /\ Head(pipe).event = "refresh" /\ (refresh => kind = "raw")
  /\ pipe' = Tail(pipe)
  /\ size' = Head(pipe).data
  /\ refresh' = TRUE
  /\ UNCHANGED <<kind, stage, child, blocked, winsize, input, typed, pty, consumed, resizes, gosubs>>

\* resize of Door, and of DOSDoor, which "does nothing"
Resized == IF kind = "dos" THEN winsize ELSE size

RefreshEvent ==
  /\ stage = "events" /\ input = << >> /\ refresh /\ kind # "raw"
  /\ refresh' = FALSE
  /\ winsize' = Resized
  /\ stage' = "select"
  /\ UNCHANGED <<kind, child, blocked, size, pipe, input, typed, pty, consumed, resizes, gosubs>>

\* buffer_event runs the script.
ReceiveGosub ==
  /\ stage = "events" /\ input = << >>
  /\ pipe # << >> /\ Head(pipe).event = "gosub" /\ (refresh => kind = "raw")
  /\ pipe' = Tail(pipe)
  /\ stage' = "nested"
  /\ UNCHANGED <<kind, child, blocked, size, winsize, input, refresh, typed, pty, consumed,
                 resizes, gosubs>>

\* It reads events of its own,
NestedReads ==
  /\ stage = "nested"
  /\ pipe # << >> /\ Head(pipe).event # "gosub"
  /\ pipe' = Tail(pipe)
  /\ IF Head(pipe).event = "input"
     THEN consumed' = consumed \cup ToSet(Head(pipe).data) /\ UNCHANGED <<size, refresh>>
     ELSE /\ size' = Head(pipe).data /\ refresh' \in BOOLEAN
          /\ UNCHANGED consumed
  /\ UNCHANGED <<kind, stage, child, blocked, winsize, input, typed, pty, resizes, gosubs>>

\* and leaves a refresh event behind.
NestedEnds ==
  /\ stage = "nested"
  /\ refresh' = TRUE
  /\ stage' = "events"
  /\ UNCHANGED <<kind, child, blocked, size, winsize, pipe, input, typed, pty, consumed,
                 resizes, gosubs>>

Next ==
  \/ Type \/ ResizeTerminal \/ SendGosub
  \/ Run \/ ChildExits \/ BlockElapses \/ Select \/ NoEvent
  \/ InputEvent \/ WriteFails \/ ReceiveRefresh \/ RefreshEvent
  \/ ReceiveGosub \/ NestedReads \/ NestedEnds

Spec == Init /\ [][Next]_vars

-----------------------------------------------------------------------------
(* Properties.                                                             *)

Ascending(data) == \A i, j \in DOMAIN data : i < j => data[i] < data[j]
Before(some, others) == \A key \in some, other \in others : key < other

KeysOf(event) == IF event.event = "input" THEN ToSet(event.data) ELSE {}
Written  == ToSet(pty)
UnderWay == UNION {KeysOf(pipe[i]) : i \in DOMAIN pipe}

\* The keys of each place are in order, and so are the places; but for the pipe there is
\* at most the rest of one event.
KeysInOrder ==
  /\ Ascending(pty)
  /\ Len(input) <= 1 /\ \A i \in DOMAIN input : Ascending(input[i])
  /\ \A i \in DOMAIN pipe : pipe[i].event = "input" => Ascending(pipe[i].data)
  /\ \A i, j \in DOMAIN pipe : i < j => Before(KeysOf(pipe[i]), KeysOf(pipe[j]))
  /\ Before(Written, Buffered) /\ Before(Written \cup Buffered, UnderWay)

\* No key is lost, repeated or overtaken on its way to the door, however little of it
\* the pty takes at a time: but for those that another script took, and those that
\* a DOSDoor drops or the end of the door loses, the keys written, buffered and
\* under way are those typed.
DoorReadsInOrder ==
  /\ KeysInOrder
  /\ Written \cup Buffered \cup UnderWay = (1 .. typed) \ consumed
=============================================================================
