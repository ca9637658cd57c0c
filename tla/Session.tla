------------------------------ MODULE Session ------------------------------
(***************************************************************************)
(* One session process (bbs/session.py): the events it reads from its      *)
(* pipe and buffers by name, the script stack, and the scripts that run,   *)
(* each called by the one before it.                                       *)
(*                                                                         *)
(* A script is called by run(), by another script (gosub), or by a `gosub' *)
(* event that arrives while a script waits in read_events().  The scripts  *)
(* are arbitrary: they read events, call, return, fail, go to another      *)
(* script or disconnect at any time.                                       *)
(*                                                                         *)
(* The data of an event is its number, in the order the engine sends them. *)
(***************************************************************************)
EXTENDS Naturals, Sequences, SequencesExt

CONSTANTS
  Script,     \* the board's scripts
  Matrix,     \* the script every session begins with
  Reads,      \* the sets of events that scripts wait for
  MaxEvents,  \* events the engine sends (a bound)
  MaxCalls,   \* calls that scripts make one inside another (a bound)
  GlobalMax   \* 'global' events that are buffered: 128

\* What is buffered.  `page' is any event without a rule of its own.
Kind == {"input", "refresh", "global", "page"}

\* What is handled as it arrives: a request for information, which is
\* answered, a script to run, an exception to raise.
Command == {"info-req", "gosub", "exception"}

SessionAssumption ==
  /\ Matrix \in Script /\ Reads \subseteq SUBSET Kind
  /\ MaxEvents \in Nat /\ MaxCalls \in Nat /\ GlobalMax \in Nat \ {0}

VARIABLES
  pipe,    \* events sent by the engine and not yet received
  sent,    \* how many it has sent
  buffer,  \* the events buffered, by kind, in the order they would be popped
  taken,   \* the last event that scripts took, by kind
  stack,   \* Session._script_stack
  calls,   \* the scripts that run, each with what it waits for
  closed   \* run() has returned

vars == <<pipe, sent, buffer, taken, stack, calls, closed>>

Event == [kind : Kind \cup Command, data : 0 .. MaxEvents]
Call  == [script : Script, waits : SUBSET Kind, timed : BOOLEAN]

TypeOK ==
  /\ pipe \in Seq(Event)
  /\ sent \in 0 .. MaxEvents
  /\ buffer \in [Kind -> Seq(0 .. MaxEvents)]
  /\ taken \in [Kind -> 0 .. MaxEvents]
  /\ stack \in Seq(Script)
  /\ calls \in Seq(Call)
  /\ closed \in BOOLEAN

Init ==
  /\ pipe = << >>
  /\ sent = 0
  /\ buffer = [k \in Kind |-> << >>]
  /\ taken = [k \in Kind |-> 0]
  /\ stack = <<Matrix>>
  /\ calls = << >>
  /\ closed = FALSE

-----------------------------------------------------------------------------
(* The buffers.                                                            *)

Limit(kind) == CASE kind = "refresh" -> 1
                 [] kind = "global"  -> GlobalMax
                 [] OTHER            -> MaxEvents + 1    \* 65534, never reached

\* mutant of Enqueued: put on the side it is popped from, as input is
EnqueuedNext(q, kind, data) ==
  IF Len(q) < Limit(kind) THEN <<data>> \o q ELSE <<data>> \o Front(q)

\* appendleft, popped from the right: a full deque loses the oldest.
Enqueued(q, kind, data) ==
  IF Len(q) < Limit(kind) THEN Append(q, data) ELSE Append(Tail(q), data)

\* buffer_event.  Input is appended to the side it is popped from.
Buffered(kind, data) ==
  [buffer EXCEPT ![kind] =
     IF kind = "input" THEN <<data>> \o @ ELSE Enqueued(@, kind, data)]

\* Terminal.kbhit pops input and pushes it back, to the other side, and
\* Terminal.getch pops again.
PushedBack(q) == Append(Tail(q), Head(q))

\* A script takes an event of `kind' from the buffers b.
Take(b, kind) ==
  LET q == IF kind = "input" THEN PushedBack(b[kind]) ELSE b[kind] IN
    /\ buffer' = [b EXCEPT ![kind] = Tail(q)]
    /\ taken' = [taken EXCEPT ![kind] = Head(q)]

-----------------------------------------------------------------------------
(* Scripts.                                                                *)

Running == calls # << >> /\ Last(calls).waits = {}
Waiting == calls # << >> /\ Last(calls).waits # {}

Resumed == [calls EXCEPT ![Len(calls)].waits = {}, ![Len(calls)].timed = FALSE]

Called(script) == [script |-> script, waits |-> {}, timed |-> FALSE]

\* A script that waits below another was interrupted by a `gosub' event.
Interrupted(i) == i < Len(calls) /\ calls[i].waits # {}

\* The `finally' of an event-driven gosub, as it returns or as an exception
\* goes through it.
Refreshed == Buffered("refresh", sent)

\* mutant of RefreshedIf: no `finally'
RefreshedNever(some) == buffer' = buffer

RefreshedIf(some) == buffer' = IF some THEN Refreshed ELSE buffer

\* runscript, until main() is called
RunScript(script) ==
  /\ stack' = IF calls = << >> THEN stack ELSE Append(stack, script)
  /\ calls' = Append(calls, Called(script))

\* run() pops the script on top of the stack, and runscript pushes it again.
Begin ==
  /\ calls = << >>
  /\ stack # << >>
  /\ ~closed
  /\ RunScript(Last(stack))
  /\ UNCHANGED <<pipe, sent, buffer, taken, closed>>

Gosub(script) ==
  /\ Running
  /\ Len(calls) < MaxCalls
  /\ RunScript(script)
  /\ UNCHANGED <<pipe, sent, buffer, taken, closed>>

\* mutant of Return: the script is left on the stack
ReturnKeepsScript ==
  /\ Running
  /\ stack' = stack
  /\ calls' = Front(calls)
  /\ RefreshedIf(Len(calls) > 1 /\ Interrupted(Len(calls) - 1))
  /\ UNCHANGED <<pipe, sent, taken, closed>>

\* main() returns.  A caller interrupted in read_events goes on waiting.
Return ==
  /\ Running
  /\ stack' = Front(stack)
  /\ calls' = Front(calls)
  /\ RefreshedIf(Len(calls) > 1 /\ Interrupted(Len(calls) - 1))
  /\ UNCHANGED <<pipe, sent, taken, closed>>

SomeInterrupted == \E i \in DOMAIN calls : Interrupted(i)

\* An exception goes up to run(), which drops the script on top of the stack
\* and resumes the one below from its start.
Fail ==
  /\ Running
  /\ stack' = Front(stack)
  /\ calls' = << >>
  /\ RefreshedIf(SomeInterrupted)
  /\ UNCHANGED <<pipe, sent, taken, closed>>

GoTo(script) ==
  /\ Running
  /\ stack' = <<script>>
  /\ calls' = << >>
  /\ RefreshedIf(SomeInterrupted)
  /\ UNCHANGED <<pipe, sent, taken, closed>>

\* disconnect(), or a Disconnected that is received
Close ==
  /\ calls' = << >>
  /\ closed' = TRUE
  /\ RefreshedIf(SomeInterrupted)
  /\ UNCHANGED <<sent, taken, stack>>

Disconnect ==
  /\ Running
  /\ Close
  /\ UNCHANGED pipe

\* run() ends with the stack empty.
EndOfStack ==
  /\ calls = << >>
  /\ stack = << >>
  /\ ~closed
  /\ closed' = TRUE
  /\ UNCHANGED <<pipe, sent, buffer, taken, stack, calls>>

FlushEvent(kind) ==
  /\ Running
  /\ buffer[kind] # << >>
  /\ buffer' = [buffer EXCEPT ![kind] = << >>]
  /\ UNCHANGED <<pipe, sent, taken, stack, calls, closed>>

-----------------------------------------------------------------------------
(* read_events.                                                            *)

\* _pop_event_buffer: what is buffered is returned at once.  (A poll, with a
\* timeout of -1, does this and never looks at the pipe.)
ReadBuffered(events) ==
  /\ Running
  /\ \E kind \in events : buffer[kind] # << >> /\ Take(buffer, kind)
  /\ UNCHANGED <<pipe, sent, stack, calls, closed>>

Wait(events, timed) ==
  /\ Running
  /\ \A kind \in events : buffer[kind] = << >>
  /\ calls' = [calls EXCEPT ![Len(calls)].waits = events, ![Len(calls)].timed = timed]
  /\ UNCHANGED <<pipe, sent, buffer, taken, stack, closed>>

\* An event the script waits for is returned: the one popped, which need not
\* be the one that came.
ReceiveBuffered(event) ==
  /\ event.kind \in Kind
  /\ IF event.kind \in Last(calls).waits
     THEN /\ Take(Buffered(event.kind, event.data), event.kind)
          /\ calls' = Resumed
     ELSE /\ buffer' = Buffered(event.kind, event.data)
          /\ UNCHANGED <<taken, calls>>
  /\ UNCHANGED <<sent, stack, closed>>

\* The answer is the `answer' of Engine's ReadOther.
ReceiveInfoReq(event) ==
  /\ event.kind = "info-req"
  /\ UNCHANGED <<sent, buffer, taken, stack, calls, closed>>

\* The call is one inside another more than gosub() may make.
ReceiveGosub(event) ==
  /\ event.kind = "gosub"
  /\ \E script \in Script : RunScript(script)
  /\ UNCHANGED <<sent, buffer, taken, closed>>

ReceiveException(event) ==
  /\ event.kind = "exception"
  /\ Close

Receive ==
  /\ Waiting
  /\ pipe # << >>
  /\ pipe' = Tail(pipe)
  /\ \/ ReceiveBuffered(Head(pipe))
     \/ ReceiveInfoReq(Head(pipe))
     \/ ReceiveGosub(Head(pipe))
     \/ ReceiveException(Head(pipe))

\* The pipe is empty for half a second: the buffers are looked at again.
NothingComes ==
  /\ Waiting
  /\ pipe = << >>
  /\ \E kind \in Last(calls).waits : buffer[kind] # << >> /\ Take(buffer, kind)
  /\ calls' = Resumed
  /\ UNCHANGED <<pipe, sent, stack, closed>>

\* The time is up, whatever has been buffered.
TimeOut ==
  /\ Waiting
  /\ Last(calls).timed
  /\ calls' = Resumed
  /\ UNCHANGED <<pipe, sent, buffer, taken, stack, closed>>

-----------------------------------------------------------------------------
Send(kind) ==
  /\ ~closed
  /\ kind # "exception"
  /\ sent < MaxEvents
  /\ sent' = sent + 1
  /\ pipe' = Append(pipe, [kind |-> kind, data |-> sent'])
  /\ UNCHANGED <<buffer, taken, stack, calls, closed>>

\* the Disconnected that kill_session sends, the last of all
HangUp ==
  /\ ~closed
  /\ \A i \in DOMAIN pipe : pipe[i].kind # "exception"
  /\ pipe' = Append(pipe, [kind |-> "exception", data |-> 0])
  /\ sent' = MaxEvents
  /\ UNCHANGED <<buffer, taken, stack, calls, closed>>

Finished ==
  /\ closed
  /\ UNCHANGED vars

ScriptStep ==
  \/ Return
  \/ Fail
  \/ Disconnect
  \/ \E script \in Script : Gosub(script) \/ GoTo(script)
  \/ \E kind \in Kind : FlushEvent(kind)
  \/ \E events \in Reads : ReadBuffered(events) \/ Wait(events, TRUE) \/ Wait(events, FALSE)

ReadEvents == Receive \/ NothingComes \/ TimeOut

Next ==
  \/ \E kind \in Kind \cup Command : Send(kind)
  \/ HangUp
  \/ Begin
  \/ ScriptStep
  \/ ReadEvents
  \/ EndOfStack
  \/ Finished

Spec == Init /\ [][Next]_vars

-----------------------------------------------------------------------------
(* Properties.                                                             *)

\* The scripts that run are the last on the script stack, in the order in
\* which they called each other: current_script is the one that runs, and the
\* one to resume after a failure is its caller.
StackIsCalls ==
  /\ Len(calls) <= Len(stack)
  /\ \A i \in DOMAIN calls : stack[Len(stack) - Len(calls) + i] = calls[i].script

\* Whatever scripts read, one inside another, they take the events of a kind in
\* the order the engine sent them, and none twice; but for input.
EventsInOrder ==
  \A kind \in {"global", "page"} :
    taken'[kind] # taken[kind] => taken'[kind] > taken[kind]

\* A script that was interrupted in read_events, and goes on waiting there,
\* finds a refresh: the one that interrupted it has drawn over its screen.
InterruptedIsRefreshed ==
  \A i \in DOMAIN calls :
    Interrupted(i) /\ Len(calls') = i /\ calls'[i].waits # {}
      => buffer'["refresh"] # << >>
=============================================================================
