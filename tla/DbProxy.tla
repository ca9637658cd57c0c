------------------------------ MODULE DbProxy ------------------------------
(***************************************************************************)
(* The requests that one session makes of a shared database                *)
(* (bbs/dbproxy.py), the threads of the engine that carry them out         *)
(* (DBHandler, db.py), and the answers in the session's pipe.              *)
(*                                                                         *)
(* An answer bears the name of the database and of nothing else.  While a  *)
(* session waits for one in read_event(), a `gosub' event may run another  *)
(* script, which makes requests of its own.                                *)
(***************************************************************************)
EXTENDS Naturals, Sequences, SequencesExt

CONSTANTS
  MaxRequests,   \* requests made in all (a bound)
  MaxGosubs,     \* scripts that events start (a bound)
  NumItems       \* items of an iteration

DbProxyAssumption == MaxRequests \in Nat /\ MaxGosubs \in Nat /\ NumItems \in Nat

Request == 1 .. MaxRequests
Event   == {"method", "iterate"}    \* 'db-<schema>' and 'db=<schema>'
Part    == {"answer", "start", "item", "stop", "exception"}

VARIABLES
  made,      \* requests made so far
  kind,      \* the event of each
  handlers,  \* what each handler has still to send, by request
  pipe,      \* answers on their way to the session
  buffer,    \* answers buffered by the session, by event
  asking,    \* requests not done with, one inside another
  gosubs,    \* scripts that events have started
  mixed,     \* a request was made before the last one was done with, or one was left
  unopened,  \* requests whose handler cannot open the database
  got        \* the last answer taken: by which request, and whose it was

vars == <<made, kind, handlers, pipe, buffer, asking, gosubs, mixed, unopened, got>>

Answer == [of : Request, part : Part]
Ask    == [request : Request, state : {"first", "next", "held"}, nested : BOOLEAN]

TypeOK ==
  /\ made \in 0 .. MaxRequests
  /\ kind \in [Request -> Event]
  /\ handlers \in [Request -> Seq(Part)]
  /\ pipe \in Seq(Answer)
  /\ buffer \in [Event -> Seq(Answer)]
  /\ asking \in Seq(Ask)
  /\ gosubs \in 0 .. MaxGosubs
  /\ mixed \in BOOLEAN
  /\ unopened \subseteq Request
  /\ got \in [by : 0 .. MaxRequests, of : 0 .. MaxRequests]

Init ==
  /\ made = 0
  /\ kind = [r \in Request |-> "method"]
  /\ handlers = [r \in Request |-> << >>]
  /\ pipe = << >>
  /\ buffer = [e \in Event |-> << >>]
  /\ asking = << >>
  /\ gosubs = 0
  /\ mixed = FALSE
  /\ unopened = {}
  /\ got = [by |-> 0, of |-> 0]

-----------------------------------------------------------------------------
(* Handlers.                                                               *)

Items(n) == [i \in 1 .. n |-> "item"]

\* mutant of Parts: what func() raises is not sent
PartsUnraised(event) ==
  IF event = "method" THEN {<<"answer">>, << >>}
  ELSE {<<"start">> \o Items(NumItems) \o <<"stop">>}

\* mutant of Parts: what is raised after the result is sent too
PartsTwice(event) ==
  IF event = "method" THEN {<<"answer">>, <<"answer", "exception">>}
  ELSE {<<"start">> \o Items(NumItems) \o <<"stop">>}

\* What run() may send: a result, or an iteration, or the exception that func()
\* raises, after the start of an iteration and some of its items.
Parts(event) ==
  IF event = "method" THEN {<<"answer">>, <<"exception">>}
  ELSE {<<"start">> \o Items(NumItems) \o <<"stop">>}
       \cup {<<"start">> \o Items(n) \o <<"exception">> : n \in 0 .. NumItems}

\* The handlers of a session run at the same time.
HandlerSends(r) ==
  /\ handlers[r] # << >>
  /\ handlers' = [handlers EXCEPT ![r] = Tail(@)]
  /\ pipe' = Append(pipe, [of |-> r, part |-> Head(handlers[r])])
  /\ UNCHANGED <<made, kind, buffer, asking, gosubs, mixed, unopened, got>>

-----------------------------------------------------------------------------
(* The session.                                                            *)

\* A script runs: there is no request, or the last one made is an iteration
\* that it holds between two items, or waits below the script.
Running == asking # << >> => Last(asking).nested \/ Last(asking).state = "held"
Waiting == ~Running

Flushed(event) == [buffer EXCEPT ![event] = << >>]

\* proxy_method_session, and proxy_iter_session with its flush.  What is raised
\* before the handler's try, as the database is opened, is not sent.
MakeRequest(event) ==
  /\ Running
  /\ made < MaxRequests
  /\ made' = made + 1
  /\ kind' = [kind EXCEPT ![made'] = event]
  /\ \/ \E parts \in Parts(event) : handlers' = [handlers EXCEPT ![made'] = parts]
        /\ UNCHANGED unopened
     \/ unopened' = unopened \cup {made'} /\ UNCHANGED handlers
  /\ buffer' = IF event = "iterate" THEN Flushed(event) ELSE buffer
  /\ asking' = Append(asking, [request |-> made', state |-> "first", nested |-> FALSE])
  /\ mixed' = (mixed \/ asking # << >>)
  /\ UNCHANGED <<pipe, gosubs, got>>

\* An exception reaches run(): every script is left.
GiveUp == asking' = << >>

\* The script that makes the last request takes an answer to its event.
Accept(answer, b) ==
  LET ask == Last(asking)
      event == kind[ask.request]
      state(s) == [asking EXCEPT ![Len(asking)].state = s]
  IN
    /\ got' = [by |-> ask.request, of |-> answer.of]
    /\ \/ /\ event = "method"
          /\ asking' = Front(asking)
          /\ buffer' = b
       \/ /\ event = "iterate"
          /\ ask.state = "first"
          /\ IF answer.part = "start" THEN asking' = state("next") ELSE GiveUp
          /\ buffer' = b
       \/ /\ event = "iterate"
          /\ ask.state = "next"
          /\ IF answer.part = "stop"
             THEN asking' = Front(asking) /\ buffer' = [b EXCEPT ![event] = << >>]
             ELSE asking' = state("held") /\ buffer' = b

\* _pop_event_buffer
ReadBuffered ==
  /\ Waiting
  /\ LET event == kind[Last(asking).request] IN
       /\ buffer[event] # << >>
       /\ Accept(Head(buffer[event]), [buffer EXCEPT ![event] = Tail(@)])
  /\ UNCHANGED <<made, kind, handlers, pipe, gosubs, mixed, unopened>>

Receive ==
  /\ Waiting
  /\ buffer[kind[Last(asking).request]] = << >>
  /\ pipe # << >>
  /\ pipe' = Tail(pipe)
  /\ LET answer == Head(pipe)
         event  == kind[answer.of]
     IN  \/ /\ answer.part = "exception"
            /\ got' = [by |-> Last(asking).request, of |-> answer.of]
            /\ GiveUp
            /\ UNCHANGED buffer
         \/ /\ answer.part # "exception"
            /\ event = kind[Last(asking).request]
            /\ Accept(answer, buffer)
         \/ /\ answer.part # "exception"
            /\ event # kind[Last(asking).request]
            /\ buffer' = [buffer EXCEPT ![event] = Append(@, answer)]
            /\ UNCHANGED <<asking, got>>
  /\ UNCHANGED <<made, kind, handlers, gosubs, mixed, unopened>>

Held == asking # << >> /\ Last(asking).state = "held" /\ ~Last(asking).nested

\* The script asks the generator it holds for another item.
NextItem ==
  /\ Held
  /\ asking' = [asking EXCEPT ![Len(asking)].state = "next"]
  /\ UNCHANGED <<made, kind, handlers, pipe, buffer, gosubs, mixed, unopened, got>>

\* The script leaves the generator: what it has not read stays in the pipe.
LeaveIteration ==
  /\ Held
  /\ asking' = Front(asking)
  /\ mixed' = TRUE
  /\ UNCHANGED <<made, kind, handlers, pipe, buffer, gosubs, unopened, got>>

\* read_events: a `gosub' event starts a script, and the script returns.
Interrupt ==
  /\ Waiting
  /\ gosubs < MaxGosubs
  /\ gosubs' = gosubs + 1
  /\ asking' = [asking EXCEPT ![Len(asking)].nested = TRUE]
  /\ UNCHANGED <<made, kind, handlers, pipe, buffer, mixed, unopened, got>>

Resume ==
  /\ asking # << >>
  /\ Last(asking).nested
  /\ asking' = [asking EXCEPT ![Len(asking)].nested = FALSE]
  /\ UNCHANGED <<made, kind, handlers, pipe, buffer, gosubs, mixed, unopened, got>>

\* Every request is done with, or waits for an answer that does not come.
Finished ==
  /\ \A r \in Request : handlers[r] = << >>
  /\ \/ made = MaxRequests /\ asking = << >>
     \/ Waiting /\ pipe = << >> /\ gosubs = MaxGosubs
  /\ UNCHANGED vars

Read == ReadBuffered \/ Receive

Next ==
  \/ \E r \in Request : HandlerSends(r)
  \/ \E event \in Event : MakeRequest(event)
  \/ Read
  \/ NextItem
  \/ LeaveIteration
  \/ Interrupt
  \/ Resume
  \/ Finished

Fairness ==
  /\ \A r \in Request : WF_vars(HandlerSends(r))
  /\ WF_vars(Read)
  /\ WF_vars(NextItem)
  /\ WF_vars(Resume)

Spec == Init /\ [][Next]_vars /\ Fairness

-----------------------------------------------------------------------------
(* Properties.                                                             *)

\* A session whose scripts are done with one request before they make another
\* takes, for each request, the answer to that request.
OwnAnswer == ~mixed => got.by = got.of

\* ... and does not wait for ever, if its databases can be opened: what waits is in
\* the end done with, or mixed with another request.
Waits(r) == ~mixed /\ r \notin unopened /\ \E i \in DOMAIN asking : asking[i].request = r
=============================================================================
