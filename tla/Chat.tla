-------------------------------- MODULE Chat --------------------------------
(***************************************************************************)
(* "Who's online" and the chats that begin there (default/online.py,       *)
(* default/chat.py).  Sessions send each other events by way of the        *)
(* engine's 'route' and 'global'.  A call is a 'gosub': the session called *)
(* runs the chat script inside whatever it was reading events for, which   *)
(* may be another chat.                                                    *)
(*                                                                         *)
(* The engine keeps the order in which a session sends, and drops what is  *)
(* for a session that left.  An event is put into the pipe of its receiver *)
(* as it is sent.  The chat events do not say who sent them: 'from' is     *)
(* here for the engine, which knows whose pipe it reads, and the property. *)
(*                                                                         *)
(* As the engine kills a session it throws away what it has not read of    *)
(* it, and closes its pipe before the session knows (unregister_tty):      *)
(* there is a last event that is read, and what the session sends after    *)
(* that, the hang-up of its chats included, is lost.                       *)
(***************************************************************************)
EXTENDS Integers, Sequences, SequencesExt, FiniteSets

CONSTANTS
  Session,
  Rejecting,  \* of kinds other than telnet and ssh
  MaxAsks,    \* requests to all, "are you there?" (a bound)
  MaxCalls,   \* calls (a bound)
  MaxKeys     \* keys typed to others (a bound)

ChatAssumption ==
  Rejecting \subseteq Session /\ MaxAsks \in Nat /\ MaxCalls \in Nat /\ MaxKeys \in Nat

VARIABLES
  where,     \* the script at the bottom of each session's stack
  sessions,  \* online: what is known of the others
  calls,     \* the chats of a session, the innermost last
  pipe,      \* events on their way to a session
  buffered,  \* its buffer of 'chat' events
  answers,   \* its buffers of 'ACK' and 'info-ack'
  bounds,    \* how often the bounded actions were taken
  unheard,   \* of which the engine reads no more: it kills them
  mixed      \* a session began a chat inside another, or took what belongs to another
             \* call for its own (only CallsHaveTwoEnds reads it)

vars == <<where, sessions, calls, pipe, buffered, answers, bounds, unheard, mixed>>

Stage == {"dialing", "answering", "prompt", "talking", "ended"}
Call  == [other : Session, stage : Stage]
Event == [event : {"AYT", "ACK", "info-req", "info-ack", "gosub"}, from : Session]
           \cup [event : {"chat"}, from : Session,
                 data : {"ANSWER", "HANGUP", "REJECTED", "key"}]

TypeOK ==
  /\ where \in [Session -> {"menu", "online", "gone"}]
  /\ sessions \in [Session -> [Session -> {"unknown", "acknowledged", "known"}]]
  /\ \A s \in Session : calls[s] \in Seq(Call) /\ Len(calls[s]) <= MaxCalls
  /\ \A s \in Session : pipe[s] \in Seq(Event)
  /\ \A s \in Session : \A i \in DOMAIN buffered[s] : buffered[s][i] \in Event
  /\ \A s \in Session : \A answer \in answers[s] :
       answer \in Event /\ answer.event \in {"ACK", "info-ack"}
  /\ \A s \in Session : where[s] = "gone" =>
       calls[s] = << >> /\ pipe[s] = << >> /\ buffered[s] = << >>
  /\ bounds \in [asks : 0 .. MaxAsks, calls : 0 .. MaxCalls, keys : 0 .. MaxKeys]
  /\ unheard \subseteq Session
  /\ mixed \in BOOLEAN

Init ==
  /\ where = [s \in Session |-> "menu"]
  /\ sessions = [s \in Session |-> [t \in Session |-> "unknown"]]
  /\ calls = [s \in Session |-> << >>]
  /\ pipe = [s \in Session |-> << >>]
  /\ buffered = [s \in Session |-> << >>]
  /\ answers = [s \in Session |-> {}]
  /\ bounds = [asks |-> 0, calls |-> 0, keys |-> 0]
  /\ unheard = {}
  /\ mixed = FALSE

-----------------------------------------------------------------------------
Online(s) == where[s] # "gone"
Chat(what, s) == [event |-> "chat", from |-> s, data |-> what]
Plain(event, s) == [event |-> event, from |-> s]

\* 'route', to a session that may have left
Routed(pipes, event, to) ==
  IF Online(to) /\ event.from \notin unheard
  THEN [pipes EXCEPT ![to] = Append(@, event)] ELSE pipes

\* What a session does next is up to its innermost chat, or to the script below it.
Free(s)      == where[s] = "online" /\ calls[s] = << >>
At(s, stage) == calls[s] # << >> /\ Last(calls[s]).stage = stage
Other(s)     == Last(calls[s]).other
Goes(s, stage) == calls' = [calls EXCEPT ![s][Len(calls[s])].stage = stage]

\* do_chat flushes 'chat' before it does anything else.
Began(s, other, stage) ==
  /\ calls' = [calls EXCEPT ![s] = Append(@, [other |-> other, stage |-> stage])]
  /\ buffered' = [buffered EXCEPT ![s] = << >>]
  /\ mixed' = (mixed \/ calls[s] # << >>)

-----------------------------------------------------------------------------
(* Who is online.                                                          *)

EnterOnline(s) ==
  /\ where[s] = "menu" /\ calls[s] = << >>
  /\ where' = [where EXCEPT ![s] = "online"]
  /\ UNCHANGED <<sessions, calls, pipe, buffered, answers, bounds, unheard, mixed>>

\* broadcast_ayt
Ask(s) ==
  /\ Free(s) /\ bounds.asks < MaxAsks
  /\ pipe' = [t \in Session |-> IF t # s /\ Online(t) /\ s \notin unheard
                                 THEN Append(pipe[t], Plain("AYT", s)) ELSE pipe[t]]
  /\ bounds' = [bounds EXCEPT !.asks = @ + 1]
  /\ UNCHANGED <<where, sessions, calls, buffered, answers, unheard, mixed>>

\* "prune users who haven't responded"
Prune(s) ==
  /\ Free(s)
  /\ \E t \in Session : /\ sessions[s][t] # "unknown"
                        /\ sessions' = [sessions EXCEPT ![s][t] = "unknown"]
  /\ UNCHANGED <<where, calls, pipe, buffered, answers, bounds, unheard, mixed>>

\* The dictionary of sessions is the script's own.  Asked to chat with a session that
\* acknowledged only, the script ends with a KeyError ('sid').
LeaveOnline(s) ==
  /\ Free(s)
  /\ where' = [where EXCEPT ![s] = "menu"]
  /\ sessions' = [sessions EXCEPT ![s] = [t \in Session |-> "unknown"]]
  /\ UNCHANGED <<calls, pipe, buffered, answers, bounds, unheard, mixed>>

-----------------------------------------------------------------------------
(* Events.                                                                 *)

\* do_chat takes what is buffered before it reads from the pipe; elsewhere the 'chat'
\* events stay in the buffer.
Waiting(s) == At(s, "dialing") \/ At(s, "answering") \/ At(s, "talking")
Reads(s)   == Online(s) /\ pipe[s] # << >> /\ ~(Waiting(s) /\ buffered[s] # << >>)
NextOf(s)  == Head(pipe[s])
Read(s)    == [pipe EXCEPT ![s] = Tail(@)]

\* buffer_event answers AYT and info-req.
ReceiveRequest(s) ==
  /\ Reads(s)
  /\ \/ NextOf(s).event = "AYT" /\ pipe' = Routed(Read(s), Plain("ACK", s), NextOf(s).from)
     \/ NextOf(s).event = "info-req"
        /\ pipe' = Routed(Read(s), Plain("info-ack", s), NextOf(s).from)
  /\ UNCHANGED <<where, sessions, calls, buffered, answers, bounds, unheard, mixed>>

\* Whatever the session is doing, they are kept for the script that polls for them.
ReceiveAnswer(s) ==
  /\ Reads(s) /\ NextOf(s).event \in {"ACK", "info-ack"}
  /\ answers' = [answers EXCEPT ![s] = @ \cup {NextOf(s)}]
  /\ pipe' = Read(s)
  /\ UNCHANGED <<where, sessions, calls, buffered, bounds, unheard, mixed>>

\* "add sessions that respond to AYT", and request their attributes
Acknowledged(s) ==
  /\ Free(s)
  /\ \E ack \in answers[s] :
       /\ ack.event = "ACK"
       /\ IF sessions[s][ack.from] = "unknown"
          THEN /\ sessions' = [sessions EXCEPT ![s][ack.from] = "acknowledged"]
               /\ pipe' = Routed(pipe, Plain("info-req", s), ack.from)
          ELSE UNCHANGED <<sessions, pipe>>
       /\ answers' = [answers EXCEPT ![s] = @ \ {ack}]
  /\ UNCHANGED <<where, calls, buffered, bounds, unheard, mixed>>

\* "update sessions that respond to info-req"
Updated(s) ==
  /\ Free(s)
  /\ \E info \in answers[s] :
       /\ info.event = "info-ack"
       /\ sessions' = [sessions EXCEPT ![s][info.from] = "known"]
       /\ answers' = [answers EXCEPT ![s] = @ \ {info}]
  /\ UNCHANGED <<where, calls, pipe, buffered, bounds, unheard, mixed>>

\* main of chat, called: rejected, or inside what the session is doing
ReceiveCall(s) ==
  /\ Reads(s) /\ NextOf(s).event = "gosub"
  /\ IF s \in Rejecting
     THEN /\ pipe' = Routed(Read(s), Chat("REJECTED", s), NextOf(s).from)
          /\ UNCHANGED <<calls, buffered, mixed>>
     ELSE Began(s, NextOf(s).from, "answering") /\ pipe' = Read(s)
  /\ UNCHANGED <<where, sessions, answers, bounds, unheard>>

ReceiveChat(s) ==
  /\ Reads(s) /\ NextOf(s).event = "chat"
  /\ buffered' = [buffered EXCEPT ![s] = Append(@, NextOf(s))]
  /\ pipe' = Read(s)
  /\ UNCHANGED <<where, sessions, calls, answers, bounds, unheard, mixed>>

\* do_chat.  Keys go to the lower window, at whatever stage.
ChatEvent(s) ==
  /\ Waiting(s) /\ buffered[s] # << >>
  /\ LET what == Head(buffered[s]).data IN
     CASE what \in {"HANGUP", "REJECTED"}        -> Goes(s, "ended")
       [] what = "ANSWER" /\ At(s, "dialing")    -> Goes(s, "talking")
       [] what = "ANSWER" /\ ~At(s, "dialing")   -> UNCHANGED calls
       [] what = "key"                           -> UNCHANGED calls
  /\ buffered' = [buffered EXCEPT ![s] = Tail(@)]
  /\ mixed' = (mixed \/ Head(buffered[s]).from # Other(s))
  /\ UNCHANGED <<where, sessions, pipe, answers, bounds, unheard>>

-----------------------------------------------------------------------------
(* What the user does.                                                     *)

\* chat of online, of a session that may have left meanwhile
Dial(s) ==
  /\ Free(s) /\ bounds.calls < MaxCalls
  /\ \E t \in Session \ {s} :
       /\ sessions[s][t] = "known"
       /\ Began(s, t, "dialing")
       /\ pipe' = Routed(pipe, Plain("gosub", s), t)
  /\ bounds' = [bounds EXCEPT !.calls = @ + 1]
  /\ UNCHANGED <<where, sessions, answers, unheard>>

\* do_answer, 'y'
Answer(s) ==
  /\ At(s, "answering") \/ At(s, "prompt")
  /\ buffered[s] = << >> \/ At(s, "prompt")
  /\ pipe' = Routed(pipe, Chat("ANSWER", s), Other(s))
  /\ Goes(s, "talking")
  /\ UNCHANGED <<where, sessions, buffered, answers, bounds, unheard, mixed>>

\* Neither 'y' nor 'n': do_answer goes on, and reads input only.
Hesitate(s) ==
  /\ At(s, "answering") /\ buffered[s] = << >>
  /\ Goes(s, "prompt")
  /\ UNCHANGED <<where, sessions, pipe, buffered, answers, bounds, unheard, mixed>>

Type(s) ==
  /\ At(s, "talking") /\ buffered[s] = << >> /\ bounds.keys < MaxKeys
  /\ pipe' = Routed(pipe, Chat("key", s), Other(s))
  /\ bounds' = [bounds EXCEPT !.keys = @ + 1]
  /\ UNCHANGED <<where, sessions, calls, buffered, answers, unheard, mixed>>

\* mutant of HangUps: only who left before there was an answer hangs up
HangUpsUnlessLeft(s, chats, t) ==
  [i \in 1 .. Cardinality({i \in DOMAIN chats : chats[i].other = t /\ chats[i].stage # "talking"})
     |-> Chat("HANGUP", s)]

\* do_hangup, "finally": what t is sent as these chats of s end
HangUps(s, chats, t) ==
  [i \in 1 .. Cardinality({i \in DOMAIN chats : chats[i].other = t}) |-> Chat("HANGUP", s)]

HungUp(s, chats) ==
  [t \in Session |-> IF Online(t) /\ s \notin unheard
                     THEN pipe[t] \o HangUps(s, chats, t) ELSE pipe[t]]

\* 'q', 'n', Escape, or any key once the other has hung up
Leave(s) ==
  /\ calls[s] # << >> /\ (Waiting(s) => buffered[s] = << >>)
  /\ pipe' = HungUp(s, <<Last(calls[s])>>)
  /\ calls' = [calls EXCEPT ![s] = Front(@)]
  /\ UNCHANGED <<where, sessions, buffered, answers, bounds, unheard, mixed>>

\* kill_session has begun, or will before it reads anything more of the session.
Unheard(s) ==
  /\ Online(s) /\ s \notin unheard
  /\ unheard' = unheard \cup {s}
  /\ UNCHANGED <<where, sessions, calls, pipe, buffered, answers, bounds, mixed>>

\* Disconnected is raised through every chat of the session: it was killed, or it
\* disconnects itself (disconnect(), session.py:40), which leaves its pipe open.
Disconnect(s) ==
  /\ Online(s)
  /\ where' = [where EXCEPT ![s] = "gone"]
  /\ pipe' = [HungUp(s, calls[s]) EXCEPT ![s] = << >>]
  /\ calls' = [calls EXCEPT ![s] = << >>]
  /\ buffered' = [buffered EXCEPT ![s] = << >>]
  /\ answers' = [answers EXCEPT ![s] = {}]
  /\ sessions' = [sessions EXCEPT ![s] = [t \in Session |-> "unknown"]]
  /\ UNCHANGED <<bounds, unheard, mixed>>

Finished ==
  /\ \A s \in Session : where[s] = "gone"
  /\ UNCHANGED vars

Next ==
  \/ \E s \in Session :
       \/ EnterOnline(s) \/ Ask(s) \/ Prune(s) \/ LeaveOnline(s)
       \/ ReceiveRequest(s) \/ ReceiveAnswer(s) \/ ReceiveCall(s) \/ ReceiveChat(s)
       \/ Acknowledged(s) \/ Updated(s) \/ ChatEvent(s)
       \/ Dial(s) \/ Answer(s) \/ Hesitate(s) \/ Type(s) \/ Leave(s)
       \/ Unheard(s) \/ Disconnect(s)
  \/ Finished

Spec == Init /\ [][Next]_vars

-----------------------------------------------------------------------------
(* Properties.                                                             *)

Ends(s) == {i \in DOMAIN s : s[i].event = "chat" /\ s[i].data \in {"HANGUP", "REJECTED"}}

\* Nobody goes on chatting with a session that does not: the other end has the chat,
\* is about to be called, or what it sent to end the call waits to be read.  Not told
\* are who chats with a session that the engine kills, whose hang-up is lost; who
\* dials a session that has left; and who is being killed.  (A chat that begins inside
\* another throws away what is buffered, the end of the outer one included, and an
\* answer of somebody called before counts as the answer to this call: mixed.)
CallsHaveTwoEnds ==
  ~mixed =>
    \A s \in Session : \A i \in DOMAIN calls[s] :
      LET t == calls[s][i].other IN
        \/ calls[s][i].stage = "ended"
        \/ \E j \in DOMAIN calls[t] : calls[t][j].other = s
        \/ Plain("gosub", s) \in ToSet(pipe[t])
        \/ Ends(pipe[s]) # {} \/ Ends(buffered[s]) # {}
        \/ calls[s][i].stage = "dialing" /\ ~Online(t)
        \/ t \in unheard \/ s \in unheard
=============================================================================
