------------------------------ MODULE ClientIO ------------------------------
(***************************************************************************)
(* The output buffer of a client (client.py).  While a telnet client       *)
(* negotiates, its connect thread sends what is buffered and the thread of *)
(* the event loop buffers the replies to what is received; once its        *)
(* terminal is registered the loop does both.                              *)
(*                                                                         *)
(* The buffer is an object that the client refers to: send_str() evaluates *)
(* `self.send_buffer' and appends to what it found, send() reads the       *)
(* buffer and replaces it by a new one.  Another thread may run between    *)
(* any two of these steps.  A byte stands for what one call buffers.       *)
(***************************************************************************)
EXTENDS Integers, Sequences

CONSTANTS
  MaxWrites,  \* calls of send_str (a bound)
  MaxBuffers  \* buffer objects (a bound)

ClientAssumption == MaxWrites \in Nat /\ MaxBuffers \in Nat

Thread == {"loop", "connect"}
Byte   == 1 .. MaxWrites

VARIABLES
  connecting,   \* the connect thread runs: the terminal is not registered
  buffers,      \* every buffer object there has been
  send_buffer,  \* the one the client refers to
  found,        \* the one each thread found
  pc,           \* what each thread does
  ready_bytes,  \* of the thread that sends
  arg,          \* what each thread passed to send_str()
  written,      \* how many calls of it there were
  before,       \* how many while the connect thread ran
  received      \* what the socket has taken

vars == <<connecting, buffers, send_buffer, found, pc, ready_bytes, arg, written, before,
          received>>

TypeOK ==
  /\ connecting \in BOOLEAN
  /\ buffers \in Seq(Seq(Byte))
  /\ send_buffer \in DOMAIN buffers
  /\ found \in [Thread -> DOMAIN buffers]
  /\ pc \in [Thread -> {"idle", "write", "new", "push", "rebuffer", "extend"}]
  /\ ready_bytes \in Seq(Byte)
  /\ arg \in [Thread -> 0 .. MaxWrites]
  /\ written \in 0 .. MaxWrites
  /\ before \in 0 .. MaxWrites
  /\ received \in Seq(Byte)

Init ==
  /\ connecting = TRUE
  /\ buffers = << << >> >>
  /\ send_buffer = 1
  /\ found = [t \in Thread |-> 1]
  /\ pc = [t \in Thread |-> "idle"]
  /\ ready_bytes = << >>
  /\ arg = [t \in Thread |-> 0]
  /\ written = 0
  /\ before = 0
  /\ received = << >>

-----------------------------------------------------------------------------
Runs(t)     == IF t = "connect" THEN connecting ELSE TRUE
Sends(t)    == t = "connect" <=> connecting
Goes(t, at) == pc' = [pc EXCEPT ![t] = at]
Finds(t)    == found' = [found EXCEPT ![t] = send_buffer]

\* send_str evaluates self.send_buffer.
WriteStr(t) ==
  /\ Runs(t) /\ pc[t] = "idle" /\ written < MaxWrites
  /\ Finds(t) /\ Goes(t, "write")
  /\ written' = written + 1
  /\ arg' = [arg EXCEPT ![t] = written']
  /\ UNCHANGED <<connecting, buffers, send_buffer, ready_bytes, before, received>>

\* fromstring appends to the buffer that was found.
FromString(t) ==
  /\ pc[t] = "write"
  /\ buffers' = [buffers EXCEPT ![found[t]] = Append(@, arg[t])]
  /\ Goes(t, "idle")
  /\ UNCHANGED <<connecting, send_buffer, found, ready_bytes, arg, written, before,
                 received>>

\* send, when send_ready(): joins the bytes of the buffer
Send(t) ==
  /\ Runs(t) /\ Sends(t) /\ pc[t] = "idle"
  /\ buffers[send_buffer] # << >> /\ Len(buffers) < MaxBuffers
  /\ ready_bytes' = buffers[send_buffer]
  /\ Goes(t, "new")
  /\ UNCHANGED <<connecting, buffers, send_buffer, found, arg, written, before,
                 received>>

NewBuffer(t) ==
  /\ pc[t] = "new"
  /\ buffers' = Append(buffers, << >>)
  /\ send_buffer' = Len(buffers')
  /\ Goes(t, "push")
  /\ UNCHANGED <<connecting, found, ready_bytes, arg, written, before,
                 received>>

\* mutant of Push: what the socket did not take is dropped
PushDrops(t) ==
  /\ pc[t] = "push"
  /\ \E sent \in 0 .. Len(ready_bytes) :
       received' = received \o SubSeq(ready_bytes, 1, sent)
  /\ ready_bytes' = << >>
  /\ Goes(t, "idle")
  /\ UNCHANGED <<connecting, buffers, send_buffer, found, arg, written, before>>

\* The socket takes some of the bytes, or none of them (EAGAIN).
Push(t) ==
  /\ pc[t] = "push"
  /\ \E sent \in 0 .. Len(ready_bytes) :
       /\ received' = received \o SubSeq(ready_bytes, 1, sent)
       /\ ready_bytes' = SubSeq(ready_bytes, sent + 1, Len(ready_bytes))
       /\ Goes(t, IF sent < Len(ready_bytes) THEN "rebuffer" ELSE "idle")
  /\ UNCHANGED <<connecting, buffers, send_buffer, found, arg, written, before>>

\* "re-buffer data that could not be pushed to socket"
Rebuffer(t) ==
  /\ pc[t] = "rebuffer"
  /\ Finds(t) /\ Goes(t, "extend")
  /\ UNCHANGED <<connecting, buffers, send_buffer, ready_bytes, arg, written, before,
                 received>>

Extend(t) ==
  /\ pc[t] = "extend"
  /\ buffers' = [buffers EXCEPT ![found[t]] = @ \o ready_bytes]
  /\ ready_bytes' = << >>
  /\ Goes(t, "idle")
  /\ UNCHANGED <<connecting, send_buffer, found, arg, written, before,
                 received>>

\* spawn_client_session, and the thread ends
Connected ==
  /\ connecting /\ pc["connect"] = "idle"
  /\ connecting' = FALSE
  /\ before' = written
  /\ UNCHANGED <<buffers, send_buffer, found, pc, ready_bytes, arg, written, received>>

Next ==
  \/ \E t \in Thread : \/ WriteStr(t) \/ FromString(t) \/ Send(t) \/ NewBuffer(t)
                       \/ Push(t) \/ Rebuffer(t) \/ Extend(t)
  \/ Connected

Spec == Init /\ [][Next]_vars

-----------------------------------------------------------------------------
(* Properties.                                                             *)

\* The last of the bytes are those after `from' up to `to', in their order, and none of
\* those comes before.
InOrder(bytes, from, to) ==
  \E early \in 0 .. Len(bytes) :
    /\ Len(bytes) = early + (to - from)
    /\ \A i \in 1 .. Len(bytes) :
         IF i <= early THEN bytes[i] <= from ELSE bytes[i] = from + (i - early)

\* While both threads are about, bytes may be lost, when one appends to a buffer that the
\* other has read and not yet replaced, and their order may change.  Of what is buffered
\* once the terminal is registered nothing is lost and nothing overtaken, however
\* little of it the socket takes at a time.
SentInOrder ==
  ~connecting /\ pc["loop"] = "idle" =>
    InOrder(received \o buffers[send_buffer], before, written)
=============================================================================
