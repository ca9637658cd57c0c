----------------------------- MODULE SessionProofs ----------------------------
(* Proofs about the components that wait for an answer, for all values of the *)
(* constants: a session process, with its scripts and events (Session) and    *)
(* its requests of the shared databases (DbProxy), the boards of a message    *)
(* network (MsgNet), the two ends of a telnet connection (Telnet), and how a  *)
(* client of another kind becomes a session (Connect).                        *)
EXTENDS Integers, Sequences, FiniteSets, SequenceTheorems, FiniteSetTheorems,
        WellFoundedInduction, TLAPS

CONSTANTS
  Script, Matrix, Reads, MaxEvents, MaxCalls, GlobalMax,
  MaxRequests, MaxGosubs, NumItems,
  Hub, Member, Batch, Before, MaxPosts, MaxFaults,
  Spoken, MaxWhims,
  MaxWait, MaxAuths, SftpEnabled

VARIABLES
  pipe, sent, buffer, taken, stack, calls, closed,
  made, kind, handlers, asking, gosubs, mixed, unopened, got,
  posts, msgs, source, trans, queue, last, netLast, pc, batch, keys, todo, put, faults,
  tagged, saves, cut,
  local, remote, active, term, asked, replied, heard, stage, requested, late, coding,
  toEnd, toHost, mine, yours, willing, whims,
  protocol, thread, waited, alive, transport, channel, wanted, auth, auths, login, peer,
  typed, inbox, data, passed

S == INSTANCE Session
D == INSTANCE DbProxy
N == INSTANCE MsgNet
T == INSTANCE Telnet WITH made <- requested
C == INSTANCE Connect WITH kind <- protocol, active <- alive, asked <- wanted, buffer <- inbox

-----------------------------------------------------------------------------
(* Session.  The scripts that run are the end of the script stack.  The       *)
(* numbers of the events of a kind rise from the last that was taken, along   *)
(* the buffer and then along the pipe.                                        *)

\* The scripts of the calls cs are the last of the stack st.
Nested(st, cs) ==
  Len(cs) <= Len(st) /\ \A i \in 1 .. Len(cs) : st[Len(st) - Len(cs) + i] = cs[i].script

Rising(q) == \A i, j \in 1 .. Len(q) : i < j => q[i] < q[j]

\* t was taken last, q is buffered, p is in the pipe, n were sent; k is a kind.
InOrder(k, t, q, p, n) ==
  /\ t <= n
  /\ Rising(q)
  /\ \A i \in 1 .. Len(q) : t < q[i] /\ q[i] <= n
  /\ \A i \in 1 .. Len(p) :
       p[i].kind = k =>
         /\ t < p[i].data /\ p[i].data <= n
         /\ \A j \in 1 .. Len(q) : q[j] < p[i].data
         /\ \A j \in 1 .. Len(p) : i < j /\ p[j].kind = k => p[i].data < p[j].data

Ordered == {"global", "page"}

\* The events of all these kinds
AllInOrder(t, b, p, n) == \A k \in Ordered : InOrder(k, t[k], b[k], p, n)

\* The inductive invariant
SessionInv ==
  /\ S!TypeOK
  /\ Nested(stack, calls)
  /\ AllInOrder(taken, buffer, pipe, sent)

\* What a step keeps, and what else it must do
SessionKept == SessionInv' /\ S!EventsInOrder /\ S!InterruptedIsRefreshed

\* All but the last of a sequence
LEMMA FrontIs ==
  ASSUME NEW X, NEW s \in Seq(X), s # << >>, NEW t, t = S!Front(s)
  PROVE  /\ t \in Seq(X) /\ Len(t) = Len(s) - 1
         /\ \A i \in 1 .. Len(t) : t[i] = s[i]
  <1>1. Len(s) \in Nat \ {0}
    BY EmptySeq
  <1>2. t = SubSeq(s, 1, Len(s) - 1)
    BY DEF S!Front
  <1>3. \A i \in 1 .. Len(s) - 1 : s[i] \in X
    BY <1>1, ElementOfSeq
  <1>4. PICK m : m = Len(s) - 1
    OBVIOUS
  <1>5. m \in Nat /\ t = SubSeq(s, 1, m) /\ \A i \in 1 .. m : s[i] \in X
    BY <1>1, <1>2, <1>3, <1>4
  <1>6. /\ SubSeq(s, 1, m) \in Seq(X)
        /\ Len(SubSeq(s, 1, m)) = IF 1 <= m THEN m - 1 + 1 ELSE 0
        /\ \A i \in 1 .. m - 1 + 1 : SubSeq(s, 1, m)[i] = s[1 + i - 1]
    BY <1>5, SubSeqProperties
  <1>7. Len(t) = m /\ \A i \in 1 .. m : t[i] = s[1 + i - 1] /\ 1 + i - 1 = i
    BY <1>5, <1>6
  <1> QED
    BY <1>4, <1>5, <1>6, <1>7

\* A call,
LEMMA PushedNested ==
  ASSUME NEW st \in Seq(Script), NEW cs \in Seq(S!Call), Nested(st, cs), NEW c \in S!Call,
         NEW now, NEW after, now = Append(st, c.script), after = Append(cs, c)
  PROVE  now \in Seq(Script) /\ after \in Seq(S!Call) /\ Nested(now, after)
  <1>1. c.script \in Script
    BY DEF S!Call
  <1>2. /\ now \in Seq(Script) /\ Len(now) = Len(st) + 1
        /\ \A i \in 1 .. Len(st) : now[i] = st[i]
        /\ now[Len(st) + 1] = c.script
    BY <1>1, AppendProperties
  <1>3. /\ after \in Seq(S!Call) /\ Len(after) = Len(cs) + 1
        /\ \A i \in 1 .. Len(cs) : after[i] = cs[i]
        /\ after[Len(cs) + 1] = c
    BY AppendProperties
  <1>4. Len(st) \in Nat /\ Len(cs) \in Nat
    OBVIOUS
  <1>5. Len(now) - Len(after) = Len(st) - Len(cs)
    BY <1>2, <1>3, <1>4
  <1>6. ASSUME NEW i \in 1 .. Len(cs) + 1
        PROVE  now[Len(st) - Len(cs) + i] = after[i].script
    <2>1. CASE i = Len(cs) + 1
      <3>1. Len(st) - Len(cs) + i = Len(st) + 1
        BY <1>4, <2>1
      <3> QED
        BY <1>2, <1>3, <2>1, <3>1
    <2>2. CASE i \in 1 .. Len(cs)
      <3>1. Len(st) - Len(cs) + i \in 1 .. Len(st)
        BY <1>4, <2>2 DEF Nested
      <3> QED
        BY <1>2, <1>3, <2>2, <3>1 DEF Nested
    <2>3. i = Len(cs) + 1 \/ i \in 1 .. Len(cs)
      BY <1>4
    <2> QED
      BY <2>1, <2>2, <2>3
  <1>7. Len(after) <= Len(now)
    BY <1>2, <1>3, <1>4 DEF Nested
  <1>8. \A i \in 1 .. Len(after) : now[Len(now) - Len(after) + i] = after[i].script
    BY <1>3, <1>5, <1>6
  <1> QED
    BY <1>2, <1>3, <1>7, <1>8 DEF Nested

\* and a return
LEMMA PoppedNested ==
  ASSUME NEW st \in Seq(Script), NEW cs \in Seq(S!Call), Nested(st, cs), cs # << >>,
         NEW now, NEW after, now = S!Front(st), after = S!Front(cs)
  PROVE  /\ now \in Seq(Script) /\ after \in Seq(S!Call) /\ Nested(now, after)
         /\ Len(after) = Len(cs) - 1
  <1>1. Len(cs) \in Nat \ {0} /\ Len(st) \in Nat \ {0} /\ Len(cs) <= Len(st) /\ st # << >>
    BY EmptySeq DEF Nested
  <1>2. /\ now \in Seq(Script) /\ Len(now) = Len(st) - 1
        /\ \A i \in 1 .. Len(now) : now[i] = st[i]
    BY <1>1, FrontIs
  <1>3. /\ after \in Seq(S!Call) /\ Len(after) = Len(cs) - 1
        /\ \A i \in 1 .. Len(after) : after[i] = cs[i]
    BY FrontIs
  <1>4. ASSUME NEW i \in 1 .. Len(after)
        PROVE  now[Len(now) - Len(after) + i] = after[i].script
    <2>1. /\ Len(now) - Len(after) + i = Len(st) - Len(cs) + i
          /\ Len(st) - Len(cs) + i \in 1 .. Len(now) /\ i \in 1 .. Len(cs)
      BY <1>1, <1>2, <1>3
    <2> QED
      BY <1>2, <1>3, <2>1 DEF Nested
  <1> QED
    BY <1>1, <1>2, <1>3, <1>4 DEF Nested

\* The calls, where the last waits for w
WithWaits(cs, w, t) == [cs EXCEPT ![Len(cs)].waits = w, ![Len(cs)].timed = t]

\* What the last script waits for has changed.
LEMMA WaitsNested ==
  ASSUME NEW st \in Seq(Script), NEW cs \in Seq(S!Call), Nested(st, cs), cs # << >>,
         NEW w \in SUBSET S!Kind, NEW t \in BOOLEAN,
         NEW now, now = WithWaits(cs, w, t)
  PROVE  now \in Seq(S!Call) /\ Nested(st, now) /\ Len(now) = Len(cs)
  <1>1. Len(cs) \in Nat \ {0}
    BY EmptySeq
  <1>2. PICK n : n = Len(cs)
    OBVIOUS
  <1>3. PICK c : c = [script |-> cs[n].script, waits |-> w, timed |-> t]
    OBVIOUS
  <1>4. cs[n] \in S!Call /\ n \in 1 .. Len(cs)
    BY <1>1, <1>2, ElementOfSeq
  <1>5. c \in S!Call
    BY <1>3, <1>4 DEF S!Call
  <1>6. now = [cs EXCEPT ![n] = c]
    <2>1. PICK x \in S!Call : x = cs[n]
      BY <1>4
    <2>2. x = [script |-> x.script, waits |-> x.waits, timed |-> x.timed]
      BY DEF S!Call
    <2>3. c = [x EXCEPT !.waits = w, !.timed = t]
      <3>1. PICK y : y = [x EXCEPT !.waits = w]
        OBVIOUS
      <3>2. y = [script |-> x.script, waits |-> w, timed |-> x.timed]
        BY <2>2, <3>1
      <3>3. [y EXCEPT !.timed = t] = [script |-> x.script, waits |-> w, timed |-> t]
        BY <3>2
      <3> QED
        BY <1>3, <2>1, <3>1, <3>3
    <2> QED
      BY <1>2, <1>4, <2>1, <2>3 DEF WithWaits
  <1>7. /\ now \in Seq(S!Call) /\ Len(now) = Len(cs)
        /\ \A i \in 1 .. Len(cs) : now[i] = IF i = n THEN c ELSE cs[i]
    <2>1. /\ [cs EXCEPT ![n] = c] \in Seq(S!Call)
          /\ Len([cs EXCEPT ![n] = c]) = Len(cs)
          /\ \A i \in 1 .. Len(cs) : [cs EXCEPT ![n] = c][i] = IF i = n THEN c ELSE cs[i]
      BY <1>4, <1>5, ExceptSeq
    <2> QED
      BY <1>6, <2>1
  <1>8. \A i \in 1 .. Len(cs) : now[i].script = cs[i].script
    BY <1>3, <1>7
  <1> QED
    BY <1>7, <1>8 DEF Nested

\* An event is taken from the buffer,
LEMMA TakenInOrder ==
  ASSUME NEW k, NEW n \in Nat, NEW t \in Nat, NEW q \in Seq(Nat), NEW p \in Seq(S!Event),
         InOrder(k, t, q, p, n), q # << >>, MaxEvents \in Nat
  PROVE  Head(q) > t /\ InOrder(k, Head(q), Tail(q), p, n)
  <1>1. Len(q) \in Nat \ {0} /\ Head(q) = q[1]
    BY EmptySeq
  <1>2. /\ Tail(q) \in Seq(Nat) /\ Len(Tail(q)) = Len(q) - 1
        /\ \A i \in 1 .. Len(Tail(q)) : Tail(q)[i] = q[i + 1]
    BY HeadTailProperties
  <1>3. \A i \in 1 .. Len(q) : q[i] \in Nat
    BY ElementOfSeq
  <1>4. \A i \in 1 .. Len(Tail(q)) : i + 1 \in 1 .. Len(q)
    BY <1>1, <1>2
  <1>5. q[1] > t /\ q[1] <= n /\ 1 \in 1 .. Len(q)
    BY <1>1, <1>3 DEF InOrder
  <1>6. Rising(Tail(q)) /\ \A i \in 1 .. Len(Tail(q)) : q[1] < Tail(q)[i] /\ Tail(q)[i] <= n
    BY <1>1, <1>2, <1>3, <1>4 DEF InOrder, Rising
  <1>7. \A i \in 1 .. Len(p) : p[i].kind = k =>
          q[1] < p[i].data /\ \A j \in 1 .. Len(Tail(q)) : Tail(q)[j] < p[i].data
    BY <1>2, <1>4, <1>5 DEF InOrder
  <1> QED
    BY <1>1, <1>5, <1>6, <1>7 DEF InOrder

\* the buffer is flushed,
LEMMA FlushedInOrder ==
  ASSUME NEW k, NEW n, NEW t, NEW q, NEW p, InOrder(k, t, q, p, n)
  PROVE  InOrder(k, t, << >>, p, n)
  BY DEF InOrder, Rising

\* an event is received, of another kind
LEMMA PassedInOrder ==
  ASSUME NEW k, NEW n, NEW t, NEW q, NEW p \in Seq(S!Event), InOrder(k, t, q, p, n), p # << >>
  PROVE  InOrder(k, t, q, Tail(p), n)
  <1>1. Len(p) \in Nat \ {0}
    BY EmptySeq
  <1>2. Len(Tail(p)) = Len(p) - 1 /\ \A i \in 1 .. Len(Tail(p)) : Tail(p)[i] = p[i + 1]
    BY HeadTailProperties
  <1>3. \A i \in 1 .. Len(Tail(p)) : i + 1 \in 1 .. Len(p)
    BY <1>1, <1>2
  <1>4. ASSUME NEW i \in 1 .. Len(Tail(p)), Tail(p)[i].kind = k
        PROVE  /\ t < Tail(p)[i].data /\ Tail(p)[i].data <= n
               /\ \A j \in 1 .. Len(q) : q[j] < Tail(p)[i].data
               /\ \A j \in 1 .. Len(Tail(p)) :
                    i < j /\ Tail(p)[j].kind = k => Tail(p)[i].data < Tail(p)[j].data
    BY <1>2, <1>3, <1>4 DEF InOrder
  <1> QED
    BY <1>4 DEF InOrder

\* or of this one,
LEMMA BufferedInOrder ==
  ASSUME NEW k, NEW n \in Nat, NEW t \in Nat, NEW q \in Seq(Nat), NEW p \in Seq(S!Event),
         InOrder(k, t, q, p, n), p # << >>, Head(p).kind = k, MaxEvents \in Nat,
         NEW r, r = Append(q, Head(p).data) \/ (q # << >> /\ r = Append(Tail(q), Head(p).data))
  PROVE  r \in Seq(Nat) /\ r # << >> /\ InOrder(k, t, r, Tail(p), n)
  <1>1. Len(p) \in Nat \ {0} /\ Head(p) = p[1] /\ 1 \in 1 .. Len(p)
    BY EmptySeq
  <1>2. PICK d : d = p[1].data
    OBVIOUS
  <1>3. d \in Nat /\ t < d /\ d <= n /\ \A j \in 1 .. Len(q) : q[j] < d
    <2>1. p[1] \in S!Event
      BY <1>1, ElementOfSeq
    <2> QED
      BY <1>1, <1>2, <2>1 DEF InOrder, S!Event
  <1>4. PICK s \in Seq(Nat) :
          /\ r = Append(s, d) /\ Rising(s)
          /\ \A j \in 1 .. Len(s) : t < s[j] /\ s[j] <= n /\ s[j] < d
    <2>1. CASE r = Append(q, d)
      BY <1>3, <2>1 DEF InOrder
    <2>2. CASE q # << >> /\ r = Append(Tail(q), d)
      <3>1. Len(q) \in Nat \ {0}
        BY <2>2, EmptySeq
      <3>2. /\ Tail(q) \in Seq(Nat) /\ Len(Tail(q)) = Len(q) - 1
            /\ \A i \in 1 .. Len(Tail(q)) : Tail(q)[i] = q[i + 1]
        BY <2>2, HeadTailProperties
      <3>3. \A i \in 1 .. Len(Tail(q)) : i + 1 \in 1 .. Len(q)
        BY <3>1, <3>2
      <3>4. Rising(Tail(q)) /\ \A j \in 1 .. Len(Tail(q)) :
              t < Tail(q)[j] /\ Tail(q)[j] <= n /\ Tail(q)[j] < d
        <4>1. \A j \in 1 .. Len(Tail(q)) : t < Tail(q)[j] /\ Tail(q)[j] <= n /\ Tail(q)[j] < d
          BY <1>3, <3>2, <3>3 DEF InOrder
        <4>2. \A i, j \in 1 .. Len(Tail(q)) : i < j => i + 1 < j + 1
          BY <3>1, <3>2
        <4>3. Rising(Tail(q))
          BY <3>2, <3>3, <4>2 DEF InOrder, Rising
        <4> QED
          BY <4>1, <4>3
      <3> QED
        BY <2>2, <3>2, <3>4
    <2> QED
      BY <1>1, <1>2, <2>1, <2>2
  <1>5. /\ r \in Seq(Nat) /\ Len(r) = Len(s) + 1 /\ Len(s) \in Nat
        /\ \A i \in 1 .. Len(s) : r[i] = s[i]
        /\ r[Len(s) + 1] = d
    BY <1>3, <1>4, AppendProperties
  <1>6. \A i \in 1 .. Len(r) : i \in 1 .. Len(s) \/ i = Len(s) + 1
    BY <1>5
  <1>7. \A j \in 1 .. Len(r) : t < r[j] /\ r[j] <= n /\ r[j] <= d
    BY <1>3, <1>4, <1>5, <1>6, ElementOfSeq
  <1>8. Rising(r)
    <2> SUFFICES ASSUME NEW i \in 1 .. Len(r), NEW j \in 1 .. Len(r), i < j
                 PROVE  r[i] < r[j]
      BY DEF Rising
    <2>1. i \in 1 .. Len(s)
      BY <1>5
    <2>2. CASE j \in 1 .. Len(s)
      BY <1>4, <1>5, <2>1, <2>2 DEF Rising
    <2>3. CASE j = Len(s) + 1
      BY <1>4, <1>5, <2>1, <2>3
    <2> QED
      BY <1>6, <2>2, <2>3
  <1>9. Len(Tail(p)) = Len(p) - 1 /\ \A i \in 1 .. Len(Tail(p)) : Tail(p)[i] = p[i + 1]
    BY HeadTailProperties
  <1>10. ASSUME NEW i \in 1 .. Len(Tail(p)), Tail(p)[i].kind = k
         PROVE  d < Tail(p)[i].data
    <2>1. i + 1 \in 1 .. Len(p) /\ 1 < i + 1
      BY <1>1, <1>9
    <2> QED
      BY <1>1, <1>2, <1>9, <1>10, <2>1 DEF InOrder
  <1>11. InOrder(k, t, q, Tail(p), n)
    BY PassedInOrder
  <1>12. \A i \in 1 .. Len(Tail(p)) : Tail(p)[i].data \in Nat
    <2>1. Tail(p) \in Seq(S!Event)
      BY HeadTailProperties
    <2>2. \A x \in S!Event : x.data \in Nat
      BY DEF S!Event
    <2> QED
      BY <2>1, <2>2, ElementOfSeq
  <1>13. \A i \in 1 .. Len(Tail(p)) : Tail(p)[i].kind = k =>
           \A j \in 1 .. Len(r) : r[j] < Tail(p)[i].data
    <2> SUFFICES ASSUME NEW i \in 1 .. Len(Tail(p)), Tail(p)[i].kind = k, NEW j \in 1 .. Len(r)
                 PROVE  r[j] < Tail(p)[i].data
      OBVIOUS
    <2>1. r[j] \in Nat /\ r[j] <= d /\ d < Tail(p)[i].data /\ Tail(p)[i].data \in Nat
      BY <1>5, <1>7, <1>10, <1>12, ElementOfSeq
    <2> QED
      BY <1>3, <2>1
  <1>14. r # << >>
    BY <1>5
  <1> QED
    BY <1>5, <1>7, <1>8, <1>11, <1>13, <1>14 DEF InOrder

\* and an event is sent.
LEMMA SentInOrder ==
  ASSUME NEW k, NEW n \in Nat, NEW t \in Nat, NEW q \in Seq(Nat), NEW p \in Seq(S!Event),
         InOrder(k, t, q, p, n), NEW m \in Nat, n <= m, MaxEvents \in Nat,
         NEW e \in S!Event, e.kind = k => n < e.data /\ e.data <= m
  PROVE  InOrder(k, t, q, Append(p, e), m)
  <1>1. PICK s : s = Append(p, e)
    OBVIOUS
  <1>2. /\ s \in Seq(S!Event) /\ Len(s) = Len(p) + 1 /\ Len(p) \in Nat
        /\ \A i \in 1 .. Len(p) : s[i] = p[i]
        /\ s[Len(p) + 1] = e
    BY <1>1, AppendProperties
  <1>3. \A i \in 1 .. Len(s) : i \in 1 .. Len(p) \/ i = Len(p) + 1
    BY <1>2
  <1>4. /\ \A i \in 1 .. Len(q) : q[i] \in Nat
        /\ \A i \in 1 .. Len(p) : p[i].data \in Nat
        /\ e.data \in Nat
    <2>1. \A x \in S!Event : x.data \in Nat
      BY DEF S!Event
    <2> QED
      BY <2>1, ElementOfSeq
  <1>5. t <= m /\ \A i \in 1 .. Len(q) : t < q[i] /\ q[i] <= m
    BY <1>4 DEF InOrder
  <1>6. ASSUME NEW i \in 1 .. Len(s), s[i].kind = k
        PROVE  /\ t < s[i].data /\ s[i].data <= m
               /\ \A j \in 1 .. Len(q) : q[j] < s[i].data
               /\ \A j \in 1 .. Len(s) : i < j /\ s[j].kind = k => s[i].data < s[j].data
    <2>1. CASE i \in 1 .. Len(p)
      <3>1. /\ p[i].kind = k /\ s[i] = p[i] /\ p[i].data \in Nat
            /\ t < p[i].data /\ p[i].data <= n
            /\ \A j \in 1 .. Len(q) : q[j] < p[i].data
        BY <1>2, <1>4, <1>6, <2>1 DEF InOrder
      <3>2. ASSUME NEW j \in 1 .. Len(s), i < j, s[j].kind = k PROVE p[i].data < s[j].data
        <4>1. CASE j \in 1 .. Len(p)
          BY <1>2, <2>1, <3>1, <3>2, <4>1 DEF InOrder
        <4>2. CASE j = Len(p) + 1
          BY <1>2, <1>4, <3>1, <3>2, <4>2
        <4> QED
          BY <1>3, <4>1, <4>2
      <3> QED
        BY <3>1, <3>2
    <2>2. CASE i = Len(p) + 1
      <3>1. s[i] = e /\ e.kind = k /\ n < e.data /\ e.data <= m
        BY <1>2, <1>6, <2>2
      <3>2. t < e.data /\ \A j \in 1 .. Len(q) : q[j] < e.data
        <4>1. t <= n /\ \A j \in 1 .. Len(q) : q[j] <= n
          BY DEF InOrder
        <4>2. PICK d \in Nat : d = e.data /\ n < d
          BY <1>4, <3>1
        <4>3. t < d
          BY <4>1, <4>2
        <4>4. \A j \in 1 .. Len(q) : q[j] < d
          BY <1>4, <4>1, <4>2
        <4> QED
          BY <4>2, <4>3, <4>4
      <3>3. \A j \in 1 .. Len(s) : ~(i < j)
        BY <1>2, <2>2
      <3> QED
        BY <3>1, <3>2, <3>3
    <2> QED
      BY <1>3, <2>1, <2>2
  <1>7. InOrder(k, t, q, s, m)
    BY <1>5, <1>6 DEF InOrder
  <1> QED
    BY <1>1, <1>7

Numbers == 0 .. MaxEvents
Buffers == [S!Kind -> Seq(Numbers)]

LEMMA NumbersAreNat == S!SessionAssumption => \A q \in Seq(Numbers) : q \in Seq(Nat)
  <1> SUFFICES ASSUME S!SessionAssumption, NEW q \in Seq(Numbers) PROVE q \in Seq(Nat)
    OBVIOUS
  <1>1. Numbers \subseteq Nat
    BY DEF Numbers, S!SessionAssumption
  <1> QED
    BY <1>1, SeqMonotonic

\* What a full buffer loses, and what it gets
LEMMA EnqueuedIs ==
  ASSUME S!SessionAssumption, NEW q \in Seq(Numbers), NEW d \in Numbers, NEW k \in S!Kind,
         NEW r, r = S!Enqueued(q, k, d)
  PROVE  /\ r \in Seq(Numbers) /\ r # << >>
         /\ r = Append(q, d) \/ (q # << >> /\ r = Append(Tail(q), d))
  <1>1. S!Limit(k) \in Nat \ {0}
    BY DEF S!Limit, S!SessionAssumption
  <1>2. CASE Len(q) < S!Limit(k)
    <2>1. r = Append(q, d)
      BY <1>2 DEF S!Enqueued
    <2>2. /\ Append(q, d) \in Seq(Numbers)
          /\ Len(Append(q, d)) = Len(q) + 1
      BY AppendProperties
    <2> QED
      BY <2>1, <2>2, EmptySeq
  <1>3. CASE ~(Len(q) < S!Limit(k))
    <2>1. r = Append(Tail(q), d)
      BY <1>3 DEF S!Enqueued
    <2>2. q # << >>
      BY <1>1, <1>3
    <2>3. Tail(q) \in Seq(Numbers)
      BY <2>2, HeadTailProperties
    <2>4. /\ Append(Tail(q), d) \in Seq(Numbers)
          /\ Len(Append(Tail(q), d)) = Len(Tail(q)) + 1
      BY <2>3, AppendProperties
    <2> QED
      BY <2>1, <2>2, <2>3, <2>4, EmptySeq
  <1> QED
    BY <1>2, <1>3

\* The buffers with an event more
LEMMA BufferedIs ==
  ASSUME S!SessionAssumption, buffer \in Buffers, NEW k \in S!Kind, NEW d \in Numbers,
         NEW b, b = S!Buffered(k, d)
  PROVE  /\ b \in Buffers /\ b[k] # << >>
         /\ \A j \in S!Kind : j # k => b[j] = buffer[j]
         /\ k # "input" => \/ b[k] = Append(buffer[k], d)
                           \/ buffer[k] # << >> /\ b[k] = Append(Tail(buffer[k]), d)
  <1>1. PICK q : q = buffer[k]
    OBVIOUS
  <1>2. q \in Seq(Numbers)
    BY <1>1 DEF Buffers
  <1>3. PICK r : r = IF k = "input" THEN <<d>> \o q ELSE S!Enqueued(q, k, d)
    OBVIOUS
  <1>4. /\ r \in Seq(Numbers) /\ r # << >>
        /\ k # "input" => r = Append(q, d) \/ (q # << >> /\ r = Append(Tail(q), d))
    <2>1. CASE k = "input"
      <3>1. r = <<d>> \o q
        BY <1>3, <2>1
      <3>2. <<d>> \in Seq(Numbers) /\ Len(<<d>>) = 1
        OBVIOUS
      <3>3. <<d>> \o q \in Seq(Numbers) /\ Len(<<d>> \o q) = 1 + Len(q)
        BY <1>2, <3>2, ConcatProperties
      <3> QED
        BY <1>2, <2>1, <3>1, <3>3
    <2>2. CASE k # "input"
      BY <1>2, <1>3, <2>2, EnqueuedIs
    <2> QED
      BY <2>1, <2>2
  <1>5. b = [buffer EXCEPT ![k] = r]
    BY <1>1, <1>3 DEF S!Buffered
  <1>6. b \in Buffers /\ b[k] = r /\ \A j \in S!Kind : j # k => b[j] = buffer[j]
    BY <1>4, <1>5 DEF Buffers
  <1> QED
    BY <1>1, <1>4, <1>6

\* Events that are taken from buffers in order
LEMMA TakeIs ==
  ASSUME S!SessionAssumption, NEW b \in Buffers, taken \in [S!Kind -> Numbers],
         NEW k \in S!Kind, b[k] # << >>, S!Take(b, k),
         NEW p \in Seq(S!Event), NEW n \in Nat, AllInOrder(taken, b, p, n)
  PROVE  /\ buffer' \in Buffers /\ taken' \in [S!Kind -> Numbers]
         /\ AllInOrder(taken', buffer', p, n) /\ S!EventsInOrder
  <1>1. PICK q : q = IF k = "input" THEN S!PushedBack(b[k]) ELSE b[k]
    OBVIOUS
  <1>2. buffer' = [b EXCEPT ![k] = Tail(q)] /\ taken' = [taken EXCEPT ![k] = Head(q)]
    BY <1>1 DEF S!Take
  <1>3. q \in Seq(Numbers) /\ q # << >>
    <2>1. PICK s : s = b[k]
      OBVIOUS
    <2>2. s \in Seq(Numbers) /\ s # << >>
      BY <2>1 DEF Buffers
    <2>3. Head(s) \in Numbers /\ Tail(s) \in Seq(Numbers)
      BY <2>2, HeadTailProperties
    <2>4. /\ Append(Tail(s), Head(s)) \in Seq(Numbers)
          /\ Len(Append(Tail(s), Head(s))) = Len(Tail(s)) + 1
      BY <2>3, AppendProperties
    <2> QED
      BY <1>1, <2>1, <2>2, <2>3, <2>4, EmptySeq DEF S!PushedBack
  <1>4. Head(q) \in Numbers /\ Tail(q) \in Seq(Numbers)
    BY <1>3, HeadTailProperties
  <1>5. /\ buffer' \in Buffers /\ taken' \in [S!Kind -> Numbers]
        /\ buffer'[k] = Tail(q) /\ taken'[k] = Head(q)
        /\ \A j \in S!Kind : j # k => buffer'[j] = b[j] /\ taken'[j] = taken[j]
    BY <1>2, <1>4 DEF Buffers
  <1>6. ASSUME NEW j \in Ordered
        PROVE  /\ InOrder(j, taken'[j], buffer'[j], p, n)
               /\ taken'[j] # taken[j] => taken'[j] > taken[j]
    <2>1. CASE j # k
      BY <1>5, <2>1 DEF AllInOrder, Ordered, S!Kind
    <2>2. CASE j = k
      <3>1. PICK t : t = taken[k]
        OBVIOUS
      <3>2. q = b[k] /\ InOrder(k, t, q, p, n)
        BY <1>1, <2>2, <3>1 DEF AllInOrder, Ordered
      <3>3. t \in Nat /\ MaxEvents \in Nat /\ q \in Seq(Nat)
        BY <1>3, <3>1, NumbersAreNat DEF Numbers, S!SessionAssumption
      <3>4. Head(q) > t /\ InOrder(k, Head(q), Tail(q), p, n)
        BY <1>3, <3>2, <3>3, TakenInOrder
      <3> QED
        BY <1>5, <2>2, <3>1, <3>4
    <2> QED
      BY <2>1, <2>2
  <1> QED
    BY <1>5, <1>6 DEF AllInOrder, S!EventsInOrder, Ordered

\* Events of no such kind change nothing.
LEMMA OthersInOrder ==
  ASSUME NEW t, NEW b, NEW p, NEW n, AllInOrder(t, b, p, n),
         NEW c, \A k \in Ordered : c[k] = b[k]
  PROVE  AllInOrder(t, c, p, n)
  BY DEF AllInOrder

LEMMA RefreshIs ==
  ASSUME S!SessionAssumption, SessionInv, NEW some \in BOOLEAN, S!RefreshedIf(some),
         NEW p, AllInOrder(taken, buffer, p, sent)
  PROVE  /\ buffer' \in Buffers
         /\ AllInOrder(taken, buffer', p, sent)
         /\ some => buffer'["refresh"] # << >>
  <1>1. buffer \in Buffers /\ sent \in Numbers /\ "refresh" \in S!Kind
    BY DEF SessionInv, S!TypeOK, Buffers, Numbers, S!Kind
  <1>2. CASE some
    <2>1. buffer' = S!Buffered("refresh", sent)
      BY <1>2 DEF S!RefreshedIf, S!Refreshed
    <2>2. /\ buffer' \in Buffers /\ buffer'["refresh"] # << >>
          /\ \A j \in S!Kind : j # "refresh" => buffer'[j] = buffer[j]
      <3>1. PICK b : b = S!Buffered("refresh", sent)
        OBVIOUS
      <3>2. /\ b \in Buffers /\ b["refresh"] # << >>
            /\ \A j \in S!Kind : j # "refresh" => b[j] = buffer[j]
        BY <1>1, <3>1, BufferedIs
      <3> QED
        BY <2>1, <3>1, <3>2
    <2>3. \A k \in Ordered : buffer'[k] = buffer[k]
      BY <2>2 DEF Ordered, S!Kind
    <2> QED
      BY <2>2, <2>3, OthersInOrder
  <1>3. CASE ~some
    BY <1>1, <1>3 DEF S!RefreshedIf
  <1> QED
    BY <1>2, <1>3

\* Only where a call is left may a caller that was interrupted go on.
LEMMA NoneReturned ==
  ASSUME calls \in Seq(S!Call), calls' \in Seq(S!Call),
         Len(calls') >= Len(calls) \/ calls' = << >>
  PROVE  S!InterruptedIsRefreshed
  <1>1. DOMAIN calls = 1 .. Len(calls) /\ Len(calls) \in Nat /\ Len(calls') \in Nat
    OBVIOUS
  <1>2. calls' = << >> => Len(calls') = 0
    OBVIOUS
  <1> QED
    BY <1>1, <1>2 DEF S!InterruptedIsRefreshed, S!Interrupted

\* The types, one by one
LEMMA SessionTypes ==
  ASSUME SessionInv
  PROVE  /\ pipe \in Seq(S!Event) /\ sent \in Numbers /\ buffer \in Buffers
         /\ taken \in [S!Kind -> Numbers] /\ stack \in Seq(Script) /\ calls \in Seq(S!Call)
         /\ closed \in BOOLEAN /\ Nested(stack, calls) /\ AllInOrder(taken, buffer, pipe, sent)
  BY DEF SessionInv, S!TypeOK, Buffers, Numbers

\* A step that keeps all this, and takes no event
LEMMA NothingTaken ==
  ASSUME pipe' \in Seq(S!Event), sent' \in Numbers, buffer' \in Buffers,
         stack' \in Seq(Script), calls' \in Seq(S!Call), closed' \in BOOLEAN,
         Nested(stack', calls'), AllInOrder(taken, buffer', pipe', sent'),
         SessionInv, UNCHANGED taken, S!InterruptedIsRefreshed
  PROVE  SessionKept
  <1>1. S!EventsInOrder
    BY DEF S!EventsInOrder
  <1>2. taken' \in [S!Kind -> Numbers] /\ AllInOrder(taken', buffer', pipe', sent')
    BY SessionTypes
  <1> QED
    BY <1>1, <1>2 DEF SessionKept, SessionInv, S!TypeOK, Buffers, Numbers

LEMMA SessionInit == S!SessionAssumption /\ S!Init => SessionInv
  <1> SUFFICES ASSUME S!SessionAssumption, S!Init PROVE SessionInv
    OBVIOUS
  <1>1. /\ << >> \in Seq(S!Event) /\ << >> \in Seq(0 .. MaxEvents) /\ << >> \in Seq(S!Call)
        /\ <<Matrix>> \in Seq(Script) /\ 0 \in 0 .. MaxEvents
    BY DEF S!SessionAssumption
  <1>2. S!TypeOK
    BY <1>1 DEF S!Init, S!TypeOK
  <1>3. Nested(stack, calls)
    BY DEF S!Init, Nested
  <1>4. AllInOrder(taken, buffer, pipe, sent)
    BY DEF S!Init, AllInOrder, InOrder, Rising, Ordered, S!Kind
  <1> QED
    BY <1>2, <1>3, <1>4 DEF SessionInv

\* What the engine sends
LEMMA SessionSend ==
  ASSUME S!SessionAssumption, SessionInv,
         (\E k \in S!Kind \cup S!Command : S!Send(k)) \/ S!HangUp
  PROVE  SessionKept
  <1> USE SessionTypes
  <1>1. UNCHANGED <<buffer, taken, stack, calls, closed>>
    BY DEF S!Send, S!HangUp
  <1>2. PICK e \in S!Event :
          /\ pipe' = Append(pipe, e) /\ sent' \in Numbers /\ sent <= sent'
          /\ \A k \in Ordered : e.kind = k => sent < e.data /\ e.data <= sent'
    <2>1. ASSUME NEW k \in S!Kind \cup S!Command, S!Send(k)
          PROVE  LET e == [kind |-> k, data |-> sent + 1] IN
                   /\ e \in S!Event /\ pipe' = Append(pipe, e) /\ sent' \in Numbers
                   /\ sent <= sent' /\ sent < e.data /\ e.data <= sent'
      <3>1. sent < MaxEvents /\ sent' = sent + 1
        BY <2>1 DEF S!Send
      <3>2. sent + 1 \in Numbers /\ sent <= sent + 1 /\ sent < sent + 1 /\ sent + 1 <= sent + 1
        BY <3>1 DEF Numbers, S!SessionAssumption
      <3> QED
        BY <2>1, <3>1, <3>2 DEF S!Send, S!Event, Numbers
    <2>2. ASSUME S!HangUp
          PROVE  LET e == [kind |-> "exception", data |-> 0] IN
                   /\ e \in S!Event /\ pipe' = Append(pipe, e) /\ sent' \in Numbers
                   /\ sent <= sent' /\ \A k \in Ordered : e.kind # k
      BY <2>2 DEF S!HangUp, S!Event, S!Command, Numbers, Ordered, S!SessionAssumption
    <2> QED
      BY <2>1, <2>2
  <1>3. pipe' \in Seq(S!Event)
    BY <1>2, AppendProperties
  <1>4. AllInOrder(taken, buffer, pipe', sent')
    <2> SUFFICES ASSUME NEW k \in Ordered
                 PROVE  InOrder(k, taken[k], buffer[k], pipe', sent')
      BY DEF AllInOrder
    <2>1. PICK t : t = taken[k]
      OBVIOUS
    <2>2. PICK q : q = buffer[k]
      OBVIOUS
    <2>3. PICK n, m : n = sent /\ m = sent'
      OBVIOUS
    <2>4. /\ t \in Nat /\ q \in Seq(Nat) /\ n \in Nat /\ m \in Nat /\ n <= m /\ MaxEvents \in Nat
          /\ e.kind = k => n < e.data /\ e.data <= m
      BY <1>2, <2>1, <2>2, <2>3, NumbersAreNat
      DEF Numbers, Buffers, Ordered, S!Kind, S!SessionAssumption
    <2>5. PICK p \in Seq(S!Event) : p = pipe
      OBVIOUS
    <2>6. InOrder(k, t, q, p, n)
      BY <2>1, <2>2, <2>3, <2>5 DEF AllInOrder
    <2>7. InOrder(k, t, q, Append(p, e), m)
      BY <2>4, <2>6, SentInOrder
    <2> QED
      BY <1>2, <2>1, <2>2, <2>3, <2>5, <2>7
  <1>5. S!InterruptedIsRefreshed
    BY <1>1, NoneReturned
  <1> QED
    BY <1>1, <1>2, <1>3, <1>4, <1>5, NothingTaken

\* A script runs another,
LEMMA RunNested ==
  ASSUME SessionInv, calls # << >>, NEW script \in Script, S!RunScript(script)
  PROVE  /\ stack' \in Seq(Script) /\ calls' \in Seq(S!Call) /\ Nested(stack', calls')
         /\ Len(calls') >= Len(calls)
  <1>1. PICK c : c = S!Called(script)
    OBVIOUS
  <1>2. c \in S!Call /\ c.script = script
    BY <1>1 DEF S!Called, S!Call
  <1>3. calls' = Append(calls, c) /\ stack' = Append(stack, c.script)
    BY <1>1, <1>2 DEF S!RunScript
  <1>4. PICK now, after : now = stack' /\ after = calls'
    OBVIOUS
  <1>5. PICK st \in Seq(Script), cs \in Seq(S!Call) : st = stack /\ cs = calls /\ Nested(st, cs)
    BY SessionTypes
  <1>6. now \in Seq(Script) /\ after \in Seq(S!Call) /\ Nested(now, after)
    BY <1>2, <1>3, <1>4, <1>5, PushedNested
  <1>7. Len(calls') = Len(calls) + 1
    BY <1>2, <1>3, <1>5, AppendProperties
  <1> QED
    BY <1>4, <1>5, <1>6, <1>7

\* waits, or goes on.
LEMMA ResumedNested ==
  ASSUME SessionInv, calls # << >>, UNCHANGED stack, NEW w \in SUBSET S!Kind, NEW t \in BOOLEAN,
         calls' = [calls EXCEPT ![Len(calls)].waits = w, ![Len(calls)].timed = t]
  PROVE  /\ stack' \in Seq(Script) /\ calls' \in Seq(S!Call) /\ Nested(stack', calls')
         /\ Len(calls') >= Len(calls)
  <1>1. PICK now : now = calls'
    OBVIOUS
  <1>2. PICK st \in Seq(Script), cs \in Seq(S!Call) : st = stack /\ cs = calls /\ Nested(st, cs)
    BY SessionTypes
  <1>3. now = WithWaits(cs, w, t) /\ cs # << >>
    <2>1. calls' = WithWaits(calls, w, t)
      BY DEF WithWaits
    <2> QED
      BY <1>1, <1>2, <2>1
  <1>4. now \in Seq(S!Call) /\ Nested(st, now) /\ Len(now) = Len(cs)
    BY <1>2, <1>3, WaitsNested
  <1>5. Len(now) >= Len(cs)
    <2>1. Len(cs) \in Nat
      BY <1>2
    <2> QED
      BY <1>4, <2>1
  <1>6. calls' \in Seq(S!Call) /\ Len(calls') >= Len(calls)
    BY <1>1, <1>2, <1>4, <1>5
  <1>7. Nested(stack', calls')
    BY <1>1, <1>2, <1>4
  <1> QED
    BY <1>2, <1>6, <1>7

\* What a script does that calls, or that waits
LEMMA SessionCalls ==
  ASSUME S!SessionAssumption, SessionInv,
         \/ S!Begin
         \/ \E script \in Script : S!Gosub(script)
         \/ \E events \in Reads : S!Wait(events, TRUE) \/ S!Wait(events, FALSE)
         \/ S!TimeOut
  PROVE  SessionKept
  <1> USE SessionTypes
  <1>1. UNCHANGED <<pipe, sent, buffer, taken, closed>>
    BY DEF S!Begin, S!Gosub, S!Wait, S!TimeOut
  <1>2. /\ stack' \in Seq(Script) /\ calls' \in Seq(S!Call) /\ Nested(stack', calls')
        /\ Len(calls') >= Len(calls)
    <2>1. CASE S!Begin
      <3>1. stack # << >> /\ calls = << >> /\ S!RunScript(S!Last(stack))
        BY <2>1 DEF S!Begin
      <3>2. Len(stack) \in Nat \ {0} /\ S!Last(stack) = stack[Len(stack)] /\ Len(calls) = 0
        BY <3>1, EmptySeq DEF S!Last
      <3>3. PICK c : c = S!Called(S!Last(stack))
        OBVIOUS
      <3>4. c \in S!Call /\ c.script = stack[Len(stack)]
        BY <3>2, <3>3, ElementOfSeq DEF S!Called, S!Call
      <3>5. calls' = Append(calls, c) /\ stack' = stack
        BY <3>1, <3>3 DEF S!RunScript
      <3>6. calls' \in Seq(S!Call) /\ Len(calls') = 1 /\ calls'[1] = c
        BY <3>1, <3>4, <3>5
      <3> QED
        BY <3>2, <3>4, <3>5, <3>6 DEF Nested
    <2>2. ASSUME NEW script \in Script, S!Gosub(script)
          PROVE  /\ stack' \in Seq(Script) /\ calls' \in Seq(S!Call) /\ Nested(stack', calls')
                 /\ Len(calls') >= Len(calls)
      <3>1. calls # << >> /\ S!RunScript(script)
        BY <2>2 DEF S!Gosub, S!Running
      <3> QED
        BY <3>1, RunNested
    <2>3. ASSUME NEW w \in SUBSET S!Kind, NEW t \in BOOLEAN, calls # << >>, stack' = stack,
                 calls' = [calls EXCEPT ![Len(calls)].waits = w, ![Len(calls)].timed = t]
          PROVE  /\ stack' \in Seq(Script) /\ calls' \in Seq(S!Call) /\ Nested(stack', calls')
                 /\ Len(calls') >= Len(calls)
      BY <2>3, ResumedNested
    <2>4. ASSUME NEW events \in Reads, S!Wait(events, TRUE) \/ S!Wait(events, FALSE)
          PROVE  \E w \in SUBSET S!Kind, t \in BOOLEAN : /\ calls # << >> /\ stack' = stack
                   /\ calls' = [calls EXCEPT ![Len(calls)].waits = w, ![Len(calls)].timed = t]
      BY <2>4 DEF S!Wait, S!Running, S!SessionAssumption
    <2>5. ASSUME S!TimeOut
          PROVE  \E w \in SUBSET S!Kind, t \in BOOLEAN : /\ calls # << >> /\ stack' = stack
                   /\ calls' = [calls EXCEPT ![Len(calls)].waits = w, ![Len(calls)].timed = t]
      BY <2>5 DEF S!TimeOut, S!Waiting, S!Resumed
    <2> QED
      BY <2>1, <2>2, <2>3, <2>4, <2>5
  <1>3. S!InterruptedIsRefreshed
    BY <1>2, NoneReturned
  <1> QED
    BY <1>1, <1>2, <1>3, NothingTaken

\* A script returns.
LEMMA SessionReturn ==
  ASSUME S!SessionAssumption, SessionInv, S!Return
  PROVE  SessionKept
  <1> USE SessionTypes
  <1>1. /\ calls # << >> /\ stack' = S!Front(stack) /\ calls' = S!Front(calls)
        /\ UNCHANGED <<pipe, sent, taken, closed>>
    BY DEF S!Return, S!Running
  <1>2. /\ stack' \in Seq(Script) /\ calls' \in Seq(S!Call) /\ Nested(stack', calls')
        /\ Len(calls') = Len(calls) - 1
    BY <1>1, PoppedNested
  <1>3. PICK some \in BOOLEAN :
          S!RefreshedIf(some) /\ (some <=> Len(calls) > 1 /\ S!Interrupted(Len(calls) - 1))
    <2>1. (Len(calls) > 1 /\ S!Interrupted(Len(calls) - 1)) \in BOOLEAN
      OBVIOUS
    <2> QED
      BY <2>1 DEF S!Return
  <1>4. /\ buffer' \in Buffers /\ AllInOrder(taken, buffer', pipe, sent)
        /\ some => buffer'["refresh"] # << >>
    BY <1>3, RefreshIs
  <1>5. S!InterruptedIsRefreshed
    <2> SUFFICES ASSUME NEW i \in DOMAIN calls, S!Interrupted(i), Len(calls') = i
                 PROVE  buffer'["refresh"] # << >>
      BY DEF S!InterruptedIsRefreshed
    <2>1. i = Len(calls) - 1 /\ Len(calls) > 1
      BY <1>2
    <2> QED
      BY <1>3, <1>4, <2>1
  <1> QED
    BY <1>1, <1>2, <1>4, <1>5, NothingTaken

\* Every script is left.
LEMMA SessionLeaves ==
  ASSUME S!SessionAssumption, SessionInv, S!RefreshedIf(S!SomeInterrupted),
         calls' = << >>, stack' \in Seq(Script), closed' \in BOOLEAN, UNCHANGED <<sent, taken>>,
         pipe' \in Seq(S!Event), AllInOrder(taken, buffer, pipe', sent)
  PROVE  SessionKept
  <1> USE SessionTypes
  <1>1. PICK some \in BOOLEAN : S!RefreshedIf(some)
    <2>1. S!SomeInterrupted \in BOOLEAN
      BY DEF S!SomeInterrupted
    <2> QED
      BY <2>1
  <1>2. buffer' \in Buffers /\ AllInOrder(taken, buffer', pipe', sent)
    <2>1. PICK p : p = pipe'
      OBVIOUS
    <2> QED
      BY <1>1, <2>1, RefreshIs
  <1>3. calls' \in Seq(S!Call) /\ Nested(stack', calls')
    BY DEF Nested
  <1>4. S!InterruptedIsRefreshed
    BY <1>3, NoneReturned
  <1> QED
    BY <1>2, <1>3, <1>4, NothingTaken

\* What a script takes from the buffers, and goes on
LEMMA SessionTakes ==
  ASSUME S!SessionAssumption, SessionInv,
         \/ \E events \in Reads : S!ReadBuffered(events)
         \/ S!NothingComes
  PROVE  SessionKept
  <1> USE SessionTypes
  <1>1. UNCHANGED <<pipe, sent, stack, closed>>
    BY DEF S!ReadBuffered, S!NothingComes
  <1>2. PICK k \in S!Kind : buffer[k] # << >> /\ S!Take(buffer, k)
    <2>1. CASE S!NothingComes
      <3>1. S!Last(calls) \in S!Call
        <4>1. calls # << >> /\ S!Last(calls) = calls[Len(calls)]
          BY <2>1 DEF S!NothingComes, S!Waiting, S!Last
        <4>2. Len(calls) \in Nat \ {0}
          BY <4>1, EmptySeq
        <4> QED
          BY <4>1, <4>2, ElementOfSeq
      <3>2. S!Last(calls).waits \subseteq S!Kind
        BY <3>1 DEF S!Call
      <3> QED
        BY <2>1, <3>2 DEF S!NothingComes
    <2>2. CASE \E events \in Reads : S!ReadBuffered(events)
      BY <2>2 DEF S!ReadBuffered, S!SessionAssumption
    <2> QED
      BY <2>1, <2>2
  <1>3. /\ buffer' \in Buffers /\ taken' \in [S!Kind -> Numbers]
        /\ AllInOrder(taken', buffer', pipe, sent) /\ S!EventsInOrder
    <2>1. sent \in Nat
      BY DEF Numbers, S!SessionAssumption
    <2>2. PICK b \in Buffers : b = buffer
      OBVIOUS
    <2>3. PICK p \in Seq(S!Event), n \in Nat : p = pipe /\ n = sent
      BY <2>1
    <2>4. AllInOrder(taken, b, p, n) /\ b[k] # << >> /\ S!Take(b, k)
      BY <1>2, <2>2, <2>3
    <2>5. /\ buffer' \in Buffers /\ taken' \in [S!Kind -> Numbers]
          /\ AllInOrder(taken', buffer', p, n) /\ S!EventsInOrder
      BY <2>4, TakeIs
    <2> QED
      BY <2>3, <2>5
  <1>4. calls' \in Seq(S!Call) /\ Nested(stack', calls') /\ Len(calls') >= Len(calls)
    <2>1. CASE S!NothingComes
      <3>1. /\ calls # << >>
            /\ calls' = [calls EXCEPT ![Len(calls)].waits = {}, ![Len(calls)].timed = FALSE]
        BY <2>1 DEF S!NothingComes, S!Waiting, S!Resumed
      <3> QED
        BY <1>1, <3>1, ResumedNested
    <2>2. CASE \E events \in Reads : S!ReadBuffered(events)
      BY <1>1, <2>2 DEF S!ReadBuffered
    <2> QED
      BY <2>1, <2>2
  <1>5. S!InterruptedIsRefreshed
    BY <1>4, NoneReturned
  <1> QED
    BY <1>1, <1>3, <1>4, <1>5 DEF SessionKept, SessionInv, S!TypeOK, Buffers, Numbers

\* An event that was received is buffered, and one of its kind taken if it is waited for.
LEMMA SessionReceivesBuffered ==
  ASSUME S!SessionAssumption, SessionInv, S!Waiting, pipe # << >>, pipe' = Tail(pipe),
         S!ReceiveBuffered(Head(pipe))
  PROVE  SessionKept
  <1> USE SessionTypes
  <1>1. UNCHANGED <<sent, stack, closed>>
    BY DEF S!ReceiveBuffered
  <1>2. Head(pipe) \in S!Event /\ Tail(pipe) \in Seq(S!Event)
    BY HeadTailProperties
  <1>3. PICK e \in S!Event : e = Head(pipe)
    BY <1>2
  <1>4. PICK k \in S!Kind : k = e.kind
    BY <1>3 DEF S!ReceiveBuffered
  <1>5. PICK d \in Numbers : d = e.data
    BY DEF S!Event, Numbers
  <1>6. PICK b : b = S!Buffered(k, d)
    OBVIOUS
  <1>7. /\ b \in Buffers /\ b[k] # << >>
        /\ \A j \in S!Kind : j # k => b[j] = buffer[j]
        /\ k # "input" => \/ b[k] = Append(buffer[k], d)
                          \/ buffer[k] # << >> /\ b[k] = Append(Tail(buffer[k]), d)
    BY <1>6, BufferedIs
  <1>8. MaxEvents \in Nat /\ sent \in Nat
    BY DEF Numbers, S!SessionAssumption
  <1>9. AllInOrder(taken, b, Tail(pipe), sent)
    <2> SUFFICES ASSUME NEW j \in Ordered
                 PROVE  InOrder(j, taken[j], b[j], Tail(pipe), sent)
      BY DEF AllInOrder
    <2>1. PICK t \in Nat : t = taken[j]
      BY <1>8 DEF Numbers, Ordered, S!Kind
    <2>2. PICK q \in Seq(Nat) : q = buffer[j]
      BY NumbersAreNat DEF Buffers, Ordered, S!Kind
    <2>3. PICK p \in Seq(S!Event), n \in Nat : p = pipe /\ n = sent
      BY <1>8
    <2>4. InOrder(j, t, q, p, n)
      BY <2>1, <2>2, <2>3 DEF AllInOrder
    <2>5. CASE j # k
      <3>1. b[j] = q
        BY <1>7, <2>2, <2>5 DEF Ordered, S!Kind
      <3>2. InOrder(j, t, q, Tail(p), n)
        BY <2>3, <2>4, PassedInOrder
      <3> QED
        BY <2>1, <2>3, <3>1, <3>2
    <2>6. CASE j = k
      <3>1. PICK r : r = b[j]
        OBVIOUS
      <3>2. /\ Head(p).kind = j /\ p # << >>
            /\ r = Append(q, Head(p).data) \/ (q # << >> /\ r = Append(Tail(q), Head(p).data))
        BY <1>3, <1>4, <1>5, <1>7, <2>2, <2>3, <2>6, <3>1 DEF Ordered
      <3>3. InOrder(j, t, r, Tail(p), n)
        BY <1>8, <2>4, <3>2, BufferedInOrder
      <3> QED
        BY <2>1, <2>3, <3>1, <3>3
    <2> QED
      BY <2>5, <2>6
  <1>10. CASE k \in S!Last(calls).waits
    <2>1. S!Take(b, k) /\ calls' = S!Resumed
      BY <1>3, <1>4, <1>5, <1>6, <1>10 DEF S!ReceiveBuffered
    <2>2. /\ buffer' \in Buffers /\ taken' \in [S!Kind -> Numbers]
          /\ AllInOrder(taken', buffer', Tail(pipe), sent) /\ S!EventsInOrder
      <3>1. PICK p \in Seq(S!Event), n \in Nat : p = Tail(pipe) /\ n = sent
        BY <1>2, <1>8
      <3>2. /\ buffer' \in Buffers /\ taken' \in [S!Kind -> Numbers]
            /\ AllInOrder(taken', buffer', p, n) /\ S!EventsInOrder
        BY <1>7, <1>9, <2>1, <3>1, TakeIs
      <3> QED
        BY <3>1, <3>2
    <2>3. calls' \in Seq(S!Call) /\ Nested(stack', calls') /\ Len(calls') >= Len(calls)
      BY <1>1, <2>1, ResumedNested DEF S!Waiting, S!Resumed
    <2>4. S!InterruptedIsRefreshed
      BY <2>3, NoneReturned
    <2> QED
      BY <1>1, <1>2, <2>2, <2>3, <2>4 DEF SessionKept, SessionInv, S!TypeOK, Buffers, Numbers
  <1>11. CASE k \notin S!Last(calls).waits
    <2>1. buffer' = b /\ UNCHANGED <<taken, calls>>
      BY <1>3, <1>4, <1>5, <1>6, <1>11 DEF S!ReceiveBuffered
    <2>2. S!InterruptedIsRefreshed
      BY <2>1, NoneReturned
    <2> QED
      BY <1>1, <1>2, <1>7, <1>9, <2>1, <2>2, NothingTaken
  <1> QED
    BY <1>10, <1>11

\* What is received
LEMMA SessionReceives ==
  ASSUME S!SessionAssumption, SessionInv, S!Receive
  PROVE  SessionKept
  <1> USE SessionTypes
  <1>1. S!Waiting /\ pipe # << >> /\ pipe' = Tail(pipe) /\ calls # << >>
    BY DEF S!Receive, S!Waiting
  <1>2. pipe' \in Seq(S!Event)
    BY <1>1, HeadTailProperties
  <1>3. AllInOrder(taken, buffer, pipe', sent)
    <2> SUFFICES ASSUME NEW k \in Ordered PROVE InOrder(k, taken[k], buffer[k], Tail(pipe), sent)
      BY <1>1 DEF AllInOrder
    <2>1. InOrder(k, taken[k], buffer[k], pipe, sent)
      BY DEF AllInOrder
    <2> QED
      BY <1>1, <2>1, PassedInOrder
  <1>4. CASE S!ReceiveBuffered(Head(pipe))
    BY <1>1, <1>4, SessionReceivesBuffered
  <1>5. CASE S!ReceiveInfoReq(Head(pipe))
    <2>1. UNCHANGED <<sent, buffer, taken, stack, calls, closed>>
      BY <1>5 DEF S!ReceiveInfoReq
    <2>2. S!InterruptedIsRefreshed
      BY <2>1, NoneReturned
    <2> QED
      BY <1>2, <1>3, <2>1, <2>2, NothingTaken
  <1>6. CASE S!ReceiveGosub(Head(pipe))
    <2>1. PICK script \in Script : S!RunScript(script)
      BY <1>6 DEF S!ReceiveGosub
    <2>2. UNCHANGED <<sent, buffer, taken, closed>>
      BY <1>6 DEF S!ReceiveGosub
    <2>3. /\ stack' \in Seq(Script) /\ calls' \in Seq(S!Call) /\ Nested(stack', calls')
          /\ Len(calls') >= Len(calls)
      BY <1>1, <2>1, RunNested
    <2>4. S!InterruptedIsRefreshed
      BY <2>3, NoneReturned
    <2> QED
      BY <1>2, <1>3, <2>2, <2>3, <2>4, NothingTaken
  <1>7. CASE S!ReceiveException(Head(pipe))
    <2>1. /\ calls' = << >> /\ closed' = TRUE /\ S!RefreshedIf(S!SomeInterrupted)
          /\ UNCHANGED <<sent, taken, stack>>
      BY <1>7 DEF S!ReceiveException, S!Close
    <2> QED
      BY <1>2, <1>3, <2>1, SessionLeaves
  <1> QED
    BY <1>4, <1>5, <1>6, <1>7 DEF S!Receive

LEMMA SessionNext == S!SessionAssumption /\ SessionInv /\ [S!Next]_S!vars => SessionKept
  <1> SUFFICES ASSUME S!SessionAssumption, SessionInv, [S!Next]_S!vars PROVE SessionKept
    OBVIOUS
  <1> USE SessionTypes
  <1>1. CASE UNCHANGED S!vars
    <2>1. UNCHANGED <<pipe, sent, buffer, taken, stack, calls, closed>>
      BY <1>1 DEF S!vars
    <2>2. S!InterruptedIsRefreshed
      BY <2>1, NoneReturned
    <2> QED
      BY <2>1, <2>2, NothingTaken
  <1>2. CASE (\E k \in S!Kind \cup S!Command : S!Send(k)) \/ S!HangUp
    BY <1>2, SessionSend
  <1>3. CASE S!Begin \/ S!TimeOut
    BY <1>3, SessionCalls
  <1>4. CASE S!Return
    BY <1>4, SessionReturn
  <1>5. CASE S!Fail
    <2>1. /\ S!RefreshedIf(S!SomeInterrupted) /\ calls' = << >> /\ stack' = S!Front(stack)
          /\ UNCHANGED <<pipe, sent, taken, closed>> /\ calls # << >>
      BY <1>5 DEF S!Fail, S!Running
    <2>2. stack # << >>
      <3>1. Len(calls) \in Nat \ {0}
        BY <2>1, EmptySeq
      <3> QED
        BY <3>1 DEF Nested
    <2>3. stack' \in Seq(Script)
      <3>1. PICK st \in Seq(Script) : st = stack
        OBVIOUS
      <3>2. PICK t : t = S!Front(st)
        OBVIOUS
      <3>3. t \in Seq(Script)
        BY <2>2, <3>1, <3>2, FrontIs
      <3> QED
        BY <2>1, <3>1, <3>2, <3>3
    <2> QED
      BY <2>1, <2>3, SessionLeaves
  <1>6. CASE S!Disconnect
    <2>1. /\ S!RefreshedIf(S!SomeInterrupted) /\ calls' = << >> /\ closed' = TRUE
          /\ UNCHANGED <<pipe, sent, taken, stack>>
      BY <1>6 DEF S!Disconnect, S!Close
    <2> QED
      BY <2>1, SessionLeaves
  <1>7. ASSUME NEW script \in Script, S!GoTo(script) PROVE SessionKept
    <2>1. /\ S!RefreshedIf(S!SomeInterrupted) /\ calls' = << >> /\ stack' = <<script>>
          /\ UNCHANGED <<pipe, sent, taken, closed>>
      BY <1>7 DEF S!GoTo
    <2>2. <<script>> \in Seq(Script)
      OBVIOUS
    <2> QED
      BY <2>1, <2>2, SessionLeaves
  <1>8. CASE \E script \in Script : S!Gosub(script)
    BY <1>8, SessionCalls
  <1>9. ASSUME NEW k \in S!Kind, S!FlushEvent(k) PROVE SessionKept
    <2>1. /\ buffer' = [buffer EXCEPT ![k] = << >>]
          /\ UNCHANGED <<pipe, sent, taken, stack, calls, closed>>
      BY <1>9 DEF S!FlushEvent
    <2>2. buffer' \in Buffers
      <3>1. << >> \in Seq(Numbers)
        OBVIOUS
      <3> QED
        BY <2>1, <3>1 DEF Buffers
    <2>3. AllInOrder(taken, buffer', pipe, sent)
      <3> SUFFICES ASSUME NEW j \in Ordered
                   PROVE  InOrder(j, taken[j], buffer'[j], pipe, sent)
        BY DEF AllInOrder
      <3>1. InOrder(j, taken[j], buffer[j], pipe, sent)
        BY DEF AllInOrder
      <3>2. buffer'[j] = buffer[j] \/ buffer'[j] = << >>
        BY <2>1 DEF Buffers, Ordered, S!Kind
      <3>3. InOrder(j, taken[j], << >>, pipe, sent)
        BY <3>1, FlushedInOrder
      <3> QED
        BY <3>1, <3>2, <3>3
    <2>4. S!InterruptedIsRefreshed
      BY <2>1, NoneReturned
    <2> QED
      BY <2>1, <2>2, <2>3, <2>4, NothingTaken
  <1>10. ASSUME NEW events \in Reads,
                S!ReadBuffered(events) \/ S!Wait(events, TRUE) \/ S!Wait(events, FALSE)
         PROVE  SessionKept
    BY <1>10, SessionTakes, SessionCalls
  <1>11. CASE S!Receive
    BY <1>11, SessionReceives
  <1>12. CASE S!NothingComes
    BY <1>12, SessionTakes
  <1>13. CASE S!EndOfStack
    <2>1. UNCHANGED <<pipe, sent, buffer, taken, stack, calls>> /\ closed' = TRUE
      BY <1>13 DEF S!EndOfStack
    <2>2. S!InterruptedIsRefreshed
      BY <2>1, NoneReturned
    <2> QED
      BY <2>1, <2>2, NothingTaken
  <1>14. CASE S!Finished
    BY <1>1, <1>14 DEF S!Finished
  <1> QED
    BY <1>1, <1>2, <1>3, <1>4, <1>5, <1>6, <1>7, <1>8, <1>9, <1>10, <1>11, <1>12, <1>13, <1>14
    DEF S!Next, S!ScriptStep, S!ReadEvents

\* What the invariant says of the script stack
LEMMA StackOfCalls == SessionInv => S!StackIsCalls
  <1> SUFFICES ASSUME SessionInv PROVE S!StackIsCalls
    OBVIOUS
  <1>1. DOMAIN calls = 1 .. Len(calls)
    BY SessionTypes
  <1> QED
    BY <1>1, SessionTypes DEF Nested, S!StackIsCalls

\* Scripts call each other, are interrupted by events and fail, as they like: the script stack
\* ends with the scripts that run, in the order of their calls, so that run() resumes the
\* caller of the one that fails (session.py:283-352).
THEOREM StackNests ==
  ASSUME S!SessionAssumption
  PROVE  S!Spec => [](S!TypeOK /\ S!StackIsCalls)
  <1>1. S!Init => SessionInv
    BY SessionInit
  <1>2. SessionInv /\ [S!Next]_S!vars => SessionInv'
    BY SessionNext DEF SessionKept
  <1>3. SessionInv => S!TypeOK /\ S!StackIsCalls
    BY StackOfCalls DEF SessionInv
  <1> QED
    BY <1>1, <1>2, <1>3, PTL DEF S!Spec

\* No step takes an event of a kind after a later one, or twice; and no step lets a script that
\* was interrupted in read_events() go on waiting without a refresh in its buffer.
THEOREM EventsAreInOrder ==
  ASSUME S!SessionAssumption
  PROVE  S!Spec => [][S!EventsInOrder /\ S!InterruptedIsRefreshed]_S!vars
  <1>1. S!Init => SessionInv
    BY SessionInit
  <1>2. SessionInv /\ [S!Next]_S!vars => SessionInv'
    BY SessionNext DEF SessionKept
  <1>3. SessionInv /\ [S!Next]_S!vars => [S!EventsInOrder /\ S!InterruptedIsRefreshed]_S!vars
    BY SessionNext DEF SessionKept
  <1> QED
    BY <1>1, <1>2, <1>3, PTL DEF S!Spec

-----------------------------------------------------------------------------
(* DbProxy.  While no request is mixed with another there is one at a time,   *)
(* and what its handler sends ends where the session stops to read it: so     *)
(* nothing of it is left when the next is made.                               *)

Ends(part) == part \in {"answer", "stop", "exception"}

\* p is in the pipe and h is still to be sent, in answer to a request of this event.
Stream(event, state, p, h) ==
  /\ \A i \in 1 .. Len(h) : Ends(h[i]) => i = Len(h)
  /\ \A i \in 1 .. Len(p) : Ends(p[i].part) => i = Len(p) /\ h = << >>
  /\ event = "method" => /\ \A i \in 1 .. Len(h) : Ends(h[i])
                         /\ \A i \in 1 .. Len(p) : Ends(p[i].part)
  /\ event = "iterate" /\ state = "first" =>
       /\ p # << >> => p[1].part = "start"
       /\ p = << >> /\ h # << >> => h[1] = "start"

\* Everything under way is in answer to the request r.
OnlyOf(r) ==
  /\ \A i \in 1 .. Len(pipe) : pipe[i].of = r
  /\ \A s \in D!Request : s # r => handlers[s] = << >>

OneAtATime ==
  /\ Len(asking) <= 1
  /\ \A e \in D!Event : buffer[e] = << >>
  /\ asking = << >> => pipe = << >> /\ \A r \in D!Request : handlers[r] = << >>
  /\ asking # << >> =>
       LET r == asking[1].request IN
         OnlyOf(r) /\ Stream(kind[r], asking[1].state, pipe, handlers[r])

\* The inductive invariant
DbInv == D!TypeOK /\ (~mixed => OneAtATime /\ got.by = got.of)

\* What an iteration sends
LEMMA IterationIs ==
  ASSUME NEW n \in Nat, NEW end \in {"stop", "exception"},
         NEW s, s = <<"start">> \o D!Items(n) \o <<end>>
  PROVE  /\ s \in Seq(D!Part) /\ s # << >> /\ s[1] = "start"
         /\ \A i \in 1 .. Len(s) : Ends(s[i]) => i = Len(s)
  <1> DEFINE items == D!Items(n)
             front == <<"start">> \o items
  <1>1. items \in Seq(D!Part) /\ Len(items) = n /\ \A i \in 1 .. n : items[i] = "item"
    <2>1. items \in [1 .. n -> D!Part]
      BY DEF D!Items, D!Part
    <2> QED
      BY <2>1, SeqDef DEF D!Items
  <1>2. <<"start">> \in Seq(D!Part) /\ <<end>> \in Seq(D!Part)
    BY DEF D!Part
  <1> HIDE DEF items
  <1>3. /\ front \in Seq(D!Part) /\ Len(front) = 1 + n
        /\ \A i \in 1 .. 1 + n : front[i] = IF i <= 1 THEN <<"start">>[i] ELSE items[i - 1]
    BY <1>1, <1>2, ConcatProperties
  <1>4. front[1] = "start" /\ \A i \in 1 .. 1 + n : ~Ends(front[i])
    <2>1. front[1] = "start"
      BY <1>3
    <2>2. ASSUME NEW i \in 2 .. 1 + n PROVE front[i] = "item"
      <3>1. i - 1 \in 1 .. n /\ i \in 1 .. 1 + n /\ ~(i <= 1)
        OBVIOUS
      <3> QED
        BY <1>1, <1>3, <3>1
    <2>3. \A i \in 1 .. 1 + n : i = 1 \/ i \in 2 .. 1 + n
      OBVIOUS
    <2> QED
      BY <2>1, <2>2, <2>3 DEF Ends
  <1>5. s = front \o <<end>>
    BY DEF items
  <1> HIDE DEF front
  <1>6. /\ s \in Seq(D!Part) /\ Len(s) = 2 + n
        /\ \A i \in 1 .. 2 + n : s[i] = IF i <= 1 + n THEN front[i] ELSE <<end>>[i - (1 + n)]
    <2>1. /\ front \o <<end>> \in Seq(D!Part) /\ Len(front \o <<end>>) = 1 + n + 1
          /\ \A i \in 1 .. 1 + n + 1 : (front \o <<end>>)[i] =
               IF i <= 1 + n THEN front[i] ELSE <<end>>[i - (1 + n)]
      <3>1. Len(front) = 1 + n /\ Len(<<end>>) = 1
        BY <1>3
      <3> QED
        BY <1>2, <1>3, <3>1, ConcatProperties
    <2>2. 1 + n + 1 = 2 + n
      OBVIOUS
    <2> QED
      BY <1>5, <2>1, <2>2
  <1>7. \A i \in 1 .. 1 + n : i \in 1 .. 2 + n /\ i <= 1 + n
    OBVIOUS
  <1>8. ASSUME NEW i \in 1 .. 2 + n, Ends(s[i]) PROVE i = 2 + n
    <2>1. CASE i \in 1 .. 1 + n
      BY <1>4, <1>6, <1>7, <1>8, <2>1
    <2> QED
      BY <2>1
  <1>9. s # << >>
    BY <1>6
  <1>10. s[1] = "start"
    <2>1. 1 \in 1 .. 1 + n
      OBVIOUS
    <2> QED
      BY <1>4, <1>6, <1>7, <2>1
  <1> QED
    BY <1>6, <1>8, <1>9, <1>10

\* What any handler sends
LEMMA PartsAre ==
  ASSUME D!DbProxyAssumption, NEW event \in D!Event, NEW h \in D!Parts(event)
  PROVE  h \in Seq(D!Part) /\ Stream(event, "first", << >>, h)
  <1>1. CASE event = "method"
    <2>1. h \in {<<"answer">>, <<"exception">>}
      BY <1>1 DEF D!Parts
    <2>2. h \in Seq(D!Part) /\ Len(h) = 1 /\ h[1] \in {"answer", "exception"}
      <3>1. ASSUME h = <<"answer">> PROVE h \in Seq(D!Part) /\ Len(h) = 1 /\ h[1] = "answer"
        BY <3>1 DEF D!Part
      <3>2. ASSUME h = <<"exception">> PROVE h \in Seq(D!Part) /\ Len(h) = 1 /\ h[1] = "exception"
        BY <3>2 DEF D!Part
      <3> QED
        BY <2>1, <3>1, <3>2
    <2> QED
      BY <1>1, <2>2 DEF Stream, Ends
  <1>2. CASE event = "iterate"
    <2>1. PICK n \in Nat, end \in {"stop", "exception"} : h = <<"start">> \o D!Items(n) \o <<end>>
      <3>1. \/ h = <<"start">> \o D!Items(NumItems) \o <<"stop">>
            \/ \E n \in 0 .. NumItems : h = <<"start">> \o D!Items(n) \o <<"exception">>
        BY <1>2 DEF D!Parts
      <3>2. NumItems \in Nat /\ \A n \in 0 .. NumItems : n \in Nat
        BY DEF D!DbProxyAssumption
      <3>3. CASE h = <<"start">> \o D!Items(NumItems) \o <<"stop">>
        BY <3>2, <3>3
      <3>4. CASE \E n \in 0 .. NumItems : h = <<"start">> \o D!Items(n) \o <<"exception">>
        BY <3>2, <3>4
      <3> QED
        BY <3>1, <3>3, <3>4
    <2>2. /\ h \in Seq(D!Part) /\ h # << >> /\ h[1] = "start"
          /\ \A i \in 1 .. Len(h) : Ends(h[i]) => i = Len(h)
      BY <2>1, IterationIs
    <2> QED
      BY <1>2, <2>2 DEF Stream
  <1> QED
    BY <1>1, <1>2 DEF D!Event

\* A part is sent,
LEMMA StreamSent ==
  ASSUME NEW event, NEW state, NEW r \in D!Request, NEW p \in Seq(D!Answer), NEW h \in Seq(D!Part),
         h # << >>, Stream(event, state, p, h), NEW e, e = [of |-> r, part |-> Head(h)]
  PROVE  e \in D!Answer /\ Stream(event, state, Append(p, e), Tail(h))
  <1>1. /\ Head(h) = h[1] /\ Head(h) \in D!Part /\ Len(h) \in Nat \ {0} /\ 1 \in 1 .. Len(h)
        /\ Tail(h) \in Seq(D!Part) /\ Len(Tail(h)) = Len(h) - 1
        /\ \A i \in 1 .. Len(Tail(h)) : Tail(h)[i] = h[i + 1] /\ i + 1 \in 1 .. Len(h)
    <2>1. Len(h) \in Nat \ {0}
      BY EmptySeq
    <2>2. /\ Head(h) \in D!Part /\ Tail(h) \in Seq(D!Part) /\ Len(Tail(h)) = Len(h) - 1
          /\ \A i \in 1 .. Len(Tail(h)) : Tail(h)[i] = h[i + 1]
      BY HeadTailProperties
    <2> QED
      BY <2>1, <2>2
  <1>2. e \in D!Answer /\ e.part = h[1]
    BY <1>1 DEF D!Answer
  <1>3. PICK s : s = Append(p, e)
    OBVIOUS
  <1>4. /\ s \in Seq(D!Answer) /\ Len(s) = Len(p) + 1 /\ Len(p) \in Nat
        /\ \A i \in 1 .. Len(p) : s[i] = p[i]
        /\ s[Len(p) + 1] = e
    BY <1>2, <1>3, AppendProperties
  <1>5. \A i \in 1 .. Len(s) : i \in 1 .. Len(p) \/ i = Len(p) + 1
    BY <1>4
  <1>6. ASSUME NEW i \in 1 .. Len(Tail(h)), Ends(Tail(h)[i]) PROVE i = Len(Tail(h))
    <2>1. i + 1 = Len(h)
      BY <1>1, <1>6 DEF Stream
    <2>2. i = Len(h) - 1
      BY <2>1
    <2> QED
      BY <1>1, <2>2
  <1>7. ASSUME NEW i \in 1 .. Len(s), Ends(s[i].part) PROVE i = Len(s) /\ Tail(h) = << >>
    <2>1. CASE i \in 1 .. Len(p)
      BY <1>4, <1>7, <2>1 DEF Stream
    <2>2. CASE i = Len(p) + 1
      <3>1. Len(h) = 1
        BY <1>1, <1>2, <1>4, <1>7, <2>2 DEF Stream
      <3>2. Tail(h) = << >>
        <4>1. Len(Tail(h)) = 0
          BY <1>1, <3>1
        <4> QED
          BY <1>1, <4>1, EmptySeq
      <3> QED
        BY <1>4, <2>2, <3>2
    <2> QED
      BY <1>5, <2>1, <2>2
  <1>8. event = "method" => /\ \A i \in 1 .. Len(Tail(h)) : Ends(Tail(h)[i])
                            /\ \A i \in 1 .. Len(s) : Ends(s[i].part)
    BY <1>1, <1>2, <1>4, <1>5 DEF Stream
  <1>9. s # << >> /\ (event = "iterate" /\ state = "first" => s[1].part = "start")
    <2>1. s # << >>
      BY <1>4
    <2>2. CASE p = << >>
      <3>1. Len(p) = 0
        BY <2>2
      <3> QED
        BY <1>2, <1>4, <2>1, <2>2, <3>1 DEF Stream
    <2>3. CASE p # << >>
      <3>1. 1 \in 1 .. Len(p)
        BY <2>3, EmptySeq
      <3> QED
        BY <1>4, <2>1, <2>3, <3>1 DEF Stream
    <2> QED
      BY <2>2, <2>3
  <1>10. Stream(event, state, s, Tail(h))
    BY <1>6, <1>7, <1>8, <1>9 DEF Stream
  <1> QED
    BY <1>2, <1>3, <1>10

\* What is left when e was read: t in the pipe
LeftOf(event, state, e, t, h) ==
  /\ Stream(event, "next", t, h) /\ Stream(event, "held", t, h)
  /\ Ends(e.part) => t = << >> /\ h = << >>
  /\ event = "method" => Ends(e.part)
  /\ event = "iterate" /\ state = "first" => e.part = "start"

\* and read.
LEMMA StreamRead ==
  ASSUME NEW event, NEW state, NEW p \in Seq(D!Answer), NEW h \in Seq(D!Part),
         p # << >>, Stream(event, state, p, h), NEW e, NEW t, e = Head(p), t = Tail(p)
  PROVE  LeftOf(event, state, e, t, h)
  <1>1. Len(p) \in Nat \ {0} /\ e = p[1] /\ 1 \in 1 .. Len(p)
    BY EmptySeq
  <1>2. /\ t \in Seq(D!Answer) /\ Len(t) = Len(p) - 1
        /\ \A i \in 1 .. Len(t) : t[i] = p[i + 1]
    BY HeadTailProperties
  <1>3. \A i \in 1 .. Len(t) : i + 1 \in 1 .. Len(p)
    BY <1>1, <1>2
  <1>4. ASSUME Ends(e.part) PROVE t = << >> /\ h = << >>
    <2>1. Len(p) = 1 /\ h = << >>
      BY <1>1, <1>4 DEF Stream
    <2>2. Len(t) = 0
      BY <1>2, <2>1
    <2> QED
      BY <1>2, <2>1, <2>2, EmptySeq
  <1>5. ASSUME NEW i \in 1 .. Len(t), Ends(t[i].part)
        PROVE  i = Len(t) /\ h = << >>
    <2>1. i + 1 = Len(p) /\ h = << >>
      BY <1>2, <1>3, <1>5 DEF Stream
    <2>2. i = Len(p) - 1
      BY <1>1, <2>1
    <2> QED
      BY <1>2, <2>1, <2>2
  <1>6. \A next \in {"next", "held"} : Stream(event, next, t, h)
    BY <1>2, <1>3, <1>5 DEF Stream
  <1>7. event = "method" => Ends(e.part)
    BY <1>1 DEF Stream
  <1>8. event = "iterate" /\ state = "first" => e.part = "start"
    BY <1>1 DEF Stream
  <1> QED
    BY <1>4, <1>6, <1>7, <1>8 DEF LeftOf

\* The request that the session waits for, or holds
LEMMA LastAsk ==
  ASSUME NEW a \in Seq(D!Ask), a # << >>
  PROVE  /\ Len(a) \in Nat \ {0} /\ Len(a) \in 1 .. Len(a)
         /\ D!Last(a) = a[Len(a)] /\ D!Last(a) \in D!Ask
         /\ Len(a) <= 1 => Len(a) = 1 /\ D!Last(a) = a[1]
  <1>1. Len(a) \in Nat \ {0}
    BY EmptySeq
  <1>2. Len(a) \in 1 .. Len(a)
    BY <1>1
  <1>3. D!Last(a) = a[Len(a)]
    BY DEF D!Last
  <1>4. a[Len(a)] \in D!Ask
    BY <1>2, ElementOfSeq
  <1>5. \A n \in Nat \ {0} : n <= 1 => n = 1
    OBVIOUS
  <1> QED
    BY <1>1, <1>2, <1>3, <1>4, <1>5

\* with another state, with or without a script that an event started above it, and in general
InState(a, s) == [a EXCEPT ![Len(a)].state = s]
Under(a, b)   == [a EXCEPT ![Len(a)].nested = b]
Changed(a, x) == [a EXCEPT ![Len(a)] = x]

\* A change to it
LEMMA AskChanged ==
  ASSUME NEW a \in Seq(D!Ask), a # << >>, NEW x \in D!Ask, NEW t, t = Changed(a, x)
  PROVE  /\ t \in Seq(D!Ask) /\ t # << >> /\ Len(t) = Len(a)
         /\ Len(a) <= 1 => t[1] = x
  <1>1. PICK n : n = Len(a)
    OBVIOUS
  <1>2. n \in 1 .. Len(a) /\ n \in Nat \ {0} /\ t = [a EXCEPT ![n] = x]
    BY <1>1, LastAsk DEF Changed
  <1>3. t \in Seq(D!Ask) /\ Len(t) = n /\ \A j \in 1 .. n : t[j] = IF j = n THEN x ELSE a[j]
    BY <1>1, <1>2, ExceptSeq
  <1>4. t # << >>
    BY <1>2, <1>3, EmptySeq
  <1>5. n <= 1 => t[1] = x
    <2>1. n <= 1 => n = 1 /\ 1 \in 1 .. n
      BY <1>2
    <2> QED
      BY <1>3, <2>1
  <1> QED
    BY <1>1, <1>3, <1>4, <1>5

\* of its state
LEMMA StateChanged ==
  ASSUME NEW a \in Seq(D!Ask), a # << >>, NEW s \in {"next", "held"}, NEW t, t = InState(a, s)
  PROVE  /\ t \in Seq(D!Ask) /\ t # << >> /\ Len(t) = Len(a)
         /\ Len(a) <= 1 => t[1].request = a[1].request /\ t[1].state = s
  <1>1. PICK x : x = [a[Len(a)] EXCEPT !.state = s]
    OBVIOUS
  <1>2. a[Len(a)] \in D!Ask /\ (Len(a) <= 1 => Len(a) = 1)
    BY LastAsk
  <1>3. x \in D!Ask /\ x.request = a[Len(a)].request /\ x.state = s
    BY <1>1, <1>2 DEF D!Ask
  <1>4. t = Changed(a, x)
    BY <1>1 DEF InState, Changed
  <1>5. t \in Seq(D!Ask) /\ t # << >> /\ Len(t) = Len(a) /\ (Len(a) <= 1 => t[1] = x)
    BY <1>3, <1>4, AskChanged
  <1> QED
    BY <1>2, <1>3, <1>5

\* or of what runs above it
LEMMA UnderChanged ==
  ASSUME NEW a \in Seq(D!Ask), a # << >>, NEW b \in BOOLEAN, NEW t, t = Under(a, b)
  PROVE  /\ t \in Seq(D!Ask) /\ t # << >> /\ Len(t) = Len(a)
         /\ Len(a) <= 1 => t[1].request = a[1].request /\ t[1].state = a[1].state
  <1>1. PICK x : x = [a[Len(a)] EXCEPT !.nested = b]
    OBVIOUS
  <1>2. a[Len(a)] \in D!Ask /\ (Len(a) <= 1 => Len(a) = 1)
    BY LastAsk
  <1>3. x \in D!Ask /\ x.request = a[Len(a)].request /\ x.state = a[Len(a)].state
    BY <1>1, <1>2 DEF D!Ask
  <1>4. t = Changed(a, x)
    BY <1>1 DEF Under, Changed
  <1>5. t \in Seq(D!Ask) /\ t # << >> /\ Len(t) = Len(a) /\ (Len(a) <= 1 => t[1] = x)
    BY <1>3, <1>4, AskChanged
  <1> QED
    BY <1>2, <1>3, <1>5

\* and its end
LEMMA AskDone ==
  ASSUME NEW a \in Seq(D!Ask), a # << >>, NEW t, t = D!Front(a)
  PROVE  /\ t \in Seq(D!Ask) /\ Len(t) = Len(a) - 1
         /\ Len(a) <= 1 => t = << >>
  <1>1. t = S!Front(a)
    BY DEF D!Front, S!Front
  <1>2. t \in Seq(D!Ask) /\ Len(t) = Len(a) - 1
    BY <1>1, FrontIs
  <1>3. Len(a) <= 1 => Len(t) = 0
    BY <1>2, LastAsk
  <1> QED
    BY <1>2, <1>3, EmptySeq

LEMMA DbInit == D!DbProxyAssumption /\ D!Init => DbInv
  <1> SUFFICES ASSUME D!DbProxyAssumption, D!Init PROVE DbInv
    OBVIOUS
  <1>1. /\ made \in 0 .. MaxRequests /\ gosubs \in 0 .. MaxGosubs
        /\ got \in [by : 0 .. MaxRequests, of : 0 .. MaxRequests]
    BY DEF D!Init, D!DbProxyAssumption
  <1>2. /\ kind \in [D!Request -> D!Event] /\ handlers \in [D!Request -> Seq(D!Part)]
        /\ buffer \in [D!Event -> Seq(D!Answer)]
    BY DEF D!Init, D!Event
  <1>3. pipe \in Seq(D!Answer) /\ asking \in Seq(D!Ask)
    BY DEF D!Init
  <1>4. mixed \in BOOLEAN /\ unopened \subseteq D!Request
    BY DEF D!Init
  <1>5. D!TypeOK
    BY <1>1, <1>2, <1>3, <1>4 DEF D!TypeOK
  <1>6. OneAtATime /\ got.by = got.of
    BY DEF D!Init, OneAtATime
  <1> QED
    BY <1>5, <1>6 DEF DbInv

\* A handler sends a part of its answer.
LEMMA DbHandlerSends ==
  ASSUME D!DbProxyAssumption, DbInv, NEW r \in D!Request, D!HandlerSends(r)
  PROVE  DbInv'
  <1>1. PICK h : h = handlers[r]
    OBVIOUS
  <1>2. PICK e : e = [of |-> r, part |-> Head(h)]
    OBVIOUS
  <1>3. /\ h # << >> /\ handlers' = [handlers EXCEPT ![r] = Tail(h)] /\ pipe' = Append(pipe, e)
        /\ UNCHANGED <<made, kind, buffer, asking, gosubs, mixed, unopened, got>>
    BY <1>1, <1>2 DEF D!HandlerSends
  <1>4. h \in Seq(D!Part) /\ pipe \in Seq(D!Answer) /\ handlers \in [D!Request -> Seq(D!Part)]
    BY <1>1 DEF DbInv, D!TypeOK
  <1>5. Head(h) \in D!Part /\ Tail(h) \in Seq(D!Part)
    BY <1>3, <1>4, HeadTailProperties
  <1>6. e \in D!Answer /\ e.of = r
    BY <1>2, <1>5 DEF D!Answer
  <1>7. /\ pipe' \in Seq(D!Answer) /\ Len(pipe') = Len(pipe) + 1 /\ Len(pipe) \in Nat
        /\ \A i \in 1 .. Len(pipe) : pipe'[i] = pipe[i]
        /\ pipe'[Len(pipe) + 1] = e
    BY <1>3, <1>4, <1>6, AppendProperties
  <1>8. handlers' \in [D!Request -> Seq(D!Part)]
    BY <1>3, <1>4, <1>5
  <1>9. D!TypeOK'
    BY <1>3, <1>7, <1>8 DEF DbInv, D!TypeOK
  <1>10. ASSUME ~mixed PROVE OneAtATime'
    <2>1. OneAtATime
      BY <1>10 DEF DbInv
    <2>2. asking # << >>
      BY <1>1, <1>3, <2>1 DEF OneAtATime
    <2>3. OnlyOf(asking[1].request) /\ r = asking[1].request
      BY <1>1, <1>3, <2>1, <2>2 DEF OneAtATime, OnlyOf
    <2>4. Stream(kind[r], asking[1].state, pipe, h)
      BY <1>1, <2>1, <2>2, <2>3 DEF OneAtATime
    <2>5. Stream(kind[r], asking[1].state, pipe', Tail(h))
      BY <1>2, <1>3, <1>4, <2>4, StreamSent
    <2>6. handlers'[r] = Tail(h) /\ \A s \in D!Request : s # r => handlers'[s] = << >>
      BY <1>3, <1>4, <2>3 DEF OnlyOf
    <2>7. \A i \in 1 .. Len(pipe') : pipe'[i].of = r
      <3>1. \A i \in 1 .. Len(pipe') : i \in 1 .. Len(pipe) \/ i = Len(pipe) + 1
        BY <1>7
      <3> QED
        BY <1>6, <1>7, <2>3, <3>1 DEF OnlyOf
    <2>8. OnlyOf(r)'
      BY <2>6, <2>7 DEF OnlyOf
    <2> QED
      BY <1>3, <2>1, <2>2, <2>3, <2>5, <2>6, <2>8 DEF OneAtATime
  <1> QED
    BY <1>3, <1>9, <1>10 DEF DbInv

\* The session makes a request.
LEMMA DbMakesRequest ==
  ASSUME D!DbProxyAssumption, DbInv, NEW event \in D!Event, D!MakeRequest(event)
  PROVE  DbInv'
  <1>1. PICK r : r = made'
    OBVIOUS
  <1>2. PICK a : a = [request |-> r, state |-> "first", nested |-> FALSE]
    OBVIOUS
  <1>3. /\ made < MaxRequests /\ r = made + 1 /\ kind' = [kind EXCEPT ![r] = event]
        /\ asking' = Append(asking, a)
        /\ mixed' = (mixed \/ asking # << >>)
        /\ UNCHANGED <<pipe, gosubs, got>>
    BY <1>1, <1>2 DEF D!MakeRequest
  <1>4. r \in D!Request /\ made' \in 0 .. MaxRequests /\ a \in D!Ask
    <2>1. r \in D!Request /\ made' \in 0 .. MaxRequests
      BY <1>1, <1>3 DEF DbInv, D!TypeOK, D!DbProxyAssumption, D!Request
    <2> QED
      BY <1>2, <2>1 DEF D!Ask
  <1>5. /\ handlers \in [D!Request -> Seq(D!Part)] /\ kind \in [D!Request -> D!Event]
        /\ buffer \in [D!Event -> Seq(D!Answer)] /\ asking \in Seq(D!Ask)
    BY DEF DbInv, D!TypeOK
  <1>6. /\ handlers' \in [D!Request -> Seq(D!Part)] /\ unopened' \subseteq D!Request
        /\ \A s \in D!Request : s # r => handlers'[s] = handlers[s]
        /\ handlers'[r] = handlers[r] \/ Stream(event, "first", << >>, handlers'[r])
    <2>1. CASE unopened' = unopened \cup {made'} /\ UNCHANGED handlers
      BY <1>1, <1>4, <1>5, <2>1 DEF DbInv, D!TypeOK
    <2>2. CASE /\ \E parts \in D!Parts(event) : handlers' = [handlers EXCEPT ![made'] = parts]
               /\ UNCHANGED unopened
      <3>1. PICK parts \in D!Parts(event) : handlers' = [handlers EXCEPT ![r] = parts]
        BY <1>1, <2>2
      <3>2. parts \in Seq(D!Part) /\ Stream(event, "first", << >>, parts)
        BY PartsAre
      <3> QED
        BY <1>4, <1>5, <2>2, <3>1, <3>2 DEF DbInv, D!TypeOK
    <2> QED
      BY <2>1, <2>2 DEF D!MakeRequest
  <1>7. /\ buffer' \in [D!Event -> Seq(D!Answer)]
        /\ \A e \in D!Event : buffer[e] = << >> => buffer'[e] = << >>
    <2>1. buffer' = buffer \/ buffer' = [buffer EXCEPT ![event] = << >>]
      BY DEF D!MakeRequest, D!Flushed
    <2>2. << >> \in Seq(D!Answer)
      OBVIOUS
    <2>3. CASE buffer' = buffer
      BY <1>5, <2>3
    <2>4. CASE buffer' = [buffer EXCEPT ![event] = << >>]
      BY <1>5, <2>2, <2>4
    <2> QED
      BY <2>1, <2>3, <2>4
  <1>8. /\ asking' \in Seq(D!Ask) /\ Len(asking') = Len(asking) + 1
        /\ asking'[Len(asking) + 1] = a
    BY <1>3, <1>4, <1>5, AppendProperties
  <1>9. kind' \in [D!Request -> D!Event] /\ kind'[r] = event
    BY <1>3, <1>4, <1>5
  <1>10. D!TypeOK'
    BY <1>3, <1>4, <1>6, <1>7, <1>8, <1>9 DEF DbInv, D!TypeOK
  <1>11. ASSUME ~mixed' PROVE OneAtATime' /\ got'.by = got'.of
    <2>1. ~mixed /\ asking = << >>
      BY <1>3, <1>11
    <2>2. OneAtATime /\ got.by = got.of
      BY <2>1 DEF DbInv
    <2>3. /\ pipe = << >> /\ \A s \in D!Request : handlers[s] = << >>
          /\ \A e \in D!Event : buffer[e] = << >>
      BY <2>1, <2>2 DEF OneAtATime
    <2>4. Len(asking') = 1 /\ asking' # << >> /\ asking'[1] = a
      <3>1. Len(asking) = 0
        BY <2>1
      <3> QED
        BY <1>8, <3>1
    <2>5. asking'[1].request = r /\ asking'[1].state = "first"
      BY <1>2, <2>4
    <2>6. pipe' = << >> /\ Len(pipe') = 0
      BY <1>3, <2>3
    <2>7. OnlyOf(r)'
      BY <1>4, <1>6, <2>3, <2>6 DEF OnlyOf
    <2>8. Stream(event, "first", << >>, handlers'[r])
      <3>1. CASE handlers'[r] = << >>
        <4>1. Len(<< >>) = 0 /\ 1 .. 0 = {}
          OBVIOUS
        <4> QED
          BY <3>1, <4>1 DEF Stream
      <3> QED
        BY <1>4, <1>6, <2>3, <3>1
    <2>9. \A e \in D!Event : buffer'[e] = << >>
      BY <1>7, <2>3
    <2> QED
      BY <1>3, <1>9, <2>2, <2>4, <2>5, <2>6, <2>7, <2>8, <2>9 DEF OneAtATime
  <1> QED
    BY <1>10, <1>11 DEF DbInv

\* The session takes an answer to the event that it waits for.
LEMMA DbAccepts ==
  ASSUME DbInv, D!Waiting, NEW e \in D!Answer, NEW b \in [D!Event -> Seq(D!Answer)],
         D!Accept(e, b)
  PROVE  /\ asking' \in Seq(D!Ask) /\ buffer' \in [D!Event -> Seq(D!Answer)]
         /\ got' \in [by : 0 .. MaxRequests, of : 0 .. MaxRequests]
         /\ got'.by = asking[Len(asking)].request /\ got'.of = e.of
  <1>1. asking \in Seq(D!Ask) /\ asking # << >> /\ << >> \in Seq(D!Ask)
    BY DEF DbInv, D!TypeOK, D!Waiting, D!Running
  <1>2. D!Last(asking) = asking[Len(asking)] /\ D!Last(asking) \in D!Ask
    BY <1>1, LastAsk
  <1>3. got' = [by |-> asking[Len(asking)].request, of |-> e.of]
    BY <1>2 DEF D!Accept
  <1>4. asking[Len(asking)].request \in D!Request /\ e.of \in D!Request
    BY <1>2 DEF D!Ask, D!Answer
  <1>5. \A r \in D!Request : r \in 0 .. MaxRequests
    BY DEF D!Request
  <1>6. asking' \in {D!Front(asking), InState(asking, "next"), InState(asking, "held"), << >>}
    BY DEF D!Accept, D!GiveUp, InState
  <1>7. asking' \in Seq(D!Ask)
    BY <1>1, <1>6, AskDone, StateChanged
  <1>8. buffer' = b \/ \E k : buffer' = [b EXCEPT ![k] = << >>]
    BY DEF D!Accept
  <1>9. buffer' \in [D!Event -> Seq(D!Answer)]
    <2>1. << >> \in Seq(D!Answer)
      OBVIOUS
    <2>2. CASE buffer' = b
      BY <2>2
    <2>3. CASE \E k : buffer' = [b EXCEPT ![k] = << >>]
      BY <2>1, <2>3
    <2> QED
      BY <1>8, <2>2, <2>3
  <1> QED
    BY <1>3, <1>4, <1>5, <1>7, <1>9

\* It finds one in its buffer only if requests are mixed.
LEMMA DbReadsBuffered ==
  ASSUME DbInv, D!ReadBuffered
  PROVE  DbInv'
  <1>1. /\ D!Waiting /\ asking # << >> /\ asking \in Seq(D!Ask)
        /\ kind \in [D!Request -> D!Event] /\ buffer \in [D!Event -> Seq(D!Answer)]
    BY DEF D!ReadBuffered, D!Waiting, D!Running, DbInv, D!TypeOK
  <1>2. PICK k : k = kind[D!Last(asking).request]
    OBVIOUS
  <1>3. D!Last(asking).request \in D!Request
    BY <1>1, LastAsk DEF D!Ask
  <1>4. k \in D!Event
    BY <1>1, <1>2, <1>3
  <1>5. PICK q : q = buffer[k]
    OBVIOUS
  <1>6. PICK b : b = [buffer EXCEPT ![k] = Tail(q)]
    OBVIOUS
  <1>7. /\ q # << >> /\ D!Accept(Head(q), b)
        /\ UNCHANGED <<made, kind, handlers, pipe, gosubs, mixed, unopened>>
    BY <1>2, <1>5, <1>6 DEF D!ReadBuffered
  <1>8. Head(q) \in D!Answer /\ Tail(q) \in Seq(D!Answer)
    BY <1>1, <1>4, <1>5, <1>7, HeadTailProperties
  <1>9. b \in [D!Event -> Seq(D!Answer)]
    BY <1>1, <1>4, <1>6, <1>8
  <1>10. /\ asking' \in Seq(D!Ask) /\ buffer' \in [D!Event -> Seq(D!Answer)]
         /\ got' \in [by : 0 .. MaxRequests, of : 0 .. MaxRequests]
    BY <1>1, <1>7, <1>8, <1>9, DbAccepts
  <1>11. D!TypeOK'
    BY <1>7, <1>10 DEF DbInv, D!TypeOK
  <1>12. mixed' /\ mixed' \in BOOLEAN
    BY <1>4, <1>5, <1>7 DEF DbInv, D!TypeOK, OneAtATime
  <1> QED
    BY <1>11, <1>12 DEF DbInv

\* It receives the next of its pipe.
LEMMA DbReceives ==
  ASSUME DbInv, D!Receive
  PROVE  DbInv'
  <1>1. /\ D!Waiting /\ asking # << >> /\ asking \in Seq(D!Ask) /\ << >> \in Seq(D!Ask)
        /\ kind \in [D!Request -> D!Event] /\ buffer \in [D!Event -> Seq(D!Answer)]
        /\ pipe \in Seq(D!Answer)
    BY DEF D!Receive, D!Waiting, D!Running, DbInv, D!TypeOK
  <1>2. PICK e : e = Head(pipe)
    OBVIOUS
  <1>3. PICK k : k = kind[D!Last(asking).request]
    OBVIOUS
  <1>4. /\ pipe # << >> /\ pipe' = Tail(pipe)
        /\ UNCHANGED <<made, kind, handlers, gosubs, mixed, unopened>>
        /\ \/ /\ e.part = "exception"
              /\ got' = [by |-> D!Last(asking).request, of |-> e.of]
              /\ asking' = << >> /\ buffer' = buffer
           \/ /\ e.part # "exception" /\ kind[e.of] = k
              /\ D!Accept(e, buffer)
           \/ /\ e.part # "exception" /\ kind[e.of] # k
              /\ buffer' = [buffer EXCEPT ![kind[e.of]] = Append(@, e)]
              /\ UNCHANGED <<asking, got>>
    BY <1>2, <1>3 DEF D!Receive, D!GiveUp
  <1>5. D!Last(asking) = asking[Len(asking)] /\ D!Last(asking).request \in D!Request
    BY <1>1, LastAsk DEF D!Ask
  <1>6. e \in D!Answer /\ Tail(pipe) \in Seq(D!Answer) /\ e = pipe[1] /\ 1 \in 1 .. Len(pipe)
    <2>1. Len(pipe) \in Nat \ {0}
      BY <1>1, <1>4, EmptySeq
    <2>2. 1 \in 1 .. Len(pipe)
      BY <2>1
    <2> QED
      BY <1>1, <1>2, <1>4, <2>2, HeadTailProperties
  <1>7. e.of \in D!Request /\ \A r \in D!Request : r \in 0 .. MaxRequests
    BY <1>6 DEF D!Answer, D!Request
  <1>8. /\ asking' \in Seq(D!Ask) /\ buffer' \in [D!Event -> Seq(D!Answer)]
        /\ got' \in [by : 0 .. MaxRequests, of : 0 .. MaxRequests]
    <2>1. CASE e.part = "exception" /\ asking' = << >> /\ buffer' = buffer
               /\ got' = [by |-> D!Last(asking).request, of |-> e.of]
      BY <1>1, <1>5, <1>7, <2>1
    <2>2. CASE D!Accept(e, buffer)
      BY <1>1, <1>6, <2>2, DbAccepts
    <2>3. CASE buffer' = [buffer EXCEPT ![kind[e.of]] = Append(@, e)] /\ UNCHANGED <<asking, got>>
      <3>1. kind[e.of] \in D!Event
        BY <1>1, <1>7
      <3>2. Append(buffer[kind[e.of]], e) \in Seq(D!Answer)
        BY <1>1, <1>6, <3>1, AppendProperties
      <3>3. buffer' \in [D!Event -> Seq(D!Answer)]
        BY <1>1, <2>3, <3>1, <3>2
      <3> QED
        BY <2>3, <3>3 DEF DbInv, D!TypeOK
    <2> QED
      BY <1>4, <2>1, <2>2, <2>3
  <1>9. D!TypeOK'
    BY <1>4, <1>6, <1>8 DEF DbInv, D!TypeOK
  <1>10. ASSUME ~mixed PROVE OneAtATime' /\ got'.by = got'.of
    <2>1. PICK r : r = asking[1].request
      OBVIOUS
    <2>2. PICK h : h = handlers[r]
      OBVIOUS
    <2>3. Len(asking) = 1 /\ D!Last(asking) = asking[1] /\ r \in D!Request /\ k = kind[r]
      <3>1. Len(asking) <= 1
        BY <1>10 DEF DbInv, OneAtATime
      <3>2. Len(asking) = 1 /\ D!Last(asking) = asking[1]
        BY <1>1, <3>1, LastAsk
      <3> QED
        BY <1>3, <1>5, <2>1, <3>2
    <2> PICK st : st = asking[1].state
      OBVIOUS
    <2>4. /\ OnlyOf(r) /\ Stream(k, st, pipe, h)
          /\ \A b \in D!Event : buffer[b] = << >>
      BY <1>1, <1>10, <2>1, <2>2, <2>3 DEF DbInv, OneAtATime
    <2>5. e.of = r
      BY <1>6, <2>4 DEF OnlyOf
    <2>6. h \in Seq(D!Part)
      BY <2>2, <2>3 DEF DbInv, D!TypeOK
    <2>7. /\ \A next \in {"next", "held"} : Stream(k, next, Tail(pipe), h)
          /\ Ends(e.part) => Tail(pipe) = << >> /\ h = << >>
          /\ k = "method" => Ends(e.part)
          /\ k = "iterate" /\ st = "first" => e.part = "start"
      <3>1. PICK p : p = pipe
        OBVIOUS
      <3>2. PICK t : t = Tail(p)
        OBVIOUS
      <3>3. p \in Seq(D!Answer) /\ p # << >> /\ e = Head(p) /\ Stream(k, st, p, h)
        BY <1>1, <1>2, <1>4, <2>4, <3>1
      <3>4. LeftOf(k, st, e, t, h)
        BY <2>6, <3>2, <3>3, StreamRead
      <3>5. t = Tail(pipe)
        BY <3>1, <3>2
      <3> QED
        BY <3>4, <3>5 DEF LeftOf
    <2>8. \A i \in 1 .. Len(Tail(pipe)) : Tail(pipe)[i].of = r
      <3>1. /\ Len(Tail(pipe)) = Len(pipe) - 1 /\ Len(pipe) \in Nat
            /\ \A i \in 1 .. Len(Tail(pipe)) : Tail(pipe)[i] = pipe[i + 1]
        BY <1>1, <1>4, HeadTailProperties
      <3>2. \A i \in 1 .. Len(Tail(pipe)) : i + 1 \in 1 .. Len(pipe)
        BY <3>1
      <3> QED
        BY <2>4, <3>1, <3>2 DEF OnlyOf
    <2>9. OnlyOf(r)'
      BY <1>4, <2>4, <2>8 DEF OnlyOf
    <2>10. got'.by = got'.of /\ \A b \in D!Event : buffer'[b] = << >>
      <3>1. CASE e.part = "exception" /\ buffer' = buffer
                 /\ got' = [by |-> D!Last(asking).request, of |-> e.of]
        BY <2>1, <2>3, <2>4, <2>5, <3>1
      <3>2. CASE D!Accept(e, buffer)
        <4>1. got'.by = asking[Len(asking)].request /\ got'.of = e.of
          BY <1>1, <1>6, <3>2, DbAccepts
        <4>2. \A b \in D!Event : buffer'[b] = << >>
          <5>1. buffer' = buffer \/ \E x : buffer' = [buffer EXCEPT ![x] = << >>]
            BY <3>2 DEF D!Accept
          <5>2. CASE buffer' = buffer
            BY <2>4, <5>2
          <5>3. CASE \E x : buffer' = [buffer EXCEPT ![x] = << >>]
            BY <1>1, <2>4, <5>3
          <5> QED
            BY <5>1, <5>2, <5>3
        <4> QED
          BY <2>1, <2>3, <2>5, <4>1, <4>2
      <3> QED
        BY <1>4, <2>3, <2>5, <3>1, <3>2
    <2>11. \/ asking' = << >> /\ Ends(e.part)
           \/ \E s \in {"next", "held"} : asking' = InState(asking, s)
      <3>1. CASE e.part = "exception" /\ asking' = << >>
        BY <3>1 DEF Ends
      <3>2. CASE D!Accept(e, buffer)
        <4>1. D!Front(asking) = << >>
          BY <1>1, <2>3, AskDone
        <4>2. \/ k = "method" /\ asking' = D!Front(asking)
              \/ k = "iterate" /\ st = "first"
                 /\ (IF e.part = "start" THEN asking' = InState(asking, "next")
                                        ELSE asking' = << >>)
              \/ IF e.part = "stop" THEN asking' = D!Front(asking)
                                    ELSE asking' = InState(asking, "held")
          BY <1>3, <2>3, <3>2 DEF D!Accept, D!GiveUp, InState
        <4>3. CASE k = "method" /\ asking' = D!Front(asking)
          BY <2>7, <4>1, <4>3
        <4>4. CASE k = "iterate" /\ st = "first"
                   /\ (IF e.part = "start" THEN asking' = InState(asking, "next")
                                          ELSE asking' = << >>)
          BY <2>7, <4>4
        <4>5. CASE IF e.part = "stop" THEN asking' = D!Front(asking)
                                     ELSE asking' = InState(asking, "held")
          BY <4>1, <4>5 DEF Ends
        <4> QED
          BY <4>2, <4>3, <4>4, <4>5
      <3> QED
        BY <1>4, <2>3, <2>5, <3>1, <3>2
    <2>12. CASE asking' = << >> /\ Ends(e.part)
      <3>1. pipe' = << >> /\ \A s \in D!Request : handlers'[s] = << >>
        BY <1>4, <2>2, <2>4, <2>7, <2>12 DEF OnlyOf
      <3>2. Len(asking') <= 1
        BY <2>12
      <3> QED
        BY <2>10, <2>12, <3>1, <3>2 DEF OneAtATime
    <2>13. ASSUME NEW s \in {"next", "held"}, asking' = InState(asking, s)
           PROVE  OneAtATime' /\ got'.by = got'.of
      <3>1. PICK a : a = asking'
        OBVIOUS
      <3>2. a # << >> /\ Len(a) = 1 /\ a[1].request = r /\ a[1].state = s
        <4>1. Len(asking) <= 1
          BY <2>3
        <4>2. a = InState(asking, s)
          BY <2>13, <3>1
        <4>3. /\ a # << >> /\ Len(a) = Len(asking)
              /\ a[1].request = asking[1].request /\ a[1].state = s
          BY <1>1, <4>1, <4>2, StateChanged
        <4> QED
          BY <2>1, <2>3, <4>3
      <3>3. asking' # << >> /\ Len(asking') <= 1 /\ asking'[1].request = r /\ asking'[1].state = s
        BY <3>1, <3>2
      <3>4. Stream(k, s, pipe', handlers'[r]) /\ kind'[r] = k
        BY <1>4, <2>2, <2>3, <2>7
      <3> QED
        BY <2>9, <2>10, <3>3, <3>4 DEF OneAtATime
    <2> QED
      BY <2>10, <2>11, <2>12, <2>13
  <1> QED
    BY <1>4, <1>9, <1>10 DEF DbInv

\* A request that is not done with is changed, while nothing moves.
LEMMA DbAskChanges ==
  ASSUME DbInv, asking # << >>, asking' \in Seq(D!Ask), asking' # << >>,
         gosubs' \in 0 .. MaxGosubs,
         Len(asking) <= 1 =>
           /\ Len(asking') <= 1 /\ asking'[1].request = asking[1].request
           /\ asking'[1].state \in {"next", "held"} \/ asking'[1].state = asking[1].state,
         UNCHANGED <<made, kind, handlers, pipe, buffer, mixed, unopened, got>>
  PROVE  DbInv'
  <1>1. D!TypeOK'
    BY DEF DbInv, D!TypeOK
  <1>2. ASSUME ~mixed PROVE OneAtATime'
    <2>1. PICK r : r = asking[1].request
      OBVIOUS
    <2>2. /\ OneAtATime /\ OnlyOf(r) /\ Stream(kind[r], asking[1].state, pipe, handlers[r])
      BY <1>2, <2>1 DEF DbInv, OneAtATime
    <2>3. Len(asking') <= 1 /\ asking'[1].request = r
      BY <2>1, <2>2 DEF OneAtATime
    <2>4. Stream(kind[r], asking'[1].state, pipe, handlers[r])
      BY <2>2 DEF OneAtATime, Stream
    <2>5. OnlyOf(r)'
      BY <2>2 DEF OnlyOf
    <2> QED
      BY <2>2, <2>3, <2>4, <2>5 DEF OneAtATime
  <1> QED
    BY <1>1, <1>2 DEF DbInv

LEMMA DbNext == D!DbProxyAssumption /\ DbInv /\ [D!Next]_D!vars => DbInv'
  <1> SUFFICES ASSUME D!DbProxyAssumption, DbInv, [D!Next]_D!vars PROVE DbInv'
    OBVIOUS
  <1>1. asking \in Seq(D!Ask) /\ gosubs \in 0 .. MaxGosubs /\ MaxGosubs \in Nat
    BY DEF DbInv, D!TypeOK, D!DbProxyAssumption
  <1>2. CASE UNCHANGED D!vars
    BY <1>2 DEF D!vars, DbInv, D!TypeOK, OneAtATime, OnlyOf
  <1>3. CASE \E r \in D!Request : D!HandlerSends(r)
    BY <1>3, DbHandlerSends
  <1>4. CASE \E event \in D!Event : D!MakeRequest(event)
    BY <1>4, DbMakesRequest
  <1>5. CASE D!Read
    BY <1>5, DbReadsBuffered, DbReceives DEF D!Read
  <1>6. CASE D!NextItem
    <2>1. /\ asking # << >> /\ asking' = InState(asking, "next")
          /\ UNCHANGED <<made, kind, handlers, pipe, buffer, gosubs, mixed, unopened, got>>
      BY <1>6 DEF D!NextItem, D!Held, InState
    <2>2. PICK a : a = asking'
      OBVIOUS
    <2>3. /\ a \in Seq(D!Ask) /\ a # << >> /\ Len(a) = Len(asking)
          /\ Len(asking) <= 1 => a[1].request = asking[1].request /\ a[1].state = "next"
      BY <1>1, <2>1, <2>2, StateChanged
    <2> QED
      BY <1>1, <2>1, <2>2, <2>3, DbAskChanges
  <1>7. CASE D!LeaveIteration
    <2>1. /\ asking # << >> /\ asking' = D!Front(asking) /\ mixed' = TRUE
          /\ UNCHANGED <<made, kind, handlers, pipe, buffer, gosubs, unopened, got>>
      BY <1>7 DEF D!LeaveIteration, D!Held
    <2>2. asking' \in Seq(D!Ask)
      BY <1>1, <2>1, AskDone
    <2>3. D!TypeOK'
      BY <2>1, <2>2 DEF DbInv, D!TypeOK
    <2> QED
      BY <2>1, <2>3 DEF DbInv
  <1>8. CASE D!Interrupt
    <2>1. /\ asking # << >> /\ asking' = Under(asking, TRUE)
          /\ gosubs < MaxGosubs /\ gosubs' = gosubs + 1
          /\ UNCHANGED <<made, kind, handlers, pipe, buffer, mixed, unopened, got>>
      BY <1>8 DEF D!Interrupt, D!Waiting, D!Running, Under
    <2>2. PICK a : a = asking'
      OBVIOUS
    <2>3. /\ a \in Seq(D!Ask) /\ a # << >> /\ Len(a) = Len(asking)
          /\ Len(asking) <= 1 => a[1].request = asking[1].request /\ a[1].state = asking[1].state
      BY <1>1, <2>1, <2>2, UnderChanged
    <2>4. gosubs' \in 0 .. MaxGosubs
      BY <1>1, <2>1
    <2> QED
      BY <2>1, <2>2, <2>3, <2>4, DbAskChanges
  <1>9. CASE D!Resume
    <2>1. /\ asking # << >> /\ asking' = Under(asking, FALSE)
          /\ UNCHANGED <<made, kind, handlers, pipe, buffer, gosubs, mixed, unopened, got>>
      BY <1>9 DEF D!Resume, Under
    <2>2. PICK a : a = asking'
      OBVIOUS
    <2>3. /\ a \in Seq(D!Ask) /\ a # << >> /\ Len(a) = Len(asking)
          /\ Len(asking) <= 1 => a[1].request = asking[1].request /\ a[1].state = asking[1].state
      BY <1>1, <2>1, <2>2, UnderChanged
    <2> QED
      BY <1>1, <2>1, <2>2, <2>3, DbAskChanges
  <1>10. CASE D!Finished
    BY <1>2, <1>10 DEF D!Finished
  <1> QED
    BY <1>2, <1>3, <1>4, <1>5, <1>6, <1>7, <1>8, <1>9, <1>10 DEF D!Next

\* The answers in a session's pipe bear the name of a database and no more; yet a session that
\* reads each answer to its end before it makes the next request takes, for each, the answer to
\* that request: all that the handlers have sent, and have still to send, is in answer to the
\* one that the session waits for (dbproxy.py:47-91, db.py:154-189).
THEOREM AnswersAreOwn ==
  ASSUME D!DbProxyAssumption
  PROVE  D!Spec => [](D!TypeOK /\ D!OwnAnswer)
  <1>1. D!Init => DbInv
    BY DbInit
  <1>2. DbInv /\ [D!Next]_D!vars => DbInv'
    BY DbNext
  <1>3. DbInv => D!TypeOK /\ D!OwnAnswer
    BY DEF DbInv, D!OwnAnswer
  <1> QED
    BY <1>1, <1>2, <1>3, PTL DEF D!Spec

-----------------------------------------------------------------------------
(* MsgNet.  The numbers that go from board to board lead to the same post     *)
(* wherever they are resolved.                                                *)
USE DEF N!saving

\* A set of natural numbers that is not empty has a least element.
LEMMA LeastNatural ==
  ASSUME NEW R \in SUBSET Nat, R # {}
  PROVE  \E x \in R : \A y \in R : x <= y
  <1>1. PICK k \in R : TRUE
    OBVIOUS
  <1> DEFINE Up(j) == 0 .. j
             Ups   == {Up(j) : j \in {i \in R : i <= k}}
  <1>2. IsWellFoundedOn(StrictSubsetOrdering(Up(k)), FiniteSubsetsOf(Up(k)))
    <2>1. IsFiniteSet(Up(k))
      BY <1>1, FS_Interval
    <2> QED
      BY <2>1, FS_StrictSubsetOrderingWellFounded
  <1>3. Ups \subseteq FiniteSubsetsOf(Up(k)) /\ Ups # {}
    <2>1. Up(k) \in Ups
      OBVIOUS
    <2>2. ASSUME NEW j \in R, j <= k PROVE Up(j) \in FiniteSubsetsOf(Up(k))
      <3>1. IsFiniteSet(Up(j)) /\ Up(j) \subseteq Up(k)
        BY <2>2, FS_Interval
      <3> HIDE DEF Up
      <3> QED
        BY <3>1 DEF FiniteSubsetsOf
    <2> QED
      BY <2>1, <2>2
  <1>4. PICK u \in Ups : \A v \in Ups : ~(<<v, u>> \in StrictSubsetOrdering(Up(k)))
    <2> HIDE DEF Ups, Up
    <2> QED
      BY <1>2, <1>3, WFMin
  <1>5. PICK j \in R : j <= k /\ u = Up(j)
    BY <1>4
  <1>6. ASSUME NEW y \in R PROVE j <= y
    <2> SUFFICES ASSUME y < j PROVE FALSE
      OBVIOUS
    <2>1. Up(y) \in Ups /\ Up(y) \subseteq Up(j) /\ Up(y) # Up(j) /\ Up(j) \subseteq Up(k)
      BY <1>5
    <2> HIDE DEF Up, Ups
    <2> QED
      BY <1>4, <1>5, <2>1 DEF StrictSubsetOrdering
  <1> QED
    BY <1>5, <1>6

\* Of the posts ps, p is saved among the messages ms with the parent i: it is a reply to
\* what its author replied to, or to nothing.
Faithful(ms, ps, p, i) == i = 0 \/ (i \in DOMAIN ms /\ ms[i].post = ps[p].to)

\* The message i of a member, with the messages ms, is the message h of the hub, with hs.
Same(ms, hs, i, h) == i \in DOMAIN ms /\ h \in DOMAIN hs /\ ms[i].post = hs[h].post

PollerAt == {"poll", "store", "record", "write", "publish", "wait", "stopped"}

NetTypes ==
  /\ posts \in Seq([by : N!Board, to : Nat])
  /\ msgs \in [N!Board -> Seq([post : Nat, parent : Nat])]
  /\ DOMAIN trans = Member
  /\ queue \in [Member -> SUBSET Nat]
  /\ last \in [Member -> Int]
  /\ netLast \in [Member -> Int]
  /\ pc \in [Member -> PollerAt]
  /\ batch \in [Member -> SUBSET Nat]
  /\ keys \in [Member -> SUBSET Nat]
  /\ todo \in [Member -> SUBSET Nat]
  /\ put \subseteq [by : Member, msg : Nat, post : Nat, parent : Nat, id : Nat]
  /\ faults \in Nat

BoardsFaithful ==
  \A b \in N!Board : \A i \in DOMAIN msgs[b] :
    /\ msgs[b][i].post \in DOMAIN posts
    /\ Faithful(msgs[b], posts, msgs[b][i].post, msgs[b][i].parent)

TransFaithful ==
  \A m \in Member : \A h \in DOMAIN trans[m] : Same(msgs[m], msgs[Hub], trans[m][h], h)

\* What a member asks the hub to save is its own message,
RequestFaithful(r) ==
  /\ r.msg \in DOMAIN msgs[r.by] /\ r.post = msgs[r.by][r.msg].post
  /\ Faithful(msgs[Hub], posts, r.post, r.parent)
  /\ r.id = 0 \/ Same(msgs[r.by], msgs[Hub], r.msg, r.id)

\* and what it works on is there.
WorkFaithful(m) ==
  /\ batch[m] \subseteq DOMAIN msgs[Hub]
  /\ keys[m] \subseteq DOMAIN trans[m]
  /\ queue[m] \subseteq DOMAIN msgs[m]
  /\ todo[m] \subseteq queue[m]
  /\ pc[m] = "wait" => todo[m] # {}
  /\ pc[m] = "record" =>
       batch[m] # {} /\ \E i \in DOMAIN msgs[m] : Same(msgs[m], msgs[Hub], i, N!Min(batch[m]))

\* What is tagged, or being saved, is there.
SavesFaithful ==
  /\ tagged \subseteq DOMAIN msgs[Hub]
  /\ \A a \in saves \cup cut : a[1] \in N!Board /\ a[2] \in DOMAIN msgs[a[1]]

\* The inductive invariant of ThreadsFaithful
NetInv ==
  /\ NetTypes
  /\ SavesFaithful
  /\ BoardsFaithful
  /\ TransFaithful
  /\ \A r \in put : RequestFaithful(r)
  /\ \A m \in Member : WorkFaithful(m)

\* The least of a set of numbers
LEMMA NetMin ==
  ASSUME NEW s, s \subseteq Nat, s # {}
  PROVE  N!Min(s) \in s /\ \A x \in s : N!Min(s) <= x
  BY LeastNatural DEF N!Min

\* The greatest of a set of numbers of the messages of a board
LEMMA NetMax ==
  ASSUME NEW n \in Nat, NEW s, s \subseteq 1 .. n, s # {}
  PROVE  N!Max(s) \in s
  <1> DEFINE t == {n - x : x \in s}
  <1>1. t \subseteq Nat /\ t # {}
    <2>1. \A x \in s : n - x \in Nat
      OBVIOUS
    <2> QED
      BY <2>1
  <1>2. PICK y \in t : \A z \in t : y <= z
    <2> HIDE DEF t
    <2> QED
      BY <1>1, LeastNatural
  <1>3. PICK x \in s : y = n - x
    OBVIOUS
  <1>4. \A z \in s : x >= z
    <2> TAKE z \in s
    <2>1. n - z \in t
      OBVIOUS
    <2> QED
      BY <1>2, <1>3, <2>1
  <1> QED
    BY <1>4 DEF N!Max

\* The greater of two numbers
LEMMA NetMaxOfTwo ==
  ASSUME NEW a \in Int, NEW b \in Int
  PROVE  N!Max({a, b}) = IF a >= b THEN a ELSE b
  BY DEF N!Max

\* A message that is saved on a board comes after those that are there.
LEMMA NetSaves ==
  ASSUME NetTypes, NEW b \in N!Board, NEW p \in Nat, NEW par \in Nat, N!Save(b, p, par)
  PROVE  /\ msgs' \in [N!Board -> Seq([post : Nat, parent : Nat])]
         /\ \A c \in N!Board : c # b => msgs'[c] = msgs[c]
         /\ Len(msgs'[b]) = Len(msgs[b]) + 1
         /\ Len(msgs'[b]) \in Nat /\ Len(msgs'[b]) \notin DOMAIN msgs[b]
         /\ DOMAIN msgs'[b] = DOMAIN msgs[b] \cup {Len(msgs'[b])}
         /\ \A i \in DOMAIN msgs[b] : msgs'[b][i] = msgs[b][i]
         /\ msgs'[b][Len(msgs'[b])] = [post |-> p, parent |-> par]
  <1> DEFINE s == msgs[b]
             e == [post |-> p, parent |-> par]
             R == [post : Nat, parent : Nat]
  <1>1. /\ msgs \in [N!Board -> Seq(R)] /\ s \in Seq(R) /\ e \in R
        /\ msgs' = [msgs EXCEPT ![b] = Append(s, e)]
    BY DEF NetTypes, N!Save
  <1>2. msgs'[b] = Append(s, e) /\ \A c \in N!Board : c # b => msgs'[c] = msgs[c]
    BY <1>1
  <1> HIDE DEF s, e, R
  <1>3. /\ Append(s, e) \in Seq(R) /\ Len(Append(s, e)) = Len(s) + 1
        /\ \A i \in 1 .. Len(s) : Append(s, e)[i] = s[i]
        /\ Append(s, e)[Len(s) + 1] = e
    BY <1>1, AppendProperties
  <1>4. Len(s) \in Nat /\ DOMAIN s = 1 .. Len(s) /\ DOMAIN Append(s, e) = 1 .. Len(Append(s, e))
    BY <1>1, <1>3, LenProperties
  <1>5. msgs' \in [N!Board -> Seq(R)]
    BY <1>1, <1>3
  <1>6. DOMAIN Append(s, e) = DOMAIN s \cup {Len(Append(s, e))} /\ Len(Append(s, e)) \notin DOMAIN s
    BY <1>3, <1>4
  <1>7. Len(msgs'[b]) = Len(s) + 1 /\ Len(msgs'[b]) \in Nat /\ Len(msgs'[b]) \notin DOMAIN s
    BY <1>2, <1>3, <1>4
  <1>8. msgs'[b][Len(msgs'[b])] = e
    BY <1>2, <1>3
  <1>9. \A i \in DOMAIN s : msgs'[b][i] = s[i]
    BY <1>2, <1>3, <1>4
  <1> QED
    BY <1>2, <1>5, <1>6, <1>7, <1>8, <1>9 DEF s, e, R

\* What is posted and saved stays.
NetGrown ==
  /\ \A p \in DOMAIN posts : p \in DOMAIN posts' /\ posts'[p] = posts[p]
  /\ \A b \in N!Board : \A i \in DOMAIN msgs[b] :
       i \in DOMAIN msgs'[b] /\ msgs'[b][i] = msgs[b][i]

\* Hence what was faithful stays so.
LEMMA NetKept ==
  ASSUME NetInv, NetGrown
  PROVE  /\ \A b \in N!Board : \A i \in DOMAIN msgs[b] :
              /\ msgs'[b][i].post \in DOMAIN posts'
              /\ Faithful(msgs'[b], posts', msgs'[b][i].post, msgs'[b][i].parent)
         /\ \A m \in Member : \A i, h :
              Same(msgs[m], msgs[Hub], i, h) => Same(msgs'[m], msgs'[Hub], i, h)
         /\ \A r \in put : RequestFaithful(r)'
         /\ \A m \in Member :
              batch[m] \subseteq DOMAIN msgs'[Hub] /\ queue[m] \subseteq DOMAIN msgs'[m]
         /\ tagged \subseteq DOMAIN msgs'[Hub]
         /\ \A a \in saves \cup cut : a[1] \in N!Board /\ a[2] \in DOMAIN msgs'[a[1]]
  <1> USE DEF N!Board
  <1>1. ASSUME NEW b \in N!Board, NEW p \in DOMAIN posts, NEW i, Faithful(msgs[b], posts, p, i)
        PROVE  Faithful(msgs'[b], posts', p, i)
    BY <1>1 DEF Faithful, NetGrown
  <1>2. ASSUME NEW b \in N!Board, NEW i \in DOMAIN msgs[b]
        PROVE  /\ msgs'[b][i].post \in DOMAIN posts'
               /\ Faithful(msgs'[b], posts', msgs'[b][i].post, msgs'[b][i].parent)
    <2>1. /\ msgs[b][i].post \in DOMAIN posts /\ msgs'[b][i] = msgs[b][i]
          /\ Faithful(msgs[b], posts, msgs[b][i].post, msgs[b][i].parent)
      BY DEF NetInv, NetGrown, BoardsFaithful
    <2> QED
      BY <1>1, <2>1 DEF NetGrown
  <1>3. ASSUME NEW m \in Member, NEW i, NEW h, Same(msgs[m], msgs[Hub], i, h)
        PROVE  Same(msgs'[m], msgs'[Hub], i, h)
    BY <1>3 DEF NetGrown, Same
  <1>4. ASSUME NEW r \in put PROVE RequestFaithful(r)'
    <2>1. r.by \in Member /\ RequestFaithful(r)
      BY DEF NetInv, NetTypes
    <2>2. r.post \in DOMAIN posts
      BY <2>1 DEF NetInv, BoardsFaithful, RequestFaithful
    <2>3. Faithful(msgs'[Hub], posts', r.post, r.parent)
      BY <1>1, <2>1, <2>2 DEF RequestFaithful
    <2>4. r.id = 0 \/ Same(msgs'[r.by], msgs'[Hub], r.msg, r.id)
      BY <1>3, <2>1 DEF RequestFaithful
    <2>5. r.msg \in DOMAIN msgs'[r.by] /\ r.post = msgs'[r.by][r.msg].post
      BY <2>1 DEF RequestFaithful, NetGrown
    <2> QED
      BY <2>3, <2>4, <2>5 DEF RequestFaithful
  <1>5. ASSUME NEW m \in Member
        PROVE  batch[m] \subseteq DOMAIN msgs'[Hub] /\ queue[m] \subseteq DOMAIN msgs'[m]
    BY DEF NetInv, WorkFaithful, NetGrown
  <1>6. tagged \subseteq DOMAIN msgs'[Hub]
    BY DEF NetInv, SavesFaithful, NetGrown
  <1>7. \A a \in saves \cup cut : a[1] \in N!Board /\ a[2] \in DOMAIN msgs'[a[1]]
    BY DEF NetInv, SavesFaithful, NetGrown
  <1> QED
    BY <1>2, <1>3, <1>4, <1>5, <1>6, <1>7

\* What is there as a network begins: the hub's messages, which are no replies
LEMMA NetBegins ==
  ASSUME N!MsgNetAssumption, N!Init
  PROVE  /\ \A b \in N!Board : \A i \in DOMAIN msgs[b] :
              b = Hub /\ i \in 1 .. Before /\ msgs[b][i] = [post |-> i, parent |-> 0]
         /\ \A m \in Member : msgs[m] = << >> /\ queue[m] = {}
         /\ DOMAIN msgs[Hub] = 1 .. Before /\ DOMAIN posts = 1 .. Before
         /\ Len(posts) = Before
         /\ \A i \in 1 .. Before : posts[i] = [by |-> Hub, to |-> 0]
         /\ posts \in Seq([by : N!Board, to : Nat])
         /\ msgs \in [N!Board -> Seq([post : Nat, parent : Nat])]
  <1>1. /\ Before \in Nat /\ Hub \in N!Board
        /\ \A m \in Member : m \in N!Board /\ m # Hub
    BY DEF N!MsgNetAssumption, N!Board
  <1>2. PICK q : q = [i \in 1 .. Before |-> [post |-> i, parent |-> 0]]
    OBVIOUS
  <1>3. /\ q \in Seq([post : Nat, parent : Nat]) /\ DOMAIN q = 1 .. Before
        /\ \A i \in 1 .. Before : q[i] = [post |-> i, parent |-> 0]
    <2>1. q \in [1 .. Before -> [post : Nat, parent : Nat]]
      BY <1>1, <1>2
    <2> QED
      BY <1>1, <1>2, <2>1, SeqDef
  <1>4. msgs = [b \in N!Board |-> IF b = Hub THEN q ELSE << >>]
    BY <1>2 DEF N!Init, N!None
  <1>5. msgs[Hub] = q /\ \A b \in N!Board : b # Hub => msgs[b] = << >>
    BY <1>1, <1>4
  <1>6. msgs \in [N!Board -> Seq([post : Nat, parent : Nat])]
    BY <1>3, <1>4
  <1>7. posts = [i \in 1 .. Before |-> [by |-> Hub, to |-> 0]]
    BY DEF N!Init
  <1>8. /\ posts \in Seq([by : N!Board, to : Nat]) /\ DOMAIN posts = 1 .. Before
        /\ \A i \in 1 .. Before : posts[i] = [by |-> Hub, to |-> 0]
    <2>1. posts \in [1 .. Before -> [by : N!Board, to : Nat]]
      BY <1>1, <1>7
    <2> QED
      BY <1>1, <1>7, <2>1, SeqDef
  <1>9. Len(posts) = Before
    BY <1>1, <1>8, LenProperties
  <1>10. \A b \in N!Board : \A i \in DOMAIN msgs[b] :
           b = Hub /\ i \in 1 .. Before /\ msgs[b][i] = [post |-> i, parent |-> 0]
    <2> SUFFICES ASSUME NEW b \in N!Board, NEW i \in DOMAIN msgs[b]
                 PROVE  b = Hub /\ i \in 1 .. Before /\ msgs[b][i] = [post |-> i, parent |-> 0]
      OBVIOUS
    <2>1. b = Hub
      BY <1>5
    <2> QED
      BY <1>3, <1>5, <2>1
  <1>11. \A m \in Member : msgs[m] = << >> /\ queue[m] = {}
    BY <1>1, <1>5 DEF N!Init
  <1> QED
    BY <1>3, <1>5, <1>6, <1>8, <1>9, <1>10, <1>11

\* The initial states
LEMMA NetInit == N!MsgNetAssumption /\ N!Init => NetInv
  <1> SUFFICES ASSUME N!MsgNetAssumption, N!Init PROVE NetInv
    OBVIOUS
  <1>1. NetTypes
    <2>1. /\ posts \in Seq([by : N!Board, to : Nat])
          /\ msgs \in [N!Board -> Seq([post : Nat, parent : Nat])]
      BY NetBegins
    <2> QED
      BY <2>1 DEF NetTypes, N!Init, PollerAt
  <1>2. BoardsFaithful
    BY NetBegins DEF BoardsFaithful, Faithful
  <1>3. TransFaithful
    BY DEF TransFaithful, N!Init
  <1>4. \A m \in Member : WorkFaithful(m)
    BY DEF WorkFaithful, N!Init
  <1>5. SavesFaithful
    <2>1. tagged = 1 .. Before /\ saves = {} /\ cut = {}
      BY DEF N!Init
    <2> QED
      BY <2>1, NetBegins DEF SavesFaithful
  <1>6. put = {}
    BY DEF N!Init
  <1> QED
    BY <1>1, <1>2, <1>3, <1>4, <1>5, <1>6 DEF NetInv

\* Steps that save no message
LEMMA NetUnsaved ==
  ASSUME NetInv, UNCHANGED <<posts, msgs>>
  PROVE  NetGrown /\ BoardsFaithful'
  BY DEF NetInv, NetGrown, BoardsFaithful

\* A step in which what is shared stays, and the members' work is all that changes
LEMMA NetWorks ==
  ASSUME NetInv, UNCHANGED <<posts, msgs, trans, queue>>, NetTypes',
         tagged' = tagged, saves' \cup cut' \subseteq saves \cup cut,
         \A r \in put' : RequestFaithful(r)',
         \A m \in Member : WorkFaithful(m)'
  PROVE  NetInv'
  <1>1. SavesFaithful'
    BY DEF NetInv, SavesFaithful
  <1>2. BoardsFaithful'
    BY NetUnsaved
  <1>3. TransFaithful'
    BY DEF NetInv, TransFaithful
  <1> QED
    BY <1>1, <1>2, <1>3 DEF NetInv

LEMMA NetStop ==
  ASSUME NetInv, NEW m \in Member, N!Stop(m)
  PROVE  NetInv'
  <1>1. /\ UNCHANGED <<posts, msgs, source, trans, queue, last, netLast, batch, keys, todo, put,
                       faults, tagged, saves, cut>>
        /\ pc' = [pc EXCEPT ![m] = "stopped"]
    BY DEF N!Stop
  <1>2. NetTypes'
    BY <1>1 DEF NetInv, NetTypes, PollerAt
  <1>3. ASSUME NEW c \in Member PROVE WorkFaithful(c)'
    BY <1>1 DEF NetInv, NetTypes, WorkFaithful
  <1>4. \A r \in put' : RequestFaithful(r)'
    BY <1>1 DEF NetInv, RequestFaithful
  <1> QED
    BY <1>1, <1>2, <1>3, <1>4, NetWorks

LEMMA NetPull ==
  ASSUME NetInv, NEW m \in Member, N!Pull(m)
  PROVE  NetInv'
  <1>1. PICK s \in N!Answers(m) :
          IF s = {}
          THEN N!ToPublish(m) /\ UNCHANGED <<batch, keys>>
          ELSE /\ batch' = [batch EXCEPT ![m] = s]
               /\ keys' = [keys EXCEPT ![m] = DOMAIN trans[m]]
               /\ pc' = [pc EXCEPT ![m] = "store"]
               /\ UNCHANGED todo
    BY DEF N!Pull
  <1>2. s \subseteq DOMAIN msgs[Hub] /\ DOMAIN msgs[Hub] \subseteq Nat
    BY DEF N!Answers, N!Pending, NetInv, NetTypes, SavesFaithful, N!Board
  <1>3. UNCHANGED <<posts, msgs, source, trans, queue, last, netLast, put, faults, tagged, saves, cut>>
    BY DEF N!Pull
  <1>4. DOMAIN trans[m] \subseteq Nat
    BY <1>2 DEF NetInv, TransFaithful, Same
  <1>5. NetTypes'
    <2>1. CASE s = {}
      BY <1>1, <1>3, <2>1 DEF NetInv, NetTypes, PollerAt, N!ToPublish
    <2>2. CASE s # {}
      <3>1. s \in SUBSET Nat /\ DOMAIN trans[m] \in SUBSET Nat
        BY <1>2, <1>4
      <3>2. /\ batch' = [batch EXCEPT ![m] = s] /\ keys' = [keys EXCEPT ![m] = DOMAIN trans[m]]
            /\ pc' = [pc EXCEPT ![m] = "store"] /\ UNCHANGED todo
        BY <1>1, <2>2
      <3>3. /\ batch' \in [Member -> SUBSET Nat] /\ keys' \in [Member -> SUBSET Nat]
            /\ pc' \in [Member -> PollerAt]
        BY <3>1, <3>2 DEF NetInv, NetTypes, PollerAt
      <3> QED
        BY <1>3, <3>2, <3>3 DEF NetInv, NetTypes
    <2> QED
      BY <2>1, <2>2
  <1>6. ASSUME NEW c \in Member PROVE WorkFaithful(c)'
    <2>1. CASE s = {}
      <3>1. N!ToPublish(m) /\ UNCHANGED <<batch, keys>>
        BY <1>1, <2>1
      <3> QED
        BY <1>3, <3>1 DEF NetInv, NetTypes, WorkFaithful, N!ToPublish
    <2>2. CASE s # {} /\ c = m
      <3>1. /\ batch'[m] = s /\ keys'[m] = DOMAIN trans[m] /\ pc'[m] = "store" /\ todo' = todo
        BY <1>1, <2>2 DEF NetInv, NetTypes
      <3> QED
        BY <1>2, <1>3, <2>2, <3>1 DEF NetInv, WorkFaithful
    <2>3. CASE s # {} /\ c # m
      <3>1. batch'[c] = batch[c] /\ keys'[c] = keys[c] /\ pc'[c] = pc[c] /\ todo' = todo
        BY <1>1, <2>3 DEF NetInv, NetTypes
      <3> QED
        BY <1>3, <3>1 DEF NetInv, WorkFaithful
    <2> QED
      BY <2>1, <2>2, <2>3
  <1>7. \A r \in put' : RequestFaithful(r)'
    BY <1>3 DEF NetInv, RequestFaithful
  <1> QED
    BY <1>3, <1>5, <1>6, <1>7, NetWorks

LEMMA NetPullFails ==
  ASSUME NetInv, NEW m \in Member, N!PullFails(m)
  PROVE  NetInv'
  <1>1. /\ UNCHANGED <<posts, msgs, source, trans, queue, last, netLast, batch, keys, put,
                       tagged, saves, cut>>
        /\ N!ToPublish(m) /\ faults' = faults + 1
    BY DEF N!PullFails
  <1>2. NetTypes'
    BY <1>1 DEF NetInv, NetTypes, PollerAt, N!ToPublish
  <1>3. ASSUME NEW c \in Member PROVE WorkFaithful(c)'
    BY <1>1 DEF NetInv, NetTypes, WorkFaithful, N!ToPublish
  <1>4. \A r \in put' : RequestFaithful(r)'
    BY <1>1 DEF NetInv, RequestFaithful
  <1> QED
    BY <1>1, <1>2, <1>3, <1>4, NetWorks

LEMMA NetOpenLast ==
  ASSUME NetInv, NEW m \in Member, N!OpenLast(m)
  PROVE  NetInv'
  <1>1. /\ UNCHANGED <<posts, msgs, source, trans, queue, netLast, batch, keys, todo, put, faults,
                       tagged, saves, cut>>
        /\ pc' = [pc EXCEPT ![m] = "write"] /\ last' = [last EXCEPT ![m] = -2]
    BY DEF N!OpenLast, N!Blank
  <1>2. NetTypes'
    BY <1>1 DEF NetInv, NetTypes, PollerAt
  <1>3. ASSUME NEW c \in Member PROVE WorkFaithful(c)'
    BY <1>1 DEF NetInv, NetTypes, WorkFaithful
  <1>4. \A r \in put' : RequestFaithful(r)'
    BY <1>1 DEF NetInv, RequestFaithful
  <1> QED
    BY <1>1, <1>2, <1>3, <1>4, NetWorks

LEMMA NetWriteLast ==
  ASSUME NetInv, NEW m \in Member, N!WriteLast(m)
  PROVE  NetInv'
  <1>1. /\ UNCHANGED <<posts, msgs, source, trans, queue, netLast, batch, keys, put, faults,
                       tagged, saves, cut>>
        /\ N!ToPublish(m) /\ last' = [last EXCEPT ![m] = netLast[m]]
    BY DEF N!WriteLast
  <1>2. NetTypes'
    BY <1>1 DEF NetInv, NetTypes, PollerAt, N!ToPublish
  <1>3. ASSUME NEW c \in Member PROVE WorkFaithful(c)'
    BY <1>1 DEF NetInv, NetTypes, WorkFaithful, N!ToPublish
  <1>4. \A r \in put' : RequestFaithful(r)'
    BY <1>1 DEF NetInv, RequestFaithful
  <1> QED
    BY <1>1, <1>2, <1>3, <1>4, NetWorks

LEMMA NetSleep ==
  ASSUME NetInv, NEW m \in Member, N!Sleep(m)
  PROVE  NetInv'
  <1>1. /\ UNCHANGED <<posts, msgs, source, trans, queue, last, netLast, batch, keys, todo, put,
                       faults, tagged, saves, cut>>
        /\ pc' = [pc EXCEPT ![m] = "poll"]
    BY DEF N!Sleep
  <1>2. NetTypes'
    BY <1>1 DEF NetInv, NetTypes, PollerAt
  <1>3. ASSUME NEW c \in Member PROVE WorkFaithful(c)'
    BY <1>1 DEF NetInv, NetTypes, WorkFaithful
  <1>4. \A r \in put' : RequestFaithful(r)'
    BY <1>1 DEF NetInv, RequestFaithful
  <1> QED
    BY <1>1, <1>2, <1>3, <1>4, NetWorks

LEMMA NetCrash ==
  ASSUME NetInv, NEW m \in Member, N!Crash(m)
  PROVE  NetInv'
  <1>1. /\ UNCHANGED <<posts, msgs, source, trans, queue, last, keys, put, tagged>>
        /\ faults' = faults \/ faults' = faults + 1
        /\ pc' = [pc EXCEPT ![m] = "poll"]
        /\ batch' = [batch EXCEPT ![m] = {}]
        /\ todo' = [todo EXCEPT ![m] = {}]
        /\ netLast' = [netLast EXCEPT ![m] = -1]
        /\ saves' \cup cut' \subseteq saves \cup cut
    BY DEF N!Crash
  <1>2. NetTypes'
    BY <1>1 DEF NetInv, NetTypes, PollerAt
  <1>3. ASSUME NEW c \in Member PROVE WorkFaithful(c)'
    BY <1>1 DEF NetInv, NetTypes, WorkFaithful
  <1>4. \A r \in put' : RequestFaithful(r)'
    BY <1>1 DEF NetInv, RequestFaithful
  <1> QED
    BY <1>1, <1>2, <1>3, <1>4, NetWorks

\* What has been published, or given up, is no more to be done.
LEMMA NetRest ==
  ASSUME NEW s, s \subseteq Nat
  PROVE  N!Rest(s) \subseteq s
  BY DEF N!Rest

LEMMA NetPushFails ==
  ASSUME NetInv, NEW m \in Member, N!PushFails(m)
  PROVE  NetInv'
  <1>1. /\ UNCHANGED <<posts, msgs, source, trans, queue, last, netLast, batch, keys,
                       tagged, saves, cut>>
        /\ put' \subseteq put /\ faults' = faults + 1
        /\ pc' = [pc EXCEPT ![m] = "publish"]
        /\ todo' = [todo EXCEPT ![m] = N!Rest(@)]
    BY DEF N!PushFails
  <1>2. N!Rest(todo[m]) \subseteq todo[m] /\ todo[m] \subseteq Nat
    BY NetRest DEF NetInv, NetTypes
  <1>3. NetTypes'
    BY <1>1, <1>2 DEF NetInv, NetTypes, PollerAt
  <1>4. ASSUME NEW c \in Member PROVE WorkFaithful(c)'
    BY <1>1, <1>2 DEF NetInv, NetTypes, WorkFaithful
  <1>5. \A r \in put' : RequestFaithful(r)'
    BY <1>1 DEF NetInv, RequestFaithful
  <1> QED
    BY <1>1, <1>3, <1>4, <1>5, NetWorks

\* A reply is published as one to the hub's message that its parent is.
LEMMA NetPush ==
  ASSUME NetInv, NEW m \in Member, N!Push(m)
  PROVE  NetInv'
  <1> DEFINE i == N!Min(todo[m])
             p == msgs[m][i].parent
  <1>1. PICK h \in N!HubParents(m, p) :
          put' = put \cup {[by |-> m, msg |-> i, post |-> msgs[m][i].post, parent |-> h, id |-> 0]}
    BY DEF N!Push
  <1>2. /\ UNCHANGED <<posts, msgs, source, trans, queue, last, netLast, batch, keys, todo, faults,
                       tagged, saves, cut>>
        /\ pc' = [pc EXCEPT ![m] = "wait"] /\ todo[m] # {}
    BY DEF N!Push
  <1>3. i \in todo[m] /\ todo[m] \subseteq DOMAIN msgs[m] /\ i \in Nat
    BY <1>2, NetMin DEF NetInv, NetTypes, WorkFaithful
  <1>4. m \in N!Board /\ Hub \in N!Board
    BY DEF N!Board
  <1>5. /\ msgs[m][i] \in [post : Nat, parent : Nat]
        /\ DOMAIN msgs[Hub] \subseteq Nat
    <2>1. /\ msgs[m] \in Seq([post : Nat, parent : Nat])
          /\ msgs[Hub] \in Seq([post : Nat, parent : Nat])
      BY <1>4 DEF NetInv, NetTypes
    <2>2. i \in 1 .. Len(msgs[m]) /\ DOMAIN msgs[Hub] = 1 .. Len(msgs[Hub]) /\ Len(msgs[Hub]) \in Nat
      BY <1>3, <2>1, LenProperties
    <2>3. msgs[m][i] \in [post : Nat, parent : Nat]
      BY <2>1, <2>2, ElementOfSeq
    <2> QED
      BY <2>2, <2>3
  <1>6. Faithful(msgs[m], posts, msgs[m][i].post, p)
    BY <1>3, <1>4 DEF NetInv, BoardsFaithful
  <1>7. Faithful(msgs[Hub], posts, msgs[m][i].post, h) /\ h \in Nat
    <2>1. CASE h = 0
      BY <2>1 DEF Faithful
    <2>2. CASE h # 0
      <3>1. h \in DOMAIN trans[m] /\ trans[m][h] = p /\ p # 0
        BY <2>2 DEF N!HubParents, N!None
      <3>2. Same(msgs[m], msgs[Hub], p, h)
        BY <3>1 DEF NetInv, TransFaithful
      <3> QED
        BY <1>5, <1>6, <3>1, <3>2 DEF Faithful, Same
    <2> QED
      BY <2>1, <2>2
  <1> DEFINE r == [by |-> m, msg |-> i, post |-> msgs[m][i].post, parent |-> h, id |-> 0]
  <1>8. r \in [by : Member, msg : Nat, post : Nat, parent : Nat, id : Nat]
    BY <1>3, <1>5, <1>7
  <1>9. RequestFaithful(r)
    BY <1>3, <1>7 DEF RequestFaithful
  <1>10. put' = put \cup {r}
    BY <1>1
  <1> HIDE DEF r, i, p
  <1>11. NetTypes'
    BY <1>2, <1>8, <1>10 DEF NetInv, NetTypes, PollerAt
  <1>12. ASSUME NEW c \in Member PROVE WorkFaithful(c)'
    BY <1>2 DEF NetInv, NetTypes, WorkFaithful
  <1>13. \A q \in put' : RequestFaithful(q)'
    BY <1>2, <1>9, <1>10 DEF NetInv, RequestFaithful
  <1> QED
    BY <1>2, <1>11, <1>12, <1>13, NetWorks

\* What a step that saves a message on board b does with it
NetSaved(b, p, par) ==
  /\ NetGrown
  /\ msgs' \in [N!Board -> Seq([post : Nat, parent : Nat])]
  /\ \A c \in N!Board : c # b => msgs'[c] = msgs[c]
  /\ DOMAIN msgs'[b] = DOMAIN msgs[b] \cup {Len(msgs'[b])}
  /\ Len(msgs'[b]) \in Nat \ DOMAIN msgs[b]
  /\ msgs'[b][Len(msgs'[b])] = [post |-> p, parent |-> par]

\* It is faithful if it is a reply to what it should be.
LEMMA NetSavedFaithful ==
  ASSUME NetInv, NEW b \in N!Board, NEW p \in DOMAIN posts', NEW par,
         NetSaved(b, p, par), Faithful(msgs'[b], posts', p, par)
  PROVE  BoardsFaithful'
  <1> SUFFICES ASSUME NEW c \in N!Board, NEW i \in DOMAIN msgs'[c]
               PROVE  /\ msgs'[c][i].post \in DOMAIN posts'
                      /\ Faithful(msgs'[c], posts', msgs'[c][i].post, msgs'[c][i].parent)
    BY DEF BoardsFaithful, N!Board
  <1>1. CASE i \in DOMAIN msgs[c]
    BY <1>1, NetKept DEF NetSaved
  <1>2. CASE i \notin DOMAIN msgs[c]
    <2>1. c = b /\ i = Len(msgs'[b])
      BY <1>2 DEF NetSaved
    <2>2. msgs'[c][i].post = p /\ msgs'[c][i].parent = par
      BY <2>1 DEF NetSaved
    <2> QED
      BY <2>1, <2>2
  <1> QED
    BY <1>1, <1>2

\* A step that saves a message, and leaves what refers to messages alone
LEMMA NetSavedWorks ==
  ASSUME NetInv, NEW b \in N!Board, NEW p \in DOMAIN posts', NEW par,
         NetSaved(b, p, par), Faithful(msgs'[b], posts', p, par),
         UNCHANGED <<trans, batch, keys, todo, tagged, cut>>,
         \A a \in saves' : a \in saves \/ a = <<b, Len(msgs'[b])>>,
         NetTypes', \A r \in put' \ put : RequestFaithful(r)',
         \A m \in Member :
           /\ queue[m] \subseteq queue'[m] /\ queue'[m] \subseteq DOMAIN msgs'[m]
           /\ pc'[m] = "wait" => pc[m] = "wait"
           /\ pc'[m] = "record" => pc[m] = "record" \/ (batch[m] # {} /\
                \E i \in DOMAIN msgs'[m] : Same(msgs'[m], msgs'[Hub], i, N!Min(batch[m])))
  PROVE  NetInv'
  <1>1. BoardsFaithful'
    BY NetSavedFaithful
  <1>2. TransFaithful'
    BY NetKept DEF NetInv, TransFaithful, NetSaved
  <1>3. ASSUME NEW r \in put' PROVE RequestFaithful(r)'
    BY NetKept DEF NetSaved
  <1>4. ASSUME NEW m \in Member PROVE WorkFaithful(m)'
    <2>1. /\ keys'[m] \subseteq DOMAIN trans'[m] /\ todo'[m] \subseteq queue'[m]
          /\ pc'[m] = "wait" => todo'[m] # {}
      BY DEF NetInv, WorkFaithful
    <2>2. batch'[m] \subseteq DOMAIN msgs'[Hub]
      BY NetKept DEF NetSaved
    <2>3. ASSUME pc'[m] = "record"
          PROVE  /\ batch'[m] # {}
                 /\ \E i \in DOMAIN msgs'[m] : Same(msgs'[m], msgs'[Hub], i, N!Min(batch'[m]))
      <3>1. CASE pc[m] = "record"
        <4>1. /\ batch[m] # {}
              /\ \E i \in DOMAIN msgs[m] : Same(msgs[m], msgs[Hub], i, N!Min(batch[m]))
          BY <3>1 DEF NetInv, WorkFaithful
        <4>2. PICK i \in DOMAIN msgs[m] : Same(msgs'[m], msgs'[Hub], i, N!Min(batch[m]))
          BY <4>1, NetKept DEF NetSaved
        <4> QED
          BY <4>1, <4>2 DEF Same
      <3> QED
        BY <2>3, <3>1
    <2> QED
      BY <2>1, <2>2, <2>3 DEF WorkFaithful
  <1>5. SavesFaithful'
    <2>1. /\ tagged \subseteq DOMAIN msgs'[Hub]
          /\ \A a \in saves \cup cut : a[1] \in N!Board /\ a[2] \in DOMAIN msgs'[a[1]]
      BY NetKept DEF NetSaved
    <2>2. PICK n : n = Len(msgs'[b]) /\ n \in DOMAIN msgs'[b]
      BY DEF NetSaved
    <2>3. ASSUME NEW a \in saves' \cup cut PROVE a[1] \in N!Board /\ a[2] \in DOMAIN msgs'[a[1]]
      <3>1. CASE a = <<b, n>>
        BY <2>2, <3>1
      <3>2. CASE a # <<b, n>>
        BY <2>1, <2>2, <3>2
      <3> QED
        BY <3>1, <3>2
    <2> QED
      BY <2>1, <2>3 DEF SavesFaithful, N!Board
  <1> QED
    BY <1>1, <1>2, <1>3, <1>4, <1>5 DEF NetInv

\* What is posted comes after what was.
LEMMA NetPosts ==
  ASSUME NetTypes, NEW x \in [by : N!Board, to : Nat], posts' = Append(posts, x)
  PROVE  /\ posts' \in Seq([by : N!Board, to : Nat])
         /\ Len(posts') \in Nat /\ Len(posts') \notin DOMAIN posts
         /\ DOMAIN posts' = DOMAIN posts \cup {Len(posts')}
         /\ \A p \in DOMAIN posts : posts'[p] = posts[p]
         /\ posts'[Len(posts')] = x
  <1> DEFINE R == [by : N!Board, to : Nat]
  <1>1. posts \in Seq(R) /\ x \in R
    BY DEF NetTypes
  <1> HIDE DEF R
  <1>2. /\ posts' \in Seq(R) /\ Len(posts') = Len(posts) + 1
        /\ \A i \in 1 .. Len(posts) : posts'[i] = posts[i]
        /\ posts'[Len(posts) + 1] = x
    BY <1>1, AppendProperties
  <1>3. Len(posts) \in Nat /\ DOMAIN posts = 1 .. Len(posts) /\ DOMAIN posts' = 1 .. Len(posts')
    BY <1>1, <1>2, LenProperties
  <1> QED
    BY <1>2, <1>3 DEF R

\* The saving of a message, as the lemmas above want it
LEMMA NetSavesSo ==
  ASSUME NetInv, NEW b \in N!Board, NEW p \in Nat, NEW par \in Nat, N!Save(b, p, par),
         \A q \in DOMAIN posts : q \in DOMAIN posts' /\ posts'[q] = posts[q]
  PROVE  NetSaved(b, p, par)
  <1>1. NetTypes
    BY DEF NetInv
  <1>2. ASSUME NEW c \in N!Board, NEW i \in DOMAIN msgs[c]
        PROVE  i \in DOMAIN msgs'[c] /\ msgs'[c][i] = msgs[c][i]
    BY <1>1, NetSaves
  <1>3. NetGrown
    BY <1>2 DEF NetGrown
  <1> QED
    BY <1>1, <1>3, NetSaves DEF NetSaved

\* The numbers of the messages of a board
LEMMA NetNumbers ==
  ASSUME NetTypes, NEW b \in N!Board
  PROVE  /\ Len(msgs[b]) \in Nat /\ DOMAIN msgs[b] = 1 .. Len(msgs[b])
         /\ \A i \in DOMAIN msgs[b] : msgs[b][i] \in [post : Nat, parent : Nat]
  <1>1. msgs[b] \in Seq([post : Nat, parent : Nat])
    BY DEF NetTypes
  <1>2. Len(msgs[b]) \in Nat /\ DOMAIN msgs[b] = 1 .. Len(msgs[b])
    BY <1>1, LenProperties
  <1>3. \A i \in 1 .. Len(msgs[b]) : msgs[b][i] \in [post : Nat, parent : Nat]
    BY <1>1, ElementOfSeq
  <1> QED
    BY <1>2, <1>3

\* What a user's post does
LEMMA NetPosted ==
  ASSUME NetInv, NEW b \in N!Board, NEW par \in {N!None} \cup DOMAIN msgs[b], N!UserPosts(b, par)
  PROVE  \E p \in Nat :
           /\ p \notin DOMAIN posts /\ DOMAIN posts' = DOMAIN posts \cup {p}
           /\ posts' \in Seq([by : N!Board, to : Nat])
           /\ posts'[p] = [by |-> b, to |-> IF par = 0 THEN 0 ELSE msgs[b][par].post]
           /\ par \in {0} \cup DOMAIN msgs[b]
           /\ NetSaved(b, p, par)
           /\ saves' = saves \cup {<<b, Len(msgs'[b])>>}
           /\ UNCHANGED <<source, trans, queue, last, netLast, pc, batch, keys, todo, put, faults,
                          tagged, cut>>
  <1> DEFINE x == [by |-> b, to |-> IF par = 0 THEN 0 ELSE msgs[b][par].post]
             p == Len(posts')
  <1>1. /\ posts' = Append(posts, x) /\ N!Save(b, p, par)
        /\ par \in {0} \cup DOMAIN msgs[b]
        /\ saves' = saves \cup {<<b, Len(msgs'[b])>>}
    BY DEF N!UserPosts, N!None
  <1>2. UNCHANGED <<source, trans, queue, last, netLast, pc, batch, keys, todo, put, faults,
                    tagged, cut>>
    BY DEF N!UserPosts, N!memory
  <1>3. NetTypes
    BY DEF NetInv
  <1>4. x \in [by : N!Board, to : Nat] /\ par \in Nat
    BY <1>1, <1>3, NetNumbers
  <1>5. /\ posts' \in Seq([by : N!Board, to : Nat]) /\ p \in Nat /\ p \notin DOMAIN posts
        /\ DOMAIN posts' = DOMAIN posts \cup {p}
        /\ \A q \in DOMAIN posts : posts'[q] = posts[q]
        /\ posts'[p] = x
    BY <1>1, <1>3, <1>4, NetPosts
  <1> HIDE DEF p
  <1>6. NetSaved(b, p, par)
    BY <1>1, <1>4, <1>5, NetSavesSo
  <1> QED
    BY <1>1, <1>2, <1>5, <1>6

LEMMA NetUserPosts ==
  ASSUME NetInv, NEW b \in N!Board, NEW par \in {N!None} \cup DOMAIN msgs[b], N!UserPosts(b, par)
  PROVE  NetInv'
  <1>1. PICK p \in Nat :
          /\ p \notin DOMAIN posts /\ DOMAIN posts' = DOMAIN posts \cup {p}
          /\ posts' \in Seq([by : N!Board, to : Nat])
          /\ posts'[p] = [by |-> b, to |-> IF par = 0 THEN 0 ELSE msgs[b][par].post]
          /\ par \in {0} \cup DOMAIN msgs[b]
          /\ NetSaved(b, p, par)
          /\ saves' = saves \cup {<<b, Len(msgs'[b])>>}
          /\ UNCHANGED <<source, trans, queue, last, netLast, pc, batch, keys, todo, put, faults,
                         tagged, cut>>
    BY NetPosted
  <1>2. NetTypes
    BY DEF NetInv
  <1>3. Faithful(msgs'[b], posts', p, par)
    BY <1>1 DEF Faithful, NetSaved, NetGrown
  <1>5. NetTypes'
    BY <1>1, <1>2 DEF NetTypes, NetSaved
  <1>6. ASSUME NEW m \in Member
        PROVE  queue[m] \subseteq queue'[m] /\ queue'[m] \subseteq DOMAIN msgs'[m]
    BY <1>1, NetKept DEF NetSaved
  <1> QED
    BY <1>1, <1>3, <1>5, <1>6, NetSavedWorks

\* What is saved is tagged, or queued.
LEMMA NetUserSaves ==
  ASSUME NetInv, NEW b \in N!Board, NEW i, N!UserSaves(b, i)
  PROVE  /\ NetInv' /\ i \in DOMAIN msgs[b] /\ i \in Nat
         /\ <<b, i>> \in saves /\ saves' = saves \ {<<b, i>>}
         /\ b = Hub => queue' = queue
         /\ b # Hub => queue' = [queue EXCEPT ![b] = @ \cup {i}]
         /\ UNCHANGED <<posts, msgs, source, trans, last, netLast, pc, batch, keys, todo, put,
                        faults, cut>>
  <1>1. /\ <<b, i>> \in saves /\ saves' = saves \ {<<b, i>>}
        /\ b = Hub => tagged' = tagged \cup {i} /\ queue' = queue
        /\ b # Hub => queue' = [queue EXCEPT ![b] = @ \cup {i}] /\ tagged' = tagged
        /\ UNCHANGED <<posts, msgs, source, trans, last, netLast, pc, batch, keys, todo, put,
                       faults, cut>>
    BY DEF N!UserSaves, N!memory
  <1>2. NetTypes /\ SavesFaithful
    BY DEF NetInv
  <1>3. i \in DOMAIN msgs[b]
    BY <1>1, <1>2 DEF SavesFaithful
  <1>4. i \in Nat
    BY <1>2, <1>3, NetNumbers
  <1>5. SavesFaithful'
    <2>1. tagged' \subseteq DOMAIN msgs[Hub]
      BY <1>1, <1>2, <1>3 DEF SavesFaithful
    <2> QED
      BY <1>1, <1>2, <2>1 DEF SavesFaithful
  <1>6. queue' \in [Member -> SUBSET Nat]
    <2>1. queue \in [Member -> SUBSET Nat]
      BY <1>2 DEF NetTypes
    <2>2. CASE b = Hub
      BY <1>1, <2>1, <2>2
    <2>3. CASE b # Hub
      BY <1>1, <1>4, <2>1, <2>3
    <2> QED
      BY <2>2, <2>3
  <1>7. NetTypes'
    BY <1>1, <1>2, <1>6 DEF NetTypes
  <1>8. ASSUME NEW m \in Member PROVE WorkFaithful(m)'
    <2>1. queue'[m] = queue[m] \/ (m = b /\ queue'[m] = queue[m] \cup {i})
      BY <1>1, <1>2 DEF NetTypes
    <2>2. queue[m] \subseteq queue'[m] /\ queue'[m] \subseteq DOMAIN msgs[m]
      BY <1>3, <2>1 DEF NetInv, WorkFaithful
    <2>3. WorkFaithful(m)
      BY DEF NetInv
    <2> QED
      BY <1>1, <2>2, <2>3 DEF WorkFaithful
  <1>9. \A r \in put' : RequestFaithful(r)'
    BY <1>1 DEF NetInv, RequestFaithful
  <1>10. BoardsFaithful'
    BY <1>1, NetUnsaved
  <1>11. TransFaithful'
    BY <1>1 DEF NetInv, TransFaithful
  <1>12. NetInv'
    BY <1>5, <1>7, <1>8, <1>9, <1>10, <1>11 DEF NetInv
  <1> QED
    BY <1>1, <1>3, <1>4, <1>12

LEMMA NetSaveIsCut ==
  ASSUME NetInv, NEW b, NEW i, N!SaveIsCut(b, i)
  PROVE  NetInv'
  <1>1. /\ UNCHANGED <<posts, msgs, source, trans, queue, last, netLast, pc, batch, keys, todo, put,
                       tagged>>
        /\ faults' = faults + 1 /\ saves' \cup cut' \subseteq saves \cup cut
    BY DEF N!SaveIsCut, N!memory
  <1>2. NetTypes'
    BY <1>1 DEF NetInv, NetTypes
  <1>3. ASSUME NEW c \in Member PROVE WorkFaithful(c)'
    BY <1>1 DEF NetInv, WorkFaithful
  <1>4. \A r \in put' : RequestFaithful(r)'
    BY <1>1 DEF NetInv, RequestFaithful
  <1> QED
    BY <1>1, <1>2, <1>3, <1>4, NetWorks

\* The hub tags what it has stored.
LEMMA NetHubTags ==
  ASSUME NetInv, NEW r \in put, N!HubTags(r)
  PROVE  NetInv'
  <1>1. /\ UNCHANGED <<posts, msgs, source, trans, queue, last, netLast, pc, batch, keys, todo, put,
                       faults, saves, cut>>
        /\ r.id # 0 /\ tagged' = tagged \cup {r.id}
    BY DEF N!HubTags, N!memory
  <1>2. r.id \in DOMAIN msgs[Hub]
    BY <1>1 DEF NetInv, RequestFaithful, Same
  <1>3. SavesFaithful'
    BY <1>1, <1>2 DEF NetInv, SavesFaithful
  <1>4. NetTypes'
    BY <1>1 DEF NetInv, NetTypes
  <1>5. ASSUME NEW c \in Member PROVE WorkFaithful(c)'
    BY <1>1 DEF NetInv, WorkFaithful
  <1>6. \A q \in put' : RequestFaithful(q)'
    BY <1>1 DEF NetInv, RequestFaithful
  <1>7. BoardsFaithful'
    BY <1>1, NetUnsaved
  <1>8. TransFaithful'
    BY <1>1 DEF NetInv, TransFaithful
  <1> QED
    BY <1>3, <1>4, <1>5, <1>6, <1>7, <1>8 DEF NetInv

LEMMA NetHubSaves ==
  ASSUME NetInv, NEW r \in put, N!HubSaves(r)
  PROVE  NetInv'
  <1>1. /\ r.id = 0 /\ N!Save(Hub, r.post, r.parent)
        /\ put' = (put \ {r}) \cup {[r EXCEPT !.id = Len(msgs'[Hub])]}
        /\ UNCHANGED <<posts, source, trans, queue, last, netLast, pc, batch, keys, todo, faults,
                       tagged, saves, cut>>
    BY DEF N!HubSaves, N!memory
  <1>2. r \in [by : Member, msg : Nat, post : Nat, parent : Nat, id : Nat] /\ RequestFaithful(r)
    BY DEF NetInv, NetTypes
  <1>3. Hub \in N!Board /\ r.by \in N!Board /\ NetTypes
    BY <1>2 DEF N!Board, NetInv
  <1>4. NetSaved(Hub, r.post, r.parent)
    BY <1>1, <1>2, <1>3, NetSavesSo
  <1>5. RequestFaithful(r)'
    BY <1>4, NetKept DEF NetSaved
  <1>6. Faithful(msgs'[Hub], posts', r.post, r.parent)
    BY <1>5 DEF RequestFaithful
  <1>7. r.post \in DOMAIN posts'
    BY <1>1, <1>2, <1>3 DEF RequestFaithful, NetInv, BoardsFaithful
  <1>a. PICK s : s = [r EXCEPT !.id = Len(msgs'[Hub])]
    OBVIOUS
  <1>8. /\ s \in [by : Member, msg : Nat, post : Nat, parent : Nat, id : Nat]
        /\ s.by = r.by /\ s.msg = r.msg /\ s.post = r.post /\ s.parent = r.parent
        /\ s.id = Len(msgs'[Hub])
    BY <1>2, <1>4, <1>a DEF NetSaved
  <1>9. put' = (put \ {r}) \cup {s}
    BY <1>1, <1>a
  <1>10. Same(msgs'[r.by], msgs'[Hub], r.msg, s.id)
    BY <1>4, <1>5, <1>8 DEF RequestFaithful, Same, NetSaved
  <1>11. RequestFaithful(s)'
    BY <1>5, <1>8, <1>10 DEF RequestFaithful
  <1>12. NetTypes'
    BY <1>1, <1>3, <1>4, <1>8, <1>9 DEF NetTypes, NetSaved
  <1>13. \A m \in Member : queue[m] \subseteq queue'[m] /\ queue'[m] \subseteq DOMAIN msgs'[m]
    BY <1>1, <1>4, NetKept DEF NetSaved
  <1> QED
    BY <1>1, <1>3, <1>4, <1>6, <1>7, <1>9, <1>11, <1>12, <1>13, NetSavedWorks

\* A parent that is translated is the member's copy of the one at the hub.
LEMMA NetStored ==
  ASSUME NetInv, NEW m \in Member, N!Store(m), NEW h, h = N!Min(batch[m])
  PROVE  /\ h \in batch[m] /\ h \in Nat /\ h \in DOMAIN msgs[Hub]
         /\ \E par \in Nat : /\ NetSaved(m, msgs[Hub][h].post, par)
                              /\ Faithful(msgs[m], posts, msgs[Hub][h].post, par)
         /\ pc' = [pc EXCEPT ![m] = "record"] /\ pc[m] = "store"
         /\ UNCHANGED <<posts, source, trans, queue, last, netLast, batch, keys, todo, put, faults,
                        tagged, saves, cut>>
  <1> DEFINE p == msgs[Hub][h].post
             q == msgs[Hub][h].parent
             par == N!LocalParent(m, q)
  <1>1. /\ pc[m] = "store" /\ batch[m] # {} /\ N!Save(m, p, par)
        /\ pc' = [pc EXCEPT ![m] = "record"]
        /\ UNCHANGED <<posts, source, trans, queue, last, netLast, batch, keys, todo, put, faults,
                       tagged, saves, cut>>
    BY DEF N!Store
  <1>2. NetTypes /\ m \in N!Board /\ Hub \in N!Board
    BY DEF NetInv, N!Board
  <1>3. h \in DOMAIN msgs[Hub] /\ h \in batch[m] /\ h \in Nat
    BY <1>1, <1>2, NetMin DEF NetTypes, NetInv, WorkFaithful
  <1>4. p \in DOMAIN posts /\ p \in Nat /\ q \in Nat /\ Faithful(msgs[Hub], posts, p, q)
    BY <1>2, <1>3, NetNumbers DEF NetInv, BoardsFaithful
  <1> HIDE DEF p, q
  <1>5. par = 0 \/ (q \in DOMAIN trans[m] /\ par = trans[m][q])
    BY DEF N!LocalParent, N!None, NetInv, WorkFaithful
  <1> HIDE DEF par
  <1>6. Faithful(msgs[m], posts, p, par) /\ par \in Nat
    <2>1. CASE par = 0
      BY <2>1 DEF Faithful
    <2>2. CASE par # 0
      <3>1. Same(msgs[m], msgs[Hub], par, q)
        BY <1>5, <2>2 DEF NetInv, TransFaithful
      <3>2. q # 0 /\ par \in Nat
        BY <1>2, <3>1, NetNumbers DEF Same
      <3> QED
        BY <1>4, <3>1, <3>2 DEF Faithful, Same
    <2> QED
      BY <2>1, <2>2
  <1>7. NetSaved(m, p, par)
    BY <1>1, <1>2, <1>4, <1>6, NetSavesSo
  <1> QED
    BY <1>1, <1>3, <1>6, <1>7 DEF p

LEMMA NetStore ==
  ASSUME NetInv, NEW m \in Member, N!Store(m)
  PROVE  NetInv'
  <1>1. PICK h : h = N!Min(batch[m])
    OBVIOUS
  <1>2. PICK p : p = msgs[Hub][h].post
    OBVIOUS
  <1>3. /\ h \in batch[m] /\ h \in DOMAIN msgs[Hub]
        /\ pc' = [pc EXCEPT ![m] = "record"]
        /\ UNCHANGED <<posts, source, trans, queue, last, netLast, batch, keys, todo, put, faults,
                       tagged, saves, cut>>
    BY <1>1, NetStored
  <1>4. PICK par \in Nat : NetSaved(m, p, par) /\ Faithful(msgs[m], posts, p, par)
    BY <1>1, <1>2, NetStored
  <1>5. NetTypes /\ m \in N!Board /\ Hub \in N!Board /\ p \in DOMAIN posts
    BY <1>2, <1>3 DEF NetInv, N!Board, BoardsFaithful
  <1>6. Faithful(msgs'[m], posts', p, par) /\ p \in DOMAIN posts'
    BY <1>3, <1>4, <1>5 DEF Faithful, NetSaved, NetGrown
  <1>7. NetTypes'
    BY <1>3, <1>4, <1>5 DEF NetTypes, NetSaved, PollerAt
  <1>8. Same(msgs'[m], msgs'[Hub], Len(msgs'[m]), h)
    <2>1. h \in DOMAIN msgs'[Hub] /\ msgs'[Hub][h].post = p
      BY <1>2, <1>3, <1>4, <1>5 DEF NetSaved, NetGrown
    <2> QED
      BY <1>4, <2>1 DEF Same, NetSaved
  <1>9. ASSUME NEW c \in Member
        PROVE  /\ queue[c] \subseteq queue'[c] /\ queue'[c] \subseteq DOMAIN msgs'[c]
               /\ pc'[c] = "wait" => pc[c] = "wait"
               /\ pc'[c] = "record" => pc[c] = "record" \/ (batch[c] # {} /\
                    \E i \in DOMAIN msgs'[c] : Same(msgs'[c], msgs'[Hub], i, N!Min(batch[c])))
    <2>1. queue'[c] \subseteq DOMAIN msgs'[c] /\ queue'[c] = queue[c]
      BY <1>3, <1>4, NetKept DEF NetSaved
    <2>2. CASE c = m
      <3>1. pc'[c] = "record" /\ Len(msgs'[m]) \in DOMAIN msgs'[m]
        BY <1>3, <1>4, <1>5, <2>2 DEF NetTypes, NetSaved
      <3> QED
        BY <1>1, <1>3, <1>8, <2>1, <2>2, <3>1
    <2>3. CASE c # m
      <3>1. pc'[c] = pc[c]
        BY <1>3, <1>5, <2>3 DEF NetTypes
      <3> QED
        BY <2>1, <3>1
    <2> QED
      BY <2>2, <2>3
  <1> QED
    BY <1>3, <1>4, <1>5, <1>6, <1>7, <1>9, NetSavedWorks

\* A number more in a translation
LEMMA NetWith ==
  ASSUME NEW f, NEW i, NEW x
  PROVE  /\ DOMAIN N!With(f, i, x) = DOMAIN f \cup {i}
         /\ \A j \in DOMAIN f \cup {i} : N!With(f, i, x)[j] = IF j = i THEN x ELSE f[j]
  BY DEF N!With

\* A step that saves nothing, and adds to the translation of a member
LEMMA NetTranslated ==
  ASSUME NetInv, UNCHANGED <<posts, msgs>>, NEW m \in Member, NEW h, NEW i,
         Same(msgs[m], msgs[Hub], i, h), trans' = [trans EXCEPT ![m] = N!With(@, h, i)]
  PROVE  /\ TransFaithful' /\ DOMAIN trans' = Member
         /\ \A c \in Member : DOMAIN trans[c] \subseteq DOMAIN trans'[c]
  <1>1. DOMAIN trans = Member
    BY DEF NetInv, NetTypes
  <1>2. /\ trans'[m] = N!With(trans[m], h, i) /\ DOMAIN trans' = Member
        /\ \A c \in Member : c # m => trans'[c] = trans[c]
    BY <1>1
  <1>3. /\ DOMAIN trans'[m] = DOMAIN trans[m] \cup {h}
        /\ \A j \in DOMAIN trans'[m] : trans'[m][j] = IF j = h THEN i ELSE trans[m][j]
    <2>1. /\ DOMAIN N!With(trans[m], h, i) = DOMAIN trans[m] \cup {h}
          /\ \A j \in DOMAIN trans[m] \cup {h} :
               N!With(trans[m], h, i)[j] = IF j = h THEN i ELSE trans[m][j]
      BY DEF N!With
    <2> QED
      BY <1>2, <2>1
  <1>4. ASSUME NEW c \in Member, NEW j \in DOMAIN trans'[c]
        PROVE  Same(msgs[c], msgs[Hub], trans'[c][j], j)
    <2>1. CASE c = m /\ j = h
      BY <1>3, <2>1
    <2>2. CASE ~(c = m /\ j = h)
      BY <1>2, <1>3, <2>2 DEF NetInv, TransFaithful
    <2> QED
      BY <2>1, <2>2
  <1> QED
    BY <1>2, <1>3, <1>4 DEF TransFaithful

\* The last message with the post, looked for when it is recorded, is that of the hub.
LEMMA NetRecord ==
  ASSUME NetInv, NEW m \in Member, N!Record(m)
  PROVE  NetInv'
  <1> DEFINE h == N!Min(batch[m])
             s == {i \in DOMAIN msgs[m] : msgs[m][i].post = msgs[Hub][h].post}
  <1>1. /\ pc[m] = "record"
        /\ trans' = [trans EXCEPT ![m] = N!With(@, h, N!Max(s))]
        /\ netLast' = [netLast EXCEPT ![m] = N!Max({@, h - 1})]
        /\ batch' = [batch EXCEPT ![m] = N!Rest(@)]
        /\ pc' = [pc EXCEPT ![m] = "store"]
        /\ UNCHANGED <<posts, msgs, source, queue, last, keys, todo, put, faults,
                       tagged, saves, cut>>
    BY DEF N!Record
  <1>2. NetTypes /\ m \in N!Board
    BY DEF NetInv, N!Board
  <1>3. /\ batch[m] # {} /\ batch[m] \subseteq Nat
        /\ \E i \in DOMAIN msgs[m] : Same(msgs[m], msgs[Hub], i, h)
    BY <1>1, <1>2 DEF NetTypes, NetInv, WorkFaithful
  <1>4. h \in Nat /\ N!Rest(batch[m]) \subseteq batch[m]
    BY <1>3, NetMin, NetRest
  <1> HIDE DEF h
  <1>5. s # {} /\ s \subseteq DOMAIN msgs[m] /\ h \in DOMAIN msgs[Hub]
    BY <1>3 DEF Same
  <1>6. Len(msgs[m]) \in Nat /\ s \subseteq 1 .. Len(msgs[m])
    BY <1>2, <1>5, NetNumbers
  <1>7. N!Max(s) \in s
    <2> HIDE DEF s
    <2> QED
      BY <1>5, <1>6, NetMax
  <1>8. Same(msgs[m], msgs[Hub], N!Max(s), h)
    BY <1>5, <1>7 DEF Same
  <1> HIDE DEF s
  <1>9. /\ TransFaithful' /\ DOMAIN trans' = Member
        /\ \A c \in Member : DOMAIN trans[c] \subseteq DOMAIN trans'[c]
    BY <1>1, <1>8, NetTranslated
  <1>10. netLast' \in [Member -> Int]
    <2>1. netLast[m] \in Int /\ h - 1 \in Int
      BY <1>2, <1>4 DEF NetTypes
    <2>2. N!Max({netLast[m], h - 1}) \in Int
      BY <2>1, NetMaxOfTwo
    <2> QED
      BY <1>1, <1>2, <2>2 DEF NetTypes
  <1>11. /\ batch' \in [Member -> SUBSET Nat]
         /\ pc' \in [Member -> PollerAt]
    BY <1>1, <1>2, <1>4 DEF NetTypes, PollerAt
  <1>12. NetTypes'
    BY <1>1, <1>2, <1>9, <1>10, <1>11 DEF NetTypes
  <1>13. ASSUME NEW c \in Member PROVE WorkFaithful(c)'
    <2>1. /\ batch'[c] \subseteq batch[c]
          /\ (pc'[c] = pc[c] /\ batch'[c] = batch[c]) \/ pc'[c] = "store"
      BY <1>1, <1>2, <1>4 DEF NetTypes
    <2>2. DOMAIN trans[c] \subseteq DOMAIN trans'[c]
      BY <1>9
    <2>3. WorkFaithful(c)
      BY DEF NetInv
    <2> QED
      BY <1>1, <2>1, <2>2, <2>3 DEF WorkFaithful
  <1>14. \A r \in put' : RequestFaithful(r)'
    BY <1>1 DEF NetInv, RequestFaithful
  <1>15. SavesFaithful'
    BY <1>1 DEF NetInv, SavesFaithful
  <1> QED
    BY <1>1, <1>9, <1>12, <1>13, <1>14, <1>15, NetUnsaved DEF NetInv

LEMMA NetHubRecords ==
  ASSUME NetInv, NEW r \in put, N!HubRecords(r)
  PROVE  NetInv'
  <1>1. /\ r.id \in tagged /\ put' = put \ {r}
        /\ IF pc[r.by] = "wait" /\ N!Min(todo[r.by]) = r.msg
           THEN N!Answered(r) /\ UNCHANGED <<netLast, batch, keys>>
           ELSE UNCHANGED <<trans, queue, netLast, pc, batch, keys, todo>>
        /\ UNCHANGED <<posts, msgs, last, faults, tagged, saves, cut>>
    BY DEF N!HubRecords, N!memory
  <1>2. PICK m : m = r.by
    OBVIOUS
  <1>a. r.id # 0 /\ SavesFaithful'
    <2>1. r.id \in DOMAIN msgs[Hub] /\ NetTypes /\ Hub \in N!Board
      BY <1>1 DEF NetInv, SavesFaithful, N!Board
    <2>2. r.id # 0
      BY <2>1, NetNumbers
    <2> QED
      BY <1>1, <2>2 DEF NetInv, SavesFaithful
  <1>3. m \in Member /\ RequestFaithful(r) /\ Same(msgs[m], msgs[Hub], r.msg, r.id) /\ NetTypes
    BY <1>2, <1>a DEF NetInv, NetTypes, RequestFaithful
  <1>4. \A q \in put' : RequestFaithful(q)'
    BY <1>1 DEF NetInv, RequestFaithful
  <1>5. CASE pc[m] = "wait" /\ N!Min(todo[m]) = r.msg
    <2>1. /\ trans' = [trans EXCEPT ![m] = N!With(@, r.id, r.msg)]
          /\ queue' = [queue EXCEPT ![m] = @ \ {r.msg}]
          /\ todo' = [todo EXCEPT ![m] = N!Rest(@)]
          /\ pc' = [pc EXCEPT ![m] = "publish"]
          /\ UNCHANGED <<netLast, batch, keys>>
      BY <1>1, <1>2, <1>5 DEF N!Answered
    <2>2. N!Rest(todo[m]) = todo[m] \ {r.msg} /\ todo[m] \in SUBSET Nat /\ queue[m] \in SUBSET Nat
      BY <1>3, <1>5 DEF N!Rest, NetTypes
    <2>3. /\ TransFaithful' /\ DOMAIN trans' = Member
          /\ \A c \in Member : DOMAIN trans[c] \subseteq DOMAIN trans'[c]
      BY <1>1, <1>3, <2>1, NetTranslated
    <2>4. /\ queue' \in [Member -> SUBSET Nat] /\ todo' \in [Member -> SUBSET Nat]
          /\ pc' \in [Member -> PollerAt]
      BY <1>3, <2>1, <2>2 DEF NetTypes, PollerAt
    <2>5. NetTypes'
      BY <1>1, <1>3, <2>1, <2>3, <2>4 DEF NetTypes
    <2>6. ASSUME NEW c \in Member PROVE WorkFaithful(c)'
      <3>1. WorkFaithful(c) /\ DOMAIN trans[c] \subseteq DOMAIN trans'[c]
        BY <2>3 DEF NetInv
      <3>2. CASE c = m
        <4>1. /\ queue'[c] = queue[c] \ {r.msg} /\ todo'[c] = todo[c] \ {r.msg}
              /\ pc'[c] = "publish"
          BY <1>3, <2>1, <2>2, <3>2 DEF NetTypes
        <4> QED
          BY <1>1, <2>1, <3>1, <4>1 DEF WorkFaithful
      <3>3. CASE c # m
        <4>1. queue'[c] = queue[c] /\ todo'[c] = todo[c] /\ pc'[c] = pc[c]
          BY <1>3, <2>1, <3>3 DEF NetTypes
        <4> QED
          BY <1>1, <2>1, <3>1, <4>1 DEF WorkFaithful
      <3> QED
        BY <3>2, <3>3
    <2> QED
      BY <1>1, <1>4, <1>a, <2>3, <2>5, <2>6, NetUnsaved DEF NetInv
  <1>6. CASE ~(pc[m] = "wait" /\ N!Min(todo[m]) = r.msg)
    <2>1. UNCHANGED <<posts, msgs, last, faults, trans, queue, netLast, pc, batch, keys, todo,
                      tagged, saves, cut>>
      BY <1>1, <1>2, <1>6
    <2>2. NetTypes'
      BY <1>1, <1>3, <2>1 DEF NetTypes
    <2>3. ASSUME NEW c \in Member PROVE WorkFaithful(c)'
      BY <2>1 DEF NetInv, WorkFaithful
    <2> QED
      BY <1>4, <2>1, <2>2, <2>3, NetWorks
  <1> QED
    BY <1>5, <1>6

\* What can be read is there.
LEMMA NetReadable ==
  ASSUME NEW b, NEW par \in {N!None} \cup N!Readable(b)
  PROVE  par \in {N!None} \cup DOMAIN msgs[b]
  BY DEF N!Readable

LEMMA NetNext == NetInv /\ [N!Next]_N!vars => NetInv'
  <1> SUFFICES ASSUME NetInv, [N!Next]_N!vars PROVE NetInv'
    OBVIOUS
  <1>1. CASE UNCHANGED N!vars
    <2>1. UNCHANGED <<posts, msgs, source, trans, queue, last, netLast, pc, batch, keys, todo, put,
                      faults, tagged, saves, cut>>
      BY <1>1 DEF N!vars, N!memory
    <2>2. NetTypes'
      BY <2>1 DEF NetInv, NetTypes
    <2>3. ASSUME NEW c \in Member PROVE WorkFaithful(c)'
      BY <2>1 DEF NetInv, WorkFaithful
    <2>4. \A r \in put' : RequestFaithful(r)'
      BY <2>1 DEF NetInv, RequestFaithful
    <2> QED
      BY <2>1, <2>2, <2>3, <2>4, NetWorks
  <1>2. CASE \E b \in N!Board : \E parent \in {N!None} \cup N!Readable(b) : N!UserPosts(b, parent)
    BY <1>2, NetReadable, NetUserPosts
  <1>3. CASE N!HubStep
    BY <1>3, NetHubSaves, NetHubTags, NetHubRecords DEF N!HubStep
  <1>4. CASE \E m \in Member : N!MemberStep(m) \/ N!PullFails(m) \/ N!PushFails(m) \/ N!Crash(m)
    BY <1>4, NetStop, NetPull, NetStore, NetRecord, NetOpenLast, NetWriteLast, NetPush, NetSleep,
       NetPullFails, NetPushFails, NetCrash DEF N!MemberStep
  <1>5. CASE \E a \in saves : N!UserSaves(a[1], a[2]) \/ N!SaveIsCut(a[1], a[2])
    <2>1. PICK a \in saves : N!UserSaves(a[1], a[2]) \/ N!SaveIsCut(a[1], a[2])
      BY <1>5
    <2>2. a[1] \in N!Board
      BY DEF NetInv, SavesFaithful
    <2> QED
      BY <2>1, <2>2, NetUserSaves, NetSaveIsCut
  <1> QED
    BY <1>1, <1>2, <1>3, <1>4, <1>5 DEF N!Next

\* The invariant says more than the property.
LEMMA NetFaithful == NetInv => N!ThreadsFaithful
  BY DEF NetInv, BoardsFaithful, TransFaithful, Faithful, Same, N!ThreadsFaithful, N!None

\* On every board of a network a message is saved as a reply to no message or to the one that
\* its author replied to, whatever its numbers are there, and `trans' says which message of
\* the hub is which: through crashes, lost answers and messages that are saved twice
\* (msgpoll.py:216-259, 275-319; msgserve.py:224-263).
THEOREM ThreadsGoAlong ==
  ASSUME N!MsgNetAssumption
  PROVE  N!Spec => []N!ThreadsFaithful
  BY NetInit, NetNext, NetFaithful, PTL DEF N!Spec

\* Whose user wrote the message i, of the messages ms
Author(ps, ms, i) == ps[ms[i].post].by

\* A post p is among the messages ms.
IsOn(ms, p) == \E i \in DOMAIN ms : ms[i].post = p

\* A member's own message is queued until the hub has it, or being saved, or cut.
Queued ==
  \A m \in Member : \A i \in DOMAIN msgs[m] :
    Author(posts, msgs[m], i) = m =>
      i \in queue[m] \/ IsOn(msgs[Hub], msgs[m][i].post) \/ <<m, i>> \in saves \cup cut

\* Messages keep their posts and authors.
LEMMA NetAuthors ==
  ASSUME NetInv, NetGrown, NEW b \in N!Board, NEW i \in DOMAIN msgs[b]
  PROVE  /\ i \in DOMAIN msgs'[b] /\ msgs'[b][i].post = msgs[b][i].post
         /\ msgs[b][i].post \in DOMAIN posts
         /\ Author(posts', msgs'[b], i) = Author(posts, msgs[b], i)
         /\ (IsOn(msgs[Hub], msgs[b][i].post) => IsOn(msgs'[Hub], msgs'[b][i].post))
  <1>1. /\ i \in DOMAIN msgs'[b] /\ msgs'[b][i] = msgs[b][i] /\ msgs[b][i].post \in DOMAIN posts
        /\ posts'[msgs[b][i].post] = posts[msgs[b][i].post]
    BY DEF NetInv, BoardsFaithful, NetGrown
  <1>2. Hub \in N!Board
    BY DEF N!Board
  <1> QED
    BY <1>1, <1>2 DEF Author, IsOn, NetGrown

LEMMA QueuedInit == N!MsgNetAssumption /\ N!Init => Queued
  BY NetBegins DEF Queued

\* It leaves the queue when the hub has it.
LEMMA QueuedNext ==
  ASSUME N!MsgNetAssumption, NetInv, Queued, [N!Next]_N!vars
  PROVE  Queued'
  <1>1. \A m \in Member : m \in N!Board /\ m # Hub
    BY DEF N!Board, N!MsgNetAssumption
  <1>2. NetTypes
    BY DEF NetInv
  <1>3. ASSUME NetGrown, queue' = queue, saves \cup cut \subseteq saves' \cup cut',
               \A m \in Member : \A i \in DOMAIN msgs'[m] \ DOMAIN msgs[m] :
                 IsOn(msgs'[Hub], msgs'[m][i].post) \/ <<m, i>> \in saves'
        PROVE  Queued'
    <2> SUFFICES ASSUME NEW m \in Member, NEW i \in DOMAIN msgs'[m],
                        Author(posts', msgs'[m], i) = m
                 PROVE  \/ i \in queue'[m] \/ IsOn(msgs'[Hub], msgs'[m][i].post)
                        \/ <<m, i>> \in saves' \cup cut'
      BY DEF Queued
    <2>1. CASE i \in DOMAIN msgs[m]
      <3>1. /\ Author(posts', msgs'[m], i) = Author(posts, msgs[m], i)
            /\ (IsOn(msgs[Hub], msgs[m][i].post) => IsOn(msgs'[Hub], msgs'[m][i].post))
        BY <1>1, <1>3, <2>1, NetAuthors
      <3> QED
        BY <1>3, <2>1, <3>1 DEF Queued
    <2> QED
      BY <1>3, <2>1
  <1>4. ASSUME UNCHANGED <<posts, msgs, queue>>, saves \cup cut \subseteq saves' \cup cut'
        PROVE  Queued'
    BY <1>4 DEF Queued
  <1>5. ASSUME NEW b \in N!Board, NEW par \in {N!None} \cup N!Readable(b), N!UserPosts(b, par)
        PROVE  Queued'
    <2>1. PICK p \in Nat :
            /\ NetSaved(b, p, par) /\ UNCHANGED <<queue, cut>>
            /\ saves' = saves \cup {<<b, Len(msgs'[b])>>}
      BY <1>5, NetReadable, NetPosted
    <2>2. PICK n : n = Len(msgs'[b])
      OBVIOUS
    <2>3. ASSUME NEW m \in Member, NEW i \in DOMAIN msgs'[m] \ DOMAIN msgs[m]
          PROVE  <<m, i>> \in saves'
      <3>1. m = b /\ i = n
        BY <1>1, <2>1, <2>2 DEF NetSaved
      <3> QED
        BY <2>1, <2>2, <3>1
    <2> QED
      BY <1>3, <2>1, <2>3 DEF NetSaved
  <1>a. ASSUME NEW b \in N!Board, NEW j, N!UserSaves(b, j) PROVE Queued'
    <2>1. /\ <<b, j>> \in saves /\ saves' = saves \ {<<b, j>>}
          /\ b = Hub => queue' = queue
          /\ b # Hub => queue' = [queue EXCEPT ![b] = @ \cup {j}]
          /\ UNCHANGED <<posts, msgs, cut>>
      BY <1>a, NetUserSaves
    <2>2. \A m \in Member : queue'[m] = IF m = b THEN queue[m] \cup {j} ELSE queue[m]
      BY <1>1, <1>2, <2>1 DEF NetTypes
    <2>3. \A m \in Member : \A i : <<m, i>> \in saves => <<m, i>> \in saves' \/ i \in queue'[m]
      BY <2>1, <2>2
    <2> QED
      BY <2>1, <2>2, <2>3 DEF Queued
  <1>b. ASSUME NEW b, NEW j, N!SaveIsCut(b, j) PROVE Queued'
    <2>1. UNCHANGED <<posts, msgs, queue>> /\ saves \cup cut \subseteq saves' \cup cut'
      BY <1>b DEF N!SaveIsCut
    <2> QED
      BY <1>4, <2>1
  <1>c. ASSUME NEW r \in put, N!HubTags(r) PROVE Queued'
    BY <1>4, <1>c DEF N!HubTags
  <1>6. ASSUME NEW r \in put, N!HubSaves(r) PROVE Queued'
    <2>1. N!Save(Hub, r.post, r.parent) /\ UNCHANGED <<posts, queue, saves, cut>>
      BY <1>6 DEF N!HubSaves
    <2>2. r.post \in Nat /\ r.parent \in Nat /\ Hub \in N!Board
      BY <1>2 DEF NetTypes, N!Board
    <2>3. NetSaved(Hub, r.post, r.parent)
      BY <2>1, <2>2, NetSavesSo
    <2> QED
      BY <1>1, <1>3, <2>1, <2>3 DEF NetSaved
  <1>7. ASSUME NEW r \in put, N!HubRecords(r) PROVE Queued'
    <2>a. r.id \in DOMAIN msgs[Hub]
      BY <1>7 DEF NetInv, SavesFaithful, N!HubRecords
    <2>b. r.id # 0
      BY <1>2, <2>a, NetNumbers DEF N!Board
    <2>1. r.by \in Member /\ Same(msgs[r.by], msgs[Hub], r.msg, r.id)
      BY <1>2, <2>b DEF NetTypes, NetInv, RequestFaithful
    <2>2. /\ UNCHANGED <<posts, msgs, saves, cut>>
          /\ queue' = queue \/ queue' = [queue EXCEPT ![r.by] = @ \ {r.msg}]
      BY <1>7 DEF N!HubRecords, N!Answered
    <2>3. IsOn(msgs[Hub], msgs[r.by][r.msg].post)
      BY <2>1 DEF Same, IsOn
    <2>4. \A m \in Member : \A i \in queue[m] : i \in queue'[m] \/ (m = r.by /\ i = r.msg)
      BY <1>2, <2>2 DEF NetTypes
    <2> QED
      BY <2>2, <2>3, <2>4 DEF Queued
  <1>8. ASSUME NEW m \in Member, N!Store(m) PROVE Queued'
    <2>1. PICK h : h = N!Min(batch[m])
      OBVIOUS
    <2>2. h \in DOMAIN msgs[Hub] /\ queue' = queue /\ UNCHANGED <<saves, cut>>
      BY <1>8, <2>1, NetStored
    <2>3. PICK par \in Nat : NetSaved(m, msgs[Hub][h].post, par)
      BY <1>8, <2>1, NetStored
    <2>4. msgs'[Hub] = msgs[Hub] /\ m \in N!Board
      BY <1>1, <2>3 DEF NetSaved, N!Board
    <2>5. ASSUME NEW c \in Member, NEW i \in DOMAIN msgs'[c] \ DOMAIN msgs[c]
          PROVE  IsOn(msgs'[Hub], msgs'[c][i].post)
      <3>1. c = m
        BY <1>1, <2>3 DEF NetSaved
      <3>2. msgs'[c][i].post = msgs[Hub][h].post
        BY <2>3, <2>4, <3>1 DEF NetSaved
      <3> QED
        BY <2>2, <2>4, <3>2 DEF IsOn
    <2> QED
      BY <1>3, <2>2, <2>3, <2>5 DEF NetSaved
  <1>9. CASE UNCHANGED N!vars
    BY <1>4, <1>9 DEF N!vars
  <1>10. CASE \E m \in Member : N!MemberStep(m) \/ N!PullFails(m) \/ N!PushFails(m) \/ N!Crash(m)
    <2> SUFFICES ASSUME NEW m \in Member,
                        N!MemberStep(m) \/ N!PullFails(m) \/ N!PushFails(m) \/ N!Crash(m)
                 PROVE  Queued'
      BY <1>10
    <2>1. \/ N!Store(m)
          \/ UNCHANGED <<posts, msgs, queue>> /\ saves \cup cut \subseteq saves' \cup cut'
      BY DEF N!MemberStep, N!Stop, N!Pull, N!Record, N!OpenLast, N!WriteLast, N!Push, N!Sleep,
             N!PullFails, N!PushFails, N!Crash
    <2> QED
      BY <1>4, <1>8, <2>1
  <1>11. CASE \E a \in saves : N!UserSaves(a[1], a[2]) \/ N!SaveIsCut(a[1], a[2])
    <2>1. PICK a \in saves : N!UserSaves(a[1], a[2]) \/ N!SaveIsCut(a[1], a[2])
      BY <1>11
    <2>2. a[1] \in N!Board
      BY DEF NetInv, SavesFaithful
    <2> QED
      BY <1>a, <1>b, <2>1, <2>2
  <1> QED
    BY <1>5, <1>6, <1>7, <1>9, <1>10, <1>11, <1>c DEF N!Next, N!HubStep

-----------------------------------------------------------------------------
(* While nothing fails, a message is saved once on every board.  A request is *)
(* what its member waits for, so that the hub has saved, of what is queued,   *)
(* at most that; and what a member pulls comes after what it has pulled.      *)

\* No two of the messages ms have one post.
Distinct(ms) == \A i, j \in DOMAIN ms : ms[i].post = ms[j].post => i = j

\* A request is that of the message that its member waits for.
Awaited(r) == pc[r.by] = "wait" /\ r.msg = N!Min(todo[r.by])

\* What is queued or still to be is the member's own, and at the hub only if it is asked for
\* now.
Unpublished(m) ==
  /\ \A i : i \in queue[m] \/ <<m, i>> \in saves =>
       /\ Author(posts, msgs[m], i) = m
       /\ \A h \in DOMAIN msgs[Hub] :
            msgs[Hub][h].post = msgs[m][i].post => \E r \in put : r.by = m /\ r.id = h /\ r.msg = i
  /\ \A i \in queue[m] : <<m, i>> \notin saves

\* The hub knows which messages are the member's, but for the one that it records now.
Sourced(m) ==
  \A h \in DOMAIN msgs[Hub] :
    Author(posts, msgs[Hub], h) = m =>
      (h \in DOMAIN source /\ source[h] = m) \/ \E r \in put : r.by = m /\ r.id = h

\* What a member has is its own, or of the hub's up to the last it saw; what it is still to
\* store is neither.
Pulled(m) ==
  /\ pc[m] # "stopped" /\ netLast[m] >= -1
  /\ pc[m] \in {"poll", "publish", "wait"} => last[m] = netLast[m]
  /\ pc[m] \in {"store", "record"} =>
       \A h \in batch[m] : h > netLast[m] + 1 /\ Author(posts, msgs[Hub], h) # m
  /\ \A i \in DOMAIN msgs[m] :
       \/ Author(posts, msgs[m], i) = m
       \/ \E h \in DOMAIN msgs[Hub] :
            /\ Same(msgs[m], msgs[Hub], i, h)
            /\ h <= netLast[m] + 1 \/ (pc[m] = "record" /\ h = N!Min(batch[m]))

Once ==
  /\ \A b \in N!Board : Distinct(msgs[b])
  /\ \A r \in put : Awaited(r)
  /\ \A r, q \in put : r.by = q.by => r = q
  /\ \A m \in Member : Unpublished(m) /\ Sourced(m) /\ Pulled(m)

\* The inductive invariant of QueuedOrPublished and SavedOnce
OnceInv == NetInv /\ Queued /\ (faults = 0 => Once)

\* A post that is not on a board may be saved there.
LEMMA OnceSaved ==
  ASSUME NetInv, Once, NEW b \in N!Board, NEW p, NEW par, NetSaved(b, p, par),
         ~IsOn(msgs[b], p)
  PROVE  \A c \in N!Board : Distinct(msgs'[c])
  <1> SUFFICES ASSUME NEW c \in N!Board, NEW i \in DOMAIN msgs'[c], NEW j \in DOMAIN msgs'[c],
                      msgs'[c][i].post = msgs'[c][j].post
               PROVE  i = j
    BY DEF Distinct
  <1>1. \A k \in DOMAIN msgs[c] : msgs'[c][k] = msgs[c][k]
    BY DEF NetSaved, NetGrown
  <1>2. Distinct(msgs[c])
    BY DEF Once
  <1>3. CASE c # b
    <2>1. msgs'[c] = msgs[c]
      BY <1>3 DEF NetSaved
    <2> QED
      BY <1>2, <2>1 DEF Distinct
  <1>4. CASE c = b
    <2>1. DOMAIN msgs'[c] = DOMAIN msgs[c] \cup {Len(msgs'[c])} /\ msgs'[c][Len(msgs'[c])].post = p
      BY <1>4 DEF NetSaved
    <2>2. \A k \in DOMAIN msgs[c] : msgs[c][k].post # p
      BY <1>4 DEF IsOn
    <2> QED
      BY <1>1, <1>2, <2>1, <2>2 DEF Distinct
  <1> QED
    BY <1>3, <1>4

\* The steps of a member's poller
LEMMA OnceWorks ==
  ASSUME Once, UNCHANGED <<posts, msgs, source, queue, saves>>, put \subseteq put',
         \A r \in put' : Awaited(r)', \A r, q \in put' : r.by = q.by => r = q,
         \A m \in Member : Pulled(m)'
  PROVE  Once'
  <1>1. \A b \in N!Board : Distinct(msgs[b])
    BY DEF Once
  <1>2. ASSUME NEW m \in Member PROVE Unpublished(m)' /\ Sourced(m)'
    <2>1. Unpublished(m) /\ Sourced(m)
      BY DEF Once
    <2>2. Unpublished(m)'
      BY <2>1 DEF Unpublished
    <2>3. Sourced(m)'
      BY <2>1 DEF Sourced
    <2> QED
      BY <2>2, <2>3
  <1> QED
    BY <1>1, <1>2 DEF Once, N!Board

\* Members that do not work keep their requests.
LEMMA OnceWaits ==
  ASSUME NetInv, Once, NEW m \in Member, pc[m] # "wait",
         \A c \in Member : c # m => pc'[c] = pc[c] /\ todo'[c] = todo[c]
  PROVE  \A r \in put : r.by # m /\ Awaited(r)'
  <1> SUFFICES ASSUME NEW r \in put PROVE r.by # m /\ Awaited(r)'
    OBVIOUS
  <1>1. r.by \in Member /\ Awaited(r)
    BY DEF NetInv, NetTypes, Once
  <1> QED
    BY <1>1 DEF Awaited

\* and what they have.
LEMMA OnceOthers ==
  ASSUME Once, NEW c \in Member, UNCHANGED <<posts, msgs>>,
         pc'[c] = pc[c], last'[c] = last[c], netLast'[c] = netLast[c], batch'[c] = batch[c]
  PROVE  Pulled(c)'
  <1>1. Pulled(c)
    BY DEF Once
  <1> QED
    BY <1>1 DEF Pulled

LEMMA OncePull ==
  ASSUME NetInv, Once, NEW m \in Member, N!Pull(m)
  PROVE  Once'
  <1>1. PICK s \in N!Answers(m) :
          IF s = {}
          THEN N!ToPublish(m) /\ UNCHANGED <<batch, keys>>
          ELSE /\ batch' = [batch EXCEPT ![m] = s]
               /\ keys' = [keys EXCEPT ![m] = DOMAIN trans[m]]
               /\ pc' = [pc EXCEPT ![m] = "store"]
               /\ UNCHANGED todo
    BY DEF N!Pull
  <1>2. /\ pc[m] = "poll"
        /\ UNCHANGED <<posts, msgs, source, trans, queue, last, netLast, put, faults, saves>>
    BY DEF N!Pull
  <1>3. NetTypes /\ Sourced(m) /\ Pulled(m)
    BY DEF NetInv, Once
  <1>4. \A c \in Member : c # m => pc'[c] = pc[c] /\ todo'[c] = todo[c] /\ batch'[c] = batch[c]
    <2>1. CASE s = {}
      BY <1>1, <1>3, <2>1 DEF NetTypes, N!ToPublish
    <2>2. CASE s # {}
      BY <1>1, <1>3, <2>2 DEF NetTypes
    <2> QED
      BY <2>1, <2>2
  <1>5. \A r \in put : r.by # m /\ Awaited(r)'
    BY <1>2, <1>4, OnceWaits
  <1>6. last[m] = netLast[m] /\ netLast[m] \in Int /\ SavesFaithful
    BY <1>2, <1>3 DEF Pulled, NetTypes, NetInv
  <1>7. ASSUME NEW h \in s PROVE h > netLast[m] + 1 /\ Author(posts, msgs[Hub], h) # m
    <2>1. /\ h \in DOMAIN msgs[Hub] /\ h - 1 > N!Max({0, last[m]})
          /\ ~(h \in DOMAIN source /\ source[h] = m)
      BY <1>6 DEF N!Answers, N!Pending, SavesFaithful
    <2>2. h \in Nat
      BY <1>3, <2>1, NetNumbers DEF N!Board
    <2>3. h > netLast[m] + 1
      <3>1. N!Max({0, last[m]}) = IF 0 >= last[m] THEN 0 ELSE last[m]
        BY <1>6, NetMaxOfTwo
      <3> QED
        BY <1>6, <2>1, <2>2, <3>1
    <2> QED
      BY <1>3, <1>5, <2>1, <2>3 DEF Sourced
  <1>8. ASSUME NEW c \in Member PROVE Pulled(c)'
    <2>1. CASE c # m
      BY <1>2, <1>4, <2>1, OnceOthers
    <2>2. CASE c = m /\ s = {}
      <3>1. pc'[m] = "publish"
        BY <1>1, <1>3, <2>2 DEF NetTypes, N!ToPublish
      <3> QED
        BY <1>2, <1>3, <1>6, <2>2, <3>1 DEF Pulled
    <2>3. CASE c = m /\ s # {}
      <3>1. pc'[m] = "store" /\ batch'[m] = s
        BY <1>1, <1>3, <2>3 DEF NetTypes
      <3> QED
        BY <1>2, <1>3, <1>7, <2>3, <3>1 DEF Pulled
    <2> QED
      BY <2>1, <2>2, <2>3
  <1> QED
    BY <1>2, <1>5, <1>8, OnceWorks DEF Once

\* The last file is never what stops the poller.
LEMMA OnceStop ==
  ASSUME Once, NEW m \in Member, N!Stop(m)
  PROVE  FALSE
  <1>1. pc[m] = "poll" /\ last[m] = -2
    BY DEF N!Stop, N!Blank
  <1>2. last[m] = netLast[m] /\ netLast[m] >= -1
    BY <1>1 DEF Once, Pulled
  <1> QED
    BY <1>1, <1>2

LEMMA OnceOpenLast ==
  ASSUME NetInv, Once, NEW m \in Member, N!OpenLast(m)
  PROVE  Once'
  <1>1. /\ pc[m] = "store" /\ batch[m] = {}
        /\ UNCHANGED <<posts, msgs, source, trans, queue, netLast, batch, keys, todo, put, faults,
                       saves>>
        /\ pc' = [pc EXCEPT ![m] = "write"] /\ last' = [last EXCEPT ![m] = N!Blank]
    BY DEF N!OpenLast
  <1>2. NetTypes /\ Pulled(m)
    BY DEF NetInv, Once
  <1>3. /\ \A c \in Member : c # m => pc'[c] = pc[c] /\ last'[c] = last[c]
        /\ pc'[m] = "write"
    BY <1>1, <1>2 DEF NetTypes
  <1>4. \A r \in put : Awaited(r)'
    BY <1>1, <1>3, OnceWaits
  <1>5. ASSUME NEW c \in Member PROVE Pulled(c)'
    <2>1. CASE c # m
      BY <1>1, <1>3, <2>1, OnceOthers
    <2>2. CASE c = m
      BY <1>1, <1>2, <1>3, <2>2 DEF Pulled
    <2> QED
      BY <2>1, <2>2
  <1> QED
    BY <1>1, <1>4, <1>5, OnceWorks DEF Once

LEMMA OnceWriteLast ==
  ASSUME NetInv, Once, NEW m \in Member, N!WriteLast(m)
  PROVE  Once'
  <1>1. /\ pc[m] = "write"
        /\ UNCHANGED <<posts, msgs, source, trans, queue, netLast, batch, keys, put, faults, saves>>
        /\ N!ToPublish(m) /\ last' = [last EXCEPT ![m] = netLast[m]]
    BY DEF N!WriteLast
  <1>2. NetTypes /\ Pulled(m)
    BY DEF NetInv, Once
  <1>3. /\ \A c \in Member : c # m => pc'[c] = pc[c] /\ todo'[c] = todo[c] /\ last'[c] = last[c]
        /\ pc'[m] = "publish" /\ last'[m] = netLast[m]
    BY <1>1, <1>2 DEF NetTypes, N!ToPublish
  <1>4. \A r \in put : Awaited(r)'
    BY <1>1, <1>3, OnceWaits
  <1>5. ASSUME NEW c \in Member PROVE Pulled(c)'
    <2>1. CASE c # m
      BY <1>1, <1>3, <2>1, OnceOthers
    <2>2. CASE c = m
      BY <1>1, <1>2, <1>3, <2>2 DEF Pulled
    <2> QED
      BY <2>1, <2>2
  <1> QED
    BY <1>1, <1>4, <1>5, OnceWorks DEF Once

LEMMA OnceSleep ==
  ASSUME NetInv, Once, NEW m \in Member, N!Sleep(m)
  PROVE  Once'
  <1>1. /\ pc[m] = "publish" /\ pc' = [pc EXCEPT ![m] = "poll"]
        /\ UNCHANGED <<posts, msgs, source, trans, queue, last, netLast, batch, keys, todo, put,
                       faults, saves>>
    BY DEF N!Sleep
  <1>2. NetTypes /\ Pulled(m)
    BY DEF NetInv, Once
  <1>3. (\A c \in Member : c # m => pc'[c] = pc[c]) /\ pc'[m] = "poll"
    BY <1>1, <1>2 DEF NetTypes
  <1>4. \A r \in put : Awaited(r)'
    BY <1>1, <1>3, OnceWaits
  <1>5. ASSUME NEW c \in Member PROVE Pulled(c)'
    <2>1. CASE c # m
      BY <1>1, <1>3, <2>1, OnceOthers
    <2>2. CASE c = m
      BY <1>1, <1>2, <1>3, <2>2 DEF Pulled
    <2> QED
      BY <2>1, <2>2
  <1> QED
    BY <1>1, <1>4, <1>5, OnceWorks DEF Once

LEMMA OncePush ==
  ASSUME NetInv, Once, NEW m \in Member, N!Push(m)
  PROVE  Once'
  <1>1. PICK r : put' = put \cup {r} /\ r.by = m /\ r.msg = N!Min(todo[m])
    <2>1. PICK h : put' = put \cup
                     {[by |-> m, msg |-> N!Min(todo[m]), post |-> msgs[m][N!Min(todo[m])].post,
                       parent |-> h, id |-> 0]}
      BY DEF N!Push
    <2>2. PICK r : r = [by |-> m, msg |-> N!Min(todo[m]), post |-> msgs[m][N!Min(todo[m])].post,
                        parent |-> h, id |-> 0]
      OBVIOUS
    <2>3. put' = put \cup {r} /\ r.by = m /\ r.msg = N!Min(todo[m])
      BY <2>1, <2>2
    <2> QED
      BY <2>3
  <1>2. /\ pc[m] = "publish" /\ pc' = [pc EXCEPT ![m] = "wait"]
        /\ UNCHANGED <<posts, msgs, source, trans, queue, last, netLast, batch, keys, todo, faults,
                       saves>>
    BY DEF N!Push
  <1>3. NetTypes /\ Pulled(m)
    BY DEF NetInv, Once
  <1>4. (\A c \in Member : c # m => pc'[c] = pc[c]) /\ pc'[m] = "wait"
    BY <1>2, <1>3 DEF NetTypes
  <1>5. \A q \in put : q.by # m /\ Awaited(q)'
    BY <1>2, <1>4, OnceWaits
  <1>6. \A q \in put' : Awaited(q)'
    <2>1. Awaited(r)'
      BY <1>1, <1>2, <1>4 DEF Awaited
    <2> QED
      BY <1>1, <1>5, <2>1
  <1>7. \A p, q \in put' : p.by = q.by => p = q
    BY <1>1, <1>5 DEF Once
  <1>8. ASSUME NEW c \in Member PROVE Pulled(c)'
    <2>1. CASE c # m
      BY <1>2, <1>4, <2>1, OnceOthers
    <2>2. CASE c = m
      BY <1>2, <1>3, <1>4, <2>2 DEF Pulled
    <2> QED
      BY <2>1, <2>2
  <1> QED
    BY <1>1, <1>2, <1>6, <1>7, <1>8, OnceWorks

LEMMA OnceRecord ==
  ASSUME NetInv, Once, NEW m \in Member, N!Record(m)
  PROVE  Once'
  <1>1. PICK h : h = N!Min(batch[m])
    OBVIOUS
  <1>2. /\ pc[m] = "record" /\ pc' = [pc EXCEPT ![m] = "store"]
        /\ netLast' = [netLast EXCEPT ![m] = N!Max({@, h - 1})]
        /\ batch' = [batch EXCEPT ![m] = N!Rest(@)]
        /\ UNCHANGED <<posts, msgs, source, queue, last, keys, todo, put, faults, saves>>
    BY <1>1 DEF N!Record
  <1>3. NetTypes /\ Pulled(m)
    BY DEF NetInv, Once
  <1>4. /\ \A c \in Member : c # m =>
             pc'[c] = pc[c] /\ netLast'[c] = netLast[c] /\ batch'[c] = batch[c]
        /\ pc'[m] = "store" /\ netLast'[m] = N!Max({netLast[m], h - 1})
        /\ batch'[m] = batch[m] \ {h}
    BY <1>1, <1>2, <1>3 DEF NetTypes, N!Rest
  <1>5. \A r \in put : Awaited(r)'
    BY <1>2, <1>4, OnceWaits
  <1>6. /\ h \in batch[m] /\ h \in Nat /\ netLast[m] \in Int
        /\ \A g \in batch[m] : g \in Nat /\ h <= g
    <2>1. batch[m] # {} /\ batch[m] \subseteq Nat /\ netLast[m] \in Int
      BY <1>2, <1>3 DEF NetTypes, NetInv, WorkFaithful
    <2> QED
      BY <1>1, <2>1, NetMin
  <1>7. h > netLast[m] + 1
    BY <1>2, <1>3, <1>6 DEF Pulled
  <1>8. netLast'[m] = h - 1
    <2>1. N!Max({netLast[m], h - 1}) = IF netLast[m] >= h - 1 THEN netLast[m] ELSE h - 1
      BY <1>6, NetMaxOfTwo
    <2> QED
      BY <1>4, <1>6, <1>7, <2>1
  <1>9. ASSUME NEW c \in Member PROVE Pulled(c)'
    <2>1. CASE c # m
      BY <1>2, <1>4, <2>1, OnceOthers
    <2>2. CASE c = m
      <3>1. \A g \in batch'[m] : g > netLast'[m] + 1 /\ Author(posts, msgs[Hub], g) # m
        BY <1>2, <1>3, <1>4, <1>6, <1>8 DEF Pulled
      <3>2. ASSUME NEW i \in DOMAIN msgs[m], Author(posts, msgs[m], i) # m
            PROVE  \E g \in DOMAIN msgs[Hub] :
                     Same(msgs[m], msgs[Hub], i, g) /\ g <= netLast'[m] + 1
        <4>1. PICK g \in DOMAIN msgs[Hub] :
                Same(msgs[m], msgs[Hub], i, g) /\ (g <= netLast[m] + 1 \/ g = h)
          BY <1>1, <1>3, <3>2 DEF Pulled
        <4>2. g \in Nat
          BY <1>3, NetNumbers DEF N!Board
        <4>3. g <= netLast'[m] + 1
          BY <1>6, <1>7, <1>8, <4>1, <4>2
        <4> QED
          BY <4>1, <4>3
      <3>3. pc'[m] = "store" /\ netLast'[m] >= -1
        BY <1>4, <1>6, <1>8
      <3> QED
        BY <1>2, <2>2, <3>1, <3>2, <3>3 DEF Pulled
    <2> QED
      BY <2>1, <2>2
  <1> QED
    BY <1>2, <1>5, <1>9, OnceWorks DEF Once

\* What is posted is on no board yet.
LEMMA OnceUserPosts ==
  ASSUME N!MsgNetAssumption, NetInv, Once,
         NEW b \in N!Board, NEW par \in {N!None} \cup DOMAIN msgs[b], N!UserPosts(b, par)
  PROVE  Once'
  <1>1. PICK p \in Nat :
          /\ p \notin DOMAIN posts
          /\ posts'[p] = [by |-> b, to |-> IF par = 0 THEN 0 ELSE msgs[b][par].post]
          /\ NetSaved(b, p, par)
          /\ saves' = saves \cup {<<b, Len(msgs'[b])>>}
          /\ UNCHANGED <<source, trans, queue, last, netLast, pc, batch, keys, todo, put, faults,
                         tagged, cut>>
    BY NetPosted
  <1>2. NetTypes /\ NetGrown /\ Hub \in N!Board
    BY <1>1 DEF NetInv, NetSaved, N!Board
  <1>3. \A c \in N!Board : \A i \in DOMAIN msgs[c] :
          /\ i \in DOMAIN msgs'[c] /\ msgs'[c][i].post = msgs[c][i].post /\ msgs[c][i].post # p
          /\ Author(posts', msgs'[c], i) = Author(posts, msgs[c], i)
    BY <1>1, <1>2, NetAuthors
  <1>4. ASSUME NEW c \in N!Board, NEW i \in DOMAIN msgs'[c], i \notin DOMAIN msgs[c]
        PROVE  /\ c = b /\ i = Len(msgs'[b]) /\ msgs'[c][i].post = p
               /\ Author(posts', msgs'[c], i) = b
    <2>1. c = b /\ i = Len(msgs'[b])
      BY <1>1, <1>4 DEF NetSaved
    <2>2. msgs'[c][i].post = p
      BY <1>1, <2>1 DEF NetSaved
    <2> QED
      BY <1>1, <2>1, <2>2 DEF Author
  <1>5. \A c \in N!Board : Distinct(msgs'[c])
    BY <1>1, <1>3, OnceSaved DEF IsOn
  <1>6. ASSUME NEW m \in Member PROVE Unpublished(m)' /\ Sourced(m)' /\ Pulled(m)'
    <2>1. /\ m \in N!Board /\ m # Hub /\ queue[m] \subseteq DOMAIN msgs[m]
          /\ batch[m] \subseteq DOMAIN msgs[Hub]
          /\ Unpublished(m) /\ Sourced(m) /\ Pulled(m)
      BY DEF N!Board, N!MsgNetAssumption, NetInv, WorkFaithful, Once
    <2>a. \A i : <<m, i>> \in saves => i \in DOMAIN msgs[m]
      BY DEF NetInv, SavesFaithful
    <2>2. ASSUME NEW i, i \in queue'[m] \/ <<m, i>> \in saves'
          PROVE  /\ Author(posts', msgs'[m], i) = m
                 /\ \A h \in DOMAIN msgs'[Hub] :
                      msgs'[Hub][h].post = msgs'[m][i].post =>
                        \E r \in put' : r.by = m /\ r.id = h /\ r.msg = i
      <3>1. CASE i \in queue[m] \/ <<m, i>> \in saves
        <4>1. /\ Author(posts', msgs'[m], i) = m /\ msgs'[m][i].post = msgs[m][i].post
              /\ msgs[m][i].post # p /\ i \in DOMAIN msgs[m]
          BY <1>3, <2>1, <2>a, <3>1 DEF Unpublished
        <4>2. ASSUME NEW h \in DOMAIN msgs'[Hub], msgs'[Hub][h].post = msgs'[m][i].post
              PROVE  \E r \in put' : r.by = m /\ r.id = h /\ r.msg = i
          <5>1. h \in DOMAIN msgs[Hub]
            BY <1>2, <1>4, <4>1, <4>2
          <5>2. msgs[Hub][h].post = msgs[m][i].post
            BY <1>2, <1>3, <4>1, <4>2, <5>1
          <5> QED
            BY <1>1, <2>1, <3>1, <5>1, <5>2 DEF Unpublished
        <4> QED
          BY <4>1, <4>2
      <3>2. CASE ~(i \in queue[m] \/ <<m, i>> \in saves)
        <4>1. m = b /\ i = Len(msgs'[m]) /\ b # Hub
          BY <1>1, <2>1, <2>2, <3>2
        <4>2. i \in DOMAIN msgs'[m] /\ i \notin DOMAIN msgs[m]
          BY <1>1, <4>1 DEF NetSaved
        <4>3. Author(posts', msgs'[m], i) = m /\ msgs'[m][i].post = p
          BY <1>4, <2>1, <4>1, <4>2
        <4>4. msgs'[Hub] = msgs[Hub]
          BY <1>1, <1>2, <4>1 DEF NetSaved
        <4>5. \A h \in DOMAIN msgs'[Hub] : msgs'[Hub][h].post # p
          BY <1>2, <1>3, <4>4
        <4> QED
          BY <4>3, <4>5
      <3> QED
        BY <3>1, <3>2
    <2>3. ASSUME NEW h \in DOMAIN msgs'[Hub], Author(posts', msgs'[Hub], h) = m
          PROVE  (h \in DOMAIN source' /\ source'[h] = m) \/ \E r \in put' : r.by = m /\ r.id = h
      <3>1. h \in DOMAIN msgs[Hub]
        BY <1>2, <1>4, <2>1, <2>3
      <3>2. Author(posts, msgs[Hub], h) = m
        BY <1>2, <1>3, <2>3, <3>1
      <3> QED
        BY <1>1, <2>1, <3>1, <3>2 DEF Sourced
    <2>4. Pulled(m)'
      <3>1. \A h \in batch[m] : Author(posts', msgs'[Hub], h) = Author(posts, msgs[Hub], h)
        BY <1>2, <1>3, <2>1
      <3>2. ASSUME NEW i \in DOMAIN msgs'[m], Author(posts', msgs'[m], i) # m
            PROVE  \E h \in DOMAIN msgs'[Hub] :
                     /\ Same(msgs'[m], msgs'[Hub], i, h)
                     /\ h <= netLast[m] + 1 \/ (pc[m] = "record" /\ h = N!Min(batch[m]))
        <4>1. i \in DOMAIN msgs[m] /\ Author(posts, msgs[m], i) # m
          BY <1>3, <1>4, <2>1, <3>2
        <4>2. PICK h \in DOMAIN msgs[Hub] :
                /\ Same(msgs[m], msgs[Hub], i, h)
                /\ h <= netLast[m] + 1 \/ (pc[m] = "record" /\ h = N!Min(batch[m]))
          BY <2>1, <4>1 DEF Pulled
        <4>3. Same(msgs'[m], msgs'[Hub], i, h) /\ h \in DOMAIN msgs'[Hub]
          BY <1>2, <1>3, <4>2, NetKept
        <4> QED
          BY <4>2, <4>3
      <3> QED
        BY <1>1, <2>1, <3>1, <3>2 DEF Pulled
    <2>5. ASSUME NEW i \in queue'[m] PROVE <<m, i>> \notin saves'
      <3>1. i \in queue[m] /\ i \in DOMAIN msgs[m] /\ <<m, i>> \notin saves
        BY <1>1, <2>1 DEF Unpublished
      <3>2. m = b => i # Len(msgs'[b])
        BY <1>1, <3>1 DEF NetSaved
      <3> QED
        BY <1>1, <3>1, <3>2
    <2> QED
      BY <2>2, <2>3, <2>4, <2>5 DEF Unpublished, Sourced
  <1>7. \A r \in put' : Awaited(r)'
    BY <1>1 DEF Once, Awaited
  <1>8. \A r, q \in put' : r.by = q.by => r = q
    BY <1>1 DEF Once
  <1> QED
    BY <1>5, <1>6, <1>7, <1>8 DEF Once, N!Board

\* What is saved joins the queue.
LEMMA OnceUserSaves ==
  ASSUME NetInv, Once, NEW b \in N!Board, NEW j, N!UserSaves(b, j)
  PROVE  Once'
  <1>1. /\ <<b, j>> \in saves /\ saves' = saves \ {<<b, j>>}
        /\ b = Hub => queue' = queue
        /\ b # Hub => queue' = [queue EXCEPT ![b] = @ \cup {j}]
        /\ UNCHANGED <<posts, msgs, source, trans, last, netLast, pc, batch, keys, todo, put,
                       faults, cut>>
    BY NetUserSaves
  <1>2. NetTypes
    BY DEF NetInv
  <1>3. ASSUME NEW m \in Member PROVE Unpublished(m)' /\ Sourced(m)' /\ Pulled(m)'
    <2>1. Unpublished(m) /\ Sourced(m) /\ Pulled(m)
      BY DEF Once
    <2>2. queue'[m] = queue[m] \/ (m = b /\ queue'[m] = queue[m] \cup {j})
      BY <1>1, <1>2 DEF NetTypes
    <2>3. \A i : i \in queue'[m] \/ <<m, i>> \in saves' => i \in queue[m] \/ <<m, i>> \in saves
      BY <1>1, <2>2
    <2>4. ASSUME NEW i \in queue'[m] PROVE <<m, i>> \notin saves'
      <3>1. CASE i \in queue[m]
        BY <1>1, <2>1, <3>1 DEF Unpublished
      <3>2. CASE i \notin queue[m]
        BY <1>1, <2>2, <3>2
      <3> QED
        BY <3>1, <3>2
    <2>5. Unpublished(m)'
      BY <1>1, <2>1, <2>3, <2>4 DEF Unpublished
    <2>6. Sourced(m)'
      BY <1>1, <2>1 DEF Sourced
    <2>7. Pulled(m)'
      BY <1>1, <2>1 DEF Pulled
    <2> QED
      BY <2>5, <2>6, <2>7
  <1>4. \A c \in N!Board : Distinct(msgs'[c])
    BY <1>1 DEF Once
  <1>5. \A r \in put' : Awaited(r)'
    BY <1>1 DEF Once, Awaited
  <1>6. \A r, q \in put' : r.by = q.by => r = q
    BY <1>1 DEF Once
  <1> QED
    BY <1>3, <1>4, <1>5, <1>6 DEF Once, N!Board

\* The hub's tags say nothing of who wrote what.
LEMMA OnceHubTags ==
  ASSUME Once, NEW r \in put, N!HubTags(r)
  PROVE  Once'
  <1>1. UNCHANGED <<posts, msgs, source, queue, last, netLast, pc, batch, todo, put, saves>>
    BY DEF N!HubTags, N!memory
  <1>2. ASSUME NEW m \in Member PROVE Pulled(m)'
    BY <1>1, OnceOthers
  <1>3. \A q \in put' : Awaited(q)'
    BY <1>1 DEF Once, Awaited
  <1>4. \A p, q \in put' : p.by = q.by => p = q
    BY <1>1 DEF Once
  <1> QED
    BY <1>1, <1>2, <1>3, <1>4, OnceWorks

\* What a member asks the hub to save is not there: it would have asked for it twice.
LEMMA OnceAsked ==
  ASSUME NetInv, Once, NEW r \in put
  PROVE  /\ r.by \in Member /\ r.msg \in queue[r.by] /\ pc[r.by] = "wait"
         /\ r.msg \in DOMAIN msgs[r.by] /\ r.post = msgs[r.by][r.msg].post
         /\ Author(posts, msgs[r.by], r.msg) = r.by
         /\ r.id = 0 => ~IsOn(msgs[Hub], r.post)
  <1>1. NetTypes /\ r.by \in Member /\ RequestFaithful(r) /\ Awaited(r) /\ WorkFaithful(r.by)
    BY DEF NetInv, NetTypes, Once
  <1>2. todo[r.by] # {} /\ todo[r.by] \subseteq Nat
    BY <1>1 DEF WorkFaithful, Awaited, NetTypes
  <1>3. r.msg \in todo[r.by]
    BY <1>1, <1>2, NetMin DEF Awaited
  <1>4. r.msg \in queue[r.by] /\ Unpublished(r.by)
    BY <1>1, <1>3 DEF WorkFaithful, Once
  <1>5. ASSUME r.id = 0, NEW h \in DOMAIN msgs[Hub], msgs[Hub][h].post = r.post PROVE FALSE
    <2>a. PICK m, i : m = r.by /\ i = r.msg
      OBVIOUS
    <2>b. i \in queue[m] /\ Unpublished(m)
      BY <1>4, <2>a
    <2>c. msgs[Hub][h].post = msgs[m][i].post
      BY <1>1, <1>5, <2>a DEF RequestFaithful
    <2>d. \E q \in put : q.by = m /\ q.id = h /\ q.msg = i
      BY <2>b, <2>c DEF Unpublished
    <2>1. PICK q \in put : q.by = r.by /\ q.id = h
      BY <2>a, <2>d
    <2>2. q = r
      BY <2>1 DEF Once
    <2>3. h # 0
      BY <1>1, NetNumbers DEF N!Board
    <2> QED
      BY <1>5, <2>1, <2>2, <2>3
  <1> QED
    BY <1>1, <1>4, <1>5 DEF Awaited, RequestFaithful, Unpublished, IsOn

LEMMA OnceHubSaves ==
  ASSUME N!MsgNetAssumption, NetInv, Once, NEW r \in put, N!HubSaves(r)
  PROVE  Once'
  <1>1. PICK n : n = Len(msgs'[Hub])
    OBVIOUS
  <1>a. PICK s : s = [r EXCEPT !.id = n]
    OBVIOUS
  <1>2. /\ r.id = 0 /\ N!Save(Hub, r.post, r.parent)
        /\ put' = (put \ {r}) \cup {s}
        /\ UNCHANGED <<posts, source, trans, queue, last, netLast, pc, batch, keys, todo, faults,
                       tagged, saves, cut>>
    BY <1>1, <1>a DEF N!HubSaves, N!memory
  <1>3. /\ NetTypes /\ Hub \in N!Board
        /\ r \in [by : Member, msg : Nat, post : Nat, parent : Nat, id : Nat]
    BY DEF NetInv, NetTypes, N!Board
  <1>4. s.by = r.by /\ s.msg = r.msg /\ s.id = n
    BY <1>3, <1>a
  <1>5. NetSaved(Hub, r.post, r.parent)
    BY <1>2, <1>3, NetSavesSo
  <1>6. NetGrown /\ \A m \in Member : m \in N!Board /\ m # Hub /\ msgs'[m] = msgs[m]
    BY <1>5 DEF NetSaved, N!MsgNetAssumption, N!Board
  <1>7. /\ r.by \in Member /\ r.msg \in queue[r.by] /\ pc[r.by] = "wait"
        /\ r.msg \in DOMAIN msgs[r.by] /\ r.post = msgs[r.by][r.msg].post
        /\ Author(posts, msgs[r.by], r.msg) = r.by
        /\ ~IsOn(msgs[Hub], r.post)
    BY <1>2, OnceAsked
  <1>8. \A h \in DOMAIN msgs[Hub] : h # 0 /\ msgs'[Hub][h] = msgs[Hub][h]
    BY <1>3, <1>6, NetNumbers DEF NetGrown
  <1>9. DOMAIN msgs'[Hub] = DOMAIN msgs[Hub] \cup {n} /\ msgs'[Hub][n].post = r.post
    BY <1>1, <1>5 DEF NetSaved
  <1>10. \A c \in N!Board : Distinct(msgs'[c])
    BY <1>3, <1>5, <1>7, OnceSaved
  <1>11. \A q \in put' : Awaited(q)'
    <2>1. \A q \in put : Awaited(q)
      BY DEF Once
    <2> QED
      BY <1>2, <1>4, <2>1 DEF Awaited
  <1>12. \A p, q \in put' : p.by = q.by => p = q
    <2>1. \A p, q \in put : p.by = q.by => p = q
      BY DEF Once
    <2> QED
      BY <1>2, <1>4, <2>1
  <1>13. \A q \in put : q.id # 0 => q \in put'
    BY <1>2
  <1>14. ASSUME NEW m \in Member PROVE Unpublished(m)' /\ Sourced(m)' /\ Pulled(m)'
    <2>a. \A i : i \in queue[m] \/ <<m, i>> \in saves => i \in DOMAIN msgs[m]
      BY DEF NetInv, WorkFaithful, SavesFaithful
    <2>1. /\ queue[m] \subseteq DOMAIN msgs[m] /\ batch[m] \subseteq DOMAIN msgs[Hub]
          /\ Unpublished(m) /\ Sourced(m) /\ Pulled(m) /\ Distinct(msgs[m])
      BY <1>6 DEF NetInv, WorkFaithful, Once
    <2>2. ASSUME NEW i, i \in queue[m] \/ <<m, i>> \in saves, NEW h \in DOMAIN msgs'[Hub],
                 msgs'[Hub][h].post = msgs[m][i].post
          PROVE  \E q \in put' : q.by = m /\ q.id = h /\ q.msg = i
      <3>1. CASE h \in DOMAIN msgs[Hub]
        <4>1. PICK q \in put : q.by = m /\ q.id = h /\ q.msg = i
          BY <1>8, <2>1, <2>2, <3>1 DEF Unpublished
        <4> QED
          BY <1>8, <1>13, <3>1, <4>1
      <3>2. CASE h \notin DOMAIN msgs[Hub]
        <4>1. h = n /\ msgs[m][i].post = r.post
          BY <1>9, <2>2, <3>2
        <4>2. Author(posts, msgs[m], i) = m
          BY <2>1, <2>2 DEF Unpublished
        <4>3. m = r.by
          BY <1>7, <4>1, <4>2 DEF Author
        <4>4. i = r.msg
          BY <1>7, <2>1, <2>2, <2>a, <4>1, <4>3 DEF Distinct
        <4> QED
          BY <1>2, <1>4, <4>1, <4>3, <4>4
      <3> QED
        BY <3>1, <3>2
    <2>3. Unpublished(m)'
      BY <1>2, <1>6, <2>1, <2>2 DEF Unpublished
    <2>4. ASSUME NEW h \in DOMAIN msgs'[Hub], Author(posts, msgs'[Hub], h) = m
          PROVE  (h \in DOMAIN source /\ source[h] = m) \/ \E q \in put' : q.by = m /\ q.id = h
      <3>1. CASE h \in DOMAIN msgs[Hub]
        <4>1. Author(posts, msgs[Hub], h) = m
          BY <1>8, <2>4, <3>1 DEF Author
        <4> QED
          BY <1>8, <1>13, <2>1, <3>1, <4>1 DEF Sourced
      <3>2. CASE h \notin DOMAIN msgs[Hub]
        <4>1. h = n
          BY <1>9, <3>2
        <4>2. m = r.by
          BY <1>7, <1>9, <2>4, <4>1 DEF Author
        <4> QED
          BY <1>2, <1>4, <4>1, <4>2
      <3> QED
        BY <3>1, <3>2
    <2>5. Sourced(m)'
      BY <1>2, <2>4 DEF Sourced
    <2>6. Pulled(m)'
      <3>1. \A h \in DOMAIN msgs[Hub] : Author(posts, msgs'[Hub], h) = Author(posts, msgs[Hub], h)
        BY <1>8 DEF Author
      <3>2. \A i : \A h \in DOMAIN msgs[Hub] :
              Same(msgs[m], msgs[Hub], i, h) => Same(msgs[m], msgs'[Hub], i, h)
        BY <1>8, <1>9 DEF Same
      <3> QED
        BY <1>2, <1>6, <1>9, <2>1, <3>1, <3>2 DEF Pulled
    <2> QED
      BY <2>3, <2>5, <2>6
  <1> QED
    BY <1>10, <1>11, <1>12, <1>14 DEF Once, N!Board

LEMMA OnceHubRecords ==
  ASSUME NetInv, Once, NEW r \in put, N!HubRecords(r)
  PROVE  Once'
  <1>1. PICK m : m = r.by
    OBVIOUS
  <1>2. /\ m \in Member /\ r.msg \in queue[m] /\ pc[m] = "wait"
        /\ r.msg \in DOMAIN msgs[m] /\ r.post = msgs[m][r.msg].post
        /\ Author(posts, msgs[m], r.msg) = m
        /\ r.msg = N!Min(todo[m])
    BY <1>1, OnceAsked DEF Once, Awaited
  <1>a. r.id # 0
    <2>1. r.id \in DOMAIN msgs[Hub] /\ NetTypes /\ Hub \in N!Board
      BY DEF NetInv, SavesFaithful, N!Board, N!HubRecords
    <2> QED
      BY <2>1, NetNumbers
  <1>3. /\ r.id # 0 /\ source' = N!With(source, r.id, m) /\ put' = put \ {r}
        /\ queue' = [queue EXCEPT ![m] = @ \ {r.msg}]
        /\ todo' = [todo EXCEPT ![m] = N!Rest(@)]
        /\ pc' = [pc EXCEPT ![m] = "publish"]
        /\ UNCHANGED <<posts, msgs, last, netLast, batch, faults, saves>>
    BY <1>1, <1>2, <1>a DEF N!HubRecords, N!Answered
  <1>4. NetTypes /\ RequestFaithful(r)
    BY DEF NetInv
  <1>5. /\ \A c \in Member : c # m => queue'[c] = queue[c] /\ todo'[c] = todo[c] /\ pc'[c] = pc[c]
        /\ queue'[m] = queue[m] \ {r.msg} /\ pc'[m] = "publish"
    BY <1>2, <1>3, <1>4 DEF NetTypes
  <1>6. \A q \in put' : q \in put /\ q.by # m
    BY <1>1, <1>3 DEF Once
  <1>7. \A q \in put' : Awaited(q)'
    <2>1. \A q \in put' : q.by \in Member /\ Awaited(q)
      BY <1>4, <1>6 DEF NetTypes, Once
    <2> QED
      BY <1>5, <1>6, <2>1 DEF Awaited
  <1>8. \A p, q \in put' : p.by = q.by => p = q
    BY <1>6 DEF Once
  <1>9. /\ DOMAIN source' = DOMAIN source \cup {r.id}
        /\ \A h \in DOMAIN source' : source'[h] = IF h = r.id THEN m ELSE source[h]
    BY <1>3 DEF N!With
  <1>10. ASSUME NEW c \in Member PROVE Unpublished(c)' /\ Sourced(c)' /\ Pulled(c)'
    <2>1. Unpublished(c) /\ Sourced(c) /\ Pulled(c)
      BY DEF Once
    <2>2. Unpublished(c)'
      <3>a. \A i \in queue'[c] : <<c, i>> \notin saves'
        BY <1>3, <1>5, <2>1 DEF Unpublished
      <3> SUFFICES ASSUME NEW i, i \in queue'[c] \/ <<c, i>> \in saves
                   PROVE  /\ Author(posts, msgs[c], i) = c
                          /\ \A h \in DOMAIN msgs[Hub] :
                               msgs[Hub][h].post = msgs[c][i].post =>
                                 \E q \in put' : q.by = c /\ q.id = h /\ q.msg = i
        BY <1>3, <3>a DEF Unpublished
      <3>1. (i \in queue[c] \/ <<c, i>> \in saves) /\ (c = m => i # r.msg)
        BY <1>2, <1>5, <2>1 DEF Unpublished
      <3>2. \A q \in put : q.by = c /\ q.msg = i => q \in put'
        BY <1>1, <1>3, <3>1
      <3> QED
        BY <2>1, <3>1, <3>2 DEF Unpublished
    <2>3. Sourced(c)'
      <3> SUFFICES ASSUME NEW h \in DOMAIN msgs[Hub], Author(posts, msgs[Hub], h) = c
                   PROVE  \/ h \in DOMAIN source' /\ source'[h] = c
                          \/ \E q \in put' : q.by = c /\ q.id = h
        BY <1>3 DEF Sourced
      <3>1. CASE h = r.id
        <4>1. msgs[Hub][h].post = r.post
          BY <1>3, <1>4, <3>1 DEF RequestFaithful, Same
        <4>2. c = m
          BY <1>2, <4>1 DEF Author
        <4> QED
          BY <1>9, <3>1, <4>2
      <3>2. CASE h # r.id
        <4>1. (h \in DOMAIN source /\ source[h] = c) \/ \E q \in put : q.by = c /\ q.id = h
          BY <2>1 DEF Sourced
        <4> QED
          BY <1>3, <1>9, <3>2, <4>1
      <3> QED
        BY <3>1, <3>2
    <2>4. Pulled(c)'
      <3>1. CASE c # m
        BY <1>3, <1>5, <3>1, OnceOthers
      <3>2. CASE c = m
        BY <1>2, <1>3, <1>5, <2>1, <3>2 DEF Pulled
      <3> QED
        BY <3>1, <3>2
    <2> QED
      BY <2>2, <2>3, <2>4
  <1>11. \A b \in N!Board : Distinct(msgs'[b])
    BY <1>3 DEF Once
  <1> QED
    BY <1>7, <1>8, <1>10, <1>11 DEF Once, N!Board

\* What a member stores is neither its own nor what it has stored.
LEMMA OnceStore ==
  ASSUME N!MsgNetAssumption, NetInv, Once, NEW m \in Member, N!Store(m)
  PROVE  Once'
  <1>1. PICK h : h = N!Min(batch[m])
    OBVIOUS
  <1>2. PICK p : p = msgs[Hub][h].post
    OBVIOUS
  <1>3. /\ h \in batch[m] /\ h \in Nat /\ h \in DOMAIN msgs[Hub]
        /\ pc' = [pc EXCEPT ![m] = "record"] /\ pc[m] = "store"
        /\ UNCHANGED <<posts, source, trans, queue, last, netLast, batch, keys, todo, put, faults,
                       tagged, saves, cut>>
    BY <1>1, NetStored
  <1>4. PICK par : NetSaved(m, p, par)
    BY <1>1, <1>2, NetStored
  <1>5. NetTypes /\ NetGrown /\ m \in N!Board /\ Hub \in N!Board /\ m # Hub /\ Pulled(m)
    BY <1>4 DEF NetInv, NetSaved, N!Board, N!MsgNetAssumption, Once
  <1>6. (\A c \in Member : c # m => pc'[c] = pc[c]) /\ pc'[m] = "record" /\ netLast[m] \in Int
    BY <1>3, <1>5 DEF NetTypes
  <1>7. \A c \in N!Board : c # m => msgs'[c] = msgs[c]
    BY <1>4 DEF NetSaved
  <1>8. h > netLast[m] + 1 /\ Author(posts, msgs[Hub], h) # m
    BY <1>3, <1>5 DEF Pulled
  <1>9. ~IsOn(msgs[m], p)
    <2> SUFFICES ASSUME NEW i \in DOMAIN msgs[m], msgs[m][i].post = p PROVE FALSE
      BY DEF IsOn
    <2>1. Author(posts, msgs[m], i) # m
      BY <1>2, <1>8 DEF Author
    <2>2. PICK g \in DOMAIN msgs[Hub] : Same(msgs[m], msgs[Hub], i, g) /\ g <= netLast[m] + 1
      BY <1>3, <1>5, <2>1 DEF Pulled
    <2>3. g = h
      BY <1>2, <1>3, <1>5, <2>2 DEF Same, Once, Distinct
    <2> QED
      BY <1>3, <1>6, <1>8, <2>2, <2>3
  <1>10. \A c \in N!Board : Distinct(msgs'[c])
    BY <1>4, <1>5, <1>9, OnceSaved
  <1>11. \A r \in put' : Awaited(r)'
    BY <1>3, <1>6, OnceWaits
  <1>12. \A r, q \in put' : r.by = q.by => r = q
    BY <1>3 DEF Once
  <1>13. ASSUME NEW c \in Member PROVE Unpublished(c)' /\ Sourced(c)' /\ Pulled(c)'
    <2>1. /\ Unpublished(c) /\ Sourced(c) /\ Pulled(c) /\ queue[c] \subseteq DOMAIN msgs[c]
          /\ c \in N!Board /\ msgs'[Hub] = msgs[Hub]
      BY <1>5, <1>7 DEF Once, NetInv, WorkFaithful, N!Board
    <2>2. \A i \in DOMAIN msgs[c] : msgs'[c][i].post = msgs[c][i].post /\ i \in DOMAIN msgs'[c]
      BY <1>5, <2>1 DEF NetGrown
    <2>a. \A i : i \in queue[c] \/ <<c, i>> \in saves => i \in DOMAIN msgs[c]
      BY DEF NetInv, WorkFaithful, SavesFaithful
    <2>3. Unpublished(c)'
      <3>1. \A i \in DOMAIN msgs[c] : Author(posts, msgs'[c], i) = Author(posts, msgs[c], i)
        BY <2>1, <2>2 DEF Author
      <3> QED
        BY <1>3, <2>1, <2>2, <2>a, <3>1 DEF Unpublished
    <2>4. Sourced(c)'
      BY <1>3, <2>1 DEF Sourced
    <2>5. CASE c # m
      <3>1. Pulled(c)'
        <4>1. msgs'[c] = msgs[c] /\ pc'[c] = pc[c]
          BY <1>6, <1>7, <2>1, <2>5
        <4> QED
          BY <1>3, <2>1, <4>1 DEF Pulled
      <3> QED
        BY <2>3, <2>4, <3>1
    <2>6. CASE c = m
      <3>1. ASSUME NEW i \in DOMAIN msgs'[m], Author(posts, msgs'[m], i) # m
            PROVE  \E g \in DOMAIN msgs[Hub] :
                     Same(msgs'[m], msgs[Hub], i, g) /\ (g <= netLast[m] + 1 \/ g = h)
        <4>1. CASE i \in DOMAIN msgs[m]
          <5>1. Author(posts, msgs[m], i) # m /\ msgs'[m][i].post = msgs[m][i].post
            BY <2>2, <2>6, <3>1, <4>1 DEF Author
          <5>2. PICK g \in DOMAIN msgs[Hub] : Same(msgs[m], msgs[Hub], i, g) /\ g <= netLast[m] + 1
            BY <1>3, <1>5, <4>1, <5>1 DEF Pulled
          <5>3. Same(msgs'[m], msgs[Hub], i, g)
            BY <3>1, <5>1, <5>2 DEF Same
          <5> QED
            BY <5>2, <5>3
        <4>2. CASE i \notin DOMAIN msgs[m]
          <5>1. i = Len(msgs'[m])
            BY <1>4, <3>1, <4>2 DEF NetSaved
          <5>2. msgs'[m][i].post = p
            BY <1>4, <5>1 DEF NetSaved
          <5>3. Same(msgs'[m], msgs[Hub], i, h)
            BY <1>2, <1>3, <3>1, <5>2 DEF Same
          <5> QED
            BY <1>3, <5>3
        <4> QED
          BY <4>1, <4>2
      <3>2. \A g \in batch[m] : g > netLast[m] + 1 /\ Author(posts, msgs[Hub], g) # m
        BY <1>3, <1>5 DEF Pulled
      <3>4. netLast'[m] >= -1 /\ pc'[m] = "record" /\ batch' = batch /\ netLast' = netLast
        BY <1>3, <1>5, <1>6 DEF Pulled
      <3>5. msgs'[Hub] = msgs[Hub] /\ posts' = posts
        BY <1>3, <2>1
      <3>3. Pulled(m)'
        BY <1>1, <3>1, <3>2, <3>4, <3>5 DEF Pulled
      <3> QED
        BY <2>3, <2>4, <2>6, <3>3
    <2> QED
      BY <2>5, <2>6
  <1> QED
    BY <1>10, <1>11, <1>12, <1>13 DEF Once, N!Board

LEMMA OnceInit == N!MsgNetAssumption /\ N!Init => OnceInv
  <1> SUFFICES ASSUME N!MsgNetAssumption, N!Init PROVE Once
    BY NetInit, QueuedInit DEF OnceInv
  <1>1. put = {} /\ saves = {} /\ Hub \notin Member
    BY DEF N!Init, N!MsgNetAssumption
  <1>2. ASSUME NEW b \in N!Board PROVE Distinct(msgs[b])
    BY NetBegins DEF Distinct
  <1>3. ASSUME NEW m \in Member PROVE Unpublished(m) /\ Sourced(m) /\ Pulled(m)
    <2>1. last[m] = -1 /\ netLast[m] = -1 /\ pc[m] = "poll"
      BY DEF N!Init
    <2>2. queue[m] = {} /\ msgs[m] = << >>
      BY NetBegins
    <2>3. \A h \in DOMAIN msgs[Hub] : Author(posts, msgs[Hub], h) = Hub
      <3>1. /\ DOMAIN msgs[Hub] = 1 .. Before /\ Hub \in N!Board
            /\ \A h \in 1 .. Before : posts[h].by = Hub
        BY NetBegins DEF N!Board
      <3>a. \A b \in N!Board : \A i \in DOMAIN msgs[b] : msgs[b][i] = [post |-> i, parent |-> 0]
        BY NetBegins
      <3>2. ASSUME NEW h \in DOMAIN msgs[Hub] PROVE msgs[Hub][h].post = h
        <4>1. msgs[Hub][h] = [post |-> h, parent |-> 0]
          BY <3>1, <3>a, Zenon
        <4>2. PICK x : x = msgs[Hub][h]
          OBVIOUS
        <4>3. x.post = h
          BY <4>1, <4>2
        <4> QED
          BY <4>2, <4>3
      <3> QED
        BY <3>1, <3>2 DEF Author
    <2> QED
      BY <1>1, <2>1, <2>2, <2>3 DEF Unpublished, Sourced, Pulled
  <1> QED
    BY <1>1, <1>2, <1>3 DEF Once

LEMMA OnceNext == N!MsgNetAssumption /\ OnceInv /\ [N!Next]_N!vars => OnceInv'
  <1> SUFFICES ASSUME N!MsgNetAssumption, OnceInv, [N!Next]_N!vars PROVE OnceInv'
    OBVIOUS
  <1>1. NetInv /\ NetInv' /\ Queued' /\ faults \in Nat
    BY NetNext, QueuedNext DEF OnceInv, NetInv, NetTypes
  <1> SUFFICES ASSUME faults' = 0 PROVE Once'
    BY <1>1 DEF OnceInv
  <1>3. faults = 0
    <2>1. faults' = faults \/ faults' = faults + 1
      BY DEF N!Next, N!UserPosts, N!UserSaves, N!SaveIsCut, N!HubStep, N!HubSaves, N!HubTags,
             N!HubRecords, N!MemberStep, N!Stop, N!Pull, N!Store, N!Record, N!OpenLast,
             N!WriteLast, N!Push, N!Sleep, N!PullFails, N!PushFails, N!Crash, N!vars
    <2> QED
      BY <1>1, <2>1
  <1>4. Once
    BY <1>3 DEF OnceInv
  <1>2. ASSUME NEW m \in Member, N!PullFails(m) \/ N!PushFails(m) \/ N!Crash(m) PROVE FALSE
    <2>1. pc[m] # "stopped"
      BY <1>4 DEF Once, Pulled
    <2>2. faults' = faults + 1
      BY <1>2, <2>1 DEF N!PullFails, N!PushFails, N!Crash
    <2> QED
      BY <1>1, <2>2
  <1>5. CASE UNCHANGED N!vars
    BY <1>4, <1>5 DEF N!vars, N!memory, Once, Awaited, Unpublished, Sourced, Pulled, N!Board
  <1>6. CASE \E b \in N!Board : \E parent \in {N!None} \cup N!Readable(b) : N!UserPosts(b, parent)
    BY <1>1, <1>4, <1>6, NetReadable, OnceUserPosts
  <1>7. CASE N!HubStep
    BY <1>1, <1>4, <1>7, OnceHubSaves, OnceHubTags, OnceHubRecords DEF N!HubStep
  <1>8. CASE \E m \in Member : N!MemberStep(m)
    BY <1>1, <1>4, <1>8, OnceStop, OncePull, OnceStore, OnceRecord, OnceOpenLast, OnceWriteLast,
       OncePush, OnceSleep DEF N!MemberStep
  <1>9. CASE \E a \in saves : N!UserSaves(a[1], a[2]) \/ N!SaveIsCut(a[1], a[2])
    <2>1. PICK a \in saves : N!UserSaves(a[1], a[2]) \/ N!SaveIsCut(a[1], a[2])
      BY <1>9
    <2>2. a[1] \in N!Board
      BY <1>1 DEF NetInv, SavesFaithful
    <2>3. ~N!SaveIsCut(a[1], a[2])
      BY <1>1, <1>3 DEF N!SaveIsCut
    <2> QED
      BY <1>1, <1>4, <2>1, <2>2, <2>3, OnceUserSaves
  <1> QED
    BY <1>2, <1>5, <1>6, <1>7, <1>8, <1>9 DEF N!Next

\* As many posts as messages
LEMMA DistinctCounted ==
  ASSUME NEW ms, NEW n \in Nat, DOMAIN ms = 1 .. n, Distinct(ms)
  PROVE  Cardinality({ms[i].post : i \in DOMAIN ms}) = n
  <1> DEFINE P == {ms[i].post : i \in DOMAIN ms}
             f == [i \in 1 .. n |-> ms[i].post]
  <1>1. f \in Bijection(1 .. n, P)
    <2>1. f \in Injection(1 .. n, P)
      BY DEF Injection, IsInjective, Distinct
    <2>2. f \in Surjection(1 .. n, P)
      BY DEF Surjection
    <2> QED
      BY <2>1, <2>2 DEF Bijection
  <1>2. ExistsBijection(1 .. n, P)
    BY <1>1 DEF ExistsBijection
  <1> HIDE DEF P
  <1> QED
    BY <1>2, FS_CountingElements DEF P

LEMMA OnceSafe == OnceInv => N!QueuedOrPublished /\ N!SavedOnce
  <1> SUFFICES ASSUME OnceInv PROVE N!QueuedOrPublished /\ N!SavedOnce
    OBVIOUS
  <1>1. NetInv /\ NetTypes /\ Queued /\ (faults = 0 => Once)
    BY DEF OnceInv, NetInv
  <1>2. N!QueuedOrPublished
    <2> SUFFICES ASSUME NEW m \in Member, NEW i \in DOMAIN msgs[m],
                        msgs[m][i].post \in N!PostsOf(m)
                 PROVE  \/ i \in queue[m] \/ msgs[m][i].post \in N!On(Hub)
                        \/ <<m, i>> \in saves \cup cut
      BY DEF N!QueuedOrPublished
    <2>1. Author(posts, msgs[m], i) = m
      BY DEF N!PostsOf, Author
    <2> QED
      BY <1>1, <2>1 DEF Queued, IsOn, N!On
  <1>3. ASSUME faults = 0, NEW b \in N!Board PROVE Cardinality(N!On(b)) = Len(msgs[b])
    <2>1. Len(msgs[b]) \in Nat /\ DOMAIN msgs[b] = 1 .. Len(msgs[b]) /\ Distinct(msgs[b])
      BY <1>1, <1>3, NetNumbers DEF Once
    <2> QED
      BY <2>1, DistinctCounted DEF N!On
  <1>4. N!SavedOnce
    BY <1>3 DEF N!SavedOnce, N!Cardinality, Cardinality
  <1> QED
    BY <1>2, <1>4

\* What a member's user posts stays queued until the hub has it, whatever fails between, from
\* the moment that it is queued: what a session was killed before it could queue is left out.
\* While nothing fails, no board saves it twice, the member that it came from included: a
\* request is carried out once, what is pulled comes after what was, and the hub knows whose
\* it is (msgbase.py:140-211, msgpoll.py:255-319, msgserve.py:176-263).
THEOREM MessagesGoOnce ==
  ASSUME N!MsgNetAssumption
  PROVE  N!Spec => [](N!QueuedOrPublished /\ N!SavedOnce)
  BY OnceInit, OnceNext, OnceSafe, PTL DEF N!Spec

\* The types of the network: what is bounded stays within its bounds.
NetBounded ==
  /\ Len(posts) <= MaxPosts /\ faults <= MaxFaults
  /\ \A i \in DOMAIN posts : posts[i].to <= MaxPosts
  /\ \A i \in DOMAIN source : i \in N!Saved /\ source[i] \in Member
  /\ \A m \in Member : last[m] \in Nat \cup {-1, -2} /\ netLast[m] \in Nat \cup {-1}

\* A post that is posted is within the bound, as is what it replies to.
LEMMA NetBoundedPosts ==
  ASSUME N!MsgNetAssumption, NetInv, NetBounded,
         NEW b \in N!Board, NEW par \in {N!None} \cup DOMAIN msgs[b], N!UserPosts(b, par)
  PROVE  NetBounded'
  <1>1. PICK p \in Nat :
          /\ p \notin DOMAIN posts /\ DOMAIN posts' = DOMAIN posts \cup {p}
          /\ posts' \in Seq([by : N!Board, to : Nat])
          /\ posts'[p] = [by |-> b, to |-> IF par = 0 THEN 0 ELSE msgs[b][par].post]
          /\ NetSaved(b, p, par)
          /\ UNCHANGED <<source, trans, last, netLast, pc, batch, keys, todo, put, faults>>
    BY NetPosted
  <1> DEFINE x == [by |-> b, to |-> IF par = 0 THEN 0 ELSE msgs[b][par].post]
  <1>2. /\ Len(posts) < MaxPosts /\ posts' = Append(posts, x)
        /\ posts \in Seq([by : N!Board, to : Nat])
    BY DEF N!UserPosts, N!None, NetInv, NetTypes
  <1>3. x.to <= MaxPosts /\ x \in [by : N!Board, to : Nat]
    <2>1. CASE par = 0
      BY <2>1 DEF N!MsgNetAssumption
    <2>2. CASE par # 0
      <3>1. msgs[b][par].post \in DOMAIN posts
        BY <2>2 DEF NetInv, BoardsFaithful, N!None
      <3>2. PICK p0 : p0 = msgs[b][par].post
        OBVIOUS
      <3>3. p0 \in Nat /\ p0 <= Len(posts) /\ Len(posts) \in Nat
        BY <1>2, <3>1, <3>2
      <3>4. x = [by |-> b, to |-> p0]
        BY <2>2, <3>2
      <3> QED
        BY <1>2, <3>3, <3>4 DEF N!MsgNetAssumption
    <2> QED
      BY <2>1, <2>2
  <1> HIDE DEF x
  <1>4. /\ Len(posts') = Len(posts) + 1
        /\ \A i \in DOMAIN posts' : posts'[i] = IF i \in DOMAIN posts THEN posts[i] ELSE x
    BY <1>2, <1>3, AppendProperties
  <1>5. Len(posts') <= MaxPosts
    <2>1. Len(posts) \in Nat /\ MaxPosts \in Nat
      BY <1>2 DEF N!MsgNetAssumption
    <2> QED
      BY <1>2, <1>4, <2>1
  <1>6. \A i \in DOMAIN posts' : posts'[i].to <= MaxPosts
    BY <1>3, <1>4 DEF NetBounded
  <1> QED
    BY <1>1, <1>5, <1>6 DEF NetBounded

LEMMA NetBoundedNext ==
  N!MsgNetAssumption /\ NetInv /\ NetBounded /\ [N!Next]_N!vars => NetBounded'
  <1> SUFFICES ASSUME N!MsgNetAssumption, NetInv, NetBounded, [N!Next]_N!vars PROVE NetBounded'
    OBVIOUS
  <1>1. NetTypes /\ MaxPosts \in Nat /\ MaxFaults \in Nat
    BY DEF NetInv, N!MsgNetAssumption
  <1>2. ASSUME UNCHANGED <<posts, source, last, netLast>>, faults' <= MaxFaults PROVE NetBounded'
    BY <1>2 DEF NetBounded
  <1>3. faults < MaxFaults => faults + 1 <= MaxFaults
    BY <1>1 DEF NetTypes
  <1>4. CASE UNCHANGED N!vars
    BY <1>2, <1>4 DEF N!vars, N!memory, NetBounded
  <1>5. CASE \E b \in N!Board : \E parent \in {N!None} \cup N!Readable(b) : N!UserPosts(b, parent)
    BY <1>5, NetReadable, NetBoundedPosts
  <1>6. ASSUME NEW r \in put, N!HubSaves(r) PROVE NetBounded'
    BY <1>2, <1>6 DEF N!HubSaves, N!memory, NetBounded
  <1>7. ASSUME NEW r \in put, N!HubRecords(r) PROVE NetBounded'
    <2>1. /\ source' = N!With(source, r.id, r.by)
          /\ UNCHANGED <<posts, last, netLast, faults>>
      BY <1>7 DEF N!HubRecords, N!memory
    <2>a. r.id \in DOMAIN msgs[Hub] /\ Hub \in N!Board
      BY <1>7 DEF NetInv, SavesFaithful, N!Board, N!HubRecords
    <2>2. r.id \in N!Saved /\ r.by \in Member
      <3>1. r.id # 0
        BY <1>1, <2>a, NetNumbers
      <3> QED
        BY <1>1, <1>7, <3>1 DEF NetTypes, N!Saved
    <2>3. ASSUME NEW i \in DOMAIN source' PROVE i \in N!Saved /\ source'[i] \in Member
      BY <2>1, <2>2, <2>3 DEF N!With, NetBounded
    <2> QED
      BY <2>1, <2>3 DEF NetBounded
  <1>8. ASSUME NEW m \in Member,
               \/ N!Stop(m) \/ N!Pull(m) \/ N!Store(m) \/ N!Push(m) \/ N!Sleep(m)
               \/ N!PullFails(m) \/ N!PushFails(m)
        PROVE  NetBounded'
    <2>1. UNCHANGED <<posts, source, last, netLast>>
      BY <1>8 DEF N!Stop, N!Pull, N!Store, N!Push, N!Sleep, N!PullFails, N!PushFails
    <2>2. faults' = faults \/ (faults < MaxFaults /\ faults' = faults + 1)
      BY <1>8 DEF N!Stop, N!Pull, N!Store, N!Push, N!Sleep, N!PullFails, N!PushFails
    <2> QED
      BY <1>2, <1>3, <2>1, <2>2 DEF NetBounded
  <1>9. ASSUME NEW m \in Member, N!Record(m) PROVE NetBounded'
    <2>1. PICK h : h = N!Min(batch[m])
      OBVIOUS
    <2>2. /\ netLast' = [netLast EXCEPT ![m] = N!Max({@, h - 1})]
          /\ UNCHANGED <<posts, source, last, faults>>
      BY <1>9, <2>1 DEF N!Record
    <2>3. h \in Nat \ {0}
      <3>1. batch[m] # {} /\ batch[m] \subseteq DOMAIN msgs[Hub]
        BY <1>9 DEF NetInv, WorkFaithful, N!Record
      <3>2. DOMAIN msgs[Hub] \subseteq Nat \ {0}
        BY <1>1 DEF NetTypes, N!Board
      <3> QED
        BY <2>1, <3>1, <3>2, NetMin
    <2>4. N!Max({netLast[m], h - 1}) \in Nat \cup {-1}
      <3>1. netLast[m] \in Int /\ h - 1 \in Nat /\ netLast[m] \in Nat \cup {-1}
        BY <2>3 DEF NetBounded
      <3> QED
        BY <3>1, NetMaxOfTwo
    <2>5. \A c \in Member : netLast'[c] \in Nat \cup {-1}
      BY <1>1, <2>2, <2>4 DEF NetTypes, NetBounded
    <2> QED
      BY <2>2, <2>5 DEF NetBounded
  <1>10. ASSUME NEW m \in Member, N!WriteLast(m) PROVE NetBounded'
    <2>1. last' = [last EXCEPT ![m] = netLast[m]] /\ UNCHANGED <<posts, source, netLast, faults>>
      BY <1>10 DEF N!WriteLast
    <2> QED
      BY <1>1, <2>1 DEF NetTypes, NetBounded
  <1>a. ASSUME NEW m \in Member, N!OpenLast(m) PROVE NetBounded'
    <2>1. last' = [last EXCEPT ![m] = -2] /\ UNCHANGED <<posts, source, netLast, faults>>
      BY <1>a DEF N!OpenLast, N!Blank
    <2> QED
      BY <1>1, <2>1 DEF NetTypes, NetBounded
  <1>b. ASSUME NEW b, NEW i, N!UserSaves(b, i) \/ N!SaveIsCut(b, i) PROVE NetBounded'
    <2>1. UNCHANGED <<posts, source, last, netLast>>
      BY <1>b DEF N!UserSaves, N!SaveIsCut, N!memory
    <2>2. faults' = faults \/ (faults < MaxFaults /\ faults' = faults + 1)
      BY <1>b DEF N!UserSaves, N!SaveIsCut
    <2> QED
      BY <1>2, <1>3, <2>1, <2>2 DEF NetBounded
  <1>c. ASSUME NEW r \in put, N!HubTags(r) PROVE NetBounded'
    BY <1>2, <1>c DEF N!HubTags, N!memory, NetBounded
  <1>11. ASSUME NEW m \in Member, N!Crash(m) PROVE NetBounded'
    <2>1. /\ netLast' = [netLast EXCEPT ![m] = -1]
          /\ faults' = faults \/ (faults < MaxFaults /\ faults' = faults + 1)
          /\ UNCHANGED <<posts, source, last>>
      BY <1>11 DEF N!Crash
    <2> QED
      BY <1>1, <1>3, <2>1 DEF NetTypes, NetBounded
  <1> QED
    BY <1>4, <1>5, <1>6, <1>7, <1>8, <1>9, <1>10, <1>11, <1>a, <1>b, <1>c
       DEF N!Next, N!HubStep, N!MemberStep

LEMMA NetBoundedInit == N!MsgNetAssumption /\ N!Init => NetBounded
  <1> SUFFICES ASSUME N!MsgNetAssumption, N!Init PROVE NetBounded
    OBVIOUS
  <1>1. source = << >> /\ faults = 0
    BY DEF N!Init
  <1>2. Before <= MaxPosts /\ 0 <= MaxPosts /\ 0 <= MaxFaults
    BY DEF N!MsgNetAssumption
  <1>3. \A m \in Member : last[m] = -1 /\ netLast[m] = -1
    BY DEF N!Init
  <1>4. Len(posts) = Before /\ \A i \in DOMAIN posts : posts[i].to = 0
    BY NetBegins
  <1> QED
    BY <1>1, <1>2, <1>3, <1>4 DEF NetBounded

\* A sequence is one of whatever its elements are.
LEMMA OfElements ==
  ASSUME NEW X, NEW Y, NEW q \in Seq(X), \A i \in 1 .. Len(q) : q[i] \in Y
  PROVE  q \in Seq(Y)
  <1>1. q \in [1 .. Len(q) -> X] /\ Len(q) \in Nat
    OBVIOUS
  <1>2. q \in [1 .. Len(q) -> Y]
    BY <1>1
  <1> QED
    BY <1>1, <1>2, SeqDef

\* With the invariant of what the numbers lead to, that is the type invariant.
LEMMA NetTyped == N!MsgNetAssumption /\ NetInv /\ NetBounded => N!TypeOK
  <1> SUFFICES ASSUME N!MsgNetAssumption, NetInv, NetBounded PROVE N!TypeOK
    OBVIOUS
  <1>1. NetTypes /\ MaxPosts \in Nat /\ MaxFaults \in Nat /\ Hub \in N!Board
    BY DEF NetInv, N!MsgNetAssumption, N!Board
  <1>2. DOMAIN posts = 1 .. Len(posts) /\ Len(posts) \in Nat /\ Len(posts) <= MaxPosts
    BY <1>1 DEF NetTypes, NetBounded
  <1>3. DOMAIN posts \subseteq N!Post
    BY <1>1, <1>2 DEF N!Post
  <1>4. \A b \in N!Board : DOMAIN msgs[b] \subseteq N!Saved
    BY <1>1 DEF NetTypes, N!Saved
  <1>5. posts \in Seq([by : N!Board, to : 0 .. MaxPosts])
    <2>1. \A i \in 1 .. Len(posts) : posts[i] \in [by : N!Board, to : Nat]
      BY <1>1, ElementOfSeq DEF NetTypes
    <2>2. \A i \in 1 .. Len(posts) : posts[i].to <= MaxPosts
      BY <1>2 DEF NetBounded
    <2>3. \A i \in 1 .. Len(posts) : posts[i] \in [by : N!Board, to : 0 .. MaxPosts]
      BY <1>1, <2>1, <2>2
    <2> QED
      BY <1>1, <1>2, <2>3, OfElements DEF NetTypes
  <1>6. \A b \in N!Board : msgs[b] \in Seq(N!Message)
    <2> SUFFICES ASSUME NEW b \in N!Board PROVE msgs[b] \in Seq(N!Message)
      OBVIOUS
    <2>1. msgs[b] \in Seq([post : Nat, parent : Nat])
      BY <1>1 DEF NetTypes
    <2>2. \A i \in 1 .. Len(msgs[b]) : msgs[b][i] \in [post : Nat, parent : Nat]
      BY <2>1, ElementOfSeq
    <2>3. \A i \in 1 .. Len(msgs[b]) : msgs[b][i].post \in N!Post
      BY <1>3, <2>1 DEF NetInv, BoardsFaithful
    <2>4. \A i \in 1 .. Len(msgs[b]) : msgs[b][i] \in N!Message
      BY <2>2, <2>3 DEF N!Message
    <2> QED
      BY <2>1, <2>4, OfElements
  <1>7. \A m \in Member : \A i \in DOMAIN trans[m] : i \in N!Saved /\ trans[m][i] \in N!Saved
    BY <1>1, <1>4 DEF NetInv, TransFaithful, Same, N!Board
  <1>8. ASSUME NEW m \in Member
        PROVE  /\ queue[m] \subseteq N!Saved /\ todo[m] \subseteq N!Saved
               /\ batch[m] \subseteq N!Saved /\ keys[m] \subseteq N!Saved
    <2>1. WorkFaithful(m) /\ m \in N!Board
      BY DEF NetInv, N!Board
    <2> QED
      BY <1>1, <1>4, <1>7, <2>1 DEF WorkFaithful
  <1>9. put \subseteq N!Request
    <2> SUFFICES ASSUME NEW r \in put PROVE r \in N!Request
      OBVIOUS
    <2>1. r \in [by : Member, msg : Nat, post : Nat, parent : Nat, id : Nat]
      BY <1>1 DEF NetTypes
    <2>2. r.by \in N!Board /\ RequestFaithful(r)
      BY <2>1 DEF NetInv, N!Board
    <2>3. r.msg \in N!Saved /\ r.post \in N!Post
      BY <1>3, <1>4, <2>2 DEF RequestFaithful, NetInv, BoardsFaithful
    <2> QED
      BY <2>1, <2>3 DEF N!Request
  <1>10. faults \in 0 .. MaxFaults
    BY <1>1 DEF NetTypes, NetBounded
  <1>11. /\ queue \in [Member -> SUBSET N!Saved] /\ todo \in [Member -> SUBSET N!Saved]
         /\ batch \in [Member -> SUBSET N!Saved] /\ keys \in [Member -> SUBSET N!Saved]
    BY <1>1, <1>8 DEF NetTypes
  <1>12. /\ last \in [Member -> Nat \cup {-1, N!Blank}] /\ netLast \in [Member -> Nat \cup {-1}]
    BY <1>1 DEF NetTypes, NetBounded, N!Blank
  <1>13. \A i \in DOMAIN source : i \in N!Saved /\ source[i] \in Member
    BY DEF NetBounded
  <1> QED
    BY <1>1, <1>5, <1>6, <1>7, <1>9, <1>10, <1>11, <1>12, <1>13
       DEF N!TypeOK, NetTypes, NetInv, SavesFaithful, PollerAt

\* The numbers that a network keeps are those of messages and posts: of its queues and lists,
\* its translations, its sources and its requests (msgpoll.py, msgserve.py).
THEOREM NetworkTyped ==
  ASSUME N!MsgNetAssumption
  PROVE  N!Spec => []N!TypeOK
  <1>1. N!Init => NetInv /\ NetBounded
    BY NetInit, NetBoundedInit
  <1>2. NetInv /\ NetBounded /\ [N!Next]_N!vars => (NetInv /\ NetBounded)'
    BY NetNext, NetBoundedNext
  <1>3. NetInv /\ NetBounded => N!TypeOK
    BY NetTyped
  <1> QED
    BY <1>1, <1>2, <1>3, PTL DEF N!Spec

-----------------------------------------------------------------------------
(* Telnet.  Each end of an option follows what it was told last; the distant  *)
(* end tells every change of its own, and so what is on its way to the host   *)
(* leads to what it holds.                                                    *)

\* The options that the distant end uses, and those that it lets the host use, for which
\* each tells the other of a change
Used    == {"BINARY", "SGA", "NAWS"} \cap Spoken
Allowed == {"BINARY", "SGA", "ECHO"} \cap Spoken

Has(q, c) == \E i \in DOMAIN q : q[i] = c

\* Whoever hears the commands q holds the option o for on in the end: the last of q about
\* o that has the verb a or b has a, or there is none and it held it for on before.
Told(q, o, a, b, before) ==
  \/ \E i \in DOMAIN q : q[i] = <<a, o>> /\ \A j \in DOMAIN q : i < j => q[j] # <<b, o>>
  \/ before /\ ~Has(q, <<b, o>>)

\* What is on its way to the host leads to what the distant end holds; a request of its
\* own is not refused by what is on its way; and nothing is taken back unasked by the host.
EndIsTold ==
  \A o \in Used :
    /\ Told(toHost, o, "WILL", "WONT", remote[o] = "on") <=> mine[o] # "no"
    /\ mine[o] = "asked" => ~Has(toHost, <<"WONT", o>>) /\ ~Has(toEnd, <<"DONT", o>>)

HostIsTold ==
  \A o \in Allowed :
    /\ Told(toHost, o, "DO", "DONT", local[o] = "on") <=> yours[o] # "no"
    /\ ~Has(toEnd, <<"WONT", o>>)

\* The inductive invariant
TelnetInv ==
  /\ T!TypeOK
  /\ stage = "banner" => requested < 8
  /\ EndIsTold
  /\ HostIsTold

\* A command is in a sequence after another if it is in either.
LEMMA HasOn ==
  ASSUME NEW q \in Seq(T!Command), NEW s \in Seq(T!Command), NEW c
  PROVE  Has(q \o s, c) <=> Has(q, c) \/ Has(s, c)
  <1> DEFINE r == q \o s
  <1>1. /\ Len(r) = Len(q) + Len(s) /\ r \in Seq(T!Command)
        /\ \A i \in 1 .. Len(q) : r[i] = q[i]
        /\ \A i \in 1 .. Len(s) : r[Len(q) + i] = s[i]
        /\ Len(q) \in Nat /\ Len(s) \in Nat
    OBVIOUS
  <1>2. DOMAIN r = 1 .. Len(r) /\ DOMAIN q = 1 .. Len(q) /\ DOMAIN s = 1 .. Len(s)
    BY <1>1
  <1> HIDE DEF r
  <1>3. ASSUME NEW i \in 1 .. Len(r), r[i] = c PROVE Has(q, c) \/ Has(s, c)
    <2>1. CASE i <= Len(q)
      BY <1>1, <1>2, <1>3, <2>1 DEF Has
    <2>2. CASE i > Len(q)
      <3>1. i - Len(q) \in 1 .. Len(s) /\ i = Len(q) + (i - Len(q))
        BY <1>1, <2>2
      <3> QED
        BY <1>1, <1>2, <1>3, <3>1 DEF Has
    <2> QED
      BY <1>1, <2>1, <2>2
  <1>4. ASSUME NEW i \in 1 .. Len(q), q[i] = c PROVE Has(r, c)
    BY <1>1, <1>2, <1>4 DEF Has
  <1>5. ASSUME NEW i \in 1 .. Len(s), s[i] = c PROVE Has(r, c)
    <2>1. Len(q) + i \in 1 .. Len(r)
      BY <1>1
    <2> QED
      BY <1>1, <1>2, <1>5, <2>1 DEF Has
  <1> QED
    BY <1>2, <1>3, <1>4, <1>5 DEF Has, r

\* What is told along two sequences of commands is told along the second after the first.
LEMMA ToldOn ==
  ASSUME NEW q \in Seq(T!Command), NEW s \in Seq(T!Command), NEW o, NEW a, NEW b, a # b,
         NEW before \in BOOLEAN, NEW between \in BOOLEAN,
         between <=> Told(q, o, a, b, before)
  PROVE  Told(q \o s, o, a, b, before) <=> Told(s, o, a, b, between)
  <1> DEFINE r == q \o s
  <1>1. /\ Len(r) = Len(q) + Len(s) /\ r \in Seq(T!Command)
        /\ \A i \in 1 .. Len(q) : r[i] = q[i]
        /\ \A i \in 1 .. Len(s) : r[Len(q) + i] = s[i]
        /\ Len(q) \in Nat /\ Len(s) \in Nat
    OBVIOUS
  <1>2. DOMAIN r = 1 .. Len(r) /\ DOMAIN q = 1 .. Len(q) /\ DOMAIN s = 1 .. Len(s)
    BY <1>1
  <1>3. <<a, o>> # <<b, o>>
    OBVIOUS
  <1> HIDE DEF r
  <1>4. \A c : Has(r, c) <=> Has(q, c) \/ Has(s, c)
    BY HasOn DEF r
  <1>5. ASSUME NEW i \in DOMAIN r, r[i] = <<a, o>>,
               \A j \in DOMAIN r : i < j => r[j] # <<b, o>>
        PROVE  Told(s, o, a, b, between)
    <2>1. CASE i <= Len(q)
      <3>1. i \in DOMAIN q /\ q[i] = <<a, o>> /\ \A j \in DOMAIN q : i < j => q[j] # <<b, o>>
        BY <1>1, <1>2, <1>5, <2>1
      <3>2. ~Has(s, <<b, o>>)
        <4> SUFFICES ASSUME NEW j \in 1 .. Len(s) PROVE s[j] # <<b, o>>
          BY <1>2 DEF Has
        <4>1. Len(q) + j \in 1 .. Len(r) /\ i < Len(q) + j
          BY <1>1, <1>2, <2>1
        <4> QED
          BY <1>1, <1>2, <1>5, <4>1
      <3> QED
        BY <3>1, <3>2 DEF Told
    <2>2. CASE i > Len(q)
      <3>1. PICK k \in 1 .. Len(s) : i = Len(q) + k
        <4>1. i - Len(q) \in 1 .. Len(s) /\ i = Len(q) + (i - Len(q))
          BY <1>1, <1>2, <2>2
        <4> QED
          BY <4>1
      <3>2. \A j \in DOMAIN s : k < j => s[j] # <<b, o>>
        <4> SUFFICES ASSUME NEW j \in 1 .. Len(s), k < j PROVE s[j] # <<b, o>>
          BY <1>2
        <4>1. Len(q) + j \in 1 .. Len(r) /\ i < Len(q) + j
          BY <1>1, <3>1
        <4> QED
          BY <1>1, <1>2, <1>5, <4>1
      <3> QED
        BY <1>1, <1>2, <1>5, <3>1, <3>2 DEF Told
    <2> QED
      BY <1>1, <1>2, <2>1, <2>2
  <1>6. ASSUME before, ~Has(r, <<b, o>>) PROVE Told(s, o, a, b, between)
    BY <1>4, <1>6 DEF Told
  <1>7. ASSUME between, ~Has(s, <<b, o>>) PROVE Told(r, o, a, b, before)
    <2>1. CASE before /\ ~Has(q, <<b, o>>)
      BY <1>4, <1>7, <2>1 DEF Told
    <2>2. CASE \E i \in DOMAIN q : q[i] = <<a, o>> /\ \A j \in DOMAIN q : i < j => q[j] # <<b, o>>
      <3>1. PICK i \in DOMAIN q : q[i] = <<a, o>> /\ \A j \in DOMAIN q : i < j => q[j] # <<b, o>>
        BY <2>2
      <3>2. ASSUME NEW j \in DOMAIN r, i < j PROVE r[j] # <<b, o>>
        <4>1. CASE j <= Len(q)
          BY <1>1, <1>2, <3>1, <3>2, <4>1
        <4>2. CASE j > Len(q)
          <5>1. j - Len(q) \in 1 .. Len(s) /\ j = Len(q) + (j - Len(q))
            BY <1>1, <1>2, <4>2
          <5> QED
            BY <1>1, <1>2, <1>7, <5>1 DEF Has
        <4> QED
          BY <1>1, <1>2, <4>1, <4>2
      <3>3. i \in DOMAIN r /\ r[i] = <<a, o>>
        BY <1>1, <1>2, <3>1
      <3> QED
        BY <3>2, <3>3 DEF Told
    <2> QED
      BY <1>7, <2>1, <2>2 DEF Told
  <1>8. ASSUME NEW k \in DOMAIN s, s[k] = <<a, o>>,
               \A j \in DOMAIN s : k < j => s[j] # <<b, o>>
        PROVE  Told(r, o, a, b, before)
    <2>1. Len(q) + k \in DOMAIN r /\ r[Len(q) + k] = <<a, o>>
      BY <1>1, <1>2, <1>8
    <2>2. ASSUME NEW j \in DOMAIN r, Len(q) + k < j PROVE r[j] # <<b, o>>
      <3>1. j - Len(q) \in 1 .. Len(s) /\ j = Len(q) + (j - Len(q)) /\ k < j - Len(q)
        BY <1>1, <1>2, <2>2
      <3> QED
        BY <1>1, <1>2, <1>8, <3>1
    <2> QED
      BY <2>1, <2>2 DEF Told
  <1> QED
    BY <1>5, <1>6, <1>7, <1>8 DEF Told, r

\* What is told by no command, by one and by two.
LEMMA ToldNothing ==
  ASSUME NEW o, NEW a, NEW b, NEW before \in BOOLEAN
  PROVE  Told(<< >>, o, a, b, before) <=> before
  BY DEF Told, Has

LEMMA ToldOne ==
  ASSUME NEW o, NEW a, NEW b, a # b, NEW before \in BOOLEAN, NEW c
  PROVE  Told(<<c>>, o, a, b, before) <=> c = <<a, o>> \/ (c # <<b, o>> /\ before)
  <1> DEFINE s == <<c>>
  <1>1. DOMAIN s = {1} /\ s[1] = c /\ <<a, o>> # <<b, o>>
    OBVIOUS
  <1> HIDE DEF s
  <1>2. Told(s, o, a, b, before) <=> c = <<a, o>> \/ (c # <<b, o>> /\ before)
    BY <1>1 DEF Told, Has
  <1> QED
    BY <1>2 DEF s

LEMMA HasBriefly ==
  ASSUME NEW c
  PROVE  /\ ~Has(<< >>, c)
         /\ \A d : Has(<<d>>, c) <=> d = c
         /\ \A d, e : Has(<<d, e>>, c) <=> d = c \/ e = c
  <1>1. ASSUME NEW d PROVE Has(<<d>>, c) <=> d = c
    <2>1. DOMAIN <<d>> = {1} /\ <<d>>[1] = d
      OBVIOUS
    <2> DEFINE s == <<d>>
    <2> HIDE DEF s
    <2> QED
      BY <2>1 DEF Has, s
  <1>2. ASSUME NEW d, NEW e PROVE Has(<<d, e>>, c) <=> d = c \/ e = c
    <2> DEFINE s == <<d, e>>
    <2>1. DOMAIN s = {1, 2} /\ s[1] = d /\ s[2] = e
      OBVIOUS
    <2> HIDE DEF s
    <2>2. Has(s, c) <=> d = c \/ e = c
      BY <2>1 DEF Has
    <2> QED
      BY <2>2 DEF s
  <1> QED
    BY <1>1, <1>2 DEF Has

\* What is told when the first command was heard.
LEMMA ToldNext ==
  ASSUME NEW q \in Seq(T!Command), q # << >>, NEW o, NEW a, NEW b, a # b,
         NEW before \in BOOLEAN, NEW after \in BOOLEAN,
         after <=> Head(q) = <<a, o>> \/ (Head(q) # <<b, o>> /\ before)
  PROVE  Told(q, o, a, b, before) <=> Told(Tail(q), o, a, b, after)
  <1>1. /\ Head(q) \in T!Command /\ <<Head(q)>> \in Seq(T!Command)
        /\ Tail(q) \in Seq(T!Command) /\ q = <<Head(q)>> \o Tail(q)
    OBVIOUS
  <1>2. after <=> Told(<<Head(q)>>, o, a, b, before)
    <2> DEFINE c == Head(q)
    <2> HIDE DEF c
    <2>1. Told(<<c>>, o, a, b, before) <=> c = <<a, o>> \/ (c # <<b, o>> /\ before)
      BY ToldOne
    <2> QED
      BY <2>1 DEF c
  <1>3. Told(<<Head(q)>> \o Tail(q), o, a, b, before) <=> Told(Tail(q), o, a, b, after)
    <2> DEFINE h == <<Head(q)>>
               t == Tail(q)
    <2>1. h \in Seq(T!Command) /\ t \in Seq(T!Command) /\ (after <=> Told(h, o, a, b, before))
      BY <1>1, <1>2
    <2> HIDE DEF h, t
    <2>2. Told(h \o t, o, a, b, before) <=> Told(t, o, a, b, after)
      BY <2>1, ToldOn
    <2> QED
      BY <2>2 DEF h, t
  <1> QED
    BY <1>1, <1>3

LEMMA HasNext ==
  ASSUME NEW q \in Seq(T!Command), q # << >>, NEW c
  PROVE  Has(q, c) <=> c = Head(q) \/ Has(Tail(q), c)
  <1>1. /\ Head(q) \in T!Command /\ <<Head(q)>> \in Seq(T!Command)
        /\ Tail(q) \in Seq(T!Command) /\ q = <<Head(q)>> \o Tail(q)
    OBVIOUS
  <1>2. Has(<<Head(q)>> \o Tail(q), c) <=> Has(<<Head(q)>>, c) \/ Has(Tail(q), c)
    BY <1>1, HasOn
  <1> QED
    BY <1>1, <1>2, HasBriefly

\* At most two commands, of the set cs
Brief(s, cs) ==
  s = << >> \/ (\E c \in cs : s = <<c>>) \/ (\E c, d \in cs : s = <<c, d>>)

LEMMA BriefIs ==
  ASSUME NEW cs \in SUBSET T!Command, NEW s, Brief(s, cs)
  PROVE  s \in Seq(T!Command) /\ \A c : Has(s, c) => c \in cs
  <1>1. CASE s = << >>
    BY <1>1, HasBriefly
  <1>2. CASE \E c \in cs : s = <<c>>
    <2>1. PICK c \in cs : s = <<c>>
      BY <1>2
    <2>2. s \in Seq(T!Command)
      BY <2>1
    <2>3. \A e : Has(<<c>>, e) <=> c = e
      BY HasBriefly
    <2> QED
      BY <2>1, <2>2, <2>3
  <1>3. CASE \E c, d \in cs : s = <<c, d>>
    <2>1. PICK c \in cs, d \in cs : s = <<c, d>>
      BY <1>3
    <2>2. s \in Seq(T!Command)
      BY <2>1
    <2>3. \A e : Has(<<c, d>>, e) <=> c = e \/ d = e
      BY HasBriefly
    <2> QED
      BY <2>1, <2>2, <2>3
  <1> QED
    BY <1>1, <1>2, <1>3 DEF Brief

\* The commands of these verbs about the option p
About(vs, p) == {<<v, p>> : v \in vs}

LEMMA AboutIs ==
  ASSUME NEW vs \in SUBSET T!Verb, NEW p \in T!Option, NEW s, Brief(s, About(vs, p))
  PROVE  /\ s \in Seq(T!Command)
         /\ \A v, o : Has(s, <<v, o>>) => v \in vs /\ o = p
  <1>1. About(vs, p) \in SUBSET T!Command
    BY DEF About, T!Command
  <1>2. \A v, o : <<v, o>> \in About(vs, p) => v \in vs /\ o = p
    BY DEF About
  <1> DEFINE cs == About(vs, p)
  <1> HIDE DEF cs
  <1>3. s \in Seq(T!Command) /\ \A c : Has(s, c) => c \in cs
    BY <1>1, BriefIs DEF cs
  <1> QED
    BY <1>2, <1>3 DEF cs

\* What the host notes when it hears the command c: l and r become k and s.
Notes(c, l, r, k, s) ==
  /\ k \in [T!Option -> {"unknown", "on", "off"}] /\ s \in [T!Option -> {"unknown", "on", "off"}]
  /\ \A o \in Used :
       s[o] = "on" <=> c = <<"WILL", o>> \/ (c # <<"WONT", o>> /\ r[o] = "on")
  /\ \A o \in Allowed :
       k[o] = "on" <=> c = <<"DO", o>> \/ (c # <<"DONT", o>> /\ l[o] = "on")

\* What it replies: it takes nothing back, and insists on nothing that was not refused.
Replies(c, out) ==
  /\ out \in Seq(T!Command)
  /\ \A o \in Allowed : ~Has(out, <<"WONT", o>>)
  /\ \A o \in Used : Has(out, <<"DONT", o>>) => c = <<"WONT", o>>

LEMMA RepliesAbout ==
  ASSUME NEW vs \in SUBSET T!Verb, NEW p \in T!Option, NEW c, NEW out,
         Brief(out, About(vs, p)),
         "WONT" \in vs => p \notin Allowed,
         "DONT" \in vs => p \notin Used \/ c = <<"WONT", p>>
  PROVE  Replies(c, out)
  <1>1. out \in Seq(T!Command) /\ \A v, o : Has(out, <<v, o>>) => v \in vs /\ o = p
    BY AboutIs
  <1>2. ASSUME NEW o \in Allowed, Has(out, <<"WONT", o>>) PROVE FALSE
    BY <1>1, <1>2
  <1>3. ASSUME NEW o \in Used, Has(out, <<"DONT", o>>) PROVE c = <<"WONT", o>>
    BY <1>1, <1>3
  <1> QED
    BY <1>1, <1>2, <1>3 DEF Replies

\* What it hears, it does at once.
LEMMA HostDoes ==
  ASSUME NEW p \in T!Option, T!TypeOK, T!HandleDo(p)
  PROVE  /\ Notes(<<"DO", p>>, local, remote, local', remote')
         /\ \E out : toEnd' = toEnd \o out /\ Replies(<<"DO", p>>, out)
  <1>1. Notes(<<"DO", p>>, local, remote, local', remote')
    BY DEF T!TypeOK, T!HandleDo, T!Note, T!GrantedDo, Notes, Used, Allowed, T!Option
  <1>2. PICK out : /\ toEnd' = toEnd \o out
                   /\ \/ p \in T!GrantedDo /\ Brief(out, About({"WILL", "DO", "SB"}, p))
                      \/ p \notin T!GrantedDo /\ Brief(out, About({"WONT"}, p))
    BY DEF T!HandleDo, T!Reply, T!DoReply, Brief, About
  <1>3. CASE p \in T!GrantedDo /\ Brief(out, About({"WILL", "DO", "SB"}, p))
    BY <1>1, <1>2, <1>3, RepliesAbout DEF T!Verb
  <1>4. CASE p \notin T!GrantedDo /\ Brief(out, About({"WONT"}, p))
    BY <1>1, <1>2, <1>4, RepliesAbout DEF T!Verb, Allowed, T!GrantedDo
  <1> QED
    BY <1>2, <1>3, <1>4

LEMMA HostDoesNot ==
  ASSUME NEW p \in T!Option, T!TypeOK, T!HandleDont(p)
  PROVE  /\ Notes(<<"DONT", p>>, local, remote, local', remote')
         /\ \E out : toEnd' = toEnd \o out /\ Replies(<<"DONT", p>>, out)
  <1>1. Notes(<<"DONT", p>>, local, remote, local', remote')
    BY DEF T!TypeOK, T!HandleDont, T!Note, Notes, Used, Allowed, T!Option
  <1>2. PICK out : toEnd' = toEnd \o out /\ Brief(out, About({}, p))
    BY DEF T!HandleDont, T!Reply, Brief, About
  <1> QED
    BY <1>1, <1>2, RepliesAbout DEF T!Verb

LEMMA HostWill ==
  ASSUME NEW p \in T!Option, T!TypeOK, T!HandleWill(p)
  PROVE  /\ Notes(<<"WILL", p>>, local, remote, local', remote')
         /\ \E out : toEnd' = toEnd \o out /\ Replies(<<"WILL", p>>, out)
  <1>1. Notes(<<"WILL", p>>, local, remote, local', remote')
    BY DEF T!TypeOK, T!HandleWill, T!UnsupportedWill, T!Note, Notes, Used, Allowed, T!Option
  <1>2. PICK out : /\ toEnd' = toEnd \o out
                   /\ \/ Brief(out, About({"DO", "SB"}, p))
                      \/ p \in T!UnsupportedWill /\ Brief(out, About({"DONT"}, p))
    BY DEF T!HandleWill, T!Reply, T!WillReply, T!UnsupportedWill, Brief, About
  <1>3. CASE Brief(out, About({"DO", "SB"}, p))
    BY <1>1, <1>2, <1>3, RepliesAbout DEF T!Verb
  <1>4. CASE p \in T!UnsupportedWill /\ Brief(out, About({"DONT"}, p))
    BY <1>1, <1>2, <1>4, RepliesAbout DEF T!Verb, Used, T!UnsupportedWill
  <1> QED
    BY <1>2, <1>3, <1>4

LEMMA HostWont ==
  ASSUME NEW p \in T!Option, T!TypeOK, T!HandleWont(p)
  PROVE  /\ Notes(<<"WONT", p>>, local, remote, local', remote')
         /\ \E out : toEnd' = toEnd \o out /\ Replies(<<"WONT", p>>, out)
  <1>1. Notes(<<"WONT", p>>, local, remote, local', remote')
    BY DEF T!TypeOK, T!HandleWont, T!Note, Notes, Used, Allowed, T!Option
  <1>2. PICK out : /\ toEnd' = toEnd \o out
                   /\ Brief(out, About({"DONT"}, p))
    BY DEF T!HandleWont, T!Reply, Brief, About
  <1> QED
    BY <1>1, <1>2, RepliesAbout DEF T!Verb

LEMMA HostDecodes ==
  ASSUME NEW p \in T!Option, T!TypeOK, T!Decode(p)
  PROVE  /\ Notes(<<"SB", p>>, local, remote, local', remote')
         /\ \E out : toEnd' = toEnd \o out /\ Replies(<<"SB", p>>, out)
  <1>1. Notes(<<"SB", p>>, local, remote, local', remote')
    BY DEF T!TypeOK, T!Decode, T!Note, Notes, Used, Allowed, T!Option
  <1>2. PICK out : /\ toEnd' = toEnd \o out
                   /\ Brief(out, About({"SB"}, p))
    BY DEF T!Decode, T!Reply, Brief, About
  <1> QED
    BY <1>1, <1>2, RepliesAbout DEF T!Verb

\* The host hears a command.
LEMMA HostReceives == TelnetInv /\ T!HostReceive => TelnetInv'
  <1> SUFFICES ASSUME TelnetInv, T!HostReceive PROVE TelnetInv'
    OBVIOUS
  <1>1. /\ toHost \in Seq(T!Command) /\ toHost # << >> /\ toHost' = Tail(toHost)
        /\ toEnd \in Seq(T!Command)
        /\ UNCHANGED <<active, stage, requested, late, coding, mine, yours, willing, whims>>
    BY DEF TelnetInv, T!TypeOK, T!HostReceive, T!Received, T!thread, T!end
  <1>2. PICK v \in T!Verb, p \in T!Option : Head(toHost) = <<v, p>>
    <2>1. Head(toHost) \in T!Command
      BY <1>1
    <2> QED
      BY <2>1 DEF T!Command
  <1>3. /\ v = "DO" => T!HandleDo(p)
        /\ v = "DONT" => T!HandleDont(p)
        /\ v = "WILL" => T!HandleWill(p)
        /\ v = "WONT" => T!HandleWont(p)
        /\ v = "SB" => T!Decode(p)
    <2>1. Head(toHost)[1] = v /\ Head(toHost)[2] = p
      BY <1>2
    <2>2. (CASE v = "DO"   -> T!HandleDo(p)
             [] v = "DONT" -> T!HandleDont(p)
             [] v = "WILL" -> T!HandleWill(p)
             [] v = "WONT" -> T!HandleWont(p)
             [] v = "SB"   -> T!Decode(p))
      BY <2>1 DEF T!HostReceive
    <2> QED
      BY <2>2
  <1>4. T!TypeOK
    BY DEF TelnetInv
  <1>5. /\ Notes(<<v, p>>, local, remote, local', remote')
        /\ \E out : toEnd' = toEnd \o out /\ Replies(<<v, p>>, out)
    BY <1>3, <1>4, HostDoes, HostDoesNot, HostWill, HostWont, HostDecodes DEF T!Verb
  <1>6. PICK out : toEnd' = toEnd \o out /\ Replies(<<v, p>>, out)
    BY <1>5
  <1>7. T!TypeOK'
    <2>1. toEnd' \in Seq(T!Command) /\ toHost' \in Seq(T!Command)
      BY <1>1, <1>6 DEF Replies
    <2>2. asked' \in BOOLEAN /\ heard' \in BOOLEAN
      BY <1>4 DEF T!HostReceive, T!TypeOK, T!Received
    <2>3. term' \in BOOLEAN /\ replied' \in BOOLEAN
      BY <1>2, <1>3, <1>4 DEF T!HostReceive, T!TypeOK, T!Decode
    <2> QED
      BY <1>1, <1>4, <1>5, <2>1, <2>2, <2>3 DEF T!TypeOK, Notes
  <1>8. EndIsTold'
    <2> SUFFICES ASSUME NEW o \in Used
                 PROVE  /\ Told(toHost', o, "WILL", "WONT", remote'[o] = "on") <=> mine'[o] # "no"
                        /\ mine'[o] = "asked" =>
                             ~Has(toHost', <<"WONT", o>>) /\ ~Has(toEnd', <<"DONT", o>>)
      BY DEF EndIsTold
    <2>1. /\ Told(toHost, o, "WILL", "WONT", remote[o] = "on") <=> mine[o] # "no"
          /\ mine[o] = "asked" =>
               ~Has(toHost, <<"WONT", o>>) /\ ~Has(toEnd, <<"DONT", o>>)
      BY DEF TelnetInv, EndIsTold
    <2>2. remote'[o] = "on" <=>
            Head(toHost) = <<"WILL", o>> \/ (Head(toHost) # <<"WONT", o>> /\ remote[o] = "on")
      BY <1>2, <1>5 DEF Notes
    <2>3. Told(toHost, o, "WILL", "WONT", remote[o] = "on")
            <=> Told(Tail(toHost), o, "WILL", "WONT", remote'[o] = "on")
      BY <1>1, <2>2, ToldNext
    <2>4. mine[o] = "asked" => Head(toHost) # <<"WONT", o>> /\ ~Has(Tail(toHost), <<"WONT", o>>)
      BY <1>1, <2>1, HasNext
    <2>5. mine[o] = "asked" => ~Has(out, <<"DONT", o>>)
      BY <1>2, <1>6, <2>4 DEF Replies
    <2>6. mine[o] = "asked" => ~Has(toEnd \o out, <<"DONT", o>>)
      BY <1>1, <1>6, <2>1, <2>5, HasOn DEF Replies
    <2> QED
      BY <1>1, <1>6, <2>1, <2>3, <2>4, <2>6
  <1>9. HostIsTold'
    <2> SUFFICES ASSUME NEW o \in Allowed
                 PROVE  /\ Told(toHost', o, "DO", "DONT", local'[o] = "on") <=> yours'[o] # "no"
                        /\ ~Has(toEnd', <<"WONT", o>>)
      BY DEF HostIsTold
    <2>1. /\ Told(toHost, o, "DO", "DONT", local[o] = "on") <=> yours[o] # "no"
          /\ ~Has(toEnd, <<"WONT", o>>)
      BY DEF TelnetInv, HostIsTold
    <2>2. local'[o] = "on" <=>
            Head(toHost) = <<"DO", o>> \/ (Head(toHost) # <<"DONT", o>> /\ local[o] = "on")
      BY <1>2, <1>5 DEF Notes
    <2>3. Told(toHost, o, "DO", "DONT", local[o] = "on")
            <=> Told(Tail(toHost), o, "DO", "DONT", local'[o] = "on")
      BY <1>1, <2>2, ToldNext
    <2>4. ~Has(toEnd \o out, <<"WONT", o>>)
      BY <1>1, <1>6, <2>1, HasOn DEF Replies
    <2> QED
      BY <1>1, <1>6, <2>1, <2>3, <2>4
  <1> QED
    BY <1>1, <1>7, <1>8, <1>9 DEF TelnetInv

\* Or it refuses to have its echo done.
LEMMA HostRefuses == TelnetInv /\ T!RefuseEcho => TelnetInv'
  <1> SUFFICES ASSUME TelnetInv, T!RefuseEcho PROVE TelnetInv'
    OBVIOUS
  <1>1. /\ toHost \in Seq(T!Command) /\ toHost # << >> /\ toHost' = Tail(toHost)
        /\ Head(toHost) = <<"WILL", "ECHO">>
        /\ UNCHANGED <<local, remote, stage, requested, mine, yours, toEnd>>
    BY DEF TelnetInv, T!TypeOK, T!RefuseEcho, T!Received, T!thread, T!end
  <1>2. T!TypeOK'
    <2>1. toHost' \in Seq(T!Command)
      BY <1>1
    <2> QED
      BY <2>1 DEF TelnetInv, T!TypeOK, T!RefuseEcho, T!Received, T!thread, T!end
  <1>3. EndIsTold'
    <2> SUFFICES ASSUME NEW o \in Used
                 PROVE  /\ Told(toHost', o, "WILL", "WONT", remote[o] = "on") <=> mine[o] # "no"
                        /\ mine[o] = "asked" =>
                             ~Has(toHost', <<"WONT", o>>) /\ ~Has(toEnd, <<"DONT", o>>)
      BY <1>1 DEF EndIsTold
    <2>1. /\ Told(toHost, o, "WILL", "WONT", remote[o] = "on") <=> mine[o] # "no"
          /\ mine[o] = "asked" =>
               ~Has(toHost, <<"WONT", o>>) /\ ~Has(toEnd, <<"DONT", o>>)
      BY DEF TelnetInv, EndIsTold
    <2>2. Head(toHost) # <<"WILL", o>> /\ Head(toHost) # <<"WONT", o>>
      BY <1>1 DEF Used
    <2>3. Told(toHost, o, "WILL", "WONT", remote[o] = "on")
            <=> Told(Tail(toHost), o, "WILL", "WONT", remote[o] = "on")
      BY <1>1, <2>2, ToldNext
    <2> QED
      BY <1>1, <2>1, <2>3, HasNext
  <1>4. HostIsTold'
    <2> SUFFICES ASSUME NEW o \in Allowed
                 PROVE  Told(toHost', o, "DO", "DONT", local[o] = "on") <=> yours[o] # "no"
      BY <1>1 DEF HostIsTold, TelnetInv
    <2>1. Told(toHost, o, "DO", "DONT", local[o] = "on") <=> yours[o] # "no"
      BY DEF TelnetInv, HostIsTold
    <2>2. Head(toHost) # <<"DO", o>> /\ Head(toHost) # <<"DONT", o>>
      BY <1>1
    <2>3. Told(toHost, o, "DO", "DONT", local[o] = "on")
            <=> Told(Tail(toHost), o, "DO", "DONT", local[o] = "on")
      BY <1>1, <2>2, ToldNext
    <2> QED
      BY <1>1, <2>1, <2>3
  <1> QED
    BY <1>1, <1>2, <1>3, <1>4 DEF TelnetInv

\* The host asks for what it wants.
LEMMA HostAsks == TelnetInv /\ T!Banner => TelnetInv'
  <1> SUFFICES ASSUME TelnetInv, T!Banner PROVE TelnetInv'
    OBVIOUS
  <1>1. /\ toEnd \in Seq(T!Command) /\ requested \in 0 .. 7 /\ requested' = requested + 1
        /\ UNCHANGED <<local, remote, mine, yours, toHost>>
    BY DEF TelnetInv, T!TypeOK, T!Banner, T!server, T!end
  <1>2. \A i \in 1 .. 8 : \E v \in {"WILL", "DO"} : \E p \in T!Option :
          T!BannerRequests[i] = <<v, p>>
    BY DEF T!BannerRequests, T!Option
  <1>3. PICK v \in {"WILL", "DO"}, p \in T!Option : T!BannerRequests[requested + 1] = <<v, p>>
    BY <1>1, <1>2
  <1>4. PICK out : toEnd' = toEnd \o out /\ Brief(out, About({"WILL", "DO"}, p))
    <2>1. PICK out : toEnd' = toEnd \o out /\ (out = << >> \/ out = << <<v, p>> >>)
      BY <1>3 DEF T!Banner, T!Reply
    <2>2. <<v, p>> \in About({"WILL", "DO"}, p)
      BY DEF About
    <2> QED
      BY <2>1, <2>2 DEF Brief
  <1>5. out \in Seq(T!Command) /\ \A w, o : Has(out, <<w, o>>) => w \in {"WILL", "DO"}
    BY <1>4, AboutIs DEF T!Verb
  <1>6. \A o : /\ Has(toEnd', <<"DONT", o>>) => Has(toEnd, <<"DONT", o>>)
               /\ Has(toEnd', <<"WONT", o>>) => Has(toEnd, <<"WONT", o>>)
    <2> SUFFICES ASSUME NEW o
                 PROVE  /\ Has(toEnd \o out, <<"DONT", o>>) => Has(toEnd, <<"DONT", o>>)
                        /\ Has(toEnd \o out, <<"WONT", o>>) => Has(toEnd, <<"WONT", o>>)
      BY <1>4
    <2>1. ~Has(out, <<"DONT", o>>) /\ ~Has(out, <<"WONT", o>>)
      BY <1>5
    <2> QED
      BY <1>1, <1>5, <2>1, HasOn
  <1>7. T!TypeOK'
    <2>1. toEnd' \in Seq(T!Command) /\ requested' \in Nat
      BY <1>1, <1>4, <1>5
    <2> QED
      BY <2>1 DEF TelnetInv, T!TypeOK, T!Banner, T!server, T!end
  <1>8. stage' = "banner" => requested' < 8
    BY <1>1 DEF T!Banner, T!BannerRequests
  <1>9. EndIsTold' /\ HostIsTold'
    BY <1>1, <1>6 DEF TelnetInv, EndIsTold, HostIsTold
  <1> QED
    BY <1>7, <1>8, <1>9 DEF TelnetInv

\* What changes nothing of the options
LEMMA HostGoesOn ==
  TelnetInv /\ (T!Negotiated \/ T!Spawn \/ T!GiveUp \/ T!TimePasses) => TelnetInv'
  <1> SUFFICES ASSUME TelnetInv, T!Negotiated \/ T!Spawn \/ T!GiveUp \/ T!TimePasses
               PROVE  TelnetInv'
    OBVIOUS
  <1>1. UNCHANGED <<local, remote, mine, yours, toHost, toEnd, requested>>
    BY DEF T!Negotiated, T!Spawn, T!GiveUp, T!TimePasses, T!server, T!thread, T!end
  <1>2. /\ stage' # "banner"
        /\ stage' \in {"banner", "wait", "ttype", "env", "encoding", "spawned", "closed"}
    BY DEF T!Negotiated, T!Spawn, T!GiveUp, T!TimePasses, T!AfterStage
  <1>3. late' \in 0 .. 2 /\ coding' \in {"none", "utf8", "cp437"}
    <2>1. late \in 0 .. 2 /\ coding \in {"none", "utf8", "cp437"}
      BY DEF TelnetInv, T!TypeOK
    <2>2. CASE T!Spawn
      BY <2>1, <2>2 DEF T!Spawn
    <2>3. CASE T!TimePasses
      BY <2>1, <2>3 DEF T!TimePasses
    <2>4. CASE T!Negotiated \/ T!GiveUp
      BY <2>1, <2>4 DEF T!Negotiated, T!GiveUp
    <2> QED
      BY <2>2, <2>3, <2>4
  <1>4. T!TypeOK'
    BY <1>1, <1>2, <1>3 DEF TelnetInv, T!TypeOK, T!Negotiated, T!Spawn, T!GiveUp, T!TimePasses,
       T!server, T!end
  <1>5. EndIsTold' /\ HostIsTold'
    BY <1>1 DEF TelnetInv, EndIsTold, HostIsTold
  <1> QED
    BY <1>2, <1>4, <1>5 DEF TelnetInv

-----------------------------------------------------------------------------
\* Of o, the commands q say a or b, and is so; or neither, and it stays as it was.
Says(q, o, a, b, was, is) ==
  \/ Has(q, <<a, o>>) /\ ~Has(q, <<b, o>>) /\ is
  \/ ~Has(q, <<a, o>>) /\ Has(q, <<b, o>>) /\ ~is
  \/ ~Has(q, <<a, o>>) /\ ~Has(q, <<b, o>>) /\ (is <=> was)

LEMMA ToldSays ==
  ASSUME NEW q, NEW o, NEW a, NEW b, NEW was \in BOOLEAN, NEW is \in BOOLEAN,
         Says(q, o, a, b, was, is)
  PROVE  Told(q, o, a, b, was) <=> is
  BY DEF Says, Told, Has

\* What the distant end tells the host as m and y become n and z: it tells of a change, and
\* has asked for nothing that it takes back.
Tells(out, m, n, y, z) ==
  /\ out \in Seq(T!Command)
  /\ n \in [T!Option -> {"no", "asked", "yes"}] /\ z \in [T!Option -> {"no", "asked", "yes"}]
  /\ \A o \in Used :
       /\ Says(out, o, "WILL", "WONT", m[o] # "no", n[o] # "no")
       /\ n[o] = "asked" =>
            /\ m[o] = "asked" \/ (toHost = << >> /\ toEnd = << >>)
            /\ ~Has(out, <<"WONT", o>>)
  /\ \A o \in Allowed : Says(out, o, "DO", "DONT", y[o] # "no", z[o] # "no")

LEMMA EndKeepsTelling ==
  ASSUME TelnetInv, NEW out, toHost' = toHost \o out, Tells(out, mine, mine', yours, yours'),
         UNCHANGED <<local, remote>>,
         toEnd' = toEnd \/ (toEnd # << >> /\ toEnd' = Tail(toEnd))
  PROVE  EndIsTold' /\ HostIsTold'
  <1>1. toHost \in Seq(T!Command) /\ toEnd \in Seq(T!Command) /\ out \in Seq(T!Command)
    BY DEF TelnetInv, T!TypeOK, Tells
  <1>2. \A c : Has(toEnd', c) => Has(toEnd, c)
    BY <1>1, HasNext
  <1>3. EndIsTold'
    <2> SUFFICES ASSUME NEW o \in Used
                 PROVE  /\ Told(toHost \o out, o, "WILL", "WONT", remote[o] = "on")
                             <=> mine'[o] # "no"
                        /\ mine'[o] = "asked" =>
                             ~Has(toHost \o out, <<"WONT", o>>) /\ ~Has(toEnd', <<"DONT", o>>)
      BY DEF EndIsTold
    <2>1. /\ Told(toHost, o, "WILL", "WONT", remote[o] = "on") <=> mine[o] # "no"
          /\ mine[o] = "asked" =>
               ~Has(toHost, <<"WONT", o>>) /\ ~Has(toEnd, <<"DONT", o>>)
      BY DEF TelnetInv, EndIsTold
    <2>2. PICK n : n = mine'[o]
      OBVIOUS
    <2>3. /\ Says(out, o, "WILL", "WONT", mine[o] # "no", n # "no")
          /\ n = "asked" => (mine[o] = "asked" \/ (toHost = << >> /\ toEnd = << >>))
                            /\ ~Has(out, <<"WONT", o>>)
      BY <2>2 DEF Tells
    <2>4. Told(out, o, "WILL", "WONT", mine[o] # "no") <=> n # "no"
      BY <2>3, ToldSays
    <2>5. Told(toHost \o out, o, "WILL", "WONT", remote[o] = "on")
            <=> Told(out, o, "WILL", "WONT", mine[o] # "no")
      BY <1>1, <2>1, ToldOn
    <2>6. n = "asked" => ~Has(toHost, <<"WONT", o>>) /\ ~Has(toEnd, <<"DONT", o>>)
      BY <2>1, <2>3, HasBriefly
    <2>7. n = "asked" => ~Has(toHost \o out, <<"WONT", o>>)
      BY <1>1, <2>3, <2>6, HasOn
    <2> QED
      BY <1>2, <2>2, <2>4, <2>5, <2>6, <2>7
  <1>4. HostIsTold'
    <2> SUFFICES ASSUME NEW o \in Allowed
                 PROVE  /\ Told(toHost \o out, o, "DO", "DONT", local[o] = "on")
                             <=> yours'[o] # "no"
                        /\ ~Has(toEnd', <<"WONT", o>>)
      BY DEF HostIsTold
    <2>1. /\ Told(toHost, o, "DO", "DONT", local[o] = "on") <=> yours[o] # "no"
          /\ ~Has(toEnd, <<"WONT", o>>)
      BY DEF TelnetInv, HostIsTold
    <2>2. PICK n : n = yours'[o]
      OBVIOUS
    <2>3. Says(out, o, "DO", "DONT", yours[o] # "no", n # "no")
      BY <2>2 DEF Tells
    <2>4. Told(out, o, "DO", "DONT", yours[o] # "no") <=> n # "no"
      BY <2>3, ToldSays
    <2>5. Told(toHost \o out, o, "DO", "DONT", local[o] = "on")
            <=> Told(out, o, "DO", "DONT", yours[o] # "no")
      BY <1>1, <2>1, ToldOn
    <2> QED
      BY <1>2, <2>1, <2>2, <2>4, <2>5
  <1> QED
    BY <1>3, <1>4

\* One command about p, and perhaps a sub-negotiation; or just that, or nothing
Only(q, w, p) ==
  /\ w \in T!Verb
  /\ \/ w = "SB" /\ q = << >>
     \/ q = << <<w, p>> >>
     \/ q = << <<w, p>>, <<"SB", p>> >>

LEMMA HasOnly ==
  ASSUME NEW w, NEW p \in T!Option, NEW out, Only(out, w, p)
  PROVE  /\ out \in Seq(T!Command)
         /\ \A v \in T!Verb \ {"SB"} : \A o : Has(out, <<v, o>>) <=> v = w /\ o = p
  <1> DEFINE c == <<w, p>>
             d == <<"SB", p>>
  <1>1. /\ c \in T!Command /\ d \in T!Command
        /\ \A v, o : (<<v, o>> = c <=> v = w /\ o = p) /\ (<<v, o>> = d <=> v = "SB" /\ o = p)
    BY DEF T!Command, T!Verb, Only
  <1> SUFFICES /\ out \in Seq(T!Command)
               /\ \A v \in T!Verb \ {"SB"} : \A o : Has(out, <<v, o>>) <=> <<v, o>> = c
    BY <1>1
  <1>2. CASE w = "SB" /\ out = << >>
    BY <1>1, <1>2, HasBriefly
  <1>3. CASE out = <<c>>
    <2> HIDE DEF c
    <2>1. out \in Seq(T!Command)
      BY <1>1, <1>3
    <2>2. \A e : Has(<<c>>, e) <=> c = e
      BY HasBriefly
    <2> QED
      BY <1>3, <2>1, <2>2
  <1>4. CASE out = <<c, d>>
    <2>1. \A v \in T!Verb \ {"SB"} : \A o : <<v, o>> # d
      BY <1>1
    <2> HIDE DEF c, d
    <2>2. out \in Seq(T!Command)
      BY <1>1, <1>4
    <2>3. \A e : Has(<<c, d>>, e) <=> c = e \/ d = e
      BY HasBriefly
    <2> QED
      BY <1>4, <2>1, <2>2, <2>3
  <1> QED
    BY <1>2, <1>3, <1>4 DEF Only

\* ...so, of the four commands the two ends must hear of, out holds w about p at most
Tell(q, w, p) ==
  \A o : /\ Has(q, <<"WILL", o>>) <=> w = "WILL" /\ o = p
         /\ Has(q, <<"WONT", o>>) <=> w = "WONT" /\ o = p
         /\ Has(q, <<"DO", o>>) <=> w = "DO" /\ o = p
         /\ Has(q, <<"DONT", o>>) <=> w = "DONT" /\ o = p

LEMMA TellOnly ==
  ASSUME NEW w, NEW p \in T!Option, NEW out, Only(out, w, p)
  PROVE  out \in Seq(T!Command) /\ Tell(out, w, p)
  <1>1. /\ out \in Seq(T!Command)
        /\ \A v \in T!Verb \ {"SB"} : \A o : Has(out, <<v, o>>) <=> v = w /\ o = p
    BY HasOnly
  <1>2. {"WILL", "WONT", "DO", "DONT"} \subseteq T!Verb \ {"SB"}
    BY DEF T!Verb
  <1> QED
    BY <1>1, <1>2 DEF Tell

\* What the distant end tells of a request about p
LEMMA EndHearsDo ==
  ASSUME T!TypeOK, NEW p \in T!Option, T!HearDo(p)
  PROVE  \E out : toHost' = toHost \o out /\ Tells(out, mine, mine', yours, yours')
  <1>1. PICK w, out :
           /\ toHost' = toHost \o out /\ Only(out, w, p)
           /\ \/ w = "SB" /\ mine[p] # "no" /\ mine'[p] # "no"
              \/ w = "WILL" /\ mine[p] = "no" /\ mine'[p] = "yes"
              \/ w = "WONT" /\ mine[p] = "no" /\ mine'[p] = "no"
    <2>1. mine[p] \in {"no", "asked", "yes"} /\ mine'[p] \in {mine[p], "yes"}
      BY DEF T!TypeOK, T!HearDo
    <2>2. CASE mine[p] = "yes"
      BY <2>1, <2>2 DEF T!HearDo, T!Say, T!Verb, Only
    <2>3. CASE mine[p] = "asked"
      BY <2>1, <2>3 DEF T!HearDo, T!Say, T!Verb, Only, T!Consent
    <2>4. CASE mine[p] = "no" /\ mine'[p] = "yes"
      <3>1. toHost' = toHost \o (<< <<"WILL", p>> >> \o T!Consent(p))
        BY <2>4 DEF T!HearDo, T!Say
      <3>2. \/ << <<"WILL", p>> >> \o T!Consent(p) = << <<"WILL", p>> >>
            \/ << <<"WILL", p>> >> \o T!Consent(p) = << <<"WILL", p>>, <<"SB", p>> >>
        <4>1. \A c, d \in T!Command : <<c>> \o << >> = <<c>> /\ <<c>> \o <<d>> = <<c, d>>
          <5> SUFFICES ASSUME NEW c \in T!Command, NEW d \in T!Command
                       PROVE  <<c>> \o << >> = <<c>> /\ <<c>> \o <<d>> = <<c, d>>
            OBVIOUS
          <5>1. <<c>> \in Seq(T!Command) /\ <<d>> \in Seq(T!Command) /\ <<c, d>> \in Seq(T!Command)
            OBVIOUS
          <5>2. /\ Len(<<c>> \o <<d>>) = Len(<<c, d>>) /\ Len(<<c, d>>) = 2
                /\ (<<c>> \o <<d>>)[1] = <<c, d>>[1] /\ (<<c>> \o <<d>>)[2] = <<c, d>>[2]
                /\ <<c>> \o <<d>> \in Seq(T!Command)
            BY <5>1
          <5>3. <<c>> \o <<d>> = <<c, d>>
            <6> DEFINE q == <<c>> \o <<d>>
                       r == <<c, d>>
            <6>1. /\ q \in Seq(T!Command) /\ r \in Seq(T!Command) /\ Len(q) = Len(r)
                  /\ Len(q) = 2 /\ q[1] = r[1] /\ q[2] = r[2]
              BY <5>1, <5>2
            <6> HIDE DEF q, r
            <6>2. \A i \in 1 .. Len(q) : q[i] = r[i]
              BY <6>1
            <6>3. q = r
              BY <6>1, <6>2, SeqEqual
            <6> QED
              BY <6>3 DEF q, r
          <5> QED
            BY <5>1, <5>3, ConcatEmptySeq
        <4>2. <<"WILL", p>> \in T!Command /\ <<"SB", p>> \in T!Command
          BY DEF T!Command, T!Verb
        <4>3. T!Consent(p) = << >> \/ T!Consent(p) = << <<"SB", p>> >>
          BY DEF T!Consent
        <4> QED
          BY <4>1, <4>2, <4>3
      <3> QED
        BY <2>4, <3>1, <3>2 DEF T!Verb, Only
    <2>5. CASE mine[p] = "no" /\ mine'[p] = "no"
      BY <2>5 DEF T!HearDo, T!Say, T!Verb, Only
    <2> QED
      BY <2>1, <2>2, <2>3, <2>4, <2>5
  <1>2. out \in Seq(T!Command) /\ Tell(out, w, p)
    BY <1>1, TellOnly
  <1>3. /\ UNCHANGED yours /\ mine' \in [T!Option -> {"no", "asked", "yes"}]
        /\ \A o \in T!Option \ {p} : mine'[o] = mine[o]
        /\ mine'[p] = "asked" => mine[p] = "asked"
        /\ yours \in [T!Option -> {"no", "asked", "yes"}]
    BY DEF T!TypeOK, T!HearDo
  <1>4. \A o \in Used : /\ Says(out, o, "WILL", "WONT", mine[o] # "no", mine'[o] # "no")
                        /\ mine'[o] = "asked" => mine[o] = "asked" /\ ~Has(out, <<"WONT", o>>)
    BY <1>1, <1>2, <1>3 DEF Says, Used, T!Option, Tell
  <1>5. \A o \in Allowed : Says(out, o, "DO", "DONT", yours[o] # "no", yours[o] # "no")
    <2>1. \A o : ~Has(out, <<"DO", o>>) /\ ~Has(out, <<"DONT", o>>)
      BY <1>1, <1>2 DEF Tell
    <2> QED
      BY <2>1 DEF Says
  <1> QED
    BY <1>1, <1>2, <1>3, <1>4, <1>5 DEF Tells

LEMMA EndHearsWill ==
  ASSUME T!TypeOK, NEW p \in T!Option, T!HearWill(p)
  PROVE  \E out : toHost' = toHost \o out /\ Tells(out, mine, mine', yours, yours')
  <1>1. PICK w, out :
           /\ toHost' = toHost \o out /\ Only(out, w, p)
           /\ \/ w = "SB" /\ yours[p] # "no" /\ yours'[p] # "no"
              \/ w = "DO" /\ yours[p] = "no" /\ yours'[p] = "yes"
              \/ w = "DONT" /\ yours[p] = "no" /\ yours'[p] = "no"
    <2>1. yours[p] \in {"no", "asked", "yes"} /\ yours'[p] \in {yours[p], "yes"}
      BY DEF T!TypeOK, T!HearWill
    <2>2. CASE yours[p] # "no"
      BY <2>1, <2>2 DEF T!HearWill, T!Say, T!Verb, Only
    <2>3. CASE yours[p] = "no" /\ yours'[p] = "yes"
      BY <2>3 DEF T!HearWill, T!Say, T!Verb, Only
    <2>4. CASE yours[p] = "no" /\ yours'[p] = "no"
      BY <2>4 DEF T!HearWill, T!Say, T!Verb, Only
    <2> QED
      BY <2>1, <2>2, <2>3, <2>4
  <1>2. out \in Seq(T!Command) /\ Tell(out, w, p)
    BY <1>1, TellOnly
  <1>3. /\ UNCHANGED mine /\ yours' \in [T!Option -> {"no", "asked", "yes"}]
        /\ \A o \in T!Option \ {p} : yours'[o] = yours[o]
        /\ mine \in [T!Option -> {"no", "asked", "yes"}]
    BY DEF T!TypeOK, T!HearWill
  <1>4. \A o : ~Has(out, <<"WILL", o>>) /\ ~Has(out, <<"WONT", o>>)
    BY <1>1, <1>2 DEF Tell
  <1>5. \A o \in Allowed : Says(out, o, "DO", "DONT", yours[o] # "no", yours'[o] # "no")
    BY <1>1, <1>2, <1>3 DEF Says, Allowed, T!Option, Tell
  <1>6. \A o \in Used : Says(out, o, "WILL", "WONT", mine[o] # "no", mine[o] # "no")
    BY <1>4 DEF Says
  <1> QED
    BY <1>1, <1>2, <1>3, <1>4, <1>5, <1>6 DEF Tells

LEMMA EndHearsDont ==
  ASSUME T!TypeOK, NEW p \in T!Option, T!HearDont(p), p \in Used => mine[p] # "asked"
  PROVE  \E out : toHost' = toHost \o out /\ Tells(out, mine, mine', yours, yours')
  <1>1. PICK w, out :
           /\ toHost' = toHost \o out /\ Only(out, w, p)
           /\ \/ w = "SB" /\ mine[p] # "yes"
              \/ w = "WONT" /\ mine[p] = "yes"
    BY DEF T!HearDont, T!Say, T!Verb, Only
  <1>2. out \in Seq(T!Command) /\ Tell(out, w, p)
    BY <1>1, TellOnly
  <1>3. /\ UNCHANGED yours /\ mine' \in [T!Option -> {"no", "asked", "yes"}]
        /\ \A o \in T!Option \ {p} : mine'[o] = mine[o]
        /\ mine'[p] = "no"
        /\ mine[p] \in {"no", "asked", "yes"}
        /\ yours \in [T!Option -> {"no", "asked", "yes"}]
    BY DEF T!TypeOK, T!HearDont
  <1>4. \A o : ~Has(out, <<"DO", o>>) /\ ~Has(out, <<"DONT", o>>)
    BY <1>1, <1>2 DEF Tell
  <1>5. \A o \in Used : /\ Says(out, o, "WILL", "WONT", mine[o] # "no", mine'[o] # "no")
                        /\ mine'[o] = "asked" => mine[o] = "asked" /\ ~Has(out, <<"WONT", o>>)
    BY <1>1, <1>2, <1>3 DEF Says, Used, T!Option, Tell
  <1>6. \A o \in Allowed : Says(out, o, "DO", "DONT", yours[o] # "no", yours[o] # "no")
    BY <1>4 DEF Says
  <1> QED
    BY <1>1, <1>2, <1>3, <1>5, <1>6 DEF Tells

LEMMA EndHearsWont ==
  ASSUME T!TypeOK, NEW p \in T!Option, T!HearWont(p), p \notin Allowed
  PROVE  \E out : toHost' = toHost \o out /\ Tells(out, mine, mine', yours, yours')
  <1>1. PICK w, out :
           /\ toHost' = toHost \o out /\ Only(out, w, p)
           /\ w = "SB" \/ w = "DONT"
    BY DEF T!HearWont, T!Say, T!Verb, Only
  <1>2. out \in Seq(T!Command) /\ Tell(out, w, p)
    BY <1>1, TellOnly
  <1>3. /\ UNCHANGED mine /\ yours' \in [T!Option -> {"no", "asked", "yes"}]
        /\ \A o \in T!Option \ {p} : yours'[o] = yours[o]
        /\ mine \in [T!Option -> {"no", "asked", "yes"}]
    BY DEF T!TypeOK, T!HearWont
  <1>4. \A o : ~Has(out, <<"WILL", o>>) /\ ~Has(out, <<"WONT", o>>) /\ ~Has(out, <<"DO", o>>)
    BY <1>1, <1>2 DEF Tell
  <1>5. \A o \in Allowed : ~Has(out, <<"DONT", o>>) /\ yours'[o] = yours[o]
    BY <1>1, <1>2, <1>3 DEF Allowed, T!Option, Tell
  <1>6. \A o \in Allowed : Says(out, o, "DO", "DONT", yours[o] # "no", yours'[o] # "no")
    BY <1>4, <1>5 DEF Says
  <1>7. \A o \in Used : Says(out, o, "WILL", "WONT", mine[o] # "no", mine[o] # "no")
    BY <1>4 DEF Says
  <1> QED
    BY <1>1, <1>2, <1>3, <1>4, <1>6, <1>7 DEF Tells

LEMMA EndHearsNothing ==
  ASSUME T!TypeOK, NEW p \in T!Option, T!HearSb(p) \/ (T!Say(<< >>) /\ UNCHANGED <<mine, yours>>)
  PROVE  \E out : toHost' = toHost \o out /\ Tells(out, mine, mine', yours, yours')
  <1>1. PICK w, out : toHost' = toHost \o out /\ Only(out, w, p) /\ w = "SB"
    BY DEF T!HearSb, T!Say, T!Verb, Only
  <1>2. out \in Seq(T!Command) /\ Tell(out, w, p)
    BY <1>1, TellOnly
  <1>3. /\ UNCHANGED <<mine, yours>> /\ yours \in [T!Option -> {"no", "asked", "yes"}]
        /\ mine \in [T!Option -> {"no", "asked", "yes"}]
    BY DEF T!TypeOK, T!HearSb
  <1>4. \A o : /\ ~Has(out, <<"WILL", o>>) /\ ~Has(out, <<"WONT", o>>)
               /\ ~Has(out, <<"DO", o>>) /\ ~Has(out, <<"DONT", o>>)
    BY <1>1, <1>2 DEF Tell
  <1>5. /\ \A o \in Allowed : Says(out, o, "DO", "DONT", yours[o] # "no", yours[o] # "no")
        /\ \A o \in Used : Says(out, o, "WILL", "WONT", mine[o] # "no", mine[o] # "no")
    BY <1>4 DEF Says
  <1> QED
    BY <1>1, <1>2, <1>3, <1>4, <1>5 DEF Tells

\* The distant end hears a command.
LEMMA EndReceives == TelnetInv /\ T!EndReceive => TelnetInv'
  <1> SUFFICES ASSUME TelnetInv, T!EndReceive PROVE TelnetInv'
    OBVIOUS
  <1>1. /\ toHost \in Seq(T!Command) /\ toEnd \in Seq(T!Command) /\ toEnd # << >>
        /\ toEnd' = Tail(toEnd) /\ T!TypeOK
        /\ UNCHANGED <<T!server, T!thread, willing, whims>>
    BY DEF TelnetInv, T!TypeOK, T!EndReceive
  <1>2. PICK v \in T!Verb, p \in T!Option : Head(toEnd) = <<v, p>>
    <2>1. Head(toEnd) \in T!Command
      BY <1>1
    <2> QED
      BY <2>1 DEF T!Command
  <1>3. \/ T!Say(<< >>) /\ UNCHANGED <<mine, yours>>
        \/ v = "DO" /\ T!HearDo(p)
        \/ v = "DONT" /\ T!HearDont(p)
        \/ v = "WILL" /\ T!HearWill(p)
        \/ v = "WONT" /\ T!HearWont(p)
        \/ T!HearSb(p)
    <2>1. Head(toEnd)[1] = v /\ Head(toEnd)[2] = p
      BY <1>2
    <2>2. \/ p \notin Spoken /\ T!Say(<< >>) /\ UNCHANGED <<mine, yours>>
          \/ /\ p \in Spoken
             /\ \/ v = "DO" /\ T!HearDo(p)
                \/ v = "DONT" /\ T!HearDont(p)
                \/ v = "WILL" /\ T!HearWill(p)
                \/ v = "WONT" /\ T!HearWont(p)
                \/ v = "SB" /\ T!HearSb(p)
      BY <2>1 DEF T!EndReceive
    <2> QED
      BY <2>2
  <1>4. v = "DONT" /\ p \in Used => mine[p] # "asked"
    BY <1>1, <1>2, HasNext DEF TelnetInv, EndIsTold
  <1>5. v = "WONT" => p \notin Allowed
    BY <1>1, <1>2, HasNext DEF TelnetInv, HostIsTold
  <1>6. PICK out : toHost' = toHost \o out /\ Tells(out, mine, mine', yours, yours')
    BY <1>1, <1>3, <1>4, <1>5, EndHearsDo, EndHearsDont, EndHearsWill, EndHearsWont,
       EndHearsNothing
  <1>7. EndIsTold' /\ HostIsTold'
    BY <1>1, <1>6, EndKeepsTelling DEF T!server
  <1>8. T!TypeOK'
    <2>1. /\ toHost' \in Seq(T!Command) /\ toEnd' \in Seq(T!Command)
          /\ mine' \in [T!Option -> {"no", "asked", "yes"}]
          /\ yours' \in [T!Option -> {"no", "asked", "yes"}]
      BY <1>1, <1>6 DEF Tells
    <2> QED
      BY <1>1, <2>1 DEF T!TypeOK, T!server, T!thread
  <1> QED
    BY <1>1, <1>7, <1>8 DEF TelnetInv, T!thread

\* It changes its mind.
LEMMA EndRefuses ==
  ASSUME T!TypeOK, NEW p \in T!Option, T!Refuse(p)
  PROVE  \E out : toHost' = toHost \o out /\ Tells(out, mine, mine', yours, yours')
  <1>1. PICK w, s :
          /\ Only(s, w, p)
          /\ s = IF mine[p] = "no" THEN << >> ELSE << <<"WONT", p>> >>
          /\ (w = "SB" /\ mine[p] = "no") \/ (w = "WONT" /\ mine[p] # "no")
    BY DEF Only, T!Verb
  <1>2. PICK u, t :
          /\ Only(t, u, p)
          /\ t = IF yours[p] = "no" THEN << >> ELSE << <<"DONT", p>> >>
          /\ (u = "SB" /\ yours[p] = "no") \/ (u = "DONT" /\ yours[p] # "no")
    BY DEF Only, T!Verb
  <1> DEFINE out == s \o t
  <1>3. /\ s \in Seq(T!Command)
        /\ Tell(s, w, p)
    <2>1. Only(s, w, p)
      BY <1>1
    <2> QED
      BY <2>1, TellOnly
  <1>4. /\ t \in Seq(T!Command)
        /\ Tell(t, u, p)
    <2>1. Only(t, u, p)
      BY <1>2
    <2> QED
      BY <2>1, TellOnly
  <1>5. /\ out \in Seq(T!Command) /\ \A c : Has(out, c) <=> Has(s, c) \/ Has(t, c)
        /\ toHost' = toHost \o out
    <2>1. out \in Seq(T!Command)
      BY <1>3, <1>4
    <2>2. \A c : Has(out, c) <=> Has(s, c) \/ Has(t, c)
      BY <1>3, <1>4, HasOn
    <2>3. toHost' = toHost \o out
      BY <1>1, <1>2 DEF T!Refuse, T!Say
    <2> QED
      BY <2>1, <2>2, <2>3
  <1> HIDE DEF out
  <1>6. \A o : /\ Has(out, <<"WONT", o>>) <=> o = p /\ mine[p] # "no"
               /\ Has(out, <<"DONT", o>>) <=> o = p /\ yours[p] # "no"
               /\ ~Has(out, <<"WILL", o>>) /\ ~Has(out, <<"DO", o>>)
    BY <1>1, <1>2, <1>3, <1>4, <1>5 DEF Tell
  <1>7. /\ mine' \in [T!Option -> {"no", "asked", "yes"}]
        /\ yours' \in [T!Option -> {"no", "asked", "yes"}]
        /\ \A o \in T!Option : mine'[o] = IF o = p THEN "no" ELSE mine[o]
        /\ \A o \in T!Option : yours'[o] = IF o = p THEN "no" ELSE yours[o]
    BY DEF T!TypeOK, T!Refuse
  <1>8. \A o \in Used : /\ Says(out, o, "WILL", "WONT", mine[o] # "no", mine'[o] # "no")
                        /\ mine'[o] = "asked" => mine[o] = "asked" /\ ~Has(out, <<"WONT", o>>)
    BY <1>6, <1>7 DEF Says, Used, T!Option
  <1>9. \A o \in Allowed : Says(out, o, "DO", "DONT", yours[o] # "no", yours'[o] # "no")
    BY <1>6, <1>7 DEF Says, Allowed, T!Option
  <1> QED
    BY <1>5, <1>7, <1>8, <1>9 DEF Tells

LEMMA EndOffers ==
  ASSUME T!TypeOK, NEW p \in T!Option, T!Offer(p)
  PROVE  \E out : toHost' = toHost \o out /\ Tells(out, mine, mine', yours, yours')
  <1>1. PICK out : out = << <<"WILL", p>> >>
    OBVIOUS
  <1>2. Only(out, "WILL", p) /\ toHost' = toHost \o out
    BY <1>1 DEF Only, T!Verb, T!Offer, T!Say
  <1>3. out \in Seq(T!Command) /\ Tell(out, "WILL", p)
    BY <1>2, TellOnly
  <1>4. /\ mine' \in [T!Option -> {"no", "asked", "yes"}] /\ UNCHANGED yours
        /\ yours \in [T!Option -> {"no", "asked", "yes"}]
        /\ \A o \in T!Option : mine'[o] = IF o = p THEN "asked" ELSE mine[o]
        /\ toHost = << >> /\ toEnd = << >>
    BY DEF T!TypeOK, T!Offer, T!MayChange
  <1>5. \A o : ~Has(out, <<"WONT", o>>) /\ ~Has(out, <<"DO", o>>) /\ ~Has(out, <<"DONT", o>>)
    BY <1>3 DEF Tell
  <1>6. \A o \in Used : Says(out, o, "WILL", "WONT", mine[o] # "no", mine'[o] # "no")
    BY <1>3, <1>4, <1>5 DEF Says, Used, T!Option, Tell
  <1>7. \A o \in Allowed : Says(out, o, "DO", "DONT", yours[o] # "no", yours[o] # "no")
    BY <1>5 DEF Says
  <1> QED
    BY <1>2, <1>3, <1>4, <1>5, <1>6, <1>7 DEF Tells

LEMMA EndDemands ==
  ASSUME T!TypeOK, NEW p \in T!Option, T!Demand(p)
  PROVE  \E out : toHost' = toHost \o out /\ Tells(out, mine, mine', yours, yours')
  <1>1. PICK out : out = << <<"DO", p>> >>
    OBVIOUS
  <1>2. Only(out, "DO", p) /\ toHost' = toHost \o out
    BY <1>1 DEF Only, T!Verb, T!Demand, T!Say
  <1>3. out \in Seq(T!Command) /\ Tell(out, "DO", p)
    BY <1>2, TellOnly
  <1>4. /\ yours' \in [T!Option -> {"no", "asked", "yes"}] /\ UNCHANGED mine
        /\ mine \in [T!Option -> {"no", "asked", "yes"}]
        /\ \A o \in T!Option : yours'[o] = IF o = p THEN "asked" ELSE yours[o]
    BY DEF T!TypeOK, T!Demand
  <1>5. \A o : ~Has(out, <<"WONT", o>>) /\ ~Has(out, <<"WILL", o>>) /\ ~Has(out, <<"DONT", o>>)
    BY <1>3 DEF Tell
  <1>6. \A o \in Allowed : Says(out, o, "DO", "DONT", yours[o] # "no", yours'[o] # "no")
    BY <1>3, <1>4, <1>5 DEF Says, Allowed, T!Option, Tell
  <1>7. \A o \in Used : Says(out, o, "WILL", "WONT", mine[o] # "no", mine[o] # "no")
    BY <1>5 DEF Says
  <1> QED
    BY <1>2, <1>3, <1>4, <1>5, <1>6, <1>7 DEF Tells

LEMMA EndChanges == T!TelnetAssumption /\ TelnetInv /\ T!Whim => TelnetInv'
  <1> SUFFICES ASSUME T!TelnetAssumption, TelnetInv, NEW p \in Spoken,
                      T!Refuse(p) \/ T!Offer(p) \/ T!Demand(p)
               PROVE  TelnetInv'
    BY DEF T!Whim
  <1>1. /\ p \in T!Option /\ T!TypeOK /\ MaxWhims \in Nat
        /\ UNCHANGED <<T!server, T!thread, toEnd>>
        /\ whims < MaxWhims /\ whims' = whims + 1
        /\ willing' \subseteq Spoken
    BY DEF T!TelnetAssumption, TelnetInv, T!TypeOK, T!Refuse, T!Offer, T!Demand, T!MayChange
  <1>2. PICK out : toHost' = toHost \o out /\ Tells(out, mine, mine', yours, yours')
    BY <1>1, EndRefuses, EndOffers, EndDemands
  <1>3. EndIsTold' /\ HostIsTold'
    BY <1>1, <1>2, EndKeepsTelling DEF T!server
  <1>4. T!TypeOK'
    <2>1. /\ toHost' \in Seq(T!Command)
          /\ mine' \in [T!Option -> {"no", "asked", "yes"}]
          /\ yours' \in [T!Option -> {"no", "asked", "yes"}]
      BY <1>1, <1>2 DEF Tells, T!TypeOK
    <2>2. whims' \in 0 .. MaxWhims
      BY <1>1 DEF T!TypeOK
    <2> QED
      BY <1>1, <2>1, <2>2 DEF T!TypeOK, T!server, T!thread
  <1> QED
    BY <1>1, <1>3, <1>4 DEF TelnetInv, T!thread

LEMMA TelnetInit == T!TelnetAssumption /\ T!Init => TelnetInv
  <1> SUFFICES ASSUME T!TelnetAssumption, T!Init PROVE TelnetInv
    OBVIOUS
  <1>1. T!TypeOK
    <2>1. toEnd \in Seq(T!Command) /\ toHost \in Seq(T!Command)
      BY DEF T!Init
    <2>2. whims \in 0 .. MaxWhims /\ late \in 0 .. 2 /\ requested \in Nat
      BY DEF T!TelnetAssumption, T!Init
    <2> QED
      BY <2>1, <2>2 DEF T!Init, T!TypeOK
  <1>2. \A o, a, b : ~Has(toHost, a) /\ ~Has(toEnd, b) /\ ~Told(toHost, o, a, b, FALSE)
    BY HasBriefly, ToldNothing DEF T!Init
  <1>3. EndIsTold /\ HostIsTold
    <2>1. \A o \in T!Option :
            remote[o] # "on" /\ local[o] # "on" /\ mine[o] = "no" /\ yours[o] = "no"
      BY DEF T!Init
    <2>2. toHost = << >> /\ toEnd = << >>
      BY DEF T!Init
    <2>3. \A o \in T!Option : /\ ~Told(toHost, o, "WILL", "WONT", remote[o] = "on")
                              /\ ~Told(toHost, o, "DO", "DONT", local[o] = "on")
      BY <2>1, <2>2 DEF Told
    <2>4. Used \subseteq T!Option /\ Allowed \subseteq T!Option
      BY DEF Used, Allowed, T!Option
    <2>5. \A c : ~Has(toEnd, c)
      BY <2>2, HasBriefly
    <2> QED
      BY <2>1, <2>3, <2>4, <2>5 DEF EndIsTold, HostIsTold
  <1> QED
    BY <1>1, <1>3 DEF TelnetInv, T!Init

LEMMA TelnetNext == T!TelnetAssumption /\ TelnetInv /\ [T!Next]_T!vars => TelnetInv'
  <1>1. TelnetInv /\ UNCHANGED T!vars => TelnetInv'
    BY DEF T!vars, T!server, T!thread, T!end, TelnetInv, T!TypeOK, EndIsTold, HostIsTold
  <1> QED
    BY <1>1, HostReceives, HostRefuses, HostAsks, HostGoesOn, EndReceives, EndChanges
       DEF T!Next, T!Finished

\* When nothing is on its way, what leads to what the distant end holds is what the host
\* holds.
LEMMA TelnetAgrees == TelnetInv => T!Agreement
  <1> SUFFICES ASSUME TelnetInv, toHost = << >>
               PROVE  /\ \A o \in Used : remote[o] = "on" <=> mine[o] # "no"
                      /\ \A o \in Allowed : local[o] = "on" <=> yours[o] # "no"
    BY DEF T!Agreement, T!Quiet, Used, Allowed
  <1>1. \A o \in Used : Told(<< >>, o, "WILL", "WONT", remote[o] = "on") <=> mine[o] # "no"
    BY DEF TelnetInv, EndIsTold
  <1>2. \A o \in Allowed : Told(<< >>, o, "DO", "DONT", local[o] = "on") <=> yours[o] # "no"
    BY DEF TelnetInv, HostIsTold
  <1> QED
    BY <1>1, <1>2, ToldNothing

\* When everything said has been heard, both ends of a telnet connection think the same of
\* the options for which each tells the other of a change, whatever the host requests and
\* refuses and whatever the distant end takes back, offers and demands (telnet.py:278-754,
\* 846-869).
THEOREM EndsAgree ==
  ASSUME T!TelnetAssumption
  PROVE  T!Spec => [](T!TypeOK /\ T!Agreement)
  <1>1. T!Init => TelnetInv
    BY TelnetInit
  <1>2. TelnetInv /\ [T!Next]_T!vars => TelnetInv'
    BY TelnetNext
  <1>3. TelnetInv => T!TypeOK /\ T!Agreement
    BY TelnetAgrees DEF TelnetInv
  <1> QED
    BY <1>1, <1>2, <1>3, PTL DEF T!Spec

-----------------------------------------------------------------------------
(* Connect.  The strings of an rlogin client are counted where they are: on   *)
(* their way, in the buffer, and with the connect thread, which has those it  *)
(* took from the buffer until it has put a new one there.                     *)

ConnectInv ==
  /\ C!TypeOK
  /\ typed + data <= C!Strings /\ typed + inbox <= C!Strings
  /\ thread # "take" => typed + inbox + data <= C!Strings

\* A step that moves no string keeps them counted, unless it takes what the thread has.
LEMMA StringsKept ==
  ASSUME ConnectInv, C!TypeOK', UNCHANGED <<typed, inbox, data>>, thread # "take"
  PROVE  ConnectInv'
  <1>1. /\ typed' + data' <= C!Strings /\ typed' + inbox' <= C!Strings
        /\ thread' # "take" => typed' + inbox' + data' <= C!Strings
    BY DEF ConnectInv
  <1> QED
    BY <1>1 DEF ConnectInv

\* The peer and the callbacks,
LEMMA ConnectPeer ==
  ASSUME C!ConnectAssumption, ConnectInv,
         \/ \E username \in C!Account \ {"none"} : C!CheckAuth(username)
         \/ C!OpenChannel \/ C!ShellRequest \/ C!SubsystemRequest \/ C!HangUp
  PROVE  ConnectInv'
  <1>1. C!TypeOK
    BY DEF ConnectInv
  <1>2. UNCHANGED <<thread, waited, alive, inbox, typed, data, passed>>
    BY DEF C!CheckAuth, C!OpenChannel, C!ShellRequest, C!SubsystemRequest, C!HangUp, C!dataVars
  <1>3. ConnectInv /\ C!TypeOK' => ConnectInv'
    BY <1>2 DEF ConnectInv
  <1>4. CASE \E username \in C!Account \ {"none"} : C!CheckAuth(username)
    <2>1. PICK username \in C!Account \ {"none"} : C!CheckAuth(username)
      BY <1>4
    <2>2. login' \in C!Login
      <3>1. login' = [username |-> username, new |-> login.new \/ username = "new",
                      anonymous |-> login.anonymous \/ username = "anonymous"]
        BY <2>1 DEF C!CheckAuth
      <3>2. (login.new \/ username = "new") \in BOOLEAN
            /\ (login.anonymous \/ username = "anonymous") \in BOOLEAN
        OBVIOUS
      <3> QED
        BY <3>1, <3>2 DEF C!Login
    <2>3. auths' \in 0 .. MaxAuths
      <3>1. auths \in 0 .. MaxAuths /\ auths < MaxAuths /\ auths' = auths + 1 /\ MaxAuths \in Nat
        BY <1>1, <2>1 DEF C!TypeOK, C!CheckAuth, C!ConnectAssumption
      <3> QED
        BY <3>1
    <2>4. auth' \in BOOLEAN
      BY <2>1 DEF C!CheckAuth
    <2>5. UNCHANGED <<protocol, transport, channel, wanted, peer>>
      BY <2>1 DEF C!CheckAuth
    <2>6. C!TypeOK'
      BY <1>1, <1>2, <2>2, <2>3, <2>4, <2>5 DEF C!TypeOK
    <2> QED
      BY <1>3, <2>6
  <1>5. CASE C!OpenChannel \/ C!ShellRequest \/ C!SubsystemRequest \/ C!HangUp
    <2>1. UNCHANGED <<login, auth, auths>>
      BY <1>5 DEF C!OpenChannel, C!ShellRequest, C!SubsystemRequest, C!HangUp
    <2>2. /\ protocol' \in {"ssh", "sftp", "rlogin"} /\ wanted' \subseteq {"shell", "sftp"}
          /\ transport' \in {"none", "up", "closed"} /\ channel' \in {"none", "opened", "accepted"}
          /\ peer' \in BOOLEAN
      BY <1>1, <1>5
         DEF C!TypeOK, C!OpenChannel, C!ShellRequest, C!SubsystemRequest, C!HangUp
    <2>3. C!TypeOK'
      BY <1>1, <1>2, <2>1, <2>2 DEF C!TypeOK
    <2> QED
      BY <1>3, <2>3
  <1> QED
    BY <1>4, <1>5

\* the thread of an ssh client, and the steps of both,
LEMMA ConnectThread ==
  ASSUME C!ConnectAssumption, ConnectInv,
         \/ C!StartServer \/ C!Accept \/ C!NoChannel \/ C!Detected \/ C!NotDetected
         \/ C!SetOptions \/ C!CheckLogin \/ C!NoData \/ C!TooMuchData \/ C!Spawn \/ C!Wait
  PROVE  ConnectInv'
  <1>1. C!TypeOK
    BY DEF ConnectInv
  <1>2. UNCHANGED <<protocol, wanted, auth, auths, login, peer, typed, inbox, data>>
    BY DEF C!StartServer, C!Accept, C!NoChannel, C!Detected, C!NotDetected, C!SetOptions,
           C!CheckLogin, C!NoData, C!TooMuchData, C!Spawn, C!Wait, C!sshVars, C!dataVars
  <1>3. thread # "take"
    BY DEF C!StartServer, C!Accept, C!NoChannel, C!Detected, C!NotDetected, C!SetOptions,
           C!CheckLogin, C!NoData, C!TooMuchData, C!Spawn, C!Wait
  <1>4. waited' \in 0 .. MaxWait
    BY <1>1 DEF C!TypeOK, C!ConnectAssumption, C!StartServer, C!Accept, C!NoChannel, C!Detected,
           C!NotDetected, C!SetOptions, C!CheckLogin, C!NoData, C!TooMuchData, C!Spawn, C!Wait
  <1>5. /\ transport' \in {"none", "up", "closed"} /\ channel' \in {"none", "opened", "accepted"}
        /\ alive' \in BOOLEAN
        /\ thread' \in {"start", "accept", "detect", "data", "take", "login", "spawn", "ended"}
    BY <1>1 DEF C!TypeOK, C!Deactivate, C!StartServer, C!Accept, C!NoChannel, C!Detected,
           C!NotDetected, C!SetOptions, C!CheckLogin, C!NoData, C!TooMuchData, C!Spawn, C!Wait,
           C!sshVars
  <1>6. passed'.kind \in {"none", "ssh", "sftp", "rlogin"} /\ passed'.login \in C!Login
    <2>1. CASE passed' = passed
      BY <1>1, <2>1 DEF C!TypeOK
    <2>2. CASE passed' = [kind |-> protocol, login |-> login]
      BY <1>1, <2>2 DEF C!TypeOK
    <2> QED
      BY <2>1, <2>2 DEF C!StartServer, C!Accept, C!NoChannel, C!Detected, C!NotDetected,
           C!SetOptions, C!CheckLogin, C!NoData, C!TooMuchData, C!Spawn, C!Wait
  <1>7. C!TypeOK'
    BY <1>1, <1>2, <1>4, <1>5, <1>6 DEF C!TypeOK
  <1> QED
    BY <1>2, <1>3, <1>7, StringsKept

\* the strings of an rlogin client,
LEMMA ConnectStrings ==
  ASSUME ConnectInv, C!SendString \/ C!Read \/ C!Take \/ C!Parse
  PROVE  ConnectInv'
  <1>1. C!TypeOK /\ C!Strings = 4
    BY DEF ConnectInv, C!Strings
  <1>2. typed \in 0 .. 4 /\ inbox \in 0 .. 4 /\ data \in 0 .. 4
    BY <1>1 DEF C!TypeOK
  <1>3. UNCHANGED <<protocol, waited, alive, transport, channel, wanted, auth, auths, peer,
                    passed>>
    BY DEF C!SendString, C!Read, C!Take, C!Parse, C!sshVars
  <1>4. login' \in C!Login
    <2>1. CASE C!SendString \/ C!Read \/ C!Take
      BY <1>1, <2>1 DEF C!TypeOK, C!SendString, C!Read, C!Take
    <2>2. CASE C!Parse
      <3>1. PICK username \in C!Account \ {"none"} :
              login' = [username |-> username, new |-> username = "new",
                        anonymous |-> username = "anonymous"]
        BY <2>2 DEF C!Parse
      <3>2. (username = "new") \in BOOLEAN /\ (username = "anonymous") \in BOOLEAN
        OBVIOUS
      <3> QED
        BY <3>1, <3>2 DEF C!Login
    <2> QED
      BY <2>1, <2>2
  <1>5. /\ thread' \in {"start", "accept", "detect", "data", "take", "login", "spawn", "ended"}
        /\ typed' \in 0 .. 4 /\ inbox' \in 0 .. 4 /\ data' \in 0 .. 4
        /\ typed' + data' <= 4 /\ typed' + inbox' <= 4
        /\ thread' # "take" => typed' + inbox' + data' <= 4
    <2>1. CASE C!SendString
      BY <1>1, <1>2, <2>1 DEF C!TypeOK, ConnectInv, C!SendString
    <2>2. CASE C!Read
      BY <1>1, <1>2, <2>2 DEF ConnectInv, C!Read
    <2>3. CASE C!Take
      BY <1>1, <1>2, <2>3 DEF ConnectInv, C!Take
    <2>4. CASE C!Parse
      BY <1>1, <1>2, <2>4 DEF ConnectInv, C!Parse, C!dataVars
    <2> QED
      BY <2>1, <2>2, <2>3, <2>4
  <1>6. C!TypeOK'
    BY <1>1, <1>3, <1>4, <1>5 DEF C!TypeOK
  <1> QED
    BY <1>1, <1>5, <1>6 DEF ConnectInv

\* and the loop.
LEMMA ConnectLoop ==
  ASSUME ConnectInv, C!LoopReceive \/ C!LoopShutDown
  PROVE  ConnectInv'
  <1>1. C!TypeOK /\ C!Strings = 4
    BY DEF ConnectInv, C!Strings
  <1>2. typed \in 0 .. 4 /\ inbox \in 0 .. 4 /\ data \in 0 .. 4
    BY <1>1 DEF C!TypeOK
  <1>3. UNCHANGED <<protocol, thread, waited, channel, wanted, auth, auths, login, peer, data,
                    passed>>
    BY DEF C!LoopReceive, C!LoopShutDown, C!ShutDown, C!sshVars, C!dataVars
  <1>4. alive' \in BOOLEAN /\ transport' \in {"none", "up", "closed"}
    BY <1>1 DEF C!TypeOK, C!LoopReceive, C!LoopShutDown, C!ShutDown, C!sshVars
  <1>5. \/ typed' = typed /\ inbox' = inbox
        \/ typed' = 0 /\ inbox' = inbox + typed
    BY DEF C!LoopReceive, C!LoopShutDown, C!dataVars
  <1>6. /\ typed' \in 0 .. 4 /\ inbox' \in 0 .. 4
        /\ typed' + data' <= 4 /\ typed' + inbox' <= 4
        /\ thread' # "take" => typed' + inbox' + data' <= 4
    <2>1. /\ typed + data <= 4 /\ typed + inbox <= 4
          /\ thread # "take" => typed + inbox + data <= 4
      BY <1>1 DEF ConnectInv
    <2>2. thread' = thread /\ data' = data
      BY <1>3
    <2>3. CASE typed' = typed /\ inbox' = inbox
      BY <1>2, <2>1, <2>2, <2>3
    <2>4. CASE typed' = 0 /\ inbox' = inbox + typed
      BY <1>2, <2>1, <2>2, <2>4
    <2> QED
      BY <1>5, <2>3, <2>4
  <1>7. C!TypeOK'
    BY <1>1, <1>3, <1>4, <1>6 DEF C!TypeOK
  <1> QED
    BY <1>1, <1>6, <1>7 DEF ConnectInv

LEMMA ConnectInit == C!ConnectAssumption /\ C!Init => ConnectInv
  <1> SUFFICES ASSUME C!ConnectAssumption, C!Init PROVE ConnectInv
    OBVIOUS
  <1>1. /\ typed = 0 /\ inbox = 0 /\ data = 0 /\ waited = 0 /\ auths = 0
        /\ thread = "start" /\ protocol \in {"ssh", "rlogin"} /\ transport = "none"
        /\ channel = "none" /\ wanted = {} /\ alive = TRUE /\ auth = FALSE /\ peer = TRUE
        /\ login = C!NoLogin /\ passed = C!NotYet
    BY DEF C!Init
  <1>2. C!NoLogin \in C!Login /\ C!NotYet.kind = "none" /\ C!NotYet.login = C!NoLogin
    BY DEF C!NoLogin, C!NotYet, C!Login, C!Account
  <1>3. 0 \in 0 .. MaxWait /\ 0 \in 0 .. MaxAuths
    BY DEF C!ConnectAssumption
  <1>4. alive \in BOOLEAN /\ auth \in BOOLEAN /\ peer \in BOOLEAN
    BY <1>1
  <1>5. passed.kind = "none" /\ passed.login \in C!Login /\ login \in C!Login
    BY <1>1, <1>2
  <1>6. C!TypeOK
    BY <1>1, <1>3, <1>4, <1>5 DEF C!TypeOK, C!Strings
  <1> QED
    BY <1>1, <1>6 DEF ConnectInv, C!Strings

LEMMA ConnectNext == C!ConnectAssumption /\ ConnectInv /\ [C!Next]_C!vars => ConnectInv'
  <1>1. ConnectInv /\ UNCHANGED C!vars => ConnectInv'
    BY DEF C!vars, ConnectInv, C!TypeOK
  <1> QED
    BY <1>1, ConnectPeer, ConnectThread, ConnectStrings, ConnectLoop
       DEF C!Next, C!ConnectStep, C!Finished

\* The connect thread of an ssh or rlogin client: none of the strings that the peer sent is
\* counted twice, and what is passed to the session is an account (ssh.py, rlogin.py).
THEOREM ConnectsTyped ==
  ASSUME C!ConnectAssumption
  PROVE  C!Spec => []C!TypeOK
  <1>1. ConnectInv => C!TypeOK
    BY DEF ConnectInv
  <1> QED
    BY <1>1, ConnectInit, ConnectNext, PTL DEF C!Spec
=============================================================================
