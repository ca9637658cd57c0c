----------------------------- MODULE ClientProofs -----------------------------
(* Proofs about what is between a client and its session, for all values of  *)
(* the constants: who may connect (Fail2Ban), what is sent (ClientIO), what   *)
(* is typed at a door (Door), and what lists, pagers and line editors show    *)
(* (Lightbar, Pager, LineEdit).                                               *)
EXTENDS Integers, Sequences, FiniteSets, SequenceTheorems, FiniteSetTheorems,
        WellFoundedInduction, TLAPS

CONSTANTS
  Ip, Blacklist, Whitelist, MaxAttempts, Window, BanLength, BanIncrement, MaxTime, MaxTries,
  MaxWrites, MaxBuffers,
  MaxKeys, MaxResizes, MaxGosubs,
  ListRows, ListSizes, PageRows, PageLines, Columns, ScrollAmt, MarginAmt, MaxLength

VARIABLES
  now, banned, attempts, tries, accepted,
  connecting, buffers, send_buffer, found, pc, ready_bytes, arg, written, before, received,
  kind, stage, child, blocked, size, winsize, pipe, input, refresh, typed, pty, consumed,
  resizes, gosubs,
  length, idx, shift, drawn, lit, stale, unsound,
  lines, position, page,
  scrolling, content, scrolled, pos, screen, cursor

F == INSTANCE Fail2Ban
B == INSTANCE ClientIO
D == INSTANCE Door
L == INSTANCE Lightbar WITH Height <- ListRows, Sizes <- ListSizes, size <- length
G == INSTANCE Pager WITH
  Height <- PageRows, MaxLines <- PageLines, size <- lines, drawn <- page
I == INSTANCE LineEdit WITH Width <- Columns, shift <- scrolled

-----------------------------------------------------------------------------
(* Fail2Ban.  No more than MaxAttempts + 1 connections are accepted in any    *)
(* window, although the entry of an address is made anew.  For this the ban   *)
(* and the expiry of an entry must lie a window after all that was accepted   *)
(* (AcceptedBefore), so that what is accepted after they end is in no window  *)
(* with it; and the entry must count what is in the windows that are open.    *)

Covers(t, time) == time \in t .. t + Window - 1

In(S, t) == {a \in S : Covers(t, a[2])}

\* The end of the ban and of the entry are a window away from what was accepted.
AcceptedBefore(ip) ==
  /\ F!IsBanned(ip) => \A a \in accepted[ip] : a[2] + Window <= banned[ip]
  /\ F!HasTried(ip) => \A a \in accepted[ip] : a[2] + Window <= attempts[ip].expiry
  /\ ~F!IsBanned(ip) /\ ~F!HasTried(ip) => accepted[ip] = {}

\* A window that is still open has no more than the entry counts.
Counts(ip) ==
  F!HasTried(ip) =>
    /\ attempts[ip].attempts <= MaxAttempts + 1
    /\ \A t \in 1 .. MaxTime :
         t + Window - 1 >= now => Cardinality(In(accepted[ip], t)) <= attempts[ip].attempts

\* What the property says of one address
Bounded(ip) ==
  \A t \in 1 .. MaxTime : Cardinality(In(accepted[ip], t)) <= MaxAttempts + 1

\* What is true of an address that is not whitelisted
RateOf(ip) ==
  /\ \A a \in accepted[ip] : a[2] <= now
  /\ ~(F!IsBanned(ip) /\ F!HasTried(ip))
  /\ AcceptedBefore(ip)
  /\ Counts(ip)
  /\ Bounded(ip)

\* The inductive invariant
RateInv == F!TypeOK /\ \A ip \in Ip \ Whitelist : RateOf(ip)

\* Of an address finitely many connections are accepted.
LEMMA AcceptedFinite ==
  ASSUME F!Fail2BanAssumption, NEW S \in SUBSET ((1 .. MaxTries) \X (1 .. MaxTime))
  PROVE  /\ IsFiniteSet(S)
         /\ \A t : IsFiniteSet(In(S, t)) /\ Cardinality(In(S, t)) \in Nat
  <1>1. 1 \in Int /\ MaxTries \in Int /\ MaxTime \in Int
    BY DEF F!Fail2BanAssumption
  <1>2. IsFiniteSet(1 .. MaxTries) /\ IsFiniteSet(1 .. MaxTime)
    BY <1>1, FS_Interval
  <1>3. IsFiniteSet((1 .. MaxTries) \X (1 .. MaxTime))
    BY <1>2, FS_Product
  <1>4. IsFiniteSet(S)
    BY <1>3, FS_Subset
  <1>5. \A t : IsFiniteSet(In(S, t))
    BY <1>4, FS_Subset DEF In
  <1> QED
    BY <1>4, <1>5, FS_CardinalityType

\* How a window of T has one more than that of S at most
AddsOne(S, T, t, time) ==
  /\ ~Covers(t, time) => In(T, t) = In(S, t)
  /\ Cardinality(In(T, t)) <= Cardinality(In(S, t)) + 1
  /\ Cardinality(In(T, t)) \in Nat
  /\ In(S, t) = {} => Cardinality(In(T, t)) <= 1

\* A connection that is accepted adds one to the windows that have its time, and
\* nothing to the others; a window that had none then has at most that one.
LEMMA AcceptOne ==
  ASSUME F!Fail2BanAssumption, NEW S \in SUBSET ((1 .. MaxTries) \X (1 .. MaxTime)),
         NEW n, NEW time \in 1 .. MaxTime, NEW t \in 1 .. MaxTime,
         NEW T, T = S \cup {<<n, time>>}
  PROVE  AddsOne(S, T, t, time)
  <1>1. IsFiniteSet(In(S, t)) /\ Cardinality(In(S, t)) \in Nat
    BY AcceptedFinite
  <1>2. <<n, time>>[2] = time
    OBVIOUS
  <1>3. CASE ~Covers(t, time)
    <2>1. In(T, t) = In(S, t)
      BY <1>2, <1>3 DEF In
    <2>2. Cardinality({}) = 0
      BY FS_EmptySet
    <2>3. In(S, t) = {} => Cardinality(In(T, t)) = 0
      BY <2>1, <2>2
    <2> QED
      BY <1>1, <1>3, <2>1, <2>3 DEF AddsOne
  <1>4. CASE Covers(t, time)
    <2>1. In(T, t) = In(S, t) \cup {<<n, time>>}
      BY <1>2, <1>4 DEF In
    <2>2. Cardinality(In(T, t)) <= Cardinality(In(S, t)) + 1 /\ Cardinality(In(T, t)) \in Nat
      <3>1. CASE <<n, time>> \in In(S, t)
        <4>1. In(T, t) = In(S, t)
          BY <2>1, <3>1
        <4> QED
          BY <1>1, <4>1
      <3>2. CASE <<n, time>> \notin In(S, t)
        <4>1. Cardinality(In(T, t)) = Cardinality(In(S, t)) + 1
          BY <1>1, <2>1, <3>2, FS_AddElement
        <4> QED
          BY <1>1, <4>1
      <3> QED
        BY <3>1, <3>2
    <2>3. ASSUME In(S, t) = {} PROVE Cardinality(In(T, t)) <= 1
      <3>1. Cardinality(In(S, t)) = 0
        BY <2>3, FS_EmptySet
      <3> QED
        BY <2>2, <3>1
    <2> QED
      BY <1>4, <2>2, <2>3 DEF AddsOne
  <1> QED
    BY <1>3, <1>4

\* The initial state satisfies the invariant.
LEMMA RateInit == F!Fail2BanAssumption /\ F!Init => RateInv
  <1> SUFFICES ASSUME F!Fail2BanAssumption, F!Init PROVE RateInv
    OBVIOUS
  <1>1. accepted \in [Ip -> SUBSET ((1 .. MaxTries) \X (1 .. MaxTime))]
    BY DEF F!Init
  <1>2. F!NoAttempt \in F!Attempt
    BY DEF F!NoAttempt, F!Attempt, F!None
  <1>3. attempts \in [Ip -> F!Attempt]
    BY <1>2 DEF F!Init
  <1>4. F!TypeOK
    BY <1>1, <1>3 DEF F!Fail2BanAssumption, F!Init, F!TypeOK, F!None
  <1>5. ASSUME NEW ip \in Ip \ Whitelist PROVE RateOf(ip)
    <2>1. accepted[ip] = {} /\ ~F!IsBanned(ip) /\ ~F!HasTried(ip)
      BY DEF F!Init, F!IsBanned, F!HasTried
    <2>2. \A t : In(accepted[ip], t) = {}
      BY <2>1 DEF In
    <2>3. Cardinality({}) = 0
      BY FS_EmptySet
    <2>4. Bounded(ip)
      BY <2>2, <2>3 DEF Bounded, F!Fail2BanAssumption
    <2> QED
      BY <2>1, <2>4 DEF RateOf, AcceptedBefore, Counts
  <1> QED
    BY <1>4, <1>5 DEF RateInv

\* Every step keeps the types.
LEMMA RateTypeNext ==
  ASSUME F!Fail2BanAssumption, F!TypeOK, [F!Next]_F!vars
  PROVE  F!TypeOK'
  <1>1. CASE UNCHANGED F!vars
    BY <1>1 DEF F!vars, F!TypeOK
  <1>2. CASE F!Tick \/ F!Finished
    BY <1>2 DEF F!Tick, F!Finished, F!vars, F!TypeOK, F!Fail2BanAssumption
  <1>3. ASSUME NEW ip \in Ip, F!Connect(ip) PROVE F!TypeOK'
    <2>0. /\ now \in Nat /\ tries \in Nat /\ banned[ip] \in Nat
          /\ attempts[ip].attempts \in Nat /\ attempts[ip].expiry \in Nat
          /\ Window \in Nat /\ BanLength \in Nat /\ BanIncrement \in Nat /\ MaxTries \in Nat
      BY DEF F!TypeOK, F!Attempt, F!Fail2BanAssumption
    <2>1. now' = now /\ tries < MaxTries
      BY <1>3 DEF F!Connect
    <2>2. \E yes \in BOOLEAN : F!Answer(ip, yes)
      BY <1>3 DEF F!Connect, F!Blacklisted, F!BanExpired, F!StillBanned, F!WindowClosed,
         F!Ban, F!Extend, F!First
    <2>3. tries' = tries + 1 /\ tries' \in 1 .. MaxTries
      BY <2>0, <2>1, <2>2 DEF F!Answer
    <2>4. accepted' \in [Ip -> SUBSET ((1 .. MaxTries) \X (1 .. MaxTime))]
      BY <2>2, <2>3 DEF F!TypeOK, F!Answer
    <2>5. F!FirstAttempt \in F!Attempt /\ F!NoAttempt \in F!Attempt
      BY <2>0 DEF F!FirstAttempt, F!NoAttempt, F!Attempt, F!None
    <2>6. \/ banned' = banned \/ banned' = [banned EXCEPT ![ip] = 0]
          \/ banned' = [banned EXCEPT ![ip] = banned[ip] + BanIncrement]
          \/ banned' = [banned EXCEPT ![ip] = now + BanLength]
      BY <1>3 DEF F!Connect, F!Blacklisted, F!BanExpired, F!StillBanned, F!WindowClosed,
         F!Ban, F!Extend, F!First, F!None
    <2>7. banned' \in [Ip -> Nat]
      <3>1. banned \in [Ip -> Nat] /\ banned[ip] + BanIncrement \in Nat /\ now + BanLength \in Nat
        BY <2>0 DEF F!TypeOK
      <3> QED
        BY <2>6, <3>1
    <2>8. attempts' \in [Ip -> F!Attempt]
      <3>1. [attempts |-> attempts[ip].attempts + 1, expiry |-> attempts[ip].expiry + Window]
              \in F!Attempt
        BY <2>0 DEF F!Attempt
      <3>2. CASE F!Extend(ip)
        BY <3>1, <3>2 DEF F!Extend, F!TypeOK
      <3>3. CASE ~F!Extend(ip)
        BY <1>3, <2>5, <3>3 DEF F!Connect, F!Blacklisted, F!BanExpired, F!StillBanned,
           F!WindowClosed, F!Ban, F!First, F!TypeOK
      <3> QED
        BY <3>2, <3>3
    <2>9. now' \in 1 .. MaxTime /\ tries' \in 0 .. MaxTries
      BY <2>0, <2>1, <2>3 DEF F!TypeOK
    <2> QED
      BY <2>4, <2>7, <2>8, <2>9 DEF F!TypeOK
  <1> QED
    BY <1>1, <1>2, <1>3 DEF F!Next

\* A state in which nothing changed for an address that the clock has not made later.
LEMMA RateSame ==
  ASSUME F!Fail2BanAssumption, F!TypeOK, NEW ip \in Ip, RateOf(ip),
         accepted'[ip] = accepted[ip], attempts'[ip] = attempts[ip], banned'[ip] = banned[ip],
         now' \in Nat, now <= now'
  PROVE  RateOf(ip)'
  <1>1. now \in Nat /\ Window \in Nat /\ \A a \in accepted[ip] : a[2] \in Nat
    BY DEF F!TypeOK, F!Fail2BanAssumption
  <1>2. (\A a \in accepted[ip] : a[2] <= now)'
    BY <1>1 DEF RateOf
  <1>3. AcceptedBefore(ip)'
    BY DEF RateOf, AcceptedBefore, F!IsBanned, F!HasTried, F!None, F!NoAttempt
  <1>4. Bounded(ip)'
    BY DEF RateOf, Bounded, In
  <1>5. Counts(ip)'
    <2>1. \A t \in 1 .. MaxTime : In(accepted[ip], t)' = In(accepted[ip], t)
      BY DEF In
    <2>2. \A t \in 1 .. MaxTime : t + Window - 1 >= now' => t + Window - 1 >= now
      BY <1>1
    <2> QED
      BY <2>1, <2>2 DEF RateOf, Counts, F!HasTried, F!NoAttempt, F!None
  <1>6. ~(F!IsBanned(ip) /\ F!HasTried(ip))'
    BY DEF RateOf, F!IsBanned, F!HasTried, F!None, F!NoAttempt
  <1> QED
    BY <1>2, <1>3, <1>4, <1>5, <1>6 DEF RateOf

\* An address whose entry is made anew, more than a window after what was accepted.
LEMMA RateAnew ==
  ASSUME F!Fail2BanAssumption, F!TypeOK, NEW ip \in Ip, RateOf(ip),
         \A a \in accepted[ip] : a[2] + Window <= now,
         accepted'[ip] = accepted[ip] \cup {<<tries', now>>},
         attempts'[ip] = F!FirstAttempt, banned'[ip] = F!None, now' = now
  PROVE  RateOf(ip)'
  <1>1. /\ now \in Nat \ {0} /\ Window \in Nat \ {0} /\ now \in 1 .. MaxTime /\ MaxAttempts \in Nat
        /\ \A a \in accepted[ip] : a[2] \in Nat
        /\ accepted[ip] \in SUBSET ((1 .. MaxTries) \X (1 .. MaxTime))
    BY DEF F!TypeOK, F!Fail2BanAssumption
  <1>2. /\ attempts'[ip].attempts = 1 /\ attempts'[ip].expiry = now + Window
        /\ ~F!IsBanned(ip)' /\ F!HasTried(ip)'
    BY <1>1 DEF F!FirstAttempt, F!IsBanned, F!HasTried, F!None, F!NoAttempt
  <1>3. \A a \in accepted'[ip] : a \in accepted[ip] \/ a[2] = now
    OBVIOUS
  <1>4. (\A a \in accepted[ip] : a[2] <= now)'
    BY <1>1, <1>3
  <1>5. AcceptedBefore(ip)'
    <2>1. (\A a \in accepted[ip] : a[2] + Window <= attempts[ip].expiry)'
      BY <1>1, <1>2, <1>3
    <2> QED
      BY <1>2, <2>1 DEF AcceptedBefore
  <1>a. ASSUME NEW t \in 1 .. MaxTime PROVE AddsOne(accepted[ip], accepted'[ip], t, now)
    BY <1>1, AcceptOne
  <1>6. ASSUME NEW t \in 1 .. MaxTime, t + Window - 1 >= now
        PROVE  Cardinality(In(accepted'[ip], t)) <= 1
    <2>1. In(accepted[ip], t) = {}
      BY <1>1, <1>6 DEF In, Covers
    <2> QED
      BY <2>1, <1>a DEF AddsOne
  <1>7. ASSUME NEW t \in 1 .. MaxTime, ~(t + Window - 1 >= now)
        PROVE  Cardinality(In(accepted'[ip], t)) <= MaxAttempts + 1
    <2>1. In(accepted'[ip], t) = In(accepted[ip], t)
      <3>1. ~Covers(t, now)
        BY <1>1, <1>7 DEF Covers
      <3> QED
        BY <1>a, <3>1 DEF AddsOne
    <2> QED
      BY <2>1 DEF RateOf, Bounded
  <1>8. Counts(ip)'
    BY <1>1, <1>2, <1>6 DEF Counts, In, Covers
  <1>9. Bounded(ip)'
    <2>1. ASSUME NEW t \in 1 .. MaxTime
          PROVE Cardinality(In(accepted'[ip], t)) <= MaxAttempts + 1
      <3>1. CASE t + Window - 1 >= now
        <4>1. Cardinality(In(accepted'[ip], t)) \in Nat
          BY <1>a DEF AddsOne
        <4>2. Cardinality(In(accepted'[ip], t)) <= 1
          BY <1>6, <3>1
        <4>3. MaxAttempts \in Nat
          BY <1>1
        <4> QED
          BY <4>1, <4>2, <4>3
      <3> QED
        BY <1>7, <3>1
    <2> QED
      BY <2>1 DEF Bounded, In, Covers
  <1> QED
    BY <1>2, <1>4, <1>5, <1>8, <1>9 DEF RateOf

\* An address whose entry counts one more, and lasts a window longer.
LEMMA RateExtend ==
  ASSUME F!Fail2BanAssumption, F!TypeOK, NEW ip \in Ip, RateOf(ip),
         ~F!IsBanned(ip), F!HasTried(ip), now <= attempts[ip].expiry,
         attempts[ip].attempts <= MaxAttempts,
         accepted'[ip] = accepted[ip] \cup {<<tries', now>>},
         attempts'[ip] = [attempts |-> attempts[ip].attempts + 1,
                          expiry |-> attempts[ip].expiry + Window],
         banned'[ip] = banned[ip], now' = now
  PROVE  RateOf(ip)'
  <1>1. /\ now \in Nat \ {0} /\ Window \in Nat \ {0} /\ now \in 1 .. MaxTime /\ MaxAttempts \in Nat
        /\ attempts[ip].attempts \in Nat /\ attempts[ip].expiry \in Nat
        /\ \A a \in accepted[ip] : a[2] \in Nat
        /\ accepted[ip] \in SUBSET ((1 .. MaxTries) \X (1 .. MaxTime))
    BY DEF F!TypeOK, F!Fail2BanAssumption, F!Attempt
  <1>2. /\ attempts'[ip].attempts = attempts[ip].attempts + 1
        /\ attempts'[ip].expiry = attempts[ip].expiry + Window
    OBVIOUS
  <1>3. attempts'[ip].attempts # 0 /\ ~F!IsBanned(ip)' /\ F!HasTried(ip)'
    BY <1>1, <1>2 DEF F!IsBanned, F!HasTried, F!None, F!NoAttempt
  <1>4. \A a \in accepted'[ip] : a \in accepted[ip] \/ a[2] = now
    OBVIOUS
  <1>5. \A a \in accepted[ip] : a[2] <= now /\ a[2] + Window <= attempts[ip].expiry
    BY DEF RateOf, AcceptedBefore
  <1>6. (\A a \in accepted[ip] : a[2] <= now)'
    BY <1>1, <1>4, <1>5
  <1>7. AcceptedBefore(ip)'
    <2>1. (\A a \in accepted[ip] : a[2] + Window <= attempts[ip].expiry)'
      BY <1>1, <1>2, <1>4, <1>5
    <2> QED
      BY <1>3, <2>1 DEF AcceptedBefore
  <1>8. ASSUME NEW t \in 1 .. MaxTime
        PROVE  /\ AddsOne(accepted[ip], accepted'[ip], t, now)
               /\ Cardinality(In(accepted[ip], t)) \in Nat
    BY <1>1, AcceptOne, AcceptedFinite
  <1>9. ASSUME NEW t \in 1 .. MaxTime, t + Window - 1 >= now
        PROVE  Cardinality(In(accepted'[ip], t)) <= attempts[ip].attempts + 1
    <2>1. Cardinality(In(accepted[ip], t)) <= attempts[ip].attempts
      BY <1>9 DEF RateOf, Counts
    <2>2. /\ Cardinality(In(accepted'[ip], t)) <= Cardinality(In(accepted[ip], t)) + 1
          /\ Cardinality(In(accepted'[ip], t)) \in Nat /\ Cardinality(In(accepted[ip], t)) \in Nat
      BY <1>8 DEF AddsOne
    <2> QED
      BY <1>1, <2>1, <2>2
  <1>10. Counts(ip)'
    <2>1. attempts'[ip].attempts <= MaxAttempts + 1
      BY <1>1, <1>2
    <2>2. \A t \in 1 .. MaxTime : t + Window - 1 >= now' =>
            Cardinality(In(accepted'[ip], t)) <= attempts'[ip].attempts
      BY <1>2, <1>9
    <2> QED
      BY <2>1, <2>2 DEF Counts, In, Covers
  <1>11. Bounded(ip)'
    <2>1. ASSUME NEW t \in 1 .. MaxTime
          PROVE  Cardinality(In(accepted'[ip], t)) <= MaxAttempts + 1
      <3>1. CASE t + Window - 1 >= now
        <4>1. Cardinality(In(accepted'[ip], t)) <= attempts[ip].attempts + 1
          BY <1>9, <3>1
        <4>2. Cardinality(In(accepted'[ip], t)) \in Nat
          BY <1>8 DEF AddsOne
        <4> QED
          BY <1>1, <4>1, <4>2
      <3>2. CASE ~(t + Window - 1 >= now)
        <4>1. ~Covers(t, now)
          BY <1>1, <3>2 DEF Covers
        <4>2. In(accepted'[ip], t) = In(accepted[ip], t)
          BY <1>8, <4>1 DEF AddsOne
        <4> QED
          BY <4>2 DEF RateOf, Bounded
      <3> QED
        BY <3>1, <3>2
    <2> QED
      BY <2>1 DEF Bounded, In, Covers
  <1> QED
    BY <1>3, <1>6, <1>7, <1>10, <1>11 DEF RateOf

\* An address that is banned, whether for the first time or for longer.
LEMMA RateBan ==
  ASSUME F!Fail2BanAssumption, F!TypeOK, NEW ip \in Ip, RateOf(ip),
         accepted'[ip] = accepted[ip], attempts'[ip] = F!NoAttempt,
         banned'[ip] \in Nat \ {0}, \A a \in accepted[ip] : a[2] + Window <= banned'[ip],
         now' = now
  PROVE  RateOf(ip)'
  <1>1. F!IsBanned(ip)' /\ ~F!HasTried(ip)'
    BY DEF F!IsBanned, F!HasTried, F!None, F!NoAttempt
  <1>2. AcceptedBefore(ip)' /\ Counts(ip)'
    BY <1>1 DEF AcceptedBefore, Counts
  <1>3. Bounded(ip)' /\ (\A a \in accepted[ip] : a[2] <= now)'
    BY DEF Bounded, In, Covers, RateOf
  <1> QED
    BY <1>1, <1>2, <1>3 DEF RateOf

\* Every connection keeps what is true of its address.
LEMMA RateConnect ==
  ASSUME F!Fail2BanAssumption, F!TypeOK, NEW ip \in Ip \ Whitelist, RateOf(ip), F!Connect(ip)
  PROVE  RateOf(ip)'
  <1>1. /\ now \in Nat \ {0} /\ Window \in Nat \ {0} /\ BanLength \in Nat \ {0}
        /\ BanIncrement \in Nat /\ BanLength >= Window /\ banned[ip] \in Nat
        /\ attempts[ip].expiry \in Nat /\ now <= now /\ ip \in Ip
        /\ \A a \in accepted[ip] : a[2] \in Nat
    BY DEF F!TypeOK, F!Fail2BanAssumption, F!Attempt
  <1>2. now' = now
    BY DEF F!Connect
  <1>3. /\ \A a \in accepted[ip] : a[2] <= now
        /\ F!IsBanned(ip) => \A a \in accepted[ip] : a[2] + Window <= banned[ip]
        /\ F!HasTried(ip) => \A a \in accepted[ip] : a[2] + Window <= attempts[ip].expiry
        /\ ~F!IsBanned(ip) /\ ~F!HasTried(ip) => accepted[ip] = {}
        /\ ~(F!IsBanned(ip) /\ F!HasTried(ip))
    BY DEF RateOf, AcceptedBefore
  <1>4. ASSUME F!Answer(ip, TRUE) PROVE accepted'[ip] = accepted[ip] \cup {<<tries', now>>}
    BY <1>4 DEF F!Answer, F!TypeOK
  <1>5. ASSUME F!Answer(ip, FALSE) PROVE accepted'[ip] = accepted[ip]
    BY <1>5 DEF F!Answer, F!TypeOK
  <1>6. CASE F!Blacklisted(ip)
    BY <1>1, <1>2, <1>5, <1>6, RateSame DEF F!Blacklisted
  <1>7. CASE F!BanExpired(ip)
    <2>1. \A a \in accepted[ip] : a[2] + Window <= now
      BY <1>1, <1>3, <1>7 DEF F!BanExpired
    <2>2. attempts'[ip] = F!FirstAttempt /\ banned'[ip] = F!None /\ F!Answer(ip, TRUE)
      BY <1>7 DEF F!BanExpired, F!TypeOK
    <2> QED
      BY <1>2, <1>4, <2>1, <2>2, RateAnew
  <1>8. CASE F!StillBanned(ip)
    <2>1. banned'[ip] = banned[ip] + BanIncrement /\ F!Answer(ip, FALSE)
      BY <1>8 DEF F!StillBanned, F!TypeOK
    <2>2. attempts'[ip] = F!NoAttempt
      BY <1>3, <1>8 DEF F!StillBanned, F!HasTried
    <2>3. banned'[ip] \in Nat \ {0}
      BY <1>1, <1>8, <2>1 DEF F!StillBanned, F!IsBanned, F!None
    <2>4. \A a \in accepted[ip] : a[2] + Window <= banned'[ip]
      BY <1>1, <1>3, <1>8, <2>1 DEF F!StillBanned
    <2> QED
      BY <1>2, <1>5, <2>1, <2>2, <2>3, <2>4, RateBan
  <1>9. CASE F!WindowClosed(ip)
    <2>1. F!HasTried(ip) /\ ~F!IsBanned(ip) /\ now > attempts[ip].expiry
      BY <1>9 DEF F!WindowClosed, F!Counted
    <2>2. \A a \in accepted[ip] : a[2] + Window <= now
      BY <1>1, <1>3, <2>1
    <2>3. attempts'[ip] = F!FirstAttempt /\ banned'[ip] = F!None /\ F!Answer(ip, TRUE)
      BY <1>9, <2>1 DEF F!WindowClosed, F!TypeOK, F!IsBanned
    <2> QED
      BY <1>2, <1>4, <2>2, <2>3, RateAnew
  <1>10. CASE F!Ban(ip)
    <2>1. banned'[ip] = now + BanLength /\ attempts'[ip] = F!NoAttempt /\ F!Answer(ip, FALSE)
      BY <1>10 DEF F!Ban, F!TypeOK
    <2>2. banned'[ip] \in Nat \ {0} /\ \A a \in accepted[ip] : a[2] + Window <= banned'[ip]
      BY <1>1, <1>3, <2>1
    <2> QED
      BY <1>2, <1>5, <2>1, <2>2, RateBan
  <1>11. CASE F!Extend(ip)
    <2>1. /\ ~F!IsBanned(ip) /\ F!HasTried(ip) /\ now <= attempts[ip].expiry
          /\ attempts[ip].attempts <= MaxAttempts
          /\ F!Answer(ip, TRUE) /\ banned'[ip] = banned[ip]
      BY <1>11 DEF F!Extend, F!Counted
    <2>2. attempts'[ip] = [attempts |-> attempts[ip].attempts + 1,
                           expiry |-> attempts[ip].expiry + Window]
      BY <1>11 DEF F!Extend, F!TypeOK
    <2> QED
      BY <1>2, <1>4, <2>1, <2>2, RateExtend
  <1>12. CASE F!First(ip)
    <2>1. accepted[ip] = {} /\ ~F!IsBanned(ip) /\ F!Answer(ip, TRUE)
      BY <1>3, <1>12 DEF F!First
    <2>2. attempts'[ip] = F!FirstAttempt /\ banned'[ip] = F!None
      BY <1>12, <2>1 DEF F!First, F!TypeOK, F!IsBanned
    <2> QED
      BY <1>2, <1>4, <2>1, <2>2, RateAnew
  <1> QED
    BY <1>6, <1>7, <1>8, <1>9, <1>10, <1>11, <1>12 DEF F!Connect

\* Every step keeps the invariant.
LEMMA RateNext ==
  ASSUME F!Fail2BanAssumption, RateInv, [F!Next]_F!vars
  PROVE  RateInv'
  <1>1. F!TypeOK /\ F!TypeOK'
    BY RateTypeNext DEF RateInv
  <1>2. now \in Nat
    BY <1>1 DEF F!TypeOK
  <1>3. ASSUME NEW ip \in Ip \ Whitelist PROVE RateOf(ip)'
    <2>1. RateOf(ip) /\ ip \in Ip
      BY DEF RateInv
    <2>2. CASE UNCHANGED F!vars \/ F!Finished
      BY <1>1, <1>2, <2>1, <2>2, RateSame DEF F!vars, F!Finished
    <2>3. CASE F!Tick
      BY <1>1, <1>2, <2>1, <2>3, RateSame DEF F!Tick
    <2>4. ASSUME NEW other \in Ip, F!Connect(other), other # ip PROVE RateOf(ip)'
      <3>1. now' = now
        BY <2>4 DEF F!Connect
      <3>2. \E yes \in BOOLEAN : F!Answer(other, yes)
        BY <2>4 DEF F!Connect, F!Blacklisted, F!BanExpired, F!StillBanned, F!WindowClosed,
           F!Ban, F!Extend, F!First
      <3>3. accepted'[ip] = accepted[ip]
        BY <1>1, <2>4, <3>2 DEF F!Answer, F!TypeOK
      <3>4. banned'[ip] = banned[ip]
        BY <1>1, <2>4 DEF F!TypeOK, F!Connect, F!Blacklisted, F!BanExpired, F!StillBanned,
           F!WindowClosed, F!Ban, F!Extend, F!First
      <3>5. attempts'[ip] = attempts[ip]
        BY <1>1, <2>4 DEF F!TypeOK, F!Connect, F!Blacklisted, F!BanExpired, F!StillBanned,
           F!WindowClosed, F!Ban, F!Extend, F!First
      <3> QED
        BY <1>1, <1>2, <2>1, <3>1, <3>3, <3>4, <3>5, RateSame
    <2>5. CASE F!Connect(ip)
      BY <1>1, <2>1, <2>5, RateConnect
    <2> QED
      BY <2>2, <2>3, <2>4, <2>5 DEF F!Next
  <1> QED
    BY <1>1, <1>3 DEF RateInv

\* The cardinality of the module that is instantiated is that of FiniteSets.
LEMMA SameCardinality == \A S : F!Cardinality(S) = Cardinality(S)
  BY DEF F!Cardinality, Cardinality

\* The invariant bounds the connections in each window.
LEMMA RateIsBounded == RateInv => F!RateBounded
  <1>1. ASSUME RateInv, NEW ip \in Ip \ Whitelist, NEW t \in 1 .. MaxTime
        PROVE  Cardinality({a \in accepted[ip] : a[2] \in t .. t + Window - 1}) <= MaxAttempts + 1
    <2>1. Cardinality(In(accepted[ip], t)) <= MaxAttempts + 1
      BY <1>1 DEF RateInv, RateOf, Bounded
    <2> QED
      BY <2>1 DEF In, Covers
  <1> QED
    BY <1>1, SameCardinality DEF F!RateBounded

\* No more than MAX_ATTEMPTS + 1 connections are accepted from an address within the length
\* of any window, although its entry is made anew as its window closes and as its ban
\* ends (fail2ban.py:78-115); if a ban is as long as a window.
THEOREM RateIsLimited ==
  ASSUME F!Fail2BanAssumption
  PROVE  F!Spec => []F!RateBounded
  <1>1. F!Init => RateInv
    BY RateInit
  <1>2. RateInv /\ [F!Next]_F!vars => RateInv'
    BY RateNext
  <1> QED
    BY <1>1, <1>2, RateIsBounded, PTL DEF F!Spec

-----------------------------------------------------------------------------
(* ClientIO.  Once the loop's thread is alone, what the socket has taken,     *)
(* what was read of a buffer and not yet taken, and what is buffered follow    *)
(* on each other; a call that began while the connect thread ran may append   *)
(* to a buffer that nobody will read, but it is the last of those.            *)

\* What the thread of the loop is about, once it is alone.
LoopIsAt ==
  /\ pc["loop"] = "idle" => B!InOrder(received \o buffers[send_buffer], before, written)
  /\ pc["loop"] = "write" =>
       \/ arg["loop"] <= before /\ written = before
            /\ B!InOrder(received \o buffers[send_buffer], before, written)
       \/ arg["loop"] > before /\ arg["loop"] = written /\ found["loop"] = send_buffer
            /\ B!InOrder(received \o buffers[send_buffer], before, written - 1)
  /\ pc["loop"] = "new" =>
       ready_bytes = buffers[send_buffer] /\ B!InOrder(received \o ready_bytes, before, written)
  /\ pc["loop"] \in {"push", "rebuffer", "extend"} =>
       buffers[send_buffer] = << >> /\ B!InOrder(received \o ready_bytes, before, written)
  /\ pc["loop"] = "extend" => found["loop"] = send_buffer

\* The bytes of a sequence are of calls that were made.
Upto(bytes, n) == \A i \in 1 .. Len(bytes) : bytes[i] <= n

\* Nothing is buffered that was not written.
BytesAreWritten ==
  /\ \A b \in DOMAIN buffers : Upto(buffers[b], written)
  /\ Upto(ready_bytes, written)
  /\ Upto(received, written)
  /\ \A t \in B!Thread : arg[t] <= written /\ (pc[t] = "write" => arg[t] \in B!Byte)

\* The inductive invariant
ClientInv ==
  /\ B!TypeOK
  /\ BytesAreWritten
  /\ before <= written
  /\ connecting => pc["loop"] \in {"idle", "write"} /\ before = 0
  /\ ~connecting => pc["connect"] = "idle" /\ LoopIsAt

\* Bytes that follow on one another, and one more.
LEMMA InOrderAppend ==
  ASSUME NEW bytes \in Seq(Nat), NEW from \in Nat, NEW to \in Nat, from <= to,
         B!InOrder(bytes, from, to)
  PROVE  B!InOrder(Append(bytes, to + 1), from, to + 1)
  <1>1. PICK early \in 0 .. Len(bytes) :
          /\ Len(bytes) = early + (to - from)
          /\ \A i \in 1 .. Len(bytes) :
               IF i <= early THEN bytes[i] <= from ELSE bytes[i] = from + (i - early)
    BY DEF B!InOrder
  <1> DEFINE more == Append(bytes, to + 1)
  <1>2. Len(bytes) \in Nat
    BY LenProperties
  <1>3. /\ Len(more) = Len(bytes) + 1 /\ more[Len(bytes) + 1] = to + 1
        /\ \A i \in 1 .. Len(bytes) : more[i] = bytes[i]
    BY AppendProperties
  <1> HIDE DEF more
  <1>4. early \in 0 .. Len(more) /\ Len(more) = early + ((to + 1) - from)
    BY <1>1, <1>2, <1>3
  <1>5. ASSUME NEW i \in 1 .. Len(more)
        PROVE  IF i <= early THEN more[i] <= from ELSE more[i] = from + (i - early)
    <2>1. CASE i = Len(bytes) + 1
      BY <1>1, <1>2, <1>3, <2>1
    <2>2. CASE i # Len(bytes) + 1
      <3>1. i \in 1 .. Len(bytes)
        BY <1>2, <1>3, <2>2
      <3> QED
        BY <1>1, <1>3, <3>1
    <2> QED
      BY <2>1, <2>2
  <1>6. B!InOrder(more, from, to + 1)
    BY <1>4, <1>5 DEF B!InOrder
  <1> QED
    BY <1>6 DEF more

\* Bytes that are all early follow on one another.
LEMMA InOrderEarly ==
  ASSUME NEW bytes \in Seq(Nat), NEW from \in Nat, Upto(bytes, from)
  PROVE  B!InOrder(bytes, from, from)
  <1>1. Len(bytes) \in Nat
    BY LenProperties
  <1>2. Len(bytes) \in 0 .. Len(bytes) /\ Len(bytes) = Len(bytes) + (from - from)
    BY <1>1
  <1>3. \A i \in 1 .. Len(bytes) : i <= Len(bytes) /\ bytes[i] <= from
    BY <1>1 DEF Upto
  <1> QED
    BY <1>2, <1>3 DEF B!InOrder

\* Of two sequences one after the other, the bytes are of calls that were made.
LEMMA UptoConcat ==
  ASSUME NEW s \in Seq(Nat), NEW t \in Seq(Nat), NEW n \in Nat, Upto(s, n), Upto(t, n)
  PROVE  Upto(s \o t, n)
  <1>1. /\ Len(s \o t) = Len(s) + Len(t)
        /\ \A i \in 1 .. Len(s) + Len(t) :
             (s \o t)[i] = IF i <= Len(s) THEN s[i] ELSE t[i - Len(s)]
    BY ConcatProperties
  <1>2. Len(s) \in Nat /\ Len(t) \in Nat
    BY LenProperties
  <1>3. ASSUME NEW i \in 1 .. Len(s) + Len(t) PROVE (s \o t)[i] <= n
    <2>1. CASE i <= Len(s)
      BY <1>1, <2>1 DEF Upto
    <2>2. CASE ~(i <= Len(s))
      <3>1. i - Len(s) \in 1 .. Len(t)
        BY <1>2, <2>2
      <3> QED
        BY <1>1, <2>2, <3>1 DEF Upto
    <2> QED
      BY <2>1, <2>2
  <1> QED
    BY <1>1, <1>3 DEF Upto

\* What a byte that is not later adds to a sequence is not later.
LEMMA UptoAppend ==
  ASSUME NEW s \in Seq(Nat), NEW byte \in Nat, NEW n \in Nat, Upto(s, n), byte <= n
  PROVE  Upto(Append(s, byte), n)
  <1>1. /\ Len(Append(s, byte)) = Len(s) + 1 /\ Append(s, byte)[Len(s) + 1] = byte
        /\ \A i \in 1 .. Len(s) : Append(s, byte)[i] = s[i]
    BY AppendProperties
  <1>2. Len(s) \in Nat
    BY LenProperties
  <1>3. ASSUME NEW i \in 1 .. Len(s) + 1 PROVE Append(s, byte)[i] <= n
    <2>1. CASE i = Len(s) + 1
      BY <1>1, <2>1
    <2>2. CASE i # Len(s) + 1
      <3>1. i \in 1 .. Len(s)
        BY <1>2, <2>2
      <3> QED
        BY <1>1, <3>1 DEF Upto
    <2> QED
      BY <2>1, <2>2
  <1> QED
    BY <1>1, <1>3 DEF Upto

\* A part of a sequence has no later bytes than all of it.
LEMMA UptoSubSeq ==
  ASSUME NEW s \in Seq(Nat), NEW n \in Nat, Upto(s, n),
         NEW m \in 1 .. Len(s) + 1, NEW k \in m - 1 .. Len(s)
  PROVE  SubSeq(s, m, k) \in Seq(Nat) /\ Upto(SubSeq(s, m, k), n)
  <1>1. Len(s) \in Nat
    BY LenProperties
  <1>2. /\ SubSeq(s, m, k) \in Seq(Nat) /\ Len(SubSeq(s, m, k)) = k - m + 1
        /\ \A i \in 1 .. k - m + 1 : SubSeq(s, m, k)[i] = s[m + i - 1]
    BY SubSeqProperties
  <1>3. ASSUME NEW i \in 1 .. k - m + 1 PROVE SubSeq(s, m, k)[i] <= n
    <2>1. m + i - 1 \in 1 .. Len(s)
      BY <1>1
    <2> QED
      BY <1>2, <2>1 DEF Upto
  <1> QED
    BY <1>2, <1>3 DEF Upto

\* What the types say of each part, in the words of the lemmas.
LEMMA ClientTypes ==
  ASSUME B!ClientAssumption, B!TypeOK
  PROVE  /\ buffers \in Seq(Seq(Nat)) /\ DOMAIN buffers = 1 .. Len(buffers) /\ Len(buffers) \in Nat
         /\ \A b \in DOMAIN buffers : buffers[b] \in Seq(B!Byte) /\ buffers[b] \in Seq(Nat)
         /\ received \in Seq(Nat) /\ ready_bytes \in Seq(Nat)
         /\ written \in Nat /\ before \in Nat /\ MaxWrites \in Nat
         /\ \A t \in B!Thread : found[t] \in DOMAIN buffers /\ arg[t] \in Nat
         /\ Seq(B!Byte) \subseteq Seq(Nat)
  <1>1. MaxWrites \in Nat /\ B!Byte \subseteq Nat
    BY DEF B!ClientAssumption, B!Byte
  <1>2. Seq(B!Byte) \subseteq Seq(Nat)
    BY <1>1, SeqMonotonic
  <1>3. Seq(Seq(B!Byte)) \subseteq Seq(Seq(Nat))
    BY <1>2, SeqMonotonic
  <1>4. buffers \in Seq(Seq(B!Byte)) /\ received \in Seq(B!Byte) /\ ready_bytes \in Seq(B!Byte)
    BY DEF B!TypeOK
  <1>5. DOMAIN buffers = 1 .. Len(buffers) /\ Len(buffers) \in Nat
    BY <1>4, LenProperties
  <1>6. \A b \in DOMAIN buffers : buffers[b] \in Seq(B!Byte)
    BY <1>4, <1>5, ElementOfSeq
  <1>7. written \in Nat /\ before \in Nat
    BY <1>1 DEF B!TypeOK
  <1>8. \A t \in B!Thread : found[t] \in DOMAIN buffers /\ arg[t] \in Nat
    BY <1>1 DEF B!TypeOK
  <1> QED
    BY <1>1, <1>2, <1>3, <1>4, <1>5, <1>6, <1>7, <1>8

\* The initial state satisfies the invariant.
LEMMA ClientInit == B!ClientAssumption /\ B!Init => ClientInv
  <1> SUFFICES ASSUME B!ClientAssumption, B!Init PROVE ClientInv
    OBVIOUS
  <1>1. << >> \in Seq(B!Byte) /\ Len(<< >>) = 0
    BY EmptySeq
  <1>2. buffers \in Seq(Seq(B!Byte)) /\ DOMAIN buffers = {1} /\ buffers[1] = << >>
    <2>1. buffers = << << >> >>
      BY DEF B!Init
    <2> QED
      BY <1>1, <2>1
  <1>3. B!TypeOK
    BY <1>1, <1>2 DEF B!Init, B!TypeOK, B!ClientAssumption, B!Thread
  <1>4. Upto(<< >>, 0)
    BY <1>1 DEF Upto
  <1>5. BytesAreWritten
    BY <1>2, <1>4 DEF B!Init, BytesAreWritten, B!Thread
  <1> QED
    BY <1>3, <1>5 DEF B!Init, ClientInv, B!Thread

\* An append to a buffer keeps the buffers, and what it is about.
LEMMA BufferGrows ==
  ASSUME NEW S, NEW bufs \in Seq(Seq(S)), NEW b \in DOMAIN bufs, NEW bytes \in Seq(S)
  PROVE  /\ [bufs EXCEPT ![b] = bytes] \in Seq(Seq(S))
         /\ DOMAIN [bufs EXCEPT ![b] = bytes] = DOMAIN bufs
         /\ \A c \in DOMAIN bufs :
              [bufs EXCEPT ![b] = bytes][c] = IF c = b THEN bytes ELSE bufs[c]
  <1>1. DOMAIN bufs = 1 .. Len(bufs)
    BY LenProperties
  <1> QED
    BY <1>1, ExceptSeq

\* Every step keeps the types.
LEMMA ClientTypeNext ==
  ASSUME B!ClientAssumption, ClientInv, [B!Next]_B!vars
  PROVE  B!TypeOK'
  <1>1. B!TypeOK
    BY DEF ClientInv
  <1>2. /\ buffers \in Seq(Seq(B!Byte)) /\ received \in Seq(B!Byte) /\ ready_bytes \in Seq(B!Byte)
        /\ DOMAIN buffers = 1 .. Len(buffers) /\ Len(buffers) \in Nat
        /\ \A b \in DOMAIN buffers : buffers[b] \in Seq(B!Byte)
        /\ \A t \in B!Thread : found[t] \in DOMAIN buffers
        /\ written \in Nat /\ MaxWrites \in Nat
    BY <1>1, ClientTypes DEF B!TypeOK
  <1>3. CASE UNCHANGED B!vars \/ B!Connected
    BY <1>1, <1>3 DEF B!vars, B!Connected, B!TypeOK
  <1>4. ASSUME NEW t \in B!Thread, B!WriteStr(t) PROVE B!TypeOK'
    <2>1. written' \in 0 .. MaxWrites
      BY <1>2, <1>4 DEF B!WriteStr
    <2> QED
      BY <1>1, <1>4, <2>1 DEF B!WriteStr, B!Finds, B!Goes, B!TypeOK
  <1>5. ASSUME NEW t \in B!Thread, B!FromString(t) PROVE B!TypeOK'
    <2>1. Append(buffers[found[t]], arg[t]) \in Seq(B!Byte)
      <3>1. arg[t] \in B!Byte
        BY <1>5 DEF B!FromString, ClientInv, BytesAreWritten
      <3> QED
        BY <1>2, <3>1, AppendProperties
    <2>2. buffers' \in Seq(Seq(B!Byte)) /\ DOMAIN buffers' = DOMAIN buffers
      BY <1>2, <1>5, <2>1, BufferGrows DEF B!FromString
    <2> QED
      BY <1>1, <1>5, <2>2 DEF B!FromString, B!Goes, B!TypeOK
  <1>6. ASSUME NEW t \in B!Thread, B!Send(t) PROVE B!TypeOK'
    <2>1. ready_bytes' \in Seq(B!Byte)
      BY <1>1, <1>2, <1>6 DEF B!Send, B!TypeOK
    <2> QED
      BY <1>1, <1>6, <2>1 DEF B!Send, B!Goes, B!TypeOK
  <1>7. ASSUME NEW t \in B!Thread, B!NewBuffer(t) PROVE B!TypeOK'
    <2>1. << >> \in Seq(B!Byte)
      OBVIOUS
    <2>2. buffers' \in Seq(Seq(B!Byte)) /\ Len(buffers') = Len(buffers) + 1
      BY <1>2, <1>7, <2>1, AppendProperties DEF B!NewBuffer
    <2>3. DOMAIN buffers' = 1 .. Len(buffers) + 1
      BY <2>2, LenProperties
    <2>4. DOMAIN buffers \subseteq DOMAIN buffers' /\ send_buffer' \in DOMAIN buffers'
      BY <1>2, <1>7, <2>2, <2>3 DEF B!NewBuffer
    <2> QED
      BY <1>1, <1>7, <2>2, <2>4 DEF B!NewBuffer, B!Goes, B!TypeOK
  <1>8. ASSUME NEW t \in B!Thread, B!Push(t) PROVE B!TypeOK'
    <2>1. PICK sent \in 0 .. Len(ready_bytes) :
            /\ received' = received \o SubSeq(ready_bytes, 1, sent)
            /\ ready_bytes' = SubSeq(ready_bytes, sent + 1, Len(ready_bytes))
            /\ B!Goes(t, IF sent < Len(ready_bytes) THEN "rebuffer" ELSE "idle")
      BY <1>8 DEF B!Push
    <2>2. Len(ready_bytes) \in Nat /\ \A i \in 1 .. Len(ready_bytes) : ready_bytes[i] \in B!Byte
      BY <1>2, LenProperties, ElementOfSeq
    <2>3. SubSeq(ready_bytes, 1, sent) \in Seq(B!Byte)
      BY <2>2, SubSeqProperties
    <2>4. SubSeq(ready_bytes, sent + 1, Len(ready_bytes)) \in Seq(B!Byte)
      BY <2>2, SubSeqProperties
    <2>5. received' \in Seq(B!Byte) /\ ready_bytes' \in Seq(B!Byte)
      BY <1>2, <2>1, <2>3, <2>4, ConcatProperties
    <2>6. pc' \in [B!Thread -> {"idle", "write", "new", "push", "rebuffer", "extend"}]
      BY <1>1, <2>1 DEF B!Goes, B!TypeOK
    <2> QED
      BY <1>1, <1>8, <2>5, <2>6 DEF B!Push, B!TypeOK
  <1>9. ASSUME NEW t \in B!Thread, B!Rebuffer(t) PROVE B!TypeOK'
    BY <1>1, <1>9 DEF B!Rebuffer, B!Finds, B!Goes, B!TypeOK
  <1>10. ASSUME NEW t \in B!Thread, B!Extend(t) PROVE B!TypeOK'
    <2>1. buffers[found[t]] \o ready_bytes \in Seq(B!Byte) /\ << >> \in Seq(B!Byte)
      BY <1>2, ConcatProperties, EmptySeq
    <2>2. buffers' \in Seq(Seq(B!Byte)) /\ DOMAIN buffers' = DOMAIN buffers
      BY <1>2, <1>10, <2>1, BufferGrows DEF B!Extend
    <2> QED
      BY <1>1, <1>10, <2>1, <2>2 DEF B!Extend, B!Goes, B!TypeOK
  <1> QED
    BY <1>3, <1>4, <1>5, <1>6, <1>7, <1>8, <1>9, <1>10 DEF B!Next

\* Every step keeps that only what was written is buffered.
LEMMA BytesNext ==
  ASSUME B!ClientAssumption, ClientInv, B!TypeOK', [B!Next]_B!vars
  PROVE  BytesAreWritten'
  <1>1. B!TypeOK /\ BytesAreWritten
    BY DEF ClientInv
  <1>2. /\ buffers \in Seq(Seq(Nat)) /\ received \in Seq(Nat) /\ ready_bytes \in Seq(Nat)
        /\ DOMAIN buffers = 1 .. Len(buffers) /\ Len(buffers) \in Nat
        /\ \A b \in DOMAIN buffers : buffers[b] \in Seq(Nat) /\ Upto(buffers[b], written)
        /\ \A t \in B!Thread : /\ found[t] \in DOMAIN buffers /\ arg[t] \in Nat /\ arg[t] <= written
                               /\ pc[t] = "write" => arg[t] \in B!Byte
        /\ written \in Nat /\ MaxWrites \in Nat
        /\ Upto(received, written) /\ Upto(ready_bytes, written)
    BY <1>1, ClientTypes DEF BytesAreWritten
  <1>3. CASE UNCHANGED B!vars \/ B!Connected
    BY <1>1, <1>3 DEF B!vars, B!Connected, BytesAreWritten, Upto
  <1>4. ASSUME NEW t \in B!Thread, B!WriteStr(t) PROVE BytesAreWritten'
    <2>1. written' = written + 1 /\ written' \in B!Byte
      BY <1>2, <1>4 DEF B!WriteStr, B!Byte
    <2>2. \A bytes \in Seq(Nat) : Upto(bytes, written) => Upto(bytes, written')
      <3>1. ASSUME NEW bytes \in Seq(Nat), Upto(bytes, written), NEW i \in 1 .. Len(bytes)
            PROVE  bytes[i] <= written'
        <4>1. bytes[i] \in Nat /\ bytes[i] <= written
          BY <3>1, ElementOfSeq DEF Upto
        <4> QED
          BY <1>2, <2>1, <4>1
      <3> QED
        BY <3>1 DEF Upto
    <2>3. /\ buffers' = buffers /\ received' = received /\ ready_bytes' = ready_bytes
          /\ arg' = [arg EXCEPT ![t] = written'] /\ pc' = [pc EXCEPT ![t] = "write"]
      BY <1>4 DEF B!WriteStr, B!Goes
    <2>4. ASSUME NEW u \in B!Thread
          PROVE  arg'[u] <= written' /\ (pc'[u] = "write" => arg'[u] \in B!Byte)
      <3>1. arg \in [B!Thread -> 0 .. MaxWrites] /\ pc \in [B!Thread ->
              {"idle", "write", "new", "push", "rebuffer", "extend"}]
        BY <1>1 DEF B!TypeOK
      <3>2. CASE u = t
        <4>1. arg'[u] = written'
          BY <2>3, <3>1, <3>2
        <4> QED
          BY <1>2, <2>1, <4>1
      <3>3. CASE u # t
        <4>1. arg'[u] = arg[u] /\ pc'[u] = pc[u]
          BY <2>3, <3>1, <3>3
        <4> QED
          BY <1>2, <2>1, <4>1
      <3> QED
        BY <3>2, <3>3
    <2> QED
      BY <1>2, <2>2, <2>3, <2>4 DEF BytesAreWritten, Upto
  <1>5. ASSUME NEW t \in B!Thread, written' = written, arg' = arg,
               \A u \in B!Thread : pc'[u] = "write" => pc[u] = "write",
               \A b \in DOMAIN buffers' : Upto(buffers'[b], written),
               Upto(ready_bytes', written), Upto(received', written)
        PROVE  BytesAreWritten'
    BY <1>2, <1>5 DEF BytesAreWritten, Upto
  <1>6. ASSUME NEW t \in B!Thread, NEW at \in {"idle", "new", "push", "rebuffer", "extend"},
               pc' = [pc EXCEPT ![t] = at]
        PROVE  \A u \in B!Thread : pc'[u] = "write" => pc[u] = "write"
    BY <1>1, <1>6 DEF B!TypeOK
  <1>7. ASSUME NEW t \in B!Thread, B!FromString(t) PROVE BytesAreWritten'
    <2>1. Append(buffers[found[t]], arg[t]) \in Seq(Nat)
      BY <1>2, AppendProperties
    <2>2. Upto(Append(buffers[found[t]], arg[t]), written)
      BY <1>2, UptoAppend
    <2>3. buffers' = [buffers EXCEPT ![found[t]] = Append(buffers[found[t]], arg[t])]
      BY <1>7 DEF B!FromString
    <2>4. \A b \in DOMAIN buffers' : Upto(buffers'[b], written)
      BY <1>2, <2>1, <2>2, <2>3, BufferGrows
    <2> QED
      BY <1>2, <1>5, <1>6, <1>7, <2>4 DEF B!FromString, B!Goes
  <1>8. ASSUME NEW t \in B!Thread, B!Send(t) PROVE BytesAreWritten'
    <2>1. Upto(ready_bytes', written)
      BY <1>1, <1>2, <1>8 DEF B!Send, B!TypeOK
    <2> QED
      BY <1>2, <1>5, <1>6, <1>8, <2>1 DEF B!Send, B!Goes
  <1>9. ASSUME NEW t \in B!Thread, B!NewBuffer(t) PROVE BytesAreWritten'
    <2>1. << >> \in Seq(Nat) /\ Upto(<< >>, written)
      BY EmptySeq DEF Upto
    <2>2. /\ buffers' \in Seq(Seq(Nat)) /\ Len(buffers') = Len(buffers) + 1
          /\ \A b \in 1 .. Len(buffers) : buffers'[b] = buffers[b]
          /\ buffers'[Len(buffers) + 1] = << >>
      BY <1>2, <1>9, <2>1, AppendProperties DEF B!NewBuffer
    <2>3. DOMAIN buffers' = 1 .. Len(buffers) + 1
      BY <2>2, LenProperties
    <2>4. ASSUME NEW b \in DOMAIN buffers' PROVE Upto(buffers'[b], written)
      <3>1. CASE b = Len(buffers) + 1
        BY <2>1, <2>2, <3>1
      <3>2. CASE b # Len(buffers) + 1
        <4>1. b \in 1 .. Len(buffers)
          BY <1>2, <2>3, <3>2
        <4> QED
          BY <1>2, <2>2, <4>1
      <3> QED
        BY <3>1, <3>2
    <2> QED
      BY <1>2, <1>5, <1>6, <1>9, <2>4 DEF B!NewBuffer, B!Goes
  <1>10. ASSUME NEW t \in B!Thread, B!Push(t) PROVE BytesAreWritten'
    <2>1. PICK sent \in 0 .. Len(ready_bytes) :
            /\ received' = received \o SubSeq(ready_bytes, 1, sent)
            /\ ready_bytes' = SubSeq(ready_bytes, sent + 1, Len(ready_bytes))
            /\ B!Goes(t, IF sent < Len(ready_bytes) THEN "rebuffer" ELSE "idle")
      BY <1>10 DEF B!Push
    <2>2. Len(ready_bytes) \in Nat
      BY <1>2, LenProperties
    <2>3. SubSeq(ready_bytes, 1, sent) \in Seq(Nat) /\ Upto(SubSeq(ready_bytes, 1, sent), written)
      BY <1>2, <2>2, UptoSubSeq
    <2>4. Upto(ready_bytes', written)
      <3>1. sent + 1 \in 1 .. Len(ready_bytes) + 1
            /\ Len(ready_bytes) \in (sent + 1) - 1 .. Len(ready_bytes)
        BY <2>2
      <3> QED
        BY <1>2, <2>1, <3>1, UptoSubSeq
    <2>5. Upto(received', written)
      BY <1>2, <2>1, <2>3, UptoConcat
    <2>6. \A u \in B!Thread : pc'[u] = "write" => pc[u] = "write"
      BY <1>6, <2>1 DEF B!Goes
    <2> QED
      BY <1>2, <1>5, <1>10, <2>4, <2>5, <2>6 DEF B!Push
  <1>11. ASSUME NEW t \in B!Thread, B!Rebuffer(t) PROVE BytesAreWritten'
    BY <1>2, <1>5, <1>6, <1>11 DEF B!Rebuffer, B!Goes
  <1>12. ASSUME NEW t \in B!Thread, B!Extend(t) PROVE BytesAreWritten'
    <2>1. buffers[found[t]] \o ready_bytes \in Seq(Nat)
      BY <1>2, ConcatProperties
    <2>2. Upto(buffers[found[t]] \o ready_bytes, written)
      BY <1>2, UptoConcat
    <2>3. buffers' = [buffers EXCEPT ![found[t]] = buffers[found[t]] \o ready_bytes]
      BY <1>12 DEF B!Extend
    <2>4. \A b \in DOMAIN buffers' : Upto(buffers'[b], written)
      BY <1>2, <2>1, <2>2, <2>3, BufferGrows
    <2>5. Upto(<< >>, written)
      BY EmptySeq DEF Upto
    <2> QED
      BY <1>2, <1>5, <1>6, <1>12, <2>4, <2>5 DEF B!Extend, B!Goes
  <1> QED
    BY <1>3, <1>4, <1>7, <1>8, <1>9, <1>10, <1>11, <1>12 DEF B!Next

\* What is one after the other stays so, however it is split in two.
LEMMA SplitConcat ==
  ASSUME NEW S, NEW s \in Seq(S), NEW t \in Seq(S), NEW n \in 0 .. Len(t)
  PROVE  (s \o SubSeq(t, 1, n)) \o SubSeq(t, n + 1, Len(t)) = s \o t
  <1>1. Len(t) \in Nat /\ \A i \in 1 .. Len(t) : t[i] \in S
    BY LenProperties, ElementOfSeq
  <1> DEFINE u == SubSeq(t, 1, n)
             v == SubSeq(t, n + 1, Len(t))
  <1>2. u \in Seq(S)
    BY <1>1, SubSeqProperties
  <1>3. v \in Seq(S)
    BY <1>1, SubSeqProperties
  <1>4. u \o v = SubSeq(t, 1, Len(t))
    <2>1. 1 \in 1 .. Len(t) + 1 /\ n \in 1 - 1 .. Len(t) /\ Len(t) \in n .. Len(t)
      BY <1>1
    <2> QED
      BY <2>1, ConcatAdjacentSubSeq
  <1>5. SubSeq(t, 1, Len(t)) = t
    BY SubSeqFull
  <1> HIDE DEF u, v
  <1>6. (s \o u) \o v = s \o (u \o v)
    BY <1>2, <1>3, ConcatAssociative
  <1>7. (s \o u) \o v = s \o t
    BY <1>4, <1>5, <1>6
  <1> QED
    BY <1>7 DEF u, v

\* A byte appended to the second of two sequences is appended to both.
LEMMA ConcatAppend ==
  ASSUME NEW s \in Seq(Nat), NEW t \in Seq(Nat), NEW e \in Nat
  PROVE  s \o Append(t, e) = Append(s \o t, e)
  <1>1. Append(t, e) = t \o <<e>> /\ <<e>> \in Seq(Nat) /\ s \o t \in Seq(Nat)
    BY AppendIsConcat, ConcatProperties
  <1>2. Append(s \o t, e) = (s \o t) \o <<e>>
    BY <1>1, AppendIsConcat
  <1> QED
    BY <1>1, <1>2, ConcatAssociative

\* Bytes that follow on each other up to what was written early are all early.
LEMMA OnlyEarly ==
  ASSUME NEW bytes \in Seq(Nat), NEW from \in Nat, B!InOrder(bytes, from, from)
  PROVE  Upto(bytes, from)
  <1>1. PICK early \in 0 .. Len(bytes) :
          /\ Len(bytes) = early + (from - from)
          /\ \A i \in 1 .. Len(bytes) :
               IF i <= early THEN bytes[i] <= from ELSE bytes[i] = from + (i - early)
    BY DEF B!InOrder
  <1>2. Len(bytes) \in Nat
    BY LenProperties
  <1>3. early = Len(bytes)
    BY <1>1, <1>2
  <1>4. ASSUME NEW i \in 1 .. Len(bytes) PROVE bytes[i] <= from
    BY <1>1, <1>2, <1>3
  <1> QED
    BY <1>4 DEF Upto

\* Every step keeps what is known of the two threads.
LEMMA LoopNext ==
  ASSUME B!ClientAssumption, ClientInv, B!TypeOK', BytesAreWritten', [B!Next]_B!vars
  PROVE  ClientInv'
  <1>1. B!TypeOK /\ BytesAreWritten
    BY DEF ClientInv
  <1> DEFINE loop == "loop"
             connect == "connect"
             Bytes == received \o buffers[send_buffer]
  <1>2. /\ buffers \in Seq(Seq(Nat)) /\ received \in Seq(Nat) /\ ready_bytes \in Seq(Nat)
        /\ DOMAIN buffers = 1 .. Len(buffers) /\ Len(buffers) \in Nat
        /\ send_buffer \in DOMAIN buffers /\ found["loop"] \in DOMAIN buffers
        /\ buffers[send_buffer] \in Seq(Nat)
        /\ Upto(received, written) /\ Upto(buffers[send_buffer], written)
        /\ written \in Nat /\ before \in Nat /\ before <= written
        /\ pc \in [B!Thread -> {"idle", "write", "new", "push", "rebuffer", "extend"}]
        /\ arg["loop"] \in Nat /\ arg["loop"] <= written
        /\ arg \in [B!Thread -> 0 .. MaxWrites] /\ found \in [B!Thread -> DOMAIN buffers]
        /\ "loop" \in B!Thread /\ "connect" \in B!Thread /\ "loop" # "connect"
    BY <1>1, ClientTypes DEF B!TypeOK, ClientInv, BytesAreWritten, B!Thread
  <1>3. Bytes \in Seq(Nat)
    BY <1>2, ConcatProperties
  <1>4. CASE UNCHANGED B!vars
    BY <1>4 DEF B!vars, ClientInv, LoopIsAt, B!InOrder
  <1>5. CASE B!Connected
    <2>1. Upto(Bytes, written)
      BY <1>2, UptoConcat
    <2>2. /\ pc' = pc /\ received' = received /\ buffers' = buffers /\ written' = written
          /\ send_buffer' = send_buffer /\ before' = written /\ ~connecting' /\ connecting
          /\ pc["connect"] = "idle" /\ arg' = arg
      BY <1>5 DEF B!Connected
    <2>3. B!InOrder(Bytes, written, written)
      BY <1>2, <1>3, <2>1, InOrderEarly
    <2>4. pc["loop"] \in {"idle", "write"}
      BY <2>2 DEF ClientInv
    <2>5. LoopIsAt'
      BY <1>2, <2>2, <2>3, <2>4 DEF LoopIsAt, B!InOrder
    <2> QED
      BY <1>2, <2>2, <2>5 DEF ClientInv
  <1>6. ASSUME NEW t \in B!Thread, connecting, connecting', before' = before, written' >= written,
               \/ pc' = [pc EXCEPT ![t] = "idle"] \/ pc' = [pc EXCEPT ![t] = "write"]
               \/ t = "connect" /\ pc'["loop"] = pc["loop"]
        PROVE  ClientInv'
    <2>1. pc["loop"] \in {"idle", "write"} /\ before = 0 /\ written' \in Nat
      BY <1>6 DEF ClientInv, B!TypeOK, B!ClientAssumption
    <2>2. pc'["loop"] \in {"idle", "write"}
      BY <1>2, <1>6, <2>1
    <2> QED
      BY <1>6, <2>1, <2>2 DEF ClientInv
  <1>7. ASSUME connecting, B!Next, ~B!Connected PROVE ClientInv'
    <2>1. pc["loop"] \in {"idle", "write"}
      BY <1>7 DEF ClientInv
    <2>2. PICK t \in B!Thread : \/ B!WriteStr(t) \/ B!FromString(t) \/ B!Send(t) \/ B!NewBuffer(t)
                                \/ B!Push(t) \/ B!Rebuffer(t) \/ B!Extend(t)
      BY <1>7 DEF B!Next
    <2>3. connecting' = connecting /\ before' = before /\ written' >= written
      BY <1>2, <2>2 DEF B!WriteStr, B!FromString, B!Send, B!NewBuffer, B!Push, B!Rebuffer, B!Extend
    <2>4. CASE B!WriteStr(t) \/ B!FromString(t)
      BY <1>6, <1>7, <2>3, <2>4 DEF B!WriteStr, B!FromString, B!Goes
    <2>5. CASE B!Send(t) \/ B!NewBuffer(t) \/ B!Push(t) \/ B!Rebuffer(t) \/ B!Extend(t)
      <3>1. t = "connect"
        BY <1>7, <2>1, <2>5 DEF B!Send, B!Sends, B!NewBuffer, B!Push, B!Rebuffer, B!Extend, B!Thread
      <3>2. \E at : pc' = [pc EXCEPT !["connect"] = at]
        BY <2>5, <3>1 DEF B!Send, B!NewBuffer, B!Push, B!Rebuffer, B!Extend, B!Goes
      <3>3. pc'["loop"] = pc["loop"]
        BY <1>2, <3>2
      <3> QED
        BY <1>6, <1>7, <2>3, <3>1, <3>3
    <2> QED
      BY <2>2, <2>4, <2>5
  <1>8. ASSUME ~connecting, B!Next PROVE ClientInv'
    <2>1. pc["connect"] = "idle" /\ LoopIsAt /\ ~B!Connected
      BY <1>8 DEF ClientInv, B!Connected
    <2>2. \/ B!WriteStr("loop") \/ B!FromString("loop") \/ B!Send("loop") \/ B!NewBuffer("loop")
          \/ B!Push("loop") \/ B!Rebuffer("loop") \/ B!Extend("loop")
      <3>1. ~(\/ B!WriteStr("connect") \/ B!FromString("connect") \/ B!Send("connect")
              \/ B!NewBuffer("connect") \/ B!Push("connect") \/ B!Rebuffer("connect")
              \/ B!Extend("connect"))
        BY <1>8, <2>1 DEF B!WriteStr, B!FromString, B!Send, B!NewBuffer, B!Push, B!Rebuffer,
           B!Extend, B!Runs
      <3> QED
        BY <1>8, <2>1, <3>1 DEF B!Next, B!Thread
    <2>3. ~connecting' /\ before' = before /\ pc'["connect"] = "idle"
      BY <1>2, <1>8, <2>1, <2>2 DEF B!WriteStr, B!FromString, B!Send, B!NewBuffer, B!Push,
         B!Rebuffer, B!Extend, B!Goes
    <2>4. before' <= written'
      BY <1>2, <2>2, <2>3 DEF B!WriteStr, B!FromString, B!Send, B!NewBuffer, B!Push, B!Rebuffer,
         B!Extend
    <2>5. CASE B!WriteStr("loop")
      <3>1. /\ pc["loop"] = "idle" /\ pc'["loop"] = "write" /\ arg'["loop"] = written + 1
            /\ written' = written + 1 /\ found'["loop"] = send_buffer
            /\ UNCHANGED <<received, buffers, send_buffer, before>>
        BY <1>2, <2>5 DEF B!WriteStr, B!Goes, B!Finds
      <3>2. B!InOrder(Bytes, before, written)
        BY <2>1, <3>1 DEF LoopIsAt
      <3>3. written' - 1 = written /\ arg'["loop"] > before
        BY <1>2, <3>1
      <3>4. B!InOrder(received' \o buffers'[send_buffer'], before', written' - 1)
        BY <3>1, <3>2, <3>3
      <3>5. LoopIsAt'
        BY <3>1, <3>3, <3>4 DEF LoopIsAt, B!InOrder
      <3> QED
        BY <2>3, <2>4, <3>5 DEF ClientInv
    <2>6. CASE B!FromString("loop")
      <3>1. /\ pc["loop"] = "write" /\ pc'["loop"] = "idle" /\ written' = written
            /\ buffers' = [buffers EXCEPT ![found["loop"]] = Append(@, arg["loop"])]
            /\ UNCHANGED <<received, send_buffer, before>>
        BY <1>2, <2>6 DEF B!FromString, B!Goes
      <3>2. Append(buffers[send_buffer], arg["loop"]) \in Seq(Nat)
            /\ Append(buffers[found["loop"]], arg["loop"]) \in Seq(Nat)
        BY <1>1, <1>2, ClientTypes, AppendProperties
      <3>3. buffers'[send_buffer] = IF found["loop"] = send_buffer
                                    THEN Append(buffers[send_buffer], arg["loop"])
                                    ELSE buffers[send_buffer]
        BY <1>2, <3>1, <3>2, BufferGrows
      <3>4. received \o Append(buffers[send_buffer], arg["loop"]) = Append(Bytes, arg["loop"])
        <4>1. \A t \in Seq(Nat), e \in Nat : received \o Append(t, e) = Append(received \o t, e)
          BY <1>2, ConcatAppend
        <4> QED
          BY <1>2, <4>1
      <3>5. B!InOrder(received \o buffers'[send_buffer], before, written)
        <4>1. CASE arg["loop"] <= before /\ written = before /\ B!InOrder(Bytes, before, written)
          <5>1. Upto(Bytes, before)
            BY <1>2, <1>3, <4>1, OnlyEarly
          <5>2. Append(Bytes, arg["loop"]) \in Seq(Nat) /\ Upto(Append(Bytes, arg["loop"]), before)
            BY <1>2, <1>3, <4>1, <5>1, UptoAppend, AppendProperties
          <5>3. B!InOrder(Append(Bytes, arg["loop"]), before, before)
            BY <1>2, <5>2, InOrderEarly
          <5> QED
            BY <3>3, <3>4, <4>1, <5>3
        <4>2. CASE arg["loop"] > before /\ arg["loop"] = written /\ found["loop"] = send_buffer
                     /\ B!InOrder(Bytes, before, written - 1)
          <5>1. written - 1 \in Nat /\ before <= written - 1 /\ (written - 1) + 1 = written
            BY <1>2, <4>2
          <5>2. B!InOrder(Append(Bytes, (written - 1) + 1), before, (written - 1) + 1)
            BY <1>2, <1>3, <4>2, <5>1, InOrderAppend
          <5> QED
            BY <3>3, <3>4, <4>2, <5>1, <5>2
        <4> QED
          BY <2>1, <3>1, <4>1, <4>2 DEF LoopIsAt
      <3>6. LoopIsAt'
        BY <3>1, <3>5 DEF LoopIsAt, B!InOrder
      <3> QED
        BY <2>3, <2>4, <3>6 DEF ClientInv
    <2>7. CASE B!Send("loop")
      <3>1. /\ pc["loop"] = "idle" /\ pc'["loop"] = "new" /\ ready_bytes' = buffers[send_buffer]
            /\ UNCHANGED <<received, buffers, send_buffer, before, written>>
        BY <1>2, <2>7 DEF B!Send, B!Goes
      <3>2. B!InOrder(received \o ready_bytes', before, written)
        BY <2>1, <3>1 DEF LoopIsAt
      <3>3. LoopIsAt'
        BY <3>1, <3>2 DEF LoopIsAt, B!InOrder
      <3> QED
        BY <2>3, <2>4, <3>3 DEF ClientInv
    <2>8. CASE B!NewBuffer("loop")
      <3>1. /\ pc["loop"] = "new" /\ pc'["loop"] = "push" /\ buffers' = Append(buffers, << >>)
            /\ send_buffer' = Len(buffers')
            /\ UNCHANGED <<received, ready_bytes, before, written>>
        BY <1>2, <2>8 DEF B!NewBuffer, B!Goes
      <3>2. << >> \in Seq(Nat)
        OBVIOUS
      <3>3. buffers'[send_buffer'] = << >>
        BY <1>2, <3>1, <3>2, AppendProperties
      <3>4. B!InOrder(received \o ready_bytes, before, written)
        BY <2>1, <3>1 DEF LoopIsAt
      <3>5. LoopIsAt'
        BY <3>1, <3>3, <3>4 DEF LoopIsAt, B!InOrder
      <3> QED
        BY <2>3, <2>4, <3>5 DEF ClientInv
    <2>9. CASE B!Push("loop")
      <3>1. PICK sent \in 0 .. Len(ready_bytes) :
              /\ received' = received \o SubSeq(ready_bytes, 1, sent)
              /\ ready_bytes' = SubSeq(ready_bytes, sent + 1, Len(ready_bytes))
              /\ B!Goes("loop", IF sent < Len(ready_bytes) THEN "rebuffer" ELSE "idle")
        BY <2>9 DEF B!Push
      <3>2. /\ pc["loop"] = "push" /\ UNCHANGED <<buffers, send_buffer, before, written>>
            /\ pc'["loop"] = IF sent < Len(ready_bytes) THEN "rebuffer" ELSE "idle"
        BY <1>2, <2>9, <3>1 DEF B!Push, B!Goes
      <3>3. received' \o ready_bytes' = received \o ready_bytes
        BY <1>2, <3>1, SplitConcat
      <3>4. buffers[send_buffer] = << >> /\ B!InOrder(received' \o ready_bytes', before, written)
        BY <2>1, <3>2, <3>3 DEF LoopIsAt
      <3>5. CASE sent < Len(ready_bytes)
        <4>1. LoopIsAt'
          BY <3>2, <3>4, <3>5 DEF LoopIsAt, B!InOrder
        <4> QED
          BY <2>3, <2>4, <4>1 DEF ClientInv
      <3>6. CASE ~(sent < Len(ready_bytes))
        <4>1. sent = Len(ready_bytes) /\ Len(ready_bytes) \in Nat
          BY <1>2, <3>6, LenProperties
        <4>2. ready_bytes' = << >>
          BY <3>1, <4>1, SubSeqEmpty
        <4>3. received' \o buffers'[send_buffer'] = received' \o ready_bytes'
          BY <3>2, <3>4, <4>2
        <4>4. LoopIsAt'
          BY <3>2, <3>4, <3>6, <4>3 DEF LoopIsAt, B!InOrder
        <4> QED
          BY <2>3, <2>4, <4>4 DEF ClientInv
      <3> QED
        BY <3>5, <3>6
    <2>10. CASE B!Rebuffer("loop")
      <3>1. /\ pc["loop"] = "rebuffer" /\ pc'["loop"] = "extend" /\ found'["loop"] = send_buffer
            /\ UNCHANGED <<received, ready_bytes, buffers, send_buffer, before, written>>
        BY <1>2, <2>10 DEF B!Rebuffer, B!Goes, B!Finds
      <3>2. buffers[send_buffer] = << >> /\ B!InOrder(received \o ready_bytes, before, written)
        BY <2>1, <3>1 DEF LoopIsAt
      <3>3. LoopIsAt'
        BY <3>1, <3>2 DEF LoopIsAt, B!InOrder
      <3> QED
        BY <2>3, <2>4, <3>3 DEF ClientInv
    <2>11. CASE B!Extend("loop")
      <3>1. /\ pc["loop"] = "extend" /\ pc'["loop"] = "idle"
            /\ buffers' = [buffers EXCEPT ![found["loop"]] = @ \o ready_bytes]
            /\ UNCHANGED <<received, send_buffer, before, written>>
        BY <1>2, <2>11 DEF B!Extend, B!Goes
      <3>2. /\ found["loop"] = send_buffer /\ buffers[send_buffer] = << >>
            /\ B!InOrder(received \o ready_bytes, before, written)
        BY <2>1, <3>1 DEF LoopIsAt
      <3>3. buffers[send_buffer] \o ready_bytes = ready_bytes
        BY <1>2, <3>2, ConcatEmptySeq
      <3>4. buffers'[send_buffer] = ready_bytes
        BY <1>2, <3>1, <3>2, <3>3, BufferGrows
      <3>5. received' \o buffers'[send_buffer'] = received \o ready_bytes
        BY <3>1, <3>4
      <3>6. LoopIsAt'
        BY <3>1, <3>2, <3>5 DEF LoopIsAt, B!InOrder
      <3> QED
        BY <2>3, <2>4, <3>6 DEF ClientInv
    <2> QED
      BY <2>2, <2>5, <2>6, <2>7, <2>8, <2>9, <2>10, <2>11
  <1> QED
    BY <1>4, <1>5, <1>7, <1>8

\* The bytes that a client is sent once its terminal is registered are those that were
\* buffered since, all of them in their order, and none of before comes after them,
\* however little the socket takes and wherever the connect thread stopped
\* (client.py:75-104).
THEOREM ClientIsSentInOrder ==
  ASSUME B!ClientAssumption
  PROVE  B!Spec => []B!SentInOrder
  <1>1. B!Init => ClientInv
    BY ClientInit
  <1>2. ClientInv /\ [B!Next]_B!vars => ClientInv'
    BY ClientTypeNext, BytesNext, LoopNext
  <1>3. ClientInv => B!SentInOrder
    BY DEF ClientInv, LoopIsAt, B!SentInOrder
  <1> QED
    BY <1>1, <1>2, <1>3, PTL DEF B!Spec

-----------------------------------------------------------------------------
(* Door.  The keys that were typed are in one place each: written to the pty,  *)
(* in the rest that was buffered again, under way, or consumed; each place is  *)
(* in order, and so are the places.  Strict order makes them apart.           *)

\* Every key consumed was typed.
ConsumedTyped == consumed \subseteq 1 .. typed

\* The inductive invariant
DoorInv == D!TypeOK /\ D!DoorReadsInOrder /\ ConsumedTyped

\* The keys of a sequence of events, and their order
KeysIn(events) == UNION {D!KeysOf(events[i]) : i \in DOMAIN events}

EventsInOrder(events) ==
  /\ \A i \in DOMAIN events : events[i].event = "input" => D!Ascending(events[i].data)
  /\ \A i, j \in DOMAIN events : i < j => D!Before(D!KeysOf(events[i]), D!KeysOf(events[j]))

\* What comes before has nothing in common with what comes after.
LEMMA BeforeIsApart ==
  ASSUME NEW some \in SUBSET Nat, NEW others \in SUBSET Nat, D!Before(some, others)
  PROVE  some \cap others = {}
  <1>1. ASSUME NEW key \in some, key \in others PROVE FALSE
    <2>1. key < key /\ key \in Nat
      BY <1>1 DEF D!Before
    <2> QED
      BY <2>1
  <1> QED
    BY <1>1

\* The keys of an event are keys.
LEMMA KeysAreKeys ==
  ASSUME NEW event \in D!Event
  PROVE  /\ D!KeysOf(event) \subseteq D!Key
         /\ event.event = "input" => event.data \in Seq(D!Key) /\ D!KeysOf(event) = D!ToSet(event.data)
  <1>1. CASE event.event = "input"
    <2>1. event.data \in Seq(D!Key)
      BY <1>1 DEF D!Event
    <2>2. D!ToSet(event.data) \subseteq D!Key
      BY <2>1, LenProperties, ElementOfSeq DEF D!ToSet
    <2> QED
      BY <1>1, <2>1, <2>2 DEF D!KeysOf
  <1>2. CASE event.event # "input"
    BY <1>2 DEF D!KeysOf
  <1> QED
    BY <1>1, <1>2

\* An event whose keys come after all others, at the end of the pipe.
LEMMA EventsAppend ==
  ASSUME NEW events \in Seq(D!Event), NEW event \in D!Event, EventsInOrder(events),
         D!Before(KeysIn(events), D!KeysOf(event)),
         event.event = "input" => D!Ascending(event.data)
  PROVE  /\ EventsInOrder(Append(events, event))
         /\ KeysIn(Append(events, event)) = KeysIn(events) \cup D!KeysOf(event)
         /\ Append(events, event) \in Seq(D!Event)
  <1> DEFINE more == Append(events, event)
             n == Len(events)
  <1>1. /\ n \in Nat /\ DOMAIN events = 1 .. n
        /\ more \in Seq(D!Event) /\ Len(more) = n + 1 /\ more[n + 1] = event
        /\ \A i \in 1 .. n : more[i] = events[i]
    BY LenProperties, AppendProperties
  <1>2. DOMAIN more = 1 .. n + 1
    BY <1>1, LenProperties
  <1> HIDE DEF more, n
  <1>3. \A i \in 1 .. n + 1 : i \in 1 .. n \/ i = n + 1
    BY <1>1
  <1>4. n + 1 \in 1 .. n + 1 /\ \A i \in 1 .. n : i \in 1 .. n + 1 /\ i < n + 1 /\ ~(n + 1 < i)
    BY <1>1
  <1>5. KeysIn(more) = KeysIn(events) \cup D!KeysOf(event)
    BY <1>1, <1>2, <1>3, <1>4 DEF KeysIn
  <1>6. \A i \in 1 .. n : D!KeysOf(events[i]) \subseteq KeysIn(events)
    BY <1>1 DEF KeysIn
  <1>7. ASSUME NEW i \in 1 .. n + 1, NEW j \in 1 .. n + 1, i < j
        PROVE  D!Before(D!KeysOf(more[i]), D!KeysOf(more[j]))
    <2>1. i \in 1 .. n
      BY <1>1, <1>7
    <2>2. CASE j = n + 1
      BY <1>1, <1>6, <2>1, <2>2 DEF D!Before
    <2>3. CASE j # n + 1
      BY <1>1, <1>3, <1>7, <2>1, <2>3 DEF EventsInOrder
    <2> QED
      BY <2>2, <2>3
  <1>8. \A i \in DOMAIN more : more[i].event = "input" => D!Ascending(more[i].data)
    BY <1>1, <1>2, <1>3 DEF EventsInOrder
  <1>9. EventsInOrder(more)
    BY <1>2, <1>7, <1>8 DEF EventsInOrder
  <1> QED
    BY <1>1, <1>5, <1>9 DEF more

\* The first event of the pipe, whose keys come before all others, is taken.
LEMMA EventsTail ==
  ASSUME NEW events \in Seq(D!Event), events # << >>, EventsInOrder(events)
  PROVE  /\ Tail(events) \in Seq(D!Event) /\ EventsInOrder(Tail(events))
         /\ Head(events) \in D!Event
         /\ Head(events).event = "input" => D!Ascending(Head(events).data)
         /\ KeysIn(events) = D!KeysOf(Head(events)) \cup KeysIn(Tail(events))
         /\ D!Before(D!KeysOf(Head(events)), KeysIn(Tail(events)))
  <1> DEFINE less == Tail(events)
             first == Head(events)
             n == Len(events)
  <1>1. /\ n \in Nat /\ DOMAIN events = 1 .. n /\ first \in D!Event
        /\ less \in Seq(D!Event) /\ Len(less) = n - 1
        /\ \A i \in 1 .. Len(less) : less[i] = events[i + 1]
    BY LenProperties, HeadTailProperties
  <1>2. n # 0 /\ first = events[1]
    BY EmptySeq
  <1>3. DOMAIN less = 1 .. n - 1
    BY <1>1, LenProperties
  <1> HIDE DEF less, first, n
  <1>4. 1 \in 1 .. n /\ \A i \in 1 .. n - 1 : i + 1 \in 1 .. n /\ 1 < i + 1 /\ less[i] = events[i + 1]
    BY <1>1, <1>2
  <1>5. \A i \in 1 .. n : i = 1 \/ (i - 1 \in 1 .. n - 1 /\ less[i - 1] = events[i])
    BY <1>1, <1>2
  <1>6. KeysIn(events) = D!KeysOf(first) \cup KeysIn(less)
    <2>1. ASSUME NEW key \in KeysIn(events) PROVE key \in D!KeysOf(first) \cup KeysIn(less)
      <3>1. PICK i \in 1 .. n : key \in D!KeysOf(events[i])
        BY <1>1, <2>1 DEF KeysIn
      <3> QED
        BY <1>2, <1>3, <1>5, <3>1 DEF KeysIn
    <2>2. ASSUME NEW key \in KeysIn(less) PROVE key \in KeysIn(events)
      BY <1>1, <1>3, <1>4, <2>2 DEF KeysIn
    <2>3. D!KeysOf(first) \subseteq KeysIn(events)
      BY <1>1, <1>2, <1>4 DEF KeysIn
    <2> QED
      BY <2>1, <2>2, <2>3
  <1>7. D!Before(D!KeysOf(first), KeysIn(less))
    <2>1. ASSUME NEW key \in D!KeysOf(first), NEW other \in KeysIn(less) PROVE key < other
      <3>1. PICK i \in 1 .. n - 1 : other \in D!KeysOf(less[i])
        BY <1>3, <2>1 DEF KeysIn
      <3>2. D!Before(D!KeysOf(events[1]), D!KeysOf(events[i + 1]))
        BY <1>1, <1>4 DEF EventsInOrder
      <3> QED
        BY <1>2, <1>4, <2>1, <3>1, <3>2 DEF D!Before
    <2> QED
      BY <2>1 DEF D!Before
  <1>8. EventsInOrder(less)
    <2>1. \A i \in 1 .. n - 1 : less[i].event = "input" => D!Ascending(less[i].data)
      BY <1>1, <1>4 DEF EventsInOrder
    <2>2. ASSUME NEW i \in 1 .. n - 1, NEW j \in 1 .. n - 1, i < j
          PROVE  D!Before(D!KeysOf(less[i]), D!KeysOf(less[j]))
      <3>1. i + 1 < j + 1
        BY <1>1, <2>2
      <3> QED
        BY <1>1, <1>4, <3>1 DEF EventsInOrder
    <2> QED
      BY <1>3, <2>1, <2>2 DEF EventsInOrder
  <1>9. first.event = "input" => D!Ascending(first.data)
    BY <1>1, <1>2, <1>4 DEF EventsInOrder
  <1> QED
    BY <1>1, <1>6, <1>7, <1>8, <1>9 DEF less, first

\* Keys in order, split in two: the first part comes before the second.
LEMMA KeysSplit ==
  ASSUME NEW data \in Seq(Nat), D!Ascending(data), NEW n \in 0 .. Len(data)
  PROVE  LET part == SubSeq(data, 1, n)
             rest == SubSeq(data, n + 1, Len(data)) IN
         /\ D!Ascending(part) /\ D!Ascending(rest)
         /\ D!ToSet(data) = D!ToSet(part) \cup D!ToSet(rest)
         /\ D!Before(D!ToSet(part), D!ToSet(rest))
  <1> DEFINE part == SubSeq(data, 1, n)
             rest == SubSeq(data, n + 1, Len(data))
             len == Len(data)
  <1>1. len \in Nat /\ DOMAIN data = 1 .. len /\ \A i \in 1 .. len : data[i] \in Nat
    BY LenProperties, ElementOfSeq
  <1>2. /\ part \in Seq(Nat) /\ Len(part) = n /\ \A i \in 1 .. n : part[i] = data[i]
    <2>1. /\ part \in Seq(Nat) /\ Len(part) = IF 1 <= n THEN n - 1 + 1 ELSE 0
          /\ \A i \in 1 .. n - 1 + 1 : part[i] = data[1 + i - 1]
      BY <1>1, SubSeqProperties
    <2>2. \A i \in 1 .. n : 1 + i - 1 = i /\ i \in 1 .. n - 1 + 1
      BY <1>1
    <2> QED
      BY <1>1, <2>1, <2>2
  <1>3. /\ rest \in Seq(Nat) /\ Len(rest) = len - n /\ \A i \in 1 .. len - n : rest[i] = data[n + i]
    <2>1. /\ rest \in Seq(Nat)
          /\ Len(rest) = IF n + 1 <= len THEN len - (n + 1) + 1 ELSE 0
          /\ \A i \in 1 .. len - (n + 1) + 1 : rest[i] = data[(n + 1) + i - 1]
      BY <1>1, SubSeqProperties
    <2>2. ASSUME NEW i \in 1 .. len - n PROVE rest[i] = data[n + i]
      <3>1. (n + 1) + i - 1 = n + i /\ i \in 1 .. len - (n + 1) + 1
        BY <1>1
      <3>2. rest[i] = data[(n + 1) + i - 1]
        BY <2>1, <3>1
      <3> QED
        BY <3>1, <3>2
    <2>3. len \in Nat /\ n \in Nat /\ n <= len
      BY <1>1
    <2>4. Len(rest) = len - n
      <3>1. Len(rest) = IF n + 1 <= len THEN len - (n + 1) + 1 ELSE 0
        BY <2>1
      <3>2. CASE n + 1 <= len
        BY <1>1, <3>1, <3>2
      <3>3. CASE ~(n + 1 <= len)
        <4> HIDE DEF len
        <4>1. n = len /\ len - n = 0
          BY <2>3, <3>3
        <4> QED
          BY <3>1, <3>3, <4>1
      <3> QED
        BY <3>2, <3>3
    <2> QED
      BY <2>1, <2>2, <2>4
  <1>4. DOMAIN part = 1 .. n /\ DOMAIN rest = 1 .. len - n
    BY <1>2, <1>3, LenProperties
  <1> HIDE DEF part, rest, len
  <1>5. /\ \A i \in 1 .. n : i \in 1 .. len
        /\ \A i \in 1 .. len - n : n + i \in 1 .. len
        /\ \A i \in 1 .. n, j \in 1 .. len - n : i < n + j
        /\ \A i \in 1 .. len : i \in 1 .. n \/ (i - n \in 1 .. len - n /\ n + (i - n) = i)
    BY <1>1
  <1>6. D!Ascending(part)
    BY <1>1, <1>2, <1>4, <1>5 DEF D!Ascending
  <1>7. D!Ascending(rest)
    <2>1. ASSUME NEW i \in 1 .. len - n, NEW j \in 1 .. len - n, i < j PROVE rest[i] < rest[j]
      <3>1. n + i < n + j /\ n + i \in 1 .. len /\ n + j \in 1 .. len
        BY <1>1, <2>1
      <3>2. data[n + i] < data[n + j]
        BY <1>1, <3>1 DEF D!Ascending
      <3> QED
        BY <1>3, <3>2
    <2> QED
      BY <1>4, <2>1 DEF D!Ascending
  <1>8. D!ToSet(data) = D!ToSet(part) \cup D!ToSet(rest)
    <2>1. ASSUME NEW i \in 1 .. len PROVE data[i] \in D!ToSet(part) \cup D!ToSet(rest)
      <3>1. CASE i \in 1 .. n
        BY <1>2, <1>4, <3>1 DEF D!ToSet
      <3>2. CASE i \notin 1 .. n
        <4>1. i - n \in 1 .. len - n /\ rest[i - n] = data[i]
          BY <1>3, <1>5, <3>2
        <4> QED
          BY <1>4, <4>1 DEF D!ToSet
      <3> QED
        BY <3>1, <3>2
    <2>2. ASSUME NEW i \in 1 .. n PROVE part[i] \in D!ToSet(data)
      BY <1>1, <1>2, <1>5 DEF D!ToSet
    <2>3. ASSUME NEW i \in 1 .. len - n PROVE rest[i] \in D!ToSet(data)
      BY <1>1, <1>3, <1>5 DEF D!ToSet
    <2>4. /\ D!ToSet(data) = {data[i] : i \in 1 .. len} /\ D!ToSet(part) = {part[i] : i \in 1 .. n}
          /\ D!ToSet(rest) = {rest[i] : i \in 1 .. len - n}
      BY <1>1, <1>4 DEF D!ToSet
    <2> QED
      BY <2>1, <2>2, <2>3, <2>4
  <1>9. D!Before(D!ToSet(part), D!ToSet(rest))
    <2>1. ASSUME NEW i \in 1 .. n, NEW j \in 1 .. len - n PROVE part[i] < rest[j]
      <3>1. i \in 1 .. len /\ n + j \in 1 .. len /\ i < n + j
        BY <1>5
      <3>2. data[i] < data[n + j]
        BY <1>1, <3>1 DEF D!Ascending
      <3> QED
        BY <1>2, <1>3, <3>2
    <2> QED
      BY <1>4, <2>1 DEF D!ToSet, D!Before
  <1> QED
    BY <1>6, <1>7, <1>8, <1>9 DEF part, rest, len

\* Keys in order after keys that come before.
LEMMA KeysConcat ==
  ASSUME NEW s \in Seq(Nat), NEW t \in Seq(Nat), D!Ascending(s), D!Ascending(t),
         D!Before(D!ToSet(s), D!ToSet(t))
  PROVE  D!Ascending(s \o t) /\ D!ToSet(s \o t) = D!ToSet(s) \cup D!ToSet(t)
  <1> DEFINE both == s \o t
             m == Len(s)
             n == Len(t)
  <1>1. /\ m \in Nat /\ n \in Nat /\ DOMAIN s = 1 .. m /\ DOMAIN t = 1 .. n
        /\ both \in Seq(Nat) /\ Len(both) = m + n
        /\ \A i \in 1 .. m + n : both[i] = IF i <= m THEN s[i] ELSE t[i - m]
    BY LenProperties, ConcatProperties
  <1>2. DOMAIN both = 1 .. m + n
    BY <1>1, LenProperties
  <1> HIDE DEF both, m, n
  <1>3. /\ \A i \in 1 .. m : i \in 1 .. m + n /\ both[i] = s[i]
        /\ \A i \in 1 .. n : m + i \in 1 .. m + n /\ both[m + i] = t[i]
        /\ \A i \in 1 .. m + n : i \in 1 .. m \/ (i - m \in 1 .. n /\ m + (i - m) = i)
    <2>1. ASSUME NEW i \in 1 .. n PROVE m + i \in 1 .. m + n /\ both[m + i] = t[i]
      <3>1. m + i \in 1 .. m + n /\ ~(m + i <= m) /\ (m + i) - m = i
        BY <1>1
      <3> QED
        BY <1>1, <3>1
    <2> QED
      BY <1>1, <2>1
  <1>4. ASSUME NEW i \in 1 .. m + n, NEW j \in 1 .. m + n, i < j PROVE both[i] < both[j]
    <2>1. CASE j \in 1 .. m
      <3>1. i \in 1 .. m
        BY <1>1, <1>4, <2>1
      <3> QED
        BY <1>1, <1>3, <1>4, <2>1, <3>1 DEF D!Ascending
    <2>2. CASE i \in 1 .. m /\ j \notin 1 .. m
      <3>1. j - m \in 1 .. n /\ both[j] = t[j - m]
        BY <1>3, <2>2
      <3>2. both[i] = s[i] /\ s[i] \in D!ToSet(s) /\ t[j - m] \in D!ToSet(t)
        BY <1>1, <1>3, <2>2, <3>1 DEF D!ToSet
      <3> QED
        BY <3>1, <3>2 DEF D!Before
    <2>3. CASE i \notin 1 .. m /\ j \notin 1 .. m
      <3>1. /\ i - m \in 1 .. n /\ both[i] = t[i - m] /\ j - m \in 1 .. n /\ both[j] = t[j - m]
            /\ i - m < j - m
        BY <1>1, <1>3, <1>4, <2>3
      <3> QED
        BY <1>1, <3>1 DEF D!Ascending
    <2> QED
      BY <2>1, <2>2, <2>3
  <1>5. D!Ascending(both)
    BY <1>2, <1>4 DEF D!Ascending
  <1>6. D!ToSet(both) = D!ToSet(s) \cup D!ToSet(t)
    <2>1. ASSUME NEW i \in 1 .. m + n PROVE both[i] \in D!ToSet(s) \cup D!ToSet(t)
      <3>1. CASE i \in 1 .. m
        BY <1>1, <1>3, <3>1 DEF D!ToSet
      <3>2. CASE i \notin 1 .. m
        <4>1. i - m \in 1 .. n /\ both[i] = t[i - m]
          BY <1>3, <3>2
        <4> QED
          BY <1>1, <4>1 DEF D!ToSet
      <3> QED
        BY <3>1, <3>2
    <2>2. ASSUME NEW i \in 1 .. m PROVE s[i] \in D!ToSet(both)
      BY <1>2, <1>3 DEF D!ToSet
    <2>3. ASSUME NEW i \in 1 .. n PROVE t[i] \in D!ToSet(both)
      BY <1>2, <1>3 DEF D!ToSet
    <2>4. /\ D!ToSet(both) = {both[i] : i \in 1 .. m + n} /\ D!ToSet(s) = {s[i] : i \in 1 .. m}
          /\ D!ToSet(t) = {t[i] : i \in 1 .. n}
      BY <1>1, <1>2 DEF D!ToSet
    <2> QED
      BY <2>1, <2>2, <2>3, <2>4
  <1> QED
    BY <1>5, <1>6 DEF both

\* What the types say of the keys, in the words of the lemmas.
LEMMA DoorTypes ==
  ASSUME D!DoorAssumption, D!TypeOK
  PROVE  /\ MaxKeys \in Nat /\ D!Key \subseteq Nat /\ typed \in Nat
         /\ pty \in Seq(D!Key) /\ pty \in Seq(Nat) /\ Seq(D!Key) \subseteq Seq(Nat)
         /\ input \in Seq(Seq(D!Key)) /\ pipe \in Seq(D!Event)
         /\ DOMAIN input = 1 .. Len(input) /\ Len(input) \in Nat
         /\ \A i \in DOMAIN input : input[i] \in Seq(D!Key)
         /\ D!Written \subseteq Nat /\ D!Buffered \subseteq Nat /\ D!UnderWay \subseteq Nat
         /\ D!UnderWay = KeysIn(pipe)
  <1>1. MaxKeys \in Nat /\ D!Key \subseteq Nat /\ typed \in Nat
    BY DEF D!DoorAssumption, D!Key, D!TypeOK
  <1>2. Seq(D!Key) \subseteq Seq(Nat)
    BY <1>1, SeqMonotonic
  <1>3. pty \in Seq(D!Key) /\ input \in Seq(Seq(D!Key)) /\ pipe \in Seq(D!Event)
    BY DEF D!TypeOK
  <1>4. DOMAIN input = 1 .. Len(input) /\ Len(input) \in Nat
    BY <1>3, LenProperties
  <1>5. \A i \in DOMAIN input : input[i] \in Seq(D!Key)
    BY <1>3, <1>4, ElementOfSeq
  <1>6. \A s \in Seq(D!Key) : D!ToSet(s) \subseteq Nat
    BY <1>1, LenProperties, ElementOfSeq DEF D!ToSet
  <1>7. D!Written \subseteq Nat /\ D!Buffered \subseteq Nat
    BY <1>3, <1>5, <1>6 DEF D!Written, D!Buffered
  <1>8. \A i \in DOMAIN pipe : D!KeysOf(pipe[i]) \subseteq D!Key
    BY <1>3, LenProperties, ElementOfSeq, KeysAreKeys
  <1>9. D!UnderWay \subseteq Nat /\ D!UnderWay = KeysIn(pipe)
    BY <1>1, <1>8 DEF D!UnderWay, KeysIn
  <1> QED
    BY <1>1, <1>2, <1>3, <1>4, <1>5, <1>7, <1>9

\* What is buffered is the rest of one event at most.
LEMMA OneRest ==
  ASSUME D!DoorAssumption, D!TypeOK, D!KeysInOrder
  PROVE  /\ input = << >> => D!Buffered = {}
         /\ input # << >> =>
              /\ D!Front(input) = << >> /\ D!Last(input) = input[1] /\ input = <<input[1]>>
              /\ input[1] \in Seq(D!Key) /\ D!Ascending(input[1])
              /\ D!Buffered = D!ToSet(input[1])
  <1>1. /\ input \in Seq(Seq(D!Key)) /\ DOMAIN input = 1 .. Len(input) /\ Len(input) \in Nat
        /\ \A i \in DOMAIN input : input[i] \in Seq(D!Key) /\ D!Ascending(input[i])
        /\ Len(input) <= 1
    BY DoorTypes DEF D!KeysInOrder
  <1>2. ASSUME input = << >> PROVE D!Buffered = {}
    <2>1. DOMAIN << >> = {}
      OBVIOUS
    <2> QED
      BY <1>2, <2>1 DEF D!Buffered
  <1>3. ASSUME input # << >>
        PROVE  /\ D!Front(input) = << >> /\ D!Last(input) = input[1] /\ input = <<input[1]>>
               /\ input[1] \in Seq(D!Key) /\ D!Ascending(input[1])
               /\ D!Buffered = D!ToSet(input[1])
    <2>1. Len(input) # 0
      BY <1>1, <1>3, EmptySeq
    <2>2. Len(input) = 1 /\ DOMAIN input = {1}
      BY <1>1, <2>1
    <2>3. input = <<input[1]>>
      <3>1. <<input[1]>> \in Seq(Seq(D!Key)) /\ Len(<<input[1]>>) = 1 /\ <<input[1]>>[1] = input[1]
        BY <1>1, <2>2
      <3>2. \A i \in 1 .. Len(input) : input[i] = <<input[1]>>[i]
        BY <1>1, <2>2, <3>1
      <3> QED
        BY <1>1, <2>2, <3>1, <3>2, SeqEqual
    <2>4. D!Front(input) = << >>
      <3>1. 0 < 1 /\ 1 - 1 = 0
        OBVIOUS
      <3> QED
        BY <2>2, <3>1, SubSeqEmpty DEF D!Front
    <2>5. D!Last(input) = input[1]
      BY <2>2 DEF D!Last
    <2>6. D!Buffered = D!ToSet(input[1])
      BY <2>2 DEF D!Buffered
    <2> QED
      BY <1>1, <2>2, <2>3, <2>4, <2>5, <2>6
  <1> QED
    BY <1>2, <1>3

\* The initial state satisfies the invariant.
LEMMA DoorInit == D!DoorAssumption /\ D!Init => DoorInv
  <1> SUFFICES ASSUME D!DoorAssumption, D!Init PROVE DoorInv
    OBVIOUS
  <1>1. pty = << >> /\ input = << >> /\ pipe = << >> /\ consumed = {} /\ typed = 0
    BY DEF D!Init
  <1>2. DOMAIN << >> = {} /\ Len(<< >>) = 0
    BY EmptySeq
  <1>3. D!TypeOK
    <2>1. 0 \in 0 .. MaxResizes /\ 0 \in 0 .. MaxGosubs /\ 0 \in 0 .. MaxKeys
      BY DEF D!DoorAssumption
    <2>2. pipe \in Seq(D!Event) /\ input \in Seq(Seq(D!Key)) /\ pty \in Seq(D!Key)
      BY <1>1
    <2> QED
      BY <1>1, <2>1, <2>2 DEF D!Init, D!TypeOK, D!Size
  <1>4. D!Written = {} /\ D!Buffered = {} /\ D!UnderWay = {}
    BY <1>1, <1>2 DEF D!Written, D!Buffered, D!UnderWay, D!ToSet
  <1>5. D!KeysInOrder
    BY <1>1, <1>2, <1>4 DEF D!KeysInOrder, D!Ascending, D!Before
  <1>6. 1 .. 0 = {}
    OBVIOUS
  <1> QED
    BY <1>1, <1>3, <1>4, <1>5, <1>6 DEF DoorInv, D!DoorReadsInOrder, ConsumedTyped

\* What is in a place is not consumed, and was typed.
LEMMA PlacesAreApart ==
  ASSUME D!DoorAssumption, DoorInv
  PROVE  /\ D!TypeOK /\ D!KeysInOrder
         /\ EventsInOrder(pipe)
         /\ D!Written \cap D!Buffered = {}
         /\ (D!Written \cup D!Buffered) \cap D!UnderWay = {}
         /\ D!Written \cup D!Buffered \cup D!UnderWay = (1 .. typed) \ consumed
         /\ consumed \subseteq 1 .. typed
  <1>1. D!TypeOK /\ D!KeysInOrder /\ consumed \subseteq 1 .. typed
        /\ D!Written \cup D!Buffered \cup D!UnderWay = (1 .. typed) \ consumed
    BY DEF DoorInv, D!DoorReadsInOrder, ConsumedTyped
  <1>2. D!Written \subseteq Nat /\ D!Buffered \subseteq Nat /\ D!UnderWay \subseteq Nat
    BY <1>1, DoorTypes
  <1>3. D!Written \cap D!Buffered = {}
    BY <1>1, <1>2, BeforeIsApart DEF D!KeysInOrder
  <1>4. (D!Written \cup D!Buffered) \cap D!UnderWay = {}
    BY <1>1, <1>2, BeforeIsApart DEF D!KeysInOrder
  <1>5. EventsInOrder(pipe)
    BY <1>1 DEF D!KeysInOrder, EventsInOrder
  <1> QED
    BY <1>1, <1>3, <1>4, <1>5

\* A step that moves no key.
LEMMA KeysStay ==
  ASSUME D!DoorAssumption, DoorInv, UNCHANGED <<pty, input, pipe, typed, consumed>>
  PROVE  D!DoorReadsInOrder' /\ ConsumedTyped'
  BY DEF DoorInv, D!DoorReadsInOrder, ConsumedTyped, D!KeysInOrder, D!Written, D!Buffered,
     D!UnderWay

\* The places as they are after a step.
LEMMA PlacesNext ==
  ASSUME D!Ascending(pty'),
         Len(input') <= 1, \A i \in DOMAIN input' : D!Ascending(input'[i]),
         EventsInOrder(pipe'),
         NEW W, W = D!ToSet(pty'),
         NEW U, U = UNION {D!ToSet(input'[i]) : i \in DOMAIN input'},
         NEW P, P = KeysIn(pipe'),
         D!Before(W, U), D!Before(W \cup U, P),
         W \cup U \cup P = (1 .. typed') \ consumed'
  PROVE  D!DoorReadsInOrder'
  <1>1. D!Written' = W /\ D!Buffered' = U /\ D!UnderWay' = P
    BY DEF D!Written, D!Buffered, D!UnderWay, KeysIn
  <1>2. D!KeysInOrder'
    BY <1>1 DEF D!KeysInOrder, EventsInOrder, D!Before
  <1> QED
    BY <1>1, <1>2 DEF D!DoorReadsInOrder

\* The first event of the pipe is taken, and its keys, if any, are consumed.
LEMMA KeysTaken ==
  ASSUME D!DoorAssumption, DoorInv, pipe # << >>, pipe' = Tail(pipe),
         consumed' = consumed \cup D!KeysOf(Head(pipe)),
         UNCHANGED <<pty, input, typed>>
  PROVE  D!DoorReadsInOrder' /\ ConsumedTyped'
  <1>1. /\ D!TypeOK /\ D!KeysInOrder /\ EventsInOrder(pipe)
        /\ (D!Written \cup D!Buffered) \cap D!UnderWay = {}
        /\ D!Written \cup D!Buffered \cup D!UnderWay = (1 .. typed) \ consumed
        /\ consumed \subseteq 1 .. typed
    BY PlacesAreApart
  <1>2. pipe \in Seq(D!Event) /\ D!UnderWay = KeysIn(pipe) /\ D!UnderWay \subseteq Nat
    BY <1>1, DoorTypes
  <1> DEFINE P == KeysIn(Tail(pipe))
             H == D!KeysOf(Head(pipe))
             W == D!ToSet(pty)
             U == UNION {D!ToSet(input[i]) : i \in DOMAIN input}
  <1>3. /\ EventsInOrder(pipe') /\ D!UnderWay = H \cup P /\ D!Before(H, P)
    BY <1>1, <1>2, EventsTail
  <1>4. H \cap P = {}
    BY <1>2, <1>3, BeforeIsApart
  <1>5. W = D!Written /\ U = D!Buffered
    BY DEF D!Written, D!Buffered
  <1>6. W = D!ToSet(pty') /\ U = UNION {D!ToSet(input'[i]) : i \in DOMAIN input'}
        /\ P = KeysIn(pipe')
    OBVIOUS
  <1> HIDE DEF P, H, W, U
  <1>7. W \cup U \cup P = (1 .. typed') \ consumed'
    BY <1>1, <1>3, <1>4, <1>5 DEF H
  <1>8. D!Before(W, U) /\ D!Before(W \cup U, P)
    BY <1>1, <1>3, <1>5 DEF D!KeysInOrder, D!Before
  <1>9. D!Ascending(pty') /\ Len(input') <= 1 /\ \A i \in DOMAIN input' : D!Ascending(input'[i])
    BY <1>1 DEF D!KeysInOrder
  <1>10. D!DoorReadsInOrder'
    BY <1>3, <1>6, <1>7, <1>8, <1>9, PlacesNext
  <1>11. ConsumedTyped'
    BY <1>1, <1>3 DEF ConsumedTyped, H
  <1> QED
    BY <1>10, <1>11

\* What is buffered is consumed.
LEMMA RestTaken ==
  ASSUME D!DoorAssumption, DoorInv, input' = << >>, consumed' = consumed \cup D!Buffered,
         UNCHANGED <<pty, pipe, typed>>
  PROVE  D!DoorReadsInOrder' /\ ConsumedTyped'
  <1>1. /\ D!TypeOK /\ D!KeysInOrder /\ EventsInOrder(pipe)
        /\ D!Written \cap D!Buffered = {} /\ (D!Written \cup D!Buffered) \cap D!UnderWay = {}
        /\ D!Written \cup D!Buffered \cup D!UnderWay = (1 .. typed) \ consumed
        /\ consumed \subseteq 1 .. typed
    BY PlacesAreApart
  <1>2. D!UnderWay = KeysIn(pipe)
    BY <1>1, DoorTypes
  <1> DEFINE P == KeysIn(pipe)
             W == D!ToSet(pty)
  <1>3. W = D!Written /\ W = D!ToSet(pty') /\ P = KeysIn(pipe')
    BY DEF D!Written
  <1>4. DOMAIN << >> = {} /\ Len(<< >>) = 0
    BY EmptySeq
  <1>5. /\ {} = UNION {D!ToSet(input'[i]) : i \in DOMAIN input'}
        /\ Len(input') <= 1 /\ \A i \in DOMAIN input' : D!Ascending(input'[i])
    BY <1>4
  <1> HIDE DEF P, W
  <1>6. W \cup {} \cup P = (1 .. typed') \ consumed'
    BY <1>1, <1>2, <1>3 DEF P
  <1>7. D!Before(W, {}) /\ D!Before(W \cup {}, P)
    BY <1>1, <1>2, <1>3 DEF D!KeysInOrder, D!Before, P
  <1>8. D!Ascending(pty') /\ EventsInOrder(pipe')
    BY <1>1 DEF D!KeysInOrder
  <1>9. D!DoorReadsInOrder'
    BY <1>3, <1>5, <1>6, <1>7, <1>8, PlacesNext
  <1>10. ConsumedTyped'
    BY <1>1 DEF ConsumedTyped
  <1> QED
    BY <1>9, <1>10

\* A write of keys, of which the pty takes some and the rest is buffered again, or which
\* are dropped; they come after what was written and before what is under way.
LEMMA KeysWritten ==
  ASSUME D!DoorAssumption, DoorInv, NEW data \in Seq(D!Key), D!Ascending(data),
         NEW P \in SUBSET Nat, P = KeysIn(pipe'), EventsInOrder(pipe'), typed' = typed,
         D!Before(D!Written, D!ToSet(data)), D!Before(D!Written \cup D!ToSet(data), P),
         D!Written \cup D!ToSet(data) \cup P = (1 .. typed) \ consumed,
         \/ /\ consumed' = consumed \cup D!ToSet(data) /\ input' = << >> /\ pty' = pty
         \/ /\ \E n \in 0 .. Len(data) :
                 /\ pty' = pty \o SubSeq(data, 1, n)
                 /\ input' = D!Rebuffered(<< >>, SubSeq(data, n + 1, Len(data)))
            /\ consumed' = consumed
  PROVE  D!DoorReadsInOrder' /\ ConsumedTyped'
  <1>1. /\ D!TypeOK /\ D!KeysInOrder /\ consumed \subseteq 1 .. typed
    BY PlacesAreApart
  <1>2. /\ typed \in Nat /\ pty \in Seq(Nat) /\ data \in Seq(Nat) /\ D!Written \subseteq Nat
        /\ D!Key \subseteq Nat /\ D!Ascending(pty) /\ D!Written = D!ToSet(pty)
    BY <1>1, DoorTypes DEF D!KeysInOrder, D!Written
  <1>3. D!ToSet(data) \subseteq Nat /\ Len(data) \in Nat
    BY <1>2, LenProperties, ElementOfSeq DEF D!ToSet
  <1>4. D!ToSet(data) \subseteq 1 .. typed
    OBVIOUS
  <1>5. ConsumedTyped'
    BY <1>1, <1>4 DEF ConsumedTyped
  <1>6. DOMAIN << >> = {} /\ Len(<< >>) = 0 /\ UNION {D!ToSet(<< >>[i]) : i \in {}} = {}
    BY EmptySeq
  <1>7. CASE consumed' = consumed \cup D!ToSet(data) /\ input' = << >> /\ pty' = pty
    <2>1. D!ToSet(data) \cap D!Written = {} /\ D!ToSet(data) \cap P = {}
      <3>1. D!Before(D!ToSet(data), P)
        BY DEF D!Before
      <3> QED
        BY <1>2, <1>3, <3>1, BeforeIsApart
    <2> DEFINE W == D!Written
    <2>2. W = D!ToSet(pty') /\ D!Ascending(pty')
      BY <1>2, <1>7
    <2>3. /\ {} = UNION {D!ToSet(input'[i]) : i \in DOMAIN input'}
          /\ Len(input') <= 1 /\ \A i \in DOMAIN input' : D!Ascending(input'[i])
      BY <1>6, <1>7
    <2>4. D!Before(W, {}) /\ D!Before(W \cup {}, P)
      BY DEF D!Before
    <2>5. W \cup {} \cup P = (1 .. typed') \ consumed'
      BY <1>7, <2>1
    <2> HIDE DEF W
    <2>6. D!DoorReadsInOrder'
      BY <2>2, <2>3, <2>4, <2>5, PlacesNext
    <2> QED
      BY <1>5, <2>6
  <1>8. ASSUME NEW n \in 0 .. Len(data), pty' = pty \o SubSeq(data, 1, n),
               input' = D!Rebuffered(<< >>, SubSeq(data, n + 1, Len(data))), consumed' = consumed
        PROVE  D!DoorReadsInOrder'
    <2> DEFINE part == SubSeq(data, 1, n)
               rest == SubSeq(data, n + 1, Len(data))
               W == D!ToSet(pty \o part)
               U == D!ToSet(rest)
    <2>1. /\ D!Ascending(part) /\ D!Ascending(rest)
          /\ D!ToSet(data) = D!ToSet(part) \cup D!ToSet(rest)
          /\ D!Before(D!ToSet(part), D!ToSet(rest))
      BY <1>2, KeysSplit
    <2>2. part \in Seq(Nat)
      <3>1. \A i \in 1 .. n : data[i] \in Nat
        BY <1>2, <1>3, ElementOfSeq
      <3> QED
        BY <1>3, <3>1, SubSeqProperties
    <2>3. pty' = pty \o part /\ input' = IF rest = << >> THEN << >> ELSE Append(<< >>, rest)
      BY <1>8 DEF D!Rebuffered
    <2> HIDE DEF part, rest
    <2>4. D!Before(D!ToSet(pty), D!ToSet(part))
      BY <1>2, <2>1 DEF D!Before
    <2>5. D!Ascending(pty \o part) /\ W = D!Written \cup D!ToSet(part)
      BY <1>2, <2>2, <2>1, <2>4, KeysConcat
    <2>6. /\ U = UNION {D!ToSet(input'[i]) : i \in DOMAIN input'}
          /\ Len(input') <= 1 /\ \A i \in DOMAIN input' : D!Ascending(input'[i])
      <3>1. CASE rest = << >>
        <4>1. D!ToSet(rest) = {}
          BY <1>6, <3>1 DEF D!ToSet
        <4> QED
          BY <1>6, <2>3, <3>1, <4>1
      <3>2. CASE rest # << >>
        <4>1. input' = <<rest>>
          BY <2>3, <3>2
        <4>2. DOMAIN <<rest>> = {1} /\ Len(<<rest>>) = 1 /\ <<rest>>[1] = rest
          OBVIOUS
        <4> QED
          BY <2>1, <4>1, <4>2
      <3> QED
        BY <3>1, <3>2
    <2>7. D!Before(W, U) /\ D!Before(W \cup U, P)
      BY <2>1, <2>5 DEF D!Before
    <2>8. W \cup U \cup P = (1 .. typed') \ consumed'
      BY <1>8, <2>1, <2>5
    <2>9. W = D!ToSet(pty') /\ D!Ascending(pty')
      BY <2>3, <2>5
    <2> HIDE DEF W, U
    <2> QED
      BY <2>6, <2>7, <2>8, <2>9, PlacesNext
  <1> QED
    BY <1>5, <1>7, <1>8

\* What is typed comes after all that was typed before.
LEMMA KeysTyped ==
  ASSUME D!DoorAssumption, DoorInv, D!Type
  PROVE  D!TypeOK' /\ D!DoorReadsInOrder' /\ ConsumedTyped'
  <1>1. /\ D!TypeOK /\ D!KeysInOrder /\ EventsInOrder(pipe)
        /\ D!Written \cup D!Buffered \cup D!UnderWay = (1 .. typed) \ consumed
        /\ consumed \subseteq 1 .. typed
    BY PlacesAreApart
  <1>2. /\ MaxKeys \in Nat /\ typed \in Nat /\ pipe \in Seq(D!Event) /\ D!UnderWay = KeysIn(pipe)
        /\ typed <= MaxKeys
    BY <1>1, DoorTypes DEF D!TypeOK
  <1>3. PICK n \in 1 .. MaxKeys - typed :
          /\ typed' = typed + n
          /\ pipe' = Append(pipe, [event |-> "input", data |-> [i \in 1 .. n |-> typed + i]])
    BY DEF D!Type
  <1> DEFINE data == [i \in 1 .. n |-> typed + i]
             event == [event |-> "input", data |-> data]
             K == typed + 1 .. typed + n
  <1>4. /\ DOMAIN data = 1 .. n /\ \A i \in 1 .. n : data[i] = typed + i
        /\ n \in Nat /\ typed + n \in 0 .. MaxKeys
    BY <1>2
  <1>5. data \in Seq(D!Key)
    <2>1. \A i \in 1 .. n : typed + i \in D!Key
      BY <1>2 DEF D!Key
    <2> QED
      BY <1>4, <2>1, IsASeq
  <1>6. event \in D!Event /\ event.event = "input" /\ event.data = data
    BY <1>5 DEF D!Event
  <1> HIDE DEF data
  <1>7. D!ToSet(data) = K
    <2>1. \A i \in 1 .. n : typed + i \in K
      BY <1>2, <1>4
    <2>2. \A key \in K : key - typed \in 1 .. n /\ typed + (key - typed) = key
      BY <1>2, <1>4
    <2>3. ASSUME NEW key \in K PROVE key \in D!ToSet(data)
      BY <1>4, <2>2 DEF D!ToSet
    <2>4. ASSUME NEW key \in D!ToSet(data) PROVE key \in K
      BY <1>4, <2>1 DEF D!ToSet
    <2> QED
      BY <2>3, <2>4
  <1>8. D!Ascending(data)
    BY <1>2, <1>4 DEF D!Ascending
  <1>9. D!KeysOf(event) = K
    BY <1>6, <1>7 DEF D!KeysOf
  <1>10. \A key \in (1 .. typed) : \A other \in K : key < other
    BY <1>2, <1>4
  <1>11. D!Before(D!Written \cup D!Buffered, K) /\ D!Before(KeysIn(pipe), K)
    <2>1. D!Written \cup D!Buffered \subseteq 1 .. typed /\ KeysIn(pipe) \subseteq 1 .. typed
      BY <1>1, <1>2
    <2> QED
      BY <1>10, <2>1 DEF D!Before
  <1>12. pipe' = Append(pipe, event)
    BY <1>3 DEF data
  <1> HIDE DEF event
  <1>13. /\ EventsInOrder(pipe') /\ KeysIn(pipe') = KeysIn(pipe) \cup K
         /\ pipe' \in Seq(D!Event)
    BY <1>1, <1>2, <1>6, <1>8, <1>9, <1>11, <1>12, EventsAppend
  <1>14. D!TypeOK'
    BY <1>1, <1>3, <1>4, <1>13 DEF D!Type, D!TypeOK
  <1> DEFINE W == D!ToSet(pty)
             U == UNION {D!ToSet(input[i]) : i \in DOMAIN input}
             P == KeysIn(pipe) \cup K
  <1>15. /\ W = D!Written /\ U = D!Buffered /\ P = KeysIn(pipe')
         /\ W = D!ToSet(pty') /\ U = UNION {D!ToSet(input'[i]) : i \in DOMAIN input'}
    BY <1>13 DEF D!Written, D!Buffered, D!Type
  <1>16. (1 .. typed') = (1 .. typed) \cup K /\ (1 .. typed) \cap K = {}
    BY <1>2, <1>3, <1>4
  <1> HIDE DEF W, U, K
  <1>17. W \cup U \cup P = (1 .. typed') \ consumed' /\ consumed' = consumed
    BY <1>1, <1>2, <1>15, <1>16 DEF D!Type
  <1>18. D!Before(W, U) /\ D!Before(W \cup U, P)
    BY <1>1, <1>2, <1>11, <1>15 DEF D!KeysInOrder, D!Before
  <1>19. D!Ascending(pty') /\ Len(input') <= 1 /\ \A i \in DOMAIN input' : D!Ascending(input'[i])
    BY <1>1 DEF D!KeysInOrder, D!Type
  <1> HIDE DEF P
  <1>20. D!DoorReadsInOrder'
    BY <1>13, <1>15, <1>17, <1>18, <1>19, PlacesNext
  <1>21. ConsumedTyped'
    BY <1>1, <1>16, <1>17 DEF ConsumedTyped
  <1> QED
    BY <1>14, <1>20, <1>21

\* The keys that are buffered are keys.
LEMMA BufferedAreKeys ==
  ASSUME D!DoorAssumption, D!TypeOK
  PROVE  /\ D!Buffered \subseteq D!Key
         /\ \A data \in Seq(D!Key) : D!ToSet(data) \subseteq D!Key
  <1>1. \A data \in Seq(D!Key) : D!ToSet(data) \subseteq D!Key
    BY LenProperties, ElementOfSeq DEF D!ToSet
  <1> QED
    BY <1>1, DoorTypes DEF D!Buffered

\* A write of keys keeps the types.
LEMMA WriteTypes ==
  ASSUME D!DoorAssumption, D!TypeOK, NEW data \in Seq(D!Key),
         \/ /\ consumed' = consumed \cup D!ToSet(data) /\ input' = << >> /\ pty' = pty
         \/ /\ \E n \in 0 .. Len(data) :
                 /\ pty' = pty \o SubSeq(data, 1, n)
                 /\ input' = D!Rebuffered(<< >>, SubSeq(data, n + 1, Len(data)))
            /\ consumed' = consumed
  PROVE  pty' \in Seq(D!Key) /\ input' \in Seq(Seq(D!Key)) /\ consumed' \subseteq D!Key
  <1>1. << >> \in Seq(Seq(D!Key)) /\ pty \in Seq(D!Key) /\ consumed \subseteq D!Key
        /\ Len(data) \in Nat /\ \A i \in 1 .. Len(data) : data[i] \in D!Key
    BY LenProperties, ElementOfSeq DEF D!TypeOK
  <1>2. CASE consumed' = consumed \cup D!ToSet(data) /\ input' = << >> /\ pty' = pty
    BY <1>1, <1>2, BufferedAreKeys
  <1>3. ASSUME NEW n \in 0 .. Len(data), pty' = pty \o SubSeq(data, 1, n),
               input' = D!Rebuffered(<< >>, SubSeq(data, n + 1, Len(data))), consumed' = consumed
        PROVE  pty' \in Seq(D!Key) /\ input' \in Seq(Seq(D!Key)) /\ consumed' \subseteq D!Key
    <2>1. SubSeq(data, 1, n) \in Seq(D!Key)
      BY <1>1, SubSeqProperties
    <2>2. SubSeq(data, n + 1, Len(data)) \in Seq(D!Key)
      BY <1>1, SubSeqProperties
    <2>3. pty' \in Seq(D!Key)
      BY <1>1, <1>3, <2>1, ConcatProperties
    <2>4. input' \in Seq(Seq(D!Key))
      BY <1>1, <1>3, <2>2, AppendProperties DEF D!Rebuffered
    <2> QED
      BY <1>1, <1>3, <2>3, <2>4
  <1> QED
    BY <1>2, <1>3

\* What InputEvent writes: the rest that is buffered, or else the keys of the first event.
LEMMA InputWrites ==
  ASSUME D!DoorAssumption, DoorInv, D!InputEvent
  PROVE  \E data \in Seq(D!Key) :
           /\ D!Ascending(data)
           /\ \/ pipe' = pipe /\ data = input[1] /\ input # << >>
              \/ /\ pipe # << >> /\ pipe' = Tail(pipe) /\ data = Head(pipe).data /\ input = << >>
                 /\ Head(pipe).event = "input"
           /\ \/ /\ consumed' = consumed \cup D!ToSet(data) /\ input' = << >> /\ pty' = pty
              \/ /\ \E n \in 0 .. Len(data) :
                      /\ pty' = pty \o SubSeq(data, 1, n)
                      /\ input' = D!Rebuffered(<< >>, SubSeq(data, n + 1, Len(data)))
                 /\ consumed' = consumed
  <1>1. D!TypeOK /\ D!KeysInOrder /\ EventsInOrder(pipe) /\ pipe \in Seq(D!Event)
    BY PlacesAreApart, DoorTypes
  <1>2. CASE input # << >>
    <2>1. /\ D!Front(input) = << >> /\ D!Last(input) = input[1]
          /\ input[1] \in Seq(D!Key) /\ D!Ascending(input[1])
      BY <1>1, <1>2, OneRest
    <2>2. D!WriteInput(D!Last(input), D!Front(input)) /\ pipe' = pipe
      BY <1>2 DEF D!InputEvent
    <2>3. \/ /\ consumed' = consumed \cup D!ToSet(input[1]) /\ input' = << >> /\ pty' = pty
          \/ /\ \E n \in 0 .. Len(input[1]) :
                  /\ pty' = pty \o SubSeq(input[1], 1, n)
                  /\ input' = D!Rebuffered(<< >>, SubSeq(input[1], n + 1, Len(input[1])))
             /\ consumed' = consumed
      BY <2>1, <2>2 DEF D!WriteInput
    <2> QED
      BY <1>2, <2>1, <2>2, <2>3
  <1>3. CASE input = << >>
    <2> DEFINE data == Head(pipe).data
    <2>1. /\ pipe # << >> /\ Head(pipe).event = "input" /\ pipe' = Tail(pipe)
          /\ D!WriteInput(Head(pipe).data, input)
      BY <1>3 DEF D!InputEvent
    <2>2. Head(pipe) \in D!Event /\ D!Ascending(data) /\ data \in Seq(D!Key)
      BY <1>1, <2>1, EventsTail, KeysAreKeys
    <2>3. \/ /\ consumed' = consumed \cup D!ToSet(data) /\ input' = << >> /\ pty' = pty
          \/ /\ \E n \in 0 .. Len(data) :
                  /\ pty' = pty \o SubSeq(data, 1, n)
                  /\ input' = D!Rebuffered(<< >>, SubSeq(data, n + 1, Len(data)))
             /\ consumed' = consumed
      BY <1>3, <2>1 DEF D!WriteInput
    <2> QED
      BY <1>3, <2>1, <2>2, <2>3
  <1> QED
    BY <1>2, <1>3

\* InputEvent keeps the invariant.
LEMMA InputNext ==
  ASSUME D!DoorAssumption, DoorInv, D!InputEvent
  PROVE  D!TypeOK' /\ D!DoorReadsInOrder' /\ ConsumedTyped'
  <1>1. /\ D!TypeOK /\ D!KeysInOrder /\ EventsInOrder(pipe)
        /\ D!Written \cup D!Buffered \cup D!UnderWay = (1 .. typed) \ consumed
    BY PlacesAreApart
  <1>2. pipe \in Seq(D!Event) /\ D!UnderWay = KeysIn(pipe) /\ D!UnderWay \subseteq Nat
    BY <1>1, DoorTypes
  <1>3. PICK data \in Seq(D!Key) :
           /\ D!Ascending(data)
           /\ \/ pipe' = pipe /\ data = input[1] /\ input # << >>
              \/ /\ pipe # << >> /\ pipe' = Tail(pipe) /\ data = Head(pipe).data /\ input = << >>
                 /\ Head(pipe).event = "input"
           /\ \/ /\ consumed' = consumed \cup D!ToSet(data) /\ input' = << >> /\ pty' = pty
              \/ /\ \E n \in 0 .. Len(data) :
                      /\ pty' = pty \o SubSeq(data, 1, n)
                      /\ input' = D!Rebuffered(<< >>, SubSeq(data, n + 1, Len(data)))
                 /\ consumed' = consumed
    BY InputWrites
  <1>4. pty' \in Seq(D!Key) /\ input' \in Seq(Seq(D!Key)) /\ consumed' \subseteq D!Key
    BY <1>1, <1>3, WriteTypes
  <1>5. pipe' \in Seq(D!Event)
    BY <1>2, <1>3, HeadTailProperties
  <1>6. stage' = "select" /\ UNCHANGED <<kind, child, blocked, size, winsize, refresh, typed,
                                         resizes, gosubs>>
    BY DEF D!InputEvent, D!WriteInput
  <1>7. D!TypeOK'
    BY <1>1, <1>4, <1>5, <1>6 DEF D!TypeOK
  <1> DEFINE P == KeysIn(pipe')
  <1>8. /\ P \subseteq Nat /\ EventsInOrder(pipe')
        /\ D!Before(D!Written, D!ToSet(data)) /\ D!Before(D!Written \cup D!ToSet(data), P)
        /\ D!Written \cup D!ToSet(data) \cup P = (1 .. typed) \ consumed
    <2>1. CASE pipe' = pipe /\ data = input[1] /\ input # << >>
      <3>1. D!Buffered = D!ToSet(data) /\ P = D!UnderWay
        BY <1>1, <1>2, <2>1, OneRest
      <3> QED
        BY <1>1, <1>2, <2>1, <3>1 DEF D!KeysInOrder
    <2>2. CASE /\ pipe # << >> /\ pipe' = Tail(pipe) /\ data = Head(pipe).data /\ input = << >>
               /\ Head(pipe).event = "input"
      <3>1. D!Buffered = {} /\ D!KeysOf(Head(pipe)) = D!ToSet(data)
        BY <1>1, <2>2, OneRest DEF D!KeysOf
      <3>2. /\ EventsInOrder(pipe') /\ D!UnderWay = D!ToSet(data) \cup P
            /\ D!Before(D!ToSet(data), P)
        BY <1>1, <1>2, <2>2, <3>1, EventsTail
      <3> HIDE DEF P
      <3> QED
        BY <1>1, <1>2, <3>1, <3>2 DEF D!KeysInOrder, D!Before
    <2> QED
      BY <1>3, <2>1, <2>2
  <1> HIDE DEF P
  <1>9. P = KeysIn(pipe') /\ P \in SUBSET Nat
    BY <1>8 DEF P
  <1>10. D!DoorReadsInOrder' /\ ConsumedTyped'
    BY <1>3, <1>6, <1>8, <1>9, KeysWritten
  <1> QED
    BY <1>7, <1>10

\* Every step keeps the invariant.
LEMMA DoorNext ==
  ASSUME D!DoorAssumption, DoorInv, [D!Next]_D!vars
  PROVE  DoorInv'
  <1>1. D!TypeOK /\ D!KeysInOrder /\ EventsInOrder(pipe)
    BY PlacesAreApart
  <1>2. /\ pipe \in Seq(D!Event) /\ input \in Seq(Seq(D!Key)) /\ MaxResizes \in Nat
        /\ MaxGosubs \in Nat /\ D!UnderWay = KeysIn(pipe)
        /\ consumed \subseteq D!Key /\ D!Buffered \subseteq D!Key
        /\ resizes \in 0 .. MaxResizes /\ gosubs \in 0 .. MaxGosubs
    BY <1>1, DoorTypes, BufferedAreKeys DEF D!DoorAssumption, D!TypeOK
  <1>3. << >> \in Seq(Seq(D!Key))
    OBVIOUS
  <1>4. ASSUME pipe # << >>
        PROVE  Head(pipe) \in D!Event /\ Tail(pipe) \in Seq(D!Event)
    BY <1>2, <1>4, HeadTailProperties
  <1>5. ASSUME NEW event \in D!Event PROVE Append(pipe, event) \in Seq(D!Event)
    BY <1>2, AppendProperties
  <1>6. ASSUME D!TypeOK', D!DoorReadsInOrder' /\ ConsumedTyped' PROVE DoorInv'
    BY <1>6 DEF DoorInv
  <1>7. CASE UNCHANGED D!vars
    BY <1>1, <1>6, <1>7, KeysStay DEF D!vars, D!TypeOK
  <1>8. CASE D!Type
    BY <1>6, <1>8, KeysTyped
  <1>9. ASSUME NEW event \in D!Event, event.event # "input", pipe' = Append(pipe, event),
               UNCHANGED <<pty, input, typed, consumed>>
        PROVE  D!DoorReadsInOrder' /\ ConsumedTyped'
    <2>1. D!KeysOf(event) = {}
      BY <1>9 DEF D!KeysOf
    <2>2. D!Before(KeysIn(pipe), D!KeysOf(event))
      BY <2>1 DEF D!Before
    <2>3. EventsInOrder(pipe') /\ KeysIn(pipe') = KeysIn(pipe)
      BY <1>1, <1>2, <1>9, <2>1, <2>2, EventsAppend
    <2> DEFINE P == KeysIn(pipe)
               W == D!ToSet(pty)
               U == UNION {D!ToSet(input[i]) : i \in DOMAIN input}
    <2>4. /\ W = D!ToSet(pty') /\ U = UNION {D!ToSet(input'[i]) : i \in DOMAIN input'}
          /\ P = KeysIn(pipe') /\ W = D!Written /\ U = D!Buffered /\ P = D!UnderWay
      BY <1>2, <1>9, <2>3 DEF D!Written, D!Buffered
    <2> HIDE DEF P, W, U
    <2>5. W \cup U \cup P = (1 .. typed') \ consumed'
      BY <1>9, <2>4, PlacesAreApart
    <2>6. /\ D!Before(W, U) /\ D!Before(W \cup U, P) /\ D!Ascending(pty')
          /\ Len(input') <= 1 /\ \A i \in DOMAIN input' : D!Ascending(input'[i])
      BY <1>1, <1>9, <2>4 DEF D!KeysInOrder
    <2>7. D!DoorReadsInOrder'
      BY <2>3, <2>4, <2>5, <2>6, PlacesNext
    <2>8. ConsumedTyped'
      BY <1>9, PlacesAreApart DEF ConsumedTyped
    <2> QED
      BY <2>7, <2>8
  <1>10. CASE D!ResizeTerminal
    <2> DEFINE event == [event |-> "refresh", data |-> resizes + 1]
    <2>1. resizes + 1 \in 0 .. MaxResizes
      BY <1>2, <1>10 DEF D!ResizeTerminal
    <2>2. event \in D!Event /\ event.event # "input"
      BY <2>1 DEF D!Event, D!Size
    <2>3. pipe' = Append(pipe, event) /\ resizes' = resizes + 1
      BY <1>10 DEF D!ResizeTerminal
    <2> HIDE DEF event
    <2>4. D!TypeOK'
      BY <1>1, <1>5, <1>10, <2>1, <2>2, <2>3 DEF D!ResizeTerminal, D!TypeOK
    <2> QED
      BY <1>6, <1>9, <1>10, <2>2, <2>3, <2>4 DEF D!ResizeTerminal
  <1>11. CASE D!SendGosub
    <2> DEFINE event == [event |-> "gosub"]
    <2>1. gosubs + 1 \in 0 .. MaxGosubs
      BY <1>2, <1>11 DEF D!SendGosub
    <2>2. event \in D!Event /\ event.event # "input"
      BY DEF D!Event
    <2>3. pipe' = Append(pipe, event) /\ gosubs' = gosubs + 1
      BY <1>11 DEF D!SendGosub
    <2> HIDE DEF event
    <2>4. D!TypeOK'
      BY <1>1, <1>5, <1>11, <2>1, <2>2, <2>3 DEF D!SendGosub, D!TypeOK
    <2> QED
      BY <1>6, <1>9, <1>11, <2>2, <2>3, <2>4 DEF D!SendGosub
  <1>12. CASE D!Run \/ D!ChildExits \/ D!BlockElapses \/ D!NoEvent
    <2>1. D!TypeOK'
      BY <1>1, <1>12 DEF D!Run, D!ChildExits, D!BlockElapses, D!NoEvent, D!TypeOK
    <2>2. UNCHANGED <<pty, input, pipe, typed, consumed>>
      BY <1>12 DEF D!Run, D!ChildExits, D!BlockElapses, D!NoEvent
    <2> QED
      BY <1>6, <2>1, <2>2, KeysStay
  <1>13. CASE D!Select
    <2>1. UNCHANGED <<kind, child, blocked, size, winsize, pipe, refresh, typed, pty, resizes, gosubs>>
          /\ stage' \in {"events", "done"}
          /\ \/ UNCHANGED <<input, consumed>>
             \/ input' = << >> /\ consumed' = consumed \cup D!Buffered
      BY <1>13 DEF D!Select, D!Ends
    <2>2. D!TypeOK'
      BY <1>1, <1>2, <1>3, <2>1 DEF D!TypeOK
    <2> QED
      BY <1>6, <2>1, <2>2, KeysStay, RestTaken
  <1>14. CASE D!InputEvent
    BY <1>6, <1>14, InputNext
  <1>15. CASE D!WriteFails
    <2>1. UNCHANGED <<kind, child, blocked, size, winsize, refresh, typed, pty, resizes, gosubs>>
          /\ stage' = "done"
      BY <1>15 DEF D!WriteFails
    <2>2. CASE input # << >>
      <3>1. input' = << >> /\ consumed' = consumed \cup D!Buffered /\ pipe' = pipe
        BY <1>1, <1>15, <2>2, OneRest DEF D!WriteFails
      <3>2. D!TypeOK'
        BY <1>1, <1>2, <1>3, <2>1, <3>1 DEF D!TypeOK
      <3> QED
        BY <1>6, <2>1, <3>1, <3>2, RestTaken
    <2>3. CASE input = << >>
      <3>1. /\ pipe # << >> /\ pipe' = Tail(pipe) /\ input' = input
            /\ consumed' = consumed \cup D!KeysOf(Head(pipe))
        BY <1>15, <2>3 DEF D!WriteFails, D!KeysOf
      <3>2. Head(pipe) \in D!Event /\ Tail(pipe) \in Seq(D!Event)
        BY <1>4, <3>1
      <3>3. D!KeysOf(Head(pipe)) \subseteq D!Key
        BY <3>2, KeysAreKeys
      <3>4. D!TypeOK'
        BY <1>1, <1>2, <2>1, <3>1, <3>2, <3>3 DEF D!TypeOK
      <3> QED
        BY <1>6, <2>1, <3>1, <3>4, KeysTaken
    <2> QED
      BY <2>2, <2>3
  <1>16. CASE D!ReceiveRefresh
    <2>1. /\ pipe # << >> /\ pipe' = Tail(pipe) /\ Head(pipe).event = "refresh"
          /\ UNCHANGED <<pty, input, typed, consumed>>
      BY <1>16 DEF D!ReceiveRefresh
    <2>2. /\ consumed' = consumed \cup D!KeysOf(Head(pipe)) /\ Tail(pipe) \in Seq(D!Event)
          /\ Head(pipe).data \in D!Size
      BY <1>4, <2>1 DEF D!KeysOf, D!Event
    <2>3. D!TypeOK'
      BY <1>1, <1>16, <2>2 DEF D!ReceiveRefresh, D!TypeOK
    <2> QED
      BY <1>6, <2>1, <2>2, <2>3, KeysTaken
  <1>17. CASE D!RefreshEvent
    <2>1. D!TypeOK'
      BY <1>1, <1>17 DEF D!RefreshEvent, D!Resized, D!TypeOK
    <2> QED
      BY <1>6, <1>17, <2>1, KeysStay DEF D!RefreshEvent
  <1>18. CASE D!ReceiveGosub
    <2>1. /\ pipe # << >> /\ pipe' = Tail(pipe) /\ Head(pipe).event = "gosub"
          /\ UNCHANGED <<pty, input, typed, consumed>>
      BY <1>18 DEF D!ReceiveGosub
    <2>2. consumed' = consumed \cup D!KeysOf(Head(pipe)) /\ Tail(pipe) \in Seq(D!Event)
      BY <1>4, <2>1 DEF D!KeysOf
    <2>3. D!TypeOK'
      BY <1>1, <1>18, <2>2 DEF D!ReceiveGosub, D!TypeOK
    <2> QED
      BY <1>6, <2>1, <2>2, <2>3, KeysTaken
  <1>19. CASE D!NestedReads
    <2>1. /\ pipe # << >> /\ pipe' = Tail(pipe) /\ UNCHANGED <<pty, input, typed>>
          /\ Head(pipe).event # "gosub"
      BY <1>19 DEF D!NestedReads
    <2>2. Head(pipe) \in D!Event /\ Tail(pipe) \in Seq(D!Event)
      BY <1>4, <2>1
    <2>3. consumed' = consumed \cup D!KeysOf(Head(pipe))
      BY <1>19 DEF D!NestedReads, D!KeysOf
    <2>4. D!KeysOf(Head(pipe)) \subseteq D!Key
      BY <2>2, KeysAreKeys
    <2>5. size' \in D!Size /\ refresh' \in BOOLEAN
      <3>1. CASE Head(pipe).event = "input"
        BY <1>1, <1>19, <3>1 DEF D!NestedReads, D!TypeOK
      <3>2. CASE Head(pipe).event # "input"
        <4>1. Head(pipe).data \in D!Size
          BY <2>1, <2>2, <3>2 DEF D!Event
        <4> QED
          BY <1>19, <3>2, <4>1 DEF D!NestedReads
      <3> QED
        BY <3>1, <3>2
    <2>6. D!TypeOK'
      BY <1>1, <1>2, <1>19, <2>1, <2>2, <2>3, <2>4, <2>5 DEF D!NestedReads, D!TypeOK
    <2> QED
      BY <1>6, <2>1, <2>3, <2>6, KeysTaken
  <1>20. CASE D!NestedEnds
    <2>1. D!TypeOK'
      BY <1>1, <1>20 DEF D!NestedEnds, D!TypeOK
    <2> QED
      BY <1>6, <1>20, <2>1, KeysStay DEF D!NestedEnds
  <1> QED
    BY <1>7, <1>8, <1>10, <1>11, <1>12, <1>13, <1>14, <1>15, <1>16, <1>17, <1>18, <1>19, <1>20
       DEF D!Next

\* Every key that was typed is written to the pty, buffered, under way or consumed, each in
\* one place, and they are written in the order in which they were typed, however
\* little of them the pty takes at a time (bbs/door.py).
THEOREM DoorIsReadInOrder ==
  ASSUME D!DoorAssumption
  PROVE  D!Spec => []D!DoorReadsInOrder
  <1>1. D!Init => DoorInv
    BY DoorInit
  <1>2. DoorInv /\ [D!Next]_D!vars => DoorInv'
    BY DoorNext
  <1>3. DoorInv => D!DoorReadsInOrder
    BY DEF DoorInv
  <1> QED
    BY <1>1, <1>2, <1>3, PTL DEF D!Spec
-----------------------------------------------------------------------------
(* Lightbar.  A move draws only the rows that it says have changed, and the   *)
(* others are right because the page is never far below the end of the list.  *)

\* The inductive invariant: the screen is true, and the page begins in the list and ends no
\* further than a row after it, as long as no update left a position that no list has.
LightbarInv ==
  /\ length \in Nat
  /\ ~unsound =>
       /\ idx \in Nat /\ shift \in Nat
       /\ shift > 0 => shift + ListRows <= length + 1
       /\ length = 0 => shift = 0 /\ idx <= 0
       /\ length > 0 => idx \in L!Row
       /\ L!SelectionShown

\* The greatest and the least of two numbers
LEMMA MaxOfTwo ==
  ASSUME NEW a \in Int, NEW b \in Int
  PROVE  L!Max({a, b}) = IF a >= b THEN a ELSE b
  BY DEF L!Max

LEMMA MinOfTwo ==
  ASSUME NEW a \in Int, NEW b \in Int
  PROVE  L!Min({a, b}) = IF a <= b THEN a ELSE b
  BY DEF L!Min

\* The rows of a screen that are right for a position in a list, but for some
RowsTrue(d, l, st, i, sh, n) ==
  \A row \in L!Row \ st : d[row] = L!Item(row, sh, n) /\ (row \in l <=> row = i /\ n > 0)

\* A list that is drawn whole is true, and highlights the item of its row.
LEMMA RefreshedIsTrue ==
  ASSUME L!LightbarAssumption, NEW i \in Int, NEW sh \in Nat, NEW n \in Nat,
         L!Refreshed(i, sh, n), n > 0 => sh + i < n /\ i \in L!Row, n = 0 => sh = 0
  PROVE  RowsTrue(drawn', lit', stale', i, sh, n)
  <1>1. ASSUME NEW row \in L!Row
        PROVE  /\ drawn'[row] = L!Item(row, sh, n)
               /\ row \in lit' <=> row = i /\ L!Item(row, sh, n) # L!None
    BY DEF L!Refreshed
  <1>2. ASSUME NEW row \in L!Row, row = i PROVE L!Item(row, sh, n) # L!None <=> n > 0
    BY <1>2 DEF L!Item, L!None, L!Row, L!LightbarAssumption
  <1> QED
    BY <1>1, <1>2 DEF RowsTrue

\* A move within the list keeps the screen true, drawn whole or not.
LEMMA MoveKeeps ==
  ASSUME L!LightbarAssumption, LightbarInv, ~unsound, NEW i \in Nat, NEW sh \in Nat,
         L!MoveTo(i, sh), sh > 0 => sh + ListRows <= length + 1,
         length = 0 => sh = 0 /\ i <= 0,
         length > 0 => i \in L!Row /\ sh + i < length
  PROVE  LightbarInv'
  <1>1. RowsTrue(drawn, lit, stale, idx, shift, length)
    BY DEF LightbarInv, L!SelectionShown, RowsTrue
  <1>2. length' = length /\ unsound' = unsound /\ idx' = i /\ shift' = sh
    BY DEF L!MoveTo
  <1>3. RowsTrue(drawn', lit', stale', i, sh, length)
    <2>1. CASE i = idx /\ sh = shift
      BY <1>1, <2>1 DEF L!MoveTo
    <2>2. CASE sh # shift
      <3>1. L!Refreshed(i, sh, length)
        BY <2>2 DEF L!MoveTo, L!RefreshQuick
      <3> QED
        BY <3>1, RefreshedIsTrue DEF LightbarInv
    <2>3. CASE i # idx /\ sh = shift
      <3>1. L!RefreshRows({idx, i}, i, sh, length)
        BY <2>3 DEF L!MoveTo, L!RefreshQuick
      <3>2. ASSUME NEW row \in L!Row, row \in {idx, i}
            PROVE  /\ drawn'[row] = L!Item(row, sh, length)
                   /\ row \in lit' <=> row = i /\ length > 0
        <4>1. /\ drawn'[row] = L!Item(row, sh, length)
              /\ row \in lit' <=> row = i /\ L!Item(row, sh, length) # L!None
          BY <3>1, <3>2 DEF L!RefreshRows
        <4>2. row = i => (L!Item(row, sh, length) # L!None <=> length > 0)
          BY DEF L!Item, L!None, L!Row, L!LightbarAssumption, LightbarInv
        <4> QED
          BY <4>1, <4>2
      <3>3. ASSUME NEW row \in L!Row, row \notin {idx, i}, row \notin stale'
            PROVE  /\ drawn'[row] = L!Item(row, sh, length)
                   /\ row \in lit' <=> row = i /\ length > 0
        <4>1. drawn'[row] = drawn[row] /\ (row \in lit' <=> row \in lit) /\ row \notin stale
          BY <3>1, <3>3 DEF L!RefreshRows
        <4> QED
          BY <1>1, <2>3, <3>3, <4>1 DEF RowsTrue
      <3> QED
        BY <3>2, <3>3 DEF RowsTrue
    <2> QED
      BY <2>1, <2>2, <2>3
  <1> QED
    BY <1>2, <1>3 DEF LightbarInv, L!SelectionShown, L!Index, L!Row, L!LightbarAssumption,
       RowsTrue

\* A list that is drawn first
LEMMA LightbarInit == L!LightbarAssumption /\ L!Init => LightbarInv
  <1> SUFFICES ASSUME L!LightbarAssumption, L!Init PROVE LightbarInv
    OBVIOUS
  <1>1. length \in Nat /\ 0 \in L!Row
    BY DEF L!Init, L!LightbarAssumption, L!Row
  <1>2. lit = {row \in L!Row : row = 0 /\ length > 0}
    BY DEF L!Init
  <1>3. RowsTrue(drawn, lit, stale, idx, shift, length)
    BY <1>2 DEF L!Init, RowsTrue
  <1> QED
    BY <1>1, <1>3 DEF L!Init, LightbarInv, L!SelectionShown, L!Index, RowsTrue

\* The keys
LEMMA LightbarKeys ==
  ASSUME L!LightbarAssumption, LightbarInv, ~unsound, L!ProcessKeystroke
  PROVE  LightbarInv'
  <1>0. /\ idx \in Nat /\ shift \in Nat /\ length \in Nat /\ ListRows \in Nat /\ ListRows > 1
        /\ shift > 0 => shift + ListRows <= length + 1
        /\ length = 0 => shift = 0 /\ idx <= 0
        /\ length > 0 => idx \in 0 .. ListRows - 1 /\ shift + idx < length
    BY DEF LightbarInv, L!LightbarAssumption, L!SelectionShown, L!Index, L!Row
  <1>1. ASSUME UNCHANGED L!vars PROVE LightbarInv'
    BY <1>1 DEF L!vars, LightbarInv, L!SelectionShown, L!Index
  <1>e. ASSUME L!MoveEnd, length > 0 PROVE LightbarInv'
    <2>1. CASE length < ListRows
      <3>1. L!MoveTo(length - 1, shift) /\ length - 1 \in Nat
        BY <1>0, <1>e, <2>1 DEF L!MoveEnd
      <3> QED
        BY <1>0, <2>1, <3>1, MoveKeeps DEF L!Row
    <2>2. CASE ~(length < ListRows)
      <3>1. L!MoveTo(ListRows - 1, length - ListRows)
        BY <1>e, <2>2 DEF L!MoveEnd
      <3> QED
        BY <1>0, <2>2, <3>1, MoveKeeps DEF L!Row
    <2> QED
      BY <2>1, <2>2
  <1>h. ASSUME L!MoveHome PROVE LightbarInv'
    BY <1>0, <1>h, MoveKeeps DEF L!Row, L!MoveHome
  <1>2. CASE L!MoveDown
    <2>0. shift + idx # length - 1
      BY <1>2 DEF L!MoveDown, L!AtBottom, L!Index
    <2>1. CASE idx + 1 < L!VisibleBottom
      <3>1. L!MoveTo(idx + 1, shift)
        BY <1>2, <2>1 DEF L!MoveDown
      <3> QED
        BY <1>0, <2>0, <2>1, <3>1, MoveKeeps DEF L!Row, L!VisibleBottom
    <2>2. CASE ~(idx + 1 < L!VisibleBottom) /\ idx < length
      <3>1. L!MoveTo(idx, shift + 1)
        BY <1>2, <2>2 DEF L!MoveDown
      <3> QED
        BY <1>0, <2>0, <2>2, <3>1, MoveKeeps DEF L!Row, L!VisibleBottom
    <2> QED
      BY <1>1, <1>2, <2>1, <2>2 DEF L!MoveDown
  <1>3. CASE L!MoveUp
    <2>0. shift + idx # 0
      BY <1>3 DEF L!MoveUp, L!AtTop, L!Index
    <2>1. CASE idx >= 1
      <3>1. L!MoveTo(idx - 1, shift)
        BY <1>3, <2>1 DEF L!MoveUp
      <3> QED
        BY <1>0, <2>0, <2>1, <3>1, MoveKeeps DEF L!Row
    <2>2. CASE ~(idx >= 1) /\ shift > 0
      <3>1. L!MoveTo(idx, shift - 1)
        BY <1>3, <2>2 DEF L!MoveUp
      <3> QED
        BY <1>0, <2>0, <2>2, <3>1, MoveKeeps DEF L!Row
    <2> QED
      BY <1>1, <1>3, <2>1, <2>2 DEF L!MoveUp
  <1>4. CASE length > 0 /\ L!PageDown
    <2>1. CASE length < ListRows
      <3>1. L!MoveTo(length - 1, shift) /\ length - 1 \in Nat
        BY <1>0, <1>4, <2>1 DEF L!PageDown
      <3> QED
        BY <1>0, <2>1, <3>1, MoveKeeps DEF L!Row
    <2>2. CASE ~(length < ListRows) /\ shift + ListRows < length - ListRows
      <3>1. L!MoveTo(idx, shift + ListRows)
        BY <1>4, <2>2 DEF L!PageDown
      <3> QED
        BY <1>0, <2>2, <3>1, MoveKeeps DEF L!Row
    <2>3. CASE /\ ~(length < ListRows) /\ ~(shift + ListRows < length - ListRows)
               /\ shift # length - ListRows
      <3>1. L!MoveTo(idx, length - ListRows)
        BY <1>4, <2>3 DEF L!PageDown
      <3> QED
        BY <1>0, <2>3, <3>1, MoveKeeps DEF L!Row
    <2> QED
      BY <1>4, <1>e, <2>1, <2>2, <2>3 DEF L!PageDown
  <1>5. CASE length >= ListRows - 1 /\ L!PageUp
    <2>1. CASE shift - ListRows > 0
      <3>1. L!MoveTo(idx, shift - ListRows)
        BY <1>5, <2>1 DEF L!PageUp
      <3> QED
        BY <1>0, <2>1, <3>1, MoveKeeps DEF L!Row
    <2>2. CASE ~(shift - ListRows > 0) /\ shift > 0
      <3>1. L!MoveTo(idx, 0)
        BY <1>5, <2>2 DEF L!PageUp
      <3> QED
        BY <1>0, <2>2, <3>1, MoveKeeps DEF L!Row
    <2> QED
      BY <1>5, <1>h, <2>1, <2>2 DEF L!PageUp
  <1>6. CASE L!PageUpShort
    <2>1. shift = 0
      BY <1>0, <1>6 DEF L!PageUpShort
    <2>2. RowsTrue(drawn', lit', stale', 0, shift, length)
      BY <1>6 DEF L!PageUpShort, LightbarInv, L!SelectionShown, RowsTrue
    <2> QED
      BY <1>0, <1>6, <2>1, <2>2 DEF L!PageUpShort, LightbarInv, L!SelectionShown, L!Index,
         RowsTrue, L!Row
  <1> QED
    BY <1>e, <1>h, <1>2, <1>3, <1>4, <1>5, <1>6 DEF L!ProcessKeystroke

\* goto() of an item that is there
LEMMA LightbarGoto ==
  ASSUME L!LightbarAssumption, LightbarInv, ~unsound,
         NEW item \in Nat, item < length, L!Goto(item)
  PROVE  LightbarInv'
  <1>0. /\ idx \in Nat /\ shift \in Nat /\ length \in Nat /\ ListRows \in Nat /\ ListRows > 1
        /\ shift > 0 => shift + ListRows <= length + 1
    BY DEF LightbarInv, L!LightbarAssumption
  <1> DEFINE sh == IF item > shift + ListRows - 1 THEN item - (ListRows - 1)
                   ELSE IF item < shift THEN item ELSE shift
             over == IF sh > 0 THEN L!Max({0, sh + ListRows - 1 - length}) ELSE 0
             down == L!Min({over, sh})
  <1>1. sh \in Nat /\ sh <= item /\ item - sh < ListRows
    BY <1>0
  <1>2. over = 0
    <2>1. sh > 0 => sh + ListRows - 1 <= length
      BY <1>0, <1>1
    <2> HIDE DEF sh
    <2>2. 0 \in Int /\ sh + ListRows - 1 - length \in Int
      BY <1>0, <1>1
    <2>3. L!Max({0, sh + ListRows - 1 - length}) =
            IF 0 >= sh + ListRows - 1 - length THEN 0 ELSE sh + ListRows - 1 - length
      BY <2>2, MaxOfTwo
    <2> QED
      BY <1>0, <1>1, <2>1, <2>3
  <1>3. down = 0
    <2> HIDE DEF sh, over
    <2> QED
      BY <1>1, <1>2, MinOfTwo
  <1>4. L!MoveTo(item - sh + down, sh - down)
    BY DEF L!Goto
  <1>5. L!MoveTo(item - sh, sh)
    <2> HIDE DEF sh, down
    <2> QED
      BY <1>1, <1>3, <1>4
  <1>6. sh > 0 => sh + ListRows <= length + 1
    BY <1>0, <1>1
  <1> HIDE DEF sh
  <1> QED
    BY <1>0, <1>1, <1>5, <1>6, MoveKeeps DEF L!Row

\* update(): where _chk_bounds leaves the position, if that is on a list
LEMMA BoundsChecked ==
  ASSUME L!LightbarAssumption, LightbarInv, ~unsound, NEW n \in Nat
  PROVE  \E i, sh \in Int :
           /\ L!ChkBounds(idx, shift, n) = <<i, sh>>
           /\ sh >= 0 =>
                /\ i >= 0
                /\ sh > 0 => sh + ListRows <= n + 1
                /\ n = 0 => sh = 0 /\ i <= 0
                /\ n > 0 => i \in L!Row /\ sh + i < n
  <1>0. /\ idx \in Nat /\ shift \in Nat /\ length \in Nat /\ ListRows \in Nat /\ ListRows > 1
        /\ shift > 0 => shift + ListRows <= length + 1
        /\ length = 0 => shift = 0 /\ idx <= 0
        /\ length > 0 => idx \in 0 .. ListRows - 1 /\ shift + idx < length
    BY DEF LightbarInv, L!LightbarAssumption, L!SelectionShown, L!Index, L!Row
  <1> DEFINE last == shift # 0 /\ idx + shift + 1 > n
             sh1  == IF last THEN n - ListRows + 1 ELSE shift
             i1   == IF last THEN ListRows - 2 ELSE idx
             up   == IF sh1 > 0 THEN L!Max({0, L!Min({sh1, sh1 + ListRows - 1 - n})}) ELSE 0
             sh2  == sh1 - up
             i2   == i1 + up
             i3   == IF i2 > 0 /\ i2 + sh2 >= n THEN L!Max({0, n - 1 - sh2}) ELSE i2
  <1>1. L!ChkBounds(idx, shift, n) = <<i3, sh2>>
    BY DEF L!ChkBounds
  <1>2. sh1 \in Int /\ i1 \in Int
    BY <1>0
  <1>3. up = IF sh1 > 0
             THEN IF sh1 + ListRows - 1 - n <= 0 THEN 0
                  ELSE IF sh1 <= sh1 + ListRows - 1 - n THEN sh1 ELSE sh1 + ListRows - 1 - n
             ELSE 0
    <2> HIDE DEF sh1
    <2> DEFINE m == L!Min({sh1, sh1 + ListRows - 1 - n})
    <2>1. m = IF sh1 <= sh1 + ListRows - 1 - n THEN sh1 ELSE sh1 + ListRows - 1 - n
      BY <1>0, <1>2, MinOfTwo
    <2>2. m \in Int
      BY <1>0, <1>2, <2>1
    <2>3. L!Max({0, m}) = IF 0 >= m THEN 0 ELSE m
      <3> HIDE DEF m
      <3> QED
        BY <2>2, MaxOfTwo
    <2> QED
      BY <1>0, <1>2, <2>1, <2>3
  <1>4. up \in Int
    <2> HIDE DEF sh1
    <2> QED
      BY <1>0, <1>2, <1>3
  <1>5. sh2 \in Int /\ i2 \in Int
    BY <1>2, <1>4
  <1>6. i3 = IF i2 > 0 /\ i2 + sh2 >= n THEN (IF 0 >= n - 1 - sh2 THEN 0 ELSE n - 1 - sh2)
             ELSE i2
    <2> HIDE DEF i2, sh2
    <2>1. L!Max({0, n - 1 - sh2}) = IF 0 >= n - 1 - sh2 THEN 0 ELSE n - 1 - sh2
      BY <1>5, MaxOfTwo
    <2> QED
      BY <2>1
  <1>7. i3 \in Int
    <2> HIDE DEF i2, sh2, i3
    <2> QED
      BY <1>5, <1>6
  <1>8. sh2 >= 0 =>
          /\ i3 >= 0
          /\ sh2 > 0 => sh2 + ListRows <= n + 1
          /\ n = 0 => sh2 = 0 /\ i3 <= 0
          /\ n > 0 => i3 \in 0 .. ListRows - 1 /\ sh2 + i3 < n
    <2> HIDE DEF up, i3
    <2> QED
      BY <1>0, <1>3, <1>4, <1>6, <1>7
  <1> HIDE DEF i3, sh2
  <1> QED
    BY <1>1, <1>5, <1>7, <1>8 DEF L!Row

LEMMA LightbarUpdate ==
  ASSUME L!LightbarAssumption, LightbarInv, ~unsound, NEW n \in Nat, L!Update(n)
  PROVE  LightbarInv'
  <1>2. PICK i \in Int, sh \in Int :
          /\ L!ChkBounds(idx, shift, n) = <<i, sh>>
          /\ sh >= 0 =>
               /\ i >= 0
               /\ sh > 0 => sh + ListRows <= n + 1
               /\ n = 0 => sh = 0 /\ i <= 0
               /\ n > 0 => i \in L!Row /\ sh + i < n
    BY BoundsChecked
  <1>3. length' = n /\ idx' = i /\ shift' = sh /\ unsound' = (sh < 0)
    BY <1>2 DEF L!Update
  <1>4. CASE sh < 0
    BY <1>3, <1>4 DEF LightbarInv
  <1>5. CASE sh >= 0
    <2>1. sh \in Nat /\ i \in Nat
      BY <1>2, <1>5
    <2>2. L!Refreshed(i, sh, n)
      <3>1. IF unsound' THEN UNCHANGED <<drawn, lit, stale>> ELSE L!Refreshed(i, sh, n)
        BY <1>2 DEF L!Update
      <3>2. unsound' = (sh < 0) /\ ~(sh < 0)
        BY <1>2, <1>3, <1>5
      <3>3. ~unsound'
        BY <3>2
      <3> QED
        BY <3>1, <3>3
    <2>3. n = 0 => sh = 0
      BY <1>2, <1>5
    <2>4. n > 0 => sh + i < n /\ i \in L!Row
      BY <1>2, <1>5
    <2>5. RowsTrue(drawn', lit', stale', i, sh, n)
      BY <2>1, <2>2, <2>3, <2>4, RefreshedIsTrue
    <2> QED
      BY <1>2, <1>3, <1>5, <2>1, <2>5 DEF LightbarInv, L!SelectionShown, L!Index, L!Row,
         L!LightbarAssumption, RowsTrue
  <1> QED
    BY <1>2, <1>4, <1>5

\* update() of which only some rows are drawn
LEMMA LightbarRows ==
  ASSUME L!LightbarAssumption, LightbarInv, ~unsound, NEW n \in Nat, NEW new, NEW rows,
         NEW i \in Nat, NEW sh \in Nat, L!UpdateRows(n, new, <<i, sh>>, rows),
         sh > 0 => sh + ListRows <= n + 1,
         n = 0 => sh = 0 /\ i <= 0,
         n > 0 => i \in L!Row /\ sh + i < n
  PROVE  LightbarInv'
  <1>1. length' = n /\ idx' = i /\ shift' = sh /\ unsound' = unsound
    BY DEF L!UpdateRows
  <1>2. RowsTrue(drawn, lit, stale, idx, shift, length)
    BY DEF LightbarInv, L!SelectionShown, RowsTrue
  <1>3. ASSUME NEW row \in L!Row, row \in rows
        PROVE  drawn'[row] = L!Item(row, sh, n) /\ (row \in lit' <=> row = i /\ n > 0)
    <2>1. /\ drawn'[row] = L!Item(row, sh, n)
          /\ row \in lit' <=> row = i /\ L!Item(row, sh, n) # L!None
      BY <1>3 DEF L!UpdateRows
    <2>2. row = i => (L!Item(row, sh, n) # L!None <=> n > 0)
      BY DEF L!Item, L!None, L!Row, L!LightbarAssumption
    <2> QED
      BY <2>1, <2>2
  <1>4. ASSUME NEW row \in L!Row, row \notin rows, row \notin stale'
        PROVE  drawn'[row] = L!Item(row, sh, n) /\ (row \in lit' <=> row = i /\ n > 0)
    <2>1. /\ row \notin stale /\ row \notin new
          /\ L!Item(row, sh, n) = L!Item(row, shift, length)
          /\ i # idx => row # i /\ row # idx
      BY <1>4 DEF L!UpdateRows
    <2>2. drawn'[row] = drawn[row] /\ (row \in lit' <=> row \in lit)
      BY <1>4, <2>1 DEF L!UpdateRows
    <2>3. drawn[row] = L!Item(row, shift, length) /\ (row \in lit <=> row = idx /\ length > 0)
      BY <1>2, <2>1 DEF RowsTrue
    <2>4. row = i /\ row = idx => (n > 0 <=> length > 0)
      <3> SUFFICES ASSUME row = i, row = idx PROVE n > 0 <=> length > 0
        OBVIOUS
      <3>1. L!Item(row, sh, n) # L!None <=> n > 0
        BY DEF L!Item, L!None, L!Row, L!LightbarAssumption
      <3>2. L!Item(row, shift, length) # L!None <=> length > 0
        BY DEF L!Item, L!None, L!Row, L!LightbarAssumption, LightbarInv, L!SelectionShown, L!Index
      <3> QED
        BY <2>1, <3>1, <3>2
    <2> QED
      BY <2>1, <2>2, <2>3, <2>4
  <1>5. RowsTrue(drawn', lit', stale', i, sh, n)
    BY <1>3, <1>4 DEF RowsTrue
  <1> QED
    BY <1>1, <1>5 DEF LightbarInv, L!SelectionShown, L!Index, L!Row, L!LightbarAssumption,
       RowsTrue

LEMMA LightbarRow ==
  ASSUME L!LightbarAssumption, LightbarInv, ~unsound, NEW n \in Nat, NEW new,
         L!UpdateRow(n, new) \/ (n = ListRows - 1 /\ L!UpdateKilled(new))
  PROVE  LightbarInv'
  <1>1. PICK i \in Int, sh \in Int :
          /\ L!ChkBounds(idx, shift, n) = <<i, sh>>
          /\ sh >= 0 =>
               /\ i >= 0
               /\ sh > 0 => sh + ListRows <= n + 1
               /\ n = 0 => sh = 0 /\ i <= 0
               /\ n > 0 => i \in L!Row /\ sh + i < n
    BY BoundsChecked
  <1>2. ASSUME NEW rows, L!UpdateRows(n, new, <<i, sh>>, rows), sh \in Nat PROVE LightbarInv'
    <2>1. i \in Nat
      BY <1>1, <1>2
    <2> QED
      BY <1>1, <1>2, <2>1, LightbarRows
  <1>3. CASE L!UpdateRow(n, new)
    <2>1. CASE sh # shift
      <3>1. L!Update(n)
        BY <1>1, <1>3, <2>1 DEF L!UpdateRow
      <3> QED
        BY <3>1, LightbarUpdate
    <2>2. CASE sh = shift
      <3>1. L!UpdateRows(n, new, <<i, sh>>, IF i = idx THEN {idx} ELSE {i, i + 1})
        BY <1>1, <1>3, <2>2 DEF L!UpdateRow
      <3>2. sh \in Nat
        BY <2>2 DEF LightbarInv
      <3> QED
        BY <1>2, <3>1, <3>2
    <2> QED
      BY <2>1, <2>2
  <1>4. CASE n = ListRows - 1 /\ L!UpdateKilled(new)
    <2>1. L!UpdateRows(n, new, <<i, sh>>, {}) /\ sh = 0
      BY <1>1, <1>4 DEF L!UpdateKilled
    <2> QED
      BY <1>2, <2>1
  <1> QED
    BY <1>3, <1>4

\* Each step preserves the invariant.
LEMMA LightbarNext == L!LightbarAssumption /\ LightbarInv /\ [L!Next]_L!vars => LightbarInv'
  <1> SUFFICES ASSUME L!LightbarAssumption, LightbarInv, [L!Next]_L!vars PROVE LightbarInv'
    OBVIOUS
  <1>1. CASE UNCHANGED L!vars
    BY <1>1 DEF L!vars, LightbarInv, L!SelectionShown, L!Index
  <1>2. CASE L!Next
    <2>1. ~unsound
      BY <1>2 DEF L!Next
    <2>2. CASE L!ProcessKeystroke
      BY <2>1, <2>2, LightbarKeys
    <2>3. ASSUME NEW item \in 0 .. L!MaxSize - 1, item < length, L!Goto(item) PROVE LightbarInv'
      BY <2>1, <2>3, LightbarGoto
    <2>4. ASSUME NEW n \in ListSizes, L!Update(n) PROVE LightbarInv'
      BY <2>1, <2>4, LightbarUpdate DEF L!LightbarAssumption
    <2>5. ASSUME NEW n \in ListSizes, NEW new, L!UpdateRow(n, new) PROVE LightbarInv'
      <3>1. n \in Nat
        BY DEF L!LightbarAssumption
      <3>2. L!UpdateRow(n, new) \/ (n = ListRows - 1 /\ L!UpdateKilled(new))
        BY <2>5
      <3> QED
        BY <2>1, <3>1, <3>2, LightbarRow
    <2>6. ASSUME NEW new, L!UpdateKilled(new), ListRows - 1 \in ListSizes PROVE LightbarInv'
      <3>1. ListRows - 1 \in Nat
        BY DEF L!LightbarAssumption
      <3> QED
        BY <2>1, <2>6, <3>1, LightbarRow
    <2> QED
      BY <1>2, <2>2, <2>3, <2>4, <2>5, <2>6 DEF L!Next
  <1> QED
    BY <1>1, <1>2

\* The item selected exists, and every row shows the item of its place and is highlighted if
\* that is selected, and only then, whichever rows were left as they were (lightbar.py:171),
\* but for the rows that a page-up in a short list (lightbar.py:433) and a script's redrawing
\* of some rows only (fbrowse.py:444, editor.py:253, 439) leave until they are drawn again.
THEOREM SelectionIsShown ==
  ASSUME L!LightbarAssumption
  PROVE  L!Spec => []L!SelectionShown
  <1>1. LightbarInv => L!SelectionShown
    BY DEF LightbarInv, L!SelectionShown
  <1> QED
    BY <1>1, LightbarInit, LightbarNext, PTL DEF L!Spec
-----------------------------------------------------------------------------
(* Pager.  Its position never leaves the first line.                          *)

\* The inductive invariant
PagerInv == lines \in Nat /\ position = 0 /\ G!TextShown

\* The lowest position is the first, and what scrolls is brought to it.
LEMMA BottomIsTop ==
  ASSUME G!PagerAssumption, NEW top \in Int
  PROVE  G!Bottom = 0 /\ G!Min({G!Max({0, top}), G!Bottom}) = 0
  <1>1. G!Bottom = 0
    BY DEF G!PagerAssumption, G!Bottom, G!Max
  <1>2. G!Max({0, top}) = IF 0 >= top THEN 0 ELSE top
    BY DEF G!Max
  <1> DEFINE m == G!Max({0, top})
  <1>3. m \in Nat
    BY <1>2
  <1> HIDE DEF m
  <1>4. G!Min({m, 0}) = 0
    BY <1>3 DEF G!Min
  <1> QED
    BY <1>1, <1>4 DEF m

LEMMA PagerInit == G!PagerAssumption /\ G!Init => PagerInv
  BY DEF G!PagerAssumption, G!Init, PagerInv, G!TextShown, G!Row

\* Each step preserves the invariant.
LEMMA PagerNext == G!PagerAssumption /\ PagerInv /\ [G!Next]_G!vars => PagerInv'
  <1> SUFFICES ASSUME G!PagerAssumption, PagerInv, [G!Next]_G!vars PROVE PagerInv'
    OBVIOUS
  <1> USE DEF PagerInv, G!TextShown
  <1>0. lines \in Int /\ PageRows \in Int /\ 0 \in Int
    BY DEF G!PagerAssumption
  <1>1. ASSUME NEW top \in Int, G!Scroll(top) PROVE PagerInv'
    BY <1>1, BottomIsTop DEF G!Scroll
  <1>2. CASE G!MoveUp \/ G!MoveDown
    BY <1>1, <1>2 DEF G!MoveUp, G!MoveDown
  <1>3. CASE G!MoveHome \/ G!MoveEnd \/ G!MovePgup \/ G!MovePgdown
    <2>1. lines - PageRows \in Int /\ 0 - PageRows \in Int /\ 0 + PageRows \in Int
      BY <1>0
    <2> QED
      BY <1>0, <1>1, <1>3, <2>1 DEF G!MoveHome, G!MoveEnd, G!MovePgup, G!MovePgdown
  <1>4. CASE G!Refresh
    BY <1>4 DEF G!Refresh, G!Refreshed, G!Row
  <1>5. CASE G!Update
    BY <1>5 DEF G!Update, G!Refreshed, G!Row, G!PagerAssumption
  <1>6. CASE G!Append
    <2>1. lines + 1 - PageRows \in Int
      BY <1>0
    <2>0. lines' = lines + 1
      BY <1>6 DEF G!Append
    <2>3. G!Min({G!Max({0, lines + 1 - PageRows}), G!Bottom}) = 0
      BY <2>1, BottomIsTop
    <2>2. position' = 0 /\ page' = G!Refreshed(0, lines', 0)
      <3>1. position' = G!Min({G!Max({0, lines + 1 - PageRows}), G!Bottom})
        <4>1. position' = G!Min({G!Max({0, lines' - PageRows}), G!Bottom})
          BY <1>6 DEF G!Append
        <4>2. lines' - PageRows = lines + 1 - PageRows
          BY <1>0, <2>0
        <4> QED
          BY <4>1, <4>2, Zenon
      <3>2. G!Bottom = 0
        BY <2>1, BottomIsTop
      <3> QED
        BY <1>6, <2>0, <2>3, <3>1, <3>2 DEF G!Append
    <2> QED
      BY <1>0, <2>0, <2>2 DEF G!Refreshed, G!Row
  <1>7. CASE UNCHANGED G!vars
    BY <1>7 DEF G!vars
  <1> QED
    BY <1>2, <1>3, <1>4, <1>5, <1>6, <1>7 DEF G!Next

\* Whatever is appended, replaced and scrolled, each row that has a line of the text shows
\* that line (pager.py:283).
THEOREM TextIsShown ==
  ASSUME G!PagerAssumption
  PROVE  G!Spec => []G!TextShown
  <1>1. PagerInv => G!TextShown
    BY DEF PagerInv
  <1> QED
    BY <1>1, PagerInit, PagerNext, PTL DEF G!Spec
-----------------------------------------------------------------------------
(* LineEdit.  Its refresh() counts the characters one by one; that they fit   *)
(* the window is shown by looking at the least number of them that would not. *)

\* A set of natural numbers that is not empty has a least element.
LEMMA LeastNatural ==
  ASSUME NEW T \in SUBSET Nat, T # {}
  PROVE  \E x \in T : \A y \in T : x <= y
  <1>1. PICK k \in T : TRUE
    OBVIOUS
  <1> DEFINE Up(j) == 0 .. j
             Ups   == {Up(j) : j \in {i \in T : i <= k}}
  <1>2. IsWellFoundedOn(StrictSubsetOrdering(Up(k)), FiniteSubsetsOf(Up(k)))
    <2>1. IsFiniteSet(Up(k))
      BY <1>1, FS_Interval
    <2> QED
      BY <2>1, FS_StrictSubsetOrderingWellFounded
  <1>3. Ups \subseteq FiniteSubsetsOf(Up(k)) /\ Ups # {}
    <2>1. Up(k) \in Ups
      OBVIOUS
    <2>2. ASSUME NEW j \in T, j <= k PROVE Up(j) \in FiniteSubsetsOf(Up(k))
      <3>1. IsFiniteSet(Up(j)) /\ Up(j) \subseteq Up(k)
        BY <2>2, FS_Interval
      <3> HIDE DEF Up
      <3> QED
        BY <3>1 DEF FiniteSubsetsOf
    <2> QED
      BY <2>1, <2>2
  <1>4. PICK u \in Ups : \A v \in Ups : ~(<<v, u>> \in StrictSubsetOrdering(Up(k)))
    <2> HIDE DEF Ups, Up
    <2> QED
      BY <1>2, <1>3, WFMin
  <1>5. PICK j \in T : j <= k /\ u = Up(j)
    BY <1>4
  <1>6. ASSUME NEW y \in T PROVE j <= y
    <2> SUFFICES ASSUME y < j PROVE FALSE
      OBVIOUS
    <2>1. Up(y) \in Ups /\ Up(y) \subseteq Up(j) /\ Up(y) # Up(j) /\ Up(j) \subseteq Up(k)
      BY <1>5
    <2> HIDE DEF Up, Ups
    <2> QED
      BY <1>4, <1>5, <2>1 DEF StrictSubsetOrdering
  <1> QED
    BY <1>5, <1>6

\* What refresh() counts, character by character
CountOf(f, n) ==
  IF n = 0 THEN [shift |-> 0, pos |-> 0]
  ELSE IF f[n - 1].pos > Columns - ScrollAmt
       THEN [shift |-> f[n - 1].shift + ScrollAmt, pos |-> f[n - 1].pos - ScrollAmt + 1]
       ELSE [shift |-> f[n - 1].shift, pos |-> f[n - 1].pos + 1]

LEMMA CountedUnfolds ==
  ASSUME I!LineEditAssumption
  PROVE  I!Counted = [n \in 0 .. MaxLength |-> CountOf(I!Counted, n)]
  <1> DEFINE Is(f, k) == f = [n \in 0 .. k |-> CountOf(f, n)]
             T == {k \in Nat : ~ \E f : Is(f, k)}
  <1>1. T = {}
    <2> SUFFICES ASSUME T # {} PROVE FALSE
      OBVIOUS
    <2>1. PICK k \in T : \A j \in T : k <= j
      BY LeastNatural
    <2>2. CASE k = 0
      <3>1. Is([n \in 0 .. 0 |-> [shift |-> 0, pos |-> 0]], 0)
        BY DEF CountOf
      <3> QED
        BY <2>1, <2>2, <3>1
    <2>3. CASE k # 0
      <3>1. k \in Nat /\ k - 1 \in Nat /\ k - 1 \notin T
        BY <2>1, <2>3
      <3>2. PICK f : Is(f, k - 1)
        BY <3>1
      <3> DEFINE g == [n \in 0 .. k |-> IF n = k THEN CountOf(f, n) ELSE f[n]]
      <3>3. ASSUME NEW n \in 0 .. k PROVE g[n] = CountOf(g, n)
        <4>1. CountOf(g, n) = CountOf(f, n)
          BY <3>1 DEF CountOf
        <4>2. n # k => f[n] = CountOf(f, n)
          <5> SUFFICES ASSUME n # k PROVE f[n] = CountOf(f, n)
            OBVIOUS
          <5>1. n \in 0 .. k - 1
            BY <3>1
          <5> HIDE DEF g
          <5> QED
            BY <3>2, <5>1
        <4> QED
          BY <4>1, <4>2
      <3>4. Is(g, k)
        <4> HIDE DEF g
        <4>1. g = [n \in 0 .. k |-> g[n]]
          BY DEF g
        <4> QED
          BY <3>3, <4>1
      <3> QED
        BY <2>1, <3>4
    <2> QED
      BY <2>2, <2>3
  <1>2. \E f : Is(f, MaxLength)
    BY <1>1 DEF I!LineEditAssumption
  <1>3. I!Counted = CHOOSE f : Is(f, MaxLength)
    BY DEF I!Counted, CountOf
  <1>4. Is(I!Counted, MaxLength)
    <2> HIDE DEF Is
    <2> QED
      BY <1>2, <1>3
  <1> QED
    BY <1>4

\* What refresh() counts: every character is hidden or shown, those shown fit the window, and
\* when some are hidden there is room for the marker.
Fitting(c, n) ==
  /\ c.shift \in Nat /\ c.pos \in Nat
  /\ c.shift + c.pos = n
  /\ c.pos <= Columns
  /\ c.shift > 0 => c.pos >= 1

LEMMA CountedFits ==
  ASSUME I!LineEditAssumption, NEW n \in 0 .. MaxLength
  PROVE  Fitting(I!Counted[n], n)
  <1> DEFINE T == {k \in 0 .. MaxLength : ~Fitting(I!Counted[k], k)}
  <1>0. /\ Columns \in Nat /\ ScrollAmt \in Nat /\ ScrollAmt >= 1 /\ 2 * ScrollAmt <= Columns
        /\ MaxLength \in Nat
    BY DEF I!LineEditAssumption
  <1>1. T = {}
    <2> SUFFICES ASSUME T # {} PROVE FALSE
      OBVIOUS
    <2>0. T \in SUBSET Nat
      BY <1>0
    <2>1. PICK k \in T : \A j \in T : k <= j
      <3> HIDE DEF T
      <3> QED
        BY <2>0, LeastNatural
    <2>2. I!Counted[k] = CountOf(I!Counted, k)
      BY <2>1, CountedUnfolds
    <2>3. CASE k = 0
      BY <1>0, <2>1, <2>2, <2>3 DEF CountOf, Fitting
    <2>4. CASE k # 0
      <3>1. k - 1 \in 0 .. MaxLength /\ k - 1 \notin T
        BY <1>0, <2>1, <2>4
      <3>2. Fitting(I!Counted[k - 1], k - 1)
        BY <3>1
      <3>3. Fitting(CountOf(I!Counted, k), k)
        BY <1>0, <2>4, <3>1, <3>2 DEF CountOf, Fitting
      <3> QED
        BY <2>1, <2>2, <3>3
    <2> QED
      BY <2>3, <2>4
  <1> QED
    BY <1>1

\* What the editors keep: of a line of n characters, those from `hidden' on are in their
\* columns, and the cursor is after the last.
Shown(text, hidden, scr, cur) ==
  /\ cur = Len(text) - hidden + 1
  /\ scr = [c \in I!Column |-> scr[c]]
  /\ \A c \in I!Column :
       IF c >= cur THEN scr[c] = I!Space
       ELSE (hidden > 0 /\ c <= 2) \/ scr[c] = text[hidden + c]

\* A line that is not scrolled, printed from its beginning
LEMMA PrintedShows ==
  ASSUME I!LineEditAssumption, NEW text \in Seq(I!Char), Len(text) <= Columns
  PROVE  Shown(text, 0, I!Printed(text), Len(text) + 1)
  <1>0. Columns \in Nat /\ Len(text) \in Nat
    BY DEF I!LineEditAssumption
  <1>1. ASSUME NEW c \in I!Column
        PROVE  IF c >= Len(text) + 1 THEN I!Printed(text)[c] = I!Space
               ELSE I!Printed(text)[c] = text[0 + c]
    BY <1>0 DEF I!Printed, I!Column
  <1>2. I!Printed(text) = [c \in I!Column |-> I!Printed(text)[c]]
    BY DEF I!Printed
  <1> QED
    BY <1>0, <1>1, <1>2 DEF Shown

\* The marker, and what is printed after it
LEMMA MarkerThen ==
  ASSUME NEW rest \in Seq(I!Char)
  PROVE  /\ Len(I!Strip \o rest) = 2 + Len(rest)
         /\ (I!Strip \o rest)[1] = I!Marker /\ (I!Strip \o rest)[2] = I!Space
         /\ \A i \in 3 .. 2 + Len(rest) : (I!Strip \o rest)[i] = rest[i - 2]
  <1> DEFINE S == I!Char \cup {I!Marker}
  <1>1. I!Strip \in Seq(S) /\ Len(I!Strip) = 2 /\ I!Strip[1] = I!Marker /\ I!Strip[2] = I!Space
    BY DEF I!Strip, I!Char
  <1>2. rest \in Seq(S)
    BY DEF I!Char
  <1> HIDE DEF S
  <1>3. /\ Len(I!Strip \o rest) = Len(I!Strip) + Len(rest)
        /\ \A i \in 1 .. Len(I!Strip) + Len(rest) :
             (I!Strip \o rest)[i] = IF i <= Len(I!Strip) THEN I!Strip[i]
                                    ELSE rest[i - Len(I!Strip)]
    BY <1>1, <1>2, ConcatProperties
  <1>4. Len(rest) \in Nat
    OBVIOUS
  <1> QED
    BY <1>1, <1>3, <1>4

\* A line of which some is hidden, behind the marker
LEMMA ScrolledShows ==
  ASSUME I!LineEditAssumption, NEW text \in Seq(I!Char), NEW n \in Nat \ {0},
         n < Len(text), Len(text) - n <= Columns
  PROVE  Shown(text, n, I!Printed(I!ScrolledText(text, n)), Len(text) - n + 1)
  <1> DEFINE t    == I!ScrolledText(text, n)
             rest == SubSeq(text, n + 3, Len(text))
             cur  == Len(text) - n + 1
  <1>0. Columns \in Nat /\ Len(text) \in Nat /\ cur \in Int
    BY DEF I!LineEditAssumption
  <1>1. /\ rest \in Seq(I!Char)
        /\ Len(rest) = IF n + 3 <= Len(text) THEN Len(text) - n - 2 ELSE 0
        /\ \A i \in 1 .. Len(rest) : rest[i] = text[n + 2 + i]
    BY <1>0
  <1>2. t = I!Strip \o rest
    <2>1. Len(I!Strip) = 2
      BY DEF I!Strip
    <2> QED
      BY <2>1 DEF I!ScrolledText
  <1>r. Len(rest) \in Nat
    BY <1>0, <1>1
  <1>3. /\ Len(t) = 2 + Len(rest)
        /\ t[1] = I!Marker /\ t[2] = I!Space
        /\ \A i \in 3 .. 2 + Len(rest) : t[i] = rest[i - 2]
    <2> HIDE DEF rest, t
    <2> QED
      BY <1>1, <1>2, MarkerThen
  <1>4. ASSUME NEW c \in I!Column
        PROVE  IF c >= cur THEN I!Printed(t)[c] = I!Space
               ELSE (n > 0 /\ c <= 2) \/ I!Printed(t)[c] = text[n + c]
    <2>1. I!Printed(t)[c] = IF c <= 2 + Len(rest) THEN t[c] ELSE I!Space
      <3> HIDE DEF rest, t
      <3> QED
        BY <1>3 DEF I!Printed
    <2>2. c \in Nat /\ c > 0
      BY <1>0 DEF I!Column
    <2>3. CASE c <= 2
      <3>1. CASE c = 1
        BY <1>0, <3>1
      <3>2. CASE c = 2
        <4>1. I!Printed(t)[c] = I!Space
          <5> HIDE DEF t, rest
          <5> QED
            BY <1>r, <1>3, <2>1, <3>2
        <4> QED
          BY <3>2, <4>1
      <3> QED
        BY <2>2, <2>3, <3>1, <3>2
    <2>4. CASE c > 2 /\ c < cur
      <3>1. c - 2 \in 1 .. Len(rest) /\ n + 2 + (c - 2) = n + c
        <4> HIDE DEF rest
        <4> QED
          BY <1>0, <1>1, <2>2, <2>4
      <3>2. rest[c - 2] = text[n + c]
        <4> HIDE DEF rest
        <4> QED
          BY <1>1, <3>1
      <3>3. c \in 3 .. 2 + Len(rest)
        <4> HIDE DEF rest
        <4> QED
          BY <1>r, <2>2, <2>4, <3>1
      <3>4. t[c] = text[n + c]
        <4> HIDE DEF rest, t
        <4> QED
          BY <1>3, <3>2, <3>3
      <3>5. I!Printed(t)[c] = text[n + c]
        <4> HIDE DEF rest, t
        <4> QED
          BY <2>1, <3>3, <3>4
      <3> QED
        BY <1>0, <2>2, <2>4, <3>5
    <2>5. CASE c > 2 /\ c >= cur
      <3>1. ~(c <= 2 + Len(rest))
        <4> HIDE DEF rest
        <4> QED
          BY <1>0, <1>1, <2>2, <2>5
      <3> HIDE DEF t, rest
      <3> QED
        BY <2>1, <2>5, <3>1
    <2> HIDE DEF t, rest, cur
    <2> QED
      BY <1>0, <2>2, <2>3, <2>4, <2>5
  <1>5. I!Printed(t) = [c \in I!Column |-> I!Printed(t)[c]]
    BY DEF I!Printed
  <1> HIDE DEF t
  <1>6. Shown(text, n, I!Printed(t), cur)
    BY <1>4, <1>5 DEF Shown
  <1> QED
    BY <1>6 DEF t

\* Characters are taken back and erased.
LEMMA EraseShows ==
  ASSUME NEW text \in Seq(I!Char), NEW h \in Nat, NEW k \in Nat, k <= Len(text) - h,
         Shown(text, h, screen, cursor), I!Erase(k),
         NEW left \in Seq(I!Char), Len(left) = Len(text) - k,
         \A i \in 1 .. Len(left) : left[i] = text[i]
  PROVE  Shown(left, h, screen', cursor')
  <1>0. /\ Len(text) \in Nat /\ Len(left) \in Nat
        /\ cursor = Len(text) - h + 1
        /\ cursor' = cursor - k
    BY DEF Shown, I!Erase
  <1>1. screen' = [c \in I!Column |-> IF c \in cursor - k .. cursor - 1 THEN I!Space ELSE screen[c]]
    BY DEF I!Erase
  <1>2. ASSUME NEW c \in I!Column
        PROVE  IF c >= cursor' THEN screen'[c] = I!Space
               ELSE (h > 0 /\ c <= 2) \/ screen'[c] = left[h + c]
    <2>0. c \in Int /\ c >= 1
      BY DEF I!Column
    <2>1. CASE c >= cursor
      <3>1. screen[c] = I!Space
        BY <2>1 DEF Shown
      <3> QED
        BY <1>0, <1>1, <2>0, <2>1, <3>1
    <2>2. CASE c < cursor /\ c >= cursor'
      BY <1>0, <1>1, <2>0, <2>2
    <2>3. CASE c < cursor'
      <3>1. c < cursor /\ screen'[c] = screen[c]
        BY <1>0, <1>1, <2>0, <2>3
      <3>2. (h > 0 /\ c <= 2) \/ screen[c] = text[h + c]
        BY <1>0, <2>0, <3>1 DEF Shown
      <3>3. h + c \in 1 .. Len(left)
        BY <1>0, <2>0, <2>3
      <3> QED
        BY <1>0, <2>0, <2>3, <3>1, <3>2, <3>3
    <2> QED
      BY <1>0, <2>0, <2>1, <2>2, <2>3
  <1>3. screen' = [c \in I!Column |-> screen'[c]]
    BY <1>1
  <1>4. cursor' = Len(left) - h + 1
    BY <1>0
  <1> QED
    BY <1>2, <1>3, <1>4 DEF Shown

\* A character is typed at the cursor.
LEMMA EchoShows ==
  ASSUME I!LineEditAssumption, NEW text \in Seq(I!Char), NEW h \in Nat, h <= Len(text),
         Len(text) - h < Columns, NEW char \in I!Char,
         Shown(text, h, screen, cursor), I!Echo(char)
  PROVE  Shown(Append(text, char), h, screen', cursor')
  <1> DEFINE more == Append(text, char)
  <1>0. /\ Len(text) \in Nat /\ Columns \in Nat
        /\ cursor = Len(text) - h + 1
        /\ cursor' = cursor + 1
    BY DEF Shown, I!Echo, I!LineEditAssumption
  <1>m. /\ Len(more) = Len(text) + 1
        /\ more[Len(text) + 1] = char
        /\ \A i \in 1 .. Len(text) : more[i] = text[i]
    OBVIOUS
  <1>1. screen' = [screen EXCEPT ![cursor] = char]
    BY DEF I!Echo
  <1>s. screen = [c \in I!Column |-> screen[c]]
    BY DEF Shown
  <1>t. /\ screen' = [c \in I!Column |-> screen'[c]]
        /\ \A c \in I!Column : screen'[c] = IF c = cursor THEN char ELSE screen[c]
    BY <1>1, <1>s
  <1>2. ASSUME NEW c \in I!Column
        PROVE  IF c >= cursor' THEN screen'[c] = I!Space
               ELSE (h > 0 /\ c <= 2) \/ screen'[c] = more[h + c]
    <2>0. c \in Int /\ c >= 1
      BY DEF I!Column
    <2> HIDE DEF more
    <2>1. CASE c > cursor
      <3>1. screen[c] = I!Space
        BY <1>0, <2>0, <2>1 DEF Shown
      <3> QED
        BY <1>0, <1>t, <2>0, <2>1, <3>1
    <2>2. CASE c = cursor
      <3>1. h + c = Len(text) + 1 /\ screen'[c] = char /\ ~(c >= cursor')
        BY <1>0, <1>t, <2>0, <2>2
      <3>2. more[h + c] = char
        BY <1>m, <3>1
      <3> QED
        BY <3>1, <3>2
    <2>3. CASE c < cursor
      <3>1. screen'[c] = screen[c] /\ c < cursor'
        BY <1>0, <1>t, <2>0, <2>3
      <3>2. (h > 0 /\ c <= 2) \/ screen[c] = text[h + c]
        BY <1>0, <2>0, <2>3 DEF Shown
      <3>3. h + c \in 1 .. Len(text)
        BY <1>0, <2>0, <2>3
      <3> QED
        BY <1>0, <1>m, <2>0, <3>1, <3>2, <3>3
    <2> QED
      BY <1>0, <2>0, <2>1, <2>2, <2>3
  <1>4. cursor' = Len(more) - h + 1
    BY <1>0, <1>m
  <1> HIDE DEF more
  <1>5. Shown(more, h, screen', cursor')
    BY <1>2, <1>t, <1>4 DEF Shown
  <1> QED
    BY <1>5 DEF more

\* The inductive invariant: the columns show what is not hidden, and that fits the window.
LineEditInv ==
  /\ content \in Seq(I!Char)
  /\ scrolled \in Nat /\ (scrolled > 0 => scrolled > 2)
  /\ scrolling => /\ Len(content) <= MaxLength
                  /\ pos \in 0 .. Columns /\ pos = Len(content) - I!Hidden
  /\ ~scrolling => scrolled = 0 /\ Len(content) <= Columns
  /\ Shown(content, I!Hidden, screen, cursor)

LEMMA HiddenIs ==
  ASSUME NEW n \in Nat
  PROVE  /\ scrolled = n /\ n > 2 => I!Hidden = n - 2 /\ I!Hidden \in Nat /\ I!Hidden > 0
         /\ scrolled = 0 => I!Hidden = 0
  <1>1. Len(I!Strip) = 2
    BY DEF I!Strip
  <1> QED
    BY <1>1 DEF I!Hidden

\* refresh() of a ScrollingEditor, whatever was on the screen
LEMMA ScrollRefreshKeeps ==
  ASSUME I!LineEditAssumption, scrolling, scrolling' = scrolling, NEW text \in Seq(I!Char),
         Len(text) <= MaxLength, content' = text, I!ScrollRefresh(text)
  PROVE  LineEditInv'
  <1> DEFINE c == I!Counted[Len(text)]
  <1>0. Len(text) \in 0 .. MaxLength /\ Columns \in Nat
    BY DEF I!LineEditAssumption
  <1>1. Fitting(c, Len(text))
    BY <1>0, CountedFits
  <1>2. Len(I!Strip) = 2
    BY DEF I!Strip
  <1>3. /\ scrolled' = IF c.shift > 0 THEN c.shift + 2 ELSE 0
        /\ pos' = c.pos
        /\ screen' = I!Printed(I!ScrolledText(text, c.shift))
        /\ cursor' = c.pos + 1
    BY <1>2 DEF I!ScrollRefresh
  <1> HIDE DEF c
  <1>4. I!Hidden' = c.shift
    BY <1>1, <1>2, <1>3 DEF I!Hidden, Fitting
  <1>5. Shown(text, c.shift, screen', cursor')
    <2>1. CASE c.shift = 0
      <3>1. Len(text) <= Columns /\ cursor' = Len(text) + 1
        BY <1>0, <1>1, <1>3, <2>1 DEF Fitting
      <3>2. I!ScrolledText(text, c.shift) = text
        BY <2>1 DEF I!ScrolledText
      <3> QED
        BY <1>3, <2>1, <3>1, <3>2, PrintedShows
    <2>2. CASE c.shift # 0
      <3>1. /\ c.shift \in Nat \ {0} /\ c.shift < Len(text) /\ Len(text) - c.shift <= Columns
            /\ cursor' = Len(text) - c.shift + 1
        BY <1>0, <1>1, <1>3, <2>2 DEF Fitting
      <3> QED
        BY <1>3, <3>1, ScrolledShows
    <2> QED
      BY <2>1, <2>2
  <1>6. scrolling'
    OBVIOUS
  <1> QED
    BY <1>0, <1>1, <1>3, <1>4, <1>5, <1>6 DEF LineEditInv, Fitting

\* refresh() of a LineEditor
LEMMA LineRefreshKeeps ==
  ASSUME I!LineEditAssumption, ~scrolling, scrolling' = scrolling, scrolled = 0,
         NEW text \in Seq(I!Char), Len(text) <= Columns, content' = text, I!LineRefresh(text)
  PROVE  LineEditInv'
  <1>1. scrolled' = 0 /\ screen' = I!Printed(text) /\ cursor' = Len(text) + 1
    BY DEF I!LineRefresh
  <1>2. I!Hidden' = 0
    BY <1>1 DEF I!Hidden
  <1>3. Shown(text, 0, screen', cursor')
    BY <1>1, PrintedShows
  <1>4. ~scrolling'
    OBVIOUS
  <1> QED
    BY <1>1, <1>2, <1>3, <1>4 DEF LineEditInv

\* A part of the text is a text.
LEMMA PrefixOf ==
  ASSUME NEW text \in Seq(I!Char), NEW n \in 0 .. Len(text)
  PROVE  /\ SubSeq(text, 1, n) \in Seq(I!Char)
         /\ Len(SubSeq(text, 1, n)) = n
         /\ \A i \in 1 .. n : SubSeq(text, 1, n)[i] = text[i]
  OBVIOUS

\* The characters before the last word are fewer than the text.
LEMMA LastWordRemoved ==
  ASSUME NEW text \in Seq(I!Char)
  PROVE  \E n \in 0 .. Len(text) : I!WithoutLastWord(text) = SubSeq(text, 1, n)
  <1> DEFINE word   == {i \in DOMAIN text : text[i] # I!Space}
             blanks == {i \in DOMAIN text : text[i] = I!Space /\ \E j \in word : i < j}
             n == IF blanks = {} THEN 0 ELSE I!Max(blanks)
  <1>0. Len(text) \in Nat /\ DOMAIN text = 1 .. Len(text)
    OBVIOUS
  <1>1. blanks \subseteq 1 .. Len(text)
    BY <1>0
  <1>2. n \in 0 .. Len(text)
    <2> HIDE DEF blanks
    <2>1. CASE blanks = {}
      BY <1>0, <2>1
    <2>2. CASE blanks # {}
      <3> DEFINE T == {Len(text) - i : i \in blanks}
      <3>1. T \in SUBSET Nat /\ T # {}
        <4>1. \A i \in blanks : Len(text) - i \in Nat
          BY <1>0, <1>1
        <4>2. PICK i \in blanks : TRUE
          BY <2>2
        <4>3. Len(text) - i \in T
          BY <4>2
        <4> QED
          BY <4>1, <4>3
      <3>2. PICK x \in T : \A y \in T : x <= y
        <4> HIDE DEF T
        <4> QED
          BY <3>1, LeastNatural
      <3>3. PICK m \in blanks : x = Len(text) - m
        BY <3>2
      <3>4. ASSUME NEW i \in blanks PROVE m >= i
        <4>1. Len(text) - m <= Len(text) - i
          BY <3>2, <3>3
        <4> QED
          BY <1>0, <1>1, <4>1
      <3>5. I!Max(blanks) \in blanks
        BY <3>4 DEF I!Max
      <3>6. n = I!Max(blanks)
        BY <2>2
      <3>7. I!Max(blanks) \in 1 .. Len(text)
        BY <1>1, <3>5
      <3> HIDE DEF n
      <3> QED
        BY <1>0, <3>6, <3>7
    <2> QED
      BY <2>1, <2>2
  <1>3. I!WithoutLastWord(text) = SubSeq(text, 1, n)
    BY DEF I!WithoutLastWord
  <1> HIDE DEF n
  <1> QED
    BY <1>2, <1>3

LEMMA LineEditInit == I!LineEditAssumption /\ I!Init => LineEditInv
  <1> SUFFICES ASSUME I!LineEditAssumption, I!Init PROVE LineEditInv
    OBVIOUS
  <1>0. Columns \in Nat /\ MaxLength \in Nat
    BY DEF I!LineEditAssumption
  <1>s. Len(I!Strip) = 2
    BY DEF I!Strip
  <1>1. CASE scrolling
    <2>1. content \in I!SeqOf(I!Char, I!Min({Columns, MaxLength}))
      BY <1>1 DEF I!Init
    <2>m. I!Min({Columns, MaxLength}) = IF Columns <= MaxLength THEN Columns ELSE MaxLength
      BY <1>0 DEF I!Min
    <2>2. content \in Seq(I!Char) /\ Len(content) \in 0 .. MaxLength
      BY <1>0, <2>1, <2>m DEF I!SeqOf
    <2> DEFINE c == I!Counted[Len(content)]
    <2>3. /\ scrolled = IF c.shift > 0 THEN c.shift + 2 ELSE 0
          /\ pos = c.pos
          /\ screen = I!Printed(I!ScrolledText(content, c.shift))
          /\ cursor = c.pos + 1
      BY <1>1, <1>s DEF I!Init
    <2>4. Fitting(c, Len(content))
      BY <2>2, CountedFits
    <2> HIDE DEF c
    <2>5. I!Hidden = c.shift
      BY <1>s, <2>3, <2>4 DEF I!Hidden, Fitting
    <2>6. Shown(content, c.shift, screen, cursor)
      <3>1. CASE c.shift = 0
        <4>1. Len(content) <= Columns /\ cursor = Len(content) + 1
          BY <1>0, <2>2, <2>3, <2>4, <3>1 DEF Fitting
        <4>2. I!ScrolledText(content, c.shift) = content
          BY <3>1 DEF I!ScrolledText
        <4> QED
          BY <2>2, <2>3, <3>1, <4>1, <4>2, PrintedShows
      <3>2. CASE c.shift # 0
        <4>1. /\ c.shift \in Nat \ {0} /\ c.shift < Len(content)
              /\ Len(content) - c.shift <= Columns
              /\ cursor = Len(content) - c.shift + 1
          BY <1>0, <2>2, <2>3, <2>4, <3>2 DEF Fitting
        <4> QED
          BY <2>2, <2>3, <4>1, ScrolledShows
      <3> QED
        BY <3>1, <3>2
    <2> QED
      BY <1>0, <1>1, <2>2, <2>3, <2>4, <2>5, <2>6 DEF LineEditInv, Fitting
  <1>2. CASE ~scrolling
    <2>1. content \in I!SeqOf(I!Char, Columns)
      BY <1>2 DEF I!Init
    <2>2. content \in Seq(I!Char) /\ Len(content) <= Columns
      BY <1>0, <2>1 DEF I!SeqOf
    <2>3. scrolled = 0 /\ screen = I!Printed(content) /\ cursor = Len(content) + 1
      BY <1>2 DEF I!Init
    <2>4. I!Hidden = 0
      BY <2>3 DEF I!Hidden
    <2> QED
      BY <1>2, <2>2, <2>3, <2>4, PrintedShows DEF LineEditInv
  <1> QED
    BY <1>1, <1>2

LEMMA TypeKeeps ==
  ASSUME I!LineEditAssumption, LineEditInv, NEW char \in I!Char, I!Type(char)
  PROVE  LineEditInv'
  <1>0. /\ Columns \in Nat /\ MaxLength \in Nat /\ MarginAmt \in Nat
        /\ content \in Seq(I!Char) /\ Len(content) \in Nat
        /\ scrolled \in Nat /\ (scrolled > 0 => scrolled > 2)
    BY DEF I!LineEditAssumption, LineEditInv
  <1>1. /\ content' = Append(content, char) /\ content' \in Seq(I!Char)
        /\ Len(content') = Len(content) + 1
        /\ scrolling' = scrolling
    BY <1>0 DEF I!Type
  <1>h. I!Hidden \in Nat
    BY <1>0, HiddenIs
  <1>2. CASE scrolling
    <2>1. Len(content) < MaxLength
      BY <1>2 DEF I!Type, I!Fits
    <2>2. CASE pos + 1 >= Columns - MarginAmt
      <3>1. I!ScrollRefresh(content')
        BY <1>2, <2>2 DEF I!Type
      <3>2. Len(content') <= MaxLength
        BY <1>0, <1>1, <2>1
      <3> HIDE DEF I!ScrollRefresh
      <3> QED
        BY <1>1, <1>2, <3>1, <3>2, ScrollRefreshKeeps
    <2>3. CASE ~(pos + 1 >= Columns - MarginAmt)
      <3>1. I!Echo(char) /\ pos' = pos + 1 /\ scrolled' = scrolled
        BY <1>2, <2>3 DEF I!Type
      <3>2. pos \in 0 .. Columns /\ pos = Len(content) - I!Hidden /\ pos + 1 <= Columns
        BY <1>0, <1>2, <2>3 DEF LineEditInv
      <3>3. Shown(content', I!Hidden, screen', cursor')
        BY <1>0, <1>1, <1>h, <3>1, <3>2, EchoShows DEF LineEditInv
      <3>4. I!Hidden' = I!Hidden
        BY <3>1 DEF I!Hidden
      <3>5. scrolling'
        BY <1>1, <1>2
      <3> QED
        BY <1>0, <1>1, <1>h, <2>1, <3>1, <3>2, <3>3, <3>4, <3>5 DEF LineEditInv
    <2> QED
      BY <2>2, <2>3
  <1>3. CASE ~scrolling
    <2>1. Len(content) < Columns /\ I!Echo(char) /\ scrolled' = scrolled
      BY <1>3 DEF I!Type, I!Fits
    <2>2. scrolled = 0
      BY <1>3 DEF LineEditInv
    <2>3. I!Hidden = 0 /\ I!Hidden' = 0
      BY <2>1, <2>2 DEF I!Hidden
    <2>4. Shown(content', 0, screen', cursor')
      BY <1>0, <1>1, <2>1, <2>3, EchoShows DEF LineEditInv
    <2>5. ~scrolling'
      BY <1>1, <1>3
    <2> QED
      BY <1>0, <1>1, <2>1, <2>2, <2>3, <2>4, <2>5 DEF LineEditInv
  <1> QED
    BY <1>2, <1>3

LEMMA BackspaceKeeps ==
  ASSUME I!LineEditAssumption, LineEditInv, I!Backspace
  PROVE  LineEditInv'
  <1>0. /\ Columns \in Nat /\ MaxLength \in Nat /\ ScrollAmt \in Nat /\ ScrollAmt >= 1
        /\ content \in Seq(I!Char) /\ Len(content) \in Nat /\ Len(content) > 0
        /\ scrolled \in Nat /\ (scrolled > 0 => scrolled > 2)
    BY DEF I!LineEditAssumption, LineEditInv, I!Backspace
  <1>1. /\ content' \in Seq(I!Char)
        /\ Len(content') = Len(content) - 1
        /\ \A i \in 1 .. Len(content') : content'[i] = content[i]
        /\ scrolling' = scrolling
    <2>1. content' = SubSeq(content, 1, Len(content) - 1) /\ scrolling' = scrolling
      BY DEF I!Backspace, I!Front
    <2>2. Len(content) - 1 \in 0 .. Len(content)
      BY <1>0
    <2> QED
      BY <1>0, <2>1, <2>2, PrefixOf
  <1>h. I!Hidden \in Nat /\ (scrolled = 0 => I!Hidden = 0)
    BY <1>0, HiddenIs
  <1>2. CASE scrolling
    <2>1. pos \in 0 .. Columns /\ pos = Len(content) - I!Hidden /\ Len(content) <= MaxLength
      BY <1>2 DEF LineEditInv
    <2>2. CASE scrolled > 0 /\ pos < ScrollAmt
      <3>1. I!ScrollRefresh(content')
        BY <1>2, <2>2 DEF I!Backspace
      <3> QED
        BY <1>0, <1>1, <1>2, <2>1, <3>1, ScrollRefreshKeeps
    <2>3. CASE ~(scrolled > 0 /\ pos < ScrollAmt)
      <3>1. I!Erase(1) /\ pos' = pos - 1 /\ scrolled' = scrolled
        BY <1>2, <2>3 DEF I!Backspace
      <3>2. pos >= 1
        BY <1>0, <1>h, <2>1, <2>3
      <3>3. Shown(content', I!Hidden, screen', cursor')
        <4>1. Shown(content, I!Hidden, screen, cursor)
          BY DEF LineEditInv
        <4>2. 1 \in Nat /\ 1 <= Len(content) - I!Hidden
          BY <2>1, <3>2
        <4> QED
          BY <1>0, <1>1, <1>h, <3>1, <4>1, <4>2, EraseShows
      <3>4. I!Hidden' = I!Hidden
        BY <3>1 DEF I!Hidden
      <3>5. scrolling'
        BY <1>1, <1>2
      <3> QED
        BY <1>0, <1>1, <1>h, <2>1, <3>1, <3>2, <3>3, <3>4, <3>5 DEF LineEditInv
    <2> QED
      BY <2>2, <2>3
  <1>3. CASE ~scrolling
    <2>2. scrolled = 0 /\ Len(content) <= Columns
      BY <1>3 DEF LineEditInv
    <2>1. I!Erase(1) /\ scrolled' = scrolled
      BY <1>3 DEF I!Backspace
    <2>3. I!Hidden = 0 /\ I!Hidden' = 0
      BY <2>1, <2>2 DEF I!Hidden
    <2>4. Shown(content', 0, screen', cursor')
      <3>1. Shown(content, 0, screen, cursor)
        BY <2>3 DEF LineEditInv
      <3>2. 1 \in Nat /\ 1 <= Len(content) - 0
        BY <1>0
      <3> QED
        BY <1>0, <1>1, <2>1, <3>1, <3>2, EraseShows
    <2>5. ~scrolling'
      BY <1>1, <1>3
    <2> QED
      BY <1>0, <1>1, <2>1, <2>2, <2>3, <2>4, <2>5 DEF LineEditInv
  <1> QED
    BY <1>2, <1>3

LEMMA BackwordKeeps ==
  ASSUME I!LineEditAssumption, LineEditInv, I!Backword
  PROVE  LineEditInv'
  <1>0. /\ Columns \in Nat /\ MaxLength \in Nat
        /\ content \in Seq(I!Char) /\ Len(content) \in Nat
    BY DEF I!LineEditAssumption, LineEditInv
  <1>1. PICK n \in 0 .. Len(content) : content' = SubSeq(content, 1, n)
    BY <1>0, LastWordRemoved DEF I!Backword
  <1>2. /\ content' \in Seq(I!Char) /\ Len(content') = n
        /\ \A i \in 1 .. Len(content') : content'[i] = content[i]
        /\ scrolling' = scrolling
    <2>1. scrolling' = scrolling
      BY DEF I!Backword
    <2> QED
      BY <1>0, <1>1, <2>1, PrefixOf
  <1>3. CASE scrolling
    <2>1. I!ScrollRefresh(content') /\ Len(content') <= MaxLength
      BY <1>0, <1>2, <1>3 DEF I!Backword, LineEditInv
    <2> QED
      BY <1>2, <1>3, <2>1, ScrollRefreshKeeps
  <1>4. CASE ~scrolling
    <2>1. I!Erase(Len(content) - Len(content')) /\ scrolled' = scrolled
      BY <1>4 DEF I!Backword
    <2>2. scrolled = 0 /\ Len(content) <= Columns
      BY <1>4 DEF LineEditInv
    <2>3. I!Hidden = 0 /\ I!Hidden' = 0
      BY <2>1, <2>2 DEF I!Hidden
    <2>4. Shown(content', 0, screen', cursor')
      <3>1. Shown(content, 0, screen, cursor)
        BY <2>3 DEF LineEditInv
      <3> DEFINE k == Len(content) - Len(content')
      <3>2. k \in Nat /\ k <= Len(content) - 0 /\ Len(content') = Len(content) - k
        BY <1>0, <1>2
      <3>3. I!Erase(k)
        BY <2>1
      <3> HIDE DEF k
      <3> QED
        BY <1>0, <1>2, <3>1, <3>2, <3>3, EraseShows
    <2>5. ~scrolling'
      BY <1>2, <1>4
    <2> QED
      BY <1>0, <1>2, <2>1, <2>2, <2>3, <2>4, <2>5 DEF LineEditInv
  <1> QED
    BY <1>3, <1>4

\* Each step preserves the invariant.
LEMMA LineEditNext == I!LineEditAssumption /\ LineEditInv /\ [I!Next]_I!vars => LineEditInv'
  <1> SUFFICES ASSUME I!LineEditAssumption, LineEditInv, [I!Next]_I!vars PROVE LineEditInv'
    OBVIOUS
  <1>0. MaxLength \in Nat /\ content \in Seq(I!Char)
    BY DEF I!LineEditAssumption, LineEditInv
  <1>1. CASE I!Refresh
    <2>1. scrolling' = scrolling /\ content' = content
      BY <1>1 DEF I!Refresh
    <2>2. CASE scrolling
      <3>1. I!ScrollRefresh(content) /\ Len(content) <= MaxLength
        BY <1>1, <2>2 DEF I!Refresh, LineEditInv
      <3> QED
        BY <1>0, <2>1, <2>2, <3>1, ScrollRefreshKeeps
    <2>3. CASE ~scrolling
      <3>1. I!LineRefresh(content) /\ Len(content) <= Columns /\ scrolled = 0
        BY <1>1, <2>3 DEF I!Refresh, LineEditInv
      <3> QED
        BY <1>0, <2>1, <2>3, <3>1, LineRefreshKeeps
    <2> QED
      BY <2>2, <2>3
  <1>2. ASSUME NEW char \in I!Char, I!Type(char) PROVE LineEditInv'
    BY <1>2, TypeKeeps
  <1>3. CASE I!Backspace
    BY <1>3, BackspaceKeeps
  <1>4. CASE I!Backword
    BY <1>4, BackwordKeeps
  <1>5. CASE I!Update
    <2>1. /\ scrolling /\ scrolling' = scrolling /\ content' = << >>
          /\ I!ScrollRefresh(content')
      BY <1>5 DEF I!Update
    <2>2. << >> \in Seq(I!Char) /\ Len(<< >>) <= MaxLength
      BY <1>0
    <2> QED
      BY <2>1, <2>2, ScrollRefreshKeeps
  <1>6. CASE UNCHANGED I!vars
    <2>1. /\ scrolling' = scrolling /\ content' = content /\ scrolled' = scrolled
          /\ pos' = pos /\ screen' = screen /\ cursor' = cursor
      BY <1>6 DEF I!vars
    <2>2. I!Hidden' = I!Hidden
      BY <2>1 DEF I!Hidden
    <2> QED
      BY <2>1, <2>2 DEF LineEditInv
  <1> QED
    BY <1>1, <1>2, <1>3, <1>4, <1>5, <1>6 DEF I!Next

\* The invariant says what the property does.
LEMMA LineEditShows == LineEditInv => I!ScreenShowsContent
  <1> SUFFICES ASSUME LineEditInv PROVE I!ScreenShowsContent
    OBVIOUS
  <1>0. Len(I!Strip) = 2
    BY DEF I!Strip
  <1>1. /\ I!Hidden \in Nat /\ (scrolled > 0 <=> I!Hidden > 0) /\ Len(content) \in Nat
        /\ cursor = Len(content) - I!Hidden + 1
    BY HiddenIs DEF LineEditInv, Shown
  <1>2. cursor - 1 = Len(content) - I!Hidden
    BY <1>1
  <1>3. scrolling => cursor - 1 = pos
    BY <1>2 DEF LineEditInv
  <1>4. \A c \in I!Column :
          IF c >= cursor THEN screen[c] = I!Space
          ELSE (scrolled > 0 /\ c <= Len(I!Strip)) \/ screen[c] = content[I!Hidden + c]
    BY <1>0, <1>1 DEF LineEditInv, Shown
  <1> QED
    BY <1>2, <1>3, <1>4 DEF I!ScreenShowsContent

\* Whatever was typed, erased and scrolled, the screen shows the end of the content, each
\* character in its column, with the cursor after the last (editor.py:423).
THEOREM ContentIsShown ==
  ASSUME I!LineEditAssumption
  PROVE  I!Spec => []I!ScreenShowsContent
  BY LineEditInit, LineEditShows, LineEditNext, PTL DEF I!Spec
=============================================================================
