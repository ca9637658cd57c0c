------------------------------ MODULE Fail2Ban ------------------------------
(***************************************************************************)
(* Which connections are accepted (fail2ban.py): the function that         *)
(* get_fail2ban_function() returns, and the clock it looks at.  The        *)
(* servers' accept() calls it in the thread of the engine's loop.          *)
(***************************************************************************)
EXTENDS Naturals, FiniteSets

CONSTANTS
  Ip,
  Blacklist,     \* ip_blacklist
  Whitelist,     \* ip_whitelist
  MaxAttempts,   \* max_attempted_logins
  Window,        \* max_attempted_logins_window, in ticks of the clock
  BanLength,     \* initial_ban_length
  BanIncrement,  \* ban_increment_length
  MaxTime,       \* when the clock stops (a bound)
  MaxTries       \* connections (a bound)

Fail2BanAssumption ==
  /\ Blacklist \subseteq Ip /\ Whitelist \subseteq Ip
  /\ MaxAttempts \in Nat \ {0} /\ Window \in Nat \ {0}
  /\ BanLength \in Nat \ {0} /\ BanIncrement \in Nat
  /\ MaxTime \in Nat \ {0} /\ MaxTries \in Nat
  /\ BanLength >= Window

VARIABLES
  now,       \* time.time()
  banned,    \* BANNED_IP_LIST: when the ban of an address ends
  attempts,  \* ATTEMPTED_LOGINS: attempts and expiry
  tries,     \* connections so far
  accepted   \* those accepted, as pairs of a number and a time

vars == <<now, banned, attempts, tries, accepted>>

None == 0    \* an address without an entry; all times are later

Attempt == [attempts : Nat, expiry : Nat]
NoAttempt == [attempts |-> 0, expiry |-> None]

TypeOK ==
  /\ now \in 1 .. MaxTime
  /\ banned \in [Ip -> Nat]
  /\ attempts \in [Ip -> Attempt]
  /\ tries \in 0 .. MaxTries
  /\ accepted \in [Ip -> SUBSET ((1 .. MaxTries) \X (1 .. MaxTime))]

Init ==
  /\ now = 1
  /\ banned = [ip \in Ip |-> None]
  /\ attempts = [ip \in Ip |-> NoAttempt]
  /\ tries = 0
  /\ accepted = [ip \in Ip |-> {}]

-----------------------------------------------------------------------------
FirstAttempt == [attempts |-> 1, expiry |-> now + Window]

IsBanned(ip)  == banned[ip] # None
HasTried(ip)  == attempts[ip] # NoAttempt

Answer(ip, yes) ==
  /\ tries' = tries + 1
  /\ accepted' = [accepted EXCEPT ![ip] = IF yes THEN @ \cup {<<tries', now>>} ELSE @]

Blacklisted(ip) ==
  /\ ip \in Blacklist
  /\ Answer(ip, FALSE)
  /\ UNCHANGED <<banned, attempts>>

BanExpired(ip) ==
  /\ ip \notin Blacklist
  /\ IsBanned(ip)
  /\ now > banned[ip]
  /\ banned' = [banned EXCEPT ![ip] = None]
  /\ attempts' = [attempts EXCEPT ![ip] = FirstAttempt]
  /\ Answer(ip, TRUE)

StillBanned(ip) ==
  /\ ip \notin Blacklist
  /\ IsBanned(ip)
  /\ now <= banned[ip]
  /\ banned' = [banned EXCEPT ![ip] = @ + BanIncrement]
  /\ Answer(ip, FALSE)
  /\ UNCHANGED attempts

\* In the chain of `elif', what follows is for addresses that are not banned.
Counted(ip) == ip \notin Blacklist /\ ~IsBanned(ip) /\ HasTried(ip)

WindowClosed(ip) ==
  /\ Counted(ip)
  /\ now > attempts[ip].expiry
  /\ attempts' = [attempts EXCEPT ![ip] = FirstAttempt]
  /\ Answer(ip, TRUE)
  /\ UNCHANGED banned

Ban(ip) ==
  /\ Counted(ip)
  /\ now <= attempts[ip].expiry
  /\ attempts[ip].attempts > MaxAttempts
  /\ attempts' = [attempts EXCEPT ![ip] = NoAttempt]
  /\ banned' = [banned EXCEPT ![ip] = now + BanLength]
  /\ Answer(ip, FALSE)

\* mutant of Extend: the window is not extended
ExtendNot(ip) ==
  /\ Counted(ip)
  /\ now <= attempts[ip].expiry
  /\ attempts[ip].attempts <= MaxAttempts
  /\ attempts' = [attempts EXCEPT ![ip].attempts = @ + 1]
  /\ Answer(ip, TRUE)
  /\ UNCHANGED banned

Extend(ip) ==
  /\ Counted(ip)
  /\ now <= attempts[ip].expiry
  /\ attempts[ip].attempts <= MaxAttempts
  /\ attempts' = [attempts EXCEPT ![ip] = [attempts |-> @.attempts + 1, expiry |-> @.expiry + Window]]
  /\ Answer(ip, TRUE)
  /\ UNCHANGED banned

First(ip) ==
  /\ ip \notin Blacklist
  /\ ~IsBanned(ip)
  /\ ~HasTried(ip)
  /\ attempts' = IF ip \in Whitelist THEN attempts
                 ELSE [attempts EXCEPT ![ip] = FirstAttempt]
  /\ Answer(ip, TRUE)
  /\ UNCHANGED banned

Connect(ip) ==
  /\ tries < MaxTries
  /\ UNCHANGED now
  /\ \/ Blacklisted(ip) \/ BanExpired(ip) \/ StillBanned(ip)
     \/ WindowClosed(ip) \/ Ban(ip) \/ Extend(ip) \/ First(ip)

Tick ==
  /\ now < MaxTime
  /\ now' = now + 1
  /\ UNCHANGED <<banned, attempts, tries, accepted>>

Finished ==
  /\ now = MaxTime
  /\ tries = MaxTries
  /\ UNCHANGED vars

Next == (\E ip \in Ip : Connect(ip)) \/ Tick \/ Finished

Spec == Init /\ [][Next]_vars

-----------------------------------------------------------------------------
(* Properties.                                                             *)

\* The entry of an address is made anew as its window closes or its ban ends,
\* and yet no more than MaxAttempts + 1 connections are accepted from it within
\* the length of one window, wherever that begins.  That is one more than "max
\* no. of logins allowed for given time window" (fail2ban.py:13): a connection is
\* compared with the number of those before it (fail2ban.py:119).
RateBounded ==
  \A ip \in Ip \ Whitelist : \A t \in 1 .. MaxTime :
    Cardinality({a \in accepted[ip] : a[2] \in t .. t + Window - 1}) <= MaxAttempts + 1
=============================================================================
