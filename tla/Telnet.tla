------------------------------- MODULE Telnet -------------------------------
(***************************************************************************)
(* The negotiation of telnet options (telnet.py): the engine's loop that   *)
(* handles what the distant end sends, and the thread of ConnectTelnet     *)
(* that makes the first requests, waits for answers and starts a session.  *)
(*                                                                         *)
(* The distant end is external: it follows RFC 854 as the notes of         *)
(* telnet.py tell it, answers what it is asked as it likes, and changes    *)
(* its mind a few times.                                                   *)
(*                                                                         *)
(* reply_pending is left out: only _send_status reads it, whose content is *)
(* left out, and _handle_wont, which has cleared it before.                *)
(***************************************************************************)
EXTENDS Naturals, Sequences

CONSTANTS
  Spoken,   \* the options the distant end knows of; it is silent about others
  MaxWhims  \* changes of its mind (a bound)

Option == {"ECHO", "SGA", "BINARY", "TTYPE", "NAWS", "NEW_ENVIRON", "STATUS",
           "XDISPLOC", "LINEMODE", "ENCRYPT", "OTHER"}

TelnetAssumption == Spoken \subseteq Option /\ MaxWhims \in Nat

UnsupportedWill == {"LINEMODE", "ENCRYPT"}    \* and LFLOW, TSPEED, AUTHENTICATION

\* What is sent and received: a command and its option, or a sub-negotiation.
Verb    == {"DO", "DONT", "WILL", "WONT", "SB"}
Command == Verb \X Option

VARIABLES
  local,   \* TelnetOption.local_option
  remote,  \* TelnetOption.remote_option
  active,  \* the client is active
  term,    \* env['TERM'] is known
  asked,   \* ENV_REQUESTED
  replied, \* ENV_REPLIED
  heard,   \* bytes were received
  stage,   \* of ConnectTelnet.run
  made,    \* how many of the banner's requests were made
  late,    \* TIME_NEGOTIATE, then TIME_WAIT_STAGE, has passed
  coding,  \* env['encoding']
  toEnd,   \* commands sent to the distant end
  toHost,  \* commands it sent
  mine,    \* the distant end: options it uses
  yours,   \* those it takes the host to use
  willing, \* and those it agrees to
  whims    \* how often it changed its mind

server == <<local, remote, active, term, asked, replied, heard>>
thread == <<stage, made, late, coding>>
end    == <<mine, yours, willing, whims>>
vars   == <<server, thread, end, toEnd, toHost>>

TypeOK ==
  /\ local \in [Option -> {"unknown", "on", "off"}]
  /\ remote \in [Option -> {"unknown", "on", "off"}]
  /\ active \in BOOLEAN /\ term \in BOOLEAN /\ heard \in BOOLEAN
  /\ asked \in BOOLEAN /\ replied \in BOOLEAN
  /\ stage \in {"banner", "wait", "ttype", "env", "encoding", "spawned", "closed"}
  /\ made \in Nat /\ late \in 0 .. 2 /\ coding \in {"none", "utf8", "cp437"}
  /\ toEnd \in Seq(Command) /\ toHost \in Seq(Command)
  /\ mine \in [Option -> {"no", "asked", "yes"}]
  /\ yours \in [Option -> {"no", "asked", "yes"}]
  /\ willing \subseteq Spoken
  /\ whims \in 0 .. MaxWhims

Init ==
  /\ local = [o \in Option |-> "unknown"]
  /\ remote = [o \in Option |-> "unknown"]
  /\ active = TRUE
  /\ term = FALSE /\ asked = FALSE /\ replied = FALSE /\ heard = FALSE
  /\ stage = "banner"
  /\ made = 0 /\ late = 0 /\ coding = "none"
  /\ toEnd = << >> /\ toHost = << >>
  /\ mine = [o \in Option |-> "no"]
  /\ yours = [o \in Option |-> "no"]
  /\ willing \in SUBSET Spoken
  /\ whims = 0

-----------------------------------------------------------------------------
(* What the host does with a command it received.  Each handler says what   *)
(* it notes and what it sends.                                             *)

Note(l, r) == local' = l /\ remote' = r

Reply(out) == toEnd' = toEnd \o out

\* Options the host uses when it is told to.
GrantedDo == {"ECHO", "BINARY", "SGA", "STATUS"}

DoReply(o) ==
  CASE o = "SGA"    -> << <<"WILL", o>>, <<"DO", o>> >>
    [] o = "STATUS" -> << <<"WILL", o>>, <<"SB", o>> >>
    [] OTHER        -> << <<"WILL", o>> >>

HandleDo(o) ==
  IF o \in GrantedDo
  THEN IF local[o] # "on"
       THEN Note([local EXCEPT ![o] = "on"], remote) /\ Reply(DoReply(o))
       ELSE Note(local, remote) /\ Reply(<< >>)
  ELSE IF \/ o \in {"LINEMODE", "ENCRYPT"} /\ local[o] # "off"
          \/ local[o] = "unknown"
       THEN Note([local EXCEPT ![o] = "off"], remote) /\ Reply(<< <<"WONT", o>> >>)
       ELSE Note(local, remote) /\ Reply(<< >>)

\* mutant of HandleDont: what the distant end will not have is asked for again
HandleDontInsists(o) ==
  /\ Note(IF o \in {"ECHO", "BINARY", "SGA"} THEN [local EXCEPT ![o] = "off"] ELSE local, remote)
  /\ Reply(<< <<"WILL", o>> >>)

HandleDont(o) ==
  /\ CASE o \in {"ECHO", "BINARY", "SGA"} -> Note([local EXCEPT ![o] = "off"], remote)
       [] o = "LINEMODE"                  -> Note(local, [remote EXCEPT ![o] = "off"])
       [] OTHER                           -> Note(local, remote)
  /\ Reply(<< >>)

\* What is sent for a WILL of an option that is not in use.  XDISPLOC is asked
\* for every time: UNKNOWN and True are both true.
WillReply(o) ==
  CASE o \in {"BINARY", "NAWS", "SGA"} -> << <<"DO", o>> >>
    [] o \in {"STATUS", "TTYPE"}       -> << <<"SB", o>> >>
    [] o = "NEW_ENVIRON"               -> IF asked THEN << >> ELSE << <<"SB", o>> >>
    [] OTHER                           -> << >>

HandleWill(o) ==
  CASE o \in UnsupportedWill ->
         /\ Note(local, remote)
         /\ Reply(IF remote[o] # "off" THEN << <<"DONT", o>> >> ELSE << >>)
    [] o = "XDISPLOC" ->
         IF remote[o] # "off"
         THEN /\ Note(local, [remote EXCEPT ![o] = "on"])
              /\ Reply(<< <<"DO", o>>, <<"SB", o>> >>)
         ELSE Note(local, remote) /\ Reply(<< >>)
    [] o \in {"BINARY", "NAWS", "STATUS", "SGA", "NEW_ENVIRON", "TTYPE"} ->
         /\ Note(IF \/ o = "NAWS" /\ remote[o] # "on"
                    \/ o = "NEW_ENVIRON"
                 THEN [local EXCEPT ![o] = "on"] ELSE local,
                 [remote EXCEPT ![o] = "on"])
         /\ Reply(IF remote[o] # "on" THEN WillReply(o) ELSE << >>)
    [] OTHER -> Note(local, remote) /\ Reply(<< >>)

\* mutant of HandleWont: what is no longer used is not noted
HandleWontForgets(o) ==
  /\ Note(local, remote)
  /\ Reply(IF o \in {"ECHO", "BINARY", "SGA", "TTYPE"} /\ remote[o] # "off"
           THEN << <<"DONT", o>> >> ELSE << >>)

HandleWont(o) ==
  /\ Note(local, [remote EXCEPT ![o] = "off"])
  /\ Reply(IF o \in {"ECHO", "BINARY", "SGA", "TTYPE"} /\ remote[o] # "off"
           THEN << <<"DONT", o>> >> ELSE << >>)

\* A sub-negotiation: terminal type, environment, window size, status.
Decode(o) ==
  /\ term' = (term \/ o = "TTYPE")
  /\ replied' = (replied \/ o = "NEW_ENVIRON")
  /\ Note(local, remote)
  /\ Reply(IF o = "STATUS" THEN << <<"SB", o>> >> ELSE << >>)

-----------------------------------------------------------------------------
(* The engine's loop receives a command.                                   *)

Received == toHost' = Tail(toHost) /\ heard' = TRUE

HostReceive ==
  /\ active
  /\ toHost # << >>
  /\ Received
  /\ LET verb == Head(toHost)[1]
         o    == Head(toHost)[2] IN
     /\ <<verb, o>> # <<"WILL", "ECHO">>
     /\ CASE verb = "DO"   -> HandleDo(o)
          [] verb = "DONT" -> HandleDont(o)
          [] verb = "WILL" -> HandleWill(o)
          [] verb = "WONT" -> HandleWont(o)
          [] verb = "SB"   -> Decode(o)
     /\ verb # "SB" => UNCHANGED <<term, replied>>
     /\ asked' = (asked \/ (<<verb, o>> = <<"WILL", "NEW_ENVIRON">> /\ remote[o] # "on"))
  /\ UNCHANGED <<active, thread, end>>

\* WILL ECHO: the client is disconnected.
RefuseEcho ==
  /\ active
  /\ toHost # << >>
  /\ Head(toHost) = <<"WILL", "ECHO">>
  /\ Received
  /\ active' = FALSE
  /\ UNCHANGED <<local, remote, term, asked, replied, thread, end, toEnd>>

-----------------------------------------------------------------------------
(* ConnectTelnet.run                                                       *)

BannerRequests ==
  << <<"WILL", "ECHO">>, <<"WILL", "SGA">>, <<"DO", "SGA">>, <<"DO", "BINARY">>,
     <<"WILL", "BINARY">>, <<"DO", "TTYPE">>, <<"DO", "NAWS">>, <<"DO", "NEW_ENVIRON">> >>

\* One request.  The terminal type is not asked for when it was offered already.
Banner ==
  /\ stage = "banner"
  /\ LET request == BannerRequests[made + 1] IN
       Reply(IF request = <<"DO", "TTYPE">> /\ remote["TTYPE"] = "on"
             THEN << >> ELSE <<request>>)
  /\ made' = made + 1
  /\ stage' = IF made' = Len(BannerRequests) THEN "wait" ELSE "banner"
  /\ UNCHANGED <<server, late, coding, toHost, end>>

\* TERM, and then the environment, is waited for until TIME_WAIT_STAGE.  LINES
\* and COLUMNS have values from the start: the window size is not waited for.
Detected ==
  CASE stage = "wait"  -> heard
    [] stage = "ttype" -> term
    [] stage = "env"   -> remote["NEW_ENVIRON"] # "unknown" \/ replied

AfterStage ==
  CASE stage = "wait"  -> "ttype"
    [] stage = "ttype" -> IF term THEN "env" ELSE "encoding"
    [] stage = "env"   -> "encoding"

Negotiated ==
  /\ stage \in {"wait", "ttype", "env"}
  /\ Detected \/ (IF stage = "wait" THEN late > 0 ELSE late = 2)
  /\ stage' = AfterStage
  /\ UNCHANGED <<server, made, late, coding, toEnd, toHost, end>>

\* set_encoding: UNKNOWN, which is -1, is as true as True.
Binary == local["BINARY"] # "off" /\ remote["BINARY"] # "off"

\* The terminal is an 'ansi' one or not.
Spawn ==
  /\ stage = "encoding"
  /\ \E ansi \in IF term THEN BOOLEAN ELSE {FALSE} :
       coding' = IF Binary /\ ~ansi THEN "utf8" ELSE "cp437"
  /\ stage' = IF active THEN "spawned" ELSE "closed"
  /\ UNCHANGED <<server, made, late, toEnd, toHost, end>>

\* The thread ends where it sees that its client is not active.
GiveUp ==
  /\ ~active
  /\ stage \in {"wait", "ttype", "env"}
  /\ ~Detected
  /\ stage' = "closed"
  /\ UNCHANGED <<server, made, late, coding, toEnd, toHost, end>>

TimePasses ==
  /\ late < 2
  /\ stage \in {"wait", "ttype", "env"}
  /\ late' = late + 1
  /\ UNCHANGED <<server, stage, made, coding, toEnd, toHost, end>>

-----------------------------------------------------------------------------
(* The distant end (external).                                             *)

Say(out) == toHost' = toHost \o out

\* It tells its window size as soon as it may.
Consent(o) == IF o = "NAWS" THEN << <<"SB", o>> >> ELSE << >>

\* A party that is asked for what it does already does not answer; one that
\* asked itself takes the request for the answer.
HearDo(o) ==
  /\ UNCHANGED yours
  /\ mine' = [mine EXCEPT ![o] = IF o \in willing \ {"ECHO"} THEN "yes" ELSE @]
  /\ Say(CASE mine[o] = "yes"                     -> << >>
           [] mine[o] = "asked"                   -> Consent(o)
           [] mine[o] = "no" /\ mine'[o] = "yes"  -> << <<"WILL", o>> >> \o Consent(o)
           [] mine[o] = "no" /\ mine'[o] = "no"   -> << <<"WONT", o>> >>)

HearWill(o) ==
  /\ UNCHANGED mine
  /\ yours' = [yours EXCEPT ![o] = IF o \in willing THEN "yes" ELSE @]
  /\ Say(CASE yours[o] # "no"                      -> << >>
           [] yours[o] = "no" /\ yours'[o] = "yes" -> << <<"DO", o>> >>
           [] yours[o] = "no" /\ yours'[o] = "no"  -> << <<"DONT", o>> >>)

HearDont(o) ==
  /\ UNCHANGED yours
  /\ mine' = [mine EXCEPT ![o] = "no"]
  /\ Say(IF mine[o] = "yes" THEN << <<"WONT", o>> >> ELSE << >>)

HearWont(o) ==
  /\ UNCHANGED mine
  /\ yours' = [yours EXCEPT ![o] = "no"]
  /\ Say(IF yours[o] = "yes" THEN << <<"DONT", o>> >> ELSE << >>)

\* It answers a question about an option that it uses.
HearSb(o) ==
  /\ UNCHANGED <<mine, yours>>
  /\ Say(IF mine[o] = "yes" /\ o # "STATUS" THEN << <<"SB", o>> >> ELSE << >>)

EndReceive ==
  /\ toEnd # << >>
  /\ toEnd' = Tail(toEnd)
  /\ LET verb == Head(toEnd)[1]
         o    == Head(toEnd)[2] IN
     \/ o \notin Spoken /\ Say(<< >>) /\ UNCHANGED <<mine, yours>>
     \/ /\ o \in Spoken
        /\ \/ verb = "DO"   /\ HearDo(o)
           \/ verb = "DONT" /\ HearDont(o)
           \/ verb = "WILL" /\ HearWill(o)
           \/ verb = "WONT" /\ HearWont(o)
           \/ verb = "SB"   /\ HearSb(o)
  /\ UNCHANGED <<server, thread, willing, whims>>

\* It changes its mind when nothing is on its way: otherwise two ends that keep
\* no queue of requests may chase each other for ever (RFC 1143).
MayChange ==
  /\ whims < MaxWhims
  /\ stage # "banner"
  /\ toEnd = << >> /\ toHost = << >>
  /\ whims' = whims + 1
  /\ UNCHANGED <<server, thread, toEnd>>

Refuse(o) ==
  /\ MayChange
  /\ o \in willing
  /\ willing' = willing \ {o}
  /\ mine' = [mine EXCEPT ![o] = "no"]
  /\ yours' = [yours EXCEPT ![o] = "no"]
  /\ Say((IF mine[o] = "no" THEN << >> ELSE << <<"WONT", o>> >>)
         \o (IF yours[o] = "no" THEN << >> ELSE << <<"DONT", o>> >>))

Offer(o) ==
  /\ MayChange
  /\ o \notin willing
  /\ willing' = willing \cup {o}
  /\ mine' = [mine EXCEPT ![o] = "asked"]
  /\ Say(<< <<"WILL", o>> >>)
  /\ UNCHANGED yours

Demand(o) ==
  /\ MayChange
  /\ o \notin willing
  /\ willing' = willing \cup {o}
  /\ yours' = [yours EXCEPT ![o] = "asked"]
  /\ Say(<< <<"DO", o>> >>)
  /\ UNCHANGED mine

Whim == \E o \in Spoken : Refuse(o) \/ Offer(o) \/ Demand(o)

\* "If a party receives a request to enter a mode that it is already in, the request
\* should not be acknowledged" (telnet.py:97): whatever each asks of the other, in
\* the end nothing is on its way, and the session began or the client is let go.
Quiet == stage \in {"spawned", "closed"} /\ toEnd = << >> /\ (active => toHost = << >>)

Finished == Quiet /\ UNCHANGED vars

Next ==
  \/ HostReceive \/ RefuseEcho
  \/ Banner \/ Negotiated \/ Spawn \/ GiveUp \/ TimePasses
  \/ EndReceive \/ Whim
  \/ Finished

\* The loop polls every client, the thread waits in a loop of its own, and the
\* distant end, being a program, answers.
Fairness ==
  /\ WF_vars(HostReceive) /\ WF_vars(RefuseEcho) /\ WF_vars(EndReceive)
  /\ WF_vars(Banner) /\ WF_vars(Negotiated) /\ WF_vars(GiveUp) /\ WF_vars(Spawn)
  /\ WF_vars(TimePasses)

Spec == Init /\ [][Next]_vars /\ Fairness

-----------------------------------------------------------------------------
(* Properties.                                                             *)

\* When everything said has been heard, both ends think the same of the
\* options for which each tells the other of a change.
Agreement ==
  Quiet /\ active =>
    /\ \A o \in {"BINARY", "SGA", "NAWS"} \cap Spoken :
         remote[o] = "on" <=> mine[o] # "no"
    /\ \A o \in {"BINARY", "SGA", "ECHO"} \cap Spoken :
         local[o] = "on" <=> yours[o] # "no"
=============================================================================
