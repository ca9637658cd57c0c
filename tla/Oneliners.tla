----------------------------- MODULE Oneliners -----------------------------
(***************************************************************************)
(* The oneliners (default/ol.py): a table that every session adds to and   *)
(* trims, and the shroo.ms wall, which a thread of the session fetches and *)
(* the session merges into the table.                                      *)
(*                                                                         *)
(* A oneliner is known by the time it was written; the wall gives its key, *)
(* a local one gets the next number.  Each request of the database is a    *)
(* step: the lock of `with udb' is one of the session's own process.       *)
(*                                                                         *)
(* Left out: 'oneliner', which add_oneline sends as 'global', is read by   *)
(* nobody under that name.                                                 *)
(***************************************************************************)
EXTENDS Integers, FiniteSets, FiniteSetsExt, Functions

CONSTANTS
  Session,
  MAX_HISTORY,  \* 0 in the configuration is the default
  Slack,        \* how many more are tolerated: 10 in the code
  MaxLines,     \* oneliners written (a bound)
  MaxVisits     \* visits, and redraws, of all sessions (a bound)

OnelinersAssumption ==
  /\ MAX_HISTORY \in Nat \ {0}
  /\ Slack \in Nat /\ MaxLines \in Nat /\ MaxVisits \in Nat

VARIABLES
  shroo_ms_enabled,
  udb,        \* the table: when the oneliner of a key was written
  wall,       \* the times of those on shroo.ms
  lines,      \* how many were written
  visits,
  at,         \* what each session does
  thread,     \* the thread it keeps
  dirty,      \* it is to draw the oneliners again
  oneliner,   \* the event is buffered
  read,       \* what maybe_expunge_records and add_oneline read
  disturbed   \* a session was ended between what it added and the end of its trim, or two
              \* were between these, and none that was there alone has seen the table
              \* to keep to its ceiling since

vars == <<shroo_ms_enabled, udb, wall, lines, visits, at, thread, dirty, oneliner, read,
          disturbed>>

Time   == 1 .. MaxLines
Stage  == {"out", "prompt", "saying", "writing", "checking", "copying", "sorting", "deleting"}
Adding == {"writing", "checking", "copying", "sorting", "deleting"}
NoThread == [state |-> "none", existing |-> {}, new |-> {}]

TypeOK ==
  /\ shroo_ms_enabled \in BOOLEAN
  /\ DOMAIN udb \subseteq Time /\ \A key \in DOMAIN udb : udb[key] \in Time
  /\ wall \subseteq Time
  /\ lines \in 0 .. MaxLines
  /\ visits \in 0 .. MaxVisits
  /\ at \in [Session -> Stage]
  /\ thread \in [Session -> [state : {"none", "fetching", "ending", "ended"},
                             existing : SUBSET Time, new : SUBSET Time]]
  /\ dirty \in [Session -> BOOLEAN]
  /\ oneliner \in [Session -> BOOLEAN]
  /\ \A s \in Session : read[s].key \in 0 .. MaxLines /\ DOMAIN read[s].contents \subseteq Time
  /\ disturbed \in BOOLEAN

Nothing == [key |-> 0, contents |-> << >>]

Init ==
  /\ shroo_ms_enabled \in BOOLEAN
  /\ udb = << >>
  /\ wall = {}
  /\ lines = 0
  /\ visits = 0
  /\ at = [s \in Session |-> "out"]
  /\ thread = [s \in Session |-> NoThread]
  /\ dirty = [s \in Session |-> FALSE]
  /\ oneliner = [s \in Session |-> FALSE]
  /\ read = [s \in Session |-> Nothing]
  /\ disturbed = FALSE

-----------------------------------------------------------------------------
Goes(s, stage) == at' = [at EXCEPT ![s] = stage]
Visits == visits < MaxVisits /\ visits' = visits + 1
Fetching == [state |-> "fetching", existing |-> DOMAIN udb, new |-> {}]
Latest(times, n) == {t \in times : Cardinality({u \in times : u > t}) < n}

\* whether another session is between what it adds and the end of its trim
OthersAdd(s) == \E t \in Session \ {s} : at[t] \in Adding

\* main and do_prompt
Enter(s) ==
  /\ at[s] = "out" /\ Visits
  /\ Goes(s, "prompt")
  /\ dirty' = [dirty EXCEPT ![s] = TRUE]
  /\ thread' = [thread EXCEPT ![s] = IF shroo_ms_enabled THEN Fetching ELSE NoThread]
  /\ UNCHANGED <<shroo_ms_enabled, udb, wall, lines, oneliner, read, disturbed>>

\* Somebody writes on the wall elsewhere.
Elsewhere ==
  /\ shroo_ms_enabled /\ lines < MaxLines
  /\ lines' = lines + 1
  /\ wall' = wall \cup {lines'}
  /\ UNCHANGED <<shroo_ms_enabled, udb, visits, at, thread, dirty, oneliner, read, disturbed>>

\* run, notify_update_database, in the thread; or the request fails.
Fetch(s) ==
  /\ thread[s].state = "fetching"
  /\ \E content \in {Latest(wall, MAX_HISTORY), {}} :
       LET new_content == content \ thread[s].existing IN
       /\ thread' = [thread EXCEPT ![s] = [state |-> "ending", existing |-> @.existing,
                                           new |-> new_content]]
       /\ oneliner' = [oneliner EXCEPT ![s] = @ \/ new_content # {}]
  /\ UNCHANGED <<shroo_ms_enabled, udb, wall, lines, visits, at, dirty, read, disturbed>>

\* is_alive() is true until the thread has ended.
ThreadEnds(s) ==
  /\ thread[s].state = "ending"
  /\ thread' = [thread EXCEPT ![s].state = "ended"]
  /\ UNCHANGED <<shroo_ms_enabled, udb, wall, lines, visits, at, dirty, oneliner, read,
                 disturbed>>

Merged(s) ==
  [key \in thread[s].new \cup DOMAIN udb |-> IF key \in thread[s].new THEN key ELSE udb[key]]

\* mutant of Merge: what is merged is not trimmed
MergeOnly(s) == udb' = Merged(s) /\ Goes(s, "prompt") /\ UNCHANGED disturbed

\* do_merge_shroo_ms
Merge(s) ==
  /\ udb' = Merged(s)
  /\ Goes(s, "checking")
  /\ disturbed' = (disturbed \/ OthersAdd(s))

\* The oneliners are drawn; what an ended thread has found is merged first.
Draw(s) ==
  /\ at[s] = "prompt" /\ dirty[s]
  /\ dirty' = [dirty EXCEPT ![s] = FALSE]
  /\ IF thread[s].state = "ended"
     THEN /\ thread' = [thread EXCEPT ![s] = NoThread]
          /\ IF thread[s].new # {} THEN Merge(s) ELSE UNCHANGED <<udb, at, disturbed>>
     ELSE UNCHANGED <<udb, at, thread, disturbed>>
  /\ UNCHANGED <<shroo_ms_enabled, wall, lines, visits, oneliner, read>>

\* 'oneliner', 'refresh', or scrolling
Redraw(s) ==
  /\ at[s] = "prompt" /\ ~dirty[s]
  /\ \/ oneliner[s] /\ UNCHANGED visits
     \/ Visits
  /\ dirty' = [dirty EXCEPT ![s] = TRUE]
  /\ oneliner' = [oneliner EXCEPT ![s] = FALSE]
  /\ UNCHANGED <<shroo_ms_enabled, udb, wall, lines, at, thread, read, disturbed>>

\* say_something
Say(s) ==
  /\ at[s] = "prompt" /\ ~dirty[s]
  /\ Goes(s, "saying")
  /\ UNCHANGED <<shroo_ms_enabled, udb, wall, lines, visits, thread, dirty, oneliner, read,
                 disturbed>>

\* post_shroo_ms: what cannot be posted is not added here either.
Post(s) ==
  /\ at[s] = "saying" /\ shroo_ms_enabled
  /\ \/ UNCHANGED <<wall, lines, thread>>
     \/ /\ lines < MaxLines
        /\ lines' = lines + 1
        /\ wall' = wall \cup {lines'}
        /\ thread' = [thread EXCEPT ![s] = Fetching]
  /\ Goes(s, "prompt")
  /\ UNCHANGED <<shroo_ms_enabled, udb, visits, dirty, oneliner, read, disturbed>>

\* add_oneline: the next key, and then the oneliner under it
NextKey(s) ==
  /\ at[s] = "saying" /\ ~shroo_ms_enabled
  /\ read' = [read EXCEPT ![s].key = Max(DOMAIN udb \cup {0}) + 1]
  /\ read'[s].key \in Time
  /\ Goes(s, "writing")
  /\ disturbed' = (disturbed \/ OthersAdd(s))
  /\ UNCHANGED <<shroo_ms_enabled, udb, wall, lines, visits, thread, dirty, oneliner>>

AddOneline(s) ==
  /\ at[s] = "writing" /\ lines < MaxLines
  /\ lines' = lines + 1
  /\ udb' = [key \in DOMAIN udb \cup {read[s].key} |->
              IF key = read[s].key THEN lines' ELSE udb[key]]
  /\ Goes(s, "checking")
  /\ UNCHANGED <<shroo_ms_enabled, wall, visits, thread, dirty, oneliner, read, disturbed>>

-----------------------------------------------------------------------------
(* maybe_expunge_records: the number of records, a copy of them, the       *)
(* number again, and the deletions, one by one in the order of time.       *)

Trimmed(s) == Goes(s, "prompt") /\ dirty' = [dirty EXCEPT ![s] = TRUE]

Ended(s) ==
  /\ Goes(s, "out")
  /\ thread' = [thread EXCEPT ![s] = NoThread]
  /\ dirty' = [dirty EXCEPT ![s] = FALSE]
  /\ oneliner' = [oneliner EXCEPT ![s] = FALSE]
  /\ read' = [read EXCEPT ![s] = Nothing]

CheckCeiling(s) ==
  /\ at[s] = "checking"
  /\ IF Cardinality(DOMAIN udb) > MAX_HISTORY + Slack
     THEN Goes(s, "copying") /\ UNCHANGED <<dirty, disturbed>>
     ELSE Trimmed(s) /\ disturbed' = (disturbed /\ OthersAdd(s))
  /\ UNCHANGED <<shroo_ms_enabled, udb, wall, lines, visits, thread, oneliner, read>>

CopyRecords(s) ==
  /\ at[s] = "copying"
  /\ read' = [read EXCEPT ![s].contents = udb]
  /\ Goes(s, "sorting")
  /\ UNCHANGED <<shroo_ms_enabled, udb, wall, lines, visits, thread, dirty, oneliner, disturbed>>

Older(contents, key) == {k \in DOMAIN contents : contents[k] < contents[key]}

\* `_sorted[len(udb) - MAX_HISTORY:]': all of the copy but the oldest, as many of
\* those as the table has too many (an index below zero counts from the end).
SortRecords(s) ==
  /\ at[s] = "sorting"
  /\ LET contents == read[s].contents
         surplus  == Cardinality(DOMAIN udb) - MAX_HISTORY
         first    == IF surplus >= 0 THEN surplus
                     ELSE Max({0, surplus + Cardinality(DOMAIN contents)})
         latest   == {key \in DOMAIN contents : Cardinality(Older(contents, key)) >= first}
     IN read' = [read EXCEPT ![s].contents = Restrict(contents, latest)]
  /\ Goes(s, "deleting")
  /\ UNCHANGED <<shroo_ms_enabled, udb, wall, lines, visits, thread, dirty, oneliner, disturbed>>

\* The oldest that is left of the slice.  A record that another session has deleted
\* meanwhile is a KeyError, which ends the script with nothing more deleted.
DeleteRecord(s) ==
  /\ at[s] = "deleting"
  /\ \E key \in DOMAIN read[s].contents :
       /\ Older(read[s].contents, key) = {}
       /\ IF key \in DOMAIN udb
          THEN /\ udb' = Restrict(udb, DOMAIN udb \ {key})
               /\ read' = [read EXCEPT ![s].contents = Restrict(@, DOMAIN @ \ {key})]
               /\ UNCHANGED <<at, thread, dirty, oneliner, disturbed>>
          ELSE /\ Ended(s) /\ disturbed' = TRUE
               /\ UNCHANGED udb
  /\ UNCHANGED <<shroo_ms_enabled, wall, lines, visits>>

EndTrim(s) ==
  /\ at[s] = "deleting" /\ DOMAIN read[s].contents = {}
  /\ Trimmed(s)
  /\ UNCHANGED <<shroo_ms_enabled, udb, wall, lines, visits, thread, oneliner, read, disturbed>>

\* 'n', or the session is disconnected, between any two requests.
Leave(s) ==
  /\ at[s] # "out"
  /\ Ended(s)
  /\ disturbed' = (disturbed \/ at[s] \in Adding)
  /\ UNCHANGED <<shroo_ms_enabled, udb, wall, lines, visits>>

Next ==
  \/ Elsewhere
  \/ \E s \in Session :
       \/ Enter(s) \/ Fetch(s) \/ ThreadEnds(s) \/ Draw(s) \/ Redraw(s)
       \/ Say(s) \/ Post(s) \/ NextKey(s) \/ AddOneline(s)
       \/ CheckCeiling(s) \/ CopyRecords(s) \/ SortRecords(s) \/ DeleteRecord(s) \/ EndTrim(s)
       \/ Leave(s)

Spec == Init /\ [][Next]_vars

-----------------------------------------------------------------------------
(* Properties.                                                             *)

\* The table keeps to its ceiling whenever no session is between adding to it and
\* the end of its trim, if none was ended there and they took turns.  (Of two that
\* were not, one may count what the other has added to a copy from before, and
\* delete nothing.)
HistoryBounded ==
  (~disturbed /\ \A s \in Session : at[s] \notin Adding)
    => Cardinality(DOMAIN udb) <= MAX_HISTORY + Slack
=============================================================================
