------------------------------ MODULE Accounts ------------------------------
(***************************************************************************)
(* The accounts of the board (bbs/userbase.py) and the scripts that make,  *)
(* use, change and delete them: matrix, nua, pwreset, top and profile.     *)
(*                                                                         *)
(* A User is a copy of a record of `userbase', which a session reads once, *)
(* changes in memory and saves whole; save() and delete() change `userbase'*)
(* and `groupbase' one after the other, each under its lock (shared: see   *)
(* module MsgBase).                                                        *)
(*                                                                         *)
(* Passwords, e-mail addresses and passkeys are matched or not, whatever   *)
(* they are; the attributes of a user play no part.                        *)
(***************************************************************************)
EXTENDS Naturals, Sequences, FiniteSets

CONSTANTS
  Session,
  Handle,
  Group,      \* with Sysop
  Sysop,
  MaxLogins,  \* login_max_attempts: 5
  MaxKeys     \* passkey_max_attempts: 5

AccountsAssumption == Sysop \in Group /\ MaxLogins \in Nat \ {0} /\ MaxKeys \in Nat \ {0}

Anonymous == "anonymous"
Nobody    == "nobody"

\* nua.get_validation_fields, and the confirmation.
Field == <<"handle", "location", "email", "password", "again", "confirm">>

\* do_reset has two loops of MaxKeys rounds, one inside the other.
Rounds == MaxKeys * MaxKeys

VARIABLES
  users,    \* `userbase': the groups of each account
  members,  \* `groupbase'
  at,       \* the script that a session is in, or goes on to
  db,       \* how far it is in save() or delete(), and of which copy
  tries,    \* its rounds of do_login
  count,    \* the field of nua, or the rounds of do_reset
  own,      \* session.user, or the User that nua or pwreset makes or reads
  tgt,      \* profile's tgt_user, when it is another object
  stale,    \* copies, as <<session, "own" or "tgt">>, that others have overtaken
  tainted   \* handles that were saved from a stale copy, or not completely

vars == <<users, members, at, db, tries, count, own, tgt, stale, tainted>>

Copy  == [handle : Handle \cup {Anonymous, Nobody}, groups : SUBSET Group]
Where == {"gone", "matrix", "nua", "reset", "passkey", "top", "main", "profile"}
Step  == {"none", "save_user", "save_groups", "delete_groups", "delete_user"}
NoCopy == [handle |-> Nobody, groups |-> {}]
Idle  == [step |-> "none", copy |-> "own"]

Max2(a, b) == IF a > b THEN a ELSE b

TypeOK ==
  /\ DOMAIN users \subseteq Handle
  /\ \A h \in DOMAIN users : users[h] \subseteq Group
  /\ members \in [Group -> SUBSET Handle]
  /\ at \in [Session -> Where]
  /\ db \in [Session -> [step : Step, copy : {"own", "tgt"}]]
  /\ tries \in [Session -> 0 .. MaxLogins]
  /\ count \in [Session -> 0 .. Max2(Rounds, Len(Field))]
  /\ own \in [Session -> Copy] /\ tgt \in [Session -> Copy]
  /\ stale \subseteq Session \X {"own", "tgt"}
  /\ tainted \subseteq Handle

Init ==
  /\ users = << >>
  /\ members = [g \in Group |-> {}]
  /\ at = [s \in Session |-> "gone"]
  /\ db = [s \in Session |-> Idle]
  /\ tries = [s \in Session |-> 0]
  /\ count = [s \in Session |-> 0]
  /\ own = [s \in Session |-> NoCopy]
  /\ tgt = [s \in Session |-> NoCopy]
  /\ stale = {}
  /\ tainted = {}

-----------------------------------------------------------------------------
(* The databases.                                                          *)

CopyOf(s, c) == IF c = "own" THEN own[s] ELSE tgt[s]

\* The other copies of the handle that copy c of session s is of.
Others(s, c) ==
  {o \in Session \X {"own", "tgt"} :
     o # <<s, c>> /\ CopyOf(o[1], o[2]).handle = CopyOf(s, c).handle}

TaintIfStale(s, c) ==
  tainted' = IF <<s, c>> \in stale THEN tainted \cup {CopyOf(s, c).handle} ELSE tainted

In(s, where) == at[s] = where /\ db[s] = Idle

\* The script goes on at `where'.
Go(s, where) == at' = [at EXCEPT ![s] = where] /\ db' = [db EXCEPT ![s] = Idle]

\* It makes a step of save() or delete() of copy c, and goes on there later.
Do(s, step, c, where) ==
  at' = [at EXCEPT ![s] = where] /\ db' = [db EXCEPT ![s] = [step |-> step, copy |-> c]]

\* A copy is read, or a User is made.
Read(s, c, copy) ==
  /\ IF c = "own" THEN own' = [own EXCEPT ![s] = copy] /\ UNCHANGED tgt
                  ELSE tgt' = [tgt EXCEPT ![s] = copy] /\ UNCHANGED own
  /\ stale' = stale \ {<<s, c>>}

Record(h) == [handle |-> h, groups |-> users[h]]

\* User.save
SaveThen(s, c, then) == Do(s, "save_user", c, then)

\* The first account of all is a sysop's.
SaveUser(s) ==
  /\ db[s].step = "save_user"
  /\ LET c == db[s].copy
         copy == CopyOf(s, c)
         groups == IF users = << >> THEN copy.groups \cup {Sysop} ELSE copy.groups
     IN  /\ users' = [h \in DOMAIN users \cup {copy.handle} |->
                        IF h = copy.handle THEN groups ELSE users[h]]
         /\ IF c = "own" THEN own' = [own EXCEPT ![s].groups = groups] /\ UNCHANGED tgt
                         ELSE tgt' = [tgt EXCEPT ![s].groups = groups] /\ UNCHANGED own
         /\ stale' = stale \cup Others(s, c)
         /\ TaintIfStale(s, c)
         /\ Do(s, "save_groups", c, at[s])
  /\ UNCHANGED <<members, tries, count>>

\* mutant of Applied: only what is new is applied
AppliedAdds(copy, g) ==
  IF g \in copy.groups THEN members[g] \cup {copy.handle} ELSE members[g]

\* _apply_groups
Applied(copy, g) ==
  IF g \in copy.groups THEN members[g] \cup {copy.handle} ELSE members[g] \ {copy.handle}

SaveGroups(s) ==
  /\ db[s].step = "save_groups"
  /\ members' = [g \in Group |-> Applied(CopyOf(s, db[s].copy), g)]
  /\ TaintIfStale(s, db[s].copy)
  /\ Go(s, at[s])
  /\ UNCHANGED <<users, tries, count, own, tgt, stale>>

\* User.delete
DeleteGroups(s) ==
  /\ db[s].step = "delete_groups"
  /\ LET copy == CopyOf(s, db[s].copy) IN
       members' = [g \in Group |->
         IF g \in copy.groups THEN members[g] \ {copy.handle} ELSE members[g]]
  /\ stale' = stale \cup Others(s, db[s].copy)
  /\ TaintIfStale(s, db[s].copy)
  /\ Do(s, "delete_user", db[s].copy, at[s])
  /\ UNCHANGED <<users, tries, count, own, tgt>>

\* Of a user that is not there any more, the deletion fails: main begins again.
\* Who deletes himself logs off; for another, profile goes to the next user.
DeleteUser(s) ==
  /\ db[s].step = "delete_user"
  /\ LET c == db[s].copy
         h == CopyOf(s, c).handle
     IN  /\ users' = [g \in DOMAIN users \ {h} |-> users[g]]
         /\ TaintIfStale(s, c)
         /\ \/ /\ h \notin DOMAIN users \/ (c = "tgt" /\ DOMAIN users' = {})
               /\ Go(s, "main")
               /\ stale' = stale \cup Others(s, c)
               /\ UNCHANGED <<own, tgt>>
            \/ /\ h \in DOMAIN users
               /\ c = "own"
               /\ Go(s, "gone")
               /\ stale' = stale \cup Others(s, c)
               /\ UNCHANGED <<own, tgt>>
            \/ /\ h \in DOMAIN users
               /\ c = "tgt"
               /\ Go(s, "profile")
               /\ \E next \in DOMAIN users' : tgt' = [tgt EXCEPT ![s] = Record(next)]
               /\ stale' = (stale \cup Others(s, c)) \ {<<s, c>>}
               /\ UNCHANGED own
  /\ UNCHANGED <<members, tries, count>>

\* Disconnected is raised in a call of the databases, or anywhere else.
Disconnect(s) ==
  /\ at[s] # "gone" \/ db[s] # Idle
  /\ tainted' = IF db[s] = Idle THEN tainted ELSE tainted \cup {CopyOf(s, db[s].copy).handle}
  /\ Go(s, "gone")
  /\ UNCHANGED <<users, members, tries, count, own, tgt, stale>>

-----------------------------------------------------------------------------
(* matrix.                                                                 *)

\* A session forgets what it had: it is another process.
Connect(s) ==
  /\ In(s, "gone")
  /\ Go(s, "matrix")
  /\ tries' = [tries EXCEPT ![s] = 0]
  /\ count' = [count EXCEPT ![s] = 0]
  /\ own' = [own EXCEPT ![s] = NoCopy]
  /\ tgt' = [tgt EXCEPT ![s] = NoCopy]
  /\ stale' = {o \in stale : o[1] # s}
  /\ UNCHANGED <<users, members, tainted>>

\* do_login: a login that fails, nua and pwreset are one round of it each, and
\* after the last the session is disconnected.
Round(s) == tries' = [tries EXCEPT ![s] = @ + 1]

NextRound(s) == Go(s, IF tries'[s] = MaxLogins THEN "gone" ELSE "matrix")

LoginFails(s) ==
  /\ In(s, "matrix")
  /\ Round(s)
  /\ NextRound(s)
  /\ UNCHANGED <<users, members, count, own, tgt, stale, tainted>>

Anon == [handle |-> Anonymous, groups |-> {}]

\* The password is right, or no password is needed: goto top, with the handle.
LogIn(s, h) ==
  /\ In(s, "matrix")
  /\ h \in DOMAIN users \cup {Anonymous}
  /\ Go(s, "top")
  /\ own' = [own EXCEPT ![s] = [Anon EXCEPT !.handle = h]]
  /\ stale' = stale \ {<<s, "own">>}
  /\ UNCHANGED <<users, members, tries, count, tgt, tainted>>

\* top reads the record and saves the call; if the account was deleted since,
\* there is no script left to run.
Top(s) ==
  /\ In(s, "top")
  /\ LET h == own[s].handle IN
       \/ h = Anonymous /\ Go(s, "main") /\ UNCHANGED <<own, tgt, stale>>
       \/ h \in DOMAIN users /\ Read(s, "own", Record(h)) /\ SaveThen(s, "own", "main")
       \/ h \notin DOMAIN users \cup {Anonymous} /\ Go(s, "gone") /\ UNCHANGED <<own, tgt, stale>>
  /\ UNCHANGED <<users, members, tries, count, tainted>>

-----------------------------------------------------------------------------
(* nua.                                                                    *)

Apply(s) ==
  /\ In(s, "matrix")
  /\ Round(s)
  /\ Go(s, "nua")
  /\ count' = [count EXCEPT ![s] = 1]
  /\ Read(s, "own", NoCopy)
  /\ UNCHANGED <<users, members, tainted>>

\* nua or pwreset returns to do_login, and its User is forgotten.
Returned(s) ==
  /\ count' = [count EXCEPT ![s] = 0]
  /\ Read(s, "own", NoCopy)
  /\ NextRound(s)

\* validate_handle, with find_user.
EnterHandle(s, h) ==
  /\ In(s, "nua")
  /\ Field[count[s]] = "handle"
  /\ h \notin DOMAIN users
  /\ Read(s, "own", [handle |-> h, groups |-> {}])
  /\ count' = [count EXCEPT ![s] = @ + 1]
  /\ UNCHANGED <<users, members, tries, at, db, tainted>>

EnterField(s) ==
  /\ In(s, "nua")
  /\ Field[count[s]] \notin {"handle", "confirm"}
  /\ count' = [count EXCEPT ![s] = @ + 1]
  /\ UNCHANGED <<users, members, tries, at, db, own, tgt, stale, tainted>>

\* The passwords differ: back to the first of them.  (Another field that is not
\* valid is asked for again.)
EnterAgainFails(s) ==
  /\ In(s, "nua")
  /\ Field[count[s]] = "again"
  /\ count' = [count EXCEPT ![s] = @ - 1]
  /\ UNCHANGED <<users, members, tries, at, db, own, tgt, stale, tainted>>

CancelNua(s) ==
  /\ In(s, "nua")
  /\ Field[count[s]] # "confirm"
  /\ UNCHANGED tries
  /\ Returned(s)
  /\ UNCHANGED <<users, members, tainted>>

\* `Create account [yn]': no, from the first field again; yes, and the account is
\* looked for once more, before it is saved.  If it is there, an assertion fails
\* and matrix begins anew.
Confirm(s) ==
  /\ In(s, "nua")
  /\ Field[count[s]] = "confirm"
  /\ \/ count' = [count EXCEPT ![s] = 1] /\ UNCHANGED <<at, db, tries>>
     \/ /\ own[s].handle \notin DOMAIN users
        /\ SaveThen(s, "own", "top")
        /\ count' = [count EXCEPT ![s] = 0]
        /\ UNCHANGED tries
     \/ /\ own[s].handle \in DOMAIN users
        /\ Go(s, "matrix")
        /\ count' = [count EXCEPT ![s] = 0]
        /\ tries' = [tries EXCEPT ![s] = 0]
  /\ UNCHANGED <<users, members, own, tgt, stale, tainted>>

-----------------------------------------------------------------------------
(* pwreset.                                                                *)

ForgetPassword(s) ==
  /\ In(s, "matrix")
  /\ Round(s)
  /\ Go(s, "reset")
  /\ UNCHANGED <<users, members, count, own, tgt, stale, tainted>>

\* After `rounds' more, do_reset goes on asking, or ends.
ResetGoesOn(s, rounds, where) ==
  /\ UNCHANGED tries
  /\ IF count[s] + rounds = Rounds
     THEN Returned(s)
     ELSE /\ count' = [count EXCEPT ![s] = @ + rounds]
          /\ Go(s, where)
          /\ UNCHANGED <<own, tgt, stale>>
  /\ UNCHANGED <<users, members, tainted>>

\* There is no such account, or it has another e-mail address.
EmailFails(s) ==
  /\ In(s, "reset")
  /\ ResetGoesOn(s, MaxKeys, "reset")

\* The handle and the e-mail address match a record, which is read; a passkey
\* is mailed.
EmailMatches(s, h) ==
  /\ In(s, "reset")
  /\ h \in DOMAIN users
  /\ Read(s, "own", Record(h))
  /\ Go(s, "passkey")
  /\ UNCHANGED <<users, members, tries, count, tainted>>

\* After MaxKeys of these, the handle is asked for again.
PasskeyFails(s) ==
  /\ In(s, "passkey")
  /\ ResetGoesOn(s, 1, IF (count[s] + 1) % MaxKeys = 0 THEN "reset" ELSE "passkey")

CancelReset(s) ==
  /\ In(s, "reset") \/ In(s, "passkey")
  /\ UNCHANGED tries
  /\ Returned(s)
  /\ UNCHANGED <<users, members, tainted>>

\* The new password is set, and saved with what else was read.
Reset(s) ==
  /\ In(s, "passkey")
  /\ SaveThen(s, "own", IF tries[s] = MaxLogins THEN "gone" ELSE "matrix")
  /\ count' = [count EXCEPT ![s] = 0]
  /\ UNCHANGED <<users, members, tries, own, tgt, stale, tainted>>

-----------------------------------------------------------------------------
(* profile.                                                                *)

IsSysop(s) == Sysop \in own[s].groups

Target(s) == IF tgt[s].handle = Nobody THEN "own" ELSE "tgt"

Profile(s) ==
  /\ In(s, "main")
  /\ Go(s, "profile")
  /\ Read(s, "tgt", NoCopy)
  /\ UNCHANGED <<users, members, tries, count, tainted>>

\* [f]ind, [<] and [>]
OtherUser(s, h) ==
  /\ In(s, "profile")
  /\ IsSysop(s)
  /\ h \in DOMAIN users
  /\ Read(s, "tgt", Record(h))
  /\ UNCHANGED <<users, members, at, db, tries, count, tainted>>

Edit(s) ==
  /\ In(s, "profile")
  /\ CopyOf(s, Target(s)).handle # Anonymous
  /\ SaveThen(s, Target(s), "profile")
  /\ UNCHANGED <<users, members, tries, count, own, tgt, stale, tainted>>

EditGroups(s, groups) ==
  /\ In(s, "profile")
  /\ IsSysop(s)
  /\ IF Target(s) = "own" THEN own' = [own EXCEPT ![s].groups = groups] /\ UNCHANGED tgt
                          ELSE tgt' = [tgt EXCEPT ![s].groups = groups] /\ UNCHANGED own
  /\ SaveThen(s, Target(s), "profile")
  /\ UNCHANGED <<users, members, tries, count, stale, tainted>>

DeleteTarget(s) ==
  /\ In(s, "profile")
  /\ IF CopyOf(s, Target(s)).handle = Anonymous
     THEN Go(s, "gone")
     ELSE Do(s, "delete_groups", Target(s), "profile")
  /\ UNCHANGED <<users, members, tries, count, own, tgt, stale, tainted>>

Quit(s) ==
  /\ In(s, "profile") \/ In(s, "main")
  /\ Go(s, IF at[s] = "profile" THEN "main" ELSE "gone")
  /\ UNCHANGED <<users, members, tries, count, own, tgt, stale, tainted>>

-----------------------------------------------------------------------------
Next ==
  \E s \in Session :
    \/ Connect(s)
    \/ LoginFails(s)
    \/ \E h \in Handle \cup {Anonymous} : LogIn(s, h)
    \/ Top(s)
    \/ Apply(s)
    \/ \E h \in Handle : EnterHandle(s, h)
    \/ EnterField(s)
    \/ EnterAgainFails(s)
    \/ CancelNua(s)
    \/ Confirm(s)
    \/ ForgetPassword(s)
    \/ EmailFails(s)
    \/ \E h \in Handle : EmailMatches(s, h)
    \/ CancelReset(s)
    \/ PasskeyFails(s)
    \/ Reset(s)
    \/ Profile(s)
    \/ \E h \in Handle : OtherUser(s, h)
    \/ Edit(s)
    \/ \E groups \in SUBSET Group : EditGroups(s, groups)
    \/ DeleteTarget(s)
    \/ Quit(s)
    \/ SaveUser(s)
    \/ SaveGroups(s)
    \/ DeleteGroups(s)
    \/ DeleteUser(s)
    \/ Disconnect(s)

Spec == Init /\ [][Next]_vars

-----------------------------------------------------------------------------
(* Properties.                                                             *)

\* When nobody is saving or deleting, `groupbase' has a user in just the groups
\* that `userbase' gives him, and nobody who was deleted; but for users that were
\* saved from a copy that another session had overtaken, or were left half saved.
GroupsAgree ==
  (\A s \in Session : db[s] = Idle) =>
    \A h \in Handle \ tainted : \A g \in Group :
      h \in members[g] <=> h \in DOMAIN users /\ g \in users[h]
=============================================================================
