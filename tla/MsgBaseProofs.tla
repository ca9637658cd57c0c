---------------------------- MODULE MsgBaseProofs ----------------------------
(* Proofs about the databases that sessions share, for all values of the      *)
(* constants: messages that are saved (MsgBase), where the locks of the       *)
(* databases are shared between the sessions, accounts (Accounts), and the    *)
(* oneliners (Oneliners).                                                     *)
EXTENDS MsgBase, FiniteSets, SequenceTheorems, FiniteSetTheorems, WellFoundedInduction, TLAPS

CONSTANTS
  Handle, Group, SysopGroup, MaxLogins, MaxPasskeys,
  MAX_HISTORY, Slack, MaxLines, MaxVisits

VARIABLES
  users, members, script, db, tries, count, own, tgt, stale, tainted,
  shroo_ms_enabled, udb, wall, lines, visits, doing, thread, dirty, oneliner, read, disturbed

U == INSTANCE Accounts WITH Sysop <- SysopGroup, MaxKeys <- MaxPasskeys, at <- script
O == INSTANCE Oneliners WITH at <- doing

-----------------------------------------------------------------------------
(* The inductive invariant.                                                   *)

\* What a save of a message never changes
Same(msg, stored) ==
  /\ msg.author = stored.author /\ msg.parent = stored.parent
  /\ msg.tags = stored.tags /\ msg.to = stored.to

\* The number of a call of save() is that of a stored message.
Stored(save) == save.step # "number" /\ ~(save.step = "store" /\ save.new)

\* A message is under its own tags and no others; a private one is at its recipient's.
TagsRight(n) == \A tag \in (Tag \cup {Public}) \ adrift : n \in index[tag] <=> tag \in msgs[n].tags
PrivRight(n) ==
  Public \notin msgs[n].tags /\ msgs[n].to \notin adrift => n \in index[msgs[n].to]

\* Children of a message that is to be stored under n: they answer it.
Answers(children, n) ==
  \A c \in children : c \in DOMAIN msgs /\ (c \notin astray => msgs[c].parent = n)

\* What is true of a call of save() of session s: before its message has a number,
NumberOK(save) ==
  save.step = "number" => save.new /\ save.num = None /\ save.msg.children = {}

\* when it has one and nobody else may take it,
StoreOK(s, save) ==
  save.step = "store" /\ save.new =>
    /\ s \in lock["msgbase"] /\ save.num \in Num /\ 0 .. save.num - 1 \subseteq DOMAIN msgs
    /\ save.msg.children = {}
    /\ save.num \notin astray => save.num \notin DOMAIN msgs \cup LeftFor("msgbase")

\* when it is stored,
StoredOK(save) ==
  /\ Stored(save) =>
       /\ save.num \in DOMAIN msgs
       /\ save.num \notin astray => Same(save.msg, msgs[save.num])
       /\ Answers(save.msg.children, save.num)
  /\ save.msg.parent # None => save.msg.parent \in DOMAIN msgs

\* while an index is read and not yet written,
SeenOK(s, save) ==
  /\ save.step = "write tags" =>
       s \in lock["tags"] /\ \A tag \in (Tag \cup {Public}) \ adrift : save.seen[tag] = index[tag]
  /\ save.step = "write priv" =>
       /\ s \in lock["privmsg"] /\ save.msg.to \in User
       /\ save.msg.to \notin adrift => save.seen[save.msg.to] = index[save.msg.to]
  /\ \A k \in Key : save.seen[k] \subseteq DOMAIN msgs

\* and when it is written.
IndexOK(save) ==
  save.num \notin cut =>
  /\ Stored(save) /\ save.new /\ save.step \notin {"store", "read tags", "write tags"} =>
       TagsRight(save.num)
  /\ save.new /\ save.step \in {"queue", "stored for network"} => PrivRight(save.num)
  /\ save.step = "stored for network" => save.msg.tags \cap ServerTag # {}

SaveOK(s, save) ==
  NumberOK(save) /\ StoreOK(s, save) /\ StoredOK(save) /\ SeenOK(s, save) /\ IndexOK(save)

\* A call of save() that called another waits before a step that needs nothing of before.
Waits(save) == save.step \in {"read priv", "queue", "stored for network"}

SavesOK ==
  \A s \in Session : \A i \in 1 .. Len(saves[s]) :
    SaveOK(s, saves[s][i]) /\ (i < Len(saves[s]) => Waits(saves[s][i]))

\* A lock has one holder.
LocksExclude == \A l \in Lock : \A s, t \in lock[l] : s = t

\* Messages are numbered without gaps.
NumbersDense == \E next \in 0 .. MaxMsgs : DOMAIN msgs = 0 .. next - 1

\* What a message answers is stored.
ParentsStored == \A n \in DOMAIN msgs : msgs[n].parent # None => msgs[n].parent \in DOMAIN msgs

\* A message that was left to be stored: as new, or once more
LeftStoreOK(n, msg) ==
  /\ 0 .. n - 1 \subseteq DOMAIN msgs
  /\ n \notin DOMAIN msgs => n \in cut
  /\ n \in DOMAIN msgs \ astray => Same(msg, msgs[n])
  /\ Answers(msg.children, n)
  /\ msg.parent # None => msg.parent \in DOMAIN msgs

\* A call of save() that is about to write a key of an index, and a key that none is
Writes(save, k) ==
  \/ k \notin User /\ save.step = "write tags"
  \/ k \in User /\ save.step = "write priv" /\ save.msg.to = k

Unwritten(k) == \A s \in Session : \A i \in 1 .. Len(saves[s]) : ~Writes(saves[s][i], k)

\* The numbers of a key are as they were but for n.
ButFor(n, k, nums) ==
  /\ \A m \in Num : m # n => (m \in nums <=> m \in index[k])
  /\ k \in User => n \in nums
  /\ k \notin User /\ n \notin cut => (n \in nums <=> k \in msgs[n].tags)

\* The key of an index that was left to be written: if nobody read it since, one number
\* of it is right that was not.
LeftWriteOK(k, nums) ==
  /\ nums \subseteq DOMAIN msgs
  /\ k \notin adrift => Unwritten(k) /\ \E n \in DOMAIN msgs : ButFor(n, k, nums)

RequestOK(r) ==
  /\ r[1] = "msgbase" => LeftStoreOK(r[2], r[3])
  /\ r[1] = "index" => LeftWriteOK(r[2], r[3])
  /\ r[1] \in {"trans", "queue"} => r[2] \in DOMAIN msgs

\* Two requests that were left do not contradict each other.
Agree(r, t) ==
  /\ r[1] = "msgbase" /\ t[1] = "msgbase" /\ r[2] = t[2] /\ r[2] \notin astray => Same(r[3], t[3])
  /\ r[1] = "index" /\ t[1] = "index" /\ r[2] = t[2] /\ r[2] \notin adrift => r = t

LeftOK == \A r \in left : RequestOK(r) /\ \A t \in left : Agree(r, t)

\* A number went astray where a save() was cut short.
AstrayCut == astray \subseteq cut

\* A new message is being saved.
Saving(n) ==
  \E s \in Session : \E i \in 1 .. Len(saves[s]) :
    saves[s][i].new /\ saves[s][i].num = n /\ Stored(saves[s][i])

SavedOrSaving == \A n \in DOMAIN msgs \ cut : Indexed(n) \/ Saving(n)

MsgBaseInv ==
  /\ TypeOK
  /\ SavesOK /\ LocksExclude /\ NumbersDense
  /\ ParentsStored /\ ChildrenAreReplies /\ ListedExist
  /\ LeftOK /\ AstrayCut
  /\ SavedOrSaving

-----------------------------------------------------------------------------
(* What a step may do to the calls of save().                                 *)

\* Only the calls of session s change, and they are calls of save() again.
OnlyOf(s) ==
  /\ saves' \in [Session -> Seq(Save)]
  /\ saves[s] \in Seq(Save) /\ saves'[s] \in Seq(Save)
  /\ \A t \in Session \ {s} : saves'[t] = saves[t]

\* The innermost call goes on as save.
Replaced(s, save) ==
  /\ OnlyOf(s)
  /\ Len(saves[s]) \in Nat \ {0} /\ Len(saves'[s]) = Len(saves[s])
  /\ \A i \in 1 .. Len(saves[s]) : i < Len(saves[s]) => saves'[s][i] = saves[s][i]
  /\ saves'[s][Len(saves[s])] = save

\* The innermost call goes on as save when the one that it calls returns.
Pushed(s, save, called) ==
  /\ OnlyOf(s)
  /\ Len(saves[s]) \in Nat \ {0} /\ Len(saves'[s]) = Len(saves[s]) + 1
  /\ \A i \in 1 .. Len(saves[s]) : i < Len(saves[s]) => saves'[s][i] = saves[s][i]
  /\ saves'[s][Len(saves[s])] = save
  /\ saves'[s][Len(saves[s]) + 1] = called

\* The innermost call returns.
Popped(s) ==
  /\ OnlyOf(s)
  /\ Len(saves[s]) \in Nat \ {0} /\ Len(saves'[s]) = Len(saves[s]) - 1
  /\ \A i \in 1 .. Len(saves[s]) : i < Len(saves[s]) => saves'[s][i] = saves[s][i]

\* The innermost call of a session that saves
LEMMA TopIs ==
  ASSUME TypeOK, SavesOK, NEW s \in Session, saves[s] # << >>
  PROVE  /\ saves[s] \in Seq(Save) /\ Len(saves[s]) \in Nat \ {0}
         /\ Top(s) = saves[s][Len(saves[s])]
         /\ Top(s) \in Save /\ SaveOK(s, Top(s))
  <1>1. saves[s] \in Seq(Save)
    BY DEF TypeOK
  <1>2. Len(saves[s]) \in Nat \ {0}
    BY <1>1, EmptySeq, LenProperties
  <1>3. Top(s) = saves[s][Len(saves[s])]
    BY DEF Top, Last
  <1>4. Len(saves[s]) \in 1 .. Len(saves[s])
    BY <1>2
  <1>5. Top(s) \in Save
    BY <1>1, <1>3, <1>4, ElementOfSeq
  <1> QED
    BY <1>1, <1>2, <1>3, <1>4, <1>5 DEF SavesOK

\* The last element of a sequence is replaced.
LEMMA ReplaceLast ==
  ASSUME TypeOK, NEW s \in Session, saves[s] # << >>, NEW save \in Save,
         saves' = [saves EXCEPT ![s] = [saves[s] EXCEPT ![Len(saves[s])] = save]]
  PROVE  Replaced(s, save)
  <1>1. saves[s] \in Seq(Save) /\ Len(saves[s]) \in Nat \ {0}
    BY EmptySeq, LenProperties DEF TypeOK
  <1>2. Len(saves[s]) \in 1 .. Len(saves[s])
    BY <1>1
  <1>3. saves'[s] = [saves[s] EXCEPT ![Len(saves[s])] = save]
    BY DEF TypeOK
  <1>4. /\ saves'[s] \in Seq(Save) /\ Len(saves'[s]) = Len(saves[s])
        /\ \A i \in 1 .. Len(saves[s]) :
             saves'[s][i] = IF i = Len(saves[s]) THEN save ELSE saves[s][i]
    BY <1>1, <1>2, <1>3, ExceptSeq
  <1>5. OnlyOf(s)
    BY <1>1, <1>4 DEF OnlyOf, TypeOK
  <1> QED
    BY <1>1, <1>2, <1>4, <1>5 DEF Replaced

\* The innermost call goes on with another step.
LEMMA GoToReplaces ==
  ASSUME TypeOK, NEW s \in Session, saves[s] # << >>, NEW step \in Step, GoTo(s, step),
         NEW save, save = [Top(s) EXCEPT !.step = step, !.seen = NothingSeen], Top(s) \in Save
  PROVE  save \in Save /\ Replaced(s, save)
  <1>1. NothingSeen \in [Key -> SUBSET Num]
    BY DEF NothingSeen
  <1>2. save \in Save
    BY <1>1 DEF Save
  <1>3. saves' = [saves EXCEPT ![s] = [saves[s] EXCEPT ![Len(saves[s])] = save]]
    BY DEF GoTo, Top, Last, TypeOK
  <1> QED
    BY <1>2, <1>3, ReplaceLast

\* A sequence of n - 1 elements gets one at its end.
LEMMA EndReplaced ==
  ASSUME NEW a \in Seq(Save), NEW save \in Save, NEW n \in Nat \ {0}, Len(a) = n - 1
  PROVE  /\ a \o <<save>> \in Seq(Save) /\ Len(a \o <<save>>) = n
         /\ \A i \in 1 .. n - 1 : (a \o <<save>>)[i] = a[i]
         /\ (a \o <<save>>)[n] = save
  <1>1. PICK b : b = <<save>>
    OBVIOUS
  <1>a. b \in Seq(Save) /\ Len(b) = 1 /\ b[1] = save
    BY <1>1
  <1>2. /\ a \o b \in Seq(Save) /\ Len(a \o b) = Len(a) + Len(b)
        /\ \A i \in 1 .. Len(a) + Len(b) :
             (a \o b)[i] = IF i <= Len(a) THEN a[i] ELSE b[i - Len(a)]
    BY <1>a, ConcatProperties
  <1>3. Len(a) + Len(b) = n /\ n - Len(a) = 1 /\ ~(n <= Len(a)) /\ n \in 1 .. n
    BY <1>a
  <1>4. \A i \in 1 .. n - 1 : i \in 1 .. n /\ i <= Len(a)
    OBVIOUS
  <1>5. (a \o b)[n] = save
    BY <1>a, <1>2, <1>3
  <1>6. \A i \in 1 .. n - 1 : (a \o b)[i] = a[i]
    BY <1>2, <1>3, <1>4
  <1> QED
    BY <1>1, <1>2, <1>3, <1>5, <1>6

\* A call of save() is made by the innermost.
LEMMA AppendPushes ==
  ASSUME TypeOK, NEW s \in Session, saves[s] # << >>, NEW save \in Save, NEW called \in Save,
         saves' = [saves EXCEPT ![s] = Append(Front(saves[s]) \o <<save>>, called)]
  PROVE  Pushed(s, save, called)
  <1>1. saves[s] \in Seq(Save) /\ Len(saves[s]) \in Nat \ {0}
    BY EmptySeq, LenProperties DEF TypeOK
  <1>2. Len(saves[s]) - 1 \in 0 .. Len(saves[s])
    BY <1>1
  <1>3. /\ Front(saves[s]) \in Seq(Save) /\ Len(Front(saves[s])) = Len(saves[s]) - 1
        /\ \A i \in 1 .. Len(saves[s]) - 1 : Front(saves[s])[i] = saves[s][i]
    BY <1>1, <1>2, SubSeqProperties DEF Front
  <1>4. saves'[s] = Append(Front(saves[s]) \o <<save>>, called)
    BY DEF TypeOK
  <1> DEFINE t == Front(saves[s]) \o <<save>>
  <1>5. /\ t \in Seq(Save) /\ Len(t) = Len(saves[s])
        /\ \A i \in 1 .. Len(saves[s]) - 1 : t[i] = saves[s][i]
        /\ t[Len(saves[s])] = save
    <2>1. PICK a, n : a = Front(saves[s]) /\ n = Len(saves[s])
      OBVIOUS
    <2>2. a \in Seq(Save) /\ n \in Nat \ {0} /\ Len(a) = n - 1
      BY <1>1, <1>3, <2>1
    <2>3. /\ a \o <<save>> \in Seq(Save) /\ Len(a \o <<save>>) = n
          /\ \A i \in 1 .. n - 1 : (a \o <<save>>)[i] = a[i]
          /\ (a \o <<save>>)[n] = save
      BY <2>2, EndReplaced
    <2> QED
      BY <1>3, <2>1, <2>3
  <1>6. saves'[s] = Append(t, called)
    BY <1>4
  <1> HIDE DEF t
  <1>7. /\ saves'[s] \in Seq(Save) /\ Len(saves'[s]) = Len(saves[s]) + 1
        /\ \A i \in 1 .. Len(saves[s]) : saves'[s][i] = t[i]
        /\ saves'[s][Len(saves[s]) + 1] = called
    <2>1. /\ Append(t, called) \in Seq(Save) /\ Len(Append(t, called)) = Len(t) + 1
          /\ \A i \in 1 .. Len(t) : Append(t, called)[i] = t[i]
          /\ Append(t, called)[Len(t) + 1] = called
      BY <1>5, AppendProperties
    <2> QED
      BY <1>5, <1>6, <2>1
  <1>8. OnlyOf(s)
    BY <1>1, <1>7 DEF OnlyOf, TypeOK
  <1>9. Len(saves[s]) \in 1 .. Len(saves[s])
    BY <1>1
  <1>10. \A i \in 1 .. Len(saves[s]) : i < Len(saves[s]) => i \in 1 .. Len(saves[s]) - 1
    BY <1>1
  <1> QED
    BY <1>1, <1>5, <1>7, <1>8, <1>9, <1>10 DEF Pushed

\* The innermost call returns.
LEMMA ReturnPops ==
  ASSUME TypeOK, NEW s \in Session, saves[s] # << >>, Returned(s)
  PROVE  Popped(s)
  <1>1. saves[s] \in Seq(Save) /\ Len(saves[s]) \in Nat \ {0}
    BY EmptySeq, LenProperties DEF TypeOK
  <1>2. Len(saves[s]) - 1 \in 0 .. Len(saves[s])
    BY <1>1
  <1>3. /\ Front(saves[s]) \in Seq(Save) /\ Len(Front(saves[s])) = Len(saves[s]) - 1
        /\ \A i \in 1 .. Len(saves[s]) - 1 : Front(saves[s])[i] = saves[s][i]
    BY <1>1, <1>2, SubSeqProperties DEF Front
  <1>4. saves'[s] = Front(saves[s])
    BY DEF TypeOK, Returned
  <1>5. OnlyOf(s)
    BY <1>1, <1>3, <1>4 DEF OnlyOf, TypeOK, Returned
  <1>6. \A i \in 1 .. Len(saves[s]) : i < Len(saves[s]) => i \in 1 .. Len(saves[s]) - 1
    BY <1>1
  <1> QED
    BY <1>1, <1>3, <1>4, <1>5, <1>6 DEF Popped

-----------------------------------------------------------------------------
(* What a step keeps of the messages, and of the calls of save() that it does *)
(* not make go on.                                                            *)

\* No step changes who wrote a message, or takes what is recorded of it, but where a
\* request of a session that had gone is executed late.
Kept ==
  /\ astray \subseteq astray' /\ adrift \subseteq adrift' /\ cut \subseteq cut'
  /\ DOMAIN msgs \subseteq DOMAIN msgs'
  /\ \A n \in DOMAIN msgs \ astray : Same(msgs[n], msgs'[n])
  /\ \A n \in DOMAIN msgs \ cut' :
       (TagsRight(n) => TagsRight(n)') /\ (PrivRight(n) => PrivRight(n)')
  /\ trans \subseteq trans' /\ queue \subseteq queue'

\* What a step of another session leaves a call of session t
Undisturbed(t, save) ==
  /\ save.step = "store" /\ save.new =>
       /\ t \in lock'["msgbase"]
       /\ save.num \notin astray' => save.num \notin DOMAIN msgs' \cup LeftFor("msgbase")'
  /\ save.step = "write tags" =>
       t \in lock'["tags"] /\ \A tag \in (Tag \cup {Public}) \ adrift' : index'[tag] = index[tag]
  /\ save.step = "write priv" =>
       /\ t \in lock'["privmsg"]
       /\ save.msg.to \notin adrift' => index'[save.msg.to] = index[save.msg.to]

\* Session s changes only what it has locked, and takes no lock of another.
StepOf(s) ==
  /\ \A l \in Lock : \A t \in Session \ {s} : t \in lock[l] => t \in lock'[l]
  /\ \/ /\ DOMAIN msgs' = DOMAIN msgs
        /\ LeftFor("msgbase")' \subseteq LeftFor("msgbase") \cup DOMAIN msgs
     \/ s \in lock["msgbase"]
  /\ (\A tag \in Tag \cup {Public} : index'[tag] = index[tag]) \/ s \in lock["tags"]
  /\ (\A user \in User : index'[user] = index[user]) \/ s \in lock["privmsg"]

\* What is the same of both messages is the same of all three.
LEMMA SameTrans ==
  ASSUME NEW a, NEW b, NEW c, Same(a, b), Same(b, c)
  PROVE  Same(a, c)
  BY DEF Same

\* What has children keeps them, and they answer it.
LEMMA AnswersStay ==
  ASSUME Kept, NEW children, NEW n, Answers(children, n)
  PROVE  Answers(children, n)'
  BY DEF Kept, Answers, Same

\* A call of save() that is not disturbed stays right.
LEMMA EntryStays ==
  ASSUME Kept, NEW t, NEW save, SaveOK(t, save), Undisturbed(t, save)
  PROVE  SaveOK(t, save)'
  <1>1. NumberOK(save)'
    BY DEF SaveOK, NumberOK
  <1>2. StoreOK(t, save)'
    BY DEF SaveOK, StoreOK, Undisturbed, Kept
  <1>3. StoredOK(save)'
    <2>1. ASSUME Stored(save)
          PROVE  /\ save.num \in DOMAIN msgs'
                 /\ save.num \notin astray' => Same(save.msg, msgs'[save.num])
                 /\ Answers(save.msg.children, save.num)'
      <3>1. /\ save.num \in DOMAIN msgs
            /\ save.num \notin astray => Same(save.msg, msgs[save.num])
            /\ Answers(save.msg.children, save.num)
        BY <2>1 DEF SaveOK, StoredOK
      <3>2. ASSUME save.num \notin astray' PROVE Same(save.msg, msgs'[save.num])
        <4>1. Same(save.msg, msgs[save.num]) /\ Same(msgs[save.num], msgs'[save.num])
          BY <3>1, <3>2 DEF Kept
        <4> QED
          BY <4>1, SameTrans
      <3>3. Answers(save.msg.children, save.num)'
        BY <3>1, AnswersStay
      <3> QED
        BY <3>1, <3>2, <3>3 DEF Kept
    <2>2. save.msg.parent # None => save.msg.parent \in DOMAIN msgs'
      BY DEF SaveOK, StoredOK, Kept
    <2> QED
      BY <2>1, <2>2 DEF StoredOK, Stored
  <1>4. SeenOK(t, save)'
    <2>1. \A k \in Key : save.seen[k] \subseteq DOMAIN msgs'
      BY DEF SaveOK, SeenOK, Kept
    <2> QED
      BY <2>1 DEF SaveOK, SeenOK, Undisturbed, Kept
  <1>5. IndexOK(save)'
    <2>1. Stored(save) => save.num \in DOMAIN msgs
      BY DEF SaveOK, StoredOK
    <2>2. save.step \in {"queue", "stored for network"} => Stored(save)
      BY DEF Stored
    <2> QED
      BY <2>1, <2>2 DEF SaveOK, IndexOK, Kept, Stored
  <1> QED
    BY <1>1, <1>2, <1>3, <1>4, <1>5 DEF SaveOK

\* A call of another session, or one that waits, is not disturbed by session s.
LEMMA OthersUndisturbed ==
  ASSUME LocksExclude, Kept, NEW s \in Session, StepOf(s), NEW t \in Session, NEW save,
         SaveOK(t, save), t # s \/ Waits(save)
  PROVE  Undisturbed(t, save)
  <1>1. CASE Waits(save)
    BY <1>1 DEF Waits, Undisturbed
  <1>2. CASE t # s
    <2>1. \A l \in Lock : t \in lock[l] => t \in lock'[l] /\ s \notin lock[l]
      BY <1>2 DEF LocksExclude, StepOf
    <2>2. "msgbase" \in Lock /\ "tags" \in Lock /\ "privmsg" \in Lock
      BY DEF Lock
    <2>3. ASSUME save.step = "store", save.new
          PROVE  /\ t \in lock'["msgbase"]
                 /\ save.num \notin astray' => save.num \notin DOMAIN msgs' \cup LeftFor("msgbase")'
      <3>1. /\ t \in lock["msgbase"]
            /\ save.num \notin astray => save.num \notin DOMAIN msgs \cup LeftFor("msgbase")
        BY <2>3 DEF SaveOK, StoreOK
      <3>2. /\ DOMAIN msgs' = DOMAIN msgs
            /\ LeftFor("msgbase")' \subseteq LeftFor("msgbase") \cup DOMAIN msgs
        BY <2>1, <2>2, <3>1 DEF StepOf
      <3> QED
        BY <2>1, <2>2, <3>1, <3>2 DEF Kept
    <2>4. ASSUME save.step = "write tags"
          PROVE  /\ t \in lock'["tags"]
                 /\ \A tag \in (Tag \cup {Public}) \ adrift' : index'[tag] = index[tag]
      BY <2>1, <2>2, <2>4 DEF SaveOK, SeenOK, StepOf
    <2>5. ASSUME save.step = "write priv"
          PROVE  /\ t \in lock'["privmsg"]
                 /\ save.msg.to \notin adrift' => index'[save.msg.to] = index[save.msg.to]
      BY <2>1, <2>2, <2>5 DEF SaveOK, SeenOK, StepOf
    <2> QED
      BY <2>3, <2>4, <2>5 DEF Undisturbed
  <1> QED
    BY <1>1, <1>2

\* The calls that session s does not make go on stay right.
LEMMA OthersStay ==
  ASSUME SavesOK, LocksExclude, Kept, NEW s \in Session, StepOf(s), NEW t \in Session,
         NEW i \in 1 .. Len(saves[t]), t # s \/ i < Len(saves[t]), NEW save, save = saves[t][i]
  PROVE  SaveOK(t, save)' /\ (i < Len(saves[t]) => Waits(save))
  <1>1. SaveOK(t, save) /\ (i < Len(saves[t]) => Waits(save))
    BY DEF SavesOK
  <1>2. Undisturbed(t, save)
    BY <1>1, OthersUndisturbed
  <1> QED
    BY <1>1, <1>2, EntryStays

\* The calls of the other sessions stay right.
LEMMA SessionsStay ==
  ASSUME SavesOK, LocksExclude, Kept, NEW s \in Session, StepOf(s), OnlyOf(s),
         NEW t \in Session \ {s}, NEW i \in 1 .. Len(saves'[t])
  PROVE  SaveOK(t, saves[t][i])' /\ (i < Len(saves'[t]) => Waits(saves'[t][i]))
  <1>1. saves'[t] = saves[t]
    BY DEF OnlyOf
  <1>2. PICK save : save = saves[t][i]
    OBVIOUS
  <1>3. SaveOK(t, save)' /\ (i < Len(saves[t]) => Waits(save))
    BY <1>1, <1>2, OthersStay
  <1>4. save = saves'[t][i]
    BY <1>1, <1>2
  <1> QED
    BY <1>1, <1>2, <1>3, <1>4

\* The calls of a session stay right when the innermost goes on rightly,
LEMMA ReplacedOK ==
  ASSUME SavesOK, LocksExclude, Kept, NEW s \in Session, StepOf(s), NEW save,
         Replaced(s, save), SaveOK(s, save)'
  PROVE  SavesOK'
  <1> SUFFICES ASSUME NEW t \in Session, NEW i \in 1 .. Len(saves'[t])
               PROVE  SaveOK(t, saves[t][i])' /\ (i < Len(saves'[t]) => Waits(saves'[t][i]))
    BY DEF SavesOK
  <1>1. CASE t # s
    BY <1>1, SessionsStay DEF Replaced
  <1>2. CASE t = s /\ i < Len(saves'[t])
    <2>1. i \in 1 .. Len(saves[t]) /\ i < Len(saves[t])
      BY <1>2 DEF Replaced
    <2>2. PICK v : v = saves[t][i]
      OBVIOUS
    <2>3. SaveOK(t, v)' /\ Waits(v)
      BY <2>1, <2>2, OthersStay
    <2>4. v = saves'[t][i]
      BY <1>2, <2>1, <2>2 DEF Replaced
    <2> QED
      BY <2>3, <2>4
  <1>3. CASE t = s /\ ~(i < Len(saves'[t]))
    <2>1. i = Len(saves[t])
      BY <1>3 DEF Replaced
    <2>2. saves'[t][i] = save
      BY <1>3, <2>1 DEF Replaced
    <2> QED
      BY <1>3, <2>2
  <1> QED
    BY <1>1, <1>2, <1>3

\* when it calls another,
LEMMA PushedOK ==
  ASSUME SavesOK, LocksExclude, Kept, NEW s \in Session, StepOf(s), NEW save, NEW called,
         Pushed(s, save, called), SaveOK(s, save)', Waits(save), SaveOK(s, called)'
  PROVE  SavesOK'
  <1> SUFFICES ASSUME NEW t \in Session, NEW i \in 1 .. Len(saves'[t])
               PROVE  SaveOK(t, saves[t][i])' /\ (i < Len(saves'[t]) => Waits(saves'[t][i]))
    BY DEF SavesOK
  <1>1. CASE t # s
    BY <1>1, SessionsStay DEF Pushed
  <1>2. CASE t = s /\ i < Len(saves[t])
    <2>1. i \in 1 .. Len(saves[t]) /\ i < Len(saves[t])
      BY <1>2 DEF Pushed
    <2>2. PICK v : v = saves[t][i]
      OBVIOUS
    <2>3. SaveOK(t, v)' /\ Waits(v)
      BY <2>1, <2>2, OthersStay
    <2>4. v = saves'[t][i]
      BY <1>2, <2>1, <2>2 DEF Pushed
    <2> QED
      BY <2>3, <2>4
  <1>3. CASE t = s /\ i = Len(saves[t])
    <2>1. saves'[t][i] = save
      BY <1>3 DEF Pushed
    <2> QED
      BY <1>3, <2>1
  <1>4. CASE t = s /\ ~(i < Len(saves[t])) /\ i # Len(saves[t])
    <2>1. i = Len(saves[t]) + 1 /\ i = Len(saves'[t])
      BY <1>4 DEF Pushed
    <2>2. saves'[t][i] = called
      BY <1>4, <2>1 DEF Pushed
    <2> QED
      BY <1>4, <2>1, <2>2 DEF Pushed
  <1> QED
    BY <1>1, <1>2, <1>3, <1>4

\* and when it returns.
LEMMA PoppedOK ==
  ASSUME SavesOK, LocksExclude, Kept, NEW s \in Session, StepOf(s), Popped(s)
  PROVE  SavesOK'
  <1> SUFFICES ASSUME NEW t \in Session, NEW i \in 1 .. Len(saves'[t])
               PROVE  SaveOK(t, saves[t][i])' /\ (i < Len(saves'[t]) => Waits(saves'[t][i]))
    BY DEF SavesOK
  <1>1. CASE t # s
    BY <1>1, SessionsStay DEF Popped
  <1>2. CASE t = s
    <2>1. i \in 1 .. Len(saves[t]) /\ i < Len(saves[t])
      BY <1>2 DEF Popped
    <2>2. PICK v : v = saves[t][i]
      OBVIOUS
    <2>3. SaveOK(t, v)' /\ Waits(v)
      BY <2>1, <2>2, OthersStay
    <2>4. v = saves'[t][i]
      BY <1>2, <2>1, <2>2 DEF Popped
    <2> QED
      BY <2>3, <2>4
  <1> QED
    BY <1>1, <1>2

\* What is recorded of a message stays recorded.
LEMMA IndexedStays ==
  ASSUME Kept, AstrayCut, NEW n \in DOMAIN msgs \ cut', Indexed(n)
  PROVE  Indexed(n)'
  <1>1. TagsRight(n) /\ PrivRight(n)
    BY DEF Indexed, TagsRight, PrivRight
  <1>2. TagsRight(n)' /\ PrivRight(n)'
    BY <1>1 DEF Kept
  <1>3. msgs'[n].tags = msgs[n].tags
    BY DEF Kept, Same, AstrayCut
  <1> QED
    BY <1>2, <1>3 DEF Indexed, TagsRight, PrivRight, Kept

\* A call that saves a new message still saves it when it has gone on.
Goes(old, save) == old.new /\ Stored(old) => save.new /\ save.num = old.num /\ Stored(save)

LEMMA StillSaving ==
  ASSUME NEW s \in Session, NEW save,
         Replaced(s, save) \/ \E called : Pushed(s, save, called),
         Goes(saves[s][Len(saves[s])], save), NEW n, Saving(n)
  PROVE  Saving(n)'
  <1>0. PICK t \in Session : \E i \in 1 .. Len(saves[t]) :
          saves[t][i].new /\ saves[t][i].num = n /\ Stored(saves[t][i])
    BY DEF Saving
  <1>1. PICK i \in 1 .. Len(saves[t]) :
          saves[t][i].new /\ saves[t][i].num = n /\ Stored(saves[t][i])
    BY <1>0
  <1>2. /\ OnlyOf(s) /\ Len(saves[s]) \in Nat \ {0}
        /\ Len(saves'[s]) = Len(saves[s]) \/ Len(saves'[s]) = Len(saves[s]) + 1
        /\ \A j \in 1 .. Len(saves[s]) : j < Len(saves[s]) => saves'[s][j] = saves[s][j]
        /\ saves'[s][Len(saves[s])] = save
    BY DEF Replaced, Pushed
  <1>3. i \in 1 .. Len(saves'[t])
    BY <1>2 DEF OnlyOf
  <1>4. saves'[t][i].new /\ saves'[t][i].num = n /\ Stored(saves'[t][i])
    <2>1. CASE t = s /\ i = Len(saves[s])
      BY <1>1, <1>2, <2>1 DEF Goes
    <2>2. CASE t = s /\ i # Len(saves[s])
      <3>1. i < Len(saves[s])
        BY <1>2, <2>2
      <3> QED
        BY <1>1, <1>2, <2>2, <3>1
    <2>3. CASE t # s
      BY <1>1, <1>2, <2>3 DEF OnlyOf
    <2> QED
      BY <2>1, <2>2, <2>3
  <1> QED
    BY <1>3, <1>4 DEF Saving, Stored

LEMMA StillSavingOthers ==
  ASSUME NEW s \in Session, Popped(s), NEW n, Saving(n),
         ~(saves[s][Len(saves[s])].new /\ saves[s][Len(saves[s])].num = n)
  PROVE  Saving(n)'
  <1>0. PICK t \in Session : \E i \in 1 .. Len(saves[t]) :
          saves[t][i].new /\ saves[t][i].num = n /\ Stored(saves[t][i])
    BY DEF Saving
  <1>1. PICK i \in 1 .. Len(saves[t]) :
          saves[t][i].new /\ saves[t][i].num = n /\ Stored(saves[t][i])
    BY <1>0
  <1>2. i \in 1 .. Len(saves'[t]) /\ saves'[t][i] = saves[t][i]
    <2>1. CASE t = s
      <3>1. i < Len(saves[s])
        BY <1>1, <2>1 DEF Popped
      <3> QED
        BY <2>1, <3>1 DEF Popped
    <2>2. CASE t # s
      BY <2>2 DEF Popped, OnlyOf
    <2> QED
      BY <2>1, <2>2
  <1> QED
    BY <1>1, <1>2 DEF Saving, Stored

\* A message is recorded or being saved after a step that stores no new one.
LEMMA SavedStays ==
  ASSUME SavedOrSaving, Kept, AstrayCut, DOMAIN msgs' = DOMAIN msgs,
         \A n \in DOMAIN msgs \ cut' : Saving(n) => Saving(n)' \/ Indexed(n)'
  PROVE  SavedOrSaving'
  <1> SUFFICES ASSUME NEW n \in DOMAIN msgs \ cut' PROVE Indexed(n)' \/ Saving(n)'
    BY DEF SavedOrSaving
  <1>1. Indexed(n) \/ Saving(n)
    BY DEF SavedOrSaving, Kept
  <1> QED
    BY <1>1, IndexedStays

\* Locks that are acquired when nobody holds them, or released, have one holder.
LEMMA AcquiredAlone ==
  ASSUME TypeOK, SharedLocks, LocksExclude, NEW s \in Session, NEW l \in Lock, Acquire(s, l)
  PROVE  /\ LocksExclude' /\ lock' \in [Lock -> SUBSET Session] /\ s \in lock'[l]
         /\ \A k \in Lock : lock[k] \subseteq lock'[k]
  BY DEF TypeOK, LocksExclude, Acquire

LEMMA ReleasedAlone ==
  ASSUME TypeOK, LocksExclude, NEW s \in Session, NEW l \in Lock, Release(s, l)
  PROVE  /\ LocksExclude' /\ lock' \in [Lock -> SUBSET Session]
         /\ \A k \in Lock : \A t \in Session \ {s} : t \in lock[k] => t \in lock'[k]
  BY DEF TypeOK, LocksExclude, Release

\* Where the messages, the indexes and what is recorded for networks stay as they are
LEMMA KeptUnchanged ==
  ASSUME UNCHANGED <<msgs, index, cut>>, astray \subseteq astray', adrift \subseteq adrift',
         trans \subseteq trans', queue \subseteq queue'
  PROVE  Kept
  BY DEF Kept, Same, TagsRight, PrivRight

\* What nobody is about to write stays so when a call of save() goes on, to write
\* nothing of it, or returns.
LEMMA UnwrittenStays ==
  ASSUME NEW s \in Session, NEW save, NEW k, Unwritten(k),
         \/ Replaced(s, save) /\ ~Writes(save, k)
         \/ \E called : Pushed(s, save, called) /\ ~Writes(save, k) /\ ~Writes(called, k)
         \/ Popped(s)
  PROVE  Unwritten(k)'
  <1> SUFFICES ASSUME NEW t \in Session, NEW i \in 1 .. Len(saves'[t])
               PROVE  ~Writes(saves'[t][i], k)
    BY DEF Unwritten, Writes
  <1>1. CASE t # s
    BY <1>1 DEF Unwritten, Replaced, Pushed, Popped, OnlyOf
  <1>2. CASE t = s /\ Replaced(s, save) /\ ~Writes(save, k)
    <2>1. i \in 1 .. Len(saves[s]) /\ (i < Len(saves[s]) \/ i = Len(saves[s]))
      BY <1>2 DEF Replaced
    <2> QED
      BY <1>2, <2>1 DEF Unwritten, Replaced
  <1>3. ASSUME t = s, NEW called, Pushed(s, save, called), ~Writes(save, k), ~Writes(called, k)
        PROVE  ~Writes(saves'[t][i], k)
    <2>1. \/ i \in 1 .. Len(saves[s]) /\ (i < Len(saves[s]) \/ i = Len(saves[s]))
          \/ i = Len(saves[s]) + 1
      BY <1>3 DEF Pushed
    <2> QED
      BY <1>3, <2>1 DEF Unwritten, Pushed
  <1>4. CASE t = s /\ Popped(s)
    <2>1. i \in 1 .. Len(saves[s]) /\ i < Len(saves[s])
      BY <1>4 DEF Popped
    <2> QED
      BY <1>4, <2>1 DEF Unwritten, Popped
  <1> QED
    BY <1>1, <1>2, <1>3, <1>4

\* What a step may do to what requests that were left are about
LEMMA RequestStays ==
  ASSUME TypeOK, Kept, AstrayCut, NEW r \in left, RequestOK(r),
         r[1] = "msgbase" /\ r[2] \in DOMAIN msgs' \ DOMAIN msgs /\ r[2] \notin astray' =>
           Same(r[3], msgs'[r[2]]),
         r[1] = "index" /\ r[2] \notin adrift' /\ Unwritten(r[2]) =>
           index'[r[2]] = index[r[2]] /\ Unwritten(r[2])'
  PROVE  RequestOK(r)'
  <1>1. PICK n, msg, k, nums : n = r[2] /\ msg = r[3] /\ k = r[2] /\ nums = r[3]
    OBVIOUS
  <1>2. ASSUME r[1] = "msgbase" PROVE LeftStoreOK(n, msg)'
    <2>1. LeftStoreOK(n, msg)
      BY <1>1, <1>2 DEF RequestOK
    <2>2. 0 .. n - 1 \subseteq DOMAIN msgs' /\ (n \notin DOMAIN msgs' => n \in cut')
      BY <2>1 DEF LeftStoreOK, Kept
    <2>3. ASSUME n \in DOMAIN msgs' \ astray' PROVE Same(msg, msgs'[n])
      <3>1. CASE n \in DOMAIN msgs
        <4>1. Same(msg, msgs[n]) /\ Same(msgs[n], msgs'[n])
          BY <2>1, <2>3, <3>1 DEF LeftStoreOK, Kept
        <4> QED
          BY <4>1, SameTrans
      <3>2. CASE n \notin DOMAIN msgs
        BY <1>1, <1>2, <2>3, <3>2
      <3> QED
        BY <3>1, <3>2
    <2>4. Answers(msg.children, n)'
      BY <2>1, AnswersStay DEF LeftStoreOK
    <2>5. msg.parent # None => msg.parent \in DOMAIN msgs'
      BY <2>1 DEF LeftStoreOK, Kept
    <2> QED
      BY <2>2, <2>3, <2>4, <2>5 DEF LeftStoreOK
  <1>3. ASSUME r[1] = "index" PROVE LeftWriteOK(k, nums)'
    <2>1. LeftWriteOK(k, nums)
      BY <1>1, <1>3 DEF RequestOK
    <2>2. nums \subseteq DOMAIN msgs'
      BY <2>1 DEF LeftWriteOK, Kept
    <2>3. ASSUME k \notin adrift' PROVE Unwritten(k)' /\ \E m \in DOMAIN msgs' : ButFor(m, k, nums)'
      <3>1. PICK m \in DOMAIN msgs : ButFor(m, k, nums)
        BY <2>1, <2>3 DEF LeftWriteOK, Kept
      <3>2. index'[k] = index[k] /\ Unwritten(k)'
        BY <1>1, <1>3, <2>1, <2>3 DEF LeftWriteOK, Kept
      <3>3. m \notin cut' => msgs'[m].tags = msgs[m].tags
        BY DEF Kept, AstrayCut, Same
      <3>4. ButFor(m, k, nums)'
        BY <3>1, <3>2, <3>3 DEF ButFor, Kept
      <3> QED
        BY <3>2, <3>4 DEF Kept
    <2> QED
      BY <2>2, <2>3 DEF LeftWriteOK
  <1>4. r[1] \in {"trans", "queue"} => r[2] \in DOMAIN msgs'
    BY DEF RequestOK, Kept
  <1> QED
    BY <1>1, <1>2, <1>3, <1>4 DEF RequestOK

\* Where a step leaves no request, what was left stays right.
LEMMA LeftStays ==
  ASSUME MsgBaseInv, Kept, left' = left,
         \A n \in DOMAIN msgs' \ DOMAIN msgs : n \in astray' \/ n \notin LeftFor("msgbase"),
         \A k \in LeftFor("index") : k \notin adrift' /\ Unwritten(k) =>
           index'[k] = index[k] /\ Unwritten(k)'
  PROVE  LeftOK'
  <1> SUFFICES ASSUME NEW r \in left, NEW t \in left PROVE RequestOK(r)' /\ Agree(r, t)'
    BY DEF LeftOK
  <1>1. RequestOK(r) /\ Agree(r, t) /\ TypeOK /\ AstrayCut
    BY DEF MsgBaseInv, LeftOK
  <1>2. Agree(r, t)'
    BY <1>1 DEF Agree, Kept
  <1>3. /\ r[1] = "msgbase" => r[2] \in LeftFor("msgbase")
        /\ r[1] = "index" => r[2] \in LeftFor("index")
    BY DEF LeftFor
  <1>4. RequestOK(r)'
    BY <1>1, <1>3, RequestStays
  <1> QED
    BY <1>2, <1>4

-----------------------------------------------------------------------------
(* The steps keep the invariant, and what is recorded of the messages.        *)

\* Where no message is stored they stay as they are.
LEMMA NoneStored ==
  ASSUME MsgBaseInv, Kept, UNCHANGED msgs
  PROVE  NumbersDense' /\ ParentsStored' /\ ChildrenAreReplies'
  BY DEF MsgBaseInv, Kept, NumbersDense, ParentsStored, ChildrenAreReplies

\* A call that goes on after its message was stored
LEMMA GoesOn ==
  ASSUME Kept, NEW s, NEW old, NEW save, SaveOK(s, old), Stored(old),
         save.num = old.num, save.msg = old.msg, save.new = old.new,
         save.step \notin {"number", "store"}, SeenOK(s, save)', IndexOK(save)'
  PROVE  SaveOK(s, save)' /\ Goes(old, save)
  <1>1. /\ old.num \in DOMAIN msgs /\ (old.num \notin astray => Same(old.msg, msgs[old.num]))
        /\ Answers(old.msg.children, old.num)
        /\ old.msg.parent # None => old.msg.parent \in DOMAIN msgs
    BY DEF SaveOK, StoredOK
  <1>2. ASSUME old.num \notin astray' PROVE Same(old.msg, msgs'[old.num])
    <2>1. Same(old.msg, msgs[old.num]) /\ Same(msgs[old.num], msgs'[old.num])
      BY <1>1, <1>2 DEF Kept
    <2> QED
      BY <2>1, SameTrans
  <1>2a. Answers(old.msg.children, old.num)'
    BY <1>1, AnswersStay
  <1>3. StoredOK(save)'
    BY <1>1, <1>2, <1>2a DEF StoredOK, Kept
  <1>4. NumberOK(save)' /\ StoreOK(s, save)'
    BY DEF NumberOK, StoreOK
  <1> QED
    BY <1>3, <1>4 DEF SaveOK, Goes, Stored

\* A user posts a message.
LEMMA PostKeeps ==
  ASSUME MsgBaseAssumption, MsgBaseInv, NEW s \in Session, NEW tags \in Posts, NEW to \in User,
         NEW parent \in Num \cup {None}, Post(s, tags, to, parent)
  PROVE  MsgBaseInv' /\ Kept
  <1>1. TypeOK /\ SavesOK /\ LocksExclude /\ SavedOrSaving /\ AstrayCut
    BY DEF MsgBaseInv
  <1>2. Kept /\ StepOf(s)
    <2>1. Kept
      BY KeptUnchanged DEF Post, left_over
    <2>2. StepOf(s)
      BY DEF StepOf, Post, left_over, LeftFor
    <2> QED
      BY <2>1, <2>2
  <1>3. PICK msg : msg = [author |-> s, tags |-> tags, to |-> to, parent |-> parent,
                          children |-> {}]
    OBVIOUS
  <1>4. msg \in Msg /\ msg.children = {} /\ (msg.parent # None => msg.parent \in DOMAIN msgs)
    BY <1>3 DEF Msg, Post, MsgBaseAssumption, Public
  <1>5. PICK save : save = Begun(msg, None, TRUE)
    OBVIOUS
  <1>6. /\ save \in Save /\ save.step = "number" /\ save.new /\ save.num = None
        /\ save.msg = msg /\ save.seen = NothingSeen
    <2>1. NothingSeen \in [Key -> SUBSET Num]
      BY DEF NothingSeen
    <2> QED
      BY <1>4, <1>5, <2>1 DEF Begun, Save, Step
  <1>7. saves' = [saves EXCEPT ![s] = <<save>>] /\ saves[s] = << >>
    BY <1>3, <1>5 DEF Post
  <1>8. OnlyOf(s) /\ saves'[s] = <<save>>
    BY <1>1, <1>6, <1>7 DEF OnlyOf, TypeOK
  <1>9. SaveOK(s, save)'
    <2>1. NumberOK(save)' /\ StoreOK(s, save)' /\ SeenOK(s, save)'
      BY <1>4, <1>6 DEF NumberOK, StoreOK, SeenOK, NothingSeen
    <2>2. StoredOK(save)' /\ IndexOK(save)'
      BY <1>2, <1>4, <1>6 DEF StoredOK, IndexOK, Stored, Kept
    <2> QED
      BY <2>1, <2>2 DEF SaveOK
  <1>10. SavesOK'
    <2> SUFFICES ASSUME NEW t \in Session, NEW i \in 1 .. Len(saves'[t])
                 PROVE  SaveOK(t, saves[t][i])' /\ (i < Len(saves'[t]) => Waits(saves'[t][i]))
      BY DEF SavesOK
    <2>1. CASE t # s
      BY <1>1, <1>2, <1>8, <2>1, SessionsStay
    <2>2. CASE t = s
      <3>0. Len(saves'[t]) = 1
        BY <1>8, <2>2
      <3>1. i = 1 /\ ~(i < Len(saves'[t]))
        BY <3>0
      <3>2. saves'[t][i] = save
        BY <1>8, <2>2, <3>1
      <3> QED
        BY <1>9, <2>2, <3>1, <3>2
    <2> QED
      BY <2>1, <2>2
  <1>11. TypeOK' /\ LocksExclude' /\ AstrayCut' /\ ListedExist'
    BY <1>1, <1>8
       DEF TypeOK, LocksExclude, AstrayCut, ListedExist, MsgBaseInv, Post, left_over, OnlyOf
  <1>12. NumbersDense' /\ ParentsStored' /\ ChildrenAreReplies'
    BY <1>2, NoneStored DEF Post
  <1>14. LeftOK'
    <2>1. ASSUME NEW k, Unwritten(k) PROVE Unwritten(k)'
      <3> SUFFICES ASSUME NEW t \in Session, NEW i \in 1 .. Len(saves'[t])
                   PROVE  ~Writes(saves'[t][i], k)
        BY DEF Unwritten, Writes
      <3>1. CASE t # s
        BY <1>8, <2>1, <3>1 DEF Unwritten, OnlyOf
      <3>2. CASE t = s
        <4>1. Len(saves'[t]) = 1
          BY <1>8, <3>2
        <4>2. i = 1
          BY <4>1
        <4>3. saves'[t][i] = save
          BY <1>8, <3>2, <4>2
        <4> QED
          BY <1>6, <4>3 DEF Writes
      <3> QED
        BY <3>1, <3>2
    <2>2. left' = left /\ UNCHANGED msgs /\ UNCHANGED index
      BY DEF Post, left_over
    <2> QED
      BY <1>2, <2>1, <2>2, LeftStays
  <1>13. SavedOrSaving'
    <2>1. ASSUME NEW n, Saving(n) PROVE Saving(n)'
      <3>1. PICK t \in Session : \E i \in 1 .. Len(saves[t]) :
              saves[t][i].new /\ saves[t][i].num = n /\ Stored(saves[t][i])
        BY <2>1 DEF Saving
      <3>2. t # s
        BY <1>7, <3>1
      <3>3. saves'[t] = saves[t]
        BY <1>8, <3>2 DEF OnlyOf
      <3> QED
        BY <3>1, <3>3 DEF Saving, Stored
    <2>2. DOMAIN msgs' = DOMAIN msgs
      BY DEF Post
    <2> QED
      BY <1>1, <1>2, <2>1, <2>2, SavedStays
  <1> QED
    BY <1>2, <1>10, <1>11, <1>12, <1>13, <1>14 DEF MsgBaseInv

\* The next number is that after the highest.
LEMMA NextNumber ==
  ASSUME TypeOK, NumbersDense
  PROVE  LET n == IF msgs = << >> THEN 0 ELSE Max(DOMAIN msgs) + 1
         IN  n \in Nat /\ DOMAIN msgs = 0 .. n - 1
  <1>1. PICK next \in 0 .. MaxMsgs : DOMAIN msgs = 0 .. next - 1
    BY DEF NumbersDense
  <1>2. CASE msgs = << >>
    <2>1. DOMAIN << >> = {}
      OBVIOUS
    <2>2. 0 .. 0 - 1 = {}
      OBVIOUS
    <2> QED
      BY <1>2, <2>1, <2>2
  <1>3. CASE msgs # << >>
    <2>1. next # 0
      <3> SUFFICES ASSUME next = 0 PROVE FALSE
        OBVIOUS
      <3>1. DOMAIN msgs = {}
        BY <1>1
      <3>2. msgs \in [{} -> Msg] /\ << >> \in [{} -> Msg]
        BY <3>1 DEF TypeOK
      <3> QED
        BY <1>3, <3>2
    <2>2. next - 1 \in DOMAIN msgs /\ \A y \in DOMAIN msgs : next - 1 >= y
      BY <1>1, <2>1
    <2>3. Max(DOMAIN msgs) \in DOMAIN msgs /\ \A y \in DOMAIN msgs : Max(DOMAIN msgs) >= y
      BY <2>2 DEF Max
    <2>4. Max(DOMAIN msgs) = next - 1
      BY <1>1, <2>2, <2>3
    <2>5. Max(DOMAIN msgs) + 1 = next
      BY <1>1, <2>4
    <2> QED
      BY <1>1, <1>3, <2>5
  <1> QED
    BY <1>2, <1>3

LEMMA NumberKeeps ==
  ASSUME MsgBaseAssumption, SharedLocks, MsgBaseInv, NEW s \in Session, Number(s)
  PROVE  MsgBaseInv' /\ Kept
  <1>1. TypeOK /\ SavesOK /\ LocksExclude /\ SavedOrSaving /\ NumbersDense /\ AstrayCut
    BY DEF MsgBaseInv
  <1>2. saves[s] # << >> /\ Top(s).step = "number"
    BY DEF Number, At, Top
  <1>3. /\ Top(s) = saves[s][Len(saves[s])]
        /\ Top(s) \in Save /\ SaveOK(s, Top(s))
    BY <1>1, <1>2, TopIs
  <1>4. PICK n : n = IF msgs = << >> THEN 0 ELSE Max(DOMAIN msgs) + 1
    OBVIOUS
  <1>5. n \in Num /\ DOMAIN msgs = 0 .. n - 1 /\ n \notin DOMAIN msgs
    <2>1. n \in Num /\ DOMAIN msgs = 0 .. n - 1
      BY <1>1, <1>4, NextNumber DEF Number
    <2> QED
      BY <2>1 DEF Num
  <1>6. PICK save : save = [Top(s) EXCEPT !.num = n, !.step = "store"]
    OBVIOUS
  <1>7. /\ save \in Save /\ save.step = "store" /\ save.num = n
        /\ save.new = Top(s).new /\ save.msg = Top(s).msg /\ save.seen = Top(s).seen
    BY <1>3, <1>5, <1>6 DEF Save, Step
  <1>8. Replaced(s, save)
    <2>1. saves' = [saves EXCEPT ![s][Len(saves[s])].num = n,
                                 ![s][Len(saves[s])].step = "store"]
      BY <1>4 DEF Number
    <2>2. saves' = [saves EXCEPT ![s] = [saves[s] EXCEPT ![Len(saves[s])] = save]]
      BY <1>1, <1>3, <1>6, <2>1 DEF TypeOK
    <2> QED
      BY <1>1, <1>2, <1>7, <2>2, ReplaceLast
  <1>9. /\ LocksExclude' /\ lock' \in [Lock -> SUBSET Session] /\ s \in lock'["msgbase"]
        /\ \A k \in Lock : lock[k] \subseteq lock'[k]
    <2>1. "msgbase" \in Lock
      BY DEF Lock
    <2> QED
      BY <1>1, <2>1, AcquiredAlone DEF Number
  <1>a. UNCHANGED <<msgs, index, trans, queue, left, cuts, cut, adrift>>
    BY DEF Number
  <1>b. astray' = astray \cup ({n} \cap LeftFor("msgbase"))
    BY <1>4 DEF Number
  <1>10. Kept
    BY <1>a, <1>b, KeptUnchanged
  <1>11. StepOf(s)
    BY <1>9, <1>a DEF StepOf, LeftFor
  <1>12. SaveOK(s, save)'
    <2>1. /\ save.new /\ save.msg.children = {}
          /\ save.msg.parent # None => save.msg.parent \in DOMAIN msgs
      BY <1>2, <1>3, <1>7 DEF SaveOK, NumberOK, StoredOK
    <2>2. NumberOK(save)' /\ SeenOK(s, save)' /\ IndexOK(save)'
      BY <1>3, <1>7, <1>a, <2>1 DEF NumberOK, SeenOK, IndexOK, Stored, SaveOK
    <2>3. StoreOK(s, save)'
      BY <1>5, <1>7, <1>9, <1>a, <1>b, <2>1 DEF StoreOK, LeftFor
    <2>4. StoredOK(save)'
      BY <1>7, <1>a, <2>1 DEF StoredOK, Stored
    <2> QED
      BY <2>2, <2>3, <2>4 DEF SaveOK
  <1>13. SavesOK'
    BY <1>1, <1>8, <1>10, <1>11, <1>12, ReplacedOK
  <1>14. TypeOK'
    BY <1>1, <1>5, <1>8, <1>9, <1>a, <1>b DEF TypeOK, Replaced, OnlyOf
  <1>15. NumbersDense' /\ ParentsStored' /\ ChildrenAreReplies'
    BY <1>10, <1>a, NoneStored
  <1>17. AstrayCut' /\ ListedExist'
    <2>1. n \in LeftFor("msgbase") => n \in cut
      <3>1. ASSUME NEW r \in left, r[1] = "msgbase", r[2] = n PROVE n \in cut
        BY <1>5, <3>1 DEF MsgBaseInv, LeftOK, RequestOK, LeftStoreOK
      <3> QED
        BY <3>1 DEF LeftFor
    <2> QED
      BY <1>1, <1>a, <1>b, <2>1 DEF AstrayCut, ListedExist, MsgBaseInv
  <1>18. LeftOK'
    <2>1. \A k : ~Writes(save, k)
      BY <1>7 DEF Writes
    <2>2. \A k : Unwritten(k) => Unwritten(k)'
      BY <1>8, <2>1, UnwrittenStays
    <2> QED
      BY <1>10, <1>a, <2>2, LeftStays
  <1>16. SavedOrSaving'
    <2>1. Goes(saves[s][Len(saves[s])], save)
      BY <1>2, <1>3 DEF Goes, Stored
    <2>2. \A m : Saving(m) => Saving(m)'
      BY <1>8, <2>1, StillSaving
    <2>3. DOMAIN msgs' = DOMAIN msgs
      BY <1>a
    <2> QED
      BY <1>1, <1>10, <2>2, <2>3, SavedStays
  <1> QED
    BY <1>9, <1>10, <1>13, <1>14, <1>15, <1>16, <1>17, <1>18 DEF MsgBaseInv

\* A message that is stored leaves no gap in the numbers.
LEMMA DenseStays ==
  ASSUME MsgBaseAssumption, NumbersDense, NEW n, n \in Num, 0 .. n - 1 \subseteq DOMAIN msgs,
         DOMAIN msgs' = DOMAIN msgs \cup {n}
  PROVE  NumbersDense'
  <1>1. PICK next \in 0 .. MaxMsgs : DOMAIN msgs = 0 .. next - 1
    BY DEF NumbersDense
  <1>2. CASE n < next
    <2>1. DOMAIN msgs' = 0 .. next - 1
      BY <1>1, <1>2 DEF Num
    <2> QED
      BY <1>1, <2>1 DEF NumbersDense
  <1>3. CASE ~(n < next)
    <2>1. n = next
      <3>1. n - 1 < next
        <4> SUFFICES ASSUME ~(n - 1 < next) PROVE FALSE
          OBVIOUS
        <4>1. next \in 0 .. n - 1
          BY DEF Num, MsgBaseAssumption
        <4> QED
          BY <1>1, <4>1
      <3> QED
        BY <1>3, <3>1 DEF Num, MsgBaseAssumption
    <2>2. DOMAIN msgs' = 0 .. (next + 1) - 1 /\ next + 1 \in 0 .. MaxMsgs
      BY <1>1, <2>1 DEF Num, MsgBaseAssumption
    <2> QED
      BY <2>2 DEF NumbersDense
  <1> QED
    BY <1>2, <1>3

\* A message that is stored is a reply to a message, and has replies.
LEMMA RepliesStay ==
  ASSUME Kept, ParentsStored, ChildrenAreReplies, NEW n, NEW msg,
         DOMAIN msgs' = DOMAIN msgs \cup {n}, msgs'[n] = msg,
         \A m \in DOMAIN msgs \ {n} : msgs'[m] = msgs[m],
         Answers(msg.children, n), msg.parent # None => msg.parent \in DOMAIN msgs
  PROVE  ChildrenAreReplies' /\ ParentsStored'
  <1>1. ASSUME NEW m \in DOMAIN msgs', NEW c \in msgs'[m].children
        PROVE  c \in DOMAIN msgs' /\ (c \notin astray' => msgs'[c].parent = m)
    <2>1. CASE m = n
      <3>1. Answers(msg.children, n)'
        BY AnswersStay
      <3> QED
        BY <1>1, <2>1, <3>1 DEF Answers
    <2>2. CASE m # n
      <3>1. m \in DOMAIN msgs /\ msgs'[m] = msgs[m]
        BY <2>2
      <3>2. c \in DOMAIN msgs /\ (c \notin astray => msgs[c].parent = m)
        BY <1>1, <3>1 DEF ChildrenAreReplies
      <3> QED
        BY <3>2 DEF Kept, Same
    <2> QED
      BY <2>1, <2>2
  <1>2. ParentsStored'
    BY DEF ParentsStored
  <1> QED
    BY <1>1, <1>2 DEF ChildrenAreReplies

\* The record of a message is stored, for the first time or again.
LEMMA StoreKeeps ==
  ASSUME MsgBaseAssumption, SharedLocks, MsgBaseInv, NEW s \in Session, Store(s)
  PROVE  MsgBaseInv' /\ Kept
  <1>1. /\ TypeOK /\ SavesOK /\ LocksExclude /\ SavedOrSaving /\ NumbersDense
        /\ ParentsStored /\ ChildrenAreReplies /\ AstrayCut /\ ListedExist
    BY DEF MsgBaseInv
  <1>2. saves[s] # << >> /\ Top(s).step = "store"
    BY DEF Store, At, Top
  <1>3. /\ Top(s) = saves[s][Len(saves[s])]
        /\ Top(s) \in Save /\ SaveOK(s, Top(s))
    BY <1>1, <1>2, TopIs
  <1>4. PICK old, n, msg : old = Top(s) /\ n = old.num /\ msg = old.msg
    OBVIOUS
  <1>5. old \in Save /\ SaveOK(s, old) /\ old.step = "store" /\ msg \in Msg
    BY <1>2, <1>3, <1>4 DEF Save
  <1>6. /\ DOMAIN msgs' = DOMAIN msgs \cup {n} /\ msgs'[n] = msg
        /\ \A m \in DOMAIN msgs \ {n} : msgs'[m] = msgs[m]
        /\ msgs' = [m \in DOMAIN msgs' |-> msgs'[m]]
    BY <1>4 DEF Store
  <1>7. PICK save : save = [Top(s) EXCEPT !.step = "read tags", !.seen = NothingSeen]
    OBVIOUS
  <1>8. /\ save \in Save /\ Replaced(s, save)
        /\ save.step = "read tags" /\ save.num = n /\ save.new = old.new /\ save.msg = msg
        /\ save.seen = NothingSeen
    <2>1. "read tags" \in Step
      BY DEF Step
    <2>2. GoTo(s, "read tags")
      BY DEF Store
    <2>3. save \in Save /\ Replaced(s, save)
      BY <1>1, <1>2, <1>3, <1>7, <2>1, <2>2, GoToReplaces
    <2> QED
      BY <1>3, <1>4, <1>7, <2>3 DEF Save
  <1>9. /\ LocksExclude' /\ lock' \in [Lock -> SUBSET Session]
        /\ \A k \in Lock : \A t \in Session \ {s} : t \in lock[k] => t \in lock'[k]
    <2>1. "msgbase" \in Lock
      BY DEF Lock
    <2>2. CASE Release(s, "msgbase")
      BY <1>1, <2>1, <2>2, ReleasedAlone
    <2>3. CASE UNCHANGED lock
      BY <1>1, <2>3 DEF TypeOK, LocksExclude
    <2> QED
      BY <2>2, <2>3 DEF Store
  <1>10. UNCHANGED <<index, trans, queue, left, cuts, cut, astray, adrift>>
    BY DEF Store, left_over
  \* What is the same whether the message is new or not
  <1>11. SUFFICES /\ n \in Num
                  /\ \A m \in DOMAIN msgs \ astray : Same(msgs[m], msgs'[m])
                  /\ DOMAIN msgs' = DOMAIN msgs \/ s \in lock["msgbase"]
                  /\ NumbersDense'
                  /\ Kept => StoredOK(save)' /\ ParentsStored' /\ ChildrenAreReplies'
                  /\ Goes(old, save)
                  /\ \A m \in DOMAIN msgs' \ DOMAIN msgs :
                       m = n /\ save.new /\ (m \in astray' \/ m \notin LeftFor("msgbase"))
    <2> SUFFICES ASSUME n \in Num,
                        \A m \in DOMAIN msgs \ astray : Same(msgs[m], msgs'[m]),
                        DOMAIN msgs' = DOMAIN msgs \/ s \in lock["msgbase"],
                        NumbersDense',
                        Kept => StoredOK(save)' /\ ParentsStored' /\ ChildrenAreReplies',
                        Goes(old, save),
                        \A m \in DOMAIN msgs' \ DOMAIN msgs :
                          m = n /\ save.new /\ (m \in astray' \/ m \notin LeftFor("msgbase"))
                 PROVE  MsgBaseInv' /\ Kept
      OBVIOUS
    <2>1. Kept
      BY <1>1, <1>6, <1>10 DEF Kept, Same, TagsRight, PrivRight, AstrayCut
    <2>2. StepOf(s)
      BY <1>9, <1>10 DEF StepOf, LeftFor
    <2>3. SaveOK(s, save)'
      <3>1. NumberOK(save)' /\ StoreOK(s, save)' /\ SeenOK(s, save)' /\ IndexOK(save)'
        BY <1>8 DEF NumberOK, StoreOK, SeenOK, IndexOK, NothingSeen
      <3> QED
        BY <2>1, <3>1 DEF SaveOK
    <2>4. SavesOK'
      BY <1>1, <1>8, <2>1, <2>2, <2>3, ReplacedOK
    <2>5. TypeOK'
      <3>1. msgs' \in [DOMAIN msgs' -> Msg] /\ DOMAIN msgs' \subseteq Num
        BY <1>1, <1>5, <1>6 DEF TypeOK
      <3> QED
        BY <1>1, <1>8, <1>9, <1>10, <3>1 DEF TypeOK, Replaced, OnlyOf
    <2>7. AstrayCut' /\ ListedExist'
      BY <1>1, <1>6, <1>10 DEF AstrayCut, ListedExist
    <2>8. LeftOK'
      <3>1. \A k : ~Writes(save, k)
        BY <1>8 DEF Writes
      <3>2. \A k : Unwritten(k) => Unwritten(k)'
        BY <1>8, <3>1, UnwrittenStays
      <3> QED
        BY <1>10, <2>1, <3>2, LeftStays
    <2>6. SavedOrSaving'
      <3> SUFFICES ASSUME NEW m \in DOMAIN msgs' \ cut' PROVE Indexed(m)' \/ Saving(m)'
        BY DEF SavedOrSaving
      <3>1. CASE m \in DOMAIN msgs
        <4>1. Indexed(m) \/ Saving(m)
          BY <1>1, <1>10, <3>1 DEF SavedOrSaving
        <4>2. Goes(saves[s][Len(saves[s])], save)
          BY <1>3, <1>4
        <4> QED
          BY <1>1, <1>8, <2>1, <3>1, <4>1, <4>2, IndexedStays, StillSaving
      <3>2. CASE m \notin DOMAIN msgs
        <4>1. m = n /\ save.new
          BY <3>2
        <4>2. /\ Len(saves[s]) \in 1 .. Len(saves'[s])
              /\ saves'[s][Len(saves[s])] = save
          <5>1. /\ Len(saves[s]) \in Nat \ {0} /\ Len(saves'[s]) = Len(saves[s])
                /\ saves'[s][Len(saves[s])] = save
            BY <1>8 DEF Replaced
          <5>2. Len(saves[s]) \in 1 .. Len(saves[s])
            BY <5>1
          <5> QED
            BY <5>1, <5>2
        <4>3. Stored(save)
          BY <1>8 DEF Stored
        <4> QED
          BY <1>8, <4>1, <4>2, <4>3 DEF Saving, Stored
      <3> QED
        BY <3>1, <3>2
    <2> QED
      BY <1>9, <2>1, <2>4, <2>5, <2>6, <2>7, <2>8 DEF MsgBaseInv
  <1>a. msg.parent # None => msg.parent \in DOMAIN msgs
    BY <1>4, <1>5 DEF SaveOK, StoredOK
  <1>b. ASSUME Kept, Answers(msg.children, n) PROVE ChildrenAreReplies' /\ ParentsStored'
    BY <1>1, <1>6, <1>a, <1>b, RepliesStay
  <1>12. CASE old.new
    <2>1. /\ s \in lock["msgbase"] /\ n \in Num /\ 0 .. n - 1 \subseteq DOMAIN msgs
          /\ msg.children = {}
          /\ n \notin astray => n \notin DOMAIN msgs \cup LeftFor("msgbase")
      BY <1>4, <1>5, <1>12 DEF SaveOK, StoreOK
    <2>4. NumbersDense'
      BY <1>1, <1>6, <2>1, DenseStays
    <2>5. \A m \in DOMAIN msgs \ astray : msgs'[m] = msgs[m]
      BY <1>6, <2>1
    <2>6. Answers(msg.children, n)
      BY <2>1 DEF Answers
    <2>7. StoredOK(save)'
      <3>1. Answers(msg.children, n)'
        BY <2>1 DEF Answers
      <3> QED
        BY <1>6, <1>8, <1>a, <3>1 DEF StoredOK, Same
    <2>9. Goes(old, save)
      BY <1>5, <1>12 DEF Goes, Stored
    <2> QED
      BY <1>6, <1>8, <1>10, <1>12, <1>b, <2>1, <2>4, <2>5, <2>6, <2>7, <2>9 DEF Same
  <1>13. CASE ~old.new
    <2>1. /\ n \in DOMAIN msgs /\ (n \notin astray => Same(msg, msgs[n]))
          /\ Answers(msg.children, n)
      BY <1>4, <1>5, <1>13 DEF SaveOK, StoredOK, Stored
    <2>2. DOMAIN msgs' = DOMAIN msgs /\ n \in Num
      BY <1>1, <1>6, <2>1 DEF TypeOK
    <2>3. \A m \in DOMAIN msgs \ astray : Same(msgs[m], msgs'[m])
      BY <1>6, <2>1 DEF Same
    <2>4. ASSUME Kept PROVE StoredOK(save)'
      <3>1. Answers(msg.children, n)'
        BY <2>1, <2>4, AnswersStay
      <3> QED
        BY <1>6, <1>8, <1>a, <3>1 DEF StoredOK, Same
    <2>5. NumbersDense'
      BY <1>1, <2>2 DEF NumbersDense
    <2>7. Goes(old, save)
      BY <1>13 DEF Goes
    <2> QED
      BY <1>b, <2>1, <2>2, <2>3, <2>4, <2>5, <2>7
  <1> QED
    BY <1>12, <1>13

\* A call goes on, and at most what it has locked of the indexes changes.
LEMMA GoesOnKeeps ==
  ASSUME MsgBaseInv, Kept, NEW s \in Session, StepOf(s), NEW old, NEW save,
         saves[s] # << >>, old = Top(s), Stored(old), Replaced(s, save),
         save.num = old.num, save.msg = old.msg, save.new = old.new,
         save.step \notin {"number", "store"}, SeenOK(s, save)', IndexOK(save)',
         UNCHANGED <<msgs, trans, queue, left, cuts, cut, astray>>,
         index' \in [Key -> SUBSET Num], \A k \in Key : index'[k] \subseteq DOMAIN msgs,
         adrift' \subseteq Key,
         \A k \in LeftFor("index") : k \notin adrift' /\ Unwritten(k) =>
           index'[k] = index[k] /\ ~Writes(save, k),
         LocksExclude', lock' \in [Lock -> SUBSET Session]
  PROVE  MsgBaseInv'
  <1>1. TypeOK /\ SavesOK /\ LocksExclude /\ SavedOrSaving /\ AstrayCut /\ ListedExist
    BY DEF MsgBaseInv
  <1>2. old = saves[s][Len(saves[s])] /\ SaveOK(s, old)
    BY <1>1, TopIs
  <1>3. SaveOK(s, save)' /\ Goes(old, save)
    BY <1>2, GoesOn
  <1>4. SavesOK'
    BY <1>1, <1>3, ReplacedOK
  <1>5. TypeOK'
    BY <1>1 DEF TypeOK, Replaced, OnlyOf
  <1>6. SavedOrSaving'
    <2>1. \A n : Saving(n) => Saving(n)'
      BY <1>2, <1>3, StillSaving
    <2> QED
      BY <1>1, <2>1, SavedStays
  <1>7. AstrayCut' /\ ListedExist'
    BY <1>1 DEF AstrayCut, ListedExist
  <1>8. LeftOK'
    <2>1. \A k \in LeftFor("index") : k \notin adrift' /\ Unwritten(k) =>
            index'[k] = index[k] /\ Unwritten(k)'
      BY UnwrittenStays
    <2> QED
      BY <2>1, LeftStays
  <1> QED
    BY <1>4, <1>5, <1>6, <1>7, <1>8, NoneStored DEF MsgBaseInv

\* What is true of a call whose message is stored
LEMMA TopStored ==
  ASSUME TypeOK, SavesOK, NEW s \in Session, saves[s] # << >>, NEW old, old = Top(s),
         old.step \notin {"number", "store"}
  PROVE  /\ old \in Save /\ SaveOK(s, old) /\ Stored(old) /\ old = saves[s][Len(saves[s])]
         /\ old.num \in DOMAIN msgs /\ old.num \in Num
         /\ old.num \notin astray => Same(old.msg, msgs[old.num])
         /\ old.msg.parent # None => old.msg.parent \in DOMAIN msgs
         /\ \A k \in Key : old.seen[k] \subseteq DOMAIN msgs
  BY TopIs DEF SaveOK, StoredOK, SeenOK, Stored, TypeOK

\* An index is read under its lock.
LEMMA ReadKeeps ==
  ASSUME SharedLocks, MsgBaseInv, NEW s \in Session, NEW l, NEW keys, NEW step, NEW next,
         \/ l = "tags" /\ keys = Key \ User /\ step = "read tags" /\ next = "write tags"
         \/ l = "privmsg" /\ keys = {Top(s).msg.to} /\ step = "read priv" /\ next = "write priv",
         ReadIndex(s, l, keys, step, next)
  PROVE  MsgBaseInv' /\ Kept
  <1>1. TypeOK /\ SavesOK /\ LocksExclude /\ ListedExist
    BY DEF MsgBaseInv
  <1>2. PICK old : old = Top(s)
    OBVIOUS
  <1>3. saves[s] # << >> /\ old.step = step
    BY <1>2 DEF ReadIndex, At, Top
  <1>4. /\ old \in Save /\ SaveOK(s, old) /\ Stored(old) /\ old.num \in DOMAIN msgs
        /\ old = saves[s][Len(saves[s])]
    BY <1>1, <1>2, <1>3, TopStored
  <1>5. PICK save : save = [old EXCEPT !.seen = index, !.step = next]
    OBVIOUS
  <1>6. /\ save \in Save /\ save.step = next /\ save.seen = index
        /\ save.num = old.num /\ save.msg = old.msg /\ save.new = old.new
    BY <1>1, <1>4, <1>5 DEF Save, Step, TypeOK
  <1>7. Replaced(s, save)
    <2>1. saves' = [saves EXCEPT ![s][Len(saves[s])].seen = index,
                                 ![s][Len(saves[s])].step = next]
      BY DEF ReadIndex
    <2>2. saves' = [saves EXCEPT ![s] = [saves[s] EXCEPT ![Len(saves[s])] = save]]
      BY <1>1, <1>4, <1>5, <2>1 DEF TypeOK
    <2> QED
      BY <1>1, <1>3, <1>6, <2>2, ReplaceLast
  <1>8. l \in Lock
    BY DEF Lock
  <1>9. /\ LocksExclude' /\ lock' \in [Lock -> SUBSET Session] /\ s \in lock'[l]
        /\ \A k \in Lock : lock[k] \subseteq lock'[k]
    BY <1>1, <1>8, AcquiredAlone DEF ReadIndex
  <1>10. /\ UNCHANGED <<msgs, index, trans, queue, left, cuts, cut, astray>>
         /\ adrift' = adrift \cup (keys \cap LeftFor("index"))
    BY DEF ReadIndex
  <1>11. Kept /\ StepOf(s)
    <2>1. Kept
      BY <1>10, KeptUnchanged
    <2>2. StepOf(s)
      BY <1>9, <1>10 DEF StepOf, LeftFor
    <2> QED
      BY <2>1, <2>2
  <1>16. old.msg.to \in User /\ old.msg.to \in Key
    BY <1>4 DEF Save, Msg, Key
  <1>12. SeenOK(s, save)'
    BY <1>1, <1>6, <1>9, <1>10, <1>16 DEF SeenOK, ListedExist
  <1>17. adrift' \subseteq Key
    BY <1>1, <1>2, <1>10, <1>16 DEF TypeOK
  <1>18. ASSUME NEW k \in LeftFor("index"), k \notin adrift' PROVE ~Writes(save, k)
    <2>1. k \notin keys
      BY <1>10, <1>18
    <2>2. k \in Key
      <3>1. PICK r \in left : r[1] = "index" /\ r[2] = k
        BY DEF LeftFor
      <3>2. r \in Request
        BY <1>1, <3>1 DEF TypeOK
      <3> QED
        BY <3>1, <3>2 DEF Request
    <2> QED
      BY <1>2, <1>6, <2>1, <2>2 DEF Writes
  <1>13. IndexOK(save)'
    <2>1. save.num \notin cut' /\ save.new /\ next = "write priv" => TagsRight(save.num)'
      BY <1>3, <1>4, <1>6, <1>10, <1>11 DEF SaveOK, IndexOK, Kept
    <2> QED
      BY <1>6, <2>1 DEF IndexOK
  <1>14. index' \in [Key -> SUBSET Num] /\ \A k \in Key : index'[k] \subseteq DOMAIN msgs
    BY <1>1, <1>10 DEF TypeOK, ListedExist
  <1>15. save.step \notin {"number", "store"}
    BY <1>6
  <1> QED
    BY <1>2, <1>3, <1>4, <1>6, <1>7, <1>9, <1>10, <1>11, <1>12, <1>13, <1>14, <1>15,
       <1>17, <1>18, GoesOnKeeps

\* What a call is about to write is not unwritten.
LEMMA WritesNow ==
  ASSUME TypeOK, SavesOK, NEW s \in Session, saves[s] # << >>, NEW k, Unwritten(k)
  PROVE  ~Writes(Top(s), k)
  <1>1. Len(saves[s]) \in 1 .. Len(saves[s]) /\ Top(s) = saves[s][Len(saves[s])]
    BY TopIs
  <1> QED
    BY <1>1 DEF Unwritten

\* Tags that are written, all or some, are those that were read but for one number.
WrittenRight(old, done, written) ==
  /\ \A user \in User : written[user] = index[user]
  /\ written \in [Key -> SUBSET Num]
  /\ \A k \in Key : written[k] \subseteq DOMAIN msgs
  /\ \A tag \in Tag \cup {Public} :
       old.seen[tag] = index[tag] =>
         /\ tag \in done \/ done = Retagged(old) => written[tag] = Tagged(old, tag)
         /\ written[tag] \in {index[tag], Tagged(old, tag)}

LEMMA WrittenTags ==
  ASSUME MsgBaseAssumption, TypeOK, NEW old, old \in Save, old.num \in DOMAIN msgs, ListedExist,
         \A k \in Key : old.seen[k] \subseteq DOMAIN msgs, NEW done, done \subseteq Retagged(old),
         NEW written, written = [k \in Key |-> IF k \in done THEN Tagged(old, k) ELSE index[k]]
  PROVE  WrittenRight(old, done, written)
  <1>1. \A k \in Key : Tagged(old, k) \in SUBSET Num /\ Tagged(old, k) \subseteq DOMAIN msgs
    BY DEF Tagged, Save, TypeOK
  <1>2. \A tag \in Tag \cup {Public} : tag \in Key /\ tag \notin User
    BY DEF Key, MsgBaseAssumption
  <1>3. \A user \in User : user \in Key /\ user \notin done
    BY DEF Key, Retagged
  <1>4. \A tag \in Tag \cup {Public} : tag \notin Retagged(old) => Tagged(old, tag) = old.seen[tag]
    BY <1>2 DEF Retagged
  <1>5. written \in [Key -> SUBSET Num] /\ \A k \in Key : written[k] \subseteq DOMAIN msgs
    BY <1>1 DEF TypeOK, ListedExist
  <1>6. \A user \in User : written[user] = index[user]
    BY <1>3
  <1>7. ASSUME NEW tag \in Tag \cup {Public}, old.seen[tag] = index[tag]
        PROVE  /\ tag \in done \/ done = Retagged(old) => written[tag] = Tagged(old, tag)
               /\ written[tag] \in {index[tag], Tagged(old, tag)}
    BY <1>2, <1>4, <1>7
  <1> QED
    BY <1>5, <1>6, <1>7 DEF WrittenRight

\* The tags are written under their lock.
LEMMA WriteTagsKeeps ==
  ASSUME MsgBaseAssumption, MsgBaseInv, NEW s \in Session, WriteTags(s)
  PROVE  MsgBaseInv' /\ Kept
  <1>1. TypeOK /\ SavesOK /\ LocksExclude /\ ListedExist
    BY DEF MsgBaseInv
  <1>2. PICK old : old = Top(s)
    OBVIOUS
  <1>3. saves[s] # << >> /\ old.step = "write tags"
    BY <1>2 DEF WriteTags, At, Top
  <1>4. /\ old \in Save /\ SaveOK(s, old) /\ Stored(old) /\ old.num \in DOMAIN msgs
        /\ old.num \in Num /\ (old.num \notin astray => Same(old.msg, msgs[old.num]))
        /\ \A k \in Key : old.seen[k] \subseteq DOMAIN msgs
    BY <1>1, <1>2, <1>3, TopStored
  <1>5. s \in lock["tags"] /\ \A tag \in (Tag \cup {Public}) \ adrift : old.seen[tag] = index[tag]
    BY <1>3, <1>4 DEF SaveOK, SeenOK
  <1>6. PICK save : save = [Top(s) EXCEPT !.step = "parent", !.seen = NothingSeen]
    OBVIOUS
  <1>7. /\ save \in Save /\ Replaced(s, save)
        /\ save.step = "parent" /\ save.num = old.num /\ save.new = old.new
        /\ save.msg = old.msg /\ save.seen = NothingSeen
    <2>1. "parent" \in Step
      BY DEF Step
    <2>2. GoTo(s, "parent")
      BY DEF WriteTags
    <2>3. save \in Save /\ Replaced(s, save)
      BY <1>1, <1>2, <1>3, <1>4, <1>6, <2>1, <2>2, GoToReplaces
    <2> QED
      BY <1>2, <1>4, <1>6, <2>3 DEF Save
  <1>8. "tags" \in Lock
    BY DEF Lock
  <1>9. /\ LocksExclude' /\ lock' \in [Lock -> SUBSET Session]
        /\ \A k \in Lock : \A t \in Session \ {s} : t \in lock[k] => t \in lock'[k]
    BY <1>1, <1>8, ReleasedAlone DEF WriteTags
  <1>10. UNCHANGED <<msgs, trans, queue, left, cuts, cut, astray, adrift>>
    BY DEF WriteTags, left_over
  <1>11. /\ \A tag \in (Tag \cup {Public}) \ adrift : index'[tag] = Tagged(old, tag)
         /\ \A user \in User : index'[user] = index[user]
         /\ index' \in [Key -> SUBSET Num]
         /\ \A k \in Key : index'[k] \subseteq DOMAIN msgs
    <2>1. index' = [k \in Key |-> IF k \in Retagged(old) THEN Tagged(old, k) ELSE index[k]]
      BY <1>2 DEF WriteTags
    <2>2. PICK written, done : written = index' /\ done = Retagged(old)
      OBVIOUS
    <2>3. done \subseteq Retagged(old) /\ done = Retagged(old)
          /\ written = [k \in Key |-> IF k \in done THEN Tagged(old, k) ELSE index[k]]
      BY <2>1, <2>2
    <2>4. WrittenRight(old, done, written)
      BY <1>1, <1>4, <2>3, WrittenTags
    <2> QED
      BY <1>5, <2>2, <2>4 DEF WrittenRight
  <1>12. old.num \notin cut' => TagsRight(old.num)'
    BY <1>1, <1>4, <1>10, <1>11 DEF TagsRight, Same, Tagged, MsgBaseInv, AstrayCut
  <1>13. Kept
    <2>1. ASSUME NEW n \in DOMAIN msgs \ cut', TagsRight(n) PROVE TagsRight(n)'
      <3>1. CASE n = old.num
        BY <1>12, <3>1
      <3>2. CASE n # old.num
        BY <1>5, <1>10, <1>11, <2>1, <3>2 DEF TagsRight, Tagged
      <3> QED
        BY <3>1, <3>2
    <2>2. ASSUME NEW n \in DOMAIN msgs, PrivRight(n) PROVE PrivRight(n)'
      <3>1. msgs[n].to \in User
        BY <1>1 DEF TypeOK, Msg
      <3> QED
        BY <1>10, <1>11, <2>2, <3>1 DEF PrivRight
    <2> QED
      BY <1>10, <2>1, <2>2 DEF Kept, Same
  <1>14. StepOf(s)
    BY <1>5, <1>9, <1>10, <1>11 DEF StepOf, LeftFor
  <1>15. SeenOK(s, save)' /\ IndexOK(save)' /\ save.step \notin {"number", "store"}
    BY <1>7, <1>12 DEF SeenOK, IndexOK, NothingSeen
  <1>16. ASSUME NEW k \in LeftFor("index"), k \notin adrift', Unwritten(k)
         PROVE  index'[k] = index[k] /\ ~Writes(save, k)
    <2>1. k \in User
      BY <1>1, <1>2, <1>3, <1>16, WritesNow DEF Writes
    <2> QED
      BY <1>7, <1>11, <2>1 DEF Writes
  <1>17. adrift' \subseteq Key
    BY <1>1, <1>10 DEF TypeOK
  <1> QED
    BY <1>2, <1>3, <1>4, <1>7, <1>9, <1>10, <1>11, <1>13, <1>14, <1>15, <1>16, <1>17, GoesOnKeeps

\* The recipient's index is written under its lock.
LEMMA WritePrivKeeps ==
  ASSUME MsgBaseAssumption, MsgBaseInv, NEW s \in Session, WritePriv(s)
  PROVE  MsgBaseInv' /\ Kept
  <1>1. TypeOK /\ SavesOK /\ LocksExclude /\ ListedExist /\ AstrayCut
    BY DEF MsgBaseInv
  <1>2. PICK old : old = Top(s)
    OBVIOUS
  <1>3. saves[s] # << >> /\ old.step = "write priv"
    BY <1>2 DEF WritePriv, At, Top
  <1>4. /\ old \in Save /\ SaveOK(s, old) /\ Stored(old) /\ old.num \in DOMAIN msgs
        /\ old.num \in Num /\ (old.num \notin astray => Same(old.msg, msgs[old.num]))
        /\ \A k \in Key : old.seen[k] \subseteq DOMAIN msgs
    BY <1>1, <1>2, <1>3, TopStored
  <1>5. /\ s \in lock["privmsg"]
        /\ old.msg.to \notin adrift => old.seen[old.msg.to] = index[old.msg.to]
    BY <1>3, <1>4 DEF SaveOK, SeenOK
  <1>6. PICK save : save = [Top(s) EXCEPT !.step = "queue", !.seen = NothingSeen]
    OBVIOUS
  <1>7. /\ save \in Save /\ Replaced(s, save)
        /\ save.step = "queue" /\ save.num = old.num /\ save.new = old.new
        /\ save.msg = old.msg /\ save.seen = NothingSeen
    <2>1. "queue" \in Step
      BY DEF Step
    <2>2. GoTo(s, "queue")
      BY DEF WritePriv
    <2>3. save \in Save /\ Replaced(s, save)
      BY <1>1, <1>2, <1>3, <1>4, <1>6, <2>1, <2>2, GoToReplaces
    <2> QED
      BY <1>2, <1>4, <1>6, <2>3 DEF Save
  <1>8. "privmsg" \in Lock
    BY DEF Lock
  <1>9. /\ LocksExclude' /\ lock' \in [Lock -> SUBSET Session]
        /\ \A k \in Lock : \A t \in Session \ {s} : t \in lock[k] => t \in lock'[k]
    BY <1>1, <1>8, ReleasedAlone DEF WritePriv
  <1>10. UNCHANGED <<msgs, trans, queue, left, cuts, cut, astray, adrift>>
    BY DEF WritePriv, left_over
  <1>11. /\ \A tag \in Tag \cup {Public} : index'[tag] = index[tag]
         /\ \A user \in User \ adrift : index[user] \subseteq index'[user]
         /\ \A user \in User : user # old.msg.to => index'[user] = index[user]
         /\ old.num \in index'[old.msg.to]
         /\ index' \in [Key -> SUBSET Num]
         /\ \A k \in Key : index'[k] \subseteq DOMAIN msgs
    <2>1. index' = [index EXCEPT ![old.msg.to] = old.seen[old.msg.to] \cup {old.num}]
      BY <1>2 DEF WritePriv
    <2>2. old.msg.to \in User /\ old.msg.to \in Key
      BY <1>4 DEF Save, Msg, Key
    <2>3. old.msg.to \notin adrift => old.seen[old.msg.to] = index[old.msg.to]
      BY <1>5
    <2>4. /\ old.seen[old.msg.to] \cup {old.num} \in SUBSET Num
          /\ old.seen[old.msg.to] \cup {old.num} \subseteq DOMAIN msgs
      BY <1>1, <1>4, <2>2 DEF TypeOK, Save
    <2>5. \A tag \in Tag \cup {Public} : tag \in Key /\ tag \notin User
      BY DEF Key, MsgBaseAssumption
    <2>6. \A user \in User : user \in Key
      BY DEF Key
    <2> QED
      BY <1>1, <2>1, <2>2, <2>3, <2>4, <2>5, <2>6 DEF TypeOK, ListedExist
  <1>12. old.num \notin cut' => PrivRight(old.num)'
    BY <1>1, <1>4, <1>10, <1>11 DEF PrivRight, Same, AstrayCut
  <1>13. Kept
    <2>1. ASSUME NEW n \in DOMAIN msgs, TagsRight(n) PROVE TagsRight(n)'
      BY <1>10, <1>11, <2>1 DEF TagsRight
    <2>2. ASSUME NEW n \in DOMAIN msgs, PrivRight(n) PROVE PrivRight(n)'
      <3>1. msgs[n].to \in User
        BY <1>1 DEF TypeOK, Msg
      <3> QED
        BY <1>10, <1>11, <2>2, <3>1 DEF PrivRight
    <2> QED
      BY <1>10, <2>1, <2>2 DEF Kept, Same
  <1>14. StepOf(s)
    BY <1>5, <1>9, <1>10, <1>11 DEF StepOf, LeftFor
  <1>15. SeenOK(s, save)' /\ save.step \notin {"number", "store"}
    BY <1>7 DEF SeenOK, NothingSeen
  <1>16. IndexOK(save)'
    <2>1. save.num \notin cut' /\ save.new => TagsRight(save.num)
      BY <1>3, <1>4, <1>7, <1>10 DEF SaveOK, IndexOK
    <2> QED
      BY <1>4, <1>7, <1>12, <1>13, <2>1 DEF IndexOK, Kept
  <1>17. ASSUME NEW k \in LeftFor("index"), k \notin adrift', Unwritten(k)
         PROVE  index'[k] = index[k] /\ ~Writes(save, k)
    <2>1. k \notin User \/ k # old.msg.to
      BY <1>1, <1>2, <1>3, <1>17, WritesNow DEF Writes
    <2>2. k \in Key
      <3>1. PICK r \in left : r[1] = "index" /\ r[2] = k
        BY DEF LeftFor
      <3>2. r \in Request
        BY <1>1, <3>1 DEF TypeOK
      <3> QED
        BY <3>1, <3>2 DEF Request
    <2> QED
      BY <1>7, <1>11, <2>1, <2>2 DEF Writes, Key
  <1>18. adrift' \subseteq Key
    BY <1>1, <1>10 DEF TypeOK
  <1> QED
    BY <1>2, <1>3, <1>4, <1>7, <1>9, <1>10, <1>11, <1>13, <1>14, <1>15, <1>16, <1>17, <1>18,
       GoesOnKeeps

\* What follows the parent needs the tags to be right, and they are.
LEMMA AfterParentIs ==
  ASSUME Kept, AstrayCut, NEW s, NEW old, NEW save, SaveOK(s, old), old.step = "parent",
         save.step = AfterParent(old), \A k \in Key : save.seen[k] \subseteq DOMAIN msgs,
         save.num = old.num, save.msg = old.msg, save.new = old.new
  PROVE  /\ SaveOK(s, save)' /\ Goes(old, save) /\ Waits(save)
         /\ SeenOK(s, save)' /\ IndexOK(save)'
         /\ save.step \in Step /\ save.step \notin {"number", "store"}
  <1>1. /\ save.step = IF Public \notin old.msg.tags THEN "read priv" ELSE "queue"
        /\ save.step \in {"read priv", "queue"}
    BY DEF AfterParent
  <1>2. Stored(old)
    BY DEF Stored
  <1>3. SeenOK(s, save)'
    BY <1>1 DEF SeenOK, Kept
  <1>4. IndexOK(save)'
    <2> SUFFICES ASSUME save.num \notin cut' PROVE IndexOK(save)'
      BY DEF IndexOK
    <2>1. save.num \in DOMAIN msgs /\ save.num \notin astray /\ Same(save.msg, msgs[save.num])
      BY <1>2 DEF SaveOK, StoredOK, AstrayCut, Kept
    <2>2. save.new => TagsRight(save.num)'
      BY <1>2, <2>1 DEF SaveOK, IndexOK, Kept
    <2>3. save.step = "queue" => PrivRight(save.num)'
      BY <1>1, <2>1 DEF PrivRight, Kept, Same
    <2> QED
      BY <1>1, <2>2, <2>3 DEF IndexOK
  <1>5. SaveOK(s, save)' /\ Goes(old, save)
    BY <1>1, <1>2, <1>3, <1>4, GoesOn
  <1> QED
    BY <1>1, <1>3, <1>4, <1>5 DEF Waits, Step

LEMMA NoParentKeeps ==
  ASSUME MsgBaseInv, NEW s \in Session, NoParent(s)
  PROVE  MsgBaseInv' /\ Kept
  <1>1. TypeOK /\ SavesOK /\ LocksExclude
    BY DEF MsgBaseInv
  <1>2. PICK old : old = Top(s)
    OBVIOUS
  <1>3. saves[s] # << >> /\ old.step = "parent"
    BY <1>2 DEF NoParent, At, Top
  <1>4. old \in Save /\ SaveOK(s, old) /\ Stored(old)
    BY <1>1, <1>2, <1>3, TopStored
  <1>5. AfterParent(old) \in Step
    BY DEF AfterParent, Step
  <1>6. PICK save : save = [Top(s) EXCEPT !.step = AfterParent(old), !.seen = NothingSeen]
    OBVIOUS
  <1>7. /\ save \in Save /\ Replaced(s, save)
        /\ save.step = AfterParent(old) /\ save.num = old.num /\ save.new = old.new
        /\ save.msg = old.msg /\ save.seen = NothingSeen
    <2>1. GoTo(s, AfterParent(old))
      BY <1>2 DEF NoParent
    <2>2. save \in Save /\ Replaced(s, save)
      BY <1>1, <1>2, <1>3, <1>4, <1>5, <1>6, <2>1, GoToReplaces
    <2> QED
      BY <1>2, <1>4, <1>5, <1>6, <2>2 DEF Save
  <1>8. Kept /\ StepOf(s)
    <2>1. Kept
      BY KeptUnchanged DEF NoParent, left_over
    <2>2. StepOf(s)
      BY DEF StepOf, NoParent, LeftFor, left_over
    <2> QED
      BY <2>1, <2>2
  <1>9. SeenOK(s, save)' /\ IndexOK(save)' /\ save.step \notin {"number", "store"}
    <2>1. AstrayCut /\ \A k \in Key : save.seen[k] \subseteq DOMAIN msgs
      BY <1>7 DEF NothingSeen, MsgBaseInv
    <2> QED
      BY <1>3, <1>4, <1>7, <1>8, <2>1, AfterParentIs
  <1>10. /\ UNCHANGED <<msgs, index, trans, queue, left, cuts, cut, astray, adrift>>
         /\ index' \in [Key -> SUBSET Num] /\ \A k \in Key : index'[k] \subseteq DOMAIN msgs
         /\ adrift' \subseteq Key
         /\ LocksExclude' /\ lock' \in [Lock -> SUBSET Session]
    BY <1>1 DEF NoParent, left_over, TypeOK, LocksExclude, MsgBaseInv, ListedExist
  <1>11. \A k : ~Writes(save, k)
    BY <1>7 DEF Writes, AfterParent
  <1> QED
    BY <1>2, <1>3, <1>4, <1>7, <1>8, <1>9, <1>10, <1>11, GoesOnKeeps

\* A call of save() that calls another for a message that is stored
LEMMA CallsKeeps ==
  ASSUME MsgBaseInv, Kept, NEW s \in Session, StepOf(s), NEW old, NEW save \in Save,
         NEW msg \in Msg, NEW n, NEW called, called = Begun(msg, n, FALSE),
         saves[s] # << >>, old = Top(s), SaveOK(s, save)', Goes(old, save), Waits(save),
         saves' = [saves EXCEPT ![s] = Append(Front(saves[s]) \o <<save>>, called)],
         n \in DOMAIN msgs, n \notin astray => Same(msg, msgs[n]), Answers(msg.children, n),
         msg.parent # None => msg.parent \in DOMAIN msgs, \A k : ~Writes(save, k),
         UNCHANGED <<msgs, index, trans, queue, left, cuts, cut, astray, adrift>>,
         LocksExclude', lock' \in [Lock -> SUBSET Session]
  PROVE  MsgBaseInv'
  <1>1. TypeOK /\ SavesOK /\ LocksExclude /\ SavedOrSaving /\ AstrayCut /\ ListedExist
    BY DEF MsgBaseInv
  <1>2. old = saves[s][Len(saves[s])]
    BY <1>1, TopIs
  <1>3. /\ called \in Save /\ called.step = "store" /\ ~called.new /\ called.num = n
        /\ called.msg = msg /\ called.seen = NothingSeen
    <2>1. NothingSeen \in [Key -> SUBSET Num]
      BY DEF NothingSeen
    <2>2. n \in Num
      BY <1>1 DEF TypeOK
    <2> QED
      BY <2>1, <2>2 DEF Begun, Save, Step
  <1>4. Pushed(s, save, called)
    BY <1>1, <1>3, AppendPushes
  <1>5. SaveOK(s, called)'
    <2>1. NumberOK(called)' /\ StoreOK(s, called)' /\ SeenOK(s, called)' /\ IndexOK(called)'
      BY <1>3 DEF NumberOK, StoreOK, SeenOK, IndexOK, NothingSeen
    <2>2. StoredOK(called)'
      BY <1>3, AnswersStay DEF StoredOK
    <2> QED
      BY <2>1, <2>2 DEF SaveOK
  <1>6. SavesOK'
    BY <1>1, <1>4, <1>5, PushedOK
  <1>7. TypeOK'
    BY <1>1, <1>4 DEF TypeOK, Pushed, OnlyOf
  <1>8. SavedOrSaving'
    <2>1. \A m : Saving(m) => Saving(m)'
      BY <1>2, <1>4, StillSaving
    <2> QED
      BY <1>1, <2>1, SavedStays
  <1>9. AstrayCut' /\ ListedExist'
    BY <1>1 DEF AstrayCut, ListedExist
  <1>10. LeftOK'
    <2>1. \A k : ~Writes(called, k)
      BY <1>3 DEF Writes
    <2>2. \A k : Unwritten(k) => Unwritten(k)'
      BY <1>4, <2>1, UnwrittenStays
    <2> QED
      BY <2>2, LeftStays
  <1> QED
    BY <1>6, <1>7, <1>8, <1>9, <1>10, NoneStored DEF MsgBaseInv

\* The parent is saved again.
LEMMA SaveParentKeeps ==
  ASSUME MsgBaseInv, NEW s \in Session, SaveParent(s)
  PROVE  MsgBaseInv' /\ Kept
  <1>1. /\ TypeOK /\ SavesOK /\ LocksExclude /\ ParentsStored /\ ChildrenAreReplies
        /\ AstrayCut
    BY DEF MsgBaseInv
  <1>2. PICK old : old = Top(s)
    OBVIOUS
  <1>3. saves[s] # << >> /\ old.step = "parent" /\ old.msg.parent # None
    BY <1>2 DEF SaveParent, At, Top
  <1>4. /\ old \in Save /\ SaveOK(s, old) /\ old.num \in DOMAIN msgs /\ old.num \in Num
        /\ old.num \notin astray => Same(old.msg, msgs[old.num])
        /\ old.msg.parent \in DOMAIN msgs
        /\ \A k \in Key : old.seen[k] \subseteq DOMAIN msgs
    BY <1>1, <1>2, <1>3, TopStored
  <1>5. Kept /\ StepOf(s)
    <2>1. Kept
      BY KeptUnchanged DEF SaveParent, left_over
    <2>2. StepOf(s)
      BY DEF StepOf, SaveParent, LeftFor, left_over
    <2> QED
      BY <2>1, <2>2
  <1>6. PICK save : save = [old EXCEPT !.step = AfterParent(old)]
    OBVIOUS
  <1>7. /\ save.step = AfterParent(old) /\ save.num = old.num /\ save.new = old.new
        /\ save.msg = old.msg /\ save.seen = old.seen
    BY <1>4, <1>6 DEF Save
  <1>8. /\ SaveOK(s, save)' /\ Goes(old, save) /\ Waits(save) /\ save.step \in Step
    BY <1>1, <1>3, <1>4, <1>5, <1>7, AfterParentIs
  <1>9. save \in Save
    BY <1>4, <1>6, <1>7, <1>8 DEF Save
  <1>10. PICK n, msg : n = old.msg.parent /\ msg = [msgs[n] EXCEPT !.children = @ \cup {old.num}]
    OBVIOUS
  <1>11. n \in DOMAIN msgs /\ msgs[n] \in Msg
    BY <1>1, <1>4, <1>10 DEF TypeOK
  <1>12. /\ msg \in Msg /\ Same(msg, msgs[n]) /\ msg.children = msgs[n].children \cup {old.num}
         /\ msg.parent = msgs[n].parent
    BY <1>4, <1>10, <1>11 DEF Msg, Same
  <1>13. Answers(msg.children, n)
    BY <1>1, <1>4, <1>10, <1>11, <1>12 DEF ChildrenAreReplies, Same, Answers, AstrayCut
  <1>14. msg.parent # None => msg.parent \in DOMAIN msgs
    BY <1>1, <1>11, <1>12 DEF ParentsStored
  <1>15. PICK called : called = Begun(msg, n, FALSE)
    OBVIOUS
  <1>16. saves' = [saves EXCEPT ![s] = Append(Front(saves[s]) \o <<save>>, called)]
    BY <1>2, <1>6, <1>10, <1>15 DEF SaveParent
  <1>17. /\ UNCHANGED <<msgs, index, trans, queue, left, cuts, cut, astray, adrift>>
         /\ LocksExclude' /\ lock' \in [Lock -> SUBSET Session]
    BY <1>1 DEF SaveParent, left_over, TypeOK, LocksExclude
  <1>18. \A k : ~Writes(save, k)
    BY <1>7 DEF Writes, AfterParent
  <1> QED
    BY <1>2, <1>3, <1>5, <1>8, <1>9, <1>11, <1>12, <1>13, <1>14, <1>15, <1>16, <1>17, <1>18,
       CallsKeeps

\* save() returns, from a call or to the user.
LEMMA ReturnKeeps ==
  ASSUME MsgBaseInv, Kept, NEW s \in Session, StepOf(s), NEW old, saves[s] # << >>,
         old = Top(s), Returned(s), old.new /\ old.num \notin cut => Indexed(old.num)',
         UNCHANGED <<msgs, index, left, cuts, cut, astray, adrift>>,
         trans' \subseteq DOMAIN msgs, queue' \subseteq DOMAIN msgs,
         LocksExclude', lock' \in [Lock -> SUBSET Session]
  PROVE  MsgBaseInv'
  <1>1. TypeOK /\ SavesOK /\ LocksExclude /\ SavedOrSaving /\ AstrayCut /\ ListedExist
    BY DEF MsgBaseInv
  <1>2. old = saves[s][Len(saves[s])]
    BY <1>1, TopIs
  <1>3. Popped(s)
    BY <1>1, ReturnPops
  <1>4. SavesOK'
    BY <1>1, <1>3, PoppedOK
  <1>5. TypeOK'
    BY <1>1, <1>3 DEF TypeOK, Popped, OnlyOf
  <1>6. SavedOrSaving'
    <2>1. \A m \in DOMAIN msgs \ cut' : Saving(m) => Saving(m)' \/ Indexed(m)'
      BY <1>2, <1>3, StillSavingOthers
    <2> QED
      BY <1>1, <2>1, SavedStays
  <1>7. AstrayCut' /\ ListedExist'
    BY <1>1 DEF AstrayCut, ListedExist
  <1>8. LeftOK'
    <2>1. \A k : Unwritten(k) => Unwritten(k)'
      BY <1>3, UnwrittenStays
    <2> QED
      BY <2>1, LeftStays
  <1> QED
    BY <1>4, <1>5, <1>6, <1>7, <1>8, NoneStored DEF MsgBaseInv

\* What is queued is in its indexes.
LEMMA QueuedIs ==
  ASSUME TypeOK, SavesOK, NEW s \in Session, saves[s] # << >>, NEW old, old = Top(s),
         old.step \in {"queue", "stored for network"}
  PROVE  /\ old \in Save /\ SaveOK(s, old) /\ Stored(old)
         /\ old.num \in DOMAIN msgs /\ old.num \in Num
         /\ old.num \notin astray => Same(old.msg, msgs[old.num])
         /\ old.msg.parent # None => old.msg.parent \in DOMAIN msgs
         /\ \A k \in Key : old.seen[k] \subseteq DOMAIN msgs
         /\ Answers(old.msg.children, old.num)
         /\ old.new /\ old.num \notin cut => TagsRight(old.num) /\ PrivRight(old.num)
  <1>1. /\ old \in Save /\ SaveOK(s, old) /\ Stored(old)
        /\ old.num \in DOMAIN msgs /\ old.num \in Num
        /\ old.num \notin astray => Same(old.msg, msgs[old.num])
        /\ old.msg.parent # None => old.msg.parent \in DOMAIN msgs
        /\ \A k \in Key : old.seen[k] \subseteq DOMAIN msgs
    BY TopStored
  <1>2. Answers(old.msg.children, old.num)
    BY <1>1 DEF SaveOK, StoredOK
  <1>3. old.new /\ old.num \notin cut => TagsRight(old.num) /\ PrivRight(old.num)
    BY <1>1 DEF SaveOK, IndexOK
  <1> QED
    BY <1>1, <1>2, <1>3

\* A message of a network that is served is saved again.
LEMMA SaveForNetworkKeeps ==
  ASSUME SharedLocks, MsgBaseInv, NEW s \in Session, SaveForNetwork(s)
  PROVE  MsgBaseInv' /\ Kept
  <1>1. TypeOK /\ SavesOK /\ LocksExclude
    BY DEF MsgBaseInv
  <1>2. PICK old, msg, n : old = Top(s) /\ msg = old.msg /\ n = old.num
    OBVIOUS
  <1>3. saves[s] # << >> /\ old.step = "queue" /\ old.new
    BY <1>2 DEF SaveForNetwork, At, Top
  <1>4. /\ old \in Save /\ SaveOK(s, old) /\ Stored(old)
        /\ n \in DOMAIN msgs /\ (n \notin astray => Same(msg, msgs[n]))
        /\ msg.parent # None => msg.parent \in DOMAIN msgs
        /\ \A k \in Key : old.seen[k] \subseteq DOMAIN msgs
        /\ Answers(msg.children, n)
        /\ n \notin cut => TagsRight(n) /\ PrivRight(n)
    BY <1>1, <1>2, <1>3, QueuedIs
  <1>5. msg \in Msg
    BY <1>2, <1>4 DEF Save
  <1>6. "trans" \in Lock
    BY DEF Lock
  <1>7. /\ LocksExclude' /\ lock' \in [Lock -> SUBSET Session]
        /\ \A k \in Lock : lock[k] \subseteq lock'[k]
    BY <1>1, <1>6, AcquiredAlone DEF SaveForNetwork
  <1>8. UNCHANGED <<msgs, index, trans, queue, left, cuts, cut, astray, adrift>>
    BY DEF SaveForNetwork, left_over
  <1>9. Kept /\ StepOf(s)
    <2>1. Kept
      BY <1>8, KeptUnchanged
    <2>2. StepOf(s)
      BY <1>7, <1>8 DEF StepOf, LeftFor
    <2> QED
      BY <2>1, <2>2
  <1>10. PICK save : save = [old EXCEPT !.step = "stored for network"]
    OBVIOUS
  <1>11. /\ save \in Save /\ save.step = "stored for network"
         /\ save.num = old.num /\ save.new = old.new /\ save.msg = old.msg
         /\ save.seen = old.seen
    BY <1>4, <1>10 DEF Save, Step
  <1>12. Waits(save) /\ SeenOK(s, save)' /\ save.step \notin {"number", "store"}
    BY <1>4, <1>8, <1>11 DEF Waits, SeenOK
  <1>13. IndexOK(save)'
    <2>1. save.msg.tags \cap ServerTag # {}
      BY <1>2, <1>11 DEF SaveForNetwork
    <2> QED
      BY <1>2, <1>4, <1>8, <1>9, <1>11, <2>1 DEF IndexOK, Kept
  <1>14. SaveOK(s, save)' /\ Goes(old, save)
    BY <1>4, <1>9, <1>11, <1>12, <1>13, GoesOn
  <1>15. PICK called : called = Begun(msg, n, FALSE)
    OBVIOUS
  <1>16. saves' = [saves EXCEPT ![s] = Append(Front(saves[s]) \o <<save>>, called)]
    BY <1>2, <1>10, <1>15 DEF SaveForNetwork
  <1> QED
    <2>1. \A k : ~Writes(save, k)
      BY <1>11 DEF Writes
    <2> QED
      BY <1>2, <1>3, <1>4, <1>5, <1>7, <1>8, <1>9, <1>11, <1>12, <1>14, <1>15, <1>16, <2>1,
         CallsKeeps

\* It is then recorded for the network.
LEMMA StoredForNetworkKeeps ==
  ASSUME MsgBaseInv, NEW s \in Session, StoredForNetwork(s)
  PROVE  MsgBaseInv' /\ Kept
  <1>1. TypeOK /\ SavesOK /\ LocksExclude
    BY DEF MsgBaseInv
  <1>2. PICK old : old = Top(s)
    OBVIOUS
  <1>3. saves[s] # << >> /\ old.step = "stored for network"
    BY <1>2 DEF StoredForNetwork, At, Top
  <1>4. /\ old.num \in DOMAIN msgs /\ old.num \in Num
        /\ old.num \notin astray => Same(old.msg, msgs[old.num])
        /\ old.new /\ old.num \notin cut => TagsRight(old.num) /\ PrivRight(old.num)
        /\ SaveOK(s, old)
    BY <1>1, <1>2, <1>3, QueuedIs
  <1>5. "trans" \in Lock
    BY DEF Lock
  <1>6. /\ LocksExclude' /\ lock' \in [Lock -> SUBSET Session]
        /\ \A k \in Lock : \A t \in Session \ {s} : t \in lock[k] => t \in lock'[k]
    BY <1>1, <1>5, ReleasedAlone DEF StoredForNetwork
  <1>7. /\ UNCHANGED <<msgs, index, queue, left, cuts, cut, astray, adrift>>
        /\ trans' = trans \cup {old.num}
    BY <1>2 DEF StoredForNetwork, left_over
  <1>8. Kept /\ StepOf(s)
    <2>1. Kept
      BY <1>7, KeptUnchanged
    <2>2. StepOf(s)
      BY <1>6, <1>7 DEF StepOf, LeftFor
    <2> QED
      BY <2>1, <2>2
  <1>9. Returned(s)
    BY DEF StoredForNetwork
  <1>10. trans' \subseteq DOMAIN msgs /\ queue' \subseteq DOMAIN msgs
    BY <1>4, <1>7 DEF MsgBaseInv, ListedExist
  <1>11. old.new /\ old.num \notin cut => Indexed(old.num)'
    <2> SUFFICES ASSUME old.new, old.num \notin cut PROVE Indexed(old.num)'
      OBVIOUS
    <2>1. TagsRight(old.num)' /\ PrivRight(old.num)'
      BY <1>4, <1>7, <1>8 DEF Kept
    <2>2. msgs'[old.num].tags \cap ServerTag # {}
      BY <1>3, <1>4, <1>7 DEF SaveOK, IndexOK, Same, MsgBaseInv, AstrayCut
    <2>3. old.num \in trans'
      BY <1>7
    <2> QED
      BY <2>1, <2>2, <2>3 DEF Indexed, TagsRight, PrivRight
  <1> QED
    BY <1>2, <1>3, <1>6, <1>7, <1>8, <1>9, <1>10, <1>11, ReturnKeeps

\* save() returns.
LEMMA ReturnNoneKeeps ==
  ASSUME MsgBaseInv, NEW s \in Session, Return(s)
  PROVE  MsgBaseInv' /\ Kept
  <1>1. TypeOK /\ SavesOK /\ LocksExclude
    BY DEF MsgBaseInv
  <1>2. PICK old : old = Top(s)
    OBVIOUS
  <1>3. saves[s] # << >> /\ old.step = "queue"
    BY <1>2 DEF Return, At, Top
  <1>4. /\ old.num \in DOMAIN msgs /\ old.num \in Num
        /\ old.num \notin astray => Same(old.msg, msgs[old.num])
        /\ old.new /\ old.num \notin cut => TagsRight(old.num) /\ PrivRight(old.num)
    BY <1>1, <1>2, <1>3, QueuedIs
  <1>5. /\ UNCHANGED <<msgs, index, trans, lock, left, cuts, cut, astray, adrift>>
        /\ ~(old.new /\ old.msg.tags \cap ServerTag # {})
        /\ queue' = IF old.new /\ old.msg.tags \cap NetworkTag # {}
                    THEN queue \cup {old.num} ELSE queue
    BY <1>2 DEF Return, left_over
  <1>6. Kept /\ StepOf(s)
    <2>1. Kept
      BY <1>5, KeptUnchanged
    <2>2. StepOf(s)
      BY <1>5 DEF StepOf, LeftFor
    <2> QED
      BY <2>1, <2>2
  <1>7. Returned(s)
    BY DEF Return
  <1>8. trans' \subseteq DOMAIN msgs /\ queue' \subseteq DOMAIN msgs
    BY <1>4, <1>5 DEF MsgBaseInv, ListedExist
  <1>9. LocksExclude' /\ lock' \in [Lock -> SUBSET Session]
    BY <1>1, <1>5 DEF TypeOK, LocksExclude
  <1>10. old.new /\ old.num \notin cut => Indexed(old.num)'
    <2> SUFFICES ASSUME old.new, old.num \notin cut PROVE Indexed(old.num)'
      OBVIOUS
    <2>1. TagsRight(old.num)' /\ PrivRight(old.num)'
      BY <1>4, <1>5, <1>6 DEF Kept
    <2>2. /\ msgs'[old.num].tags = old.msg.tags /\ old.msg.tags \cap ServerTag = {}
          /\ old.msg.tags \cap NetworkTag # {} => old.num \in queue'
      BY <1>4, <1>5 DEF Same, MsgBaseInv, AstrayCut
    <2> QED
      BY <2>1, <2>2 DEF Indexed, TagsRight, PrivRight
  <1> QED
    BY <1>2, <1>3, <1>5, <1>6, <1>7, <1>8, <1>9, <1>10, ReturnKeeps

\* The request of a disconnected session
LEMMA RequestIs ==
  ASSUME NEW save, NEW r \in Requests(save)
  PROVE  \/ /\ save.step = "store" /\ r = <<"msgbase", save.num, save.msg>>
            /\ r[1] = "msgbase" /\ r[2] = save.num /\ r[3] = save.msg
         \/ \E k \in Retagged(save) :
              /\ save.step = "write tags" /\ r = <<"index", k, Tagged(save, k)>>
              /\ r[1] = "index" /\ r[2] = k
         \/ /\ save.step = "write priv"
            /\ r = <<"index", save.msg.to, save.seen[save.msg.to] \cup {save.num}>>
            /\ r[1] = "index" /\ r[2] = save.msg.to
         \/ /\ save.step \in {"stored for network", "queue"} /\ r[1] \in {"trans", "queue"}
            /\ r[2] = save.num /\ r = <<r[1], save.num, save.num>>
  <1>1. \/ save.step = "store" /\ r = <<"msgbase", save.num, save.msg>>
        \/ \E k \in Retagged(save) :
             save.step = "write tags" /\ r = <<"index", k, Tagged(save, k)>>
        \/ /\ save.step = "write priv"
           /\ r = <<"index", save.msg.to, save.seen[save.msg.to] \cup {save.num}>>
        \/ save.step = "stored for network" /\ r = <<"trans", save.num, save.num>>
        \/ save.step = "queue" /\ r = <<"queue", save.num, save.num>>
    BY DEF Requests
  <1>2. \A a, b, c : <<a, b, c>>[1] = a /\ <<a, b, c>>[2] = b /\ <<a, b, c>>[3] = c
    OBVIOUS
  <1>3. CASE \E k \in Retagged(save) :
               save.step = "write tags" /\ r = <<"index", k, Tagged(save, k)>>
    <2>1. PICK k \in Retagged(save) :
            save.step = "write tags" /\ r = <<"index", k, Tagged(save, k)>>
      BY <1>3
    <2>2. r[1] = "index" /\ r[2] = k
      BY <1>2, <2>1
    <2> QED
      BY <2>1, <2>2
  <1>4. CASE save.step = "store" /\ r = <<"msgbase", save.num, save.msg>>
    BY <1>2, <1>4
  <1>5. CASE /\ save.step = "write priv"
             /\ r = <<"index", save.msg.to, save.seen[save.msg.to] \cup {save.num}>>
    BY <1>2, <1>5
  <1>6. CASE save.step = "stored for network" /\ r = <<"trans", save.num, save.num>>
    BY <1>2, <1>6
  <1>7. CASE save.step = "queue" /\ r = <<"queue", save.num, save.num>>
    BY <1>2, <1>7
  <1> QED
    BY <1>1, <1>3, <1>4, <1>5, <1>6, <1>7

\* A session is disconnected in save().
LEMMA DisconnectKeeps ==
  ASSUME MsgBaseAssumption, MsgBaseInv, NEW s \in Session, Disconnect(s)
  PROVE  MsgBaseInv' /\ Kept
  <1>1. /\ TypeOK /\ SavesOK /\ LocksExclude /\ SavedOrSaving /\ ListedExist /\ AstrayCut
        /\ NumbersDense
    BY DEF MsgBaseInv
  <1>2. PICK old : old = Top(s)
    OBVIOUS
  <1>3. /\ old \in Save /\ SaveOK(s, old) /\ old = saves[s][Len(saves[s])]
        /\ saves[s] # << >> /\ saves[s] \in Seq(Save) /\ Len(saves[s]) \in 1 .. Len(saves[s])
    <2>1. saves[s] # << >>
      BY DEF Disconnect
    <2> QED
      BY <1>1, <1>2, <2>1, TopIs
  <1>4. UNCHANGED <<msgs, trans, queue, astray, adrift>> /\ cut \subseteq cut'
    BY DEF Disconnect
  <1>5. /\ cut' \subseteq Num /\ cuts' \in 0 .. MaxCuts
        /\ \A i \in 1 .. Len(saves[s]) :
             saves[s][i].new /\ saves[s][i].num # None => saves[s][i].num \in cut'
    <2>1. \A i \in DOMAIN saves[s] : saves[s][i].num \in Num \cup {None}
      <3>1. \A i \in 1 .. Len(saves[s]) : saves[s][i] \in Save
        BY <1>3, ElementOfSeq
      <3> QED
        BY <1>3, <3>1, LenProperties DEF Save
    <2>2. cut' = cut \cup ({saves[s][i].num :
                           i \in {j \in DOMAIN saves[s] : saves[s][j].new}} \ {None})
      BY DEF Disconnect
    <2>3. DOMAIN saves[s] = 1 .. Len(saves[s])
      BY <1>3, LenProperties
    <2>4. cuts' \in 0 .. MaxCuts
      <3>1. cuts < MaxCuts /\ cuts' = cuts + 1
        BY DEF Disconnect
      <3>2. cuts \in 0 .. MaxCuts /\ MaxCuts \in Nat
        BY <1>1 DEF TypeOK, MsgBaseAssumption
      <3> QED
        BY <3>1, <3>2
    <2> QED
      BY <1>1, <2>1, <2>2, <2>3, <2>4 DEF TypeOK
  <1>6. old.new /\ old.num # None => old.num \in cut'
    BY <1>3, <1>5
  <1>7. /\ index' \in [Key -> SUBSET Num] /\ \A k \in Key : index'[k] \subseteq DOMAIN msgs
        /\ \A user \in User : index'[user] = index[user]
        /\ index' = index \/ old.step = "write tags"
        /\ \A tag \in (Tag \cup {Public}) \ adrift :
             \/ index'[tag] = index[tag]
             \/ /\ old.step = "write tags" /\ old.seen[tag] = index[tag]
                /\ index'[tag] = Tagged(old, tag)
    <2>1. PICK done \in SUBSET Retagged(old) :
            /\ done = {} \/ old.step = "write tags"
            /\ index' = [k \in Key |-> IF k \in done THEN Tagged(old, k) ELSE index[k]]
      BY <1>2 DEF Disconnect, At, Top
    <2>2. CASE done = {}
      <3>1. index' = index
        BY <1>1, <2>1, <2>2 DEF TypeOK
      <3> QED
        BY <1>1, <3>1 DEF TypeOK, ListedExist
    <2>3. CASE old.step = "write tags"
      <3>1. /\ old.num \in DOMAIN msgs /\ \A k \in Key : old.seen[k] \subseteq DOMAIN msgs
            /\ \A tag \in (Tag \cup {Public}) \ adrift : old.seen[tag] = index[tag]
        BY <1>3, <2>3 DEF SaveOK, StoredOK, SeenOK, Stored
      <3>2. PICK written : written = index'
        OBVIOUS
      <3>3. WrittenRight(old, done, written)
        <4>1. written = [k \in Key |-> IF k \in done THEN Tagged(old, k) ELSE index[k]]
          BY <2>1, <3>2
        <4>2. done \subseteq Retagged(old)
          OBVIOUS
        <4> QED
          BY <1>1, <1>3, <3>1, <4>1, <4>2, WrittenTags
      <3> QED
        BY <2>3, <3>1, <3>2, <3>3 DEF WrittenRight
    <2> QED
      BY <2>1, <2>2, <2>3
  <1>8. /\ LocksExclude' /\ lock' \in [Lock -> SUBSET Session]
        /\ \A l \in Lock : \A t \in Session \ {s} : t \in lock[l] => t \in lock'[l]
    BY <1>1 DEF Disconnect, TypeOK, LocksExclude
  <1>9. << >> \in Seq(Save) /\ Len(<< >>) = 0
    OBVIOUS
  <1>10. OnlyOf(s) /\ saves'[s] = << >>
    BY <1>1, <1>9 DEF OnlyOf, TypeOK, Disconnect
  <1>11. left' = left \/ \E r \in Requests(old) : left' = left \cup {r}
    BY <1>2 DEF Disconnect
  <1>12. Kept
    <2>1. ASSUME NEW n \in DOMAIN msgs \ cut', TagsRight(n) PROVE TagsRight(n)'
      <3> SUFFICES ASSUME NEW tag \in (Tag \cup {Public}) \ adrift, index'[tag] # index[tag]
                   PROVE  n \in index'[tag] <=> tag \in msgs[n].tags
        BY <1>4, <2>1 DEF TagsRight
      <3>1. /\ old.step = "write tags" /\ old.seen[tag] = index[tag]
            /\ index'[tag] = Tagged(old, tag)
        BY <1>7
      <3>2. CASE n = old.num
        <4>1. Same(old.msg, msgs[n])
          BY <1>1, <1>3, <1>4, <3>1, <3>2 DEF SaveOK, StoredOK, Stored, AstrayCut
        <4> QED
          BY <3>1, <3>2, <4>1 DEF Same, Tagged
      <3>3. CASE n # old.num
        BY <2>1, <3>1, <3>3 DEF TagsRight, Tagged
      <3> QED
        BY <3>2, <3>3
    <2>2. ASSUME NEW n \in DOMAIN msgs, PrivRight(n) PROVE PrivRight(n)'
      <3>1. msgs[n].to \in User
        BY <1>1 DEF TypeOK, Msg
      <3> QED
        BY <1>4, <1>7, <2>2, <3>1 DEF PrivRight
    <2> QED
      BY <1>4, <2>1, <2>2 DEF Kept, Same
  <1>13. StepOf(s)
    <2>1. \/ /\ DOMAIN msgs' = DOMAIN msgs
             /\ LeftFor("msgbase")' \subseteq LeftFor("msgbase") \cup DOMAIN msgs
          \/ s \in lock["msgbase"]
      <3>1. CASE left' = left
        BY <1>4, <3>1 DEF LeftFor
      <3>2. ASSUME NEW r \in Requests(old), left' = left \cup {r}
            PROVE  \/ LeftFor("msgbase")' \subseteq LeftFor("msgbase") \cup DOMAIN msgs
                   \/ s \in lock["msgbase"]
        <4>1. LeftFor("msgbase")' \subseteq
                LeftFor("msgbase") \cup {x \in {r[2]} : r[1] = "msgbase"}
          BY <3>2 DEF LeftFor
        <4>2. r[1] = "msgbase" => old.step = "store" /\ r[2] = old.num
          BY RequestIs
        <4>3. old.step = "store" => old.num \in DOMAIN msgs \/ s \in lock["msgbase"]
          BY <1>3 DEF SaveOK, StoreOK, StoredOK, Stored
        <4> QED
          BY <4>1, <4>2, <4>3
      <3> QED
        BY <1>4, <1>11, <3>1, <3>2
    <2>2. (\A tag \in Tag \cup {Public} : index'[tag] = index[tag]) \/ s \in lock["tags"]
      BY <1>3, <1>7 DEF SaveOK, SeenOK
    <2> QED
      BY <1>7, <1>8, <2>1, <2>2 DEF StepOf
  <1>14. SavesOK'
    <2> SUFFICES ASSUME NEW t \in Session, NEW i \in 1 .. Len(saves'[t])
                 PROVE  SaveOK(t, saves[t][i])' /\ (i < Len(saves'[t]) => Waits(saves'[t][i]))
      BY DEF SavesOK
    <2>1. t # s
      BY <1>9, <1>10
    <2> QED
      BY <1>1, <1>10, <1>12, <1>13, <2>1, SessionsStay
  <1>15. \/ old.step = "number"
         \/ old.num \in Num /\ (old.step # "store" => old.num \in DOMAIN msgs)
    BY <1>1, <1>3 DEF SaveOK, StoreOK, StoredOK, Stored, TypeOK
  <1>16. \A k \in Retagged(old) : k \in Key /\ k \in Tag \cup {Public} /\ k \notin User
    BY DEF Retagged, Key
  <1>17. old.msg \in Msg /\ old.msg.to \in User /\ old.msg.to \in Key
    BY <1>3 DEF Save, Msg, Key
  <1>18. ASSUME NEW k \in Key, Writes(old, k)
         PROVE  ~Unwritten(k) /\ Unwritten(k)'
    <2>1. ~Unwritten(k)
      BY <1>1, <1>2, <1>3, <1>18, WritesNow
    <2>2. ASSUME NEW t \in Session, NEW i \in 1 .. Len(saves'[t]), Writes(saves'[t][i], k)
          PROVE  FALSE
      <3>1. t # s
        BY <1>9, <1>10
      <3>2. PICK save : save = saves[t][i]
        OBVIOUS
      <3>3. i \in 1 .. Len(saves[t]) /\ Writes(save, k)
        BY <1>10, <2>2, <3>1, <3>2 DEF OnlyOf
      <3>4. SaveOK(t, save)
        BY <1>1, <3>2, <3>3 DEF SavesOK
      <3>5. CASE k \notin User
        <4>1. s \in lock["tags"] /\ t \in lock["tags"]
          BY <1>3, <1>18, <3>3, <3>4, <3>5 DEF Writes, SaveOK, SeenOK
        <4> QED
          BY <1>1, <3>1, <4>1 DEF LocksExclude, Lock
      <3>6. CASE k \in User
        <4>1. s \in lock["privmsg"] /\ t \in lock["privmsg"]
          BY <1>3, <1>18, <3>3, <3>4, <3>6 DEF Writes, SaveOK, SeenOK
        <4> QED
          BY <1>1, <3>1, <4>1 DEF LocksExclude, Lock
      <3> QED
        BY <3>5, <3>6
    <2>3. Unwritten(k)'
      BY <2>2 DEF Unwritten, Writes
    <2> QED
      BY <2>1, <2>3
  \* What may be left is right,
  <1>19. ASSUME NEW r \in Requests(old) PROVE r \in Request /\ RequestOK(r)'
    <2>1. CASE old.step = "store" /\ r = <<"msgbase", old.num, old.msg>>
      <3>1. r[1] = "msgbase" /\ r[2] = old.num /\ r[3] = old.msg
        BY <2>1
      <3>2. r \in Request
        BY <1>15, <1>17, <2>1 DEF Request
      <3>3. 0 .. old.num - 1 \subseteq DOMAIN msgs'
        <4>1. CASE old.new
          BY <1>3, <1>4, <2>1, <4>1 DEF SaveOK, StoreOK
        <4>2. CASE ~old.new
          <5>1. old.num \in DOMAIN msgs
            BY <1>3, <2>1, <4>2 DEF SaveOK, StoredOK, Stored
          <5>2. PICK next \in 0 .. MaxMsgs : DOMAIN msgs = 0 .. next - 1
            BY <1>1 DEF NumbersDense
          <5> QED
            BY <1>4, <5>1, <5>2 DEF MsgBaseAssumption
        <4> QED
          BY <4>1, <4>2
      <3>4. old.num \notin DOMAIN msgs' => old.num \in cut'
        <4>1. old.num # None
          BY <1>15, <2>1 DEF Num, None
        <4> QED
          BY <1>3, <1>4, <1>6, <2>1, <4>1 DEF SaveOK, StoredOK, Stored
      <3>5. old.num \in DOMAIN msgs' \ astray' => Same(old.msg, msgs'[old.num])
        BY <1>3, <1>4, <2>1 DEF SaveOK, StoreOK, StoredOK, Stored
      <3>6. Answers(old.msg.children, old.num)'
        <4>1. Answers(old.msg.children, old.num)
          BY <1>3, <2>1 DEF SaveOK, StoreOK, StoredOK, Stored, Answers
        <4> QED
          BY <1>12, <4>1, AnswersStay
      <3>7. old.msg.parent # None => old.msg.parent \in DOMAIN msgs'
        BY <1>3, <1>4 DEF SaveOK, StoredOK
      <3>8. LeftStoreOK(old.num, old.msg)'
        BY <3>3, <3>4, <3>5, <3>6, <3>7 DEF LeftStoreOK
      <3> QED
        BY <3>1, <3>2, <3>8 DEF RequestOK
    <2>2. ASSUME NEW k \in Retagged(old), old.step = "write tags",
                 r = <<"index", k, Tagged(old, k)>>
          PROVE  r \in Request /\ RequestOK(r)'
      <3>1. r[1] = "index" /\ r[2] = k /\ r[3] = Tagged(old, k)
        BY <2>2
      <3>2. /\ old.num \in DOMAIN msgs /\ old.seen[k] \subseteq DOMAIN msgs
            /\ k \notin adrift => old.seen[k] = index[k]
            /\ old.num \notin astray => Same(old.msg, msgs[old.num])
        BY <1>3, <1>16, <2>2 DEF SaveOK, StoredOK, SeenOK, Stored
      <3>3. Tagged(old, k) \subseteq DOMAIN msgs /\ Tagged(old, k) \in SUBSET Num
        BY <1>1, <3>2 DEF Tagged, TypeOK
      <3>4. r \in Request
        BY <1>16, <2>2, <3>3 DEF Request
      <3>5. ASSUME k \notin adrift' PROVE Unwritten(k)' /\ ButFor(old.num, k, Tagged(old, k))'
        <4>1. Unwritten(k)'
          BY <1>16, <1>18, <2>2 DEF Writes
        <4>2. old.seen[k] = index[k] /\ (index'[k] = index[k] \/ index'[k] = Tagged(old, k))
          BY <1>4, <1>7, <1>16, <3>2, <3>5
        <4>3. \A m \in Num : m # old.num => (m \in Tagged(old, k) <=> m \in index'[k])
          BY <4>2 DEF Tagged
        <4>4. old.num \notin cut' => (old.num \in Tagged(old, k) <=> k \in msgs'[old.num].tags)
          BY <1>1, <1>4, <3>2 DEF Tagged, Same, AstrayCut
        <4> QED
          BY <1>16, <4>1, <4>3, <4>4 DEF ButFor
      <3>6. LeftWriteOK(k, Tagged(old, k))'
        BY <1>4, <3>2, <3>3, <3>5 DEF LeftWriteOK
      <3> QED
        BY <3>1, <3>4, <3>6 DEF RequestOK
    <2>3. CASE /\ old.step = "write priv"
               /\ r = <<"index", old.msg.to, old.seen[old.msg.to] \cup {old.num}>>
      <3>0. PICK k, nums : k = old.msg.to /\ nums = old.seen[old.msg.to] \cup {old.num}
        OBVIOUS
      <3>1. r[1] = "index" /\ r[2] = k /\ r[3] = nums /\ k \in User /\ k \in Key
        BY <1>17, <2>3, <3>0
      <3>2. /\ old.num \in DOMAIN msgs /\ old.seen[k] \subseteq DOMAIN msgs
            /\ k \notin adrift => old.seen[k] = index[k]
        BY <1>3, <2>3, <3>0, <3>1 DEF SaveOK, StoredOK, SeenOK, Stored
      <3>3. nums \subseteq DOMAIN msgs /\ nums \in SUBSET Num
        BY <1>1, <3>0, <3>2 DEF TypeOK
      <3>4. r \in Request
        BY <2>3, <3>0, <3>1, <3>3 DEF Request
      <3>5. ASSUME k \notin adrift' PROVE Unwritten(k)' /\ ButFor(old.num, k, nums)'
        <4>1. Unwritten(k)'
          BY <1>18, <2>3, <3>0, <3>1 DEF Writes
        <4>2. nums = index'[k] \cup {old.num}
          BY <1>4, <1>7, <3>0, <3>1, <3>2, <3>5
        <4> QED
          BY <3>1, <4>1, <4>2 DEF ButFor
      <3>6. LeftWriteOK(k, nums)'
        BY <1>4, <3>2, <3>3, <3>5 DEF LeftWriteOK
      <3> QED
        BY <3>1, <3>4, <3>6 DEF RequestOK
    <2>4. CASE /\ old.step \in {"stored for network", "queue"}
               /\ r[1] \in {"trans", "queue"} /\ r[2] = old.num /\ r = <<r[1], old.num, old.num>>
      <3>1. old.num \in DOMAIN msgs /\ old.num \in Num
        BY <1>15, <2>4
      <3>2. PICK where \in {"trans", "queue"} : where = r[1] /\ r = <<where, old.num, old.num>>
        BY <2>4
      <3>3. r \in Request
        BY <3>1, <3>2 DEF Request
      <3> QED
        BY <1>4, <2>4, <3>1, <3>3 DEF RequestOK
    <2> QED
      BY <2>1, <2>2, <2>3, <2>4, RequestIs
  \* and does not contradict what was left before.
  <1>20. ASSUME NEW r \in Requests(old), NEW t \in left PROVE Agree(r, t)' /\ Agree(t, r)'
    <2>1. RequestOK(t) /\ t \in Request
      BY <1>1 DEF MsgBaseInv, LeftOK, TypeOK
    <2>2. ASSUME r[1] = "msgbase", t[1] = "msgbase", r[2] = t[2], r[2] \notin astray
          PROVE  Same(r[3], t[3])
      <3>1. old.step = "store" /\ r[2] = old.num /\ r[3] = old.msg
        BY <2>2, RequestIs
      <3>2. t[2] \in LeftFor("msgbase")
        BY <2>2 DEF LeftFor
      <3>3. old.num \in DOMAIN msgs /\ Same(old.msg, msgs[old.num])
        BY <1>3, <2>2, <3>1, <3>2 DEF SaveOK, StoreOK, StoredOK, Stored
      <3>4. Same(t[3], msgs[old.num])
        BY <2>1, <2>2, <3>1, <3>3 DEF RequestOK, LeftStoreOK
      <3> QED
        BY <3>1, <3>3, <3>4 DEF Same
    <2>3. ASSUME r[1] = "index", t[1] = "index", r[2] = t[2], r[2] \notin adrift
          PROVE  FALSE
      <3>1. Writes(old, r[2])
        BY <1>16, <1>17, <2>3, RequestIs DEF Writes
      <3>2. r[2] \in Key
        BY <1>16, <1>17, <2>3, RequestIs
      <3>3. Unwritten(r[2])
        BY <2>1, <2>3 DEF RequestOK, LeftWriteOK
      <3> QED
        BY <1>18, <3>1, <3>2, <3>3
    <2> QED
      BY <1>4, <2>2, <2>3 DEF Agree, Same
  <1>21. TypeOK'
    <2>1. left' \subseteq Request
      BY <1>1, <1>11, <1>19 DEF TypeOK
    <2> QED
      BY <1>1, <1>4, <1>5, <1>7, <1>8, <1>10, <2>1 DEF TypeOK, OnlyOf
  <1>22. LeftOK'
    <2>1. ASSUME NEW r \in left PROVE RequestOK(r)'
      <3>1. RequestOK(r) /\ r \in Request
        BY <1>1 DEF MsgBaseInv, LeftOK, TypeOK
      <3>2. ASSUME r[1] = "index", r[2] \notin adrift', Unwritten(r[2])
            PROVE  index'[r[2]] = index[r[2]] /\ Unwritten(r[2])'
        <4>1. r[2] \in Key
          BY <3>1, <3>2 DEF Request
        <4>2. ~Writes(old, r[2])
          BY <1>1, <1>2, <1>3, <3>2, WritesNow
        <4>3. index'[r[2]] = index[r[2]]
          BY <1>7, <4>1, <4>2 DEF Writes
        <4>4. Unwritten(r[2])'
          <5>1. ASSUME NEW t \in Session, NEW i \in 1 .. Len(saves'[t])
                PROVE  ~Writes(saves'[t][i], r[2])
            <6>1. t # s
              BY <1>9, <1>10
            <6> QED
              BY <1>10, <3>2, <6>1 DEF Unwritten, OnlyOf
          <5> QED
            BY <5>1 DEF Unwritten, Writes
        <4> QED
          BY <4>3, <4>4
      <3> QED
        BY <1>1, <1>4, <1>12, <3>1, <3>2, RequestStays
    <2>2. ASSUME NEW r \in left, NEW t \in left PROVE Agree(r, t)'
      <3>1. Agree(r, t)
        BY DEF MsgBaseInv, LeftOK
      <3> QED
        BY <1>4, <3>1 DEF Agree
    <2>3. \A r : Agree(r, r)'
      BY DEF Agree, Same
    <2> QED
      BY <1>11, <1>19, <1>20, <2>1, <2>2, <2>3 DEF LeftOK
  <1>23. AstrayCut' /\ ListedExist'
    BY <1>1, <1>4, <1>7 DEF AstrayCut, ListedExist
  <1>24. SavedOrSaving'
    <2>1. ASSUME NEW n \in DOMAIN msgs \ cut', Saving(n) PROVE Saving(n)'
      <3>1. PICK t \in Session : \E i \in 1 .. Len(saves[t]) :
              saves[t][i].new /\ saves[t][i].num = n /\ Stored(saves[t][i])
        BY <2>1 DEF Saving
      <3>2. ASSUME t = s PROVE FALSE
        <4>1. PICK i \in 1 .. Len(saves[s]) : saves[s][i].new /\ saves[s][i].num = n
          BY <3>1, <3>2
        <4>2. n # None
          BY <1>1 DEF TypeOK, None, Num
        <4> QED
          BY <1>5, <2>1, <4>1, <4>2
      <3>3. saves'[t] = saves[t]
        BY <1>10, <3>2 DEF OnlyOf
      <3> QED
        BY <3>1, <3>3 DEF Saving, Stored
    <2> QED
      BY <1>1, <1>4, <1>12, <2>1, SavedStays
  <1> QED
    BY <1>4, <1>8, <1>12, <1>14, <1>21, <1>22, <1>23, <1>24, NoneStored DEF MsgBaseInv

\* A request that was left is executed.
LEMMA ExecuteKeeps ==
  ASSUME MsgBaseAssumption, MsgBaseInv, NEW r \in left, Execute(r)
  PROVE  MsgBaseInv' /\ Kept
  <1>1. /\ TypeOK /\ SavesOK /\ LocksExclude /\ SavedOrSaving /\ ListedExist /\ AstrayCut
        /\ NumbersDense /\ ParentsStored /\ ChildrenAreReplies
    BY DEF MsgBaseInv
  <1>2. r \in Request /\ RequestOK(r)
    BY DEF MsgBaseInv, TypeOK, LeftOK
  <1>3. PICK n, msg, k, nums : n = r[2] /\ msg = r[3] /\ k = r[2] /\ nums = r[3]
    OBVIOUS
  <1>4. /\ r[1] = "msgbase" => n \in Num /\ msg \in Msg /\ LeftStoreOK(n, msg)
        /\ r[1] = "index" => k \in Key /\ nums \in SUBSET Num /\ LeftWriteOK(k, nums)
        /\ r[1] \in {"trans", "queue"} => n \in DOMAIN msgs
    BY <1>2, <1>3 DEF Request, RequestOK
  <1>5. UNCHANGED <<lock, saves, cuts, cut, astray, adrift>> /\ left' = left \ {r}
    BY DEF Execute
  \* What it writes
  <1>6. /\ IF r[1] = "msgbase"
           THEN /\ DOMAIN msgs' = DOMAIN msgs \cup {n} /\ msgs'[n] = msg
                /\ \A m \in DOMAIN msgs \ {n} : msgs'[m] = msgs[m]
                /\ msgs' = [m \in DOMAIN msgs' |-> msgs'[m]]
           ELSE msgs' = msgs
        /\ IF r[1] = "index"
           THEN \A key \in Key : index'[key] = IF key = k THEN nums ELSE index[key]
           ELSE \A key \in Key : index'[key] = index[key]
        /\ index' = [key \in Key |-> index'[key]]
        /\ trans' \subseteq trans \cup DOMAIN msgs /\ trans \subseteq trans'
        /\ queue' \subseteq queue \cup DOMAIN msgs /\ queue \subseteq queue'
    <2>1. r[1] = "msgbase" =>
            msgs' = [m \in DOMAIN msgs \cup {n} |-> IF m = n THEN msg ELSE msgs[m]]
      BY <1>3 DEF Execute
    <2>2. r[1] # "msgbase" => msgs' = msgs
      BY DEF Execute
    <2>3. index' = [key \in Key |-> IF r[1] = "index" /\ key = k THEN nums ELSE index[key]]
      BY <1>3 DEF Execute
    <2>4. /\ trans' \subseteq trans \cup DOMAIN msgs /\ trans \subseteq trans'
          /\ queue' \subseteq queue \cup DOMAIN msgs /\ queue \subseteq queue'
      BY <1>3, <1>4 DEF Execute
    <2> QED
      BY <2>1, <2>2, <2>3, <2>4
  <1>7. /\ DOMAIN msgs \subseteq DOMAIN msgs'
        /\ \A m \in DOMAIN msgs \ astray : Same(msgs[m], msgs'[m])
    BY <1>4, <1>6 DEF LeftStoreOK, Same
  <1>8. Kept
    <2>1. ASSUME NEW m \in DOMAIN msgs \ cut, NEW key \in Key \ adrift
          PROVE  /\ key \in User => (m \in index[key] => m \in index'[key])
                 /\ key \notin User =>
                      \/ m \in index'[key] <=> m \in index[key]
                      \/ m \in index'[key] <=> key \in msgs[m].tags
      <3>1. CASE r[1] = "index" /\ key = k
        <4>1. PICK x \in DOMAIN msgs : ButFor(x, k, nums)
          BY <1>4, <2>1, <3>1 DEF LeftWriteOK
        <4>2. m \in Num /\ index'[key] = nums
          BY <1>1, <1>6, <3>1 DEF TypeOK
        <4>3. CASE m = x
          BY <3>1, <4>1, <4>2, <4>3 DEF ButFor
        <4>4. CASE m # x
          BY <3>1, <4>1, <4>2, <4>4 DEF ButFor
        <4> QED
          BY <4>3, <4>4
      <3>2. CASE ~(r[1] = "index" /\ key = k)
        <4>1. index'[key] = index[key]
          BY <1>6, <3>2
        <4> QED
          BY <4>1
      <3> QED
        BY <3>1, <3>2
    <2>2. \A m \in DOMAIN msgs \ cut :
            msgs'[m].tags = msgs[m].tags /\ msgs'[m].to = msgs[m].to /\ msgs[m].to \in User
      BY <1>1, <1>7 DEF AstrayCut, Same, TypeOK, Msg
    <2>3. \A tag \in Tag \cup {Public} : tag \in Key /\ tag \notin User
      BY DEF Key, MsgBaseAssumption
    <2>4. ASSUME NEW m \in DOMAIN msgs \ cut, TagsRight(m) PROVE TagsRight(m)'
      BY <1>5, <2>1, <2>2, <2>3, <2>4 DEF TagsRight
    <2>5. ASSUME NEW m \in DOMAIN msgs \ cut, PrivRight(m) PROVE PrivRight(m)'
      <3>1. msgs[m].to \in Key
        BY <2>2 DEF Key
      <3> QED
        BY <1>5, <2>1, <2>2, <2>5, <3>1 DEF PrivRight
    <2> QED
      BY <1>5, <1>6, <1>7, <2>4, <2>5 DEF Kept
  <1>9. ASSUME NEW t \in Session, NEW i \in 1 .. Len(saves[t]), NEW save, save = saves[t][i]
        PROVE  SaveOK(t, save)' /\ (i < Len(saves[t]) => Waits(save))
    <2>1. SaveOK(t, save) /\ (i < Len(saves[t]) => Waits(save))
      BY <1>1, <1>9 DEF SavesOK
    <2>2. ASSUME NEW key \in Key \ adrift, Writes(save, key) PROVE index'[key] = index[key]
      <3>1. ~(r[1] = "index" /\ key = k)
        BY <1>4, <1>9, <2>2 DEF LeftWriteOK, Unwritten
      <3> QED
        BY <1>6, <3>1
    <2>3. save.step = "write tags" =>
            \A tag \in (Tag \cup {Public}) \ adrift : index'[tag] = index[tag]
      <3>1. \A tag \in Tag \cup {Public} : tag \in Key /\ tag \notin User
        BY DEF Key, MsgBaseAssumption
      <3> QED
        BY <2>2, <3>1 DEF Writes
    <2>4. save.step = "write priv" /\ save.msg.to \notin adrift =>
            index'[save.msg.to] = index[save.msg.to]
      <3>1. save.step = "write priv" => save.msg.to \in User /\ save.msg.to \in Key
        BY <2>1 DEF SaveOK, SeenOK, Key
      <3> QED
        BY <2>2, <3>1 DEF Writes
    <2>5. DOMAIN msgs' \subseteq DOMAIN msgs \cup LeftFor("msgbase")
      BY <1>3, <1>6 DEF LeftFor
    <2>6. LeftFor("msgbase")' \subseteq LeftFor("msgbase")
      BY <1>5 DEF LeftFor
    <2>7. Undisturbed(t, save)
      BY <1>5, <2>1, <2>3, <2>4, <2>5, <2>6 DEF Undisturbed, SaveOK, StoreOK, SeenOK
    <2> QED
      BY <1>8, <2>1, <2>7, EntryStays
  <1>10. SavesOK'
    <2> SUFFICES ASSUME NEW t \in Session, NEW i \in 1 .. Len(saves'[t])
                 PROVE  SaveOK(t, saves[t][i])' /\ (i < Len(saves'[t]) => Waits(saves'[t][i]))
      BY DEF SavesOK
    <2>1. PICK save : save = saves[t][i]
      OBVIOUS
    <2>2. i \in 1 .. Len(saves[t]) /\ save = saves'[t][i]
      BY <1>5, <2>1
    <2>3. SaveOK(t, save)' /\ (i < Len(saves[t]) => Waits(save))
      BY <1>9, <2>1, <2>2
    <2> QED
      BY <1>5, <2>2, <2>3
  <1>11. TypeOK' /\ LocksExclude' /\ AstrayCut'
    <2>1. msgs' \in [DOMAIN msgs' -> Msg] /\ DOMAIN msgs' \subseteq Num
      <3>1. CASE r[1] = "msgbase"
        BY <1>1, <1>4, <1>6, <3>1 DEF TypeOK
      <3>2. CASE r[1] # "msgbase"
        BY <1>1, <1>6, <3>2 DEF TypeOK
      <3> QED
        BY <3>1, <3>2
    <2>2. index' \in [Key -> SUBSET Num]
      BY <1>1, <1>4, <1>6 DEF TypeOK
    <2>3. trans' \subseteq Num /\ queue' \subseteq Num
      BY <1>1, <1>6 DEF TypeOK
    <2>4. left' \subseteq Request
      BY <1>1, <1>5 DEF TypeOK
    <2> QED
      BY <1>1, <1>5, <2>1, <2>2, <2>3, <2>4 DEF TypeOK, LocksExclude, AstrayCut
  <1>12. NumbersDense' /\ ParentsStored' /\ ChildrenAreReplies'
    <2>1. CASE r[1] = "msgbase"
      <3>1. /\ n \in Num /\ 0 .. n - 1 \subseteq DOMAIN msgs /\ Answers(msg.children, n)
            /\ msg.parent # None => msg.parent \in DOMAIN msgs
            /\ DOMAIN msgs' = DOMAIN msgs \cup {n} /\ msgs'[n] = msg
            /\ \A m \in DOMAIN msgs \ {n} : msgs'[m] = msgs[m]
        BY <1>4, <1>6, <2>1 DEF LeftStoreOK
      <3>2. NumbersDense'
        BY <1>1, <3>1, DenseStays
      <3>3. ParentsStored' /\ ChildrenAreReplies'
        BY <1>1, <1>8, <3>1, RepliesStay
      <3> QED
        BY <3>2, <3>3
    <2>2. CASE r[1] # "msgbase"
      BY <1>6, <1>8, <2>2, NoneStored
    <2> QED
      BY <2>1, <2>2
  <1>13. ListedExist'
    <2>1. ASSUME NEW key \in Key PROVE index'[key] \subseteq DOMAIN msgs
      BY <1>1, <1>4, <1>6 DEF ListedExist, LeftWriteOK
    <2> QED
      BY <1>1, <1>6, <1>7, <2>1 DEF ListedExist
  <1>14. LeftOK'
    <2> SUFFICES ASSUME NEW q \in left', NEW t \in left' PROVE RequestOK(q)' /\ Agree(q, t)'
      BY DEF LeftOK
    <2>1. /\ q \in left /\ q # r /\ t \in left /\ RequestOK(q) /\ Agree(q, t) /\ Agree(q, r)
          /\ q \in Request
      BY <1>5 DEF MsgBaseInv, LeftOK, TypeOK
    <2>2. Agree(q, t)'
      BY <1>5, <2>1 DEF Agree
    <2>3. q[1] = "msgbase" /\ q[2] \in DOMAIN msgs' \ DOMAIN msgs /\ q[2] \notin astray' =>
            Same(q[3], msgs'[q[2]])
      BY <1>3, <1>5, <1>6, <2>1 DEF Agree
    <2>4. ASSUME q[1] = "index", q[2] \notin adrift', Unwritten(q[2])
          PROVE  index'[q[2]] = index[q[2]] /\ Unwritten(q[2])'
      <3>1. q[2] \in Key
        BY <2>1, <2>4 DEF Request
      <3>2. ~(r[1] = "index" /\ q[2] = k)
        BY <1>3, <1>5, <2>1, <2>4 DEF Agree
      <3>3. index'[q[2]] = index[q[2]]
        BY <1>6, <3>1, <3>2
      <3> QED
        BY <1>5, <2>4, <3>3 DEF Unwritten, Writes
    <2>5. RequestOK(q)'
      BY <1>1, <1>8, <2>1, <2>3, <2>4, RequestStays
    <2> QED
      BY <2>2, <2>5
  <1>15. SavedOrSaving'
    <2> SUFFICES ASSUME NEW m \in DOMAIN msgs' \ cut' PROVE Indexed(m)' \/ Saving(m)'
      BY DEF SavedOrSaving
    <2>1. m \in DOMAIN msgs
      BY <1>4, <1>5, <1>6 DEF LeftStoreOK
    <2>2. Indexed(m) \/ Saving(m)
      BY <1>1, <1>5, <2>1 DEF SavedOrSaving
    <2>3. Saving(m) => Saving(m)'
      BY <1>5 DEF Saving, Stored
    <2> QED
      BY <1>1, <1>8, <2>1, <2>2, <2>3, IndexedStays
  <1> QED
    BY <1>8, <1>10, <1>11, <1>12, <1>13, <1>14, <1>15 DEF MsgBaseInv

-----------------------------------------------------------------------------
(* The theorems.                                                              *)

\* The initial states satisfy the invariant.
LEMMA MsgBaseInit == MsgBaseAssumption /\ Init => MsgBaseInv
  <1> SUFFICES ASSUME MsgBaseAssumption, Init PROVE MsgBaseInv
    OBVIOUS
  <1>1. DOMAIN msgs = {} /\ msgs \in [{} -> Msg] /\ << >> \in Seq(Save) /\ Len(<< >>) = 0
    BY DEF Init
  <1>2. TypeOK
    BY <1>1 DEF Init, TypeOK, MsgBaseAssumption
  <1>3. \A s \in Session : 1 .. Len(saves[s]) = {}
    BY <1>1 DEF Init
  <1>4. 0 \in 0 .. MaxMsgs /\ 0 .. 0 - 1 = {}
    BY DEF MsgBaseAssumption
  <1>5. NumbersDense
    BY <1>1, <1>4 DEF NumbersDense
  <1>6. LeftOK /\ AstrayCut /\ ListedExist
    BY <1>1 DEF Init, LeftOK, AstrayCut, ListedExist
  <1> QED
    BY <1>1, <1>2, <1>3, <1>5, <1>6
       DEF MsgBaseInv, SavesOK, LocksExclude, ParentsStored, ChildrenAreReplies, SavedOrSaving,
           Init

\* Every step keeps it, and what is recorded of the messages.
LEMMA MsgBaseNext ==
  ASSUME MsgBaseAssumption, SharedLocks, MsgBaseInv, [Next]_vars
  PROVE  MsgBaseInv' /\ Kept
  <1>1. ASSUME NEW s \in Session, SaveStep(s) PROVE MsgBaseInv' /\ Kept
    <2>1. CASE Number(s)
      BY <2>1, NumberKeeps
    <2>2. CASE Store(s)
      BY <2>2, StoreKeeps
    <2>3. CASE ReadTags(s)
      <3>1. PICK keys : keys = Key \ User /\ ReadIndex(s, "tags", keys, "read tags", "write tags")
        BY <2>3 DEF ReadTags
      <3> QED
        BY <3>1, ReadKeeps
    <2>4. CASE WriteTags(s)
      BY <2>4, WriteTagsKeeps
    <2>5. CASE SaveParent(s)
      BY <2>5, SaveParentKeeps
    <2>6. CASE NoParent(s)
      BY <2>6, NoParentKeeps
    <2>7. CASE ReadPriv(s)
      <3>1. PICK keys : /\ keys = {Top(s).msg.to}
                        /\ ReadIndex(s, "privmsg", keys, "read priv", "write priv")
        BY <2>7 DEF ReadPriv
      <3> QED
        BY <3>1, ReadKeeps
    <2>8. CASE WritePriv(s)
      BY <2>8, WritePrivKeeps
    <2>9. CASE SaveForNetwork(s)
      BY <2>9, SaveForNetworkKeeps
    <2>10. CASE StoredForNetwork(s)
      BY <2>10, StoredForNetworkKeeps
    <2>11. CASE Return(s)
      BY <2>11, ReturnNoneKeeps
    <2> QED
      BY <1>1, <2>1, <2>2, <2>3, <2>4, <2>5, <2>6, <2>7, <2>8, <2>9, <2>10, <2>11 DEF SaveStep
  <1>2. ASSUME NEW s \in Session, Disconnect(s) PROVE MsgBaseInv' /\ Kept
    BY <1>2, DisconnectKeeps
  <1>3. ASSUME NEW s \in Session, NEW tags \in Posts, NEW to \in User,
               NEW parent \in Num \cup {None}, Post(s, tags, to, parent)
        PROVE  MsgBaseInv' /\ Kept
    BY <1>3, PostKeeps
  <1>4. CASE UNCHANGED vars
    <2>1. Kept
      BY <1>4, KeptUnchanged DEF vars
    <2>2. TypeOK' /\ LocksExclude' /\ AstrayCut' /\ ListedExist'
      BY <1>4 DEF vars, MsgBaseInv, TypeOK, LocksExclude, AstrayCut, ListedExist
    <2>3. SavesOK'
      <3>1. ASSUME NEW s \in Session, NEW i \in 1 .. Len(saves[s])
            PROVE  SaveOK(s, saves[s][i])' /\ (i < Len(saves[s]) => Waits(saves[s][i]))
        <4>1. PICK save : save = saves[s][i]
          OBVIOUS
        <4>2. SaveOK(s, save) /\ (i < Len(saves[s]) => Waits(save))
          BY <4>1 DEF MsgBaseInv, SavesOK
        <4>3. Undisturbed(s, save)
          BY <1>4, <4>2 DEF vars, Undisturbed, SaveOK, StoreOK, SeenOK, LeftFor
        <4>4. SaveOK(s, save)'
          BY <2>1, <4>2, <4>3, EntryStays
        <4>5. save = saves'[s][i]
          BY <1>4, <4>1 DEF vars
        <4> QED
          BY <4>1, <4>2, <4>4, <4>5
      <3>2. saves' = saves
        BY <1>4 DEF vars
      <3> QED
        BY <3>1, <3>2 DEF SavesOK
    <2>4. NumbersDense' /\ ParentsStored' /\ ChildrenAreReplies'
      BY <1>4, <2>1, NoneStored DEF vars
    <2>5. SavedOrSaving'
      BY <1>4 DEF vars, MsgBaseInv, SavedOrSaving, Indexed, Saving, Stored
    <2>6. LeftOK'
      <3>1. /\ left' = left /\ UNCHANGED msgs
            /\ \A k : Unwritten(k) => index'[k] = index[k] /\ Unwritten(k)'
        BY <1>4 DEF vars, Unwritten, Writes
      <3> QED
        BY <2>1, <3>1, LeftStays
    <2> QED
      BY <2>1, <2>2, <2>3, <2>4, <2>5, <2>6 DEF MsgBaseInv
  <1>5. ASSUME NEW r \in left, Execute(r) PROVE MsgBaseInv' /\ Kept
    BY <1>5, ExecuteKeeps
  <1> QED
    BY <1>1, <1>2, <1>3, <1>4, <1>5 DEF Next, Finished

\* A number is one message's for ever: no session stores its message over another's
\* (msgbase.py:155, max(keys) + 1 under the lock of 'msgbase'), whatever the others save
\* and wherever they are disconnected; but for the numbers that were taken while a
\* message of a session that had gone was on its way to the database (dbproxy.py:90).
THEOREM NumbersAreUnique ==
  ASSUME MsgBaseAssumption, SharedLocks
  PROVE  Spec => NumbersUnique
  <1>1. Init => MsgBaseInv
    BY MsgBaseInit
  <1>2. MsgBaseInv /\ [Next]_vars => MsgBaseInv'
    BY MsgBaseNext
  <1>3. MsgBaseInv /\ [Next]_vars => [KeepsNumbers]_vars
    BY MsgBaseNext DEF KeepsNumbers, Kept, Same
  <1> QED
    BY <1>1, <1>2, <1>3, PTL DEF Spec, NumbersUnique

\* What a message has as children are replies to it (msgbase.py:172-186), also when the
\* engine stores it late, for a session that was disconnected; but for the children whose
\* number went astray.
THEOREM ChildrenAreOnlyReplies ==
  ASSUME MsgBaseAssumption, SharedLocks
  PROVE  Spec => []ChildrenAreReplies
  <1>1. Init => MsgBaseInv
    BY MsgBaseInit
  <1>2. MsgBaseInv /\ [Next]_vars => MsgBaseInv'
    BY MsgBaseNext
  <1>3. MsgBaseInv => ChildrenAreReplies
    BY DEF MsgBaseInv
  <1> QED
    BY <1>1, <1>2, <1>3, PTL DEF Spec

\* An index and a network have no number without its message (msgbase.py:153-250).
THEOREM ListedAreStored ==
  ASSUME MsgBaseAssumption, SharedLocks
  PROVE  Spec => []ListedExist
  <1>1. Init => MsgBaseInv
    BY MsgBaseInit
  <1>2. MsgBaseInv /\ [Next]_vars => MsgBaseInv'
    BY MsgBaseNext
  <1>3. MsgBaseInv => ListedExist
    BY DEF MsgBaseInv
  <1> QED
    BY <1>1, <1>2, <1>3, PTL DEF Spec

\* When nobody is saving, what no save() that was cut short made is indexed.
LEMMA IndexIsComplete == MsgBaseInv => IndexComplete
  <1> SUFFICES ASSUME MsgBaseInv, \A s \in Session : saves[s] = << >>,
                      NEW n \in DOMAIN msgs \ cut
               PROVE  Indexed(n)
    BY DEF IndexComplete
  <1>1. Indexed(n) \/ Saving(n)
    BY DEF MsgBaseInv, SavedOrSaving
  <1>2. ASSUME Saving(n) PROVE FALSE
    <2>1. PICK s \in Session : \E i \in 1 .. Len(saves[s]) : saves[s][i].num = n
      BY <1>2 DEF Saving
    <2> QED
      BY <2>1
  <1> QED
    BY <1>1, <1>2

\* When nobody is saving, each message whose own save() was not cut short is under its tags
\* and no others, at its recipient's, and recorded for its networks (msgbase.py:146-250),
\* whoever was disconnected meanwhile and whatever the engine still executed for them; but
\* for the keys that were read while such a write of them was on its way.
THEOREM IndexesAreComplete ==
  ASSUME MsgBaseAssumption, SharedLocks
  PROVE  Spec => []IndexComplete
  <1>1. Init => MsgBaseInv
    BY MsgBaseInit
  <1>2. MsgBaseInv /\ [Next]_vars => MsgBaseInv'
    BY MsgBaseNext
  <1> QED
    BY <1>1, <1>2, IndexIsComplete, PTL DEF Spec

-----------------------------------------------------------------------------
(* Accounts.                                                                  *)

CopyNames == {"own", "tgt"}
Steps     == {"save_user", "save_groups", "delete_groups", "delete_user"}
IsCopy(c) == c = [handle |-> c.handle, groups |-> c.groups]
IsStep(d) == /\ d = [step |-> d.step, copy |-> d.copy] /\ d.copy \in CopyNames
             /\ d = U!Idle \/ d.step \in Steps

AccountsType ==
  /\ members = [g \in Group |-> members[g]]
  /\ script = [s \in Session |-> script[s]]
  /\ db = [s \in Session |-> db[s]]
  /\ own = [s \in Session |-> own[s]]
  /\ tgt = [s \in Session |-> tgt[s]]
  /\ \A s \in Session : IsCopy(own[s]) /\ IsCopy(tgt[s]) /\ IsStep(db[s])

\* A session saves or deletes a copy that is not stale, or one that is: what that leaves in
\* the databases counts for nothing.
Fresh(s, c) == <<s, c>> \notin stale
Makes(s, step, h) ==
  /\ db[s].step = step
  /\ U!CopyOf(s, db[s].copy).handle = h
  /\ Fresh(s, db[s].copy)
Doomed(h) ==
  \E s \in Session : /\ db[s].step # "none"
                     /\ U!CopyOf(s, db[s].copy).handle = h
                     /\ ~Fresh(s, db[s].copy)

Agrees(h) == \A g \in Group : h \in members[g] <=> h \in DOMAIN users /\ g \in users[h]
IsRecord(c) == c.handle \in DOMAIN users /\ users[c.handle] = c.groups

\* The databases agree on whom nobody is half-way with,
HalfWay ==
  \A h \in Handle \ tainted :
    Agrees(h) \/ Doomed(h)
      \/ \E s \in Session : Makes(s, "save_groups", h) \/ Makes(s, "delete_user", h)

\* whose groups are to be saved is saved,
Saved ==
  \A s \in Session : db[s].step = "save_groups" /\ Fresh(s, db[s].copy)
    => IsRecord(U!CopyOf(s, db[s].copy))

\* who is to be deleted is in no group,
Removed ==
  \A s \in Session : \A h \in Handle \ tainted :
    Makes(s, "delete_user", h) => Doomed(h) \/ \A g \in Group : h \notin members[g]

\* one session is half-way with a user,
OneAtATime ==
  \A s, t \in Session : \A h : s # t
    => ~ (/\ Makes(s, "save_groups", h) \/ Makes(s, "delete_user", h)
          /\ Makes(t, "save_groups", h) \/ Makes(t, "delete_user", h))

\* and a copy that main and profile work with is the record, but for one that is to be saved.
InUse(s, c) ==
  /\ script[s] = "profile" \/ (c = "own" /\ script[s] = "main")
  /\ U!CopyOf(s, c).handle # U!Anonymous
  /\ c = "tgt" => tgt[s].handle # U!Nobody
Loaded(s) ==
  \A c \in CopyNames :
    InUse(s, c) /\ Fresh(s, c) /\ ~(db[s].step = "save_user" /\ db[s].copy = c)
      => IsRecord(U!CopyOf(s, c))
Deletes(s) == db[s].step \in {"delete_groups", "delete_user"} => InUse(s, db[s].copy)

AccountsInv ==
  /\ AccountsType
  /\ HalfWay /\ Saved /\ Removed /\ OneAtATime
  /\ \A s \in Session : Loaded(s) /\ Deletes(s)

\* What the other sessions have is not touched by a step of s.
OthersKeep(s) ==
  \A t \in Session \ {s} :
    /\ own'[t] = own[t] /\ tgt'[t] = tgt[t] /\ db'[t] = db[t] /\ script'[t] = script[t]

LEMMA OtherCopiesStay ==
  ASSUME NEW s \in Session, OthersKeep(s), NEW t \in Session, t # s
  PROVE  /\ own'[t] = own[t] /\ tgt'[t] = tgt[t] /\ db'[t] = db[t] /\ script'[t] = script[t]
         /\ \A c : U!CopyOf(t, c)' = U!CopyOf(t, c)
         /\ \A c : InUse(t, c)' = InUse(t, c)
         /\ db'[t].step = db[t].step /\ db'[t].copy = db[t].copy
  BY DEF OthersKeep, U!CopyOf, InUse

LEMMA AccountsInit == U!Init => AccountsInv
  <1> SUFFICES ASSUME U!Init PROVE AccountsInv
    OBVIOUS
  <1>1. /\ members = [g \in Group |-> {}] /\ DOMAIN users = {}
        /\ script = [s \in Session |-> "gone"]
        /\ db = [s \in Session |-> U!Idle]
        /\ own = [s \in Session |-> U!NoCopy] /\ tgt = [s \in Session |-> U!NoCopy]
    BY DEF U!Init
  <1>2. \A s \in Session : db[s].step = "none" /\ script[s] = "gone"
    BY <1>1 DEF U!Idle
  <1>3. AccountsType
    BY <1>1 DEF AccountsType, IsCopy, IsStep, CopyNames, U!NoCopy, U!Idle
  <1>4. \A h : Agrees(h)
    BY <1>1 DEF Agrees
  <1>5. HalfWay /\ Saved /\ Removed /\ OneAtATime
    BY <1>2, <1>4 DEF HalfWay, Saved, Removed, OneAtATime, Makes
  <1>6. \A s \in Session : Loaded(s) /\ Deletes(s)
    BY <1>2 DEF Loaded, Deletes, InUse
  <1> QED
    BY <1>3, <1>5, <1>6 DEF AccountsInv

\* A step of a session that is not half-way with anybody, nor then.
LEMMA QuietStep ==
  ASSUME AccountsInv, NEW s \in Session, db[s] = U!Idle, OthersKeep(s), AccountsType',
         users' = users, members' = members, tainted' = tainted,
         \A t \in Session \ {s} : \A c \in CopyNames : Fresh(t, c)' <=> Fresh(t, c),
         db'[s].step \notin {"save_groups", "delete_user"},
         Loaded(s)', Deletes(s)'
  PROVE  AccountsInv'
  <1>0. db[s].step = "none"
    BY DEF U!Idle
  <1>1. \A t \in Session \ {s} : \A h, step : Makes(t, step, h)' <=> Makes(t, step, h)
    <2> SUFFICES ASSUME NEW t \in Session, t # s, NEW h, NEW step
                 PROVE  Makes(t, step, h)' <=> Makes(t, step, h)
      OBVIOUS
    <2>1. db[t].copy \in CopyNames
      BY DEF AccountsInv, AccountsType, IsStep
    <2>2. Fresh(t, db[t].copy)' <=> Fresh(t, db[t].copy)
      BY <2>1, OtherCopiesStay
    <2> QED
      BY <2>2, OtherCopiesStay DEF Makes
  <1>2. ASSUME NEW h, Doomed(h) PROVE Doomed(h)'
    <2>1. PICK t \in Session : /\ db[t].step # "none"
                               /\ U!CopyOf(t, db[t].copy).handle = h
                               /\ ~Fresh(t, db[t].copy)
      BY <1>2 DEF Doomed
    <2>2. t # s
      BY <1>0, <2>1
    <2>3. db[t].copy \in CopyNames
      BY DEF AccountsInv, AccountsType, IsStep
    <2>4. ~Fresh(t, db[t].copy)'
      BY <2>1, <2>2, <2>3, OtherCopiesStay
    <2> QED
      BY <2>1, <2>2, <2>4, OtherCopiesStay DEF Doomed
  <1>3. \A h : /\ ~Makes(s, "save_groups", h) /\ ~Makes(s, "delete_user", h)
               /\ ~Makes(s, "save_groups", h)' /\ ~Makes(s, "delete_user", h)'
    BY <1>0 DEF Makes
  <1>4. \A h : Agrees(h)' <=> Agrees(h)
    BY DEF Agrees
  <1>5. HalfWay'
    BY <1>1, <1>2, <1>3, <1>4 DEF AccountsInv, HalfWay
  <1>6. Saved'
    <2> SUFFICES ASSUME NEW t \in Session, db'[t].step = "save_groups", Fresh(t, db[t].copy)'
                 PROVE  IsRecord(U!CopyOf(t, db[t].copy))'
      BY DEF Saved
    <2>1. t # s
      OBVIOUS
    <2>2. Fresh(t, db[t].copy)
      <3>1. db[t].copy \in CopyNames
        BY DEF AccountsInv, AccountsType, IsStep
      <3> QED
        BY <2>1, <3>1, OtherCopiesStay
    <2>3. IsRecord(U!CopyOf(t, db[t].copy))
      BY <2>1, <2>2, OtherCopiesStay DEF AccountsInv, Saved
    <2> QED
      BY <2>1, <2>3, OtherCopiesStay DEF IsRecord
  <1>7. Removed'
    BY <1>1, <1>2, <1>3 DEF AccountsInv, Removed
  <1>8. OneAtATime'
    BY <1>1, <1>3 DEF AccountsInv, OneAtATime
  <1>9. ASSUME NEW t \in Session PROVE Loaded(t)' /\ Deletes(t)'
    <2>1. CASE t = s
      BY <2>1
    <2>2. CASE t # s
      <3>1. Loaded(t) /\ Deletes(t)
        BY DEF AccountsInv
      <3>2. Loaded(t)'
        BY <2>2, <3>1, OtherCopiesStay DEF Loaded, IsRecord
      <3>3. Deletes(t)'
        BY <2>2, <3>1, OtherCopiesStay DEF Deletes
      <3> QED
        BY <3>2, <3>3
    <2> QED
      BY <2>1, <2>2
  <1> QED
    BY <1>5, <1>6, <1>7, <1>8, <1>9 DEF AccountsInv

\* What a step of a session may do to its own
CopiesOf(s) ==
  /\ own' = own \/ \E c : IsCopy(c) /\ own' = [own EXCEPT ![s] = c]
  /\ tgt' = tgt \/ \E c : IsCopy(c) /\ tgt' = [tgt EXCEPT ![s] = c]
AccountStepOf(s, d) == IsStep(d) /\ db' = [db EXCEPT ![s] = d]
PlaceOf(s, place) == script' = [script EXCEPT ![s] = place]
StaleOf(s) ==
  \/ stale' = stale
  \/ \E c : stale' = stale \ {<<s, c>>}
  \/ stale' = {o \in stale : o[1] # s}

LEMMA StaleIs ==
  ASSUME NEW s \in Session, StaleOf(s), NEW t \in Session, t # s, NEW c
  PROVE  Fresh(t, c)' <=> Fresh(t, c)
  <1>1. CASE stale' = stale
    BY <1>1 DEF Fresh
  <1>2. ASSUME NEW d, stale' = stale \ {<<s, d>>} PROVE Fresh(t, c)' <=> Fresh(t, c)
    BY <1>2 DEF Fresh
  <1>3. CASE stale' = {o \in stale : o[1] # s}
    BY <1>3 DEF Fresh
  <1> QED
    BY <1>1, <1>2, <1>3 DEF StaleOf

LEMMA StepIs ==
  ASSUME AccountsType, NEW s \in Session, CopiesOf(s),
         NEW d, AccountStepOf(s, d) \/ (db' = db /\ d = db[s]),
         NEW place, PlaceOf(s, place) \/ (script' = script /\ place = script[s]),
         members' = [g \in Group |-> members'[g]]
  PROVE  AccountsType' /\ OthersKeep(s) /\ db'[s] = d /\ script'[s] = place
  <1>1. /\ own' = [x \in Session |-> own'[x]] /\ tgt' = [x \in Session |-> tgt'[x]]
        /\ \A x \in Session : IsCopy(own'[x]) /\ IsCopy(tgt'[x])
        /\ \A x \in Session \ {s} : own'[x] = own[x] /\ tgt'[x] = tgt[x]
    BY DEF AccountsType, CopiesOf
  <1>2. /\ db' = [x \in Session |-> db'[x]] /\ \A x \in Session : IsStep(db'[x])
        /\ \A x \in Session \ {s} : db'[x] = db[x]
        /\ db'[s] = d
    BY DEF AccountsType, AccountStepOf
  <1>3. /\ script' = [x \in Session |-> script'[x]]
        /\ \A x \in Session \ {s} : script'[x] = script[x]
        /\ script'[s] = place
    BY DEF AccountsType, PlaceOf
  <1> QED
    BY <1>1, <1>2, <1>3 DEF AccountsType, OthersKeep, IsCopy, IsStep

\* What is read, and made, is a copy of a record.
LEMMA Copies ==
  /\ IsCopy(U!NoCopy)
  /\ \A h : IsCopy(U!Record(h)) /\ IsCopy([handle |-> h, groups |-> {}])
  /\ \A h : [U!Anon EXCEPT !.handle = h] = [handle |-> h, groups |-> {}]
  BY DEF IsCopy, U!NoCopy, U!Record, U!Anon

LEMMA StepsAre ==
  /\ IsStep(U!Idle) /\ U!Idle.step = "none"
  /\ \A step \in Steps, c \in CopyNames :
       /\ IsStep([step |-> step, copy |-> c])
  BY DEF IsStep, U!Idle, CopyNames

\* A session that is neither in main nor in profile
LEMMA OutsideStep ==
  ASSUME AccountsInv, NEW s \in Session, db[s] = U!Idle,
         users' = users, members' = members, tainted' = tainted, StaleOf(s), CopiesOf(s),
         NEW d, AccountStepOf(s, d) \/ (db' = db /\ d = db[s]), d.step \in {"none", "save_user"},
         NEW place, PlaceOf(s, place) \/ (script' = script /\ place = script[s]),
         place \notin {"main", "profile"}
  PROVE  AccountsInv'
  <1>1. AccountsType' /\ OthersKeep(s) /\ db'[s] = d /\ script'[s] = place
    BY StepIs DEF AccountsInv, AccountsType
  <1>2. Loaded(s)' /\ Deletes(s)'
    BY <1>1 DEF Loaded, Deletes, InUse
  <1>3. \A t \in Session \ {s} : \A c \in CopyNames : Fresh(t, c)' <=> Fresh(t, c)
    BY StaleIs
  <1> QED
    BY <1>1, <1>2, <1>3, QuietStep

\* Where a script goes on, and what it reads
LEMMA StepGoesOn ==
  ASSUME NEW s \in Session, NEW place
  PROVE  /\ U!Go(s, place) => PlaceOf(s, place) /\ AccountStepOf(s, U!Idle)
         /\ \A step \in Steps, c \in CopyNames :
              U!Do(s, step, c, place) =>
                PlaceOf(s, place) /\ AccountStepOf(s, [step |-> step, copy |-> c])
         /\ \A c \in CopyNames : U!SaveThen(s, c, place) =>
              PlaceOf(s, place) /\ AccountStepOf(s, [step |-> "save_user", copy |-> c])
  BY StepsAre DEF U!Go, U!Do, U!SaveThen, PlaceOf, AccountStepOf, Steps

LEMMA Unread ==
  ASSUME NEW s \in Session, own' = own, tgt' = tgt, stale' = stale
  PROVE  CopiesOf(s) /\ StaleOf(s)
  BY DEF CopiesOf, StaleOf

LEMMA ReadIs ==
  ASSUME NEW s \in Session, NEW c \in CopyNames, NEW x, IsCopy(x), U!Read(s, c, x)
  PROVE  /\ CopiesOf(s) /\ StaleOf(s)
         /\ stale' = stale \ {<<s, c>>}
         /\ c = "own" => own' = [own EXCEPT ![s] = x] /\ tgt' = tgt
         /\ c = "tgt" => tgt' = [tgt EXCEPT ![s] = x] /\ own' = own
  BY DEF U!Read, CopiesOf, StaleOf, CopyNames

\* nua, pwreset and the login prompt
LEMMA LoginSteps ==
  ASSUME AccountsInv, NEW s \in Session,
         \/ U!Connect(s) \/ U!LoginFails(s) \/ (\E h \in Handle \cup {U!Anonymous} : U!LogIn(s, h))
         \/ U!Apply(s) \/ (\E h \in Handle : U!EnterHandle(s, h)) \/ U!EnterField(s)
         \/ U!EnterAgainFails(s) \/ U!CancelNua(s) \/ U!Confirm(s) \/ U!ForgetPassword(s)
         \/ U!EmailFails(s) \/ (\E h \in Handle : U!EmailMatches(s, h)) \/ U!CancelReset(s)
         \/ U!PasskeyFails(s) \/ U!Reset(s)
  PROVE  AccountsInv'
  <1> DEFINE d0 == U!Idle
             d1 == [step |-> "save_user", copy |-> "own"]
  <1>0. /\ d0.step \in {"none", "save_user"} /\ d1.step \in {"none", "save_user"}
        /\ db[s] = U!Idle => db[s].step \in {"none", "save_user"}
    BY DEF U!Idle
  <1>c. "own" \in CopyNames /\ "tgt" \in CopyNames /\ "save_user" \in Steps
    BY DEF CopyNames, Steps
  <1>n. IsCopy(U!NoCopy)
    BY Copies
  <1>1. CASE U!Connect(s)
    <2>1. /\ db[s] = U!Idle /\ users' = users /\ members' = members /\ tainted' = tainted
          /\ U!Go(s, "matrix")
          /\ own' = [own EXCEPT ![s] = U!NoCopy] /\ tgt' = [tgt EXCEPT ![s] = U!NoCopy]
          /\ stale' = {o \in stale : o[1] # s}
      BY <1>1 DEF U!Connect, U!In
    <2>2. CopiesOf(s) /\ StaleOf(s)
      BY <1>n, <2>1 DEF CopiesOf, StaleOf
    <2>3. AccountStepOf(s, d0) /\ PlaceOf(s, "matrix")
      BY <2>1, StepGoesOn
    <2> HIDE DEF d0, d1
    <2> QED
      BY <1>0, <2>1, <2>2, <2>3, OutsideStep
  <1>2. CASE U!LoginFails(s) \/ U!ForgetPassword(s)
    <2>1. /\ db[s] = U!Idle /\ users' = users /\ members' = members /\ tainted' = tainted
          /\ own' = own /\ tgt' = tgt /\ stale' = stale
          /\ \E place \in {"gone", "matrix", "reset"} : U!Go(s, place)
      BY <1>2 DEF U!LoginFails, U!ForgetPassword, U!In, U!NextRound
    <2>2. PICK place \in {"gone", "matrix", "reset"} : U!Go(s, place)
      BY <2>1
    <2>3. AccountStepOf(s, d0) /\ PlaceOf(s, place)
      BY <2>2, StepGoesOn
    <2>4. CopiesOf(s) /\ StaleOf(s)
      BY <2>1, Unread
    <2> HIDE DEF d0, d1
    <2> QED
      BY <1>0, <2>1, <2>3, <2>4, OutsideStep
  <1>3. ASSUME NEW h \in Handle \cup {U!Anonymous}, U!LogIn(s, h) PROVE AccountsInv'
    <2>1. /\ db[s] = U!Idle /\ users' = users /\ members' = members /\ tainted' = tainted
          /\ U!Go(s, "top") /\ tgt' = tgt /\ stale' = stale \ {<<s, "own">>}
          /\ own' = [own EXCEPT ![s] = [U!Anon EXCEPT !.handle = h]]
      BY <1>3 DEF U!LogIn, U!In
    <2>2. IsCopy([U!Anon EXCEPT !.handle = h])
      BY Copies
    <2>3. CopiesOf(s) /\ StaleOf(s)
      BY <2>1, <2>2 DEF CopiesOf, StaleOf
    <2>4. AccountStepOf(s, d0) /\ PlaceOf(s, "top")
      BY <2>1, StepGoesOn
    <2> HIDE DEF d0, d1
    <2> QED
      BY <1>0, <2>1, <2>3, <2>4, OutsideStep
  <1>4. CASE U!Apply(s)
    <2>1. /\ db[s] = U!Idle /\ users' = users /\ members' = members /\ tainted' = tainted
          /\ U!Go(s, "nua") /\ U!Read(s, "own", U!NoCopy)
      BY <1>4 DEF U!Apply, U!In
    <2>2. CopiesOf(s) /\ StaleOf(s)
      BY <1>c, <1>n, <2>1, ReadIs
    <2>3. AccountStepOf(s, d0) /\ PlaceOf(s, "nua")
      BY <2>1, StepGoesOn
    <2> HIDE DEF d0, d1
    <2> QED
      BY <1>0, <2>1, <2>2, <2>3, OutsideStep
  <1>5. ASSUME NEW h \in Handle, U!EnterHandle(s, h) PROVE AccountsInv'
    <2>1. /\ db[s] = U!Idle /\ users' = users /\ members' = members /\ tainted' = tainted
          /\ script' = script /\ db' = db /\ script[s] = "nua"
          /\ U!Read(s, "own", [handle |-> h, groups |-> {}])
      BY <1>5 DEF U!EnterHandle, U!In
    <2>2. CopiesOf(s) /\ StaleOf(s)
      <3>1. IsCopy([handle |-> h, groups |-> {}])
        BY Copies
      <3> QED
        BY <1>c, <2>1, <3>1, ReadIs
    <2> HIDE DEF d0, d1
    <2> QED
      BY <1>0, <2>1, <2>2, OutsideStep
  <1>6. CASE U!EnterField(s) \/ U!EnterAgainFails(s)
    <2>1. /\ db[s] = U!Idle /\ users' = users /\ members' = members /\ tainted' = tainted
          /\ script' = script /\ db' = db /\ script[s] = "nua"
          /\ own' = own /\ tgt' = tgt /\ stale' = stale
      BY <1>6 DEF U!EnterField, U!EnterAgainFails, U!In
    <2>2. CopiesOf(s) /\ StaleOf(s)
      BY <2>1, Unread
    <2> HIDE DEF d0, d1
    <2> QED
      BY <1>0, <2>1, <2>2, OutsideStep
  <1>7. ASSUME U!Returned(s), db[s] = U!Idle, users' = users, members' = members,
               tainted' = tainted
        PROVE  AccountsInv'
    <2>1. /\ U!Read(s, "own", U!NoCopy)
          /\ \E place \in {"gone", "matrix"} : U!Go(s, place)
      BY <1>7 DEF U!Returned, U!NextRound
    <2>2. CopiesOf(s) /\ StaleOf(s)
      BY <1>c, <1>n, <2>1, ReadIs
    <2>3. PICK place \in {"gone", "matrix"} : U!Go(s, place)
      BY <2>1
    <2>4. AccountStepOf(s, d0) /\ PlaceOf(s, place)
      BY <2>3, StepGoesOn
    <2> HIDE DEF d0, d1
    <2> QED
      BY <1>0, <1>7, <2>2, <2>4, OutsideStep
  <1>8. CASE U!CancelNua(s) \/ U!CancelReset(s)
    <2>1. /\ db[s] = U!Idle /\ users' = users /\ members' = members /\ tainted' = tainted
          /\ U!Returned(s)
      BY <1>8 DEF U!CancelNua, U!CancelReset, U!In
    <2> QED
      BY <1>7, <2>1
  <1>9. CASE U!Confirm(s)
    <2>1. /\ db[s] = U!Idle /\ users' = users /\ members' = members /\ tainted' = tainted
          /\ own' = own /\ tgt' = tgt /\ stale' = stale /\ script[s] = "nua"
          /\ \/ script' = script /\ db' = db
             \/ U!SaveThen(s, "own", "top")
             \/ U!Go(s, "matrix")
      BY <1>9 DEF U!Confirm, U!In
    <2>2. CopiesOf(s) /\ StaleOf(s)
      BY <2>1, Unread
    <2>3. U!SaveThen(s, "own", "top") => AccountStepOf(s, d1) /\ PlaceOf(s, "top")
      BY <1>c, StepGoesOn
    <2>4. U!Go(s, "matrix") => AccountStepOf(s, d0) /\ PlaceOf(s, "matrix")
      BY StepGoesOn
    <2> HIDE DEF d0, d1
    <2>5. CASE script' = script /\ db' = db
      BY <1>0, <2>1, <2>2, <2>5, OutsideStep
    <2>6. CASE AccountStepOf(s, d1) /\ PlaceOf(s, "top")
      BY <1>0, <2>1, <2>2, <2>6, OutsideStep
    <2>7. CASE AccountStepOf(s, d0) /\ PlaceOf(s, "matrix")
      BY <1>0, <2>1, <2>2, <2>7, OutsideStep
    <2> QED
      BY <2>1, <2>3, <2>4, <2>5, <2>6, <2>7
  <1>10. CASE U!EmailFails(s) \/ U!PasskeyFails(s)
    <2>1. /\ db[s] = U!Idle /\ users' = users /\ members' = members /\ tainted' = tainted
          /\ \/ U!Returned(s)
             \/ /\ own' = own /\ tgt' = tgt /\ stale' = stale
                /\ \E place \in {"reset", "passkey"} : U!Go(s, place)
      BY <1>10 DEF U!EmailFails, U!PasskeyFails, U!ResetGoesOn, U!In
    <2>2. ASSUME NEW place \in {"reset", "passkey"}, U!Go(s, place),
                 own' = own, tgt' = tgt, stale' = stale
          PROVE  AccountsInv'
      <3>1. CopiesOf(s) /\ StaleOf(s)
        BY <2>2, Unread
      <3>2. AccountStepOf(s, d0) /\ PlaceOf(s, place)
        BY <2>2, StepGoesOn
      <3> HIDE DEF d0, d1
      <3> QED
        BY <1>0, <2>1, <3>1, <3>2, OutsideStep
    <2> QED
      BY <1>7, <2>1, <2>2
  <1>11. ASSUME NEW h \in Handle, U!EmailMatches(s, h) PROVE AccountsInv'
    <2>1. /\ db[s] = U!Idle /\ users' = users /\ members' = members /\ tainted' = tainted
          /\ U!Go(s, "passkey") /\ U!Read(s, "own", U!Record(h))
      BY <1>11 DEF U!EmailMatches, U!In
    <2>2. CopiesOf(s) /\ StaleOf(s)
      <3>1. IsCopy(U!Record(h))
        BY Copies
      <3> QED
        BY <1>c, <2>1, <3>1, ReadIs
    <2>3. AccountStepOf(s, d0) /\ PlaceOf(s, "passkey")
      BY <2>1, StepGoesOn
    <2> HIDE DEF d0, d1
    <2> QED
      BY <1>0, <2>1, <2>2, <2>3, OutsideStep
  <1>12. CASE U!Reset(s)
    <2>1. /\ db[s] = U!Idle /\ users' = users /\ members' = members /\ tainted' = tainted
          /\ own' = own /\ tgt' = tgt /\ stale' = stale
          /\ \E place \in {"gone", "matrix"} : U!SaveThen(s, "own", place)
      BY <1>12 DEF U!Reset, U!In
    <2>2. PICK place \in {"gone", "matrix"} : U!SaveThen(s, "own", place)
      BY <2>1
    <2>3. AccountStepOf(s, d1) /\ PlaceOf(s, place)
      BY <1>c, <2>2, StepGoesOn
    <2>4. CopiesOf(s) /\ StaleOf(s)
      BY <2>1, Unread
    <2> HIDE DEF d0, d1
    <2> QED
      BY <1>0, <2>1, <2>3, <2>4, OutsideStep
  <1> QED
    BY <1>1, <1>2, <1>3, <1>4, <1>5, <1>6, <1>8, <1>9, <1>10, <1>11, <1>12

\* A step of a session in main or profile that is not half-way with anybody
LEMMA InsideStep ==
  ASSUME AccountsInv, NEW s \in Session, db[s] = U!Idle,
         users' = users, members' = members, tainted' = tainted, StaleOf(s), CopiesOf(s),
         NEW d, AccountStepOf(s, d) \/ (db' = db /\ d = db[s]),
         d.step \notin {"save_groups", "delete_user"},
         NEW place, PlaceOf(s, place) \/ (script' = script /\ place = script[s]),
         AccountsType' /\ OthersKeep(s) /\ db'[s] = d /\ script'[s] = place
           => Loaded(s)' /\ Deletes(s)'
  PROVE  AccountsInv'
  <1>1. AccountsType' /\ OthersKeep(s) /\ db'[s] = d /\ script'[s] = place
    BY StepIs DEF AccountsInv, AccountsType
  <1>2. \A t \in Session \ {s} : \A c \in CopyNames : Fresh(t, c)' <=> Fresh(t, c)
    BY StaleIs
  <1> QED
    BY <1>1, <1>2, QuietStep

\* A session that is about to run a script reads its copy; one that leaves profile, or goes
\* there, has that of main.
LEMMA MainSteps ==
  ASSUME AccountsInv, NEW s \in Session,
         U!Top(s) \/ U!Profile(s) \/ U!Quit(s)
  PROVE  AccountsInv'
  <1>0. AccountsType /\ Loaded(s) /\ db[s].step = "none" /\ db[s] = U!Idle
        /\ own = [x \in Session |-> own[x]] /\ tgt = [x \in Session |-> tgt[x]]
    BY DEF AccountsInv, AccountsType, U!Top, U!Profile, U!Quit, U!In, U!Idle
  <1>c. "own" \in CopyNames /\ "tgt" \in CopyNames /\ "save_user" \in Steps
    BY DEF CopyNames, Steps
  <1>s. /\ users' = users /\ members' = members /\ tainted' = tainted
    BY DEF U!Top, U!Profile, U!Quit
  <1>d. U!Idle.step = "none"
    BY DEF U!Idle
  <1>1. CASE U!Top(s)
    <2> DEFINE h == own[s].handle
    <2>1. CASE h = U!Anonymous /\ U!Go(s, "main") /\ own' = own /\ tgt' = tgt /\ stale' = stale
      <3>1. AccountStepOf(s, U!Idle) /\ PlaceOf(s, "main") /\ CopiesOf(s) /\ StaleOf(s)
        BY <2>1, StepGoesOn, Unread
      <3>2. ASSUME db'[s] = U!Idle, script'[s] = "main" PROVE Loaded(s)' /\ Deletes(s)'
        BY <1>d, <2>1, <3>2 DEF Loaded, Deletes, InUse, CopyNames, U!CopyOf
      <3> QED
        BY <1>0, <1>d, <1>s, <3>1, <3>2, InsideStep
    <2>2. CASE U!Read(s, "own", U!Record(h)) /\ U!SaveThen(s, "own", "main")
      <3> DEFINE d == [step |-> "save_user", copy |-> "own"]
      <3>1. AccountStepOf(s, d) /\ PlaceOf(s, "main")
        BY <1>c, <2>2, StepGoesOn
      <3>2. CopiesOf(s) /\ StaleOf(s)
        BY <1>c, <2>2, Copies, ReadIs
      <3>3. ASSUME db'[s] = d, script'[s] = "main" PROVE Loaded(s)' /\ Deletes(s)'
        BY <3>3 DEF Loaded, Deletes, InUse, CopyNames
      <3>4. d.step \notin {"save_groups", "delete_user"}
        OBVIOUS
      <3> HIDE DEF d
      <3> QED
        BY <1>0, <1>s, <3>1, <3>2, <3>3, <3>4, InsideStep
    <2>3. CASE U!Go(s, "gone") /\ own' = own /\ tgt' = tgt /\ stale' = stale
      <3>1. AccountStepOf(s, U!Idle) /\ PlaceOf(s, "gone") /\ CopiesOf(s) /\ StaleOf(s)
        BY <2>3, StepGoesOn, Unread
      <3> QED
        BY <1>0, <1>d, <1>s, <3>1, OutsideStep
    <2> QED
      BY <1>1, <2>1, <2>2, <2>3 DEF U!Top
  <1>2. CASE U!Profile(s)
    <2>1. U!Go(s, "profile") /\ U!Read(s, "tgt", U!NoCopy) /\ script[s] = "main"
      BY <1>2 DEF U!Profile, U!In
    <2>2. AccountStepOf(s, U!Idle) /\ PlaceOf(s, "profile")
      BY <2>1, StepGoesOn
    <2>3. /\ CopiesOf(s) /\ StaleOf(s) /\ stale' = stale \ {<<s, "tgt">>}
          /\ tgt' = [tgt EXCEPT ![s] = U!NoCopy] /\ own' = own
      BY <1>c, <2>1, Copies, ReadIs
    <2>4. ASSUME db'[s] = U!Idle, script'[s] = "profile" PROVE Loaded(s)' /\ Deletes(s)'
      <3>1. tgt'[s].handle = U!Nobody
        BY <1>0, <2>3 DEF U!NoCopy
      <3>2. Fresh(s, "own")' => Fresh(s, "own")
        BY <2>3 DEF Fresh
      <3>3. InUse(s, "own")' => InUse(s, "own")
        BY <2>1, <2>3 DEF InUse, U!CopyOf
      <3>4. U!CopyOf(s, "own")' = U!CopyOf(s, "own")
        BY <2>3 DEF U!CopyOf
      <3>5. InUse(s, "own")' /\ Fresh(s, "own")' => IsRecord(U!CopyOf(s, "own"))'
        BY <1>0, <1>c, <1>s, <3>2, <3>3, <3>4 DEF Loaded, IsRecord
      <3>6. ~InUse(s, "tgt")'
        BY <3>1 DEF InUse
      <3> QED
        BY <1>d, <2>4, <3>5, <3>6 DEF Loaded, Deletes, CopyNames
    <2> QED
      BY <1>0, <1>d, <1>s, <2>2, <2>3, <2>4, InsideStep
  <1>3. CASE U!Quit(s)
    <2>1. /\ own' = own /\ tgt' = tgt /\ stale' = stale
          /\ (script[s] = "profile" /\ U!Go(s, "main")) \/ U!Go(s, "gone")
      BY <1>3 DEF U!Quit, U!In
    <2>2. CopiesOf(s) /\ StaleOf(s)
      BY <2>1, Unread
    <2>3. CASE U!Go(s, "gone")
      <3>1. AccountStepOf(s, U!Idle) /\ PlaceOf(s, "gone")
        BY <2>3, StepGoesOn
      <3> QED
        BY <1>0, <1>d, <1>s, <2>2, <3>1, OutsideStep
    <2>4. CASE script[s] = "profile" /\ U!Go(s, "main")
      <3>1. AccountStepOf(s, U!Idle) /\ PlaceOf(s, "main")
        BY <2>4, StepGoesOn
      <3>2. ASSUME db'[s] = U!Idle, script'[s] = "main" PROVE Loaded(s)' /\ Deletes(s)'
        <4>1. U!CopyOf(s, "own")' = U!CopyOf(s, "own")
          BY <2>1 DEF U!CopyOf
        <4>2. InUse(s, "own")' => InUse(s, "own")
          BY <2>4, <4>1 DEF InUse
        <4>3. ~InUse(s, "tgt")'
          BY <3>2 DEF InUse
        <4>4. InUse(s, "own")' /\ Fresh(s, "own")' => IsRecord(U!CopyOf(s, "own"))'
          BY <1>0, <1>c, <1>s, <2>1, <4>1, <4>2 DEF Loaded, IsRecord, Fresh
        <4> QED
          BY <1>d, <3>2, <4>3, <4>4 DEF Loaded, Deletes, CopyNames
      <3> QED
        BY <1>0, <1>d, <1>s, <2>2, <3>1, <3>2, InsideStep
    <2> QED
      BY <2>1, <2>3, <2>4
  <1> QED
    BY <1>1, <1>2, <1>3

\* In profile, another user's record is read; a copy is changed, to be saved, or to be deleted.
LEMMA ProfileSteps ==
  ASSUME AccountsInv, NEW s \in Session,
         \/ (\E h \in Handle : U!OtherUser(s, h)) \/ U!Edit(s)
         \/ (\E groups \in SUBSET Group : U!EditGroups(s, groups)) \/ U!DeleteTarget(s)
  PROVE  AccountsInv'
  <1>0. AccountsType /\ Loaded(s) /\ db[s].step = "none" /\ db[s] = U!Idle
        /\ script[s] = "profile"
        /\ own = [x \in Session |-> own[x]] /\ tgt = [x \in Session |-> tgt[x]]
        /\ IsCopy(own[s]) /\ IsCopy(tgt[s])
    BY DEF AccountsInv, AccountsType, U!OtherUser, U!Edit, U!EditGroups, U!DeleteTarget, U!In,
       U!Idle
  <1>c. /\ "own" \in CopyNames /\ "tgt" \in CopyNames /\ "save_user" \in Steps
        /\ "delete_groups" \in Steps /\ U!Target(s) \in CopyNames
    BY DEF CopyNames, Steps, U!Target
  <1>s. /\ users' = users /\ members' = members /\ tainted' = tainted
    BY DEF U!OtherUser, U!Edit, U!EditGroups, U!DeleteTarget
  <1>d. U!Idle.step = "none"
    BY DEF U!Idle
  <1>1. ASSUME NEW h \in Handle, U!OtherUser(s, h) PROVE AccountsInv'
    <2>1. U!Read(s, "tgt", U!Record(h)) /\ h \in DOMAIN users /\ script' = script /\ db' = db
      BY <1>1 DEF U!OtherUser
    <2>3. /\ CopiesOf(s) /\ StaleOf(s) /\ stale' = stale \ {<<s, "tgt">>}
          /\ tgt' = [tgt EXCEPT ![s] = U!Record(h)] /\ own' = own
      BY <1>c, <2>1, Copies, ReadIs
    <2>4. Loaded(s)' /\ Deletes(s)'
      <3>1. tgt'[s].handle = h /\ tgt'[s].groups = users[h]
        BY <1>0, <2>3 DEF U!Record
      <3>2. IsRecord(U!CopyOf(s, "tgt"))'
        BY <1>s, <2>1, <3>1 DEF IsRecord, U!CopyOf
      <3>3. Fresh(s, "own")' => Fresh(s, "own")
        BY <2>3 DEF Fresh
      <3>4. U!CopyOf(s, "own")' = U!CopyOf(s, "own")
        BY <2>3 DEF U!CopyOf
      <3>6. InUse(s, "own")' => InUse(s, "own")
        BY <2>1, <3>4 DEF InUse
      <3>5. InUse(s, "own")' /\ Fresh(s, "own")' => IsRecord(U!CopyOf(s, "own"))'
        BY <1>0, <1>c, <1>s, <3>3, <3>4, <3>6 DEF Loaded, IsRecord
      <3> QED
        BY <1>0, <2>1, <3>2, <3>5 DEF Loaded, Deletes, CopyNames
    <2> QED
      BY <1>0, <1>s, <2>1, <2>3, <2>4, InsideStep
  <1>2. ASSUME U!Edit(s) \/ \E groups \in SUBSET Group : U!EditGroups(s, groups)
        PROVE  AccountsInv'
    <2> DEFINE c == U!Target(s)
               d == [step |-> "save_user", copy |-> c]
               o == IF c = "own" THEN "tgt" ELSE "own"
    <2>1. U!SaveThen(s, c, "profile") /\ stale' = stale
      BY <1>2 DEF U!Edit, U!EditGroups
    <2>2. AccountStepOf(s, d) /\ PlaceOf(s, "profile")
      BY <1>c, <2>1, StepGoesOn
    <2>3. /\ c = "own" => tgt' = tgt
          /\ c = "tgt" => own' = own
          /\ own' = own \/ \E groups : own' = [own EXCEPT ![s].groups = groups]
          /\ tgt' = tgt \/ \E groups : tgt' = [tgt EXCEPT ![s].groups = groups]
      BY <1>2 DEF U!Edit, U!EditGroups, U!Target
    <2>4. ASSUME NEW x, IsCopy(x), NEW groups
          PROVE  IsCopy([x EXCEPT !.groups = groups])
      <3>1. [x EXCEPT !.groups = groups] = [handle |-> x.handle, groups |-> groups]
        BY <2>4 DEF IsCopy
      <3> QED
        BY <3>1 DEF IsCopy
    <2>5. CopiesOf(s) /\ StaleOf(s)
      <3>1. \A groups : IsCopy([own[s] EXCEPT !.groups = groups])
        BY <1>0, <2>4
      <3>2. \A groups : IsCopy([tgt[s] EXCEPT !.groups = groups])
        BY <1>0, <2>4
      <3>3. own' = own \/ \E x : IsCopy(x) /\ own' = [own EXCEPT ![s] = x]
        BY <2>3, <3>1
      <3>4. tgt' = tgt \/ \E x : IsCopy(x) /\ tgt' = [tgt EXCEPT ![s] = x]
        BY <2>3, <3>2
      <3> QED
        BY <2>1, <3>3, <3>4 DEF CopiesOf, StaleOf
    <2>6. ASSUME db'[s] = d, script'[s] = "profile" PROVE Loaded(s)' /\ Deletes(s)'
      <3>1. db'[s].step = "save_user" /\ db'[s].copy = c
        BY <2>6
      <3>2. ASSUME NEW x \in CopyNames, x # c, InUse(s, x)', Fresh(s, x)'
            PROVE  IsRecord(U!CopyOf(s, x))'
        <4>1. U!CopyOf(s, x)' = U!CopyOf(s, x)
          BY <1>c, <2>3, <3>2 DEF U!CopyOf, CopyNames
        <4>2. InUse(s, x) /\ Fresh(s, x)
          <5>1. x = "tgt" => tgt' = tgt
            BY <1>c, <2>3, <3>2 DEF CopyNames
          <5>2. script[s] = "profile" /\ script'[s] = "profile"
            BY <1>0, <2>6
          <5>3. Fresh(s, x)
            BY <2>1, <3>2 DEF Fresh
          <5> QED
            BY <3>2, <4>1, <5>1, <5>2, <5>3 DEF InUse
        <4> QED
          BY <1>0, <1>s, <3>2, <4>1, <4>2 DEF Loaded, IsRecord
      <3> QED
        BY <3>1, <3>2 DEF Loaded, Deletes
    <2>7. d.step \notin {"save_groups", "delete_user"}
      OBVIOUS
    <2> HIDE DEF d
    <2> QED
      BY <1>0, <1>s, <2>2, <2>5, <2>6, <2>7, InsideStep
  <1>3. CASE U!DeleteTarget(s)
    <2> DEFINE c == U!Target(s)
               d == [step |-> "delete_groups", copy |-> c]
    <2>1. own' = own /\ tgt' = tgt /\ stale' = stale
      BY <1>3 DEF U!DeleteTarget
    <2>2. CopiesOf(s) /\ StaleOf(s)
      BY <2>1, Unread
    <2>3. CASE U!Go(s, "gone")
      <3>1. AccountStepOf(s, U!Idle) /\ PlaceOf(s, "gone")
        BY <2>3, StepGoesOn
      <3> QED
        BY <1>0, <1>d, <1>s, <2>2, <3>1, OutsideStep
    <2>4. CASE U!CopyOf(s, c).handle # U!Anonymous /\ U!Do(s, "delete_groups", c, "profile")
      <3>1. AccountStepOf(s, d) /\ PlaceOf(s, "profile")
        BY <1>c, <2>4, StepGoesOn
      <3>2. ASSUME db'[s] = d, script'[s] = "profile" PROVE Loaded(s)' /\ Deletes(s)'
        <4>1. \A x : U!CopyOf(s, x)' = U!CopyOf(s, x) /\ (Fresh(s, x)' <=> Fresh(s, x))
          BY <2>1 DEF U!CopyOf, Fresh
        <4>2. \A x : InUse(s, x)' <=> InUse(s, x)
          BY <1>0, <2>1, <3>2, <4>1 DEF InUse
        <4>3. Loaded(s)'
          BY <1>0, <1>s, <4>1, <4>2 DEF Loaded, IsRecord
        <4>4. c = "tgt" => tgt[s].handle # U!Nobody
          BY DEF U!Target
        <4>5. InUse(s, c)
          BY <1>0, <2>4, <4>4 DEF InUse
        <4> QED
          BY <3>2, <4>2, <4>3, <4>5 DEF Deletes
      <3>3. d.step \notin {"save_groups", "delete_user"}
        OBVIOUS
      <3> HIDE DEF d
      <3> QED
        BY <1>0, <1>s, <2>2, <3>1, <3>2, <3>3, InsideStep
    <2> QED
      BY <1>3, <2>3, <2>4 DEF U!DeleteTarget
  <1> QED
    BY <1>1, <1>2, <1>3

\* A step of save() or delete(), of the copy of h that session s has: of other users nothing
\* changes; whatever it changes of the record of h, the other copies of it are stale then.
Overtakes(s, h) ==
  \A t \in Session \ {s} : \A c \in CopyNames :
    U!CopyOf(t, c).handle = h => ~Fresh(t, c)'

LEMMA DatabaseStep ==
  ASSUME AccountsInv, NEW s \in Session, NEW h, AccountsType', OthersKeep(s),
         U!CopyOf(s, db[s].copy).handle = h,
         tainted \subseteq tainted', h \in tainted' \/ Fresh(s, db[s].copy),
         \A t \in Session \ {s} : \A c \in CopyNames :
           /\ Fresh(t, c)' => Fresh(t, c)
           /\ Fresh(t, c) /\ U!CopyOf(t, c).handle # h => Fresh(t, c)',
         \A k : k # h =>
           /\ k \in DOMAIN users' <=> k \in DOMAIN users
           /\ k \in DOMAIN users => users'[k] = users[k]
           /\ \A g \in Group : k \in members'[g] <=> k \in members[g],
         users' = users \/ Overtakes(s, h),
         db'[s].step \in {"save_groups", "delete_user"} =>
           Overtakes(s, h) /\ U!CopyOf(s, db[s].copy)'.handle = h,
         db'[s].step = "save_groups" /\ Fresh(s, db[s].copy)' => IsRecord(U!CopyOf(s, db[s].copy))',
         h \in Handle \ tainted' =>
           \/ Agrees(h)' \/ Doomed(h)'
           \/ Makes(s, "save_groups", h)' \/ Makes(s, "delete_user", h)',
         \A t \in Session : h \in Handle \ tainted' /\ Makes(t, "delete_user", h)' =>
           Doomed(h)' \/ \A g \in Group : h \notin members'[g],
         Loaded(s)', Deletes(s)'
  PROVE  AccountsInv'
  <1>0. \A t \in Session : db[t].copy \in CopyNames
    BY DEF AccountsInv, AccountsType, IsStep
  <1>1. ASSUME NEW t \in Session, t # s, NEW k, k # h, NEW step
        PROVE  Makes(t, step, k)' <=> Makes(t, step, k)
    BY <1>0, <1>1, OtherCopiesStay DEF Makes
  <1>2. ASSUME NEW t \in Session, t # s, NEW k, NEW step, Makes(t, step, k)'
        PROVE  Makes(t, step, k)
    BY <1>0, <1>2, OtherCopiesStay DEF Makes
  <1>3. ASSUME NEW k, k # h, Doomed(k) PROVE Doomed(k)'
    <2>1. PICK t \in Session : /\ db[t].step # "none"
                               /\ U!CopyOf(t, db[t].copy).handle = k
                               /\ ~Fresh(t, db[t].copy)
      BY <1>3 DEF Doomed
    <2>2. t # s
      BY <1>3, <2>1
    <2>3. ~Fresh(t, db[t].copy)'
      BY <1>0, <2>1, <2>2, OtherCopiesStay
    <2> QED
      BY <2>1, <2>2, <2>3, OtherCopiesStay DEF Doomed
  <1>4. ASSUME NEW k, k # h PROVE Agrees(k)' <=> Agrees(k)
    BY <1>4 DEF Agrees
  <1>5. ASSUME NEW k, NEW step PROVE Makes(s, step, k) => k = h
    BY DEF Makes
  <1>m. ASSUME NEW k, Makes(s, "save_groups", k)' \/ Makes(s, "delete_user", k)' PROVE k = h
    BY <1>m DEF Makes
  <1>6. HalfWay'
    <2> SUFFICES ASSUME NEW k \in Handle \ tainted'
                 PROVE  \/ Agrees(k)' \/ Doomed(k)'
                        \/ \E t \in Session :
                             Makes(t, "save_groups", k)' \/ Makes(t, "delete_user", k)'
      BY DEF HalfWay
    <2>1. CASE k = h
      BY <2>1
    <2>2. CASE k # h
      <3>1. k \in Handle \ tainted
        OBVIOUS
      <3>2. Agrees(k) => Agrees(k)'
        BY <1>4, <2>2
      <3>3. Doomed(k) => Doomed(k)'
        BY <1>3, <2>2
      <3>4. ASSUME NEW t \in Session, Makes(t, "save_groups", k) \/ Makes(t, "delete_user", k)
            PROVE  t # s /\ (Makes(t, "save_groups", k)' \/ Makes(t, "delete_user", k)')
        BY <1>1, <1>5, <2>2, <3>4
      <3> QED
        BY <3>1, <3>2, <3>3, <3>4 DEF AccountsInv, HalfWay
    <2> QED
      BY <2>1, <2>2
  <1>7. ASSUME NEW t \in Session, t # s, NEW c \in CopyNames, Fresh(t, c)', IsRecord(U!CopyOf(t, c))
        PROVE  IsRecord(U!CopyOf(t, c))'
    <2>1. U!CopyOf(t, c)' = U!CopyOf(t, c)
      BY <1>7, OtherCopiesStay
    <2>2. CASE users' = users
      BY <1>7, <2>1, <2>2 DEF IsRecord
    <2>3. CASE Overtakes(s, h)
      <3>1. U!CopyOf(t, c).handle # h
        BY <1>7, <2>3 DEF Overtakes
      <3> QED
        BY <1>7, <2>1, <3>1 DEF IsRecord
    <2> QED
      BY <2>2, <2>3
  <1>8. Saved'
    <2> SUFFICES ASSUME NEW t \in Session, db'[t].step = "save_groups", Fresh(t, db[t].copy)'
                 PROVE  IsRecord(U!CopyOf(t, db[t].copy))'
      BY DEF Saved
    <2>1. CASE t = s
      BY <2>1
    <2>2. CASE t # s
      <3>1. Fresh(t, db[t].copy) /\ Fresh(t, db[t].copy)' /\ db'[t].copy = db[t].copy
        BY <1>0, <2>2, OtherCopiesStay
      <3>2. IsRecord(U!CopyOf(t, db[t].copy))
        BY <2>2, <3>1, OtherCopiesStay DEF AccountsInv, Saved
      <3>3. PICK c \in CopyNames : c = db[t].copy
        BY <1>0
      <3>4. Fresh(t, c)' /\ IsRecord(U!CopyOf(t, c)) /\ db'[t].copy = c
        BY <3>1, <3>2, <3>3 DEF Fresh
      <3>5. IsRecord(U!CopyOf(t, c))'
        BY <1>7, <2>2, <3>4
      <3> QED
        BY <3>4, <3>5 DEF IsRecord, U!CopyOf
    <2> QED
      BY <2>1, <2>2
  <1>9. Removed'
    <2> SUFFICES ASSUME NEW t \in Session, NEW k \in Handle \ tainted', Makes(t, "delete_user", k)'
                 PROVE  Doomed(k)' \/ \A g \in Group : k \notin members'[g]
      BY DEF Removed
    <2>1. CASE k = h
      BY <2>1
    <2>2. CASE k # h
      <3>1. t # s
        BY <1>m, <2>2
      <3>2. Makes(t, "delete_user", k) /\ k \in Handle \ tainted
        BY <1>1, <2>2, <3>1
      <3>3. Doomed(k) \/ \A g \in Group : k \notin members[g]
        BY <3>2 DEF AccountsInv, Removed
      <3> QED
        BY <1>3, <2>2, <3>3
    <2> QED
      BY <2>1, <2>2
  <1>10. ASSUME NEW t \in Session, t # s, NEW k, NEW step,
                Makes(s, "save_groups", k)' \/ Makes(s, "delete_user", k)', Makes(t, step, k)'
         PROVE  FALSE
    <2>1. k = h /\ Overtakes(s, h)
      BY <1>10, <1>m DEF Makes
    <2>2. /\ U!CopyOf(t, db[t].copy).handle = h /\ db'[t].copy = db[t].copy
          /\ Fresh(t, db[t].copy)'
      BY <1>10, <2>1, OtherCopiesStay DEF Makes
    <2> QED
      BY <1>0, <1>10, <2>1, <2>2 DEF Overtakes, Fresh
  <1>11. OneAtATime'
    <2> SUFFICES ASSUME NEW t \in Session, NEW u \in Session, NEW k, t # u,
                        Makes(t, "save_groups", k)' \/ Makes(t, "delete_user", k)',
                        Makes(u, "save_groups", k)' \/ Makes(u, "delete_user", k)'
                 PROVE  FALSE
      BY DEF OneAtATime
    <2>1. CASE t = s
      BY <1>10, <2>1
    <2>2. CASE u = s
      BY <1>10, <2>2
    <2>3. CASE t # s /\ u # s
      BY <1>2, <2>3 DEF AccountsInv, OneAtATime
    <2> QED
      BY <2>1, <2>2, <2>3
  <1>12. ASSUME NEW t \in Session PROVE Loaded(t)' /\ Deletes(t)'
    <2>1. CASE t = s
      BY <2>1
    <2>2. CASE t # s
      <3>1. Loaded(t) /\ Deletes(t)
        BY DEF AccountsInv
      <3>2. ASSUME NEW c \in CopyNames, InUse(t, c)', Fresh(t, c)',
                   ~(db'[t].step = "save_user" /\ db'[t].copy = c)
            PROVE  IsRecord(U!CopyOf(t, c))'
        <4>1. InUse(t, c) /\ Fresh(t, c) /\ ~(db[t].step = "save_user" /\ db[t].copy = c)
          BY <2>2, <3>2, OtherCopiesStay
        <4> QED
          BY <1>7, <2>2, <3>1, <3>2, <4>1 DEF Loaded
      <3>3. Deletes(t)'
        BY <2>2, <3>1, OtherCopiesStay DEF Deletes
      <3> QED
        BY <3>2, <3>3 DEF Loaded
    <2> QED
      BY <2>1, <2>2
  <1> QED
    BY <1>6, <1>8, <1>9, <1>11, <1>12 DEF AccountsInv

\* The copies that a step overtakes
LEMMA OvertakesAll ==
  ASSUME NEW s \in Session, NEW c \in CopyNames, NEW h, U!CopyOf(s, c).handle = h,
         stale' = stale \cup U!Others(s, c)
           \/ stale' = (stale \cup U!Others(s, c)) \ {<<s, c>>}
  PROVE  /\ Overtakes(s, h)
         /\ \A t \in Session \ {s} : \A x \in CopyNames :
              /\ Fresh(t, x)' => Fresh(t, x)
              /\ Fresh(t, x) /\ U!CopyOf(t, x).handle # h => Fresh(t, x)'
         /\ \A x \in CopyNames \ {c} :
              Fresh(s, x)' => Fresh(s, x) /\ U!CopyOf(s, x).handle # h
         /\ stale' = stale \cup U!Others(s, c) => (Fresh(s, c)' <=> Fresh(s, c))
  <1>1. \A t \in Session, x \in CopyNames :
          <<t, x>> \in U!Others(s, c) <=>
            <<t, x>> # <<s, c>> /\ U!CopyOf(t, x).handle = U!CopyOf(s, c).handle
    BY DEF U!Others, CopyNames
  <1>2. \A t \in Session, x \in CopyNames : <<t, x>> # <<s, c>> =>
          (<<t, x>> \in stale' <=> <<t, x>> \in stale \/ U!CopyOf(t, x).handle = h)
    BY <1>1
  <1>3. stale' = stale \cup U!Others(s, c) => (<<s, c>> \in stale' <=> <<s, c>> \in stale)
    BY <1>1
  <1>4. \A t \in Session \ {s}, x \in CopyNames : <<t, x>> # <<s, c>>
    OBVIOUS
  <1>5. \A x \in CopyNames \ {c} : <<s, x>> # <<s, c>>
    OBVIOUS
  <1> QED
    BY <1>2, <1>3, <1>4, <1>5 DEF Overtakes, Fresh

\* What is saved from a stale copy is not to be relied on.
LEMMA TaintIs ==
  ASSUME NEW s \in Session, NEW c, U!TaintIfStale(s, c)
  PROVE  tainted \subseteq tainted' /\ (U!CopyOf(s, c).handle \in tainted' \/ Fresh(s, c))
  BY DEF U!TaintIfStale, Fresh

\* A copy with other groups is one of the same user.
LEMMA WithGroups ==
  ASSUME NEW x, IsCopy(x), NEW groups
  PROVE  /\ [x EXCEPT !.groups = groups] = [handle |-> x.handle, groups |-> groups]
         /\ IsCopy([handle |-> x.handle, groups |-> groups])
  BY DEF IsCopy

\* Users first,
LEMMA SaveUserStep ==
  ASSUME AccountsInv, NEW s \in Session, U!SaveUser(s)
  PROVE  AccountsInv'
  <1>1. PICK c \in CopyNames : c = db[s].copy
    BY DEF AccountsInv, AccountsType, IsStep
  <1>2. PICK h : h = U!CopyOf(s, c).handle
    OBVIOUS
  <1>0. /\ AccountsType /\ Loaded(s)
        /\ own = [x \in Session |-> own[x]] /\ tgt = [x \in Session |-> tgt[x]]
        /\ members = [g \in Group |-> members[g]]
        /\ IsCopy(own[s]) /\ IsCopy(tgt[s]) /\ "save_groups" \in Steps
    BY DEF AccountsInv, AccountsType, Steps
  <1>3. PICK groups :
          /\ users' = [k \in DOMAIN users \cup {h} |-> IF k = h THEN groups ELSE users[k]]
          /\ IF c = "own" THEN own' = [own EXCEPT ![s].groups = groups] /\ tgt' = tgt
                          ELSE tgt' = [tgt EXCEPT ![s].groups = groups] /\ own' = own
    BY <1>1, <1>2 DEF U!SaveUser
  <1>4. /\ stale' = stale \cup U!Others(s, c) /\ U!TaintIfStale(s, c)
        /\ U!Do(s, "save_groups", c, script[s]) /\ members' = members
        /\ db[s].step = "save_user"
    BY <1>1 DEF U!SaveUser
  <1> DEFINE new == [handle |-> h, groups |-> groups]
  <1>5. /\ IsCopy(new)
        /\ c = "own" => own' = [own EXCEPT ![s] = new] /\ tgt' = tgt
        /\ c # "own" => tgt' = [tgt EXCEPT ![s] = new] /\ own' = own
    <2>1. c = "own" => [own[s] EXCEPT !.groups = groups] = new
      BY <1>0, <1>2, WithGroups DEF U!CopyOf
    <2>2. c # "own" => [tgt[s] EXCEPT !.groups = groups] = new
      BY <1>0, <1>2, WithGroups DEF U!CopyOf
    <2>3. c = "own" => own' = [own EXCEPT ![s] = [own[s] EXCEPT !.groups = groups]]
      BY <1>3
    <2>4. c # "own" => tgt' = [tgt EXCEPT ![s] = [tgt[s] EXCEPT !.groups = groups]]
      BY <1>3
    <2>5. IsCopy(new)
      BY DEF IsCopy
    <2> QED
      BY <1>3, <2>1, <2>2, <2>3, <2>4, <2>5
  <1> HIDE DEF new
  <1>6. CopiesOf(s)
    BY <1>5 DEF CopiesOf
  <1> DEFINE d == [step |-> "save_groups", copy |-> c]
  <1>7. AccountStepOf(s, d) /\ PlaceOf(s, script[s])
    BY <1>0, <1>4, StepGoesOn
  <1>8. AccountsType' /\ OthersKeep(s) /\ db'[s] = d
    <2> HIDE DEF d
    <2> QED
      BY <1>0, <1>4, <1>6, <1>7, StepIs
  <1>9. db'[s].step = "save_groups" /\ db'[s].copy = c
    BY <1>8
  <1> HIDE DEF d
  <1>10. /\ U!CopyOf(s, c)' = new
         /\ \A x \in CopyNames \ {c} : U!CopyOf(s, x)' = U!CopyOf(s, x)
    BY <1>0, <1>5 DEF U!CopyOf, CopyNames
  <1>11. new.handle = h /\ new.groups = groups
    BY DEF new
  <1>12. /\ Overtakes(s, h)
         /\ \A t \in Session \ {s} : \A x \in CopyNames :
              /\ Fresh(t, x)' => Fresh(t, x)
              /\ Fresh(t, x) /\ U!CopyOf(t, x).handle # h => Fresh(t, x)'
         /\ \A x \in CopyNames \ {c} :
              Fresh(s, x)' => Fresh(s, x) /\ U!CopyOf(s, x).handle # h
         /\ Fresh(s, c)' <=> Fresh(s, c)
    BY <1>2, <1>4, OvertakesAll
  <1>13. tainted \subseteq tainted' /\ (h \in tainted' \/ Fresh(s, c))
    BY <1>2, <1>4, TaintIs
  <1>14. \A k : k # h =>
           /\ k \in DOMAIN users' <=> k \in DOMAIN users
           /\ k \in DOMAIN users => users'[k] = users[k]
           /\ \A g \in Group : k \in members'[g] <=> k \in members[g]
    BY <1>3, <1>4
  <1>16. IsRecord(U!CopyOf(s, c))'
    BY <1>3, <1>10, <1>11 DEF IsRecord
  <1>17. h \in Handle \ tainted' => Makes(s, "save_groups", h)'
    BY <1>9, <1>10, <1>11, <1>12, <1>13 DEF Makes, Fresh, U!CopyOf
  <1>18. \A t \in Session : ~Makes(t, "delete_user", h)'
    <2> SUFFICES ASSUME NEW t \in Session, Makes(t, "delete_user", h)' PROVE FALSE
      OBVIOUS
    <2>1. t # s
      BY <1>9 DEF Makes
    <2>2. /\ U!CopyOf(t, db[t].copy).handle = h /\ db'[t].copy = db[t].copy
          /\ db[t].copy \in CopyNames /\ Fresh(t, db[t].copy)'
      BY <1>0, <1>8, <2>1, OtherCopiesStay DEF Makes, AccountsType, IsStep
    <2> QED
      BY <1>12, <2>1, <2>2 DEF Overtakes, Fresh
  <1>19. Loaded(s)'
    <2> SUFFICES ASSUME NEW x \in CopyNames, InUse(s, x)', Fresh(s, x)'
                 PROVE  IsRecord(U!CopyOf(s, x))'
      BY DEF Loaded
    <2>1. CASE x = c
      BY <1>16, <2>1 DEF IsRecord, U!CopyOf
    <2>2. CASE x # c
      <3>1. U!CopyOf(s, x)' = U!CopyOf(s, x) /\ Fresh(s, x) /\ U!CopyOf(s, x).handle # h
        BY <1>10, <1>12, <2>2
      <3>2. script'[s] = script[s]
        BY <1>0, <1>4, <1>7 DEF AccountsType, PlaceOf
      <3>3. x = "tgt" => tgt' = tgt
        BY <1>5, <2>2 DEF CopyNames
      <3>4. InUse(s, x)
        BY <3>1, <3>2, <3>3 DEF InUse
      <3>5. IsRecord(U!CopyOf(s, x))
        BY <1>0, <1>1, <2>2, <3>1, <3>4 DEF Loaded
      <3> QED
        BY <1>14, <3>1, <3>5 DEF IsRecord
    <2> QED
      BY <2>1, <2>2
  <1>20. Deletes(s)'
    BY <1>9 DEF Deletes
  <1>21. IsRecord(U!CopyOf(s, db[s].copy))' /\ U!CopyOf(s, db[s].copy)'.handle = h
    BY <1>9, <1>10, <1>11, <1>16 DEF IsRecord, U!CopyOf
  <1> QED
    BY <1>1, <1>2, <1>8, <1>9, <1>12, <1>13, <1>14, <1>17, <1>18, <1>19, <1>20, <1>21,
       DatabaseStep

\* then the groups.
LEMMA SaveGroupsStep ==
  ASSUME AccountsInv, NEW s \in Session, U!SaveGroups(s)
  PROVE  AccountsInv'
  <1>1. PICK c \in CopyNames : c = db[s].copy
    BY DEF AccountsInv, AccountsType, IsStep
  <1>2. PICK h : h = U!CopyOf(s, c).handle
    OBVIOUS
  <1>0. AccountsType /\ Loaded(s) /\ U!Idle.step = "none"
    BY DEF AccountsInv, U!Idle
  <1>4. /\ users' = users /\ own' = own /\ tgt' = tgt /\ stale' = stale
        /\ U!TaintIfStale(s, c) /\ U!Go(s, script[s]) /\ db[s].step = "save_groups"
        /\ members' = [g \in Group |-> IF g \in U!CopyOf(s, c).groups
                                       THEN members[g] \cup {h} ELSE members[g] \ {h}]
    BY <1>1, <1>2 DEF U!SaveGroups, U!Applied
  <1>5. CopiesOf(s) /\ AccountStepOf(s, U!Idle) /\ PlaceOf(s, script[s])
    BY <1>4, StepGoesOn, Unread
  <1>6. AccountsType' /\ OthersKeep(s) /\ db'[s] = U!Idle /\ script'[s] = script[s]
    BY <1>0, <1>4, <1>5, StepIs
  <1>7. \A t, x : /\ Fresh(t, x)' <=> Fresh(t, x)
                  /\ U!CopyOf(t, x)' = U!CopyOf(t, x)
    BY <1>4 DEF Fresh, U!CopyOf
  <1>8. \A x : InUse(s, x)' <=> InUse(s, x)
    BY <1>4, <1>6, <1>7 DEF InUse
  <1>9. tainted \subseteq tainted' /\ (h \in tainted' \/ Fresh(s, c))
    BY <1>2, <1>4, TaintIs
  <1>10. \A k : k # h =>
           /\ k \in DOMAIN users' <=> k \in DOMAIN users
           /\ k \in DOMAIN users => users'[k] = users[k]
           /\ \A g \in Group : k \in members'[g] <=> k \in members[g]
    BY <1>4
  <1>11. Fresh(s, c) => IsRecord(U!CopyOf(s, c))
    BY <1>1, <1>4 DEF AccountsInv, Saved, Fresh, IsRecord, U!CopyOf
  <1>12. h \in Handle \ tainted' => Agrees(h)'
    BY <1>2, <1>4, <1>9, <1>11 DEF Agrees, IsRecord
  <1>13. \A t \in Session : h \in Handle \ tainted' => ~Makes(t, "delete_user", h)'
    <2> SUFFICES ASSUME NEW t \in Session, h \notin tainted', Makes(t, "delete_user", h)'
                 PROVE  FALSE
      OBVIOUS
    <2>1. t # s
      BY <1>0, <1>6 DEF Makes
    <2>2. Makes(t, "delete_user", h)
      BY <1>6, <1>7, <2>1, OtherCopiesStay DEF Makes, Fresh, U!CopyOf
    <2>3. Makes(s, "save_groups", h)
      BY <1>1, <1>2, <1>4, <1>9 DEF Makes, Fresh, U!CopyOf
    <2> QED
      BY <2>1, <2>2, <2>3 DEF AccountsInv, OneAtATime
  <1>14. Loaded(s)'
    <2>1. \A x : IsRecord(U!CopyOf(s, x))' <=> IsRecord(U!CopyOf(s, x))
      BY <1>4, <1>7 DEF IsRecord
    <2> QED
      BY <1>0, <1>4, <1>7, <1>8, <2>1 DEF Loaded
  <1>15. Deletes(s)' /\ db'[s].step = "none"
    BY <1>0, <1>6 DEF Deletes
  <1>16. \A t \in Session \ {s} : \A x \in CopyNames :
           /\ Fresh(t, x)' => Fresh(t, x)
           /\ Fresh(t, x) /\ U!CopyOf(t, x).handle # h => Fresh(t, x)'
    BY <1>7
  <1> QED
    BY <1>1, <1>2, <1>4, <1>6, <1>9, <1>10, <1>12, <1>13, <1>14, <1>15, <1>16, DatabaseStep

\* A user is taken out of the groups,
LEMMA DeleteGroupsStep ==
  ASSUME AccountsInv, NEW s \in Session, U!DeleteGroups(s)
  PROVE  AccountsInv'
  <1>1. PICK c \in CopyNames : c = db[s].copy
    BY DEF AccountsInv, AccountsType, IsStep
  <1>2. PICK h : h = U!CopyOf(s, c).handle
    OBVIOUS
  <1>0. AccountsType /\ Loaded(s) /\ Deletes(s) /\ "delete_user" \in Steps
    BY DEF AccountsInv, Steps
  <1>4. /\ users' = users /\ own' = own /\ tgt' = tgt /\ stale' = stale \cup U!Others(s, c)
        /\ U!TaintIfStale(s, c) /\ U!Do(s, "delete_user", c, script[s])
        /\ db[s].step = "delete_groups"
        /\ members' = [g \in Group |-> IF g \in U!CopyOf(s, c).groups
                                       THEN members[g] \ {h} ELSE members[g]]
    BY <1>1, <1>2 DEF U!DeleteGroups
  <1> DEFINE d == [step |-> "delete_user", copy |-> c]
  <1>5. CopiesOf(s) /\ AccountStepOf(s, d) /\ PlaceOf(s, script[s])
    BY <1>0, <1>4, StepGoesOn DEF CopiesOf
  <1>6. AccountsType' /\ OthersKeep(s) /\ db'[s] = d /\ script'[s] = script[s]
    <2> HIDE DEF d
    <2> QED
      BY <1>0, <1>4, <1>5, StepIs
  <1>7. \A t, x : U!CopyOf(t, x)' = U!CopyOf(t, x)
    BY <1>4 DEF U!CopyOf
  <1>8. \A x : InUse(s, x)' <=> InUse(s, x)
    BY <1>4, <1>6, <1>7 DEF InUse
  <1>9. tainted \subseteq tainted' /\ (h \in tainted' \/ Fresh(s, c))
    BY <1>2, <1>4, TaintIs
  <1>10. \A k : k # h =>
           /\ k \in DOMAIN users' <=> k \in DOMAIN users
           /\ k \in DOMAIN users => users'[k] = users[k]
           /\ \A g \in Group : k \in members'[g] <=> k \in members[g]
    BY <1>4
  <1>11. /\ Overtakes(s, h)
         /\ \A t \in Session \ {s} : \A x \in CopyNames :
              /\ Fresh(t, x)' => Fresh(t, x)
              /\ Fresh(t, x) /\ U!CopyOf(t, x).handle # h => Fresh(t, x)'
         /\ \A x \in CopyNames \ {c} :
              Fresh(s, x)' => Fresh(s, x) /\ U!CopyOf(s, x).handle # h
         /\ Fresh(s, c)' <=> Fresh(s, c)
    BY <1>2, <1>4, OvertakesAll
  <1>12. db'[s].step = "delete_user" /\ db'[s].copy = c
    BY <1>6
  <1> HIDE DEF d
  <1>13. U!CopyOf(s, db[s].copy)'.handle = h
    BY <1>2, <1>7, <1>12 DEF U!CopyOf
  <1>14. h \in Handle \ tainted' => Makes(s, "delete_user", h)'
    BY <1>9, <1>11, <1>12, <1>13 DEF Makes, Fresh
  <1>15. ASSUME NEW t \in Session, t # s, db[t].step # "none",
                U!CopyOf(t, db[t].copy).handle = h
         PROVE  Doomed(h)'
    <2>1. db'[t].step # "none" /\ db[t].copy \in CopyNames /\ db'[t].copy = db[t].copy
      BY <1>0, <1>6, <1>15, OtherCopiesStay DEF AccountsType, IsStep
    <2>2. ~Fresh(t, db[t].copy)'
      BY <1>11, <1>15, <2>1 DEF Overtakes, Fresh
    <2>3. U!CopyOf(t, db[t].copy)'.handle = h
      BY <1>7, <1>15, <2>1 DEF U!CopyOf
    <2> QED
      BY <2>1, <2>2, <2>3 DEF Doomed
  <1>16. ASSUME h \in Handle \ tainted' PROVE Doomed(h)' \/ \A g \in Group : h \notin members'[g]
    <2>1. Fresh(s, c) /\ h \in Handle \ tainted
      BY <1>9, <1>16
    <2>2. CASE Agrees(h)
      <3>1. InUse(s, c)
        BY <1>0, <1>1, <1>4 DEF Deletes
      <3>2. IsRecord(U!CopyOf(s, c))
        BY <1>0, <1>4, <2>1, <3>1 DEF Loaded
      <3>3. \A g \in Group : h \in members[g] <=> g \in U!CopyOf(s, c).groups
        BY <1>2, <2>2, <3>2 DEF Agrees, IsRecord
      <3> QED
        BY <1>4, <3>3
    <2>3. CASE Doomed(h)
      <3>1. PICK t \in Session : /\ db[t].step # "none"
                                 /\ U!CopyOf(t, db[t].copy).handle = h
                                 /\ ~Fresh(t, db[t].copy)
        BY <2>3 DEF Doomed
      <3>2. t # s
        BY <1>1, <2>1, <3>1
      <3> QED
        BY <1>15, <3>1, <3>2
    <2>4. ASSUME NEW t \in Session, Makes(t, "save_groups", h) \/ Makes(t, "delete_user", h)
          PROVE  Doomed(h)'
      <3>1. t # s /\ db[t].step # "none" /\ U!CopyOf(t, db[t].copy).handle = h
        BY <1>4, <2>4 DEF Makes
      <3> QED
        BY <1>15, <3>1
    <2> QED
      BY <2>1, <2>2, <2>3, <2>4 DEF AccountsInv, HalfWay
  <1>17. Loaded(s)'
    <2>1. \A x : IsRecord(U!CopyOf(s, x))' <=> IsRecord(U!CopyOf(s, x))
      BY <1>4, <1>7 DEF IsRecord
    <2>2. \A x \in CopyNames : Fresh(s, x)' => Fresh(s, x)
      BY <1>11
    <2> QED
      BY <1>0, <1>4, <1>8, <2>1, <2>2 DEF Loaded
  <1>18. Deletes(s)'
    <2>1. InUse(s, c)
      BY <1>0, <1>1, <1>4 DEF Deletes
    <2>2. InUse(s, c)'
      BY <1>8, <2>1
    <2> QED
      BY <1>12, <2>2 DEF Deletes, InUse, U!CopyOf
  <1>19. U!CopyOf(s, db[s].copy).handle = h /\ (h \in tainted' \/ Fresh(s, db[s].copy))
    BY <1>1, <1>2, <1>9
  <1>20. db'[s].step # "save_groups" /\ users' = users
    BY <1>4, <1>12
  <1>21. \A t \in Session : h \in Handle \ tainted' /\ Makes(t, "delete_user", h)' =>
           Doomed(h)' \/ \A g \in Group : h \notin members'[g]
    BY <1>16
  <1> QED
    BY <1>6, <1>9, <1>10, <1>11, <1>13, <1>14, <1>17, <1>18, <1>19, <1>20, <1>21, DatabaseStep

\* and out of the users.
LEMMA DeleteUserStep ==
  ASSUME AccountsInv, NEW s \in Session, U!DeleteUser(s)
  PROVE  AccountsInv'
  <1>1. PICK c \in CopyNames : c = db[s].copy
    BY DEF AccountsInv, AccountsType, IsStep
  <1>2. PICK h : h = U!CopyOf(s, c).handle
    OBVIOUS
  <1>0. /\ AccountsType /\ Loaded(s) /\ Deletes(s) /\ U!Idle.step = "none"
        /\ tgt = [x \in Session |-> tgt[x]]
    BY DEF AccountsInv, AccountsType, U!Idle
  <1>4. /\ users' = [k \in DOMAIN users \ {h} |-> users[k]] /\ members' = members /\ own' = own
        /\ U!TaintIfStale(s, c) /\ db[s].step = "delete_user"
    BY <1>1, <1>2 DEF U!DeleteUser
  <1>5. \/ /\ h \notin DOMAIN users \/ c = "tgt"
           /\ U!Go(s, "main") /\ stale' = stale \cup U!Others(s, c) /\ tgt' = tgt
        \/ U!Go(s, "gone") /\ stale' = stale \cup U!Others(s, c) /\ tgt' = tgt
        \/ /\ c = "tgt" /\ U!Go(s, "profile")
           /\ \E next \in DOMAIN users' : tgt' = [tgt EXCEPT ![s] = U!Record(next)]
           /\ stale' = (stale \cup U!Others(s, c)) \ {<<s, c>>}
    BY <1>1, <1>2, <1>4 DEF U!DeleteUser
  <1>6. PICK place \in {"main", "gone", "profile"} : U!Go(s, place)
    BY <1>5
  <1>7. CopiesOf(s)
    <2>1. tgt' = tgt \/ \E next : tgt' = [tgt EXCEPT ![s] = U!Record(next)]
      BY <1>5
    <2>2. \A next : IsCopy(U!Record(next))
      BY Copies
    <2> QED
      BY <1>4, <2>1, <2>2 DEF CopiesOf
  <1>8. AccountStepOf(s, U!Idle) /\ PlaceOf(s, place)
    BY <1>6, StepGoesOn
  <1>9. AccountsType' /\ OthersKeep(s) /\ db'[s] = U!Idle /\ script'[s] = place
    BY <1>0, <1>4, <1>7, <1>8, StepIs DEF AccountsType
  <1>10. tainted \subseteq tainted' /\ (h \in tainted' \/ Fresh(s, c))
    BY <1>2, <1>4, TaintIs
  <1>11. \A k : k # h =>
           /\ k \in DOMAIN users' <=> k \in DOMAIN users
           /\ k \in DOMAIN users => users'[k] = users[k]
           /\ \A g \in Group : k \in members'[g] <=> k \in members[g]
    BY <1>4
  <1>12. /\ Overtakes(s, h)
         /\ \A t \in Session \ {s} : \A x \in CopyNames :
              /\ Fresh(t, x)' => Fresh(t, x)
              /\ Fresh(t, x) /\ U!CopyOf(t, x).handle # h => Fresh(t, x)'
         /\ \A x \in CopyNames \ {c} :
              Fresh(s, x)' => Fresh(s, x) /\ U!CopyOf(s, x).handle # h
         /\ stale' = stale \cup U!Others(s, c) => (Fresh(s, c)' <=> Fresh(s, c))
    <2>1. stale' = stale \cup U!Others(s, c) \/ stale' = (stale \cup U!Others(s, c)) \ {<<s, c>>}
      BY <1>5
    <2> QED
      BY <1>2, <2>1, OvertakesAll
  <1>13. db'[s].step = "none"
    BY <1>0, <1>9
  <1>14. U!CopyOf(s, db[s].copy).handle = h /\ (h \in tainted' \/ Fresh(s, db[s].copy))
    BY <1>1, <1>2, <1>10
  <1>15. h \in Handle \ tainted' => Agrees(h)' \/ Doomed(h)'
    <2> SUFFICES ASSUME h \in Handle \ tainted' PROVE Agrees(h)' \/ Doomed(h)'
      OBVIOUS
    <2>1. Makes(s, "delete_user", h) /\ h \in Handle \ tainted
      BY <1>4, <1>10, <1>14 DEF Makes
    <2>2. CASE \A g \in Group : h \notin members[g]
      BY <1>4, <2>2 DEF Agrees
    <2>3. CASE Doomed(h)
      <3>1. PICK t \in Session : /\ db[t].step # "none"
                                 /\ U!CopyOf(t, db[t].copy).handle = h
                                 /\ ~Fresh(t, db[t].copy)
        BY <2>3 DEF Doomed
      <3>2. t # s
        BY <1>14, <3>1
      <3>3. db[t].copy \in CopyNames
        BY <1>0 DEF AccountsType, IsStep
      <3>4. ~Fresh(t, db[t].copy)'
        BY <1>9, <1>12, <3>1, <3>2, <3>3, OtherCopiesStay DEF Fresh
      <3> QED
        BY <1>9, <3>1, <3>2, <3>4, OtherCopiesStay DEF Doomed
    <2> QED
      BY <2>1, <2>2, <2>3 DEF AccountsInv, Removed
  <1>16. ASSUME NEW t \in Session, Makes(t, "delete_user", h)' PROVE FALSE
    <2>1. t # s
      BY <1>13, <1>16 DEF Makes
    <2>2. /\ U!CopyOf(t, db[t].copy).handle = h /\ db'[t].copy = db[t].copy
          /\ db[t].copy \in CopyNames /\ Fresh(t, db[t].copy)'
      BY <1>0, <1>9, <1>16, <2>1, OtherCopiesStay DEF Makes, AccountsType, IsStep
    <2> QED
      BY <1>12, <2>1, <2>2 DEF Overtakes, Fresh
  <1>17. (InUse(s, c) /\ script[s] = "profile") \/ c = "own"
    BY <1>0, <1>1, <1>4 DEF Deletes, InUse, CopyNames
  <1>18. Loaded(s)'
    <2> SUFFICES ASSUME NEW x \in CopyNames, InUse(s, x)', Fresh(s, x)'
                 PROVE  IsRecord(U!CopyOf(s, x))'
      BY DEF Loaded
    <2>1. CASE /\ h \notin DOMAIN users \/ c = "tgt"
               /\ U!Go(s, "main") /\ stale' = stale \cup U!Others(s, c) /\ tgt' = tgt
      <3>1. script'[s] = "main"
        BY <1>0, <2>1, StepGoesOn DEF PlaceOf, AccountsType
      <3>2. x = "own"
        BY <3>1 DEF InUse, CopyNames
      <3>3. U!CopyOf(s, "own")' = U!CopyOf(s, "own")
        BY <1>4 DEF U!CopyOf
      <3>4. CASE c = "own"
        <4>1. InUse(s, c) /\ Fresh(s, c)
          BY <1>0, <1>1, <1>4, <1>12, <2>1, <3>2, <3>4 DEF Deletes
        <4>2. IsRecord(U!CopyOf(s, c))
          BY <1>0, <1>4, <4>1 DEF Loaded
        <4> QED
          BY <1>2, <2>1, <3>4, <4>2 DEF IsRecord
      <3>5. CASE c = "tgt"
        <4>1. Fresh(s, x) /\ U!CopyOf(s, x).handle # h
          BY <1>12, <3>2, <3>5
        <4>2. InUse(s, x)
          BY <1>17, <3>2, <3>3, <3>5 DEF InUse
        <4>3. IsRecord(U!CopyOf(s, x))
          BY <1>0, <1>4, <4>1, <4>2 DEF Loaded
        <4> QED
          BY <1>11, <3>2, <3>3, <4>1, <4>3 DEF IsRecord
      <3> QED
        BY <3>4, <3>5 DEF CopyNames
    <2>2. CASE U!Go(s, "gone")
      <3>1. script'[s] = "gone"
        BY <1>0, <2>2, StepGoesOn DEF PlaceOf, AccountsType
      <3> QED
        BY <3>1 DEF InUse
    <2>3. CASE /\ c = "tgt" /\ U!Go(s, "profile")
               /\ \E next \in DOMAIN users' : tgt' = [tgt EXCEPT ![s] = U!Record(next)]
      <3>1. PICK next \in DOMAIN users' : tgt' = [tgt EXCEPT ![s] = U!Record(next)]
        BY <2>3
      <3>2. CASE x = "tgt"
        <4>1. tgt'[s].handle = next /\ tgt'[s].groups = users[next]
          BY <1>0, <3>1 DEF U!Record
        <4>2. users'[next] = users[next]
          BY <1>4
        <4> QED
          BY <3>2, <4>1, <4>2 DEF IsRecord, U!CopyOf
      <3>3. CASE x = "own"
        <4>1. U!CopyOf(s, x)' = U!CopyOf(s, x)
          BY <1>4, <3>3 DEF U!CopyOf
        <4>2. Fresh(s, x) /\ U!CopyOf(s, x).handle # h
          BY <1>12, <2>3, <3>3
        <4>3. InUse(s, x)
          BY <1>17, <2>3, <3>3, <4>1 DEF InUse
        <4>4. IsRecord(U!CopyOf(s, x))
          BY <1>0, <1>4, <4>2, <4>3 DEF Loaded
        <4> QED
          BY <1>11, <4>1, <4>2, <4>4 DEF IsRecord
      <3> QED
        BY <3>2, <3>3 DEF CopyNames
    <2> QED
      BY <1>5, <2>1, <2>2, <2>3
  <1>19. Deletes(s)'
    BY <1>13 DEF Deletes
  <1> QED
    BY <1>9, <1>10, <1>11, <1>12, <1>13, <1>14, <1>15, <1>16, <1>18, <1>19, DatabaseStep

\* Who is disconnected in between leaves a user half-way.
LEMMA DisconnectStep ==
  ASSUME AccountsInv, NEW s \in Session, U!Disconnect(s)
  PROVE  AccountsInv'
  <1>1. PICK c \in CopyNames : c = db[s].copy
    BY DEF AccountsInv, AccountsType, IsStep
  <1>2. PICK h : h = U!CopyOf(s, c).handle
    OBVIOUS
  <1>0. AccountsType /\ U!Idle.step = "none"
    BY DEF AccountsInv, U!Idle
  <1>3. /\ users' = users /\ members' = members /\ own' = own /\ tgt' = tgt /\ stale' = stale
        /\ U!Go(s, "gone")
        /\ tainted' = IF db[s] = U!Idle THEN tainted ELSE tainted \cup {h}
    BY <1>1, <1>2 DEF U!Disconnect
  <1>4. CopiesOf(s) /\ StaleOf(s) /\ AccountStepOf(s, U!Idle) /\ PlaceOf(s, "gone")
    BY <1>3, StepGoesOn, Unread
  <1>5. CASE db[s] = U!Idle
    BY <1>0, <1>3, <1>4, <1>5, OutsideStep
  <1>6. CASE db[s] # U!Idle
    <2>1. AccountsType' /\ OthersKeep(s) /\ db'[s] = U!Idle /\ script'[s] = "gone"
      BY <1>0, <1>3, <1>4, StepIs DEF AccountsType
    <2>2. tainted \subseteq tainted' /\ h \in tainted'
      BY <1>3, <1>6
    <2>3. \A t \in Session \ {s} : \A x \in CopyNames :
            /\ Fresh(t, x)' => Fresh(t, x)
            /\ Fresh(t, x) /\ U!CopyOf(t, x).handle # h => Fresh(t, x)'
      BY <1>3 DEF Fresh
    <2>4. Loaded(s)' /\ Deletes(s)' /\ db'[s].step = "none"
      BY <1>0, <2>1 DEF Loaded, Deletes, InUse
    <2>5. U!CopyOf(s, db[s].copy).handle = h
      BY <1>1, <1>2
    <2>6. \A k : k # h =>
           /\ k \in DOMAIN users' <=> k \in DOMAIN users
           /\ k \in DOMAIN users => users'[k] = users[k]
           /\ \A g \in Group : k \in members'[g] <=> k \in members[g]
      BY <1>3
    <2> QED
      BY <1>3, <2>1, <2>2, <2>3, <2>4, <2>5, <2>6, DatabaseStep
  <1> QED
    BY <1>5, <1>6

LEMMA AccountsNext == AccountsInv /\ [U!Next]_U!vars => AccountsInv'
  <1> SUFFICES ASSUME AccountsInv, [U!Next]_U!vars PROVE AccountsInv'
    OBVIOUS
  <1>1. CASE U!vars' = U!vars
    <2>1. /\ users' = users /\ members' = members /\ script' = script /\ db' = db
          /\ own' = own /\ tgt' = tgt /\ stale' = stale /\ tainted' = tainted
      BY <1>1 DEF U!vars
    <2>2. \A s, c : /\ U!CopyOf(s, c)' = U!CopyOf(s, c)
                    /\ Fresh(s, c)' <=> Fresh(s, c)
      BY <2>1 DEF U!CopyOf, Fresh
    <2>3. \A s : U!CopyOf(s, db[s].copy)' = U!CopyOf(s, db[s].copy)
                 /\ (Fresh(s, db[s].copy)' <=> Fresh(s, db[s].copy))
      BY <2>1 DEF U!CopyOf, Fresh
    <2>4. \A s, step, h : Makes(s, step, h)' <=> Makes(s, step, h)
      BY <2>1, <2>3 DEF Makes
    <2>5. \A h : Doomed(h)' <=> Doomed(h)
      BY <2>1, <2>3 DEF Doomed
    <2>6. \A h : Agrees(h)' <=> Agrees(h)
      BY <2>1 DEF Agrees
    <2>7. \A s, c : /\ InUse(s, c)' <=> InUse(s, c)
                    /\ IsRecord(U!CopyOf(s, c))' <=> IsRecord(U!CopyOf(s, c))
      BY <2>1, <2>2 DEF InUse, IsRecord
    <2>8. \A s : /\ InUse(s, db[s].copy)' <=> InUse(s, db[s].copy)
                 /\ IsRecord(U!CopyOf(s, db[s].copy))' <=> IsRecord(U!CopyOf(s, db[s].copy))
      BY <2>1, <2>3 DEF InUse, IsRecord
    <2>9. AccountsType'
      BY <2>1 DEF AccountsInv, AccountsType
    <2>10. HalfWay' /\ Removed' /\ OneAtATime'
      BY <2>1, <2>4, <2>5, <2>6 DEF AccountsInv, HalfWay, Removed, OneAtATime
    <2>11. Saved'
      BY <2>1, <2>3, <2>8 DEF AccountsInv, Saved
    <2>12. \A s \in Session : Loaded(s)' /\ Deletes(s)'
      BY <2>1, <2>2, <2>7, <2>8 DEF AccountsInv, Loaded, Deletes
    <2> QED
      BY <2>9, <2>10, <2>11, <2>12 DEF AccountsInv
  <1>2. ASSUME NEW s \in Session,
               \/ U!Connect(s) \/ U!LoginFails(s)
               \/ (\E h \in Handle \cup {U!Anonymous} : U!LogIn(s, h))
               \/ U!Apply(s) \/ (\E h \in Handle : U!EnterHandle(s, h)) \/ U!EnterField(s)
               \/ U!EnterAgainFails(s) \/ U!CancelNua(s) \/ U!Confirm(s)
               \/ U!ForgetPassword(s) \/ U!EmailFails(s)
               \/ (\E h \in Handle : U!EmailMatches(s, h)) \/ U!CancelReset(s)
               \/ U!PasskeyFails(s) \/ U!Reset(s)
        PROVE  AccountsInv'
    BY <1>2, LoginSteps
  <1>3. ASSUME NEW s \in Session, U!Top(s) \/ U!Profile(s) \/ U!Quit(s) PROVE AccountsInv'
    BY <1>3, MainSteps
  <1>4. ASSUME NEW s \in Session,
               \/ (\E h \in Handle : U!OtherUser(s, h)) \/ U!Edit(s)
               \/ (\E groups \in SUBSET Group : U!EditGroups(s, groups)) \/ U!DeleteTarget(s)
        PROVE  AccountsInv'
    BY <1>4, ProfileSteps
  <1>5. ASSUME NEW s \in Session,
               \/ U!SaveUser(s) \/ U!SaveGroups(s) \/ U!DeleteGroups(s) \/ U!DeleteUser(s)
               \/ U!Disconnect(s)
        PROVE  AccountsInv'
    BY <1>5, SaveUserStep, SaveGroupsStep, DeleteGroupsStep, DeleteUserStep, DisconnectStep
  <1> QED
    BY <1>1, <1>2, <1>3, <1>4, <1>5 DEF U!Next

LEMMA AccountsAgree == AccountsInv => U!GroupsAgree
  <1> SUFFICES ASSUME AccountsInv, \A s \in Session : db[s] = U!Idle,
                      NEW h \in Handle \ tainted
               PROVE  Agrees(h)
    BY DEF U!GroupsAgree, Agrees
  <1>1. \A s \in Session : db[s].step = "none"
    BY DEF U!Idle
  <1>2. ~Doomed(h) /\ \A s \in Session : ~Makes(s, "save_groups", h) /\ ~Makes(s, "delete_user", h)
    BY <1>1 DEF Doomed, Makes
  <1> QED
    BY <1>2 DEF AccountsInv, HalfWay

\* bbs/userbase.py:246-335: the groups agree with the users, when nobody saves or deletes, but for
\* users that were saved from a copy that was overtaken, or half.
THEOREM GroupsAgreeWithUsers == U!Spec => []U!GroupsAgree
  BY AccountsInit, AccountsNext, AccountsAgree, PTL DEF U!Spec

-----------------------------------------------------------------------------
(* Oneliners.                                                                 *)

\* A set of natural numbers that is not empty has a least element.
LEMMA LeastNatural ==
  ASSUME NEW T \in SUBSET Nat, T # {}
  PROVE  \E x \in T : \A y \in T : x <= y
  <1>1. PICK k \in T : TRUE
    OBVIOUS
  <1> DEFINE Up(j) == 0 .. j
             Ups   == {Up(j) : j \in {i \in T : i <= k}}
  <1>2. IsWellFoundedOn(StrictSubsetOrdering(Up(k)), FiniteSubsetsOf(Up(k)))
    <2>1. IsFiniteSet(Up(k))
      BY <1>1, FS_Interval
    <2> QED
      BY <2>1, FS_StrictSubsetOrderingWellFounded
  <1>3. Ups \subseteq FiniteSubsetsOf(Up(k)) /\ Ups # {}
    <2>1. Up(k) \in Ups
      OBVIOUS
    <2>2. ASSUME NEW j \in T, j <= k PROVE Up(j) \in FiniteSubsetsOf(Up(k))
      <3>1. IsFiniteSet(Up(j)) /\ Up(j) \subseteq Up(k)
        BY <2>2, FS_Interval
      <3> HIDE DEF Up
      <3> QED
        BY <3>1 DEF FiniteSubsetsOf
    <2> QED
      BY <2>1, <2>2
  <1>4. PICK u \in Ups : \A v \in Ups : ~(<<v, u>> \in StrictSubsetOrdering(Up(k)))
    <2> HIDE DEF Ups, Up
    <2> QED
      BY <1>2, <1>3, WFMin
  <1>5. PICK j \in T : j <= k /\ u = Up(j)
    BY <1>4
  <1>6. ASSUME NEW y \in T PROVE j <= y
    <2> SUFFICES ASSUME y < j PROVE FALSE
      OBVIOUS
    <2>1. Up(y) \in Ups /\ Up(y) \subseteq Up(j) /\ Up(y) # Up(j) /\ Up(j) \subseteq Up(k)
      BY <1>5
    <2> HIDE DEF Up, Ups
    <2> QED
      BY <1>4, <1>5, <2>1 DEF StrictSubsetOrdering
  <1> QED
    BY <1>5, <1>6

\* The cardinality in Oneliners is that of the library.
LEMMA OlCardinality == \A S : O!Cardinality(S) = Cardinality(S)
  BY DEF O!Cardinality, Cardinality

\* Of a finite set of records, as many have fewer than n that are older as n says.
LEMMA FewWithFewOlder ==
  ASSUME NEW records, IsFiniteSet(DOMAIN records), NEW max \in Nat,
         \A k \in DOMAIN records : records[k] \in 0 .. max,
         \A k, l \in DOMAIN records : records[k] = records[l] => k = l,
         NEW n \in Nat
  PROVE  Cardinality({k \in DOMAIN records : Cardinality(O!Older(records, k)) < n}) <= n
  <1> DEFINE R == {k \in DOMAIN records : Cardinality(O!Older(records, k)) < n}
             T == {max - records[k] : k \in R}
  <1>0. IsFiniteSet(R) /\ Cardinality(R) \in Nat
    BY FS_Subset, FS_CardinalityType
  <1>1. CASE R = {}
    BY <1>1, FS_EmptySet
  <1>2. CASE R # {}
    <2>1. T \in SUBSET Nat /\ T # {}
      <3>1. \A k \in R : max - records[k] \in Nat
        OBVIOUS
      <3> QED
        BY <1>2, <3>1
    <2>2. PICK x \in T : \A y \in T : x <= y
      <3> HIDE DEF T
      <3> QED
        BY <2>1, LeastNatural
    <2>3. PICK m \in R : x = max - records[m]
      BY <2>2
    <2>4. R \ {m} \subseteq O!Older(records, m)
      <3> SUFFICES ASSUME NEW k \in R, k # m PROVE k \in O!Older(records, m)
        OBVIOUS
      <3>1. max - records[m] <= max - records[k]
        BY <2>2, <2>3
      <3>2. records[k] < records[m]
        BY <3>1
      <3> QED
        BY <3>2 DEF O!Older
    <2>5. IsFiniteSet(O!Older(records, m))
      BY FS_Subset DEF O!Older
    <2>6. Cardinality(R \ {m}) <= Cardinality(O!Older(records, m))
      BY <2>4, <2>5, FS_Subset
    <2>7. Cardinality(R \ {m}) = Cardinality(R) - 1
      BY <1>0, <2>3, FS_RemoveElement
    <2>8. Cardinality(O!Older(records, m)) < n /\ Cardinality(O!Older(records, m)) \in Nat
      BY <2>3, <2>5, FS_CardinalityType
    <2> DEFINE r == Cardinality(R)
               o == Cardinality(O!Older(records, m))
    <2>9. r \in Nat /\ o \in Nat /\ o < n /\ r - 1 <= o
      BY <1>0, <2>6, <2>7, <2>8
    <2>10. r <= n
      <3> HIDE DEF r, o
      <3> QED
        BY <2>9
    <2> QED
      BY <2>10
  <1> QED
    BY <1>1, <1>2

\* The latest n of some times are no more than n.
LEMMA LatestAreFew ==
  ASSUME NEW times, NEW max \in Nat, times \subseteq 1 .. max, NEW n \in Nat
  PROVE  /\ O!Latest(times, n) \subseteq times
         /\ IsFiniteSet(O!Latest(times, n))
         /\ Cardinality(O!Latest(times, n)) <= n
  <1> DEFINE R == O!Latest(times, n)
             After(t) == {u \in times : u > t}
  <1>a. R = {t \in times : Cardinality(After(t)) < n}
    BY OlCardinality DEF O!Latest
  <1>b. IsFiniteSet(times)
    <2>1. IsFiniteSet(1 .. max)
      BY FS_Interval
    <2> QED
      BY <2>1, FS_Subset
  <1> HIDE DEF R
  <1>0. R \subseteq times /\ IsFiniteSet(R) /\ Cardinality(R) \in Nat
    <2> HIDE DEF After
    <2>1. R \subseteq times
      BY <1>a
    <2> QED
      BY <1>b, <2>1, FS_Subset, FS_CardinalityType
  <1>1. R = {} => Cardinality(R) <= n
    BY FS_EmptySet
  <1>2. ASSUME R # {} PROVE Cardinality(R) <= n
    <2>2. PICK m \in R : \A u \in R : m <= u
      <3>1. R \in SUBSET Nat
        BY <1>0
      <3> QED
        BY <1>2, <3>1, LeastNatural
    <2>3. R \ {m} \subseteq After(m)
      <3>1. \A u \in R : u \in Int /\ u \in times
        BY <1>0
      <3> QED
        BY <2>2, <3>1
    <2>4. IsFiniteSet(After(m))
      BY <1>b, FS_Subset
    <2>7. Cardinality(After(m)) < n /\ Cardinality(After(m)) \in Nat
      <3> HIDE DEF After
      <3> QED
        BY <1>a, <2>2, <2>4, FS_CardinalityType
    <2> HIDE DEF After
    <2>5. Cardinality(R \ {m}) <= Cardinality(After(m))
      BY <2>3, <2>4, FS_Subset
    <2>6. Cardinality(R \ {m}) = Cardinality(R) - 1
      BY <1>0, <2>2, FS_RemoveElement
    <2> DEFINE r == Cardinality(R)
               a == Cardinality(After(m))
    <2>9. r \in Nat /\ a \in Nat /\ a < n /\ r - 1 <= a
      BY <1>0, <2>5, <2>6, <2>7
    <2>10. r <= n
      <3> HIDE DEF r, a
      <3> QED
        BY <2>9
    <2> QED
      BY <2>10
  <1> QED
    BY <1>0, <1>1, <1>2 DEF R

\* What is in one set or another
LEMMA UnionIsFinite ==
  ASSUME NEW S, NEW T, IsFiniteSet(S), IsFiniteSet(T)
  PROVE  /\ IsFiniteSet(S \cup T)
         /\ Cardinality(S \cup T) <= Cardinality(S) + Cardinality(T)
         /\ Cardinality(S) \in Nat /\ Cardinality(T) \in Nat /\ Cardinality(S \cup T) \in Nat
  <1>1. IsFiniteSet(S \cup T) /\ IsFiniteSet(S \cap T)
    BY FS_Union, FS_Intersection
  <1>2. Cardinality(S \cup T) = Cardinality(S) + Cardinality(T) - Cardinality(S \cap T)
    BY FS_Union
  <1> QED
    BY <1>1, <1>2, FS_CardinalityType

IsThread(t) == t = [state |-> t.state, existing |-> t.existing, new |-> t.new]
IsReading(r) == r = [key |-> r.key, contents |-> r.contents]

\* Every oneliner has a time of its own.  Those of the wall have it as their key; when there is
\* a wall nobody writes to the table alone, and when there is none nothing is merged.
TimesOf(records, max) ==
  /\ IsFiniteSet(DOMAIN records)
  /\ \A k \in DOMAIN records : records[k] \in 1 .. max
  /\ \A k, l \in DOMAIN records : records[k] = records[l] => k = l

ThreadOf(t) ==
  /\ IsThread(t)
  /\ t.new \subseteq 1 .. lines /\ IsFiniteSet(t.new) /\ Cardinality(t.new) <= MAX_HISTORY

OnelinersType ==
  /\ lines \in Nat
  /\ wall \subseteq 1 .. lines
  /\ TimesOf(udb, lines)
  /\ doing = [s \in Session |-> doing[s]]
  /\ thread = [s \in Session |-> thread[s]]
  /\ read = [s \in Session |-> read[s]]
  /\ \A s \in Session : ThreadOf(thread[s]) /\ IsReading(read[s])
  /\ shroo_ms_enabled =>
       /\ \A k \in DOMAIN udb : udb[k] = k
       /\ \A s \in Session : doing[s] # "writing"
  /\ ~shroo_ms_enabled => wall = {} /\ \A s \in Session : thread[s].new = {}

\* The configuration stays as it is.
LEMMA EnabledStays == [O!Next]_O!vars => (shroo_ms_enabled' <=> shroo_ms_enabled)
  <1> SUFFICES ASSUME [O!Next]_O!vars PROVE shroo_ms_enabled' <=> shroo_ms_enabled
    OBVIOUS
  <1>1. shroo_ms_enabled' = shroo_ms_enabled
    BY DEF O!Next, O!vars, O!Elsewhere, O!Enter, O!Fetch, O!ThreadEnds, O!Draw, O!Redraw, O!Say,
       O!Post, O!NextKey, O!AddOneline, O!CheckCeiling, O!CopyRecords, O!SortRecords,
       O!DeleteRecord, O!EndTrim, O!Leave
  <1> QED
    BY <1>1

LEMMA OnelinersTypeInit == O!OnelinersAssumption /\ O!Init => OnelinersType
  <1> SUFFICES ASSUME O!OnelinersAssumption, O!Init PROVE OnelinersType
    OBVIOUS
  <1>1. IsFiniteSet({}) /\ Cardinality({}) = 0
    BY FS_EmptySet
  <1>2. DOMAIN udb = {} /\ udb = << >>
    BY DEF O!Init
  <1>3. MAX_HISTORY \in Nat /\ lines = 0 /\ wall = {}
    BY DEF O!OnelinersAssumption, O!Init
  <1>4. ThreadOf(O!NoThread) /\ O!NoThread.new = {} /\ IsReading(O!Nothing)
    BY <1>1, <1>3 DEF ThreadOf, IsThread, IsReading, O!NoThread, O!Nothing
  <1>5. TimesOf(udb, lines)
    BY <1>1, <1>2 DEF TimesOf
  <1>6. \A s \in Session : doing[s] # "writing" /\ thread[s] = O!NoThread /\ read[s] = O!Nothing
    BY DEF O!Init
  <1>7. /\ doing = [s \in Session |-> doing[s]]
        /\ thread = [s \in Session |-> thread[s]]
        /\ read = [s \in Session |-> read[s]]
    BY DEF O!Init
  <1> QED
    BY <1>2, <1>3, <1>4, <1>5, <1>6, <1>7 DEF OnelinersType

\* What a step that leaves the table alone keeps
LEMMA TableStays ==
  ASSUME OnelinersType, shroo_ms_enabled' <=> shroo_ms_enabled, udb' = udb,
         lines' \in Nat, lines <= lines', wall' \subseteq 1 .. lines',
         ~shroo_ms_enabled => wall' = {},
         doing' = [s \in Session |-> doing'[s]],
         thread' = [s \in Session |-> thread'[s]],
         read' = [s \in Session |-> read'[s]],
         \A s \in Session : IsReading(read'[s]),
         \A s \in Session : thread'[s] = thread[s] \/
           (/\ IsThread(thread'[s])
            /\ thread'[s].new \subseteq 1 .. lines /\ IsFiniteSet(thread'[s].new)
            /\ Cardinality(thread'[s].new) <= MAX_HISTORY
            /\ ~shroo_ms_enabled => thread'[s].new = {}),
         \A s \in Session : shroo_ms_enabled => doing'[s] # "writing"
  PROVE  OnelinersType'
  <1>1. TimesOf(udb', lines')
    BY DEF OnelinersType, TimesOf
  <1>2. \A s \in Session : ThreadOf(thread[s])'
    BY DEF OnelinersType, ThreadOf
  <1>3. shroo_ms_enabled' => \A k \in DOMAIN udb' : udb'[k] = k
    BY DEF OnelinersType
  <1>4. ~shroo_ms_enabled' => wall' = {} /\ \A s \in Session : thread'[s].new = {}
    BY DEF OnelinersType
  <1>5. shroo_ms_enabled' => \A s \in Session : doing'[s] # "writing"
    OBVIOUS
  <1> QED
    BY <1>1, <1>2, <1>3, <1>4, <1>5 DEF OnelinersType

\* The threads and what has been read are records, of whatever is put in them.
LEMMA Records ==
  ASSUME NEW t, IsThread(t), NEW r, IsReading(r), NEW x
  PROVE  /\ [t EXCEPT !.state = x] = [state |-> x, existing |-> t.existing, new |-> t.new]
         /\ IsReading([r EXCEPT !.key = x])
         /\ [r EXCEPT !.contents = x] = [key |-> r.key, contents |-> x]
  <1>1. [t EXCEPT !.state = x] = [state |-> x, existing |-> t.existing, new |-> t.new]
    <2>1. t = [state |-> t.state, existing |-> t.existing, new |-> t.new]
      BY DEF IsThread
    <2> QED
      BY <2>1
  <1>2. [r EXCEPT !.key = x] = [key |-> x, contents |-> r.contents]
    BY DEF IsReading
  <1>3. IsReading([key |-> x, contents |-> r.contents])
    BY DEF IsReading
  <1>4. [r EXCEPT !.contents = x] = [key |-> r.key, contents |-> x]
    BY DEF IsReading
  <1> QED
    BY <1>1, <1>2, <1>3, <1>4

\* A thread that has found nothing
LEMMA NewThreads ==
  ASSUME MAX_HISTORY \in Nat
  PROVE  /\ IsThread(O!NoThread) /\ O!NoThread.new = {}
         /\ IsThread(O!Fetching) /\ O!Fetching.new = {}
         /\ IsFiniteSet({}) /\ Cardinality({}) <= MAX_HISTORY
         /\ IsReading(O!Nothing)
  BY FS_EmptySet DEF IsThread, IsReading, O!NoThread, O!Fetching, O!Nothing

LEMMA OnelinersTypeStays ==
  ASSUME O!OnelinersAssumption, OnelinersType, shroo_ms_enabled' <=> shroo_ms_enabled,
         NEW s \in Session,
         \/ O!Elsewhere \/ O!Enter(s) \/ O!Fetch(s) \/ O!ThreadEnds(s) \/ O!Redraw(s)
         \/ O!Say(s) \/ O!Post(s) \/ O!NextKey(s) \/ O!CheckCeiling(s) \/ O!CopyRecords(s)
         \/ O!SortRecords(s) \/ O!EndTrim(s) \/ O!Leave(s)
  PROVE  OnelinersType'
  <1>0. /\ lines \in Nat /\ wall \subseteq 1 .. lines /\ MAX_HISTORY \in Nat
        /\ doing = [x \in Session |-> doing[x]]
        /\ thread = [x \in Session |-> thread[x]]
        /\ read = [x \in Session |-> read[x]]
        /\ \A x \in Session : IsThread(thread[x]) /\ IsReading(read[x])
        /\ ~shroo_ms_enabled => wall = {} /\ \A x \in Session : thread[x].new = {}
        /\ shroo_ms_enabled => \A x \in Session : doing[x] # "writing"
    BY DEF O!OnelinersAssumption, OnelinersType, ThreadOf
  <1>n. /\ IsThread(O!NoThread) /\ O!NoThread.new = {}
        /\ IsThread(O!Fetching) /\ O!Fetching.new = {}
        /\ IsFiniteSet({}) /\ Cardinality({}) <= MAX_HISTORY
        /\ IsReading(O!Nothing)
    BY <1>0, NewThreads
  <1>1. CASE O!Elsewhere
    <2>1. /\ lines' = lines + 1 /\ wall' = wall \cup {lines'} /\ shroo_ms_enabled
          /\ udb' = udb /\ doing' = doing /\ thread' = thread /\ read' = read
      BY <1>1 DEF O!Elsewhere
    <2>2. wall' \subseteq 1 .. lines' /\ lines' \in Nat /\ lines <= lines'
      BY <1>0, <2>1
    <2> QED
      BY <1>0, <2>1, <2>2, TableStays
  <1>2. CASE O!Enter(s)
    <2>1. /\ lines' = lines /\ wall' = wall /\ udb' = udb /\ read' = read
          /\ doing' = [doing EXCEPT ![s] = "prompt"]
          /\ \E t \in {O!Fetching, O!NoThread} : thread' = [thread EXCEPT ![s] = t]
      BY <1>2 DEF O!Enter, O!Goes
    <2>2. /\ thread' = [x \in Session |-> thread'[x]]
          /\ thread'[s] \in {O!Fetching, O!NoThread}
          /\ \A x \in Session \ {s} : thread'[x] = thread[x]
      BY <1>0, <2>1
    <2>3. /\ IsThread(thread'[s]) /\ thread'[s].new = {}
      BY <1>n, <2>2
    <2>4. /\ doing' = [x \in Session |-> doing'[x]]
          /\ \A x \in Session : doing'[x] = "prompt" \/ doing'[x] = doing[x]
      BY <1>0, <2>1
    <2>9. \A x \in Session : thread'[x] = thread[x] \/
            (/\ IsThread(thread'[x])
             /\ thread'[x].new \subseteq 1 .. lines /\ IsFiniteSet(thread'[x].new)
             /\ Cardinality(thread'[x].new) <= MAX_HISTORY
             /\ ~shroo_ms_enabled => thread'[x].new = {})
      BY <1>n, <2>2, <2>3
    <2>10. \A x \in Session : shroo_ms_enabled => doing'[x] # "writing"
      BY <1>0, <2>4
    <2> QED
      BY <1>0, <2>1, <2>9, <2>10, <2>2, <2>4, TableStays
  <1>3. CASE O!Fetch(s)
    <2>1. /\ lines' = lines /\ wall' = wall /\ udb' = udb /\ read' = read /\ doing' = doing
      BY <1>3 DEF O!Fetch
    <2>2. PICK content \in {O!Latest(wall, MAX_HISTORY), {}} :
            thread' = [thread EXCEPT ![s] =
                         [state |-> "ending", existing |-> thread[s].existing,
                          new |-> content \ thread[s].existing]]
      BY <1>3 DEF O!Fetch
    <2>3. content \subseteq wall /\ IsFiniteSet(content) /\ Cardinality(content) <= MAX_HISTORY
      BY <1>0, <1>n, LatestAreFew
    <2> DEFINE new == content \ thread[s].existing
    <2>4. /\ new \subseteq wall /\ IsFiniteSet(new) /\ Cardinality(new) <= Cardinality(content)
          /\ Cardinality(new) \in Nat /\ Cardinality(content) \in Nat
      <3>1. new \subseteq content
        OBVIOUS
      <3> HIDE DEF new
      <3> QED
        BY <2>3, <3>1, FS_Subset, FS_CardinalityType
    <2>5. /\ thread'[s] = [state |-> "ending", existing |-> thread[s].existing, new |-> new]
          /\ thread' = [x \in Session |-> thread'[x]]
          /\ \A x \in Session \ {s} : thread'[x] = thread[x]
      BY <1>0, <2>2
    <2> HIDE DEF new
    <2>6. IsThread(thread'[s]) /\ thread'[s].new = new
      BY <2>5 DEF IsThread
    <2>7. Cardinality(new) <= MAX_HISTORY
      BY <1>0, <2>3, <2>4
    <2>8. ~shroo_ms_enabled => new = {}
      BY <1>0, <2>4
    <2> QED
      BY <1>0, <2>1, <2>4, <2>5, <2>6, <2>7, <2>8, TableStays
  <1>4. CASE O!ThreadEnds(s)
    <2>1. /\ lines' = lines /\ wall' = wall /\ udb' = udb /\ read' = read /\ doing' = doing
          /\ thread' = [thread EXCEPT ![s].state = "ended"]
      BY <1>4 DEF O!ThreadEnds
    <2>2. /\ thread'[s] = [state |-> "ended", existing |-> thread[s].existing,
                           new |-> thread[s].new]
          /\ thread' = [x \in Session |-> thread'[x]]
          /\ \A x \in Session \ {s} : thread'[x] = thread[x]
      BY <1>0, <2>1, Records
    <2>3. IsThread(thread'[s]) /\ thread'[s].new = thread[s].new
      BY <2>2 DEF IsThread
    <2>4. ThreadOf(thread[s])
      BY DEF OnelinersType
    <2>5. /\ thread[s].new \subseteq 1 .. lines /\ IsFiniteSet(thread[s].new)
          /\ Cardinality(thread[s].new) <= MAX_HISTORY
      BY <2>4 DEF ThreadOf
    <2>9. \A x \in Session : thread'[x] = thread[x] \/
            (/\ IsThread(thread'[x])
             /\ thread'[x].new \subseteq 1 .. lines /\ IsFiniteSet(thread'[x].new)
             /\ Cardinality(thread'[x].new) <= MAX_HISTORY
             /\ ~shroo_ms_enabled => thread'[x].new = {})
      BY <1>0, <2>2, <2>3, <2>5
    <2>10. \A x \in Session : shroo_ms_enabled => doing'[x] # "writing"
      BY <1>0, <2>1
    <2> QED
      BY <1>0, <2>1, <2>9, <2>10, <2>2, TableStays
  <1>5. CASE O!Redraw(s)
    <2>1. /\ lines' = lines /\ wall' = wall /\ udb' = udb /\ read' = read /\ doing' = doing
          /\ thread' = thread
      BY <1>5 DEF O!Redraw
    <2> QED
      BY <1>0, <2>1, TableStays
  <1>6. CASE O!Say(s)
    <2>1. /\ lines' = lines /\ wall' = wall /\ udb' = udb /\ read' = read /\ thread' = thread
          /\ doing' = [doing EXCEPT ![s] = "saying"]
      BY <1>6 DEF O!Say, O!Goes
    <2> QED
      BY <1>0, <2>1, TableStays
  <1>7. CASE O!Post(s)
    <2>1. /\ udb' = udb /\ read' = read /\ doing' = [doing EXCEPT ![s] = "prompt"]
          /\ shroo_ms_enabled
          /\ \/ lines' = lines /\ wall' = wall /\ thread' = thread
             \/ /\ lines' = lines + 1 /\ wall' = wall \cup {lines'}
                /\ thread' = [thread EXCEPT ![s] = O!Fetching]
      BY <1>7 DEF O!Post, O!Goes
    <2>2. wall' \subseteq 1 .. lines' /\ lines' \in Nat /\ lines <= lines'
      BY <1>0, <2>1
    <2> QED
      BY <1>0, <1>n, <2>1, <2>2, TableStays
  <1>8. CASE O!NextKey(s)
    <2>1. /\ lines' = lines /\ wall' = wall /\ udb' = udb /\ thread' = thread
          /\ doing' = [doing EXCEPT ![s] = "writing"] /\ ~shroo_ms_enabled
      BY <1>8 DEF O!NextKey, O!Goes
    <2>3. PICK k : read' = [read EXCEPT ![s].key = k]
      BY <1>8 DEF O!NextKey
    <2>2. /\ read' = [x \in Session |-> read'[x]]
          /\ \A x \in Session : IsReading(read'[x])
      <3>1. IsReading([read[s] EXCEPT !.key = k])
        BY <1>0, Records
      <3> QED
        BY <1>0, <2>3, <3>1
    <2> QED
      BY <1>0, <2>1, <2>2, TableStays
  <1>9. CASE O!CheckCeiling(s)
    <2>1. /\ lines' = lines /\ wall' = wall /\ udb' = udb /\ read' = read /\ thread' = thread
          /\ \E stage \in {"copying", "prompt"} : doing' = [doing EXCEPT ![s] = stage]
      BY <1>9 DEF O!CheckCeiling, O!Trimmed, O!Goes
    <2> QED
      BY <1>0, <2>1, TableStays
  <1>10. CASE O!CopyRecords(s) \/ O!SortRecords(s)
    <2>1. /\ lines' = lines /\ wall' = wall /\ udb' = udb /\ thread' = thread
          /\ \E stage \in {"sorting", "deleting"} : doing' = [doing EXCEPT ![s] = stage]
      BY <1>10 DEF O!CopyRecords, O!SortRecords, O!Goes
    <2>3. PICK c : read' = [read EXCEPT ![s].contents = c]
      BY <1>10 DEF O!CopyRecords, O!SortRecords
    <2>2. /\ read' = [x \in Session |-> read'[x]]
          /\ \A x \in Session : IsReading(read'[x])
      <3>1. [read[s] EXCEPT !.contents = c] = [key |-> read[s].key, contents |-> c]
        BY <1>0, Records
      <3>2. IsReading([key |-> read[s].key, contents |-> c])
        BY DEF IsReading
      <3> QED
        BY <1>0, <2>3, <3>1, <3>2
    <2> QED
      BY <1>0, <2>1, <2>2, TableStays
  <1>11. CASE O!EndTrim(s)
    <2>1. /\ lines' = lines /\ wall' = wall /\ udb' = udb /\ read' = read /\ thread' = thread
          /\ doing' = [doing EXCEPT ![s] = "prompt"]
      BY <1>11 DEF O!EndTrim, O!Trimmed, O!Goes
    <2> QED
      BY <1>0, <2>1, TableStays
  <1>12. CASE O!Leave(s)
    <2>1. /\ lines' = lines /\ wall' = wall /\ udb' = udb
          /\ read' = [read EXCEPT ![s] = O!Nothing]
          /\ thread' = [thread EXCEPT ![s] = O!NoThread]
          /\ doing' = [doing EXCEPT ![s] = "out"]
      BY <1>12 DEF O!Leave, O!Ended, O!Goes
    <2>2. /\ thread' = [x \in Session |-> thread'[x]]
          /\ thread'[s] = O!NoThread
          /\ \A x \in Session \ {s} : thread'[x] = thread[x]
          /\ doing' = [x \in Session |-> doing'[x]]
          /\ \A x \in Session : doing'[x] = "out" \/ doing'[x] = doing[x]
          /\ read' = [x \in Session |-> read'[x]]
          /\ \A x \in Session : read'[x] = O!Nothing \/ read'[x] = read[x]
      BY <1>0, <2>1
    <2>3. /\ IsThread(thread'[s]) /\ thread'[s].new = {}
          /\ \A x \in Session : IsReading(read'[x])
      BY <1>0, <1>n, <2>2
    <2>9. \A x \in Session : thread'[x] = thread[x] \/
            (/\ IsThread(thread'[x])
             /\ thread'[x].new \subseteq 1 .. lines /\ IsFiniteSet(thread'[x].new)
             /\ Cardinality(thread'[x].new) <= MAX_HISTORY
             /\ ~shroo_ms_enabled => thread'[x].new = {})
      BY <1>n, <2>2, <2>3
    <2>10. \A x \in Session : shroo_ms_enabled => doing'[x] # "writing"
      BY <1>0, <2>2
    <2> QED
      BY <1>0, <2>1, <2>9, <2>10, <2>2, <2>3, TableStays
  <1> QED
    BY <1>1, <1>2, <1>3, <1>4, <1>5, <1>6, <1>7, <1>8, <1>9, <1>10, <1>11, <1>12

\* What a step that changes the table keeps
LEMMA TableChanges ==
  ASSUME OnelinersType, shroo_ms_enabled' <=> shroo_ms_enabled, MAX_HISTORY \in Nat,
         TimesOf(udb', lines'), shroo_ms_enabled => \A k \in DOMAIN udb' : udb'[k] = k,
         lines' \in Nat, lines <= lines', wall' = wall,
         doing' = [s \in Session |-> doing'[s]],
         thread' = [s \in Session |-> thread'[s]],
         read' = [s \in Session |-> read'[s]],
         \A s \in Session : IsReading(read'[s]),
         \A s \in Session : thread'[s] = thread[s] \/ thread'[s] = O!NoThread,
         \A s \in Session : doing'[s] = doing[s] \/ doing'[s] # "writing"
  PROVE  OnelinersType'
  <1>1. wall' \subseteq 1 .. lines'
    BY DEF OnelinersType
  <1>2. ASSUME NEW s \in Session PROVE ThreadOf(thread[s])'
    <2>1. IsThread(thread[s]) /\ thread[s].new \subseteq 1 .. lines
          /\ IsFiniteSet(thread[s].new) /\ Cardinality(thread[s].new) <= MAX_HISTORY
      BY DEF OnelinersType, ThreadOf
    <2>2. lines \in Nat /\ 1 .. lines \subseteq 1 .. lines'
      BY DEF OnelinersType
    <2>3. IsThread(thread'[s]) /\ thread'[s].new \subseteq 1 .. lines'
          /\ IsFiniteSet(thread'[s].new) /\ Cardinality(thread'[s].new) <= MAX_HISTORY
      <3>1. CASE thread'[s] = thread[s]
        BY <2>1, <2>2, <3>1
      <3>2. CASE thread'[s] = O!NoThread
        BY <3>2, NewThreads
      <3> QED
        BY <3>1, <3>2
    <2> QED
      BY <2>3 DEF ThreadOf
  <1>3. ~shroo_ms_enabled' => wall' = {} /\ \A s \in Session : thread'[s].new = {}
    BY NewThreads DEF OnelinersType
  <1>4. shroo_ms_enabled' => \A s \in Session : doing'[s] # "writing"
    BY DEF OnelinersType
  <1> QED
    BY <1>1, <1>2, <1>3, <1>4 DEF OnelinersType

\* The oneliners are drawn, after what a thread has found is merged.
LEMMA DrawKeepsType ==
  ASSUME O!OnelinersAssumption, OnelinersType, shroo_ms_enabled' <=> shroo_ms_enabled,
         NEW s \in Session, O!Draw(s)
  PROVE  OnelinersType'
  <1>0. /\ lines' = lines /\ wall' = wall /\ read' = read /\ MAX_HISTORY \in Nat
        /\ lines \in Nat /\ TimesOf(udb, lines) /\ lines <= lines
        /\ doing = [x \in Session |-> doing[x]] /\ thread = [x \in Session |-> thread[x]]
        /\ read = [x \in Session |-> read[x]] /\ \A x \in Session : IsReading(read[x])
        /\ shroo_ms_enabled => \A k \in DOMAIN udb : udb[k] = k
    BY DEF O!Draw, O!OnelinersAssumption, OnelinersType
  <1>1. thread' = thread \/ thread' = [thread EXCEPT ![s] = O!NoThread]
    BY DEF O!Draw
  <1>2. /\ thread' = [x \in Session |-> thread'[x]]
        /\ \A x \in Session : thread'[x] = thread[x] \/ thread'[x] = O!NoThread
    BY <1>0, <1>1
  <1>3. CASE udb' = udb /\ doing' = doing
    BY <1>0, <1>2, <1>3, TableChanges
  <1>4. CASE O!Merge(s) /\ thread[s].new # {}
    <2> DEFINE new == thread[s].new
    <2>1. /\ udb' = [key \in new \cup DOMAIN udb |-> IF key \in new THEN key ELSE udb[key]]
          /\ doing' = [doing EXCEPT ![s] = "checking"]
      BY <1>4 DEF O!Merge, O!Merged, O!Goes
    <2>2. shroo_ms_enabled /\ new \subseteq 1 .. lines /\ IsFiniteSet(new)
      BY <1>4 DEF OnelinersType, ThreadOf
    <2>3. /\ DOMAIN udb' = new \cup DOMAIN udb
          /\ \A k \in DOMAIN udb' : udb'[k] = k
      BY <1>0, <2>1, <2>2
    <2>4. \A k \in DOMAIN udb' : k \in 1 .. lines
      BY <1>0, <2>2, <2>3 DEF TimesOf
    <2>5. IsFiniteSet(DOMAIN udb')
      <3>1. IsFiniteSet(DOMAIN udb)
        BY <1>0 DEF TimesOf
      <3> HIDE DEF new
      <3> QED
        BY <2>2, <2>3, <3>1, UnionIsFinite
    <2>6. TimesOf(udb', lines)
      BY <2>3, <2>4, <2>5 DEF TimesOf
    <2>7. /\ doing' = [x \in Session |-> doing'[x]]
          /\ \A x \in Session : doing'[x] = doing[x] \/ doing'[x] # "writing"
      BY <1>0, <2>1
    <2> QED
      BY <1>0, <1>2, <2>3, <2>6, <2>7, TableChanges
  <1> QED
    BY <1>3, <1>4 DEF O!Draw

LEMMA AddKeepsType ==
  ASSUME O!OnelinersAssumption, OnelinersType, shroo_ms_enabled' <=> shroo_ms_enabled,
         NEW s \in Session, O!AddOneline(s)
  PROVE  OnelinersType'
  <1>0. /\ lines' = lines + 1 /\ wall' = wall /\ read' = read /\ thread' = thread
        /\ MAX_HISTORY \in Nat /\ lines \in Nat /\ TimesOf(udb, lines)
        /\ doing = [x \in Session |-> doing[x]] /\ thread = [x \in Session |-> thread[x]]
        /\ read = [x \in Session |-> read[x]] /\ \A x \in Session : IsReading(read[x])
        /\ doing' = [doing EXCEPT ![s] = "checking"]
    BY DEF O!AddOneline, O!OnelinersAssumption, OnelinersType, O!Goes
  <1>1. ~shroo_ms_enabled
    BY DEF O!AddOneline, OnelinersType
  <1> DEFINE key == read[s].key
  <1>2. udb' = [k \in DOMAIN udb \cup {key} |-> IF k = key THEN lines' ELSE udb[k]]
    BY DEF O!AddOneline
  <1> HIDE DEF key
  <1>3. IsFiniteSet(DOMAIN udb')
    BY <1>0, <1>2, FS_AddElement DEF TimesOf
  <1>4. TimesOf(udb', lines')
    <2>6. lines' = lines + 1
      BY <1>0
    <2>1. ASSUME NEW k \in DOMAIN udb'
          PROVE  \/ k = key /\ udb'[k] = lines + 1
                 \/ k # key /\ k \in DOMAIN udb /\ udb'[k] = udb[k]
      <3>1. k \in DOMAIN udb \cup {key}
        BY <1>2
      <3>2. udb'[k] = IF k = key THEN lines' ELSE udb[k]
        BY <1>2, <3>1
      <3> QED
        BY <2>6, <3>1, <3>2
    <2>2. \A k \in DOMAIN udb : udb[k] \in 1 .. lines
      BY <1>0 DEF TimesOf
    <2>3. \A k, l \in DOMAIN udb : udb[k] = udb[l] => k = l
      BY <1>0 DEF TimesOf
    <2>4. \A k \in DOMAIN udb' : udb'[k] \in 1 .. lines'
      BY <1>0, <2>1, <2>2
    <2>5. ASSUME NEW k \in DOMAIN udb', NEW l \in DOMAIN udb', udb'[k] = udb'[l] PROVE k = l
      BY <1>0, <2>1, <2>2, <2>3, <2>5
    <2> QED
      BY <1>3, <2>4, <2>5 DEF TimesOf
  <1>5. /\ doing' = [x \in Session |-> doing'[x]]
        /\ \A x \in Session : doing'[x] = doing[x] \/ doing'[x] # "writing"
        /\ lines' \in Nat /\ lines <= lines'
    BY <1>0
  <1> QED
    BY <1>0, <1>1, <1>4, <1>5, TableChanges

LEMMA DeleteKeepsType ==
  ASSUME O!OnelinersAssumption, OnelinersType, shroo_ms_enabled' <=> shroo_ms_enabled,
         NEW s \in Session, O!DeleteRecord(s)
  PROVE  OnelinersType'
  <1>0. /\ lines' = lines /\ wall' = wall
        /\ MAX_HISTORY \in Nat /\ lines \in Nat /\ lines <= lines /\ TimesOf(udb, lines)
        /\ doing = [x \in Session |-> doing[x]] /\ thread = [x \in Session |-> thread[x]]
        /\ read = [x \in Session |-> read[x]] /\ \A x \in Session : IsReading(read[x])
        /\ shroo_ms_enabled => \A k \in DOMAIN udb : udb[k] = k
    BY DEF O!DeleteRecord, O!OnelinersAssumption, OnelinersType
  <1>1. PICK key \in DOMAIN read[s].contents :
          IF key \in DOMAIN udb
          THEN /\ udb' = O!Restrict(udb, DOMAIN udb \ {key})
               /\ read' = [read EXCEPT ![s].contents = O!Restrict(@, DOMAIN @ \ {key})]
               /\ doing' = doing /\ thread' = thread
          ELSE O!Ended(s) /\ udb' = udb
    BY DEF O!DeleteRecord
  <1>2. CASE key \in DOMAIN udb
    <2>1. udb' = [k \in DOMAIN udb \ {key} |-> udb[k]]
      BY <1>1, <1>2 DEF O!Restrict
    <2>2. /\ DOMAIN udb' = DOMAIN udb \ {key}
          /\ \A k \in DOMAIN udb' : k \in DOMAIN udb /\ udb'[k] = udb[k]
      BY <2>1
    <2>3. IsFiniteSet(DOMAIN udb')
      BY <1>0, <2>2, FS_RemoveElement, FS_Subset DEF TimesOf
    <2>4. TimesOf(udb', lines)
      BY <1>0, <2>2, <2>3 DEF TimesOf
    <2>5. shroo_ms_enabled => \A k \in DOMAIN udb' : udb'[k] = k
      BY <1>0, <2>2
    <2>6. /\ read' = [x \in Session |-> read'[x]]
          /\ \A x \in Session : IsReading(read'[x])
      <3>1. PICK c : read' = [read EXCEPT ![s].contents = c]
        BY <1>1, <1>2
      <3>2. [read[s] EXCEPT !.contents = c] = [key |-> read[s].key, contents |-> c]
        BY <1>0, NewThreads, Records
      <3>3. IsReading([key |-> read[s].key, contents |-> c])
        BY DEF IsReading
      <3> QED
        BY <1>0, <3>1, <3>2, <3>3
    <2> QED
      BY <1>0, <1>1, <1>2, <2>4, <2>5, <2>6, TableChanges
  <1>3. CASE key \notin DOMAIN udb
    <2>1. /\ udb' = udb
          /\ read' = [read EXCEPT ![s] = O!Nothing]
          /\ thread' = [thread EXCEPT ![s] = O!NoThread]
          /\ doing' = [doing EXCEPT ![s] = "out"]
      BY <1>1, <1>3 DEF O!Ended, O!Goes
    <2>2. /\ thread' = [x \in Session |-> thread'[x]]
          /\ \A x \in Session : thread'[x] = thread[x] \/ thread'[x] = O!NoThread
          /\ doing' = [x \in Session |-> doing'[x]]
          /\ \A x \in Session : doing'[x] = doing[x] \/ doing'[x] # "writing"
          /\ read' = [x \in Session |-> read'[x]]
          /\ \A x \in Session : read'[x] = O!Nothing \/ read'[x] = read[x]
      BY <1>0, <2>1
    <2>3. \A x \in Session : IsReading(read'[x])
      BY <1>0, <2>2, NewThreads
    <2> QED
      BY <1>0, <2>1, <2>2, <2>3, TableChanges
  <1> QED
    BY <1>2, <1>3
Count   == Cardinality(DOMAIN udb)
Ceiling == MAX_HISTORY + Slack
NoOtherAdds(s) == \A x \in Session \ {s} : doing[x] \notin O!Adding

\* What a session that adds and trims alone has to go by at each stage
Trims(s) ==
  /\ NoOtherAdds(s) /\ doing[s] \in O!Adding
  /\ doing[s] = "writing" => Count <= Ceiling
  /\ doing[s] = "checking" => Count <= MAX_HISTORY + Ceiling
  /\ doing[s] \in {"copying", "sorting"} =>
       Ceiling < Count /\ Count <= MAX_HISTORY + Ceiling
  /\ doing[s] = "sorting" => read[s].contents = udb
  /\ doing[s] = "deleting" =>
       /\ DOMAIN read[s].contents \subseteq DOMAIN udb
       /\ Count <= Ceiling + Cardinality(DOMAIN read[s].contents)

Idle == Count <= Ceiling /\ \A s \in Session : doing[s] \notin O!Adding

TrimInv == ~disturbed => Idle \/ \E s \in Session : Trims(s)

OnelinersInv == OnelinersType /\ TrimInv

\* Of sessions that were not disturbed, one that adds does so alone.
LEMMA AddsAlone ==
  ASSUME TrimInv, ~disturbed, NEW s \in Session, doing[s] \in O!Adding
  PROVE  Trims(s)
  <1>1. PICK x \in Session : Trims(x)
    BY DEF TrimInv, Idle
  <1>2. s \in Session \ {x} => FALSE
    BY <1>1 DEF Trims, NoOtherAdds
  <1>3. s = x
    BY <1>2
  <1> QED
    BY <1>1, <1>3

\* The number of records is one.
LEMMA CountIsNatural ==
  ASSUME O!OnelinersAssumption, OnelinersType
  PROVE  /\ Count \in Nat /\ IsFiniteSet(DOMAIN udb) /\ O!Cardinality(DOMAIN udb) = Count
         /\ Ceiling \in Nat /\ MAX_HISTORY \in Nat /\ MAX_HISTORY >= 1 /\ MAX_HISTORY <= Ceiling
  <1>1. IsFiniteSet(DOMAIN udb)
    BY DEF OnelinersType, TimesOf
  <1>2. Count \in Nat
    BY <1>1, FS_CardinalityType DEF Count
  <1>3. O!Cardinality(DOMAIN udb) = Count
    BY OlCardinality DEF Count
  <1>4. MAX_HISTORY \in Nat \ {0} /\ Slack \in Nat
    BY DEF O!OnelinersAssumption
  <1> QED
    BY <1>1, <1>2, <1>3, <1>4 DEF Ceiling

\* A step of a session that is not trimming
LEMMA CalmStep ==
  ASSUME TrimInv, udb' = udb, ~disturbed' => ~disturbed,
         \A x \in Session : \/ doing'[x] = doing[x] /\ read'[x] = read[x]
                            \/ doing[x] \notin O!Adding /\ doing'[x] \notin O!Adding
  PROVE  TrimInv'
  <1> SUFFICES ASSUME ~disturbed' PROVE Idle' \/ \E s \in Session : Trims(s)'
    BY DEF TrimInv
  <1>1. Count' = Count /\ Ceiling' = Ceiling
    BY DEF Count, Ceiling
  <1>2. CASE Idle
    BY <1>1, <1>2 DEF Idle
  <1>3. ASSUME NEW s \in Session, Trims(s) PROVE Trims(s)'
    <2>1. doing'[s] = doing[s] /\ read'[s] = read[s]
      BY <1>3 DEF Trims
    <2>2. NoOtherAdds(s)'
      BY <1>3 DEF Trims, NoOtherAdds
    <2> QED
      BY <1>1, <1>3, <2>1, <2>2 DEF Trims
  <1> QED
    BY <1>2, <1>3 DEF TrimInv

\* A session that begins to add, and was not disturbed, finds the table as it is to be.
LEMMA BeginsAlone ==
  ASSUME TrimInv, ~disturbed, NEW s \in Session, doing[s] \notin O!Adding, ~O!OthersAdd(s)
  PROVE  NoOtherAdds(s) /\ Count <= Ceiling
  <1>1. \A x \in Session \ {s} : doing[x] \notin O!Adding
    BY DEF O!OthersAdd
  <1>2. \A x \in Session : doing[x] \notin O!Adding
    BY <1>1
  <1>3. ~Trims(s) /\ \A x \in Session : ~Trims(x)
    BY <1>2 DEF Trims
  <1> QED
    BY <1>1, <1>3 DEF TrimInv, Idle, NoOtherAdds

\* A step of a session that is alone with the table leaves it so.
LEMMA AloneStays ==
  ASSUME OnelinersType, NEW s \in Session, NoOtherAdds(s), NEW stage, doing' = [doing EXCEPT ![s] = stage]
  PROVE  doing'[s] = stage /\ NoOtherAdds(s)'
  <1>1. doing = [x \in Session |-> doing[x]]
    BY DEF OnelinersType
  <1>2. doing'[s] = stage /\ \A x \in Session \ {s} : doing'[x] = doing[x]
    BY <1>1
  <1> QED
    BY <1>2 DEF NoOtherAdds

\* Flags are raised by the steps that disturb a trim, and one that is not raised after them
\* was not before.
LEMMA Flags ==
  ASSUME O!TypeOK, NEW s \in Session, ~disturbed'
  PROVE  /\ disturbed' = disturbed => ~disturbed
         /\ disturbed' = (disturbed \/ O!OthersAdd(s)) => ~disturbed /\ ~O!OthersAdd(s)
         /\ disturbed' = (disturbed \/ doing[s] \in O!Adding)
              => ~disturbed /\ doing[s] \notin O!Adding
         /\ disturbed' = (disturbed /\ O!OthersAdd(s)) => ~disturbed \/ ~O!OthersAdd(s)
         /\ disturbed' = TRUE => FALSE
  <1>1. disturbed' = disturbed => ~disturbed
    OBVIOUS
  <1>2. disturbed' = (disturbed \/ O!OthersAdd(s)) => ~(disturbed \/ O!OthersAdd(s))
    OBVIOUS
  <1>3. disturbed' = (disturbed \/ doing[s] \in O!Adding)
          => ~(disturbed \/ doing[s] \in O!Adding)
    OBVIOUS
  <1>4. disturbed' = (disturbed /\ O!OthersAdd(s)) => ~(disturbed /\ O!OthersAdd(s))
    OBVIOUS
  <1>5. disturbed' = TRUE => FALSE
    OBVIOUS
  <1> QED
    BY <1>1, <1>2, <1>3, <1>4, <1>5

\* The sessions that are not trimming
LEMMA CalmSteps ==
  ASSUME OnelinersType, TrimInv, NEW s \in Session,
         \/ O!Elsewhere \/ O!Enter(s) \/ O!Fetch(s) \/ O!ThreadEnds(s) \/ O!Redraw(s)
         \/ O!Say(s) \/ O!Post(s) \/ O!Leave(s) \/ (O!Draw(s) /\ ~O!Merge(s))
  PROVE  TrimInv'
  <1>0. /\ doing = [x \in Session |-> doing[x]]
        /\ read = [x \in Session |-> read[x]]
    BY DEF OnelinersType
  <1> SUFFICES ASSUME ~disturbed' PROVE TrimInv'
    BY DEF TrimInv
  <1>1. CASE O!Elsewhere \/ O!Fetch(s) \/ O!ThreadEnds(s) \/ O!Redraw(s)
             \/ (O!Draw(s) /\ ~O!Merge(s))
    <2>1. udb' = udb /\ doing' = doing /\ read' = read
      BY <1>1 DEF O!Elsewhere, O!Fetch, O!ThreadEnds, O!Redraw, O!Draw
    <2>2. disturbed' = disturbed
      BY <1>1 DEF O!Elsewhere, O!Fetch, O!ThreadEnds, O!Redraw, O!Draw
    <2>3. ~disturbed
      BY <2>2
    <2> QED
      BY <2>1, <2>3, CalmStep
  <1>2. CASE O!Enter(s) \/ O!Say(s) \/ O!Post(s)
    <2>1. /\ udb' = udb /\ read' = read
          /\ \E stage \in {"prompt", "saying"} : doing' = [doing EXCEPT ![s] = stage]
          /\ doing[s] \in {"out", "prompt", "saying"}
      BY <1>2 DEF O!Enter, O!Say, O!Post, O!Goes
    <2>2. disturbed' = disturbed
      BY <1>2 DEF O!Enter, O!Say, O!Post
    <2>3. ~disturbed
      BY <2>2
    <2>4. /\ doing[s] \notin O!Adding /\ doing'[s] \notin O!Adding
          /\ \A x \in Session \ {s} : doing'[x] = doing[x]
      BY <1>0, <2>1 DEF O!Adding
    <2> QED
      BY <2>1, <2>3, <2>4, CalmStep
  <1>3. CASE O!Leave(s)
    <2>1. /\ udb' = udb /\ read' = [read EXCEPT ![s] = O!Nothing]
          /\ doing' = [doing EXCEPT ![s] = "out"]
      BY <1>3 DEF O!Leave, O!Ended, O!Goes
    <2>2. disturbed' = (disturbed \/ doing[s] \in O!Adding)
      BY <1>3 DEF O!Leave
    <2>3. ~disturbed /\ doing[s] \notin O!Adding
      BY <2>2
    <2>4. /\ doing'[s] \notin O!Adding
          /\ \A x \in Session \ {s} : doing'[x] = doing[x] /\ read'[x] = read[x]
      BY <1>0, <2>1 DEF O!Adding
    <2> QED
      BY <2>1, <2>3, <2>4, CalmStep
  <1> QED
    BY <1>1, <1>2, <1>3

\* A session adds to the table: what a thread found, or a oneliner of its own.
LEMMA AddingSteps ==
  ASSUME O!OnelinersAssumption, OnelinersType, TrimInv, NEW s \in Session,
         \/ (O!Draw(s) /\ O!Merge(s) /\ thread[s].new # {}) \/ O!NextKey(s) \/ O!AddOneline(s)
  PROVE  TrimInv'
  <1> SUFFICES ASSUME ~disturbed' PROVE Trims(s)'
    BY DEF TrimInv
  <1>0. /\ Count \in Nat /\ Ceiling \in Nat /\ MAX_HISTORY \in Nat /\ MAX_HISTORY >= 1
        /\ IsFiniteSet(DOMAIN udb) /\ Ceiling' = Ceiling
    BY CountIsNatural DEF Ceiling
  <1>1. CASE O!Draw(s) /\ O!Merge(s) /\ thread[s].new # {}
    <2> DEFINE new == thread[s].new
    <2>1. /\ udb' = [key \in new \cup DOMAIN udb |-> IF key \in new THEN key ELSE udb[key]]
          /\ doing' = [doing EXCEPT ![s] = "checking"]
          /\ doing[s] = "prompt"
      BY <1>1 DEF O!Draw, O!Merge, O!Merged, O!Goes
    <2>2. disturbed' = (disturbed \/ O!OthersAdd(s))
      BY <1>1 DEF O!Merge
    <2>3. ~disturbed /\ ~O!OthersAdd(s)
      BY <2>2
    <2>4. NoOtherAdds(s) /\ Count <= Ceiling
      BY <2>1, <2>3, BeginsAlone DEF O!Adding
    <2>5. IsFiniteSet(new) /\ Cardinality(new) <= MAX_HISTORY
      BY DEF OnelinersType, ThreadOf
    <2>6. DOMAIN udb' = new \cup DOMAIN udb
      BY <2>1
    <2> HIDE DEF new
    <2>7. Count' <= Cardinality(new) + Count /\ Cardinality(new) \in Nat /\ Count' \in Nat
      BY <1>0, <2>5, <2>6, UnionIsFinite DEF Count
    <2>8. Count' <= MAX_HISTORY + Ceiling
      BY <1>0, <2>4, <2>5, <2>7
    <2>9. doing'[s] = "checking" /\ NoOtherAdds(s)'
      BY <2>1, <2>4, AloneStays
    <2> QED
      BY <1>0, <2>8, <2>9 DEF Trims, O!Adding
  <1>2. CASE O!NextKey(s)
    <2>1. /\ udb' = udb /\ doing' = [doing EXCEPT ![s] = "writing"] /\ doing[s] = "saying"
      BY <1>2 DEF O!NextKey, O!Goes
    <2>2. disturbed' = (disturbed \/ O!OthersAdd(s))
      BY <1>2 DEF O!NextKey
    <2>3. ~disturbed /\ ~O!OthersAdd(s)
      BY <2>2
    <2>4. NoOtherAdds(s) /\ Count <= Ceiling
      BY <2>1, <2>3, BeginsAlone DEF O!Adding
    <2>5. Count' = Count
      BY <2>1 DEF Count
    <2>9. doing'[s] = "writing" /\ NoOtherAdds(s)'
      BY <2>1, <2>4, AloneStays
    <2> QED
      BY <1>0, <2>4, <2>5, <2>9 DEF Trims, O!Adding
  <1>3. CASE O!AddOneline(s)
    <2> DEFINE key == read[s].key
    <2>1. /\ DOMAIN udb' = DOMAIN udb \cup {key}
          /\ doing' = [doing EXCEPT ![s] = "checking"] /\ doing[s] = "writing"
      BY <1>3 DEF O!AddOneline, O!Goes
    <2>2. disturbed' = disturbed
      BY <1>3 DEF O!AddOneline
    <2>3. ~disturbed
      BY <2>2
    <2>4. NoOtherAdds(s) /\ Count <= Ceiling
      BY <2>1, <2>3, AddsAlone DEF O!Adding, Trims
    <2> HIDE DEF key
    <2>5. IsFiniteSet({key}) /\ Cardinality({key}) = 1
      BY FS_Singleton
    <2>7. Count' <= Count + Cardinality({key}) /\ Count' \in Nat
      BY <1>0, <2>1, <2>5, UnionIsFinite DEF Count
    <2>8. Count' <= MAX_HISTORY + Ceiling
      BY <1>0, <2>4, <2>5, <2>7
    <2>9. doing'[s] = "checking" /\ NoOtherAdds(s)'
      BY <2>1, <2>4, AloneStays
    <2> QED
      BY <1>0, <2>8, <2>9 DEF Trims, O!Adding
  <1> QED
    BY <1>1, <1>2, <1>3

\* The steps of a trim
LEMMA TrimSteps ==
  ASSUME O!OnelinersAssumption, OnelinersType, TrimInv, NEW s \in Session,
         \/ O!CheckCeiling(s) \/ O!CopyRecords(s) \/ O!SortRecords(s) \/ O!EndTrim(s)
  PROVE  TrimInv'
  <1> SUFFICES ASSUME ~disturbed' PROVE Idle' \/ Trims(s)'
    BY DEF TrimInv
  <1>0. /\ Count \in Nat /\ Ceiling \in Nat /\ MAX_HISTORY \in Nat /\ MAX_HISTORY <= Ceiling
        /\ IsFiniteSet(DOMAIN udb) /\ Ceiling' = Ceiling /\ O!Cardinality(DOMAIN udb) = Count
        /\ read = [x \in Session |-> read[x]] /\ IsReading(read[s])
    BY CountIsNatural DEF Ceiling, OnelinersType
  <1>n. /\ udb' = udb /\ Count' = Count
        /\ doing[s] \in O!Adding
    BY DEF O!CheckCeiling, O!CopyRecords, O!SortRecords, O!EndTrim, O!Adding, Count
  <1>1. CASE O!CheckCeiling(s)
    <2>1. CASE Count > Ceiling
      <3>1. doing' = [doing EXCEPT ![s] = "copying"] /\ doing[s] = "checking"
        BY <1>0, <1>1, <2>1 DEF O!CheckCeiling, O!Goes, Ceiling
      <3>2. disturbed' = disturbed
        BY <1>0, <1>1, <2>1 DEF O!CheckCeiling, Ceiling
      <3>3. ~disturbed
        BY <3>2
      <3>4. Trims(s)
        BY <1>n, <3>3, AddsAlone
      <3>5. doing'[s] = "copying" /\ NoOtherAdds(s)'
        BY <3>1, <3>4, AloneStays DEF Trims
      <3> QED
        BY <1>0, <1>n, <2>1, <3>1, <3>4, <3>5 DEF Trims, O!Adding
    <2>2. CASE ~(Count > Ceiling)
      <3>1. doing' = [doing EXCEPT ![s] = "prompt"] /\ doing[s] = "checking"
        BY <1>0, <1>1, <2>2 DEF O!CheckCeiling, O!Goes, O!Trimmed, Ceiling
      <3>2. disturbed' = (disturbed /\ O!OthersAdd(s))
        BY <1>0, <1>1, <2>2 DEF O!CheckCeiling, Ceiling
      <3>3. ~disturbed \/ ~O!OthersAdd(s)
        BY <3>2
      <3>4. NoOtherAdds(s)
        BY <1>n, <3>3, AddsAlone DEF Trims, O!OthersAdd, NoOtherAdds
      <3>5. doing'[s] = "prompt" /\ NoOtherAdds(s)'
        BY <3>1, <3>4, AloneStays
      <3> QED
        BY <1>0, <1>n, <2>2, <3>5 DEF Idle, NoOtherAdds, O!Adding
    <2> QED
      BY <2>1, <2>2
  <1>2. ASSUME O!CopyRecords(s) \/ O!SortRecords(s) \/ O!EndTrim(s) PROVE Trims(s)
    <2>1. disturbed' = disturbed
      BY <1>2 DEF O!CopyRecords, O!SortRecords, O!EndTrim
    <2>2. ~disturbed
      BY <2>1
    <2> QED
      BY <1>n, <2>2, AddsAlone
  <1>3. CASE O!CopyRecords(s)
    <2>1. doing' = [doing EXCEPT ![s] = "sorting"] /\ doing[s] = "copying"
      BY <1>3 DEF O!CopyRecords, O!Goes
    <2>2. doing'[s] = "sorting" /\ NoOtherAdds(s)'
      BY <1>2, <1>3, <2>1, AloneStays DEF Trims
    <2>3. read' = [read EXCEPT ![s].contents = udb]
      BY <1>3 DEF O!CopyRecords
    <2>4. read'[s].contents = udb
      <3>1. [read[s] EXCEPT !.contents = udb] = [key |-> read[s].key, contents |-> udb]
        BY <1>0 DEF IsReading
      <3>2. read'[s] = [read[s] EXCEPT !.contents = udb]
        BY <1>0, <2>3
      <3> QED
        BY <3>1, <3>2
    <2> QED
      BY <1>0, <1>n, <1>2, <1>3, <2>1, <2>2, <2>4 DEF Trims, O!Adding
  <1>4. CASE O!SortRecords(s)
    <2>1. doing' = [doing EXCEPT ![s] = "deleting"] /\ doing[s] = "sorting"
      BY <1>4 DEF O!SortRecords, O!Goes
    <2>2. doing'[s] = "deleting" /\ NoOtherAdds(s)'
      BY <1>2, <1>4, <2>1, AloneStays DEF Trims
    <2>3. read[s].contents = udb /\ Ceiling < Count /\ Count <= MAX_HISTORY + Ceiling
      BY <1>2, <1>4, <2>1 DEF Trims
    <2> DEFINE surplus == Count - MAX_HISTORY
               latest == {key \in DOMAIN udb : Cardinality(O!Older(udb, key)) >= surplus}
               rest == {key \in DOMAIN udb : Cardinality(O!Older(udb, key)) < surplus}
    <2>4. surplus \in Nat /\ surplus >= 0 /\ surplus <= Ceiling
      BY <1>0, <2>3
    <2>5. read' = [read EXCEPT ![s].contents = O!Restrict(udb, latest)]
      <3>1. \A key : O!Cardinality(O!Older(udb, key)) = Cardinality(O!Older(udb, key))
        BY OlCardinality
      <3>2. O!Cardinality(DOMAIN udb) - MAX_HISTORY >= 0
        BY <1>0, <2>4
      <3>3. read' = [read EXCEPT ![s].contents =
              O!Restrict(udb, {key \in DOMAIN udb :
                 O!Cardinality(O!Older(udb, key)) >= O!Cardinality(DOMAIN udb) - MAX_HISTORY})]
        BY <1>4, <2>3, <3>2 DEF O!SortRecords
      <3>4. {key \in DOMAIN udb :
                 O!Cardinality(O!Older(udb, key)) >= O!Cardinality(DOMAIN udb) - MAX_HISTORY}
            = latest
        BY <1>0, <3>1
      <3> QED
        BY <3>3, <3>4
    <2>6. Cardinality(rest) <= surplus
      <3>1. TimesOf(udb, lines) /\ lines \in Nat
        BY DEF OnelinersType
      <3>2. \A k \in DOMAIN udb : udb[k] \in 0 .. lines
        BY <3>1 DEF TimesOf
      <3>3. \A k, l \in DOMAIN udb : udb[k] = udb[l] => k = l
        BY <3>1 DEF TimesOf
      <3> HIDE DEF surplus
      <3> QED
        BY <1>0, <2>4, <3>1, <3>2, <3>3, FewWithFewOlder
    <2>7. rest \cup latest = DOMAIN udb /\ latest \subseteq DOMAIN udb
      <3>1. \A key \in DOMAIN udb : Cardinality(O!Older(udb, key)) \in Nat
        <4>1. \A key : O!Older(udb, key) \subseteq DOMAIN udb
          BY DEF O!Older
        <4>2. \A key : IsFiniteSet(O!Older(udb, key))
          BY <1>0, <4>1, FS_Subset
        <4> QED
          BY <4>2, FS_CardinalityType
      <3>2. \A key \in DOMAIN udb : \/ Cardinality(O!Older(udb, key)) < surplus
                                    \/ Cardinality(O!Older(udb, key)) >= surplus
        BY <2>4, <3>1
      <3> QED
        BY <3>2
    <2>8. read'[s].contents = O!Restrict(udb, latest)
      <3> HIDE DEF latest
      <3> DEFINE kept == O!Restrict(udb, latest)
      <3> HIDE DEF kept
      <3>1. [read[s] EXCEPT !.contents = kept] = [key |-> read[s].key, contents |-> kept]
        BY <1>0 DEF IsReading
      <3>2. read'[s] = [read[s] EXCEPT !.contents = kept]
        BY <1>0, <2>5 DEF kept
      <3> QED
        BY <3>1, <3>2 DEF kept
    <2> HIDE DEF rest, latest
    <2>9. DOMAIN read'[s].contents = latest
      BY <2>8 DEF O!Restrict
    <2>10. /\ Count <= Cardinality(rest) + Cardinality(latest)
           /\ Cardinality(rest) \in Nat /\ Cardinality(latest) \in Nat
      <3>1. IsFiniteSet(rest) /\ IsFiniteSet(latest)
        BY <1>0, <2>7, FS_Subset
      <3> QED
        BY <2>7, <3>1, UnionIsFinite DEF Count
    <2>11. Count <= Ceiling + Cardinality(latest)
      <3> HIDE DEF surplus
      <3> QED
        BY <1>0, <2>4, <2>6, <2>10
    <2> QED
      BY <1>0, <1>n, <2>2, <2>7, <2>9, <2>11 DEF Trims, O!Adding
  <1>5. CASE O!EndTrim(s)
    <2>1. /\ doing' = [doing EXCEPT ![s] = "prompt"] /\ doing[s] = "deleting"
          /\ DOMAIN read[s].contents = {}
      BY <1>5 DEF O!EndTrim, O!Trimmed, O!Goes
    <2>2. Count <= Ceiling
      <3>1. Count <= Ceiling + Cardinality({})
        BY <1>2, <1>5, <2>1 DEF Trims
      <3>2. Cardinality({}) = 0
        BY FS_EmptySet
      <3> QED
        BY <1>0, <3>1, <3>2
    <2>3. doing'[s] = "prompt" /\ NoOtherAdds(s)'
      BY <1>2, <1>5, <2>1, AloneStays DEF Trims
    <2> QED
      BY <1>0, <1>n, <2>2, <2>3 DEF Idle, NoOtherAdds, O!Adding
  <1> QED
    BY <1>1, <1>3, <1>4, <1>5

\* A deletion of a session that is alone with the table takes a record from it and from its list.
LEMMA DeletingStep ==
  ASSUME O!OnelinersAssumption, OnelinersType, TrimInv, NEW s \in Session, O!DeleteRecord(s)
  PROVE  TrimInv'
  <1> SUFFICES ASSUME ~disturbed' PROVE Trims(s)'
    BY DEF TrimInv
  <1>0. /\ Count \in Nat /\ Ceiling \in Nat /\ IsFiniteSet(DOMAIN udb) /\ Ceiling' = Ceiling
        /\ read = [x \in Session |-> read[x]] /\ IsReading(read[s])
    BY CountIsNatural DEF Ceiling, OnelinersType
  <1>1. PICK key \in DOMAIN read[s].contents :
          IF key \in DOMAIN udb
          THEN /\ udb' = O!Restrict(udb, DOMAIN udb \ {key})
               /\ read' = [read EXCEPT ![s].contents = O!Restrict(@, DOMAIN @ \ {key})]
               /\ doing' = doing /\ disturbed' = disturbed
          ELSE disturbed' = TRUE
    BY DEF O!DeleteRecord
  <1>2. key \in DOMAIN udb
    BY <1>1
  <1>3. disturbed' = disturbed
    BY <1>1, <1>2
  <1>4. ~disturbed
    BY <1>3
  <1> DEFINE slice == read[s].contents
             remain == DOMAIN slice \ {key}
  <1>5. doing[s] = "deleting" /\ doing[s] \in O!Adding
    BY DEF O!DeleteRecord, O!Adding
  <1>6. Trims(s)
    BY <1>4, <1>5, AddsAlone
  <1>7. /\ DOMAIN slice \subseteq DOMAIN udb /\ Count <= Ceiling + Cardinality(DOMAIN slice)
        /\ NoOtherAdds(s)
    BY <1>5, <1>6 DEF Trims
  <1>8. DOMAIN udb' = DOMAIN udb \ {key}
    BY <1>1, <1>2 DEF O!Restrict
  <1>9. DOMAIN read'[s].contents = remain
    <2> DEFINE rest == O!Restrict(slice, remain)
    <2>1. read' = [read EXCEPT ![s].contents = rest]
      BY <1>1, <1>2
    <2>2. DOMAIN rest = remain
      BY DEF O!Restrict
    <2> HIDE DEF rest
    <2>3. [read[s] EXCEPT !.contents = rest] = [key |-> read[s].key, contents |-> rest]
      BY <1>0 DEF IsReading
    <2>4. read'[s] = [read[s] EXCEPT !.contents = rest]
      BY <1>0, <2>1
    <2> QED
      BY <2>2, <2>3, <2>4
  <1>10. /\ Count' = Count - 1 /\ Cardinality(remain) = Cardinality(DOMAIN slice) - 1
         /\ Cardinality(DOMAIN slice) \in Nat
    <2>1. IsFiniteSet(DOMAIN slice) /\ key \in DOMAIN slice
      BY <1>0, <1>1, <1>7, FS_Subset
    <2>2. Cardinality(DOMAIN slice) \in Nat /\ Cardinality(remain) = Cardinality(DOMAIN slice) - 1
      <3> HIDE DEF slice
      <3> QED
        BY <2>1, FS_RemoveElement, FS_CardinalityType
    <2>3. Count' = Count - 1
      BY <1>0, <1>2, <1>8, FS_RemoveElement DEF Count
    <2> QED
      BY <2>2, <2>3
  <1>11. remain \subseteq DOMAIN udb'
    BY <1>7, <1>8
  <1>12. Count' <= Ceiling + Cardinality(remain)
    <2> HIDE DEF remain, slice
    <2> QED
      BY <1>0, <1>7, <1>10
  <1>13. doing'[s] = "deleting" /\ NoOtherAdds(s)'
    <2>1. doing' = doing
      BY <1>1, <1>2
    <2> QED
      BY <1>5, <1>7, <2>1 DEF NoOtherAdds
  <1> HIDE DEF remain
  <1> QED
    BY <1>0, <1>9, <1>11, <1>12, <1>13 DEF Trims, O!Adding

\* The steps of the oneliners keep what they are proved by.
LEMMA OnelinersStep ==
  ASSUME O!OnelinersAssumption, OnelinersType, TrimInv, [O!Next]_O!vars
  PROVE  OnelinersType' /\ TrimInv'
  <1>1. shroo_ms_enabled' <=> shroo_ms_enabled
    BY EnabledStays
  <1>2. CASE O!vars' = O!vars
    <2>1. /\ lines' = lines /\ wall' = wall /\ udb' = udb /\ doing' = doing
          /\ thread' = thread /\ read' = read
      BY <1>2 DEF O!vars
    <2>2. disturbed' = disturbed
      BY <1>2 DEF O!vars
    <2>3. OnelinersType'
      <3>1. /\ lines \in Nat /\ lines <= lines /\ wall \subseteq 1 .. lines
            /\ ~shroo_ms_enabled => wall = {}
            /\ doing = [s \in Session |-> doing[s]]
            /\ thread = [s \in Session |-> thread[s]]
            /\ read = [s \in Session |-> read[s]]
            /\ \A s \in Session : IsReading(read[s])
            /\ \A s \in Session : shroo_ms_enabled => doing[s] # "writing"
        BY DEF OnelinersType
      <3> QED
        BY <1>1, <2>1, <3>1, TableStays
    <2>4. ~disturbed' => ~disturbed
      <3> SUFFICES ASSUME ~disturbed' PROVE ~disturbed
        OBVIOUS
      <3> QED
        BY <2>2
    <2>5. TrimInv'
      BY <2>1, <2>4, CalmStep
    <2> QED
      BY <2>3, <2>5
  <1>3. CASE O!Elsewhere
    <2>1. CASE Session = {}
      <3>1. lines' = lines + 1 /\ wall' = wall \cup {lines'} /\ shroo_ms_enabled /\ udb' = udb
            /\ doing' = doing /\ thread' = thread /\ read' = read
        BY <1>3 DEF O!Elsewhere
      <3>2. /\ lines \in Nat /\ wall \subseteq 1 .. lines
            /\ doing = [s \in Session |-> doing[s]]
            /\ thread = [s \in Session |-> thread[s]]
            /\ read = [s \in Session |-> read[s]]
        BY DEF OnelinersType
      <3>3. wall' \subseteq 1 .. lines' /\ lines' \in Nat /\ lines <= lines'
        BY <3>1, <3>2
      <3>4. OnelinersType'
        BY <1>1, <2>1, <3>1, <3>2, <3>3, TableStays
      <3>5. disturbed' = disturbed
        BY <1>3 DEF O!Elsewhere
      <3>6. ~disturbed' => ~disturbed
        <4> SUFFICES ASSUME ~disturbed' PROVE ~disturbed
          OBVIOUS
        <4> QED
          BY <3>5
      <3> QED
        BY <2>1, <3>1, <3>4, <3>6, CalmStep
    <2>2. CASE Session # {}
      BY <1>1, <1>3, <2>2, OnelinersTypeStays, CalmSteps
    <2> QED
      BY <2>1, <2>2
  <1>4. ASSUME NEW s \in Session,
               \/ O!Enter(s) \/ O!Fetch(s) \/ O!ThreadEnds(s) \/ O!Draw(s) \/ O!Redraw(s)
               \/ O!Say(s) \/ O!Post(s) \/ O!NextKey(s) \/ O!AddOneline(s)
               \/ O!CheckCeiling(s) \/ O!CopyRecords(s) \/ O!SortRecords(s)
               \/ O!DeleteRecord(s) \/ O!EndTrim(s) \/ O!Leave(s)
        PROVE  OnelinersType' /\ TrimInv'
    <2>1. CASE O!Draw(s)
      <3>1. OnelinersType'
        BY <1>1, <2>1, DrawKeepsType
      <3>2. CASE ~O!Merge(s)
        BY <2>1, <3>1, <3>2, CalmSteps
      <3>3. CASE O!Merge(s) /\ thread[s].new # {}
        BY <2>1, <3>1, <3>3, AddingSteps
      <3>4. CASE O!Merge(s) /\ thread[s].new = {}
        <4>1. doing' = [doing EXCEPT ![s] = "checking"] /\ doing' = doing /\ doing[s] = "prompt"
          BY <2>1, <3>4 DEF O!Draw, O!Merge, O!Goes
        <4>2. doing = [x \in Session |-> doing[x]]
          BY DEF OnelinersType
        <4> QED
          BY <4>1, <4>2
      <3> QED
        BY <3>2, <3>3, <3>4
    <2>2. CASE O!AddOneline(s)
      BY <1>1, <2>2, AddKeepsType, AddingSteps
    <2>3. CASE O!DeleteRecord(s)
      BY <1>1, <2>3, DeleteKeepsType, DeletingStep
    <2>4. CASE O!NextKey(s)
      BY <1>1, <2>4, OnelinersTypeStays, AddingSteps
    <2>5. CASE O!CheckCeiling(s) \/ O!CopyRecords(s) \/ O!SortRecords(s) \/ O!EndTrim(s)
      BY <1>1, <2>5, OnelinersTypeStays, TrimSteps
    <2>6. CASE \/ O!Enter(s) \/ O!Fetch(s) \/ O!ThreadEnds(s) \/ O!Redraw(s)
               \/ O!Say(s) \/ O!Post(s) \/ O!Leave(s)
      BY <1>1, <2>6, OnelinersTypeStays, CalmSteps
    <2> QED
      BY <1>4, <2>1, <2>2, <2>3, <2>4, <2>5, <2>6
  <1> QED
    BY <1>2, <1>3, <1>4 DEF O!Next

LEMMA OnelinersInit ==
  ASSUME O!OnelinersAssumption PROVE O!Init => OnelinersInv
  <1> SUFFICES ASSUME O!Init PROVE OnelinersType /\ TrimInv
    BY DEF OnelinersInv
  <1>1. OnelinersType
    BY OnelinersTypeInit
  <1>2. Count = 0
    <2>1. DOMAIN udb = {}
      BY DEF O!Init
    <2> QED
      BY <2>1, FS_EmptySet DEF Count
  <1>3. \A s \in Session : doing[s] \notin O!Adding
    BY DEF O!Init, O!Adding
  <1>4. Ceiling \in Nat
    BY <1>1, CountIsNatural
  <1> QED
    BY <1>1, <1>2, <1>3, <1>4 DEF TrimInv, Idle

LEMMA OnelinersNext ==
  ASSUME O!OnelinersAssumption PROVE OnelinersInv /\ [O!Next]_O!vars => OnelinersInv'
  BY OnelinersStep DEF OnelinersInv

LEMMA OnelinersBounded ==
  ASSUME O!OnelinersAssumption PROVE OnelinersInv => O!HistoryBounded
  <1> SUFFICES ASSUME OnelinersType, TrimInv, ~disturbed,
                      \A s \in Session : doing[s] \notin O!Adding
               PROVE  O!Cardinality(DOMAIN udb) <= MAX_HISTORY + Slack
    BY DEF O!HistoryBounded, OnelinersInv
  <1>1. Count <= Ceiling
    BY DEF TrimInv, Idle, Trims
  <1> QED
    BY <1>1, CountIsNatural DEF Ceiling

\* default/ol.py: of sessions that take turns to add to the oneliners, and are not ended before
\* they have trimmed them, none leaves more than the ceiling.
THEOREM TableIsTrimmed ==
  ASSUME O!OnelinersAssumption PROVE O!Spec => []O!HistoryBounded
  BY OnelinersInit, OnelinersNext, OnelinersBounded, PTL DEF O!Spec
=============================================================================
