----------------------------- MODULE ScriptProofs -----------------------------
(* Proofs about scripts of the default board whose sessions share data, for   *)
(* all values of the constants: the voting booth (Polls), the flagged files   *)
(* (Files), the message area (MsgArea) and the chats (Chat).                  *)
EXTENDS Integers, Sequences, FiniteSets, SequenceTheorems, FiniteSetTheorems,
        WellFoundedInduction, TLAPS

CONSTANTS
  Voter, Pollster, MaxQuestions, MaxAnswers, MaxOps,
  Shared, Uploads, Sysop, Anonymous,
  Reader, Moderator, Tag, Posts, MaxPosts, MaxReads,
  Session, Rejecting, MaxAsks, MaxCalls, MaxTyped

VARIABLES
  table, votes, at, copy, choice, ops, shuffled, spoiled,
  disk, record, flagged, dirs, listed, drawn, steady, queue, remote, fresh,
  msgs, priv, posts, readmsgs, subscription, area, hidden, lists, reading, position, draft,
  entries, known, deleted,
  where, sessions, calls, pipe, buffered, answers, bounds, unheard, mixed

V == INSTANCE Polls WITH User <- Voter, Sysop <- Pollster
Q == INSTANCE Files
M == INSTANCE MsgArea WITH
  Session <- Reader, Sysop <- Moderator, where <- area, at <- position
C == INSTANCE Chat WITH MaxKeys <- MaxTyped

-----------------------------------------------------------------------------
(* Files.  The browser writes the record whenever it changes its set; where    *)
(* it does not draw the list anew, a flag changes the row that it draws only. *)

IsQueue(q) == q.sends \in BOOLEAN /\ q = [sends |-> q.sends, files |-> q.files]

\* The inductive invariant: what is drawn matters while the browser waits for a key, what is
\* recorded in a download as well.
FilesInv ==
  /\ IsQueue(queue)
  /\ queue.sends => dirs # << >>
  /\ dirs # << >> /\ fresh /\ ~Anonymous => record = flagged
  /\ Q!Browsing /\ steady => listed = Q!Listing(Q!Last(dirs), flagged, disk)
  /\ Q!FlagsAgree

\* The list of any files shows the flags.
LEMMA ListingIsTrue ==
  ASSUME Q!Reload
  PROVE  /\ \A item \in listed' : item.marked <=> item.file \in flagged'
         /\ Q!Last(dirs') = "flagged" => {item.file : item \in listed'} = flagged'
  <1>1. PICK files : /\ listed' = Q!Rows(files, flagged')
                     /\ Q!Last(dirs') = "flagged" => files = flagged'
    BY DEF Q!Reload, Q!Listing
  <1> DEFINE r(f) == Q!Cardinality({g \in files : g < f})
  <1>2. listed' = {[row |-> r(f), file |-> f, marked |-> f \in flagged'] : f \in files}
    BY <1>1 DEF Q!Rows
  <1> HIDE DEF r
  <1>3. \A item \in listed' :
          \E f \in files : item.file = f /\ item.marked = (f \in flagged')
    BY <1>2
  <1>4. \A f \in files : \E item \in listed' : item.file = f
    <2>1. ASSUME NEW f \in files PROVE \E item \in listed' : item.file = f
      <3> DEFINE item == [row |-> r(f), file |-> f, marked |-> f \in flagged']
      <3>1. item \in listed' /\ item.file = f
        BY <1>2
      <3> QED
        BY <3>1
    <2> QED
      BY <2>1
  <1>5. {item.file : item \in listed'} = files
    BY <1>3, <1>4
  <1> QED
    BY <1>1, <1>3, <1>5

\* The cardinality of the module that is instantiated is that of FiniteSets.
LEMMA FilesCardinality == \A S : Q!Cardinality(S) = Cardinality(S)
  BY DEF Q!Cardinality, Cardinality

\* The row of a file is one of those of the list.
LEMMA RowInList ==
  ASSUME NEW files, IsFiniteSet(files), files \subseteq Nat, NEW f \in files
  PROVE  /\ Q!Cardinality(files) \in Nat
         /\ Q!Cardinality({g \in files : g < f}) \in 0 .. Q!Cardinality(files) - 1
  <1> DEFINE before == {g \in files : g < f}
  <1>1. before \in SUBSET files /\ f \notin before
    OBVIOUS
  <1> HIDE DEF before
  <1>2. before # files
    BY <1>1
  <1>3. Cardinality(before) <= Cardinality(files) /\ Cardinality(before) # Cardinality(files)
    BY <1>1, <1>2, FS_Subset
  <1>4. IsFiniteSet(before)
    BY <1>1, FS_Subset
  <1>5. Cardinality(before) \in Nat /\ Cardinality(files) \in Nat
    BY <1>4, FS_CardinalityType
  <1>6. Q!Cardinality(before) = Cardinality(before) /\ Q!Cardinality(files) = Cardinality(files)
    BY FilesCardinality
  <1> QED
    BY <1>3, <1>5, <1>6 DEF before

\* A flag changes nothing of the list but the mark in the row of its file, which is drawn.
LEMMA FlagIsDrawn ==
  ASSUME Q!FilesAssumption, NEW item \in listed, Q!Last(dirs) # "flagged", dirs' = dirs,
         disk' = disk, listed = Q!Listing(Q!Last(dirs), flagged, disk), drawn = listed,
         \A f : f # item.file => (f \in flagged <=> f \in flagged'),
         Q!Reload,
         Q!DrawRows(Q!Below(item.row, Q!Cardinality(Q!In(Q!Last(dirs), disk))))
  PROVE  drawn' = listed'
  <1> DEFINE files == Q!In(Q!Last(dirs), disk)
  <1>1. IsFiniteSet(files) /\ files \subseteq Nat
    <2>1. files \in SUBSET Shared \/ files \in SUBSET Uploads
      BY DEF Q!In
    <2> HIDE DEF files
    <2>2. /\ IsFiniteSet(Shared) /\ IsFiniteSet(Uploads)
          /\ Shared \subseteq Nat /\ Uploads \subseteq Nat
      BY DEF Q!FilesAssumption, Q!IsFiniteSet, IsFiniteSet
    <2> QED
      BY <2>1, <2>2, FS_Subset
  <1> DEFINE r(f) == Q!Cardinality({g \in files : g < f})
  <1> DEFINE rows == Q!Below(item.row, Q!Cardinality(files))
  <1>2. /\ listed = {[row |-> r(f), file |-> f, marked |-> f \in flagged] : f \in files}
        /\ listed' = {[row |-> r(f), file |-> f, marked |-> f \in flagged'] : f \in files}
    BY DEF Q!Listing, Q!Rows, Q!Reload
  <1>3. drawn' = {x \in drawn : x.row \notin rows} \cup {x \in listed' : x.row \in rows}
    BY DEF Q!DrawRows
  <1>4. PICK h \in files : item = [row |-> r(h), file |-> h, marked |-> h \in flagged]
    BY <1>2
  <1>5. Q!Cardinality(files) \in Nat /\ r(h) \in 0 .. Q!Cardinality(files) - 1
    BY <1>1, <1>4, RowInList
  <1>6. r(h) \in rows
    BY <1>4, <1>5 DEF Q!Below
  <1> HIDE DEF rows, r, files
  <1>7. ASSUME NEW f \in files, f # h
        PROVE  [row |-> r(f), file |-> f, marked |-> f \in flagged]
                 = [row |-> r(f), file |-> f, marked |-> f \in flagged']
    BY <1>4, <1>7
  <1>8. ASSUME NEW x \in drawn, x.row \notin rows PROVE x \in listed'
    <2>1. PICK f \in files : x = [row |-> r(f), file |-> f, marked |-> f \in flagged]
      BY <1>2
    <2>2. f # h
      BY <1>6, <1>8, <2>1
    <2>3. x = [row |-> r(f), file |-> f, marked |-> f \in flagged']
      BY <1>7, <2>1, <2>2
    <2> QED
      BY <1>2, <2>3
  <1>9. ASSUME NEW x \in listed', x.row \notin rows PROVE x \in drawn
    <2>1. PICK f \in files : x = [row |-> r(f), file |-> f, marked |-> f \in flagged']
      BY <1>2
    <2>2. f # h
      BY <1>6, <1>9, <2>1
    <2>3. x = [row |-> r(f), file |-> f, marked |-> f \in flagged]
      BY <1>7, <2>1, <2>2
    <2> QED
      BY <1>2, <2>3
  <1> QED
    BY <1>3, <1>8, <1>9

\* At first the browser does not run.
LEMMA FilesInit == Q!Init => FilesInv
  BY DEF Q!Init, Q!NoQueue, IsQueue, FilesInv, Q!FlagsAgree, Q!Browsing

\* What ends in a new list.
LEMMA FilesReloaded ==
  ASSUME FilesInv, IsQueue(queue'), ~queue'.sends, Q!Reloaded,
         Q!Saved \/ (UNCHANGED <<record, flagged, fresh>> /\ dirs # << >>)
  PROVE  FilesInv'
  <1>1. dirs' # << >> /\ fresh' /\ ~Anonymous => record' = flagged'
    BY DEF FilesInv, Q!Saved
  <1>2. Q!Reload /\ drawn' = listed'
    BY DEF Q!Reloaded, Q!DrawAll
  <1>3. listed' = Q!Listing(Q!Last(dirs'), flagged', disk')
    BY <1>2 DEF Q!Reload
  <1>4. Q!FlagsAgree'
    BY <1>1, <1>2, ListingIsTrue DEF Q!FlagsAgree, Q!Browsing
  <1>5. (Q!Browsing /\ steady => listed = Q!Listing(Q!Last(dirs), flagged, disk))'
    BY <1>3 DEF Q!Listing, Q!Rows, Q!In
  <1> QED
    BY <1>1, <1>4, <1>5 DEF FilesInv

\* What the browser does while it sends, and when it leaves.
LEMMA FilesUnseen ==
  ASSUME FilesInv, IsQueue(queue'), ~Q!Browsing',
         queue'.sends => dirs' # << >>,
         dirs' # << >> /\ fresh' /\ ~Anonymous => record' = flagged'
  PROVE  FilesInv'
  BY DEF FilesInv, Q!FlagsAgree

\* Each step preserves the invariant.
LEMMA FilesNext == Q!FilesAssumption /\ FilesInv /\ [Q!Next]_Q!vars => FilesInv'
  <1> SUFFICES ASSUME Q!FilesAssumption, FilesInv, [Q!Next]_Q!vars PROVE FilesInv'
    OBVIOUS
  <1> USE DEF Q!Browsing
  <1>0. IsQueue(queue)
    BY DEF FilesInv
  <1>1. CASE UNCHANGED Q!vars
    BY <1>1 DEF Q!vars, Q!list, FilesInv, Q!FlagsAgree, Q!Last, Q!Listing, Q!Rows, Q!In
  <1>2. CASE Q!Main
    <2>1. ~queue'.sends /\ IsQueue(queue')
      BY <1>0, <1>2 DEF Q!Main, FilesInv, IsQueue
    <2>2. Q!Saved /\ Q!Reloaded
      BY <1>2 DEF Q!Main
    <2> QED
      BY <2>1, <2>2, FilesReloaded
  <1>3. CASE Q!Flag
    <2>1. /\ Q!Browsing /\ queue' = queue /\ dirs' = dirs /\ disk' = disk /\ Q!Saved
          /\ ~queue'.sends
      BY <1>3 DEF Q!Flag
    <2>2. PICK item \in listed :
            /\ flagged' = IF item.file \in flagged THEN flagged \ {item.file}
                          ELSE flagged \cup {item.file}
            /\ IF Q!Last(dirs) = "flagged" THEN Q!Reloaded
               ELSE /\ Q!Reload
                    /\ Q!DrawRows(Q!Below(item.row, Q!Cardinality(Q!In(Q!Last(dirs), disk))))
                    /\ UNCHANGED steady
      BY <1>3 DEF Q!Flag
    <2>3. CASE Q!Last(dirs) = "flagged"
      BY <1>0, <2>1, <2>2, <2>3, FilesReloaded
    <2>4. CASE Q!Last(dirs) # "flagged"
      <3>1. Q!Reload /\ steady' = steady
        BY <2>2, <2>4
      <3>2. listed' = Q!Listing(Q!Last(dirs), flagged', disk)
        BY <2>1, <3>1 DEF Q!Reload
      <3>3. (Q!Browsing /\ steady => listed = Q!Listing(Q!Last(dirs), flagged, disk))'
        BY <2>1, <3>2 DEF Q!Listing, Q!Rows, Q!In
      <3>4. dirs' # << >> /\ fresh' /\ ~Anonymous => record' = flagged'
        BY <2>1 DEF FilesInv, Q!Saved
      <3>5. steady' => drawn' = listed'
        <4> SUFFICES ASSUME steady PROVE drawn' = listed'
          BY <3>1
        <4>1. listed = Q!Listing(Q!Last(dirs), flagged, disk) /\ drawn = listed
          BY <2>1 DEF FilesInv, Q!FlagsAgree
        <4>2. \A f : f # item.file => (f \in flagged <=> f \in flagged')
          BY <2>2
        <4>3. Q!DrawRows(Q!Below(item.row, Q!Cardinality(Q!In(Q!Last(dirs), disk))))
          BY <2>2, <2>4
        <4> QED
          BY <2>1, <2>4, <3>1, <4>1, <4>2, <4>3, FlagIsDrawn
      <3>6. Q!FlagsAgree'
        BY <3>1, <3>4, <3>5, ListingIsTrue DEF Q!FlagsAgree
      <3> QED
        BY <1>0, <2>1, <3>3, <3>4, <3>6 DEF FilesInv
    <2> QED
      BY <2>3, <2>4
  <1>4. CASE Q!UnflagAll
    BY <1>4, FilesReloaded, <1>0 DEF Q!UnflagAll
  <1>13. CASE Q!Move
    <2>1. /\ Q!Browsing
          /\ UNCHANGED <<disk, record, flagged, dirs, listed, steady, queue, remote, fresh>>
      BY <1>13 DEF Q!Move
    <2>2. drawn = listed => drawn' = listed'
      <3>1. CASE Q!DrawAll
        BY <3>1 DEF Q!DrawAll
      <3>2. CASE \E from, to \in Q!Row : Q!DrawRows({from, to})
        BY <2>1, <3>2 DEF Q!DrawRows
      <3> QED
        BY <1>13, <3>1, <3>2 DEF Q!Move
    <2>3. Q!FlagsAgree'
      BY <2>1, <2>2 DEF FilesInv, Q!FlagsAgree, Q!Last
    <2> QED
      BY <2>1, <2>3 DEF FilesInv, Q!Last, Q!Listing, Q!Rows, Q!In
  <1>5. CASE Q!Download
    <2>1. IsQueue(queue') /\ queue'.sends /\ dirs' # << >>
      BY <1>5 DEF Q!Download, IsQueue
    <2> QED
      BY <1>5, <2>1, FilesUnseen DEF Q!Download, FilesInv
  <1>6. CASE Q!SendFile
    <2> PICK f \in queue.files : Q!SendFile!2!(f)
      BY <1>6 DEF Q!SendFile
    <2>1. CASE f \in disk
      <3>1. IsQueue(queue') /\ queue'.sends /\ dirs' # << >>
        BY <1>0, <1>6, <2>1 DEF Q!SendFile, FilesInv, IsQueue
      <3>2. fresh' /\ ~Anonymous => record' = flagged'
        BY <1>6, <2>1 DEF Q!SendFile, Q!Sent, Q!Saved, FilesInv
      <3> QED
        BY <3>1, <3>2, FilesUnseen
    <2>2. CASE f \notin disk
      <3>1. queue' = [sends |-> FALSE, files |-> {}] /\ dirs' = << >>
        BY <2>2 DEF Q!NoQueue
      <3>2. IsQueue(queue') /\ ~queue'.sends
        BY <3>1 DEF IsQueue
      <3> QED
        BY <2>2, <3>1, <3>2, FilesUnseen
    <2> QED
      BY <2>1, <2>2
  <1>7. CASE Q!Downloaded
    <2>1. ~queue'.sends /\ IsQueue(queue')
      BY <1>7 DEF Q!Downloaded, Q!NoQueue, IsQueue
    <2> QED
      BY <1>7, <2>1, FilesReloaded DEF Q!Downloaded, FilesInv
  <1>8. CASE Q!Upload
    BY <1>8, FilesReloaded, <1>0 DEF Q!Upload
  <1>9. CASE Q!Enter("uploads") \/ Q!Enter("flagged")
    BY <1>9, FilesReloaded, <1>0 DEF Q!Enter
  <1>10. CASE Q!Back
    BY <1>10, FilesReloaded, <1>0 DEF Q!Back
  <1>11. CASE Q!Quit
    BY <1>11, FilesUnseen, <1>0 DEF Q!Quit
  <1>12. CASE Q!Connect \/ Q!ListFlagged \/ Q!Open
    <2>1. /\ UNCHANGED <<disk, flagged, dirs, listed, drawn, steady, queue>>
          /\ fresh' => fresh /\ record' = record
      BY <1>12 DEF Q!Connect, Q!ListFlagged, Q!Open, Q!Unflagged, Q!list
    <2>2. Q!FlagsAgree'
      BY <2>1 DEF FilesInv, Q!FlagsAgree, Q!Last
    <2> QED
      BY <2>1, <2>2 DEF FilesInv, Q!Last, Q!Listing, Q!Rows, Q!In
  <1>14. CASE Q!Put \/ Q!Delete
    <2>1. /\ UNCHANGED <<flagged, dirs, listed, drawn, queue>> /\ steady' = FALSE
          /\ fresh' => fresh /\ record' = record
      BY <1>14 DEF Q!Put, Q!Delete, Q!Unflagged, Q!list
    <2>2. Q!FlagsAgree'
      BY <2>1 DEF FilesInv, Q!FlagsAgree, Q!Last
    <2> QED
      BY <2>1, <2>2 DEF FilesInv
  <1> QED
    BY <1>1, <1>2, <1>3, <1>4, <1>5, <1>6, <1>7, <1>8, <1>9, <1>10, <1>11, <1>12, <1>13, <1>14
       DEF Q!Next

\* While the file browser waits for a key, the marks of its list, which keys act upon, are those
\* of its set, in every directory it comes back to; the screen shows the list, though a flag
\* draws only two of its rows, unless somebody else changed the files since all of it was
\* drawn; and the set is the user's record, unless the sftp server has written that
\* since (fbrowse.py:430-480, sftp.py:225).
THEOREM FlagsAreTrue ==
  ASSUME Q!FilesAssumption
  PROVE  Q!Spec => []Q!FlagsAgree
  <1>1. FilesInv => Q!FlagsAgree
    BY DEF FilesInv
  <1> QED
    BY <1>1, FilesInit, FilesNext, PTL DEF Q!Spec

-----------------------------------------------------------------------------
(* Polls.  As long as users take turns, the tables that a session holds are   *)
(* those that are stored, or what they will be when it is done; and what      *)
(* is held counts the votes with that of the session.                         *)

Table == [index : Seq(Nat), indexcounter : Nat, amount : Seq(Nat),
          results : UNION {[qas -> Int] : qas \in SUBSET (Nat \X Nat)}]

Record == UNION {[indexes -> Nat] : indexes \in SUBSET Nat}

\* Each question has an index of its own; those that are not lost have the counts of their answers.
TableOK(t, lost) ==
  /\ t \in Table
  /\ Len(t.amount) = Len(t.index) /\ Len(t.index) <= MaxQuestions
  /\ \A q \in 1 .. Len(t.index) :
       /\ t.index[q] <= t.indexcounter
       /\ t.amount[q] <= MaxAnswers
       /\ t.index[q] \notin lost =>
            \A a \in 0 .. t.amount[q] - 1 : <<q, a>> \in DOMAIN t.results
  /\ \A q, r \in 1 .. Len(t.index) : t.index[q] = t.index[r] => q = r

\* A vote is for a question that there is or was, and for one of its answers.
VotesOK(t, given, lost) ==
  /\ given \in [Voter -> Record]
  /\ \A u \in Voter : \A i \in DOMAIN given[u] : i <= t.indexcounter
  /\ \A u \in Voter : \A q \in 1 .. Len(t.index) :
       t.index[q] \in DOMAIN given[u] \ lost => given[u][t.index[q]] < t.amount[q]

VotersFor(given, i, a) == {u \in Voter : i \in DOMAIN given[u] /\ given[u][i] = a}

Tallied(t, given, lost) ==
  \A q \in 1 .. Len(t.index) : t.index[q] \notin lost => \A a \in 0 .. t.amount[q] - 1 :
    t.results[<<q, a>>] = Cardinality(VotersFor(given, t.index[q], a))

Counts(t, given, lost) == TableOK(t, lost) /\ VotesOK(t, given, lost) /\ Tallied(t, given, lost)

\* The votes with that which u is about to record
VotesWith(u) ==
  [votes EXCEPT ![u] = V!With(votes[u], copy[u].index[choice[u][1]], choice[u][2])]

\* Where a session may be, and what it then holds
Reading(u) == at[u] \in {"choosing", "adding", "deleting"}
Writing(u) == at[u] \in {"noted", "counted"}

HoldsTable(u) ==
  /\ copy[u] = table
  /\ at[u] \in {"choosing", "deleting"} => choice[u][1] \in 1 .. Len(table.index)

HoldsVote(u) ==
  /\ Counts(copy[u], VotesWith(u), shuffled)
  /\ choice[u][1] \in 1 .. Len(copy[u].index)
  /\ table.index = copy[u].index /\ table.indexcounter = copy[u].indexcounter
  /\ table.amount = copy[u].amount
  /\ at[u] = "counted" => table.results = copy[u].results

\* The inductive invariant
PollsInv ==
  ~spoiled =>
    /\ at \in [Voter -> {"menu", "choosing", "adding", "deleting", "noted", "counted"}]
    /\ copy \in [Voter -> Table]
    /\ choice \in [Voter -> Nat \X Nat]
    /\ votes \in [Voter -> Record]
    /\ table \in Table
    /\ \A u, v \in Voter : at[u] # "menu" /\ at[v] # "menu" => u = v
    /\ \A u \in Voter : Reading(u) => HoldsTable(u)
    /\ \A u \in Voter : Writing(u) => HoldsVote(u)
    /\ (\A u \in Voter : ~Writing(u)) => Counts(table, votes, shuffled)

\* The tables of a record
LEMMA MakesTable ==
  ASSUME NEW index \in Seq(Nat), NEW indexcounter \in Nat, NEW amount \in Seq(Nat),
         NEW results \in UNION {[qas -> Int] : qas \in SUBSET (Nat \X Nat)}
  PROVE  [index |-> index, indexcounter |-> indexcounter, amount |-> amount,
          results |-> results] \in Table
  BY DEF Table

LEMMA TableIs ==
  ASSUME NEW t \in Table
  PROVE  /\ t.index \in Seq(Nat) /\ t.indexcounter \in Nat /\ t.amount \in Seq(Nat)
         /\ t.results \in UNION {[qas -> Int] : qas \in SUBSET (Nat \X Nat)}
         /\ t = [index |-> t.index, indexcounter |-> t.indexcounter, amount |-> t.amount,
                 results |-> t.results]
  BY DEF Table

\* A sequence without its element i
LEMMA WithoutElement ==
  ASSUME NEW S, NEW s \in Seq(S), NEW i \in 1 .. Len(s), NEW t, t = V!RemoveAt(s, i)
  PROVE  /\ t \in Seq(S) /\ Len(t) = Len(s) - 1
         /\ \A k \in 1 .. Len(t) : t[k] = IF k < i THEN s[k] ELSE s[k + 1]
  <1> DEFINE a == SubSeq(s, 1, i - 1)
             b == SubSeq(s, i + 1, Len(s))
  <1>1. a \in Seq(S) /\ Len(a) = i - 1 /\ \A k \in 1 .. i - 1 : a[k] = s[k]
    BY SubSeqProperties
  <1>2. b \in Seq(S) /\ Len(b) = Len(s) - i /\ \A k \in 1 .. Len(s) - i : b[k] = s[i + k]
    BY SubSeqProperties
  <1>3. t = a \o b
    BY DEF V!RemoveAt
  <1> HIDE DEF a, b
  <1>4. /\ t \in Seq(S) /\ Len(t) = Len(s) - 1
        /\ \A k \in 1 .. Len(t) : t[k] = IF k <= Len(a) THEN a[k] ELSE b[k - Len(a)]
    <2>1. /\ a \o b \in Seq(S) /\ Len(a \o b) = Len(a) + Len(b)
          /\ \A k \in 1 .. Len(a) + Len(b) :
               (a \o b)[k] = IF k <= Len(a) THEN a[k] ELSE b[k - Len(a)]
      BY <1>1, <1>2, ConcatProperties
    <2>2. Len(a) + Len(b) = Len(s) - 1
      BY <1>1, <1>2, LenProperties
    <2> QED
      BY <1>3, <2>1, <2>2
  <1>5. ASSUME NEW k \in 1 .. Len(t) PROVE t[k] = IF k < i THEN s[k] ELSE s[k + 1]
    <2>1. CASE k < i
      BY <1>1, <1>4, <2>1
    <2>2. CASE k >= i
      <3>1. k - (i - 1) \in 1 .. Len(s) - i /\ i + (k - (i - 1)) = k + 1 /\ ~(k <= Len(a))
        BY <1>1, <1>4, <2>2
      <3>2. b[k - (i - 1)] = s[k + 1]
        BY <1>2, <3>1
      <3> QED
        BY <1>1, <1>4, <2>2, <3>1, <3>2
    <2> QED
      BY <2>1, <2>2
  <1> QED
    BY <1>4, <1>5

\* The tables with a question q of n answers added
Added(c, q, n) ==
  [index |-> Append(c.index, c.indexcounter + 1), indexcounter |-> c.indexcounter + 1,
   amount |-> Append(c.amount, n),
   results |-> [qa \in DOMAIN c.results \cup {q} \X (0 .. n - 1) |->
                  IF qa[1] = q /\ qa[2] < n THEN 0 ELSE c.results[qa]]]

\* A question that is added has no votes.
LEMMA AddedCounts ==
  ASSUME NEW c, NEW given, NEW lost, Counts(c, given, lost),
         MaxQuestions \in Nat, MaxAnswers \in Nat,
         NEW q, q = Len(c.index) + 1, q <= MaxQuestions, NEW n \in 1 .. MaxAnswers,
         NEW t, t = Added(c, q, n)
  PROVE  Counts(t, given, lost)
  <1> DEFINE m == Len(c.index)
  <1> USE DEF Added
  <1>1. /\ c.index \in Seq(Nat) /\ c.indexcounter \in Nat /\ c.amount \in Seq(Nat)
        /\ m \in Nat /\ Len(c.amount) = m
        /\ \A k \in 1 .. m : c.index[k] \in Nat /\ c.amount[k] \in Nat
    <2>1. c \in Table
      BY DEF Counts, TableOK
    <2> QED
      BY <2>1, ElementOfSeq DEF Counts, TableOK, Table
  <1>2. PICK qas \in SUBSET (Nat \X Nat) : c.results \in [qas -> Int]
    BY DEF Counts, TableOK, Table
  <1>3. /\ t.index \in Seq(Nat) /\ Len(t.index) = q /\ t.amount \in Seq(Nat) /\ Len(t.amount) = q
        /\ \A k \in 1 .. m : t.index[k] = c.index[k] /\ t.amount[k] = c.amount[k]
        /\ t.index[q] = c.indexcounter + 1 /\ t.amount[q] = n
    BY <1>1, AppendProperties
  <1>4. \A k \in 1 .. q : k \in 1 .. m \/ k = q
    BY <1>1
  <1>5. /\ DOMAIN t.results = qas \cup {q} \X (0 .. n - 1)
        /\ \A qa \in DOMAIN t.results :
             t.results[qa] = IF qa[1] = q /\ qa[2] < n THEN 0 ELSE c.results[qa]
    BY <1>2
  <1>6. t \in Table
    <2>1. DOMAIN t.results \in SUBSET (Nat \X Nat)
      BY <1>1, <1>5
    <2>2. t.results \in [DOMAIN t.results -> Int]
      <3>1. \A qa \in DOMAIN t.results : t.results[qa] \in Int
        BY <1>1, <1>2, <1>5
      <3> QED
        BY <3>1
    <2>3. t.indexcounter \in Nat
      BY <1>1
    <2>4. t = [index |-> t.index, indexcounter |-> t.indexcounter, amount |-> t.amount,
               results |-> t.results]
      OBVIOUS
    <2>5. t.results \in UNION {[rs -> Int] : rs \in SUBSET (Nat \X Nat)}
      BY <2>1, <2>2
    <2> QED
      BY <1>3, <2>3, <2>4, <2>5 DEF Table
  <1>7. TableOK(t, lost)
    <2>1. ASSUME NEW k \in 1 .. q
          PROVE  /\ t.index[k] <= t.indexcounter /\ t.amount[k] <= MaxAnswers
                 /\ t.index[k] \notin lost =>
                      \A a \in 0 .. t.amount[k] - 1 : <<k, a>> \in DOMAIN t.results
      <3>1. CASE k \in 1 .. m
        <4>1. /\ c.index[k] <= c.indexcounter /\ c.amount[k] <= MaxAnswers
              /\ c.index[k] \notin lost =>
                   \A a \in 0 .. c.amount[k] - 1 : <<k, a>> \in DOMAIN c.results
          BY <1>1, <3>1 DEF Counts, TableOK
        <4>2. t.indexcounter = c.indexcounter + 1 /\ DOMAIN c.results \subseteq DOMAIN t.results
          BY <1>2, <1>5
        <4>3. t.index[k] = c.index[k] /\ t.amount[k] = c.amount[k]
          BY <1>3, <3>1
        <4>4. t.index[k] <= t.indexcounter
          BY <1>1, <3>1, <4>1, <4>2, <4>3
        <4> QED
          BY <4>1, <4>2, <4>3, <4>4
      <3>2. CASE k = q
        BY <1>1, <1>3, <1>5, <3>2
      <3> QED
        BY <1>4, <3>1, <3>2
    <2>2. ASSUME NEW k \in 1 .. q, NEW r \in 1 .. q, t.index[k] = t.index[r]
          PROVE  k = r
      BY <1>1, <1>3, <1>4, <2>2 DEF Counts, TableOK
    <2> QED
      BY <1>3, <1>6, <2>1, <2>2 DEF TableOK
  <1>8. VotesOK(t, given, lost)
    <2>1. \A u \in Voter : \A i \in DOMAIN given[u] : i \in Nat /\ i <= c.indexcounter
      <3>1. ASSUME NEW u \in Voter PROVE DOMAIN given[u] \subseteq Nat
        <4>1. given[u] \in Record
          BY DEF Counts, VotesOK
        <4> QED
          BY <4>1 DEF Record
      <3> QED
        BY <3>1 DEF Counts, VotesOK
    <2>2. \A u \in Voter : \A i \in DOMAIN given[u] : i <= t.indexcounter
      BY <1>1, <2>1
    <2>3. ASSUME NEW u \in Voter, NEW k \in 1 .. q, t.index[k] \in DOMAIN given[u] \ lost
          PROVE  given[u][t.index[k]] < t.amount[k]
      <3>1. k # q
        BY <1>1, <1>3, <2>1, <2>3
      <3> QED
        BY <1>3, <1>4, <2>3, <3>1 DEF Counts, VotesOK
    <2> QED
      BY <1>3, <2>2, <2>3 DEF VotesOK, Counts
  <1>9. Tallied(t, given, lost)
    <2> SUFFICES ASSUME NEW k \in 1 .. q, t.index[k] \notin lost,
                        NEW a \in 0 .. t.amount[k] - 1
                 PROVE  t.results[<<k, a>>] = Cardinality(VotersFor(given, t.index[k], a))
      BY <1>3 DEF Tallied
    <2>0. <<k, a>> \in DOMAIN t.results
      BY <1>3, <1>7 DEF TableOK
    <2>1. CASE k \in 1 .. m
      <3>1. t.results[<<k, a>>] = c.results[<<k, a>>]
        BY <1>1, <1>5, <2>0, <2>1
      <3> QED
        BY <1>3, <2>1, <3>1 DEF Counts, Tallied
    <2>2. CASE k = q
      <3>1. VotersFor(given, t.index[k], a) = {}
        BY <1>1, <1>3, <2>2 DEF VotersFor, Counts, VotesOK, Record
      <3>2. t.results[<<k, a>>] = 0
        BY <1>3, <1>5, <2>0, <2>2
      <3> QED
        BY <3>1, <3>2, FS_EmptySet
    <2> QED
      BY <1>4, <2>1, <2>2
  <1> QED
    BY <1>7, <1>8, <1>9 DEF Counts

\* The questions after a question that is deleted move up, with their counts.
LEMMA DeletedCounts ==
  ASSUME NEW c, NEW given, NEW lost, Counts(c, given, lost),
         MaxQuestions \in Nat, MaxAnswers \in Nat,
         NEW q \in 1 .. Len(c.index),
         NEW t \in Table, t.index = V!RemoveAt(c.index, q), t.indexcounter = c.indexcounter,
         t.amount = [k \in 1 .. Len(c.amount) - 1 |->
                       c.amount[IF k \in q .. Len(c.index) - 1 THEN k + 1 ELSE k]],
         \A k \in 1 .. Len(c.index) - 1 :
           LET from == IF k < q THEN k ELSE k + 1 IN
             c.index[from] \notin lost => \A a \in 0 .. c.amount[from] - 1 :
               <<k, a>> \in DOMAIN t.results /\ t.results[<<k, a>>] = c.results[<<from, a>>]
  PROVE  Counts(t, given, lost)
  <1> DEFINE m == Len(c.index)
             From(k) == IF k < q THEN k ELSE k + 1
  <1>1. /\ c.index \in Seq(Nat) /\ c.indexcounter \in Nat /\ c.amount \in Seq(Nat)
        /\ m \in Nat /\ Len(c.amount) = m
    BY DEF Counts, TableOK, Table
  <1>2. /\ Len(t.index) = m - 1
        /\ \A k \in 1 .. m - 1 : t.index[k] = c.index[From(k)]
    <2>1. /\ Len(t.index) = m - 1
          /\ \A k \in 1 .. m - 1 : t.index[k] = IF k < q THEN c.index[k] ELSE c.index[k + 1]
      <3>1. PICK s : s = c.index
        OBVIOUS
      <3>2. PICK u : u = t.index
        OBVIOUS
      <3>3. s \in Seq(Nat) /\ q \in 1 .. Len(s) /\ u = V!RemoveAt(s, q)
        BY <1>1, <3>1, <3>2
      <3>4. /\ Len(u) = Len(s) - 1
            /\ \A k \in 1 .. Len(u) : u[k] = IF k < q THEN s[k] ELSE s[k + 1]
        BY <3>3, WithoutElement
      <3> QED
        BY <3>1, <3>2, <3>4
    <2> QED
      BY <2>1
  <1>3. /\ Len(t.amount) = m - 1
        /\ \A k \in 1 .. m - 1 : t.amount[k] = c.amount[From(k)]
    <2>1. PICK n : n = m - 1
      OBVIOUS
    <2>2. n \in Nat /\ \A k \in 1 .. n : (k \in q .. n) = (q <= k)
      BY <1>1, <2>1
    <2>3. t.amount = [k \in 1 .. n |-> c.amount[IF k \in q .. n THEN k + 1 ELSE k]]
      BY <1>1, <2>1
    <2>4. Len(t.amount) = n
      <3>1. PICK f : f = t.amount
        OBVIOUS
      <3>2. n \in Nat
        BY <1>1, <2>1
      <3>3. f \in Seq(Nat) /\ DOMAIN f = 1 .. n
        BY <2>3, <3>1 DEF Table
      <3>4. Len(f) \in Nat /\ DOMAIN f = 1 .. Len(f)
        BY <3>3, LenProperties
      <3>5. \A i, j \in Nat : 1 .. i = 1 .. j => i = j
        OBVIOUS
      <3> QED
        BY <3>1, <3>2, <3>3, <3>4, <3>5
    <2>5. ASSUME NEW k \in 1 .. n PROVE t.amount[k] = c.amount[From(k)]
      <3>1. (IF k \in q .. n THEN k + 1 ELSE k) = From(k)
        BY <2>2
      <3> QED
        BY <2>3, <3>1
    <2> QED
      BY <2>1, <2>4, <2>5
  <1>4. ASSUME NEW k \in 1 .. m - 1
        PROVE  /\ From(k) \in 1 .. m
               /\ \A r \in 1 .. m - 1 : From(k) = From(r) => k = r
    BY <1>1
  <1>5. \A k \in 1 .. m - 1 : c.index[From(k)] \notin lost => \A a \in 0 .. c.amount[From(k)] - 1 :
          <<k, a>> \in DOMAIN t.results /\ t.results[<<k, a>>] = c.results[<<From(k), a>>]
    OBVIOUS
  <1> HIDE DEF From
  <1>6. TableOK(t, lost)
    <2>1. ASSUME NEW k \in 1 .. m - 1
          PROVE  /\ t.index[k] <= t.indexcounter /\ t.amount[k] <= MaxAnswers
                 /\ t.index[k] \notin lost =>
                      \A a \in 0 .. t.amount[k] - 1 : <<k, a>> \in DOMAIN t.results
      BY <1>2, <1>3, <1>4, <1>5 DEF Counts, TableOK
    <2>2. ASSUME NEW k \in 1 .. m - 1, NEW r \in 1 .. m - 1, t.index[k] = t.index[r]
          PROVE  k = r
      BY <1>2, <1>4, <2>2 DEF Counts, TableOK
    <2>3. m - 1 <= MaxQuestions
      BY <1>1 DEF Counts, TableOK
    <2> QED
      BY <1>2, <1>3, <2>1, <2>2, <2>3 DEF TableOK
  <1>7. VotesOK(t, given, lost)
    BY <1>2, <1>3, <1>4 DEF Counts, VotesOK
  <1>8. Tallied(t, given, lost)
    <2> SUFFICES ASSUME NEW k \in 1 .. m - 1, t.index[k] \notin lost,
                        NEW a \in 0 .. t.amount[k] - 1
                 PROVE  t.results[<<k, a>>] = Cardinality(VotersFor(given, t.index[k], a))
      BY <1>2 DEF Tallied
    <2>1. a \in 0 .. c.amount[From(k)] - 1 /\ c.index[From(k)] \notin lost
      BY <1>2, <1>3
    <2>2. t.results[<<k, a>>] = c.results[<<From(k), a>>]
      BY <1>5, <2>1
    <2>3. c.results[<<From(k), a>>] = Cardinality(VotersFor(given, c.index[From(k)], a))
      BY <1>4, <2>1 DEF Counts, Tallied
    <2> QED
      BY <1>2, <2>2, <2>3
  <1> QED
    BY <1>6, <1>7, <1>8 DEF Counts

\* Who gave answer b, and how many, when u has given a
VotersNow(S, u, a, b) == (S \ {u}) \cup (IF b = a THEN {u} ELSE {})

CountNow(n, S, u, a, b) == n - (IF u \in S THEN 1 ELSE 0) + (IF b = a THEN 1 ELSE 0)

\* The count x of the results when the vote of a record voted has become a
NotedAt(c, voted, q, a, x) ==
  c.results[x]
    - (IF c.index[q] \in DOMAIN voted /\ x = <<q, voted[c.index[q]]>> THEN 1 ELSE 0)
    + (IF x = <<q, a>> THEN 1 ELSE 0)

\* What the vote of u for answer a of question i changes
VoteMade(given, now, u, i, a) ==
  /\ now \in [Voter -> Record]
  /\ \A v \in Voter : v # u => now[v] = given[v]
  /\ DOMAIN now[u] = DOMAIN given[u] \cup {i}
  /\ \A j \in DOMAIN given[u] : j # i => now[u][j] = given[u][j]
  /\ now[u][i] = a
  /\ \A j \in Nat \ {i}, b \in Nat : VotersFor(now, j, b) = VotersFor(given, j, b)
  /\ \A b \in Nat : VotersFor(now, i, b) = VotersNow(VotersFor(given, i, b), u, a, b)

NoteMade(c, results, qas, voted, q, a) ==
  /\ results \in [qas -> Int]
  /\ \A x \in qas : results[x] = NotedAt(c, voted, q, a, x)

\* A vote replaces an earlier one of the user, and no other vote: who gave each answer,
LEMMA VotersWithVote ==
  ASSUME NEW given \in [Voter -> Record], NEW u \in Voter, NEW i \in Nat, NEW a \in Nat,
         NEW now, now = [given EXCEPT ![u] = V!With(given[u], i, a)]
  PROVE  VoteMade(given, now, u, i, a)
  <1>1. PICK is \in SUBSET Nat : given[u] \in [is -> Nat]
    BY DEF Record
  <1>2. now[u] = [j \in is \cup {i} |-> IF j = i THEN a ELSE given[u][j]]
    BY <1>1 DEF V!With
  <1>3. now[u] \in [is \cup {i} -> Nat]
    BY <1>1, <1>2
  <1>4. now[u] \in Record
    BY <1>3 DEF Record
  <1>5. /\ now \in [Voter -> Record]
        /\ \A v \in Voter : v # u => now[v] = given[v]
    BY <1>4
  <1>6. /\ DOMAIN now[u] = DOMAIN given[u] \cup {i}
        /\ \A j \in DOMAIN given[u] : j # i => now[u][j] = given[u][j]
        /\ now[u][i] = a
    BY <1>1, <1>2
  <1>7. ASSUME NEW j \in Nat \ {i}, NEW b \in Nat
        PROVE  VotersFor(now, j, b) = VotersFor(given, j, b)
    BY <1>5, <1>6 DEF VotersFor
  <1>8. ASSUME NEW b \in Nat
        PROVE  VotersFor(now, i, b) = VotersNow(VotersFor(given, i, b), u, a, b)
    BY <1>5, <1>6 DEF VotersFor, VotersNow
  <1> QED
    BY <1>5, <1>6, <1>7, <1>8 DEF VoteMade

\* and how many.
LEMMA CountWithVote ==
  ASSUME IsFiniteSet(Voter), NEW S \in SUBSET Voter, NEW u \in Voter, NEW a, NEW b,
         NEW n, n = Cardinality(S)
  PROVE  Cardinality(VotersNow(S, u, a, b)) = CountNow(n, S, u, a, b)
  <1>1. IsFiniteSet(S) /\ n \in Nat
    BY FS_Subset, FS_CardinalityType
  <1>2. /\ IsFiniteSet(S \ {u})
        /\ Cardinality(S \ {u}) = IF u \in S THEN n - 1 ELSE n
    BY <1>1, FS_RemoveElement
  <1>3. Cardinality((S \ {u}) \cup {u}) = Cardinality(S \ {u}) + 1
    BY <1>2, FS_AddElement
  <1>4. CASE b = a
    <2>1. VotersNow(S, u, a, b) = (S \ {u}) \cup {u}
      BY <1>4 DEF VotersNow
    <2> QED
      BY <1>1, <1>2, <1>3, <1>4, <2>1 DEF CountNow
  <1>5. CASE b # a
    <2>1. VotersNow(S, u, a, b) = S \ {u}
      BY <1>5 DEF VotersNow
    <2> QED
      BY <1>1, <1>2, <1>5, <2>1 DEF CountNow
  <1> QED
    BY <1>4, <1>5

\* The results after a vote
LEMMA NotedResults ==
  ASSUME NEW qas, NEW c, c.results \in [qas -> Int], NEW voted, NEW q, NEW a,
         <<q, a>> \in qas, NEW results, results = V!Noted(c, voted, q, a),
         c.index[q] \in DOMAIN voted => <<q, voted[c.index[q]]>> \in qas
  PROVE  NoteMade(c, results, qas, voted, q, a)
  <1> DEFINE i == c.index[q]
             without == IF i \in DOMAIN voted
                        THEN [c.results EXCEPT ![<<q, voted[i]>>] = @ - 1] ELSE c.results
  <1>1. /\ without \in [qas -> Int]
        /\ \A x \in qas : without[x] = c.results[x]
             - (IF i \in DOMAIN voted /\ x = <<q, voted[i]>> THEN 1 ELSE 0)
    <2>1. CASE i \in DOMAIN voted
      <3>1. without = [c.results EXCEPT ![<<q, voted[i]>>] = @ - 1]
        BY <2>1
      <3> QED
        BY <2>1, <3>1
    <2>2. CASE i \notin DOMAIN voted
      BY <2>2
    <2> QED
      BY <2>1, <2>2
  <1>2. results = [without EXCEPT ![<<q, a>>] = @ + 1]
    BY DEF V!Noted
  <1> HIDE DEF without, i
  <1>3. /\ results \in [qas -> Int]
        /\ \A x \in qas : results[x] = without[x] + (IF x = <<q, a>> THEN 1 ELSE 0)
    BY <1>1, <1>2
  <1> QED
    BY <1>1, <1>3 DEF i, NotedAt, NoteMade

\* The tables that are left when u voted
LEMMA NotedCounts ==
  ASSUME IsFiniteSet(Voter), NEW c, NEW given, NEW lost, Counts(c, given, lost), NEW u \in Voter,
         NEW q \in 1 .. Len(c.index), NEW a \in 0 .. c.amount[q] - 1,
         <<q, a>> \in DOMAIN c.results, V!EarlierCounted(c, given[u], q),
         NEW d, d = [c EXCEPT !.results = V!Noted(c, given[u], q, a)],
         NEW now, now = [given EXCEPT ![u] = V!With(given[u], c.index[q], a)]
  PROVE  Counts(d, now, lost)
  <1> DEFINE m == Len(c.index)
             i == c.index[q]
  <1>1. /\ c.index \in Seq(Nat) /\ c.indexcounter \in Nat /\ c.amount \in Seq(Nat)
        /\ m \in Nat /\ Len(c.amount) = m
        /\ \A k \in 1 .. m : c.index[k] \in Nat /\ c.amount[k] \in Nat
    <2>1. c \in Table
      BY DEF Counts, TableOK
    <2> QED
      BY <2>1, ElementOfSeq DEF Counts, TableOK, Table
  <1>2. PICK qas \in SUBSET (Nat \X Nat) : c.results \in [qas -> Int]
    BY DEF Counts, TableOK, Table
  <1>3. \A k \in 1 .. m : c.index[k] \notin lost =>
          \A b \in 0 .. c.amount[k] - 1 : <<k, b>> \in qas
    BY <1>2 DEF Counts, TableOK
  <1>4. given \in [Voter -> Record] /\ i \in Nat /\ a \in Nat
    BY <1>1 DEF Counts, VotesOK
  <1>5. i \in DOMAIN given[u] => <<q, given[u][i]>> \in qas
    BY <1>2 DEF V!EarlierCounted
  <1>6. d = [index |-> c.index, indexcounter |-> c.indexcounter, amount |-> c.amount,
             results |-> V!Noted(c, given[u], q, a)]
    BY DEF Counts, TableOK, Table
  <1>7. PICK results : results = V!Noted(c, given[u], q, a)
    OBVIOUS
  <1>8. /\ results \in [qas -> Int]
        /\ \A x \in qas : results[x] = NotedAt(c, given[u], q, a, x)
    <2>1. PICK voted : voted = given[u]
      OBVIOUS
    <2>2. <<q, a>> \in qas /\ (i \in DOMAIN voted => <<q, voted[i]>> \in qas)
      BY <1>2, <1>5, <2>1
    <2>3. results = V!Noted(c, voted, q, a)
      BY <1>7, <2>1
    <2>4. NoteMade(c, results, qas, voted, q, a)
      BY <1>2, <2>2, <2>3, NotedResults
    <2> QED
      BY <2>1, <2>4 DEF NoteMade
  <1>9. TableOK(d, lost)
    <2>1. results \in UNION {[rs -> Int] : rs \in SUBSET (Nat \X Nat)}
      BY <1>8
    <2>2. d \in Table
      <3>1. d = [index |-> c.index, indexcounter |-> c.indexcounter, amount |-> c.amount,
                 results |-> results]
        BY <1>6, <1>7
      <3>2. PICK index, amount, counter :
              index = c.index /\ amount = c.amount /\ counter = c.indexcounter
        OBVIOUS
      <3>3. index \in Seq(Nat) /\ amount \in Seq(Nat) /\ counter \in Nat
        BY <1>1, <3>2
      <3>4. [index |-> index, indexcounter |-> counter, amount |-> amount,
             results |-> results] \in Table
        BY <2>1, <3>3, MakesTable
      <3> QED
        BY <3>1, <3>2, <3>4
    <2> QED
      BY <1>3, <1>6, <1>7, <1>8, <2>2 DEF Counts, TableOK
  <1>10. VoteMade(given, now, u, i, a)
    <2>1. PICK j : j = i
      OBVIOUS
    <2>2. j \in Nat /\ now = [given EXCEPT ![u] = V!With(given[u], j, a)]
      BY <1>4, <2>1
    <2>3. VoteMade(given, now, u, j, a)
      BY <1>4, <2>2, VotersWithVote
    <2> QED
      BY <2>1, <2>3
  <1>11. VotesOK(d, now, lost)
    <2>1. ASSUME NEW v \in Voter, NEW j \in DOMAIN now[v] PROVE j <= d.indexcounter
      BY <1>1, <1>6, <1>10 DEF Counts, VotesOK, TableOK, VoteMade
    <2>2. ASSUME NEW v \in Voter, NEW k \in 1 .. m,
                 c.index[k] \in DOMAIN now[v] \ lost
          PROVE  now[v][c.index[k]] < c.amount[k]
      <3>1. CASE v = u /\ c.index[k] = i
        <4>1. k = q
          BY <3>1 DEF Counts, TableOK
        <4> QED
          BY <1>1, <1>10, <3>1, <4>1 DEF VoteMade
      <3>2. CASE ~(v = u /\ c.index[k] = i)
        BY <1>10, <2>2, <3>2 DEF Counts, VotesOK, VoteMade
      <3> QED
        BY <3>1, <3>2
    <2> QED
      BY <1>6, <1>10, <2>1, <2>2 DEF VotesOK, VoteMade
  <1>12. Tallied(d, now, lost)
    <2> SUFFICES ASSUME NEW k \in 1 .. m, c.index[k] \notin lost,
                        NEW b \in 0 .. c.amount[k] - 1
                 PROVE  results[<<k, b>>] = Cardinality(VotersFor(now, c.index[k], b))
      BY <1>6, <1>7 DEF Tallied
    <2>1. <<k, b>> \in qas /\ b \in Nat /\ c.index[k] \in Nat
      BY <1>1, <1>3
    <2>2. c.results[<<k, b>>] = Cardinality(VotersFor(given, c.index[k], b))
      BY DEF Counts, Tallied
    <2>3. CASE k = q
      <3>1. PICK S : S = VotersFor(given, i, b)
        OBVIOUS
      <3>2. PICK n : n = Cardinality(S)
        OBVIOUS
      <3>3. S \subseteq Voter /\ (u \in S <=> i \in DOMAIN given[u] /\ given[u][i] = b)
        BY <3>1 DEF VotersFor
      <3>4. c.results[<<k, b>>] = n
        BY <2>2, <2>3, <3>1, <3>2
      <3>5. n \in Int
        BY <1>2, <2>1, <3>4
      <3>6. results[<<k, b>>] = CountNow(n, S, u, a, b)
        BY <1>8, <2>1, <2>3, <3>3, <3>4, <3>5 DEF NotedAt, CountNow
      <3>7. Cardinality(VotersNow(S, u, a, b)) = CountNow(n, S, u, a, b)
        BY <3>2, <3>3, CountWithVote
      <3> QED
        BY <1>10, <2>1, <2>3, <3>1, <3>6, <3>7 DEF VoteMade
    <2>4. CASE k # q
      <3>1. c.index[k] \in Nat \ {i}
        BY <2>1, <2>4 DEF Counts, TableOK
      <3>2. VotersFor(now, c.index[k], b) = VotersFor(given, c.index[k], b)
        BY <1>10, <2>1, <3>1 DEF VoteMade
      <3>3. results[<<k, b>>] = c.results[<<k, b>>]
        BY <1>2, <1>8, <2>1, <2>4 DEF NotedAt
      <3> QED
        BY <2>2, <3>2, <3>3
    <2> QED
      BY <2>3, <2>4
  <1> QED
    BY <1>9, <1>11, <1>12 DEF Counts

\* An answer that is added has no votes.
LEMMA AnsweredCounts ==
  ASSUME NEW c, NEW given, NEW lost, Counts(c, given, lost), NEW q \in 1 .. Len(c.index),
         NEW n, n = c.amount[q], n < MaxAnswers, MaxAnswers \in Nat,
         NEW d, d = [index |-> c.index, indexcounter |-> c.indexcounter,
                     amount |-> [c.amount EXCEPT ![q] = n + 1],
                     results |-> V!With(c.results, <<q, n>>, 0)]
  PROVE  Counts(d, given, lost)
  <1> DEFINE m == Len(c.index)
  <1>1. /\ c.index \in Seq(Nat) /\ c.indexcounter \in Nat /\ c.amount \in Seq(Nat)
        /\ m \in Nat /\ Len(c.amount) = m
        /\ \A k \in 1 .. m : c.index[k] \in Nat /\ c.amount[k] \in Nat
    <2>1. c \in Table
      BY DEF Counts, TableOK
    <2> QED
      BY <2>1, ElementOfSeq DEF Counts, TableOK, Table
  <1>0. n \in Nat /\ c.amount[q] = n
    BY <1>1
  <1>2. PICK qas \in SUBSET (Nat \X Nat) : c.results \in [qas -> Int]
    BY DEF Counts, TableOK, Table
  <1>3. PICK amount : amount = [c.amount EXCEPT ![q] = n + 1]
    OBVIOUS
  <1>4. PICK results : results = V!With(c.results, <<q, n>>, 0)
    OBVIOUS
  <1>5. d = [index |-> c.index, indexcounter |-> c.indexcounter, amount |-> amount,
             results |-> results]
    BY <1>3, <1>4
  <1>a. /\ d.index = c.index /\ d.indexcounter = c.indexcounter /\ d.amount = amount
        /\ d.results = results
    BY <1>5
  <1>6. /\ amount \in Seq(Nat) /\ Len(amount) = m /\ amount[q] = n + 1
        /\ \A k \in 1 .. m : k # q => amount[k] = c.amount[k]
    <2>1. PICK s : s = c.amount
      OBVIOUS
    <2>2. s \in Seq(Nat) /\ q \in 1 .. Len(s)
      BY <1>1, <2>1
    <2> n + 1 \in Nat
      BY <1>0
    <2>3. /\ [s EXCEPT ![q] = n + 1] \in Seq(Nat) /\ Len([s EXCEPT ![q] = n + 1]) = Len(s)
          /\ \A k \in 1 .. Len(s) :
               [s EXCEPT ![q] = n + 1][k] = IF k = q THEN n + 1 ELSE s[k]
      BY <2>2, ExceptSeq
    <2> QED
      BY <1>1, <1>3, <2>1, <2>2, <2>3
  <1>7. /\ results \in [qas \cup {<<q, n>>} -> Int] /\ results[<<q, n>>] = 0
        /\ \A x \in qas : x # <<q, n>> => results[x] = c.results[x]
    BY <1>2, <1>4 DEF V!With
  <1>8. TableOK(d, lost)
    <2>1. results \in UNION {[rs -> Int] : rs \in SUBSET (Nat \X Nat)}
      <3>1. qas \cup {<<q, n>>} \in SUBSET (Nat \X Nat)
        <4>1. q \in Nat /\ n \in Nat
          BY <1>0
        <4> QED
          BY <4>1
      <3> QED
        BY <1>7, <3>1
    <2>2. d \in Table
      <3>1. c.index \in Seq(Nat) /\ c.indexcounter \in Nat /\ amount \in Seq(Nat)
        BY <1>1, <1>6
      <3> QED
        BY <1>5, <2>1, <3>1, MakesTable
    <2>3. ASSUME NEW k \in 1 .. m
          PROVE  /\ amount[k] <= MaxAnswers
                 /\ c.index[k] \notin lost =>
                      \A b \in 0 .. amount[k] - 1 : <<k, b>> \in DOMAIN results
      <3>1. CASE k = q
        <4>1. amount[k] = n + 1 /\ n + 1 <= MaxAnswers
          BY <1>0, <1>6, <3>1
        <4>2. ASSUME NEW b \in 0 .. n, c.index[q] \notin lost PROVE <<q, b>> \in DOMAIN results
          <5>1. CASE b = n
            BY <1>7, <5>1
          <5>2. CASE b # n
            <6>1. b \in 0 .. c.amount[q] - 1
              BY <1>0, <5>2
            <6>2. <<q, b>> \in qas
              BY <1>2, <4>2, <6>1 DEF Counts, TableOK
            <6> QED
              BY <1>7, <6>2
          <5> QED
            BY <5>1, <5>2
        <4>3. \A b \in 0 .. amount[k] - 1 : b \in 0 .. n
          BY <1>0, <4>1
        <4> QED
          BY <3>1, <4>1, <4>2, <4>3
      <3>2. CASE k # q
        BY <1>1, <1>2, <1>6, <1>7, <3>2 DEF Counts, TableOK
      <3> QED
        BY <3>1, <3>2
    <2> QED
      BY <1>a, <1>6, <2>2, <2>3 DEF Counts, TableOK
  <1>9. VotesOK(d, given, lost)
    <2>1. ASSUME NEW u \in Voter, NEW k \in 1 .. m,
                 c.index[k] \in DOMAIN given[u] \ lost
          PROVE  given[u][c.index[k]] < amount[k]
      <3>1. given[u] \in Record
        BY DEF Counts, VotesOK
      <3>2. given[u][c.index[k]] \in Nat
        <4>1. c.index[k] \in DOMAIN given[u]
          BY <2>1
        <4> QED
          BY <3>1, <4>1 DEF Record
      <3>3. given[u][c.index[k]] < c.amount[k]
        BY <2>1 DEF Counts, VotesOK
      <3>4. CASE k = q
        BY <1>0, <1>6, <3>2, <3>3, <3>4
      <3>5. CASE k # q
        BY <1>6, <3>3, <3>5
      <3> QED
        BY <3>4, <3>5
    <2> QED
      BY <1>a, <2>1 DEF Counts, VotesOK
  <1>10. Tallied(d, given, lost)
    <2> SUFFICES ASSUME NEW k \in 1 .. m, c.index[k] \notin lost,
                        NEW b \in 0 .. amount[k] - 1
                 PROVE  results[<<k, b>>] = Cardinality(VotersFor(given, c.index[k], b))
      BY <1>a DEF Tallied
    <2>1. CASE k = q /\ b = n
      <3>1. VotersFor(given, c.index[k], b) = {}
        BY <1>0, <1>1, <2>1 DEF VotersFor, Counts, VotesOK
      <3> QED
        BY <1>7, <2>1, <3>1, FS_EmptySet
    <2>2. CASE ~(k = q /\ b = n)
      <3>1. b \in 0 .. c.amount[k] - 1
        <4>1. CASE k = q
          BY <1>0, <1>6, <2>2, <4>1
        <4>2. CASE k # q
          BY <1>6, <4>2
        <4> QED
          BY <4>1, <4>2
      <3>2. <<k, b>> \in qas
        BY <1>2, <3>1 DEF Counts, TableOK
      <3>3. results[<<k, b>>] = c.results[<<k, b>>]
        BY <1>7, <2>2, <3>2
      <3> QED
        BY <3>1, <3>3 DEF Counts, Tallied
    <2> QED
      BY <2>1, <2>2
  <1> QED
    BY <1>8, <1>9, <1>10 DEF Counts

\* Of a question that is lost, the answers and counts may change.
LEMMA LostCounts ==
  ASSUME NEW c, NEW given, NEW lost, Counts(c, given, lost), NEW q \in 1 .. Len(c.index),
         NEW now, now = lost \cup {c.index[q]},
         NEW d \in Table, d.index = c.index, d.indexcounter = c.indexcounter,
         Len(d.amount) = Len(c.amount), d.amount[q] <= MaxAnswers,
         \A k \in 1 .. Len(c.index) : k # q => d.amount[k] = c.amount[k],
         \A x \in DOMAIN c.results : x[1] # q =>
           x \in DOMAIN d.results /\ d.results[x] = c.results[x]
  PROVE  Counts(d, given, now)
  <1> DEFINE m == Len(c.index)
  <1>1. \A k \in 1 .. m : c.index[k] \notin now => k # q /\ c.index[k] \notin lost
    OBVIOUS
  <1>2. \A k \in 1 .. m : c.index[k] \notin now => \A a \in 0 .. c.amount[k] - 1 :
          /\ <<k, a>> \in DOMAIN c.results
          /\ <<k, a>> \in DOMAIN d.results /\ d.results[<<k, a>>] = c.results[<<k, a>>]
    <2> SUFFICES ASSUME NEW k \in 1 .. m, c.index[k] \notin now, NEW a \in 0 .. c.amount[k] - 1
                 PROVE  /\ <<k, a>> \in DOMAIN c.results /\ <<k, a>> \in DOMAIN d.results
                        /\ d.results[<<k, a>>] = c.results[<<k, a>>]
      OBVIOUS
    <2>1. <<k, a>> \in DOMAIN c.results
      BY <1>1 DEF Counts, TableOK
    <2>2. <<k, a>>[1] # q
      BY <1>1
    <2> QED
      BY <2>1, <2>2
  <1>3. TableOK(d, now)
    <2>1. \A k \in 1 .. m : d.amount[k] <= MaxAnswers
      BY DEF Counts, TableOK
    <2>2. \A k \in 1 .. m : c.index[k] \notin now =>
            \A a \in 0 .. d.amount[k] - 1 : <<k, a>> \in DOMAIN d.results
      BY <1>1, <1>2
    <2> QED
      BY <2>1, <2>2 DEF Counts, TableOK
  <1>4. VotesOK(d, given, now)
    BY <1>1 DEF Counts, VotesOK
  <1>5. Tallied(d, given, now)
    BY <1>1, <1>2 DEF Counts, Tallied
  <1> QED
    BY <1>3, <1>4, <1>5 DEF Counts

\* No other session is about anything.
Alone(u) == \A v \in Voter : v # u => at[v] = "menu"

LEMMA NoTableIsTable == V!NoTable \in Table
  <1>1. << >> \in Seq(Nat)
    OBVIOUS
  <1>2. << >> \in [{} -> Int]
    OBVIOUS
  <1>3. << >> \in UNION {[qas -> Int] : qas \in SUBSET (Nat \X Nat)}
    BY <1>2
  <1> QED
    BY <1>1, <1>3, MakesTable DEF V!NoTable

\* At first there is one question, and no votes.
LEMMA PollsInit == V!PollsAssumption /\ V!Init => PollsInv
  <1> SUFFICES ASSUME V!PollsAssumption, V!Init PROVE PollsInv
    OBVIOUS
  <1>1. PICK n \in 1 .. MaxAnswers :
          table = [index |-> <<0>>, indexcounter |-> 0, amount |-> <<n>>,
                   results |-> [qa \in {1} \X (0 .. n - 1) |-> 0]]
    BY DEF V!Init
  <1>2. MaxAnswers \in Nat \ {0} /\ MaxQuestions \in Nat \ {0}
    BY DEF V!PollsAssumption
  <1>3. table \in Table
    <2>1. <<0>> \in Seq(Nat) /\ <<n>> \in Seq(Nat) /\ 0 \in Nat
      BY <1>2
    <2>2. {1} \X (0 .. n - 1) \in SUBSET (Nat \X Nat)
      BY <1>2
    <2>3. [qa \in {1} \X (0 .. n - 1) |-> 0] \in UNION {[qas -> Int] : qas \in SUBSET (Nat \X Nat)}
      <3>1. PICK D : D = {1} \X (0 .. n - 1)
        OBVIOUS
      <3>2. [qa \in D |-> 0] \in [D -> Int]
        OBVIOUS
      <3> QED
        BY <2>2, <3>1, <3>2
    <2> QED
      BY <1>1, <2>1, <2>3, MakesTable
  <1>4. << >> \in Record
    <2>1. << >> \in [{} -> Nat]
      OBVIOUS
    <2> QED
      BY <2>1 DEF Record
  <1>5. votes \in [Voter -> Record] /\ \A u \in Voter : DOMAIN votes[u] = {}
    <2>1. DOMAIN << >> = {}
      OBVIOUS
    <2> QED
      BY <1>4, <2>1 DEF V!Init
  <1>6. Len(table.index) = 1 /\ table.index[1] = 0 /\ table.amount[1] = n /\ Len(table.amount) = 1
        /\ \A k \in 1 .. Len(table.index) : k = 1
    BY <1>1
  <1>7. \A a \in 0 .. n - 1 : <<1, a>> \in DOMAIN table.results /\ table.results[<<1, a>>] = 0
    BY <1>1
  <1>8. TableOK(table, shuffled)
    BY <1>1, <1>2, <1>3, <1>6, <1>7 DEF TableOK
  <1>9. VotesOK(table, votes, shuffled)
    BY <1>5 DEF VotesOK
  <1>10. Tallied(table, votes, shuffled)
    <2>1. \A i, a : VotersFor(votes, i, a) = {}
      BY <1>5 DEF VotersFor
    <2> QED
      BY <1>6, <1>7, <2>1, FS_EmptySet DEF Tallied
  <1>11. /\ copy \in [Voter -> Table] /\ choice \in [Voter -> Nat \X Nat]
         /\ at = [u \in Voter |-> "menu"]
    BY NoTableIsTable DEF V!Init, V!NoChoice
  <1> QED
    BY <1>3, <1>5, <1>8, <1>9, <1>10, <1>11 DEF PollsInv, Counts, Reading, Writing

\* What a state that is not spoiled is
LEMMA PollsTypes ==
  ASSUME PollsInv, ~spoiled
  PROVE  /\ at \in [Voter -> {"menu", "choosing", "adding", "deleting", "noted", "counted"}]
         /\ copy \in [Voter -> Table] /\ choice \in [Voter -> Nat \X Nat]
         /\ votes \in [Voter -> Record] /\ table \in Table
  BY DEF PollsInv

\* A session that is about something is alone, and holds the tables.
LEMMA PollsAlone ==
  ASSUME PollsInv, ~spoiled, NEW u \in Voter, at[u] # "menu"
  PROVE  /\ Alone(u)
         /\ Reading(u) => HoldsTable(u) /\ Counts(table, votes, shuffled)
         /\ Writing(u) => HoldsVote(u)
  <1>1. Alone(u)
    BY DEF PollsInv, Alone
  <1>2. Reading(u) => \A v \in Voter : ~Writing(v)
    BY <1>1 DEF Alone, Reading, Writing
  <1>3. (\A v \in Voter : ~Writing(v)) => Counts(table, votes, shuffled)
    BY DEF PollsInv
  <1>4. (Reading(u) => HoldsTable(u)) /\ (Writing(u) => HoldsVote(u))
    BY DEF PollsInv
  <1> QED
    BY <1>1, <1>2, <1>3, <1>4

\* A session that begins finds the others at the menu, and reads the tables.
LEMMA PollsBegin ==
  ASSUME PollsInv, ~spoiled', NEW u \in Voter, NEW what \in {"choosing", "adding", "deleting"},
         V!Begin(u, what), UNCHANGED <<table, votes, shuffled>>, choice' \in [Voter -> Nat \X Nat],
         what # "adding" => choice'[u][1] \in DOMAIN table.index
  PROVE  PollsInv'
  <1>1. ~spoiled /\ \A v \in Voter : at[v] = "menu"
    BY DEF V!Begin
  <1>2. /\ table' \in Table /\ votes' \in [Voter -> Record]
        /\ at' = [at EXCEPT ![u] = what] /\ copy' = [copy EXCEPT ![u] = table]
        /\ at' \in [Voter -> {"menu", "choosing", "adding", "deleting", "noted", "counted"}]
        /\ copy' \in [Voter -> Table]
    BY <1>1, PollsTypes DEF V!Begin
  <1>3. /\ \A v \in Voter : v # u => at'[v] = "menu"
        /\ at'[u] = what /\ copy'[u] = table'
    BY <1>1, <1>2, PollsTypes
  <1>4. Counts(table', votes', shuffled')
    BY <1>1 DEF PollsInv, Writing
  <1>5. DOMAIN table.index = 1 .. Len(table.index)
    BY <1>1, PollsTypes, TableIs
  <1>6. \A v \in Voter : (Reading(v)' => HoldsTable(v)') /\ ~Writing(v)'
    BY <1>3, <1>5 DEF Reading, Writing, HoldsTable
  <1> QED
    BY <1>2, <1>3, <1>4, <1>6 DEF PollsInv

\* A session that ends leaves tables that count the votes.
LEMMA PollsEnd ==
  ASSUME PollsInv, ~spoiled, NEW u \in Voter, Alone(u), V!End(u),
         Counts(table', votes', shuffled')
  PROVE  PollsInv'
  <1>1. /\ at' = [at EXCEPT ![u] = "menu"] /\ copy' = [copy EXCEPT ![u] = V!NoTable]
        /\ choice' = [choice EXCEPT ![u] = V!NoChoice]
    BY DEF V!End
  <1>2. /\ at' \in [Voter -> {"menu", "choosing", "adding", "deleting", "noted", "counted"}]
        /\ copy' \in [Voter -> Table] /\ choice' \in [Voter -> Nat \X Nat]
    BY <1>1, PollsTypes, NoTableIsTable DEF V!NoChoice
  <1>3. \A v \in Voter : at'[v] = "menu"
    BY <1>1, PollsTypes DEF Alone
  <1>4. table' \in Table /\ votes' \in [Voter -> Record]
    BY DEF Counts, TableOK, VotesOK
  <1> QED
    BY <1>2, <1>3, <1>4 DEF PollsInv, Reading, Writing

\* A session that goes on, with the vote that it has noted
LEMMA PollsWrites ==
  ASSUME PollsInv, ~spoiled, NEW u \in Voter, Alone(u), NEW place \in {"noted", "counted"},
         at' = [at EXCEPT ![u] = place], HoldsVote(u)',
         NEW c \in Table, copy' = [copy EXCEPT ![u] = c],
         NEW qa \in Nat \X Nat, choice' = [choice EXCEPT ![u] = qa],
         table' \in Table, UNCHANGED <<votes, shuffled>>
  PROVE  PollsInv'
  <1>1. /\ at' \in [Voter -> {"menu", "choosing", "adding", "deleting", "noted", "counted"}]
        /\ copy' \in [Voter -> Table] /\ choice' \in [Voter -> Nat \X Nat]
        /\ votes' \in [Voter -> Record]
    BY PollsTypes
  <1>2. at'[u] = place /\ \A v \in Voter : v # u => at'[v] = "menu"
    BY PollsTypes DEF Alone
  <1>3. \A v \in Voter : ~Reading(v)' /\ (Writing(v)' => v = u)
    BY <1>2 DEF Reading, Writing
  <1>4. Writing(u)'
    BY <1>2 DEF Writing
  <1> QED
    BY <1>1, <1>2, <1>3, <1>4 DEF PollsInv

\* Tables with the same fields are the same.
LEMMA SameTable ==
  ASSUME NEW t \in Table, NEW c \in Table, t.index = c.index, t.indexcounter = c.indexcounter,
         t.amount = c.amount, t.results = c.results
  PROVE  t = c
  BY TableIs

LEMMA WithAmount ==
  ASSUME NEW t \in Table, NEW amount \in Seq(Nat), NEW now, now = [t EXCEPT !.amount = amount]
  PROVE  /\ now \in Table /\ now.index = t.index /\ now.indexcounter = t.indexcounter
         /\ now.amount = amount /\ now.results = t.results
  BY DEF Table

LEMMA WithResults ==
  ASSUME NEW t \in Table, NEW results \in UNION {[qas -> Int] : qas \in SUBSET (Nat \X Nat)},
         NEW now, now = [t EXCEPT !.results = results]
  PROVE  /\ now \in Table /\ now.index = t.index /\ now.indexcounter = t.indexcounter
         /\ now.amount = t.amount /\ now.results = results
  BY DEF Table

\* The results are written,
LEMMA PollsWriteResults ==
  ASSUME PollsInv, ~spoiled, NEW u \in Voter, V!WriteResults(u)
  PROVE  PollsInv'
  <1>1. /\ at[u] = "noted" /\ table' = [table EXCEPT !.results = copy[u].results]
        /\ at' = [at EXCEPT ![u] = "counted"] /\ UNCHANGED <<votes, copy, choice, shuffled>>
    BY DEF V!WriteResults
  <1>2. Alone(u) /\ HoldsVote(u)
    BY <1>1, PollsAlone DEF Writing
  <1>3. copy[u] \in Table /\ table \in Table /\ choice[u] \in Nat \X Nat
    BY PollsTypes
  <1>4. copy[u].results \in UNION {[qas -> Int] : qas \in SUBSET (Nat \X Nat)}
    BY <1>3, TableIs
  <1>5. /\ table' \in Table /\ table'.index = table.index
        /\ table'.indexcounter = table.indexcounter /\ table'.amount = table.amount
        /\ table'.results = copy[u].results
    BY <1>1, <1>3, <1>4, WithResults
  <1>6. HoldsVote(u)'
    BY <1>1, <1>2, <1>5 DEF HoldsVote, VotesWith
  <1>7. copy' = [copy EXCEPT ![u] = copy[u]] /\ choice' = [choice EXCEPT ![u] = choice[u]]
    BY <1>1, PollsTypes
  <1> QED
    BY <1>1, <1>2, <1>3, <1>5, <1>6, <1>7, PollsWrites

\* and the vote.
LEMMA PollsWriteVote ==
  ASSUME PollsInv, ~spoiled, NEW u \in Voter, V!WriteVote(u)
  PROVE  PollsInv'
  <1>1. /\ at[u] = "counted" /\ V!End(u) /\ UNCHANGED <<table, shuffled>>
        /\ votes' = VotesWith(u)
    BY DEF V!WriteVote, VotesWith
  <1>2. Alone(u) /\ HoldsVote(u)
    BY <1>1, PollsAlone DEF Writing
  <1>3. table = copy[u]
    <2>1. copy[u] \in Table /\ table \in Table
      BY PollsTypes
    <2> QED
      BY <1>1, <1>2, <2>1, SameTable DEF HoldsVote
  <1>4. Counts(table', votes', shuffled')
    BY <1>1, <1>2, <1>3 DEF HoldsVote
  <1> QED
    BY <1>1, <1>2, <1>4, PollsEnd

\* A session that read the tables gives them up.
LEMMA PollsAbort ==
  ASSUME PollsInv, ~spoiled, ~spoiled', NEW u \in Voter, V!Abort(u)
  PROVE  PollsInv'
  <1>1. /\ at[u] # "menu" /\ at[u] \notin {"noted", "counted"}
        /\ V!End(u) /\ UNCHANGED <<table, votes, shuffled>>
    BY DEF V!Abort
  <1>2. Reading(u)
    BY <1>1, PollsTypes DEF Reading
  <1>3. Alone(u) /\ Counts(table, votes, shuffled)
    BY <1>1, <1>2, PollsAlone
  <1> QED
    BY <1>1, <1>3, PollsEnd

\* A question is added to the tables that the session read.
LEMMA PollsAdd ==
  ASSUME V!PollsAssumption, PollsInv, ~spoiled, NEW u \in Voter, V!Add(u)
  PROVE  PollsInv'
  <1>1. at[u] = "adding" /\ V!End(u) /\ UNCHANGED <<votes, shuffled>>
    BY DEF V!Add
  <1>2. Alone(u) /\ HoldsTable(u) /\ Counts(table, votes, shuffled)
    BY <1>1, PollsAlone DEF Reading
  <1>3. copy[u] = table
    BY <1>2 DEF HoldsTable
  <1>4. PICK c : c = table
    OBVIOUS
  <1>5. PICK q : q = Len(c.index) + 1
    OBVIOUS
  <1>6. PICK n \in 1 .. MaxAnswers : table' = Added(c, q, n)
    <2>1. table.indexcounter = copy[u].indexcounter
      BY <1>3
    <2>2. \E n \in 1 .. MaxAnswers : table' = Added(copy[u], Len(copy[u].index) + 1, n)
      BY <2>1 DEF V!Add, Added
    <2>3. copy[u] = c /\ Len(copy[u].index) + 1 = q
      BY <1>3, <1>4, <1>5
    <2> QED
      BY <2>2, <2>3
  <1>7. q <= MaxQuestions /\ MaxQuestions \in Nat /\ MaxAnswers \in Nat
    BY <1>3, <1>4, <1>5 DEF V!Add, V!PollsAssumption
  <1>8. Counts(c, votes, shuffled)
    BY <1>2, <1>4
  <1>9. PICK t : t = table'
    OBVIOUS
  <1>10. Counts(t, votes, shuffled)
    <2>1. PICK given, lost : given = votes /\ lost = shuffled
      OBVIOUS
    <2>2. Counts(c, given, lost)
      BY <1>8, <2>1
    <2>3. t = Added(c, q, n)
      BY <1>6, <1>9
    <2>4. Counts(t, given, lost)
      BY <1>5, <1>7, <2>2, <2>3, AddedCounts
    <2> QED
      BY <2>1, <2>4
  <1> QED
    BY <1>1, <1>2, <1>9, <1>10, PollsEnd

\* A question is deleted, and its counts with it.
LEMMA PollsDeleteQuestion ==
  ASSUME V!PollsAssumption, PollsInv, ~spoiled, NEW u \in Voter, V!DeleteQuestion(u)
  PROVE  PollsInv'
  <1>1. at[u] = "deleting" /\ V!End(u) /\ UNCHANGED <<votes, shuffled>>
    BY DEF V!DeleteQuestion
  <1>2. Alone(u) /\ HoldsTable(u) /\ Counts(table, votes, shuffled)
    BY <1>1, PollsAlone DEF Reading
  <1>3. copy[u] = table
    BY <1>2 DEF HoldsTable
  <1>4. PICK c : c = table
    OBVIOUS
  <1>5. PICK q : q = choice[u][1]
    OBVIOUS
  <1>6. PICK last : last = Len(c.index)
    OBVIOUS
  <1>7. /\ q \in 1 .. last /\ last \in Nat /\ c \in Table /\ Counts(c, votes, shuffled)
        /\ Len(c.amount) = last /\ last <= MaxQuestions
    <2>1. Len(c.index) \in Nat
      BY <1>4, PollsTypes, TableIs
    <2> QED
      BY <1>1, <1>2, <1>4, <1>5, <1>6, <2>1, PollsTypes DEF HoldsTable, Counts, TableOK
  <1>8. MaxQuestions \in Nat /\ MaxAnswers \in Nat
    BY DEF V!PollsAssumption
  <1> DEFINE From(qa) == IF qa[1] \in q .. last - 1 /\ qa[2] < c.amount[qa[1] + 1]
                         THEN <<qa[1] + 1, qa[2]>> ELSE qa
             All == DOMAIN c.results \cup {qa \in V!Question \X V!Answer :
                                            From(qa) # qa /\ From(qa) \in DOMAIN c.results}
  <1>9. PICK index : index = V!RemoveAt(c.index, q)
    OBVIOUS
  <1>10. PICK amount : amount = [k \in 1 .. Len(c.amount) - 1 |->
                                   c.amount[IF k \in q .. last - 1 THEN k + 1 ELSE k]]
    OBVIOUS
  <1>11. PICK results : results = [qa \in All |->
                          c.results[IF From(qa) \in DOMAIN c.results THEN From(qa) ELSE qa]]
    OBVIOUS
  <1>12. table' = [c EXCEPT !.index = index, !.amount = amount, !.results = results]
    BY <1>3, <1>4, <1>5, <1>6, <1>9, <1>10, <1>11 DEF V!DeleteQuestion, V!MovedUp
  <1>13. PICK qas \in SUBSET (Nat \X Nat) : c.results \in [qas -> Int]
    BY <1>7 DEF Table
  <1>14. results \in UNION {[rs -> Int] : rs \in SUBSET (Nat \X Nat)}
    <2>1. All \in SUBSET (Nat \X Nat)
      BY <1>8, <1>13 DEF V!Question, V!Answer
    <2>2. \A qa \in All : (IF From(qa) \in DOMAIN c.results THEN From(qa) ELSE qa) \in qas
      BY <1>13
    <2> HIDE DEF All, From
    <2>3. results \in [All -> Int]
      BY <1>11, <1>13, <2>2
    <2> QED
      BY <2>1, <2>3
  <1>15. index \in Seq(Nat) /\ amount \in Seq(Nat)
    <2>1. c.index \in Seq(Nat) /\ c.amount \in Seq(Nat)
      BY <1>7, TableIs
    <2>2. PICK s : s = c.index
      OBVIOUS
    <2>3. index \in Seq(Nat)
      <3>1. s \in Seq(Nat) /\ q \in 1 .. Len(s) /\ index = V!RemoveAt(s, q)
        BY <1>6, <1>7, <1>9, <2>1, <2>2
      <3> QED
        BY <3>1, WithoutElement
    <2>4. \A k \in 1 .. last - 1 : c.amount[IF k \in q .. last - 1 THEN k + 1 ELSE k] \in Nat
      BY <1>7, <2>1, ElementOfSeq
    <2>5. amount \in [1 .. last - 1 -> Nat]
      <3>1. amount = [k \in 1 .. last - 1 |-> c.amount[IF k \in q .. last - 1 THEN k + 1 ELSE k]]
        BY <1>7, <1>10
      <3>2. PICK m : m = last - 1
        OBVIOUS
      <3> QED
        BY <2>4, <3>1
    <2>6. last - 1 \in Nat
      BY <1>7
    <2>7. amount \in Seq(Nat)
      BY <2>5, <2>6, SeqDef
    <2> QED
      BY <2>3, <2>7
  <1>16. table' \in Table /\ table'.index = index /\ table'.amount = amount
         /\ table'.results = results /\ table'.indexcounter = c.indexcounter
    <2>1. table' = [index |-> index, indexcounter |-> c.indexcounter, amount |-> amount,
                    results |-> results]
      BY <1>7, <1>12 DEF Table
    <2> QED
      BY <1>7, <1>14, <1>15, <2>1, TableIs, MakesTable
  <1>17. ASSUME NEW k \in 1 .. last - 1, NEW from, from = (IF k < q THEN k ELSE k + 1),
                c.index[from] \notin shuffled, NEW a \in 0 .. c.amount[from] - 1
         PROVE  <<k, a>> \in All /\ results[<<k, a>>] = c.results[<<from, a>>]
    <2>0. from \in 1 .. last /\ c.amount[from] \in Nat /\ c.amount[from] <= MaxAnswers
      <3>1. from \in 1 .. last
        BY <1>7, <1>17
      <3> QED
        BY <1>6, <1>7, <3>1, TableIs, ElementOfSeq DEF Counts, TableOK
    <2>1. <<from, a>> \in DOMAIN c.results
      BY <1>6, <1>7, <1>17, <2>0 DEF Counts, TableOK
    <2>2. CASE k < q
      <3>1. From(<<k, a>>) = <<k, a>> /\ from = k
        BY <1>7, <1>17, <2>2
      <3> QED
        BY <1>11, <2>1, <3>1
    <2>3. CASE k >= q
      <3>1. From(<<k, a>>) = <<k + 1, a>> /\ from = k + 1 /\ From(<<k, a>>) # <<k, a>>
        BY <1>7, <1>17, <2>0, <2>3
      <3>2. <<k, a>> \in V!Question \X V!Answer
        BY <1>7, <1>8, <2>0 DEF V!Question, V!Answer
      <3> QED
        BY <1>11, <2>1, <3>1, <3>2
    <2> QED
      BY <1>7, <2>2, <2>3
  <1>18. PICK t : t = table'
    OBVIOUS
  <1>19. Counts(t, votes, shuffled)
    <2>1. DOMAIN results = All
      BY <1>11
    <2> HIDE DEF All, From
    <2>2. \A k \in 1 .. Len(c.index) - 1 :
             LET from == IF k < q THEN k ELSE k + 1 IN
             c.index[from] \notin shuffled => \A a \in 0 .. c.amount[from] - 1 :
               <<k, a>> \in DOMAIN t.results /\ t.results[<<k, a>>] = c.results[<<from, a>>]
      <3>1. ASSUME NEW k \in 1 .. last - 1, NEW from, from = (IF k < q THEN k ELSE k + 1),
                   c.index[from] \notin shuffled, NEW a \in 0 .. c.amount[from] - 1
            PROVE  <<k, a>> \in DOMAIN t.results
                   /\ t.results[<<k, a>>] = c.results[<<from, a>>]
        <4>1. <<k, a>> \in All /\ results[<<k, a>>] = c.results[<<from, a>>]
          BY <1>17, <3>1
        <4> QED
          BY <1>16, <1>18, <2>1, <4>1
      <3> QED
        BY <1>6, <3>1
    <2>3. /\ t \in Table /\ t.index = V!RemoveAt(c.index, q) /\ t.indexcounter = c.indexcounter
          /\ t.amount = [k \in 1 .. Len(c.amount) - 1 |->
                            c.amount[IF k \in q .. Len(c.index) - 1 THEN k + 1 ELSE k]]
          /\ q \in 1 .. Len(c.index)
      BY <1>6, <1>7, <1>9, <1>10, <1>16, <1>18
    <2> QED
      BY <1>7, <1>8, <2>2, <2>3, DeletedCounts
  <1> QED
    BY <1>1, <1>2, <1>18, <1>19, PollsEnd

\* An earlier answer of the user is counted.
LEMMA EarlierIsCounted ==
  ASSUME NEW c, NEW given, NEW lost, Counts(c, given, lost), NEW u \in Voter,
         NEW q \in 1 .. Len(c.index),
         c.index[q] \notin lost
  PROVE  V!EarlierCounted(c, given[u], q)
  <1> SUFFICES ASSUME c.index[q] \in DOMAIN given[u]
               PROVE  <<q, given[u][c.index[q]]>> \in DOMAIN c.results
    BY DEF V!EarlierCounted
  <1>1. given[u] \in Record
    BY DEF Counts, VotesOK
  <1>2. given[u][c.index[q]] \in Nat
    BY <1>1 DEF Record
  <1>3. given[u][c.index[q]] < c.amount[q]
    BY DEF Counts, VotesOK
  <1>4. c.amount[q] \in Nat
    <2>1. c \in Table /\ Len(c.amount) = Len(c.index)
      BY DEF Counts, TableOK
    <2> QED
      BY <2>1, TableIs, ElementOfSeq
  <1>5. given[u][c.index[q]] \in 0 .. c.amount[q] - 1
    BY <1>2, <1>3, <1>4
  <1> QED
    BY <1>5 DEF Counts, TableOK

\* A session that chose an answer of the tables c notes its vote.
LEMMA PollsNotes ==
  ASSUME IsFiniteSet(Voter), PollsInv, ~spoiled, NEW u \in Voter, Alone(u),
         NEW c, Counts(c, votes, shuffled), NEW q \in 1 .. Len(c.index),
         NEW a \in 0 .. c.amount[q] - 1,
         <<q, a>> \in DOMAIN c.results, V!EarlierCounted(c, votes[u], q),
         table' \in Table, table'.index = c.index, table'.indexcounter = c.indexcounter,
         table'.amount = c.amount,
         copy' = [copy EXCEPT ![u] = [c EXCEPT !.results = V!Noted(c, votes[u], q, a)]],
         choice' = [choice EXCEPT ![u] = <<q, a>>], at' = [at EXCEPT ![u] = "noted"],
         UNCHANGED <<votes, shuffled>>
  PROVE  PollsInv'
  <1>1. PICK d : d = [c EXCEPT !.results = V!Noted(c, votes[u], q, a)]
    OBVIOUS
  <1>2. PICK now : now = [votes EXCEPT ![u] = V!With(votes[u], c.index[q], a)]
    OBVIOUS
  <1>3. Counts(d, now, shuffled)
    <2>1. PICK given, lost : given = votes /\ lost = shuffled
      OBVIOUS
    <2>2. /\ Counts(c, given, lost) /\ V!EarlierCounted(c, given[u], q)
          /\ d = [c EXCEPT !.results = V!Noted(c, given[u], q, a)]
          /\ now = [given EXCEPT ![u] = V!With(given[u], c.index[q], a)]
      BY <1>1, <1>2, <2>1
    <2>3. Counts(d, now, lost)
      BY <2>2, NotedCounts
    <2> QED
      BY <2>1, <2>3
  <1>4. d.index = c.index /\ d.indexcounter = c.indexcounter /\ d.amount = c.amount
    <2>1. c \in Table
      BY DEF Counts, TableOK
    <2> QED
      BY <1>1, <2>1 DEF Table
  <1>5. d \in Table
    BY <1>3 DEF Counts, TableOK
  <1>6. a \in Nat /\ q \in Nat
    OBVIOUS
  <1>7. copy'[u] = d /\ choice'[u] = <<q, a>> /\ at'[u] = "noted"
    BY <1>1, PollsTypes
  <1>8. VotesWith(u)' = now
    <2>1. copy'[u].index[choice'[u][1]] = c.index[q] /\ choice'[u][2] = a
      BY <1>4, <1>7
    <2>2. PICK voted : voted = V!With(votes[u], c.index[q], a)
      OBVIOUS
    <2>3. voted = V!With(votes'[u], copy'[u].index[choice'[u][1]], choice'[u][2])
      BY <2>1, <2>2
    <2>4. VotesWith(u)' = [votes' EXCEPT ![u] = voted]
      BY <2>3 DEF VotesWith
    <2> QED
      BY <1>2, <2>2, <2>4
  <1>9. HoldsVote(u)'
    BY <1>3, <1>4, <1>7, <1>8 DEF HoldsVote
  <1>10. copy' = [copy EXCEPT ![u] = d] /\ <<q, a>> \in Nat \X Nat
    BY <1>1, <1>6
  <1> QED
    BY <1>5, <1>9, <1>10, PollsWrites

\* An answer is chosen, one of those in the tables or the next.
LEMMA PollsChoose ==
  ASSUME V!PollsAssumption, IsFiniteSet(Voter), PollsInv, ~spoiled, NEW u \in Voter, V!Choose(u)
  PROVE  PollsInv'
  <1>1. at[u] = "choosing" /\ UNCHANGED <<votes, shuffled>>
    BY DEF V!Choose
  <1>2. Alone(u) /\ HoldsTable(u) /\ Counts(table, votes, shuffled)
    BY <1>1, PollsAlone DEF Reading
  <1>3. copy[u] = table /\ choice[u][1] \in 1 .. Len(table.index)
    BY <1>1, <1>2 DEF HoldsTable
  <1>4. table \in Table /\ copy[u] \in Table
    BY PollsTypes
  <1>5. PICK b : b = copy[u]
    OBVIOUS
  <1>6. PICK q : q = choice[u][1]
    OBVIOUS
  <1>7. PICK n : n = b.amount[q]
    OBVIOUS
  <1>8. /\ b = table /\ b \in Table /\ q \in 1 .. Len(b.index)
        /\ Counts(b, votes, shuffled) /\ n \in Nat
    <2>1. b = table /\ b \in Table /\ q \in 1 .. Len(b.index) /\ Counts(b, votes, shuffled)
      BY <1>2, <1>3, <1>4, <1>5, <1>6
    <2>2. Len(b.amount) = Len(b.index) /\ b.amount \in Seq(Nat)
      BY <2>1, TableIs DEF Counts, TableOK
    <2> QED
      BY <1>7, <2>1, <2>2, ElementOfSeq
  <1>9. PICK a \in V!Answer :
          /\ a <= n
          /\ LET c == IF a < n THEN b
                      ELSE [b EXCEPT !.amount[q] = n + 1, !.results = V!With(@, <<q, a>>, 0)] IN
               /\ table' = IF a < n THEN table ELSE [table EXCEPT !.amount = c.amount]
               /\ IF V!EarlierCounted(c, votes[u], q)
                  THEN /\ copy' = [copy EXCEPT ![u] =
                                     [c EXCEPT !.results = V!Noted(c, votes[u], q, a)]]
                       /\ choice' = [choice EXCEPT ![u] = <<q, a>>]
                       /\ at' = [at EXCEPT ![u] = "noted"]
                  ELSE V!End(u)
    BY <1>5, <1>6, <1>7 DEF V!Choose
  <1>10. PICK c : c = IF a < n THEN b
                      ELSE [b EXCEPT !.amount[q] = n + 1, !.results = V!With(@, <<q, a>>, 0)]
    OBVIOUS
  <1>11. /\ table' = IF a < n THEN table ELSE [table EXCEPT !.amount = c.amount]
         /\ V!EarlierCounted(c, votes[u], q) =>
              /\ copy' = [copy EXCEPT ![u] = [c EXCEPT !.results = V!Noted(c, votes[u], q, a)]]
              /\ choice' = [choice EXCEPT ![u] = <<q, a>>]
              /\ at' = [at EXCEPT ![u] = "noted"]
         /\ ~V!EarlierCounted(c, votes[u], q) => V!End(u)
    BY <1>9, <1>10
  <1>12. a \in Nat /\ a < MaxAnswers /\ MaxAnswers \in Nat
    BY DEF V!Answer, V!PollsAssumption
  <1>13. /\ Counts(c, votes, shuffled) /\ c.index = b.index /\ c.indexcounter = b.indexcounter
         /\ a \in 0 .. c.amount[q] - 1
         /\ table' \in Table /\ table'.index = c.index /\ table'.indexcounter = c.indexcounter
         /\ table'.amount = c.amount /\ table'.results = table.results
         /\ <<q, a>> \in DOMAIN c.results
    <2>1. CASE a < n
      <3>1. c = b /\ table' = table
        BY <1>10, <1>11, <2>1
      <3>2. <<q, a>> \in DOMAIN b.results
        <4>1. V!Counted(b, q)
          BY <1>5, <1>6 DEF V!Choose
        <4>2. {q} \X (0 .. n - 1) \subseteq DOMAIN b.results
          BY <1>7, <4>1 DEF V!Counted
        <4>3. a \in 0 .. n - 1
          BY <1>8, <1>12, <2>1
        <4> QED
          BY <4>2, <4>3
      <3> QED
        BY <1>7, <1>8, <1>12, <2>1, <3>1, <3>2
    <2>2. CASE ~(a < n)
      <3>1. a = n
        BY <1>8, <1>9, <1>12, <2>2
      <3>2. c = [b EXCEPT !.amount[q] = n + 1, !.results = V!With(@, <<q, a>>, 0)]
        BY <1>10, <2>2
      <3>3. c = [index |-> b.index, indexcounter |-> b.indexcounter,
                 amount |-> [b.amount EXCEPT ![q] = n + 1],
                 results |-> V!With(b.results, <<q, n>>, 0)]
        BY <1>8, <3>1, <3>2 DEF Table
      <3>4. Counts(c, votes, shuffled)
        <4>1. PICK given, lost : given = votes /\ lost = shuffled
          OBVIOUS
        <4>2. Counts(b, given, lost)
          BY <1>8, <4>1
        <4>3. Counts(c, given, lost)
          BY <1>7, <1>8, <1>12, <3>1, <3>3, <4>2, AnsweredCounts
        <4> QED
          BY <4>1, <4>3
      <3>5. b.amount \in Seq(Nat) /\ q \in 1 .. Len(b.amount)
        BY <1>8, TableIs DEF Counts, TableOK
      <3>6. c.index = b.index /\ c.indexcounter = b.indexcounter /\ c.amount[q] = n + 1
        BY <3>3, <3>5
      <3>7. table' = [table EXCEPT !.amount = c.amount]
        BY <1>11, <2>2
      <3>8. c.amount \in Seq(Nat)
        BY <3>4, TableIs DEF Counts, TableOK
      <3>9. /\ table' \in Table /\ table'.index = table.index
            /\ table'.indexcounter = table.indexcounter /\ table'.amount = c.amount
            /\ table'.results = table.results
        BY <1>4, <3>7, <3>8, WithAmount
      <3>10. <<q, a>> \in DOMAIN c.results
        BY <3>1, <3>3 DEF V!With
      <3> QED
        BY <1>8, <1>12, <3>1, <3>4, <3>6, <3>9, <3>10
    <2> QED
      BY <2>1, <2>2
  <1>14. q \in 1 .. Len(c.index)
    BY <1>8, <1>13
  <1>15. CASE V!EarlierCounted(c, votes[u], q)
    BY <1>1, <1>2, <1>11, <1>13, <1>14, <1>15, PollsNotes
  <1>16. CASE ~V!EarlierCounted(c, votes[u], q)
    <2>1. PICK given, lost : given = votes /\ lost = shuffled
      OBVIOUS
    <2>2. c.index[q] \in lost
      BY <1>13, <1>14, <1>16, <2>1, EarlierIsCounted
    <2>3. PICK d : d = table'
      OBVIOUS
    <2>4. /\ d \in Table /\ d.index = b.index /\ d.indexcounter = b.indexcounter
          /\ d.amount = c.amount /\ d.results = b.results
      BY <1>8, <1>13, <2>3
    <2>5. /\ Len(d.amount) = Len(b.amount) /\ d.amount[q] <= MaxAnswers
          /\ \A k \in 1 .. Len(b.index) : k # q => d.amount[k] = b.amount[k]
      <3>1. b.amount \in Seq(Nat) /\ Len(b.amount) = Len(b.index)
        BY <1>8, TableIs DEF Counts, TableOK
      <3>2. Len(c.amount) = Len(c.index) /\ c.amount[q] <= MaxAnswers
        BY <1>13, <1>14 DEF Counts, TableOK
      <3>3. CASE a < n
        BY <1>10, <2>4, <3>1, <3>2, <3>3
      <3>4. CASE ~(a < n)
        <4>1. c.amount = [b.amount EXCEPT ![q] = n + 1]
          BY <1>8, <1>10, <3>4 DEF Table
        <4> QED
          BY <1>13, <2>4, <3>1, <3>2, <4>1
      <3> QED
        BY <3>3, <3>4
    <2>6. lost = lost \cup {b.index[q]}
      BY <1>13, <2>2
    <2>7. Counts(d, given, lost)
      <3>1. Counts(b, given, lost)
        BY <1>8, <2>1
      <3> QED
        BY <1>8, <2>4, <2>5, <2>6, <3>1, LostCounts
    <2> QED
      BY <1>1, <1>2, <1>11, <1>16, <2>1, <2>3, <2>7, PollsEnd
  <1> QED
    BY <1>15, <1>16

\* An answer is deleted: the question is lost.
LEMMA PollsDeleteAnswer ==
  ASSUME V!PollsAssumption, PollsInv, ~spoiled, NEW u \in Voter, V!DeleteAnswer(u)
  PROVE  PollsInv'
  <1>1. at[u] = "deleting" /\ V!End(u) /\ UNCHANGED votes
    BY DEF V!DeleteAnswer
  <1>2. Alone(u) /\ HoldsTable(u) /\ Counts(table, votes, shuffled)
    BY <1>1, PollsAlone DEF Reading
  <1>3. copy[u] = table
    BY <1>2 DEF HoldsTable
  <1>4. PICK c : c = table
    OBVIOUS
  <1>5. PICK q : q = choice[u][1]
    OBVIOUS
  <1>6. q \in 1 .. Len(c.index) /\ c \in Table
    BY <1>1, <1>2, <1>4, <1>5, PollsTypes DEF HoldsTable
  <1>7. shuffled' = shuffled \cup {c.index[q]}
    BY <1>3, <1>4, <1>5 DEF V!DeleteAnswer
  <1>8. PICK a \in 0 .. c.amount[q] - 1 :
          table' = [table EXCEPT !.index = c.index, !.amount = [c.amount EXCEPT ![q] = @ - 1],
                                 !.results = V!WithoutAnswer(c, q, a)]
    <2>1. c = copy[u]
      BY <1>3, <1>4
    <2> QED
      BY <1>5, <2>1 DEF V!DeleteAnswer
  <1> DEFINE From(qa) == IF qa[1] = q /\ qa[2] >= a /\ qa[2] + 1 < c.amount[q]
                         THEN <<q, qa[2] + 1>> ELSE qa
             All == DOMAIN c.results \cup {qa \in V!Question \X V!Answer :
                                            From(qa) # qa /\ From(qa) \in DOMAIN c.results}
  <1>9. PICK results : results = [qa \in All |->
                          c.results[IF From(qa) \in DOMAIN c.results THEN From(qa) ELSE qa]]
    OBVIOUS
  <1>10. PICK amount : amount = [c.amount EXCEPT ![q] = @ - 1]
    OBVIOUS
  <1>11. table' = [c EXCEPT !.amount = amount, !.results = results]
    <2>1. V!WithoutAnswer(c, q, a) = results
      BY <1>9 DEF V!WithoutAnswer, V!MovedUp
    <2> HIDE DEF All, From
    <2> QED
      BY <1>4, <1>6, <1>8, <1>10, <2>1 DEF Table
  <1>12. PICK qas \in SUBSET (Nat \X Nat) : c.results \in [qas -> Int]
    BY <1>6 DEF Table
  <1>13. results \in UNION {[rs -> Int] : rs \in SUBSET (Nat \X Nat)}
    <2>1. All \in SUBSET (Nat \X Nat)
      <3>1. MaxQuestions \in Nat /\ MaxAnswers \in Nat
        BY DEF V!PollsAssumption
      <3> QED
        BY <1>12, <3>1 DEF V!Question, V!Answer
    <2>2. \A qa \in All : (IF From(qa) \in DOMAIN c.results THEN From(qa) ELSE qa) \in qas
      BY <1>12
    <2>3. \A qa \in All :
            c.results[IF From(qa) \in DOMAIN c.results THEN From(qa) ELSE qa] \in Int
      BY <1>12, <2>2
    <2> HIDE DEF All, From
    <2>4. results \in [All -> Int]
      BY <1>9, <2>3
    <2> QED
      BY <2>1, <2>4
  <1>14. \A x \in DOMAIN c.results : x[1] # q =>
           x \in DOMAIN results /\ results[x] = c.results[x]
    BY <1>9
  <1>15. /\ c.amount \in Seq(Nat) /\ q \in 1 .. Len(c.amount) /\ c.amount[q] \in Nat \ {0}
         /\ c.amount[q] <= MaxAnswers /\ MaxAnswers \in Nat
    <2>1. Len(c.amount) = Len(c.index) /\ c.amount[q] <= MaxAnswers
      BY <1>2, <1>4, <1>6 DEF Counts, TableOK
    <2>2. c.amount \in Seq(Nat)
      BY <1>6, TableIs
    <2>3. c.amount[q] \in Nat
      BY <1>6, <2>1, <2>2, ElementOfSeq
    <2>4. c.amount[q] # 0
      <3>1. a \in 0 .. c.amount[q] - 1
        OBVIOUS
      <3> QED
        BY <2>3, <3>1
    <2> QED
      BY <1>6, <2>1, <2>2, <2>3, <2>4 DEF V!PollsAssumption
  <1>16. /\ amount \in Seq(Nat) /\ Len(amount) = Len(c.amount) /\ amount[q] <= MaxAnswers
         /\ \A k \in 1 .. Len(c.amount) : k # q => amount[k] = c.amount[k]
    <2>1. PICK s : s = c.amount
      OBVIOUS
    <2>2. PICK n : n = s[q] - 1
      OBVIOUS
    <2>3. s \in Seq(Nat) /\ q \in 1 .. Len(s) /\ n \in Nat /\ n <= MaxAnswers
      BY <1>15, <2>1, <2>2
    <2>4. /\ [s EXCEPT ![q] = n] \in Seq(Nat) /\ Len([s EXCEPT ![q] = n]) = Len(s)
          /\ \A k \in 1 .. Len(s) : [s EXCEPT ![q] = n][k] = IF k = q THEN n ELSE s[k]
      BY <2>3, ExceptSeq
    <2>5. amount = [s EXCEPT ![q] = n]
      BY <1>10, <2>1, <2>2
    <2> QED
      BY <2>1, <2>3, <2>4, <2>5
  <1>17. PICK d : d = table'
    OBVIOUS
  <1>18. /\ d \in Table /\ d.index = c.index /\ d.indexcounter = c.indexcounter
         /\ d.amount = amount /\ d.results = results
    <2>1. d = [index |-> c.index, indexcounter |-> c.indexcounter, amount |-> amount,
               results |-> results]
      BY <1>6, <1>11, <1>17 DEF Table
    <2> QED
      BY <1>6, <1>13, <1>16, <2>1, TableIs, MakesTable
  <1>19. Counts(d, votes, shuffled')
    <2>1. PICK given, lost, now : given = votes /\ lost = shuffled /\ now = shuffled'
      OBVIOUS
    <2>2. Counts(c, given, lost) /\ now = lost \cup {c.index[q]}
      BY <1>2, <1>4, <1>7, <2>1
    <2>3. Len(c.amount) = Len(c.index)
      BY <2>2 DEF Counts, TableOK
    <2>4. /\ d \in Table /\ d.index = c.index /\ d.indexcounter = c.indexcounter
          /\ Len(d.amount) = Len(c.amount) /\ d.amount[q] <= MaxAnswers
      BY <1>16, <1>18
    <2>5. \A k \in 1 .. Len(c.index) : k # q => d.amount[k] = c.amount[k]
      BY <1>16, <1>18, <2>3
    <2>6. \A x \in DOMAIN c.results : x[1] # q =>
            x \in DOMAIN d.results /\ d.results[x] = c.results[x]
      BY <1>14, <1>18
    <2>7. Counts(d, given, now)
      BY <1>6, <2>2, <2>4, <2>5, <2>6, LostCounts
    <2> QED
      BY <2>1, <2>7
  <1> QED
    BY <1>1, <1>2, <1>17, <1>19, PollsEnd

\* Each step preserves the invariant.
LEMMA PollsNext ==
  V!PollsAssumption /\ PollsInv /\ [V!Next]_V!vars => PollsInv'
  <1> SUFFICES ASSUME V!PollsAssumption, PollsInv, [V!Next]_V!vars, ~spoiled'
               PROVE  PollsInv'
    BY DEF PollsInv
  <1>0. IsFiniteSet(Voter)
    BY DEF V!PollsAssumption, V!IsFiniteSet, IsFiniteSet
  <1>1. CASE UNCHANGED V!vars
    <2>1. UNCHANGED <<table, votes, at, copy, choice, shuffled, spoiled>>
      BY <1>1 DEF V!vars
    <2> QED
      BY <2>1 DEF PollsInv, Reading, Writing, HoldsTable, HoldsVote, VotesWith
  <1>2. ASSUME NEW u \in Voter, V!BeginVote(u) PROVE PollsInv'
    <2>1. PICK q \in DOMAIN table.index : choice' = [choice EXCEPT ![u] = <<q, 0>>]
      BY <1>2 DEF V!BeginVote
    <2>2. V!Begin(u, "choosing") /\ UNCHANGED <<table, votes, shuffled>> /\ ~spoiled
      BY <1>2 DEF V!BeginVote, V!Begin
    <2>3. q \in Nat
      <3>1. DOMAIN table.index = 1 .. Len(table.index)
        BY <2>2, PollsTypes, TableIs
      <3> QED
        BY <3>1
    <2>4. choice' \in [Voter -> Nat \X Nat] /\ choice'[u][1] = q
      BY <2>1, <2>2, <2>3, PollsTypes
    <2> QED
      BY <2>2, <2>4, PollsBegin
  <1>3. ASSUME NEW u \in Voter, V!BeginAdd(u) PROVE PollsInv'
    <2>1. V!Begin(u, "adding") /\ UNCHANGED <<table, votes, choice, shuffled>> /\ ~spoiled
      BY <1>3 DEF V!BeginAdd, V!Begin
    <2> QED
      BY <2>1, PollsTypes, PollsBegin
  <1>4. ASSUME NEW u \in Voter, V!BeginDelete(u) PROVE PollsInv'
    <2>1. PICK q \in DOMAIN table.index : choice' = [choice EXCEPT ![u] = <<q, 0>>]
      BY <1>4 DEF V!BeginDelete
    <2>2. V!Begin(u, "deleting") /\ UNCHANGED <<table, votes, shuffled>> /\ ~spoiled
      BY <1>4 DEF V!BeginDelete, V!Begin
    <2>3. q \in Nat
      <3>1. DOMAIN table.index = 1 .. Len(table.index)
        BY <2>2, PollsTypes, TableIs
      <3> QED
        BY <3>1
    <2>4. choice' \in [Voter -> Nat \X Nat] /\ choice'[u][1] = q
      BY <2>1, <2>2, <2>3, PollsTypes
    <2> QED
      BY <2>2, <2>4, PollsBegin
  <1>5. ASSUME NEW u \in Voter, V!Choose(u) PROVE PollsInv'
    <2>1. ~spoiled
      BY <1>5 DEF V!Choose
    <2> QED
      BY <1>0, <1>5, <2>1, PollsChoose
  <1>6. ASSUME NEW u \in Voter, V!WriteResults(u) PROVE PollsInv'
    <2>1. ~spoiled
      BY <1>6 DEF V!WriteResults
    <2> QED
      BY <1>6, <2>1, PollsWriteResults
  <1>7. ASSUME NEW u \in Voter, V!WriteVote(u) PROVE PollsInv'
    <2>1. ~spoiled
      BY <1>7 DEF V!WriteVote
    <2> QED
      BY <1>7, <2>1, PollsWriteVote
  <1>8. ASSUME NEW u \in Voter, V!Add(u) PROVE PollsInv'
    <2>1. ~spoiled
      BY <1>8 DEF V!Add
    <2> QED
      BY <1>8, <2>1, PollsAdd
  <1>9. ASSUME NEW u \in Voter, V!DeleteQuestion(u) PROVE PollsInv'
    <2>1. ~spoiled
      BY <1>9 DEF V!DeleteQuestion
    <2> QED
      BY <1>9, <2>1, PollsDeleteQuestion
  <1>10. ASSUME NEW u \in Voter, V!DeleteAnswer(u) PROVE PollsInv'
    <2>1. ~spoiled
      BY <1>10 DEF V!DeleteAnswer
    <2> QED
      BY <1>10, <2>1, PollsDeleteAnswer
  <1>11. ASSUME NEW u \in Voter, V!Abort(u) PROVE PollsInv'
    <2>1. ~spoiled
      BY <1>11 DEF V!Abort
    <2> QED
      BY <1>11, <2>1, PollsAbort
  <1>12. CASE V!Finished
    BY <1>1, <1>12 DEF V!Finished
  <1> QED
    BY <1>1, <1>2, <1>3, <1>4, <1>5, <1>6, <1>7, <1>8, <1>9, <1>10, <1>11, <1>12 DEF V!Next

\* The invariant implies the property.
LEMMA PollsTally == PollsInv => V!TallyIsVotes
  <1> SUFFICES ASSUME PollsInv, ~spoiled, \A u \in Voter : at[u] = "menu",
                      NEW q \in DOMAIN table.index, table.index[q] \notin shuffled,
                      NEW a \in 0 .. table.amount[q] - 1
               PROVE  table.results[<<q, a>>] =
                        V!Cardinality({u \in Voter : /\ table.index[q] \in DOMAIN votes[u]
                                                     /\ votes[u][table.index[q]] = a})
    BY DEF V!TallyIsVotes
  <1>1. Counts(table, votes, shuffled)
    BY DEF PollsInv, Writing
  <1>2. q \in 1 .. Len(table.index)
    <2>1. DOMAIN table.index = 1 .. Len(table.index)
      BY PollsTypes, TableIs
    <2> QED
      BY <2>1
  <1>3. table.results[<<q, a>>] = Cardinality(VotersFor(votes, table.index[q], a))
    BY <1>1, <1>2 DEF Counts, Tallied
  <1>4. \A S : Cardinality(S) = V!Cardinality(S)
    BY DEF Cardinality, V!Cardinality
  <1> QED
    BY <1>3, <1>4 DEF VotersFor

\* While users take turns and finish what they begin, the results of each question are the
\* tally of the records of the users, for any number of users, questions and answers,
\* whatever was voted again, added and deleted before, but for the questions an
\* answer of which was ever deleted (vote.py).
THEOREM TallyIsKept ==
  ASSUME V!PollsAssumption
  PROVE  V!Spec => []V!TallyIsVotes
  BY PollsInit, PollsNext, PollsTally, PTL DEF V!Spec

-----------------------------------------------------------------------------
(* The message area.  A number whose message was never deleted is that of one *)
(* message only, in the message base as in the memory of the sessions.        *)

Field == {"author", "to", "tags", "parent", "which"}
IsMsg(msg) == msg = [f \in Field |-> msg[f]]

\* The message of a number, unless that of the number was ever deleted
Only(n, which) == n \notin deleted => n \in DOMAIN msgs /\ msgs[n].which = which

\* The messages and the private ones
StoreOK ==
  /\ msgs = [n \in DOMAIN msgs |-> msgs[n]] /\ posts \in Nat
  /\ DOMAIN msgs \subseteq 0 .. posts - 1
  /\ \A n \in DOMAIN msgs : IsMsg(msgs[n])
  /\ priv = [s \in Reader |-> priv[s]] /\ \A s \in Reader : priv[s] \subseteq DOMAIN msgs

\* What is marked and what the menu counts as new, known by its number
Told(s, n) == \E k \in known[s] : k[1] = n

MarksOK ==
  /\ readmsgs = [s \in Reader |-> readmsgs[s]]
  /\ known = [s \in Reader |-> known[s]]
  /\ lists = [s \in Reader |-> lists[s]]
  /\ \A s \in Reader : \A n \in readmsgs[s] \cup lists[s].new : Told(s, n)

KnownOK == \A s \in Reader : \A k \in known[s] : k = <<k[1], k[2]>> /\ Only(k[1], k[2])

\* What a session writes, or gives other tags
DraftOK(s) ==
  /\ area[s] \in {"writing", "tagging"} => IsMsg(draft[s].msg)
  /\ area[s] = "tagging" => /\ draft[s].num \in 0 .. posts - 1
                            /\ Only(draft[s].num, draft[s].msg.which)

DraftsOK ==
  /\ area = [s \in Reader |-> area[s]] /\ draft = [s \in Reader |-> draft[s]]
  /\ \A s \in Reader : DraftOK(s)

MarkedInv == StoreOK /\ MarksOK /\ KnownOK /\ DraftsOK

\* The session s goes on with what it had in hand, or with something else.
Goes(s) ==
  /\ area' = [x \in Reader |-> area'[x]] /\ draft' = [x \in Reader |-> draft'[x]]
  /\ \A x \in Reader \ {s} : area'[x] = area[x] /\ draft'[x] = draft[x]

LEMMA OthersDrafts ==
  ASSUME DraftsOK, NEW s \in Reader, Goes(s), DraftOK(s)', posts \in Nat,
         posts' \in {posts, posts + 1},
         \A n, i : n \in 0 .. posts - 1 /\ Only(n, i) => Only(n, i)'
  PROVE  DraftsOK'
  <1> SUFFICES ASSUME NEW x \in Reader \ {s} PROVE DraftOK(x)'
    BY DEF DraftsOK, Goes
  <1>1. area'[x] = area[x] /\ draft'[x] = draft[x] /\ DraftOK(x)
    BY DEF DraftsOK, Goes
  <1>2. CASE area[x] = "tagging"
    <2>1. draft[x].num \in 0 .. posts - 1 /\ Only(draft[x].num, draft[x].msg.which)
      BY <1>1, <1>2 DEF DraftOK
    <2>2. PICK n, i : n = draft[x].num /\ i = draft[x].msg.which
      OBVIOUS
    <2>3. Only(n, i)'
      BY <2>1, <2>2
    <2>4. n \in 0 .. posts' - 1
      BY <2>1, <2>2
    <2>5. Only(draft[x].num, draft[x].msg.which)'
      BY <1>1, <2>2, <2>3 DEF Only
    <2> QED
      BY <1>1, <2>2, <2>4, <2>5 DEF DraftOK
  <1>3. CASE area[x] # "tagging"
    BY <1>1, <1>3 DEF DraftOK
  <1> QED
    BY <1>2, <1>3

\* A session that goes to a place where it has nothing in hand
LEMMA NothingInHand ==
  ASSUME DraftsOK, NEW s \in Reader, NEW place, place \notin {"writing", "tagging"},
         area' = [area EXCEPT ![s] = place],
         draft' = draft \/ draft' = [draft EXCEPT ![s] = M!NoDraft]
  PROVE  Goes(s) /\ DraftOK(s)'
  <1>1. area'[s] = place
    BY DEF DraftsOK
  <1> QED
    BY <1>1 DEF DraftsOK, DraftOK, Goes

\* A step that marks nothing and leaves the messages alone, and drops the lists of the menu
\* or keeps them
LEMMA NothingMarked ==
  ASSUME MarkedInv, NEW s \in Reader, UNCHANGED <<msgs, priv, posts, readmsgs, known, deleted>>,
         lists' = lists \/ lists' = [lists EXCEPT ![s] = M!NoLists],
         Goes(s), DraftOK(s)'
  PROVE  MarkedInv'
  <1>1. lists' = [x \in Reader |-> lists'[x]]
    BY DEF MarkedInv, MarksOK
  <1>2. \A x \in Reader : lists'[x] = lists[x] \/ lists'[x] = M!NoLists
    BY DEF MarkedInv, MarksOK
  <1>3. M!NoLists.new = {}
    BY DEF M!NoLists
  <1>4. \A x \in Reader : lists'[x].new \subseteq lists[x].new
    BY <1>2, <1>3
  <1>5. MarksOK'
    BY <1>1, <1>4 DEF MarkedInv, MarksOK, Told
  <1>6. StoreOK' /\ KnownOK'
    BY DEF MarkedInv, StoreOK, KnownOK, Only
  <1>7. DraftsOK'
    <2>1. posts \in Nat /\ DraftsOK
      BY DEF MarkedInv, StoreOK
    <2>2. \A n, i : n \in 0 .. posts - 1 /\ Only(n, i) => Only(n, i)'
      BY DEF Only
    <2> QED
      BY <2>1, <2>2, OthersDrafts
  <1> QED
    BY <1>5, <1>6, <1>7 DEF MarkedInv

\* A number is marked with its message.
LEMMA NumberMarked ==
  ASSUME MarksOK, KnownOK, NEW s \in Reader, NEW n, NEW which, M!MarkRead(s, n, which),
         lists' = lists, Only(n, which)',
         \A x \in Reader : \A k \in known[x] : Only(k[1], k[2])'
  PROVE  MarksOK' /\ KnownOK'
  <1>1. /\ readmsgs' = [readmsgs EXCEPT ![s] = readmsgs[s] \cup {n}]
        /\ known' = [known EXCEPT ![s] = known[s] \cup {<<n, which>>}]
    BY DEF M!MarkRead
  <1>2. /\ readmsgs' = [x \in Reader |-> readmsgs'[x]]
        /\ known' = [x \in Reader |-> known'[x]]
        /\ readmsgs'[s] = readmsgs[s] \cup {n} /\ known'[s] = known[s] \cup {<<n, which>>}
        /\ \A x \in Reader \ {s} : readmsgs'[x] = readmsgs[x] /\ known'[x] = known[x]
    BY <1>1 DEF MarksOK
  <1>3. MarksOK'
    <2>1. ASSUME NEW x \in Reader, NEW m \in readmsgs'[x] \cup lists[x].new
          PROVE  \E k \in known'[x] : k[1] = m
      <3>1. CASE m \in readmsgs[x] \cup lists[x].new
        <4>1. PICK k \in known[x] : k[1] = m
          BY <3>1 DEF MarksOK, Told
        <4> QED
          BY <1>2, <4>1
      <3>2. CASE m \notin readmsgs[x] \cup lists[x].new
        <4>1. x = s /\ m = n
          BY <1>2, <2>1, <3>2
        <4>2. <<n, which>> \in known'[x] /\ <<n, which>>[1] = m
          BY <1>2, <4>1
        <4> QED
          BY <4>2
      <3> QED
        BY <3>1, <3>2
    <2> QED
      BY <1>2, <2>1 DEF MarksOK, Told
  <1>4. KnownOK'
    <2>1. ASSUME NEW x \in Reader, NEW k \in known'[x]
          PROVE  k = <<k[1], k[2]>> /\ Only(k[1], k[2])'
      <3>1. CASE k \in known[x]
        BY <3>1 DEF KnownOK
      <3>2. CASE k \notin known[x]
        <4>1. k = <<n, which>>
          BY <1>2, <2>1, <3>2
        <4>2. k[1] = n /\ k[2] = which
          BY <4>1
        <4>3. k = <<k[1], k[2]>>
          BY <4>1, <4>2
        <4> QED
          BY <4>2, <4>3
      <3> QED
        BY <3>1, <3>2
    <2> QED
      BY <2>1 DEF KnownOK
  <1> QED
    BY <1>3, <1>4

\* A message is saved under a number: every other keeps its message.
LEMMA MessageSaved ==
  ASSUME StoreOK, NEW n, NEW msg, IsMsg(msg), M!Save(n, msg),
         posts' \in {posts, posts + 1}, n \in 0 .. posts' - 1
  PROVE  /\ StoreOK'
         /\ \A m, i : m # n /\ deleted' = deleted /\ Only(m, i) => Only(m, i)'
         /\ Only(n, msg.which)'
  <1>1. msgs' = [k \in DOMAIN msgs \cup {n} |-> IF k = n THEN msg ELSE msgs[k]]
    BY DEF M!Save
  <1>2. priv' = priv \/ priv' = [priv EXCEPT ![msg.to] = priv[msg.to] \cup {n}]
    BY DEF M!Save
  <1>3. DOMAIN msgs' = DOMAIN msgs \cup {n} /\ msgs'[n] = msg
        /\ \A k \in DOMAIN msgs \ {n} : msgs'[k] = msgs[k]
    BY <1>1
  <1>4. msgs' = [k \in DOMAIN msgs' |-> msgs'[k]]
    BY <1>1
  <1>5. \A k \in DOMAIN msgs' : IsMsg(msgs'[k])
    BY <1>3 DEF StoreOK
  <1>6. /\ priv' = [x \in Reader |-> priv'[x]]
        /\ \A x \in Reader : priv'[x] \subseteq priv[x] \cup {n}
    BY <1>2 DEF StoreOK
  <1>7. posts' \in Nat /\ DOMAIN msgs' \subseteq 0 .. posts' - 1
    BY <1>3 DEF StoreOK
  <1>8. StoreOK'
    <2>1. \A x \in Reader : priv'[x] \subseteq DOMAIN msgs'
      BY <1>3, <1>6 DEF StoreOK
    <2> QED
      BY <1>4, <1>5, <1>6, <1>7, <2>1 DEF StoreOK
  <1>9. \A m, i : m # n /\ deleted' = deleted /\ Only(m, i) => Only(m, i)'
    BY <1>3 DEF Only
  <1> QED
    BY <1>3, <1>8, <1>9 DEF Only

\* A set of natural numbers that is not empty has a least element.
LEMMA LeastNatural ==
  ASSUME NEW R \in SUBSET Nat, R # {}
  PROVE  \E x \in R : \A y \in R : x <= y
  <1>1. PICK k \in R : TRUE
    OBVIOUS
  <1> DEFINE Up(j) == 0 .. j
             Ups   == {Up(j) : j \in {i \in R : i <= k}}
  <1>2. IsWellFoundedOn(StrictSubsetOrdering(Up(k)), FiniteSubsetsOf(Up(k)))
    <2>1. IsFiniteSet(Up(k))
      BY <1>1, FS_Interval
    <2> QED
      BY <2>1, FS_StrictSubsetOrderingWellFounded
  <1>3. Ups \subseteq FiniteSubsetsOf(Up(k)) /\ Ups # {}
    <2>1. Up(k) \in Ups
      OBVIOUS
    <2>2. ASSUME NEW j \in R, j <= k PROVE Up(j) \in FiniteSubsetsOf(Up(k))
      <3>1. IsFiniteSet(Up(j)) /\ Up(j) \subseteq Up(k)
        BY <2>2, FS_Interval
      <3> HIDE DEF Up
      <3> QED
        BY <3>1 DEF FiniteSubsetsOf
    <2> QED
      BY <2>1, <2>2
  <1>4. PICK u \in Ups : \A v \in Ups : ~(<<v, u>> \in StrictSubsetOrdering(Up(k)))
    <2> HIDE DEF Ups, Up
    <2> QED
      BY <1>2, <1>3, WFMin
  <1>5. PICK j \in R : j <= k /\ u = Up(j)
    BY <1>4
  <1>6. ASSUME NEW y \in R PROVE j <= y
    <2> SUFFICES ASSUME y < j PROVE FALSE
      OBVIOUS
    <2>1. Up(y) \in Ups /\ Up(y) \subseteq Up(j) /\ Up(y) # Up(j) /\ Up(j) \subseteq Up(k)
      BY <1>5
    <2> HIDE DEF Up, Ups
    <2> QED
      BY <1>4, <1>5, <2>1 DEF StrictSubsetOrdering
  <1> QED
    BY <1>5, <1>6

\* The next number is not in use.
LEMMA NextIsFree ==
  ASSUME StoreOK
  PROVE  M!NextNum \in 0 .. posts /\ M!NextNum \notin DOMAIN msgs
  <1> DEFINE d == DOMAIN msgs
  <1>1. posts \in Nat /\ d \subseteq 0 .. posts - 1
    BY DEF StoreOK
  <1>2. CASE msgs = << >>
    <2>1. DOMAIN << >> = {}
      OBVIOUS
    <2> QED
      BY <1>1, <1>2, <2>1 DEF M!NextNum
  <1>3. CASE msgs # << >>
    <2>1. d # {}
      <3> SUFFICES ASSUME d = {} PROVE FALSE
        OBVIOUS
      <3>1. msgs = [n \in {} |-> msgs[n]]
        BY DEF StoreOK
      <3>2. msgs \in [{} -> {}] /\ << >> \in [{} -> {}]
        BY <3>1
      <3> QED
        BY <1>3, <3>2
    <2>2. PICK x \in d : \A z \in d : x >= z
      <3> DEFINE t == {posts - z : z \in d}
      <3>1. t \subseteq Nat /\ t # {}
        <4>1. \A z \in d : posts - z \in Nat
          BY <1>1
        <4> QED
          BY <2>1, <4>1
      <3>2. PICK y \in t : \A z \in t : y <= z
        <4> HIDE DEF t
        <4> QED
          BY <3>1, LeastNatural
      <3>3. PICK x \in d : y = posts - x
        OBVIOUS
      <3>4. \A z \in d : x >= z
        <4> TAKE z \in d
        <4>1. posts - z \in t
          OBVIOUS
        <4>2. y <= posts - z /\ x \in 0 .. posts - 1 /\ z \in 0 .. posts - 1
          BY <1>1, <3>2, <4>1
        <4> QED
          BY <1>1, <3>3, <4>2
      <3> QED
        BY <3>4
    <2> HIDE DEF d
    <2>3. M!Max(d) \in d /\ \A z \in d : M!Max(d) >= z
      BY <2>2 DEF M!Max
    <2>4. M!NextNum = M!Max(d) + 1
      BY <1>3 DEF M!NextNum, d
    <2>5. PICK m : m = M!Max(d)
      OBVIOUS
    <2>6. m \in 0 .. posts - 1 /\ m + 1 \in 0 .. posts /\ m + 1 \notin d
      <3>1. m \in d /\ \A z \in d : m >= z
        BY <2>3, <2>5
      <3>2. m \in 0 .. posts - 1
        BY <1>1, <3>1
      <3>3. m + 1 \in d => m >= m + 1
        BY <3>1
      <3> QED
        BY <1>1, <3>2, <3>3
    <2> QED
      BY <2>4, <2>5, <2>6 DEF d
  <1> QED
    BY <1>2, <1>3

LEMMA MarkedInit == M!Init => MarkedInv
  <1> SUFFICES ASSUME M!Init PROVE MarkedInv
    OBVIOUS
  <1>1. DOMAIN msgs = {}
    <2>1. DOMAIN << >> = {}
      OBVIOUS
    <2> QED
      BY <2>1 DEF M!Init
  <1>2. msgs = [n \in DOMAIN msgs |-> msgs[n]]
    <2>1. << >> = [n \in {} |-> msgs[n]]
      OBVIOUS
    <2> QED
      BY <1>1, <2>1 DEF M!Init
  <1>3. StoreOK
    BY <1>1, <1>2 DEF M!Init, StoreOK
  <1>4. MarksOK /\ KnownOK
    BY DEF M!Init, MarksOK, KnownOK, M!NoLists
  <1>5. DraftsOK
    BY DEF M!Init, DraftsOK, DraftOK
  <1> QED
    BY <1>3, <1>4, <1>5 DEF MarkedInv

\* A message is displayed.
LEMMA MarkedDisplay ==
  ASSUME MarkedInv, NEW s \in Reader, M!Display(s) PROVE MarkedInv'
  <1>1. UNCHANGED <<msgs, priv, posts, draft, deleted>> /\ StoreOK /\ DraftsOK
    BY DEF M!Display, M!past, MarkedInv
  <1>2. CASE M!Found(s)
    <2>1. PICK n : n = M!Current(s)
      OBVIOUS
    <2>2. /\ M!MarkRead(s, n, msgs[n].which) /\ lists' = lists
          /\ area' = [area EXCEPT ![s] = "pager"]
      BY <1>2, <2>1 DEF M!Display, M!local, M!Goes
    <2>3. n \in DOMAIN msgs
      BY <1>2, <2>1 DEF M!Found
    <2>4. \A m, i : Only(m, i) <=> Only(m, i)'
      BY <1>1 DEF Only
    <2>5. Only(n, msgs[n].which)' /\ \A x \in Reader : \A k \in known[x] : Only(k[1], k[2])'
      BY <1>1, <2>3, <2>4 DEF Only, MarkedInv, KnownOK
    <2>6. PICK i : i = msgs[n].which
      OBVIOUS
    <2>7. Only(n, i)'
      BY <1>1, <2>5, <2>6 DEF Only
    <2>8. MarksOK' /\ KnownOK'
      BY <2>2, <2>5, <2>6, <2>7, NumberMarked DEF MarkedInv
    <2>9. Goes(s) /\ DraftOK(s)'
      BY <1>1, <2>2, NothingInHand
    <2>10. DraftsOK'
      BY <1>1, <2>4, <2>9, OthersDrafts DEF StoreOK
    <2>11. StoreOK'
      BY <1>1 DEF StoreOK
    <2> QED
      BY <2>8, <2>10, <2>11 DEF MarkedInv
  <1>3. CASE ~M!Found(s)
    <2>1. /\ area' = [area EXCEPT ![s] = "away"] /\ UNCHANGED <<readmsgs, known>>
          /\ lists' = [lists EXCEPT ![s] = M!NoLists]
      BY <1>3 DEF M!Display, M!KeyError, M!Ends, M!Goes
    <2>2. Goes(s) /\ DraftOK(s)'
      BY <1>1, <2>1, NothingInHand
    <2> QED
      BY <1>1, <2>1, <2>2, NothingMarked
  <1> QED
    BY <1>2, <1>3

\* The menu is drawn.
LEMMA MarkedDrawMenu ==
  ASSUME MarkedInv, NEW s \in Reader, M!DrawMenu(s) PROVE MarkedInv'
  <1>1. /\ UNCHANGED <<msgs, priv, posts, readmsgs, draft, deleted>>
        /\ StoreOK /\ DraftsOK /\ MarksOK /\ KnownOK
        /\ area' = [area EXCEPT ![s] = "menu"]
    BY DEF M!DrawMenu, MarkedInv, M!Goes
  <1>2. PICK all, new :
          /\ all \subseteq DOMAIN msgs /\ new = (all \cup priv[s]) \ readmsgs[s]
          /\ lists' = [lists EXCEPT ![s] = [all |-> all, private |-> priv[s], new |-> new]]
          /\ known' = [known EXCEPT ![s] = known[s] \cup {<<n, msgs[n].which>> : n \in new}]
    BY DEF M!DrawMenu, M!Subscribed
  <1>3. new \subseteq DOMAIN msgs
    BY <1>1, <1>2 DEF StoreOK
  <1>4. /\ lists' = [x \in Reader |-> lists'[x]] /\ known' = [x \in Reader |-> known'[x]]
        /\ lists'[s].new = new
        /\ known'[s] = known[s] \cup {<<n, msgs[n].which>> : n \in new}
        /\ \A x \in Reader \ {s} : lists'[x] = lists[x] /\ known'[x] = known[x]
    BY <1>1, <1>2 DEF MarksOK
  <1>5. MarksOK'
    <2>1. ASSUME NEW x \in Reader, NEW m \in readmsgs[x] \cup lists'[x].new
          PROVE  \E k \in known'[x] : k[1] = m
      <3>1. CASE m \in readmsgs[x] \cup lists[x].new
        <4>1. PICK k \in known[x] : k[1] = m
          BY <1>1, <3>1 DEF MarksOK, Told
        <4> QED
          BY <1>4, <4>1
      <3>2. CASE m \notin readmsgs[x] \cup lists[x].new
        <4>1. x = s /\ m \in new
          BY <1>4, <2>1, <3>2
        <4>2. <<m, msgs[m].which>> \in known'[x] /\ <<m, msgs[m].which>>[1] = m
          BY <1>4, <4>1
        <4> QED
          BY <4>2
      <3> QED
        BY <3>1, <3>2
    <2> QED
      BY <1>1, <1>4, <2>1 DEF MarksOK, Told
  <1>6. \A m, i : Only(m, i) <=> Only(m, i)'
    BY <1>1 DEF Only
  <1>7. KnownOK'
    <2>1. ASSUME NEW x \in Reader, NEW k \in known'[x]
          PROVE  k = <<k[1], k[2]>> /\ Only(k[1], k[2])'
      <3>1. CASE k \in known[x]
        BY <1>1, <1>6, <3>1 DEF KnownOK
      <3>2. CASE k \notin known[x]
        <4>1. PICK n \in new : k = <<n, msgs[n].which>>
          BY <1>4, <2>1, <3>2
        <4>2. k[1] = n /\ k[2] = msgs[n].which /\ k = <<k[1], k[2]>>
          BY <4>1
        <4>3. k[1] \in DOMAIN msgs /\ msgs[k[1]].which = k[2]
          BY <1>3, <4>2
        <4> QED
          BY <1>1, <4>2, <4>3 DEF Only
      <3> QED
        BY <3>1, <3>2
    <2> QED
      BY <2>1 DEF KnownOK
  <1>8. Goes(s) /\ DraftOK(s)'
    BY <1>1, NothingInHand
  <1>9. DraftsOK'
    BY <1>1, <1>6, <1>8, OthersDrafts DEF StoreOK
  <1>10. StoreOK'
    BY <1>1 DEF StoreOK
  <1> QED
    BY <1>5, <1>7, <1>9, <1>10 DEF MarkedInv

\* All that the menu counts as new is marked.
LEMMA MarkedMarkAll ==
  ASSUME MarkedInv, NEW s \in Reader, M!MarkAll(s) PROVE MarkedInv'
  <1>1. /\ UNCHANGED <<msgs, priv, posts, known, draft, deleted>>
        /\ StoreOK /\ DraftsOK /\ MarksOK /\ KnownOK
        /\ area' = [area EXCEPT ![s] = "draw"]
        /\ lists' = [lists EXCEPT ![s] = M!NoLists]
        /\ readmsgs' = [readmsgs EXCEPT ![s] = readmsgs[s] \cup lists[s].new]
    BY DEF M!MarkAll, MarkedInv, M!Ends, M!Goes, M!past
  <1>2. /\ lists' = [x \in Reader |-> lists'[x]]
        /\ readmsgs' = [x \in Reader |-> readmsgs'[x]]
        /\ lists'[s] = M!NoLists /\ readmsgs'[s] = readmsgs[s] \cup lists[s].new
        /\ \A x \in Reader \ {s} : lists'[x] = lists[x] /\ readmsgs'[x] = readmsgs[x]
    BY <1>1 DEF MarksOK
  <1>3. M!NoLists.new = {}
    BY DEF M!NoLists
  <1>4. \A x \in Reader : readmsgs'[x] \cup lists'[x].new \subseteq readmsgs[x] \cup lists[x].new
    BY <1>2, <1>3
  <1>5. MarksOK'
    BY <1>1, <1>2, <1>4 DEF MarksOK, Told
  <1>6. \A m, i : Only(m, i) <=> Only(m, i)'
    BY <1>1 DEF Only
  <1>7. KnownOK' /\ StoreOK'
    BY <1>1, <1>6 DEF KnownOK, StoreOK
  <1>8. Goes(s) /\ DraftOK(s)'
    BY <1>1, NothingInHand
  <1>9. DraftsOK'
    BY <1>1, <1>6, <1>8, OthersDrafts DEF StoreOK
  <1> QED
    BY <1>5, <1>7, <1>9 DEF MarkedInv

\* A message is sent: its number was not in use.
LEMMA MarkedSend ==
  ASSUME MarkedInv, NEW s \in Reader, M!Send(s) PROVE MarkedInv'
  <1>1. StoreOK /\ DraftsOK /\ MarksOK /\ KnownOK /\ posts \in Nat
    BY DEF MarkedInv, StoreOK
  <1>2. /\ area[s] = "writing" /\ posts' = posts + 1 /\ lists' = lists /\ deleted' = deleted
        /\ draft' = [draft EXCEPT ![s] = M!NoDraft] /\ area' = [area EXCEPT ![s] = "draw"]
        /\ M!MarkRead(s, M!NextNum, posts)
    BY DEF M!Send, M!Goes
  <1>3. PICK n : n = M!NextNum
    OBVIOUS
  <1>4. PICK msg : /\ IsMsg(msg) /\ msg.which = posts /\ M!Save(n, msg)
    <2>1. PICK d : d = draft[s].msg
      OBVIOUS
    <2>2. IsMsg(d)
      BY <1>1, <1>2, <2>1 DEF DraftsOK, DraftOK
    <2>3. PICK parent : M!Save(n, [d EXCEPT !.parent = parent, !.which = posts])
      BY <1>3, <2>1 DEF M!Send
    <2>4. PICK e : e = [d EXCEPT !.parent = parent, !.which = posts]
      OBVIOUS
    <2>5. IsMsg(e) /\ e.which = posts
      BY <2>2, <2>4 DEF IsMsg, Field
    <2> QED
      BY <2>3, <2>4, <2>5
  <1>5. n \in 0 .. posts /\ n \notin DOMAIN msgs
    BY <1>1, <1>3, NextIsFree
  <1>6. /\ StoreOK' /\ Only(n, msg.which)'
        /\ \A m, i : m # n /\ deleted' = deleted /\ Only(m, i) => Only(m, i)'
    <2>1. n \in 0 .. posts' - 1 /\ posts' \in {posts, posts + 1}
      BY <1>1, <1>2, <1>5
    <2> QED
      BY <1>1, <1>4, <2>1, MessageSaved
  <1>7. \A m, i : Only(m, i) => Only(m, i)'
    <2> SUFFICES ASSUME NEW m, NEW i, Only(m, i) PROVE Only(m, i)'
      OBVIOUS
    <2>1. CASE m # n
      BY <1>2, <1>6, <2>1
    <2>2. CASE m = n
      BY <1>2, <1>5, <2>2 DEF Only
    <2> QED
      BY <2>1, <2>2
  <1>8. MarksOK' /\ KnownOK'
    <2>1. PICK i : i = posts
      OBVIOUS
    <2>2. Only(n, i)' /\ M!MarkRead(s, n, i)
      BY <1>2, <1>3, <1>4, <1>6, <2>1
    <2>3. \A x \in Reader : \A k \in known[x] : Only(k[1], k[2])'
      BY <1>1, <1>7 DEF KnownOK
    <2> QED
      BY <1>1, <1>2, <2>2, <2>3, NumberMarked
  <1>9. Goes(s) /\ DraftOK(s)'
    BY <1>1, <1>2, NothingInHand
  <1>10. DraftsOK'
    BY <1>1, <1>2, <1>7, <1>9, OthersDrafts
  <1> QED
    BY <1>6, <1>8, <1>10 DEF MarkedInv

\* The tags of a message are changed: it is saved as it was read before.
LEMMA MarkedSaveTags ==
  ASSUME MarkedInv, NEW s \in Reader, M!SaveTags(s) PROVE MarkedInv'
  <1>1. StoreOK /\ DraftsOK /\ MarksOK /\ KnownOK /\ posts \in Nat
    BY DEF MarkedInv, StoreOK
  <1>2. /\ area[s] = "tagging" /\ UNCHANGED <<posts, lists, deleted, readmsgs, known>>
        /\ draft' = [draft EXCEPT ![s] = M!NoDraft] /\ area' = [area EXCEPT ![s] = "display"]
    BY DEF M!SaveTags, M!Goes, M!past
  <1>3. Goes(s) /\ DraftOK(s)'
    BY <1>1, <1>2, NothingInHand
  <1>4. CASE UNCHANGED <<msgs, priv>>
    BY <1>2, <1>3, <1>4, NothingMarked
  <1>5. CASE M!Save(draft[s].num, draft[s].msg)
    <2>1. PICK n, msg : n = draft[s].num /\ msg = draft[s].msg
      OBVIOUS
    <2>2. /\ IsMsg(msg) /\ n \in 0 .. posts - 1 /\ Only(n, msg.which) /\ M!Save(n, msg)
      BY <1>1, <1>2, <1>5, <2>1 DEF DraftsOK, DraftOK
    <2>3. /\ StoreOK' /\ Only(n, msg.which)'
          /\ \A m, i : m # n /\ deleted' = deleted /\ Only(m, i) => Only(m, i)'
      <3>1. n \in 0 .. posts' - 1 /\ posts' \in {posts, posts + 1}
        BY <1>2, <2>2
      <3> QED
        BY <1>1, <2>2, <3>1, MessageSaved
    <2>4. \A m, i : Only(m, i) => Only(m, i)'
      <3> SUFFICES ASSUME NEW m, NEW i, Only(m, i) PROVE Only(m, i)'
        OBVIOUS
      <3>1. CASE m # n
        BY <1>2, <2>3, <3>1
      <3>2. CASE m = n
        BY <1>2, <2>2, <2>3, <3>2 DEF Only
      <3> QED
        BY <3>1, <3>2
    <2>5. MarksOK'
      BY <1>1, <1>2 DEF MarksOK, Told
    <2>6. KnownOK'
      BY <1>1, <1>2, <2>4 DEF KnownOK
    <2>7. DraftsOK'
      BY <1>1, <1>2, <1>3, <2>4, OthersDrafts
    <2> QED
      BY <2>3, <2>5, <2>6, <2>7 DEF MarkedInv
  <1> QED
    BY <1>4, <1>5 DEF M!SaveTags

\* A message is deleted, or the script ends.
LEMMA MarkedDelete ==
  ASSUME MarkedInv, NEW s \in Reader, M!Delete(s) PROVE MarkedInv'
  <1>1. StoreOK /\ DraftsOK /\ MarksOK /\ KnownOK /\ posts \in Nat
    BY DEF MarkedInv, StoreOK
  <1>2. /\ UNCHANGED <<posts, readmsgs, known, draft>>
        /\ lists' = [lists EXCEPT ![s] = M!NoLists]
    BY DEF M!Delete, M!Ends, M!KeyError
  <1>3. CASE M!Found(s)
    <2>1. PICK n : n = M!Current(s)
      OBVIOUS
    <2>2. /\ msgs' = [k \in DOMAIN msgs \ {n} |-> msgs[k]]
          /\ priv' = [u \in Reader |-> priv[u] \ {n}] /\ deleted' = deleted \cup {n}
          /\ area' = [area EXCEPT ![s] = "draw"]
      BY <1>3, <2>1 DEF M!Delete, M!Ends, M!Goes, M!Restrict
    <2>3. StoreOK'
      BY <1>1, <1>2, <2>2 DEF StoreOK
    <2>4. \A m, i : Only(m, i) => Only(m, i)'
      BY <2>2 DEF Only
    <2>5. MarksOK'
      <3>1. M!NoLists.new = {}
        BY DEF M!NoLists
      <3>2. /\ lists' = [x \in Reader |-> lists'[x]] /\ lists'[s] = M!NoLists
            /\ \A x \in Reader \ {s} : lists'[x] = lists[x]
        BY <1>1, <1>2 DEF MarksOK
      <3>3. \A x \in Reader : lists'[x].new \subseteq lists[x].new
        BY <3>1, <3>2
      <3> QED
        BY <1>1, <1>2, <3>2, <3>3 DEF MarksOK, Told
    <2>6. KnownOK'
      BY <1>1, <1>2, <2>4 DEF KnownOK
    <2>7. Goes(s) /\ DraftOK(s)'
      BY <1>1, <1>2, <2>2, NothingInHand
    <2>8. DraftsOK'
      BY <1>1, <1>2, <2>4, <2>7, OthersDrafts
    <2> QED
      BY <2>3, <2>5, <2>6, <2>8 DEF MarkedInv
  <1>4. CASE ~M!Found(s)
    <2>1. UNCHANGED <<msgs, priv, deleted>> /\ area' = [area EXCEPT ![s] = "away"]
      BY <1>4 DEF M!Delete, M!KeyError, M!Ends, M!Goes
    <2>2. Goes(s) /\ DraftOK(s)'
      BY <1>1, <1>2, <2>1, NothingInHand
    <2> QED
      BY <1>2, <2>1, <2>2, NothingMarked
  <1> QED
    BY <1>3, <1>4

\* A message is begun, or answered.
LEMMA MarkedBegins ==
  ASSUME MarkedInv, NEW s \in Reader, NEW msg, IsMsg(msg),
         draft' = [draft EXCEPT ![s] = [num |-> M!None, msg |-> msg]], M!Ends(s, "writing"),
         UNCHANGED <<msgs, priv, posts, readmsgs, known, deleted>>
  PROVE  MarkedInv'
  <1>1. /\ area' = [area EXCEPT ![s] = "writing"] /\ lists' = [lists EXCEPT ![s] = M!NoLists]
        /\ DraftsOK
    BY DEF M!Ends, M!Goes, MarkedInv
  <1>2. Goes(s) /\ area'[s] = "writing" /\ draft'[s].msg = msg
    BY <1>1 DEF DraftsOK, Goes
  <1>3. DraftOK(s)'
    BY <1>2 DEF DraftOK
  <1> QED
    BY <1>1, <1>2, <1>3, NothingMarked

\* The tags of a message are about to be changed, if there still is one of its number.
LEMMA MarkedEditTags ==
  ASSUME MarkedInv, NEW s \in Reader, M!EditTags(s) PROVE MarkedInv'
  <1>1. /\ UNCHANGED <<msgs, priv, posts, readmsgs, known, deleted>>
        /\ StoreOK /\ DraftsOK
    BY DEF M!EditTags, M!past, MarkedInv
  <1>2. CASE M!Found(s)
    <2>1. PICK n : n = M!Current(s)
      OBVIOUS
    <2>2. PICK tags : draft' = [draft EXCEPT ![s] =
                                  [num |-> n, msg |-> [msgs[n] EXCEPT !.tags = tags]]]
      BY <1>2, <2>1 DEF M!EditTags
    <2>3. area' = [area EXCEPT ![s] = "tagging"] /\ lists' = lists
      BY <1>2 DEF M!EditTags, M!Goes, M!local
    <2>4. n \in DOMAIN msgs /\ IsMsg(msgs[n]) /\ n \in 0 .. posts - 1
      BY <1>1, <1>2, <2>1 DEF M!Found, StoreOK
    <2>5. PICK m, d : m = msgs[n] /\ d = [m EXCEPT !.tags = tags]
      OBVIOUS
    <2>6. IsMsg(d) /\ d.which = m.which
      BY <2>4, <2>5 DEF IsMsg, Field
    <2>7. Goes(s) /\ area'[s] = "tagging" /\ draft'[s].num = n /\ draft'[s].msg = d
      BY <1>1, <2>2, <2>3, <2>5 DEF DraftsOK, Goes
    <2>8. Only(n, d.which)'
      BY <1>1, <2>4, <2>5, <2>6 DEF Only
    <2>9. DraftOK(s)'
      BY <1>1, <2>4, <2>6, <2>7, <2>8 DEF DraftOK, Only
    <2> QED
      BY <1>1, <2>3, <2>7, <2>9, NothingMarked
  <1>3. CASE ~M!Found(s)
    <2>1. /\ draft' = draft /\ area' = [area EXCEPT ![s] = "away"]
          /\ lists' = [lists EXCEPT ![s] = M!NoLists]
      BY <1>3 DEF M!EditTags, M!KeyError, M!Ends, M!Goes
    <2>2. Goes(s) /\ DraftOK(s)'
      BY <1>1, <2>1, NothingInHand
    <2> QED
      BY <1>1, <2>1, <2>2, NothingMarked
  <1> QED
    BY <1>2, <1>3

LEMMA MarkedNext == MarkedInv /\ [M!Next]_M!vars => MarkedInv'
  <1> SUFFICES ASSUME MarkedInv, [M!Next]_M!vars PROVE MarkedInv'
    OBVIOUS
  <1>1. CASE M!vars' = M!vars
    BY <1>1 DEF M!vars, MarkedInv, StoreOK, MarksOK, Told, KnownOK, Only, DraftsOK, DraftOK
  <1>2. ASSUME NEW s \in Reader,
               \/ M!Enter(s) \/ M!ReadPrivate(s) \/ M!LeaveMenu(s) \/ M!ReadMessages(s)
               \/ M!ChangeArea(s) \/ M!Prompt(s) \/ M!GoToMessage(s)
               \/ M!LeaveReader(s) \/ M!Cancel(s)
        PROVE  MarkedInv'
    <2>1. UNCHANGED <<msgs, priv, posts, readmsgs, known, deleted>>
      BY <1>2 DEF M!Enter, M!ReadPrivate, M!LeaveMenu, M!ReadMessages, M!ChangeArea,
         M!Prompt, M!GoToMessage, M!LeaveReader, M!Cancel, M!past
    <2>2. lists' = lists \/ lists' = [lists EXCEPT ![s] = M!NoLists]
      BY <1>2 DEF M!Enter, M!ReadPrivate, M!LeaveMenu, M!ReadMessages, M!ChangeArea,
         M!Prompt, M!GoToMessage, M!LeaveReader, M!Cancel, M!Ends, M!KeyError, M!local
    <2>3. /\ draft' = draft \/ draft' = [draft EXCEPT ![s] = M!NoDraft]
          /\ \E place : place \notin {"writing", "tagging"} /\ area' = [area EXCEPT ![s] = place]
      BY <1>2 DEF M!Enter, M!ReadPrivate, M!LeaveMenu, M!ReadMessages, M!ChangeArea,
         M!Prompt, M!GoToMessage, M!LeaveReader, M!Cancel, M!Ends, M!KeyError, M!Goes
    <2>4. Goes(s) /\ DraftOK(s)'
      BY <2>3, NothingInHand DEF MarkedInv
    <2> QED
      BY <2>1, <2>2, <2>4, NothingMarked
  <1>3. ASSUME NEW s \in Reader, M!Write(s) PROVE MarkedInv'
    <2>1. PICK to, tags : draft' = [draft EXCEPT ![s] = [num |-> M!None, msg |->
             [author |-> s, to |-> to, tags |-> tags, parent |-> M!None, which |-> M!None]]]
      BY <1>3 DEF M!Write
    <2>2. IsMsg([author |-> s, to |-> to, tags |-> tags, parent |-> M!None,
                 which |-> M!None])
      BY DEF IsMsg, Field
    <2>3. M!Ends(s, "writing") /\ UNCHANGED <<msgs, priv, posts, readmsgs, known, deleted>>
      BY <1>3 DEF M!Write, M!past
    <2> QED
      BY <2>1, <2>2, <2>3, MarkedBegins
  <1>4. ASSUME NEW s \in Reader, M!Reply(s) PROVE MarkedInv'
    <2>1. UNCHANGED <<msgs, priv, posts, readmsgs, known, deleted>>
      BY <1>4 DEF M!Reply, M!past
    <2>2. CASE M!Found(s)
      <3>1. PICK to, tags, parent : draft' = [draft EXCEPT ![s] = [num |-> M!None, msg |->
               [author |-> s, to |-> to, tags |-> tags, parent |-> parent,
                which |-> M!None]]]
        BY <1>4, <2>2 DEF M!Reply
      <3>2. IsMsg([author |-> s, to |-> to, tags |-> tags, parent |-> parent,
                   which |-> M!None])
        BY DEF IsMsg, Field
      <3>3. M!Ends(s, "writing")
        BY <1>4, <2>2 DEF M!Reply
      <3> QED
        BY <2>1, <3>1, <3>2, <3>3, MarkedBegins
    <2>3. CASE ~M!Found(s)
      <3>1. /\ draft' = draft /\ area' = [area EXCEPT ![s] = "away"]
            /\ lists' = [lists EXCEPT ![s] = M!NoLists]
        BY <1>4, <2>3 DEF M!Reply, M!KeyError, M!Ends, M!Goes
      <3>2. Goes(s) /\ DraftOK(s)'
        BY <3>1, NothingInHand DEF MarkedInv
      <3> QED
        BY <2>1, <3>1, <3>2, NothingMarked
    <2> QED
      BY <2>2, <2>3
  <1>5. CASE M!Finished
    BY <1>1, <1>5 DEF M!Finished, M!vars, MarkedInv
  <1> QED
    BY <1>1, <1>2, <1>3, <1>4, <1>5, MarkedDrawMenu, MarkedMarkAll, MarkedDisplay, MarkedSend,
       MarkedEditTags, MarkedSaveTags, MarkedDelete DEF M!Next

LEMMA MarkedOffered == MarkedInv => M!MarkedWereOffered
  <1> SUFFICES ASSUME MarkedInv, NEW s \in Reader, NEW n \in readmsgs[s]
               PROVE  /\ n \in DOMAIN msgs /\ n \notin deleted =>
                           <<n, msgs[n].which>> \in known[s]
                      /\ \E k \in known[s] : k[1] = n
    BY DEF M!MarkedWereOffered
  <1>1. PICK k \in known[s] : k[1] = n
    BY DEF MarkedInv, MarksOK, Told
  <1>2. k = <<k[1], k[2]>> /\ Only(k[1], k[2])
    BY DEF MarkedInv, KnownOK
  <1>3. CASE n \notin deleted
    <2>1. msgs[n].which = k[2]
      BY <1>1, <1>2, <1>3 DEF Only
    <2> QED
      BY <1>1, <1>2, <2>1
  <1> QED
    BY <1>1, <1>3

\* default/msgarea.py:735: what is marked as read is the very message that was displayed, sent,
\* or counted as new by the menu that the reader saw, whatever arrives and is retagged
\* meanwhile, as long as the message of its number is not deleted; and where it was,
\* a message with that number.
THEOREM MarksAreOfOffered == M!Spec => []M!MarkedWereOffered
  BY MarkedInit, MarkedNext, MarkedOffered, PTL DEF M!Spec

-----------------------------------------------------------------------------
(* Chats.                                                                     *)

\* The ends of a chat, what only a session in a chat sends, and who is in a chat with whom,
\* or is being killed
IsEnd(e)      == e.event = "chat" /\ e.data \in {"HANGUP", "REJECTED"}
IsAnswer(e)   == e.event = "chat" /\ e.data = "ANSWER"
Engages(e)    == e.event = "gosub" \/ IsAnswer(e)
HasEnd(q)     == \E i \in DOMAIN q : IsEnd(q[i])
InChat(t, s)  == calls[t] # << >> /\ calls[t][1].other = s
Chats(t, s)   == t \in unheard \/ InChat(t, s)
Invited(t, s) == \E i \in DOMAIN pipe[t] : pipe[t][i] = C!Plain("gosub", s)

ChatTypes ==
  /\ where \in [Session -> {"menu", "online", "gone"}]
  /\ calls \in [Session -> {<< >>} \cup {<<c>> : c \in C!Call}]
  /\ pipe \in [Session -> Seq(C!Event)]
  /\ buffered \in [Session -> Seq(C!Event)]
  /\ \A s \in Session : \A i \in DOMAIN buffered[s] : buffered[s][i].event = "chat"
  /\ \A s \in Session : where[s] = "gone" =>
       calls[s] = << >> /\ pipe[s] = << >> /\ buffered[s] = << >>

\* Who sent an invitation or an answer is in the chat still, or has sent its end since.
PipeTrue(s) ==
  \A i \in DOMAIN pipe[s] : Engages(pipe[s][i]) =>
    \/ Chats(pipe[s][i].from, s)
    \/ \E j \in DOMAIN pipe[s] : j > i /\ IsEnd(pipe[s][j])

BufferTrue(s) ==
  \A i \in DOMAIN buffered[s] : IsAnswer(buffered[s][i]) =>
    \/ Chats(buffered[s][i].from, s)
    \/ \E j \in DOMAIN buffered[s] : j > i /\ IsEnd(buffered[s][j])
    \/ HasEnd(pipe[s])

CallTrue(s) ==
  calls[s] # << >> =>
    LET c == calls[s][1] IN
      \/ c.stage = "ended"
      \/ Chats(c.other, s)
      \/ HasEnd(pipe[s]) \/ HasEnd(buffered[s])
      \/ c.stage = "dialing" /\ (where[c.other] = "gone" \/ Invited(c.other, s))
      \/ s \in unheard

ChatTrue == ChatTypes /\ \A s \in Session : PipeTrue(s) /\ BufferTrue(s) /\ CallTrue(s)
ChatInv  == ~mixed => ChatTrue

\* What becomes of a pipe: d events are read, and e may be appended.
Moved(old, new, d, e) ==
  /\ d \in {0, 1} /\ d <= Len(old)
  /\ new \in Seq(C!Event)
  /\ Len(new) \in {Len(old) - d, Len(old) - d + 1}
  /\ \A i \in 1 .. Len(old) - d : new[i] = old[i + d]
  /\ Len(new) = Len(old) - d + 1 => new[Len(new)] = e
Sends(old, new, d) == Len(new) = Len(old) - d + 1

LEMMA MovedNot == ASSUME NEW q \in Seq(C!Event), NEW e PROVE Moved(q, q, 0, e)
BY DEF Moved

LEMMA MovedOn ==
  ASSUME NEW q \in Seq(C!Event), NEW e \in C!Event
  PROVE  Moved(q, Append(q, e), 0, e) /\ Sends(q, Append(q, e), 0)
BY DEF Moved, Sends

LEMMA MovedOff ==
  ASSUME NEW q \in Seq(C!Event), q # << >>, NEW e
  PROVE  Moved(q, Tail(q), 1, e)
BY DEF Moved

LEMMA MovedThrough ==
  ASSUME NEW q \in Seq(C!Event), q # << >>, NEW e \in C!Event
  PROVE  Moved(q, Append(Tail(q), e), 1, e) /\ Sends(q, Append(Tail(q), e), 1)
<1> DEFINE t == Tail(q)
<1>1. t \in Seq(C!Event) /\ Len(t) = Len(q) - 1 /\ \A i \in 1 .. Len(t) : t[i] = q[i + 1]
  OBVIOUS
<1>2. Len(q) \in Nat /\ Len(q) > 0
  OBVIOUS
<1> HIDE DEF t
<1> QED BY <1>1, <1>2 DEF Moved, Sends

LEMMA FromSession == ASSUME NEW e \in C!Event PROVE e.from \in Session
BY DEF C!Event

LEMMA PlainEvent ==
  ASSUME NEW s \in Session, NEW what \in {"AYT", "ACK", "info-req", "info-ack", "gosub"}
  PROVE  C!Plain(what, s) \in C!Event /\ ~IsEnd(C!Plain(what, s)) /\ C!Plain(what, s).from = s
         /\ C!Plain(what, s).event = what /\ ~IsAnswer(C!Plain(what, s))
BY DEF C!Plain, C!Event, IsEnd, IsAnswer

LEMMA ChatEventSent ==
  ASSUME NEW s \in Session, NEW what \in {"ANSWER", "HANGUP", "REJECTED", "key"}
  PROVE  C!Chat(what, s) \in C!Event /\ C!Chat(what, s).from = s
         /\ C!Chat(what, s).event = "chat" /\ C!Chat(what, s).data = what
BY DEF C!Chat, C!Event

\* Routing appends to one pipe at most.
LEMMA Routing ==
  ASSUME NEW pipes \in [Session -> Seq(C!Event)], NEW e \in C!Event, NEW to
  PROVE  /\ C!Routed(pipes, e, to) \in [Session -> Seq(C!Event)]
         /\ \A r \in Session : C!Routed(pipes, e, to)[r] =
              IF r = to /\ where[r] # "gone" /\ e.from \notin unheard
              THEN Append(pipes[r], e) ELSE pipes[r]
<1>1. CASE where[to] # "gone" /\ e.from \notin unheard /\ to \in Session
  <2>1. C!Routed(pipes, e, to) = [pipes EXCEPT ![to] = Append(@, e)]
    BY <1>1 DEF C!Routed, C!Online
  <2>2. Append(pipes[to], e) \in Seq(C!Event)
    BY <1>1
  <2> QED BY <1>1, <2>1, <2>2
<1>2. CASE where[to] = "gone" \/ e.from \in unheard
  BY <1>2 DEF C!Routed, C!Online
<1>3. CASE to \notin Session
  BY <1>3 DEF C!Routed
<1> QED BY <1>1, <1>2, <1>3

\* An event that arrives keeps a pipe true.
LEMMA PipeKeeps ==
  ASSUME NEW r \in Session, NEW d, NEW e, ChatTypes, PipeTrue(r),
         Moved(pipe[r], pipe'[r], d, e),
         Sends(pipe[r], pipe'[r], d) /\ Engages(e) => Chats(e.from, r)',
         \A f \in Session : Chats(f, r) =>
           Chats(f, r)' \/ (Sends(pipe[r], pipe'[r], d) /\ IsEnd(e))
  PROVE  PipeTrue(r)'
<1> DEFINE old == pipe[r]
           new == pipe'[r]
           Later(f) == f \in unheard' \/ (calls'[f] # << >> /\ calls'[f][1].other = r)
<1>1. old \in Seq(C!Event) /\ new \in Seq(C!Event) /\ d \in {0, 1}
  BY DEF ChatTypes, Moved
<1>2. SUFFICES ASSUME NEW i \in DOMAIN new, Engages(new[i])
               PROVE  Later(new[i].from) \/ \E j \in DOMAIN new : j > i /\ IsEnd(new[j])
  BY DEF PipeTrue, Engages, IsAnswer, IsEnd, Chats, InChat
<1>3. /\ Moved(old, new, d, e)
      /\ Sends(old, new, d) /\ Engages(e) => Later(e.from)
      /\ \A f \in Session : Chats(f, r) => Later(f) \/ (Sends(old, new, d) /\ IsEnd(e))
      /\ \A k \in DOMAIN old : Engages(old[k]) =>
           \/ Chats(old[k].from, r)
           \/ \E j \in DOMAIN old : j > k /\ IsEnd(old[j])
  BY DEF PipeTrue, Chats, InChat
<1>a. \A x \in C!Event : x.from \in Session
  BY FromSession
<1>b. \A k \in DOMAIN old : old[k] \in C!Event
  BY <1>1
<1> HIDE DEF old, new, Later
<1>4. CASE Sends(old, new, d) /\ i = Len(new)
  <2>1. new[i] = e
    BY <1>3, <1>4 DEF Moved, Sends
  <2> QED BY <2>1, <1>2, <1>3, <1>4
<1>5. CASE ~(Sends(old, new, d) /\ i = Len(new))
  <2>1. i + d \in DOMAIN old /\ new[i] = old[i + d]
    BY <1>1, <1>2, <1>3, <1>5 DEF Moved, Sends
  <2>2. CASE Chats(old[i + d].from, r)
    <3>0. old[i + d].from \in Session
      BY <2>1, <1>a, <1>b
    <3>1. Later(new[i].from) \/ (Sends(old, new, d) /\ IsEnd(e))
      BY <2>1, <2>2, <1>3, <3>0
    <3>2. CASE Sends(old, new, d) /\ IsEnd(e)
      <4>1. Len(new) \in DOMAIN new /\ Len(new) > i /\ new[Len(new)] = e
        BY <3>2, <1>1, <1>2, <1>3, <1>5 DEF Moved, Sends
      <4> QED BY <4>1, <3>2
    <3> QED BY <3>1, <3>2
  <2>3. CASE \E j \in DOMAIN old : j > i + d /\ IsEnd(old[j])
    <3>1. PICK j \in DOMAIN old : j > i + d /\ IsEnd(old[j])
      BY <2>3
    <3>a. j \in 1 .. Len(old) /\ i \in Nat \ {0} /\ Len(old) \in Nat /\ Len(new) \in Nat
          /\ DOMAIN new = 1 .. Len(new)
      BY <3>1, <1>1, <1>2
    <3>b. j - d \in 1 .. Len(old) - d /\ (j - d) + d = j /\ j - d > i
      BY <3>1, <3>a, <1>1
    <3>c. Len(old) - d <= Len(new)
      BY <1>1, <1>3, <3>a DEF Moved
    <3>2. j - d \in DOMAIN new /\ new[j - d] = old[j] /\ j - d > i
      BY <3>a, <3>b, <3>c, <1>1, <1>3 DEF Moved
    <3> QED BY <3>1, <3>2
  <2> QED BY <2>1, <2>2, <2>3, <1>2, <1>3
<1> QED BY <1>4, <1>5

\* An end that waits in a pipe waits there until it is read.
LEMMA EndWaits ==
  ASSUME NEW old \in Seq(C!Event), NEW new, NEW d, NEW e, Moved(old, new, d, e)
  PROVE  /\ HasEnd(old) /\ (d = 1 => ~IsEnd(old[1])) => HasEnd(new)
         /\ Sends(old, new, d) /\ IsEnd(e) => HasEnd(new)
<1>1. ASSUME HasEnd(old), d = 1 => ~IsEnd(old[1]) PROVE HasEnd(new)
  <2>1. PICK j \in DOMAIN old : IsEnd(old[j])
    BY <1>1 DEF HasEnd
  <2>2. j - d \in DOMAIN new /\ new[j - d] = old[j]
    BY <2>1, <1>1 DEF Moved
  <2> QED BY <2>1, <2>2 DEF HasEnd
<1>2. ASSUME Sends(old, new, d), IsEnd(e) PROVE HasEnd(new)
  <2>1. Len(new) \in DOMAIN new /\ new[Len(new)] = e
    BY <1>2 DEF Moved, Sends
  <2> QED BY <2>1, <1>2 DEF HasEnd
<1> QED BY <1>1, <1>2

LEMMA InvitedWaits ==
  ASSUME NEW t \in Session, NEW s \in Session, NEW d, NEW e, pipe[t] \in Seq(C!Event),
         Moved(pipe[t], pipe'[t], d, e), Invited(t, s),
         d = 0 \/ pipe[t][1].event # "gosub" \/ pipe[t][1].from # s
  PROVE  Invited(t, s)'
<1> DEFINE call == C!Plain("gosub", s)
<1>1. call.event = "gosub" /\ call.from = s
  BY DEF C!Plain
<1>2. PICK j \in DOMAIN pipe[t] : pipe[t][j] = call
  BY DEF Invited
<1>3. SUFFICES \E i \in DOMAIN pipe'[t] : pipe'[t][i] = call
  BY DEF Invited, C!Plain
<1> HIDE DEF call
<1>4. ~(d = 1 /\ j = 1)
  BY <1>1, <1>2
<1> DEFINE old == pipe[t]
           new == pipe'[t]
<1>5. old \in Seq(C!Event) /\ Moved(old, new, d, e) /\ j \in DOMAIN old
  BY <1>2
<1>6. j - d \in DOMAIN new /\ new[j - d] = old[j]
  <2> HIDE DEF old, new
  <2>1. j \in 1 .. Len(old) /\ Len(old) \in Nat /\ Len(new) \in Nat /\ d \in {0, 1}
        /\ DOMAIN new = 1 .. Len(new) /\ Len(old) - d <= Len(new)
    BY <1>5 DEF Moved
  <2>2. j - d \in 1 .. Len(old) - d /\ (j - d) + d = j
    BY <1>4, <2>1
  <2> QED BY <1>5, <2>1, <2>2 DEF Moved
<1> QED BY <1>2, <1>6

\* An event that is not the end of a chat may be read, as long as the buffer is kept.
LEMMA BufferKeeps ==
  ASSUME NEW r \in Session, NEW d, NEW e, ChatTypes, BufferTrue(r),
         buffered'[r] = buffered[r],
         Moved(pipe[r], pipe'[r], d, e), d = 0 \/ ~IsEnd(pipe[r][1]),
         \A f \in Session : Chats(f, r) =>
           Chats(f, r)' \/ (Sends(pipe[r], pipe'[r], d) /\ IsEnd(e))
  PROVE  BufferTrue(r)'
<1> DEFINE b == buffered[r]
           Later(f) == f \in unheard' \/ (calls'[f] # << >> /\ calls'[f][1].other = r)
<1>1. b \in Seq(C!Event) /\ pipe[r] \in Seq(C!Event)
  BY DEF ChatTypes
<1>2. SUFFICES ASSUME NEW i \in DOMAIN b, IsAnswer(b[i])
               PROVE  \/ Later(b[i].from)
                      \/ \E j \in DOMAIN b : j > i /\ IsEnd(b[j])
                      \/ HasEnd(pipe'[r])
  BY DEF BufferTrue, Chats, InChat, IsAnswer, IsEnd, HasEnd
<1>3. b[i].from \in Session
  BY <1>1, <1>2, FromSession
<1>4. /\ HasEnd(pipe[r]) => HasEnd(pipe'[r])
      /\ Sends(pipe[r], pipe'[r], d) /\ IsEnd(e) => HasEnd(pipe'[r])
  BY <1>1, EndWaits
<1>5. \/ Chats(b[i].from, r)
      \/ \E j \in DOMAIN b : j > i /\ IsEnd(b[j])
      \/ HasEnd(pipe[r])
  BY <1>2 DEF BufferTrue
<1>6. \A f \in Session : Chats(f, r) => Later(f) \/ (Sends(pipe[r], pipe'[r], d) /\ IsEnd(e))
  BY DEF Chats, InChat
<1> QED BY <1>3, <1>4, <1>5, <1>6

LEMMA CallKeeps ==
  ASSUME NEW r \in Session, NEW d, NEW e, ChatTypes, CallTrue(r),
         calls[r] # << >> => calls'[r][1].other = calls[r][1].other,
         calls'[r] # << >> => calls[r] # << >>,
         \/ calls'[r] = calls[r]
         \/ calls'[r][1].stage = "ended"
         \/ calls[r][1].stage \notin {"dialing", "ended"},
         HasEnd(buffered[r]) => HasEnd(buffered'[r]),
         Moved(pipe[r], pipe'[r], d, e), d = 0 \/ ~IsEnd(pipe[r][1]),
         \A f \in Session : Chats(f, r) =>
           Chats(f, r)' \/ (Sends(pipe[r], pipe'[r], d) /\ IsEnd(e)),
         \A t \in Session : where[t] = "gone" => where'[t] = "gone",
         r \in unheard => r \in unheard',
         \A t \in Session : Invited(t, r) =>
           \/ Invited(t, r)' \/ Chats(t, r)' \/ where'[t] = "gone"
           \/ Sends(pipe[r], pipe'[r], d) /\ IsEnd(e)
  PROVE  CallTrue(r)'
<1>1. SUFFICES ASSUME calls'[r] # << >>
               PROVE  LET c == calls'[r][1] IN
                        \/ c.stage = "ended"
                        \/ c.other \in unheard'
                        \/ calls'[c.other] # << >> /\ calls'[c.other][1].other = r
                        \/ HasEnd(pipe'[r]) \/ HasEnd(buffered'[r])
                        \/ /\ c.stage = "dialing"
                           /\ \/ where'[c.other] = "gone"
                              \/ \E i \in DOMAIN pipe'[c.other] :
                                   pipe'[c.other][i] = C!Plain("gosub", r)
                        \/ r \in unheard'
  BY DEF CallTrue, Chats, InChat, Invited, HasEnd, IsEnd, C!Plain
<1>2. PICK c : c = calls[r][1]
  OBVIOUS
<1>3. c.other \in Session /\ calls[r] # << >>
  BY <1>1, <1>2 DEF ChatTypes, C!Call
<1>4. /\ HasEnd(pipe[r]) => HasEnd(pipe'[r])
      /\ Sends(pipe[r], pipe'[r], d) /\ IsEnd(e) => HasEnd(pipe'[r])
  BY EndWaits DEF ChatTypes
<1>5. calls'[r][1].other = c.other
  BY <1>2, <1>3
<1>6. CASE calls'[r][1].stage = "ended"
  BY <1>6
<1>7. CASE Chats(c.other, r)
  <2>1. Chats(c.other, r)' \/ (Sends(pipe[r], pipe'[r], d) /\ IsEnd(e))
    BY <1>3, <1>7
  <2> QED BY <2>1, <1>4, <1>5 DEF Chats, InChat
<1>8. CASE HasEnd(pipe[r]) \/ HasEnd(buffered[r])
  BY <1>4, <1>8
<1>9. CASE c.stage = "dialing" /\ (where[c.other] = "gone" \/ Invited(c.other, r))
           /\ calls'[r] = calls[r]
  <2>1. \/ Invited(c.other, r)' \/ Chats(c.other, r)' \/ where'[c.other] = "gone"
        \/ Sends(pipe[r], pipe'[r], d) /\ IsEnd(e)
    BY <1>3, <1>9
  <2>2. calls'[r][1].stage = "dialing"
    BY <1>2, <1>9
  <2> QED BY <2>1, <2>2, <1>4, <1>5 DEF Chats, InChat, Invited, C!Plain
<1>10. \/ c.stage = "ended"
       \/ Chats(c.other, r)
       \/ HasEnd(pipe[r]) \/ HasEnd(buffered[r])
       \/ c.stage = "dialing" /\ (where[c.other] = "gone" \/ Invited(c.other, r))
       \/ r \in unheard
  BY <1>2, <1>3 DEF CallTrue
<1>11. c.stage \in {"ended", "dialing"} => calls'[r] = calls[r] \/ calls'[r][1].stage = "ended"
  BY <1>2
<1> QED BY <1>2, <1>6, <1>7, <1>8, <1>9, <1>10, <1>11

\* What is not about a chat changes nothing in a chat.
LEMMA Chatter ==
  ASSUME ChatTrue, UNCHANGED <<calls, buffered>>, unheard \subseteq unheard',
         where' \in [Session -> {"menu", "online", "gone"}],
         \A r \in Session : where'[r] = "gone" <=> where[r] = "gone",
         pipe' \in [Session -> Seq(C!Event)],
         \A r \in Session : where[r] = "gone" => pipe'[r] = pipe[r],
         \A r \in Session : \E d \in {0, 1}, e \in C!Event :
           /\ Moved(pipe[r], pipe'[r], d, e)
           /\ d = 1 => ~IsEnd(pipe[r][1]) /\ pipe[r][1].event # "gosub"
           /\ Sends(pipe[r], pipe'[r], d) /\ Engages(e) => Chats(e.from, r)
  PROVE  ChatTrue'
<1>1. ChatTypes'
  <2>1. ChatTypes
    BY DEF ChatTrue
  <2> QED BY <2>1 DEF ChatTypes
<1>2. ASSUME NEW r \in Session PROVE PipeTrue(r)' /\ BufferTrue(r)' /\ CallTrue(r)'
  <2>1. PICK d \in {0, 1}, e \in C!Event :
           /\ Moved(pipe[r], pipe'[r], d, e)
           /\ d = 1 => ~IsEnd(pipe[r][1]) /\ pipe[r][1].event # "gosub"
           /\ Sends(pipe[r], pipe'[r], d) /\ Engages(e) => Chats(e.from, r)
    OBVIOUS
  <2>2. ChatTypes /\ PipeTrue(r) /\ BufferTrue(r) /\ CallTrue(r)
    BY DEF ChatTrue
  <2>3. \A f \in Session : Chats(f, r) => Chats(f, r)'
    BY DEF Chats, InChat
  <2>4. Sends(pipe[r], pipe'[r], d) /\ Engages(e) => Chats(e.from, r)'
    BY <2>1 DEF Chats, InChat
  <2>5. ASSUME NEW t \in Session, Invited(t, r) PROVE Invited(t, r)'
    <3>1. PICK b \in {0, 1}, x \in C!Event :
           /\ Moved(pipe[t], pipe'[t], b, x)
           /\ b = 1 => ~IsEnd(pipe[t][1]) /\ pipe[t][1].event # "gosub"
      OBVIOUS
    <3>2. pipe[t] \in Seq(C!Event)
      BY <2>2 DEF ChatTypes
    <3> QED BY <3>1, <3>2, <2>5, InvitedWaits
  <2>6. buffered'[r] = buffered[r] /\ calls'[r] = calls[r]
    OBVIOUS
  <2>7. PipeTrue(r)'
    BY <2>1, <2>2, <2>3, <2>4, PipeKeeps
  <2>8. BufferTrue(r)'
    BY <2>1, <2>2, <2>3, <2>6, BufferKeeps
  <2>9. CallTrue(r)'
    <3>1. \A t \in Session : where[t] = "gone" => where'[t] = "gone"
      OBVIOUS
    <3>2. HasEnd(buffered[r]) => HasEnd(buffered'[r])
      BY <2>6
    <3> QED BY <2>1, <2>2, <2>3, <2>5, <2>6, <3>1, <3>2, CallKeeps
  <2> QED BY <2>7, <2>8, <2>9
<1> QED BY <1>1, <1>2 DEF ChatTrue

\* What a session reads leaves its pipe, and what it routes enters another.
LEMMA JustRead ==
  ASSUME ChatTypes, NEW s \in Session, pipe[s] # << >>, NEW p, p = C!Read(s)
  PROVE  /\ p \in [Session -> Seq(C!Event)]
         /\ \A r \in Session : p[r] = IF r = s THEN Tail(pipe[s]) ELSE pipe[r]
         /\ \A r \in Session : \A e :
              Moved(pipe[r], p[r], IF r = s THEN 1 ELSE 0, e)
         /\ where[s] # "gone"
<1>1. pipe \in [Session -> Seq(C!Event)] /\ Tail(pipe[s]) \in Seq(C!Event)
  BY DEF ChatTypes
<1>2. p = [pipe EXCEPT ![s] = Tail(@)]
  BY DEF C!Read
<1>3. p \in [Session -> Seq(C!Event)]
      /\ \A r \in Session : p[r] = IF r = s THEN Tail(pipe[s]) ELSE pipe[r]
  BY <1>1, <1>2
<1>4. ASSUME NEW r \in Session, NEW e
      PROVE  Moved(pipe[r], p[r], IF r = s THEN 1 ELSE 0, e)
  <2>1. CASE r = s
    BY <1>1, <1>3, <2>1, MovedOff
  <2>2. CASE r # s
    BY <1>1, <1>3, <2>2, MovedNot
  <2> QED BY <2>1, <2>2
<1>5. where[s] # "gone"
  BY DEF ChatTypes
<1> QED BY <1>3, <1>4, <1>5

LEMMA ReadAndSent ==
  ASSUME ChatTypes, NEW s \in Session, pipe[s] # << >>, NEW p, p = C!Read(s),
         NEW e \in C!Event, NEW to, pipe' = C!Routed(p, e, to)
  PROVE  /\ pipe' \in [Session -> Seq(C!Event)]
         /\ \A r \in Session : where[r] = "gone" => pipe'[r] = pipe[r]
         /\ \A r \in Session : Moved(pipe[r], pipe'[r], IF r = s THEN 1 ELSE 0, e)
         /\ \A r \in Session : Sends(pipe[r], pipe'[r], IF r = s THEN 1 ELSE 0)
              <=> r = to /\ where[r] # "gone" /\ e.from \notin unheard
<1>0. pipe \in [Session -> Seq(C!Event)]
  BY DEF ChatTypes
<1>1. /\ p \in [Session -> Seq(C!Event)]
      /\ \A r \in Session : p[r] = IF r = s THEN Tail(pipe[s]) ELSE pipe[r]
      /\ where[s] # "gone"
  BY JustRead
<1>2. /\ pipe' \in [Session -> Seq(C!Event)]
      /\ \A r \in Session :
           pipe'[r] = IF r = to /\ where[r] # "gone" /\ e.from \notin unheard
                      THEN Append(p[r], e) ELSE p[r]
  BY <1>1, Routing
<1>3. \A r \in Session : where[r] = "gone" => pipe'[r] = pipe[r]
  BY <1>1, <1>2
<1>4. ASSUME NEW r \in Session
      PROVE  /\ Moved(pipe[r], pipe'[r], IF r = s THEN 1 ELSE 0, e)
             /\ Sends(pipe[r], pipe'[r], IF r = s THEN 1 ELSE 0)
                  <=> r = to /\ where[r] # "gone" /\ e.from \notin unheard
  <2>1. pipe[r] \in Seq(C!Event)
    BY <1>0
  <2>2. CASE r = s /\ r = to /\ where[r] # "gone" /\ e.from \notin unheard
    BY <1>1, <1>2, <2>1, <2>2, MovedThrough
  <2>3. CASE r = s /\ ~(r = to /\ where[r] # "gone" /\ e.from \notin unheard)
    <3>1. pipe'[r] = Tail(pipe[r]) /\ pipe[r] # << >>
      BY <1>1, <1>2, <2>3
    <3>2. ~Sends(pipe[r], Tail(pipe[r]), 1)
      BY <2>1, <3>1 DEF Sends
    <3> QED BY <2>1, <2>3, <3>1, <3>2, MovedOff
  <2>4. CASE r # s /\ r = to /\ where[r] # "gone" /\ e.from \notin unheard
    BY <1>1, <1>2, <2>1, <2>4, MovedOn
  <2>5. CASE r # s /\ ~(r = to /\ where[r] # "gone" /\ e.from \notin unheard)
    <3>1. pipe'[r] = pipe[r]
      BY <1>1, <1>2, <2>5
    <3>2. ~Sends(pipe[r], pipe[r], 0)
      BY <2>1 DEF Sends
    <3> QED BY <2>1, <2>5, <3>1, <3>2, MovedNot
  <2> QED BY <2>2, <2>3, <2>4, <2>5
<1> QED BY <1>2, <1>3, <1>4

LEMMA JustSent ==
  ASSUME ChatTypes, NEW e \in C!Event, NEW to, pipe' = C!Routed(pipe, e, to)
  PROVE  /\ pipe' \in [Session -> Seq(C!Event)]
         /\ \A r \in Session : where[r] = "gone" => pipe'[r] = pipe[r]
         /\ \A r \in Session : Moved(pipe[r], pipe'[r], 0, e)
         /\ \A r \in Session : Sends(pipe[r], pipe'[r], 0)
              <=> r = to /\ where[r] # "gone" /\ e.from \notin unheard
<1>0. pipe \in [Session -> Seq(C!Event)]
  BY DEF ChatTypes
<1>2. /\ pipe' \in [Session -> Seq(C!Event)]
      /\ \A r \in Session :
           pipe'[r] = IF r = to /\ where[r] # "gone" /\ e.from \notin unheard
                      THEN Append(pipe[r], e) ELSE pipe[r]
  BY <1>0, Routing
<1>4. ASSUME NEW r \in Session
      PROVE  /\ Moved(pipe[r], pipe'[r], 0, e)
             /\ Sends(pipe[r], pipe'[r], 0)
              <=> r = to /\ where[r] # "gone" /\ e.from \notin unheard
  <2>1. pipe[r] \in Seq(C!Event)
    BY <1>0
  <2>4. CASE r = to /\ where[r] # "gone" /\ e.from \notin unheard
    BY <1>2, <2>1, <2>4, MovedOn
  <2>5. CASE ~(r = to /\ where[r] # "gone" /\ e.from \notin unheard)
    <3>1. pipe'[r] = pipe[r]
      BY <1>2, <2>5
    <3>2. ~Sends(pipe[r], pipe[r], 0)
      BY <2>1 DEF Sends
    <3> QED BY <2>1, <2>5, <3>1, <3>2, MovedNot
  <2> QED BY <2>4, <2>5
<1> QED BY <1>2, <1>4

\* The steps that are not about a chat
LEMMA NothingHeard ==
  ASSUME ChatTrue, UNCHANGED <<calls, buffered, pipe>>, unheard \subseteq unheard',
         where' \in [Session -> {"menu", "online", "gone"}],
         \A r \in Session : where'[r] = "gone" <=> where[r] = "gone"
  PROVE  ChatTrue'
<1>1. pipe \in [Session -> Seq(C!Event)]
  BY DEF ChatTrue, ChatTypes
<1>2. ASSUME NEW r \in Session
      PROVE  \E d \in {0, 1}, x \in C!Event :
               /\ Moved(pipe[r], pipe'[r], d, x)
               /\ d = 1 => ~IsEnd(pipe[r][1]) /\ pipe[r][1].event # "gosub"
               /\ Sends(pipe[r], pipe'[r], d) /\ Engages(x) => Chats(x.from, r)
  <2>1. PICK e \in C!Event : TRUE
    BY PlainEvent
  <2>2. pipe'[r] = pipe[r] /\ Moved(pipe[r], pipe[r], 0, e) /\ ~Sends(pipe[r], pipe[r], 0)
    BY <1>1, MovedNot DEF Sends
  <2> WITNESS 0 \in {0, 1}, e \in C!Event
  <2> QED BY <2>2
<1> QED BY <1>1, <1>2, Chatter

LEMMA OnlineTrue ==
  ASSUME ChatTrue, NEW s \in Session,
         \/ C!EnterOnline(s) \/ C!Prune(s) \/ C!LeaveOnline(s) \/ C!Updated(s)
  PROVE  ChatTrue'
<1>0. where \in [Session -> {"menu", "online", "gone"}]
  BY DEF ChatTrue, ChatTypes
<1>1. CASE C!EnterOnline(s)
  <2>1. where' = [where EXCEPT ![s] = "online"] /\ where[s] = "menu"
        /\ UNCHANGED <<calls, buffered, pipe, unheard>>
    BY <1>1 DEF C!EnterOnline
  <2>2. where' \in [Session -> {"menu", "online", "gone"}]
        /\ \A r \in Session : where'[r] = "gone" <=> where[r] = "gone"
    BY <1>0, <2>1
  <2> QED BY <2>1, <2>2, NothingHeard
<1>2. CASE C!LeaveOnline(s)
  <2>1. where' = [where EXCEPT ![s] = "menu"] /\ where[s] = "online"
        /\ UNCHANGED <<calls, buffered, pipe, unheard>>
    BY <1>2 DEF C!LeaveOnline, C!Free
  <2>2. where' \in [Session -> {"menu", "online", "gone"}]
        /\ \A r \in Session : where'[r] = "gone" <=> where[r] = "gone"
    BY <1>0, <2>1
  <2> QED BY <2>1, <2>2, NothingHeard
<1>3. CASE C!Prune(s) \/ C!Updated(s)
  <2>1. UNCHANGED <<where, calls, buffered, pipe, unheard>>
    BY <1>3 DEF C!Prune, C!Updated
  <2> QED BY <1>0, <2>1, NothingHeard
<1> QED BY <1>1, <1>2, <1>3

\* What a session sends of which nothing is read
LEMMA PlainSent ==
  ASSUME ChatTrue, UNCHANGED <<where, calls, buffered, unheard>>, NEW e \in C!Event,
         ~IsEnd(e), Engages(e) => FALSE,
         pipe' \in [Session -> Seq(C!Event)],
         \A r \in Session : where[r] = "gone" => pipe'[r] = pipe[r],
         \A r \in Session : Moved(pipe[r], pipe'[r], 0, e)
  PROVE  ChatTrue'
<1>1. where' \in [Session -> {"menu", "online", "gone"}]
  BY DEF ChatTrue, ChatTypes
<1>2. \A r \in Session : where'[r] = "gone" <=> where[r] = "gone"
  OBVIOUS
<1>3. ASSUME NEW r \in Session
      PROVE  \E d \in {0, 1}, x \in C!Event :
               /\ Moved(pipe[r], pipe'[r], d, x)
               /\ d = 1 => ~IsEnd(pipe[r][1]) /\ pipe[r][1].event # "gosub"
               /\ Sends(pipe[r], pipe'[r], d) /\ Engages(x) => Chats(x.from, r)
  <2> WITNESS 0 \in {0, 1}, e \in C!Event
  <2> QED OBVIOUS
<1> QED BY <1>1, <1>2, <1>3, Chatter

LEMMA AskTrue ==
  ASSUME ChatTrue, NEW s \in Session, C!Ask(s) PROVE ChatTrue'
<1> DEFINE e == C!Plain("AYT", s)
<1>1. e \in C!Event /\ ~IsEnd(e) /\ ~Engages(e)
  BY PlainEvent DEF Engages
<1> HIDE DEF e
<1>2. pipe' = [t \in Session |-> IF t # s /\ where[t] # "gone" /\ s \notin unheard
                                  THEN Append(pipe[t], e) ELSE pipe[t]]
      /\ UNCHANGED <<where, calls, buffered, unheard>>
  BY DEF C!Ask, C!Online, e
<1>3. pipe \in [Session -> Seq(C!Event)]
  BY DEF ChatTrue, ChatTypes
<1>4. pipe' \in [Session -> Seq(C!Event)]
  BY <1>1, <1>2, <1>3
<1>5. \A r \in Session : where[r] = "gone" => pipe'[r] = pipe[r]
  BY <1>2
<1>6. ASSUME NEW r \in Session PROVE Moved(pipe[r], pipe'[r], 0, e)
  <2>1. pipe'[r] = Append(pipe[r], e) \/ pipe'[r] = pipe[r]
    BY <1>2
  <2> QED BY <1>1, <1>3, <2>1, MovedOn, MovedNot
<1> QED BY <1>1, <1>2, <1>4, <1>5, <1>6, PlainSent

LEMMA AcknowledgedTrue ==
  ASSUME ChatTrue, NEW s \in Session, C!Acknowledged(s) PROVE ChatTrue'
<1> DEFINE e == C!Plain("info-req", s)
<1>1. e \in C!Event /\ ~IsEnd(e) /\ ~Engages(e)
  BY PlainEvent DEF Engages
<1> HIDE DEF e
<1>2. PICK ack \in answers[s] : pipe' = C!Routed(pipe, e, ack.from) \/ pipe' = pipe
  BY DEF C!Acknowledged, e
<1>3. UNCHANGED <<where, calls, buffered, unheard>>
  BY DEF C!Acknowledged
<1>4. CASE pipe' = pipe
  BY <1>3, <1>4, NothingHeard DEF ChatTrue, ChatTypes
<1>5. CASE pipe' = C!Routed(pipe, e, ack.from)
  <2>1. ChatTypes
    BY DEF ChatTrue
  <2>2. PICK to : to = ack.from
    OBVIOUS
  <2>3. pipe' = C!Routed(pipe, e, to)
    BY <1>5, <2>2
  <2>4. /\ pipe' \in [Session -> Seq(C!Event)]
        /\ \A r \in Session : where[r] = "gone" => pipe'[r] = pipe[r]
        /\ \A r \in Session : Moved(pipe[r], pipe'[r], 0, e)
    BY <1>1, <2>1, <2>3, JustSent
  <2> QED BY <1>1, <1>3, <2>4, PlainSent
<1> QED BY <1>2, <1>4, <1>5

LEMMA TypeTrue ==
  ASSUME ChatTrue, NEW s \in Session, C!Type(s) PROVE ChatTrue'
<1> DEFINE e == C!Chat("key", s)
<1>1. e \in C!Event /\ ~IsEnd(e) /\ ~Engages(e)
  BY ChatEventSent DEF Engages, IsEnd, IsAnswer
<1> HIDE DEF e
<1>2. PICK to : to = C!Other(s)
  OBVIOUS
<1>3. pipe' = C!Routed(pipe, e, to) /\ UNCHANGED <<where, calls, buffered, unheard>>
  BY <1>2 DEF C!Type, e
<1>4. /\ pipe' \in [Session -> Seq(C!Event)]
      /\ \A r \in Session : where[r] = "gone" => pipe'[r] = pipe[r]
      /\ \A r \in Session : Moved(pipe[r], pipe'[r], 0, e)
  BY <1>1, <1>3, JustSent DEF ChatTrue
<1> QED BY <1>1, <1>3, <1>4, PlainSent

LEMMA ReceiveRequestTrue ==
  ASSUME ChatTrue, NEW s \in Session, C!ReceiveRequest(s) PROVE ChatTrue'
<1>1. PICK head : head = pipe[s][1]
  OBVIOUS
<1>2. pipe[s] # << >> /\ pipe[s] \in Seq(C!Event) /\ ChatTypes
  BY DEF C!ReceiveRequest, C!Reads, ChatTrue, ChatTypes
<1>3. Head(pipe[s]) = head
  BY <1>1, <1>2
<1>4. head.event \in {"AYT", "info-req"} /\ UNCHANGED <<where, calls, buffered, unheard>>
  BY <1>3 DEF C!ReceiveRequest, C!NextOf
<1>5. PICK p : p = C!Read(s)
  OBVIOUS
<1>6. PICK e \in C!Event : pipe' = C!Routed(p, e, head.from) /\ ~IsEnd(e) /\ ~Engages(e)
  <2>1. \/ pipe' = C!Routed(C!Read(s), C!Plain("ACK", s), Head(pipe[s]).from)
        \/ pipe' = C!Routed(C!Read(s), C!Plain("info-ack", s), Head(pipe[s]).from)
    BY DEF C!ReceiveRequest, C!NextOf
  <2> QED BY <1>3, <1>5, <2>1, PlainEvent DEF Engages
<1>7. /\ pipe' \in [Session -> Seq(C!Event)]
      /\ \A r \in Session : where[r] = "gone" => pipe'[r] = pipe[r]
      /\ \A r \in Session : Moved(pipe[r], pipe'[r], IF r = s THEN 1 ELSE 0, e)
  BY <1>2, <1>5, <1>6, ReadAndSent
<1>8. ASSUME NEW r \in Session
      PROVE  \E d \in {0, 1}, x \in C!Event :
               /\ Moved(pipe[r], pipe'[r], d, x)
               /\ d = 1 => ~IsEnd(pipe[r][1]) /\ pipe[r][1].event # "gosub"
               /\ Sends(pipe[r], pipe'[r], d) /\ Engages(x) => Chats(x.from, r)
  <2> WITNESS (IF r = s THEN 1 ELSE 0) \in {0, 1}, e \in C!Event
  <2> QED BY <1>1, <1>4, <1>6, <1>7 DEF IsEnd
<1>9. where' \in [Session -> {"menu", "online", "gone"}]
      /\ \A r \in Session : where'[r] = "gone" <=> where[r] = "gone"
  BY <1>2, <1>4 DEF ChatTypes
<1> QED BY <1>4, <1>7, <1>8, <1>9, Chatter

LEMMA ReceiveAnswerTrue ==
  ASSUME ChatTrue, NEW s \in Session, C!ReceiveAnswer(s) PROVE ChatTrue'
<1>1. pipe[s] # << >> /\ pipe[s] \in Seq(C!Event) /\ ChatTypes
  BY DEF C!ReceiveAnswer, C!Reads, ChatTrue, ChatTypes
<1>2. PICK e \in C!Event : e = pipe[s][1]
  BY <1>1
<1>3. Head(pipe[s]) = e
  BY <1>1, <1>2
<1>4. e.event \in {"ACK", "info-ack"} /\ UNCHANGED <<where, calls, buffered, unheard>>
  BY <1>3 DEF C!ReceiveAnswer, C!NextOf
<1>5. PICK p : p = C!Read(s)
  OBVIOUS
<1>6. pipe' = p
  BY <1>5 DEF C!ReceiveAnswer
<1>7. /\ p \in [Session -> Seq(C!Event)]
      /\ \A r \in Session : p[r] = IF r = s THEN Tail(pipe[s]) ELSE pipe[r]
      /\ \A r \in Session : Moved(pipe[r], p[r], IF r = s THEN 1 ELSE 0, e)
      /\ where[s] # "gone"
  BY <1>1, <1>5, JustRead
<1>8. ASSUME NEW r \in Session
      PROVE  \E d \in {0, 1}, x \in C!Event :
               /\ Moved(pipe[r], pipe'[r], d, x)
               /\ d = 1 => ~IsEnd(pipe[r][1]) /\ pipe[r][1].event # "gosub"
               /\ Sends(pipe[r], pipe'[r], d) /\ Engages(x) => Chats(x.from, r)
  <2> WITNESS (IF r = s THEN 1 ELSE 0) \in {0, 1}, e \in C!Event
  <2> QED BY <1>2, <1>4, <1>6, <1>7 DEF IsEnd, IsAnswer, Engages
<1>9. where' \in [Session -> {"menu", "online", "gone"}]
      /\ \A r \in Session : where'[r] = "gone" <=> where[r] = "gone"
  BY <1>1, <1>4 DEF ChatTypes
<1>10. pipe' \in [Session -> Seq(C!Event)]
       /\ \A r \in Session : where[r] = "gone" => pipe'[r] = pipe[r]
  BY <1>6, <1>7
<1> QED BY <1>4, <1>8, <1>9, <1>10, Chatter

\* How a chat begins, goes on and ends, where none is inside another
LEMMA CallOf ==
  ASSUME ChatTypes, NEW s \in Session, calls[s] # << >>
  PROVE  \E c \in C!Call : calls[s] = <<c>> /\ C!Other(s) = c.other /\ where[s] # "gone"
           /\ \A stage : C!At(s, stage) <=> c.stage = stage
<1>1. PICK c \in C!Call : calls[s] = <<c>>
  BY DEF ChatTypes
<1>2. C!Last(calls[s]) = c
  BY <1>1 DEF C!Last
<1>3. where[s] # "gone"
  BY DEF ChatTypes
<1> QED BY <1>1, <1>2, <1>3 DEF C!Other, C!At

LEMMA Beginning ==
  ASSUME ChatTypes, ~mixed', unheard' = unheard, NEW s \in Session, NEW t \in Session,
         NEW stage \in {"dialing", "answering", "prompt", "talking", "ended"},
         C!Began(s, t, stage)
  PROVE  /\ calls[s] = << >>
         /\ calls' \in [Session -> {<< >>} \cup {<<c>> : c \in C!Call}]
         /\ calls'[s] = <<[other |-> t, stage |-> stage]>>
         /\ \A r \in Session : r # s => calls'[r] = calls[r]
         /\ buffered' \in [Session -> Seq(C!Event)] /\ buffered'[s] = << >>
         /\ \A r \in Session : r # s => buffered'[r] = buffered[r]
         /\ \A f, r \in Session : Chats(f, r) => Chats(f, r)'
<1>1. calls[s] = << >>
  <2>1. mixed' <=> (mixed \/ calls[s] # << >>)
    BY DEF C!Began
  <2> QED BY <2>1
<1> DEFINE c == [other |-> t, stage |-> stage]
<1>2. calls' = [calls EXCEPT ![s] = Append(@, c)] /\ buffered' = [buffered EXCEPT ![s] = << >>]
  BY DEF C!Began
<1>3. c \in C!Call
  BY DEF C!Call, C!Stage
<1> HIDE DEF c
<1>4. /\ calls \in [Session -> {<< >>} \cup {<<x>> : x \in C!Call}]
      /\ buffered \in [Session -> Seq(C!Event)]
  BY DEF ChatTypes
<1>5. Append(calls[s], c) = <<c>>
  BY <1>1
<1>6. /\ calls' \in [Session -> {<< >>} \cup {<<x>> : x \in C!Call}]
      /\ calls'[s] = <<c>>
      /\ \A r \in Session : r # s => calls'[r] = calls[r]
  BY <1>2, <1>3, <1>4, <1>5
<1>7. buffered' \in [Session -> Seq(C!Event)] /\ buffered'[s] = << >>
      /\ \A r \in Session : r # s => buffered'[r] = buffered[r]
  BY <1>2, <1>4
<1>8. \A f, r \in Session : Chats(f, r) => Chats(f, r)'
  BY <1>1, <1>6 DEF Chats, InChat
<1> QED BY <1>1, <1>6, <1>7, <1>8 DEF c

LEMMA Going ==
  ASSUME ChatTypes, NEW s \in Session, calls[s] # << >>, unheard' = unheard,
         NEW stage \in {"dialing", "answering", "prompt", "talking", "ended"},
         C!Goes(s, stage)
  PROVE  /\ calls' \in [Session -> {<< >>} \cup {<<c>> : c \in C!Call}]
         /\ calls'[s] # << >> /\ calls'[s][1].other = calls[s][1].other
         /\ calls'[s][1].stage = stage
         /\ \A r \in Session : r # s => calls'[r] = calls[r]
         /\ \A f, r \in Session : Chats(f, r) <=> Chats(f, r)'
<1>1. PICK c \in C!Call : calls[s] = <<c>>
  BY DEF ChatTypes
<1> DEFINE x == [other |-> c.other, stage |-> stage]
<1>2. x \in C!Call /\ [c EXCEPT !.stage = stage] = x
  BY DEF C!Call, C!Stage
<1>3. calls \in [Session -> {<< >>} \cup {<<y>> : y \in C!Call}]
  BY DEF ChatTypes
<1>4. calls' = [calls EXCEPT ![s] = <<x>>]
  <2>1. calls' = [calls EXCEPT ![s][1].stage = stage]
    BY <1>1 DEF C!Goes
  <2>2. [<<c>> EXCEPT ![1].stage = stage] = <<x>>
    BY <1>2
  <2> QED BY <1>1, <2>1, <2>2
<1>5. x.other = c.other /\ x.stage = stage
  OBVIOUS
<1> HIDE DEF x
<1>6. /\ calls' \in [Session -> {<< >>} \cup {<<y>> : y \in C!Call}]
      /\ calls'[s] = <<x>>
      /\ \A r \in Session : r # s => calls'[r] = calls[r]
  BY <1>2, <1>3, <1>4
<1>7. calls'[s] # << >> /\ calls'[s][1] = x /\ calls[s][1] = c
  BY <1>1, <1>6
<1>8. \A f, r \in Session : Chats(f, r) <=> Chats(f, r)'
  BY <1>1, <1>5, <1>6, <1>7 DEF Chats, InChat
<1> QED BY <1>5, <1>6, <1>7, <1>8

LEMMA ChCardinality == \A S : C!Cardinality(S) = Cardinality(S)
BY DEF C!Cardinality, Cardinality

LEMMA HangingUp ==
  ASSUME NEW s \in Session, NEW c, NEW t
  PROVE  /\ C!HangUps(s, << >>, t) = << >>
         /\ C!HangUps(s, <<c>>, t) = IF c.other = t THEN <<C!Chat("HANGUP", s)>> ELSE << >>
<1>1. C!HangUps(s, << >>, t) = << >>
  <2>1. {i \in DOMAIN << >> : << >>[i].other = t} = {}
    OBVIOUS
  <2>2. C!Cardinality({i \in DOMAIN << >> : << >>[i].other = t}) = 0
    BY <2>1, FS_EmptySet, ChCardinality
  <2>3. C!HangUps(s, << >>, t) = [i \in 1 .. 0 |-> C!Chat("HANGUP", s)]
    BY <2>2 DEF C!HangUps
  <2> QED BY <2>3
<1>2. CASE c.other = t
  <2>1. {i \in DOMAIN <<c>> : <<c>>[i].other = t} = {1}
    BY <1>2
  <2>2. C!Cardinality({i \in DOMAIN <<c>> : <<c>>[i].other = t}) = 1
    BY <2>1, FS_Singleton, ChCardinality
  <2>3. C!HangUps(s, <<c>>, t) = [i \in 1 .. 1 |-> C!Chat("HANGUP", s)]
    BY <2>2 DEF C!HangUps
  <2> QED BY <1>1, <1>2, <2>3
<1>3. CASE c.other # t
  <2>1. {i \in DOMAIN <<c>> : <<c>>[i].other = t} = {}
    BY <1>3
  <2>2. C!Cardinality({i \in DOMAIN <<c>> : <<c>>[i].other = t}) = 0
    BY <2>1, FS_EmptySet, ChCardinality
  <2>3. C!HangUps(s, <<c>>, t) = [i \in 1 .. 0 |-> C!Chat("HANGUP", s)]
    BY <2>2 DEF C!HangUps
  <2> QED BY <1>1, <1>3, <2>3
<1> QED BY <1>1, <1>2, <1>3

\* The steps in which a call begins, goes on or ends
LEMMA DialTrue ==
  ASSUME ChatTrue, ~mixed', NEW s \in Session, C!Dial(s) PROVE ChatTrue'
<1> DEFINE e == C!Plain("gosub", s)
<1>1. e \in C!Event /\ ~IsEnd(e) /\ e.from = s
  BY PlainEvent
<1>a. e = C!Plain("gosub", s)
  OBVIOUS
<1> HIDE DEF e
<1>2. PICK t \in Session \ {s} : C!Began(s, t, "dialing") /\ pipe' = C!Routed(pipe, e, t)
  BY <1>a DEF C!Dial
<1>3. ChatTypes /\ \A r \in Session : PipeTrue(r) /\ BufferTrue(r) /\ CallTrue(r)
  BY DEF ChatTrue
<1>4. UNCHANGED where /\ where[s] = "online" /\ unheard' = unheard
  BY DEF C!Dial, C!Free
<1>5. /\ calls[s] = << >>
      /\ calls' \in [Session -> {<< >>} \cup {<<c>> : c \in C!Call}]
      /\ calls'[s] = <<[other |-> t, stage |-> "dialing"]>>
      /\ \A r \in Session : r # s => calls'[r] = calls[r]
      /\ buffered' \in [Session -> Seq(C!Event)] /\ buffered'[s] = << >>
      /\ \A r \in Session : r # s => buffered'[r] = buffered[r]
      /\ \A f, r \in Session : Chats(f, r) => Chats(f, r)'
  BY <1>2, <1>3, <1>4, Beginning
<1>6. /\ pipe' \in [Session -> Seq(C!Event)]
      /\ \A r \in Session : where[r] = "gone" => pipe'[r] = pipe[r]
      /\ \A r \in Session : Moved(pipe[r], pipe'[r], 0, e)
      /\ \A r \in Session : Sends(pipe[r], pipe'[r], 0) => r = t /\ where[r] # "gone"
      /\ \A r \in Session : r = t /\ where[r] # "gone" /\ s \notin unheard
           => Sends(pipe[r], pipe'[r], 0)
  BY <1>1, <1>2, <1>3, JustSent
<1>7. ChatTypes'
  <2>1. \A r \in Session : \A i \in DOMAIN buffered'[r] : buffered'[r][i].event = "chat"
    <3>1. \A r \in Session : r # s => buffered'[r] = buffered[r]
      BY <1>5
    <3>2. DOMAIN buffered'[s] = {}
      BY <1>5
    <3> QED BY <1>3, <3>1, <3>2 DEF ChatTypes
  <2>2. \A r \in Session : where'[r] = "gone" =>
          calls'[r] = << >> /\ pipe'[r] = << >> /\ buffered'[r] = << >>
    BY <1>3, <1>4, <1>5, <1>6 DEF ChatTypes
  <2> QED BY <1>3, <1>4, <1>5, <1>6, <2>1, <2>2 DEF ChatTypes
<1>8. Chats(s, t)'
  BY <1>5 DEF Chats, InChat
<1>9. ASSUME NEW r \in Session PROVE PipeTrue(r)'
  <2>1. Sends(pipe[r], pipe'[r], 0) /\ Engages(e) => Chats(e.from, r)'
    <3>1. Sends(pipe[r], pipe'[r], 0) => r = t
      BY <1>6
    <3> QED BY <3>1, <1>1, <1>5 DEF Chats, InChat
  <2> QED BY <1>3, <1>5, <1>6, <2>1, PipeKeeps
<1>10. ASSUME NEW r \in Session PROVE BufferTrue(r)'
  <2>1. CASE r = s
    BY <1>5, <2>1 DEF BufferTrue
  <2>2. CASE r # s
    BY <1>3, <1>5, <1>6, <2>2, BufferKeeps
  <2> QED BY <2>1, <2>2
<1>11. ASSUME NEW r \in Session PROVE CallTrue(r)'
  <2>1. CASE r = s
    <3>1. CASE where[t] = "gone"
      BY <1>4, <1>5, <2>1, <3>1 DEF CallTrue
    <3>3. CASE s \in unheard
      BY <1>4, <2>1, <3>3 DEF CallTrue
    <3>2. CASE where[t] # "gone" /\ s \notin unheard
      <4>1. Sends(pipe[t], pipe'[t], 0) /\ Moved(pipe[t], pipe'[t], 0, e)
        BY <1>6, <3>2
      <4>2. Len(pipe'[t]) \in DOMAIN pipe'[t] /\ pipe'[t][Len(pipe'[t])] = e
        <5>1. pipe[t] \in Seq(C!Event) /\ pipe'[t] \in Seq(C!Event)
          BY <1>3, <1>6 DEF ChatTypes
        <5> QED BY <4>1, <5>1 DEF Moved, Sends
      <4>3. Invited(t, s)'
        BY <4>2, <1>a DEF Invited, C!Plain
      <4> QED BY <1>5, <2>1, <4>3 DEF CallTrue
    <3> QED BY <3>1, <3>2, <3>3
  <2>2. CASE r # s
    <3>1. \A u \in Session : Invited(u, r) => Invited(u, r)'
      <4> SUFFICES ASSUME NEW u \in Session, Invited(u, r) PROVE Invited(u, r)'
        OBVIOUS
      <4>1. pipe[u] \in Seq(C!Event) /\ Moved(pipe[u], pipe'[u], 0, e)
        BY <1>3, <1>6 DEF ChatTypes
      <4> QED BY <4>1, InvitedWaits
    <3>2. calls'[r] = calls[r] /\ buffered'[r] = buffered[r]
      BY <1>5, <2>2
    <3>3. HasEnd(buffered[r]) => HasEnd(buffered'[r])
      BY <3>2
    <3>4. \A u \in Session : where[u] = "gone" => where'[u] = "gone"
      BY <1>4
    <3> QED BY <1>3, <1>4, <1>5, <1>6, <3>1, <3>2, <3>3, <3>4, CallKeeps
  <2> QED BY <2>1, <2>2
<1> QED BY <1>7, <1>9, <1>10, <1>11 DEF ChatTrue

LEMMA AnswerTrue ==
  ASSUME ChatTrue, NEW s \in Session, C!Answer(s) PROVE ChatTrue'
<1> DEFINE e == C!Chat("ANSWER", s)
<1>1. e \in C!Event /\ ~IsEnd(e) /\ e.from = s
  BY ChatEventSent DEF IsEnd
<1>a. e = C!Chat("ANSWER", s)
  OBVIOUS
<1> HIDE DEF e
<1>2. ChatTypes /\ \A r \in Session : PipeTrue(r) /\ BufferTrue(r) /\ CallTrue(r)
  BY DEF ChatTrue
<1>3. calls[s] # << >>
  BY DEF C!Answer, C!At
<1>4. PICK c \in C!Call : calls[s] = <<c>> /\ C!Other(s) = c.other /\ where[s] # "gone"
           /\ \A stage : C!At(s, stage) <=> c.stage = stage
  BY <1>2, <1>3, CallOf
<1>5. /\ c.stage \in {"answering", "prompt"}
      /\ pipe' = C!Routed(pipe, e, c.other)
      /\ C!Goes(s, "talking") /\ UNCHANGED <<where, buffered, unheard>>
  BY <1>4, <1>a DEF C!Answer
<1>6. /\ calls' \in [Session -> {<< >>} \cup {<<x>> : x \in C!Call}]
      /\ calls'[s] # << >> /\ calls'[s][1].other = calls[s][1].other
      /\ \A r \in Session : r # s => calls'[r] = calls[r]
      /\ \A f, r \in Session : Chats(f, r) <=> Chats(f, r)'
  BY <1>2, <1>3, <1>5, Going
<1>7. /\ pipe' \in [Session -> Seq(C!Event)]
      /\ \A r \in Session : where[r] = "gone" => pipe'[r] = pipe[r]
      /\ \A r \in Session : Moved(pipe[r], pipe'[r], 0, e)
      /\ \A r \in Session : Sends(pipe[r], pipe'[r], 0) => r = c.other
  BY <1>1, <1>2, <1>5, JustSent
<1>8. ChatTypes'
  <2>1. \A r \in Session : where'[r] = "gone" =>
          calls'[r] = << >> /\ pipe'[r] = << >> /\ buffered'[r] = << >>
    BY <1>2, <1>4, <1>5, <1>6, <1>7 DEF ChatTypes
  <2> QED BY <1>2, <1>5, <1>6, <1>7, <2>1 DEF ChatTypes
<1>9. ASSUME NEW r \in Session PROVE PipeTrue(r)'
  <2>1. Sends(pipe[r], pipe'[r], 0) /\ Engages(e) => Chats(e.from, r)'
    <3>1. Sends(pipe[r], pipe'[r], 0) => r = c.other
      BY <1>7
    <3>2. Chats(s, c.other)
      BY <1>4 DEF Chats, InChat
    <3>3. calls'[s] # << >> /\ calls'[s][1].other = c.other
      BY <1>4, <1>6
    <3> QED BY <3>1, <3>3, <1>1 DEF Chats, InChat
  <2> QED BY <1>2, <1>6, <1>7, <2>1, PipeKeeps
<1>10. ASSUME NEW r \in Session PROVE BufferTrue(r)'
  <2>1. buffered'[r] = buffered[r]
    BY <1>5
  <2> QED BY <1>2, <1>6, <1>7, <2>1, BufferKeeps
<1>11. ASSUME NEW r \in Session PROVE CallTrue(r)'
  <2>1. \A u \in Session : Invited(u, r) => Invited(u, r)'
    <3> SUFFICES ASSUME NEW u \in Session, Invited(u, r) PROVE Invited(u, r)'
      OBVIOUS
    <3>1. pipe[u] \in Seq(C!Event) /\ Moved(pipe[u], pipe'[u], 0, e)
      BY <1>2, <1>7 DEF ChatTypes
    <3> QED BY <3>1, InvitedWaits
  <2>2. HasEnd(buffered[r]) => HasEnd(buffered'[r])
    BY <1>5
  <2>3. \A u \in Session : where[u] = "gone" => where'[u] = "gone"
    BY <1>5
  <2>4. /\ calls[r] # << >> => calls'[r][1].other = calls[r][1].other
        /\ calls'[r] # << >> => calls[r] # << >>
        /\ \/ calls'[r] = calls[r]
           \/ calls'[r][1].stage = "ended"
           \/ calls[r][1].stage \notin {"dialing", "ended"}
    BY <1>3, <1>4, <1>5, <1>6
  <2> QED BY <1>2, <1>5, <1>6, <1>7, <2>1, <2>2, <2>3, <2>4, CallKeeps
<1> QED BY <1>8, <1>9, <1>10, <1>11 DEF ChatTrue

LEMMA HesitateTrue ==
  ASSUME ChatTrue, NEW s \in Session, C!Hesitate(s) PROVE ChatTrue'
<1>1. PICK e \in C!Event : TRUE
  BY PlainEvent
<1>2. ChatTypes /\ \A r \in Session : PipeTrue(r) /\ BufferTrue(r) /\ CallTrue(r)
  BY DEF ChatTrue
<1>3. calls[s] # << >>
  BY DEF C!Hesitate, C!At
<1>4. PICK c \in C!Call : calls[s] = <<c>> /\ C!Other(s) = c.other /\ where[s] # "gone"
           /\ \A stage : C!At(s, stage) <=> c.stage = stage
  BY <1>2, <1>3, CallOf
<1>5. c.stage = "answering" /\ C!Goes(s, "prompt") /\ UNCHANGED <<where, buffered, pipe, unheard>>
  BY <1>4 DEF C!Hesitate
<1>6. /\ calls' \in [Session -> {<< >>} \cup {<<x>> : x \in C!Call}]
      /\ calls'[s] # << >> /\ calls'[s][1].other = calls[s][1].other
      /\ \A r \in Session : r # s => calls'[r] = calls[r]
      /\ \A f, r \in Session : Chats(f, r) <=> Chats(f, r)'
  BY <1>2, <1>3, <1>5, Going
<1>7. \A r \in Session : Moved(pipe[r], pipe'[r], 0, e) /\ ~Sends(pipe[r], pipe'[r], 0)
  BY <1>2, <1>5, MovedNot DEF ChatTypes, Sends
<1>8. ChatTypes'
  <2>1. \A r \in Session : where'[r] = "gone" =>
          calls'[r] = << >> /\ pipe'[r] = << >> /\ buffered'[r] = << >>
    BY <1>2, <1>4, <1>5, <1>6 DEF ChatTypes
  <2> QED BY <1>2, <1>5, <1>6, <2>1 DEF ChatTypes
<1>9. ASSUME NEW r \in Session PROVE PipeTrue(r)' /\ BufferTrue(r)'
  <2>1. buffered'[r] = buffered[r]
    BY <1>5
  <2> QED BY <1>2, <1>6, <1>7, <2>1, PipeKeeps, BufferKeeps
<1>10. ASSUME NEW r \in Session PROVE CallTrue(r)'
  <2>1. \A u \in Session : Invited(u, r) => Invited(u, r)'
    BY <1>5 DEF Invited, C!Plain
  <2>2. HasEnd(buffered[r]) => HasEnd(buffered'[r])
    BY <1>5
  <2>3. \A u \in Session : where[u] = "gone" => where'[u] = "gone"
    BY <1>5
  <2>4. /\ calls[r] # << >> => calls'[r][1].other = calls[r][1].other
        /\ calls'[r] # << >> => calls[r] # << >>
        /\ \/ calls'[r] = calls[r]
           \/ calls'[r][1].stage = "ended"
           \/ calls[r][1].stage \notin {"dialing", "ended"}
    BY <1>3, <1>4, <1>5, <1>6
  <2> QED BY <1>2, <1>5, <1>6, <1>7, <2>1, <2>2, <2>3, <2>4, CallKeeps
<1> QED BY <1>8, <1>9, <1>10 DEF ChatTrue

LEMMA ReceiveChatTrue ==
  ASSUME ChatTrue, NEW s \in Session, C!ReceiveChat(s) PROVE ChatTrue'
<1>1. ChatTypes /\ \A r \in Session : PipeTrue(r) /\ BufferTrue(r) /\ CallTrue(r)
  BY DEF ChatTrue
<1>2. pipe[s] # << >> /\ pipe[s] \in Seq(C!Event) /\ buffered[s] \in Seq(C!Event)
  BY <1>1 DEF C!ReceiveChat, C!Reads, ChatTypes
<1>3. PICK e \in C!Event : e = pipe[s][1]
  BY <1>2
<1>4. /\ Head(pipe[s]) = e /\ e.event = "chat" /\ UNCHANGED <<where, calls, unheard>>
      /\ buffered' = [buffered EXCEPT ![s] = Append(@, e)]
  BY <1>2, <1>3 DEF C!ReceiveChat, C!NextOf
<1>5. PICK p : p = C!Read(s)
  OBVIOUS
<1>6. pipe' = p
  BY <1>5 DEF C!ReceiveChat
<1>7. /\ pipe' \in [Session -> Seq(C!Event)]
      /\ \A r \in Session : pipe'[r] = IF r = s THEN Tail(pipe[s]) ELSE pipe[r]
      /\ \A r \in Session : Moved(pipe[r], pipe'[r], IF r = s THEN 1 ELSE 0, e)
      /\ where[s] # "gone"
  BY <1>1, <1>2, <1>5, <1>6, JustRead
<1>8. ASSUME NEW r \in Session PROVE ~Sends(pipe[r], pipe'[r], IF r = s THEN 1 ELSE 0)
  <2>1. CASE r = s
    <3>1. Len(Tail(pipe[s])) = Len(pipe[s]) - 1
      BY <1>2
    <3> QED BY <1>2, <1>7, <2>1, <3>1 DEF Sends
  <2>2. CASE r # s
    <3>1. Len(pipe[r]) \in Nat
      BY <1>1 DEF ChatTypes
    <3> QED BY <1>7, <2>2, <3>1 DEF Sends
  <2> QED BY <2>1, <2>2
<1>9. \A f, r \in Session : Chats(f, r) => Chats(f, r)'
  BY <1>4 DEF Chats, InChat
<1>10. /\ buffered' \in [Session -> Seq(C!Event)]
       /\ buffered'[s] = Append(buffered[s], e)
       /\ \A r \in Session : r # s => buffered'[r] = buffered[r]
  BY <1>1, <1>4 DEF ChatTypes
<1>11. ChatTypes'
  <2>1. \A r \in Session : \A i \in DOMAIN buffered'[r] : buffered'[r][i].event = "chat"
    <3>1. \A i \in DOMAIN buffered'[s] : buffered'[s][i].event = "chat"
      <4> DEFINE b == buffered[s]
      <4>1. b \in Seq(C!Event) /\ \A i \in DOMAIN b : b[i].event = "chat"
        BY <1>1 DEF ChatTypes
      <4> HIDE DEF b
      <4>2. \A i \in DOMAIN Append(b, e) : Append(b, e)[i].event = "chat"
        BY <4>1, <1>4
      <4> QED BY <4>2, <1>10 DEF b
    <3>2. \A r \in Session : r # s => buffered'[r] = buffered[r]
      BY <1>10
    <3> QED BY <1>1, <3>1, <3>2 DEF ChatTypes
  <2>2. \A r \in Session : where'[r] = "gone" =>
          calls'[r] = << >> /\ pipe'[r] = << >> /\ buffered'[r] = << >>
    BY <1>1, <1>4, <1>7, <1>10 DEF ChatTypes
  <2> QED BY <1>1, <1>4, <1>7, <1>10, <2>1, <2>2 DEF ChatTypes
<1>12. ASSUME NEW r \in Session PROVE PipeTrue(r)'
  BY <1>1, <1>7, <1>8, <1>9, PipeKeeps
<1>13. ASSUME HasEnd(pipe[s]), ~IsEnd(e) PROVE HasEnd(pipe'[s])
  <2>1. Moved(pipe[s], pipe'[s], 1, e)
    BY <1>7
  <2> QED BY <1>2, <1>3, <1>13, <2>1, EndWaits
<1>14. ASSUME NEW r \in Session PROVE BufferTrue(r)'
  <2>1. CASE r # s
    BY <1>1, <1>7, <1>8, <1>9, <1>10, <2>1, BufferKeeps
  <2>2. CASE r = s
    <3> DEFINE b == buffered[s]
               new == buffered'[s]
               old == pipe[s]
               Later(f) == f \in unheard' \/ (calls'[f] # << >> /\ calls'[f][1].other = s)
    <3>1. SUFFICES ASSUME NEW i \in DOMAIN new, IsAnswer(new[i])
                   PROVE  \/ Later(new[i].from)
                          \/ \E j \in DOMAIN new : j > i /\ IsEnd(new[j])
                          \/ HasEnd(pipe'[s])
      BY <2>2 DEF BufferTrue, Chats, InChat, IsAnswer, IsEnd, HasEnd
    <3>2. /\ b \in Seq(C!Event) /\ new = Append(b, e)
          /\ \A k \in DOMAIN b : IsAnswer(b[k]) =>
               \/ Chats(b[k].from, s)
               \/ \E j \in DOMAIN b : j > k /\ IsEnd(b[j])
               \/ HasEnd(old)
          /\ \A k \in DOMAIN old : Engages(old[k]) =>
               \/ Chats(old[k].from, s)
               \/ \E j \in DOMAIN old : j > k /\ IsEnd(old[j])
          /\ old \in Seq(C!Event) /\ old # << >> /\ e = old[1]
      BY <1>1, <1>2, <1>3, <1>10 DEF BufferTrue, PipeTrue
    <3>3. \A f \in Session : Chats(f, s) => Later(f)
      BY <1>9 DEF Chats, InChat
    <3>a. HasEnd(old) /\ ~IsEnd(e) => HasEnd(pipe'[s])
      BY <1>13
    <3> HIDE DEF b, new, old, Later
    <3>5. CASE i = Len(b) + 1
      <4>1. new[i] = e
        BY <3>2, <3>5
      <4>2. 1 \in DOMAIN old /\ Engages(old[1]) /\ e.from \in Session
        BY <3>1, <3>2, <4>1, FromSession DEF Engages
      <4>3. ~IsEnd(e)
        BY <3>1, <4>1 DEF IsAnswer, IsEnd
      <4>4. CASE Chats(e.from, s)
        BY <4>1, <4>2, <4>4, <3>3
      <4>5. CASE \E j \in DOMAIN old : j > 1 /\ IsEnd(old[j])
        <5>1. HasEnd(old)
          BY <4>5 DEF HasEnd
        <5> QED BY <5>1, <4>3, <3>a
      <4> QED BY <4>2, <4>4, <4>5, <3>2
    <3>6. CASE i # Len(b) + 1
      <4>1. i \in DOMAIN b /\ new[i] = b[i] /\ IsAnswer(b[i]) /\ b[i].from \in Session
        BY <3>1, <3>2, <3>6, FromSession
      <4>2. CASE Chats(b[i].from, s)
        BY <4>1, <4>2, <3>3
      <4>3. CASE \E j \in DOMAIN b : j > i /\ IsEnd(b[j])
        <5>1. PICK j \in DOMAIN b : j > i /\ IsEnd(b[j])
          BY <4>3
        <5>2. j \in DOMAIN new /\ new[j] = b[j]
          BY <5>1, <3>2
        <5> QED BY <5>1, <5>2
      <4>4. CASE HasEnd(old)
        <5>1. CASE IsEnd(e)
          <6>1. Len(b) + 1 \in DOMAIN new /\ new[Len(b) + 1] = e /\ Len(b) + 1 > i
            BY <3>2, <4>1
          <6> QED BY <6>1, <5>1
        <5>2. CASE ~IsEnd(e)
          BY <3>a, <4>4, <5>2
        <5> QED BY <5>1, <5>2
      <4> QED BY <4>1, <4>2, <4>3, <4>4, <3>2
    <3> QED BY <3>5, <3>6
  <2> QED BY <2>1, <2>2
<1>15. ASSUME NEW r \in Session PROVE CallTrue(r)'
  <2>1. \A u \in Session : Invited(u, r) => Invited(u, r)'
    <3> SUFFICES ASSUME NEW u \in Session, Invited(u, r) PROVE Invited(u, r)'
      OBVIOUS
    <3>1. pipe[u] \in Seq(C!Event) /\ Moved(pipe[u], pipe'[u], IF u = s THEN 1 ELSE 0, e)
      BY <1>1, <1>7 DEF ChatTypes
    <3>2. (IF u = s THEN 1 ELSE 0) = 0 \/ pipe[u][1].event # "gosub"
      BY <1>3, <1>4
    <3> QED BY <3>1, <3>2, InvitedWaits
  <2>2. \A u \in Session : where[u] = "gone" => where'[u] = "gone"
    BY <1>4
  <2>3. calls'[r] = calls[r]
    BY <1>4
  <2>4. HasEnd(buffered[r]) => HasEnd(buffered'[r])
    <3>1. CASE r # s
      BY <1>10, <3>1
    <3>2. CASE r = s
      <4>1. ASSUME NEW i \in DOMAIN buffered[s], IsEnd(buffered[s][i]) PROVE HasEnd(buffered'[s])
        <5>1. i \in DOMAIN buffered'[s] /\ buffered'[s][i] = buffered[s][i]
          BY <1>2, <1>10
        <5> QED BY <5>1, <4>1 DEF HasEnd
      <4> QED BY <3>2, <4>1 DEF HasEnd
    <3> QED BY <3>1, <3>2
  <2>5. CASE r # s \/ ~IsEnd(e)
    <3>1. (IF r = s THEN 1 ELSE 0) = 0 \/ ~IsEnd(pipe[r][1])
      BY <1>3, <2>5
    <3> QED BY <1>1, <1>4, <1>7, <1>8, <1>9, <2>1, <2>2, <2>3, <2>4, <3>1, CallKeeps
  <2>6. CASE r = s /\ IsEnd(e)
    <3>1. Len(buffered[s]) + 1 \in DOMAIN buffered'[s] /\ buffered'[s][Len(buffered[s]) + 1] = e
      BY <1>2, <1>10
    <3>2. HasEnd(buffered'[s])
      BY <2>6, <3>1 DEF HasEnd
    <3> QED BY <2>6, <3>2 DEF CallTrue, HasEnd, IsEnd
  <2> QED BY <2>5, <2>6
<1> QED BY <1>11, <1>12, <1>14, <1>15 DEF ChatTrue

LEMMA ChatEventTrue ==
  ASSUME ChatTrue, ~mixed', NEW s \in Session, C!ChatEvent(s) PROVE ChatTrue'
<1>1. ChatTypes /\ \A r \in Session : PipeTrue(r) /\ BufferTrue(r) /\ CallTrue(r)
  BY DEF ChatTrue
<1>2. calls[s] # << >> /\ buffered[s] # << >> /\ buffered[s] \in Seq(C!Event)
  BY <1>1 DEF C!ChatEvent, C!Waiting, C!At, ChatTypes
<1>3. PICK e \in C!Event : e = buffered[s][1]
  BY <1>2
<1>4. PICK c \in C!Call : calls[s] = <<c>> /\ C!Other(s) = c.other /\ where[s] # "gone"
           /\ \A stage : C!At(s, stage) <=> c.stage = stage
  BY <1>1, <1>2, CallOf
<1>5. Head(buffered[s]) = e /\ e.event = "chat" /\ UNCHANGED <<where, pipe, unheard>>
      /\ buffered' = [buffered EXCEPT ![s] = Tail(@)]
  BY <1>1, <1>2, <1>3 DEF C!ChatEvent, ChatTypes
<1>6. e.from = c.other
  <2>1. mixed' <=> (mixed \/ e.from # c.other)
    BY <1>4, <1>5 DEF C!ChatEvent
  <2> QED BY <2>1
<1>7. /\ IsEnd(e) => C!Goes(s, "ended")
      /\ IsAnswer(e) /\ c.stage = "dialing" => C!Goes(s, "talking")
      /\ ~IsEnd(e) /\ ~(IsAnswer(e) /\ c.stage = "dialing") => calls' = calls
  <2>1. e.data \in {"ANSWER", "HANGUP", "REJECTED", "key"}
    BY <1>5 DEF C!Event
  <2>2. CASE e.data \in {"HANGUP", "REJECTED"}
    <3>1. C!Goes(s, "ended")
      BY <1>5, <2>2 DEF C!ChatEvent
    <3> QED BY <3>1, <1>5, <2>2 DEF IsEnd, IsAnswer
  <2>3. CASE e.data = "ANSWER" /\ c.stage = "dialing"
    <3>1. C!Goes(s, "talking")
      BY <1>4, <1>5, <2>3 DEF C!ChatEvent
    <3> QED BY <3>1, <1>5, <2>3 DEF IsEnd, IsAnswer
  <2>4. CASE e.data = "ANSWER" /\ c.stage # "dialing"
    <3>1. calls' = calls
      BY <1>4, <1>5, <2>4 DEF C!ChatEvent
    <3> QED BY <3>1, <2>4 DEF IsEnd, IsAnswer
  <2>5. CASE e.data = "key"
    <3>1. calls' = calls
      BY <1>5, <2>5 DEF C!ChatEvent
    <3> QED BY <3>1, <2>5 DEF IsEnd, IsAnswer
  <2> QED BY <2>1, <2>2, <2>3, <2>4, <2>5
<1>8. /\ calls' \in [Session -> {<< >>} \cup {<<x>> : x \in C!Call}]
      /\ calls'[s] # << >> /\ calls'[s][1].other = c.other
      /\ \A r \in Session : r # s => calls'[r] = calls[r]
      /\ \A f, r \in Session : Chats(f, r) <=> Chats(f, r)'
  <2>1. CASE IsEnd(e)
    <3>1. C!Goes(s, "ended")
      BY <1>7, <2>1
    <3>2. /\ calls' \in [Session -> {<< >>} \cup {<<x>> : x \in C!Call}]
          /\ calls'[s] # << >> /\ calls'[s][1].other = calls[s][1].other
          /\ \A r \in Session : r # s => calls'[r] = calls[r]
          /\ \A f, r \in Session : Chats(f, r) <=> Chats(f, r)'
      BY <1>1, <1>2, <1>5, <3>1, Going
    <3> QED BY <1>4, <3>2
  <2>2. CASE IsAnswer(e) /\ c.stage = "dialing"
    <3>1. C!Goes(s, "talking")
      BY <1>7, <2>2
    <3>2. /\ calls' \in [Session -> {<< >>} \cup {<<x>> : x \in C!Call}]
          /\ calls'[s] # << >> /\ calls'[s][1].other = calls[s][1].other
          /\ \A r \in Session : r # s => calls'[r] = calls[r]
          /\ \A f, r \in Session : Chats(f, r) <=> Chats(f, r)'
      BY <1>1, <1>2, <1>5, <3>1, Going
    <3> QED BY <1>4, <3>2
  <2>3. CASE calls' = calls
    BY <1>1, <1>2, <1>4, <1>5, <2>3 DEF ChatTypes, Chats, InChat
  <2> QED BY <1>7, <2>1, <2>2, <2>3
<1>9. /\ buffered' \in [Session -> Seq(C!Event)]
      /\ buffered'[s] = Tail(buffered[s])
      /\ \A r \in Session : r # s => buffered'[r] = buffered[r]
  <2>1. Tail(buffered[s]) \in Seq(C!Event) /\ buffered \in [Session -> Seq(C!Event)]
    BY <1>1, <1>2 DEF ChatTypes
  <2> QED BY <1>5, <2>1
<1>a. \A i \in DOMAIN buffered'[s] :
        i + 1 \in DOMAIN buffered[s] /\ buffered'[s][i] = buffered[s][i + 1]
  BY <1>2, <1>9
<1>b. \A j \in DOMAIN buffered[s] : j # 1 =>
        j - 1 \in DOMAIN buffered'[s] /\ buffered'[s][j - 1] = buffered[s][j]
  BY <1>2, <1>9
<1>10. ChatTypes'
  <2>1. \A r \in Session : \A i \in DOMAIN buffered'[r] : buffered'[r][i].event = "chat"
    <3>1. \A i \in DOMAIN buffered'[s] : buffered'[s][i].event = "chat"
      BY <1>1, <1>a DEF ChatTypes
    <3>2. \A r \in Session : r # s => buffered'[r] = buffered[r]
      BY <1>9
    <3> QED BY <1>1, <3>1, <3>2 DEF ChatTypes
  <2>2. \A r \in Session : where'[r] = "gone" =>
          calls'[r] = << >> /\ pipe'[r] = << >> /\ buffered'[r] = << >>
    BY <1>1, <1>4, <1>5, <1>8, <1>9 DEF ChatTypes
  <2> QED BY <1>1, <1>5, <1>8, <1>9, <2>1, <2>2 DEF ChatTypes
<1>11. \A r \in Session : Moved(pipe[r], pipe'[r], 0, e) /\ ~Sends(pipe[r], pipe'[r], 0)
  BY <1>1, <1>5, MovedNot DEF ChatTypes, Sends
<1>12. ASSUME NEW r \in Session PROVE PipeTrue(r)'
  BY <1>1, <1>8, <1>11, PipeKeeps
<1>13. ASSUME NEW r \in Session PROVE BufferTrue(r)'
  <2>1. CASE r # s
    BY <1>1, <1>8, <1>9, <1>11, <2>1, BufferKeeps
  <2>2. CASE r = s
    <3> DEFINE b == buffered[s]
               new == buffered'[s]
               Later(f) == f \in unheard' \/ (calls'[f] # << >> /\ calls'[f][1].other = s)
    <3>1. SUFFICES ASSUME NEW i \in DOMAIN new, IsAnswer(new[i])
                   PROVE  \/ Later(new[i].from)
                          \/ \E j \in DOMAIN new : j > i /\ IsEnd(new[j])
                          \/ HasEnd(pipe'[s])
      BY <2>2 DEF BufferTrue, Chats, InChat, IsAnswer, IsEnd, HasEnd
    <3>2. /\ b \in Seq(C!Event)
          /\ \A k \in DOMAIN b : IsAnswer(b[k]) =>
               \/ Chats(b[k].from, s)
               \/ \E j \in DOMAIN b : j > k /\ IsEnd(b[j])
               \/ HasEnd(pipe[s])
          /\ new = Tail(b) /\ pipe'[s] = pipe[s]
          /\ i + 1 \in DOMAIN b /\ new[i] = b[i + 1] /\ i \in Nat \ {0}
      BY <1>1, <1>2, <1>5, <1>9, <1>a DEF BufferTrue
    <3>3. \A f \in Session : Chats(f, s) => Later(f)
      BY <1>8 DEF Chats, InChat
    <3>4. \A j \in DOMAIN b : j # 1 => j - 1 \in DOMAIN new /\ new[j - 1] = b[j]
      BY <1>b
    <3> HIDE DEF b, new, Later
    <3>5. b[i + 1].from \in Session
      BY <3>2, FromSession
    <3>6. CASE \E j \in DOMAIN b : j > i + 1 /\ IsEnd(b[j])
      <4>1. PICK j \in DOMAIN b : j > i + 1 /\ IsEnd(b[j])
        BY <3>6
      <4>2. j - 1 \in DOMAIN new /\ new[j - 1] = b[j] /\ j - 1 > i
        BY <4>1, <3>2, <3>4
      <4> QED BY <4>1, <4>2
    <3> QED BY <3>1, <3>2, <3>3, <3>5, <3>6
  <2> QED BY <2>1, <2>2
<1>14. ASSUME NEW r \in Session PROVE CallTrue(r)'
  <2>1. CASE r # s
    <3>1. \A u \in Session : Invited(u, r) => Invited(u, r)'
      BY <1>5 DEF Invited, C!Plain
    <3>2. \A u \in Session : where[u] = "gone" => where'[u] = "gone"
      BY <1>5
    <3>3. calls'[r] = calls[r] /\ buffered'[r] = buffered[r]
      BY <1>8, <1>9, <2>1
    <3>4. HasEnd(buffered[r]) => HasEnd(buffered'[r])
      BY <3>3
    <3> QED BY <1>1, <1>5, <1>8, <1>11, <3>1, <3>2, <3>3, <3>4, CallKeeps
  <2>2. CASE r = s /\ IsEnd(e)
    <3>1. calls'[s][1].stage = "ended"
      BY <1>1, <1>2, <1>5, <1>7, <2>2, Going
    <3> QED BY <2>2, <3>1 DEF CallTrue
  <2>3. CASE r = s /\ ~IsEnd(e)
    <3>1. HasEnd(buffered[s]) => HasEnd(buffered'[s])
      <4> SUFFICES ASSUME NEW j \in DOMAIN buffered[s], IsEnd(buffered[s][j])
                   PROVE  HasEnd(buffered'[s])
        BY DEF HasEnd
      <4>1. j # 1
        BY <1>3, <2>3
      <4> QED BY <4>1, <1>b DEF HasEnd
    <3>2. CASE IsAnswer(e)
      <4>1. 1 \in DOMAIN buffered[s] /\ IsAnswer(buffered[s][1])
        BY <1>2, <1>3, <3>2
      <4>2. Chats(c.other, s) \/ HasEnd(buffered[s]) \/ HasEnd(pipe[s])
        BY <4>1, <1>1, <1>3, <1>6 DEF BufferTrue, HasEnd
      <4>3. CASE Chats(c.other, s)
        <5>1. Chats(c.other, s)'
          <6>1. c.other \in Session
            BY DEF C!Call
          <6> QED BY <6>1, <1>8, <4>3
        <5>2. c.other \in unheard' \/ (calls'[c.other] # << >> /\ calls'[c.other][1].other = s)
          BY <5>1 DEF Chats, InChat
        <5> QED BY <2>3, <5>2, <1>8 DEF CallTrue, Chats, InChat
      <4>4. CASE HasEnd(buffered[s]) \/ HasEnd(pipe[s])
        <5>1. HasEnd(buffered'[s]) \/ HasEnd(pipe'[s])
          BY <4>4, <3>1, <1>5
        <5> QED BY <2>3, <5>1 DEF CallTrue, HasEnd, IsEnd
      <4> QED BY <4>2, <4>3, <4>4
    <3>3. CASE ~IsAnswer(e)
      <4>1. calls' = calls
        BY <1>7, <2>3, <3>3
      <4>2. \A u \in Session : Invited(u, r) => Invited(u, r)'
        BY <1>5 DEF Invited, C!Plain
      <4>3. \A u \in Session : where[u] = "gone" => where'[u] = "gone"
        BY <1>5
      <4> QED BY <1>1, <1>5, <1>8, <1>11, <2>3, <3>1, <4>1, <4>2, <4>3, CallKeeps
    <3> QED BY <3>2, <3>3
  <2> QED BY <2>1, <2>2, <2>3
<1> QED BY <1>10, <1>12, <1>13, <1>14 DEF ChatTrue

\* A call arrives: a session that rejects it says so to who called.
LEMMA ReceiveCallTrue ==
  ASSUME ChatTrue, ~mixed', NEW s \in Session, C!ReceiveCall(s) PROVE ChatTrue'
<1>1. ChatTypes /\ \A r \in Session : PipeTrue(r) /\ BufferTrue(r) /\ CallTrue(r)
  BY DEF ChatTrue
<1>2. pipe[s] # << >> /\ pipe[s] \in Seq(C!Event)
  BY <1>1 DEF C!ReceiveCall, C!Reads, ChatTypes
<1>3. PICK head \in C!Event : head = pipe[s][1]
  BY <1>2
<1>4. Head(pipe[s]) = head /\ head.event = "gosub" /\ UNCHANGED <<where, unheard>>
  BY <1>2, <1>3 DEF C!ReceiveCall, C!NextOf
<1>5. PICK p : p = C!Read(s)
  OBVIOUS
<1>6. PICK f \in Session : f = head.from
  BY FromSession
<1>7. PICK e \in C!Event : e = C!Chat("REJECTED", s)
  BY ChatEventSent
<1>8. IsEnd(e) /\ ~Engages(e) /\ ~IsEnd(head)
  BY <1>4, <1>7, ChatEventSent DEF IsEnd, IsAnswer, Engages
<1>9. ASSUME NEW r \in Session PROVE (IF r = s THEN 1 ELSE 0) = 0 \/ ~IsEnd(pipe[r][1])
  BY <1>3, <1>8
<1>10. ASSUME NEW r \in Session, NEW u \in Session, Invited(u, r), ~(u = s /\ r = f), NEW x,
              Moved(pipe[u], pipe'[u], IF u = s THEN 1 ELSE 0, x)
       PROVE  Invited(u, r)'
  <2>1. (IF u = s THEN 1 ELSE 0) = 0 \/ pipe[u][1].from # r
    BY <1>3, <1>6, <1>10
  <2>2. pipe[u] \in Seq(C!Event)
    BY <1>1 DEF ChatTypes
  <2> QED BY <1>10, <2>1, <2>2, InvitedWaits
<1>11. CASE s \in Rejecting
  <2>1. pipe' = C!Routed(p, e, f) /\ UNCHANGED <<calls, buffered, unheard>>
    BY <1>4, <1>5, <1>6, <1>7, <1>11 DEF C!ReceiveCall, C!NextOf
  <2>2. /\ pipe' \in [Session -> Seq(C!Event)]
        /\ \A r \in Session : where[r] = "gone" => pipe'[r] = pipe[r]
        /\ \A r \in Session : Moved(pipe[r], pipe'[r], IF r = s THEN 1 ELSE 0, e)
        /\ \A r \in Session : Sends(pipe[r], pipe'[r], IF r = s THEN 1 ELSE 0)
             <=> r = f /\ where[r] # "gone" /\ s \notin unheard
    BY <1>1, <1>2, <1>5, <1>7, <2>1, ReadAndSent, ChatEventSent
  <2>3. \A t, r \in Session : Chats(t, r) => Chats(t, r)'
    BY <2>1 DEF Chats, InChat
  <2>4. ChatTypes'
    BY <1>1, <1>4, <2>1, <2>2 DEF ChatTypes
  <2>5. ASSUME NEW r \in Session PROVE PipeTrue(r)' /\ BufferTrue(r)'
    <3>1. buffered'[r] = buffered[r]
      BY <2>1
    <3> QED BY <1>1, <1>8, <1>9, <2>2, <2>3, <3>1, PipeKeeps, BufferKeeps
  <2>6. ASSUME NEW r \in Session PROVE CallTrue(r)'
    <3>1. CASE where[r] = "gone"
      BY <1>1, <2>1, <3>1 DEF ChatTypes, CallTrue
    <3>2. CASE where[r] # "gone"
      <4> DEFINE d == IF r = s THEN 1 ELSE 0
      <4>1. ASSUME NEW u \in Session, Invited(u, r)
            PROVE  \/ Invited(u, r)' \/ Chats(u, r)'
                   \/ Sends(pipe[r], pipe'[r], d) /\ IsEnd(e)
        <5>1. CASE u = s /\ r = f
          <6>1. CASE s \in unheard
            BY <1>4, <5>1, <6>1 DEF Chats
          <6>2. CASE s \notin unheard
            BY <1>8, <2>2, <3>2, <5>1, <6>2
          <6> QED BY <6>1, <6>2
        <5>2. CASE ~(u = s /\ r = f)
          BY <1>10, <2>2, <4>1, <5>2
        <5> QED BY <5>1, <5>2
      <4>2. d = 0 \/ ~IsEnd(pipe[r][1])
        BY <1>9
      <4>3. Moved(pipe[r], pipe'[r], d, e)
        BY <2>2
      <4>4. calls'[r] = calls[r] /\ (HasEnd(buffered[r]) => HasEnd(buffered'[r]))
        BY <2>1
      <4>5. \A u \in Session : where[u] = "gone" => where'[u] = "gone"
        BY <1>4
      <4> HIDE DEF d
      <4> QED BY <1>1, <1>4, <2>3, <4>1, <4>2, <4>3, <4>4, <4>5, CallKeeps
    <3> QED BY <3>1, <3>2
  <2> QED BY <2>4, <2>5, <2>6 DEF ChatTrue
<1>12. CASE s \notin Rejecting
  <2>1. C!Began(s, f, "answering") /\ pipe' = p
    BY <1>4, <1>5, <1>6, <1>12 DEF C!ReceiveCall, C!NextOf
  <2>2. /\ calls[s] = << >>
        /\ calls' \in [Session -> {<< >>} \cup {<<c>> : c \in C!Call}]
        /\ calls'[s] = <<[other |-> f, stage |-> "answering"]>>
        /\ \A r \in Session : r # s => calls'[r] = calls[r]
        /\ buffered' \in [Session -> Seq(C!Event)] /\ buffered'[s] = << >>
        /\ \A r \in Session : r # s => buffered'[r] = buffered[r]
        /\ \A t, r \in Session : Chats(t, r) => Chats(t, r)'
    BY <1>1, <1>4, <2>1, Beginning
  <2>3. /\ pipe' \in [Session -> Seq(C!Event)]
        /\ \A r \in Session : pipe'[r] = IF r = s THEN Tail(pipe[s]) ELSE pipe[r]
        /\ \A r \in Session : Moved(pipe[r], pipe'[r], IF r = s THEN 1 ELSE 0, head)
        /\ where[s] # "gone"
    BY <1>1, <1>2, <1>5, <2>1, JustRead
  <2>4. ASSUME NEW r \in Session PROVE ~Sends(pipe[r], pipe'[r], IF r = s THEN 1 ELSE 0)
    <3>1. CASE r = s
      <4>1. Len(Tail(pipe[s])) = Len(pipe[s]) - 1
        BY <1>2
      <4> QED BY <1>2, <2>3, <3>1, <4>1 DEF Sends
    <3>2. CASE r # s
      <4>1. Len(pipe[r]) \in Nat
        BY <1>1 DEF ChatTypes
      <4> QED BY <2>3, <3>2, <4>1 DEF Sends
    <3> QED BY <3>1, <3>2
  <2>5. ChatTypes'
    <3>1. \A r \in Session : \A i \in DOMAIN buffered'[r] : buffered'[r][i].event = "chat"
      <4>1. DOMAIN buffered'[s] = {}
        BY <2>2
      <4>2. \A r \in Session : r # s => buffered'[r] = buffered[r]
        BY <2>2
      <4> QED BY <1>1, <4>1, <4>2 DEF ChatTypes
    <3>2. \A r \in Session : where'[r] = "gone" =>
            calls'[r] = << >> /\ pipe'[r] = << >> /\ buffered'[r] = << >>
      BY <1>1, <1>4, <2>2, <2>3 DEF ChatTypes
    <3> QED BY <1>1, <1>4, <2>2, <2>3, <3>1, <3>2 DEF ChatTypes
  <2>6. ASSUME NEW r \in Session PROVE PipeTrue(r)'
    BY <1>1, <2>2, <2>3, <2>4, PipeKeeps
  <2>7. ASSUME NEW r \in Session PROVE BufferTrue(r)'
    <3>1. CASE r = s
      BY <2>2, <3>1 DEF BufferTrue
    <3>2. CASE r # s
      BY <1>1, <1>9, <2>2, <2>3, <2>4, <3>2, BufferKeeps
    <3> QED BY <3>1, <3>2
  <2>8. ASSUME NEW r \in Session PROVE CallTrue(r)'
    <3>1. CASE r = s
      <4>1. 1 \in DOMAIN pipe[s] /\ Engages(pipe[s][1]) /\ pipe[s][1].from = f
        BY <1>2, <1>3, <1>4, <1>6 DEF Engages
      <4>2. Chats(f, s) \/ HasEnd(pipe[s])
        BY <1>1, <4>1 DEF PipeTrue, HasEnd
      <4>3. CASE Chats(f, s)
        <5>1. Chats(f, s)'
          BY <2>2, <4>3
        <5>2. f \in unheard' \/ (calls'[f] # << >> /\ calls'[f][1].other = s)
          BY <5>1 DEF Chats, InChat
        <5> QED BY <2>2, <3>1, <5>2 DEF CallTrue, Chats, InChat
      <4>4. CASE HasEnd(pipe[s])
        <5>1. Moved(pipe[s], pipe'[s], 1, head)
          BY <2>3
        <5>2. HasEnd(pipe'[s])
          BY <1>2, <1>3, <1>8, <4>4, <5>1, EndWaits
        <5> QED BY <3>1, <5>2 DEF CallTrue, HasEnd, IsEnd
      <4> QED BY <4>2, <4>3, <4>4
    <3>2. CASE r # s
      <4>1. ASSUME NEW u \in Session, Invited(u, r) PROVE Invited(u, r)' \/ Chats(u, r)'
        <5>1. CASE u = s /\ r = f
          <6>1. calls'[s] # << >> /\ calls'[s][1].other = f
            BY <2>2
          <6> QED BY <5>1, <6>1 DEF Chats, InChat
        <5>2. CASE ~(u = s /\ r = f)
          BY <1>10, <2>3, <4>1, <5>2
        <5> QED BY <5>1, <5>2
      <4>2. calls'[r] = calls[r] /\ buffered'[r] = buffered[r]
        BY <2>2, <3>2
      <4>3. HasEnd(buffered[r]) => HasEnd(buffered'[r])
        BY <4>2
      <4>4. \A u \in Session : where[u] = "gone" => where'[u] = "gone"
        BY <1>4
      <4> QED BY <1>1, <1>4, <1>9, <2>2, <2>3, <2>4, <4>1, <4>2, <4>3, <4>4, CallKeeps
    <3> QED BY <3>1, <3>2
  <2> QED BY <2>5, <2>6, <2>7, <2>8 DEF ChatTrue
<1> QED BY <1>11, <1>12

\* As chats end, whoever is at the other end is sent the end.
LEMMA HungUpTrue ==
  ASSUME ChatTrue, unheard' = unheard, NEW s \in Session, NEW chats,
         chats = calls[s],
         where' \in [Session -> {"menu", "online", "gone"}],
         \A r \in Session : r # s => where'[r] = where[r],
         where[s] # "gone",
         calls' = [calls EXCEPT ![s] = << >>],
         \A r \in Session : r # s \/ where'[s] # "gone" =>
           buffered'[r] = buffered[r] /\ pipe'[r] = C!HungUp(s, chats)[r],
         buffered' \in [Session -> Seq(C!Event)], pipe' \in [Session -> Seq(C!Event)],
         where'[s] = "gone" => pipe'[s] = << >> /\ buffered'[s] = << >>
  PROVE  ChatTrue'
<1>1. ChatTypes /\ \A r \in Session : PipeTrue(r) /\ BufferTrue(r) /\ CallTrue(r)
  BY DEF ChatTrue
<1>2. PICK e \in C!Event : e = C!Chat("HANGUP", s)
  BY ChatEventSent
<1>3. IsEnd(e) /\ ~Engages(e)
  BY <1>2, ChatEventSent DEF IsEnd, IsAnswer, Engages
<1>4. /\ calls' \in [Session -> {<< >>} \cup {<<c>> : c \in C!Call}]
      /\ calls'[s] = << >>
      /\ \A r \in Session : r # s => calls'[r] = calls[r]
  BY <1>1 DEF ChatTypes
<1>5. \A f, r \in Session : f # s => (Chats(f, r) => Chats(f, r)')
  BY <1>4 DEF Chats, InChat
<1>6. ASSUME NEW r \in Session, where[r] # "gone", r # s \/ where'[s] # "gone"
      PROVE  /\ Moved(pipe[r], pipe'[r], 0, e)
             /\ Chats(s, r) /\ s \notin unheard => Sends(pipe[r], pipe'[r], 0)
  <2>1. pipe[r] \in Seq(C!Event)
    BY <1>1 DEF ChatTypes
  <2>0. CASE s \in unheard
    <3>1. pipe'[r] = pipe[r]
      BY <1>6, <2>0 DEF C!HungUp
    <3> QED BY <2>0, <2>1, <3>1, MovedNot
  <2>2. s \notin unheard => pipe'[r] = pipe[r] \o C!HangUps(s, chats, r)
    BY <1>6 DEF C!HungUp, C!Online
  <2>3. CASE s \notin unheard /\ Chats(s, r)
    <3>1. PICK c \in C!Call : calls[s] = <<c>>
      BY <1>1, <2>3 DEF ChatTypes, Chats, InChat
    <3>2. c.other = r
      BY <2>3, <3>1 DEF Chats, InChat
    <3>3. C!HangUps(s, chats, r) = <<e>>
      <4>1. chats = <<c>>
        BY <3>1
      <4>2. C!HangUps(s, <<c>>, r) = <<C!Chat("HANGUP", s)>>
        BY <3>2, HangingUp
      <4> QED BY <1>2, <4>1, <4>2
    <3>4. pipe'[r] = Append(pipe[r], e)
      BY <2>1, <2>2, <2>3, <3>3
    <3> QED BY <2>1, <3>4, MovedOn
  <2>4. CASE s \notin unheard /\ ~Chats(s, r)
    <3>1. C!HangUps(s, chats, r) = << >>
      <4>1. CASE calls[s] = << >>
        <5>1. chats = << >>
          BY <4>1
        <5>2. C!HangUps(s, << >>, r) = << >>
          BY HangingUp
        <5> QED BY <5>1, <5>2
      <4>2. CASE calls[s] # << >>
        <5>1. PICK c \in C!Call : calls[s] = <<c>>
          BY <1>1, <4>2 DEF ChatTypes
        <5>2. c.other # r
          BY <2>4, <5>1 DEF Chats, InChat
        <5>3. chats = <<c>>
          BY <5>1
        <5>4. C!HangUps(s, <<c>>, r) = << >>
          <6>1. C!HangUps(s, <<c>>, r) =
                  IF c.other = r THEN <<C!Chat("HANGUP", s)>> ELSE << >>
            BY HangingUp
          <6> QED BY <5>2, <6>1
        <5> QED BY <5>3, <5>4
      <4> QED BY <4>1, <4>2
    <3>2. pipe'[r] = pipe[r]
      BY <2>1, <2>2, <2>4, <3>1
    <3> QED BY <2>1, <2>4, <3>2, MovedNot
  <2> QED BY <2>0, <2>3, <2>4
<1>7. ASSUME NEW r \in Session, where[r] = "gone"
      PROVE  calls'[r] = << >> /\ pipe'[r] = << >> /\ buffered'[r] = << >>
  <2>1. r # s /\ calls[r] = << >> /\ pipe[r] = << >> /\ buffered[r] = << >>
    BY <1>1, <1>7 DEF ChatTypes
  <2>2. pipe'[r] = pipe[r]
    BY <1>7, <2>1 DEF C!HungUp, C!Online
  <2> QED BY <1>4, <2>1, <2>2
<1>8. ChatTypes'
  <2>1. \A r \in Session : \A i \in DOMAIN buffered'[r] : buffered'[r][i].event = "chat"
    <3> SUFFICES ASSUME NEW r \in Session
                 PROVE  \A i \in DOMAIN buffered'[r] : buffered'[r][i].event = "chat"
      OBVIOUS
    <3>1. CASE r # s \/ where'[s] # "gone"
      <4>1. buffered'[r] = buffered[r]
        BY <3>1
      <4> QED BY <1>1, <4>1 DEF ChatTypes
    <3>2. CASE r = s /\ where'[s] = "gone"
      <4>1. DOMAIN buffered'[s] = {}
        BY <3>2
      <4> QED BY <3>2, <4>1
    <3> QED BY <3>1, <3>2
  <2>2. \A r \in Session : where'[r] = "gone" =>
          calls'[r] = << >> /\ pipe'[r] = << >> /\ buffered'[r] = << >>
    BY <1>4, <1>7
  <2> QED BY <1>4, <2>1, <2>2 DEF ChatTypes
<1>9. ASSUME NEW r \in Session
      PROVE  PipeTrue(r)' /\ BufferTrue(r)' /\ CallTrue(r)'
  <2>1. CASE where'[r] = "gone"
    <3>1. calls'[r] = << >> /\ pipe'[r] = << >> /\ buffered'[r] = << >>
      BY <2>1, <1>4, <1>7
    <3>2. DOMAIN pipe'[r] = {} /\ DOMAIN buffered'[r] = {}
      BY <3>1
    <3> QED BY <3>1, <3>2 DEF PipeTrue, BufferTrue, CallTrue
  <2>2. CASE where'[r] # "gone"
    <3>1. where[r] # "gone" /\ (r # s \/ where'[s] # "gone") /\ buffered'[r] = buffered[r]
      BY <2>2
    <3>2. /\ Moved(pipe[r], pipe'[r], 0, e)
          /\ Chats(s, r) /\ s \notin unheard => Sends(pipe[r], pipe'[r], 0)
      BY <1>6, <3>1
    <3>3. \A f \in Session : Chats(f, r) =>
            Chats(f, r)' \/ (Sends(pipe[r], pipe'[r], 0) /\ IsEnd(e))
      BY <1>3, <1>5, <3>2 DEF Chats
    <3>4. PipeTrue(r)' /\ BufferTrue(r)'
      BY <1>1, <1>3, <3>1, <3>2, <3>3, PipeKeeps, BufferKeeps
    <3>5. CallTrue(r)'
      <4>1. CASE r = s
        BY <1>4, <4>1 DEF CallTrue
      <4>2. CASE r # s
        <5>1. ASSUME NEW u \in Session, Invited(u, r)
              PROVE  Invited(u, r)' \/ where'[u] = "gone"
          <6>1. CASE where'[u] = "gone"
            BY <6>1
          <6>2. CASE where'[u] # "gone"
            <7>1. where[u] # "gone" /\ (u # s \/ where'[s] # "gone")
              BY <6>2
            <7>2. pipe[u] \in Seq(C!Event) /\ Moved(pipe[u], pipe'[u], 0, e)
              BY <1>1, <1>6, <7>1 DEF ChatTypes
            <7> QED BY <5>1, <7>2, InvitedWaits
          <6> QED BY <6>1, <6>2
        <5>2. calls'[r] = calls[r]
          BY <1>4, <4>2
        <5>3. HasEnd(buffered[r]) => HasEnd(buffered'[r])
          BY <3>1
        <5>4. \A u \in Session : where[u] = "gone" => where'[u] = "gone"
          OBVIOUS
        <5> QED BY <1>1, <3>2, <3>3, <5>1, <5>2, <5>3, <5>4, CallKeeps
      <4> QED BY <4>1, <4>2
    <3> QED BY <3>4, <3>5
  <2> QED BY <2>1, <2>2
<1> QED BY <1>8, <1>9 DEF ChatTrue

LEMMA HungUpTypes ==
  ASSUME ChatTypes, NEW s \in Session, NEW chats, chats = calls[s]
  PROVE  C!HungUp(s, chats) \in [Session -> Seq(C!Event)]
<1>1. ASSUME NEW r \in Session
      PROVE  (IF C!Online(r) THEN pipe[r] \o C!HangUps(s, chats, r) ELSE pipe[r])
               \in Seq(C!Event)
  <2>1. pipe[r] \in Seq(C!Event)
    BY DEF ChatTypes
  <2>2. C!HangUps(s, chats, r) \in Seq(C!Event)
    <3>1. PICK e \in C!Event : e = C!Chat("HANGUP", s)
      BY ChatEventSent
    <3>2. C!HangUps(s, chats, r) \in {<< >>, <<e>>}
      <4>1. CASE chats = << >>
        <5>1. C!HangUps(s, << >>, r) = << >>
          BY HangingUp
        <5> QED BY <4>1, <5>1
      <4>2. CASE chats # << >>
        <5>1. PICK c \in C!Call : calls[s] = <<c>>
          BY <4>2 DEF ChatTypes
        <5>2. chats = <<c>>
          BY <5>1
        <5>3. C!HangUps(s, <<c>>, r) \in {<< >>, <<C!Chat("HANGUP", s)>>}
          BY HangingUp
        <5> QED BY <3>1, <5>2, <5>3
      <4> QED BY <4>1, <4>2
    <3>3. << >> \in Seq(C!Event) /\ <<e>> \in Seq(C!Event)
      OBVIOUS
    <3> QED BY <3>2, <3>3
  <2> QED BY <2>1, <2>2
<1> QED BY <1>1 DEF C!HungUp

LEMMA LeaveTrue ==
  ASSUME ChatTrue, NEW s \in Session, C!Leave(s) PROVE ChatTrue'
<1>1. ChatTypes
  BY DEF ChatTrue
<1>2. calls[s] # << >> /\ UNCHANGED <<where, buffered, unheard>>
  BY DEF C!Leave
<1>3. PICK c \in C!Call : calls[s] = <<c>> /\ where[s] # "gone"
  BY <1>1, <1>2, CallOf
<1>4. C!Last(calls[s]) = c /\ C!Front(calls[s]) = << >>
  BY <1>3 DEF C!Last, C!Front
<1>5. PICK chats : chats = calls[s]
  OBVIOUS
<1>6. pipe' = C!HungUp(s, chats) /\ calls' = [calls EXCEPT ![s] = << >>]
  BY <1>3, <1>4, <1>5 DEF C!Leave
<1>7. pipe' \in [Session -> Seq(C!Event)]
  BY <1>1, <1>5, <1>6, HungUpTypes
<1>8. /\ where' \in [Session -> {"menu", "online", "gone"}]
      /\ \A r \in Session : where'[r] = where[r]
      /\ buffered' \in [Session -> Seq(C!Event)]
      /\ where'[s] # "gone"
      /\ \A r \in Session : buffered'[r] = buffered[r] /\ pipe'[r] = C!HungUp(s, chats)[r]
  BY <1>1, <1>2, <1>3, <1>6 DEF ChatTypes
<1> QED BY <1>2, <1>3, <1>5, <1>6, <1>7, <1>8, HungUpTrue

LEMMA DisconnectTrue ==
  ASSUME ChatTrue, NEW s \in Session, C!Disconnect(s) PROVE ChatTrue'
<1>1. ChatTypes
  BY DEF ChatTrue
<1>2. where[s] # "gone" /\ unheard' = unheard
  BY DEF C!Disconnect, C!Online
<1>3. PICK chats : chats = calls[s]
  OBVIOUS
<1>4. /\ where' = [where EXCEPT ![s] = "gone"]
      /\ pipe' = [C!HungUp(s, chats) EXCEPT ![s] = << >>]
      /\ calls' = [calls EXCEPT ![s] = << >>]
      /\ buffered' = [buffered EXCEPT ![s] = << >>]
  BY <1>3 DEF C!Disconnect
<1>5. C!HungUp(s, chats) \in [Session -> Seq(C!Event)]
  BY <1>1, <1>3, HungUpTypes
<1>6. /\ where' \in [Session -> {"menu", "online", "gone"}]
      /\ \A r \in Session : r # s => where'[r] = where[r]
      /\ where'[s] = "gone"
      /\ buffered' \in [Session -> Seq(C!Event)] /\ buffered'[s] = << >>
      /\ \A r \in Session : r # s => buffered'[r] = buffered[r]
  BY <1>1, <1>4 DEF ChatTypes
<1>7. /\ pipe' \in [Session -> Seq(C!Event)] /\ pipe'[s] = << >>
      /\ \A r \in Session : r # s => pipe'[r] = C!HungUp(s, chats)[r]
  BY <1>4, <1>5
<1> QED BY <1>2, <1>3, <1>4, <1>6, <1>7, HungUpTrue

LEMMA UnheardTrue ==
  ASSUME ChatTrue, NEW s \in Session, C!Unheard(s) PROVE ChatTrue'
<1>1. UNCHANGED <<where, calls, pipe, buffered>> /\ unheard \subseteq unheard'
  BY DEF C!Unheard
<1>2. where \in [Session -> {"menu", "online", "gone"}]
  BY DEF ChatTrue, ChatTypes
<1> QED BY <1>1, <1>2, NothingHeard

LEMMA ChatStarts == C!Init => ChatInv
<1> SUFFICES ASSUME C!Init PROVE ChatTrue
  BY DEF ChatInv
<1>1. /\ where = [s \in Session |-> "menu"]
      /\ calls = [s \in Session |-> << >>]
      /\ pipe = [s \in Session |-> << >>]
      /\ buffered = [s \in Session |-> << >>]
  BY DEF C!Init
<1>2. \A s \in Session : calls[s] = << >> /\ DOMAIN pipe[s] = {} /\ DOMAIN buffered[s] = {}
  BY <1>1
<1>3. ChatTypes
  BY <1>1, <1>2 DEF ChatTypes
<1> QED BY <1>2, <1>3 DEF ChatTrue, PipeTrue, BufferTrue, CallTrue

LEMMA ChatStep == ChatInv /\ [C!Next]_(C!vars) => ChatInv'
<1> SUFFICES ASSUME ChatInv, [C!Next]_(C!vars), ~mixed' PROVE ChatTrue'
  BY DEF ChatInv
<1>1. CASE UNCHANGED C!vars
  <2>1. UNCHANGED <<where, calls, pipe, buffered, unheard, mixed>>
    BY <1>1 DEF C!vars
  <2>2. mixed' <=> mixed
    BY <2>1
  <2>3. ChatTrue
    BY <2>2 DEF ChatInv
  <2>4. where \in [Session -> {"menu", "online", "gone"}]
    BY <2>3 DEF ChatTrue, ChatTypes
  <2> QED BY <2>1, <2>3, <2>4, NothingHeard
<1>2. ASSUME NEW s \in Session,
             \/ C!EnterOnline(s) \/ C!Ask(s) \/ C!Prune(s) \/ C!LeaveOnline(s)
             \/ C!ReceiveRequest(s) \/ C!ReceiveAnswer(s) \/ C!ReceiveChat(s)
             \/ C!Acknowledged(s) \/ C!Updated(s) \/ C!Answer(s) \/ C!Hesitate(s)
             \/ C!Type(s) \/ C!Leave(s) \/ C!Unheard(s) \/ C!Disconnect(s)
      PROVE  ChatTrue'
  <2>1. mixed' = mixed
    BY <1>2 DEF C!EnterOnline, C!Ask, C!Prune, C!LeaveOnline, C!ReceiveRequest,
      C!ReceiveAnswer, C!ReceiveChat, C!Acknowledged, C!Updated, C!Answer, C!Hesitate,
      C!Type, C!Leave, C!Unheard, C!Disconnect
  <2>2. mixed' <=> mixed
    BY <2>1
  <2>3. ChatTrue
    BY <2>2 DEF ChatInv
  <2> QED BY <1>2, <2>3, OnlineTrue, AskTrue, ReceiveRequestTrue, ReceiveAnswerTrue,
        ReceiveChatTrue, AcknowledgedTrue, AnswerTrue, HesitateTrue, TypeTrue, LeaveTrue,
        UnheardTrue, DisconnectTrue
<1>3. ASSUME NEW s \in Session, C!ChatEvent(s) PROVE ChatTrue'
  <2>1. mixed' <=> (mixed \/ Head(buffered[s]).from # C!Other(s))
    BY <1>3 DEF C!ChatEvent
  <2>2. ChatTrue
    BY <2>1 DEF ChatInv
  <2> QED BY <1>3, <2>2, ChatEventTrue
<1>4. ASSUME NEW s \in Session, C!Dial(s) PROVE ChatTrue'
  <2>1. mixed' <=> (mixed \/ calls[s] # << >>)
    BY <1>4 DEF C!Dial, C!Began
  <2>2. ChatTrue
    BY <2>1 DEF ChatInv
  <2> QED BY <1>4, <2>2, DialTrue
<1>5. ASSUME NEW s \in Session, C!ReceiveCall(s) PROVE ChatTrue'
  <2>1. CASE s \in Rejecting
    <3>1. mixed' = mixed
      BY <1>5, <2>1 DEF C!ReceiveCall
    <3>2. mixed' <=> mixed
      BY <3>1
    <3>3. ChatTrue
      BY <3>2 DEF ChatInv
    <3> QED BY <1>5, <3>3, ReceiveCallTrue
  <2>2. CASE s \notin Rejecting
    <3>1. mixed' <=> (mixed \/ calls[s] # << >>)
      BY <1>5, <2>2 DEF C!ReceiveCall, C!Began
    <3>2. ChatTrue
      BY <3>1 DEF ChatInv
    <3> QED BY <1>5, <3>2, ReceiveCallTrue
  <2> QED BY <2>1, <2>2
<1>6. CASE C!Finished
  <2>1. UNCHANGED C!vars
    BY <1>6 DEF C!Finished
  <2> QED BY <1>1, <2>1
<1> QED BY <1>1, <1>2, <1>3, <1>4, <1>5, <1>6 DEF C!Next

LEMMA ChatTrueEnds == ChatInv => C!CallsHaveTwoEnds
<1> SUFFICES ASSUME ChatTrue, NEW s \in Session, NEW i \in DOMAIN calls[s]
             PROVE  LET t == calls[s][i].other IN
                      \/ calls[s][i].stage = "ended"
                      \/ \E j \in DOMAIN calls[t] : calls[t][j].other = s
                      \/ C!Plain("gosub", s) \in C!ToSet(pipe[t])
                      \/ C!Ends(pipe[s]) # {} \/ C!Ends(buffered[s]) # {}
                      \/ calls[s][i].stage = "dialing" /\ ~C!Online(t)
                      \/ t \in unheard \/ s \in unheard
  BY DEF ChatInv, C!CallsHaveTwoEnds
<1>1. ChatTypes /\ CallTrue(s)
  BY DEF ChatTrue
<1>2. PICK c \in C!Call : calls[s] = <<c>>
  BY <1>1 DEF ChatTypes
<1>3. i = 1 /\ calls[s][i] = c /\ calls[s] # << >> /\ calls[s][1] = c /\ c.other \in Session
  BY <1>2 DEF C!Call
<1>4. \/ c.stage = "ended"
      \/ Chats(c.other, s)
      \/ HasEnd(pipe[s]) \/ HasEnd(buffered[s])
      \/ c.stage = "dialing" /\ (where[c.other] = "gone" \/ Invited(c.other, s))
      \/ s \in unheard
  BY <1>1, <1>3 DEF CallTrue
<1>8. CASE c.other \in unheard \/ s \in unheard
  BY <1>3, <1>8
<1>5. CASE InChat(c.other, s)
  <2>1. 1 \in DOMAIN calls[c.other] /\ calls[c.other][1].other = s
    <3>1. calls[c.other] # << >> /\ calls[c.other][1].other = s
      BY <1>5 DEF InChat
    <3>2. PICK x \in C!Call : calls[c.other] = <<x>>
      BY <1>1, <1>3, <3>1 DEF ChatTypes
    <3> QED BY <3>1, <3>2
  <2> QED BY <1>3, <2>1
<1>6. CASE HasEnd(pipe[s]) \/ HasEnd(buffered[s])
  BY <1>6 DEF HasEnd, IsEnd, C!Ends
<1>7. CASE Invited(c.other, s)
  <2>1. C!Plain("gosub", s) \in C!ToSet(pipe[c.other])
    BY <1>7 DEF Invited, C!ToSet
  <2> QED BY <1>3, <2>1
<1> QED BY <1>3, <1>4, <1>5, <1>6, <1>7, <1>8 DEF C!Online, Chats

\* However calls, answers, ends and disconnections meet, whoever is in a chat is there with
\* somebody, or is about to be told, unless the engine kills one of the two; any number of
\* sessions, rejecting or not, any bounds.
\* Events that wait tell of chats that are on: who sent the invitation or the answer is in
\* the chat, or has sent its end after it, which is read after it (chat.py, online.py).
THEOREM ChatsHaveTwoEnds == C!Spec => []C!CallsHaveTwoEnds
<1> QED BY ChatStarts, ChatStep, ChatTrueEnds, PTL DEF C!Spec
=============================================================================
