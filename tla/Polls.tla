------------------------------- MODULE Polls -------------------------------
(***************************************************************************)
(* The voting booth (default/vote.py).  Whoever votes, adds a question or  *)
(* deletes one reads whole tables of the database, waits for input, and    *)
(* writes whole tables back: no lock is held.  A user's record says, for   *)
(* each question by its index, the number of the answer the user gave.     *)
(***************************************************************************)
EXTENDS Integers, Sequences, SequencesExt, FiniteSets, Functions

CONSTANTS
  User,          \* one session each
  Sysop,         \* those in the group 'sysop'
  MaxQuestions,  \* questions at a time (a bound)
  MaxAnswers,    \* answers of a question (a bound)
  MaxOps         \* operations (a bound)

PollsAssumption ==
  /\ IsFiniteSet(User) /\ Sysop \subseteq User
  /\ MaxQuestions \in Nat \ {0} /\ MaxAnswers \in Nat \ {0} /\ MaxOps \in Nat

VARIABLES
  table,    \* the tables: index, indexcounter, amount (of alternatives) and results
  votes,    \* the record of each user
  at,       \* what the user's session is doing
  copy,     \* the tables in its memory
  choice,   \* the question, from 1, and the answer it is about
  ops,      \* operations so far
  shuffled, \* the questions, by index, an answer of which was deleted
  spoiled   \* a session read the tables while another had, or was cut short

vars == <<table, votes, at, copy, choice, ops, shuffled, spoiled>>

\* Answers are numbered from 0, up to amount: the number after the last adds one.
Answer   == 0 .. MaxAnswers - 1
Index    == 0 .. MaxOps
Question == 1 .. MaxQuestions
NoChoice == <<0, 0>>
NoTable  == [index |-> << >>, indexcounter |-> 0, amount |-> << >>, results |-> << >>]

IsTable(t) ==
  /\ t.index \in Seq(Index) /\ t.indexcounter \in Index
  /\ t.amount \in Seq(0 .. MaxAnswers) /\ Len(t.amount) <= MaxQuestions
  /\ DOMAIN t.results \subseteq Question \X Answer
  /\ \A qa \in DOMAIN t.results : t.results[qa] \in Int

TypeOK ==
  /\ IsTable(table) /\ \A u \in User : IsTable(copy[u])
  /\ \A u \in User : DOMAIN votes[u] \subseteq Index /\ Range(votes[u]) \subseteq Answer
  /\ at \in [User -> {"menu", "choosing", "adding", "deleting", "noted", "counted"}]
  /\ choice \in [User -> (Question \X Answer) \cup {NoChoice}]
  /\ ops \in 0 .. MaxOps
  /\ shuffled \subseteq Index
  /\ spoiled \in BOOLEAN

\* generate_database: one question
Init ==
  /\ \E n \in 1 .. MaxAnswers :
       table = [index |-> <<0>>, indexcounter |-> 0, amount |-> <<n>>,
                results |-> [qa \in {1} \X (0 .. n - 1) |-> 0]]
  /\ votes = [u \in User |-> << >>]
  /\ at = [u \in User |-> "menu"]
  /\ copy = [u \in User |-> NoTable]
  /\ choice = [u \in User |-> NoChoice]
  /\ ops = 0
  /\ shuffled = {}
  /\ spoiled = FALSE

-----------------------------------------------------------------------------
\* A function with an entry replaced or added.
With(f, k, v) == [x \in DOMAIN f \cup {k} |-> IF x = k THEN v ELSE f[x]]

Begin(u, what) ==
  /\ at[u] = "menu" /\ ops < MaxOps
  /\ ops' = ops + 1
  /\ at' = [at EXCEPT ![u] = what]
  /\ copy' = [copy EXCEPT ![u] = table]
  /\ spoiled' = (spoiled \/ \E v \in User : at[v] # "menu")

End(u) ==
  /\ at' = [at EXCEPT ![u] = "menu"]
  /\ copy' = [copy EXCEPT ![u] = NoTable]
  /\ choice' = [choice EXCEPT ![u] = NoChoice]

BeginVote(u) ==
  /\ Begin(u, "choosing")
  /\ \E q \in DOMAIN table.index : choice' = [choice EXCEPT ![u] = <<q, 0>>]
  /\ UNCHANGED <<table, votes, shuffled>>

\* mutant of Noted: the earlier vote of the user is not taken back
NotedAgain(c, record, q, a) == With(c.results, <<q, a>>, c.results[<<q, a>>] + 1)

\* The results with the vote, and without an earlier one of the user.
Noted(c, record, q, a) ==
  LET i == c.index[q]
      without == IF i \in DOMAIN record
                 THEN [c.results EXCEPT ![<<q, record[i]>>] = @ - 1] ELSE c.results IN
    [without EXCEPT ![<<q, a>>] = @ + 1]

\* The counts of the answers of a question are there: else a KeyError or IndexError
\* ends the script.
Counted(c, q) ==
  q \in DOMAIN c.amount /\ {q} \X (0 .. c.amount[q] - 1) \subseteq DOMAIN c.results

EarlierCounted(c, record, q) ==
  c.index[q] \in DOMAIN record => <<q, record[c.index[q]]>> \in DOMAIN c.results

\* "Your choice"; where it is a new answer, the tables of the answers are written.
Choose(u) ==
  /\ at[u] = "choosing" /\ Counted(copy[u], choice[u][1])
  /\ LET q == choice[u][1]
         n == copy[u].amount[q] IN
     \E a \in Answer :
       /\ a <= n
       /\ LET c == IF a < n THEN copy[u]
                   ELSE [copy[u] EXCEPT !.amount[q] = n + 1, !.results = With(@, <<q, a>>, 0)] IN
            /\ table' = IF a < n THEN table ELSE [table EXCEPT !.amount = c.amount]
            /\ IF EarlierCounted(c, votes[u], q)
               THEN /\ copy' = [copy EXCEPT ![u] = [c EXCEPT !.results = Noted(c, votes[u], q, a)]]
                    /\ choice' = [choice EXCEPT ![u] = <<q, a>>]
                    /\ at' = [at EXCEPT ![u] = "noted"]
               ELSE End(u)
  /\ UNCHANGED <<votes, ops, shuffled, spoiled>>

\* After two seconds the results are written,
WriteResults(u) ==
  /\ at[u] = "noted"
  /\ table' = [table EXCEPT !.results = copy[u].results]
  /\ at' = [at EXCEPT ![u] = "counted"]
  /\ UNCHANGED <<votes, copy, choice, ops, shuffled, spoiled>>

\* then the record of the user.
WriteVote(u) ==
  /\ at[u] = "counted"
  /\ LET i == copy[u].index[choice[u][1]] IN
       votes' = [votes EXCEPT ![u] = With(@, i, choice[u][2])]
  /\ End(u)
  /\ UNCHANGED <<table, ops, shuffled, spoiled>>

BeginAdd(u) ==
  /\ Begin(u, "adding")
  /\ UNCHANGED <<table, votes, choice, shuffled>>

\* add_question: the counter is read again; the other tables are those in memory.
Add(u) ==
  /\ at[u] = "adding"
  /\ LET c == copy[u]
         q == Len(c.index) + 1
         i == table.indexcounter + 1 IN
       /\ q <= MaxQuestions /\ Len(c.amount) < MaxQuestions
       /\ \E n \in 1 .. MaxAnswers :
            table' = [index |-> Append(c.index, i), indexcounter |-> i,
                      amount |-> Append(c.amount, n),
                      results |-> [qa \in DOMAIN c.results \cup {q} \X (0 .. n - 1) |->
                                     IF qa[1] = q /\ qa[2] < n THEN 0 ELSE c.results[qa]]]
  /\ End(u)
  /\ UNCHANGED <<votes, ops, shuffled, spoiled>>

BeginDelete(u) ==
  /\ u \in Sysop
  /\ Begin(u, "deleting")
  /\ \E q \in DOMAIN table.index : choice' = [choice EXCEPT ![u] = <<q, 0>>]
  /\ UNCHANGED <<table, votes, shuffled>>

\* The entry that moves to each place of a table of results, when the questions
\* after q, or the answers of q after a, move up by one; the last stays as well.
MovedUp(results, From(_)) ==
  [qa \in DOMAIN results \cup {qa \in Question \X Answer :
                                 From(qa) # qa /\ From(qa) \in DOMAIN results} |->
     results[IF From(qa) \in DOMAIN results THEN From(qa) ELSE qa]]

\* Counts of questions without an amount, or an amount of none, end the script.
DeleteQuestion(u) ==
  /\ at[u] = "deleting"
  /\ LET c == copy[u]
         q == choice[u][1]
         last == Len(c.index)
         From(qa) == IF qa[1] \in q .. last - 1 /\ qa[2] < c.amount[qa[1] + 1]
                     THEN <<qa[1] + 1, qa[2]>> ELSE qa IN
       /\ c.amount # << >> /\ \A k \in q + 1 .. last : Counted(c, k)
       /\ table' = [table EXCEPT
            !.index = RemoveAt(c.index, q),
            !.amount = [k \in 1 .. Len(c.amount) - 1 |->
                          c.amount[IF k \in q .. last - 1 THEN k + 1 ELSE k]],
            !.results = MovedUp(c.results, From)]
  /\ End(u)
  /\ UNCHANGED <<votes, ops, shuffled, spoiled>>

\* The results without answer a of question q: the counts of the later answers move up.
WithoutAnswer(c, q, a) ==
  LET From(qa) == IF qa[1] = q /\ qa[2] >= a /\ qa[2] + 1 < c.amount[q]
                  THEN <<q, qa[2] + 1>> ELSE qa IN
  MovedUp(c.results, From)

\* The counts move, the votes do not: who gave one is recorded with its old number,
\* and who gave the answer that is deleted with that of the next.
DeleteAnswer(u) ==
  /\ at[u] = "deleting"
  /\ LET c == copy[u]
         q == choice[u][1] IN
     /\ Counted(c, q)
     /\ \E a \in 0 .. c.amount[q] - 1 :
          table' = [table EXCEPT !.index = c.index, !.amount = [c.amount EXCEPT ![q] = @ - 1],
                                 !.results = WithoutAnswer(c, q, a)]
  /\ shuffled' = shuffled \cup {copy[u].index[choice[u][1]]}
  /\ End(u)
  /\ UNCHANGED <<votes, ops, spoiled>>

\* Nothing is answered, the user is disconnected, or the script raises an exception.
Abort(u) ==
  /\ at[u] # "menu"
  /\ spoiled' = (spoiled \/ at[u] \in {"noted", "counted"})
  /\ End(u)
  /\ UNCHANGED <<table, votes, ops, shuffled>>

Finished ==
  /\ ops = MaxOps /\ \A u \in User : at[u] = "menu"
  /\ UNCHANGED vars

Next ==
  \/ \E u \in User :
       \/ BeginVote(u) \/ Choose(u) \/ WriteResults(u) \/ WriteVote(u)
       \/ BeginAdd(u) \/ Add(u)
       \/ BeginDelete(u) \/ DeleteQuestion(u) \/ DeleteAnswer(u)
       \/ Abort(u)
  \/ Finished

Spec == Init /\ [][Next]_vars

-----------------------------------------------------------------------------
\* While users take turns and finish what they begin, the results of each question are the
\* tally of the records of the users, whatever was voted again, added and deleted
\* before, but for the questions an answer of which was ever deleted: their tally is
\* wrong from then on, those of all others stay right.
TallyIsVotes ==
  ~spoiled /\ (\A u \in User : at[u] = "menu") =>
    \A q \in DOMAIN table.index : table.index[q] \notin shuffled =>
      \A a \in 0 .. table.amount[q] - 1 :
        table.results[<<q, a>>] =
          Cardinality({u \in User : /\ table.index[q] \in DOMAIN votes[u]
                                    /\ votes[u][table.index[q]] = a})
=============================================================================
