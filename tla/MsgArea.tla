------------------------------ MODULE MsgArea ------------------------------
(***************************************************************************)
(* Users who read, write, answer, retag and delete messages at the same    *)
(* time (default/msgarea.py).                                              *)
(*                                                                         *)
(* The lists of the menu are computed when it is drawn and used until it   *)
(* is drawn again: a session walks over numbers whose messages may have    *)
(* been deleted, retagged or replaced meanwhile.  The lists are redrawn by *)
(* the session's own acts only: the event 'newmsg' that the menu waits for *)
(* is sent as the data of a 'global' event, under which it is never read.  *)
(*                                                                         *)
(* A message is known by its number, and the number of the last message    *)
(* is given again once that is deleted; which message has a number is      *)
(* told here by the order in which they were written.                      *)
(*                                                                         *)
(* Msg.save() is one step here (module MsgBase has its steps); tags are    *)
(* not moderated; each user has one session.                               *)
(***************************************************************************)
EXTENDS Integers, Sequences, SequencesExt, FiniteSetsExt, Functions

CONSTANTS
  Session,
  Sysop,     \* those in the group 'sysop'
  Tag,       \* with 'public'
  Posts,     \* sets of tags that users give messages (a bound)
  MaxPosts,  \* messages that are written (a bound)
  MaxReads   \* entries into the area (a bound)

MsgAreaAssumption ==
  /\ Sysop \subseteq Session
  /\ "public" \in Tag /\ Posts \subseteq SUBSET Tag
  /\ MaxPosts \in Nat /\ MaxReads \in Nat

VARIABLES
  msgs,          \* 'msgbase', by number
  priv,          \* 'privmsg': the numbers of each recipient
  posts,         \* messages written so far
  readmsgs,      \* user['readmsgs']
  subscription,  \* the tags matched by user['msg_subscription']
  where,         \* what the session is doing
  hidden,        \* get_messages_by_subscription: all_private
  lists,         \* the lists of the menu, as it was drawn last
  reading,       \* read_messages: message_indices
  at,            \* read_messages: index, from 1
  draft,         \* the Msg in the session's memory
  entries,       \* entries so far
  known,         \* what each session was offered as new, shown, or sent: <<number, message>>
  deleted        \* the numbers whose message was ever deleted

vars == <<msgs, priv, posts, readmsgs, subscription, where, hidden, lists, reading, at,
          draft, entries, known, deleted>>
kept == <<subscription, entries>>
past == <<known, deleted>>

Num    == 0 .. MaxPosts - 1
None   == -1
Public(msg) == "public" \in msg.tags

Msg == [author : Session, to : Session, tags : SUBSET Tag, parent : Num \cup {None},
        which : 0 .. MaxPosts - 1]
NoDraft == [num |-> None, msg |-> << >>]
NoLists == [all |-> {}, new |-> {}, private |-> {}]

TypeOK ==
  /\ DOMAIN msgs \subseteq Num /\ \A n \in DOMAIN msgs : msgs[n] \in Msg
  /\ priv \in [Session -> SUBSET Num]
  /\ posts \in 0 .. MaxPosts
  /\ readmsgs \in [Session -> SUBSET Num]
  /\ subscription \in [Session -> SUBSET Tag]
  /\ where \in [Session -> {"away", "draw", "listing", "menu", "display", "pager", "prompt",
                            "writing", "tagging"}]
  /\ hidden \in [Session -> SUBSET Num]
  /\ lists \in [Session -> [all : SUBSET Num, new : SUBSET Num, private : SUBSET Num]]
  /\ \A s \in Session : IsInjective(reading[s]) /\ ToSet(reading[s]) \subseteq Num
  /\ \A s \in Session :
       where[s] \in {"display", "pager", "prompt", "tagging"} => at[s] \in DOMAIN reading[s]
  /\ \A s \in Session : (draft[s] # NoDraft) <=> where[s] \in {"writing", "tagging"}
  /\ entries \in 0 .. MaxReads
  /\ known \in [Session -> SUBSET (Num \X (0 .. MaxPosts - 1))]
  /\ deleted \subseteq Num

Init ==
  /\ msgs = << >>
  /\ priv = [s \in Session |-> {}]
  /\ posts = 0
  /\ readmsgs = [s \in Session |-> {}]
  /\ subscription = [s \in Session |-> Tag]
  /\ where = [s \in Session |-> "away"]
  /\ hidden = [s \in Session |-> {}]
  /\ lists = [s \in Session |-> NoLists]
  /\ reading = [s \in Session |-> << >>]
  /\ at = [s \in Session |-> 1]
  /\ draft = [s \in Session |-> NoDraft]
  /\ entries = 0
  /\ known = [s \in Session |-> {}]
  /\ deleted = {}

-----------------------------------------------------------------------------
(* Helpers.                                                                *)

Goes(s, place) == where' = [where EXCEPT ![s] = place]

\* The message at the prompt; whether get_msg(idx) finds it.
Current(s) == reading[s][at[s]]
Found(s)   == Current(s) \in DOMAIN msgs

MarkRead(s, n, which) ==
  /\ readmsgs' = [readmsgs EXCEPT ![s] = @ \cup {n}]
  /\ known' = [known EXCEPT ![s] = @ \cup {<<n, which>>}]

\* Msg.save of a message under a number.
Save(n, msg) ==
  /\ msgs' = [k \in DOMAIN msgs \cup {n} |-> IF k = n THEN msg ELSE msgs[k]]
  /\ priv' = IF Public(msg) THEN priv ELSE [priv EXCEPT ![msg.to] = @ \cup {n}]

NextNum == IF msgs = << >> THEN 0 ELSE Max(DOMAIN msgs) + 1

\* read_messages() returns, and the menu is about to be drawn; or the script ends, as
\* it does when it raises an exception.  The lists go out of use.
Ends(s, place) ==
  /\ Goes(s, place)
  /\ lists' = [lists EXCEPT ![s] = NoLists]
  /\ reading' = [reading EXCEPT ![s] = << >>]
  /\ at' = [at EXCEPT ![s] = 1]

KeyError(s) == Ends(s, "away")
local == <<lists, reading, at>>

AllowTag(s) ==
  \/ s \in Sysop
  \/ Found(s) /\ s \in {msgs[Current(s)].author, msgs[Current(s)].to}

-----------------------------------------------------------------------------
(* The menu.                                                               *)

Enter(s) ==
  /\ where[s] = "away" /\ entries < MaxReads
  /\ entries' = entries + 1
  /\ Goes(s, "draw")
  /\ UNCHANGED <<msgs, priv, posts, readmsgs, subscription, hidden, lists, reading, at, draft,
                 past>>

\* get_messages_by_subscription: first what is private to anyone,
ReadPrivate(s) ==
  /\ where[s] = "draw"
  /\ hidden' = [hidden EXCEPT ![s] = UNION Range(priv)]
  /\ Goes(s, "listing")
  /\ UNCHANGED <<kept, msgs, priv, posts, readmsgs, lists, reading, at, draft, past>>

Subscribed(s) == {n \in DOMAIN msgs : msgs[n].tags \cap subscription[s] # {}}

\* then the messages of the tags, without those; own ones; and the new of both.
DrawMenu(s) ==
  /\ where[s] = "listing"
  /\ LET all == Subscribed(s) \ hidden[s]
         new == (all \cup priv[s]) \ readmsgs[s] IN
       /\ lists' = [lists EXCEPT ![s] = [all |-> all, private |-> priv[s], new |-> new]]
       /\ known' = [known EXCEPT ![s] = @ \cup {<<n, msgs[n].which>> : n \in new}]
  /\ hidden' = [hidden EXCEPT ![s] = {}]
  /\ Goes(s, "menu")
  /\ UNCHANGED <<kept, msgs, priv, posts, readmsgs, reading, at, draft, deleted>>

\* 'n', 'a', 'v'
ReadMessages(s) ==
  /\ where[s] = "menu"
  /\ \E list \in Range(lists[s]) \ {{}} :
       reading' = [reading EXCEPT ![s] = SetToSortSeq(list, <)]
  /\ at' = [at EXCEPT ![s] = 1]
  /\ Goes(s, "display")
  /\ UNCHANGED <<kept, msgs, priv, posts, readmsgs, hidden, lists, draft, past>>

\* mutant of MarkAll: what is marked is computed anew
MarkAllNow(s) ==
  /\ where[s] = "menu" /\ lists[s].new # {}
  /\ readmsgs' = [readmsgs EXCEPT ![s] = @ \cup Subscribed(s) \cup priv[s]]
  /\ Ends(s, "draw")
  /\ UNCHANGED <<kept, msgs, priv, posts, hidden, draft, past>>

\* 'm': what the menu counts as new is marked
MarkAll(s) ==
  /\ where[s] = "menu" /\ lists[s].new # {}
  /\ readmsgs' = [readmsgs EXCEPT ![s] = @ \cup lists[s].new]
  /\ Ends(s, "draw")
  /\ UNCHANGED <<kept, msgs, priv, posts, hidden, draft, past>>

\* 'p', 'w': prompts for the recipient, the subject, the body and the tags
Write(s) ==
  /\ where[s] = "menu"
  /\ \E tags \in Posts, to \in Session :
       draft' = [draft EXCEPT ![s] = [num |-> None, msg |->
         [author |-> s, to |-> to, tags |-> tags, parent |-> None, which |-> None]]]
  /\ Ends(s, "writing")
  /\ UNCHANGED <<kept, msgs, priv, posts, readmsgs, hidden, past>>

\* 'c': prompt_subscription
ChangeArea(s) ==
  /\ where[s] = "menu"
  /\ \E tags \in SUBSET Tag \ {{}} : subscription' = [subscription EXCEPT ![s] = tags]
  /\ Ends(s, "draw")
  /\ UNCHANGED <<msgs, priv, posts, readmsgs, hidden, draft, entries, past>>

\* 'q'; a resized window, help and a canceled message draw the menu anew.
LeaveMenu(s) ==
  /\ where[s] = "menu"
  /\ Ends(s, "away") \/ Ends(s, "draw")
  /\ UNCHANGED <<kept, msgs, priv, posts, readmsgs, hidden, draft, past>>

-----------------------------------------------------------------------------
(* The reader.                                                             *)

\* display_message: a message that exists is marked read and shown.
Display(s) ==
  /\ where[s] = "display"
  /\ IF Found(s)
     THEN /\ MarkRead(s, Current(s), msgs[Current(s)].which)
          /\ Goes(s, "pager") /\ UNCHANGED local
     ELSE KeyError(s) /\ UNCHANGED <<readmsgs, known>>
  /\ UNCHANGED <<kept, msgs, priv, posts, hidden, draft, deleted>>

\* do_reader_prompt asks allow_tag, which reads the message unless asked by a sysop.
Prompt(s) ==
  /\ where[s] = "pager"
  /\ IF s \in Sysop \/ Found(s) THEN Goes(s, "prompt") /\ UNCHANGED local ELSE KeyError(s)
  /\ UNCHANGED <<kept, msgs, priv, posts, readmsgs, hidden, draft, past>>

\* 'n', 'p' or the number of another message of the list
GoToMessage(s) ==
  /\ where[s] = "prompt"
  /\ \E i \in DOMAIN reading[s] \ {at[s]} : at' = [at EXCEPT ![s] = i]
  /\ Goes(s, "display")
  /\ UNCHANGED <<kept, msgs, priv, posts, readmsgs, hidden, lists, reading, draft, past>>

\* 'q', or 'n' at the last
LeaveReader(s) ==
  /\ where[s] = "prompt"
  /\ Ends(s, "draw")
  /\ UNCHANGED <<kept, msgs, priv, posts, readmsgs, hidden, draft, past>>

\* 'e': the message is read, and its tags are prompted for
EditTags(s) ==
  /\ where[s] = "prompt" /\ AllowTag(s)
  /\ IF Found(s)
     THEN /\ \E tags \in Posts : draft' = [draft EXCEPT ![s] =
               [num |-> Current(s), msg |-> [msgs[Current(s)] EXCEPT !.tags = tags]]]
          /\ Goes(s, "tagging") /\ UNCHANGED local
     ELSE KeyError(s) /\ UNCHANGED draft
  /\ UNCHANGED <<kept, msgs, priv, posts, readmsgs, hidden, past>>

\* It is saved under its number, whatever became of that meanwhile, and displayed.
SaveTags(s) ==
  /\ where[s] = "tagging"
  /\ Save(draft[s].num, draft[s].msg) \/ UNCHANGED <<msgs, priv>>  \* or Escape
  /\ draft' = [draft EXCEPT ![s] = NoDraft]
  /\ Goes(s, "display")
  /\ UNCHANGED <<kept, posts, readmsgs, hidden, lists, reading, at, past>>

\* 'D': out of the tags, of the private messages and of the message base
Delete(s) ==
  /\ where[s] = "prompt" /\ s \in Sysop
  /\ IF Found(s)
     THEN /\ msgs' = Restrict(msgs, DOMAIN msgs \ {Current(s)})
          /\ priv' = [u \in Session |-> priv[u] \ {Current(s)}]
          /\ deleted' = deleted \cup {Current(s)}
          /\ Ends(s, "draw")
     ELSE KeyError(s) /\ UNCHANGED <<msgs, priv, deleted>>
  /\ UNCHANGED <<kept, posts, readmsgs, hidden, draft, known>>

\* 'r': create_reply_message; the tags of the parent may be changed.
Reply(s) ==
  /\ where[s] = "prompt"
  /\ IF Found(s)
     THEN LET parent == msgs[Current(s)] IN
          /\ \E tags \in Posts :
               draft' = [draft EXCEPT ![s] = [num |-> None, msg |->
                 [author |-> s, to |-> parent.author, tags |-> tags,
                  parent |-> Current(s), which |-> None]]]
          /\ Ends(s, "writing")
     ELSE KeyError(s) /\ UNCHANGED draft
  /\ UNCHANGED <<kept, msgs, priv, posts, readmsgs, hidden, past>>

\* do_send_message.  A parent that has the number of the message itself is stripped.
Send(s) ==
  /\ where[s] = "writing" /\ posts < MaxPosts
  /\ LET msg == draft[s].msg
         parent == IF msg.parent = NextNum THEN None ELSE msg.parent IN
       Save(NextNum, [msg EXCEPT !.parent = parent, !.which = posts])
  /\ posts' = posts + 1
  /\ MarkRead(s, NextNum, posts)
  /\ draft' = [draft EXCEPT ![s] = NoDraft]
  /\ Goes(s, "draw")
  /\ UNCHANGED <<kept, hidden, lists, reading, at, deleted>>

\* A prompt is escaped from, or the text of the message is empty.
Cancel(s) ==
  /\ where[s] = "writing"
  /\ draft' = [draft EXCEPT ![s] = NoDraft]
  /\ Goes(s, "draw")
  /\ UNCHANGED <<kept, msgs, priv, posts, readmsgs, hidden, lists, reading, at, past>>

\* All have left, and the bound lets nobody in.
Finished ==
  /\ entries = MaxReads /\ \A s \in Session : where[s] = "away"
  /\ UNCHANGED vars

Next ==
  \/ \E s \in Session :
       \/ Enter(s) \/ ReadPrivate(s) \/ DrawMenu(s) \/ LeaveMenu(s)
       \/ ReadMessages(s) \/ MarkAll(s) \/ Write(s) \/ ChangeArea(s)
       \/ Display(s) \/ Prompt(s) \/ GoToMessage(s) \/ LeaveReader(s)
       \/ EditTags(s) \/ SaveTags(s) \/ Delete(s) \/ Reply(s)
       \/ Send(s) \/ Cancel(s)
  \/ Finished

Spec == Init /\ [][Next]_vars

-----------------------------------------------------------------------------
(* Properties.                                                             *)

\* What is marked as read for a user is, for each number whose message was never deleted, the
\* very message that the user was shown, or sent, or that a menu counted as new before all
\* were marked: one that arrives while the menu is on the screen stays new.  Where the
\* message of a number was deleted, the user was offered some message of that number:
\* the mark is that of the number, and a later message that gets it is taken as read
\* by those who never saw it.
MarkedWereOffered ==
  \A s \in Session : \A n \in readmsgs[s] :
    /\ n \in DOMAIN msgs /\ n \notin deleted => <<n, msgs[n].which>> \in known[s]
    /\ \E k \in known[s] : k[1] = n
=============================================================================
