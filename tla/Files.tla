-------------------------------- MODULE Files --------------------------------
(***************************************************************************)
(* The files that a user has flagged for download: the browser of a        *)
(* terminal session (default/fbrowse.py) and the sftp server of the same   *)
(* user (sftp.py), a process's and a thread's, each with a set of its own  *)
(* that it writes to the user's record as a whole.                         *)
(*                                                                         *)
(* There are the root, the folder of the uploads and the pseudo-folder of  *)
(* what is flagged; subfolders behave as the uploads do for a sysop.  A    *)
(* file is a number, smaller than that of what is listed after it.  What   *)
(* the list holds is kept apart from what it was computed from, and what   *)
(* the screen shows of it from both; the list fits its window, scrolling   *)
(* draws it as a whole.  Rows are counted from the first file.             *)
(***************************************************************************)
EXTENDS Integers, Sequences, SequencesExt, FiniteSets

CONSTANTS
  Shared,     \* files of the root
  Uploads,    \* names of files in the folder of the uploads
  Sysop,      \* whether the user is one
  Anonymous   \* whether the user is 'anonymous'

FilesAssumption ==
  /\ Shared \cup Uploads \subseteq Nat /\ Shared \cap Uploads = {}
  /\ IsFiniteSet(Shared) /\ IsFiniteSet(Uploads)
  /\ Sysop \in BOOLEAN /\ Anonymous \in BOOLEAN

File == Shared \cup Uploads

VARIABLES
  disk,     \* the files there are
  record,   \* session.user['flaggedfiles']
  flagged,  \* browser.flagged_files
  dirs,     \* the directories of the calls of browse_dir
  listed,   \* lightbar.content: the files in their rows, and whether with the marker
  drawn,    \* what the screen shows of it
  steady,   \* whether no other changed the files after the list was last drawn as a whole
  queue,    \* what download_files has yet to send, nothing when it is not called
  remote,   \* the flagged files of the sftp server
  fresh     \* whether the browser has written the record after the sftp server did

vars == <<disk, record, flagged, dirs, listed, drawn, steady, queue, remote, fresh>>
list == <<listed, drawn>>

Folder == {"root", "uploads", "flagged"}
Row    == 0 .. Cardinality(File)

TypeOK ==
  /\ disk \subseteq File
  /\ record \subseteq File /\ flagged \subseteq File /\ remote \subseteq File
  /\ dirs \in BoundedSeq(Folder, 2)
  /\ listed \cup drawn \subseteq [row : Row, file : File, marked : BOOLEAN]
  /\ steady \in BOOLEAN
  /\ queue.sends \in BOOLEAN /\ queue.files \subseteq File
  /\ fresh \in BOOLEAN

NoQueue == [sends |-> FALSE, files |-> {}]

Init ==
  /\ disk = Shared
  /\ record = {} /\ flagged = {} /\ remote = {}
  /\ dirs = << >>
  /\ listed = {} /\ drawn = {}
  /\ steady = TRUE
  /\ queue = NoQueue
  /\ fresh = TRUE

-----------------------------------------------------------------------------
(* The list.                                                               *)

In(dir, files) ==
  CASE dir = "root"    -> Shared \cap files
    [] dir = "uploads" -> Uploads \cap files
    [] OTHER           -> {}

\* The list of some files, in the order of their names
Rows(files, fl) ==
  {[row |-> Cardinality({g \in files : g < f}), file |-> f, marked |-> f \in fl] : f \in files}

\* flagged_listdir; regular_listdir, mark_flagged
Listing(dir, fl, files) == Rows(IF dir = "flagged" THEN fl ELSE In(dir, files), fl)

\* reload_dir
Reload == listed' = Listing(Last(dirs'), flagged', disk')

\* refresh_row() of some rows
DrawRows(rows) ==
  drawn' = {item \in drawn : item.row \notin rows} \cup {item \in listed' : item.row \in rows}

\* refresh()
DrawAll == drawn' = listed'

\* reload_dir, and the window as a whole
Reloaded == Reload /\ DrawAll /\ steady' = TRUE

\* The set as a whole becomes the record, but of a user who has none.
Saved ==
  IF Anonymous THEN UNCHANGED <<record, fresh>> ELSE record' = flagged' /\ fresh' = TRUE

Browsing == dirs # << >> /\ ~queue.sends

-----------------------------------------------------------------------------
(* The browser.                                                            *)

\* main: what is missing is no longer flagged.
Main ==
  /\ dirs = << >>
  /\ flagged' = record \cap disk
  /\ Saved
  /\ dirs' = <<"root">>
  /\ UNCHANGED <<disk, queue, remote>>
  /\ Reloaded

\* mutant of Below: the row of the selection is not drawn again
BelowOnly(row, n) ==
  IF row < n - 1 THEN {row + 1} ELSE {}

\* The rows of n that are drawn after one changed: the selected one, or the last when there are
\* fewer now, and that which move_down() comes to, or update() came from.
Below(row, n) ==
  IF row < n - 1 THEN {row, row + 1} ELSE IF row = n - 1 THEN {row} ELSE {n - 1, n}

\* ' ', for the file selected: in the pseudo-folder all is drawn again.
Flag ==
  /\ Browsing
  /\ \E item \in listed :
       /\ flagged' = IF item.file \in flagged THEN flagged \ {item.file}
                     ELSE flagged \cup {item.file}
       /\ Saved
       /\ UNCHANGED <<disk, dirs, queue, remote>>
       /\ IF Last(dirs) = "flagged" THEN Reloaded
          ELSE /\ Reload
               /\ DrawRows(Below(item.row, Cardinality(In(Last(dirs), disk))))
               /\ UNCHANGED steady

\* '-'
UnflagAll ==
  /\ Browsing
  /\ flagged' = {}
  /\ Saved
  /\ UNCHANGED <<disk, dirs, queue, remote>>
  /\ Reloaded

\* A key that moves the selection, or the event `refresh': the row left and the one come to
\* are drawn, or all; the list stays the one it was.
Move ==
  /\ Browsing
  /\ UNCHANGED <<disk, record, flagged, dirs, listed, steady, queue, remote, fresh>>
  /\ DrawAll \/ \E from, to \in Row : DrawRows({from, to})

\* 'd': download_files, of a copy of the set
Download ==
  /\ Browsing /\ flagged # {}
  /\ queue' = [sends |-> TRUE, files |-> flagged]
  /\ UNCHANGED <<disk, record, flagged, dirs, list, steady, remote, fresh>>

\* A file that was sent is not flagged any more.
Sent(f) ==
  /\ flagged' = flagged \ {f}
  /\ Saved

\* The set is in no order.  A file that is gone ends the script.
SendFile ==
  /\ queue.sends
  /\ \E f \in queue.files :
       IF f \in disk
       THEN /\ queue' = [queue EXCEPT !.files = @ \ {f}]
            /\ Sent(f) \/ UNCHANGED <<flagged, record, fresh>>
            /\ UNCHANGED <<dirs, list>>
       ELSE /\ queue' = NoQueue
            /\ dirs' = << >> /\ listed' = {} /\ DrawAll
            /\ UNCHANGED <<flagged, record, fresh>>
  /\ UNCHANGED <<disk, steady, remote>>

Downloaded ==
  /\ queue.sends /\ queue.files = {}
  /\ queue' = NoQueue
  /\ UNCHANGED <<disk, record, flagged, dirs, remote, fresh>>
  /\ Reloaded

\* upload_files: what fails is unlinked, whatever had that name.
Upload ==
  /\ Browsing
  /\ \E f \in Uploads : disk' \in {disk \cup {f}, disk \ {f}}
  /\ UNCHANGED <<record, flagged, dirs, queue, remote, fresh>>
  /\ Reloaded

\* browse_dir calls itself.
Enter(dir) ==
  /\ Browsing /\ dirs = <<"root">> /\ (dir = "uploads" => Sysop)
  /\ dirs' = Append(dirs, dir)
  /\ UNCHANGED <<disk, record, flagged, queue, remote, fresh>>
  /\ Reloaded

\* '..', or the left arrow
Back ==
  /\ Browsing /\ Len(dirs) > 1
  /\ dirs' = Front(dirs)
  /\ UNCHANGED <<disk, record, flagged, queue, remote, fresh>>
  /\ Reloaded

\* Every call returns False.
Quit ==
  /\ Browsing
  /\ dirs' = << >> /\ listed' = {} /\ DrawAll
  /\ UNCHANGED <<disk, record, flagged, steady, queue, remote, fresh>>

-----------------------------------------------------------------------------
(* The sftp server.                                                        *)

\* What the server finds flagged in its own set it unflags, and writes that set.
Unflagged(f) ==
  /\ remote' = remote \ {f}
  /\ IF f \in remote /\ ~Anonymous THEN record' = remote' /\ fresh' = FALSE
     ELSE UNCHANGED <<record, fresh>>

Connect ==
  /\ remote' = {}
  /\ UNCHANGED <<disk, record, flagged, dirs, list, steady, queue, fresh>>

\* list_folder of the pseudo-folder
ListFlagged ==
  /\ remote' = record
  /\ UNCHANGED <<disk, record, flagged, dirs, list, steady, queue, fresh>>

\* open, to read: a flagged file is unflagged as its transfer begins.  What exists
\* among the uploads is refused.
Open ==
  /\ \E f \in disk \cap Shared : Unflagged(f)
  /\ UNCHANGED <<disk, flagged, dirs, list, steady, queue>>

\* open, to write a new file: so is one that was flagged before it was deleted.
Put ==
  /\ \E f \in File \ disk : (f \in Shared => Sysop) /\ disk' = disk \cup {f} /\ Unflagged(f)
  /\ steady' = FALSE
  /\ UNCHANGED <<flagged, dirs, list, queue>>

\* remove, or rename to what is of no interest
Delete ==
  /\ Sysop
  /\ \E f \in disk : disk' = disk \ {f}
  /\ steady' = FALSE
  /\ UNCHANGED <<record, flagged, dirs, list, queue, remote, fresh>>

Next ==
  \/ Main \/ Flag \/ UnflagAll \/ Move \/ Download \/ SendFile \/ Downloaded \/ Upload
  \/ Enter("uploads") \/ Enter("flagged") \/ Back \/ Quit
  \/ Connect \/ ListFlagged \/ Open \/ Put \/ Delete

Spec == Init /\ [][Next]_vars

-----------------------------------------------------------------------------
(* Properties.                                                             *)

\* While the browser waits for a key, the marks of its list, which keys act upon, are those
\* of its set, in every directory it comes back to, and in the pseudo-folder the set
\* is what it lists; the screen shows the list, though only two of its rows are drawn
\* after a flag, as long as nobody else changed the files since all of it was drawn;
\* and the set is the user's record, unless the sftp server has written that since.
FlagsAgree ==
  Browsing =>
    /\ \A item \in listed : item.marked <=> item.file \in flagged
    /\ Last(dirs) = "flagged" => {item.file : item \in listed} = flagged
    /\ steady => drawn = listed
    /\ fresh /\ ~Anonymous => record = flagged
=============================================================================
