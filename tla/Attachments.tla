----------------------------- MODULE Attachments -----------------------------
(***************************************************************************)
(* The attachments of one user: rows in PostgreSQL and objects in MinIO.   *)
(* An upload stages objects and inserts rows.  A message that is sent with *)
(* attachments locks their rows, copies the staged objects to the thread,  *)
(* commits the new object names with the message and the run, and removes  *)
(* the staged objects; when it fails it removes the copies instead.  The   *)
(* library renames and soft-deletes rows.                                  *)
(*                                                                         *)
(* The two stores share no transaction: every call of MinIO is a step of   *)
(* its own, and a process may die between any two.                         *)
(***************************************************************************)
EXTENDS Naturals, FiniteSets, Sequences

CONSTANTS
  Files,      \* the attachments, by file_id
  Threads,    \* the threads messages are sent to
  Uploads,    \* calls of upload_attachments
  Sends,      \* calls of create_agent_run_service
  Reach,      \* the threads each of them may name, a subset of Threads
  MaxEdits,   \* bound on what the library changes
  Faults,     \* the faults that may occur, a subset of FaultKinds
  MaxFaults   \* bound on their number

FaultKinds ==
  {"storage",  \* MinIO fails a call
   "insert",   \* a row is refused: the request id is taken, the connection is gone
   "crash"}    \* the API process dies

VARIABLES
  rows,     \* the attachment table, as committed
  objects,  \* what the bucket holds
  links,    \* the attachments of each message, as committed
  call,     \* the calls
  edits,    \* library changes so far
  faults    \* faults so far

vars == <<rows, objects, links, call, edits, faults>>

Calls == Uploads \cup Sends

\* build_attachment_object_name, build_thread_attachment_object_name: an object
\* is named by its file and by where it is.
Places == {"staged"} \cup Threads

Object == Files \X Places

\* `name` stands for the display name, of which only a change matters.
Row == [state : {"none", "live", "deleted"}, place : Places, renamed : BOOLEAN]

NoRow == [state |-> "none", place |-> "staged", renamed |-> FALSE]

Stage == {"idle", "putting", "locking", "copying", "removing", "undoing", "over"}

\* `files` is what the call is about, in order; `locked` the rows it holds;
\* `copied` what it has put or copied and, in the end, still has to remove.
Call == [at : Stage, files : Seq(Files), thread : Threads,
         locked : SUBSET Files, copied : SUBSET Files]

NewCall == [at |-> "idle", files |-> <<>>, thread |-> CHOOSE t \in Threads : TRUE,
            locked |-> {}, copied |-> {}]

Of(c) == {call[c].files[i] : i \in DOMAIN call[c].files}

TypeOK ==
  /\ rows \in [Files -> Row]
  /\ objects \subseteq Object
  /\ links \in [Sends -> Seq(Files)]
  /\ call \in [Calls -> Call]
  /\ edits \in 0..MaxEdits
  /\ faults \in 0..MaxFaults

Init ==
  /\ rows = [f \in Files |-> NoRow]
  /\ objects = {}
  /\ links = [c \in Sends |-> <<>>]
  /\ call = [c \in Calls |-> NewCall]
  /\ edits = 0
  /\ faults = 0

Fault(f) == f \in Faults /\ faults < MaxFaults /\ faults' = faults + 1

Goto(c, stage) == call' = [call EXCEPT ![c].at = stage]

\* The transaction ends, one way or the other: its row locks are gone.
Leave(c, stage) == call' = [call EXCEPT ![c].at = stage, ![c].locked = {}]

LockedByOther(c, f) == \E d \in Calls \ {c} : f \in call[d].locked

\* Lists without repetition: attachment_file_ids drops repeated ids.
Lists(S) == {<<>>} \cup {<<f>> : f \in S}
                   \cup {<<p[1], p[2]>> : p \in {q \in S \X S : q[1] # q[2]}}

-----------------------------------------------------------------------------
(* upload_attachments.                                                     *)

\* The router has checked the number of files, their types and their sizes;
\* every file gets an id of its own.
StartUpload(c) ==
  /\ call[c].at = "idle"
  /\ \E fs \in Lists({f \in Files : /\ rows[f].state = "none"
                                    /\ \A d \in Uploads : f \notin Of(d)}) :
       /\ fs # <<>>
       /\ call' = [call EXCEPT ![c].at = "putting", ![c].files = fs]
  /\ UNCHANGED <<rows, objects, links, edits, faults>>

\* An object, then its row in the open transaction.
PutObject(c) ==
  /\ call[c].at = "putting"
  /\ \E f \in Of(c) \ call[c].copied :
       /\ objects' = objects \cup {<<f, "staged">>}
       /\ call' = [call EXCEPT ![c].copied = @ \cup {f}]
  /\ UNCHANGED <<rows, links, edits, faults>>

PutFails(c) ==
  /\ call[c].at = "putting"
  /\ Of(c) # call[c].copied
  /\ Fault("storage")
  /\ Leave(c, "undoing")
  /\ UNCHANGED <<rows, objects, links, edits>>

InsertRows(c) ==
  rows' = [f \in Files |-> IF f \in Of(c) THEN [rows[f] EXCEPT !.state = "live"]
                           ELSE rows[f]]

CommitUpload(c) ==
  /\ call[c].at = "putting"
  /\ Of(c) = call[c].copied
  /\ \/ InsertRows(c) /\ Leave(c, "over") /\ UNCHANGED faults
     \/ Fault("insert") /\ Leave(c, "undoing") /\ UNCHANGED rows
  /\ UNCHANGED <<objects, links, edits>>

-----------------------------------------------------------------------------
(* create_agent_run_service, as far as attachments go.                     *)

StartSend(c) ==
  /\ call[c].at = "idle"
  /\ \E fs \in Lists(Files), t \in Reach[c] :
       call' = [call EXCEPT ![c].at = "locking", ![c].files = fs, ![c].thread = t]
  /\ UNCHANGED <<rows, objects, links, edits, faults>>

\* list_by_file_ids_for_user takes the rows FOR UPDATE, in no order it states,
\* and sees each as it is when its lock is granted.  A file that is missing or
\* deleted refuses the call, and so does PostgreSQL when calls wait in a circle.
LockRow(c) ==
  /\ call[c].at = "locking"
  /\ \/ Of(c) = call[c].locked /\ Goto(c, "copying")
     \/ \E f \in Of(c) \ call[c].locked :
          /\ ~LockedByOther(c, f)
          /\ IF rows[f].state = "live"
             THEN call' = [call EXCEPT ![c].locked = @ \cup {f}]
             ELSE Leave(c, "over")
     \/ /\ \E d \in Sends \ {c} : /\ call[d].at = "locking"
                            /\ Of(c) \cap call[d].locked # {}
                            /\ Of(d) \cap call[c].locked # {}
        /\ Leave(c, "over")
  /\ UNCHANGED <<rows, objects, links, edits, faults>>

\* The files the loop has not reached: those still at their staged place.
ToCopy(c) == {f \in Of(c) \ call[c].copied : rows[f].place = "staged"}

\* prepare_message_attachments.  A copy that fails has the earlier ones removed
\* before the transaction ends.
CopyObject(c) ==
  /\ call[c].at = "copying"
  /\ \E f \in ToCopy(c) :
       \/ /\ <<f, "staged">> \in objects
          /\ objects' = objects \cup {<<f, call[c].thread>>}
          /\ call' = [call EXCEPT ![c].copied = @ \cup {f}]
          /\ UNCHANGED faults
       \/ /\ \/ <<f, "staged">> \notin objects /\ UNCHANGED faults
             \/ Fault("storage")
          /\ objects' = objects \ (call[c].copied \X {call[c].thread})
          /\ Leave(c, "over")
  /\ UNCHANGED <<rows, links, edits>>

MoveRows(c) ==
  /\ rows' = [f \in Files |-> IF f \in call[c].copied
                              THEN [rows[f] EXCEPT !.place = call[c].thread]
                              ELSE rows[f]]
  /\ links' = [links EXCEPT ![c] = call[c].files]

\* The new object names, the message, its links and the run.
CommitSend(c) ==
  /\ call[c].at = "copying"
  /\ ToCopy(c) = {}
  /\ \/ MoveRows(c) /\ Leave(c, "removing") /\ UNCHANGED faults
     \/ Fault("insert") /\ Leave(c, "undoing") /\ UNCHANGED <<rows, links>>
  /\ UNCHANGED <<objects, edits>>

\* delete_copied_sources after the commit, delete_copied_targets after the
\* rollback, and the objects of an upload that failed.  What fails is logged.
Doomed(c) ==
  IF c \in Sends /\ call[c].at = "undoing" THEN call[c].thread ELSE "staged"

\* Plausible slip: the target of a committed call is removed, the source of another.
RemoveObjectSwapped(c) ==
  /\ call[c].at \in {"removing", "undoing"}
  /\ \E f \in call[c].copied :
       /\ objects' = objects \ {<<f, IF Doomed(c) = "staged" THEN call[c].thread ELSE "staged">>}
       /\ call' = [call EXCEPT ![c].copied = @ \ {f}]
  /\ UNCHANGED <<rows, links, edits, faults>>

RemoveObject(c) ==
  /\ call[c].at \in {"removing", "undoing"}
  /\ \/ \E f \in call[c].copied :
          /\ \/ objects' = objects \ {<<f, Doomed(c)>>} /\ UNCHANGED faults
             \/ Fault("storage") /\ UNCHANGED objects
          /\ call' = [call EXCEPT ![c].copied = @ \ {f}]
     \/ call[c].copied = {} /\ Goto(c, "over") /\ UNCHANGED <<objects, faults>>
  /\ UNCHANGED <<rows, links, edits>>

Crash(c) ==
  /\ call[c].at \notin {"idle", "over"}
  /\ Fault("crash")
  /\ Leave(c, "over")
  /\ UNCHANGED <<rows, objects, links, edits>>

-----------------------------------------------------------------------------
(* The library: its updates wait for the locks of a message being sent.    *)

Edit(f) ==
  /\ edits < MaxEdits
  /\ edits' = edits + 1
  /\ rows[f].state = "live"
  /\ \A c \in Calls : f \notin call[c].locked
  /\ UNCHANGED <<objects, links, call, faults>>

\* delete_library_attachment: neither the object nor the links are touched.
DeleteAttachment(f) == Edit(f) /\ rows' = [rows EXCEPT ![f].state = "deleted"]

\* rename_library_attachment: the object keeps its name.
RenameAttachment(f) == Edit(f) /\ rows' = [rows EXCEPT ![f].renamed = TRUE]

UploadNext(c) == StartUpload(c) \/ PutObject(c) \/ PutFails(c) \/ CommitUpload(c)

SendNext(c) == StartSend(c) \/ LockRow(c) \/ CopyObject(c) \/ CommitSend(c)

Next ==
  \/ \E c \in Uploads : UploadNext(c)
  \/ \E c \in Sends : SendNext(c)
  \/ \E c \in Calls : RemoveObject(c) \/ Crash(c)
  \/ \E f \in Files : DeleteAttachment(f) \/ RenameAttachment(f)

Spec == Init /\ [][Next]_vars

-----------------------------------------------------------------------------
(* What must hold.                                                         *)

\* _message_attachment_payloads and the library call an attachment that is not
\* deleted available and hand out a URL for the object its row names.  That
\* object exists, whatever fails and whoever dies on the way.
AvailableIsStored ==
  \A f \in Files : rows[f].state = "live" => <<f, rows[f].place>> \in objects

\* Calls that ended without a failing store and without a crash leave nothing
\* behind in the bucket that no row names: a staged object is removed when its
\* copy is committed, a copy when its transaction is not.
NothingLeftBehind ==
  (faults = 0 /\ \A c \in Calls : call[c].at \in {"idle", "over"}) =>
    \A o \in objects : rows[o[1]].state # "none" /\ rows[o[1]].place = o[2]

\* The storage and the rows say the same.
ObjectsMatchRows == AvailableIsStored /\ NothingLeftBehind
=============================================================================
