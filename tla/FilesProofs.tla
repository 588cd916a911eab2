------------------------------ MODULE FilesProofs ------------------------------
(***************************************************************************)
(* Proofs about the components of MCFiles, for every value of their          *)
(* parameters: that the bucket of the attachments and their rows belong     *)
(* together, what the status of a knowledge file promises and who decides   *)
(* it, and that a document is in its chunks, once and in its order.         *)
(***************************************************************************)
EXTENDS MCFiles, Enumerations

-----------------------------------------------------------------------------
(* The attachments.  Their inductive invariant.                            *)

\* No row names the files of an upload before it is committed.
UploadTrue(c) ==
  /\ call[c].at \in {"idle", "putting", "undoing", "over"}
  /\ call[c].locked = {}
  /\ call[c].at \in {"putting", "undoing"} => \A f \in A!Of(c) : rows[f].state = "none"
  /\ call[c].at = "putting" => \A f \in call[c].copied : <<f, "staged">> \in objects

\* A send copies files whose rows it has locked, live and still at their staged
\* place, and removes objects that the rows no longer name or never did.
SendTrue(c) ==
  /\ call[c].at \in {"idle", "locking", "copying", "removing", "undoing", "over"}
  /\ call[c].at # "idle" => call[c].thread \in Reach[c]
  /\ call[c].at \notin {"locking", "copying"} => call[c].locked = {}
  /\ call[c].at = "locking" => call[c].copied = {}
  /\ \A f \in call[c].locked : rows[f].state = "live"
  /\ call[c].at = "copying" =>
       /\ call[c].locked = A!Of(c)
       /\ \A f \in call[c].copied : rows[f].place = "staged" /\ <<f, call[c].thread>> \in objects
  /\ call[c].at = "removing" => \A f \in call[c].copied : rows[f].place # "staged"
  /\ call[c].at = "undoing" =>
       /\ "insert" \in AttachmentFaults
       /\ \A f \in call[c].copied : rows[f].place # call[c].thread

CallTrue(c) ==
  /\ call[c].copied \subseteq A!Of(c) /\ call[c].locked \subseteq A!Of(c)
  /\ call[c].at = "idle" => A!Of(c) = {} 
  /\ c \in Uploads => UploadTrue(c)
  /\ c \in Sends => SendTrue(c)

\* FOR UPDATE: a row is locked by one call.
LocksApart == \A c, d \in A!Calls : c # d => call[c].locked \cap call[d].locked = {}

\* Every upload has its own file ids.
UploadsApart == \A c, d \in Uploads : c # d => A!Of(c) \cap A!Of(d) = {}

RowsTrue == \A f \in Attached : rows[f].state = "none" => rows[f].place = "staged"

\* An object is where it is because a row names it or because a call is about to
\* commit it or to remove it, as long as nothing has failed.
Named(f, p) == rows[f].state # "none" /\ rows[f].place = p

OnItsWay(c, f, p) ==
  /\ f \in call[c].copied
  /\ \/ call[c].at \in {"putting", "removing"} /\ p = "staged"
     \/ call[c].at = "copying" /\ p = call[c].thread

Accounted ==
  faults = 0 =>
    \A f \in Attached, p \in A!Places :
      <<f, p>> \in objects => Named(f, p) \/ \E c \in A!Calls : OnItsWay(c, f, p)

AttachmentsInv ==
  /\ A!TypeOK
  /\ \A c \in A!Calls : CallTrue(c)
  /\ LocksApart /\ UploadsApart /\ RowsTrue
  /\ A!AvailableIsStored /\ Accounted

-----------------------------------------------------------------------------
(* It holds at the start, and every step keeps it.                         *)

LEMMA AttachmentsStart == A!Init => AttachmentsInv
<1> SUFFICES ASSUME A!Init PROVE AttachmentsInv
  OBVIOUS
<1>1. A!NewCall \in A!Call /\ A!NewCall.at = "idle" /\ A!NewCall.files = << >> /\ A!NewCall.copied = {} /\ A!NewCall.locked = {}
  BY AttachmentParameters DEF A!NewCall, A!Call, A!Stage
<1>2. A!NoRow \in A!Row /\ A!NoRow.state = "none" /\ A!NoRow.place = "staged"
  BY DEF A!NoRow, A!Row, A!Places
<1>3. call \in [A!Calls -> A!Call] /\ \A c \in A!Calls : call[c] = A!NewCall
  BY <1>1 DEF A!Init
<1>4. A!TypeOK
  <2>1. edits \in 0..MaxEdits /\ faults \in 0..MaxAttachmentFaults
    BY AttachmentParameters DEF A!Init
  <2> QED
    BY <1>2, <1>3, <2>1 DEF A!Init, A!TypeOK
<1>5. \A c \in A!Calls : A!Of(c) = {}
  BY <1>1, <1>3 DEF A!Of
<1>6. \A c \in A!Calls : CallTrue(c)
  BY <1>1, <1>3, <1>5 DEF CallTrue, UploadTrue, SendTrue
<1>7. LocksApart /\ UploadsApart
  BY <1>1, <1>3, <1>5 DEF LocksApart, UploadsApart, A!Calls
<1>8. RowsTrue /\ A!AvailableIsStored /\ Accounted
  BY <1>2 DEF A!Init, RowsTrue, A!AvailableIsStored, Accounted
<1> QED
  BY <1>4, <1>6, <1>7, <1>8 DEF AttachmentsInv

\* A call moves and the others stay as they are.
LEMMA CallMoves ==
  ASSUME A!TypeOK, NEW c \in A!Calls, NEW v \in A!Call, call' = [call EXCEPT ![c] = v]
  PROVE  /\ call' \in [A!Calls -> A!Call] /\ call'[c] = v
         /\ \A d \in A!Calls : d # c => call'[d] = call[d] /\ A!Of(d)' = A!Of(d)
         /\ A!Of(c)' = {v.files[i] : i \in DOMAIN v.files}
         /\ v.files = call[c].files => A!Of(c)' = A!Of(c)
BY DEF A!TypeOK, A!Of

LEMMA AttachmentFaultCounts ==
  ASSUME A!TypeOK, NEW f, A!Fault(f) PROVE faults' \in 0..MaxAttachmentFaults /\ faults' # 0
BY AttachmentParameters DEF A!TypeOK, A!Fault

\* The storage and the rows stay.
LEMMA Quiet ==
  ASSUME AttachmentsInv, NEW c \in A!Calls, NEW v \in A!Call,
         call' = [call EXCEPT ![c] = v],
         UNCHANGED <<rows, objects, links, edits>>,
         faults' = faults \/ (faults' \in 0..MaxAttachmentFaults /\ faults' # 0),
         faults' # 0 \/ call[c].copied = {},
         call'[c] = v => CallTrue(c)' /\ LocksApart' /\ UploadsApart'
  PROVE  AttachmentsInv'
<1>1. A!TypeOK
  BY DEF AttachmentsInv
<1>2. /\ call' \in [A!Calls -> A!Call] /\ call'[c] = v
      /\ \A d \in A!Calls : d # c => call'[d] = call[d] /\ A!Of(d)' = A!Of(d)
  BY <1>1, CallMoves
<1>3. A!TypeOK'
  BY <1>1, <1>2 DEF A!TypeOK
<1>4. \A d \in A!Calls : d # c => CallTrue(d)'
  <2> SUFFICES ASSUME NEW d \in A!Calls, d # c PROVE CallTrue(d)'
    OBVIOUS
  <2>1. CallTrue(d) /\ call'[d] = call[d] /\ A!Of(d)' = A!Of(d)
    BY <1>2 DEF AttachmentsInv
  <2> QED
    BY <2>1 DEF CallTrue, UploadTrue, SendTrue
<1>5. RowsTrue' /\ A!AvailableIsStored'
  BY DEF AttachmentsInv, RowsTrue, A!AvailableIsStored
<1>6. Accounted'
  <2> SUFFICES ASSUME faults' = 0, NEW f \in Attached, NEW p \in A!Places, <<f, p>> \in objects'
               PROVE  Named(f, p)' \/ \E d \in A!Calls : OnItsWay(d, f, p)'
    BY DEF Accounted, A!Places
  <2>1. faults = 0 /\ call[c].copied = {}
    OBVIOUS
  <2>2. Named(f, p) \/ \E d \in A!Calls : OnItsWay(d, f, p)
    BY <2>1 DEF AttachmentsInv, Accounted
  <2>3. \A d \in A!Calls : OnItsWay(d, f, p) => OnItsWay(d, f, p)'
    BY <1>2, <2>1 DEF OnItsWay
  <2> QED
    BY <2>2, <2>3 DEF Named
<1> QED
  BY <1>2, <1>3, <1>4, <1>5, <1>6 DEF AttachmentsInv

LEMMA ListsAreOf ==
  ASSUME NEW S, NEW fs \in A!Lists(S)
  PROVE  fs \in Seq(S) /\ {fs[i] : i \in DOMAIN fs} \subseteq S
<1>1. CASE fs = << >>
  BY <1>1
<1>2. ASSUME NEW f \in S, fs = <<f>>
      PROVE  fs \in Seq(S) /\ {fs[i] : i \in DOMAIN fs} \subseteq S
  BY <1>2
<1>3. ASSUME NEW f \in S, NEW g \in S, fs = <<f, g>>
      PROVE  fs \in Seq(S) /\ {fs[i] : i \in DOMAIN fs} \subseteq S
  BY <1>3
<1>4. fs = << >> \/ (\E f \in S : fs = <<f>>) \/ \E f, g \in S : fs = <<f, g>>
  BY DEF A!Lists
<1> QED
  BY <1>1, <1>2, <1>3, <1>4

LEMMA FirstPutKeeps ==
  ASSUME AttachmentsInv, NEW c \in Uploads, A!StartUpload(c)
  PROVE  AttachmentsInv'
<1>1. c \in A!Calls /\ c \notin Sends /\ call[c] \in A!Call
  BY AttachmentParameters DEF A!Calls, AttachmentsInv, A!TypeOK
<1>2. CallTrue(c) /\ call[c].at = "idle" /\ call[c].copied = {} /\ call[c].locked = {}
  BY <1>1 DEF AttachmentsInv, CallTrue, A!StartUpload
<1> DEFINE S == {f \in Attached : rows[f].state = "none" /\ \A d \in Uploads : f \notin A!Of(d)}
<1>3. PICK fs \in A!Lists(S) : call' = [call EXCEPT ![c].at = "putting", ![c].files = fs]
  BY DEF A!StartUpload
<1>4. fs \in Seq(Attached) /\ {fs[i] : i \in DOMAIN fs} \subseteq S
  <2>1. fs \in Seq(S) /\ {fs[i] : i \in DOMAIN fs} \subseteq S /\ S \subseteq Attached
    BY ListsAreOf
  <2> QED
    BY <2>1
<1> DEFINE v == [call[c] EXCEPT !.at = "putting", !.files = fs]
<1>5. /\ v \in A!Call /\ v.at = "putting" /\ v.copied = {} /\ v.locked = {} /\ v.files = fs
      /\ call' = [call EXCEPT ![c] = v]
  BY <1>1, <1>2, <1>3, <1>4 DEF A!Call, A!Stage
<1> HIDE DEF v
<1>6. UNCHANGED <<rows, objects, links, edits, faults>>
  BY DEF A!StartUpload
<1>7. /\ call'[c] = v /\ A!Of(c)' \subseteq S
      /\ \A d \in A!Calls : d # c => call'[d] = call[d] /\ A!Of(d)' = A!Of(d)
  <2> HIDE DEF S
  <2>1. A!TypeOK
    BY DEF AttachmentsInv
  <2>2. /\ call'[c] = v /\ A!Of(c)' = {v.files[i] : i \in DOMAIN v.files}
        /\ \A d \in A!Calls : d # c => call'[d] = call[d] /\ A!Of(d)' = A!Of(d)
    BY <1>1, <1>5, <2>1, CallMoves
  <2> QED
    BY <1>4, <1>5, <2>2
<1>8. CallTrue(c)'
  BY <1>1, <1>5, <1>6, <1>7 DEF CallTrue, UploadTrue
<1>9. LocksApart'
  BY <1>5, <1>7 DEF LocksApart, AttachmentsInv
<1>10. UploadsApart'
  BY <1>7 DEF UploadsApart, AttachmentsInv, A!Calls
<1> QED
  BY <1>1, <1>2, <1>5, <1>6, <1>8, <1>9, <1>10, Quiet

\* What the invariant says of one call.
LEMMA OneCall ==
  ASSUME AttachmentsInv, NEW c \in A!Calls
  PROVE  /\ call[c] \in A!Call /\ CallTrue(c) /\ call[c].locked \subseteq A!Of(c)
         /\ call[c].copied \subseteq A!Of(c) /\ A!Of(c) \subseteq Attached
         /\ c \in Uploads => UploadTrue(c) /\ c \notin Sends
         /\ c \in Sends => SendTrue(c) /\ c \notin Uploads
<1>1. call[c] \in A!Call /\ CallTrue(c)
  BY DEF AttachmentsInv, A!TypeOK
<1>2. call[c].files \in Seq(Attached)
  BY <1>1 DEF A!Call
<1>3. A!Of(c) \subseteq Attached
  BY <1>2 DEF A!Of
<1> QED
  BY <1>1, <1>3, AttachmentParameters DEF CallTrue

\* A call goes on to a stage that asks no more of the storage and the rows, with
\* its locks or without.
GoesOn(c, v) ==
  \/ v.at = "over" /\ v.locked = {}
  \/ v.at = call[c].at /\ v.at \in {"removing", "undoing"} /\ v.locked = {}
  \/ v.at = "undoing" /\ v.locked = {} /\ c \in Uploads /\ call[c].at = "putting"
  \/ v.at = "undoing" /\ v.locked = {} /\ c \in Sends /\ call[c].at = "copying" /\ "insert" \in AttachmentFaults
  \/ v.at = "copying" /\ c \in Sends /\ call[c].at = "locking" /\ v.locked = A!Of(c)
  \/ v.at = "locking" /\ c \in Sends /\ call[c].at = "locking"

LEMMA MovesOn ==
  ASSUME AttachmentsInv, NEW c \in A!Calls, NEW v \in A!Call,
         call' = [call EXCEPT ![c] = v],
         v.files = call[c].files, v.thread = call[c].thread,
         v.copied \subseteq call[c].copied,
         \A f \in v.locked : /\ f \in A!Of(c) /\ rows[f].state = "live"
                             /\ \A d \in A!Calls \ {c} : f \notin call[d].locked,
         UNCHANGED <<rows, objects, links, edits>>,
         faults' = faults \/ (faults' \in 0..MaxAttachmentFaults /\ faults' # 0),
         faults' # 0 \/ call[c].copied = {},
         call[c].at # "idle", GoesOn(c, v)
  PROVE  AttachmentsInv'
<1>1. /\ call[c] \in A!Call /\ call[c].copied \subseteq A!Of(c)
      /\ c \in Uploads => UploadTrue(c) /\ c \notin Sends
      /\ c \in Sends => SendTrue(c) /\ c \notin Uploads
  BY OneCall
<1>2. A!TypeOK
  BY DEF AttachmentsInv
<1>3. /\ call'[c] = v /\ A!Of(c)' = A!Of(c)
      /\ \A d \in A!Calls : d # c => call'[d] = call[d] /\ A!Of(d)' = A!Of(d)
  BY <1>2, CallMoves
<1>4. c \in Uploads => UploadTrue(c)'
  BY <1>1, <1>3 DEF UploadTrue, GoesOn
<1>5. c \in Sends => SendTrue(c)'
  <2> SUFFICES ASSUME c \in Sends PROVE SendTrue(c)'
    OBVIOUS
  <2>1. /\ call[c].thread \in Reach[c] /\ call[c].thread # "staged" /\ SendTrue(c)
        /\ call'[c].thread = call[c].thread
    BY <1>1, <1>3, AttachmentParameters DEF SendTrue
  <2>2. CASE v.at = "over" /\ v.locked = {}
    BY <1>3, <2>1, <2>2 DEF SendTrue
  <2>3. CASE v.at = call[c].at /\ v.at \in {"removing", "undoing"} /\ v.locked = {}
    BY <1>3, <2>1, <2>3 DEF SendTrue
  <2>4. CASE v.at = "undoing" /\ v.locked = {} /\ call[c].at = "copying" /\ "insert" \in AttachmentFaults
    BY <1>3, <2>1, <2>4 DEF SendTrue
  <2>5. CASE v.at \in {"copying", "locking"} /\ call[c].at = "locking" /\ (v.at = "copying" => v.locked = A!Of(c))
    <3>1. v.copied = {}
      BY <2>1, <2>5 DEF SendTrue
    <3> QED
      BY <1>3, <2>1, <2>5, <3>1 DEF SendTrue
  <2> QED
    BY <1>1, <2>2, <2>3, <2>4, <2>5 DEF GoesOn
<1>6. CallTrue(c)'
  <2>1. v.at # "idle"
    BY DEF GoesOn
  <2> QED
    BY <1>1, <1>3, <1>4, <1>5, <2>1 DEF CallTrue
<1>7. LocksApart'
  BY <1>3 DEF LocksApart, AttachmentsInv
<1>8. UploadsApart'
  BY <1>3 DEF UploadsApart, AttachmentsInv, A!Calls
<1> QED
  BY <1>6, <1>7, <1>8, Quiet

LEMMA FailingKeeps ==
  ASSUME AttachmentsInv, NEW c \in A!Calls,
         \/ c \in Uploads /\ A!PutFails(c)
         \/ c \in Uploads /\ A!CommitUpload(c) /\ A!Fault("insert") /\ A!Leave(c, "undoing") /\ UNCHANGED rows
         \/ c \in Sends /\ A!CommitSend(c) /\ A!Fault("insert") /\ A!Leave(c, "undoing") /\ UNCHANGED <<rows, links>>
         \/ A!Crash(c)
  PROVE  AttachmentsInv'
<1>1. /\ c \in Uploads => UploadTrue(c) /\ c \notin Sends
      /\ c \in Sends => SendTrue(c) /\ c \notin Uploads
      /\ call[c] \in A!Call
  BY OneCall
<1>2. /\ UNCHANGED <<rows, objects, links, edits>>
      /\ faults' \in 0..MaxAttachmentFaults /\ faults' # 0
  BY AttachmentFaultCounts DEF AttachmentsInv, A!PutFails, A!CommitUpload, A!CommitSend, A!Crash
<1>3. PICK stage \in {"undoing", "over"} :
        /\ call' = [call EXCEPT ![c].at = stage, ![c].locked = {}]
        /\ stage = "undoing" => \/ c \in Uploads /\ call[c].at = "putting"
                                \/ c \in Sends /\ call[c].at = "copying" /\ "insert" \in AttachmentFaults
        /\ call[c].at # "idle"
  BY <1>1 DEF A!PutFails, A!CommitUpload, A!CommitSend, A!Crash, A!Leave, A!Fault
<1> DEFINE v == [call[c] EXCEPT !.at = stage, !.locked = {}]
<1>4. /\ v \in A!Call /\ v.at = stage /\ v.locked = {} /\ v.files = call[c].files
      /\ v.thread = call[c].thread /\ v.copied = call[c].copied
      /\ call' = [call EXCEPT ![c] = v]
  BY <1>1, <1>3 DEF A!Call, A!Stage
<1> HIDE DEF v
<1>5. GoesOn(c, v)
  BY <1>3, <1>4 DEF GoesOn
<1> QED
  BY <1>2, <1>3, <1>4, <1>5, MovesOn

LEMMA StartSendKeeps ==
  ASSUME AttachmentsInv, NEW c \in Sends, A!StartSend(c)
  PROVE  AttachmentsInv'
<1>1. c \in A!Calls /\ c \notin Uploads /\ call[c] \in A!Call /\ SendTrue(c)
  BY OneCall DEF A!Calls
<1>2. CallTrue(c) /\ call[c].at = "idle" /\ call[c].copied = {} /\ call[c].locked = {}
  BY <1>1 DEF AttachmentsInv, CallTrue, A!StartSend
<1>3. PICK fs \in A!Lists(Attached), t \in Reach[c] :
        call' = [call EXCEPT ![c].at = "locking", ![c].files = fs, ![c].thread = t]
  BY DEF A!StartSend
<1>4. fs \in Seq(Attached) /\ t \in SentTo
  BY ListsAreOf, AttachmentParameters
<1> DEFINE v == [call[c] EXCEPT !.at = "locking", !.files = fs, !.thread = t]
<1>5. /\ v \in A!Call /\ v.at = "locking" /\ v.copied = {} /\ v.locked = {} /\ v.thread = t
      /\ call' = [call EXCEPT ![c] = v]
  BY <1>1, <1>2, <1>3, <1>4 DEF A!Call, A!Stage
<1> HIDE DEF v
<1>6. UNCHANGED <<rows, objects, links, edits, faults>>
  BY DEF A!StartSend
<1>7. A!TypeOK
  BY DEF AttachmentsInv
<1>8. /\ call'[c] = v
      /\ \A d \in A!Calls : d # c => call'[d] = call[d] /\ A!Of(d)' = A!Of(d)
  BY <1>1, <1>5, <1>7, CallMoves
<1>9. CallTrue(c)'
  BY <1>1, <1>5, <1>8 DEF CallTrue, SendTrue
<1>10. LocksApart'
  BY <1>5, <1>8 DEF LocksApart, AttachmentsInv
<1>11. UploadsApart'
  BY <1>1, <1>8 DEF UploadsApart, AttachmentsInv, A!Calls
<1> QED
  BY <1>1, <1>2, <1>5, <1>6, <1>9, <1>10, <1>11, Quiet

LEMMA LockRowKeeps ==
  ASSUME AttachmentsInv, NEW c \in Sends, A!LockRow(c)
  PROVE  AttachmentsInv'
<1>1. /\ c \in A!Calls /\ call[c] \in A!Call /\ SendTrue(c) /\ call[c].locked \subseteq A!Of(c)
      /\ A!Of(c) \subseteq Attached
  BY OneCall DEF A!Calls
<1>2. call[c].at = "locking" /\ call[c].copied = {}
  BY <1>1 DEF A!LockRow, SendTrue
<1>3. UNCHANGED <<rows, objects, links, edits, faults>>
  BY DEF A!LockRow
<1>4. \A f \in call[c].locked : /\ rows[f].state = "live"
                                /\ \A d \in A!Calls \ {c} : f \notin call[d].locked
  BY <1>1 DEF SendTrue, LocksApart, AttachmentsInv
<1>5. CASE A!Leave(c, "over")
  <2> DEFINE v == [call[c] EXCEPT !.at = "over", !.locked = {}]
  <2>1. /\ v \in A!Call /\ v.at = "over" /\ v.locked = {} /\ v.files = call[c].files
        /\ v.thread = call[c].thread /\ v.copied = call[c].copied
        /\ call' = [call EXCEPT ![c] = v]
    BY <1>1, <1>5 DEF A!Call, A!Stage, A!Leave
  <2> HIDE DEF v
  <2>2. GoesOn(c, v)
    BY <2>1 DEF GoesOn
  <2> QED
    BY <1>1, <1>2, <1>3, <2>1, <2>2, MovesOn
<1>6. CASE A!Of(c) = call[c].locked /\ A!Goto(c, "copying")
  <2> DEFINE v == [call[c] EXCEPT !.at = "copying"]
  <2>1. /\ v \in A!Call /\ v.at = "copying" /\ v.locked = A!Of(c) /\ v.files = call[c].files
        /\ v.thread = call[c].thread /\ v.copied = call[c].copied
        /\ call' = [call EXCEPT ![c] = v]
    BY <1>1, <1>6 DEF A!Call, A!Stage, A!Goto
  <2> HIDE DEF v
  <2>2. GoesOn(c, v)
    BY <1>2, <2>1 DEF GoesOn
  <2> QED
    BY <1>1, <1>2, <1>3, <1>4, <1>6, <2>1, <2>2, MovesOn
<1>7. ASSUME NEW f \in A!Of(c), ~A!LockedByOther(c, f), rows[f].state = "live",
             call' = [call EXCEPT ![c].locked = @ \cup {f}]
      PROVE  AttachmentsInv'
  <2> DEFINE v == [call[c] EXCEPT !.locked = call[c].locked \cup {f}]
  <2>1. /\ v \in A!Call /\ v.at = "locking" /\ v.locked = call[c].locked \cup {f}
        /\ v.files = call[c].files /\ v.thread = call[c].thread /\ v.copied = call[c].copied
        /\ call' = [call EXCEPT ![c] = v]
    BY <1>1, <1>2, <1>7 DEF A!Call
  <2> HIDE DEF v
  <2>2. GoesOn(c, v)
    BY <1>2, <2>1 DEF GoesOn
  <2>3. \A g \in v.locked : /\ g \in A!Of(c) /\ rows[g].state = "live"
                            /\ \A d \in A!Calls \ {c} : g \notin call[d].locked
    BY <1>1, <1>4, <1>7, <2>1 DEF A!LockedByOther
  <2> QED
    BY <1>1, <1>2, <1>3, <2>1, <2>2, <2>3, MovesOn
<1> QED
  BY <1>5, <1>6, <1>7 DEF A!LockRow

\* A call that only removes is done, or gives up one object.
LEMMA RemovesNothingKeeps ==
  ASSUME AttachmentsInv, NEW c \in A!Calls,
         call[c].at \in {"removing", "undoing"}, UNCHANGED <<rows, objects, links, edits>>,
         \/ \E f \in call[c].copied : /\ A!Fault("storage")
                                      /\ call' = [call EXCEPT ![c].copied = @ \ {f}]
         \/ call[c].copied = {} /\ A!Goto(c, "over") /\ UNCHANGED faults
  PROVE  AttachmentsInv'
<1>1. call[c] \in A!Call /\ call[c].locked = {}
  BY OneCall DEF UploadTrue, SendTrue, A!Calls
<1>2. ASSUME NEW f \in call[c].copied, A!Fault("storage"),
             call' = [call EXCEPT ![c].copied = @ \ {f}]
      PROVE  AttachmentsInv'
  <2> DEFINE v == [call[c] EXCEPT !.copied = call[c].copied \ {f}]
  <2>1. /\ v \in A!Call /\ v.at = call[c].at /\ v.locked = {} /\ v.files = call[c].files
        /\ v.thread = call[c].thread /\ v.copied \subseteq call[c].copied
        /\ call' = [call EXCEPT ![c] = v]
    BY <1>1, <1>2 DEF A!Call
  <2> HIDE DEF v
  <2>2. GoesOn(c, v)
    BY <2>1 DEF GoesOn
  <2>3. faults' \in 0..MaxAttachmentFaults /\ faults' # 0
    BY <1>2, AttachmentFaultCounts DEF AttachmentsInv
  <2> QED
    BY <2>1, <2>2, <2>3, MovesOn
<1>3. CASE call[c].copied = {} /\ A!Goto(c, "over") /\ UNCHANGED faults
  <2> DEFINE v == [call[c] EXCEPT !.at = "over"]
  <2>1. /\ v \in A!Call /\ v.at = "over" /\ v.locked = {} /\ v.files = call[c].files
        /\ v.thread = call[c].thread /\ v.copied = call[c].copied
        /\ call' = [call EXCEPT ![c] = v]
    BY <1>1, <1>3 DEF A!Call, A!Stage, A!Goto
  <2> HIDE DEF v
  <2>2. GoesOn(c, v)
    BY <2>1 DEF GoesOn
  <2> QED
    BY <1>3, <2>1, <2>2, MovesOn
<1> QED
  BY <1>2, <1>3

\* A call puts an object, or copies one.
LEMMA AddingKeeps ==
  ASSUME AttachmentsInv, NEW c \in A!Calls, NEW f \in A!Of(c), NEW p \in A!Places,
         objects' = objects \cup {<<f, p>>},
         call' = [call EXCEPT ![c].copied = @ \cup {f}],
         UNCHANGED <<rows, links, edits, faults>>,
         \/ c \in Uploads /\ call[c].at = "putting" /\ p = "staged"
         \/ /\ c \in Sends /\ call[c].at = "copying" /\ p = call[c].thread
            /\ rows[f].place = "staged"
  PROVE  AttachmentsInv'
<1> DEFINE v == [call[c] EXCEPT !.copied = call[c].copied \cup {f}]
<1>1. /\ call[c] \in A!Call /\ CallTrue(c) /\ A!Of(c) \subseteq Attached /\ A!TypeOK
      /\ c \in Uploads => UploadTrue(c) /\ c \notin Sends
      /\ c \in Sends => SendTrue(c) /\ c \notin Uploads
  BY OneCall DEF AttachmentsInv
<1>2. /\ v \in A!Call /\ v.at = call[c].at /\ v.locked = call[c].locked /\ v.files = call[c].files
      /\ v.thread = call[c].thread /\ v.copied = call[c].copied \cup {f}
      /\ call' = [call EXCEPT ![c] = v]
  BY <1>1 DEF A!Call
<1> HIDE DEF v
<1>3. /\ call' \in [A!Calls -> A!Call] /\ call'[c] = v /\ A!Of(c)' = A!Of(c)
      /\ \A d \in A!Calls : d # c => call'[d] = call[d] /\ A!Of(d)' = A!Of(d)
  BY <1>1, <1>2, CallMoves
<1>4. A!TypeOK'
  <2>1. <<f, p>> \in A!Object
    BY <1>1 DEF A!Object
  <2> QED
    BY <1>1, <1>3, <2>1 DEF A!TypeOK
<1>5. CallTrue(c)'
  <2>1. c \in Uploads => UploadTrue(c)'
    BY <1>1, <1>2, <1>3 DEF UploadTrue
  <2>2. c \in Sends => SendTrue(c)'
    BY <1>1, <1>2, <1>3 DEF SendTrue
  <2> QED
    BY <1>1, <1>2, <1>3, <2>1, <2>2 DEF CallTrue, UploadTrue, SendTrue
<1>6. \A d \in A!Calls : d # c => CallTrue(d)'
  <2> SUFFICES ASSUME NEW d \in A!Calls, d # c PROVE CallTrue(d)'
    OBVIOUS
  <2>1. CallTrue(d) /\ call'[d] = call[d] /\ A!Of(d)' = A!Of(d)
    BY <1>3 DEF AttachmentsInv
  <2> QED
    BY <2>1 DEF CallTrue, UploadTrue, SendTrue
<1>7. LocksApart' /\ UploadsApart'
  BY <1>2, <1>3 DEF LocksApart, UploadsApart, AttachmentsInv, A!Calls
<1>8. RowsTrue' /\ A!AvailableIsStored'
  BY DEF AttachmentsInv, RowsTrue, A!AvailableIsStored
<1>9. Accounted'
  <2> SUFFICES ASSUME faults' = 0, NEW g \in Attached, NEW q \in A!Places, <<g, q>> \in objects'
               PROVE  Named(g, q)' \/ \E d \in A!Calls : OnItsWay(d, g, q)'
    BY DEF Accounted, A!Places
  <2>1. CASE <<g, q>> \in objects
    <3>1. Named(g, q) \/ \E d \in A!Calls : OnItsWay(d, g, q)
      BY <2>1 DEF AttachmentsInv, Accounted
    <3>2. \A d \in A!Calls : OnItsWay(d, g, q) => OnItsWay(d, g, q)'
      BY <1>2, <1>3 DEF OnItsWay
    <3> QED
      BY <3>1, <3>2 DEF Named
  <2>2. CASE g = f /\ q = p
    BY <1>2, <1>3, <2>2 DEF OnItsWay
  <2> QED
    BY <2>1, <2>2
<1> QED
  BY <1>3, <1>4, <1>5, <1>6, <1>7, <1>8, <1>9 DEF AttachmentsInv

\* A call removes objects: the copies of a message that fails, under its locks,
\* or one of those that are no longer needed.
Removes(c, v, F, p) ==
  /\ F \subseteq call[c].copied /\ p \in A!Places
  /\ v \in A!Call /\ call' = [call EXCEPT ![c] = v]
  /\ objects' = objects \ (F \X {p})
  /\ UNCHANGED <<rows, links, edits>>
  /\ v.files = call[c].files /\ v.thread = call[c].thread /\ v.locked = {}
  /\ \/ /\ call[c].at = "copying" /\ c \in Sends /\ p = call[c].thread /\ v.at = "over"
        /\ v.copied = call[c].copied /\ faults' \in 0..MaxAttachmentFaults /\ faults' # 0
     \/ /\ call[c].at \in {"removing", "undoing"} /\ p = A!Doomed(c) /\ v.at = call[c].at
        /\ v.copied = call[c].copied \ F /\ faults' = faults

\* No row names them and no other call needs them.
LEMMA RemovingKeeps ==
  ASSUME AttachmentsInv, NEW c \in A!Calls, NEW F, NEW p, NEW v, Removes(c, v, F, p)
  PROVE  AttachmentsInv'
<1>0. /\ F \subseteq call[c].copied /\ p \in A!Places
      /\ v \in A!Call /\ call' = [call EXCEPT ![c] = v]
      /\ objects' = objects \ (F \X {p})
      /\ UNCHANGED <<rows, links, edits>>
      /\ v.files = call[c].files /\ v.thread = call[c].thread /\ v.locked = {}
      /\ \/ /\ call[c].at = "copying" /\ c \in Sends /\ p = call[c].thread /\ v.at = "over"
            /\ v.copied = call[c].copied /\ faults' \in 0..MaxAttachmentFaults /\ faults' # 0
         \/ /\ call[c].at \in {"removing", "undoing"} /\ p = A!Doomed(c) /\ v.at = call[c].at
            /\ v.copied = call[c].copied \ F /\ faults' = faults
  BY DEF Removes
<1>1. /\ call[c] \in A!Call /\ CallTrue(c) /\ call[c].copied \subseteq A!Of(c)
      /\ A!Of(c) \subseteq Attached /\ A!TypeOK
      /\ c \in Uploads => UploadTrue(c) /\ c \notin Sends
      /\ c \in Sends => SendTrue(c) /\ c \notin Uploads
  BY <1>0, OneCall DEF AttachmentsInv
<1>2. /\ call' \in [A!Calls -> A!Call] /\ call'[c] = v /\ A!Of(c)' = A!Of(c)
      /\ \A d \in A!Calls : d # c => call'[d] = call[d] /\ A!Of(d)' = A!Of(d)
  BY <1>0, <1>1, CallMoves
<1>3. \A f \in F : /\ ~(rows[f].state = "live" /\ rows[f].place = p)
                   /\ \A d \in Uploads \ {c} :
                        call[d].at = "putting" /\ f \in call[d].copied => p # "staged"
                   /\ \A d \in Sends \ {c} :
                        call[d].at = "copying" /\ f \in call[d].copied => p # call[d].thread
  <2> SUFFICES ASSUME NEW f \in F
               PROVE  /\ ~(rows[f].state = "live" /\ rows[f].place = p)
                      /\ \A d \in Uploads \ {c} :
                           call[d].at = "putting" /\ f \in call[d].copied => p # "staged"
                      /\ \A d \in Sends \ {c} :
                           call[d].at = "copying" /\ f \in call[d].copied => p # call[d].thread
    OBVIOUS
  <2>1. f \in call[c].copied /\ f \in A!Of(c) /\ f \in Attached
    BY <1>0, <1>1
  <2>2. \A d \in Sends : /\ SendTrue(d) /\ d \in A!Calls
                         /\ call[d].at # "idle" => call[d].thread # "staged" /\ call[d].thread \in Reach[d]
    BY <1>0, OneCall, AttachmentParameters DEF SendTrue, A!Calls
  <2>3. \A d \in Uploads : UploadTrue(d) /\ call[d].copied \subseteq A!Of(d)
    BY <1>0, OneCall DEF A!Calls
  <2>4. CASE call[c].at = "copying" /\ c \in Sends /\ p = call[c].thread
    <3>1. rows[f].place = "staged" /\ p # "staged" /\ f \in call[c].locked
      BY <1>0, <1>1, <2>1, <2>2, <2>4 DEF SendTrue
    <3>2. \A d \in Sends \ {c} : call[d].at = "copying" => f \notin call[d].copied
      <4> SUFFICES ASSUME NEW d \in Sends \ {c}, call[d].at = "copying", f \in call[d].copied
                   PROVE  FALSE
        OBVIOUS
      <4>1. f \in call[d].locked
        BY <1>0, <2>2, OneCall DEF SendTrue
      <4> QED
        BY <1>0, <2>2, <3>1, <4>1 DEF AttachmentsInv, LocksApart
    <3> QED
      BY <1>0, <3>1, <3>2
  <2>5. CASE call[c].at = "removing" /\ c \in Sends /\ p = "staged"
    <3>1. rows[f].place # "staged" /\ rows[f].state # "none"
      BY <1>0, <1>1, <2>1, <2>5 DEF SendTrue, AttachmentsInv, RowsTrue
    <3> QED
      BY <1>0, <2>2, <2>3, <2>5, <3>1 DEF UploadTrue
  <2>6. CASE call[c].at = "undoing" /\ c \in Uploads /\ p = "staged"
    <3>1. rows[f].state = "none"
      BY <1>0, <1>1, <2>1, <2>6 DEF UploadTrue
    <3> QED
      BY <1>0, <2>1, <2>2, <2>3, <2>6, <3>1 DEF UploadsApart, AttachmentsInv
  <2>7. CASE call[c].at = "undoing" /\ c \in Sends /\ p = call[c].thread
    <3>1. rows[f].place # p /\ p # "staged" /\ p \in Reach[c] /\ "insert" \in AttachmentFaults
      BY <1>0, <1>1, <2>1, <2>2, <2>7 DEF SendTrue
    <3>2. \A d \in Sends \ {c} : Reach[c] \cap Reach[d] = {}
      BY <1>0, <2>7, <3>1, AttachmentParameters
    <3> QED
      BY <1>0, <2>2, <3>1, <3>2
  <2> QED
    BY <1>0, <1>1, <2>4, <2>5, <2>6, <2>7 DEF A!Doomed, UploadTrue, A!Calls
<1>4. A!TypeOK'
  BY <1>0, <1>1, <1>2 DEF A!TypeOK
<1>5. CallTrue(c)'
  <2>1. c \in Uploads => UploadTrue(c)'
    BY <1>0, <1>1, <1>2 DEF UploadTrue
  <2>2. c \in Sends => SendTrue(c)'
    BY <1>0, <1>1, <1>2 DEF SendTrue
  <2> QED
    BY <1>0, <1>1, <1>2, <2>1, <2>2 DEF CallTrue
<1>6. \A d \in A!Calls : d # c => CallTrue(d)'
  <2> SUFFICES ASSUME NEW d \in A!Calls, d # c PROVE CallTrue(d)'
    OBVIOUS
  <2>1. CallTrue(d) /\ call'[d] = call[d] /\ A!Of(d)' = A!Of(d)
    BY <1>0, <1>2 DEF AttachmentsInv
  <2>2. d \in Uploads /\ UploadTrue(d) => UploadTrue(d)'
    BY <1>0, <1>3, <2>1 DEF UploadTrue
  <2>3. d \in Sends /\ SendTrue(d) => SendTrue(d)'
    BY <1>0, <1>3, <2>1 DEF SendTrue
  <2> QED
    BY <1>0, <2>1, <2>2, <2>3 DEF CallTrue
<1>7. LocksApart' /\ UploadsApart'
  BY <1>0, <1>2 DEF LocksApart, UploadsApart, AttachmentsInv, A!Calls
<1>8. RowsTrue' /\ A!AvailableIsStored'
  BY <1>0, <1>3 DEF AttachmentsInv, RowsTrue, A!AvailableIsStored
<1>9. Accounted'
  <2> SUFFICES ASSUME faults' = 0, NEW g \in Attached, NEW q \in A!Places, <<g, q>> \in objects'
               PROVE  Named(g, q)' \/ \E d \in A!Calls : OnItsWay(d, g, q)'
    BY <1>0 DEF Accounted, A!Places
  <2>1. faults = 0 /\ <<g, q>> \in objects /\ ~(g \in F /\ q = p)
    BY <1>0
  <2>2. Named(g, q) \/ \E d \in A!Calls : OnItsWay(d, g, q)
    BY <1>0, <2>1 DEF AttachmentsInv, Accounted
  <2>3. \A d \in A!Calls : d # c /\ OnItsWay(d, g, q) => OnItsWay(d, g, q)'
    BY <1>0, <1>2 DEF OnItsWay
  <2>4. OnItsWay(c, g, q) => OnItsWay(c, g, q)'
    <3>1. call[c].at \in {"removing", "undoing"} /\ p = A!Doomed(c) /\ v.at = call[c].at
          /\ v.copied = call[c].copied \ F
      BY <1>0
    <3>2. call[c].at = "removing" => p = "staged"
      BY <1>0, <3>1 DEF A!Doomed
    <3> QED
      BY <1>0, <1>2, <2>1, <3>1, <3>2 DEF OnItsWay
  <2> QED
    BY <1>0, <2>2, <2>3, <2>4 DEF Named
<1> QED
  BY <1>0, <1>2, <1>4, <1>5, <1>6, <1>7, <1>8, <1>9 DEF AttachmentsInv

LEMMA RemoveObjectKeeps ==
  ASSUME AttachmentsInv, NEW c \in A!Calls, A!RemoveObject(c)
  PROVE  AttachmentsInv'
<1>1. call[c].at \in {"removing", "undoing"} /\ UNCHANGED <<rows, links, edits>>
  BY DEF A!RemoveObject
<1>2. /\ call[c] \in A!Call /\ call[c].locked = {}
      /\ c \in Sends => SendTrue(c)
  BY <1>1, OneCall DEF UploadTrue, SendTrue, A!Calls
<1>3. ASSUME NEW f \in call[c].copied, objects' = objects \ {<<f, A!Doomed(c)>>}, UNCHANGED faults,
             call' = [call EXCEPT ![c].copied = @ \ {f}]
      PROVE  AttachmentsInv'
  <2> DEFINE v == [call[c] EXCEPT !.copied = call[c].copied \ {f}]
             p == A!Doomed(c)
             F == {f}
  <2>1. v \in A!Call /\ F \subseteq call[c].copied /\ call' = [call EXCEPT ![c] = v]
    BY <1>2, <1>3 DEF A!Call
  <2>2. p \in A!Places
    BY <1>2 DEF A!Doomed, A!Places, A!Call
  <2>3. Removes(c, v, F, p)
    BY <1>1, <1>2, <1>3, <2>1, <2>2 DEF Removes
  <2> QED
    BY <2>3, RemovingKeeps
<1>4. ASSUME \/ \E f \in call[c].copied : /\ A!Fault("storage") /\ UNCHANGED objects
                                          /\ call' = [call EXCEPT ![c].copied = @ \ {f}]
             \/ call[c].copied = {} /\ A!Goto(c, "over") /\ UNCHANGED <<objects, faults>>
      PROVE  AttachmentsInv'
  BY <1>1, <1>4, RemovesNothingKeeps
<1> QED
  BY <1>3, <1>4 DEF A!RemoveObject

LEMMA PutObjectKeeps ==
  ASSUME AttachmentsInv, NEW c \in Uploads, A!PutObject(c)
  PROVE  AttachmentsInv'
BY AddingKeeps DEF A!PutObject, A!Calls, A!Places

LEMMA CopyObjectKeeps ==
  ASSUME AttachmentsInv, NEW c \in Sends, A!CopyObject(c)
  PROVE  AttachmentsInv'
<1>1. /\ c \in A!Calls /\ call[c] \in A!Call /\ SendTrue(c) /\ A!Of(c) \subseteq Attached
      /\ call[c].at = "copying" /\ UNCHANGED <<rows, links, edits>>
  BY OneCall DEF A!Calls, A!CopyObject
<1>2. call[c].thread \in A!Places
  BY <1>1 DEF A!Call, A!Places
<1>3. PICK f \in A!ToCopy(c) :
       \/ /\ <<f, "staged">> \in objects
          /\ objects' = objects \cup {<<f, call[c].thread>>}
          /\ call' = [call EXCEPT ![c].copied = @ \cup {f}]
          /\ UNCHANGED faults
       \/ /\ \/ <<f, "staged">> \notin objects /\ UNCHANGED faults
             \/ A!Fault("storage")
          /\ objects' = objects \ (call[c].copied \X {call[c].thread})
          /\ A!Leave(c, "over")
  BY DEF A!CopyObject
<1>4. f \in A!Of(c) /\ rows[f].place = "staged"
  BY DEF A!ToCopy
<1>5. <<f, "staged">> \in objects
  <2>1. rows[f].state = "live"
    BY <1>1, <1>4 DEF SendTrue
  <2> QED
    BY <1>1, <1>4, <2>1 DEF AttachmentsInv, A!AvailableIsStored
<1>6. CASE /\ objects' = objects \cup {<<f, call[c].thread>>}
           /\ call' = [call EXCEPT ![c].copied = @ \cup {f}]
           /\ UNCHANGED faults
  BY <1>1, <1>2, <1>4, <1>6, AddingKeeps
<1>7. CASE /\ A!Fault("storage")
           /\ objects' = objects \ (call[c].copied \X {call[c].thread})
           /\ A!Leave(c, "over")
  <2> DEFINE v == [call[c] EXCEPT !.at = "over", !.locked = {}]
  <2>1. /\ v \in A!Call /\ v.at = "over" /\ v.locked = {} /\ v.files = call[c].files
        /\ v.thread = call[c].thread /\ v.copied = call[c].copied
        /\ call' = [call EXCEPT ![c] = v]
    BY <1>1, <1>7 DEF A!Call, A!Stage, A!Leave
  <2> HIDE DEF v
  <2>2. faults' \in 0..MaxAttachmentFaults /\ faults' # 0
    BY <1>7, AttachmentFaultCounts DEF AttachmentsInv
  <2>3. Removes(c, v, call[c].copied, call[c].thread)
    BY <1>1, <1>2, <1>7, <2>1, <2>2 DEF Removes
  <2> QED
    BY <1>1, <2>3, RemovingKeeps
<1> QED
  BY <1>3, <1>5, <1>6, <1>7

\* The rows change while the storage stays.
LEMMA RowsKeep ==
  ASSUME AttachmentsInv, UNCHANGED <<objects, faults>>, edits' \in 0..MaxEdits,
         rows' \in [Attached -> A!Row], links' \in [Sends -> Seq(Attached)],
         call' \in [A!Calls -> A!Call], LocksApart', UploadsApart',
         \A d \in A!Calls : CallTrue(d)',
         \A f \in Attached :
           /\ rows'[f].state = "none" => rows[f].state = "none" /\ rows'[f].place = rows[f].place
           /\ rows'[f].state = "live" => <<f, rows'[f].place>> \in objects,
         \A f \in Attached, p \in A!Places :
           /\ Named(f, p) => Named(f, p)' \/ \E d \in A!Calls : OnItsWay(d, f, p)'
           /\ \A d \in A!Calls :
                OnItsWay(d, f, p) => Named(f, p)' \/ \E e \in A!Calls : OnItsWay(e, f, p)'
  PROVE  AttachmentsInv'
<1>1. A!TypeOK'
  BY DEF AttachmentsInv, A!TypeOK
<1>2. RowsTrue' /\ A!AvailableIsStored'
  BY DEF AttachmentsInv, RowsTrue, A!AvailableIsStored
<1>3. Accounted'
  <2> SUFFICES ASSUME faults' = 0, NEW g \in Attached, NEW q \in A!Places, <<g, q>> \in objects'
               PROVE  Named(g, q)' \/ \E d \in A!Calls : OnItsWay(d, g, q)'
    BY DEF Accounted, A!Places
  <2>1. Named(g, q) \/ \E d \in A!Calls : OnItsWay(d, g, q)
    BY DEF AttachmentsInv, Accounted
  <2> QED
    BY <2>1
<1> QED
  BY <1>1, <1>2, <1>3 DEF AttachmentsInv

LEMMA InsertRowsKeeps ==
  ASSUME AttachmentsInv, NEW c \in Uploads, call[c].at = "putting", A!Of(c) = call[c].copied,
         A!InsertRows(c), A!Leave(c, "over"), UNCHANGED <<objects, links, edits, faults>>
  PROVE  AttachmentsInv'
<1>1. /\ c \in A!Calls /\ call[c] \in A!Call /\ UploadTrue(c) /\ c \notin Sends /\ A!Of(c) \subseteq Attached
      /\ A!TypeOK
  BY OneCall DEF A!Calls, AttachmentsInv
<1> DEFINE v == [call[c] EXCEPT !.at = "over", !.locked = {}]
<1>2. /\ v \in A!Call /\ v.at = "over" /\ v.locked = {} /\ v.files = call[c].files
      /\ v.thread = call[c].thread /\ v.copied = call[c].copied
      /\ call' = [call EXCEPT ![c] = v]
  BY <1>1 DEF A!Call, A!Stage, A!Leave
<1> HIDE DEF v
<1>3. /\ call' \in [A!Calls -> A!Call] /\ call'[c] = v /\ A!Of(c)' = A!Of(c)
      /\ \A d \in A!Calls : d # c => call'[d] = call[d] /\ A!Of(d)' = A!Of(d)
  BY <1>1, <1>2, CallMoves
<1>4. \A f \in Attached : /\ rows[f] \in A!Row /\ rows'[f] \in A!Row
                          /\ rows'[f].place = rows[f].place
                          /\ rows'[f].state = IF f \in A!Of(c) THEN "live" ELSE rows[f].state
  BY <1>1 DEF A!InsertRows, A!TypeOK, A!Row
<1>5. rows' \in [Attached -> A!Row]
  BY <1>4 DEF A!InsertRows
<1>6. \A f \in A!Of(c) : rows[f].state = "none" /\ rows[f].place = "staged" /\ <<f, "staged">> \in objects
  BY <1>1 DEF UploadTrue, AttachmentsInv, RowsTrue
<1>7. \A f \in Attached :
        /\ rows'[f].state = "none" => rows[f].state = "none" /\ rows'[f].place = rows[f].place
        /\ rows'[f].state = "live" => <<f, rows'[f].place>> \in objects
  BY <1>4, <1>6 DEF AttachmentsInv, A!AvailableIsStored
<1>8. \A d \in A!Calls : CallTrue(d)'
  <2> SUFFICES ASSUME NEW d \in A!Calls PROVE CallTrue(d)'
    OBVIOUS
  <2>1. CASE d = c
    BY <1>1, <1>2, <1>3, <2>1, OneCall DEF CallTrue, UploadTrue
  <2>2. CASE d # c
    <3>1. /\ CallTrue(d) /\ call'[d] = call[d] /\ A!Of(d)' = A!Of(d) /\ A!Of(d) \subseteq Attached
      BY <1>3, <2>2, OneCall
    <3>2. d \in Uploads => A!Of(c) \cap A!Of(d) = {}
      BY <2>2 DEF UploadsApart, AttachmentsInv
    <3>3. d \in Uploads => UploadTrue(d)'
      BY <1>4, <3>1, <3>2 DEF CallTrue, UploadTrue
    <3>4. d \in Sends => SendTrue(d)'
      BY <1>4, <3>1 DEF CallTrue, SendTrue
    <3> QED
      BY <3>1, <3>3, <3>4 DEF CallTrue
  <2> QED
    BY <2>1, <2>2
<1>9. LocksApart' /\ UploadsApart'
  BY <1>2, <1>3 DEF LocksApart, UploadsApart, AttachmentsInv, A!Calls
<1>10. \A f \in Attached, p \in A!Places :
         /\ Named(f, p) => Named(f, p)'
         /\ \A d \in A!Calls : OnItsWay(d, f, p) => Named(f, p)' \/ OnItsWay(d, f, p)'
  <2> SUFFICES ASSUME NEW f \in Attached, NEW p \in A!Places
               PROVE  /\ Named(f, p) => Named(f, p)'
                      /\ \A d \in A!Calls : OnItsWay(d, f, p) => Named(f, p)' \/ OnItsWay(d, f, p)'
    BY DEF A!Places
  <2>1. Named(f, p) => Named(f, p)'
    BY <1>4 DEF Named
  <2>2. OnItsWay(c, f, p) => Named(f, p)'
    <3>1. OnItsWay(c, f, p) => f \in A!Of(c) /\ p = "staged"
      BY DEF OnItsWay
    <3> QED
      BY <1>4, <1>6, <3>1 DEF Named
  <2>3. \A d \in A!Calls : d # c /\ OnItsWay(d, f, p) => OnItsWay(d, f, p)'
    BY <1>3 DEF OnItsWay
  <2> QED
    BY <2>1, <2>2, <2>3
<1>11. edits' \in 0..MaxEdits /\ links' \in [Sends -> Seq(Attached)]
  BY <1>1 DEF A!TypeOK
<1> QED
  BY <1>3, <1>5, <1>7, <1>8, <1>9, <1>10, <1>11, RowsKeep

LEMMA CommitUploadKeeps ==
  ASSUME AttachmentsInv, NEW c \in Uploads, A!CommitUpload(c)
  PROVE  AttachmentsInv'
<1>1. /\ call[c].at = "putting" /\ A!Of(c) = call[c].copied /\ c \in A!Calls
      /\ UNCHANGED <<objects, links, edits>>
  BY DEF A!CommitUpload, A!Calls
<1>2. CASE A!InsertRows(c) /\ A!Leave(c, "over") /\ UNCHANGED faults
  BY <1>1, <1>2, InsertRowsKeeps
<1>3. CASE A!Fault("insert") /\ A!Leave(c, "undoing") /\ UNCHANGED rows
  BY <1>1, <1>3, FailingKeeps
<1> QED
  BY <1>2, <1>3 DEF A!CommitUpload

LEMMA MoveRowsKeeps ==
  ASSUME AttachmentsInv, NEW c \in Sends, call[c].at = "copying", A!ToCopy(c) = {},
         A!MoveRows(c), A!Leave(c, "removing"), UNCHANGED <<objects, edits, faults>>
  PROVE  AttachmentsInv'
<1>1. /\ c \in A!Calls /\ call[c] \in A!Call /\ SendTrue(c) /\ c \notin Uploads /\ A!Of(c) \subseteq Attached
      /\ A!TypeOK /\ CallTrue(c) /\ call[c].copied \subseteq A!Of(c)
  BY OneCall DEF A!Calls, AttachmentsInv
<1>2. call[c].thread \in SentTo /\ call[c].thread # "staged" /\ call[c].thread \in Reach[c]
  BY <1>1, AttachmentParameters DEF SendTrue, A!Call
<1> DEFINE v == [call[c] EXCEPT !.at = "removing", !.locked = {}]
<1>3. /\ v \in A!Call /\ v.at = "removing" /\ v.locked = {} /\ v.files = call[c].files
      /\ v.thread = call[c].thread /\ v.copied = call[c].copied
      /\ call' = [call EXCEPT ![c] = v]
  BY <1>1 DEF A!Call, A!Stage, A!Leave
<1> HIDE DEF v
<1>4. /\ call' \in [A!Calls -> A!Call] /\ call'[c] = v /\ A!Of(c)' = A!Of(c)
      /\ \A d \in A!Calls : d # c => call'[d] = call[d] /\ A!Of(d)' = A!Of(d)
  BY <1>1, <1>3, CallMoves
<1>5. \A f \in Attached : /\ rows[f] \in A!Row /\ rows'[f] \in A!Row
                          /\ rows'[f].place = IF f \in call[c].copied THEN call[c].thread ELSE rows[f].place
                          /\ rows'[f].state = rows[f].state
  BY <1>1, <1>2 DEF A!MoveRows, A!TypeOK, A!Row, A!Places
<1>6. rows' \in [Attached -> A!Row]
  BY <1>5 DEF A!MoveRows
<1>7. \A f \in call[c].copied : /\ f \in Attached /\ rows[f].state = "live" /\ rows[f].place = "staged"
                                /\ <<f, call[c].thread>> \in objects /\ f \in call[c].locked
  BY <1>1 DEF SendTrue
<1>8. \A f \in Attached :
        /\ rows'[f].state = "none" => rows[f].state = "none" /\ rows'[f].place = rows[f].place
        /\ rows'[f].state = "live" => <<f, rows'[f].place>> \in objects
  BY <1>5, <1>7 DEF AttachmentsInv, A!AvailableIsStored
<1>9. CallTrue(c)'
  <2>1. SendTrue(c)'
    BY <1>1, <1>2, <1>3, <1>4, <1>5, <1>7 DEF SendTrue
  <2> QED
    BY <1>1, <1>3, <1>4, <2>1 DEF CallTrue
<1>10. \A d \in A!Calls : d # c => CallTrue(d)'
  <2> SUFFICES ASSUME NEW d \in A!Calls, d # c PROVE CallTrue(d)'
    OBVIOUS
  <2>1. /\ CallTrue(d) /\ call'[d] = call[d] /\ A!Of(d)' = A!Of(d) /\ A!Of(d) \subseteq Attached
    BY <1>4, OneCall
  <2>2. d \in Uploads => UploadTrue(d)'
    BY <1>5, <2>1 DEF CallTrue, UploadTrue
  <2>3. ASSUME d \in Sends PROVE SendTrue(d)'
    <3>1. SendTrue(d) /\ call[d].copied \subseteq A!Of(d) /\ call[d].locked \subseteq A!Of(d)
      BY <2>1, <2>3 DEF CallTrue
    <3>2. call[d].at = "copying" => \A f \in call[d].copied : f \notin call[c].copied
      <4>1. call[d].locked \cap call[c].locked = {}
        BY <1>1 DEF LocksApart, AttachmentsInv
      <4>2. call[d].at = "copying" => call[d].copied \subseteq call[d].locked
        BY <3>1 DEF SendTrue
      <4> QED
        BY <1>7, <4>1, <4>2
    <3>3. call[d].at = "undoing" => call[d].thread # call[c].thread
      BY <1>2, <2>3, <3>1, AttachmentParameters DEF SendTrue
    <3>4. \A f \in A!Of(d) : /\ rows'[f].state = rows[f].state
                             /\ \/ rows'[f].place = rows[f].place
                                \/ f \in call[c].copied /\ rows'[f].place = call[c].thread
      BY <1>5, <2>1
    <3>5. call[d].at = "copying" => \A f \in call[d].copied : rows'[f].place = "staged"
      BY <3>1, <3>2, <3>4 DEF SendTrue
    <3>6. call[d].at = "removing" => \A f \in call[d].copied : rows'[f].place # "staged"
      BY <1>2, <3>1, <3>4 DEF SendTrue
    <3>7. call[d].at = "undoing" => \A f \in call[d].copied : rows'[f].place # call[d].thread
      BY <3>1, <3>3, <3>4 DEF SendTrue
    <3> QED
      BY <2>1, <3>1, <3>4, <3>5, <3>6, <3>7 DEF SendTrue
  <2> QED
    BY <2>1, <2>2, <2>3 DEF CallTrue
<1>11. LocksApart' /\ UploadsApart'
  BY <1>3, <1>4 DEF LocksApart, UploadsApart, AttachmentsInv, A!Calls
<1>12. \A f \in Attached, p \in A!Places :
         /\ Named(f, p) => Named(f, p)' \/ OnItsWay(c, f, p)'
         /\ \A d \in A!Calls : OnItsWay(d, f, p) => Named(f, p)' \/ OnItsWay(d, f, p)'
  <2> SUFFICES ASSUME NEW f \in Attached, NEW p \in A!Places
               PROVE  /\ Named(f, p) => Named(f, p)' \/ OnItsWay(c, f, p)'
                      /\ \A d \in A!Calls : OnItsWay(d, f, p) => Named(f, p)' \/ OnItsWay(d, f, p)'
    BY DEF A!Places
  <2>1. Named(f, p) => Named(f, p)' \/ OnItsWay(c, f, p)'
    BY <1>3, <1>4, <1>5, <1>7 DEF Named, OnItsWay
  <2>2. OnItsWay(c, f, p) => Named(f, p)'
    <3>1. OnItsWay(c, f, p) => f \in call[c].copied /\ p = call[c].thread
      BY DEF OnItsWay
    <3> QED
      BY <1>5, <1>7, <3>1 DEF Named
  <2>3. \A d \in A!Calls : d # c /\ OnItsWay(d, f, p) => OnItsWay(d, f, p)'
    BY <1>4 DEF OnItsWay
  <2> QED
    BY <2>1, <2>2, <2>3
<1>13. edits' \in 0..MaxEdits /\ links' \in [Sends -> Seq(Attached)]
  BY <1>1 DEF A!TypeOK, A!MoveRows, A!Call
<1> QED
  BY <1>1, <1>4, <1>6, <1>8, <1>9, <1>10, <1>11, <1>12, <1>13, RowsKeep

LEMMA CommitSendKeeps ==
  ASSUME AttachmentsInv, NEW c \in Sends, A!CommitSend(c)
  PROVE  AttachmentsInv'
<1>1. call[c].at = "copying" /\ A!ToCopy(c) = {} /\ c \in A!Calls /\ UNCHANGED <<objects, edits>>
  BY DEF A!CommitSend, A!Calls
<1>2. CASE A!MoveRows(c) /\ A!Leave(c, "removing") /\ UNCHANGED faults
  BY <1>1, <1>2, MoveRowsKeeps
<1>3. CASE A!Fault("insert") /\ A!Leave(c, "undoing") /\ UNCHANGED <<rows, links>>
  BY <1>1, <1>3, FailingKeeps
<1> QED
  BY <1>2, <1>3 DEF A!CommitSend

LEMMA EditKeeps ==
  ASSUME AttachmentsInv, NEW f \in Attached, A!DeleteAttachment(f) \/ A!RenameAttachment(f)
  PROVE  AttachmentsInv'
<1>1. /\ A!TypeOK /\ rows[f].state = "live" /\ UNCHANGED <<objects, links, call, faults>>
      /\ edits < MaxEdits /\ edits' = edits + 1 /\ \A c \in A!Calls : f \notin call[c].locked
  BY DEF AttachmentsInv, A!DeleteAttachment, A!RenameAttachment, A!Edit
<1>2. edits' \in 0..MaxEdits /\ links' \in [Sends -> Seq(Attached)] /\ call' \in [A!Calls -> A!Call]
  <2>1. edits' \in 0..MaxEdits
    BY <1>1, AttachmentParameters DEF A!TypeOK
  <2> QED
    BY <1>1, <2>1 DEF A!TypeOK
<1>3. /\ rows' \in [Attached -> A!Row]
      /\ \A g \in Attached : /\ rows'[g].place = rows[g].place
                             /\ g # f => rows'[g] = rows[g]
                             /\ rows'[f].state \in {"live", "deleted"}
  <2>1. PICK r \in {[rows[f] EXCEPT !.state = "deleted"], [rows[f] EXCEPT !.renamed = TRUE]} :
          rows' = [rows EXCEPT ![f] = r]
    BY DEF A!DeleteAttachment, A!RenameAttachment
  <2>2. rows[f] \in A!Row
    BY <1>1 DEF A!TypeOK
  <2>3. r \in A!Row /\ r.place = rows[f].place /\ r.state \in {"live", "deleted"}
    BY <1>1, <2>2 DEF A!Row
  <2> QED
    BY <1>1, <2>1, <2>3 DEF A!TypeOK
<1>4. \A g \in Attached :
        /\ rows'[g].state = "none" => rows[g].state = "none" /\ rows'[g].place = rows[g].place
        /\ rows'[g].state = "live" => <<g, rows'[g].place>> \in objects
  BY <1>1, <1>3 DEF AttachmentsInv, A!AvailableIsStored
<1>5. \A d \in A!Calls : CallTrue(d)'
  <2> SUFFICES ASSUME NEW d \in A!Calls PROVE CallTrue(d)'
    OBVIOUS
  <2>1. CallTrue(d) /\ call'[d] = call[d] /\ A!Of(d)' = A!Of(d) /\ A!Of(d) \subseteq Attached
    BY <1>1, OneCall DEF A!Of
  <2>2. d \in Uploads => UploadTrue(d)'
    BY <1>1, <1>3, <2>1 DEF CallTrue, UploadTrue
  <2>3. d \in Sends => SendTrue(d)'
    BY <1>1, <1>3, <2>1 DEF CallTrue, SendTrue
  <2> QED
    BY <2>1, <2>2, <2>3 DEF CallTrue
<1>6. LocksApart' /\ UploadsApart'
  BY SMTT(30), <1>1 DEF AttachmentsInv, LocksApart, UploadsApart, A!Of
<1>7. \A g \in Attached, p \in A!Places :
        /\ Named(g, p) => Named(g, p)'
        /\ \A d \in A!Calls : OnItsWay(d, g, p) => OnItsWay(d, g, p)'
  BY <1>1, <1>3 DEF Named, OnItsWay
<1> QED
  BY <1>1, <1>2, <1>3, <1>4, <1>5, <1>6, <1>7, RowsKeep

LEMMA AttachmentsKeep == AttachmentsInv /\ [A!Next]_A!vars => AttachmentsInv'
<1> SUFFICES ASSUME AttachmentsInv, [A!Next]_A!vars PROVE AttachmentsInv'
  OBVIOUS
<1>1. ASSUME NEW c \in Uploads, A!UploadNext(c) PROVE AttachmentsInv'
  <2>1. CASE A!PutFails(c)
    BY <2>1, FailingKeeps DEF A!Calls
  <2> QED
    BY <1>1, <2>1, FirstPutKeeps, PutObjectKeeps, CommitUploadKeeps DEF A!UploadNext
<1>2. ASSUME NEW c \in Sends, A!SendNext(c) PROVE AttachmentsInv'
  BY <1>2, StartSendKeeps, LockRowKeeps, CopyObjectKeeps, CommitSendKeeps DEF A!SendNext
<1>3. ASSUME NEW c \in A!Calls, A!RemoveObject(c) \/ A!Crash(c) PROVE AttachmentsInv'
  BY <1>3, RemoveObjectKeeps, FailingKeeps
<1>4. ASSUME NEW f \in Attached, A!DeleteAttachment(f) \/ A!RenameAttachment(f) PROVE AttachmentsInv'
  BY <1>4, EditKeeps
<1>5. CASE UNCHANGED A!vars
  <2>1. UNCHANGED <<rows, objects, links, call, edits, faults>>
    BY <1>5 DEF A!vars
  <2>2. \A c \in A!Calls : A!Of(c)' = A!Of(c)
    BY <2>1 DEF A!Of
  <2>6. A!TypeOK' /\ LocksApart'
    BY <2>1 DEF AttachmentsInv, A!TypeOK, LocksApart
  <2>7. UploadsApart'
    BY <2>2 DEF AttachmentsInv, UploadsApart, A!Calls
  <2>3. \A c \in A!Calls : CallTrue(c)'
    BY <2>1, <2>2 DEF AttachmentsInv, CallTrue, UploadTrue, SendTrue
  <2>4. RowsTrue' /\ A!AvailableIsStored'
    BY <2>1 DEF AttachmentsInv, RowsTrue, A!AvailableIsStored
  <2>5. Accounted'
    BY <2>1 DEF AttachmentsInv, Accounted, Named, OnItsWay
  <2> QED
    BY <2>3, <2>4, <2>5, <2>6, <2>7 DEF AttachmentsInv
<1> QED
  BY <1>1, <1>2, <1>3, <1>4, <1>5 DEF A!Next

LEMMA AttachmentsInvSuffices == AttachmentsInv => A!ObjectsMatchRows
<1> SUFFICES ASSUME AttachmentsInv PROVE A!ObjectsMatchRows
  OBVIOUS
<1>1. A!NothingLeftBehind
  <2> SUFFICES ASSUME faults = 0, \A c \in A!Calls : call[c].at \in {"idle", "over"}, NEW o \in objects
               PROVE  rows[o[1]].state # "none" /\ rows[o[1]].place = o[2]
    BY DEF A!NothingLeftBehind
  <2>1. PICK f \in Attached, p \in A!Places : o = <<f, p>>
    BY DEF AttachmentsInv, A!TypeOK, A!Object
  <2>2. Named(f, p) \/ \E c \in A!Calls : OnItsWay(c, f, p)
    BY <2>1 DEF AttachmentsInv, Accounted
  <2> QED
    BY <2>1, <2>2 DEF Named, OnItsWay
<1> QED
  BY <1>1 DEF A!ObjectsMatchRows, AttachmentsInv

LEMMA AttachmentsHold == A!Spec => []AttachmentsInv
<1>1. A!Init => AttachmentsInv
  BY AttachmentsStart
<1>2. AttachmentsInv /\ [A!Next]_A!vars => AttachmentsInv'
  BY AttachmentsKeep
<1> QED
  BY <1>1, <1>2, PTL DEF A!Spec

-----------------------------------------------------------------------------
(* The theorems.                                                           *)

\* The variables keep their types, whatever fails.
THEOREM TypeCorrect == A!Spec => []A!TypeOK
<1>1. AttachmentsInv => A!TypeOK
  BY DEF AttachmentsInv
<1> QED
  BY <1>1, AttachmentsHold, PTL

\* An attachment that the page calls available has its object in the bucket, and
\* calls without a fault leave no object behind that no row names, however uploads,
\* sends and the library are interleaved (attachment_service.py: upload_attachments,
\* prepare_message_attachments, delete_copied_sources, delete_copied_targets).
THEOREM StorageMatchesRows == A!Spec => []A!ObjectsMatchRows
<1>1. AttachmentsInv => A!ObjectsMatchRows
  BY AttachmentsInvSuffices
<1> QED
  BY <1>1, AttachmentsHold, PTL

-----------------------------------------------------------------------------
(* The knowledge files.                                                    *)

LEMMA Fresh == K!NewCall \in K!Call /\ K!NoRow \in K!Row
PROOF BY FileParameters DEF K!NewCall, K!Call, K!NoRow, K!Row, K!Stage, K!Status

\* What a step leaves of the calls: c is at `stage` for the same work, or over.
FileMoved(c, stage) ==
  /\ fileCall' \in [FileCalls -> K!Call]
  /\ fileCall'[c].at = stage
  /\ fileCall'[c].kind = fileCall[c].kind /\ fileCall'[c].file = fileCall[c].file
  /\ \A d \in FileCalls \ {c} : fileCall'[d] = fileCall[d]

Kept(c) == fileCall'[c].row = fileCall[c].row
KeptModel(c) == fileCall'[c].model = fileCall[c].model /\ fileCall'[c].first = fileCall[c].first

Ended(c) ==
  /\ fileCall' \in [FileCalls -> K!Call]
  /\ fileCall'[c].at = "idle"
  /\ \A d \in FileCalls \ {c} : fileCall'[d] = fileCall[d]

LEMMA FileGoes ==
  ASSUME K!TypeOK, NEW c \in FileCalls, NEW s \in K!Stage, K!Goto(c, s)
  PROVE  FileMoved(c, s) /\ Kept(c) /\ KeptModel(c)
PROOF BY DEF K!TypeOK, K!Goto, K!Call, FileMoved, Kept, KeptModel

LEMMA Ends ==
  ASSUME K!TypeOK, NEW c \in FileCalls, K!End(c)
  PROVE  Ended(c)
PROOF
<1>1. K!NewCall \in K!Call /\ K!NewCall.at = "idle"
  BY Fresh DEF K!NewCall
<1> QED  BY <1>1 DEF K!TypeOK, K!End, Ended

\* Only the columns that change are written.
Wrote(c, new) ==
  /\ files' \in [BaseFiles -> K!Row]
  /\ \A f \in BaseFiles \ {K!F(c)} : files'[f] = files[f]
  /\ files'[K!F(c)].status = IF new.status # fileCall[c].row.status THEN new.status
                                                                     ELSE files[K!F(c)].status
  /\ files'[K!F(c)].markdown = IF new.markdown # fileCall[c].row.markdown THEN new.markdown
                                                                           ELSE files[K!F(c)].markdown

LEMMA Flushes ==
  ASSUME K!TypeOK, NEW c \in FileCalls, NEW new \in K!Row, K!Flush(c, new)
  PROVE  Wrote(c, new)
PROOF
<1>1. /\ files \in [BaseFiles -> K!Row] /\ K!F(c) \in BaseFiles
      /\ files[K!F(c)] \in K!Row /\ fileCall[c].row \in K!Row
  BY DEF K!TypeOK, K!F, K!Call
<1>. DEFINE old == files[K!F(c)]
            had == fileCall[c].row
            put == [k \in DOMAIN K!NoRow |-> IF new[k] # had[k] THEN new[k] ELSE old[k]]
<1>2. DOMAIN K!NoRow = {"status", "markdown", "error"}
  BY DEF K!NoRow
<1>3. put \in K!Row
  <2>1. put = [status |-> put["status"], markdown |-> put["markdown"], error |-> put["error"]]
    BY <1>2
  <2>2. put["status"] \in K!Status /\ put["markdown"] \in BOOLEAN /\ put["error"] \in BOOLEAN
    BY <1>1, <1>2 DEF K!Row
  <2> HIDE DEF put
  <2> QED  BY <2>1, <2>2 DEF K!Row
<1>4. /\ put.status = IF new.status # had.status THEN new.status ELSE old.status
      /\ put.markdown = IF new.markdown # had.markdown THEN new.markdown ELSE old.markdown
  BY <1>2
<1>5. files' = [files EXCEPT ![K!F(c)] = put]
  BY DEF K!Flush
<1> HIDE DEF put
<1>6. files' \in [BaseFiles -> K!Row] /\ files'[K!F(c)] = put /\ \A f \in BaseFiles \ {K!F(c)} : files'[f] = files[f]
  BY <1>1, <1>3, <1>5
<1> QED  BY <1>4, <1>6 DEF Wrote

LEMMA Commits ==
  ASSUME K!TypeOK, NEW c \in FileCalls, NEW new \in K!Row, NEW s \in K!Stage, K!Commit(c, new, s)
  PROVE  Wrote(c, new) /\ FileMoved(c, s) /\ KeptModel(c) /\ fileCall'[c].row = new
PROOF
<1>1. Wrote(c, new)
  BY Flushes DEF K!Commit
<1>2. FileMoved(c, s) /\ KeptModel(c) /\ fileCall'[c].row = new
  BY DEF K!TypeOK, K!Commit, K!Call, FileMoved, KeptModel
<1> QED  BY <1>1, <1>2

\* A row with another status, and perhaps another mark, is a row.
LEMMA RowsTo ==
  ASSUME K!TypeOK, NEW c \in FileCalls, NEW t \in K!Status
  PROVE  /\ K!Marked(c, t) \in K!Row
         /\ K!Marked(c, t).status = t
         /\ K!Marked(c, t).markdown = fileCall[c].row.markdown
         /\ [K!Marked(c, t) EXCEPT !.markdown = TRUE] \in K!Row
         /\ [K!Marked(c, t) EXCEPT !.markdown = TRUE].status = t
         /\ [K!Marked(c, t) EXCEPT !.markdown = TRUE].markdown = TRUE
         /\ [fileCall[c].row EXCEPT !.status = t, !.error = TRUE] \in K!Row
         /\ [fileCall[c].row EXCEPT !.status = t, !.error = TRUE].status = t
         /\ [fileCall[c].row EXCEPT !.status = t, !.error = TRUE].markdown = fileCall[c].row.markdown
         /\ [K!NoRow EXCEPT !.status = t] \in K!Row
         /\ [K!NoRow EXCEPT !.status = t].status = t
         /\ [K!NoRow EXCEPT !.status = t].markdown = FALSE
PROOF
<1>1. fileCall[c].row \in K!Row /\ K!NoRow \in K!Row
  BY DEF K!TypeOK, K!Call, K!NoRow, K!Row, K!Status
<1> QED  BY <1>1 DEF K!Marked, K!Row, K!NoRow

Bounds == [calls : 0..MaxFileCalls, config : 0..MaxModelChanges,
           removed : 0..MaxRemoved, faults : 0..MaxFileFaults]

\* The four counters stay within their bounds.
LEMMA Counts ==
  ASSUME K!TypeOK,
         \/ UNCHANGED bounds
         \/ \E f \in K!FaultKinds : K!Fault(f)
         \/ bounds.calls < MaxFileCalls /\ bounds' = [bounds EXCEPT !.calls = @ + 1]
         \/ bounds.removed < MaxRemoved /\ bounds' = [bounds EXCEPT !.removed = @ + 1]
         \/ bounds.config < MaxModelChanges /\ bounds' = [bounds EXCEPT !.config = @ + 1]
  PROVE  bounds' \in Bounds
PROOF
<1>1. bounds \in Bounds
  BY DEF K!TypeOK, Bounds
<1> QED  BY <1>1, FileParameters DEF Bounds, K!Fault

-----------------------------------------------------------------------------
(* The types.                                                              *)

\* A call that starts on a file.
LEMMA FileBegins ==
  ASSUME K!TypeOK, NEW c \in FileCalls, NEW f \in BaseFiles, NEW k \in {"parse", "index"},
         NEW s \in K!Stage, K!Begin(c, f, k, s)
  PROVE  /\ fileCall' \in [FileCalls -> K!Call]
         /\ fileCall'[c].at = s /\ fileCall'[c].kind = k /\ fileCall'[c].file = f /\ fileCall'[c].row = files[f]
         /\ \A d \in FileCalls \ {c} : fileCall'[d] = fileCall[d]
         /\ fileCall[c].at = "idle"
PROOF
<1>. DEFINE new == [K!NewCall EXCEPT !.at = s, !.kind = k, !.file = f, !.row = files[f]]
<1>1. files[f] \in K!Row
  BY DEF K!TypeOK
<1>2. K!NewCall \in K!Call
  BY Fresh
<1>3. new \in K!Call /\ new.at = s /\ new.kind = k /\ new.file = f /\ new.row = files[f]
  BY <1>1, <1>2 DEF K!Call
<1>4. fileCall' = [fileCall EXCEPT ![c] = new] /\ fileCall[c].at = "idle"
  BY DEF K!Begin
<1> HIDE DEF new
<1> QED  BY <1>3, <1>4 DEF K!TypeOK

\* A call that starts to upload one.
LEMMA FileUploads ==
  ASSUME K!TypeOK, NEW c \in FileCalls, NEW f \in BaseFiles,
         fileCall' = [fileCall EXCEPT ![c] = [K!NewCall EXCEPT !.at = "uploading", !.file = f]]
  PROVE  /\ fileCall' \in [FileCalls -> K!Call]
         /\ fileCall'[c].at = "uploading" /\ fileCall'[c].kind = "upload" /\ fileCall'[c].row = K!NoRow
         /\ \A d \in FileCalls \ {c} : fileCall'[d] = fileCall[d]
PROOF
<1>. DEFINE new == [K!NewCall EXCEPT !.at = "uploading", !.file = f]
<1>1. K!NewCall \in K!Call /\ K!NewCall.kind = "upload" /\ K!NewCall.row = K!NoRow
  BY Fresh DEF K!NewCall
<1>2. new \in K!Call /\ new.at = "uploading" /\ new.kind = "upload" /\ new.row = K!NoRow
  BY <1>1 DEF K!Call, K!Stage
<1>3. fileCall' = [fileCall EXCEPT ![c] = new]
  OBVIOUS
<1> HIDE DEF new
<1> QED  BY <1>2, <1>3 DEF K!TypeOK

\* A call that embeds knows its model.
Chosen == \A c \in FileCalls : fileCall[c].at \in {"flushing", "upserting", "binding"} => fileCall[c].model \in EmbeddingModels

\* The model a call embeds with.
Embeds(c) ==
  /\ fileCall' \in [FileCalls -> K!Call]
  /\ fileCall'[c].at = IF binding = K!None THEN "flushing" ELSE "upserting"
  /\ fileCall'[c].kind = fileCall[c].kind /\ fileCall'[c].file = fileCall[c].file /\ Kept(c)
  /\ fileCall'[c].model = IF binding = K!None THEN config ELSE binding
  /\ fileCall'[c].model \in EmbeddingModels
  /\ fileCall'[c].first <=> binding = K!None
  /\ \A d \in FileCalls \ {c} : fileCall'[d] = fileCall[d]

LEMMA Embeddings ==
  ASSUME K!TypeOK, NEW c \in FileCalls,
         fileCall' = [fileCall EXCEPT ![c].at = IF binding = K!None THEN "flushing" ELSE "upserting",
                                      ![c].model = IF binding = K!None THEN config ELSE binding,
                                      ![c].first = binding = K!None]
  PROVE  Embeds(c)
PROOF
<1>. DEFINE at == IF binding = K!None THEN "flushing" ELSE "upserting"
            model == IF binding = K!None THEN config ELSE binding
            first == binding = K!None
            new == [fileCall[c] EXCEPT !.at = at, !.model = model, !.first = first]
<1>1. at \in K!Stage /\ model \in EmbeddingModels /\ first \in BOOLEAN
  BY DEF K!TypeOK, K!Stage
<1>2. fileCall[c] \in K!Call /\ fileCall \in [FileCalls -> K!Call]
  BY DEF K!TypeOK
<1>3. fileCall' = [fileCall EXCEPT ![c].at = at, ![c].model = model, ![c].first = first]
  OBVIOUS
<1> HIDE DEF at, model, first
<1>4. fileCall'[c] = new /\ DOMAIN fileCall' = FileCalls /\ \A d \in FileCalls \ {c} : fileCall'[d] = fileCall[d]
  BY <1>2, <1>3
<1>5. /\ new \in K!Call /\ new.at = at /\ new.kind = fileCall[c].kind /\ new.file = fileCall[c].file
      /\ new.row = fileCall[c].row /\ new.model = model /\ new.first = first
  BY <1>1, <1>2 DEF K!Call
<1> HIDE DEF new
<1>6. fileCall' \in [FileCalls -> K!Call]
  BY <1>2, <1>3, <1>4, <1>5
<1> QED  BY <1>1, <1>4, <1>5, <1>6 DEF Embeds, Kept, at, model, first

LEMMA Rereads ==
  ASSUME K!TypeOK, NEW c \in FileCalls,
         fileCall' = [fileCall EXCEPT ![c].at = "recovering", ![c].row = files[K!F(c)]]
  PROVE  FileMoved(c, "recovering") /\ KeptModel(c) /\ fileCall'[c].row = files[K!F(c)]
PROOF
<1>. DEFINE row == files[K!F(c)]
            new == [fileCall[c] EXCEPT !.at = "recovering", !.row = row]
<1>1. fileCall[c] \in K!Call /\ fileCall \in [FileCalls -> K!Call] /\ row \in K!Row
  BY DEF K!TypeOK, K!F, K!Call
<1>2. fileCall' = [fileCall EXCEPT ![c].at = "recovering", ![c].row = row]
  OBVIOUS
<1> HIDE DEF row
<1>3. fileCall'[c] = new /\ \A d \in FileCalls \ {c} : fileCall'[d] = fileCall[d]
  BY <1>1, <1>2
<1>4. /\ new \in K!Call /\ new.at = "recovering" /\ new.kind = fileCall[c].kind
      /\ new.file = fileCall[c].file /\ new.row = row /\ new.model = fileCall[c].model
      /\ new.first = fileCall[c].first
  BY <1>1 DEF K!Call, K!Stage
<1> HIDE DEF new
<1>5. fileCall' \in [FileCalls -> K!Call]
  BY <1>1, <1>2, <1>3, <1>4
<1> QED  BY <1>3, <1>4, <1>5 DEF FileMoved, KeptModel, row

LEMMA CallTypes ==
  ASSUME K!TypeOK, Chosen, NEW c \in FileCalls,
         \/ K!StartUpload(c) \/ K!CommitUpload(c) \/ K!ParseNext(c)
         \/ K!IndexNext(c) \/ K!Reread(c) \/ K!Recover(c) \/ K!Crash(c)
  PROVE  K!TypeOK'
PROOF
<1>a. /\ files \in [BaseFiles -> K!Row] /\ stored \subseteq BaseFiles \X {"original", "markdown"}
      /\ fileCall \in [FileCalls -> K!Call] /\ K!F(c) \in BaseFiles /\ fileCall[c].model \in EmbeddingModels \cup {K!None}
      /\ vectors \in [BaseFiles -> EmbeddingModels \cup {K!None, "removed"}]
  BY DEF K!TypeOK, K!Call, K!F
<1>b. ASSUME UNCHANGED bounds \/ \E f \in K!FaultKinds : K!Fault(f)
      PROVE  bounds' \in Bounds
  BY <1>b, Counts
<1>c. {"work", "database", "crash"} = K!FaultKinds
  BY DEF K!FaultKinds
<1>d. ASSUME NEW s \in K!Stage, NEW t \in K!Stage, NEW st \in K!Status, K!Mark(c, s, st, t)
      PROVE  K!TypeOK'
  <2>1. files' \in [BaseFiles -> K!Row] /\ fileCall' \in [FileCalls -> K!Call]
    BY <1>d, <1>a, RowsTo, Commits, Ends DEF K!Mark, Wrote, FileMoved, Ended
  <2>2. bounds' \in Bounds
    BY <1>b, <1>c, <1>d DEF K!Mark
  <2> QED  BY <1>d, <2>1, <2>2 DEF K!Mark, K!TypeOK, Bounds
<1>e. ASSUME NEW s \in K!Stage, NEW new \in K!Row, K!Save(c, s, new)
      PROVE  K!TypeOK'
  <2>1. files' \in [BaseFiles -> K!Row] /\ fileCall' \in [FileCalls -> K!Call]
    BY <1>e, <1>a, Flushes, Ends, FileGoes DEF K!Save, K!CommitAndEnd, Wrote, FileMoved, Ended,
      K!Stage
  <2>2. bounds' \in Bounds
    BY <1>b, <1>c, <1>e DEF K!Save
  <2> QED  BY <1>e, <2>1, <2>2 DEF K!Save, K!TypeOK, Bounds
<1>f. ASSUME NEW f \in BaseFiles, NEW k \in {"parse", "index"}, NEW s \in K!Stage, K!Begin(c, f, k, s)
      PROVE  K!TypeOK'
  <2>1. fileCall' \in [FileCalls -> K!Call]
    BY <1>f, FileBegins
  <2>2. bounds' \in Bounds
    BY <1>f, Counts DEF K!Begin
  <2> QED  BY <1>f, <2>1, <2>2 DEF K!Begin, K!TypeOK, Bounds
<1>1. CASE K!StartUpload(c)
  <2>1. PICK f \in BaseFiles : /\ stored' = stored \cup {<<f, "original">>}
                               /\ fileCall' = [fileCall EXCEPT ![c] = [K!NewCall EXCEPT !.at = "uploading", !.file = f]]
    BY <1>1 DEF K!StartUpload
  <2>2. fileCall' \in [FileCalls -> K!Call]
    BY <2>1, FileUploads
  <2>3. stored' \subseteq BaseFiles \X {"original", "markdown"}
    BY <1>a, <2>1
  <2> QED  BY <1>1, <2>2, <2>3 DEF K!StartUpload, K!TypeOK
<1>2. CASE K!CommitUpload(c)
  <2>1. files' \in [BaseFiles -> K!Row] /\ fileCall' \in [FileCalls -> K!Call]
    BY ZenonT(40), <1>2, <1>a, RowsTo, Flushes, Ends DEF K!CommitUpload, K!CommitAndEnd, Wrote,
      Ended, K!Status
  <2>2. bounds' \in Bounds
    BY <1>2, <1>b, <1>c DEF K!CommitUpload
  <2>3. stored' \subseteq BaseFiles \X {"original", "markdown"}
    BY <1>2, <1>a DEF K!CommitUpload
  <2> QED  BY <1>2, <2>1, <2>2, <2>3 DEF K!CommitUpload, K!TypeOK, Bounds
<1>3. CASE K!StartParse(c) \/ K!StartIndex(c)
  BY <1>3, <1>f DEF K!StartParse, K!StartIndex, K!Stage
<1>4. CASE K!MarkParsing(c) \/ K!MarkIndexing(c)
  BY <1>4, <1>d DEF K!MarkParsing, K!MarkIndexing, K!Stage, K!Status
<1>5. CASE K!ParseDocument(c)
  <2>1. fileCall' \in [FileCalls -> K!Call] /\ stored' \subseteq BaseFiles \X {"original", "markdown"}
    BY <1>5, <1>a, FileGoes DEF K!ParseDocument, FileMoved, K!Stage
  <2>2. bounds' \in Bounds
    BY <1>5, <1>b, <1>c DEF K!ParseDocument
  <2> QED  BY <1>5, <2>1, <2>2 DEF K!ParseDocument, K!TypeOK, Bounds
<1>6. CASE K!SaveParsed(c) \/ K!SaveIndexed(c)
  BY <1>6, <1>e, RowsTo DEF K!SaveParsed, K!SaveIndexed, K!Stage, K!Status
<1>7. CASE K!EmbedChunks(c)
  <2>1. fileCall' \in [FileCalls -> K!Call]
    <3>1. CASE K!Goto(c, "failing")
      BY <3>1, FileGoes DEF FileMoved, K!Stage
    <3>2. CASE fileCall' = [fileCall EXCEPT ![c].at = IF binding = K!None THEN "flushing" ELSE "upserting",
                                            ![c].model = IF binding = K!None THEN config ELSE binding,
                                            ![c].first = binding = K!None]
      BY <3>2, Embeddings DEF Embeds
    <3> QED  BY <1>7, <3>1, <3>2 DEF K!EmbedChunks
  <2>2. bounds' \in Bounds
    BY <1>7, <1>b, <1>c DEF K!EmbedChunks
  <2> QED  BY <1>7, <2>1, <2>2 DEF K!EmbedChunks, K!TypeOK, Bounds
<1>8. CASE K!FlushBinding(c)
  <2>1. fileCall' \in [FileCalls -> K!Call]
    BY <1>8, FileGoes DEF K!FlushBinding, FileMoved, K!Stage
  <2> QED  BY <1>8, <2>1 DEF K!FlushBinding, K!TypeOK
<1>9. CASE K!UpsertChunks(c)
  <2>1. fileCall' \in [FileCalls -> K!Call]
    BY <1>9, FileGoes DEF K!UpsertChunks, FileMoved, K!Stage
  <2>2. bounds' \in Bounds
    BY <1>9, <1>b, <1>c DEF K!UpsertChunks
  <2>3. fileCall[c].model \in EmbeddingModels
    BY <1>9 DEF K!UpsertChunks, Chosen
  <2>4. /\ collection' \in {0} \cup {Dimension[m] : m \in EmbeddingModels}
        /\ vectors' \in [BaseFiles -> EmbeddingModels \cup {K!None, "removed"}]
    BY <1>9, <1>a, <2>3 DEF K!UpsertChunks, K!TypeOK
  <2> QED  BY <1>9, <2>1, <2>2, <2>4 DEF K!UpsertChunks, K!TypeOK, Bounds
<1>10. CASE K!CommitBinding(c)
  <2>1. fileCall' \in [FileCalls -> K!Call]
    BY <1>10, FileGoes DEF K!CommitBinding, FileMoved, K!Stage
  <2>2. bounds' \in Bounds
    BY <1>10, <1>b, <1>c DEF K!CommitBinding
  <2>3. binding' \in EmbeddingModels \cup {K!None}
    BY <1>10, <1>a DEF K!CommitBinding, K!TypeOK
  <2> QED  BY <1>10, <2>1, <2>2, <2>3 DEF K!CommitBinding, K!TypeOK, Bounds
<1>11. CASE K!Reread(c)
  <2>1. fileCall' \in [FileCalls -> K!Call]
    BY <1>11, Rereads DEF K!Reread, FileMoved
  <2> QED  BY <1>11, <2>1 DEF K!Reread, K!TypeOK
<1>12. CASE K!Recover(c)
  <2>1. K!Back(c) \in K!Status
    BY DEF K!Back, K!Status
  <2>2. files' \in [BaseFiles -> K!Row] /\ fileCall' \in [FileCalls -> K!Call]
    BY <1>12, <1>a, <2>1, RowsTo, Flushes, Ends DEF K!Recover, K!CommitAndEnd, Wrote, Ended
  <2>3. bounds' \in Bounds
    BY <1>12, <1>b, <1>c DEF K!Recover
  <2>4. lost' \subseteq BaseFiles
    BY <1>12, <1>a DEF K!Recover, K!TypeOK
  <2> QED  BY <1>12, <2>2, <2>3, <2>4 DEF K!Recover, K!TypeOK, Bounds
<1>13. CASE K!Crash(c)
  <2>1. fileCall' \in [FileCalls -> K!Call] /\ bounds' \in Bounds /\ lost' \subseteq BaseFiles
    BY <1>13, <1>a, <1>b, <1>c, Ends DEF K!Crash, Ended, K!TypeOK
  <2> QED  BY <1>13, <2>1 DEF K!Crash, K!TypeOK, Bounds
<1> QED  BY <1>1, <1>2, <1>3, <1>4, <1>5, <1>6, <1>7, <1>8, <1>9, <1>10, <1>11, <1>12, <1>13
         DEF K!ParseNext, K!IndexNext

LEMMA OtherTypes ==
  ASSUME K!TypeOK,
         (\E f \in BaseFiles : K!DeleteRecords(f)) \/ K!ChangeModel \/ UNCHANGED K!vars
  PROVE  K!TypeOK'
PROOF
<1>1. bounds' \in Bounds
  BY Counts DEF K!DeleteRecords, K!ChangeModel, K!vars
<1>2. /\ vectors' \in [BaseFiles -> EmbeddingModels \cup {K!None, "removed"}]
      /\ config' \in EmbeddingModels
  BY DEF K!DeleteRecords, K!ChangeModel, K!vars, K!TypeOK
<1> QED  BY <1>1, <1>2 DEF K!DeleteRecords, K!ChangeModel, K!vars, K!TypeOK, Bounds

-----------------------------------------------------------------------------
(* What a step of a call does to its file.                                 *)

Indexing == {"chunking", "flushing", "upserting", "binding", "index_done"}
FileAtWork == {"parsing", "parse_done", "failing", "recovering"} \cup Indexing

\* It starts, and has read the row.
Starts(c) ==
  /\ fileCall[c].at = "idle" /\ UNCHANGED <<files, lost>> /\ stored \subseteq stored'
  /\ fileCall' \in [FileCalls -> K!Call] /\ \A d \in FileCalls \ {c} : fileCall'[d] = fileCall[d]
  /\ \/ fileCall'[c].at = "uploading" /\ fileCall'[c].kind = "upload" /\ fileCall'[c].row = K!NoRow
     \/ /\ fileCall'[c].at = "parse_read" /\ fileCall'[c].kind = "parse"
        /\ fileCall'[c].row = files[fileCall'[c].file]
     \/ /\ fileCall'[c].at = "index_read" /\ fileCall'[c].kind = "index"
        /\ fileCall'[c].row = files[fileCall'[c].file] /\ files[fileCall'[c].file].markdown

\* It ends without a word: as it had promised nothing, or died, or could not commit.
FileLeaves(c) ==
  /\ Ended(c) /\ UNCHANGED files /\ lost \subseteq lost'
  /\ \A f \in BaseFiles : <<f, "markdown">> \in stored => <<f, "markdown">> \in stored'
  /\ fileCall[c].at \in FileAtWork => K!F(c) \in lost'

\* It commits what it is about to do.
Marks(c) ==
  \E new \in K!Row :
    /\ Wrote(c, new) /\ UNCHANGED <<stored, lost>>
    /\ new.markdown = fileCall[c].row.markdown /\ fileCall'[c].row = new
    /\ \/ fileCall[c].at = "parse_read" /\ FileMoved(c, "parsing") /\ new.status = "parsing"
       \/ fileCall[c].at = "index_read" /\ FileMoved(c, "chunking") /\ new.status = "indexing"

\* It commits what became of it.
Finishes(c) ==
  \E new \in K!Row :
    /\ Wrote(c, new) /\ Ended(c) /\ UNCHANGED <<stored, lost>>
    /\ \/ fileCall[c].at = "uploading" /\ new.status = "uploaded" /\ new.markdown = FALSE
       \/ fileCall[c].at = "parse_done" /\ new.status = "parsed" /\ new.markdown = TRUE
       \/ /\ fileCall[c].at = "index_done" /\ new.status = "indexed"
          /\ new.markdown = fileCall[c].row.markdown
       \/ /\ fileCall[c].at = "recovering" /\ new.status = K!Back(c)
          /\ new.markdown = fileCall[c].row.markdown

\* It goes on without a commit.
Works(c) ==
  /\ UNCHANGED <<files, lost>> /\ Kept(c) /\ stored \subseteq stored'
  /\ \/ fileCall[c].at = "parsing" /\ FileMoved(c, "parse_done") /\ <<K!F(c), "markdown">> \in stored'
     \/ fileCall[c].at \in {"parsing", "parse_done"} \cup Indexing /\ FileMoved(c, "failing")
     \/ fileCall[c].at \in Indexing \ {"index_done"} /\ \E s \in Indexing : FileMoved(c, s)

\* It rolls back and reads the row again.
ReadsAgain(c) ==
  /\ UNCHANGED <<files, lost, stored>>
  /\ fileCall[c].at = "failing" /\ FileMoved(c, "recovering") /\ fileCall'[c].row = files[K!F(c)]

CallStep(c) ==
  \/ K!StartUpload(c) \/ K!CommitUpload(c) \/ K!ParseNext(c)
  \/ K!IndexNext(c) \/ K!Reread(c) \/ K!Recover(c) \/ K!Crash(c)

LEMMA Effects ==
  ASSUME K!TypeOK, NEW c \in FileCalls, CallStep(c)
  PROVE  Starts(c) \/ FileLeaves(c) \/ Marks(c) \/ Finishes(c) \/ Works(c) \/ ReadsAgain(c)
PROOF
<1>a. lost \subseteq BaseFiles /\ K!F(c) \in BaseFiles /\ fileCall[c] \in K!Call
  BY DEF K!TypeOK, K!F, K!Call
<1>b. ASSUME NEW f, <<K!F(c), "original">> = <<f, "markdown">>
      PROVE  FALSE
  BY <1>b
<1>c. ASSUME NEW from \in {"parse_read", "index_read"}, NEW st \in K!Status, NEW to \in K!Stage,
             K!Mark(c, from, st, to)
      PROVE  /\ fileCall[c].at = from
             /\ \/ FileLeaves(c)
                \/ \E new \in K!Row : /\ Wrote(c, new) /\ UNCHANGED <<stored, lost>>
                                      /\ new.markdown = fileCall[c].row.markdown /\ fileCall'[c].row = new
                                      /\ new.status = st /\ FileMoved(c, to)
  <2>1. fileCall[c].at = from /\ from \notin FileAtWork
    BY <1>c DEF K!Mark, FileAtWork, Indexing
  <2>2. CASE K!End(c) /\ UNCHANGED files
    BY <1>c, <2>1, <2>2, Ends DEF K!Mark, FileLeaves
  <2>3. CASE K!Commit(c, K!Marked(c, st), to)
    BY ZenonT(40), <1>c, <2>1, <2>3, RowsTo, Commits DEF K!Mark
  <2> QED  BY <1>c, <2>1, <2>2, <2>3 DEF K!Mark
<1>d. ASSUME NEW from \in {"parse_done", "index_done"}, NEW new \in K!Row, K!Save(c, from, new)
      PROVE  /\ fileCall[c].at = from /\ UNCHANGED <<stored, lost>>
             /\ \/ Wrote(c, new) /\ Ended(c)
                \/ Works(c)
  <2>1. CASE K!CommitAndEnd(c, new)
    BY <1>d, <2>1, Flushes, Ends DEF K!Save, K!CommitAndEnd
  <2>2. CASE K!Goto(c, "failing") /\ UNCHANGED files
    BY <1>d, <2>2, FileGoes DEF K!Save, Works, Indexing, K!Stage
  <2> QED  BY <1>d, <2>1, <2>2 DEF K!Save
<1>1. CASE K!StartUpload(c)
  <2>1. PICK f \in BaseFiles : /\ stored' = stored \cup {<<f, "original">>}
                               /\ fileCall' = [fileCall EXCEPT ![c] = [K!NewCall EXCEPT !.at = "uploading", !.file = f]]
    BY <1>1 DEF K!StartUpload
  <2> QED  BY <1>1, <2>1, FileUploads DEF K!StartUpload, Starts
<1>2. CASE K!CommitUpload(c)
  <2>1. CASE K!CommitAndEnd(c, [K!NoRow EXCEPT !.status = "uploaded"]) /\ UNCHANGED stored
    <3>. DEFINE new == [K!NoRow EXCEPT !.status = "uploaded"]
    <3>1. new \in K!Row /\ new.status = "uploaded" /\ new.markdown = FALSE
      BY RowsTo DEF K!Status
    <3>2. K!Flush(c, new) /\ K!End(c)
      BY <2>1 DEF K!CommitAndEnd
    <3> HIDE DEF new
    <3>3. Wrote(c, new) /\ Ended(c)
      BY <3>1, <3>2, Flushes, Ends
    <3> QED  BY <1>2, <2>1, <3>1, <3>3 DEF K!CommitUpload, Finishes
  <2>2. CASE stored' = stored \ {<<K!F(c), "original">>} /\ K!End(c) /\ UNCHANGED files
    <3>1. fileCall[c].at \notin FileAtWork
      BY <1>2 DEF K!CommitUpload, FileAtWork, Indexing
    <3> QED  BY <1>2, <1>b, <2>2, <3>1, Ends DEF K!CommitUpload, FileLeaves
  <2> QED  BY <1>2, <2>1, <2>2 DEF K!CommitUpload
<1>3. CASE K!StartParse(c)
  <2>1. PICK f \in BaseFiles : K!Begin(c, f, "parse", "parse_read")
    BY <1>3 DEF K!StartParse
  <2>2. "parse_read" \in K!Stage
    BY DEF K!Stage
  <2>3. /\ fileCall' \in [FileCalls -> K!Call] /\ \A d \in FileCalls \ {c} : fileCall'[d] = fileCall[d]
        /\ fileCall'[c].at = "parse_read" /\ fileCall'[c].kind = "parse" /\ fileCall'[c].file = f
        /\ fileCall'[c].row = files[f] /\ fileCall[c].at = "idle"
    BY <2>1, <2>2, FileBegins
  <2>4. UNCHANGED <<files, lost, stored>>
    BY <2>1 DEF K!Begin
  <2> QED  BY <2>1, <2>3, <2>4 DEF Starts
<1>4. CASE K!StartIndex(c)
  <2>1. PICK f \in BaseFiles : files[f].markdown /\ K!Begin(c, f, "index", "index_read")
    BY <1>4 DEF K!StartIndex
  <2>2. "index_read" \in K!Stage
    BY DEF K!Stage
  <2>3. /\ fileCall' \in [FileCalls -> K!Call] /\ \A d \in FileCalls \ {c} : fileCall'[d] = fileCall[d]
        /\ fileCall'[c].at = "index_read" /\ fileCall'[c].kind = "index" /\ fileCall'[c].file = f
        /\ fileCall'[c].row = files[f] /\ fileCall[c].at = "idle"
    BY <2>1, <2>2, FileBegins
  <2>4. UNCHANGED <<files, lost, stored>>
    BY <2>1 DEF K!Begin
  <2> QED  BY <2>1, <2>3, <2>4 DEF Starts
<1>5. CASE K!MarkParsing(c)
  <2>1. "parsing" \in K!Status /\ "parsing" \in K!Stage
    BY DEF K!Status, K!Stage
  <2>2. K!Mark(c, "parse_read", "parsing", "parsing")
    BY <1>5 DEF K!MarkParsing
  <2>3. fileCall[c].at = "parse_read"
    BY <1>c, <2>1, <2>2
  <2>4. CASE FileLeaves(c)
    BY <2>4
  <2>5. CASE \E new \in K!Row : /\ Wrote(c, new) /\ UNCHANGED <<stored, lost>>
                                /\ new.markdown = fileCall[c].row.markdown /\ fileCall'[c].row = new
                                /\ new.status = "parsing" /\ FileMoved(c, "parsing")
    BY <2>3, <2>5 DEF Marks
  <2> QED  BY <1>c, <2>1, <2>2, <2>4, <2>5
<1>6. CASE K!MarkIndexing(c)
  <2>1. "indexing" \in K!Status /\ "chunking" \in K!Stage
    BY DEF K!Status, K!Stage
  <2>2. K!Mark(c, "index_read", "indexing", "chunking")
    BY <1>6 DEF K!MarkIndexing
  <2>3. fileCall[c].at = "index_read"
    BY <1>c, <2>1, <2>2
  <2>4. CASE FileLeaves(c)
    BY <2>4
  <2>5. CASE \E new \in K!Row : /\ Wrote(c, new) /\ UNCHANGED <<stored, lost>>
                                /\ new.markdown = fileCall[c].row.markdown /\ fileCall'[c].row = new
                                /\ new.status = "indexing" /\ FileMoved(c, "chunking")
    BY <2>3, <2>5 DEF Marks
  <2> QED  BY <1>c, <2>1, <2>2, <2>4, <2>5
<1>7. CASE K!ParseDocument(c)
  BY <1>7, <1>a, FileGoes DEF K!ParseDocument, Works, K!Stage
<1>8. CASE K!SaveParsed(c)
  <2>. DEFINE new == [K!Marked(c, "parsed") EXCEPT !.markdown = TRUE]
  <2>1. new \in K!Row /\ new.status = "parsed" /\ new.markdown = TRUE
    BY RowsTo DEF K!Status
  <2>2. K!Save(c, "parse_done", new)
    BY <1>8 DEF K!SaveParsed
  <2> HIDE DEF new
  <2> QED  BY <1>d, <2>1, <2>2 DEF Finishes
<1>9. CASE K!SaveIndexed(c)
  <2>. DEFINE new == K!Marked(c, "indexed")
  <2>1. new \in K!Row /\ new.status = "indexed" /\ new.markdown = fileCall[c].row.markdown
    BY RowsTo DEF K!Status
  <2>2. K!Save(c, "index_done", new)
    BY <1>9 DEF K!SaveIndexed
  <2> HIDE DEF new
  <2> QED  BY <1>d, <2>1, <2>2 DEF Finishes
<1>10. CASE K!EmbedChunks(c)
  <2>1. CASE K!Goto(c, "failing")
    BY <1>10, <2>1, FileGoes DEF K!EmbedChunks, Works, Indexing, K!Stage
  <2>2. CASE fileCall' = [fileCall EXCEPT ![c].at = IF binding = K!None THEN "flushing" ELSE "upserting",
                                          ![c].model = IF binding = K!None THEN config ELSE binding,
                                          ![c].first = binding = K!None]
    <3>1. Embeds(c)
      BY <2>2, Embeddings
    <3>2. \E s \in Indexing : FileMoved(c, s)
      BY <3>1 DEF Embeds, FileMoved, Indexing
    <3> QED  BY <1>10, <3>1, <3>2 DEF K!EmbedChunks, Works, Indexing, Embeds
  <2> QED  BY <1>10, <2>1, <2>2 DEF K!EmbedChunks
<1>11. CASE K!FlushBinding(c) \/ K!UpsertChunks(c) \/ K!CommitBinding(c)
  <2>1. /\ fileCall[c].at \in Indexing \ {"index_done"} /\ UNCHANGED <<files, lost, stored>>
        /\ \E s \in Indexing \cup {"failing"} : K!Goto(c, s)
    BY <1>11 DEF K!FlushBinding, K!UpsertChunks, K!CommitBinding, Indexing
  <2> QED  BY <2>1, FileGoes DEF Works, Indexing, K!Stage
<1>12. CASE K!Reread(c)
  BY <1>12, Rereads DEF K!Reread, ReadsAgain
<1>13. CASE K!Recover(c)
  <2>1. K!Back(c) \in K!Status
    BY DEF K!Back, K!Status
  <2>2. CASE /\ K!CommitAndEnd(c, [fileCall[c].row EXCEPT !.status = K!Back(c), !.error = TRUE])
             /\ UNCHANGED lost
    <3>. DEFINE new == [fileCall[c].row EXCEPT !.status = K!Back(c), !.error = TRUE]
    <3>1. new \in K!Row /\ new.status = K!Back(c) /\ new.markdown = fileCall[c].row.markdown
      BY <2>1, RowsTo
    <3>2. K!Flush(c, new) /\ K!End(c) /\ UNCHANGED lost
      BY <2>2 DEF K!CommitAndEnd
    <3> HIDE DEF new
    <3>3. Wrote(c, new) /\ Ended(c)
      BY <3>1, <3>2, Flushes, Ends
    <3> QED  BY <1>13, <3>1, <3>2, <3>3 DEF K!Recover, Finishes
  <2>3. CASE K!End(c) /\ lost' = lost \cup {K!F(c)} /\ UNCHANGED files
    BY <1>13, <2>3, Ends DEF K!Recover, FileLeaves
  <2> QED  BY <1>13, <2>2, <2>3 DEF K!Recover
<1>14. CASE K!Crash(c)
  BY <1>14, Ends DEF K!Crash, FileLeaves
<1> QED  BY <1>1, <1>2, <1>3, <1>4, <1>5, <1>6, <1>7, <1>8, <1>9, <1>10, <1>11, <1>12, <1>13,
            <1>14 DEF CallStep, K!ParseNext, K!IndexNext

-----------------------------------------------------------------------------
(* Who decides a file.                                                     *)

\* What a call is about, and what it has committed.
Stages ==
  \A c \in FileCalls :
    /\ fileCall[c].at \in {"parse_read", "parsing", "parse_done"} => fileCall[c].kind = "parse"
    /\ fileCall[c].at \in {"index_read"} \cup Indexing => fileCall[c].kind = "index"
    /\ fileCall[c].at \in {"failing", "recovering"} => fileCall[c].kind \in {"parse", "index"}
    /\ fileCall[c].at \in {"parsing", "parse_done"} => fileCall[c].row.status = "parsing"
    /\ fileCall[c].at \in Indexing => fileCall[c].row.status = "indexing"
    /\ fileCall[c].at = "uploading" => fileCall[c].row = K!NoRow

LEMMA StagesStep ==
  ASSUME K!TypeOK, Stages, NEW c \in FileCalls, CallStep(c)
  PROVE  Stages'
PROOF
<1>. DEFINE Good(d) ==
       /\ d.at \in {"parse_read", "parsing", "parse_done"} => d.kind = "parse"
       /\ d.at \in {"index_read"} \cup Indexing => d.kind = "index"
       /\ d.at \in {"failing", "recovering"} => d.kind \in {"parse", "index"}
       /\ d.at \in {"parsing", "parse_done"} => d.row.status = "parsing"
       /\ d.at \in Indexing => d.row.status = "indexing"
       /\ d.at = "uploading" => d.row = K!NoRow
<1>1. \A d \in FileCalls : Good(fileCall[d])
  BY DEF Stages
<1>2. Good(fileCall'[c])
  <2>1. CASE Starts(c)
    BY <2>1 DEF Starts, Indexing
  <2>2. CASE FileLeaves(c) \/ Finishes(c)
    BY <2>2 DEF FileLeaves, Finishes, Ended, Indexing
  <2>3. CASE Marks(c)
    BY <1>1, <2>3 DEF Marks, FileMoved, Indexing
  <2>4. CASE Works(c) \/ ReadsAgain(c)
    BY <1>1, <2>4 DEF Works, ReadsAgain, FileMoved, Kept, Indexing
  <2> QED  BY <2>1, <2>2, <2>3, <2>4, Effects
<1>3. \A d \in FileCalls \ {c} : fileCall'[d] = fileCall[d]
  BY Effects DEF Starts, FileLeaves, Marks, Finishes, Works, ReadsAgain, Ended, FileMoved
<1>4. \A d \in FileCalls : Good(fileCall'[d])
  BY <1>1, <1>2, <1>3
<1> QED  BY <1>4 DEF Stages

Busy == {"parsing", "indexing"}

\* A call that is underway and will write another status over the one of its file:
\* it has committed the start of its work, and when it has read the row again it did
\* not find the status it is about to write.
Decides(c) ==
  /\ fileCall[c].at \in FileAtWork
  /\ fileCall[c].at = "recovering" => fileCall[c].row.status # K!Back(c)

\* Every busy file has such a call, whichever others work on it.
Decided ==
  \A f \in BaseFiles : files[f].status \in Busy =>
    f \in lost \/ \E c \in FileCalls : K!F(c) = f /\ Decides(c)

LEMMA DecidedStep ==
  ASSUME K!TypeOK, Stages, Decided, NEW c \in FileCalls, CallStep(c)
  PROVE  Decided'
PROOF
<1>a. /\ files \in [BaseFiles -> K!Row] /\ K!F(c) \in BaseFiles
      /\ K!F(c) = fileCall[c].file /\ K!F(c)' = fileCall'[c].file
  BY DEF K!TypeOK, K!Call, K!F
<1>1. /\ \A d \in FileCalls \ {c} : fileCall'[d] = fileCall[d]
      /\ \A f \in BaseFiles \ {K!F(c)} : files'[f] = files[f]
      /\ lost \subseteq lost'
  BY Effects DEF Starts, FileLeaves, Marks, Finishes, Works, ReadsAgain, Ended, FileMoved, Wrote
\* c's own file: c goes on to decide it, or has decided it, or never was the one.
<1>2. \/ files'[K!F(c)].status \notin Busy
      \/ K!F(c) \in lost'
      \/ K!F(c)' = K!F(c) /\ Decides(c)'
      \/ files[K!F(c)].status \in Busy /\ ~Decides(c)
  <2>1. CASE Starts(c)
    BY <2>1 DEF Starts, Decides, FileAtWork, Indexing
  <2>2. CASE FileLeaves(c)
    BY <2>2 DEF FileLeaves, Decides
  <2>3. CASE Marks(c)
    BY <1>a, <2>3 DEF Marks, FileMoved, Decides, FileAtWork, Indexing
  <2>4. CASE Finishes(c)
    <3>1. PICK new \in K!Row :
            /\ Wrote(c, new)
            /\ \/ fileCall[c].at = "uploading" /\ new.status = "uploaded"
               \/ fileCall[c].at = "parse_done" /\ new.status = "parsed"
               \/ fileCall[c].at = "index_done" /\ new.status = "indexed"
               \/ fileCall[c].at = "recovering" /\ new.status = K!Back(c)
      BY <2>4 DEF Finishes
    <3>2. new.status \notin Busy
      BY <3>1 DEF Busy, K!Back
    <3>3. CASE fileCall[c].row.status # new.status
      BY <3>1, <3>2, <3>3 DEF Wrote
    <3>4. CASE fileCall[c].row.status = new.status
      <4>1. files'[K!F(c)].status = files[K!F(c)].status
        BY <3>1, <3>4 DEF Wrote
      <4>2. ~Decides(c)
        BY <3>1, <3>4 DEF Decides, Stages, FileAtWork, Indexing
      <4> QED  BY <4>1, <4>2
    <3> QED  BY <3>3, <3>4
  <2>5. CASE Works(c)
    <3>1. fileCall'[c].at \in FileAtWork /\ fileCall'[c].at # "recovering" /\ K!F(c)' = K!F(c)
      BY <1>a, <2>5 DEF Works, FileMoved, FileAtWork, Indexing
    <3> QED  BY <3>1 DEF Decides
  <2>6. CASE ReadsAgain(c)
    <3>1. /\ K!F(c)' = K!F(c) /\ fileCall'[c].at = "recovering" /\ files'[K!F(c)].status = fileCall'[c].row.status
      BY <1>a, <2>6 DEF ReadsAgain, FileMoved
    <3>2. K!Back(c)' \notin Busy
      BY DEF K!Back, Busy
    <3> QED  BY <3>1, <3>2 DEF Decides, FileAtWork
  <2> QED  BY <2>1, <2>2, <2>3, <2>4, <2>5, <2>6, Effects
<1>3. ASSUME NEW f \in BaseFiles, files'[f].status \in Busy, f \notin lost'
      PROVE  \E d \in FileCalls : K!F(d)' = f /\ Decides(d)'
  <2>1. ASSUME NEW d \in FileCalls \ {c}, K!F(d) = f, Decides(d)
        PROVE  K!F(d)' = f /\ Decides(d)'
    BY <1>1, <2>1 DEF K!F, Decides, K!Back
  <2>2. CASE f # K!F(c)
    <3>1. PICK d \in FileCalls : K!F(d) = f /\ Decides(d)
      BY <1>1, <1>3, <2>2 DEF Decided
    <3> QED  BY <2>1, <2>2, <3>1
  <2>3. CASE f = K!F(c) /\ files[f].status \in Busy /\ ~Decides(c)
    <3>1. PICK d \in FileCalls : K!F(d) = f /\ Decides(d)
      BY <1>1, <1>3, <2>3 DEF Decided
    <3> QED  BY <2>1, <2>3, <3>1
  <2> QED  BY <1>2, <1>3, <2>2, <2>3
<1> QED  BY <1>3 DEF Decided

-----------------------------------------------------------------------------
(* What is parsed can be read.                                             *)

\* What the column says is there, and what a call has read of it stays true.
Readable ==
  /\ K!ParsedIsReadable
  /\ \A f \in BaseFiles : files[f].markdown => <<f, "markdown">> \in stored
  /\ \A c \in FileCalls :
       /\ fileCall[c].at # "idle" /\ fileCall[c].kind = "index" => files[K!F(c)].markdown
       /\ fileCall[c].at # "idle" /\ fileCall[c].row.markdown => files[K!F(c)].markdown
       /\ fileCall[c].at = "parse_done" => <<K!F(c), "markdown">> \in stored

LEMMA ReadableStep ==
  ASSUME K!TypeOK, Stages, Readable, NEW c \in FileCalls, CallStep(c)
  PROVE  Readable'
PROOF
<1>a. /\ files \in [BaseFiles -> K!Row] /\ \A d \in FileCalls : K!F(d) \in BaseFiles
      /\ \A d \in FileCalls : K!F(d) = fileCall[d].file /\ K!F(d)' = fileCall'[d].file
      /\ \A f \in BaseFiles : files[f].markdown \in BOOLEAN
      /\ fileCall[c].row.markdown \in BOOLEAN
  BY DEF K!TypeOK, K!Call, K!F, K!Row
<1>b. /\ \A f \in BaseFiles : /\ files[f].markdown => <<f, "markdown">> \in stored
                              /\ files[f].status \in {"parsed", "indexing", "indexed"} => files[f].markdown
      /\ \A d \in FileCalls :
           /\ fileCall[d].at # "idle" /\ fileCall[d].kind = "index" => files[K!F(d)].markdown
           /\ fileCall[d].at # "idle" /\ fileCall[d].row.markdown => files[K!F(d)].markdown
           /\ fileCall[d].at = "parse_done" => <<K!F(d), "markdown">> \in stored
  BY DEF Readable, K!ParsedIsReadable
<1>1. /\ \A d \in FileCalls \ {c} : fileCall'[d] = fileCall[d]
      /\ \A f \in BaseFiles \ {K!F(c)} : files'[f] = files[f]
      /\ \A f \in BaseFiles : <<f, "markdown">> \in stored => <<f, "markdown">> \in stored'
  BY Effects DEF Starts, FileLeaves, Marks, Finishes, Works, ReadsAgain, Ended, FileMoved, Wrote
<1>2. /\ files[K!F(c)].markdown => files'[K!F(c)].markdown
      /\ files'[K!F(c)].markdown => <<K!F(c), "markdown">> \in stored'
      /\ files'[K!F(c)].status \in {"parsed", "indexing", "indexed"} => files'[K!F(c)].markdown
  <2>1. CASE UNCHANGED files
    BY <1>a, <1>b, <1>1, <2>1
  <2>2. CASE Marks(c)
    <3>1. PICK new \in K!Row :
            /\ Wrote(c, new) /\ new.markdown = fileCall[c].row.markdown
            /\ \/ fileCall[c].at = "parse_read" /\ new.status = "parsing"
               \/ fileCall[c].at = "index_read" /\ new.status = "indexing"
      BY <2>2 DEF Marks
    <3>2. files'[K!F(c)].markdown = files[K!F(c)].markdown
      BY <3>1 DEF Wrote
    <3>3. fileCall[c].at = "index_read" => files[K!F(c)].markdown
      BY <1>b DEF Stages
    <3>4. files'[K!F(c)].status \in {files[K!F(c)].status, new.status}
      BY <3>1 DEF Wrote
    <3> QED  BY <1>a, <1>b, <1>1, <3>1, <3>2, <3>3, <3>4
  <2>3. CASE Finishes(c)
    <3>1. PICK new \in K!Row :
            /\ Wrote(c, new)
            /\ \/ fileCall[c].at = "uploading" /\ new.status = "uploaded" /\ new.markdown = FALSE
               \/ fileCall[c].at = "parse_done" /\ new.status = "parsed" /\ new.markdown = TRUE
               \/ /\ fileCall[c].at = "index_done" /\ new.status = "indexed"
                  /\ new.markdown = fileCall[c].row.markdown
               \/ /\ fileCall[c].at = "recovering" /\ new.status = K!Back(c)
                  /\ new.markdown = fileCall[c].row.markdown
      BY <2>3 DEF Finishes
    <3>2. files'[K!F(c)].status \in {files[K!F(c)].status, new.status}
      BY <3>1 DEF Wrote
    <3>3. CASE fileCall[c].at = "parse_done"
      <4>1. new.markdown = TRUE /\ <<K!F(c), "markdown">> \in stored
        BY <1>b, <3>1, <3>3
      <4>2. files'[K!F(c)].markdown
        <5>1. CASE fileCall[c].row.markdown = TRUE
          <6>1. files'[K!F(c)].markdown = files[K!F(c)].markdown
            BY <3>1, <4>1, <5>1 DEF Wrote
          <6> QED  BY <1>b, <3>3, <5>1, <6>1
        <5>2. CASE fileCall[c].row.markdown # TRUE
          BY <3>1, <4>1, <5>2 DEF Wrote
        <5> QED  BY <5>1, <5>2
      <4> QED  BY <1>a, <1>1, <4>1, <4>2
    <3>4. CASE fileCall[c].at # "parse_done"
      <4>0. fileCall[c].at = "uploading" => fileCall[c].row.markdown = FALSE
        BY DEF Stages, K!NoRow
      <4>1. new.markdown = fileCall[c].row.markdown
        BY <3>1, <3>4, <4>0
      <4>2. files'[K!F(c)].markdown = files[K!F(c)].markdown
        BY <3>1, <4>1 DEF Wrote
      <4>3. new.status \in {"parsed", "indexed"} => fileCall[c].kind = "index" /\ fileCall[c].at # "idle"
        BY <3>1, <3>4 DEF Stages, K!Back, Indexing
      <4>4. new.status # "indexing"
        BY <3>1 DEF K!Back
      <4> QED  BY <1>a, <1>b, <1>1, <3>2, <4>2, <4>3, <4>4
    <3> QED  BY <3>3, <3>4
  <2> QED  BY <2>1, <2>2, <2>3, Effects DEF Starts, FileLeaves, Works, ReadsAgain
<1>3. \A f \in BaseFiles : /\ files[f].markdown => files'[f].markdown
                           /\ files'[f].markdown => <<f, "markdown">> \in stored'
                           /\ files'[f].status \in {"parsed", "indexing", "indexed"} => files'[f].markdown
  BY <1>b, <1>1, <1>2
<1>4. ASSUME NEW d \in FileCalls
      PROVE  /\ fileCall'[d].at # "idle" /\ fileCall'[d].kind = "index" => files'[K!F(d)'].markdown
             /\ fileCall'[d].at # "idle" /\ fileCall'[d].row.markdown => files'[K!F(d)'].markdown
             /\ fileCall'[d].at = "parse_done" => <<K!F(d)', "markdown">> \in stored'
  <2>1. CASE d # c
    BY <1>a, <1>b, <1>1, <1>3, <2>1
  <2>2. CASE d = c /\ Starts(c)
    <3>1. fileCall'[c].file \in BaseFiles
      BY <2>2 DEF Starts, K!Call
    <3>2. K!NoRow.markdown = FALSE
      BY DEF K!NoRow
    <3> QED  BY <1>a, <1>3, <2>2, <3>1, <3>2 DEF Starts
  <2>3. CASE d = c /\ (FileLeaves(c) \/ Finishes(c))
    BY <2>3 DEF FileLeaves, Finishes, Ended
  <2>4. CASE d = c /\ Marks(c)
    BY <1>a, <1>b, <1>3, <2>4 DEF Marks, FileMoved
  <2>5. CASE d = c /\ Works(c)
    <3>1. K!F(c)' = K!F(c) /\ fileCall'[c].kind = fileCall[c].kind /\ fileCall'[c].row = fileCall[c].row
          /\ fileCall[c].at # "idle"
      BY <1>a, <2>5 DEF Works, FileMoved, Kept, Indexing
    <3>2. fileCall'[c].at = "parse_done" => <<K!F(c), "markdown">> \in stored'
      BY <2>5 DEF Works, FileMoved, Indexing
    <3> QED  BY <1>a, <1>b, <1>3, <2>5, <3>1, <3>2
  <2>6. CASE d = c /\ ReadsAgain(c)
    <3>1. /\ K!F(c)' = K!F(c) /\ fileCall'[c].kind = fileCall[c].kind /\ fileCall'[c].row = files[K!F(c)]
          /\ fileCall'[c].at = "recovering" /\ fileCall[c].at = "failing"
      BY <1>a, <2>6 DEF ReadsAgain, FileMoved
    <3>2. /\ fileCall'[c].kind = "index" => files'[K!F(c)].markdown
          /\ fileCall'[c].row.markdown => files'[K!F(c)].markdown
      BY <1>a, <1>b, <1>3, <3>1
    <3> QED  BY <2>6, <3>1, <3>2
  <2> QED  BY <2>1, <2>2, <2>3, <2>4, <2>5, <2>6, Effects
<1> QED  BY <1>3, <1>4 DEF Readable, K!ParsedIsReadable

-----------------------------------------------------------------------------
(* What is indexed can be searched.                                        *)

\* A call that found no binding holds the key of the binding until it has committed
\* its model; one that found it embeds with the bound model.
Bound(d) ==
  /\ d.at \in {"flushing", "upserting", "binding"} => d.model \in EmbeddingModels
  /\ d.at = "flushing" => d.first
  /\ d.at = "upserting" /\ ~d.first => d.model = binding
  /\ d.at \in {"upserting", "binding"} /\ d.first => binding = K!None
  /\ d.at = "binding" => /\ d.first
                         /\ vectors[d.file] = d.model /\ collection = Dimension[d.model]
  /\ d.at = "index_done" => binding # K!None /\ vectors[d.file] \in {binding, "removed"}

Searchable ==
  /\ K!IndexedIsSearchable
  /\ \A c \in FileCalls : Bound(fileCall[c])
  /\ \A c, d \in FileCalls : K!HoldsKey(c) /\ K!HoldsKey(d) => c = d

\* The stages in which a call has to do with the model.
Embedding == {"flushing", "upserting", "binding", "index_done"}

LEMMA SearchableKept ==
  ASSUME K!TypeOK, Searchable, NEW c \in FileCalls, UNCHANGED <<binding, collection, vectors>>,
         \A d \in FileCalls \ {c} : fileCall'[d] = fileCall[d],
         fileCall'[c].at \notin Embedding,
         \A f \in BaseFiles : files'[f].status = "indexed" =>
           files[f].status = "indexed" \/ (f = K!F(c) /\ fileCall[c].at = "index_done")
  PROVE  Searchable'
PROOF
<1>1. Bound(fileCall[c]) /\ K!F(c) \in BaseFiles /\ K!F(c) = fileCall[c].file
  BY DEF Searchable, K!TypeOK, K!Call, K!F
<1>2. K!IndexedIsSearchable'
  BY <1>1 DEF Searchable, K!IndexedIsSearchable, Bound
<1>3. ASSUME NEW d \in FileCalls
      PROVE  Bound(fileCall[d])'
  <2>1. CASE d = c
    BY <2>1 DEF Bound, Embedding
  <2>2. CASE d # c
    BY <2>2 DEF Searchable, Bound
  <2> QED  BY <2>1, <2>2
<1>4. \A d \in FileCalls : K!HoldsKey(d)' => K!HoldsKey(d)
  BY DEF K!HoldsKey, Embedding
<1> QED  BY <1>2, <1>3, <1>4 DEF Searchable

LEMMA SearchableStep ==
  ASSUME K!TypeOK, Searchable, NEW c \in FileCalls, CallStep(c)
  PROVE  Searchable'
PROOF
<1>a. /\ files \in [BaseFiles -> K!Row] /\ K!F(c) \in BaseFiles /\ fileCall \in [FileCalls -> K!Call]
      /\ \A d \in FileCalls : K!F(d) = fileCall[d].file /\ fileCall[d].file \in BaseFiles
      /\ vectors \in [BaseFiles -> EmbeddingModels \cup {K!None, "removed"}]
  BY DEF K!TypeOK, K!Call, K!F
<1>b. /\ \A d \in FileCalls : Bound(fileCall[d])
      /\ \A d \in FileCalls \ {c} : K!HoldsKey(c) => ~K!HoldsKey(d)
      /\ \A f \in BaseFiles : files[f].status = "indexed" =>
           binding # K!None /\ vectors[f] \in {binding, "removed"}
      /\ binding # K!None => collection = Dimension[binding]
  BY DEF Searchable, K!IndexedIsSearchable
<1>c. /\ K!None \notin EmbeddingModels /\ \A m \in EmbeddingModels : Dimension[m] # 0
  BY FileParameters DEF K!None
<1>d. /\ \A d \in FileCalls \ {c} : fileCall'[d] = fileCall[d]
      /\ \A f \in BaseFiles \ {K!F(c)} : files'[f] = files[f]
  BY Effects DEF Starts, FileLeaves, Marks, Finishes, Works, ReadsAgain, Ended, FileMoved, Wrote
\* Who goes on to fail changes nothing that counts.
<1>e. ASSUME NEW s \in K!Stage \ Embedding, K!Goto(c, s),
             UNCHANGED <<files, binding, collection, vectors>>
      PROVE  Searchable'
  <2>1. fileCall'[c].at \notin Embedding
    BY <1>e, FileGoes DEF FileMoved
  <2> QED  BY <1>d, <1>e, <2>1, SearchableKept
<1>f. "failing" \in K!Stage \ Embedding
  BY DEF K!Stage, Embedding
<1>g. \A f \in BaseFiles : files'[f].status = "indexed" =>
        files[f].status = "indexed" \/ (f = K!F(c) /\ fileCall[c].at = "index_done")
  <2>1. CASE UNCHANGED files
    BY <2>1
  <2>2. CASE Marks(c)
    <3>1. PICK new \in K!Row : Wrote(c, new) /\ new.status # "indexed"
      BY <2>2 DEF Marks
    <3> QED  BY <1>d, <3>1 DEF Wrote
  <2>3. CASE Finishes(c)
    <3>1. PICK new \in K!Row :
            Wrote(c, new) /\ (new.status = "indexed" => fileCall[c].at = "index_done")
      BY <2>3 DEF Finishes, K!Back
    <3> QED  BY <1>d, <3>1 DEF Wrote
  <2> QED  BY <2>1, <2>2, <2>3, Effects DEF Starts, FileLeaves, Works, ReadsAgain
<1>1. CASE \/ K!StartUpload(c) \/ K!CommitUpload(c) \/ K!ParseNext(c) \/ K!StartIndex(c)
           \/ K!MarkIndexing(c) \/ K!SaveIndexed(c) \/ K!Reread(c) \/ K!Recover(c)
  <2>1. fileCall[c].at \notin Indexing \ {"index_done"} /\ UNCHANGED <<binding, collection, vectors>>
    BY <1>1 DEF K!ParseNext, K!StartUpload, K!CommitUpload, K!StartParse, K!MarkParsing,
      K!ParseDocument,
                K!SaveParsed, K!StartIndex, K!MarkIndexing, K!SaveIndexed, K!Reread, K!Recover, K!Begin, K!Mark,
                K!Save, Indexing
  <2>2. fileCall'[c].at \notin Embedding
    BY <2>1, Effects DEF Starts, FileLeaves, Marks, Finishes, Works, ReadsAgain, Ended, FileMoved,
                         Embedding
  <2> QED  BY <1>d, <1>g, <2>1, <2>2, SearchableKept
<1>2. CASE K!Crash(c)
  <2>1. fileCall'[c].at \notin Embedding /\ UNCHANGED <<binding, collection, vectors>>
    BY <1>2, Ends DEF K!Crash, Ended, Embedding
  <2> QED  BY <1>d, <1>g, <2>1, SearchableKept
<1>3. CASE K!EmbedChunks(c)
  <2>1. CASE K!Goto(c, "failing")
    BY <1>3, <1>e, <1>f, <2>1 DEF K!EmbedChunks
  <2>2. CASE fileCall' = [fileCall EXCEPT ![c].at = IF binding = K!None THEN "flushing" ELSE "upserting",
                                          ![c].model = IF binding = K!None THEN config ELSE binding,
                                          ![c].first = binding = K!None]
    <3>1. Embeds(c) /\ UNCHANGED <<files, binding, collection, vectors>>
      BY <1>3, <2>2, Embeddings DEF K!EmbedChunks
    <3>2. K!IndexedIsSearchable'
      BY <1>b, <3>1 DEF K!IndexedIsSearchable
    <3>3. ASSUME NEW d \in FileCalls
          PROVE  Bound(fileCall[d])'
      <4>1. CASE d = c
        BY <3>1, <4>1 DEF Embeds, Bound
      <4>2. CASE d # c
        BY <1>b, <1>d, <3>1, <4>2 DEF Bound
      <4> QED  BY <4>1, <4>2
    <3>4. \A d \in FileCalls : K!HoldsKey(d)' => K!HoldsKey(d)
      BY <1>d, <3>1 DEF K!HoldsKey, Embeds
    <3> QED  BY <3>2, <3>3, <3>4 DEF Searchable
  <2> QED  BY <1>3, <2>1, <2>2 DEF K!EmbedChunks
<1>4. CASE K!FlushBinding(c)
  <2>1. CASE binding # K!None
    BY <1>4, <1>e, <1>f, <2>1 DEF K!FlushBinding
  <2>2. CASE binding = K!None
    <3>1. /\ FileMoved(c, "upserting") /\ KeptModel(c)
          /\ UNCHANGED <<files, binding, collection, vectors>>
          /\ fileCall[c].at = "flushing" /\ \A d \in FileCalls \ {c} : ~K!HoldsKey(d)
      BY <1>4, <2>2, FileGoes DEF K!FlushBinding, K!Stage
    <3>2. K!IndexedIsSearchable'
      BY <1>b, <3>1 DEF K!IndexedIsSearchable
    <3>3. ASSUME NEW d \in FileCalls
          PROVE  Bound(fileCall[d])'
      <4>1. CASE d = c
        <5>1. fileCall[c].first /\ fileCall[c].model \in EmbeddingModels
          BY <1>b, <3>1 DEF Bound
        <5> QED  BY <2>2, <3>1, <4>1, <5>1 DEF FileMoved, KeptModel, Bound
      <4>2. CASE d # c
        BY <1>b, <1>d, <3>1, <4>2 DEF Bound
      <4> QED  BY <4>1, <4>2
\* No other call holds the key: this one does now.
    <3>4. \A d \in FileCalls \ {c} : ~K!HoldsKey(d)'
      BY <1>d, <3>1 DEF K!HoldsKey
    <3> QED  BY <3>2, <3>3, <3>4 DEF Searchable
  <2> QED  BY <2>1, <2>2
<1>5. CASE K!UpsertChunks(c)
  <2>. DEFINE wanted == Dimension[fileCall[c].model]
              have == IF collection = 0 THEN wanted ELSE collection
  <2>0. /\ fileCall[c].at = "upserting" /\ fileCall[c].model \in EmbeddingModels
        /\ wanted # 0 /\ UNCHANGED <<files, binding>>
        /\ \/ ~fileCall[c].first /\ binding = fileCall[c].model
           \/ fileCall[c].first /\ binding = K!None /\ K!HoldsKey(c)
    BY <1>5, <1>b, <1>c DEF K!UpsertChunks, Bound, K!HoldsKey
\* A call that is about to commit its binding would hold the key.
  <2>1. \A d \in FileCalls \ {c} : fileCall[d].at # "binding"
    BY <1>b, <1>c, <2>0 DEF Bound, K!HoldsKey
  <2>2. CASE K!Goto(c, "failing") /\ UNCHANGED vectors /\ collection' \in {collection, have}
    <3>1. FileMoved(c, "failing")
      BY <2>2, FileGoes DEF K!Stage
    <3>2. K!IndexedIsSearchable'
      BY <1>b, <1>c, <2>0, <2>2 DEF K!IndexedIsSearchable
    <3>3. ASSUME NEW d \in FileCalls
          PROVE  Bound(fileCall[d])'
      <4>1. CASE d = c
        BY <3>1, <4>1 DEF FileMoved, Bound
      <4>2. CASE d # c
        BY <1>b, <1>d, <2>0, <2>1, <2>2, <4>2 DEF Bound
      <4> QED  BY <4>1, <4>2
    <3>4. \A d \in FileCalls : K!HoldsKey(d)' => K!HoldsKey(d)
      BY <1>d, <3>1 DEF K!HoldsKey, FileMoved
    <3> QED  BY <3>2, <3>3, <3>4 DEF Searchable
  <2>3. CASE /\ collection' = have /\ have = wanted
             /\ vectors' = [vectors EXCEPT ![K!F(c)] = fileCall[c].model]
             /\ K!Goto(c, IF fileCall[c].first THEN "binding" ELSE "index_done")
    <3>. DEFINE next == IF fileCall[c].first THEN "binding" ELSE "index_done"
    <3>0. next \in K!Stage /\ K!Goto(c, next)
      BY <2>3 DEF K!Stage
    <3>1. FileMoved(c, next) /\ KeptModel(c)
      BY <3>0, FileGoes
    <3>2. /\ vectors'[K!F(c)] = fileCall[c].model /\ collection' = wanted
          /\ \A f \in BaseFiles \ {K!F(c)} : vectors'[f] = vectors[f]
      BY <1>a, <2>3
    <3>3. K!IndexedIsSearchable'
      BY <1>b, <1>c, <2>0, <3>2 DEF K!IndexedIsSearchable
    <3>4. ASSUME NEW d \in FileCalls
          PROVE  Bound(fileCall[d])'
      <4>1. CASE d = c
        <5>1. CASE fileCall[c].first
          BY <1>a, <2>0, <3>1, <3>2, <4>1, <5>1 DEF FileMoved, KeptModel, Bound
        <5>2. CASE ~fileCall[c].first
          BY <1>a, <1>c, <2>0, <3>1, <3>2, <4>1, <5>2 DEF FileMoved, KeptModel, Bound
        <5> QED  BY <5>1, <5>2
      <4>2. CASE d # c
        <5>1. fileCall'[d] = fileCall[d] /\ Bound(fileCall[d]) /\ fileCall[d].file \in BaseFiles
          BY <1>a, <1>b, <1>d, <4>2
        <5> QED  BY <1>c, <2>0, <2>1, <3>2, <4>2, <5>1 DEF Bound
      <4> QED  BY <4>1, <4>2
    <3>5. \A d \in FileCalls : K!HoldsKey(d)' => K!HoldsKey(d)
      BY <1>d, <2>0, <3>1 DEF K!HoldsKey, FileMoved, KeptModel
    <3> QED  BY <3>3, <3>4, <3>5 DEF Searchable
  <2> QED  BY <1>5, <2>2, <2>3 DEF K!UpsertChunks
<1>6. CASE K!CommitBinding(c)
  <2>1. CASE K!Goto(c, "failing") /\ UNCHANGED binding
    BY <1>6, <1>e, <1>f, <2>1 DEF K!CommitBinding
  <2>2. CASE binding' = fileCall[c].model /\ K!Goto(c, "index_done")
    <3>1. FileMoved(c, "index_done") /\ UNCHANGED <<files, collection, vectors>>
      BY <1>6, <2>2, FileGoes DEF K!CommitBinding, K!Stage
    <3>2. /\ fileCall[c].at = "binding" /\ fileCall[c].first /\ binding = K!None /\ K!HoldsKey(c)
          /\ fileCall[c].model \in EmbeddingModels /\ vectors[K!F(c)] = fileCall[c].model
          /\ collection = Dimension[fileCall[c].model]
      BY <1>6, <1>a, <1>b DEF K!CommitBinding, Bound, K!HoldsKey
    <3>3. K!IndexedIsSearchable'
      BY <1>b, <2>2, <3>1, <3>2 DEF K!IndexedIsSearchable
    <3>4. ASSUME NEW d \in FileCalls
          PROVE  Bound(fileCall[d])'
      <4>1. CASE d = c
        BY <1>a, <1>c, <2>2, <3>1, <3>2, <4>1 DEF FileMoved, Bound
      <4>2. CASE d # c
        <5>1. fileCall'[d] = fileCall[d] /\ Bound(fileCall[d]) /\ ~K!HoldsKey(d)
          BY <1>b, <1>d, <3>2, <4>2
        <5> QED  BY <1>c, <2>2, <3>1, <3>2, <5>1 DEF Bound, K!HoldsKey
      <4> QED  BY <4>1, <4>2
    <3>5. \A d \in FileCalls : K!HoldsKey(d)' => K!HoldsKey(d)
      BY <1>d, <3>1 DEF K!HoldsKey, FileMoved
    <3> QED  BY <3>3, <3>4, <3>5 DEF Searchable
  <2> QED  BY <1>6, <2>1, <2>2 DEF K!CommitBinding
<1> QED  BY <1>1, <1>2, <1>3, <1>4, <1>5, <1>6 DEF CallStep, K!IndexNext

-----------------------------------------------------------------------------
(* The theorems.                                                           *)

FilesInv == K!TypeOK /\ Stages /\ Decided /\ Readable /\ Searchable

LEMMA OtherSteps ==
  ASSUME FilesInv, (\E f \in BaseFiles : K!DeleteRecords(f)) \/ K!ChangeModel \/ UNCHANGED K!vars
  PROVE  FilesInv'
PROOF
<1>1. K!TypeOK'
  BY OtherTypes DEF FilesInv
<1>2. UNCHANGED <<files, stored, binding, collection, fileCall, lost>>
  BY DEF K!DeleteRecords, K!ChangeModel, K!vars
<1>3. Stages' /\ Decided' /\ Readable'
  BY <1>2 DEF FilesInv, Stages, Decided, Decides, K!Back, K!F, Readable, K!ParsedIsReadable
\* Records are removed only when the model is bound.
<1>4. Searchable'
  <2>1. CASE UNCHANGED vectors
    BY <1>2, <2>1 DEF FilesInv, Searchable, K!IndexedIsSearchable, Bound, K!HoldsKey
  <2>2. CASE \E f \in BaseFiles : K!DeleteRecords(f)
    <3>1. /\ binding # K!None
          /\ \A f \in BaseFiles : vectors'[f] \in {vectors[f], "removed"}
      BY <2>2 DEF K!DeleteRecords, FilesInv, K!TypeOK
    <3>2. K!IndexedIsSearchable'
      BY <1>2, <3>1 DEF FilesInv, Searchable, K!IndexedIsSearchable
    <3>3. ASSUME NEW d \in FileCalls
          PROVE  Bound(fileCall[d])'
      <4>1. Bound(fileCall[d]) /\ fileCall[d].file \in BaseFiles
        BY DEF FilesInv, Searchable, K!TypeOK, K!Call
      <4> QED  BY <1>2, <3>1, <4>1 DEF Bound
    <3>4. \A d \in FileCalls : K!HoldsKey(d)' => K!HoldsKey(d)
      BY <1>2 DEF K!HoldsKey
    <3> QED  BY <3>2, <3>3, <3>4 DEF FilesInv, Searchable
  <2> QED  BY <2>1, <2>2 DEF K!ChangeModel, K!vars
<1> QED  BY <1>1, <1>3, <1>4 DEF FilesInv

LEMMA FilesStart == K!Init => FilesInv
PROOF
<1> SUFFICES ASSUME K!Init PROVE FilesInv
  OBVIOUS
<1>1. K!NewCall \in K!Call /\ K!NoRow \in K!Row /\ K!NewCall.at = "idle"
  BY Fresh DEF K!NewCall
<1>2. /\ \A c \in FileCalls : fileCall[c] = K!NewCall
      /\ \A f \in BaseFiles : files[f] = K!NoRow
      /\ binding = K!None
  BY DEF K!Init
<1>3. K!NoRow.status = K!None /\ K!NoRow.markdown = FALSE
  BY DEF K!NoRow
<1>4. bounds \in Bounds
  BY FileParameters DEF K!Init, Bounds
<1>5. K!TypeOK
  BY <1>1, <1>4 DEF K!Init, K!TypeOK, Bounds
<1>6. Stages
  BY <1>1, <1>2 DEF Stages, Indexing
<1>7. Decided /\ Readable
  BY <1>1, <1>2, <1>3 DEF Decided, Busy, Readable, K!ParsedIsReadable, K!None
<1>8. Searchable
  BY <1>1, <1>2, <1>3 DEF Searchable, K!IndexedIsSearchable, Bound, K!HoldsKey, K!None
<1> QED  BY <1>5, <1>6, <1>7, <1>8 DEF FilesInv

LEMMA FilesKeep == FilesInv /\ [K!Next]_K!vars => FilesInv'
PROOF
<1> SUFFICES ASSUME FilesInv, [K!Next]_K!vars PROVE FilesInv'
  OBVIOUS
<1>1. ASSUME NEW c \in FileCalls, CallStep(c)
      PROVE  FilesInv'
  <2>1. K!TypeOK /\ Stages /\ Decided /\ Readable /\ Searchable /\ Chosen
    BY DEF FilesInv, Searchable, Bound, Chosen
  <2>2. K!TypeOK'
    BY <1>1, <2>1, CallTypes DEF CallStep
  <2> QED  BY <1>1, <2>1, <2>2, StagesStep, DecidedStep, ReadableStep, SearchableStep DEF FilesInv
<1> QED  BY <1>1, OtherSteps DEF K!Next, CallStep

LEMMA FilesHold == K!Spec => []FilesInv
PROOF
<1>1. K!Init => FilesInv
  BY FilesStart
<1>2. FilesInv /\ [K!Next]_K!vars => FilesInv'
  BY FilesKeep
<1> QED  BY <1>1, <1>2, PTL DEF K!Spec

\* Rows, objects, vectors, the binding and the calls keep their types.
THEOREM FilesTyped == K!Spec => []K!TypeOK
PROOF
<1>1. FilesInv => K!TypeOK
  BY DEF FilesInv
<1> QED  BY <1>1, FilesHold, PTL

\* A file in parsing or indexing is one that a call works on and will decide, unless
\* a process died or the database refused the failure (parse_file, index_file): however
\* many calls work on the same file, the last one leaves it in a state to go on from.
THEOREM NobodyWaits == K!Spec => []K!NobodyIsWaitedFor
PROOF
<1>1. FilesInv => K!NobodyIsWaitedFor
  BY DEF FilesInv, Decided, Busy, Decides, FileAtWork, Indexing, K!NobodyIsWaitedFor, K!Working
<1> QED  BY <1>1, FilesHold, PTL

\* The status column tells the truth: a parsed file has its Markdown, and an indexed
\* one has records of the bound model, the one retrieve embeds the question with,
\* whoever was first to bind it.
THEOREM StatusTrue == K!Spec => []K!StatusIsTrue
PROOF
<1>1. FilesInv => K!StatusIsTrue
  BY DEF FilesInv, Readable, Searchable, K!StatusIsTrue
<1> QED  BY <1>1, FilesHold, PTL

-----------------------------------------------------------------------------
(* The chunks.  Every loop of the chunkers is a fold, and a fold is shown to   *)
(* be the last of a chain of values, one for each turn (FoldWay): what each  *)
(* turn keeps is then true of the last.  From the joining of texts and their *)
(* windows this goes up to the buffers of a section, the tree of headings and *)
(* the recursion on its nodes, and at the end to the steps of a document.     *)

\* Counting is the same in the instance.
LEMMA SameCardinality == ASSUME NEW Z PROVE C!Cardinality(Z) = Cardinality(Z)
PROOF
  BY DEF Cardinality, C!Cardinality

\* So is the order of the numbers in a set.
LEMMA SameOrder == ASSUME NEW Z PROVE C!InOrder(Z) = Upwards(Z)
PROOF
<1>. DEFINE m == Cardinality(Z)
<1>1. C!Cardinality(Z) = m
  BY SameCardinality
<1> HIDE DEF m
<1>2. C!InOrder(Z) = CHOOSE o \in [1..m -> Z] : \A j, k \in DOMAIN o : j < k => o[j] < o[k]
  BY <1>1 DEF C!InOrder
<1> QED  BY <1>2 DEF Upwards, m

\* A sequence has the numbers in Z upwards.
Orderly(o, Z) ==
  /\ o \in Seq(Z)
  /\ \A j, k \in 1..Len(o) : j < k => o[j] < o[k]
  /\ \A x \in Z : \E j \in 1..Len(o) : o[j] = x

\* It is their order.
LEMMA IsTheOrder ==
  ASSUME NEW Z \in SUBSET Nat, NEW o, Orderly(o, Z)
  PROVE  C!InOrder(Z) = o /\ C!Cardinality(Z) = Len(o)
PROOF
<1>. DEFINE m == Len(o)
<1>1. m \in Nat /\ o \in [1..m -> Z]
  BY DEF Orderly
<1>2. /\ \A j, k \in 1..m : j < k => o[j] < o[k]
      /\ \A x \in Z : \E j \in 1..m : o[j] = x
  BY DEF Orderly
<1> HIDE DEF m
<1>3. Cardinality(Z) = m /\ Upwards(Z) = o
  BY <1>1, <1>2, IsUpwards
<1> QED  BY <1>3, SameCardinality, SameOrder DEF m

\* A finite set of numbers has one.
LEMMA TheOrder ==
  ASSUME NEW Z \in SUBSET Nat, IsFiniteSet(Z)
  PROVE  Orderly(C!InOrder(Z), Z) /\ Len(C!InOrder(Z)) = C!Cardinality(Z)
PROOF
<1>. DEFINE m == Cardinality(Z)
            o == Upwards(Z)
<1>1. /\ m \in Nat /\ o \in [1..m -> Z]
      /\ \A j, k \in 1..m : j < k => o[j] < o[k]
      /\ \A x \in Z : \E j \in 1..m : o[j] = x
  BY HasUpwards
<1>2. C!InOrder(Z) = o /\ C!Cardinality(Z) = m
  BY SameCardinality, SameOrder
<1> HIDE DEF m, o
<1>3. o \in Seq(Z) /\ Len(o) = m
  BY <1>1, MadeIsSequence
<1> QED  BY <1>1, <1>2, <1>3 DEF Orderly

-----------------------------------------------------------------------------
(* Folds.                                                                  *)

\* The greatest number of a set.
Top(s) == C!Max(s)

\* Steps that stay in A.
Keep(st, Q, n) == \A i \in 1..n : \A a \in Q : st[i][a] \in Q

\* The values on the way from `base` through those steps whose number is in s.
Passes(c, Q, base, n, st, s) ==
  /\ c \in [0..n -> Q]
  /\ c[0] = base
  /\ \A i \in 1..n : c[i] = IF i \in s THEN st[i][c[i - 1]] ELSE c[i - 1]

\* There is a way through any of them.
LEMMA PassesExist ==
  ASSUME NEW Q, NEW base \in Q, NEW n \in Nat, NEW st, Keep(st, Q, n), NEW s
  PROVE  \E c : Passes(c, Q, base, n, st, s)
PROOF
<1>. DEFINE move(i, a) == IF i \in s THEN st[i][a] ELSE a
            Far(m, f) == f[0] = base /\ \A i \in 1..m : f[i] = move(i, f[i - 1])
            N == {m \in Nat : m <= n => \E f \in [0..m -> Q] : Far(m, f)}
<1>0. ASSUME NEW i \in 1..n, NEW a \in Q PROVE move(i, a) \in Q
  BY DEF Keep
<1> HIDE DEF move
<1>1. 0 \in N
  <2>. DEFINE f == [i \in 0..0 |-> base]
  <2>1. f \in [0..0 -> Q] /\ Far(0, f)
    OBVIOUS
  <2> HIDE DEF f
  <2> QED  BY <2>1
<1>2. ASSUME NEW m \in N
      PROVE  m + 1 \in N
  <2>0. m \in Nat /\ m + 1 \in Nat
    OBVIOUS
  <2>. SUFFICES ASSUME m + 1 <= n
                PROVE  \E f \in [0..m+1 -> Q] : Far(m + 1, f)
    BY <2>0
  <2>1. PICK f \in [0..m -> Q] : Far(m, f)
    OBVIOUS
  <2>. DEFINE g == [i \in 0..m+1 |-> IF i <= m THEN f[i] ELSE move(m + 1, f[m])]
  <2>2. m \in 0..m /\ m + 1 \in 1..n
    OBVIOUS
  <2>3. move(m + 1, f[m]) \in Q
    BY <1>0, <2>1, <2>2
  <2>4. g \in [0..m+1 -> Q]
    BY <2>1, <2>3
  <2>5. g[0] = base
    BY <2>1
  <2>6. ASSUME NEW i \in 1..m+1
        PROVE  g[i] = move(i, g[i - 1])
    <3>1. CASE i <= m
      <4>1. i \in 1..m /\ i - 1 \in 0..m /\ i \in 0..m
        BY <3>1
      <4>2. g[i] = f[i] /\ g[i - 1] = f[i - 1]
        BY <4>1
      <4> QED  BY <2>1, <4>1, <4>2
    <3>2. CASE i = m + 1
      <4>1. g[i] = move(m + 1, f[m]) /\ g[i - 1] = f[m]
        BY <3>2
      <4> QED  BY <3>2, <4>1
    <3> QED  BY <3>1, <3>2
  <2> HIDE DEF g
  <2> QED  BY <2>4, <2>5, <2>6
<1>3. N \in SUBSET Nat
  OBVIOUS
<1> HIDE DEF N
<1>4. n \in N /\ n <= n
  BY <1>1, <1>2, <1>3, NatSetInduction
<1>5. PICK f \in [0..n -> Q] : Far(n, f)
  BY <1>4 DEF N
<1>6. \A i \in 1..n : i - 1 \in 0..n
  OBVIOUS
<1> QED  BY <1>5, <1>6 DEF Passes, move

\* Where no step is in s, nothing changes.
LEMMA PassesBy ==
  ASSUME NEW Q, NEW base, NEW n \in Nat, NEW st, NEW s, NEW c, Passes(c, Q, base, n, st, s),
         NEW a \in 0..n, \A i \in 1..n : i > a => i \notin s
  PROVE  c[n] = c[a]
PROOF
<1>. DEFINE N == {m \in Nat : a + m <= n => c[a + m] = c[a]}
<1>1. 0 \in N
  OBVIOUS
<1>2. ASSUME NEW m \in N
      PROVE  m + 1 \in N
  <2>. SUFFICES ASSUME a + (m + 1) <= n
                PROVE  c[a + (m + 1)] = c[a]
    OBVIOUS
  <2>1. a + (m + 1) \in 1..n /\ a + (m + 1) > a /\ (a + (m + 1)) - 1 = a + m /\ a + m <= n
    OBVIOUS
  <2>2. c[a + (m + 1)] = c[a + m]
    BY <2>1 DEF Passes
  <2> QED  BY <2>1, <2>2
<1>3. N \in SUBSET Nat
  OBVIOUS
<1> HIDE DEF N
<1>4. N = Nat
  BY <1>1, <1>2, <1>3, NatSetInduction
<1>5. n - a \in N /\ a + (n - a) = n /\ n - a \in Nat
  BY <1>4
<1> QED  BY <1>5 DEF N

\* The way as far as a step depends on the steps before it only.
LEMMA PassesAlike ==
  ASSUME NEW Q, NEW base, NEW n \in Nat, NEW st, NEW s, NEW t, NEW c, NEW d,
         Passes(c, Q, base, n, st, s), Passes(d, Q, base, n, st, t),
         NEW a \in 0..n, \A i \in 1..a : i \in s <=> i \in t
  PROVE  c[a] = d[a]
PROOF
<1>. DEFINE N == {m \in Nat : m <= a => c[m] = d[m]}
<1>1. 0 \in N
  BY DEF Passes
<1>2. ASSUME NEW m \in N
      PROVE  m + 1 \in N
  <2>. SUFFICES ASSUME m + 1 <= a
                PROVE  c[m + 1] = d[m + 1]
    OBVIOUS
  <2>1. m + 1 \in 1..n /\ m + 1 \in 1..a /\ (m + 1) - 1 = m /\ m <= a
    OBVIOUS
  <2>2. c[m] = d[m]
    BY <2>1
  <2>3. c[m + 1] = (IF m + 1 \in s THEN st[m + 1][c[m]] ELSE c[m])
        /\ d[m + 1] = (IF m + 1 \in t THEN st[m + 1][d[m]] ELSE d[m])
    BY <2>1 DEF Passes
  <2> QED  BY <2>1, <2>2, <2>3
<1>3. N \in SUBSET Nat
  OBVIOUS
<1> HIDE DEF N
<1>4. N = Nat
  BY <1>1, <1>2, <1>3, NatSetInduction
<1>5. a \in N /\ a <= a
  BY <1>4
<1> QED  BY <1>5 DEF N

\* The top of some numbers up to n.
LEMMA TopIs ==
  ASSUME NEW n \in Nat, NEW s \in SUBSET (1..n), s # {}
  PROVE  Top(s) \in s /\ Top(s) \in 1..n /\ \A y \in s : y <= Top(s)
PROOF
<1>1. s \in SUBSET Int /\ IsFiniteSet(s)
  <2>1. IsFiniteSet(1..n) /\ s \subseteq 1..n
    BY Interval
  <2>2. IsFiniteSet(s)
    BY <2>1, FS_Subset
  <2> QED  BY <2>2
<1>2. \E x \in s : \A y \in s : x >= y
  <2>1. PICK x \in s : \A y \in s : y <= x
    BY <1>1, Greatest
  <2>2. \A y \in s : x >= y
    BY <1>1, <2>1
  <2> QED  BY <2>2
<1>3. Top(s) \in s /\ \A y \in s : Top(s) >= y
  BY <1>2 DEF Top, C!Max
<1> HIDE DEF Top
<1> QED  BY <1>1, <1>3

\* The value of every set of places.
Iterates(it, Q, base, n, st) ==
  /\ it \in [SUBSET (1..n) -> Q]
  /\ \A s \in SUBSET (1..n) : it[s] = IF s = {} THEN base ELSE st[Top(s)][it[s \ {Top(s)}]]

\* The iteration of a fold over the sets of places, whose values are of a set that
\* every step keeps.
LEMMA FoldTyped ==
  ASSUME NEW Q, NEW base \in Q, NEW n \in Nat, NEW st, Keep(st, Q, n)
  PROVE  \E it : Iterates(it, Q, base, n, st)
PROOF
<1>. DEFINE way(s) == CHOOSE c : Passes(c, Q, base, n, st, s)
            it == [s \in SUBSET (1..n) |-> way(s)[n]]
<1>1. ASSUME NEW s PROVE Passes(way(s), Q, base, n, st, s)
  BY PassesExist
<1> HIDE DEF way
<1>2. ASSUME NEW s \in SUBSET (1..n) PROVE way(s)[n] \in Q
  BY <1>1 DEF Passes
<1>3. it \in [SUBSET (1..n) -> Q]
  BY <1>2
<1>4. ASSUME NEW s \in SUBSET (1..n)
      PROVE  it[s] = IF s = {} THEN base ELSE st[Top(s)][it[s \ {Top(s)}]]
  <2>1. CASE s = {}
    <3>1. Passes(way(s), Q, base, n, st, s) /\ 0 \in 0..n
      BY <1>1
    <3>. DEFINE c == way(s)
    <3>. HIDE DEF c
    <3>2. c[n] = c[0]
      <4>1. \A i \in 1..n : i > 0 => i \notin s
        BY <2>1
      <4> QED  BY <3>1, <4>1, PassesBy DEF c
    <3>3. way(s)[0] = base
      BY <3>1 DEF Passes
    <3> QED  BY <2>1, <3>2, <3>3 DEF c
  <2>2. CASE s # {}
    <3>. DEFINE m == Top(s)
                t == s \ {m}
    <3>1. m \in s /\ m \in 1..n /\ \A y \in s : y <= m
      BY <2>2, TopIs
    <3>2. t \in SUBSET (1..n)
      OBVIOUS
    <3>3. m - 1 \in 0..n /\ m \in 0..n
      BY <3>1
    <3>4. \A i \in 1..n : (i > m => i \notin s) /\ (i > m - 1 => i \notin t)
      BY <3>1
    <3>5. \A i \in 1..(m - 1) : i \in s <=> i \in t
      BY <3>1
    <3> HIDE DEF m, t
    <3>. DEFINE c == way(s)
                d == way(t)
    <3>6. Passes(c, Q, base, n, st, s) /\ Passes(d, Q, base, n, st, t)
      BY <1>1
    <3>7. it[s] = c[n] /\ it[t] = d[n]
      BY <3>2
    <3> HIDE DEF c, d, it
    <3>8. c[n] = c[m]
      <4>1. \A i \in 1..n : i > m => i \notin s
        BY <3>4
      <4> QED  BY <3>3, <3>6, <4>1, PassesBy
    <3>9. d[n] = d[m - 1]
      <4>1. \A i \in 1..n : i > m - 1 => i \notin t
        BY <3>4
      <4> QED  BY <3>3, <3>6, <4>1, PassesBy
    <3>10. c[m - 1] = d[m - 1]
      <4>. DEFINE e == m - 1
      <4>1. e \in 0..n /\ \A i \in 1..e : i \in s <=> i \in t
        BY <3>3, <3>5
      <4> HIDE DEF e
      <4>2. c[e] = d[e]
        BY <3>6, <4>1, PassesAlike
      <4> QED  BY <4>2 DEF e
    <3>11. c[m] = st[m][c[m - 1]]
      BY <3>1, <3>6 DEF Passes
    <3>12. it[s] = st[m][it[t]]
      BY <3>7, <3>8, <3>9, <3>10, <3>11
    <3> QED  BY <2>2, <3>12 DEF m, t
  <2> QED  BY <2>1, <2>2
<1> HIDE DEF it
<1> QED  BY <1>3, <1>4 DEF Iterates

\* An iteration over the first places, one after the other.
LEMMA Firsts ==
  ASSUME NEW n \in Nat, NEW i \in 1..n
  PROVE  /\ 1..i \in SUBSET (1..n) /\ 1..i # {} /\ Top(1..i) = i
         /\ (1..i) \ {i} = 1..(i - 1)
PROOF
<1>1. 1..i \in SUBSET (1..n) /\ 1..i # {} /\ i \in 1..i /\ (1..i) \ {i} = 1..(i - 1)
  OBVIOUS
<1>2. Top(1..i) \in 1..i /\ i <= Top(1..i)
  <2>. DEFINE s == 1..i
  <2>1. s \in SUBSET (1..n) /\ s # {} /\ i \in s
    BY <1>1
  <2> HIDE DEF s
  <2>2. Top(s) \in s /\ i <= Top(s)
    BY <2>1, TopIs
  <2> QED  BY <2>2 DEF s
<1>3. Top(1..i) = i
  <2> HIDE DEF Top
  <2> QED  BY <1>2
<1> QED  BY <1>1, <1>3

\* The values after each of the first steps.
IsWay(f, Q, base, n, st) ==
  /\ f \in [0..n -> Q]
  /\ f[0] = base
  /\ \A i \in 1..n : f[i] = st[i][f[i - 1]]

\* What an iteration does when the value before is in A.
Goes(it, Q, base, n, st) ==
  /\ it[{}] = base
  /\ \A s \in SUBSET (1..n) :
       s # {} /\ it[s \ {Top(s)}] \in Q => it[s] = st[Top(s)][it[s \ {Top(s)}]]

\* An iteration whose steps stay in a set is a way through all of them.
LEMMA FoldWay ==
  ASSUME NEW Q, NEW base \in Q, NEW n \in Nat, NEW st, Keep(st, Q, n), NEW it,
         Goes(it, Q, base, n, st)
  PROVE  \E f : IsWay(f, Q, base, n, st) /\ f[n] = it[1..n]
PROOF
<1>. DEFINE f == [i \in 0..n |-> it[1..i]]
            N == {m \in Nat : m <= n => f[m] \in Q}
<1>1. f[0] = base
  <2>1. f[0] = it[1..0] /\ 1..0 = {}
    OBVIOUS
  <2> QED  BY <2>1 DEF Goes
<1>2. ASSUME NEW i \in 1..n, f[i - 1] \in Q
      PROVE  f[i] = st[i][f[i - 1]] /\ f[i] \in Q
  <2>1. f[i] = it[1..i] /\ f[i - 1] = it[1..(i - 1)]
    OBVIOUS
  <2>. DEFINE s == 1..i
  <2>2. s \in SUBSET (1..n) /\ s # {} /\ Top(s) = i /\ s \ {i} = 1..(i - 1)
    BY Firsts
  <2> HIDE DEF s, f
  <2>3. it[s \ {Top(s)}] \in Q
    BY <1>2, <2>1, <2>2
  <2>4. it[s] = st[i][it[1..(i - 1)]]
    BY <2>2, <2>3 DEF Goes
  <2>5. st[i][f[i - 1]] \in Q
    BY <1>2 DEF Keep
  <2> QED  BY <2>1, <2>4, <2>5 DEF s
<1> HIDE DEF f
<1>3. 0 \in N
  BY <1>1
<1>4. ASSUME NEW m \in N
      PROVE  m + 1 \in N
  <2>. SUFFICES ASSUME m + 1 <= n
                PROVE  f[m + 1] \in Q
    OBVIOUS
  <2>1. m + 1 \in 1..n /\ (m + 1) - 1 = m /\ m <= n
    OBVIOUS
  <2>2. f[m] \in Q
    BY <2>1
  <2> QED  BY <1>2, <2>1, <2>2
<1>5. N = Nat
  <2>1. N \in SUBSET Nat
    OBVIOUS
  <2> HIDE DEF N
  <2> QED  BY <1>3, <1>4, <2>1, NatSetInduction
<1>6. \A i \in 0..n : f[i] \in Q
  BY <1>5
<1>7. \A i \in 1..n : f[i] = st[i][f[i - 1]]
  <2>1. ASSUME NEW i \in 1..n PROVE f[i] = st[i][f[i - 1]]
    <3>1. i - 1 \in 0..n
      OBVIOUS
    <3> QED  BY <1>2, <1>6, <3>1
  <2> QED  BY <2>1
<1>8. f \in [0..n -> Q] /\ f[n] = it[1..n]
  BY <1>6 DEF f
<1> QED  BY <1>1, <1>7, <1>8 DEF IsWay

-----------------------------------------------------------------------------
(* A text and its blocks.                                                  *)

\* Some tokens.
Text == Seq(Nat \X Nat)

\* AddLine makes a text of two.
LEMMA LineIs ==
  ASSUME NEW text \in Text, NEW t \in Text
  PROVE  /\ C!AddLine(text, t) \in Text
         /\ text = << >> => C!AddLine(text, t) = t
         /\ t = << >> => C!AddLine(text, t) = text
         /\ text # << >> /\ t # << >> =>
              /\ Len(C!AddLine(text, t)) = Len(text) + 1 + Len(t)
              /\ \A p \in 1..Len(text) : C!AddLine(text, t)[p] = text[p]
              /\ C!AddLine(text, t)[Len(text) + 1] = C!Newline
              /\ \A q \in 1..Len(t) : C!AddLine(text, t)[Len(text) + 1 + q] = t[q]
PROOF
<1>1. C!Newline \in Nat \X Nat /\ << C!Newline >> \in Text
  BY DEF C!Newline, Text
<1>2. CASE text = << >>
  BY <1>2 DEF C!AddLine, Text
<1>3. CASE t = << >>
  BY <1>3 DEF C!AddLine, Text
<1>4. CASE text # << >> /\ t # << >>
  <2>1. C!AddLine(text, t) = (text \o << C!Newline >>) \o t
    BY <1>4 DEF C!AddLine
  <2>. DEFINE x == text \o << C!Newline >>
  <2>2. x \in Text /\ Len(x) = Len(text) + 1 /\ (\A p \in 1..Len(text) : x[p] = text[p])
        /\ x[Len(text) + 1] = C!Newline /\ Len(text) \in Nat
    BY <1>1 DEF Text
  <2> HIDE DEF x
  <2>3. /\ x \o t \in Text
        /\ Len(x \o t) = Len(x) + Len(t)
        /\ \A p \in 1..Len(x) : (x \o t)[p] = x[p]
        /\ \A q \in 1..Len(t) : (x \o t)[Len(x) + q] = t[q]
    <3>1. x \in Seq(Nat \X Nat) /\ t \in Seq(Nat \X Nat)
      BY <2>2 DEF Text
    <3> QED  BY <3>1 DEF Text
  <2>4. C!AddLine(text, t) = x \o t
    BY <2>1 DEF x
  <2>5. \A p \in 1..Len(text) : p \in 1..Len(x)
    BY <2>2
  <2>6. Len(text) + 1 \in 1..Len(x)
    BY <2>2
  <2> QED  BY <1>4, <2>2, <2>3, <2>4, <2>5, <2>6
<1> QED  BY <1>2, <1>3, <1>4

\* join_texts: one text after the other.
LEMMA JoinIs ==
  ASSUME NEW n \in Nat, NEW ts \in [1..n -> Text]
  PROVE  \E f \in [0..n -> Text] : /\ f[0] = << >>
                                   /\ \A i \in 1..n : f[i] = C!AddLine(f[i - 1], ts[i])
                                   /\ f[n] = C!JoinTexts(ts)
PROOF
<1>. DEFINE st == [i \in 1..n |-> [a \in Text |-> C!AddLine(a, ts[i])]]
            F(it, s) == IF s = {} THEN << >> ELSE C!AddLine(it[s \ {Top(s)}], ts[Top(s)])
            iter == CHOOSE it : it = [s \in SUBSET (1..n) |-> F(it, s)]
<1>1. C!JoinTexts(ts) = iter[1..n]
  <2>1. DOMAIN ts = 1..n
    OBVIOUS
  <2> QED  BY <2>1 DEF C!JoinTexts, C!FoldLeft, C!MapThenFoldSet, Top
<1>2. \A i \in 1..n : \A a \in Text : st[i][a] = C!AddLine(a, ts[i]) /\ st[i][a] \in Text
  BY LineIs
<1>3. << >> \in Text
  BY DEF Text
<1> HIDE DEF st
<1>4. Keep(st, Text, n)
  BY <1>2 DEF Keep
<1>5. \E it : it = [s \in SUBSET (1..n) |-> F(it, s)]
  <2>1. PICK it : Iterates(it, Text, << >>, n, st)
    BY <1>3, <1>4, FoldTyped
  <2>2. ASSUME NEW s \in SUBSET (1..n)
        PROVE  it[s] = F(it, s)
    <3>1. s \ {Top(s)} \in SUBSET (1..n)
      OBVIOUS
    <3> QED  BY <1>2, <2>1, <3>1, TopIs DEF Iterates
  <2> HIDE DEF F
  <2>3. it = [s \in SUBSET (1..n) |-> F(it, s)]
    BY <2>1, <2>2 DEF Iterates
  <2> QED  BY <2>3
<1>6. iter = [s \in SUBSET (1..n) |-> F(iter, s)]
  <2> HIDE DEF F
  <2> QED  BY <1>5
<1> HIDE DEF iter
<1>7. \A s \in SUBSET (1..n) : iter[s] = F(iter, s)
  <2> HIDE DEF F
  <2> QED  BY <1>6
<1>8. Goes(iter, Text, << >>, n, st)
  BY <1>2, <1>7, TopIs DEF Goes
<1>9. PICK f : IsWay(f, Text, << >>, n, st) /\ f[n] = iter[1..n]
  BY <1>3, <1>4, <1>8, FoldWay
<1>10. \A i \in 1..n : f[i - 1] \in Text /\ f[i] = C!AddLine(f[i - 1], ts[i])
  BY <1>2, <1>9 DEF IsWay
<1> QED  BY <1>1, <1>9, <1>10 DEF IsWay

\* Numbered blocks.
Blocks(blocks, N) ==
  /\ N \in Nat /\ DOMAIN blocks = 1..N
  /\ \A i \in 1..N : blocks[i].size \in Nat /\ blocks[i].kind \in C!AtomicKinds \cup {"text", "title"}

\* Some of them, in their order.
Ascends(ids, N) ==
  /\ ids \in Seq(1..N)
  /\ \A j, k \in 1..Len(ids) : j < k => ids[j] < ids[k]

Span == [block : Nat, start : Nat, end : Nat]

SpanLists == Seq(Span)

\* AddSpan makes spans of spans.
LEMMA SpanIs ==
  ASSUME NEW spans \in Seq(Span), NEW blocks, NEW i \in Nat, blocks[i].size \in Nat
  PROVE  C!AddSpan(spans, i, blocks) \in Seq(Span)
PROOF
<1>. DEFINE start == IF spans = << >> THEN 0 ELSE C!Last(spans).end + 1
            span == [block |-> i, start |-> start, end |-> start + blocks[i].size]
<1>1. start \in Nat
  <2>1. ASSUME spans # << >> PROVE spans[Len(spans)] \in Span
    BY <2>1
  <2> QED  BY <2>1 DEF C!Last, Span
<1> HIDE DEF start
<1>2. span \in Span
  BY <1>1 DEF Span
<1>3. C!AddSpan(spans, i, blocks) = IF blocks[i].size = 0 THEN spans ELSE Append(spans, span)
  BY DEF C!AddSpan, start
<1> HIDE DEF span
<1> QED  BY <1>2, <1>3

\* The spans of the blocks, one after the other.
LEMMA SpansAre ==
  ASSUME NEW blocks, NEW N \in Nat, Blocks(blocks, N), NEW ids \in Seq(1..N), NEW n \in Nat, n = Len(ids)
  PROVE  \E f \in [0..n -> SpanLists] :
           /\ f[0] = << >>
           /\ \A i \in 1..n : f[i] = C!AddSpan(f[i - 1], ids[i], blocks)
           /\ f[n] = C!Spans(blocks, ids)
PROOF
<1>. DEFINE st == [i \in 1..n |-> [a \in SpanLists |-> C!AddSpan(a, ids[i], blocks)]]
            F(it, s) == IF s = {} THEN << >> ELSE C!AddSpan(it[s \ {Top(s)}], ids[Top(s)], blocks)
            iter == CHOOSE it : it = [s \in SUBSET (1..n) |-> F(it, s)]
<1>1. C!Spans(blocks, ids) = iter[1..n]
  <2>1. DOMAIN ids = 1..n
    OBVIOUS
  <2> QED  BY <2>1 DEF C!Spans, C!FoldLeft, C!MapThenFoldSet, Top
<1>2. \A i \in 1..n : \A a \in SpanLists : st[i][a] = C!AddSpan(a, ids[i], blocks) /\ st[i][a] \in SpanLists
  <2>1. \A i \in 1..n : ids[i] \in Nat /\ blocks[ids[i]].size \in Nat
    BY DEF Blocks
  <2> QED  BY <2>1, SpanIs DEF SpanLists
<1>3. << >> \in SpanLists
  BY DEF SpanLists
<1> HIDE DEF st
<1>4. Keep(st, SpanLists, n)
  BY <1>2 DEF Keep
<1>5. \E it : it = [s \in SUBSET (1..n) |-> F(it, s)]
  <2>1. PICK it : Iterates(it, SpanLists, << >>, n, st)
    BY <1>3, <1>4, FoldTyped
  <2>2. ASSUME NEW s \in SUBSET (1..n)
        PROVE  it[s] = F(it, s)
    <3>1. s \ {Top(s)} \in SUBSET (1..n)
      OBVIOUS
    <3> QED  BY <1>2, <2>1, <3>1, TopIs DEF Iterates
  <2> HIDE DEF F
  <2>3. it = [s \in SUBSET (1..n) |-> F(it, s)]
    BY <2>1, <2>2 DEF Iterates
  <2> QED  BY <2>3
<1>6. iter = [s \in SUBSET (1..n) |-> F(iter, s)]
  <2> HIDE DEF F
  <2> QED  BY <1>5
<1> HIDE DEF iter
<1>7. \A s \in SUBSET (1..n) : iter[s] = F(iter, s)
  <2> HIDE DEF F
  <2> QED  BY <1>6
<1>8. Goes(iter, SpanLists, << >>, n, st)
  <2>1. iter[{}] = << >>
    BY <1>7
  <2>2. ASSUME NEW s \in SUBSET (1..n), s # {}, iter[s \ {Top(s)}] \in SpanLists
        PROVE  iter[s] = st[Top(s)][iter[s \ {Top(s)}]]
    <3>1. Top(s) \in 1..n
      BY <2>2, TopIs
    <3>2. iter[s] = C!AddSpan(iter[s \ {Top(s)}], ids[Top(s)], blocks)
      BY <1>7, <2>2
    <3> QED  BY <1>2, <2>2, <3>1, <3>2
  <2> QED  BY <2>1, <2>2 DEF Goes
<1>9. PICK f : IsWay(f, SpanLists, << >>, n, st) /\ f[n] = iter[1..n]
  BY <1>3, <1>4, <1>8, FoldWay
<1>10. ASSUME NEW i \in 1..n
       PROVE  f[i] = C!AddSpan(f[i - 1], ids[i], blocks)
  <2>1. i - 1 \in 0..n
    OBVIOUS
  <2>2. f[i - 1] \in SpanLists /\ f[i] = st[i][f[i - 1]]
    BY <1>9, <2>1 DEF IsWay
  <2> QED  BY <1>2, <2>2
<1> QED  BY <1>1, <1>9, <1>10 DEF IsWay

\* The tokens of a block are a text.
LEMMA UnitsAre ==
  ASSUME NEW blocks, NEW i \in Nat, blocks[i].size \in Nat
  PROVE  /\ C!Units(blocks, i) \in Text
         /\ Len(C!Units(blocks, i)) = blocks[i].size
         /\ \A q \in 1..blocks[i].size : C!Units(blocks, i)[q] = <<i, q>>
         /\ blocks[i].size = 0 => C!Units(blocks, i) = << >>
         /\ blocks[i].size # 0 => C!Units(blocks, i) # << >>
PROOF
<1>. DEFINE u == C!Units(blocks, i)
            n == blocks[i].size
<1>1. u = [k \in 1..n |-> <<i, k>>] /\ n \in Nat
  BY DEF C!Units
<1>2. \A k \in 1..n : <<i, k>> \in Nat \X Nat
  OBVIOUS
<1> HIDE DEF u, n
<1>3. u \in [1..n -> Nat \X Nat] /\ \A q \in 1..n : u[q] = <<i, q>>
  BY <1>1, <1>2
<1>4. u \in Seq(Nat \X Nat) /\ Len(u) = n
  BY <1>1, <1>3
<1>5. n = 0 <=> u = << >>
  <2>1. ASSUME n = 0 PROVE u = << >>
    <3>1. 1..n = {}
      BY <2>1
    <3>2. DOMAIN u = {} /\ u = [k \in {} |-> u[k]]
      BY <1>3, <3>1
    <3>3. DOMAIN << >> = {} /\ << >> = [k \in {} |-> << >>[k]]
      OBVIOUS
    <3> QED  BY <3>2, <3>3
  <2>2. ASSUME u = << >> PROVE n = 0
    BY <1>4, <2>2
  <2> QED  BY <2>1, <2>2
<1> QED  BY <1>3, <1>4, <1>5 DEF u, n, Text

\* Where the tokens of each span are in the text, and that nothing else is there.
Covers(blocks, text, spans) ==
  /\ text = << >> <=> spans = << >>
  /\ spans # << >> => spans[Len(spans)].end = Len(text)
  /\ \A s \in 1..Len(spans) :
       /\ spans[s].end = spans[s].start + blocks[spans[s].block].size
       /\ blocks[spans[s].block].size \in Nat \ {0}
       /\ spans[s].end <= Len(text)
       /\ \A q \in 1..blocks[spans[s].block].size : text[spans[s].start + q] = <<spans[s].block, q>>
  /\ \A p \in 1..Len(text) :
       text[p] = C!Newline \/ \E s \in 1..Len(spans) : spans[s].start < p /\ p <= spans[s].end

\* The spans are those of the first j of some blocks.
SpansOf(blocks, ids, j, spans) ==
  /\ \A s \in 1..Len(spans) : \E k \in 1..j : ids[k] = spans[s].block
  /\ \A s, t \in 1..Len(spans) :
       s < t => spans[s].end < spans[t].start /\ spans[s].block < spans[t].block
  /\ \A k \in 1..j : blocks[ids[k]].size > 0 => \E s \in 1..Len(spans) : spans[s].block = ids[k]

Fits(blocks, ids, j, text, spans) ==
  /\ text \in Text /\ spans \in SpanLists
  /\ Covers(blocks, text, spans)
  /\ SpansOf(blocks, ids, j, spans)

\* What AddSpan adds.
LEMMA SpanAdded ==
  ASSUME NEW spans \in SpanLists, NEW blocks, NEW i \in Nat, blocks[i].size \in Nat \ {0}
  PROVE  LET more == C!AddSpan(spans, i, blocks)
             m == Len(spans)
         IN /\ more \in SpanLists /\ m \in Nat /\ Len(more) = m + 1
            /\ \A s \in 1..m : more[s] = spans[s] /\ spans[s] \in Span
            /\ more[m + 1].block = i
            /\ more[m + 1].start = IF spans = << >> THEN 0 ELSE spans[m].end + 1
            /\ more[m + 1].end = more[m + 1].start + blocks[i].size
            /\ more[m + 1] \in Span
PROOF
<1>. DEFINE start == IF spans = << >> THEN 0 ELSE C!Last(spans).end + 1
            span == [block |-> i, start |-> start, end |-> start + blocks[i].size]
            more == C!AddSpan(spans, i, blocks)
<1>0. spans \in Seq(Span)
  BY DEF SpanLists
<1>1. more \in SpanLists
  BY <1>0, SpanIs DEF SpanLists
<1>2. more = Append(spans, span)
  BY DEF C!AddSpan
<1>3. start = IF spans = << >> THEN 0 ELSE spans[Len(spans)].end + 1
  BY DEF C!Last
<1>4. span.block = i /\ span.start = start /\ span.end = start + blocks[i].size
  OBVIOUS
<1> HIDE DEF span, start, more
<1>5. Len(more) = Len(spans) + 1 /\ more[Len(spans) + 1] = span /\ Len(spans) \in Nat
      /\ \A s \in 1..Len(spans) : more[s] = spans[s] /\ spans[s] \in Span
  BY <1>0, <1>2
<1>6. Len(spans) + 1 \in 1..Len(more)
  BY <1>5
<1>7. span \in Span
  <2>1. more \in Seq(Span)
    BY <1>1 DEF SpanLists
  <2>2. more[Len(spans) + 1] \in Span
    BY <1>6, <2>1
  <2> QED  BY <1>5, <2>2
<1> QED  BY <1>1, <1>3, <1>4, <1>5, <1>7 DEF more

\* Text and spans grow together.
LEMMA FitsNext ==
  ASSUME NEW blocks, NEW N \in Nat, Blocks(blocks, N), NEW ids, Ascends(ids, N),
         NEW j \in Nat, j + 1 <= Len(ids), NEW text, NEW spans, Fits(blocks, ids, j, text, spans)
  PROVE  Fits(blocks, ids, j + 1, C!AddLine(text, C!Units(blocks, ids[j + 1])),
              C!AddSpan(spans, ids[j + 1], blocks))
PROOF
<1>. DEFINE i == ids[j + 1]
            z == blocks[i].size
            u == C!Units(blocks, i)
            longer == C!AddLine(text, u)
            more == C!AddSpan(spans, i, blocks)
            m == Len(spans)
<1>1. i \in 1..N /\ i \in Nat /\ z \in Nat /\ j + 1 \in 1..Len(ids)
  <2>1. ids \in Seq(1..N) /\ Len(ids) \in Nat /\ j + 1 \in 1..Len(ids)
    BY DEF Ascends
  <2>2. i \in 1..N
    BY <2>1
  <2> QED  BY <2>1, <2>2 DEF Blocks
<1>2. /\ u \in Text /\ Len(u) = z /\ \A q \in 1..z : u[q] = <<i, q>>
      /\ z = 0 <=> u = << >>
  BY <1>1, UnitsAre
<1>3. text \in Text /\ spans \in SpanLists /\ Covers(blocks, text, spans)
      /\ SpansOf(blocks, ids, j, spans)
  BY DEF Fits
<1>4. longer \in Text
  BY <1>2, <1>3, LineIs
<1>5. \A k \in 1..j : ids[k] < i
  <2>. SUFFICES ASSUME NEW k \in 1..j PROVE ids[k] < i
    OBVIOUS
  <2>. DEFINE e == j + 1
  <2>1. Len(ids) \in Nat /\ \A a, b \in 1..Len(ids) : a < b => ids[a] < ids[b]
    BY DEF Ascends
  <2>2. k \in 1..Len(ids) /\ e \in 1..Len(ids) /\ k < e
    BY <1>1, <2>1
  <2> HIDE DEF e
  <2>3. ids[k] < ids[e]
    BY <2>1, <2>2
  <2> QED  BY <2>3 DEF e
<1>6. CASE z = 0
  <2>1. longer = text
    BY <1>2, <1>3, <1>6, LineIs
  <2>2. more = spans
    BY <1>6 DEF C!AddSpan
  <2>3. SpansOf(blocks, ids, j + 1, spans)
    <3>1. ASSUME NEW s \in 1..Len(spans)
          PROVE  \E k \in 1..(j + 1) : ids[k] = spans[s].block
      <4>1. PICK k \in 1..j : ids[k] = spans[s].block
        BY <1>3 DEF SpansOf
      <4>2. k \in 1..(j + 1)
        OBVIOUS
      <4> QED  BY <4>1, <4>2
    <3>2. \A k \in 1..(j + 1) : k \in 1..j \/ k = j + 1
      OBVIOUS
    <3>3. \A k \in 1..(j + 1) :
            blocks[ids[k]].size > 0 => \E s \in 1..Len(spans) : spans[s].block = ids[k]
      BY <1>3, <1>6, <3>2 DEF SpansOf
    <3> QED  BY <1>3, <3>1, <3>3 DEF SpansOf
  <2> QED  BY <1>3, <2>1, <2>2, <2>3 DEF Fits
<1>7. CASE z # 0
  <2>1. /\ more \in SpanLists /\ m \in Nat /\ Len(more) = m + 1
        /\ \A s \in 1..m : more[s] = spans[s] /\ spans[s] \in Span
        /\ more[m + 1].block = i
        /\ more[m + 1].start = IF spans = << >> THEN 0 ELSE spans[m].end + 1
        /\ more[m + 1].end = more[m + 1].start + z
        /\ more[m + 1] \in Span
    BY <1>1, <1>3, <1>7, SpanAdded
  <2>. DEFINE a == IF text = << >> THEN 0 ELSE Len(text) + 1
  <2>2. /\ a \in Nat /\ Len(longer) = a + z /\ Len(text) \in Nat
        /\ \A p \in 1..Len(text) : longer[p] = text[p]
        /\ \A q \in 1..z : longer[a + q] = <<i, q>>
        /\ text # << >> => longer[Len(text) + 1] = C!Newline
        /\ a = 0 \/ a = Len(text) + 1
        /\ a = 0 => Len(text) = 0
    <3>1. CASE text = << >>
      <4>1. longer = u /\ Len(text) = 0
        BY <1>2, <1>3, <3>1, LineIs
      <4> QED  BY <1>1, <1>2, <3>1, <4>1
    <3>2. CASE text # << >>
      <4>1. Len(text) \in Nat /\ a = Len(text) + 1
        BY <1>3, <3>2 DEF Text
      <4>2. /\ Len(longer) = Len(text) + 1 + Len(u)
            /\ \A p \in 1..Len(text) : longer[p] = text[p]
            /\ longer[Len(text) + 1] = C!Newline
            /\ \A q \in 1..Len(u) : longer[Len(text) + 1 + q] = u[q]
        BY <1>2, <1>3, <1>7, <3>2, LineIs
      <4> HIDE DEF a, longer, u, i, z
      <4>3. Len(longer) = a + z
        BY <1>2, <4>1, <4>2
      <4>4. ASSUME NEW q \in 1..z
            PROVE  longer[a + q] = <<i, q>>
        <5>1. u[q] = <<i, q>> /\ q \in 1..Len(u)
          BY <1>2
        <5>2. longer[Len(text) + 1 + q] = u[q]
          BY <4>2, <5>1
        <5> QED  BY <4>1, <5>1, <5>2
      <4>5. \A q \in 1..z : longer[a + q] = <<i, q>>
        BY <4>4
      <4>6. text # << >> => longer[Len(text) + 1] = C!Newline
        BY <4>2
      <4>7. a \in Nat /\ Len(text) \in Nat /\ (a = 0 \/ a = Len(text) + 1) /\ (a = 0 => Len(text) = 0)
        BY <4>1
      <4>8. \A p \in 1..Len(text) : longer[p] = text[p]
        BY <4>2
      <4> QED  BY <4>3, <4>5, <4>6, <4>7, <4>8
    <3> QED  BY <3>1, <3>2
  <2>3. more[m + 1].start = a
    BY <1>3, <2>1 DEF Covers
  <2> HIDE DEF a, longer, more, m, i, z
  <2>4. ASSUME NEW s \in 1..(m + 1)
        PROVE  s \in 1..m \/ s = m + 1
    BY <2>1
  <2>5. ASSUME NEW s \in 1..m
        PROVE  /\ more[s] = spans[s] /\ more[s].start \in Nat /\ more[s].end \in Nat
               /\ more[s].block \in Nat
               /\ more[s].end = more[s].start + blocks[more[s].block].size
               /\ blocks[more[s].block].size \in Nat \ {0}
               /\ more[s].end <= Len(text)
    <3>1. more[s] = spans[s] /\ spans[s] \in Span
      BY <2>1
    <3> QED  BY <1>3, <3>1 DEF Covers, Span, m
  <2>6. ASSUME NEW s \in 1..m
        PROVE  /\ more[s].end <= Len(longer)
               /\ \A q \in 1..blocks[more[s].block].size :
                    longer[more[s].start + q] = <<more[s].block, q>>
    <3>1. more[s].end <= Len(longer)
      <4>1. z \in Nat
        BY <1>1
      <4>2. Len(text) <= Len(longer)
        BY <2>2, <4>1
      <4>3. more[s].end \in Nat /\ more[s].end <= Len(text)
        BY <2>5
      <4> QED  BY <2>2, <4>1, <4>2, <4>3
    <3>2. ASSUME NEW q \in 1..blocks[more[s].block].size
          PROVE  longer[more[s].start + q] = <<more[s].block, q>>
      <4>1. /\ more[s].start \in Nat /\ more[s].end \in Nat /\ more[s].end <= Len(text)
            /\ blocks[more[s].block].size \in Nat
            /\ more[s].end = more[s].start + blocks[more[s].block].size
            /\ Len(text) \in Nat
        BY <2>2, <2>5
      <4>2. more[s].start + q \in 1..Len(text)
        <5>. DEFINE x == more[s].start
                    y == blocks[more[s].block].size
        <5>1. x \in Nat /\ y \in Nat /\ x + y <= Len(text) /\ Len(text) \in Nat /\ q \in 1..y
          BY <4>1
        <5> HIDE DEF x, y
        <5>2. x + q \in 1..Len(text)
          BY ONLY <5>1
        <5> QED  BY <5>2 DEF x
      <4>3. longer[more[s].start + q] = text[more[s].start + q]
        BY <2>2, <4>2
      <4>4. more[s] = spans[s]
        BY <2>5
      <4>5. text[spans[s].start + q] = <<spans[s].block, q>>
        BY <1>3, <4>4 DEF Covers, m
      <4> QED  BY <4>3, <4>4, <4>5
    <3> QED  BY <3>1, <3>2
  <2>7. Covers(blocks, longer, more)
    <3>1. longer # << >> /\ more # << >>
      BY <1>1, <1>7, <2>1, <2>2 DEF z
    <3>2. more[Len(more)].end = Len(longer)
      BY <2>1, <2>2, <2>3
    <3>3. ASSUME NEW s \in 1..Len(more)
          PROVE  /\ more[s].end = more[s].start + blocks[more[s].block].size
                 /\ blocks[more[s].block].size \in Nat \ {0}
                 /\ more[s].end <= Len(longer)
                 /\ \A q \in 1..blocks[more[s].block].size :
                      longer[more[s].start + q] = <<more[s].block, q>>
      <4>1. CASE s \in 1..m
        BY <2>5, <2>6, <4>1
      <4>2. CASE s = m + 1
        <5>1. more[s].block = i /\ more[s].start = a /\ more[s].end = a + z
          BY <2>1, <2>3, <4>2
        <5>2. z = blocks[i].size /\ z \in Nat \ {0}
          BY <1>1, <1>7 DEF z
        <5>3. a + z <= Len(longer)
          BY <2>2, <5>2
        <5> QED  BY <2>2, <5>1, <5>2, <5>3
      <4> QED  BY <2>1, <2>4, <4>1, <4>2
    <3>4. ASSUME NEW p \in 1..Len(longer)
          PROVE  longer[p] = C!Newline \/ \E s \in 1..Len(more) : more[s].start < p /\ p <= more[s].end
      <4>1. p \in 1..Len(text) \/ (text # << >> /\ p = Len(text) + 1) \/ (a < p /\ p <= a + z)
        BY <1>1, <2>2 DEF z, a
      <4>2. CASE p \in 1..Len(text)
        <5>1. longer[p] = text[p]
          BY <2>2, <4>2
        <5>2. text[p] = C!Newline \/ \E s \in 1..m : spans[s].start < p /\ p <= spans[s].end
          BY <1>3, <4>2 DEF Covers, m
        <5>3. \A s \in 1..m : s \in 1..Len(more) /\ more[s] = spans[s]
          BY <2>1
        <5> QED  BY <5>1, <5>2, <5>3
      <4>3. CASE text # << >> /\ p = Len(text) + 1
        BY <2>2, <4>3
      <4>4. CASE a < p /\ p <= a + z
        BY <2>1, <2>3, <4>4
      <4> QED  BY <4>1, <4>2, <4>3, <4>4
    <3> QED  BY <3>1, <3>2, <3>3, <3>4 DEF Covers
  <2>8. SpansOf(blocks, ids, j + 1, more)
    <3>1. ASSUME NEW s \in 1..Len(more)
          PROVE  \E k \in 1..(j + 1) : ids[k] = more[s].block
      <4>1. CASE s \in 1..m
        <5>1. \E k \in 1..j : ids[k] = more[s].block
          BY <1>3, <2>5, <4>1 DEF SpansOf, m
        <5> QED  BY <5>1
      <4>2. CASE s = m + 1
        BY <2>1, <4>2 DEF i
      <4> QED  BY <2>1, <2>4, <4>1, <4>2
    <3>2. ASSUME NEW s \in 1..Len(more), NEW t \in 1..Len(more), s < t
          PROVE  more[s].end < more[t].start /\ more[s].block < more[t].block
      <4>1. s \in 1..m
        BY <2>1, <3>2
      <4>2. CASE t \in 1..m
        BY <1>3, <2>5, <3>2, <4>1, <4>2 DEF SpansOf, m
      <4>3. CASE t = m + 1
        <5>1. more[s].end < a
          <6>1. more[s].end <= Len(text) /\ more[s].end \in Nat /\ more[s].end # 0
            <7>1. more[s].end = more[s].start + blocks[more[s].block].size
                  /\ blocks[more[s].block].size \in Nat \ {0} /\ more[s].start \in Nat
                  /\ more[s].end <= Len(text)
              BY <2>5, <4>1
            <7> QED  BY ONLY <7>1
          <6> QED  BY <2>2, <6>1
        <5>2. PICK k \in 1..j : ids[k] = more[s].block
          BY <1>3, <2>5, <4>1 DEF SpansOf, m
        <5> QED  BY <1>5, <2>1, <2>3, <4>3, <5>1, <5>2 DEF i
      <4> QED  BY <2>1, <2>4, <4>2, <4>3
    <3>3. ASSUME NEW k \in 1..(j + 1), blocks[ids[k]].size > 0
          PROVE  \E s \in 1..Len(more) : more[s].block = ids[k]
      <4>1. CASE k \in 1..j
        <5>1. PICK s \in 1..m : spans[s].block = ids[k]
          BY <1>3, <3>3, <4>1 DEF SpansOf, m
        <5>2. s \in 1..Len(more) /\ more[s] = spans[s]
          BY <2>1
        <5> QED  BY <5>1, <5>2
      <4>2. CASE k = j + 1
        <5>1. m + 1 \in 1..Len(more)
          BY <2>1
        <5> QED  BY <2>1, <4>2, <5>1 DEF i
      <4> QED  BY <4>1, <4>2
    <3> QED  BY <3>1, <3>2, <3>3 DEF SpansOf
  <2> QED  BY <1>4, <2>1, <2>7, <2>8 DEF Fits, longer, more, i
<1> QED  BY <1>1, <1>6, <1>7

\* The joined text of some blocks and their spans.
LEMMA JoinFits ==
  ASSUME NEW blocks, NEW N \in Nat, Blocks(blocks, N), NEW ids, Ascends(ids, N)
  PROVE  Fits(blocks, ids, Len(ids), C!Join(blocks, ids), C!Spans(blocks, ids))
PROOF
<1>. DEFINE n == Len(ids)
            ts == [j \in 1..n |-> C!Units(blocks, ids[j])]
<1>1. ids \in Seq(1..N) /\ n \in Nat /\ DOMAIN ids = 1..n
  BY DEF Ascends
<1>2. \A j \in 1..n : ids[j] \in Nat /\ blocks[ids[j]].size \in Nat
  BY <1>1 DEF Blocks
<1>3. ts \in [1..n -> Text]
  <2>1. \A j \in 1..n : C!Units(blocks, ids[j]) \in Text
    BY <1>2, UnitsAre
  <2> QED  BY <2>1
<1>4. C!Join(blocks, ids) = C!JoinTexts(ts)
  BY <1>1 DEF C!Join
<1>5. \A j \in 1..n : ts[j] = C!Units(blocks, ids[j])
  OBVIOUS
<1> HIDE DEF ts, n
<1>6. PICK f \in [0..n -> Text] : /\ f[0] = << >>
                                  /\ \A i \in 1..n : f[i] = C!AddLine(f[i - 1], ts[i])
                                  /\ f[n] = C!JoinTexts(ts)
  BY <1>1, <1>3, JoinIs
<1>7. PICK g \in [0..n -> SpanLists] : /\ g[0] = << >>
                                       /\ \A i \in 1..n : g[i] = C!AddSpan(g[i - 1], ids[i], blocks)
                                       /\ g[n] = C!Spans(blocks, ids)
  BY <1>1, SpansAre DEF n
<1>. DEFINE Q == {m \in Nat : m <= n => Fits(blocks, ids, m, f[m], g[m])}
<1>8. 0 \in Q
  <2>1. f[0] \in Text /\ g[0] \in SpanLists /\ Len(f[0]) = 0 /\ Len(g[0]) = 0
    BY <1>1, <1>6, <1>7
  <2>2. 1..0 = {}
    OBVIOUS
  <2> QED  BY <1>6, <1>7, <2>1, <2>2 DEF Fits, Covers, SpansOf
<1>9. ASSUME NEW m \in Q
      PROVE  m + 1 \in Q
  <2>. SUFFICES ASSUME m + 1 <= n
                PROVE  Fits(blocks, ids, m + 1, f[m + 1], g[m + 1])
    OBVIOUS
  <2>1. m \in Nat /\ m + 1 \in 1..n /\ (m + 1) - 1 = m /\ m <= n
    BY <1>1
  <2>2. Fits(blocks, ids, m, f[m], g[m])
    BY <2>1
  <2>3. f[m + 1] = C!AddLine(f[m], C!Units(blocks, ids[m + 1]))
        /\ g[m + 1] = C!AddSpan(g[m], ids[m + 1], blocks)
    BY <1>5, <1>6, <1>7, <2>1
  <2>4. m + 1 <= Len(ids)
    BY DEF n
  <2> QED  BY <2>1, <2>2, <2>3, <2>4, FitsNext
<1>10. Q \in SUBSET Nat
  OBVIOUS
<1> HIDE DEF Q
<1>11. n \in Q /\ n <= n
  <2>1. Q = Nat
    BY <1>8, <1>9, <1>10, NatSetInduction
  <2> QED  BY <1>1, <2>1
<1> QED  BY <1>4, <1>6, <1>7, <1>11 DEF Q, n

\* The whole of a division.
LEMMA Division ==
  ASSUME NEW a \in Nat, NEW n \in Nat \ {0}
  PROVE  a \div n \in Nat /\ (a \div n) * n <= a /\ a < (a \div n) * n + n
OBVIOUS

\* Multiples.
LEMMA Multiples ==
  ASSUME NEW a \in Nat, NEW n \in Nat
  PROVE  a * n \in Nat /\ (a + 1) * n = a * n + n
OBVIOUS

\* The multiples of a number are in the order of their factors.
LEMMA MultiplesGrow ==
  ASSUME NEW a \in Nat, NEW b \in Nat, NEW n \in Nat \ {0}
  PROVE  /\ a <= b => a * n <= b * n
         /\ a * n < b * n => a < b
OBVIOUS

\* A window.
Piece == [from : Nat, to : Nat]

\* Pieces of a text, none empty, one after the other, and all of it.
IsCut(w, len) ==
  /\ w \in Seq(Piece)
  /\ \A k \in 1..Len(w) : w[k].from < w[k].to /\ w[k].to <= len
  /\ \A k, l \in 1..Len(w) : k < l => w[k].to <= w[l].from
  /\ \A p \in 1..len : \E k \in 1..Len(w) : w[k].from < p /\ p <= w[k].to

\* split_text_fixed cuts the text.
LEMMA WindowsCut ==
  ASSUME NEW text \in Text, NEW n \in Nat \ {0}
  PROVE  IsCut(C!Windows(text, n), Len(text))
PROOF
<1>. DEFINE len == Len(text)
            m == (len + n - 1) \div n
            w == C!Windows(text, n)
            from(k) == (k - 1) * n
            to(k) == IF k * n < len THEN k * n ELSE len
<1>1. len \in Nat
  BY DEF Text
<1>2. w = [k \in 1..m |-> [from |-> from(k), to |-> to(k)]]
  BY DEF C!Windows
<1> HIDE DEF w, len
<1>3. m \in Nat /\ m * n <= len + n - 1 /\ len + n - 1 < m * n + n
  BY <1>1, Division
<1> HIDE DEF m
<1>4. ASSUME NEW k \in 1..m
      PROVE  from(k) \in Nat /\ k * n \in Nat /\ k * n = from(k) + n /\ from(k) < len
  <2>1. k - 1 \in Nat /\ (k - 1) + 1 = k /\ k \in Nat
    OBVIOUS
  <2>2. from(k) \in Nat /\ k * n = from(k) + n
    BY <2>1, Multiples
  <2>3. k * n <= m * n
    BY <1>3, MultiplesGrow
  <2>4. k * n \in Nat /\ m * n \in Nat
    BY <1>3, <2>1, Multiples
  <2> HIDE DEF from
  <2> QED  BY <1>1, <1>3, <2>2, <2>3, <2>4
<1>5. ASSUME NEW k \in 1..m
      PROVE  to(k) \in Nat /\ from(k) < to(k) /\ to(k) <= len /\ to(k) <= k * n
  <2> HIDE DEF from
  <2> QED  BY <1>1, <1>4
<1>6. ASSUME NEW k \in 1..m, NEW l \in 1..m, k < l
      PROVE  to(k) <= from(l)
  <2>1. k <= l - 1 /\ k \in Nat /\ l - 1 \in Nat
    BY <1>6
  <2>2. k * n <= from(l)
    BY <2>1, MultiplesGrow
  <2> HIDE DEF from, to
  <2> QED  BY <1>4, <1>5, <2>2
<1>7. ASSUME NEW p \in 1..len
      PROVE  \E k \in 1..m : from(k) < p /\ p <= to(k)
  <2>. DEFINE d == (p - 1) \div n
  <2>1. d \in Nat /\ d * n <= p - 1 /\ p - 1 < d * n + n
    BY <1>1, Division
  <2> HIDE DEF d
  <2>2. d * n \in Nat /\ (d + 1) * n = d * n + n /\ m * n \in Nat
    BY <1>3, <2>1, Multiples
  <2>3. d * n < m * n
    BY <1>1, <1>3, <2>1, <2>2
  <2>4. d < m
    BY <1>3, <2>1, <2>3, MultiplesGrow
  <2>5. d + 1 \in 1..m /\ (d + 1) - 1 = d
    BY <1>3, <2>1, <2>4
  <2>6. from(d + 1) = d * n
    BY <2>5
  <2>7. to(d + 1) = IF (d + 1) * n < len THEN (d + 1) * n ELSE len
    OBVIOUS
  <2>8. from(d + 1) < p /\ p <= to(d + 1)
    <3> HIDE DEF from, to
    <3> QED  BY <1>1, <2>1, <2>2, <2>6, <2>7
  <2> QED  BY <2>5, <2>8
<1> HIDE DEF from, to
<1>8. w \in Seq(Piece) /\ Len(w) = m
  <2>1. w \in [1..m -> Piece]
    BY <1>2, <1>4, <1>5 DEF Piece
  <2> QED  BY <1>3, <2>1, MadeIsSequence
<1>9. \A k \in 1..m : w[k].from = from(k) /\ w[k].to = to(k)
  BY <1>2
<1>10. IsCut(w, len)
  <2>1. \A k \in 1..Len(w) : w[k].from < w[k].to /\ w[k].to <= len
    BY <1>5, <1>8, <1>9
  <2>2. \A k, l \in 1..Len(w) : k < l => w[k].to <= w[l].from
    BY <1>6, <1>8, <1>9
  <2>3. \A p \in 1..len : \E k \in 1..Len(w) : w[k].from < p /\ p <= w[k].to
    BY <1>7, <1>8, <1>9
  <2> QED  BY <1>8, <2>1, <2>2, <2>3 DEF IsCut
<1> QED  BY <1>10 DEF w, len

\* The blocks some text has tokens of.
Inside(body) == {body[p][1] : p \in {p \in 1..Len(body) : body[p] # C!Newline}}

\* Two pieces that overlap have a place in common.
Overlap(f, t, s, d) ==
  /\ f \in Nat /\ t \in Nat /\ s \in Nat /\ d \in Nat
  /\ f < t /\ 0 < d /\ s + d > f /\ s < t

\* Where they meet.
LEMMA Meet ==
  ASSUME NEW f, NEW t, NEW s, NEW d, Overlap(f, t, s, d)
  PROVE  \E p \in 1..(t - f), q \in 1..d : f + p = s + q
<1>. USE DEF Overlap
<1>. DEFINE p == IF s < f THEN 1 ELSE s - f + 1
            q == f + p - s
<1>1. p \in 1..(t - f) /\ q \in 1..d /\ f + p = s + q
  OBVIOUS
<1> HIDE DEF p, q
<1> QED  BY <1>1

\* A place within a piece.
LEMMA Within ==
  ASSUME NEW p \in Nat, NEW s \in Nat, NEW d \in Nat, NEW e \in Nat, e = s + d, s < p, p <= e
  PROVE  \E q \in 1..d : p = s + q
<1>1. p - s \in 1..d /\ p = s + (p - s)
  OBVIOUS
<1> QED  BY <1>1

\* A piece of a text.
LEMMA PieceIs ==
  ASSUME NEW text \in Text, NEW from \in Nat, NEW to \in Nat, from < to, to <= Len(text)
  PROVE  LET body == SubSeq(text, from + 1, to)
         IN /\ body \in Text /\ Len(body) = to - from /\ body # << >>
            /\ \A p \in 1..(to - from) : body[p] = text[from + p]
PROOF
<1>. DEFINE body == SubSeq(text, from + 1, to)
<1>1. text \in Seq(Nat \X Nat) /\ Len(text) \in Nat
  BY DEF Text
<1>2. body \in Seq(Nat \X Nat) /\ Len(body) = to - from /\ \A p \in 1..(to - from) : body[p] = text[from + p]
  <2>1. \A p \in from + 1 .. to : p \in 1..Len(text)
    BY <1>1
  <2> QED  BY <1>1, <2>1
<1> HIDE DEF body
<1>3. body # << >>
  BY <1>2
<1> QED  BY <1>2, <1>3 DEF Text, body

\* The spans of a piece are those of the blocks it has tokens of.
LEMMA CoveredIs ==
  ASSUME NEW blocks, NEW N \in Nat, Blocks(blocks, N), NEW ids, Ascends(ids, N),
         NEW text, NEW spans, Fits(blocks, ids, Len(ids), text, spans),
         NEW w \in Piece, w.from < w.to, w.to <= Len(text)
  PROVE  C!Covered(spans, w) = C!InOrder(Inside(SubSeq(text, w.from + 1, w.to)))
PROOF
<1>. DEFINE body == SubSeq(text, w.from + 1, w.to)
            len == Len(text)
            z == {j \in DOMAIN spans : spans[j].end > w.from /\ spans[j].start < w.to}
            o == C!InOrder(z)
            cov == [k \in 1..Len(o) |-> spans[o[k]].block]
            inside == Inside(body)
            size(j) == blocks[spans[j].block].size
<1>1. /\ text \in Text /\ spans \in Seq(Span) /\ Len(spans) \in Nat /\ DOMAIN spans = 1..Len(spans)
      /\ Covers(blocks, text, spans) /\ SpansOf(blocks, ids, Len(ids), spans) /\ len \in Nat
      /\ w.from \in Nat /\ w.to \in Nat
  <2>1. text \in Text /\ spans \in Seq(Span)
    BY DEF Fits, SpanLists
  <2>2. w.from \in Nat /\ w.to \in Nat
    BY DEF Piece
  <2> QED  BY <2>1, <2>2 DEF Fits, Text
<1>2. /\ Len(body) = w.to - w.from
      /\ \A p \in 1..(w.to - w.from) : body[p] = text[w.from + p]
  BY <1>1, PieceIs
<1>3. \A j \in 1..Len(spans) :
        /\ spans[j].block \in Nat /\ spans[j].start \in Nat /\ spans[j].end \in Nat
        /\ spans[j].end = spans[j].start + size(j)
        /\ size(j) \in Nat \ {0} /\ spans[j].end <= len
        /\ \A q \in 1..size(j) : text[spans[j].start + q] = <<spans[j].block, q>>
  <2>1. \A j \in 1..Len(spans) : spans[j] \in Span
    BY <1>1
  <2>2. \A j \in 1..Len(spans) : spans[j].block \in Nat /\ spans[j].start \in Nat /\ spans[j].end \in Nat
    BY <2>1 DEF Span
  <2> QED  BY <1>1, <2>2 DEF Covers
<1>4. \A j, k \in 1..Len(spans) : j < k => spans[j].block < spans[k].block
  BY <1>1 DEF SpansOf
<1>5. \A p \in 1..len : text[p] = C!Newline \/ \E j \in 1..Len(spans) : spans[j].start < p /\ p <= spans[j].end
  BY <1>1 DEF Covers
<1>6. \A j \in 1..Len(spans) : spans[j].block \in 1..N
  <2>1. \A k \in 1..Len(ids) : ids[k] \in 1..N
    BY DEF Ascends
  <2> QED  BY <1>1, <2>1 DEF SpansOf
<1> HIDE DEF body, size
<1>7. IsFiniteSet(z) /\ z \in SUBSET Nat /\ z \subseteq 1..Len(spans)
  <2>1. z \subseteq 1..Len(spans) /\ IsFiniteSet(1..Len(spans))
    BY <1>1, Interval
  <2>2. IsFiniteSet(z)
    BY <2>1, FS_Subset
  <2> QED  BY <2>1, <2>2
<1>8. \A j \in 1..Len(spans) : j \in z <=> spans[j].end > w.from /\ spans[j].start < w.to
  BY <1>1
<1> HIDE DEF z
<1>9. Orderly(o, z) /\ Len(o) = C!Cardinality(z)
  BY <1>7, TheOrder
<1> HIDE DEF o
<1>10. o \in Seq(z) /\ Len(o) \in Nat /\ \A k \in 1..Len(o) : o[k] \in z /\ o[k] \in 1..Len(spans)
  <2>1. o \in Seq(z)
    BY <1>9 DEF Orderly
  <2>2. Len(o) \in Nat /\ \A k \in 1..Len(o) : o[k] \in z
    BY <2>1
  <2> QED  BY <1>7, <2>1, <2>2
<1>11. ASSUME NEW j \in z
       PROVE  spans[j].block \in inside
  <2>1. j \in 1..Len(spans) /\ spans[j].end > w.from /\ spans[j].start < w.to
    BY <1>7, <1>8
  <2>2. /\ spans[j].block \in Nat /\ spans[j].start \in Nat /\ spans[j].end \in Nat
        /\ spans[j].end = spans[j].start + size(j) /\ size(j) \in Nat \ {0}
        /\ spans[j].end <= len
        /\ \A q \in 1..size(j) : text[spans[j].start + q] = <<spans[j].block, q>>
    BY <1>3, <2>1
  <2>3. PICK p \in 1..(w.to - w.from), q \in 1..size(j) : w.from + p = spans[j].start + q
    <3>. DEFINE f == w.from
                t == w.to
                s == spans[j].start
                e == spans[j].end
                d == size(j)
    <3>1. /\ f \in Nat /\ t \in Nat /\ f < t /\ s \in Nat /\ e \in Nat /\ d \in Nat \ {0}
          /\ e = s + d /\ e > f /\ s < t
      BY <1>1, <2>1, <2>2
    <3> HIDE DEF f, t, s, e, d
    <3>2. Overlap(f, t, s, d)
      BY <3>1 DEF Overlap
    <3>3. \E p \in 1..(t - f), q \in 1..d : f + p = s + q
      BY <3>2, Meet
    <3> QED  BY <3>3 DEF f, t, s, d
  <2>4. body[p] = <<spans[j].block, q>> /\ p \in 1..Len(body)
    BY <1>2, <2>2, <2>3
  <2>5. spans[j].block \in 1..N
    BY <1>6, <2>1
  <2>6. body[p] # C!Newline /\ body[p][1] = spans[j].block
    BY <2>4, <2>5 DEF C!Newline
  <2> QED  BY <2>4, <2>6 DEF Inside
<1>12. ASSUME NEW x \in inside
       PROVE  \E j \in z : spans[j].block = x
  <2>1. PICK p \in 1..Len(body) : body[p] # C!Newline /\ x = body[p][1]
    BY DEF Inside
  <2>2. p \in 1..(w.to - w.from) /\ w.from + p \in 1..len
    BY <1>1, <1>2
  <2>3. body[p] = text[w.from + p]
    BY <1>2, <2>2
  <2>4. PICK j \in 1..Len(spans) : spans[j].start < w.from + p /\ w.from + p <= spans[j].end
    BY <1>5, <2>1, <2>2, <2>3
  <2>5. /\ spans[j].block \in Nat /\ spans[j].start \in Nat /\ spans[j].end \in Nat
        /\ spans[j].end = spans[j].start + size(j) /\ size(j) \in Nat \ {0}
        /\ \A q \in 1..size(j) : text[spans[j].start + q] = <<spans[j].block, q>>
    BY <1>3
  <2>6. spans[j].end > w.from /\ spans[j].start < w.to
    <3>. DEFINE f == w.from
                t == w.to
                s == spans[j].start
                e == spans[j].end
    <3>1. f \in Nat /\ t \in Nat /\ s \in Nat /\ e \in Nat /\ p \in 1..(t - f) /\ s < f + p /\ f + p <= e
      BY <1>1, <2>2, <2>4, <2>5
    <3> HIDE DEF f, t, s, e
    <3>2. e > f /\ s < t
      BY ONLY <3>1
    <3> QED  BY <3>2 DEF f, t, s, e
  <2>7. PICK q \in 1..size(j) : w.from + p = spans[j].start + q
    <3>. DEFINE s == spans[j].start
                e == spans[j].end
                d == size(j)
                a == w.from + p
    <3>0. a \in Nat
      BY <2>2, <1>1
    <3>1. a \in Nat /\ s \in Nat /\ e \in Nat /\ d \in Nat /\ e = s + d /\ s < a /\ a <= e
      BY <3>0, <2>4, <2>5
    <3> HIDE DEF s, e, d, a
    <3>2. \E q \in 1..d : a = s + q
      BY ONLY <3>1, Within
    <3> QED  BY <3>2 DEF s, d, a
  <2>8. text[w.from + p] = <<spans[j].block, q>>
    BY <2>5, <2>7
  <2>9. j \in z
    BY <1>8, <2>4, <2>6
  <2>10. x = spans[j].block
    BY <2>1, <2>3, <2>8
  <2> QED  BY <2>9, <2>10
<1>13. Orderly(cov, inside)
  <2>1. cov \in [1..Len(o) -> inside]
    BY <1>10, <1>11
  <2>2. \A k \in 1..Len(o) : cov[k] = spans[o[k]].block
    OBVIOUS
  <2>3. \A j, k \in 1..Len(o) : j < k => o[j] < o[k]
    BY <1>9 DEF Orderly
  <2> HIDE DEF cov, inside
  <2>6. cov \in Seq(inside) /\ Len(cov) = Len(o)
    BY <1>10, <2>1, MadeIsSequence
  <2>4. ASSUME NEW j \in 1..Len(cov), NEW k \in 1..Len(cov), j < k
        PROVE  cov[j] < cov[k]
    <3>1. o[j] < o[k] /\ o[j] \in 1..Len(spans) /\ o[k] \in 1..Len(spans)
      BY <1>10, <2>3, <2>4, <2>6
    <3> QED  BY <1>4, <2>2, <2>6, <3>1
  <2>5. \A x \in inside : \E k \in 1..Len(cov) : cov[k] = x
    <3>1. \A j \in z : \E k \in 1..Len(o) : o[k] = j
      BY <1>9 DEF Orderly
    <3> QED  BY <1>12, <2>2, <2>6, <3>1
  <2> QED  BY <2>4, <2>5, <2>6 DEF Orderly
<1>14. inside \in SUBSET Nat
  <2>1. \A x \in inside : x \in Nat
    BY <1>3, <1>7, <1>12
  <2> QED  BY <2>1
<1>15. C!Covered(spans, w) = cov
  BY <1>9 DEF C!Covered, z, o
<1> HIDE DEF cov, inside
<1>16. C!InOrder(inside) = cov
  BY <1>13, <1>14, IsTheOrder
<1> QED  BY <1>15, <1>16 DEF inside, body

\* The tokens of some blocks.
Words(blocks, z) == {u \in z \X Nat : u[2] \in 1..blocks[u[1]].size}

\* What a text says of some blocks: their tokens, each once, in their order.
Spells(blocks, text, z) ==
  /\ \A p \in 1..Len(text) : text[p] = C!Newline \/ text[p] \in Words(blocks, z)
  /\ \A u \in Words(blocks, z) : \E p \in 1..Len(text) : text[p] = u
  /\ \A p, r \in 1..Len(text) :
       p < r /\ text[p] # C!Newline /\ text[r] # C!Newline => C!Precedes(text[p], text[r])

\* The elements of a sequence.
Those(ids) == {ids[j] : j \in 1..Len(ids)}

\* The joined text of some blocks says them.
LEMMA JoinSpells ==
  ASSUME NEW blocks, NEW N \in Nat, Blocks(blocks, N), NEW ids, Ascends(ids, N),
         NEW text, NEW spans, Fits(blocks, ids, Len(ids), text, spans)
  PROVE  Spells(blocks, text, Those(ids))
PROOF
<1>. DEFINE len == Len(text)
            size(j) == blocks[spans[j].block].size
            z == Those(ids)
<1>1. /\ text \in Text /\ spans \in Seq(Span) /\ Len(spans) \in Nat
      /\ Covers(blocks, text, spans) /\ SpansOf(blocks, ids, Len(ids), spans) /\ len \in Nat
  <2>1. text \in Text /\ spans \in Seq(Span)
    BY DEF Fits, SpanLists
  <2> QED  BY <2>1 DEF Fits, Text
<1>2. \A j \in 1..Len(spans) :
        /\ spans[j].block \in Nat /\ spans[j].start \in Nat /\ spans[j].end \in Nat
        /\ spans[j].end = spans[j].start + size(j)
        /\ size(j) \in Nat \ {0} /\ spans[j].end <= len
        /\ \A q \in 1..size(j) : text[spans[j].start + q] = <<spans[j].block, q>>
  <2>1. \A j \in 1..Len(spans) : spans[j] \in Span
    BY <1>1
  <2>2. \A j \in 1..Len(spans) : spans[j].block \in Nat /\ spans[j].start \in Nat /\ spans[j].end \in Nat
    BY <2>1 DEF Span
  <2> QED  BY <1>1, <2>2 DEF Covers
<1>3. \A j, k \in 1..Len(spans) :
        j < k => spans[j].end < spans[k].start /\ spans[j].block < spans[k].block
  BY <1>1 DEF SpansOf
<1>4. \A p \in 1..len : text[p] = C!Newline \/ \E j \in 1..Len(spans) : spans[j].start < p /\ p <= spans[j].end
  BY <1>1 DEF Covers
<1>5. \A j \in 1..Len(spans) : spans[j].block \in z
  BY <1>1 DEF SpansOf, Those
<1>6. \A i \in z : blocks[i].size \in Nat /\ (blocks[i].size > 0 => \E j \in 1..Len(spans) : spans[j].block = i)
  <2>1. \A k \in 1..Len(ids) : ids[k] \in 1..N
    BY DEF Ascends
  <2>2. \A i \in z : i \in 1..N
    BY <2>1 DEF Those
  <2>3. \A i \in z : blocks[i].size \in Nat
    BY <2>2 DEF Blocks
  <2>4. \A k \in 1..Len(ids) :
          blocks[ids[k]].size > 0 => \E j \in 1..Len(spans) : spans[j].block = ids[k]
    BY <1>1 DEF SpansOf
  <2>5. \A i \in z : \E k \in 1..Len(ids) : ids[k] = i
    BY DEF Those
  <2> QED  BY <2>3, <2>4, <2>5
<1> HIDE DEF z, len
\* Which token of which span is at a place.
<1>7. ASSUME NEW p \in 1..len, text[p] # C!Newline
      PROVE  \E j \in 1..Len(spans) : \E q \in 1..size(j) :
               text[p] = <<spans[j].block, q>> /\ p = spans[j].start + q
  <2>1. PICK j \in 1..Len(spans) : spans[j].start < p /\ p <= spans[j].end
    BY <1>4, <1>7
  <2>. DEFINE s == spans[j].start
              e == spans[j].end
              d == size(j)
  <2>2. p \in Nat /\ s \in Nat /\ e \in Nat /\ d \in Nat /\ e = s + d /\ s < p /\ p <= e
    BY <1>2, <2>1
  <2> HIDE DEF s, e, d
  <2>3. \E q \in 1..d : p = s + q
    BY ONLY <2>2, Within
  <2>4. PICK q \in 1..size(j) : p = spans[j].start + q
    BY <2>3 DEF s, d
  <2> QED  BY <1>2, <2>4
<1>8. ASSUME NEW p \in 1..len
      PROVE  text[p] = C!Newline \/ text[p] \in Words(blocks, z)
  <2>. SUFFICES ASSUME text[p] # C!Newline PROVE text[p] \in Words(blocks, z)
    OBVIOUS
  <2>1. PICK j \in 1..Len(spans) : \E q \in 1..size(j) : text[p] = <<spans[j].block, q>>
    BY <1>7
  <2>2. PICK q \in 1..size(j) : text[p] = <<spans[j].block, q>>
    BY <2>1
  <2>3. spans[j].block \in z /\ q \in Nat
    BY <1>5
  <2> QED  BY <2>2, <2>3 DEF Words
<1>9. ASSUME NEW u \in Words(blocks, z)
      PROVE  \E p \in 1..len : text[p] = u
  <2>. DEFINE i == u[1]
              q == u[2]
  <2>0. u = <<i, q>> /\ i \in z /\ q \in 1..blocks[i].size
    BY DEF Words
  <2> HIDE DEF i, q
  <2>1. blocks[i].size > 0
    BY <1>6, <2>0
  <2>2. PICK j \in 1..Len(spans) : spans[j].block = i
    BY <1>6, <2>0, <2>1
  <2>3. q \in 1..size(j) /\ text[spans[j].start + q] = <<i, q>>
    BY <1>2, <2>0, <2>2
  <2>4. spans[j].start \in Nat /\ size(j) \in Nat /\ spans[j].start + size(j) <= len
    BY <1>2
  <2>5. spans[j].start + q \in 1..len
    BY <1>1, <2>3, <2>4
  <2> QED  BY <2>0, <2>3, <2>5
<1>10. ASSUME NEW p \in 1..len, NEW r \in 1..len, p < r, text[p] # C!Newline, text[r] # C!Newline
       PROVE  C!Precedes(text[p], text[r])
  <2>11. PICK j \in 1..Len(spans) : \E q \in 1..size(j) :
           text[p] = <<spans[j].block, q>> /\ p = spans[j].start + q
    BY <1>7, <1>10
  <2>1. PICK q \in 1..size(j) : text[p] = <<spans[j].block, q>> /\ p = spans[j].start + q
    BY <2>11
  <2>12. PICK k \in 1..Len(spans) : \E t \in 1..size(k) :
           text[r] = <<spans[k].block, t>> /\ r = spans[k].start + t
    BY <1>7, <1>10
  <2>2. PICK t \in 1..size(k) : text[r] = <<spans[k].block, t>> /\ r = spans[k].start + t
    BY <2>12
  <2>3. /\ spans[j].start \in Nat /\ size(j) \in Nat /\ spans[j].end = spans[j].start + size(j)
        /\ spans[k].start \in Nat /\ size(k) \in Nat /\ spans[k].end = spans[k].start + size(k)
    BY <1>2
  <2>4. ~(k < j)
    <3>1. ASSUME k < j PROVE FALSE
      <4>1. spans[k].end < spans[j].start
        BY <1>3, <3>1
      <4>. DEFINE sj == spans[j].start
                  sk == spans[k].start
                  dk == size(k)
                  ek == spans[k].end
      <4>2. sj \in Nat /\ sk \in Nat /\ dk \in Nat /\ ek = sk + dk /\ ek < sj
        BY <2>3, <4>1
      <4>3. p = sj + q /\ r = sk + t
        BY <2>1, <2>2
      <4>4. q \in 1..size(j) /\ t \in 1..dk /\ size(j) \in Nat
        BY <2>3
      <4>5. q \in Nat /\ 1 <= q /\ t \in Nat /\ t <= dk
        BY <4>2, <4>4
      <4> HIDE DEF sj, sk, dk, ek
      <4> QED  BY ONLY <1>10, <4>2, <4>3, <4>5
    <3> QED  BY <3>1
  <2>5. CASE j = k
    <3>1. q < t
      <4>. DEFINE b == spans[j].start
                  w == size(j)
      <4>1. b \in Nat /\ w \in Nat /\ q \in 1..w /\ t \in 1..w /\ p = b + q /\ r = b + t
        BY <2>1, <2>2, <2>3, <2>5
      <4> HIDE DEF b, w
      <4> QED  BY ONLY <1>10, <4>1
    <3> QED  BY <2>1, <2>2, <2>5, <3>1 DEF C!Precedes
  <2>6. CASE j < k
    <3>1. spans[j].block < spans[k].block
      BY <1>3, <2>6
    <3> QED  BY <2>1, <2>2, <3>1 DEF C!Precedes
  <2>7. j \in Nat /\ k \in Nat
    BY <1>1
  <2> QED  BY <2>4, <2>5, <2>6, <2>7
<1> QED  BY <1>8, <1>9, <1>10 DEF Spells, z, len

-----------------------------------------------------------------------------
(* Chunks.                                                                 *)

AnyChunk ==
  [kind : {"text", "table", "image"}, path : Seq(Nat), level : Nat, body : Text, blocks : Seq(Nat)]

AnySection == [path : Seq(Nat), level : Nat]

ChunkLists == Seq(AnyChunk)

\* The metadata of a text is of the blocks it has tokens of, which are no tables and
\* images; these are whole.
IsTrue(blocks, c) ==
  /\ c.kind = "text" => /\ c.blocks = C!InOrder(Inside(c.body))
                        /\ \A i \in Inside(c.body) : blocks[i].kind \notin C!AtomicKinds
  /\ c.kind # "text" => \E i \in Nat : c.body = C!Units(blocks, i)

\* A chunk of a section that has some text of it.
InSection(c, section) ==
  c.path = section.path /\ c.level = section.level /\ (c.kind = "text" => c.body # << >>)

\* The token u is at the place p of chunk k.
Token(cs, k, p, u) ==
  k \in 1..Len(cs) /\ p \in 1..Len(cs[k].body) /\ cs[k].body[p] = u

\* What chunks say of some blocks: their tokens, each once, in their order.
Tells(blocks, cs, z) ==
  /\ cs \in ChunkLists
  /\ \A k \in 1..Len(cs) : IsTrue(blocks, cs[k])
  /\ \A k \in 1..Len(cs) : \A p \in 1..Len(cs[k].body) :
       cs[k].body[p] = C!Newline \/ cs[k].body[p] \in Words(blocks, z)
  /\ \A u \in Words(blocks, z) : \E k, p \in Nat : Token(cs, k, p, u)
  /\ \A u, v \in Words(blocks, z) : \A k, l, p, r \in Nat :
       Token(cs, k, p, u) /\ Token(cs, l, r, v) /\ C!Precedes(<<k, p>>, <<l, r>>) => C!Precedes(u, v)

\* A sequence of some is one of more.
LEMMA SequenceOfMore ==
  ASSUME NEW x, NEW y, x \subseteq y, NEW s \in Seq(x)
  PROVE  s \in Seq(y)
<1>1. s \in [1..Len(s) -> x] /\ Len(s) \in Nat
  OBVIOUS
<1>2. s \in [1..Len(s) -> y]
  BY <1>1
<1> QED  BY <1>1, <1>2, MadeIsSequence

\* The chunks of a set.
AllIn(cs, good) == \A k \in 1..Len(cs) : cs[k] \in good

\* The chunks of a section with tokens of some of its blocks.
From(section, z) == {c \in AnyChunk : InSection(c, section) /\ Inside(c.body) \subseteq z}

\* A chunk for each window.
WindowChunks(text, spans, w, section) ==
  [k \in 1..Len(w) |->
     [kind |-> "text", path |-> section.path, level |-> section.level,
      body |-> SubSeq(text, w[k].from + 1, w[k].to), blocks |-> C!Covered(spans, w[k])]]

\* The chunks of a buffer are its windows.
LEMMA TextChunksAre ==
  ASSUME NEW blocks, NEW ids, NEW n \in Nat \ {0}, NEW section, C!Join(blocks, ids) \in Text
  PROVE  LET text == C!Join(blocks, ids)
             w == C!Windows(text, n)
         IN /\ IsCut(w, Len(text))
            /\ C!TextChunks(blocks, ids, n, section) = WindowChunks(text, C!Spans(blocks, ids), w, section)
PROOF
<1>. DEFINE text == C!Join(blocks, ids)
            spans == C!Spans(blocks, ids)
            w == C!Windows(text, n)
            cs == C!TextChunks(blocks, ids, n, section)
            body(k) == SubSeq(text, w[k].from + 1, w[k].to)
            m == Len(w)
<1>4. IsCut(w, Len(text))
  BY WindowsCut
<1>5. DOMAIN w = 1..m
  <2>1. w \in Seq(Piece)
    BY <1>4 DEF IsCut
  <2> HIDE DEF w
  <2> QED  BY <2>1
<1>7. cs = [k \in 1..m |-> [kind |-> "text", path |-> section.path, level |-> section.level,
                            body |-> body(k), blocks |-> C!Covered(spans, w[k])]]
  <2>. DEFINE parts == [k \in DOMAIN w |-> [text |-> body(k), blocks |-> C!Covered(spans, w[k])]]
  <2>1. C!SplitBlocks(blocks, ids, n) = parts
    BY DEF C!SplitBlocks
  <2> HIDE DEF body, w, spans, text
  <2>2. DOMAIN parts = 1..m /\ \A k \in 1..m : parts[k].text = body(k) /\ parts[k].blocks = C!Covered(spans, w[k])
    BY <1>5
  <2> HIDE DEF parts
  <2>3. cs = [k \in DOMAIN parts |-> C!Chunk("text", section, parts[k].text, parts[k].blocks)]
    BY <2>1 DEF C!TextChunks
  <2>4. ASSUME NEW k \in 1..m
        PROVE  C!Chunk("text", section, parts[k].text, parts[k].blocks) =
                 [kind |-> "text", path |-> section.path, level |-> section.level,
                  body |-> body(k), blocks |-> C!Covered(spans, w[k])]
    BY <2>2 DEF C!Chunk
  <2> HIDE DEF cs, m
  <2> QED  BY <2>2, <2>3, <2>4
<1> QED  BY <1>4, <1>7 DEF WindowChunks

\* The chunks of a buffer of texts.
LEMMA TextTold ==
  ASSUME NEW blocks, NEW N \in Nat, Blocks(blocks, N), NEW ids, Ascends(ids, N), NEW n \in Nat \ {0},
         \A j \in 1..Len(ids) : blocks[ids[j]].kind \notin C!AtomicKinds, NEW section \in AnySection
  PROVE  LET cs == C!TextChunks(blocks, ids, n, section)
         IN /\ Tells(blocks, cs, Those(ids))
            /\ AllIn(cs, From(section, Those(ids)))
PROOF
<1>. DEFINE text == C!Join(blocks, ids)
            spans == C!Spans(blocks, ids)
            len == Len(text)
            w == C!Windows(text, n)
            cs == C!TextChunks(blocks, ids, n, section)
            body(k) == SubSeq(text, w[k].from + 1, w[k].to)
            z == Those(ids)
            m == Len(w)
<1>1. Fits(blocks, ids, Len(ids), text, spans)
  BY JoinFits
<1>2. text \in Text /\ len \in Nat
  BY <1>1 DEF Fits, Text
<1>3. Spells(blocks, text, z)
  BY <1>1, JoinSpells
<1>4. IsCut(w, len)
  BY <1>2, WindowsCut
<1>5. w \in Seq(Piece) /\ m \in Nat /\ DOMAIN w = 1..m
  <2>1. w \in Seq(Piece)
    BY <1>4 DEF IsCut
  <2> HIDE DEF w
  <2> QED  BY <2>1
<1>6. ASSUME NEW k \in 1..m
      PROVE  w[k] \in Piece /\ w[k].from \in Nat /\ w[k].to \in Nat
             /\ w[k].from < w[k].to /\ w[k].to <= len
  <2> HIDE DEF w, len
  <2>1. w[k] \in Piece
    BY <1>5
  <2> QED  BY <1>4, <2>1 DEF IsCut, Piece
<1>7. cs = [k \in 1..m |-> [kind |-> "text", path |-> section.path, level |-> section.level,
                            body |-> body(k), blocks |-> C!Covered(spans, w[k])]]
  <2>1. cs = WindowChunks(text, spans, w, section)
    BY <1>2, TextChunksAre
  <2> HIDE DEF cs, w, text, spans
  <2> QED  BY <2>1 DEF WindowChunks
<1> HIDE DEF text, spans, len, w, cs, z, m
<1>8. ASSUME NEW k \in 1..m
      PROVE  /\ body(k) \in Text /\ Len(body(k)) = w[k].to - w[k].from /\ body(k) # << >>
             /\ \A p \in 1..(w[k].to - w[k].from) : body(k)[p] = text[w[k].from + p]
             /\ C!Covered(spans, w[k]) = C!InOrder(Inside(body(k)))
  <2>1. /\ body(k) \in Text /\ Len(body(k)) = w[k].to - w[k].from /\ body(k) # << >>
        /\ \A p \in 1..(w[k].to - w[k].from) : body(k)[p] = text[w[k].from + p]
    BY <1>2, <1>6, PieceIs DEF len
  <2>2. C!Covered(spans, w[k]) = C!InOrder(Inside(body(k)))
    BY <1>1, <1>6, CoveredIs DEF len
  <2> QED  BY <2>1, <2>2
<1>9. \A i \in z : i \in 1..N /\ i \in Nat /\ blocks[i].size \in Nat /\ blocks[i].kind \notin C!AtomicKinds
  <2>1. \A j \in 1..Len(ids) : ids[j] \in 1..N
    BY DEF Ascends
  <2> QED  BY <2>1 DEF z, Those, Blocks
\* A place of a chunk is one of the text.
<1>10. ASSUME NEW k \in 1..m, NEW p \in 1..Len(body(k))
       PROVE  /\ w[k].from + p \in 1..len /\ body(k)[p] = text[w[k].from + p]
              /\ w[k].from < w[k].from + p /\ w[k].from + p <= w[k].to
  <2>1. p \in 1..(w[k].to - w[k].from)
    BY <1>8
  <2>. DEFINE f == w[k].from
              t == w[k].to
  <2>3. f \in Nat /\ t \in Nat /\ f < t /\ t <= len /\ p \in 1..(t - f)
    BY <1>6, <2>1
  <2> HIDE DEF f, t
  <2>4. f + p \in 1..len /\ f < f + p /\ f + p <= t
    BY ONLY <1>2, <2>3
  <2>2. w[k].from + p \in 1..len /\ w[k].from < w[k].from + p /\ w[k].from + p <= w[k].to
    BY <2>4 DEF f, t
  <2> QED  BY <1>8, <2>1, <2>2
<1>11. ASSUME NEW k \in 1..m, NEW i \in Inside(body(k))
       PROVE  i \in z
  <2>1. PICK p \in 1..Len(body(k)) : body(k)[p] # C!Newline /\ i = body(k)[p][1]
    BY DEF Inside
  <2>2. body(k)[p] \in Words(blocks, z)
    BY <1>3, <1>10, <2>1 DEF Spells, len
  <2> QED  BY <2>1, <2>2 DEF Words
<1>12. ASSUME NEW k \in 1..m
       PROVE  C!InOrder(Inside(body(k))) \in Seq(Nat)
  <2>. DEFINE y == Inside(body(k))
  <2>1. y \subseteq 1..N /\ IsFiniteSet(1..N)
    BY <1>9, <1>11, Interval
  <2>2. IsFiniteSet(y) /\ y \in SUBSET Nat
    BY <2>1, FS_Subset
  <2> HIDE DEF y
  <2>3. C!InOrder(y) \in Seq(y)
    BY <2>2, TheOrder DEF Orderly
  <2>4. C!InOrder(y) \in Seq(Nat)
    <3> HIDE DEF y
    <3> QED  BY <2>2, <2>3, SequenceOfMore
  <2> QED  BY <2>4 DEF y
<1>13. section.path \in Seq(Nat) /\ section.level \in Nat
  BY DEF AnySection
<1>14. \A k \in 1..m : /\ cs[k].kind = "text" /\ cs[k].path = section.path /\ cs[k].level = section.level
                       /\ cs[k].body = body(k) /\ cs[k].blocks = C!InOrder(Inside(body(k)))
  BY <1>7, <1>8
<1>15. cs \in ChunkLists /\ Len(cs) = m
  <2>1. \A k \in 1..m : [kind |-> "text", path |-> section.path, level |-> section.level,
                         body |-> body(k), blocks |-> C!Covered(spans, w[k])] \in AnyChunk
    BY <1>8, <1>12, <1>13 DEF AnyChunk
  <2>2. cs \in [1..m -> AnyChunk]
    <3> HIDE DEF body
    <3> QED  BY <1>7, <2>1
  <2>3. cs \in Seq(AnyChunk) /\ Len(cs) = m
    BY <1>5, <2>2, MadeIsSequence
  <2> QED  BY <2>3 DEF ChunkLists
<1> HIDE DEF body
<1>16. \A k \in 1..m : IsTrue(blocks, cs[k])
  BY <1>9, <1>11, <1>14 DEF IsTrue
<1>17. \A k \in 1..m : InSection(cs[k], section)
  BY <1>8, <1>14 DEF InSection
<1>18. ASSUME NEW k \in 1..Len(cs), NEW p \in 1..Len(cs[k].body)
       PROVE  cs[k].body[p] = C!Newline \/ cs[k].body[p] \in Words(blocks, z)
  <2>1. k \in 1..m /\ p \in 1..Len(body(k)) /\ cs[k].body[p] = body(k)[p]
    BY <1>14, <1>15
  <2> QED  BY <1>3, <1>10, <2>1 DEF Spells, len
<1>19. ASSUME NEW u \in Words(blocks, z)
       PROVE  \E k, p \in Nat : Token(cs, k, p, u)
  <2>1. PICK r \in 1..len : text[r] = u
    BY <1>3 DEF Spells, len
  <2>2. PICK k \in 1..m : w[k].from < r /\ r <= w[k].to
    BY <1>4 DEF IsCut, m
  <2>. DEFINE p == r - w[k].from
  <2>3. p \in 1..(w[k].to - w[k].from) /\ r = w[k].from + p /\ p \in Nat /\ k \in Nat
    BY <1>6, <2>2
  <2>4. p \in 1..Len(cs[k].body) /\ cs[k].body[p] = u /\ k \in 1..Len(cs)
    BY <1>8, <1>14, <1>15, <2>1, <2>3
  <2> HIDE DEF p
  <2> QED  BY <2>3, <2>4 DEF Token
<1>20. ASSUME NEW u \in Words(blocks, z), NEW v \in Words(blocks, z), NEW k \in Nat, NEW l \in Nat,
              NEW p \in Nat, NEW r \in Nat, Token(cs, k, p, u), Token(cs, l, r, v),
              C!Precedes(<<k, p>>, <<l, r>>)
       PROVE  C!Precedes(u, v)
  <2>1. /\ k \in 1..m /\ p \in 1..Len(body(k)) /\ body(k)[p] = u
        /\ l \in 1..m /\ r \in 1..Len(body(l)) /\ body(l)[r] = v
    BY <1>14, <1>15, <1>20 DEF Token
  <2>. DEFINE a == w[k].from + p
              b == w[l].from + r
  <2>2. /\ a \in 1..len /\ text[a] = u /\ a <= w[k].to
        /\ b \in 1..len /\ text[b] = v /\ w[l].from < b
    BY <1>10, <2>1
  <2>3. a < b
    <3>1. CASE k < l
      <4>1. w[k].to <= w[l].from
        BY <1>4, <2>1, <3>1 DEF IsCut, m
      <4>2. w[k].to \in Nat /\ w[l].from \in Nat
        BY <1>6, <2>1
      <4>. DEFINE x == w[k].to
                  y == w[l].from
      <4>3. x \in Nat /\ y \in Nat /\ x <= y /\ a <= x /\ y < b /\ a \in 1..len /\ b \in 1..len
        BY <2>2, <4>1, <4>2
      <4> HIDE DEF a, b, x, y
      <4>4. a \in Nat /\ b \in Nat
        BY <4>3
      <4> QED  BY ONLY <4>3, <4>4
    <3>2. CASE k = l /\ p < r
      <4>. DEFINE f == w[k].from
      <4>1. a = f + p /\ b = f + r /\ f \in Nat
        BY <1>6, <2>1, <3>2
      <4> HIDE DEF f, a, b
      <4> QED  BY <1>20, <3>2, <4>1
    <3> QED  BY <1>20, <3>1, <3>2 DEF C!Precedes
  <2> HIDE DEF a, b
  <2>4. u # C!Newline /\ v # C!Newline
    BY DEF Words, C!Newline
  <2> QED  BY <1>3, <2>2, <2>3, <2>4 DEF Spells, len
<1>21. Tells(blocks, cs, z)
  <2>1. \A k \in 1..Len(cs) : IsTrue(blocks, cs[k])
    BY <1>15, <1>16
  <2> QED  BY <1>15, <1>18, <1>19, <1>20, <2>1 DEF Tells
<1>22. AllIn(cs, From(section, z))
  <2>1. \A k \in 1..m : cs[k] \in AnyChunk
    BY <1>15 DEF ChunkLists
  <2>2. \A k \in 1..m : Inside(cs[k].body) \subseteq z
    BY <1>11, <1>14
  <2> QED  BY <1>15, <1>17, <2>1, <2>2 DEF AllIn, From
<1> QED  BY <1>21, <1>22 DEF cs, z

\* What is told by one list after the other.
LEMMA TellsBoth ==
  ASSUME NEW blocks, NEW y \in SUBSET Nat, NEW z \in SUBSET Nat, \A a \in y, b \in z : a < b,
         NEW cs, NEW ds, Tells(blocks, cs, y), Tells(blocks, ds, z)
  PROVE  Tells(blocks, cs \o ds, y \cup z)
PROOF
<1>. DEFINE es == cs \o ds
            m == Len(cs)
            x == y \cup z
<1>1. cs \in Seq(AnyChunk) /\ ds \in Seq(AnyChunk)
  BY DEF Tells, ChunkLists
<1>2. /\ m \in Nat /\ Len(ds) \in Nat /\ es \in Seq(AnyChunk) /\ Len(es) = m + Len(ds)
      /\ \A k \in 1..m : es[k] = cs[k]
      /\ \A k \in 1..Len(ds) : es[m + k] = ds[k]
  BY <1>1
<1> HIDE DEF es, m
<1>3. ASSUME NEW k \in 1..Len(es)
      PROVE  k \in 1..m \/ (k - m \in 1..Len(ds) /\ es[k] = ds[k - m])
  <2>0. k \in Nat /\ 1 <= k /\ m \in Nat
    BY <1>2
  <2>1. CASE k <= m
    <3>1. k \in 1..m
      BY ONLY <2>0, <2>1
    <3> QED  BY <3>1
  <2>2. CASE k > m
    <3>1. k - m \in 1..Len(ds) /\ m + (k - m) = k
      BY <1>2, <2>2
    <3> QED  BY <1>2, <3>1
  <2> QED  BY <2>0, <2>1, <2>2
<1>4. ASSUME NEW k \in 1..Len(es) PROVE IsTrue(blocks, es[k])
  BY <1>2, <1>3 DEF Tells, m
<1>5. Words(blocks, x) = Words(blocks, y) \cup Words(blocks, z)
  BY DEF Words
<1>6. ASSUME NEW k \in 1..Len(es), NEW p \in 1..Len(es[k].body)
      PROVE  es[k].body[p] = C!Newline \/ es[k].body[p] \in Words(blocks, x)
  <2>1. CASE k \in 1..m
    <3>1. es[k] = cs[k] /\ k \in 1..Len(cs)
      BY <1>2, <2>1 DEF m
    <3>2. cs[k].body[p] = C!Newline \/ cs[k].body[p] \in Words(blocks, y)
      BY <3>1 DEF Tells
    <3> QED  BY <1>5, <3>1, <3>2
  <2>2. CASE k - m \in 1..Len(ds) /\ es[k] = ds[k - m]
    <3>1. ds[k - m].body[p] = C!Newline \/ ds[k - m].body[p] \in Words(blocks, z)
      BY <2>2 DEF Tells
    <3> QED  BY <1>5, <2>2, <3>1
  <2> QED  BY <1>3, <2>1, <2>2
<1>7. ASSUME NEW u \in Words(blocks, x) PROVE \E k, p \in Nat : Token(es, k, p, u)
  <2>1. CASE u \in Words(blocks, y)
    <3>1. PICK k \in Nat, p \in Nat : Token(cs, k, p, u)
      BY <2>1 DEF Tells
    <3>2. k \in 1..m /\ p \in 1..Len(cs[k].body) /\ cs[k].body[p] = u
      BY <3>1 DEF Token, m
    <3>3. k \in 1..Len(es) /\ es[k] = cs[k]
      BY <1>2, <3>2
    <3> QED  BY <3>2, <3>3 DEF Token
  <2>2. CASE u \in Words(blocks, z)
    <3>1. PICK k \in Nat, p \in Nat : Token(ds, k, p, u)
      BY <2>2 DEF Tells
    <3>2. k \in 1..Len(ds) /\ p \in 1..Len(ds[k].body) /\ ds[k].body[p] = u
      BY <3>1 DEF Token
    <3>3. m + k \in 1..Len(es) /\ es[m + k] = ds[k] /\ m + k \in Nat
      BY <1>2, <3>2
    <3>4. Token(es, m + k, p, u)
      BY <3>2, <3>3 DEF Token
    <3> QED  BY <3>3, <3>4
  <2> QED  BY <1>5, <2>1, <2>2
\* The list a token is in says it.
<1>8. ASSUME NEW u \in Words(blocks, x), NEW k \in Nat, NEW p \in Nat, Token(es, k, p, u)
      PROVE  \/ k \in 1..m /\ Token(cs, k, p, u) /\ u \in Words(blocks, y)
             \/ k - m \in 1..Len(ds) /\ Token(ds, k - m, p, u) /\ u \in Words(blocks, z)
  <2>1. k \in 1..Len(es) /\ p \in 1..Len(es[k].body) /\ es[k].body[p] = u
    BY <1>8 DEF Token
  <2>2. u # C!Newline
    BY DEF Words, C!Newline
  <2>3. CASE k \in 1..m
    <3>1. es[k] = cs[k]
      BY <1>2, <2>3
    <3> QED  BY <2>1, <2>2, <2>3, <3>1 DEF Tells, Token, m
  <2>4. CASE k - m \in 1..Len(ds) /\ es[k] = ds[k - m]
    BY <2>1, <2>2, <2>4 DEF Tells, Token
  <2> QED  BY <1>3, <2>1, <2>3, <2>4
<1>9. ASSUME NEW u \in Words(blocks, x), NEW v \in Words(blocks, x), NEW k \in Nat, NEW l \in Nat,
             NEW p \in Nat, NEW r \in Nat, Token(es, k, p, u), Token(es, l, r, v),
             C!Precedes(<<k, p>>, <<l, r>>)
      PROVE  C!Precedes(u, v)
  <2>1. CASE Token(cs, k, p, u) /\ u \in Words(blocks, y) /\ Token(cs, l, r, v) /\ v \in Words(blocks, y)
    BY <1>9, <2>1 DEF Tells
  <2>2. CASE u \in Words(blocks, y) /\ v \in Words(blocks, z)
    <3>1. u[1] < v[1]
      BY <2>2 DEF Words
    <3> QED  BY <3>1 DEF C!Precedes
  <2>3. CASE k - m \in 1..Len(ds) /\ l \in 1..m
    <3>1. l < k
      BY <1>2, <2>3
    <3> QED  BY <1>9, <3>1 DEF C!Precedes
  <2>4. CASE /\ k - m \in 1..Len(ds) /\ Token(ds, k - m, p, u) /\ u \in Words(blocks, z)
             /\ l - m \in 1..Len(ds) /\ Token(ds, l - m, r, v) /\ v \in Words(blocks, z)
    <3>1. C!Precedes(<<k - m, p>>, <<l - m, r>>)
      BY <1>2, <1>9 DEF C!Precedes
    <3>2. k - m \in Nat /\ l - m \in Nat
      BY <1>2, <2>4
    <3> QED  BY <2>4, <3>1, <3>2 DEF Tells
  <2> QED  BY <1>8, <1>9, <2>1, <2>2, <2>3, <2>4
<1>10. es \in ChunkLists
  BY <1>2 DEF ChunkLists
<1>11. Tells(blocks, es, x)
  BY <1>4, <1>6, <1>7, <1>9, <1>10 DEF Tells
<1> QED  BY <1>11 DEF es

\* Lists of chunks of a set.
LEMMA AllInBoth ==
  ASSUME NEW good, NEW cs \in ChunkLists, NEW ds \in ChunkLists, AllIn(cs, good), AllIn(ds, good)
  PROVE  AllIn(cs \o ds, good)
<1>1. cs \in Seq(AnyChunk) /\ ds \in Seq(AnyChunk)
  BY DEF ChunkLists
<1>2. ASSUME NEW k \in 1..Len(cs \o ds) PROVE (cs \o ds)[k] \in good
  <2>1. CASE k <= Len(cs)
    <3>1. k \in 1..Len(cs) /\ (cs \o ds)[k] = cs[k]
      BY <1>1, <2>1
    <3> QED  BY <3>1 DEF AllIn
  <2>2. CASE k > Len(cs)
    <3>1. k - Len(cs) \in 1..Len(ds) /\ (cs \o ds)[k] = ds[k - Len(cs)]
      BY <1>1, <2>2
    <3> QED  BY <3>1 DEF AllIn
  <2> QED  BY <1>1, <2>1, <2>2
<1> QED  BY <1>2 DEF AllIn

\* Nothing is told of nothing.
LEMMA TellsNone == ASSUME NEW blocks PROVE Tells(blocks, << >>, {})
<1>1. << >> \in ChunkLists /\ Len(<< >>) = 0 /\ 1..0 = {}
  BY DEF ChunkLists
<1>2. Words(blocks, {}) = {}
  BY DEF Words
<1> QED  BY <1>1, <1>2 DEF Tells

\* A table or an image tells itself.
LEMMA AtomicTold ==
  ASSUME NEW blocks, NEW N \in Nat, Blocks(blocks, N), NEW i \in 1..N, blocks[i].kind \in C!AtomicKinds,
         NEW section \in AnySection
  PROVE  LET cs == << C!AtomicChunk(blocks, i, section) >>
         IN Tells(blocks, cs, {i}) /\ AllIn(cs, From(section, {i}))
PROOF
<1>. DEFINE c == C!AtomicChunk(blocks, i, section)
            cs == << c >>
            size == blocks[i].size
            u == C!Units(blocks, i)
<1>1. size \in Nat /\ i \in Nat
  BY DEF Blocks
<1>2. /\ u \in Text /\ Len(u) = size
      /\ \A q \in 1..size : u[q] = <<i, q>>
  BY <1>1, UnitsAre
<1>3. c = [kind |-> blocks[i].kind, path |-> section.path, level |-> section.level, body |-> u,
           blocks |-> <<i>>]
  BY DEF C!AtomicChunk, C!Chunk
<1>4. <<i>> \in Seq(Nat) /\ section.path \in Seq(Nat) /\ section.level \in Nat
      /\ blocks[i].kind \in {"table", "image"}
  BY <1>1 DEF AnySection, C!AtomicKinds
<1> HIDE DEF c, u
<1>5. c \in AnyChunk /\ c.kind # "text" /\ c.path = section.path /\ c.level = section.level /\ c.body = u
  BY <1>2, <1>3, <1>4 DEF AnyChunk
<1>6. cs \in ChunkLists /\ Len(cs) = 1 /\ cs[1] = c
  BY <1>5 DEF ChunkLists
<1> HIDE DEF cs, size
<1>7. IsTrue(blocks, c)
  BY <1>1, <1>5 DEF IsTrue, u
<1>8. \A w \in Words(blocks, {i}) : \E q \in 1..size : w = <<i, q>>
  BY DEF Words, size
<1>9. \A q \in 1..size : <<i, q>> \in Words(blocks, {i})
  BY DEF Words, size
<1>10. Inside(u) \subseteq {i}
  BY <1>2 DEF Inside
<1>11. ASSUME NEW k \in Nat, NEW p \in Nat, NEW w, Token(cs, k, p, w)
       PROVE  k = 1 /\ p \in 1..size /\ w = <<i, p>>
  <2>1. k \in 1..1 /\ p \in 1..Len(cs[k].body) /\ cs[k].body[p] = w
    BY <1>6, <1>11 DEF Token
  <2>2. k = 1
    BY <2>1
  <2> QED  BY <1>2, <1>5, <1>6, <2>1, <2>2
<1>12. Tells(blocks, cs, {i})
  <2>1. \A k \in 1..Len(cs) : IsTrue(blocks, cs[k])
    BY <1>6, <1>7
  <2>2. ASSUME NEW k \in 1..Len(cs), NEW p \in 1..Len(cs[k].body)
        PROVE  cs[k].body[p] \in Words(blocks, {i})
    <3>1. k \in 1..1 /\ k = 1
      BY <1>6
    <3>2. cs[k].body = u
      BY <1>5, <1>6, <3>1
    <3>3. p \in 1..size /\ cs[k].body[p] = <<i, p>>
      BY <1>2, <3>2
    <3> QED  BY <1>9, <3>3
  <2>3. ASSUME NEW w \in Words(blocks, {i}) PROVE \E k, p \in Nat : Token(cs, k, p, w)
    <3>1. PICK q \in 1..size : w = <<i, q>>
      BY <1>8
    <3>2. Token(cs, 1, q, w) /\ q \in Nat
      BY <1>1, <1>2, <1>5, <1>6, <3>1 DEF Token
    <3> QED  BY <3>2
  <2>4. ASSUME NEW w, NEW v, NEW k \in Nat, NEW l \in Nat, NEW p \in Nat, NEW r \in Nat,
               Token(cs, k, p, w), Token(cs, l, r, v), C!Precedes(<<k, p>>, <<l, r>>)
        PROVE  C!Precedes(w, v)
    <3>1. k = 1 /\ l = 1 /\ w = <<i, p>> /\ v = <<i, r>>
      BY <1>11, <2>4
    <3> QED  BY <2>4, <3>1 DEF C!Precedes
  <2> QED  BY <1>6, <2>1, <2>2, <2>3, <2>4 DEF Tells
<1>13. AllIn(cs, From(section, {i}))
  BY <1>5, <1>6, <1>10 DEF AllIn, From, InSection
<1> QED  BY <1>12, <1>13 DEF cs, c

\* They are chunks for any buffer.
LEMMA TextTyped ==
  ASSUME NEW blocks, NEW N \in Nat, Blocks(blocks, N), NEW ids \in Seq(1..N), NEW n \in Nat \ {0},
         NEW section \in AnySection
  PROVE  C!TextChunks(blocks, ids, n, section) \in ChunkLists
PROOF
<1>. DEFINE text == C!Join(blocks, ids)
            spans == C!Spans(blocks, ids)
            len == Len(text)
            w == C!Windows(text, n)
            m == Len(w)
            inside(k) == {j \in DOMAIN spans : spans[j].end > w[k].from /\ spans[j].start < w[k].to}
            cov(k) == C!Covered(spans, w[k])
<1>1. text \in Text
  <2>. DEFINE pieces == [j \in 1..Len(ids) |-> C!Units(blocks, ids[j])]
  <2>1. Len(ids) \in Nat /\ DOMAIN ids = 1..Len(ids) /\ \A j \in 1..Len(ids) : ids[j] \in 1..N
    OBVIOUS
  <2>2. \A j \in 1..Len(ids) : C!Units(blocks, ids[j]) \in Text
    BY <2>1, UnitsAre DEF Blocks
  <2>3. pieces \in [1..Len(ids) -> Text]
    BY <2>2
  <2>4. text = C!JoinTexts(pieces)
    BY <2>1 DEF C!Join
  <2> HIDE DEF pieces, text
  <2>5. C!JoinTexts(pieces) \in Text
    <3>1. PICK f \in [0..Len(ids) -> Text] : f[Len(ids)] = C!JoinTexts(pieces)
      BY <2>1, <2>3, JoinIs
    <3>2. Len(ids) \in 0..Len(ids)
      BY <2>1
    <3> QED  BY <3>1, <3>2
  <2> QED  BY <2>4, <2>5
<1>2. spans \in Seq(Span)
  <2> HIDE DEF spans
  <2>1. Len(ids) \in Nat
    OBVIOUS
  <2>2. PICK f \in [0..Len(ids) -> SpanLists] : f[Len(ids)] = C!Spans(blocks, ids)
    BY <2>1, SpansAre
  <2> QED  BY <2>1, <2>2 DEF SpanLists, spans
<1>3. IsCut(w, len)
  BY <1>1, WindowsCut
<1>4. C!TextChunks(blocks, ids, n, section) =
        [k \in 1..m |-> [kind |-> "text", path |-> section.path, level |-> section.level,
                         body |-> SubSeq(text, w[k].from + 1, w[k].to),
                         blocks |-> C!Covered(spans, w[k])]]
  <2>1. C!TextChunks(blocks, ids, n, section) = WindowChunks(text, spans, w, section)
    BY <1>1, TextChunksAre
  <2> HIDE DEF w, text, spans
  <2> QED  BY <2>1 DEF WindowChunks
<1>5. ASSUME NEW k \in 1..m PROVE cov(k) \in Seq(Nat)
  <2>. DEFINE z == inside(k)
              o == C!InOrder(z)
              c == [j \in 1..C!Cardinality(z) |-> spans[o[j]].block]
  <2>1. cov(k) = c
    BY DEF C!Covered
  <2>2. z \subseteq 1..Len(spans) /\ IsFiniteSet(1..Len(spans)) /\ z \in SUBSET Nat
    <3> HIDE DEF spans, w
    <3>1. Len(spans) \in Nat /\ DOMAIN spans = 1..Len(spans)
      BY <1>2
    <3> QED  BY <3>1, Interval
  <2>3. IsFiniteSet(z)
    BY <2>2, FS_Subset
  <2> HIDE DEF z
  <2>4. o \in Seq(z) /\ Len(o) = C!Cardinality(z)
    BY <2>2, <2>3, TheOrder DEF Orderly
  <2> HIDE DEF o, spans
  <2>5. Len(o) \in Nat /\ \A j \in 1..Len(o) : o[j] \in 1..Len(spans)
    <3>1. Len(o) \in Nat /\ \A j \in 1..Len(o) : o[j] \in z
      BY <2>4
    <3> QED  BY <2>2, <3>1
  <2>6. \A j \in 1..Len(o) : spans[o[j]] \in Span
    BY <1>2, <2>5
  <2>7. \A j \in 1..Len(o) : spans[o[j]].block \in Nat
    BY <2>6 DEF Span
  <2>8. c \in [1..Len(o) -> Nat]
    BY <2>4, <2>7
  <2> HIDE DEF c, cov
  <2> QED  BY <2>1, <2>5, <2>8, MadeIsSequence
<1> HIDE DEF text, spans, w, cov
<1>6. w \in Seq(Piece) /\ m \in Nat
  <2>1. w \in Seq(Piece)
    BY <1>3 DEF IsCut
  <2> QED  BY <2>1
<1>7. ASSUME NEW k \in 1..m PROVE SubSeq(text, w[k].from + 1, w[k].to) \in Text
  <2>1. w[k] \in Piece
    BY <1>6
  <2>2. w[k].from \in Nat /\ w[k].to \in Nat /\ w[k].from < w[k].to /\ w[k].to <= Len(text)
    BY <1>3, <2>1 DEF IsCut, Piece
  <2> QED  BY <1>1, <2>2, PieceIs
<1>8. section.path \in Seq(Nat) /\ section.level \in Nat
  BY DEF AnySection
<1>9. \A k \in 1..m : [kind |-> "text", path |-> section.path, level |-> section.level,
                       body |-> SubSeq(text, w[k].from + 1, w[k].to), blocks |-> cov(k)] \in AnyChunk
  BY <1>5, <1>7, <1>8 DEF AnyChunk
<1>10. C!TextChunks(blocks, ids, n, section) \in [1..m -> AnyChunk]
  BY <1>4, <1>9 DEF cov
<1> QED  BY <1>6, <1>10, MadeIsSequence DEF ChunkLists

\* A buffer of texts and the chunks before it.
Buffers(N) == [buffer : Seq(1..N), chunks : ChunkLists]

\* AddBlock keeps a buffer and chunks.
LEMMA AddBlockTyped ==
  ASSUME NEW blocks, NEW N \in Nat, Blocks(blocks, N), NEW acc \in Buffers(N), NEW i \in 1..N,
         NEW n \in Nat \ {0}, NEW section \in AnySection
  PROVE  C!AddBlock(acc, i, blocks, n, section) \in Buffers(N)
PROOF
<1>1. acc.buffer \in Seq(1..N) /\ acc.chunks \in Seq(AnyChunk)
  BY DEF Buffers, ChunkLists
<1>2. C!TextFlushed(acc, blocks, n, section) \in Seq(AnyChunk)
  <2>1. C!TextChunks(blocks, acc.buffer, n, section) \in Seq(AnyChunk)
    BY <1>1, TextTyped DEF ChunkLists
  <2> QED  BY <1>1, <2>1 DEF C!TextFlushed
<1>3. CASE blocks[i].kind \in C!AtomicKinds
  <2>. DEFINE c == C!AtomicChunk(blocks, i, section)
              f == C!TextFlushed(acc, blocks, n, section)
  <2>1. c \in AnyChunk
    <3>1. AllIn(<< c >>, From(section, {i}))
      BY <1>3, AtomicTold
    <3> HIDE DEF c
    <3>2. Len(<< c >>) = 1 /\ << c >>[1] = c
      OBVIOUS
    <3> QED  BY <3>1, <3>2 DEF AllIn, From
  <2>2. C!AddBlock(acc, i, blocks, n, section) = [buffer |-> << >>, chunks |-> Append(f, c)]
    BY <1>3 DEF C!AddBlock
  <2> HIDE DEF f, c
  <2>3. Append(f, c) \in ChunkLists
    BY <1>2, <2>1 DEF ChunkLists, f
  <2> QED  BY <2>2, <2>3 DEF Buffers
<1>4. CASE blocks[i].kind \notin C!AtomicKinds
  <2>1. C!AddBlock(acc, i, blocks, n, section) = [acc EXCEPT !.buffer = Append(@, i)]
    BY <1>4 DEF C!AddBlock
  <2>2. Append(acc.buffer, i) \in Seq(1..N)
    BY <1>1
  <2> QED  BY <2>1, <2>2 DEF Buffers
<1> QED  BY <1>3, <1>4

\* One more.
LEMMA ThoseMore ==
  ASSUME NEW N \in Nat, NEW ids \in Seq(1..N), NEW i \in 1..N
  PROVE  Those(Append(ids, i)) = Those(ids) \cup {i} /\ Those(ids) \subseteq 1..N
<1>1. /\ Len(ids) \in Nat /\ Len(Append(ids, i)) = Len(ids) + 1
      /\ \A j \in 1..Len(ids) : Append(ids, i)[j] = ids[j] /\ ids[j] \in 1..N
      /\ Append(ids, i)[Len(ids) + 1] = i
  OBVIOUS
<1>. DEFINE more == Append(ids, i)
            m == Len(ids)
<1> HIDE DEF more, m
<1>2. \A j \in 1..(m + 1) : j \in 1..m \/ j = m + 1
  BY <1>1 DEF m
<1>3. \A j \in 1..m : j \in 1..(m + 1)
  BY <1>1 DEF m
<1>4. m + 1 \in 1..(m + 1)
  BY <1>1 DEF m
<1>5. Those(more) \subseteq Those(ids) \cup {i}
  BY <1>1, <1>2 DEF Those, more, m
<1>6. Those(ids) \subseteq Those(more)
  BY <1>1, <1>3 DEF Those, more, m
<1>7. i \in Those(more)
  BY <1>1, <1>4 DEF Those, more, m
<1>8. Those(ids) \subseteq 1..N
  BY <1>1 DEF Those
<1> QED  BY <1>5, <1>6, <1>7, <1>8 DEF more

\* No chunks and nothing in the buffer.
NoChunks == [buffer |-> << >>, chunks |-> << >>]

\* The chunks tell of z what is before x.
Partly(blocks, cs, x, z) ==
  \E y \in SUBSET Nat : Tells(blocks, cs, y) /\ z = y \cup x /\ \A a \in y, b \in x : a < b

\* What the loop over the blocks z, of a section that has `own`, has done: a part of
\* them is told by the chunks, the others are in the buffer.
Carried(blocks, N, acc, z, own, good) ==
  /\ acc \in Buffers(N)
  /\ Ascends(acc.buffer, N)
  /\ \A j \in 1..Len(acc.buffer) : blocks[acc.buffer[j]].kind \notin C!AtomicKinds
  /\ AllIn(acc.chunks, good)
  /\ Those(acc.buffer) \subseteq own
  /\ Partly(blocks, acc.chunks, Those(acc.buffer), z)

\* With the rest of the buffer all of them are told.
LEMMA FlushTells ==
  ASSUME NEW blocks, NEW N \in Nat, Blocks(blocks, N), NEW acc, NEW z, NEW own, NEW good,
         Carried(blocks, N, acc, z, own, good), NEW n \in Nat \ {0}, NEW section \in AnySection,
         From(section, own) \subseteq good
  PROVE  LET cs == C!TextFlushed(acc, blocks, n, section)
         IN Tells(blocks, cs, z) /\ AllIn(cs, good)
PROOF
<1>. DEFINE ds == C!TextChunks(blocks, acc.buffer, n, section)
            x == Those(acc.buffer)
<1>1. /\ acc \in Buffers(N) /\ Ascends(acc.buffer, N) /\ AllIn(acc.chunks, good) /\ x \subseteq own
      /\ \A j \in 1..Len(acc.buffer) : blocks[acc.buffer[j]].kind \notin C!AtomicKinds
  BY DEF Carried
<1>2. Tells(blocks, ds, x) /\ AllIn(ds, From(section, x))
  BY <1>1, TextTold
<1>3. PICK y \in SUBSET Nat : /\ Tells(blocks, acc.chunks, y) /\ z = y \cup x
                              /\ \A a \in y, b \in x : a < b
  BY DEF Carried, Partly
<1>4. x \in SUBSET Nat
  <2>1. \A j \in 1..Len(acc.buffer) : acc.buffer[j] \in 1..N
    BY <1>1 DEF Ascends
  <2> QED  BY <2>1 DEF Those
<1>5. C!TextFlushed(acc, blocks, n, section) = acc.chunks \o ds
  BY DEF C!TextFlushed
<1> HIDE DEF ds, x
<1>6. Tells(blocks, acc.chunks \o ds, y \cup x)
  BY <1>2, <1>3, <1>4, TellsBoth
<1>7. AllIn(ds, good)
  BY <1>1, <1>2 DEF AllIn, From
<1>8. acc.chunks \in ChunkLists /\ ds \in ChunkLists
  BY <1>2, <1>3 DEF Tells
<1>9. AllIn(acc.chunks \o ds, good)
  BY <1>1, <1>7, <1>8, AllInBoth
<1> QED  BY <1>3, <1>5, <1>6, <1>9

\* The next block.
LEMMA AddBlockCarries ==
  ASSUME NEW blocks, NEW N \in Nat, Blocks(blocks, N), NEW acc, NEW z, NEW own, NEW good,
         Carried(blocks, N, acc, z, own, good), NEW n \in Nat \ {0}, NEW section \in AnySection,
         From(section, own) \subseteq good, NEW i \in 1..N, i \in own, \A a \in z : a < i
  PROVE  Carried(blocks, N, C!AddBlock(acc, i, blocks, n, section), z \cup {i}, own, good)
PROOF
<1>. DEFINE turned == C!AddBlock(acc, i, blocks, n, section)
            f == C!TextFlushed(acc, blocks, n, section)
<1>1. /\ acc \in Buffers(N) /\ Ascends(acc.buffer, N) /\ AllIn(acc.chunks, good)
      /\ Those(acc.buffer) \subseteq own
      /\ \A j \in 1..Len(acc.buffer) : blocks[acc.buffer[j]].kind \notin C!AtomicKinds
  BY DEF Carried
<1>2. PICK y \in SUBSET Nat : /\ Tells(blocks, acc.chunks, y) /\ z = y \cup Those(acc.buffer)
                              /\ \A a \in y, b \in Those(acc.buffer) : a < b
  BY DEF Carried, Partly
<1>3. acc.buffer \in Seq(1..N) /\ turned \in Buffers(N)
  BY <1>1, AddBlockTyped DEF Buffers
<1>4. Those(acc.buffer) \subseteq 1..N /\ Those(Append(acc.buffer, i)) = Those(acc.buffer) \cup {i}
  BY <1>3, ThoseMore
<1>8. z \in SUBSET Nat
  <2>1. Those(acc.buffer) \subseteq Nat
    BY <1>4
  <2> QED  BY <1>2, <2>1
<1>5. Tells(blocks, f, z) /\ AllIn(f, good)
  BY FlushTells
<1>6. CASE blocks[i].kind \in C!AtomicKinds
  <2>. DEFINE c == C!AtomicChunk(blocks, i, section)
              cs == << c >>
  <2>1. turned = [buffer |-> << >>, chunks |-> Append(f, c)]
    BY <1>6 DEF C!AddBlock
  <2>2. Tells(blocks, cs, {i}) /\ AllIn(cs, From(section, {i}))
    BY <1>6, AtomicTold
  <2>3. f \in Seq(AnyChunk) /\ cs \in Seq(AnyChunk)
    BY <1>5, <2>2 DEF Tells, ChunkLists
  <2>4. Append(f, c) = f \o cs
    BY <2>3
  <2> HIDE DEF c, f, turned
  <2>5. Tells(blocks, f \o cs, z \cup {i})
    <3>1. z \in SUBSET Nat /\ {i} \in SUBSET Nat /\ \A a \in z, b \in {i} : a < b
      BY <1>8
    <3> HIDE DEF cs
    <3> QED  BY <1>5, <2>2, <3>1, TellsBoth
  <2>6. AllIn(cs, good)
    BY <2>2 DEF AllIn, From
  <2>7. AllIn(f \o cs, good)
    <3> HIDE DEF cs
    <3> QED  BY <1>5, <2>2, <2>6, AllInBoth DEF Tells
  <2>8. turned.buffer = << >> /\ turned.chunks = f \o cs
    BY <2>1, <2>4
  <2>9. Ascends(<< >>, N) /\ Those(<< >>) = {} /\ Len(<< >>) = 0
    BY DEF Ascends, Those
  <2> HIDE DEF cs
  <2>10. z \cup {i} \in SUBSET Nat
    BY <1>8
  <2>11. Partly(blocks, turned.chunks, Those(turned.buffer), z \cup {i})
    BY <2>5, <2>8, <2>9, <2>10 DEF Partly
  <2>12. \A j \in 1..Len(turned.buffer) : blocks[turned.buffer[j]].kind \notin C!AtomicKinds
    BY <2>8, <2>9
  <2>13. Ascends(turned.buffer, N) /\ Those(turned.buffer) \subseteq own /\ AllIn(turned.chunks, good)
    BY <2>7, <2>8, <2>9
  <2>14. Carried(blocks, N, turned, z \cup {i}, own, good)
    BY <1>3, <2>11, <2>12, <2>13 DEF Carried
  <2> QED  BY <2>14 DEF turned
<1>7. CASE blocks[i].kind \notin C!AtomicKinds
  <2>. DEFINE b == Append(acc.buffer, i)
              m == Len(acc.buffer)
  <2>1. turned = [acc EXCEPT !.buffer = b]
    BY <1>7 DEF C!AddBlock
  <2>2. turned.buffer = b /\ turned.chunks = acc.chunks
    BY <1>1, <2>1 DEF Buffers
  <2>3. /\ m \in Nat /\ b \in Seq(1..N) /\ Len(b) = m + 1 /\ b[m + 1] = i
        /\ \A j \in 1..m : b[j] = acc.buffer[j] /\ acc.buffer[j] \in 1..N
    BY <1>3
  <2> HIDE DEF b, m, turned
  <2>4. \A j \in 1..Len(b) : j \in 1..m \/ j = m + 1
    BY <2>3
  <2>5. \A j \in 1..m : acc.buffer[j] < i
    BY <1>2 DEF Those, m
  <2>6. Ascends(b, N)
    <3>1. ASSUME NEW j \in 1..Len(b), NEW k \in 1..Len(b), j < k PROVE b[j] < b[k]
      <4>1. j \in 1..m
        BY <2>3, <3>1
      <4>2. CASE k \in 1..m
        BY <1>1, <2>3, <3>1, <4>1, <4>2 DEF Ascends, m
      <4>3. CASE k = m + 1
        BY <2>3, <2>5, <4>1, <4>3
      <4> QED  BY <2>4, <4>2, <4>3
    <3> QED  BY <2>3, <3>1 DEF Ascends
  <2>7. \A j \in 1..Len(b) : blocks[b[j]].kind \notin C!AtomicKinds
    BY <1>1, <1>7, <2>3, <2>4 DEF m
  <2>8. Those(b) = Those(acc.buffer) \cup {i}
    BY <1>4 DEF b
  <2>9. \A a \in y, d \in Those(b) : a < d
    BY <1>2, <2>8
  <2>10. z \cup {i} = y \cup Those(b)
    BY <1>2, <2>8
  <2>11. Partly(blocks, turned.chunks, Those(turned.buffer), z \cup {i})
    BY <1>2, <2>2, <2>9, <2>10 DEF Partly
  <2>12. Those(b) \subseteq own
    BY <1>1, <2>8
  <2>13. Ascends(turned.buffer, N) /\ Those(turned.buffer) \subseteq own /\ AllIn(turned.chunks, good)
    BY <1>1, <2>2, <2>6, <2>12
  <2>14. \A j \in 1..Len(turned.buffer) : blocks[turned.buffer[j]].kind \notin C!AtomicKinds
    BY <2>2, <2>7
  <2>15. Carried(blocks, N, turned, z \cup {i}, own, good)
    BY <1>3, <2>11, <2>13, <2>14 DEF Carried
  <2> QED  BY <2>15 DEF turned
<1> QED  BY <1>6, <1>7

\* Nothing is carried at first.
LEMMA NothingCarried ==
  ASSUME NEW blocks, NEW N \in Nat, NEW own, NEW good
  PROVE  Carried(blocks, N, NoChunks, {}, own, good)
<1>. DEFINE acc == NoChunks
<1>1. acc.buffer = << >> /\ acc.chunks = << >> /\ acc \in Buffers(N)
  BY DEF Buffers, ChunkLists, NoChunks
<1>2. Ascends(<< >>, N) /\ Those(<< >>) = {} /\ Len(<< >>) = 0 /\ AllIn(<< >>, good)
  BY DEF Ascends, Those, AllIn
<1>3. Tells(blocks, << >>, {})
  BY TellsNone
<1> HIDE DEF acc
<1>4. {} \in SUBSET Nat
  OBVIOUS
<1>5. Carried(blocks, N, acc, {}, own, good)
  BY <1>1, <1>2, <1>3, <1>4 DEF Carried, Partly
<1> QED  BY <1>5 DEF acc


\* The loop of TokenChunker.chunk.
TokenLoop(blocks, ids, n, section) ==
  C!FoldLeft(LAMBDA acc, i : C!AddBlock(acc, i, blocks, n, section), NoChunks, ids)

\* What it is given.
TokenGiven(blocks, N, ids, m, n, section) ==
  /\ N \in Nat /\ Blocks(blocks, N)
  /\ ids \in Seq(1..N) /\ m \in Nat /\ m = Len(ids)
  /\ n \in Nat \ {0} /\ section \in AnySection

\* The buffer and the chunks, block after block.
LEMMA TokensAre ==
  ASSUME NEW blocks, NEW N, NEW ids, NEW m, NEW n, NEW section,
         TokenGiven(blocks, N, ids, m, n, section)
  PROVE  \E f \in [0..m -> Buffers(N)] :
           /\ f[0] = NoChunks
           /\ \A i \in 1..m : f[i] = C!AddBlock(f[i - 1], ids[i], blocks, n, section)
           /\ f[m] = TokenLoop(blocks, ids, n, section)
PROOF
<1>. DEFINE st == [i \in 1..m |-> [a \in Buffers(N) |-> C!AddBlock(a, ids[i], blocks, n, section)]]
            F(it, s) == IF s = {} THEN NoChunks ELSE C!AddBlock(it[s \ {Top(s)}], ids[Top(s)], blocks, n, section)
            iter == CHOOSE it : it = [s \in SUBSET (1..m) |-> F(it, s)]
<1>0. /\ N \in Nat /\ Blocks(blocks, N) /\ ids \in Seq(1..N) /\ m \in Nat /\ m = Len(ids)
      /\ n \in Nat \ {0} /\ section \in AnySection
  BY DEF TokenGiven
<1>1. TokenLoop(blocks, ids, n, section) = iter[1..m]
  <2>1. DOMAIN ids = 1..m
    BY <1>0
  <2> QED  BY <2>1 DEF TokenLoop, C!FoldLeft, C!MapThenFoldSet, Top
<1>2. \A i \in 1..m : \A a \in Buffers(N) : st[i][a] = C!AddBlock(a, ids[i], blocks, n, section) /\ st[i][a] \in Buffers(N)
  <2>1. \A i \in 1..m : ids[i] \in 1..N
    BY <1>0
  <2> QED  BY <1>0, <2>1, AddBlockTyped
<1>3. NoChunks \in Buffers(N)
  BY DEF Buffers, ChunkLists, NoChunks
<1> HIDE DEF st
<1>4. Keep(st, Buffers(N), m)
  BY <1>2 DEF Keep
<1>5. \E it : it = [s \in SUBSET (1..m) |-> F(it, s)]
  <2>1. PICK it : Iterates(it, Buffers(N), NoChunks, m, st)
    BY <1>0, <1>3, <1>4, FoldTyped
  <2>2. ASSUME NEW s \in SUBSET (1..m)
        PROVE  it[s] = F(it, s)
    <3>1. s \ {Top(s)} \in SUBSET (1..m)
      OBVIOUS
    <3> QED  BY <1>0, <1>2, <2>1, <3>1, TopIs DEF Iterates
  <2> HIDE DEF F
  <2>3. it = [s \in SUBSET (1..m) |-> F(it, s)]
    BY <2>1, <2>2 DEF Iterates
  <2> QED  BY <2>3
<1>6. iter = [s \in SUBSET (1..m) |-> F(iter, s)]
  <2> HIDE DEF F
  <2> QED  BY <1>5
<1> HIDE DEF iter
<1>7. \A s \in SUBSET (1..m) : iter[s] = F(iter, s)
  <2> HIDE DEF F
  <2> QED  BY <1>6
<1>8. Goes(iter, Buffers(N), NoChunks, m, st)
  <2>1. iter[{}] = NoChunks
    BY <1>7
  <2>2. ASSUME NEW s \in SUBSET (1..m), s # {}, iter[s \ {Top(s)}] \in Buffers(N)
        PROVE  iter[s] = st[Top(s)][iter[s \ {Top(s)}]]
    <3>1. Top(s) \in 1..m
      BY <1>0, <2>2, TopIs
    <3>2. iter[s] = C!AddBlock(iter[s \ {Top(s)}], ids[Top(s)], blocks, n, section)
      BY <1>7, <2>2
    <3> QED  BY <1>2, <2>2, <3>1, <3>2
  <2> QED  BY <2>1, <2>2 DEF Goes
<1>9. PICK f : IsWay(f, Buffers(N), NoChunks, m, st) /\ f[m] = iter[1..m]
  BY <1>0, <1>3, <1>4, <1>8, FoldWay
<1>10. ASSUME NEW i \in 1..m
       PROVE  f[i] = C!AddBlock(f[i - 1], ids[i], blocks, n, section)
  <2>1. i - 1 \in 0..m
    BY <1>0
  <2>2. f[i - 1] \in Buffers(N) /\ f[i] = st[i][f[i - 1]]
    BY <1>9, <2>1 DEF IsWay
  <2> QED  BY <1>2, <2>2
<1> QED  BY <1>1, <1>9, <1>10 DEF IsWay

\* TokenChunker.chunk tells the blocks it is given, under the section.
LEMMA TokensTold ==
  ASSUME NEW blocks, NEW N \in Nat, Blocks(blocks, N), NEW ids, Ascends(ids, N), NEW n \in Nat \ {0},
         NEW section \in AnySection
  PROVE  LET cs == C!TokenChunks(blocks, ids, n, section)
         IN Tells(blocks, cs, Those(ids)) /\ AllIn(cs, From(section, Those(ids)))
PROOF
<1>. DEFINE m == Len(ids)
            own == Those(ids)
            good == From(section, own)
            acc == TokenLoop(blocks, ids, n, section)
            z(k) == {ids[j] : j \in 1..k}
<1>1. ids \in Seq(1..N) /\ m \in Nat /\ \A j \in 1..m : ids[j] \in 1..N
  BY DEF Ascends
<1>2. PICK f \in [0..m -> Buffers(N)] :
        /\ f[0] = NoChunks
        /\ \A i \in 1..m : f[i] = C!AddBlock(f[i - 1], ids[i], blocks, n, section)
        /\ f[m] = acc
  <2> HIDE DEF acc, m
  <2>1. m = Len(ids) /\ acc = TokenLoop(blocks, ids, n, section)
    BY DEF m, acc
  <2>2. \E f \in [0..m -> Buffers(N)] :
          /\ f[0] = NoChunks
          /\ \A i \in 1..m : f[i] = C!AddBlock(f[i - 1], ids[i], blocks, n, section)
          /\ f[m] = TokenLoop(blocks, ids, n, section)
    <3>1. TokenGiven(blocks, N, ids, m, n, section)
      BY <1>1, <2>1 DEF TokenGiven
    <3> QED  BY <3>1, TokensAre
  <2> QED  BY <2>1, <2>2
<1>3. C!TokenChunks(blocks, ids, n, section) = C!TextFlushed(acc, blocks, n, section)
  BY DEF C!TokenChunks, TokenLoop, NoChunks
<1>4. \A j, k \in 1..m : j < k => ids[j] < ids[k]
  BY DEF Ascends
<1> HIDE DEF acc, m
<1>5. \A j \in 1..m : ids[j] \in own
  BY DEF Those, m
<1> HIDE DEF own, good
<1>. DEFINE Z == {k \in Nat : k <= m => Carried(blocks, N, f[k], z(k), own, good)}
<1>6. 0 \in Z
  <2>1. z(0) = {}
    OBVIOUS
  <2>2. Carried(blocks, N, NoChunks, {}, own, good)
    BY NothingCarried
  <2> QED  BY <1>2, <2>1, <2>2
<1>7. ASSUME NEW k \in Z PROVE k + 1 \in Z
  <2>. SUFFICES ASSUME k + 1 <= m PROVE Carried(blocks, N, f[k + 1], z(k + 1), own, good)
    OBVIOUS
  <2>1. k \in Nat /\ k + 1 \in 1..m /\ (k + 1) - 1 = k /\ k <= m
    BY <1>1
  <2>2. Carried(blocks, N, f[k], z(k), own, good)
    BY <2>1
  <2>3. f[k + 1] = C!AddBlock(f[k], ids[k + 1], blocks, n, section)
    BY <1>2, <2>1
  <2>4. z(k + 1) = z(k) \cup {ids[k + 1]}
    <3>1. \A j \in 1..(k + 1) : j \in 1..k \/ j = k + 1
      BY <2>1
    <3>2. \A j \in 1..k : j \in 1..(k + 1)
      BY <2>1
    <3>3. k + 1 \in 1..(k + 1)
      BY <2>1
    <3> QED  BY <3>1, <3>2, <3>3
  <2>5. \A a \in z(k) : a < ids[k + 1]
    <3>1. \A j \in 1..k : j \in 1..m /\ j < k + 1
      BY <1>1, <2>1
    <3>2. \A j \in 1..k : ids[j] < ids[k + 1]
      BY <1>4, <2>1, <3>1
    <3> QED  BY <3>2
  <2>6. ids[k + 1] \in 1..N /\ ids[k + 1] \in own
    BY <1>1, <1>5, <2>1
  <2> HIDE DEF z
  <2> QED  BY <2>2, <2>3, <2>4, <2>5, <2>6, AddBlockCarries DEF good
<1>8. Z \in SUBSET Nat
  OBVIOUS
<1> HIDE DEF Z
<1>9. m \in Z /\ m <= m
  <2>1. Z = Nat
    BY <1>6, <1>7, <1>8, NatSetInduction
  <2> QED  BY <1>1, <2>1
<1>10. Carried(blocks, N, acc, z(m), own, good)
  BY <1>2, <1>9 DEF Z
<1>11. z(m) = own
  BY DEF own, Those, m
<1> HIDE DEF z
<1>12. Tells(blocks, C!TextFlushed(acc, blocks, n, section), own)
       /\ AllIn(C!TextFlushed(acc, blocks, n, section), good)
  BY <1>10, <1>11, FlushTells DEF good
<1> QED  BY <1>3, <1>12 DEF own, good

-----------------------------------------------------------------------------
(* The headings a block is under.                                          *)

\* Those of hs up to i that no later one up to i has closed.
Over(hs, lvls, i) == {h \in 1..i : h \in hs /\ \A j \in (h + 1)..i : j \in hs => lvls[j] > lvls[h]}

\* Levels of N blocks, and some headings of them.
Levelled(hs, lvls, N) == N \in Nat /\ lvls \in [1..N -> Nat] /\ hs \in SUBSET (1..N)

\* They are numbers up to i.
LEMMA OverIsFinite ==
  ASSUME NEW hs, NEW lvls, NEW i \in Nat
  PROVE  /\ Over(hs, lvls, i) \in SUBSET Nat /\ IsFiniteSet(Over(hs, lvls, i))
         /\ Over(hs, lvls, i) \subseteq 1..i /\ Over(hs, lvls, i) \subseteq hs
PROOF
<1>1. Over(hs, lvls, i) \subseteq 1..i /\ Over(hs, lvls, i) \subseteq hs
  BY DEF Over
<1>2. IsFiniteSet(1..i)
  BY Interval
<1> QED  BY <1>1, <1>2, FS_Subset

\* Above the first block there is none.
LEMMA OverNone == ASSUME NEW hs, NEW lvls PROVE Over(hs, lvls, 0) = {}
BY DEF Over

\* A heading closes those that are not of a level above its own.
LEMMA OverNext ==
  ASSUME NEW hs, NEW lvls, NEW N, Levelled(hs, lvls, N), NEW i \in 1..N
  PROVE  /\ i \notin hs => Over(hs, lvls, i) = Over(hs, lvls, i - 1)
         /\ i \in hs => \A h : h \in Over(hs, lvls, i) <=>
                            h = i \/ (h \in Over(hs, lvls, i - 1) /\ lvls[h] < lvls[i])
PROOF
<1>1. N \in Nat /\ lvls \in [1..N -> Nat] /\ hs \in SUBSET (1..N) /\ i \in Nat /\ i - 1 \in Nat
  BY DEF Levelled
<1>2. \A h \in 1..i : h \in 1..(i - 1) \/ h = i
  BY <1>1
<1>3. \A h \in 1..(i - 1) : h \in 1..i /\ h # i /\ lvls[h] \in Nat /\ i \in (h + 1)..i
  BY <1>1
<1>4. \A h \in 1..(i - 1) : \A j \in (h + 1)..i : j \in (h + 1)..(i - 1) \/ j = i
  BY <1>1
<1>5. \A h \in 1..(i - 1) : \A j \in (h + 1)..(i - 1) : j \in (h + 1)..i
  BY <1>1
<1>6. (i + 1)..i = {} /\ i \in 1..i /\ lvls[i] \in Nat
  BY <1>1
<1>7. ASSUME i \notin hs PROVE Over(hs, lvls, i) = Over(hs, lvls, i - 1)
  BY <1>2, <1>3, <1>4, <1>5, <1>7 DEF Over
<1>8. ASSUME i \in hs
      PROVE  \A h : h \in Over(hs, lvls, i) <=>
                h = i \/ (h \in Over(hs, lvls, i - 1) /\ lvls[h] < lvls[i])
  <2>1. ASSUME NEW h \in Over(hs, lvls, i), h # i
        PROVE  h \in Over(hs, lvls, i - 1) /\ lvls[h] < lvls[i]
    <3>1. h \in 1..(i - 1) /\ h \in hs /\ \A j \in (h + 1)..i : j \in hs => lvls[j] > lvls[h]
      BY <1>2, <2>1 DEF Over
    <3>2. h \in Over(hs, lvls, i - 1)
      BY <1>5, <3>1 DEF Over
    <3>3. lvls[i] > lvls[h]
      BY <1>3, <1>8, <3>1
    <3> QED  BY <1>3, <1>6, <3>1, <3>2, <3>3
  <2>2. ASSUME NEW h \in Over(hs, lvls, i - 1), lvls[h] < lvls[i]
        PROVE  h \in Over(hs, lvls, i)
    <3>1. h \in 1..(i - 1) /\ h \in hs /\ \A j \in (h + 1)..(i - 1) : j \in hs => lvls[j] > lvls[h]
      BY DEF Over
    <3>2. lvls[i] > lvls[h]
      BY <1>3, <1>6, <2>2, <3>1
    <3>3. \A j \in (h + 1)..i : j \in hs => lvls[j] > lvls[h]
      BY <1>4, <3>1, <3>2
    <3> QED  BY <1>3, <3>1, <3>3 DEF Over
  <2>3. i \in Over(hs, lvls, i)
    BY <1>6, <1>8 DEF Over
  <2> QED  BY <2>1, <2>2, <2>3
<1> QED  BY <1>7, <1>8

\* A heading under another one has a lower rank.
LEMMA OverRanks ==
  ASSUME NEW hs, NEW lvls, NEW i \in Nat, NEW g \in Over(hs, lvls, i), NEW h \in Over(hs, lvls, i), g < h
  PROVE  lvls[g] < lvls[h]
PROOF
<1>1. g \in 1..i /\ h \in 1..i /\ h \in hs /\ \A j \in (g + 1)..i : j \in hs => lvls[j] > lvls[g]
  BY DEF Over
<1>2. h \in (g + 1)..i
  BY <1>1
<1>3. lvls[h] > lvls[g]
  BY <1>1, <1>2
<1> QED  BY <1>3

\* bs are the headings of hs up to the target.
Upto(hs, bs, lvls, target) == \A h : h \in bs <=> h \in hs /\ lvls[h] <= target

\* Above a heading up to the target there are such headings only.
LEMMA OverTarget ==
  ASSUME NEW hs, NEW lvls, NEW N, Levelled(hs, lvls, N), NEW target \in Nat, NEW i \in hs, lvls[i] <= target,
         NEW bs, Upto(hs, bs, lvls, target)
  PROVE  Over(hs, lvls, i) = Over(bs, lvls, i)
PROOF
<1>1. N \in Nat /\ lvls \in [1..N -> Nat] /\ hs \in SUBSET (1..N) /\ i \in Nat /\ i \in 1..N
  BY DEF Levelled
<1>2. \A h \in hs : lvls[h] \in Nat /\ (h \in bs <=> lvls[h] <= target)
  BY <1>1 DEF Upto
<1>3. bs \subseteq hs /\ i \in bs
  BY DEF Upto
<1>4. ASSUME NEW h \in Over(hs, lvls, i) PROVE h \in Over(bs, lvls, i)
  <2>1. h \in 1..i /\ h \in hs /\ \A j \in (h + 1)..i : j \in hs => lvls[j] > lvls[h]
    BY DEF Over
  <2>2. h \in bs
    <3>1. CASE h = i
      BY <1>3, <3>1
    <3>2. CASE h # i
      <4>1. i \in (h + 1)..i
        BY <1>1, <2>1, <3>2
      <4>2. lvls[i] > lvls[h] /\ lvls[i] \in Nat /\ lvls[h] \in Nat
        BY <1>2, <2>1, <4>1
      <4>3. lvls[h] <= target
        BY <4>2
      <4> QED  BY <1>2, <2>1, <4>3
    <3> QED  BY <3>1, <3>2
  <2> QED  BY <1>3, <2>1, <2>2 DEF Over
<1>5. ASSUME NEW h \in Over(bs, lvls, i) PROVE h \in Over(hs, lvls, i)
  <2>1. h \in 1..i /\ h \in bs /\ \A j \in (h + 1)..i : j \in bs => lvls[j] > lvls[h]
    BY DEF Over
  <2>2. ASSUME NEW j \in (h + 1)..i, j \in hs PROVE lvls[j] > lvls[h]
    <3>1. CASE j \in bs
      BY <2>1, <3>1
    <3>2. CASE j \notin bs
      <4>1. lvls[j] \in Nat /\ lvls[h] \in Nat /\ ~(lvls[j] <= target) /\ lvls[h] <= target
        BY <1>2, <1>3, <2>1, <2>2, <3>2
      <4> QED  BY <4>1
    <3> QED  BY <3>1, <3>2
  <2> QED  BY <1>3, <2>1, <2>2 DEF Over
<1> QED  BY <1>4, <1>5

\* How far a stack is left when what is not above a level is taken from its end.
Left(n, kept, f, level) == C!Max({kept} \cup {k \in 1..n : f[k] < level})

\* It is left to one of its places.
LEMMA LeftIs ==
  ASSUME NEW n \in Nat, NEW kept \in 0..n, NEW f, NEW level
  PROVE  LET t == Left(n, kept, f, level)
         IN /\ t \in 0..n /\ kept <= t /\ (t # kept => t \in 1..n /\ f[t] < level)
            /\ \A k \in 1..n : f[k] < level => k <= t
PROOF
<1>. DEFINE z == {kept} \cup {k \in 1..n : f[k] < level}
<1>1. z \in SUBSET Int /\ IsFiniteSet(z) /\ z # {} /\ z \subseteq 0..n
  <2>1. z \subseteq 0..n
    OBVIOUS
  <2>2. IsFiniteSet(1..n) /\ {k \in 1..n : f[k] < level} \subseteq 1..n
    BY Interval
  <2>3. IsFiniteSet({k \in 1..n : f[k] < level})
    BY <2>2, FS_Subset
  <2>4. IsFiniteSet(z)
    <3>. DEFINE y == {k \in 1..n : f[k] < level}
    <3>1. IsFiniteSet(y)
      BY <2>3
    <3> HIDE DEF y
    <3>2. IsFiniteSet({kept} \cup y)
      BY <3>1, FS_AddElement
    <3> QED  BY <3>2 DEF y
  <2> QED  BY <2>1, <2>4
<1>2. \A k \in 1..n : f[k] < level => k \in z
  OBVIOUS
<1>3. kept \in z /\ \A k \in z : k # kept => k \in 1..n /\ f[k] < level
  OBVIOUS
<1> HIDE DEF z
<1>4. PICK x \in z : \A y \in z : y <= x
  BY <1>1, Greatest
<1>5. \E x_1 \in z : \A y \in z : x_1 >= y
  <2>1. \A y \in z : x >= y
    BY <1>1, <1>4
  <2> QED  BY <2>1
<1>6. C!Max(z) \in z /\ \A y \in z : C!Max(z) >= y
  BY <1>5 DEF C!Max
<1>. DEFINE t == C!Max(z)
<1> HIDE DEF t
<1>7. t \in z /\ \A y \in z : y <= t
  BY <1>1, <1>6 DEF t
<1>8. Left(n, kept, f, level) = t
  BY DEF Left, t, z
<1>9. t \in 0..n
  BY <1>1, <1>7
<1> QED  BY <1>2, <1>3, <1>7, <1>8, <1>9

\* The chunks of any buffer.
LEMMA TokenTyped ==
  ASSUME NEW blocks, NEW N \in Nat, Blocks(blocks, N), NEW ids \in Seq(1..N), NEW n \in Nat \ {0},
         NEW section \in AnySection
  PROVE  C!TokenChunks(blocks, ids, n, section) \in ChunkLists
PROOF
<1>. DEFINE m == Len(ids)
<1>1. m \in Nat
  OBVIOUS
<1>2. TokenGiven(blocks, N, ids, m, n, section)
  BY <1>1 DEF TokenGiven
<1>3. TokenLoop(blocks, ids, n, section) \in Buffers(N)
  <2>1. PICK f \in [0..m -> Buffers(N)] : f[m] = TokenLoop(blocks, ids, n, section)
    BY <1>2, TokensAre
  <2>2. m \in 0..m
    BY <1>1
  <2> HIDE DEF m
  <2> QED  BY <2>1, <2>2
<1>. DEFINE acc == TokenLoop(blocks, ids, n, section)
<1>4. C!TokenChunks(blocks, ids, n, section) = C!TextFlushed(acc, blocks, n, section)
  BY DEF C!TokenChunks, TokenLoop, NoChunks
<1> HIDE DEF acc
<1>5. acc.buffer \in Seq(1..N) /\ acc.chunks \in ChunkLists
  BY <1>3 DEF Buffers, acc
<1>. DEFINE ds == C!TextChunks(blocks, acc.buffer, n, section)
<1>6. ds \in ChunkLists
  BY <1>5, TextTyped
<1>7. C!TextFlushed(acc, blocks, n, section) = acc.chunks \o ds
  BY DEF C!TextFlushed
<1> HIDE DEF ds
<1>8. acc.chunks \o ds \in ChunkLists
  BY <1>5, <1>6 DEF ChunkLists
<1> QED  BY <1>4, <1>7, <1>8

\* The headings a block is under are those of the block before it, up to the last one
\* above its level, and itself.
LEMMA OrderCut ==
  ASSUME NEW hs, NEW lvls, NEW N, Levelled(hs, lvls, N), NEW i \in hs,
         NEW o, Orderly(o, Over(hs, lvls, i - 1)), NEW t \in 0..Len(o),
         t # 0 => lvls[o[t]] < lvls[i],
         \A k \in 1..Len(o) : lvls[o[k]] < lvls[i] => k <= t
  PROVE  Orderly(Append(SubSeq(o, 1, t), i), Over(hs, lvls, i))
PROOF
<1>. DEFINE before == Over(hs, lvls, i - 1)
            after == Over(hs, lvls, i)
            m == Len(o)
            cut == SubSeq(o, 1, t)
            more == Append(cut, i)
<1>1. N \in Nat /\ lvls \in [1..N -> Nat] /\ hs \in SUBSET (1..N) /\ i \in 1..N /\ i \in Nat /\ i - 1 \in Nat
  BY DEF Levelled
<1>2. /\ o \in Seq(before) /\ \A j, k \in 1..m : j < k => o[j] < o[k]
      /\ \A x \in before : \E j \in 1..m : o[j] = x
  BY DEF Orderly
<1>3. \A h : h \in after <=> h = i \/ (h \in before /\ lvls[h] < lvls[i])
  BY <1>1, OverNext
<1>4. before \in SUBSET Nat /\ before \subseteq 1..(i - 1)
  BY <1>1, OverIsFinite
<1>5. \A j \in 1..m : o[j] \in before /\ o[j] \in 1..(i - 1) /\ o[j] \in 1..N /\ lvls[o[j]] \in Nat
  <2>1. \A j \in 1..m : o[j] \in before
    BY <1>2
  <2>2. \A x \in 1..(i - 1) : x \in 1..N /\ lvls[x] \in Nat
    BY <1>1
  <2> HIDE DEF before, m
  <2> QED  BY <1>4, <2>1, <2>2
<1>6. \A j, k \in 1..m : j < k => lvls[o[j]] < lvls[o[k]]
  <2> HIDE DEF m
  <2> QED  BY <1>1, <1>2, <1>5, OverRanks
<1>7. m \in Nat /\ t \in Nat /\ t <= m
  BY <1>2
<1>8. lvls[i] \in Nat
  BY <1>1
<1>9. \A j \in 1..m : lvls[o[j]] < lvls[i] <=> j <= t
  <2> HIDE DEF m, before
  <2>1. ASSUME NEW j \in 1..m, j <= t PROVE lvls[o[j]] < lvls[i]
    <3>1. t # 0 /\ t \in 1..m
      BY <1>7, <2>1
    <3>2. CASE j = t
      BY <3>1, <3>2
    <3>3. CASE j # t
      <4>1. lvls[o[j]] < lvls[o[t]] /\ lvls[o[t]] \in Nat /\ lvls[o[j]] \in Nat
        BY <1>5, <1>6, <1>7, <2>1, <3>1, <3>3
      <4> QED  BY <1>8, <3>1, <4>1
    <3> QED  BY <3>2, <3>3
  <2> QED  BY <2>1 DEF m
<1>10. /\ cut \in Seq(before) /\ Len(cut) = t /\ \A j \in 1..t : cut[j] = o[j] /\ j \in 1..m
  <2> HIDE DEF before
  <2> QED  BY <1>2, <1>7
<1>11. cut \in Seq(after)
  <2>1. \A j \in 1..t : cut[j] \in after
    <3> HIDE DEF before, after, m, cut
    <3> QED  BY <1>3, <1>5, <1>9, <1>10
  <2>2. \A j \in 1..Len(cut) : cut[j] \in after
    BY <1>10, <2>1
  <2> HIDE DEF before, after
  <2> QED  BY <1>10, <2>2
<1>12. i \in after
  BY <1>3
<1>13. /\ more \in Seq(after) /\ Len(more) = t + 1
       /\ \A j \in 1..t : more[j] = o[j] /\ j \in 1..m
       /\ more[t + 1] = i
  <2> HIDE DEF before, after
  <2> QED  BY <1>7, <1>10, <1>11, <1>12
<1> HIDE DEF before, after, m, cut, more
<1>14. \A j \in 1..(t + 1) : j \in 1..t \/ j = t + 1
  BY <1>7
<1>15. \A j, k \in 1..(t + 1) : j < k => more[j] < more[k]
  <2>1. ASSUME NEW j \in 1..(t + 1), NEW k \in 1..(t + 1), j < k PROVE more[j] < more[k]
    <3>1. j \in 1..t
      BY <1>7, <2>1
    <3>2. CASE k \in 1..t
      BY <1>2, <1>13, <2>1, <3>1, <3>2
    <3>3. CASE k = t + 1
      <4>1. o[j] \in 1..(i - 1)
        BY <1>5, <1>13, <3>1
      <4> QED  BY <1>1, <1>13, <3>1, <3>3, <4>1
    <3> QED  BY <1>14, <3>2, <3>3
  <2> QED  BY <2>1
<1>16. \A x \in after : \E j \in 1..(t + 1) : more[j] = x
  <2>1. ASSUME NEW x \in after PROVE \E j \in 1..(t + 1) : more[j] = x
    <3>1. CASE x = i
      <4>1. t + 1 \in 1..(t + 1)
        BY <1>7
      <4> QED  BY <1>13, <3>1, <4>1
    <3>2. CASE x # i
      <4>1. x \in before /\ lvls[x] < lvls[i]
        BY <1>3, <3>2
      <4>2. PICK j \in 1..m : o[j] = x
        BY <1>2, <4>1
      <4>3. j <= t /\ j \in 1..t /\ j \in 1..(t + 1)
        BY <1>7, <1>9, <4>1, <4>2
      <4> QED  BY <1>13, <4>2, <4>3
    <3> QED  BY <3>1, <3>2
  <2> QED  BY <2>1
<1>17. Orderly(more, after)
  BY <1>13, <1>15, <1>16 DEF Orderly
<1> QED  BY <1>17 DEF more, cut, after

-----------------------------------------------------------------------------
(* The group chunker.                                                      *)

Headings == [level : Nat, block : Nat]

\* The result so far, the texts since the last heading, the open headings and the section.
Groups(N) == [chunks : ChunkLists, buffer : Seq(1..N), stack : Seq(Headings), section : AnySection]

\* What the title chunkers are given.
Titled(blocks, lvls, N, target, n) ==
  /\ N \in Nat /\ Blocks(blocks, N)
  /\ lvls \in [1..N -> Nat]
  /\ target \in Nat
  /\ n \in Nat \ {0}

\* The headings, and those that begin a section.
Heads(blocks, lvls, N) == {i \in 1..N : lvls[i] # C!BodyLevel /\ blocks[i].size > 0}

Beginnings(blocks, lvls, N, target) == {h \in Heads(blocks, lvls, N) : lvls[h] <= target}

\* The path of an open section is that of the blocks below it.
Opened(section, lvls, bs, i) ==
  /\ section \in AnySection
  /\ Orderly(section.path, Over(bs, lvls, i))
  /\ section.path # << >> => section.level = lvls[C!Last(section.path)]

\* A chunk has the path of its text, which is made of headings that begin a section.
Placed(lvls, bs) ==
  {c \in AnyChunk :
     /\ \A j \in 1..Len(c.path) : c.path[j] \in bs
     /\ \A i \in Inside(c.body) : c.path = C!InOrder(Over(bs, lvls, i))
     /\ c.path # << >> => c.level = lvls[C!Last(c.path)]
     /\ c.body = << >> /\ c.kind = "text" =>
          c.path # << >> /\ c.path = C!InOrder(Over(bs, lvls, C!Last(c.path)))}

\* So have the chunks of a section.
LEMMA FromPlaced ==
  ASSUME NEW lvls, NEW bs, NEW i \in Nat, NEW section, Opened(section, lvls, bs, i), NEW own,
         \A b \in own : Over(bs, lvls, b) = Over(bs, lvls, i)
  PROVE  From(section, own) \subseteq Placed(lvls, bs)
PROOF
<1>1. Over(bs, lvls, i) \in SUBSET Nat
  BY OverIsFinite
<1>2. C!InOrder(Over(bs, lvls, i)) = section.path
  BY <1>1, IsTheOrder DEF Opened
<1>3. ASSUME NEW c \in From(section, own) PROVE c \in Placed(lvls, bs)
  <2>1. c \in AnyChunk /\ InSection(c, section) /\ Inside(c.body) \subseteq own
    BY DEF From
  <2>2. c.path = section.path /\ c.level = section.level /\ (c.kind = "text" => c.body # << >>)
    BY <2>1 DEF InSection
  <2>3. \A j \in Inside(c.body) : c.path = C!InOrder(Over(bs, lvls, j))
    BY <1>2, <2>1, <2>2
  <2>4. c.path # << >> => c.level = lvls[C!Last(c.path)]
    BY <2>2 DEF Opened
  <2>5. \A j \in 1..Len(c.path) : c.path[j] \in bs
    <3>1. Over(bs, lvls, i) \subseteq bs
      BY OverIsFinite
    <3>2. \A j \in 1..Len(section.path) : section.path[j] \in Over(bs, lvls, i)
      BY DEF Opened, Orderly
    <3> QED  BY <2>2, <3>1, <3>2
  <2> QED  BY <2>1, <2>2, <2>3, <2>4, <2>5 DEF Placed
<1> QED  BY <1>3

\* The stack has the open headings.
Stacked(stack, lvls, hs, i) ==
  /\ stack \in Seq(Headings)
  /\ Orderly(C!Path(stack), Over(hs, lvls, i))
  /\ \A j \in 1..Len(stack) : stack[j].level = lvls[stack[j].block]

\* What PushHeading makes of it.
LEMMA PushTyped ==
  ASSUME NEW stack \in Seq(Headings), NEW level \in Nat, NEW i \in Nat
  PROVE  \E t \in 0..Len(stack) :
           /\ C!PushHeading(stack, level, i) = Append(SubSeq(stack, 1, t), [level |-> level, block |-> i])
           /\ C!PushHeading(stack, level, i) \in Seq(Headings)
           /\ t # 0 => stack[t].level < level
           /\ \A k \in 1..Len(stack) : stack[k].level < level => k <= t
PROOF
<1>. DEFINE m == Len(stack)
            f == [k \in 1..m |-> stack[k].level]
            t == Left(m, 0, f, level)
            h == [level |-> level, block |-> i]
<1>1. m \in Nat /\ 0 \in 0..m /\ DOMAIN stack = 1..m
  OBVIOUS
<1>2. f = [k \in DOMAIN stack |-> stack[k].level]
  BY <1>1
<1>3. C!PushHeading(stack, level, i) = Append(C!Popped(stack, 0, f, level), h)
  BY <1>2 DEF C!PushHeading
<1>4. C!PushHeading(stack, level, i) = Append(SubSeq(stack, 1, t), h)
  <2> HIDE DEF f
  <2> QED  BY <1>1, <1>3 DEF C!Popped, Left
<1> HIDE DEF f
<1>5. t \in 0..m /\ (t # 0 => t \in 1..m /\ f[t] < level) /\ \A k \in 1..m : f[k] < level => k <= t
  BY <1>1, LeftIs
<1> HIDE DEF t
<1>6. h \in Headings
  BY DEF Headings
<1>7. SubSeq(stack, 1, t) \in Seq(Headings)
  BY <1>1, <1>5
<1>8. Append(SubSeq(stack, 1, t), h) \in Seq(Headings)
  <2> HIDE DEF h
  <2> QED  BY <1>6, <1>7
<1>9. t # 0 => stack[t].level < level
  BY <1>5 DEF f
<1>10. \A k \in 1..m : stack[k].level < level => k <= t
  BY <1>5 DEF f
<1> QED  BY <1>4, <1>5, <1>8, <1>9, <1>10

\* A heading on the stack.
LEMMA Pushed ==
  ASSUME NEW lvls, NEW hs, NEW N, Levelled(hs, lvls, N), NEW i \in hs, NEW stack,
         Stacked(stack, lvls, hs, i - 1)
  PROVE  LET more == C!PushHeading(stack, lvls[i], i)
         IN Stacked(more, lvls, hs, i) /\ C!Path(more) # << >> /\ C!Last(C!Path(more)) = i
PROOF
<1>. DEFINE more == C!PushHeading(stack, lvls[i], i)
            m == Len(stack)
            o == C!Path(stack)
            h == [level |-> lvls[i], block |-> i]
<1>1. N \in Nat /\ lvls \in [1..N -> Nat] /\ hs \in SUBSET (1..N) /\ i \in 1..N /\ i \in Nat /\ lvls[i] \in Nat
  BY DEF Levelled
<1>2. /\ stack \in Seq(Headings) /\ Orderly(o, Over(hs, lvls, i - 1))
      /\ \A j \in 1..m : stack[j].level = lvls[stack[j].block]
  BY DEF Stacked
<1>3. PICK t \in 0..m :
           /\ more = Append(SubSeq(stack, 1, t), h)
           /\ more \in Seq(Headings)
           /\ t # 0 => stack[t].level < lvls[i]
           /\ \A k \in 1..m : stack[k].level < lvls[i] => k <= t
  BY <1>1, <1>2, PushTyped
<1>4. m \in Nat /\ t \in Nat /\ t <= m
  BY <1>2, <1>3
<1>5. DOMAIN stack = 1..m
  BY <1>2
<1>6. o = [j \in 1..m |-> stack[j].block]
  BY <1>5 DEF C!Path
<1>7. Len(o) = m /\ \A j \in 1..m : o[j] = stack[j].block
  <2>1. o \in Seq(Over(hs, lvls, i - 1)) /\ DOMAIN o = 1..m
    BY <1>2, <1>6 DEF Orderly
  <2>2. Len(o) = m
    <3> HIDE DEF o, m
    <3> QED  BY <1>4, <2>1
  <2> QED  BY <1>6, <2>2
<1>8. /\ Len(more) = t + 1 /\ \A j \in 1..t : more[j] = stack[j] /\ j \in 1..m
      /\ more[t + 1] = h
  <2> HIDE DEF h, more
  <2> QED  BY <1>2, <1>3, <1>4
<1> HIDE DEF h, more, o, m
<1>9. \A j \in 1..(t + 1) : j \in 1..t \/ j = t + 1
  BY <1>4
<1>10. \A j \in 1..Len(more) : more[j].level = lvls[more[j].block]
  BY <1>2, <1>8, <1>9 DEF h
<1>11. C!Path(more) = [j \in 1..(t + 1) |-> more[j].block]
  BY <1>3, <1>8 DEF C!Path
<1>12. \A k \in 1..m : lvls[o[k]] = stack[k].level
  BY <1>2, <1>7
<1>13. Orderly(Append(SubSeq(o, 1, t), i), Over(hs, lvls, i))
  <2>1. t # 0 => lvls[o[t]] < lvls[i]
    <3>1. t # 0 => t \in 1..m
      BY <1>4
    <3> QED  BY <1>3, <1>12, <3>1
  <2>2. \A k \in 1..Len(o) : lvls[o[k]] < lvls[i] => k <= t
    BY <1>3, <1>7, <1>12
  <2>3. t \in 0..Len(o)
    BY <1>3, <1>7
  <2> QED  BY <1>2, <2>1, <2>2, <2>3, OrderCut
<1>. DEFINE p == Append(SubSeq(o, 1, t), i)
<1>14. p \in Seq(Nat) /\ Len(p) = t + 1 /\ (\A j \in 1..t : p[j] = o[j]) /\ p[t + 1] = i
  <2>1. o \in Seq(Over(hs, lvls, i - 1)) /\ Over(hs, lvls, i - 1) \subseteq Nat
    BY <1>1, <1>2, OverIsFinite DEF Orderly
  <2>2. o \in Seq(Nat)
    BY <2>1, SequenceOfMore
  <2>. DEFINE q == SubSeq(o, 1, t)
  <2>3. q \in Seq(Nat) /\ Len(q) = t /\ \A j \in 1..t : q[j] = o[j]
    BY <1>4, <1>7, <2>2
  <2> HIDE DEF q
  <2>4. Append(q, i) \in Seq(Nat) /\ Len(Append(q, i)) = t + 1
        /\ (\A j \in 1..t : Append(q, i)[j] = q[j]) /\ Append(q, i)[t + 1] = i
    BY <1>1, <1>4, <2>3
  <2> QED  BY <2>3, <2>4 DEF q
<1> HIDE DEF p
<1>15. C!Path(more) = p
  <2>1. \A j \in 1..(t + 1) : p[j] = more[j].block
    BY <1>7, <1>8, <1>9, <1>14 DEF h
  <2>2. p = [j \in 1..(t + 1) |-> p[j]]
    BY <1>4, <1>14
  <2> QED  BY <1>11, <2>1, <2>2
<1>16. p # << >> /\ C!Last(p) = i
  <2>1. Len(<< >>) = 0
    OBVIOUS
  <2> QED  BY <1>4, <1>14, <2>1 DEF C!Last
<1>17. Orderly(p, Over(hs, lvls, i))
  BY <1>13 DEF p
<1>18. Stacked(more, lvls, hs, i)
  BY <1>3, <1>10, <1>15, <1>17 DEF Stacked
<1> QED  BY <1>15, <1>16, <1>18 DEF more

\* One more at the end of a buffer.
LEMMA AscendsMore ==
  ASSUME NEW N \in Nat, NEW ids, Ascends(ids, N), NEW i \in 1..N, \A a \in Those(ids) : a < i
  PROVE  Ascends(Append(ids, i), N) /\ Those(Append(ids, i)) = Those(ids) \cup {i}
PROOF
<1>. DEFINE b == Append(ids, i)
            m == Len(ids)
<1>1. ids \in Seq(1..N) /\ \A j, k \in 1..m : j < k => ids[j] < ids[k]
  BY DEF Ascends
<1>2. /\ m \in Nat /\ b \in Seq(1..N) /\ Len(b) = m + 1 /\ b[m + 1] = i
      /\ \A j \in 1..m : b[j] = ids[j] /\ ids[j] \in 1..N
  BY <1>1
<1>3. \A j \in 1..m : ids[j] < i
  BY DEF Those
<1>4. Those(b) = Those(ids) \cup {i}
  BY <1>1, ThoseMore
<1> HIDE DEF b, m
<1>5. \A j \in 1..(m + 1) : j \in 1..m \/ j = m + 1
  BY <1>2
<1>6. ASSUME NEW j \in 1..Len(b), NEW k \in 1..Len(b), j < k PROVE b[j] < b[k]
  <2>1. j \in 1..m
    BY <1>2, <1>6
  <2>2. CASE k \in 1..m
    BY <1>1, <1>2, <1>6, <2>1, <2>2
  <2>3. CASE k = m + 1
    BY <1>2, <1>3, <2>1, <2>3
  <2> QED  BY <1>2, <1>5, <2>2, <2>3
<1>7. Ascends(b, N)
  BY <1>2, <1>6 DEF Ascends
<1> QED  BY <1>4, <1>7 DEF b

\* A table or an image after what is told.
LEMMA AtomicNext ==
  ASSUME NEW blocks, NEW N \in Nat, Blocks(blocks, N), NEW f, NEW z \in SUBSET Nat, NEW good,
         Tells(blocks, f, z), AllIn(f, good), NEW i \in 1..N, blocks[i].kind \in C!AtomicKinds,
         \A a \in z : a < i, NEW section \in AnySection, From(section, {i}) \subseteq good
  PROVE  LET more == Append(f, C!AtomicChunk(blocks, i, section))
         IN Tells(blocks, more, z \cup {i}) /\ AllIn(more, good)
PROOF
<1>. DEFINE c == C!AtomicChunk(blocks, i, section)
            cs == << c >>
<1>1. Tells(blocks, cs, {i}) /\ AllIn(cs, From(section, {i}))
  BY AtomicTold
<1>2. f \in Seq(AnyChunk) /\ cs \in Seq(AnyChunk)
  BY <1>1 DEF Tells, ChunkLists
<1>3. Append(f, c) = f \o cs
  BY <1>2
<1> HIDE DEF c, cs
<1>4. {i} \in SUBSET Nat /\ \A a \in z, b \in {i} : a < b
  OBVIOUS
<1>5. Tells(blocks, f \o cs, z \cup {i})
  BY <1>1, <1>4, TellsBoth
<1>6. AllIn(cs, good)
  BY <1>1 DEF AllIn
<1>7. AllIn(f \o cs, good)
  BY <1>2, <1>6, AllInBoth DEF ChunkLists
<1> QED  BY <1>3, <1>5, <1>7 DEF c

\* What the loop has done with the first i blocks.
Grouped(blocks, lvls, N, hs, bs, i, acc) ==
  /\ acc \in Groups(N)
  /\ Stacked(acc.stack, lvls, hs, i)
  /\ Opened(acc.section, lvls, bs, i)
  /\ Ascends(acc.buffer, N)
  /\ \A b \in Those(acc.buffer) : Over(bs, lvls, b) = Over(bs, lvls, i)
  /\ AllIn(acc.chunks, Placed(lvls, bs))
  /\ Partly(blocks, acc.chunks, Those(acc.buffer), 1..i)

\* With the rest of the section all of them are told.
LEMMA SectionTold ==
  ASSUME NEW blocks, NEW N \in Nat, Blocks(blocks, N), NEW lvls, NEW hs, NEW bs, NEW i \in Nat, NEW acc,
         Grouped(blocks, lvls, N, hs, bs, i, acc), NEW n \in Nat \ {0}
  PROVE  LET cs == C!SectionFlushed(acc, blocks, n)
         IN Tells(blocks, cs, 1..i) /\ AllIn(cs, Placed(lvls, bs))
PROOF
<1>. DEFINE ds == C!TokenChunks(blocks, acc.buffer, n, acc.section)
            x == Those(acc.buffer)
            good == Placed(lvls, bs)
<1>1. /\ acc \in Groups(N) /\ Opened(acc.section, lvls, bs, i) /\ Ascends(acc.buffer, N)
      /\ \A b \in x : Over(bs, lvls, b) = Over(bs, lvls, i)
      /\ AllIn(acc.chunks, good)
  BY DEF Grouped
<1>2. acc.section \in AnySection
  BY <1>1 DEF Opened
<1>3. Tells(blocks, ds, x) /\ AllIn(ds, From(acc.section, x))
  BY <1>1, <1>2, TokensTold
<1>4. From(acc.section, x) \subseteq good
  BY <1>1, FromPlaced
<1>5. PICK y \in SUBSET Nat : /\ Tells(blocks, acc.chunks, y) /\ 1..i = y \cup x
                              /\ \A a \in y, b \in x : a < b
  BY DEF Grouped, Partly
<1>6. x \in SUBSET Nat
  <2>1. x \subseteq 1..i
    BY <1>5
  <2> QED  BY <2>1
<1>7. C!SectionFlushed(acc, blocks, n) = acc.chunks \o ds
  BY DEF C!SectionFlushed
<1> HIDE DEF ds, x, good
<1>8. Tells(blocks, acc.chunks \o ds, y \cup x)
  BY <1>3, <1>5, <1>6, TellsBoth
<1>9. AllIn(ds, good)
  BY <1>3, <1>4 DEF AllIn
<1>10. acc.chunks \in ChunkLists /\ ds \in ChunkLists
  BY <1>3, <1>5 DEF Tells
<1>11. AllIn(acc.chunks \o ds, good)
  BY <1>1, <1>9, <1>10, AllInBoth
<1> QED  BY <1>5, <1>7, <1>8, <1>11 DEF good

\* One more block of the section.
LEMMA SectionGrows ==
  ASSUME NEW blocks, NEW N \in Nat, NEW lvls, NEW hs, NEW bs, NEW i \in 1..N, NEW acc,
         Grouped(blocks, lvls, N, hs, bs, i - 1, acc),
         Over(bs, lvls, i) = Over(bs, lvls, i - 1), NEW stack, Stacked(stack, lvls, hs, i),
         NEW more, more = [acc EXCEPT !.stack = stack, !.buffer = Append(@, i)]
  PROVE  Grouped(blocks, lvls, N, hs, bs, i, more)
PROOF
<1>. DEFINE x == Those(acc.buffer)
            b == Append(acc.buffer, i)
<1>1. /\ acc \in Groups(N) /\ Opened(acc.section, lvls, bs, i - 1) /\ Ascends(acc.buffer, N)
      /\ \A d \in x : Over(bs, lvls, d) = Over(bs, lvls, i - 1)
      /\ AllIn(acc.chunks, Placed(lvls, bs))
  BY DEF Grouped
<1>2. PICK y \in SUBSET Nat : /\ Tells(blocks, acc.chunks, y) /\ 1..(i - 1) = y \cup x
                              /\ \A a \in y, d \in x : a < d
  BY DEF Grouped, Partly
<1>3. \A a \in y \cup x : a < i
  <2>1. \A a \in 1..(i - 1) : a < i
    OBVIOUS
  <2> QED  BY <1>2, <2>1
<1>4. Ascends(b, N) /\ Those(b) = x \cup {i}
  BY <1>1, <1>3, AscendsMore
<1>5. /\ more.chunks = acc.chunks /\ more.buffer = b /\ more.stack = stack /\ more.section = acc.section
      /\ stack \in Seq(Headings)
  BY <1>1 DEF Groups, Stacked
<1>6. more \in Groups(N)
  <2>1. b \in Seq(1..N)
    BY <1>4 DEF Ascends
  <2> HIDE DEF b
  <2>2. more = [acc EXCEPT !.stack = stack, !.buffer = b]
    BY DEF b
  <2> QED  BY <1>1, <1>5, <2>1, <2>2 DEF Groups
<1> HIDE DEF x, b
<1>7. \A d \in Those(b) : Over(bs, lvls, d) = Over(bs, lvls, i)
  BY <1>1, <1>4
<1>8. Partly(blocks, more.chunks, Those(b), 1..i)
  <2>1. 1..i = 1..(i - 1) \cup {i}
    OBVIOUS
  <2>2. 1..i = y \cup Those(b)
    BY <1>2, <1>4, <2>1
  <2>3. \A a \in y, d \in Those(b) : a < d
    BY <1>2, <1>3, <1>4
  <2> QED  BY <1>2, <1>5, <2>2, <2>3 DEF Partly
<1>9. Opened(more.section, lvls, bs, i)
  BY <1>1, <1>5 DEF Opened
<1> QED  BY <1>1, <1>4, <1>5, <1>6, <1>7, <1>8, <1>9 DEF Grouped

\* The next block.
LEMMA GroupNext ==
  ASSUME NEW blocks, NEW lvls, NEW N, NEW target, NEW n, Titled(blocks, lvls, N, target, n),
         NEW i \in 1..N, NEW acc,
         Grouped(blocks, lvls, N, Heads(blocks, lvls, N), Beginnings(blocks, lvls, N, target), i - 1, acc)
  PROVE  Grouped(blocks, lvls, N, Heads(blocks, lvls, N), Beginnings(blocks, lvls, N, target), i,
                 C!AddToSection(acc, i, blocks, lvls, target, n))
PROOF
<1>. DEFINE hs == Heads(blocks, lvls, N)
            bs == Beginnings(blocks, lvls, N, target)
            more == C!AddToSection(acc, i, blocks, lvls, target, n)
            pushed == C!PushHeading(acc.stack, lvls[i], i)
            cs == C!SectionFlushed(acc, blocks, n)
            good == Placed(lvls, bs)
<1>1. /\ N \in Nat /\ Blocks(blocks, N) /\ lvls \in [1..N -> Nat] /\ target \in Nat /\ n \in Nat \ {0}
      /\ i \in Nat /\ i - 1 \in Nat
  BY DEF Titled
<1>2. Levelled(hs, lvls, N) /\ Levelled(bs, lvls, N) /\ Upto(hs, bs, lvls, target)
  BY <1>1 DEF Levelled, Heads, Beginnings, Upto
<1>3. i \in hs <=> lvls[i] # C!BodyLevel /\ blocks[i].size > 0
  BY DEF Heads
<1>4. i \in bs <=> i \in hs /\ lvls[i] <= target
  BY <1>2 DEF Upto
<1> HIDE DEF hs, bs
<1>5. /\ acc \in Groups(N) /\ Stacked(acc.stack, lvls, hs, i - 1) /\ Opened(acc.section, lvls, bs, i - 1)
      /\ Ascends(acc.buffer, N) /\ AllIn(acc.chunks, good)
      /\ Grouped(blocks, lvls, N, hs, bs, i - 1, acc)
  BY DEF Grouped, hs, bs
<1>6. Tells(blocks, cs, 1..(i - 1)) /\ AllIn(cs, good)
  BY <1>1, <1>5, SectionTold
<1>7. cs \in ChunkLists /\ acc.section \in AnySection
  BY <1>5, <1>6 DEF Tells, Opened
<1>8. /\ i \notin hs => Over(hs, lvls, i) = Over(hs, lvls, i - 1)
      /\ i \notin bs => Over(bs, lvls, i) = Over(bs, lvls, i - 1)
  BY <1>2, OverNext
<1>9. i \in hs => Stacked(pushed, lvls, hs, i) /\ C!Path(pushed) # << >> /\ C!Last(C!Path(pushed)) = i
  BY <1>2, <1>5, Pushed
<1>10. 1..i = 1..(i - 1) \cup {i} /\ 1..i \in SUBSET Nat /\ 1..(i - 1) \in SUBSET Nat
  BY <1>1
<1>11. \A a \in 1..(i - 1) : a < i
  BY <1>1
<1> HIDE DEF pushed, cs, good
<1>12. ASSUME i \in bs
       PROVE  Grouped(blocks, lvls, N, hs, bs, i, more)
  <2>. DEFINE section == [path |-> C!Path(pushed), level |-> lvls[i]]
  <2>1. more = [chunks |-> cs, buffer |-> <<i>>, stack |-> pushed, section |-> section]
    BY <1>3, <1>4, <1>12 DEF C!AddToSection, cs, pushed
  <2>2. Orderly(C!Path(pushed), Over(hs, lvls, i)) /\ pushed \in Seq(Headings)
    BY <1>4, <1>9, <1>12 DEF Stacked
  <2>3. Over(hs, lvls, i) = Over(bs, lvls, i)
    BY <1>1, <1>2, <1>4, <1>12, OverTarget
  <2>4. C!Path(pushed) \in Seq(Nat)
    <3>1. C!Path(pushed) \in Seq(Over(hs, lvls, i)) /\ Over(hs, lvls, i) \subseteq Nat
      BY <1>1, <2>2, OverIsFinite DEF Orderly
    <3> QED  BY <3>1, SequenceOfMore
  <2>5. section \in AnySection
    BY <1>1, <2>4 DEF AnySection
  <2>6. Opened(section, lvls, bs, i)
    BY <1>4, <1>9, <1>12, <2>2, <2>3, <2>5 DEF Opened
  <2> HIDE DEF section
  <2>. DEFINE b == <<i>>
  <2>7. Ascends(b, N) /\ Those(b) = {i} /\ b \in Seq(1..N)
    BY DEF Ascends, Those
  <2> HIDE DEF b
  <2>8. more.chunks = cs /\ more.buffer = b /\ more.stack = pushed /\ more.section = section
    BY <2>1 DEF b
  <2>9. more \in Groups(N)
    <3>1. more = [chunks |-> cs, buffer |-> b, stack |-> pushed, section |-> section]
      BY <2>1 DEF b
    <3> QED  BY <1>7, <2>2, <2>6, <2>7, <3>1 DEF Groups, Opened
  <2>10. Partly(blocks, cs, Those(b), 1..i)
    BY <1>6, <1>10, <1>11, <2>7 DEF Partly
  <2>11. \A d \in Those(b) : Over(bs, lvls, d) = Over(bs, lvls, i)
    BY <2>7
  <2>12. Stacked(pushed, lvls, hs, i)
    BY <1>4, <1>9, <1>12
  <2> HIDE DEF more
  <2> QED  BY <1>6, <2>6, <2>7, <2>8, <2>9, <2>10, <2>11, <2>12 DEF Grouped, good
<1>13. ASSUME i \in hs /\ i \notin bs
       PROVE  Grouped(blocks, lvls, N, hs, bs, i, more)
  <2>1. more = [acc EXCEPT !.stack = pushed, !.buffer = Append(@, i)]
    BY <1>3, <1>4, <1>13 DEF C!AddToSection, pushed
  <2> HIDE DEF more
  <2> QED  BY <1>1, <1>5, <1>8, <1>9, <1>13, <2>1, SectionGrows
<1>14. ASSUME i \notin hs /\ blocks[i].kind \notin C!AtomicKinds
       PROVE  Grouped(blocks, lvls, N, hs, bs, i, more)
  <2>1. more = [acc EXCEPT !.buffer = Append(@, i)]
    BY <1>3, <1>14 DEF C!AddToSection
  <2>2. more = [acc EXCEPT !.stack = acc.stack, !.buffer = Append(@, i)]
    BY <1>5, <2>1 DEF Groups
  <2>3. Stacked(acc.stack, lvls, hs, i)
    BY <1>5, <1>8, <1>14 DEF Stacked
  <2>4. i \notin bs
    BY <1>4, <1>14
  <2> HIDE DEF more
  <2> QED  BY <1>1, <1>5, <1>8, <2>2, <2>3, <2>4, SectionGrows
<1>15. ASSUME i \notin hs /\ blocks[i].kind \in C!AtomicKinds
       PROVE  Grouped(blocks, lvls, N, hs, bs, i, more)
  <2>. DEFINE ds == Append(cs, C!AtomicChunk(blocks, i, acc.section))
  <2>1. more = [acc EXCEPT !.chunks = ds, !.buffer = << >>]
    BY <1>3, <1>15 DEF C!AddToSection, cs
  <2>2. i \notin bs
    BY <1>4, <1>15
  <2>3. Opened(acc.section, lvls, bs, i)
    BY <1>5, <1>8, <2>2 DEF Opened
  <2>4. From(acc.section, {i}) \subseteq good
    BY <1>1, <2>3, FromPlaced DEF good
  <2>5. Tells(blocks, ds, 1..(i - 1) \cup {i}) /\ AllIn(ds, good)
    <3>. DEFINE z == 1..(i - 1)
    <3>1. z \in SUBSET Nat /\ Tells(blocks, cs, z) /\ \A a \in z : a < i
      BY <1>6, <1>10, <1>11
    <3>2. blocks[i].kind \in C!AtomicKinds
      BY <1>15
    <3> HIDE DEF z
    <3>3. Tells(blocks, ds, z \cup {i}) /\ AllIn(ds, good)
      BY <1>1, <1>6, <1>7, <2>4, <3>1, <3>2, AtomicNext
    <3> QED  BY <3>3 DEF z
  <2> HIDE DEF ds
  <2>6. ds \in ChunkLists
    BY <2>5 DEF Tells
  <2>7. Ascends(<< >>, N) /\ Those(<< >>) = {} /\ << >> \in Seq(1..N)
    BY DEF Ascends, Those
  <2>8. /\ more.chunks = ds /\ more.buffer = << >> /\ more.stack = acc.stack /\ more.section = acc.section
        /\ more \in Groups(N)
    BY <1>5, <2>1, <2>6, <2>7 DEF Groups
  <2>9. Partly(blocks, ds, {}, 1..i)
    BY <1>10, <2>5 DEF Partly
  <2>10. Stacked(acc.stack, lvls, hs, i)
    BY <1>5, <1>8, <1>15 DEF Stacked
  <2> HIDE DEF more
  <2> QED  BY <2>3, <2>5, <2>7, <2>8, <2>9, <2>10 DEF Grouped, good
<1> HIDE DEF more
<1>16. Grouped(blocks, lvls, N, hs, bs, i, more)
  BY <1>4, <1>12, <1>13, <1>14, <1>15
<1> QED  BY <1>16 DEF more, hs, bs

\* AddToSection keeps the record.
LEMMA GroupTyped ==
  ASSUME NEW blocks, NEW lvls, NEW N, NEW target, NEW n, Titled(blocks, lvls, N, target, n),
         NEW i \in 1..N, NEW acc \in Groups(N)
  PROVE  C!AddToSection(acc, i, blocks, lvls, target, n) \in Groups(N)
PROOF
<1>. DEFINE more == C!AddToSection(acc, i, blocks, lvls, target, n)
            pushed == C!PushHeading(acc.stack, lvls[i], i)
            cs == C!SectionFlushed(acc, blocks, n)
            b == Append(acc.buffer, i)
            section == [path |-> C!Path(pushed), level |-> lvls[i]]
            c == C!AtomicChunk(blocks, i, acc.section)
            ds == Append(cs, c)
<1>1. /\ N \in Nat /\ Blocks(blocks, N) /\ lvls \in [1..N -> Nat] /\ n \in Nat \ {0} /\ i \in Nat
      /\ lvls[i] \in Nat
  BY DEF Titled
<1>2. acc.chunks \in ChunkLists /\ acc.buffer \in Seq(1..N) /\ acc.stack \in Seq(Headings)
      /\ acc.section \in AnySection
  BY DEF Groups
<1>3. pushed \in Seq(Headings)
  BY <1>1, <1>2, PushTyped
<1>4. cs \in ChunkLists
  <2>. DEFINE es == C!TokenChunks(blocks, acc.buffer, n, acc.section)
  <2>1. es \in ChunkLists
    BY <1>1, <1>2, TokenTyped
  <2>2. cs = acc.chunks \o es
    BY DEF C!SectionFlushed
  <2> HIDE DEF es, cs
  <2> QED  BY <1>2, <2>1, <2>2 DEF ChunkLists
<1> HIDE DEF pushed, cs
<1>5. section \in AnySection
  <2>1. C!Path(pushed) \in Seq(Nat)
    <3>. DEFINE m == Len(pushed)
    <3>1. m \in Nat /\ DOMAIN pushed = 1..m /\ \A j \in 1..m : pushed[j] \in Headings
      BY <1>3
    <3>2. \A j \in 1..m : pushed[j].block \in Nat
      BY <3>1 DEF Headings
    <3> HIDE DEF m
    <3>3. C!Path(pushed) \in [1..m -> Nat]
      BY <3>1, <3>2 DEF C!Path
    <3> QED  BY <3>1, <3>3, MadeIsSequence
  <2> QED  BY <1>1, <2>1 DEF AnySection
<1> HIDE DEF section
<1>6. b \in Seq(1..N) /\ <<i>> \in Seq(1..N) /\ << >> \in Seq(1..N)
  BY <1>2
<1> HIDE DEF b
<1>. DEFINE d == <<i>>
            e == << >>
<1>7. d \in Seq(1..N) /\ e \in Seq(1..N)
  BY <1>6
<1> HIDE DEF d, e
<1>8. CASE lvls[i] # C!BodyLevel /\ blocks[i].size > 0 /\ lvls[i] <= target
  <2>1. more = [chunks |-> cs, buffer |-> d, stack |-> pushed, section |-> section]
    BY <1>8 DEF C!AddToSection, cs, pushed, section, d
  <2> QED  BY <1>3, <1>4, <1>5, <1>7, <2>1 DEF Groups
<1>9. CASE lvls[i] # C!BodyLevel /\ blocks[i].size > 0 /\ ~(lvls[i] <= target)
  <2>1. more = [acc EXCEPT !.stack = pushed, !.buffer = b]
    BY <1>9 DEF C!AddToSection, pushed, b
  <2> QED  BY <1>3, <1>6, <2>1 DEF Groups
<1>10. CASE ~(lvls[i] # C!BodyLevel /\ blocks[i].size > 0) /\ blocks[i].kind \notin C!AtomicKinds
  <2>1. more = [acc EXCEPT !.buffer = b]
    BY <1>10 DEF C!AddToSection, b
  <2> QED  BY <1>6, <2>1 DEF Groups
<1>11. CASE ~(lvls[i] # C!BodyLevel /\ blocks[i].size > 0) /\ blocks[i].kind \in C!AtomicKinds
  <2>1. more = [acc EXCEPT !.chunks = ds, !.buffer = e]
    BY <1>11 DEF C!AddToSection, cs, e
  <2>2. ds \in ChunkLists
    <3>1. Tells(blocks, <<c>>, {i})
      BY <1>1, <1>2, <1>11, AtomicTold
    <3>2. <<c>> \in ChunkLists
      BY <3>1 DEF Tells
    <3> HIDE DEF c
    <3>3. c \in AnyChunk
      <4>1. <<c>>[1] \in AnyChunk
        BY <3>2 DEF ChunkLists
      <4> QED  BY <4>1
    <3> QED  BY <1>4, <3>3 DEF ChunkLists
  <2> HIDE DEF ds
  <2> QED  BY <1>7, <2>1, <2>2 DEF Groups
<1> QED  BY <1>8, <1>9, <1>10, <1>11

\* Before the first block.
NoGroups == [chunks |-> << >>, buffer |-> << >>, stack |-> << >>, section |-> C!Root]

\* The loop of the group chunker.
GroupLoop(blocks, lvls, target, n) ==
  C!FoldLeft(LAMBDA acc, i : C!AddToSection(acc, i, blocks, lvls, target, n), NoGroups, C!Ids(blocks))

\* What it has done, block after block.
LEMMA GroupsAre ==
  ASSUME NEW blocks, NEW lvls, NEW N, NEW target, NEW n, Titled(blocks, lvls, N, target, n)
  PROVE  \E f \in [0..N -> Groups(N)] :
           /\ f[0] = NoGroups
           /\ \A i \in 1..N : f[i] = C!AddToSection(f[i - 1], C!Ids(blocks)[i], blocks, lvls, target, n)
           /\ f[N] = GroupLoop(blocks, lvls, target, n)
PROOF
<1>. DEFINE st == [i \in 1..N |-> [a \in Groups(N) |-> C!AddToSection(a, C!Ids(blocks)[i], blocks, lvls, target, n)]]
            F(it, s) == IF s = {} THEN NoGroups ELSE C!AddToSection(it[s \ {Top(s)}], C!Ids(blocks)[Top(s)], blocks, lvls, target, n)
            iter == CHOOSE it : it = [s \in SUBSET (1..N) |-> F(it, s)]
<1>0. /\ N \in Nat /\ Blocks(blocks, N) /\ lvls \in [1..N -> Nat] /\ target \in Nat /\ n \in Nat \ {0}
  BY DEF Titled
<1>1. GroupLoop(blocks, lvls, target, n) = iter[1..N]
  <2>1. DOMAIN C!Ids(blocks) = 1..N
    BY <1>0 DEF C!Ids, Blocks
  <2> QED  BY <2>1 DEF GroupLoop, C!FoldLeft, C!MapThenFoldSet, Top
<1>2. \A i \in 1..N : \A a \in Groups(N) : st[i][a] = C!AddToSection(a, C!Ids(blocks)[i], blocks, lvls, target, n) /\ st[i][a] \in Groups(N)
  <2>1. \A i \in 1..N : C!Ids(blocks)[i] \in 1..N
    BY <1>0 DEF C!Ids, Blocks
  <2> QED  BY <2>1, GroupTyped
<1>3. NoGroups \in Groups(N)
  BY DEF Groups, ChunkLists, NoGroups, C!Root, AnySection
<1> HIDE DEF st
<1>4. Keep(st, Groups(N), N)
  BY <1>2 DEF Keep
<1>5. \E it : it = [s \in SUBSET (1..N) |-> F(it, s)]
  <2>1. PICK it : Iterates(it, Groups(N), NoGroups, N, st)
    BY <1>0, <1>3, <1>4, FoldTyped
  <2>2. ASSUME NEW s \in SUBSET (1..N)
        PROVE  it[s] = F(it, s)
    <3>1. s \ {Top(s)} \in SUBSET (1..N)
      OBVIOUS
    <3> QED  BY <1>0, <1>2, <2>1, <3>1, TopIs DEF Iterates
  <2> HIDE DEF F
  <2>3. it = [s \in SUBSET (1..N) |-> F(it, s)]
    BY <2>1, <2>2 DEF Iterates
  <2> QED  BY <2>3
<1>6. iter = [s \in SUBSET (1..N) |-> F(iter, s)]
  <2> HIDE DEF F
  <2> QED  BY <1>5
<1> HIDE DEF iter
<1>7. \A s \in SUBSET (1..N) : iter[s] = F(iter, s)
  <2> HIDE DEF F
  <2> QED  BY <1>6
<1>8. Goes(iter, Groups(N), NoGroups, N, st)
  <2>1. iter[{}] = NoGroups
    BY <1>7
  <2>2. ASSUME NEW s \in SUBSET (1..N), s # {}, iter[s \ {Top(s)}] \in Groups(N)
        PROVE  iter[s] = st[Top(s)][iter[s \ {Top(s)}]]
    <3>1. Top(s) \in 1..N
      BY <1>0, <2>2, TopIs
    <3>2. iter[s] = C!AddToSection(iter[s \ {Top(s)}], C!Ids(blocks)[Top(s)], blocks, lvls, target, n)
      BY <1>7, <2>2
    <3> QED  BY <1>2, <2>2, <3>1, <3>2
  <2> QED  BY <2>1, <2>2 DEF Goes
<1>9. PICK f : IsWay(f, Groups(N), NoGroups, N, st) /\ f[N] = iter[1..N]
  BY <1>0, <1>3, <1>4, <1>8, FoldWay
<1>10. ASSUME NEW i \in 1..N
       PROVE  f[i] = C!AddToSection(f[i - 1], C!Ids(blocks)[i], blocks, lvls, target, n)
  <2>1. i - 1 \in 0..N
    BY <1>0
  <2>2. f[i - 1] \in Groups(N) /\ f[i] = st[i][f[i - 1]]
    BY <1>9, <2>1 DEF IsWay
  <2> QED  BY <1>2, <2>2
<1> QED  BY <1>1, <1>9, <1>10 DEF IsWay

\* GroupTitleChunker.chunk tells all blocks, each under its headings.
LEMMA GroupTold ==
  ASSUME NEW blocks, NEW lvls, NEW N, NEW target, NEW n, Titled(blocks, lvls, N, target, n)
  PROVE  LET cs == C!GroupChunks(blocks, lvls, target, n)
         IN Tells(blocks, cs, 1..N) /\ AllIn(cs, Placed(lvls, Beginnings(blocks, lvls, N, target)))
PROOF
<1>. DEFINE acc == GroupLoop(blocks, lvls, target, n)
            hs == Heads(blocks, lvls, N)
            bs == Beginnings(blocks, lvls, N, target)
<1>1. N \in Nat /\ Blocks(blocks, N) /\ lvls \in [1..N -> Nat] /\ n \in Nat \ {0}
  BY DEF Titled
<1>2. PICK f \in [0..N -> Groups(N)] :
           /\ f[0] = NoGroups
           /\ \A i \in 1..N : f[i] = C!AddToSection(f[i - 1], C!Ids(blocks)[i], blocks, lvls, target, n)
           /\ f[N] = acc
  <2> HIDE DEF acc
  <2>1. acc = GroupLoop(blocks, lvls, target, n)
    BY DEF acc
  <2>2. \E f \in [0..N -> Groups(N)] :
           /\ f[0] = NoGroups
           /\ \A i \in 1..N : f[i] = C!AddToSection(f[i - 1], C!Ids(blocks)[i], blocks, lvls, target, n)
           /\ f[N] = GroupLoop(blocks, lvls, target, n)
    BY GroupsAre
  <2> QED  BY <2>1, <2>2
<1>3. \A i \in 1..N : C!Ids(blocks)[i] = i
  BY <1>1 DEF Blocks, C!Ids
<1>4. C!GroupChunks(blocks, lvls, target, n) = C!SectionFlushed(acc, blocks, n)
  BY DEF C!GroupChunks, GroupLoop, NoGroups
<1> HIDE DEF acc, hs, bs
<1>. DEFINE Z == {k \in Nat : k <= N => Grouped(blocks, lvls, N, hs, bs, k, f[k])}
<1>5. 0 \in Z
  <2>. DEFINE e == << >>
              r == C!Root
  <2>1. Over(hs, lvls, 0) = {} /\ Over(bs, lvls, 0) = {} /\ 1..0 = {}
    BY OverNone
  <2>2. Orderly(e, {}) /\ e \in Seq(Headings) /\ Len(e) = 0 /\ e \in Seq(Nat) /\ C!Path(e) = e
    BY DEF Orderly, C!Path
  <2>3. Stacked(e, lvls, hs, 0)
    <3> HIDE DEF e
    <3> QED  BY <2>1, <2>2 DEF Stacked
  <2>4. Opened(r, lvls, bs, 0)
    <3>1. r.path = e /\ r \in AnySection
      BY DEF AnySection, C!Root
    <3>2. r.path = << >>
      BY <3>1
    <3> HIDE DEF e, r
    <3> QED  BY <2>1, <2>2, <3>1, <3>2 DEF Opened
  <2>5. Ascends(e, N) /\ Those(e) = {} /\ AllIn(e, Placed(lvls, bs))
    BY DEF Ascends, Those, AllIn
  <2>6. Partly(blocks, e, {}, 1..0)
    <3>1. Tells(blocks, e, {})
      BY TellsNone
    <3> HIDE DEF e
    <3>2. {} \in SUBSET Nat
      OBVIOUS
    <3> QED  BY <2>1, <3>1, <3>2 DEF Partly
  <2>. DEFINE g == NoGroups
  <2>7. g \in Groups(N) /\ g.chunks = e /\ g.buffer = e /\ g.stack = e /\ g.section = r
    BY DEF Groups, ChunkLists, NoGroups, C!Root, AnySection
  <2> HIDE DEF e, r, g
  <2>8. Grouped(blocks, lvls, N, hs, bs, 0, g)
    BY <2>3, <2>4, <2>5, <2>6, <2>7 DEF Grouped
  <2> QED  BY <1>2, <2>8 DEF g
<1>6. ASSUME NEW k \in Z PROVE k + 1 \in Z
  <2>. SUFFICES ASSUME k + 1 <= N PROVE Grouped(blocks, lvls, N, hs, bs, k + 1, f[k + 1])
    OBVIOUS
  <2>1. k \in Nat /\ k + 1 \in 1..N /\ (k + 1) - 1 = k /\ k <= N
    BY <1>1
  <2>2. Grouped(blocks, lvls, N, hs, bs, k, f[k])
    BY <2>1
  <2>3. f[k + 1] = C!AddToSection(f[k], k + 1, blocks, lvls, target, n)
    BY <1>2, <1>3, <2>1
  <2>. DEFINE j == k + 1
  <2>4. j \in 1..N /\ j - 1 = k
    BY <2>1
  <2> HIDE DEF j
  <2>5. Grouped(blocks, lvls, N, hs, bs, j - 1, f[k])
    BY <2>2, <2>4
  <2>6. Grouped(blocks, lvls, N, hs, bs, j, C!AddToSection(f[k], j, blocks, lvls, target, n))
    BY <2>4, <2>5, GroupNext DEF hs, bs
  <2> QED  BY <2>3, <2>6 DEF j
<1>7. Z \in SUBSET Nat
  OBVIOUS
<1> HIDE DEF Z
<1>8. N \in Z /\ N <= N
  <2>1. Z = Nat
    BY <1>5, <1>6, <1>7, NatSetInduction
  <2> QED  BY <1>1, <2>1
<1>9. Grouped(blocks, lvls, N, hs, bs, N, acc)
  BY <1>2, <1>8 DEF Z
<1>10. Tells(blocks, C!SectionFlushed(acc, blocks, n), 1..N)
       /\ AllIn(C!SectionFlushed(acc, blocks, n), Placed(lvls, bs))
  BY <1>1, <1>9, SectionTold
<1> QED  BY <1>4, <1>10 DEF bs

-----------------------------------------------------------------------------
(* The tree of headings.                                                   *)

\* A heading has below it what is below its own headings.
LEMMA OverOver ==
  ASSUME NEW bs, NEW lvls, NEW N, Levelled(bs, lvls, N), NEW x \in 0..N, NEW h \in Over(bs, lvls, x)
  PROVE  \A g : g \in Over(bs, lvls, h) <=> g \in Over(bs, lvls, x) /\ g <= h
PROOF
<1>1. N \in Nat /\ lvls \in [1..N -> Nat] /\ bs \in SUBSET (1..N) /\ x \in Nat
  BY DEF Levelled
<1>2. h \in 1..x /\ h \in bs /\ \A j \in (h + 1)..x : j \in bs => lvls[j] > lvls[h]
  BY DEF Over
<1>3. h \in Nat /\ h <= x /\ \A j \in bs : lvls[j] \in Nat
  BY <1>1, <1>2
<1>4. ASSUME NEW g \in Over(bs, lvls, h) PROVE g \in Over(bs, lvls, x) /\ g <= h
  <2>1. g \in 1..h /\ g \in bs /\ \A j \in (g + 1)..h : j \in bs => lvls[j] > lvls[g]
    BY DEF Over
  <2>2. CASE g = h
    BY <1>3, <2>2
  <2>3. CASE g # h
    <3>1. h \in (g + 1)..h
      BY <1>3, <2>1, <2>3
    <3>2. lvls[h] > lvls[g]
      BY <1>2, <2>1, <3>1
    <3>3. ASSUME NEW j \in (g + 1)..x, j \in bs PROVE lvls[j] > lvls[g]
      <4>1. j \in (g + 1)..h \/ j \in (h + 1)..x
        BY <1>3, <2>1
      <4>2. CASE j \in (g + 1)..h
        BY <2>1, <3>3, <4>2
      <4>3. CASE j \in (h + 1)..x
        <5>1. lvls[j] > lvls[h]
          BY <1>2, <3>3, <4>3
        <5> QED  BY <1>2, <1>3, <2>1, <3>2, <3>3, <5>1
      <4> QED  BY <4>1, <4>2, <4>3
    <3>4. g \in 1..x
      BY <1>3, <2>1
    <3>5. g \in Over(bs, lvls, x)
      BY <2>1, <3>3, <3>4 DEF Over
    <3> QED  BY <1>3, <2>1, <3>5
  <2> QED  BY <2>2, <2>3
<1>5. ASSUME NEW g \in Over(bs, lvls, x), g <= h PROVE g \in Over(bs, lvls, h)
  <2>1. g \in 1..x /\ g \in bs /\ \A j \in (g + 1)..x : j \in bs => lvls[j] > lvls[g]
    BY DEF Over
  <2>2. g \in 1..h /\ \A j \in (g + 1)..h : j \in (g + 1)..x
    BY <1>3, <1>5, <2>1
  <2> QED  BY <2>1, <2>2 DEF Over
<1> QED  BY <1>4, <1>5

\* A block stands directly under a heading, or under none.
Home(bs, lvls, t, b) ==
  /\ t = 0 \/ (t \in Over(bs, lvls, b) /\ t # b)
  /\ \A h \in Over(bs, lvls, b) : h = b \/ h <= t

\* Only under one.
LEMMA OneHome ==
  ASSUME NEW bs, NEW lvls, NEW s \in Nat, NEW t \in Nat, NEW b \in Nat,
         Home(bs, lvls, s, b), Home(bs, lvls, t, b)
  PROVE  s = t
PROOF
<1>1. s <= t
  <2>1. s = 0 \/ (s \in Over(bs, lvls, b) /\ s # b)
    BY DEF Home
  <2> QED  BY <2>1 DEF Home
<1>2. t <= s
  <2>1. t = 0 \/ (t \in Over(bs, lvls, b) /\ t # b)
    BY DEF Home
  <2> QED  BY <2>1 DEF Home
<1> QED  BY <1>1, <1>2

\* The last heading of a path.
Tip(path) == IF path = << >> THEN 0 ELSE C!Last(path)

\* It is a number of the path, and no other one is greater.
LEMMA TipIs ==
  ASSUME NEW path \in Seq(Nat), \A j, k \in 1..Len(path) : j < k => path[j] < path[k]
  PROVE  /\ Tip(path) \in Nat
         /\ Tip(path) # 0 => \E j \in 1..Len(path) : path[j] = Tip(path)
         /\ \A j \in 1..Len(path) : path[j] <= Tip(path)
PROOF
<1>. DEFINE m == Len(path)
<1>1. m \in Nat /\ \A j \in 1..m : path[j] \in Nat
  OBVIOUS
<1>2. CASE path = << >>
  <2>1. m = 0 /\ Tip(path) = 0
    BY <1>2 DEF Tip
  <2> QED  BY <2>1
<1>3. CASE path # << >>
  <2>1. m # 0
    BY <1>3
  <2>2. m \in 1..m /\ \A j \in 1..m : j = m \/ j < m
    BY <1>1, <2>1
  <2>3. Tip(path) = path[m]
    BY <1>3 DEF Tip, C!Last
  <2> HIDE DEF m
  <2>4. \A j \in 1..m : path[j] <= path[m]
    BY <1>1, <2>2 DEF m
  <2> QED  BY <1>1, <2>2, <2>3, <2>4 DEF m
<1> QED  BY <1>2, <1>3

\* What a block stands under is the last of the headings above it.
LEMMA HomeOf ==
  ASSUME NEW bs, NEW lvls, NEW i \in Nat, NEW p \in Seq(Nat),
         \/ i \notin bs /\ Orderly(p, Over(bs, lvls, i))
         \/ Orderly(Append(p, i), Over(bs, lvls, i))
  PROVE  Home(bs, lvls, Tip(p), i) /\ Tip(p) \in Nat
PROOF
<1>. DEFINE z == Over(bs, lvls, i)
            m == Len(p)
            q == Append(p, i)
<1>1. m \in Nat /\ \A j \in 1..m : p[j] \in Nat
  OBVIOUS
<1>2. q \in Seq(Nat) /\ Len(q) = m + 1 /\ (\A j \in 1..m : q[j] = p[j]) /\ q[m + 1] = i
  OBVIOUS
<1>3. z \subseteq 1..i /\ z \subseteq bs
  BY OverIsFinite
<1> HIDE DEF z, m, q
<1>4. /\ \A j, k \in 1..m : j < k => p[j] < p[k]
      /\ \A j \in 1..m : p[j] \in z /\ p[j] # i
      /\ \A h \in z : h = i \/ \E j \in 1..m : p[j] = h
  <2>1. CASE i \notin bs /\ Orderly(p, z)
    <3>1. \A j \in 1..m : p[j] \in z
      BY <2>1 DEF Orderly, m
    <3> QED  BY <1>3, <2>1, <3>1 DEF Orderly, m
  <2>2. CASE Orderly(q, z)
    <3>1. /\ q \in Seq(z) /\ \A j, k \in 1..(m + 1) : j < k => q[j] < q[k]
          /\ \A h \in z : \E j \in 1..(m + 1) : q[j] = h
      BY <1>2, <2>2 DEF Orderly
    <3>2. \A j \in 1..m : j \in 1..(m + 1) /\ j < m + 1
      BY <1>1
    <3>3. m + 1 \in 1..(m + 1) /\ \A j \in 1..(m + 1) : j \in 1..m \/ j = m + 1
      BY <1>1
    <3>4. \A j \in 1..m : p[j] \in z
      <4>1. \A j \in 1..(m + 1) : q[j] \in z
        BY <1>2, <3>1
      <4> QED  BY <1>2, <3>2, <4>1
    <3>5. \A j \in 1..m : p[j] < i
      BY <1>2, <3>1, <3>2, <3>3
    <3>6. \A j \in 1..m : p[j] # i
      BY <1>1, <3>5
    <3>7. \A j, k \in 1..m : j < k => p[j] < p[k]
      BY <1>2, <3>1, <3>2
    <3>8. \A h \in z : h = i \/ \E j \in 1..m : p[j] = h
      BY <1>2, <3>1, <3>3
    <3> QED  BY <3>4, <3>6, <3>7, <3>8
  <2> QED  BY <2>1, <2>2 DEF z, q
<1>5. /\ Tip(p) \in Nat
      /\ Tip(p) # 0 => \E j \in 1..m : p[j] = Tip(p)
      /\ \A j \in 1..m : p[j] <= Tip(p)
  BY <1>4, TipIs DEF m
<1>6. Tip(p) = 0 \/ (Tip(p) \in z /\ Tip(p) # i)
  BY <1>4, <1>5
<1>7. \A h \in z : h = i \/ h <= Tip(p)
  BY <1>4, <1>5
<1> QED  BY <1>5, <1>6, <1>7 DEF Home, z

Leaves == [block : Nat, node : Nat]

TreeNodes == [section : AnySection, items : Seq(Leaves)]

\* The nodes so far and those that are open; there is always one.
Trees ==
  {a \in [stack : Seq(Nat), nodes : Seq(TreeNodes)] :
     /\ Len(a.stack) >= 1
     /\ \A j \in 1..Len(a.stack) : a.stack[j] \in 1..Len(a.nodes)}

\* An item is new at one of the nodes.
Hung(old, new, s, item) ==
  \A m \in 1..Len(old) :
    /\ new[m].section = old[m].section
    /\ new[m].items = IF m = s THEN Append(old[m].items, item) ELSE old[m].items

\* Nodes with one more item.
LEMMA HungIs ==
  ASSUME NEW nodes \in Seq(TreeNodes), NEW s \in 1..Len(nodes), NEW item \in Leaves
  PROVE  LET more == [nodes EXCEPT ![s].items = Append(@, item)]
         IN more \in Seq(TreeNodes) /\ Len(more) = Len(nodes) /\ Hung(nodes, more, s, item)
PROOF
<1>. DEFINE m == Len(nodes)
            v == [nodes[s] EXCEPT !.items = Append(@, item)]
            more == [nodes EXCEPT ![s].items = Append(@, item)]
<1>1. m \in Nat /\ nodes \in [1..m -> TreeNodes] /\ \A k \in 1..m : nodes[k] \in TreeNodes
  OBVIOUS
<1>2. nodes[s].items \in Seq(Leaves) /\ nodes[s] \in TreeNodes
  BY <1>1 DEF TreeNodes
<1>3. Append(nodes[s].items, item) \in Seq(Leaves)
  BY <1>2
<1>. DEFINE its == Append(nodes[s].items, item)
<1>4. v = [nodes[s] EXCEPT !.items = its]
  OBVIOUS
<1> HIDE DEF its
<1>5. v \in TreeNodes /\ v.section = nodes[s].section /\ v.items = its
  BY <1>2, <1>3, <1>4 DEF TreeNodes, its
<1>6. more = [nodes EXCEPT ![s] = v]
  OBVIOUS
<1> HIDE DEF more, v, m
<1>7. more \in [1..m -> TreeNodes] /\ \A k \in 1..m : more[k] = IF k = s THEN v ELSE nodes[k]
  BY <1>1, <1>5, <1>6
<1>8. more \in Seq(TreeNodes) /\ Len(more) = m
  BY <1>1, <1>7, MadeIsSequence
<1>9. Hung(nodes, more, s, item)
  BY <1>5, <1>7 DEF Hung, m, its
<1> QED  BY <1>8, <1>9 DEF more, m

\* A block that begins no section.
LEMMA TreeBlock ==
  ASSUME NEW acc \in Trees, NEW i \in Nat, NEW blocks, NEW lvls, NEW target,
         lvls[i] = C!BodyLevel \/ blocks[i].size = 0 \/ lvls[i] > target
  PROVE  LET more == C!AddToTree(acc, i, blocks, lvls, target)
         IN /\ more \in Trees /\ more.stack = acc.stack /\ Len(more.nodes) = Len(acc.nodes)
            /\ Hung(acc.nodes, more.nodes, acc.stack[Len(acc.stack)], C!Item(i, 0))
PROOF
<1>. DEFINE more == C!AddToTree(acc, i, blocks, lvls, target)
            s == acc.stack[Len(acc.stack)]
            item == C!Item(i, 0)
            nodes == [acc.nodes EXCEPT ![s].items = Append(@, item)]
<1>1. /\ acc \in [stack : Seq(Nat), nodes : Seq(TreeNodes)] /\ Len(acc.stack) >= 1
      /\ \A j \in 1..Len(acc.stack) : acc.stack[j] \in 1..Len(acc.nodes)
  BY DEF Trees
<1>2. acc.stack \in Seq(Nat) /\ acc.nodes \in Seq(TreeNodes)
  BY <1>1
<1>3. Len(acc.stack) \in 1..Len(acc.stack)
  <2>1. Len(acc.stack) \in Nat
    BY <1>2
  <2> QED  BY <1>1, <2>1
<1>4. s \in 1..Len(acc.nodes)
  BY <1>1, <1>3
<1>5. item \in Leaves
  BY DEF Leaves, C!Item
<1>6. more = [acc EXCEPT !.nodes[s].items = Append(@, item)]
  BY DEF C!AddToTree, C!Last
<1>7. more = [acc EXCEPT !.nodes = nodes]
  BY <1>1, <1>6
<1>8. nodes \in Seq(TreeNodes) /\ Len(nodes) = Len(acc.nodes) /\ Hung(acc.nodes, nodes, s, item)
  <2> HIDE DEF s, item
  <2> QED  BY <1>2, <1>4, <1>5, HungIs
<1> HIDE DEF nodes, more
<1>9. more.stack = acc.stack /\ more.nodes = nodes /\ more \in [stack : Seq(Nat), nodes : Seq(TreeNodes)]
  BY <1>1, <1>2, <1>7, <1>8
<1>10. more \in Trees
  BY <1>1, <1>8, <1>9 DEF Trees
<1> QED  BY <1>8, <1>9, <1>10 DEF more

\* A new node is open below those that are left open.
Opens(acc, more, t, i, level) ==
  LET s == acc.stack[t]
      m == Len(acc.nodes)
  IN /\ more.stack = Append(SubSeq(acc.stack, 1, t), m + 1)
     /\ Len(more.nodes) = m + 1
     /\ Hung(acc.nodes, more.nodes, s, C!Item(i, m + 1))
     /\ more.nodes[m + 1].section = [path |-> Append(acc.nodes[s].section.path, i), level |-> level]
     /\ more.nodes[m + 1].items = << >>

\* A heading that begins a section.
LEMMA TreeHeading ==
  ASSUME NEW acc \in Trees, NEW i \in Nat, NEW blocks, NEW lvls, NEW target, lvls[i] \in Nat,
         ~(lvls[i] = C!BodyLevel \/ blocks[i].size = 0 \/ lvls[i] > target)
  PROVE  LET more == C!AddToTree(acc, i, blocks, lvls, target)
         IN \E t \in 1..Len(acc.stack) :
              /\ more \in Trees
              /\ Opens(acc, more, t, i, lvls[i])
              /\ t # 1 => acc.nodes[acc.stack[t]].section.level < lvls[i]
              /\ \A k \in 1..Len(acc.stack) : acc.nodes[acc.stack[k]].section.level < lvls[i] => k <= t
PROOF
<1>. DEFINE more == C!AddToTree(acc, i, blocks, lvls, target)
            l == Len(acc.stack)
            f == [k \in 1..l |-> acc.nodes[acc.stack[k]].section.level]
            t == Left(l, 1, f, lvls[i])
            kept == SubSeq(acc.stack, 1, t)
            m == Len(acc.nodes)
            s == acc.stack[t]
            item == C!Item(i, m + 1)
            section == [path |-> Append(acc.nodes[s].section.path, i), level |-> lvls[i]]
            hung == [acc.nodes EXCEPT ![s].items = Append(@, item)]
            stack == Append(kept, m + 1)
            node == [section |-> section, items |-> << >>]
            nodes == Append(hung, node)
<1>1. /\ acc \in [stack : Seq(Nat), nodes : Seq(TreeNodes)] /\ l >= 1
      /\ \A j \in 1..l : acc.stack[j] \in 1..m
  BY DEF Trees
<1>2. acc.stack \in Seq(Nat) /\ acc.nodes \in Seq(TreeNodes)
  BY <1>1
<1>3. l \in Nat /\ m \in Nat /\ DOMAIN acc.stack = 1..l /\ 1 \in 0..l
  BY <1>1, <1>2
<1>4. f = [k \in DOMAIN acc.stack |-> acc.nodes[acc.stack[k]].section.level]
  BY <1>3
<1>5. C!Popped(acc.stack, 1, [k \in DOMAIN acc.stack |-> acc.nodes[acc.stack[k]].section.level], lvls[i]) = kept
  <2> HIDE DEF f
  <2> QED  BY <1>3, <1>4 DEF C!Popped, Left
<1>6. /\ t \in 0..l /\ 1 <= t /\ (t # 1 => t \in 1..l /\ f[t] < lvls[i])
      /\ \A k \in 1..l : f[k] < lvls[i] => k <= t
  <2> HIDE DEF f
  <2> QED  BY <1>3, LeftIs
<1>7. t \in 1..l /\ t \in Nat
  <2> HIDE DEF t
  <2> QED  BY <1>3, <1>6
<1>8. t # 1 => acc.nodes[s].section.level < lvls[i]
  <2>1. \A k \in 1..l : f[k] = acc.nodes[acc.stack[k]].section.level
    OBVIOUS
  <2> HIDE DEF f, t
  <2> QED  BY <1>6, <1>7, <2>1
<1>9. \A k \in 1..l : acc.nodes[acc.stack[k]].section.level < lvls[i] => k <= t
  <2>1. \A k \in 1..l : f[k] = acc.nodes[acc.stack[k]].section.level
    OBVIOUS
  <2> HIDE DEF f, t
  <2> QED  BY <1>6, <2>1
<1> HIDE DEF t
<1>10. kept \in Seq(Nat) /\ Len(kept) = t /\ \A k \in 1..t : kept[k] = acc.stack[k] /\ k \in 1..l
  <2>1. t \in Nat /\ t <= Len(acc.stack) /\ \A k \in 1..t : k \in 1..l
    BY <1>3, <1>7
  <2> QED  BY <1>2, <2>1
<1>11. C!Last(kept) = s
  BY <1>7, <1>10 DEF C!Last
<1>12. more = [stack |-> stack, nodes |-> nodes]
  <2>. DEFINE ranks == [k \in DOMAIN acc.stack |-> acc.nodes[acc.stack[k]].section.level]
              open == C!Popped(acc.stack, 1, ranks, lvls[i])
              path == acc.nodes[C!Last(open)].section.path
              one == C!Node([path |-> Append(path, i), level |-> lvls[i]])
  <2>1. more = [stack |-> Append(open, m + 1),
                nodes |-> Append([acc.nodes EXCEPT ![C!Last(open)].items = Append(@, item)], one)]
    BY DEF C!AddToTree
  <2>2. open = kept
    BY <1>5
  <2>3. one = node
    <3> HIDE DEF open
    <3> QED  BY <1>11, <2>2 DEF C!Node
  <2> HIDE DEF open, one, kept, item, node
  <2> QED  BY <1>11, <2>1, <2>2, <2>3
<1>13. s \in 1..m
  BY <1>1, <1>7
<1> HIDE DEF kept, s
<1>14. item \in Leaves
  BY <1>3 DEF Leaves, C!Item
<1>15. hung \in Seq(TreeNodes) /\ Len(hung) = m /\ Hung(acc.nodes, hung, s, item)
  <2> HIDE DEF item
  <2> QED  BY <1>2, <1>13, <1>14, HungIs
<1>16. section \in AnySection
  <2>1. acc.nodes[s] \in TreeNodes
    BY <1>2, <1>13
  <2>2. acc.nodes[s].section.path \in Seq(Nat)
    BY <2>1 DEF TreeNodes, AnySection
  <2>3. Append(acc.nodes[s].section.path, i) \in Seq(Nat)
    BY <2>2
  <2> QED  BY <2>3 DEF AnySection
<1> HIDE DEF section, hung
<1>17. node \in TreeNodes /\ node.section = section /\ node.items = << >>
  BY <1>16 DEF TreeNodes
<1> HIDE DEF node
<1>18. /\ nodes \in Seq(TreeNodes) /\ Len(nodes) = m + 1 /\ nodes[m + 1] = node
       /\ \A k \in 1..m : nodes[k] = hung[k]
  BY <1>3, <1>15, <1>17
<1>19. /\ stack \in Seq(Nat) /\ Len(stack) = t + 1 /\ stack[t + 1] = m + 1
       /\ \A k \in 1..t : stack[k] = kept[k]
  <2>1. m + 1 \in Nat
    BY <1>3
  <2> QED  BY <1>7, <1>10, <2>1
<1> HIDE DEF nodes, stack, more
<1>20. more.stack = stack /\ more.nodes = nodes /\ more \in [stack : Seq(Nat), nodes : Seq(TreeNodes)]
  BY <1>12, <1>18, <1>19
<1>21. \A j \in 1..(t + 1) : stack[j] \in 1..(m + 1)
  <2>1. \A j \in 1..(t + 1) : j \in 1..t \/ j = t + 1
    BY <1>7
  <2>2. \A j \in 1..t : stack[j] \in 1..m
    BY <1>1, <1>10, <1>19
  <2>3. \A k \in 1..m : k \in 1..(m + 1)
    BY <1>3
  <2>4. m + 1 \in 1..(m + 1)
    BY <1>3
  <2> QED  BY <1>19, <2>1, <2>2, <2>3, <2>4
<1>22. more \in Trees
  <2>1. Len(more.stack) >= 1
    BY <1>7, <1>19, <1>20
  <2> QED  BY <1>18, <1>19, <1>20, <1>21, <2>1 DEF Trees
<1>23. Hung(acc.nodes, nodes, s, item)
  BY <1>15, <1>18 DEF Hung, m
<1>24. Opens(acc, more, t, i, lvls[i])
  BY <1>17, <1>18, <1>20, <1>23 DEF Opens, stack, kept, s, node, section, item, m
<1> QED  BY <1>7, <1>8, <1>9, <1>22, <1>24 DEF more, s, l

Title(node) == Tip(node.section.path)

\* An item of a node is a block directly under its heading, or the node of such a heading.
ItemTrue(bs, lvls, i, nodes, m, item) ==
  /\ item \in Leaves
  /\ item.block \in 1..i
  /\ Home(bs, lvls, Title(nodes[m]), item.block)
  /\ item.node = 0 => item.block \notin bs
  /\ item.node # 0 => /\ item.block \in bs
                      /\ m < item.node /\ item.node <= Len(nodes)
                      /\ Title(nodes[item.node]) = item.block

\* A node has all such blocks, in their order.
NodeTrue(bs, lvls, i, nodes, m) ==
  LET its == nodes[m].items
  IN /\ Opened(nodes[m].section, lvls, bs, Title(nodes[m]))
     /\ Title(nodes[m]) \in 0..i
     /\ m = 1 <=> nodes[m].section.path = << >>
     /\ m = 1 => nodes[m].section = C!Root
     /\ \A j \in 1..Len(its) : ItemTrue(bs, lvls, i, nodes, m, its[j])
     /\ \A j, k \in 1..Len(its) : j < k => its[j].block < its[k].block
     /\ \A b \in 1..i : Home(bs, lvls, Title(nodes[m]), b) => \E j \in 1..Len(its) : its[j].block = b

\* The open nodes are those of the headings o.
OpenNodes(acc, o) ==
  /\ Len(acc.stack) = Len(o) + 1
  /\ \A j \in 1..Len(acc.stack) : acc.nodes[acc.stack[j]].section.path = SubSeq(o, 1, j - 1)

NodesTrue(bs, lvls, i, nodes) == \A m \in 1..Len(nodes) : NodeTrue(bs, lvls, i, nodes, m)

\* The tree of the first i blocks.
Sprouted(bs, lvls, i, acc) ==
  /\ acc \in Trees
  /\ \E o : Orderly(o, Over(bs, lvls, i)) /\ OpenNodes(acc, o)
  /\ NodesTrue(bs, lvls, i, acc.nodes)
  /\ \A m, k \in 1..Len(acc.nodes) : m < k => Title(acc.nodes[m]) < Title(acc.nodes[k])

\* With a new item at the node it stands under, a node is still true.
LEMMA NodeStays ==
  ASSUME NEW bs, NEW lvls, NEW i \in Nat \ {0}, NEW old, NEW new, NEW s, NEW c, NEW m \in 1..Len(old),
         NodeTrue(bs, lvls, i - 1, old, m), Len(old) \in Nat, Len(new) \in Nat, Len(old) <= Len(new),
         old[m].items \in Seq(Leaves), Hung(old, new, s, C!Item(i, c)),
         ItemTrue(bs, lvls, i, new, s, C!Item(i, c)), Home(bs, lvls, Title(old[m]), i) => m = s
  PROVE  NodeTrue(bs, lvls, i, new, m)
PROOF
<1>. DEFINE its == old[m].items
            l == Len(its)
            item == C!Item(i, c)
            now == new[m].items
            t == Title(old[m])
<1>1. /\ Opened(old[m].section, lvls, bs, t) /\ t \in 0..(i - 1)
      /\ m = 1 <=> old[m].section.path = << >>
      /\ m = 1 => old[m].section = C!Root
      /\ \A j \in 1..l : ItemTrue(bs, lvls, i - 1, old, m, its[j])
      /\ \A j, k \in 1..l : j < k => its[j].block < its[k].block
      /\ \A b \in 1..(i - 1) : Home(bs, lvls, t, b) => \E j \in 1..l : its[j].block = b
  BY DEF NodeTrue
<1>2. new[m].section = old[m].section /\ now = IF m = s THEN Append(its, item) ELSE its
  BY DEF Hung
<1>3. Title(new[m]) = t
  BY <1>2 DEF Title
<1>4. item.block = i /\ item \in Leaves
  BY DEF C!Item, ItemTrue
<1>5. l \in Nat
  OBVIOUS
<1>6. \A k \in 1..Len(old) : Title(new[k]) = Title(old[k])
  BY DEF Hung, Title
<1> HIDE DEF its, item, now, t
<1>7. ASSUME NEW j \in 1..l
      PROVE  ItemTrue(bs, lvls, i, new, m, its[j]) /\ its[j].block < i /\ its[j].block \in Nat
  <2>. DEFINE x == its[j]
  <2>1. /\ x \in Leaves /\ x.block \in 1..(i - 1) /\ Home(bs, lvls, t, x.block)
        /\ x.node = 0 => x.block \notin bs
        /\ x.node # 0 => /\ x.block \in bs /\ m < x.node /\ x.node <= Len(old)
                         /\ Title(old[x.node]) = x.block
    BY <1>1, <1>7 DEF ItemTrue, t
  <2> HIDE DEF x
  <2>2. x.block \in 1..i /\ x.block < i /\ x.block \in Nat
    BY <2>1
  <2>3. x.node # 0 => /\ x.block \in bs /\ m < x.node /\ x.node <= Len(new)
                      /\ Title(new[x.node]) = x.block
    <3>1. ASSUME x.node # 0 PROVE x.node \in 1..Len(old) /\ x.node <= Len(new)
      <4>1. x.node \in Nat
        BY <2>1 DEF Leaves
      <4> QED  BY <2>1, <3>1, <4>1
    <3> QED  BY <1>6, <2>1, <3>1
  <2>4. ItemTrue(bs, lvls, i, new, m, x)
    BY <1>3, <2>1, <2>2, <2>3 DEF ItemTrue
  <2> QED  BY <2>2, <2>4 DEF x
<1>8. t \in 0..i
  BY <1>1
<1>9. CASE m # s
  <2>1. now = its
    BY <1>2, <1>9
  <2>2. ASSUME NEW b \in 1..i, Home(bs, lvls, t, b) PROVE \E j \in 1..l : its[j].block = b
    <3>1. b # i
      BY <1>9, <2>2 DEF t
    <3>2. b \in 1..(i - 1)
      BY <3>1
    <3> QED  BY <1>1, <2>2, <3>2
  <2> QED  BY <1>1, <1>2, <1>3, <1>7, <1>8, <2>1, <2>2 DEF NodeTrue, now, l
<1>10. CASE m = s
  <2>1. /\ now \in Seq(Leaves) /\ Len(now) = l + 1 /\ now[l + 1] = item
        /\ \A j \in 1..l : now[j] = its[j]
    <3>1. its \in Seq(Leaves) /\ l = Len(its)
      BY DEF its
    <3>2. now = Append(its, item)
      BY <1>2, <1>10
    <3> QED  BY <1>4, <3>1, <3>2
  <2> HIDE DEF l
  <2>2. \A j \in 1..(l + 1) : j \in 1..l \/ j = l + 1
    BY <1>5
  <2>3. \A j \in 1..(l + 1) : ItemTrue(bs, lvls, i, new, m, now[j])
    <3>1. ItemTrue(bs, lvls, i, new, m, item)
      BY <1>10 DEF item
    <3> QED  BY <1>7, <2>1, <2>2, <3>1
  <2>4. ASSUME NEW j \in 1..(l + 1), NEW k \in 1..(l + 1), j < k PROVE now[j].block < now[k].block
    <3>1. j \in 1..l
      BY <1>5, <2>4
    <3>2. CASE k \in 1..l
      BY <1>1, <2>1, <2>4, <3>1, <3>2
    <3>3. CASE k = l + 1
      BY <1>4, <1>7, <2>1, <3>1, <3>3
    <3> QED  BY <2>2, <3>2, <3>3
  <2>5. ASSUME NEW b \in 1..i, Home(bs, lvls, t, b) PROVE \E j \in 1..(l + 1) : now[j].block = b
    <3>1. CASE b = i
      <4>1. l + 1 \in 1..(l + 1)
        BY <1>5
      <4> QED  BY <1>4, <2>1, <3>1, <4>1
    <3>2. CASE b # i
      <4>1. b \in 1..(i - 1)
        BY <3>2
      <4>2. PICK j \in 1..l : its[j].block = b
        BY <1>1, <2>5, <4>1
      <4>3. j \in 1..(l + 1)
        BY <1>5
      <4> QED  BY <2>1, <4>2, <4>3
    <3> QED  BY <3>1, <3>2
  <2> QED  BY <1>1, <1>2, <1>3, <1>8, <2>1, <2>3, <2>4, <2>5 DEF NodeTrue, now
<1> QED  BY <1>9, <1>10

\* Block i is a new item, at the node it stands under.
NewItem(bs, lvls, i, old, new, s, c) ==
  /\ Len(new) \in Nat /\ Len(old) <= Len(new) /\ s \in 1..Len(old)
  /\ Hung(old, new, s, C!Item(i, c))
  /\ ItemTrue(bs, lvls, i, new, s, C!Item(i, c))

\* The old nodes are true of the first i blocks and have their titles.
Stay(bs, lvls, i, old, new) ==
  \A m \in 1..Len(old) : NodeTrue(bs, lvls, i, new, m) /\ Title(new[m]) = Title(old[m])

\* So they are with a new item.
LEMMA NodesStay ==
  ASSUME NEW bs, NEW lvls, NEW i \in Nat \ {0}, NEW h, h = i - 1, NEW acc, Sprouted(bs, lvls, h, acc),
         NEW old, old = acc.nodes, NEW new, NEW s, NEW c, NewItem(bs, lvls, i, old, new, s, c)
  PROVE  Stay(bs, lvls, i, old, new)
PROOF
<1>0. /\ Len(new) \in Nat /\ Len(old) <= Len(new) /\ s \in 1..Len(old)
      /\ Hung(old, new, s, C!Item(i, c)) /\ ItemTrue(bs, lvls, i, new, s, C!Item(i, c))
  BY DEF NewItem
<1>1. /\ acc \in Trees
      /\ NodesTrue(bs, lvls, i - 1, old) /\ \A m \in 1..Len(old) : NodeTrue(bs, lvls, i - 1, old, m)
      /\ \A m, k \in 1..Len(old) : m < k => Title(old[m]) < Title(old[k])
  BY DEF Sprouted, NodesTrue
<1>2. old \in Seq(TreeNodes)
  BY <1>1 DEF Trees
<1>3. Len(old) \in Nat /\ \A m \in 1..Len(old) : old[m].items \in Seq(Leaves)
  <2>1. \A m \in 1..Len(old) : old[m] \in TreeNodes
    BY <1>2
  <2> QED  BY <1>2, <2>1 DEF TreeNodes
<1>4. \A m \in 1..Len(old) : Title(new[m]) = Title(old[m])
  BY <1>0 DEF Hung, Title
<1>5. \A m \in 1..Len(old) : Title(old[m]) \in Nat
  BY <1>1 DEF NodeTrue
<1>6. Home(bs, lvls, Title(old[s]), i)
  <2>1. Home(bs, lvls, Title(new[s]), i)
    BY <1>0 DEF ItemTrue, C!Item
  <2> QED  BY <1>0, <1>4, <2>1
<1>7. ASSUME NEW m \in 1..Len(old), Home(bs, lvls, Title(old[m]), i) PROVE m = s
  <2>1. Title(old[m]) = Title(old[s]) /\ s \in 1..Len(old)
    BY <1>0, <1>5, <1>6, <1>7, OneHome
  <2>2. m < s \/ m = s \/ s < m
    BY <1>3, <2>1
  <2> QED  BY <1>1, <1>5, <2>1, <2>2
<1>8. ASSUME NEW m \in 1..Len(old) PROVE NodeTrue(bs, lvls, i, new, m)
  BY <1>0, <1>1, <1>3, <1>7, <1>8, NodeStays
<1> QED  BY <1>4, <1>8 DEF Stay

\* The open nodes have the levels of their headings.
LevelsOpen(acc, o, lvls) ==
  \A j \in 1..Len(o) : acc.nodes[acc.stack[j + 1]].section.level = lvls[o[j]]

\* The levels of the open nodes.
LEMMA OpenLevels ==
  ASSUME NEW bs, NEW lvls, NEW i, NEW acc \in Trees, NEW o \in Seq(Nat), OpenNodes(acc, o),
         NodesTrue(bs, lvls, i, acc.nodes)
  PROVE  LevelsOpen(acc, o, lvls)
PROOF
<1>. DEFINE l == Len(o)
<1>1. l \in Nat /\ Len(acc.stack) = l + 1
  BY DEF OpenNodes
<1>2. ASSUME NEW j \in 1..l
      PROVE  j + 1 \in 1..(l + 1) /\ acc.nodes[acc.stack[j + 1]].section.level = lvls[o[j]]
  <2>. DEFINE s == acc.stack[j + 1]
              p == SubSeq(o, 1, j)
              section == acc.nodes[s].section
  <2>1. j + 1 \in 1..(l + 1) /\ (j + 1) - 1 = j
    BY <1>1
  <2>2. s \in 1..Len(acc.nodes)
    BY <1>1, <2>1 DEF Trees
  <2>3. section.path = p
    BY <1>1, <2>1 DEF OpenNodes
  <2>4. section.path # << >> => section.level = lvls[C!Last(section.path)]
    BY <2>2 DEF NodesTrue, NodeTrue, Opened
  <2>5. Len(p) = j /\ p[j] = o[j]
    BY <1>1
  <2> HIDE DEF p, section, s
  <2>6. C!Last(p) = o[j] /\ p # << >>
    <3>1. Len(<< >>) = 0
      OBVIOUS
    <3> QED  BY <2>5, <3>1 DEF C!Last
  <2> QED  BY <2>1, <2>3, <2>4, <2>6 DEF section, s
<1> QED  BY <1>2 DEF LevelsOpen

\* The next block in the tree.
LEMMA TreeNext ==
  ASSUME NEW blocks, NEW lvls, NEW N, NEW target, NEW n, Titled(blocks, lvls, N, target, n),
         NEW i \in 1..N, NEW acc, Sprouted(Beginnings(blocks, lvls, N, target), lvls, i - 1, acc)
  PROVE  Sprouted(Beginnings(blocks, lvls, N, target), lvls, i, C!AddToTree(acc, i, blocks, lvls, target))
PROOF
<1>. DEFINE bs == Beginnings(blocks, lvls, N, target)
            more == C!AddToTree(acc, i, blocks, lvls, target)
            old == acc.nodes
            new == more.nodes
            m == Len(old)
            body == lvls[i] = C!BodyLevel \/ blocks[i].size = 0 \/ lvls[i] > target
<1>1. /\ N \in Nat /\ lvls \in [1..N -> Nat] /\ target \in Nat /\ i \in Nat \ {0} /\ lvls[i] \in Nat
      /\ blocks[i].size \in Nat
  BY DEF Titled, Blocks
<1>2. i \in bs <=> ~body
  BY <1>1 DEF Beginnings, Heads
<1>3. Levelled(bs, lvls, N)
  BY <1>1 DEF Levelled, Beginnings, Heads
<1> HIDE DEF bs
<1>4. /\ acc \in Trees
      /\ NodesTrue(bs, lvls, i - 1, old) /\ \A k \in 1..m : NodeTrue(bs, lvls, i - 1, old, k)
      /\ \A j, k \in 1..m : j < k => Title(old[j]) < Title(old[k])
      /\ Sprouted(bs, lvls, i - 1, acc)
  BY DEF Sprouted, NodesTrue, bs
<1>5. PICK o : Orderly(o, Over(bs, lvls, i - 1)) /\ OpenNodes(acc, o)
  BY <1>4 DEF Sprouted
<1>6. o \in Seq(Nat)
  <2>1. Over(bs, lvls, i - 1) \subseteq Nat /\ i - 1 \in Nat
    BY <1>1, OverIsFinite
  <2> QED  BY <1>5, <2>1, SequenceOfMore DEF Orderly
<1>. DEFINE l == Len(o)
<1>7. /\ l \in Nat /\ Len(acc.stack) = l + 1
      /\ \A j \in 1..(l + 1) : old[acc.stack[j]].section.path = SubSeq(o, 1, j - 1) /\ acc.stack[j] \in 1..m
  <2>1. l \in Nat /\ Len(acc.stack) = l + 1
    BY <1>5, <1>6 DEF OpenNodes
  <2>2. \A j \in 1..(l + 1) : old[acc.stack[j]].section.path = SubSeq(o, 1, j - 1)
    BY <1>5, <2>1 DEF OpenNodes
  <2>3. \A j \in 1..Len(acc.stack) : acc.stack[j] \in 1..m
    BY <1>4 DEF Trees
  <2> QED  BY <2>1, <2>2, <2>3
<1>8. old \in Seq(TreeNodes) /\ m \in Nat
  BY <1>4 DEF Trees
<1> HIDE DEF l, m
<1>9. \A j \in 1..l : old[acc.stack[j + 1]].section.level = lvls[o[j]]
  <2>. DEFINE h == i - 1
  <2>1. acc \in Trees /\ OpenNodes(acc, o) /\ NodesTrue(bs, lvls, h, acc.nodes)
    BY <1>4, <1>5
  <2> HIDE DEF h
  <2>2. LevelsOpen(acc, o, lvls)
    BY <1>6, <2>1, OpenLevels
  <2> QED  BY <2>2 DEF LevelsOpen, l
<1>10. \A k \in 1..m : Title(old[k]) \in 0..(i - 1)
  BY <1>4 DEF NodeTrue
<1>11. ASSUME body PROVE Sprouted(bs, lvls, i, more)
  <2>. DEFINE s == acc.stack[l + 1]
              item == C!Item(i, 0)
  <2>1. more \in Trees /\ more.stack = acc.stack /\ Len(new) = m /\ Hung(old, new, s, item)
    <3> HIDE DEF body
    <3>1. lvls[i] = C!BodyLevel \/ blocks[i].size = 0 \/ lvls[i] > target
      BY <1>11 DEF body
    <3>2. acc \in Trees /\ i \in Nat /\ Len(acc.stack) = l + 1
      BY <1>1, <1>4, <1>7
    <3> QED  BY <3>1, <3>2, TreeBlock DEF m
  <2>2. l + 1 \in 1..(l + 1) /\ (l + 1) - 1 = l
    BY <1>7
  <2>3. s \in 1..m /\ old[s].section.path = SubSeq(o, 1, l)
    BY <1>7, <2>2
  <2>4. SubSeq(o, 1, l) = o
    BY <1>6 DEF l
  <2>5. i \notin bs
    BY <1>2, <1>11
  <2>6. Over(bs, lvls, i) = Over(bs, lvls, i - 1)
    BY <1>3, <2>5, OverNext
  <2>7. Home(bs, lvls, Title(old[s]), i)
    <3>1. Title(old[s]) = Tip(o)
      BY <2>3, <2>4 DEF Title
    <3>2. Orderly(o, Over(bs, lvls, i))
      BY <1>5, <2>6
    <3> QED  BY <1>1, <1>6, <2>5, <3>1, <3>2, HomeOf
  <2> HIDE DEF s, more
  <2>8. ItemTrue(bs, lvls, i, new, s, item)
    <3>1. Title(new[s]) = Title(old[s])
      BY <2>1, <2>3 DEF Hung, Title, m
    <3>2. item \in Leaves /\ item.block = i /\ item.node = 0 /\ i \in 1..i
      BY <1>1 DEF Leaves, C!Item
    <3> HIDE DEF item
    <3> QED  BY <2>5, <2>7, <3>1, <3>2 DEF ItemTrue
  <2>9. \A k \in 1..m : NodeTrue(bs, lvls, i, new, k) /\ Title(new[k]) = Title(old[k])
    <3>1. NewItem(bs, lvls, i, old, new, s, 0)
      BY <1>8, <2>1, <2>3, <2>8 DEF NewItem, m
    <3>. DEFINE h == i - 1
    <3>7. old = acc.nodes
      OBVIOUS
    <3>8. Sprouted(bs, lvls, h, acc) /\ h = i - 1 /\ i \in Nat \ {0}
      BY <1>1, <1>4
    <3> HIDE DEF h
    <3> HIDE DEF old, new
    <3>9. Stay(bs, lvls, i, old, new)
      BY <3>1, <3>7, <3>8, NodesStay
    <3> QED  BY <3>9 DEF Stay, m
  <2>10. \A j, k \in 1..m : j < k => Title(new[j]) < Title(new[k])
    BY <1>4, <2>9 DEF m
  <2>11. OpenNodes(more, o)
    <3>1. \A j \in 1..(l + 1) : new[acc.stack[j]].section.path = SubSeq(o, 1, j - 1)
      BY <1>7, <2>1 DEF Hung, m
    <3> QED  BY <1>7, <2>1, <3>1 DEF OpenNodes, l
  <2>12. \E p : Orderly(p, Over(bs, lvls, i)) /\ OpenNodes(more, p)
    BY <1>5, <2>6, <2>11
  <2> QED  BY <2>1, <2>9, <2>10, <2>12 DEF Sprouted, NodesTrue
<1>12. ASSUME ~body PROVE Sprouted(bs, lvls, i, more)
  <2>1. PICK t \in 1..Len(acc.stack) :
              /\ more \in Trees
              /\ Opens(acc, more, t, i, lvls[i])
              /\ t # 1 => old[acc.stack[t]].section.level < lvls[i]
              /\ \A k \in 1..Len(acc.stack) : old[acc.stack[k]].section.level < lvls[i] => k <= t
    <3> HIDE DEF body
    <3>1. ~(lvls[i] = C!BodyLevel \/ blocks[i].size = 0 \/ lvls[i] > target)
      BY <1>12 DEF body
    <3> QED  BY <1>1, <1>4, <3>1, TreeHeading
  <2> HIDE DEF more, body
  <2>. DEFINE s == acc.stack[t]
              u == t - 1
              p == SubSeq(o, 1, u)
              q == Append(p, i)
              item == C!Item(i, m + 1)
  <2>2. /\ more.stack = Append(SubSeq(acc.stack, 1, t), m + 1) /\ Len(new) = m + 1
        /\ Hung(old, new, s, item)
        /\ new[m + 1].section = [path |-> Append(old[s].section.path, i), level |-> lvls[i]]
        /\ new[m + 1].items = << >>
    BY <2>1 DEF Opens, m
  <2>3. t \in 1..(l + 1) /\ u \in 0..l /\ t \in Nat /\ u \in Nat
    BY <1>7, <2>1
  <2>4. old[s].section.path = p /\ s \in 1..m
    BY <1>7, <2>3
  <2>5. i \in bs
    BY <1>2, <1>12
  <2>6. p \in Seq(Nat) /\ Len(p) = u /\ \A j \in 1..u : p[j] = o[j] /\ j \in 1..l
    BY <1>6, <1>7, <2>3 DEF l
  <2>7. q \in Seq(Nat) /\ Len(q) = u + 1 /\ (\A j \in 1..u : q[j] = p[j]) /\ q[u + 1] = i
    <3> HIDE DEF p
    <3> QED  BY <1>1, <2>3, <2>6
  <2>8. Orderly(q, Over(bs, lvls, i))
    <3>1. u # 0 => lvls[o[u]] < lvls[i]
      <4>1. u # 0 => u \in 1..l /\ u + 1 = t /\ t # 1
        BY <2>3
      <4> QED  BY <1>9, <2>1, <4>1
    <3>2. ASSUME NEW k \in 1..l, lvls[o[k]] < lvls[i] PROVE k <= u
      <4>1. k + 1 \in 1..Len(acc.stack)
        BY <1>7, <3>2
      <4>2. old[acc.stack[k + 1]].section.level < lvls[i]
        BY <1>9, <3>2
      <4>3. k + 1 <= t
        BY <2>1, <4>1, <4>2
      <4> QED  BY <1>7, <2>3, <4>3
    <3> HIDE DEF u
    <3> QED  BY <1>3, <1>5, <2>3, <2>5, <3>1, <3>2, OrderCut DEF l
  <2> HIDE DEF u, q
  <2>9. Home(bs, lvls, Title(old[s]), i)
    <3>1. Title(old[s]) = Tip(p)
      BY <2>4 DEF Title
    <3>2. Orderly(Append(p, i), Over(bs, lvls, i))
      BY <2>8 DEF q
    <3> HIDE DEF p
    <3> QED  BY <1>1, <2>6, <3>1, <3>2, HomeOf
  <2>10. new[m + 1].section.path = q /\ new[m + 1].section.level = lvls[i]
    <3> HIDE DEF p, s
    <3>. DEFINE section == new[m + 1].section
                p_1 == Append(old[s].section.path, i)
    <3>0. section = [path |-> p_1, level |-> lvls[i]]
      BY <2>2
    <3> HIDE DEF section, p_1
    <3>2. section.path = p_1 /\ section.level = lvls[i]
      BY <3>0
    <3>1. new[m + 1].section.path = Append(old[s].section.path, i) /\ new[m + 1].section.level = lvls[i]
      BY <3>2 DEF section, p_1
    <3> QED  BY <2>4, <3>1 DEF q
  <2> HIDE DEF p, s
  <2>11. q # << >> /\ C!Last(q) = i
    <3>1. Len(<< >>) = 0
      OBVIOUS
    <3> QED  BY <2>3, <2>7, <3>1 DEF C!Last
  <2>12. Title(new[m + 1]) = i
    BY <2>10, <2>11 DEF Title, Tip
  <2>13. ItemTrue(bs, lvls, i, new, s, item)
    <3>1. Title(new[s]) = Title(old[s])
      BY <2>2, <2>4 DEF Hung, Title, m
    <3>2. item \in Leaves /\ item.block = i /\ item.node = m + 1 /\ i \in 1..i
      BY <1>1, <1>8 DEF Leaves, C!Item
    <3>3. s < m + 1 /\ m + 1 <= Len(new) /\ m + 1 # 0
      BY <1>8, <2>2, <2>4
    <3> HIDE DEF item
    <3> QED  BY <2>5, <2>9, <2>12, <3>1, <3>2, <3>3 DEF ItemTrue
  <2>14. \A k \in 1..m : NodeTrue(bs, lvls, i, new, k) /\ Title(new[k]) = Title(old[k])
    <3>1. Len(new) \in Nat /\ Len(acc.nodes) <= Len(new)
      BY <1>8, <2>2 DEF m
    <3>2. NewItem(bs, lvls, i, old, new, s, m + 1)
      BY <2>2, <2>4, <2>13, <3>1 DEF NewItem, m
    <3>. DEFINE h == i - 1
    <3>7. old = acc.nodes
      OBVIOUS
    <3>8. Sprouted(bs, lvls, h, acc) /\ h = i - 1 /\ i \in Nat \ {0}
      BY <1>1, <1>4
    <3> HIDE DEF h
    <3> HIDE DEF old, new
    <3>9. Stay(bs, lvls, i, old, new)
      BY <3>2, <3>7, <3>8, NodesStay
    <3> QED  BY <3>9 DEF Stay, m
  <2>15. NodeTrue(bs, lvls, i, new, m + 1)
    <3>. DEFINE node == new[m + 1]
    <3>1. Opened(node.section, lvls, bs, i)
      <4>1. node.section \in AnySection
        BY <1>1, <2>7, <2>2, <2>10 DEF AnySection
      <4> QED  BY <2>8, <2>10, <2>11, <4>1 DEF Opened
    <3>2. m + 1 # 1
      BY <1>8, <2>4
    <3>3. ASSUME NEW b \in 1..i PROVE ~Home(bs, lvls, i, b)
      <4>1. Over(bs, lvls, b) \subseteq 1..b
        BY OverIsFinite
      <4>2. i \in 1..b => i = b
        BY <1>1
      <4> QED  BY <1>1, <4>1, <4>2 DEF Home
    <3>4. Len(<< >>) = 0 /\ 1..0 = {} /\ i \in 0..i
      BY <1>1
    <3> QED  BY <2>2, <2>10, <2>11, <2>12, <3>1, <3>2, <3>3, <3>4 DEF NodeTrue
  <2>16. \A k \in 1..(m + 1) : k \in 1..m \/ k = m + 1
    BY <1>8
  <2>17. \A k \in 1..(m + 1) : NodeTrue(bs, lvls, i, new, k)
    BY <2>14, <2>15, <2>16
  <2>18. ASSUME NEW j \in 1..(m + 1), NEW k \in 1..(m + 1), j < k PROVE Title(new[j]) < Title(new[k])
    <3>1. j \in 1..m
      BY <1>8, <2>18
    <3>2. CASE k \in 1..m
      BY <1>4, <2>14, <2>18, <3>1, <3>2 DEF m
    <3>3. CASE k = m + 1
      <4>1. Title(new[j]) \in 0..(i - 1)
        BY <1>10, <2>14, <3>1
      <4> QED  BY <1>1, <2>12, <3>3, <4>1
    <3> QED  BY <2>16, <3>2, <3>3
  <2>19. OpenNodes(more, q)
    <3>. DEFINE cut == SubSeq(acc.stack, 1, t)
                now == Append(cut, m + 1)
    <3>1. acc.stack \in Seq(Nat) /\ Len(acc.stack) = l + 1
      BY <1>4, <1>7 DEF Trees
    <3>2. cut \in Seq(Nat) /\ Len(cut) = t /\ \A j \in 1..t : cut[j] = acc.stack[j] /\ j \in 1..(l + 1)
      BY <1>7, <2>3, <3>1
    <3> HIDE DEF cut
    <3>3. Len(now) = t + 1 /\ (\A j \in 1..t : now[j] = acc.stack[j]) /\ now[t + 1] = m + 1
      <4>1. m + 1 \in Nat
        BY <1>8
      <4> QED  BY <2>3, <3>2, <4>1
    <3>4. more.stack = now
      BY <2>2 DEF cut
    <3> HIDE DEF now
    <3>5. u + 1 = t
      BY <2>3 DEF u
    <3>6. ASSUME NEW j \in 1..t PROVE new[now[j]].section.path = SubSeq(q, 1, j - 1)
      <4>. DEFINE g == j - 1
      <4>1. g \in 0..u /\ g \in Nat /\ j \in 1..(l + 1)
        BY <2>3, <3>2, <3>5
      <4>2. new[now[j]].section.path = SubSeq(o, 1, g)
        <5>1. now[j] = acc.stack[j] /\ acc.stack[j] \in 1..m
          BY <1>7, <3>3, <4>1
        <5> QED  BY <1>7, <2>2, <4>1, <5>1 DEF Hung, m
      <4> HIDE DEF g
      <4>3. \A k \in 1..g : k \in 1..u /\ k \in 1..l /\ q[k] = o[k]
        BY <2>3, <2>6, <2>7, <4>1
      <4>4. /\ SubSeq(o, 1, g) = [k \in 1..g |-> o[k]]
            /\ SubSeq(q, 1, g) = [k \in 1..g |-> q[k]]
        <5>1. g <= Len(o) /\ g <= Len(q)
          BY <1>7, <2>3, <2>7, <4>1 DEF l
        <5>2. SubSeq(o, 1, g) = [k \in 1..g |-> o[k]]
          BY <1>6, <4>1, <5>1
        <5>3. SubSeq(q, 1, g) = [k \in 1..g |-> q[k]]
          BY <2>7, <4>1, <5>1
        <5> QED  BY <5>2, <5>3
      <4>5. SubSeq(o, 1, g) = SubSeq(q, 1, g)
        <5>1. [k \in 1..g |-> o[k]] = [k \in 1..g |-> q[k]]
          BY <4>3
        <5> QED  BY <4>4, <5>1
      <4> QED  BY <4>2, <4>5 DEF g
    <3>7. new[now[t + 1]].section.path = SubSeq(q, 1, (t + 1) - 1)
      <4>1. (t + 1) - 1 = Len(q)
        BY <2>3, <2>7, <3>5
      <4>2. SubSeq(q, 1, Len(q)) = q
        BY <2>7
      <4> QED  BY <2>10, <3>3, <4>1, <4>2
    <3>8. \A j \in 1..(t + 1) : j \in 1..t \/ j = t + 1
      BY <2>3
    <3>9. \A j \in 1..(t + 1) : new[now[j]].section.path = SubSeq(q, 1, j - 1)
      BY <3>6, <3>7, <3>8
    <3>10. Len(now) = Len(q) + 1
      BY <2>3, <2>7, <3>3, <3>5
    <3> QED  BY <3>3, <3>4, <3>9, <3>10 DEF OpenNodes
  <2>20. \E r : Orderly(r, Over(bs, lvls, i)) /\ OpenNodes(more, r)
    BY <2>8, <2>19
  <2> QED  BY <2>1, <2>2, <2>17, <2>18, <2>20 DEF Sprouted, NodesTrue
<1> HIDE DEF body, more
<1>13. Sprouted(bs, lvls, i, more)
  BY <1>11, <1>12
<1> QED  BY <1>13 DEF bs, more

\* AddToTree keeps the record.
LEMMA TreeTyped ==
  ASSUME NEW blocks, NEW lvls, NEW N, NEW target, NEW n, Titled(blocks, lvls, N, target, n),
         NEW i \in 1..N, NEW acc \in Trees
  PROVE  C!AddToTree(acc, i, blocks, lvls, target) \in Trees
PROOF
<1>1. N \in Nat /\ i \in Nat /\ lvls[i] \in Nat
  BY DEF Titled
<1>2. CASE lvls[i] = C!BodyLevel \/ blocks[i].size = 0 \/ lvls[i] > target
  BY <1>1, <1>2, TreeBlock
<1>3. CASE ~(lvls[i] = C!BodyLevel \/ blocks[i].size = 0 \/ lvls[i] > target)
  BY <1>1, <1>3, TreeHeading
<1> QED  BY <1>2, <1>3

\* The root alone.
RootAlone == [stack |-> <<1>>, nodes |-> << C!Node(C!Root) >>]

\* The loop of build_tree.
TreeLoop(blocks, lvls, target) ==
  C!FoldLeft(LAMBDA acc, i : C!AddToTree(acc, i, blocks, lvls, target), RootAlone, C!Ids(blocks))

\* It is a tree.
LEMMA RootIs ==
  /\ RootAlone \in Trees /\ Len(RootAlone.nodes) = 1 /\ Len(RootAlone.stack) = 1 /\ RootAlone.stack[1] = 1
  /\ RootAlone.nodes[1].section = C!Root /\ RootAlone.nodes[1].items = << >>
PROOF
<1>. DEFINE node == C!Node(C!Root)
            nodes == << node >>
            stack == << 1 >>
<1>1. node.section = C!Root /\ node.items = << >>
  BY DEF C!Node
<1>2. node \in TreeNodes
  <2>1. C!Root \in AnySection
    BY DEF C!Root, AnySection
  <2> QED  BY <2>1 DEF C!Node, TreeNodes
<1> HIDE DEF node
<1>3. nodes \in Seq(TreeNodes) /\ Len(nodes) = 1 /\ nodes[1] = node
  BY <1>2
<1>4. stack \in Seq(Nat) /\ Len(stack) = 1 /\ stack[1] = 1
  OBVIOUS
<1> HIDE DEF nodes, stack
<1>5. RootAlone = [stack |-> stack, nodes |-> nodes]
  BY DEF RootAlone, stack, nodes, node
<1>6. \A j \in 1..1 : j = 1
  OBVIOUS
<1>7. RootAlone.stack = stack /\ RootAlone.nodes = nodes /\ RootAlone \in [stack : Seq(Nat), nodes : Seq(TreeNodes)]
  BY <1>3, <1>4, <1>5
<1>8. RootAlone \in Trees
  <2>. DEFINE acc == RootAlone
  <2>1. acc \in [stack : Seq(Nat), nodes : Seq(TreeNodes)] /\ Len(acc.stack) = 1 /\ Len(acc.nodes) = 1
    BY <1>3, <1>4, <1>7
  <2>2. acc.stack[1] = 1
    BY <1>4, <1>7
  <2> HIDE DEF acc
  <2>3. Len(acc.stack) >= 1 /\ \A j \in 1..Len(acc.stack) : acc.stack[j] \in 1..Len(acc.nodes)
    BY <1>6, <2>1, <2>2
  <2>4. acc \in Trees
    BY <2>1, <2>3 DEF Trees
  <2> QED  BY <2>4 DEF acc
<1> QED  BY <1>1, <1>3, <1>4, <1>7, <1>8

\* The tree, block after block.
LEMMA TreesAre ==
  ASSUME NEW blocks, NEW lvls, NEW N, NEW target, NEW n, Titled(blocks, lvls, N, target, n)
  PROVE  \E f \in [0..N -> Trees] :
           /\ f[0] = RootAlone
           /\ \A i \in 1..N : f[i] = C!AddToTree(f[i - 1], C!Ids(blocks)[i], blocks, lvls, target)
           /\ f[N] = TreeLoop(blocks, lvls, target)
PROOF
<1>. DEFINE st == [i \in 1..N |-> [a \in Trees |-> C!AddToTree(a, C!Ids(blocks)[i], blocks, lvls, target)]]
            F(it, s) == IF s = {} THEN RootAlone ELSE C!AddToTree(it[s \ {Top(s)}], C!Ids(blocks)[Top(s)], blocks, lvls, target)
            iter == CHOOSE it : it = [s \in SUBSET (1..N) |-> F(it, s)]
<1>0. /\ N \in Nat /\ Blocks(blocks, N) /\ lvls \in [1..N -> Nat] /\ target \in Nat /\ n \in Nat \ {0}
  BY DEF Titled
<1>1. TreeLoop(blocks, lvls, target) = iter[1..N]
  <2>1. DOMAIN C!Ids(blocks) = 1..N
    BY <1>0 DEF C!Ids, Blocks
  <2> QED  BY <2>1 DEF TreeLoop, C!FoldLeft, C!MapThenFoldSet, Top
<1>2. \A i \in 1..N : \A a \in Trees : st[i][a] = C!AddToTree(a, C!Ids(blocks)[i], blocks, lvls, target) /\ st[i][a] \in Trees
  <2>1. \A i \in 1..N : C!Ids(blocks)[i] \in 1..N
    BY <1>0 DEF C!Ids, Blocks
  <2> QED  BY <2>1, TreeTyped
<1>3. RootAlone \in Trees
  BY RootIs
<1> HIDE DEF st
<1>4. Keep(st, Trees, N)
  BY <1>2 DEF Keep
<1>5. \E it : it = [s \in SUBSET (1..N) |-> F(it, s)]
  <2>1. PICK it : Iterates(it, Trees, RootAlone, N, st)
    BY <1>0, <1>3, <1>4, FoldTyped
  <2>2. ASSUME NEW s \in SUBSET (1..N)
        PROVE  it[s] = F(it, s)
    <3>1. s \ {Top(s)} \in SUBSET (1..N)
      OBVIOUS
    <3> QED  BY <1>0, <1>2, <2>1, <3>1, TopIs DEF Iterates
  <2> HIDE DEF F
  <2>3. it = [s \in SUBSET (1..N) |-> F(it, s)]
    BY <2>1, <2>2 DEF Iterates
  <2> QED  BY <2>3
<1>6. iter = [s \in SUBSET (1..N) |-> F(iter, s)]
  <2> HIDE DEF F
  <2> QED  BY <1>5
<1> HIDE DEF iter
<1>7. \A s \in SUBSET (1..N) : iter[s] = F(iter, s)
  <2> HIDE DEF F
  <2> QED  BY <1>6
<1>8. Goes(iter, Trees, RootAlone, N, st)
  <2>1. iter[{}] = RootAlone
    BY <1>7
  <2>2. ASSUME NEW s \in SUBSET (1..N), s # {}, iter[s \ {Top(s)}] \in Trees
        PROVE  iter[s] = st[Top(s)][iter[s \ {Top(s)}]]
    <3>1. Top(s) \in 1..N
      BY <1>0, <2>2, TopIs
    <3>2. iter[s] = C!AddToTree(iter[s \ {Top(s)}], C!Ids(blocks)[Top(s)], blocks, lvls, target)
      BY <1>7, <2>2
    <3> QED  BY <1>2, <2>2, <3>1, <3>2
  <2> QED  BY <2>1, <2>2 DEF Goes
<1>9. PICK f : IsWay(f, Trees, RootAlone, N, st) /\ f[N] = iter[1..N]
  BY <1>0, <1>3, <1>4, <1>8, FoldWay
<1>10. ASSUME NEW i \in 1..N
       PROVE  f[i] = C!AddToTree(f[i - 1], C!Ids(blocks)[i], blocks, lvls, target)
  <2>1. i - 1 \in 0..N
    BY <1>0
  <2>2. f[i - 1] \in Trees /\ f[i] = st[i][f[i - 1]]
    BY <1>9, <2>1 DEF IsWay
  <2> QED  BY <1>2, <2>2
<1> QED  BY <1>1, <1>9, <1>10 DEF IsWay

\* The root alone is the tree of no blocks.
LEMMA RootGrown == ASSUME NEW bs, NEW lvls PROVE Sprouted(bs, lvls, 0, RootAlone)
PROOF
<1>. DEFINE acc == RootAlone
            e == << >>
            r == C!Root
<1>1. /\ acc \in Trees /\ Len(acc.nodes) = 1 /\ Len(acc.stack) = 1 /\ acc.stack[1] = 1
      /\ acc.nodes[1].section = r /\ acc.nodes[1].items = e
  BY RootIs
<1>2. r.path = e /\ r \in AnySection /\ Tip(e) = 0 /\ Len(e) = 0
  BY DEF C!Root, AnySection, Tip
<1>3. Over(bs, lvls, 0) = {} /\ 1..0 = {} /\ (\A j \in 1..1 : j = 1) /\ 0 \in 0..0
  BY OverNone
<1>4. Orderly(e, {}) /\ SubSeq(e, 1, 1 - 1) = e
  BY DEF Orderly
<1>5. r.path = << >>
  BY <1>2
<1> HIDE DEF acc, e, r
<1>6. Title(acc.nodes[1]) = 0
  BY <1>1, <1>2 DEF Title
<1>7. Opened(r, lvls, bs, 0)
  BY <1>2, <1>3, <1>4, <1>5 DEF Opened
<1>8. NodeTrue(bs, lvls, 0, acc.nodes, 1)
  BY <1>1, <1>2, <1>3, <1>5, <1>6, <1>7 DEF NodeTrue, r
<1>9. NodesTrue(bs, lvls, 0, acc.nodes)
  BY <1>1, <1>3, <1>8 DEF NodesTrue
<1>10. OpenNodes(acc, e)
  <2>1. Len(acc.stack) = Len(e) + 1
    BY <1>1, <1>2
  <2>2. acc.nodes[acc.stack[1]].section.path = SubSeq(e, 1, 1 - 1)
    BY <1>1, <1>2, <1>4
  <2>3. \A j \in 1..Len(acc.stack) : j = 1
    BY <1>1, <1>3
  <2>4. \A j \in 1..Len(acc.stack) : acc.nodes[acc.stack[j]].section.path = SubSeq(e, 1, j - 1)
    BY <2>2, <2>3
  <2> QED  BY <2>1, <2>4 DEF OpenNodes
<1>11. \E o : Orderly(o, Over(bs, lvls, 0)) /\ OpenNodes(acc, o)
  BY <1>3, <1>4, <1>10
<1>12. \A m, k \in 1..Len(acc.nodes) : m < k => Title(acc.nodes[m]) < Title(acc.nodes[k])
  BY <1>1, <1>3
<1>13. Sprouted(bs, lvls, 0, acc)
  BY <1>1, <1>9, <1>11, <1>12 DEF Sprouted
<1> QED  BY <1>13 DEF acc

\* The nodes of a tree.
TreeOf(bs, lvls, N, nodes) == nodes \in Seq(TreeNodes) /\ Len(nodes) >= 1 /\ NodesTrue(bs, lvls, N, nodes)

\* build_tree makes the tree of all blocks.
LEMMA TreeBuilt ==
  ASSUME NEW blocks, NEW lvls, NEW N, NEW target, NEW n, Titled(blocks, lvls, N, target, n)
  PROVE  TreeOf(Beginnings(blocks, lvls, N, target), lvls, N, C!BuildTree(blocks, lvls, target))
PROOF
<1>. DEFINE acc == TreeLoop(blocks, lvls, target)
            bs == Beginnings(blocks, lvls, N, target)
<1>1. N \in Nat /\ Blocks(blocks, N) /\ lvls \in [1..N -> Nat] /\ n \in Nat \ {0}
  BY DEF Titled
<1>2. PICK f \in [0..N -> Trees] :
           /\ f[0] = RootAlone
           /\ \A i \in 1..N : f[i] = C!AddToTree(f[i - 1], C!Ids(blocks)[i], blocks, lvls, target)
           /\ f[N] = acc
  <2> HIDE DEF acc
  <2>1. acc = TreeLoop(blocks, lvls, target)
    BY DEF acc
  <2>2. \E f \in [0..N -> Trees] :
           /\ f[0] = RootAlone
           /\ \A i \in 1..N : f[i] = C!AddToTree(f[i - 1], C!Ids(blocks)[i], blocks, lvls, target)
           /\ f[N] = TreeLoop(blocks, lvls, target)
    BY TreesAre
  <2> QED  BY <2>1, <2>2
<1>3. \A i \in 1..N : C!Ids(blocks)[i] = i
  BY <1>1 DEF Blocks, C!Ids
<1>4. C!BuildTree(blocks, lvls, target) = acc.nodes
  BY DEF C!BuildTree, TreeLoop, RootAlone
<1> HIDE DEF acc, bs
<1>. DEFINE Z == {k \in Nat : k <= N => Sprouted(bs, lvls, k, f[k])}
<1>5. 0 \in Z
  <2>1. Sprouted(bs, lvls, 0, RootAlone)
    BY RootGrown
  <2> QED  BY <1>2, <2>1
<1>6. ASSUME NEW k \in Z PROVE k + 1 \in Z
  <2>. SUFFICES ASSUME k + 1 <= N PROVE Sprouted(bs, lvls, k + 1, f[k + 1])
    OBVIOUS
  <2>1. k \in Nat /\ k + 1 \in 1..N /\ (k + 1) - 1 = k /\ k <= N
    BY <1>1
  <2>2. Sprouted(bs, lvls, k, f[k])
    BY <2>1
  <2>3. f[k + 1] = C!AddToTree(f[k], k + 1, blocks, lvls, target)
    BY <1>2, <1>3, <2>1
  <2>. DEFINE j == k + 1
  <2>4. j \in 1..N /\ j - 1 = k
    BY <2>1
  <2> HIDE DEF j
  <2>5. Sprouted(bs, lvls, j - 1, f[k])
    BY <2>2, <2>4
  <2>6. Sprouted(bs, lvls, j, C!AddToTree(f[k], j, blocks, lvls, target))
    BY <2>4, <2>5, TreeNext DEF bs
  <2> QED  BY <2>3, <2>6 DEF j
<1>7. Z \in SUBSET Nat
  OBVIOUS
<1> HIDE DEF Z
<1>8. N \in Z /\ N <= N
  <2>1. Z = Nat
    BY <1>5, <1>6, <1>7, NatSetInduction
  <2> QED  BY <1>1, <2>1
<1>9. Sprouted(bs, lvls, N, acc)
  BY <1>2, <1>8 DEF Z
<1>10. acc \in Trees /\ NodesTrue(bs, lvls, N, acc.nodes)
  BY <1>9 DEF Sprouted
<1>11. acc.nodes \in Seq(TreeNodes) /\ Len(acc.nodes) >= 1
  <2>1. /\ acc \in [stack : Seq(Nat), nodes : Seq(TreeNodes)] /\ Len(acc.stack) >= 1
        /\ \A j \in 1..Len(acc.stack) : acc.stack[j] \in 1..Len(acc.nodes)
    BY <1>10 DEF Trees
  <2>2. Len(acc.stack) \in Nat /\ Len(acc.nodes) \in Nat /\ acc.nodes \in Seq(TreeNodes)
    BY <2>1
  <2>3. acc.stack[1] \in 1..Len(acc.nodes)
    BY <2>1, <2>2
  <2> QED  BY <2>2, <2>3
<1> QED  BY <1>4, <1>10, <1>11 DEF TreeOf, bs

-----------------------------------------------------------------------------
(* What is under a heading.                                                *)

\* The blocks under a heading, itself included; all blocks are under the root.
Under(bs, lvls, N, t) == {b \in 1..N : t = 0 \/ t \in Over(bs, lvls, b)}

\* A block comes after the heading it stands under.
LEMMA HomeBefore ==
  ASSUME NEW bs, NEW lvls, NEW t \in Nat, NEW b \in Nat \ {0}, Home(bs, lvls, t, b)
  PROVE  t < b
PROOF
<1>1. t = 0 \/ (t \in Over(bs, lvls, b) /\ t # b)
  BY DEF Home
<1>2. Over(bs, lvls, b) \subseteq 1..b
  BY OverIsFinite
<1> QED  BY <1>1, <1>2

\* What is under a heading comes after it.
LEMMA UnderAfter ==
  ASSUME NEW bs, NEW lvls, NEW N \in Nat, NEW b \in 1..N, NEW x \in Under(bs, lvls, N, b)
  PROVE  b <= x /\ x \in 1..N
PROOF
<1>1. x \in 1..N /\ b \in Over(bs, lvls, x)
  BY DEF Under
<1>2. Over(bs, lvls, x) \subseteq 1..x
  BY <1>1, OverIsFinite
<1> QED  BY <1>1, <1>2

\* What is under one heading comes before what stands beside it and after it.
LEMMA UnderBeside ==
  ASSUME NEW bs, NEW lvls, NEW N \in Nat, NEW t \in Nat, NEW b \in 1..N, NEW c \in 1..N, b < c,
         Home(bs, lvls, t, b), Home(bs, lvls, t, c), NEW x \in Under(bs, lvls, N, b)
  PROVE  x < c
PROOF
<1>1. x \in 1..N /\ b \in Over(bs, lvls, x)
  BY DEF Under
<1>2. t < b
  BY HomeBefore
<1>3. SUFFICES ASSUME c <= x PROVE FALSE
  BY <1>1
<1>4. b \in bs /\ \A j \in (b + 1)..x : j \in bs => lvls[j] > lvls[b]
  BY <1>1 DEF Over
<1>5. b \in 1..c /\ \A j \in (b + 1)..c : j \in (b + 1)..x
  BY <1>1, <1>3
<1>6. b \in Over(bs, lvls, c)
  BY <1>4, <1>5 DEF Over
<1>7. b = c \/ b <= t
  BY <1>6 DEF Home
<1> QED  BY <1>2, <1>7

\* What is under a heading under t is under t.
LEMMA UnderUnder ==
  ASSUME NEW bs, NEW lvls, NEW N, Levelled(bs, lvls, N), NEW t \in Nat, NEW b \in 1..N,
         Home(bs, lvls, t, b), NEW x \in Under(bs, lvls, N, b)
  PROVE  x \in Under(bs, lvls, N, t) /\ x # t
PROOF
<1>1. N \in Nat
  BY DEF Levelled
<1>2. x \in 1..N /\ b \in Over(bs, lvls, x) /\ x \in 0..N
  BY <1>1 DEF Under
<1>3. t < b /\ b <= x
  BY <1>1, HomeBefore, UnderAfter
<1>4. t = 0 \/ t \in Over(bs, lvls, x)
  <2>1. t = 0 \/ t \in Over(bs, lvls, b)
    BY DEF Home
  <2> QED  BY <1>2, <2>1, OverOver
<1> QED  BY <1>2, <1>3, <1>4 DEF Under

\* A block that is no heading has the headings above the heading it stands under.
LEMMA HomeOver ==
  ASSUME NEW bs, NEW lvls, NEW N, Levelled(bs, lvls, N), NEW t \in Nat, NEW b \in 1..N, b \notin bs,
         Home(bs, lvls, t, b)
  PROVE  Over(bs, lvls, b) = Over(bs, lvls, t) /\ b \in Under(bs, lvls, N, t) /\ b # t
PROOF
<1>1. N \in Nat /\ b \in 0..N
  BY DEF Levelled
<1>2. t < b
  BY <1>1, HomeBefore
<1>3. \A h \in Over(bs, lvls, b) : h <= t /\ h \in Nat /\ h >= 1
  <2>1. Over(bs, lvls, b) \subseteq bs /\ Over(bs, lvls, b) \subseteq 1..b
    BY <1>1, OverIsFinite
  <2> QED  BY <2>1 DEF Home
<1>4. b \in Under(bs, lvls, N, t)
  BY DEF Under, Home
<1>5. CASE t = 0
  <2>1. Over(bs, lvls, b) = {}
    BY <1>3, <1>5
  <2>2. Over(bs, lvls, t) = {}
    BY <1>5, OverNone
  <2> QED  BY <1>2, <1>4, <2>1, <2>2
<1>6. CASE t \in Over(bs, lvls, b)
  <2>1. \A g : g \in Over(bs, lvls, t) <=> g \in Over(bs, lvls, b) /\ g <= t
    BY <1>1, <1>6, OverOver
  <2>2. Over(bs, lvls, b) = Over(bs, lvls, t)
    BY <1>3, <2>1
  <2> QED  BY <1>2, <1>4, <2>2
<1> QED  BY <1>5, <1>6 DEF Home

\* The headings above a heading are above those that stand under it.
LEMMA HomeMore ==
  ASSUME NEW bs, NEW lvls, NEW N, Levelled(bs, lvls, N), NEW t \in Nat, NEW b \in 1..N,
         Home(bs, lvls, t, b)
  PROVE  Over(bs, lvls, t) \subseteq Over(bs, lvls, b)
PROOF
<1>1. N \in Nat /\ b \in 0..N
  BY DEF Levelled
<1>2. CASE t = 0
  BY <1>2, OverNone
<1>3. CASE t \in Over(bs, lvls, b)
  BY <1>1, <1>3, OverOver
<1> QED  BY <1>2, <1>3 DEF Home

\* What is under a heading stands under it, or is under a heading that does.
LEMMA UnderIs ==
  ASSUME NEW bs, NEW lvls, NEW N, Levelled(bs, lvls, N), NEW t \in Nat, NEW x \in Under(bs, lvls, N, t), x # t
  PROVE  \/ Home(bs, lvls, t, x)
         \/ \E b \in 1..N : b \in bs /\ Home(bs, lvls, t, b) /\ x \in Under(bs, lvls, N, b)
PROOF
<1>. DEFINE z == Over(bs, lvls, x)
            s == {h \in z : t < h}
            g == {x + 1 - h : h \in s}
<1>1. N \in Nat /\ x \in 1..N /\ x \in 0..N /\ (t = 0 \/ t \in z)
  BY DEF Levelled, Under
<1>2. z \subseteq 1..x /\ z \subseteq bs /\ IsFiniteSet(z) /\ z \subseteq Nat
  BY <1>1, OverIsFinite
<1>3. CASE s = {}
  <2>1. \A h \in z : h <= t
    BY <1>2, <1>3
  <2> QED  BY <1>1, <2>1 DEF Home
<1>4. CASE s # {}
  <2>1. IsFiniteSet(s) /\ s \subseteq z
    BY <1>2, FS_Subset
  <2> HIDE DEF s
  <2>0. g \subseteq 1..x
    <3>1. \A h \in s : x + 1 - h \in 1..x
      BY <1>1, <1>2, <2>1
    <3> QED  BY <3>1
  <2>2. IsFiniteSet(g)
    <3>1. IsFiniteSet(1..x)
      BY <1>1, Interval
    <3> HIDE DEF g
    <3> QED  BY <2>0, <3>1, FS_Subset
  <2>3. g \in SUBSET Int /\ g # {}
    <3>1. PICK h \in s : TRUE
      BY <1>4
    <3>2. x + 1 - h \in g
      OBVIOUS
    <3> HIDE DEF g
    <3>3. 1..x \subseteq Int
      BY <1>1
    <3> QED  BY <2>0, <3>2, <3>3
  <2>4. PICK k \in g : \A y \in g : y <= k
    <3> HIDE DEF g
    <3> QED  BY <2>2, <2>3, Greatest
  <2>5. PICK b \in s : k = x + 1 - b
    OBVIOUS
  <2>6. \A h \in s : b <= h
    <3>1. \A h \in s : x + 1 - h \in g /\ h \in Nat
      BY <1>2, <2>1
    <3>2. \A h \in s : x + 1 - h <= x + 1 - b
      BY <2>4, <2>5, <3>1
    <3> QED  BY <1>1, <3>1, <3>2
  <2>7. b \in z /\ t < b /\ b \in bs /\ b \in 1..x /\ b \in Nat
    BY <1>2, <2>1 DEF s
  <2>8. b \in 1..N /\ x \in Under(bs, lvls, N, b)
    BY <1>1, <2>7 DEF Under
  <2>9. \A h : h \in Over(bs, lvls, b) <=> h \in z /\ h <= b
    BY <1>1, <2>7, OverOver
  <2>10. t = 0 \/ (t \in Over(bs, lvls, b) /\ t # b)
    BY <1>1, <2>7, <2>9
  <2>11. ASSUME NEW h \in Over(bs, lvls, b) PROVE h = b \/ h <= t
    <3>1. h \in z /\ h <= b /\ h \in Nat
      BY <1>2, <2>9, <2>11
    <3>2. t < h => h \in s
      BY <3>1 DEF s
    <3>3. t < h => b <= h
      BY <2>6, <3>2
    <3> QED  BY <2>7, <3>1, <3>3
  <2>12. Home(bs, lvls, t, b)
    BY <2>10, <2>11 DEF Home
  <2> QED  BY <2>7, <2>8, <2>12
<1> QED  BY <1>3, <1>4

-----------------------------------------------------------------------------
(* The chunks of a node.                                                   *)

\* Each of some headings is in the path of a chunk.
Names(c, h) == \E j \in 1..Len(c.path) : c.path[j] = h

Displays(cs, z) == \A h \in z : \E k \in 1..Len(cs) : Names(cs[k], h)

\* The chunks with the headings above t in their paths.
Below(lvls, bs, t) == {c \in Placed(lvls, bs) : \A h \in Over(bs, lvls, t) : Names(c, h)}

\* Those of the section of t are such.
LEMMA FromBelow ==
  ASSUME NEW lvls, NEW bs, NEW t \in Nat, NEW section, Opened(section, lvls, bs, t), NEW own,
         \A b \in own : Over(bs, lvls, b) = Over(bs, lvls, t)
  PROVE  From(section, own) \subseteq Below(lvls, bs, t)
PROOF
<1>1. From(section, own) \subseteq Placed(lvls, bs)
  BY FromPlaced
<1>2. ASSUME NEW c \in From(section, own), NEW h \in Over(bs, lvls, t) PROVE Names(c, h)
  <2>1. c.path = section.path
    BY DEF From, InSection
  <2>2. \E j \in 1..Len(section.path) : section.path[j] = h
    BY DEF Opened, Orderly
  <2> QED  BY <2>1, <2>2 DEF Names
<1> QED  BY <1>1, <1>2 DEF Below

\* More chunks show what they showed, and what the new ones show.
LEMMA ShowsBoth ==
  ASSUME NEW cs \in ChunkLists, NEW ds \in ChunkLists, NEW y, NEW z, Displays(cs, y), Displays(ds, z)
  PROVE  Displays(cs \o ds, y \cup z)
PROOF
<1>. DEFINE m == Len(cs)
            n == Len(ds)
            es == cs \o ds
<1>1. /\ m \in Nat /\ n \in Nat /\ Len(es) = m + n
      /\ \A k \in 1..m : es[k] = cs[k]
      /\ \A k \in 1..n : es[m + k] = ds[k]
  BY DEF ChunkLists
<1> HIDE DEF m, n, es
<1>2. ASSUME NEW h \in y PROVE \E k \in 1..(m + n) : Names(es[k], h)
  <2>1. PICK k \in 1..m : Names(cs[k], h)
    BY DEF Displays, m
  <2>2. k \in 1..(m + n)
    BY <1>1
  <2> QED  BY <1>1, <2>1, <2>2
<1>3. ASSUME NEW h \in z PROVE \E k \in 1..(m + n) : Names(es[k], h)
  <2>1. PICK k \in 1..n : Names(ds[k], h)
    BY DEF Displays, n
  <2>2. m + k \in 1..(m + n)
    BY <1>1
  <2> QED  BY <1>1, <2>1, <2>2
<1>4. Displays(es, y \cup z)
  BY <1>1, <1>2, <1>3 DEF Displays
<1> QED  BY <1>4 DEF es

\* The headings that are shown stay shown when texts or a block follow.
LEMMA FlushShows ==
  ASSUME NEW blocks, NEW N \in Nat, Blocks(blocks, N), NEW acc \in Buffers(N), NEW n \in Nat \ {0},
         NEW section \in AnySection, NEW z, Displays(acc.chunks, z)
  PROVE  Displays(C!TextFlushed(acc, blocks, n, section), z) /\ C!TextFlushed(acc, blocks, n, section) \in ChunkLists
PROOF
<1>. DEFINE ds == C!TextChunks(blocks, acc.buffer, n, section)
<1>1. acc.buffer \in Seq(1..N) /\ acc.chunks \in ChunkLists
  BY DEF Buffers
<1>2. ds \in ChunkLists
  BY <1>1, TextTyped
<1>3. C!TextFlushed(acc, blocks, n, section) = acc.chunks \o ds
  BY DEF C!TextFlushed
<1>4. Displays(ds, {})
  BY DEF Displays
<1> HIDE DEF ds
<1>5. Displays(acc.chunks \o ds, z \cup {})
  BY <1>1, <1>2, <1>4, ShowsBoth
<1>6. acc.chunks \o ds \in ChunkLists
  BY <1>1, <1>2 DEF ChunkLists
<1>7. z \cup {} = z
  OBVIOUS
<1> QED  BY <1>3, <1>5, <1>6, <1>7

\* So they do with a block.
LEMMA AddBlockShows ==
  ASSUME NEW blocks, NEW N \in Nat, Blocks(blocks, N), NEW acc \in Buffers(N), NEW i \in 1..N, NEW n \in Nat \ {0},
         NEW section \in AnySection, NEW z, Displays(acc.chunks, z)
  PROVE  Displays(C!AddBlock(acc, i, blocks, n, section).chunks, z)
PROOF
<1>. DEFINE more == C!AddBlock(acc, i, blocks, n, section)
            f == C!TextFlushed(acc, blocks, n, section)
            c == C!AtomicChunk(blocks, i, section)
            ds == << c >>
<1>1. Displays(f, z) /\ f \in ChunkLists
  BY FlushShows
<1>2. CASE blocks[i].kind \in C!AtomicKinds
  <2>1. more.chunks = Append(f, c)
    BY <1>2 DEF C!AddBlock
  <2>2. ds \in ChunkLists
    <3>1. Tells(blocks, ds, {i})
      BY <1>2, AtomicTold
    <3> QED  BY <3>1 DEF Tells
  <2> HIDE DEF f, c
  <2>3. Append(f, c) = f \o ds
    BY <1>1, <2>2 DEF ChunkLists
  <2>4. Displays(ds, {})
    BY DEF Displays
  <2> HIDE DEF ds, more
  <2>5. Displays(f \o ds, z \cup {})
    BY <1>1, <2>2, <2>4, ShowsBoth
  <2>6. z \cup {} = z
    OBVIOUS
  <2>7. Displays(more.chunks, z)
    BY <2>1, <2>3, <2>5, <2>6
  <2> QED  BY <2>7 DEF more
<1>3. CASE blocks[i].kind \notin C!AtomicKinds
  <2>1. more.chunks = acc.chunks
    BY <1>3 DEF C!AddBlock, Buffers
  <2> QED  BY <2>1
<1> QED  BY <1>2, <1>3

\* What chunks tell and show of all that is under a heading.
Told(blocks, bs, lvls, N, t, cs) ==
  /\ Tells(blocks, cs, Under(bs, lvls, N, t) \ bs)
  /\ AllIn(cs, Below(lvls, bs, t))
  /\ Displays(cs, Under(bs, lvls, N, t) \cap bs)

\* The blocks with the headings of t above them, and no other ones.
Own(bs, lvls, N, t) == {b \in 1..N : b \notin bs /\ Over(bs, lvls, b) = Over(bs, lvls, t)}

\* What the loop over the items of t has done when it has come through z.
Gathered(blocks, bs, lvls, N, t, acc, z) ==
  /\ Carried(blocks, N, acc, z \ bs, Own(bs, lvls, N, t), Below(lvls, bs, t))
  /\ Displays(acc.chunks, z \cap bs)

\* The blocks an item stands for.
Part(bs, lvls, N, item) == IF item.node = 0 THEN {item.block} ELSE Under(bs, lvls, N, item.block)

\* A node, its section, and an item of it with its chunks.
Hangs(blocks, bs, lvls, N, t, item, below) ==
  /\ item \in Leaves /\ item.block \in 1..N
  /\ Home(bs, lvls, t, item.block)
  /\ item.node = 0 => item.block \notin bs
  /\ item.node # 0 => item.block \in bs /\ Told(blocks, bs, lvls, N, item.block, below[item.node])

\* The sections of what is under t.
LEMMA OwnBelow ==
  ASSUME NEW bs, NEW lvls, NEW N, NEW t \in Nat, NEW section, Opened(section, lvls, bs, t)
  PROVE  From(section, Own(bs, lvls, N, t)) \subseteq Below(lvls, bs, t)
PROOF
<1>. DEFINE own == Own(bs, lvls, N, t)
<1>1. \A b \in own : Over(bs, lvls, b) = Over(bs, lvls, t)
  BY DEF Own
<1> HIDE DEF own
<1>2. From(section, own) \subseteq Below(lvls, bs, t)
  BY <1>1, FromBelow
<1> QED  BY <1>2 DEF own

\* A block directly under t.
LEMMA ItemBlock ==
  ASSUME NEW blocks, NEW bs, NEW lvls, NEW N, Blocks(blocks, N), Levelled(bs, lvls, N), NEW t \in Nat,
         NEW section \in AnySection, Opened(section, lvls, bs, t), NEW n \in Nat \ {0}, NEW acc, NEW z \in SUBSET Nat,
         Gathered(blocks, bs, lvls, N, t, acc, z), NEW b \in 1..N, b \notin bs, Home(bs, lvls, t, b),
         \A a \in z : a < b
  PROVE  Gathered(blocks, bs, lvls, N, t, C!AddBlock(acc, b, blocks, n, section), z \cup {b})
PROOF
<1>. DEFINE own == Own(bs, lvls, N, t)
            good == Below(lvls, bs, t)
            more == C!AddBlock(acc, b, blocks, n, section)
<1>1. N \in Nat
  BY DEF Levelled
<1>2. Carried(blocks, N, acc, z \ bs, own, good) /\ Displays(acc.chunks, z \cap bs) /\ acc \in Buffers(N)
  BY DEF Gathered, Carried
<1>3. b \in own
  BY HomeOver DEF Own
<1>4. From(section, own) \subseteq good
  BY OwnBelow
<1>. DEFINE y == z \ bs
            x == z \cap bs
<1>5. (z \cup {b}) \ bs = y \cup {b} /\ (z \cup {b}) \cap bs = x /\ \A a \in y : a < b
  OBVIOUS
<1> HIDE DEF own, good, y, x
<1>6. Carried(blocks, N, acc, y, own, good) /\ Displays(acc.chunks, x)
  BY <1>2 DEF y, x
<1>7. Carried(blocks, N, more, y \cup {b}, own, good)
  BY <1>1, <1>3, <1>4, <1>5, <1>6, AddBlockCarries
<1>8. Displays(more.chunks, x)
  BY <1>1, <1>2, <1>6, AddBlockShows
<1> HIDE DEF more
<1>9. Gathered(blocks, bs, lvls, N, t, more, z \cup {b})
  BY <1>5, <1>7, <1>8 DEF Gathered, own, good
<1> QED  BY <1>9 DEF more

\* Without anything in the buffer.
LEMMA AllCarried ==
  ASSUME NEW blocks, NEW N \in Nat, NEW cs, NEW z \in SUBSET Nat, NEW own, NEW good, Tells(blocks, cs, z), AllIn(cs, good)
  PROVE  Carried(blocks, N, [buffer |-> << >>, chunks |-> cs], z, own, good)
PROOF
<1>. DEFINE e == << >>
            acc == [buffer |-> e, chunks |-> cs]
<1>1. e \in Seq(1..N) /\ Len(e) = 0 /\ Ascends(e, N) /\ Those(e) = {}
  BY DEF Ascends, Those
<1>2. cs \in ChunkLists
  BY DEF Tells
<1> HIDE DEF e
<1>3. acc.buffer = e /\ acc.chunks = cs /\ acc \in Buffers(N)
  BY <1>1, <1>2 DEF Buffers
<1> HIDE DEF acc
<1>4. z = z \cup {} /\ \A a \in z, b \in {} : a < b
  OBVIOUS
<1>5. Partly(blocks, cs, {}, z)
  BY <1>4 DEF Partly
<1>6. \A j \in 1..Len(acc.buffer) : blocks[acc.buffer[j]].kind \notin C!AtomicKinds
  BY <1>1, <1>3
<1>7. Ascends(acc.buffer, N) /\ AllIn(acc.chunks, good) /\ Those(acc.buffer) = {} /\ {} \subseteq own
  BY <1>1, <1>3
<1>8. Carried(blocks, N, acc, z, own, good)
  BY <1>3, <1>5, <1>6, <1>7 DEF Carried
<1> QED  BY <1>8 DEF acc, e

\* A heading directly under t, with the chunks of its node.
LEMMA ItemNode ==
  ASSUME NEW blocks, NEW bs, NEW lvls, NEW N, Blocks(blocks, N), Levelled(bs, lvls, N), NEW t \in Nat,
         NEW section \in AnySection, Opened(section, lvls, bs, t), NEW n \in Nat \ {0}, NEW acc, NEW z \in SUBSET Nat,
         Gathered(blocks, bs, lvls, N, t, acc, z), NEW b \in 1..N, Home(bs, lvls, t, b),
         NEW ds, Told(blocks, bs, lvls, N, b, ds), \A a \in z : a < b
  PROVE  Gathered(blocks, bs, lvls, N, t,
                  [buffer |-> << >>, chunks |-> C!TextFlushed(acc, blocks, n, section) \o ds],
                  z \cup Under(bs, lvls, N, b))
PROOF
<1>. DEFINE own == Own(bs, lvls, N, t)
            good == Below(lvls, bs, t)
            f == C!TextFlushed(acc, blocks, n, section)
            u == Under(bs, lvls, N, b)
            y == z \ bs
            x == z \cap bs
            v == u \ bs
            w == u \cap bs
            es == f \o ds
            more == [buffer |-> << >>, chunks |-> es]
<1>1. N \in Nat /\ b \in Nat
  BY DEF Levelled
<1>2. Carried(blocks, N, acc, y, own, good) /\ Displays(acc.chunks, x) /\ acc \in Buffers(N)
  BY DEF Gathered, Carried
<1>3. From(section, own) \subseteq good
  BY OwnBelow
<1>4. Tells(blocks, ds, v) /\ AllIn(ds, Below(lvls, bs, b)) /\ Displays(ds, w)
  BY DEF Told
<1>5. Below(lvls, bs, b) \subseteq good
  BY HomeMore DEF Below
<1>6. \A c \in u : b <= c /\ c \in Nat
  BY <1>1, UnderAfter
<1>7. y \in SUBSET Nat /\ v \in SUBSET Nat /\ \A a \in y, c \in v : a < c
  <2>1. y \subseteq z /\ v \subseteq u
    OBVIOUS
  <2> HIDE DEF y, v, u
  <2>2. \A a \in y : a \in Nat /\ a < b
    BY <2>1
  <2>3. \A c \in v : c \in Nat /\ b <= c
    BY <1>6, <2>1
  <2> QED  BY <1>1, <2>2, <2>3
<1>8. (z \cup u) \ bs = y \cup v /\ (z \cup u) \cap bs = x \cup w
  OBVIOUS
<1> HIDE DEF own, good, u, y, x, v, w
<1>9. Tells(blocks, f, y) /\ AllIn(f, good) /\ Displays(f, x) /\ f \in ChunkLists
  <2>1. Tells(blocks, f, y) /\ AllIn(f, good)
    BY <1>1, <1>2, <1>3, FlushTells
  <2>2. Displays(f, x) /\ f \in ChunkLists
    BY <1>1, <1>2, FlushShows
  <2> QED  BY <2>1, <2>2
<1> HIDE DEF f
<1>10. ds \in ChunkLists /\ AllIn(ds, good)
  BY <1>4, <1>5 DEF Tells, AllIn
<1>11. Tells(blocks, es, y \cup v)
  BY <1>4, <1>7, <1>9, TellsBoth
<1>12. AllIn(es, good)
  BY <1>9, <1>10, AllInBoth
<1>13. Displays(es, x \cup w)
  BY <1>4, <1>9, <1>10, ShowsBoth
<1> HIDE DEF es
<1>14. y \cup v \in SUBSET Nat
  BY <1>7
<1>. DEFINE yv == y \cup v
<1>15. Carried(blocks, N, more, yv, own, good)
  <2>1. Tells(blocks, es, yv) /\ yv \in SUBSET Nat
    BY <1>11, <1>14
  <2> HIDE DEF yv
  <2> QED  BY <1>1, <1>12, <2>1, AllCarried
<1>16. more.chunks = es
  OBVIOUS
<1> HIDE DEF more
<1>17. Gathered(blocks, bs, lvls, N, t, more, z \cup u)
  BY <1>8, <1>13, <1>15, <1>16 DEF Gathered, own, good
<1> QED  BY <1>17 DEF more, u, es, f

\* The next item.
LEMMA ItemNext ==
  ASSUME NEW blocks, NEW bs, NEW lvls, NEW N, Blocks(blocks, N), Levelled(bs, lvls, N), NEW t \in Nat,
         NEW section \in AnySection, Opened(section, lvls, bs, t), NEW n \in Nat \ {0}, NEW acc, NEW z \in SUBSET Nat,
         Gathered(blocks, bs, lvls, N, t, acc, z), NEW item, NEW below,
         Hangs(blocks, bs, lvls, N, t, item, below), \A a \in z : a < item.block
  PROVE  Gathered(blocks, bs, lvls, N, t, C!AddItem(acc, item, blocks, n, section, below),
                  z \cup Part(bs, lvls, N, item))
PROOF
<1>. DEFINE b == item.block
            d == item.node
            ds == below[d]
<1>1. /\ b \in 1..N /\ Home(bs, lvls, t, b)
      /\ d = 0 => b \notin bs
      /\ d # 0 => Told(blocks, bs, lvls, N, b, ds)
      /\ \A a \in z : a < b
  BY DEF Hangs
<1>2. /\ d = 0 => C!AddItem(acc, item, blocks, n, section, below) = C!AddBlock(acc, b, blocks, n, section)
      /\ d # 0 => C!AddItem(acc, item, blocks, n, section, below) =
                    [buffer |-> << >>, chunks |-> C!TextFlushed(acc, blocks, n, section) \o ds]
  BY DEF C!AddItem
<1>3. /\ d = 0 => Part(bs, lvls, N, item) = {b}
      /\ d # 0 => Part(bs, lvls, N, item) = Under(bs, lvls, N, b)
  BY DEF Part
<1> HIDE DEF b, d, ds
<1>4. ASSUME d = 0
      PROVE  Gathered(blocks, bs, lvls, N, t, C!AddItem(acc, item, blocks, n, section, below),
                      z \cup Part(bs, lvls, N, item))
  <2>1. b \notin bs
    BY <1>1, <1>4
  <2>2. Gathered(blocks, bs, lvls, N, t, C!AddBlock(acc, b, blocks, n, section), z \cup {b})
    BY <1>1, <2>1, ItemBlock
  <2> QED  BY <1>2, <1>3, <1>4, <2>2
<1>5. ASSUME d # 0
      PROVE  Gathered(blocks, bs, lvls, N, t, C!AddItem(acc, item, blocks, n, section, below),
                      z \cup Part(bs, lvls, N, item))
  <2>1. Told(blocks, bs, lvls, N, b, ds)
    BY <1>1, <1>5
  <2>2. Gathered(blocks, bs, lvls, N, t,
                 [buffer |-> << >>, chunks |-> C!TextFlushed(acc, blocks, n, section) \o ds],
                 z \cup Under(bs, lvls, N, b))
    BY <1>1, <2>1, ItemNode
  <2> QED  BY <1>2, <1>3, <1>5, <2>2
<1> QED  BY <1>4, <1>5

\* An item is a block, or a node that has chunks.
Gives(N, item, below) ==
  /\ item \in Leaves
  /\ item.node = 0 => item.block \in 1..N
  /\ item.node # 0 => below[item.node] \in ChunkLists

\* What the loop over the items is given.
ItemsGiven(blocks, N, list, m, n, section, below) ==
  /\ N \in Nat /\ Blocks(blocks, N)
  /\ list \in Seq(Leaves) /\ m \in Nat /\ m = Len(list)
  /\ n \in Nat \ {0} /\ section \in AnySection
  /\ \A j \in 1..m : Gives(N, list[j], below)

\* AddItem keeps a buffer and chunks.
LEMMA ItemTyped ==
  ASSUME NEW blocks, NEW N \in Nat, Blocks(blocks, N), NEW acc \in Buffers(N), NEW n \in Nat \ {0},
         NEW section \in AnySection, NEW item, NEW below, Gives(N, item, below)
  PROVE  C!AddItem(acc, item, blocks, n, section, below) \in Buffers(N)
PROOF
<1>. DEFINE more == C!AddItem(acc, item, blocks, n, section, below)
<1>1. CASE item.node = 0
  <2>1. more = C!AddBlock(acc, item.block, blocks, n, section) /\ item.block \in 1..N
    BY <1>1 DEF C!AddItem, Gives
  <2> QED  BY <2>1, AddBlockTyped
<1>2. CASE item.node # 0
  <2>. DEFINE f == C!TextFlushed(acc, blocks, n, section)
              ds == below[item.node]
              es == f \o ds
  <2>1. more = [buffer |-> << >>, chunks |-> es] /\ ds \in ChunkLists
    BY <1>2 DEF C!AddItem, Gives
  <2>2. f \in ChunkLists
    <3>1. Displays(acc.chunks, {})
      BY DEF Displays
    <3> QED  BY <3>1, FlushShows
  <2> HIDE DEF f, ds, more
  <2>3. es \in ChunkLists
    BY <2>1, <2>2 DEF ChunkLists
  <2> HIDE DEF es
  <2>4. << >> \in Seq(1..N)
    OBVIOUS
  <2>5. more \in Buffers(N)
    BY <2>1, <2>3, <2>4 DEF Buffers
  <2> QED  BY <2>5 DEF more
<1> QED  BY <1>1, <1>2

\* The loop of _collect_node.
ItemLoop(blocks, list, n, section, below) ==
  C!FoldLeft(LAMBDA acc, item : C!AddItem(acc, item, blocks, n, section, below), NoChunks, list)

\* What it has done, item after item.
LEMMA ItemsAre ==
  ASSUME NEW blocks, NEW N, NEW list, NEW m, NEW n, NEW section, NEW below,
         ItemsGiven(blocks, N, list, m, n, section, below)
  PROVE  \E f \in [0..m -> Buffers(N)] :
           /\ f[0] = NoChunks
           /\ \A i \in 1..m : f[i] = C!AddItem(f[i - 1], list[i], blocks, n, section, below)
           /\ f[m] = ItemLoop(blocks, list, n, section, below)
PROOF
<1>. DEFINE st == [i \in 1..m |-> [a \in Buffers(N) |-> C!AddItem(a, list[i], blocks, n, section, below)]]
            F(it, s) == IF s = {} THEN NoChunks ELSE C!AddItem(it[s \ {Top(s)}], list[Top(s)], blocks, n, section, below)
            iter == CHOOSE it : it = [s \in SUBSET (1..m) |-> F(it, s)]
<1>0. /\ N \in Nat /\ Blocks(blocks, N) /\ list \in Seq(Leaves) /\ m \in Nat /\ m = Len(list)
      /\ n \in Nat \ {0} /\ section \in AnySection
      /\ \A j \in 1..m : Gives(N, list[j], below)
  BY DEF ItemsGiven
<1>1. ItemLoop(blocks, list, n, section, below) = iter[1..m]
  <2>1. DOMAIN list = 1..m
    BY <1>0
  <2> QED  BY <2>1 DEF ItemLoop, C!FoldLeft, C!MapThenFoldSet, Top
<1>2. \A i \in 1..m : \A a \in Buffers(N) : st[i][a] = C!AddItem(a, list[i], blocks, n, section, below) /\ st[i][a] \in Buffers(N)
  BY <1>0, ItemTyped
<1>3. NoChunks \in Buffers(N)
  BY DEF Buffers, ChunkLists, NoChunks
<1> HIDE DEF st
<1>4. Keep(st, Buffers(N), m)
  BY <1>2 DEF Keep
<1>5. \E it : it = [s \in SUBSET (1..m) |-> F(it, s)]
  <2>1. PICK it : Iterates(it, Buffers(N), NoChunks, m, st)
    BY <1>0, <1>3, <1>4, FoldTyped
  <2>2. ASSUME NEW s \in SUBSET (1..m)
        PROVE  it[s] = F(it, s)
    <3>1. s \ {Top(s)} \in SUBSET (1..m)
      OBVIOUS
    <3> QED  BY <1>0, <1>2, <2>1, <3>1, TopIs DEF Iterates
  <2> HIDE DEF F
  <2>3. it = [s \in SUBSET (1..m) |-> F(it, s)]
    BY <2>1, <2>2 DEF Iterates
  <2> QED  BY <2>3
<1>6. iter = [s \in SUBSET (1..m) |-> F(iter, s)]
  <2> HIDE DEF F
  <2> QED  BY <1>5
<1> HIDE DEF iter
<1>7. \A s \in SUBSET (1..m) : iter[s] = F(iter, s)
  <2> HIDE DEF F
  <2> QED  BY <1>6
<1>8. Goes(iter, Buffers(N), NoChunks, m, st)
  <2>1. iter[{}] = NoChunks
    BY <1>7
  <2>2. ASSUME NEW s \in SUBSET (1..m), s # {}, iter[s \ {Top(s)}] \in Buffers(N)
        PROVE  iter[s] = st[Top(s)][iter[s \ {Top(s)}]]
    <3>1. Top(s) \in 1..m
      BY <1>0, <2>2, TopIs
    <3>2. iter[s] = C!AddItem(iter[s \ {Top(s)}], list[Top(s)], blocks, n, section, below)
      BY <1>7, <2>2
    <3> QED  BY <1>2, <2>2, <3>1, <3>2
  <2> QED  BY <2>1, <2>2 DEF Goes
<1>9. PICK f : IsWay(f, Buffers(N), NoChunks, m, st) /\ f[m] = iter[1..m]
  BY <1>0, <1>3, <1>4, <1>8, FoldWay
<1>10. ASSUME NEW i \in 1..m
       PROVE  f[i] = C!AddItem(f[i - 1], list[i], blocks, n, section, below)
  <2>1. i - 1 \in 0..m
    BY <1>0
  <2>2. f[i - 1] \in Buffers(N) /\ f[i] = st[i][f[i - 1]]
    BY <1>9, <2>1 DEF IsWay
  <2> QED  BY <1>2, <2>2
<1> QED  BY <1>1, <1>9, <1>10 DEF IsWay

\* What the first k items stand for.
Carries(bs, lvls, N, its, k) == UNION {Part(bs, lvls, N, its[j]) : j \in 1..k}

\* An item adds the chunks of what it carries.
LEMMA PartsNext ==
  ASSUME NEW bs, NEW lvls, NEW N, NEW its, NEW k \in Nat
  PROVE  Carries(bs, lvls, N, its, k + 1) = Carries(bs, lvls, N, its, k) \cup Part(bs, lvls, N, its[k + 1])
PROOF
<1>1. \A j : j \in 1..(k + 1) <=> j \in 1..k \/ j = k + 1
  OBVIOUS
<1>. DEFINE P(j) == Part(bs, lvls, N, its[j])
<1> HIDE DEF P
<1>2. UNION {P(j) : j \in 1..(k + 1)} = (UNION {P(j) : j \in 1..k}) \cup P(k + 1)
  BY <1>1
<1> QED  BY <1>2 DEF P, Carries

\* All items of a node, with the chunks of the nodes below it.
HangAll(blocks, bs, lvls, N, t, its, below) ==
  /\ its \in Seq(Leaves)
  /\ \A j \in 1..Len(its) : Hangs(blocks, bs, lvls, N, t, its[j], below)
  /\ \A j, k \in 1..Len(its) : j < k => its[j].block < its[k].block
  /\ \A b \in 1..N : Home(bs, lvls, t, b) => \E j \in 1..Len(its) : its[j].block = b

\* What an item stands for comes before the next items.
LEMMA PartBefore ==
  ASSUME NEW blocks, NEW bs, NEW lvls, NEW N \in Nat, NEW t \in Nat, NEW its, NEW below,
         HangAll(blocks, bs, lvls, N, t, its, below), NEW j \in 1..Len(its), NEW k \in 1..Len(its), j < k,
         NEW x \in Part(bs, lvls, N, its[j])
  PROVE  x < its[k].block /\ x \in Nat
PROOF
<1>. DEFINE b == its[j].block
            c == its[k].block
            d == its[j].node
<1>1. b \in 1..N /\ c \in 1..N /\ Home(bs, lvls, t, b) /\ Home(bs, lvls, t, c) /\ b < c
  BY DEF HangAll, Hangs
<1>2. Part(bs, lvls, N, its[j]) = IF d = 0 THEN {b} ELSE Under(bs, lvls, N, b)
  BY DEF Part
<1> HIDE DEF b, c, d
<1>3. CASE d = 0
  BY <1>1, <1>2, <1>3 DEF c
<1>4. CASE d # 0
  <2>1. x \in Under(bs, lvls, N, b)
    BY <1>2, <1>4
  <2>2. x < c
    BY <1>1, <2>1, UnderBeside
  <2>3. x \in 1..N
    BY <2>1 DEF Under
  <2> QED  BY <2>2, <2>3 DEF c
<1> QED  BY <1>3, <1>4

\* The items of a node stand for all that is under it.
LEMMA PartsAll ==
  ASSUME NEW blocks, NEW bs, NEW lvls, NEW N, Levelled(bs, lvls, N), NEW t \in Nat, NEW its, NEW below,
         HangAll(blocks, bs, lvls, N, t, its, below)
  PROVE  Carries(bs, lvls, N, its, Len(its)) = Under(bs, lvls, N, t) \ {t}
PROOF
<1>. DEFINE m == Len(its)
            z == Carries(bs, lvls, N, its, m)
            u == Under(bs, lvls, N, t)
<1>0. N \in Nat
  BY DEF Levelled
<1>1. ASSUME NEW x \in z PROVE x \in u /\ x # t
  <2>1. PICK j \in 1..m : x \in Part(bs, lvls, N, its[j])
    BY DEF Carries
  <2>. DEFINE b == its[j].block
              d == its[j].node
  <2>2. /\ b \in 1..N /\ Home(bs, lvls, t, b) /\ (d = 0 => b \notin bs)
    BY DEF HangAll, Hangs
  <2>3. Part(bs, lvls, N, its[j]) = IF d = 0 THEN {b} ELSE Under(bs, lvls, N, b)
    BY DEF Part
  <2> HIDE DEF b, d
  <2>4. CASE d = 0
    BY <2>1, <2>2, <2>3, <2>4, HomeOver
  <2>5. CASE d # 0
    BY <2>1, <2>2, <2>3, <2>5, UnderUnder
  <2> QED  BY <2>4, <2>5
<1>2. ASSUME NEW x \in u, x # t PROVE x \in z
  <2>1. PICK b \in 1..N : Home(bs, lvls, t, b) /\ (x = b \/ (b \in bs /\ x \in Under(bs, lvls, N, b)))
    <3>1. x \in 1..N
      BY DEF Under
    <3> QED  BY <1>2, <3>1, UnderIs
  <2>2. PICK j \in 1..m : its[j].block = b
    BY <2>1 DEF HangAll, m
  <2>3. its[j].node = 0 => b \notin bs
    BY <2>2 DEF HangAll, Hangs
  <2>4. its[j].node # 0 => b \in bs
    BY <2>2 DEF HangAll, Hangs
  <2>5. b \in bs => b \in Under(bs, lvls, N, b)
    <3>1. b \in bs => b \in Over(bs, lvls, b)
      BY <1>0 DEF Over
    <3> QED  BY <3>1 DEF Under
  <2>6. x \in Part(bs, lvls, N, its[j])
    BY <2>1, <2>2, <2>3, <2>4, <2>5 DEF Part
  <2> QED  BY <2>6 DEF Carries
<1> HIDE DEF z, u
<1>3. \A x : x \in z <=> x \in u /\ x # t
  BY <1>1, <1>2
<1>4. z = u \ {t}
  BY <1>3
<1> QED  BY <1>4 DEF z, u, m

\* The loop comes through all that is under the node.
LEMMA ItemsGathered ==
  ASSUME NEW blocks, NEW bs, NEW lvls, NEW N, Blocks(blocks, N), Levelled(bs, lvls, N), NEW t \in Nat,
         NEW section, Opened(section, lvls, bs, t), NEW n \in Nat \ {0}, NEW its, NEW below,
         HangAll(blocks, bs, lvls, N, t, its, below)
  PROVE  Gathered(blocks, bs, lvls, N, t, ItemLoop(blocks, its, n, section, below), Under(bs, lvls, N, t) \ {t})
PROOF
<1>. DEFINE m == Len(its)
            acc == ItemLoop(blocks, its, n, section, below)
            z(k) == Carries(bs, lvls, N, its, k)
<1>1. N \in Nat /\ its \in Seq(Leaves) /\ m \in Nat /\ section \in AnySection
  BY DEF Levelled, HangAll, Opened
<1>2. \A j \in 1..m : Hangs(blocks, bs, lvls, N, t, its[j], below)
  BY DEF HangAll
<1>3. ItemsGiven(blocks, N, its, m, n, section, below)
  <2>1. ASSUME NEW j \in 1..m PROVE Gives(N, its[j], below)
    BY <1>2 DEF Hangs, Gives, Told, Tells
  <2> QED  BY <1>1, <2>1 DEF ItemsGiven
<1>4. PICK f \in [0..m -> Buffers(N)] :
        /\ f[0] = NoChunks
        /\ \A i \in 1..m : f[i] = C!AddItem(f[i - 1], its[i], blocks, n, section, below)
        /\ f[m] = acc
  <2> HIDE DEF acc, m
  <2>1. acc = ItemLoop(blocks, its, n, section, below)
    BY DEF acc
  <2>2. \E f \in [0..m -> Buffers(N)] :
          /\ f[0] = NoChunks
          /\ \A i \in 1..m : f[i] = C!AddItem(f[i - 1], its[i], blocks, n, section, below)
          /\ f[m] = ItemLoop(blocks, its, n, section, below)
    BY <1>3, ItemsAre
  <2> QED  BY <2>1, <2>2
<1>5. \A k \in 1..m : \A a \in z(k - 1) : a < its[k].block /\ a \in Nat
  <2>1. ASSUME NEW k \in 1..m, NEW a \in z(k - 1) PROVE a < its[k].block /\ a \in Nat
    <3>1. PICK j \in 1..(k - 1) : a \in Part(bs, lvls, N, its[j])
      BY DEF Carries
    <3>2. j \in 1..m /\ j < k
      BY <1>1
    <3> QED  BY <1>1, <3>1, <3>2, PartBefore DEF m
  <2> QED  BY <2>1
<1> HIDE DEF acc
<1>6. z(m) = Under(bs, lvls, N, t) \ {t}
  BY PartsAll
<1>7. \A k \in Nat : z(k + 1) = z(k) \cup Part(bs, lvls, N, its[k + 1])
  BY PartsNext
<1>8. z(0) = {}
  BY DEF Carries
<1> HIDE DEF m, z
<1>. DEFINE Z == {k \in Nat : k <= m => Gathered(blocks, bs, lvls, N, t, f[k], z(k))}
<1>9. 0 \in Z
  <2>1. Carried(blocks, N, NoChunks, {}, Own(bs, lvls, N, t), Below(lvls, bs, t))
    BY <1>1, NothingCarried
  <2>2. {} \ bs = {} /\ {} \cap bs = {} /\ Displays(NoChunks.chunks, {})
    BY DEF Displays
  <2>3. Gathered(blocks, bs, lvls, N, t, NoChunks, {})
    BY <2>1, <2>2 DEF Gathered
  <2> QED  BY <1>4, <1>8, <2>3
<1>10. ASSUME NEW k \in Z PROVE k + 1 \in Z
  <2>. SUFFICES ASSUME k + 1 <= m PROVE Gathered(blocks, bs, lvls, N, t, f[k + 1], z(k + 1))
    OBVIOUS
  <2>1. k \in Nat /\ k + 1 \in 1..m /\ (k + 1) - 1 = k /\ k <= m
    BY <1>1
  <2>2. Gathered(blocks, bs, lvls, N, t, f[k], z(k))
    BY <2>1
  <2>. DEFINE item == its[k + 1]
              y == z(k)
  <2>3. f[k + 1] = C!AddItem(f[k], item, blocks, n, section, below)
    BY <1>4, <2>1
  <2>4. z(k + 1) = y \cup Part(bs, lvls, N, item)
    BY <1>7, <2>1
  <2>5. \A a \in y : a < item.block /\ a \in Nat
    BY <1>5, <2>1
  <2>6. Hangs(blocks, bs, lvls, N, t, item, below)
    BY <1>2, <2>1
  <2>7. Gathered(blocks, bs, lvls, N, t, f[k], y)
    BY <2>2
  <2> HIDE DEF y, item
  <2>8. y \in SUBSET Nat
    BY <2>5
  <2>9. Gathered(blocks, bs, lvls, N, t, C!AddItem(f[k], item, blocks, n, section, below),
                 y \cup Part(bs, lvls, N, item))
    BY <1>1, <2>5, <2>6, <2>7, <2>8, ItemNext
  <2> QED  BY <2>3, <2>4, <2>9
<1>11. Z \in SUBSET Nat
  OBVIOUS
<1> HIDE DEF Z
<1>12. m \in Z /\ m <= m
  <2>1. Z = Nat
    BY <1>9, <1>10, <1>11, NatSetInduction
  <2> QED  BY <1>1, <2>1
<1>13. Gathered(blocks, bs, lvls, N, t, acc, z(m))
  BY <1>4, <1>12 DEF Z
<1> QED  BY <1>6, <1>13 DEF acc

\* What is left for the body is never nothing.
LEMMA BodyLimitIs ==
  ASSUME NEW blocks, NEW N \in Nat, Blocks(blocks, N), NEW path, Ascends(path, N), NEW n \in Nat \ {0}
  PROVE  C!BodyLimit(blocks, path, n) \in Nat \ {0}
PROOF
<1>. DEFINE text == C!Join(blocks, path)
            len == Len(text)
<1>1. text \in Text
  BY JoinFits DEF Fits
<1>2. len \in Nat
  BY <1>1 DEF Text
<1> HIDE DEF len
<1>. DEFINE left == n - len - 1
<1>3. left \in Int
  BY <1>2
<1>4. C!BodyLimit(blocks, path, n) = IF path = << >> THEN n ELSE IF left < 1 THEN 1 ELSE left
  BY DEF C!BodyLimit, len
<1> HIDE DEF left
<1> QED  BY <1>3, <1>4

\* A chunk of the headings alone.
PathChunk(section) == C!Chunk("text", section, << >>, << >>)

\* It is a chunk, of the path and of nothing else.
LEMMA PathChunkIs ==
  ASSUME NEW section \in AnySection
  PROVE  LET c == PathChunk(section)
         IN /\ c \in AnyChunk /\ c.kind = "text" /\ c.path = section.path /\ c.level = section.level
            /\ c.body = << >> /\ c.blocks = << >> /\ << c >> \in ChunkLists
PROOF
<1>. DEFINE c == PathChunk(section)
            e == << >>
<1>1. e \in Text /\ e \in Seq(Nat)
  BY DEF Text
<1>2. section.path \in Seq(Nat) /\ section.level \in Nat
  BY DEF AnySection
<1> HIDE DEF e
<1>3. c = [kind |-> "text", path |-> section.path, level |-> section.level, body |-> e, blocks |-> e]
  BY DEF PathChunk, C!Chunk, e
<1> HIDE DEF c
<1>4. c \in AnyChunk
  BY <1>1, <1>2, <1>3 DEF AnyChunk
<1>5. << c >> \in ChunkLists
  BY <1>4 DEF ChunkLists
<1> QED  BY <1>3, <1>4, <1>5 DEF c, e

\* The chunks of the items of a node.
Collected(blocks, node, n, below) ==
  LET limit == C!BodyLimit(blocks, node.section.path, n)
  IN C!TextFlushed(ItemLoop(blocks, node.items, limit, node.section, below), blocks, limit, node.section)

\* The chunks of a node are those, or the one of its path.
LEMMA NodeIs ==
  ASSUME NEW blocks, NEW node, NEW n, NEW below
  PROVE  LET collected == Collected(blocks, node, n, below)
         IN C!NodeChunks(blocks, node, n, below) =
              IF node.section # C!Root /\ collected = << >> THEN << PathChunk(node.section) >> ELSE collected
PROOF
  BY DEF C!NodeChunks, Collected, ItemLoop, NoChunks, PathChunk

\* A node whose items are blocks and nodes that have chunks.
NodeGiven(blocks, N, node, n, below) ==
  /\ N \in Nat /\ Blocks(blocks, N) /\ n \in Nat \ {0}
  /\ node.section \in AnySection /\ Ascends(node.section.path, N)
  /\ node.items \in Seq(Leaves)
  /\ \A j \in 1..Len(node.items) : Gives(N, node.items[j], below)

\* _collect_node makes chunks.
LEMMA NodeTyped ==
  ASSUME NEW blocks, NEW N, NEW node, NEW n, NEW below, NodeGiven(blocks, N, node, n, below)
  PROVE  C!NodeChunks(blocks, node, n, below) \in ChunkLists
PROOF
<1>. DEFINE limit == C!BodyLimit(blocks, node.section.path, n)
            list == node.items
            section == node.section
            m == Len(list)
            acc == ItemLoop(blocks, list, limit, section, below)
            collected == Collected(blocks, node, n, below)
<1>1. /\ N \in Nat /\ Blocks(blocks, N) /\ n \in Nat \ {0} /\ section \in AnySection
      /\ Ascends(section.path, N) /\ list \in Seq(Leaves) /\ m \in Nat
      /\ \A j \in 1..m : Gives(N, list[j], below)
  BY DEF NodeGiven
<1>2. limit \in Nat \ {0}
  BY <1>1, BodyLimitIs
<1>3. collected = C!TextFlushed(acc, blocks, limit, section)
  BY DEF Collected
<1>4. C!NodeChunks(blocks, node, n, below) = IF section # C!Root /\ collected = << >> THEN << PathChunk(section) >> ELSE collected
  BY NodeIs
<1> HIDE DEF limit, list, section, collected, acc
<1>5. ItemsGiven(blocks, N, list, m, limit, section, below)
  BY <1>1, <1>2 DEF ItemsGiven
<1>6. acc \in Buffers(N)
  <2>1. PICK f \in [0..m -> Buffers(N)] : f[m] = ItemLoop(blocks, list, limit, section, below)
    BY <1>5, ItemsAre
  <2> HIDE DEF m
  <2> QED  BY <1>1, <2>1 DEF acc
<1>7. collected \in ChunkLists
  <2>1. Displays(acc.chunks, {})
    BY DEF Displays
  <2> QED  BY <1>1, <1>2, <1>3, <1>6, <2>1, FlushShows
<1>8. << PathChunk(section) >> \in ChunkLists
  BY <1>1, PathChunkIs
<1> QED  BY <1>4, <1>7, <1>8

\* It looks only at the chunks of the nodes below the node.
LEMMA NodeSame ==
  ASSUME NEW blocks, NEW N, NEW node, NEW n, NEW below, NodeGiven(blocks, N, node, n, below), NEW other,
         \A j \in 1..Len(node.items) : node.items[j].node # 0 => other[node.items[j].node] = below[node.items[j].node]
  PROVE  C!NodeChunks(blocks, node, n, other) = C!NodeChunks(blocks, node, n, below)
PROOF
<1>. DEFINE limit == C!BodyLimit(blocks, node.section.path, n)
            list == node.items
            section == node.section
            m == Len(list)
            loop(b) == ItemLoop(blocks, list, limit, section, b)
<1>1. /\ N \in Nat /\ Blocks(blocks, N) /\ n \in Nat \ {0} /\ section \in AnySection
      /\ Ascends(section.path, N) /\ list \in Seq(Leaves) /\ m \in Nat
      /\ \A j \in 1..m : Gives(N, list[j], below)
  BY DEF NodeGiven
<1>2. limit \in Nat \ {0}
  BY <1>1, BodyLimitIs
<1>3. \A j \in 1..m : list[j].node # 0 => other[list[j].node] = below[list[j].node]
  OBVIOUS
<1>4. \A b : Collected(blocks, node, n, b) = C!TextFlushed(loop(b), blocks, limit, section)
  BY DEF Collected
<1> HIDE DEF limit, list, section, m
<1>5. \A j \in 1..m : Gives(N, list[j], other)
  BY <1>1, <1>3 DEF Gives
<1>6. /\ ItemsGiven(blocks, N, list, m, limit, section, below)
      /\ ItemsGiven(blocks, N, list, m, limit, section, other)
  BY <1>1, <1>2, <1>5 DEF ItemsGiven, m
<1>7. PICK f \in [0..m -> Buffers(N)] :
        /\ f[0] = NoChunks
        /\ \A i \in 1..m : f[i] = C!AddItem(f[i - 1], list[i], blocks, limit, section, below)
        /\ f[m] = loop(below)
  BY <1>6, ItemsAre
<1>8. PICK g \in [0..m -> Buffers(N)] :
        /\ g[0] = NoChunks
        /\ \A i \in 1..m : g[i] = C!AddItem(g[i - 1], list[i], blocks, limit, section, other)
        /\ g[m] = loop(other)
  BY <1>6, ItemsAre
<1> HIDE DEF loop
<1>. DEFINE Z == {k \in Nat : k <= m => g[k] = f[k]}
<1>9. 0 \in Z
  BY <1>7, <1>8
<1>10. ASSUME NEW k \in Z PROVE k + 1 \in Z
  <2>. SUFFICES ASSUME k + 1 <= m PROVE g[k + 1] = f[k + 1]
    OBVIOUS
  <2>1. k \in Nat /\ k + 1 \in 1..m /\ (k + 1) - 1 = k /\ k <= m
    BY <1>1 DEF m
  <2>. DEFINE item == list[k + 1]
              acc == f[k]
  <2>2. g[k] = acc
    BY <2>1
  <2>3. /\ f[k + 1] = C!AddItem(acc, item, blocks, limit, section, below)
        /\ g[k + 1] = C!AddItem(acc, item, blocks, limit, section, other)
    BY <1>7, <1>8, <2>1, <2>2
  <2>4. item.node # 0 => other[item.node] = below[item.node]
    BY <1>3, <2>1
  <2> HIDE DEF item, acc
  <2>5. C!AddItem(acc, item, blocks, limit, section, below) = C!AddItem(acc, item, blocks, limit, section, other)
    BY <2>4 DEF C!AddItem
  <2> QED  BY <2>3, <2>5
<1>11. Z \in SUBSET Nat
  OBVIOUS
<1> HIDE DEF Z
<1>12. m \in Z /\ m <= m
  <2>1. Z = Nat
    BY <1>9, <1>10, <1>11, NatSetInduction
  <2> QED  BY <1>1, <2>1 DEF m
<1>13. loop(other) = loop(below)
  BY <1>7, <1>8, <1>12 DEF Z
<1>14. Collected(blocks, node, n, other) = Collected(blocks, node, n, below)
  BY <1>4, <1>13
<1> QED  BY <1>14, NodeIs

\* The chunks of a node tell and show all that is under its heading.
LEMMA NodeTold ==
  ASSUME NEW blocks, NEW bs, NEW lvls, NEW N, Blocks(blocks, N), Levelled(bs, lvls, N), NEW n \in Nat \ {0},
         NEW node, NEW t \in 0..N, t = Title(node), Opened(node.section, lvls, bs, t),
         node.section.path = << >> => node.section = C!Root, NEW below,
         HangAll(blocks, bs, lvls, N, t, node.items, below)
  PROVE  Told(blocks, bs, lvls, N, t, C!NodeChunks(blocks, node, n, below))
PROOF
<1>. DEFINE limit == C!BodyLimit(blocks, node.section.path, n)
            section == node.section
            path == section.path
            list == node.items
            acc == ItemLoop(blocks, list, limit, section, below)
            cs == Collected(blocks, node, n, below)
            good == Below(lvls, bs, t)
            own == Own(bs, lvls, N, t)
            u == Under(bs, lvls, N, t)
<1>1. N \in Nat /\ t \in Nat /\ section \in AnySection /\ path \in Seq(Nat) /\ bs \subseteq 1..N
  BY DEF Levelled, Opened, AnySection
<1>2. /\ Orderly(path, Over(bs, lvls, t)) /\ (\A j, k \in 1..Len(path) : j < k => path[j] < path[k])
      /\ path # << >> => section.level = lvls[C!Last(path)]
  BY DEF Opened, Orderly
<1>3. Over(bs, lvls, t) \subseteq 1..t /\ Over(bs, lvls, t) \subseteq bs
  BY <1>1, OverIsFinite
<1>4. Ascends(path, N)
  <2>1. 1..t \subseteq 1..N
    BY <1>1
  <2>2. Over(bs, lvls, t) \subseteq 1..N
    BY <1>3, <2>1
  <2>3. path \in Seq(Over(bs, lvls, t))
    BY <1>2 DEF Orderly
  <2>4. path \in Seq(1..N)
    <3> HIDE DEF path
    <3> QED  BY <2>2, <2>3, SequenceOfMore
  <2> QED  BY <1>2, <2>4 DEF Ascends
<1>5. limit \in Nat \ {0}
  BY <1>1, <1>4, BodyLimitIs
<1>6. path = << >> => section = C!Root /\ t = 0
  BY DEF Title, Tip
<1>7. path # << >> => t \in Over(bs, lvls, t) /\ t = C!Last(path) /\ section # C!Root
  <2>. SUFFICES ASSUME path # << >> PROVE t \in Over(bs, lvls, t) /\ t = C!Last(path) /\ section # C!Root
    OBVIOUS
  <2>1. t = C!Last(path)
    BY DEF Title, Tip
  <2>2. \A j \in 1..Len(path) : path[j] \in Over(bs, lvls, t)
    BY <1>2 DEF Orderly
  <2>3. Len(path) \in 1..Len(path)
    BY <1>1
  <2>4. t \in Over(bs, lvls, t)
    BY <2>1, <2>2, <2>3 DEF C!Last
  <2>5. section # C!Root
    BY DEF C!Root
  <2> QED  BY <2>1, <2>4, <2>5
<1>8. C!NodeChunks(blocks, node, n, below) = IF section # C!Root /\ cs = << >> THEN << PathChunk(section) >> ELSE cs
  BY NodeIs
<1>9. Gathered(blocks, bs, lvls, N, t, acc, u \ {t})
  <2> HIDE DEF limit
  <2> QED  BY <1>1, <1>5, ItemsGathered
<1>10. cs = C!TextFlushed(acc, blocks, limit, section)
  BY DEF Collected
<1>11. From(section, own) \subseteq good
  BY <1>1, OwnBelow
<1>12. t = 0 \/ t \in bs
  BY <1>3, <1>6, <1>7
<1>. DEFINE y == (u \ {t}) \ bs
            x == (u \ {t}) \cap bs
<1>13. Carried(blocks, N, acc, y, own, good) /\ Displays(acc.chunks, x) /\ acc \in Buffers(N)
  BY <1>9 DEF Gathered, Carried
<1>14. y = u \ bs
  <2>1. 0 \notin u
    BY DEF Under
  <2> QED  BY <1>12, <2>1
<1>15. \A h \in u \cap bs : h = t \/ h \in x
  OBVIOUS
<1>16. t = 0 => x = u \cap bs
  <2>1. 0 \notin u
    BY DEF Under
  <2> QED  BY <2>1
<1> HIDE DEF limit, section, path, list, acc, cs, good, own, u, y, x
<1>17. Tells(blocks, cs, y) /\ AllIn(cs, good)
  BY <1>1, <1>5, <1>10, <1>11, <1>13, FlushTells
<1>18. Displays(cs, x) /\ cs \in ChunkLists
  BY <1>1, <1>5, <1>10, <1>13, FlushShows
<1>19. ASSUME section # C!Root, cs = << >>
       PROVE  Told(blocks, bs, lvls, N, t, << PathChunk(section) >>)
  <2>. DEFINE c == PathChunk(section)
              ds == << c >>
  <2>1. /\ c \in AnyChunk /\ c.kind = "text" /\ c.path = path /\ c.level = section.level
        /\ c.body = << >> /\ c.blocks = << >> /\ ds \in ChunkLists
    BY <1>1, PathChunkIs DEF path
  <2>2. Len(ds) = 1 /\ ds[1] = c /\ \A k \in 1..1 : k = 1
    OBVIOUS
  <2>3. path # << >> /\ t \in Over(bs, lvls, t) /\ t = C!Last(path)
    BY <1>6, <1>7, <1>19
  <2> HIDE DEF c, ds
  <2>4. Words(blocks, y) = {}
    <3>1. \A v \in Words(blocks, y) : \E k, p \in Nat : Token(cs, k, p, v)
      BY <1>17 DEF Tells
    <3>2. \A k, p \in Nat, v \in Words(blocks, y) : ~Token(cs, k, p, v)
      BY <1>19 DEF Token
    <3> QED  BY <3>1, <3>2
  <2>5. x = {}
    BY <1>18, <1>19 DEF Displays
  <2>6. Inside(c.body) = {}
    BY <2>1 DEF Inside
  <2>7. IsTrue(blocks, c)
    <3>1. Orderly(<< >>, {})
      BY DEF Orderly
    <3>2. C!InOrder({}) = << >>
      BY <3>1, IsTheOrder
    <3> QED  BY <2>1, <2>6, <3>2 DEF IsTrue
  <2>8. Tells(blocks, ds, y)
    <3>1. \A k \in 1..Len(ds) : IsTrue(blocks, ds[k])
      BY <2>2, <2>7
    <3>2. \A k \in 1..Len(ds) : \A p \in 1..Len(ds[k].body) : FALSE
      BY <2>1, <2>2
    <3> QED  BY <2>1, <2>4, <3>1, <3>2 DEF Tells
  <2>9. \A h \in Over(bs, lvls, t) : Names(c, h)
    BY <1>2, <2>1 DEF Orderly, Names
  <2>10. c \in Placed(lvls, bs)
    <3>1. C!InOrder(Over(bs, lvls, t)) = path
      <4>1. Over(bs, lvls, t) \in SUBSET Nat
        BY <1>1, <1>3
      <4> QED  BY <1>2, <4>1, IsTheOrder
    <3>2. c.path = C!InOrder(Over(bs, lvls, C!Last(c.path)))
      BY <2>1, <2>3, <3>1
    <3>3. c.path # << >> => c.level = lvls[C!Last(c.path)]
      BY <1>2, <2>1
    <3>4. \A j \in 1..Len(c.path) : c.path[j] \in bs
      <4>1. \A j \in 1..Len(path) : path[j] \in Over(bs, lvls, t)
        BY <1>2 DEF Orderly
      <4> QED  BY <1>3, <2>1, <4>1
    <3> QED  BY <2>1, <2>3, <2>6, <3>2, <3>3, <3>4 DEF Placed
  <2>11. AllIn(ds, good)
    BY <2>2, <2>9, <2>10 DEF AllIn, Below, good
  <2>12. Names(c, t)
    BY <2>3, <2>9
  <2>13. Displays(ds, u \cap bs)
    BY <1>15, <2>2, <2>5, <2>12 DEF Displays
  <2>14. Told(blocks, bs, lvls, N, t, ds)
    BY <1>14, <2>8, <2>11, <2>13 DEF Told, u, good
  <2> QED  BY <2>14 DEF ds, c
<1>20. ASSUME section = C!Root \/ cs # << >>
       PROVE  Told(blocks, bs, lvls, N, t, cs)
  <2>1. Displays(cs, u \cap bs)
    <3>1. CASE t = 0
      BY <1>16, <1>18, <3>1
    <3>2. CASE t # 0
      <4>1. cs # << >> /\ t \in Over(bs, lvls, t)
        BY <1>6, <1>7, <1>20, <3>2
      <4>2. 1 \in 1..Len(cs)
        BY <1>18, <4>1 DEF ChunkLists
      <4>3. Names(cs[1], t)
        BY <1>17, <4>1, <4>2 DEF AllIn, Below, good
      <4> QED  BY <1>15, <1>18, <4>2, <4>3 DEF Displays
    <3> QED  BY <3>1, <3>2
  <2> QED  BY <1>14, <1>17, <2>1 DEF Told, u, good
<1> QED  BY <1>8, <1>19, <1>20

\* Some sequence of nodes, each of which has its items further on.
Downward(blocks, N, nodes, n) ==
  /\ N \in Nat /\ Blocks(blocks, N) /\ n \in Nat \ {0}
  /\ Len(nodes) \in Nat /\ DOMAIN nodes = 1..Len(nodes)
  /\ \A m \in 1..Len(nodes) :
       /\ nodes[m].section \in AnySection /\ Ascends(nodes[m].section.path, N)
       /\ nodes[m].items \in Seq(Leaves)
       /\ \A j \in 1..Len(nodes[m].items) :
            /\ nodes[m].items[j] \in Leaves
            /\ nodes[m].items[j].node = 0 => nodes[m].items[j].block \in 1..N
            /\ nodes[m].items[j].node # 0 =>
                 m < nodes[m].items[j].node /\ nodes[m].items[j].node <= Len(nodes)

\* The chunks of the nodes after the first m.
CollectsFrom(blocks, nodes, n, c, m) ==
  \A k \in 1..Len(nodes) : k > m => c[k] = C!NodeChunks(blocks, nodes[k], n, c)

\* A node given any chunks of the others.
LEMMA DownwardGiven ==
  ASSUME NEW blocks, NEW N, NEW nodes, NEW n, Downward(blocks, N, nodes, n), NEW m \in 1..Len(nodes),
         NEW c \in [1..Len(nodes) -> ChunkLists]
  PROVE  NodeGiven(blocks, N, nodes[m], n, c)
PROOF
<1>1. ASSUME NEW j \in 1..Len(nodes[m].items) PROVE Gives(N, nodes[m].items[j], c)
  <2>. DEFINE item == nodes[m].items[j]
  <2>1. /\ item \in Leaves /\ (item.node = 0 => item.block \in 1..N)
        /\ item.node # 0 => m < item.node /\ item.node <= Len(nodes)
        /\ m \in Nat /\ m >= 1 /\ Len(nodes) \in Nat
    BY DEF Downward
  <2> HIDE DEF item
  <2>2. item.node \in Nat
    BY <2>1 DEF Leaves
  <2>3. item.node # 0 => item.node \in 1..Len(nodes)
    BY <2>1, <2>2
  <2>4. Gives(N, item, c)
    BY <2>1, <2>3 DEF Gives
  <2> QED  BY <2>4 DEF item
<1> QED  BY <1>1 DEF Downward, NodeGiven

\* The next node before them.
LEMMA CollectBefore ==
  ASSUME NEW blocks, NEW N, NEW nodes, NEW n, Downward(blocks, N, nodes, n), NEW m \in 1..Len(nodes),
         NEW c \in [1..Len(nodes) -> ChunkLists], CollectsFrom(blocks, nodes, n, c, m)
  PROVE  \E d \in [1..Len(nodes) -> ChunkLists] : CollectsFrom(blocks, nodes, n, d, m - 1)
PROOF
<1>. DEFINE l == Len(nodes)
            v == C!NodeChunks(blocks, nodes[m], n, c)
            d == [c EXCEPT ![m] = v]
<1>1. l \in Nat /\ m \in 1..l
  BY DEF Downward
<1>2. v \in ChunkLists
  BY DownwardGiven, NodeTyped
<1> HIDE DEF v
<1>3. d \in [1..l -> ChunkLists] /\ d[m] = v /\ \A k \in 1..l : k # m => d[k] = c[k]
  BY <1>2
<1> HIDE DEF d
<1>4. ASSUME NEW k \in 1..l, k >= m
      PROVE  C!NodeChunks(blocks, nodes[k], n, d) = C!NodeChunks(blocks, nodes[k], n, c)
  <2>1. ASSUME NEW j \in 1..Len(nodes[k].items), nodes[k].items[j].node # 0
        PROVE  d[nodes[k].items[j].node] = c[nodes[k].items[j].node]
    <3>. DEFINE b == nodes[k].items[j].node
    <3>1. nodes[k].items[j] \in Leaves /\ k < b /\ b <= l
      BY <2>1 DEF Downward, l
    <3>2. b \in Nat
      BY <3>1 DEF Leaves
    <3> HIDE DEF b
    <3>3. b \in 1..l /\ b # m
      BY <1>1, <1>4, <3>1, <3>2
    <3>4. d[b] = c[b]
      BY <1>3, <3>3
    <3> QED  BY <3>4 DEF b
  <2>. DEFINE node == nodes[k]
  <2>2. NodeGiven(blocks, N, node, n, c)
    BY DownwardGiven DEF l
  <2>3. \A j \in 1..Len(node.items) :
          node.items[j].node # 0 => d[node.items[j].node] = c[node.items[j].node]
    BY <2>1
  <2> HIDE DEF node
  <2>4. C!NodeChunks(blocks, node, n, d) = C!NodeChunks(blocks, node, n, c)
    BY <2>2, <2>3, NodeSame
  <2> QED  BY <2>4 DEF node
<1>5. ASSUME NEW k \in 1..l, k > m - 1 PROVE d[k] = C!NodeChunks(blocks, nodes[k], n, d)
  <2>1. k = m \/ k > m
    BY <1>1, <1>5
  <2>2. CASE k = m
    BY <1>3, <1>4, <2>2 DEF v
  <2>3. CASE k > m
    <3>1. d[k] = c[k] /\ k >= m
      BY <1>1, <1>3, <2>3
    <3>2. c[k] = C!NodeChunks(blocks, nodes[k], n, c)
      BY <2>3 DEF CollectsFrom, l
    <3> QED  BY <1>4, <3>1, <3>2
  <2> QED  BY <2>1, <2>2, <2>3
<1>6. CollectsFrom(blocks, nodes, n, d, m - 1)
  BY <1>5 DEF CollectsFrom, l
<1> QED  BY <1>3, <1>6 DEF l

\* The recursion of _collect_node comes to an end.
LEMMA CollectsAll ==
  ASSUME NEW blocks, NEW N, NEW nodes, NEW n, Downward(blocks, N, nodes, n)
  PROVE  \E c \in [1..Len(nodes) -> ChunkLists] : CollectsFrom(blocks, nodes, n, c, 0)
PROOF
<1>. DEFINE l == Len(nodes)
            Some(m) == \E c \in [1..l -> ChunkLists] : CollectsFrom(blocks, nodes, n, c, m)
            Z == {k \in Nat : k <= l => Some(l - k)}
<1>1. l \in Nat
  BY DEF Downward
<1>2. 0 \in Z
  <2>. DEFINE c == [k \in 1..l |-> << >>]
  <2>1. << >> \in ChunkLists
    BY DEF ChunkLists
  <2>2. c \in [1..l -> ChunkLists]
    BY <2>1
  <2>3. \A k \in 1..l : ~(k > l - 0)
    BY <1>1
  <2> HIDE DEF c
  <2>4. CollectsFrom(blocks, nodes, n, c, l - 0)
    BY <2>3 DEF CollectsFrom
  <2> QED  BY <2>2, <2>4
<1>3. ASSUME NEW k \in Z PROVE k + 1 \in Z
  <2>. SUFFICES ASSUME k + 1 <= l PROVE Some(l - (k + 1))
    OBVIOUS
  <2>. DEFINE m == l - k
  <2>1. k \in Nat /\ k <= l /\ m \in 1..l /\ l - (k + 1) = m - 1
    BY <1>1
  <2>2. PICK c \in [1..l -> ChunkLists] : CollectsFrom(blocks, nodes, n, c, m)
    BY <2>1
  <2> HIDE DEF m
  <2>3. \E d \in [1..l -> ChunkLists] : CollectsFrom(blocks, nodes, n, d, m - 1)
    BY <2>1, <2>2, CollectBefore
  <2> QED  BY <2>1, <2>3
<1>4. Z \in SUBSET Nat
  OBVIOUS
<1> HIDE DEF Z
<1>5. l \in Z /\ l <= l
  <2>1. Z = Nat
    BY <1>2, <1>3, <1>4, NatSetInduction
  <2> QED  BY <1>1, <2>1
<1>6. Some(l - l)
  BY <1>5 DEF Z
<1>7. l - l = 0
  BY <1>1
<1>8. Some(0)
  <2> HIDE DEF Some
  <2> QED  BY <1>6, <1>7
<1> QED  BY <1>8 DEF l

\* CollectNodes is the value of that recursion.
LEMMA CollectIs ==
  ASSUME NEW blocks, NEW N, NEW nodes, NEW n, Downward(blocks, N, nodes, n)
  PROVE  \E c : CollectsFrom(blocks, nodes, n, c, 0) /\ C!CollectNodes(blocks, nodes, n) = c[1]
PROOF
<1>. DEFINE Eq(c) == c = [m \in DOMAIN nodes |-> C!NodeChunks(blocks, nodes[m], n, c)]
            collect == CHOOSE c : Eq(c)
<1>1. DOMAIN nodes = 1..Len(nodes) /\ Len(nodes) \in Nat
  BY DEF Downward
<1>2. \E c : Eq(c)
  <2>1. PICK c \in [1..Len(nodes) -> ChunkLists] : CollectsFrom(blocks, nodes, n, c, 0)
    BY CollectsAll
  <2>2. \A k \in 1..Len(nodes) : c[k] = C!NodeChunks(blocks, nodes[k], n, c)
    BY <2>1 DEF CollectsFrom
  <2>3. Eq(c)
    BY <1>1, <2>1, <2>2
  <2> QED  BY <2>3
<1>3. Eq(collect)
  <2> HIDE DEF Eq
  <2> QED  BY <1>2
<1>4. C!CollectNodes(blocks, nodes, n) = collect[1]
  BY DEF C!CollectNodes
<1> HIDE DEF collect
<1>5. CollectsFrom(blocks, nodes, n, collect, 0)
  BY <1>1, <1>3 DEF CollectsFrom
<1> QED  BY <1>4, <1>5

\* Of the headings above a block, the last is after the first.
LEMMA TreeDownward ==
  ASSUME NEW blocks, NEW bs, NEW lvls, NEW N, Blocks(blocks, N), Levelled(bs, lvls, N), NEW n \in Nat \ {0},
         NEW nodes, TreeOf(bs, lvls, N, nodes)
  PROVE  Downward(blocks, N, nodes, n)
PROOF
<1>0. N \in Nat
  BY DEF Levelled
<1>1. nodes \in Seq(TreeNodes) /\ Len(nodes) \in Nat /\ DOMAIN nodes = 1..Len(nodes)
  BY DEF TreeOf
<1>2. ASSUME NEW m \in 1..Len(nodes)
      PROVE  /\ nodes[m].section \in AnySection /\ Ascends(nodes[m].section.path, N)
             /\ nodes[m].items \in Seq(Leaves)
             /\ \A j \in 1..Len(nodes[m].items) :
                  /\ nodes[m].items[j] \in Leaves
                  /\ nodes[m].items[j].node = 0 => nodes[m].items[j].block \in 1..N
                  /\ nodes[m].items[j].node # 0 =>
                       m < nodes[m].items[j].node /\ nodes[m].items[j].node <= Len(nodes)
  <2>. DEFINE t == Title(nodes[m])
              path == nodes[m].section.path
              its == nodes[m].items
              o == Over(bs, lvls, t)
  <2>1. NodeTrue(bs, lvls, N, nodes, m)
    BY DEF TreeOf, NodesTrue
  <2>2. /\ Opened(nodes[m].section, lvls, bs, t) /\ t \in 0..N
        /\ \A j \in 1..Len(its) : ItemTrue(bs, lvls, N, nodes, m, its[j])
    BY <2>1 DEF NodeTrue
  <2>3. nodes[m] \in TreeNodes
    BY <1>1
  <2>4. its \in Seq(Leaves) /\ nodes[m].section \in AnySection
    BY <2>3 DEF TreeNodes
  <2>5. Orderly(path, o)
    BY <2>2 DEF Opened
  <2> HIDE DEF t
  <2>6. o \subseteq 1..N
    <3>1. o \subseteq bs /\ bs \subseteq 1..N
      BY <1>0, <2>2, OverIsFinite DEF Levelled
    <3> QED  BY <3>1
  <2> HIDE DEF o, path, its
  <2>7. Ascends(path, N)
    <3>1. path \in Seq(o) /\ \A j, k \in 1..Len(path) : j < k => path[j] < path[k]
      BY <2>5 DEF Orderly
    <3>2. path \in Seq(1..N)
      BY <2>6, <3>1, SequenceOfMore
    <3> QED  BY <3>1, <3>2 DEF Ascends
  <2>8. \A j \in 1..Len(its) :
          /\ its[j] \in Leaves /\ (its[j].node = 0 => its[j].block \in 1..N)
          /\ its[j].node # 0 => m < its[j].node /\ its[j].node <= Len(nodes)
    BY <2>2 DEF ItemTrue
  <2> QED  BY <2>4, <2>7, <2>8 DEF path, its
<1> QED  BY <1>0, <1>1, <1>2 DEF Downward

\* The next node before those that tell what is under them.
LEMMA ToldBefore ==
  ASSUME NEW blocks, NEW bs, NEW lvls, NEW N, Blocks(blocks, N), Levelled(bs, lvls, N), NEW n \in Nat \ {0},
         NEW nodes, TreeOf(bs, lvls, N, nodes), NEW c, NEW m \in 1..Len(nodes),
         \A k \in 1..Len(nodes) : k > m => Told(blocks, bs, lvls, N, Title(nodes[k]), c[k])
  PROVE  Told(blocks, bs, lvls, N, Title(nodes[m]), C!NodeChunks(blocks, nodes[m], n, c))
PROOF
<1>. DEFINE node == nodes[m]
            t == Title(node)
            its == node.items
            l == Len(nodes)
<1>1. NodeTrue(bs, lvls, N, nodes, m)
  BY DEF TreeOf, NodesTrue
<1>2. /\ Opened(node.section, lvls, bs, t) /\ t \in 0..N
      /\ m = 1 <=> node.section.path = << >>
      /\ m = 1 => node.section = C!Root
      /\ \A j \in 1..Len(its) : ItemTrue(bs, lvls, N, nodes, m, its[j])
      /\ \A j, k \in 1..Len(its) : j < k => its[j].block < its[k].block
      /\ \A b \in 1..N : Home(bs, lvls, t, b) => \E j \in 1..Len(its) : its[j].block = b
  BY <1>1 DEF NodeTrue
<1>3. its \in Seq(Leaves) /\ l \in Nat
  <2>1. nodes \in Seq(TreeNodes)
    BY DEF TreeOf
  <2>2. node \in TreeNodes /\ l \in Nat
    BY <2>1
  <2> QED  BY <2>2 DEF TreeNodes
<1>4. ASSUME NEW j \in 1..Len(its) PROVE Hangs(blocks, bs, lvls, N, t, its[j], c)
  <2>. DEFINE item == its[j]
              k == item.node
  <2>1. /\ item \in Leaves /\ item.block \in 1..N /\ Home(bs, lvls, t, item.block)
        /\ k = 0 => item.block \notin bs
        /\ k # 0 => item.block \in bs /\ m < k /\ k <= l /\ Title(nodes[k]) = item.block
    BY <1>2 DEF ItemTrue
  <2>2. k \in Nat
    BY <2>1 DEF Leaves
  <2>3. k # 0 => k \in 1..l /\ k > m
    BY <1>3, <2>1, <2>2
  <2>4. k # 0 => Told(blocks, bs, lvls, N, item.block, c[k])
    <3> HIDE DEF item, k
    <3> QED  BY <2>1, <2>3
  <2> HIDE DEF item, t
  <2>5. Hangs(blocks, bs, lvls, N, t, item, c)
    BY <2>1, <2>4 DEF Hangs
  <2> QED  BY <2>5 DEF item
<1> HIDE DEF its, t
<1>5. HangAll(blocks, bs, lvls, N, t, its, c)
  BY <1>2, <1>3, <1>4 DEF HangAll
<1>6. HangAll(blocks, bs, lvls, N, t, node.items, c)
  BY <1>5 DEF its
<1>7. t = Title(node)
  BY DEF t
<1>8. node.section.path = << >> => node.section = C!Root
  BY <1>2
<1> HIDE DEF node
<1>9. Told(blocks, bs, lvls, N, t, C!NodeChunks(blocks, node, n, c))
  BY <1>2, <1>6, <1>7, <1>8, NodeTold
<1> QED  BY <1>9 DEF t, node

\* HierarchyTitleChunker.chunk tells all blocks that begin no section, shows the others,
\* and every chunk has the headings of its text.
LEMMA HierarchyTold ==
  ASSUME NEW blocks, NEW lvls, NEW N, NEW target, NEW n, Titled(blocks, lvls, N, target, n)
  PROVE  LET bs == Beginnings(blocks, lvls, N, target)
             cs == C!HierarchyChunks(blocks, lvls, target, n)
         IN Tells(blocks, cs, (1..N) \ bs) /\ AllIn(cs, Placed(lvls, bs)) /\ Displays(cs, bs)
PROOF
<1>. DEFINE bs == Beginnings(blocks, lvls, N, target)
            nodes == C!BuildTree(blocks, lvls, target)
            l == Len(nodes)
            cs == C!HierarchyChunks(blocks, lvls, target, n)
<1>1. N \in Nat /\ Blocks(blocks, N) /\ lvls \in [1..N -> Nat] /\ n \in Nat \ {0}
  BY DEF Titled
<1>2. bs \subseteq 1..N /\ Levelled(bs, lvls, N)
  <2>1. bs \subseteq 1..N
    BY DEF Beginnings, Heads
  <2> QED  BY <1>1, <2>1 DEF Levelled
<1>3. TreeOf(bs, lvls, N, nodes)
  BY TreeBuilt
<1>4. cs = C!CollectNodes(blocks, nodes, n)
  BY DEF C!HierarchyChunks
<1> HIDE DEF bs, nodes, cs
<1>5. nodes \in Seq(TreeNodes) /\ l \in Nat /\ 1 \in 1..l
  <2>1. nodes \in Seq(TreeNodes) /\ l >= 1
    BY <1>3 DEF TreeOf
  <2> QED  BY <2>1
<1>6. Downward(blocks, N, nodes, n)
  BY <1>1, <1>2, <1>3, TreeDownward
<1>7. PICK c : CollectsFrom(blocks, nodes, n, c, 0) /\ C!CollectNodes(blocks, nodes, n) = c[1]
  BY <1>6, CollectIs
<1>8. \A k \in 1..l : c[k] = C!NodeChunks(blocks, nodes[k], n, c)
  BY <1>7 DEF CollectsFrom
<1> HIDE DEF l
<1>. DEFINE Q(m) == Told(blocks, bs, lvls, N, Title(nodes[m]), c[m])
            Z == {k \in Nat : k <= l => \A m \in 1..l : m > l - k => Q(m)}
<1>9. 0 \in Z
  <2>1. \A m \in 1..l : ~(m > l - 0)
    BY <1>5
  <2> QED  BY <2>1
<1>10. ASSUME NEW k \in Z PROVE k + 1 \in Z
  <2>. SUFFICES ASSUME k + 1 <= l PROVE \A m \in 1..l : m > l - (k + 1) => Q(m)
    OBVIOUS
  <2>. DEFINE i == l - k
  <2>1. k \in Nat /\ k <= l /\ i \in 1..l /\ \A m \in 1..l : m > l - (k + 1) => m = i \/ m > i
    BY <1>5
  <2>2. \A m \in 1..l : m > i => Q(m)
    BY <2>1
  <2>3. Q(i)
    <3> HIDE DEF i
    <3>1. Told(blocks, bs, lvls, N, Title(nodes[i]), C!NodeChunks(blocks, nodes[i], n, c))
      BY <1>1, <1>2, <1>3, <2>1, <2>2, ToldBefore DEF l
    <3> QED  BY <1>8, <2>1, <3>1
  <2> HIDE DEF i, Q
  <2> QED  BY <2>1, <2>2, <2>3
<1>11. Z \in SUBSET Nat
  OBVIOUS
<1> HIDE DEF Z
<1>12. l \in Z /\ l <= l
  <2>1. Z = Nat
    BY <1>9, <1>10, <1>11, NatSetInduction
  <2> QED  BY <1>5, <2>1
<1>13. \A m \in 1..l : m > l - l => Q(m)
  BY <1>12 DEF Z
<1>14. Told(blocks, bs, lvls, N, Title(nodes[1]), c[1])
  <2>1. 1 > l - l
    BY <1>5
  <2> QED  BY <1>5, <1>13, <2>1
<1>15. Title(nodes[1]) = 0
  <2>1. NodeTrue(bs, lvls, N, nodes, 1)
    BY <1>3, <1>5 DEF TreeOf, NodesTrue, l
  <2>2. nodes[1].section.path = << >>
    BY <2>1 DEF NodeTrue
  <2> QED  BY <2>2 DEF Title, Tip
<1>16. Told(blocks, bs, lvls, N, 0, cs)
  BY <1>4, <1>7, <1>14, <1>15
<1>17. Under(bs, lvls, N, 0) = 1..N
  BY DEF Under
<1>18. (1..N) \cap bs = bs /\ Below(lvls, bs, 0) \subseteq Placed(lvls, bs)
  BY <1>2 DEF Below
<1> QED
  <2>1. Tells(blocks, cs, (1..N) \ bs) /\ AllIn(cs, Below(lvls, bs, 0)) /\ Displays(cs, bs)
    BY <1>16, <1>17, <1>18 DEF Told
  <2>2. AllIn(cs, Placed(lvls, bs))
    BY <1>18, <2>1 DEF AllIn
  <2> QED  BY <2>1, <2>2 DEF bs, cs

-----------------------------------------------------------------------------
(* The blocks of a document and their levels.                              *)

\* An element or a line of a document.
Sized(e, forms) == e.form \in forms /\ e.size \in Nat /\ e.level \in Nat

AnyBlock(forms) ==
  [kind : {"text", "title", "table"}, form : forms, size : Nat, page : Nat, heading : Nat]

Parsed(forms) == [page : Nat, blocks : Seq(AnyBlock(forms))]

\* Such an element makes such a block.
LEMMA BlockTyped ==
  ASSUME NEW forms, NEW e, Sized(e, forms), NEW kind \in {"text", "title", "table"}, NEW pg \in Nat
  PROVE  C!Block(e, kind, pg) \in AnyBlock(forms)
PROOF
<1>. DEFINE h == IF kind = "title" THEN e.level ELSE 0
<1>1. h \in Nat /\ e.form \in forms /\ e.size \in Nat
  BY DEF Sized
<1>2. C!Block(e, kind, pg) = [kind |-> kind, form |-> e.form, size |-> e.size, page |-> pg, heading |-> h]
  BY DEF C!Block
<1> HIDE DEF h
<1> QED  BY <1>1, <1>2 DEF AnyBlock

\* AddElement keeps the page and the blocks.
LEMMA ElementTyped ==
  ASSUME NEW forms, NEW acc \in Parsed(forms), NEW e, Sized(e, forms)
  PROVE  C!AddElement(acc, e) \in Parsed(forms)
PROOF
<1>1. acc.page \in Nat /\ acc.blocks \in Seq(AnyBlock(forms)) /\ e.level \in Nat
  BY DEF Parsed, Sized
<1>. DEFINE more(kind) == Append(acc.blocks, C!Block(e, kind, acc.page))
            new == C!AddElement(acc, e)
<1>2. \A kind \in {"text", "title", "table"} : more(kind) \in Seq(AnyBlock(forms))
  <2>1. ASSUME NEW kind \in {"text", "title", "table"} PROVE more(kind) \in Seq(AnyBlock(forms))
    <3>1. C!Block(e, kind, acc.page) \in AnyBlock(forms)
      BY <1>1, BlockTyped
    <3> QED  BY <1>1, <3>1
  <2> QED  BY <2>1
<1>3. \/ new = [acc EXCEPT !.page = e.level]
      \/ \E kind \in {"text", "title", "table"} : new = [acc EXCEPT !.blocks = more(kind)]
  <2>1. CASE e.type = "page"
    BY <2>1 DEF C!AddElement
  <2>2. CASE e.type = "heading"
    <3>1. new = [acc EXCEPT !.blocks = more("title")]
      BY <2>2 DEF C!AddElement
    <3> QED  BY <3>1
  <2>3. CASE e.type = "table"
    <3>1. new = [acc EXCEPT !.blocks = more("table")]
      BY <2>3 DEF C!AddElement
    <3> QED  BY <3>1
  <2>4. CASE e.type # "page" /\ e.type # "heading" /\ e.type # "table"
    <3>1. new = [acc EXCEPT !.blocks = more("text")]
      BY <2>4 DEF C!AddElement
    <3> QED  BY <3>1
  <2> QED  BY <2>1, <2>2, <2>3, <2>4
<1> HIDE DEF more, new
<1>4. new \in Parsed(forms)
  BY <1>1, <1>2, <1>3 DEF Parsed
<1> QED  BY <1>4 DEF new

\* Before the first element.
NoBlocks == [page |-> 0, blocks |-> << >>]

ElementLoop(elements) == C!FoldLeft(C!AddElement, NoBlocks, elements)

\* What the loop is given.
ElementsGiven(elements, m, forms) ==
  /\ m \in Nat /\ DOMAIN elements = 1..m /\ elements = [i \in 1..m |-> elements[i]]
  /\ \A i \in 1..m : Sized(elements[i], forms)

\* The loop of _markdown_blocks, element after element.
LEMMA ElementsAre ==
  ASSUME NEW elements, NEW m, NEW forms, ElementsGiven(elements, m, forms)
  PROVE  \E f \in [0..m -> Parsed(forms)] :
           /\ f[0] = NoBlocks
           /\ \A i \in 1..m : f[i] = C!AddElement(f[i - 1], elements[i])
           /\ f[m] = ElementLoop(elements)
PROOF
<1>. DEFINE st == [i \in 1..m |-> [a \in Parsed(forms) |-> C!AddElement(a, elements[i])]]
            F(it, s) == IF s = {} THEN NoBlocks ELSE C!AddElement(it[s \ {Top(s)}], elements[Top(s)])
            iter == CHOOSE it : it = [s \in SUBSET (1..m) |-> F(it, s)]
<1>0. /\ m \in Nat /\ DOMAIN elements = 1..m /\ \A i \in 1..m : Sized(elements[i], forms)
  BY DEF ElementsGiven
<1>1. ElementLoop(elements) = iter[1..m]
  <2>1. DOMAIN elements = 1..m
    BY <1>0
  <2> QED  BY <2>1 DEF ElementLoop, C!FoldLeft, C!MapThenFoldSet, Top
<1>2. \A i \in 1..m : \A a \in Parsed(forms) : st[i][a] = C!AddElement(a, elements[i]) /\ st[i][a] \in Parsed(forms)
  BY <1>0, ElementTyped
<1>3. NoBlocks \in Parsed(forms)
  BY DEF Parsed, NoBlocks
<1> HIDE DEF st
<1>4. Keep(st, Parsed(forms), m)
  BY <1>2 DEF Keep
<1>5. \E it : it = [s \in SUBSET (1..m) |-> F(it, s)]
  <2>1. PICK it : Iterates(it, Parsed(forms), NoBlocks, m, st)
    BY <1>0, <1>3, <1>4, FoldTyped
  <2>2. ASSUME NEW s \in SUBSET (1..m)
        PROVE  it[s] = F(it, s)
    <3>1. s \ {Top(s)} \in SUBSET (1..m)
      OBVIOUS
    <3> QED  BY <1>0, <1>2, <2>1, <3>1, TopIs DEF Iterates
  <2> HIDE DEF F
  <2>3. it = [s \in SUBSET (1..m) |-> F(it, s)]
    BY <2>1, <2>2 DEF Iterates
  <2> QED  BY <2>3
<1>6. iter = [s \in SUBSET (1..m) |-> F(iter, s)]
  <2> HIDE DEF F
  <2> QED  BY <1>5
<1> HIDE DEF iter
<1>7. \A s \in SUBSET (1..m) : iter[s] = F(iter, s)
  <2> HIDE DEF F
  <2> QED  BY <1>6
<1>8. Goes(iter, Parsed(forms), NoBlocks, m, st)
  <2>1. iter[{}] = NoBlocks
    BY <1>7
  <2>2. ASSUME NEW s \in SUBSET (1..m), s # {}, iter[s \ {Top(s)}] \in Parsed(forms)
        PROVE  iter[s] = st[Top(s)][iter[s \ {Top(s)}]]
    <3>1. Top(s) \in 1..m
      BY <1>0, <2>2, TopIs
    <3>2. iter[s] = C!AddElement(iter[s \ {Top(s)}], elements[Top(s)])
      BY <1>7, <2>2
    <3> QED  BY <1>2, <2>2, <3>1, <3>2
  <2> QED  BY <2>1, <2>2 DEF Goes
<1>9. PICK f : IsWay(f, Parsed(forms), NoBlocks, m, st) /\ f[m] = iter[1..m]
  BY <1>0, <1>3, <1>4, <1>8, FoldWay
<1>10. ASSUME NEW i \in 1..m
       PROVE  f[i] = C!AddElement(f[i - 1], elements[i])
  <2>1. i - 1 \in 0..m
    BY <1>0
  <2>2. f[i - 1] \in Parsed(forms) /\ f[i] = st[i][f[i - 1]]
    BY <1>9, <2>1 DEF IsWay
  <2> QED  BY <1>2, <2>2
<1> QED  BY <1>1, <1>9, <1>10 DEF IsWay

\* The blocks of a Markdown text.
LEMMA MarkdownTyped ==
  ASSUME NEW forms, "plain" \in forms, NEW elements, NEW m, ElementsGiven(elements, m, forms)
  PROVE  C!MarkdownBlocks(elements) \in Seq(AnyBlock(forms))
PROOF
<1>. DEFINE out == ElementLoop(elements).blocks
            b == [kind |-> "text", form |-> "plain", size |-> Len(elements), page |-> 0, heading |-> 0]
<1>1. out \in Seq(AnyBlock(forms))
  <2>1. PICK f \in [0..m -> Parsed(forms)] : f[m] = ElementLoop(elements)
    BY ElementsAre
  <2>2. m \in 0..m
    BY DEF ElementsGiven
  <2>3. ElementLoop(elements) \in Parsed(forms)
    BY <2>1, <2>2
  <2> QED  BY <2>3 DEF Parsed
<1>2. Len(elements) \in Nat
  <2>. DEFINE Q == {elements[i] : i \in 1..m}
  <2>1. elements \in [1..m -> Q]
    <3>1. elements = [i \in 1..m |-> elements[i]] /\ \A i \in 1..m : elements[i] \in Q
      BY DEF ElementsGiven
    <3> HIDE DEF Q
    <3> QED  BY <3>1
  <2> QED  BY <2>1, MadeIsSequence DEF ElementsGiven
<1>3. b \in AnyBlock(forms)
  BY <1>2 DEF AnyBlock
<1>4. C!MarkdownBlocks(elements) = IF out = << >> /\ elements # << >> THEN << b >> ELSE out
  BY DEF C!MarkdownBlocks, ElementLoop, NoBlocks
<1> HIDE DEF out, b
<1>5. << b >> \in Seq(AnyBlock(forms))
  BY <1>3
<1> QED  BY <1>1, <1>4, <1>5

\* Those of a plain PDF.
LEMMA PdfTyped ==
  ASSUME NEW forms, NEW lines, NEW m, ElementsGiven(lines, m, forms)
  PROVE  C!PdfJsonBlocks(lines) \in Seq(AnyBlock(forms))
PROOF
<1>1. m \in Nat /\ DOMAIN lines = 1..m /\ \A i \in 1..m : Sized(lines[i], forms)
  BY DEF ElementsGiven
<1>2. ASSUME NEW i \in 1..m PROVE C!Block(lines[i], "text", lines[i].level) \in AnyBlock(forms)
  <2>1. Sized(lines[i], forms) /\ lines[i].level \in Nat
    BY <1>1 DEF Sized
  <2> QED  BY <2>1, BlockTyped
<1>3. C!PdfJsonBlocks(lines) \in [1..m -> AnyBlock(forms)]
  BY <1>1, <1>2 DEF C!PdfJsonBlocks
<1> QED  BY <1>1, <1>3, MadeIsSequence

\* They are blocks.
LEMMA TheyAreBlocks ==
  ASSUME NEW forms, NEW blocks \in Seq(AnyBlock(forms))
  PROVE  Blocks(blocks, Len(blocks)) /\ Len(blocks) \in Nat
PROOF
<1>1. Len(blocks) \in Nat /\ DOMAIN blocks = 1..Len(blocks) /\ \A i \in 1..Len(blocks) : blocks[i] \in AnyBlock(forms)
  OBVIOUS
<1>2. \A i \in 1..Len(blocks) : blocks[i].size \in Nat /\ blocks[i].kind \in {"text", "title", "table"}
  BY <1>1 DEF AnyBlock
<1> QED  BY <1>1, <1>2 DEF Blocks, C!AtomicKinds

\* Min finds the least number.
LEMMA LeastIs ==
  ASSUME NEW Q \in SUBSET Nat, Q # {}
  PROVE  C!Min(Q) \in Q
PROOF
<1>1. SUFFICES ASSUME \A x \in Q : ~(\A y \in Q : x <= y) PROVE FALSE
  <2>1. PICK x \in Q : \A y \in Q : x <= y
    BY <1>1
  <2> QED  BY <2>1 DEF C!Min
<1>. DEFINE Z == {n \in Nat : \A x \in Q : x >= n}
<1>2. 0 \in Z
  OBVIOUS
<1>3. ASSUME NEW n \in Z PROVE n + 1 \in Z
  <2>1. n \in Nat /\ \A x \in Q : x >= n
    OBVIOUS
  <2>2. n \notin Q
    BY <1>1, <2>1
  <2>3. \A x \in Q : x >= n + 1
    BY <2>1, <2>2
  <2> QED  BY <2>1, <2>3
<1>4. Z \in SUBSET Nat
  OBVIOUS
<1> HIDE DEF Z
<1>5. Z = Nat
  BY <1>2, <1>3, <1>4, NatSetInduction
<1>6. PICK x \in Q : TRUE
  OBVIOUS
<1>7. x + 1 \in Nat /\ x \in Nat
  OBVIOUS
<1>8. x >= x + 1
  BY <1>5, <1>7 DEF Z
<1> QED  BY <1>7, <1>8

\* The pattern group that is chosen numbers its patterns.
LEMMA GroupIs ==
  ASSUME NEW forms, NEW blocks \in Seq(AnyBlock(forms))
  PROVE  DOMAIN C!SelectLevelGroup(blocks) \subseteq Nat
PROOF
<1>. DEFINE h(g) == C!Hits(blocks, g)
            Q == {h(g) : g \in DOMAIN C!TitleLevelGroups}
            most == C!Max(Q)
            hit == {g \in DOMAIN C!TitleLevelGroups : h(g) = most}
<1>1. DOMAIN C!TitleLevelGroups = 1..5
  BY DEF C!TitleLevelGroups
<1>2. ASSUME NEW g \in 1..5 PROVE DOMAIN C!TitleLevelGroups[g] \subseteq Nat
  <2>1. g = 1 \/ g = 2 \/ g = 3 \/ g = 4 \/ g = 5
    OBVIOUS
  <2>2. DOMAIN C!TitleLevelGroups[1] = 1..4 /\ DOMAIN C!TitleLevelGroups[2] = 1..5
    BY DEF C!TitleLevelGroups
  <2>3. DOMAIN C!TitleLevelGroups[3] = 1..5 /\ DOMAIN C!TitleLevelGroups[4] = 1..5
    BY DEF C!TitleLevelGroups
  <2>4. DOMAIN C!TitleLevelGroups[5] = 1..4
    BY DEF C!TitleLevelGroups
  <2> QED  BY <2>1, <2>2, <2>3, <2>4
<1>3. \A g \in 1..5 : h(g) \in Nat
  <2>1. ASSUME NEW g \in 1..5 PROVE h(g) \in Nat
    <3>. DEFINE Z == {i \in DOMAIN blocks : blocks[i].size > 0 /\ C!Matches(C!TitleLevelGroups[g], blocks[i].form)}
    <3>1. Len(blocks) \in Nat /\ DOMAIN blocks = 1..Len(blocks)
      OBVIOUS
    <3>2. IsFiniteSet(1..Len(blocks)) /\ 1..Len(blocks) \subseteq Nat
      BY <3>1, Interval
    <3>3. Z \subseteq 1..Len(blocks)
      BY <3>1
    <3>4. C!Hits(blocks, g) = C!Cardinality(Z)
      BY DEF C!Hits
    <3> HIDE DEF Z
    <3>5. IsFiniteSet(Z) /\ Z \in SUBSET Nat
      BY <3>2, <3>3, FS_Subset
    <3>6. C!Cardinality(Z) = Len(C!InOrder(Z)) /\ C!InOrder(Z) \in Seq(Z)
      BY <3>5, TheOrder DEF Orderly
    <3> QED  BY <3>4, <3>6
  <2> QED  BY <2>1
<1> HIDE DEF h
<1>4. Q = {h(1), h(2), h(3), h(4), h(5)}
  BY <1>1
<1>5. h(1) \in Nat /\ h(2) \in Nat /\ h(3) \in Nat /\ h(4) \in Nat /\ h(5) \in Nat
  BY <1>3
<1>6. most \in Q
  <2>1. \E x \in Q : \A y \in Q : x >= y
    <3> HIDE DEF Q
    <3> QED  BY <1>4, <1>5
  <2> HIDE DEF Q
  <2> QED  BY <2>1 DEF C!Max
<1> HIDE DEF most
<1>7. hit # {} /\ hit \subseteq 1..5
  BY <1>1, <1>6
<1> HIDE DEF hit
<1>8. C!Min(hit) \in 1..5
  <2>1. hit \in SUBSET Nat
    BY <1>7
  <2>2. C!Min(hit) \in hit
    BY <1>7, <2>1, LeastIs
  <2> QED  BY <1>7, <2>2
<1>9. C!SelectLevelGroup(blocks) = IF most = 0 THEN << >> ELSE C!TitleLevelGroups[C!Min(hit)]
  BY DEF C!SelectLevelGroup, most, Q, h, hit
<1>10. DOMAIN << >> \subseteq Nat
  OBVIOUS
<1> QED  BY <1>2, <1>8, <1>9, <1>10

\* The level of a block by the patterns.
LEMMA FrequencyTyped ==
  ASSUME NEW forms, NEW block \in AnyBlock(forms), NEW group, DOMAIN group \subseteq Nat
  PROVE  C!FrequencyLevel(block, group) \in Nat
PROOF
<1>1. block.heading \in Nat
  BY DEF AnyBlock
<1>. DEFINE Q == {k \in DOMAIN group : block.form \in group[k]}
<1>2. C!Matches(group, block.form) => Q # {}
  BY DEF C!Matches
<1>3. Q \in SUBSET Nat
  OBVIOUS
<1>4. C!FrequencyLevel(block, group) =
        IF block.kind = "title" THEN block.heading
        ELSE IF block.kind \notin C!AtomicKinds /\ block.size > 0 /\ C!Matches(group, block.form)
        THEN C!Min(Q) ELSE C!BodyLevel
  BY DEF C!FrequencyLevel
<1> HIDE DEF Q
<1>5. Q # {} => C!Min(Q) \in Nat
  BY <1>3, LeastIs
<1>6. C!BodyLevel \in Nat
  BY DEF C!BodyLevel
<1> QED  BY <1>1, <1>2, <1>4, <1>5, <1>6

\* An outline.
AnyEntry == [title : STRING, depth : Nat]

Outlined(outlines) == outlines \in Seq(AnyEntry)

\* An entry that is found is one of the outline.
LEMMA MatchIs ==
  ASSUME NEW form, NEW outlines, Outlined(outlines), NEW used
  PROVE  C!MatchOutline(form, outlines, used) = 0 \/ C!MatchOutline(form, outlines, used) \in DOMAIN outlines
PROOF
<1>. DEFINE sim(k) == C!Similarity(outlines[k].title, form)
            like == {k \in DOMAIN outlines \ used : sim(k) > 80}
            best == {k \in like : \A m \in like : sim(m) <= sim(k)}
<1>1. DOMAIN outlines \subseteq Nat
  BY DEF Outlined
<1>2. \A k : sim(k) = 100 \/ sim(k) = 90 \/ sim(k) = 0
  BY DEF C!Similarity
<1>3. C!MatchOutline(form, outlines, used) = IF like = {} THEN 0 ELSE C!Min(best)
  BY DEF C!MatchOutline
<1> HIDE DEF sim
<1>4. like \subseteq DOMAIN outlines /\ \A k \in like : sim(k) = 100 \/ sim(k) = 90
  BY <1>2
<1> HIDE DEF like
<1>5. like # {} => best # {}
  <2>. SUFFICES ASSUME like # {} PROVE best # {}
    OBVIOUS
  <2>1. CASE \E k \in like : sim(k) = 100
    <3>1. PICK k \in like : sim(k) = 100
      BY <2>1
    <3>2. \A m \in like : sim(m) <= sim(k)
      BY <1>4, <3>1
    <3> QED  BY <3>2
  <2>2. CASE \A k \in like : sim(k) # 100
    <3>1. PICK k \in like : TRUE
      OBVIOUS
    <3>2. \A m \in like : sim(m) = 90
      BY <1>4, <2>2
    <3>3. \A m \in like : sim(m) <= sim(k)
      BY <3>2
    <3> QED  BY <3>3
  <2> QED  BY <2>1, <2>2
<1>6. best \subseteq like
  OBVIOUS
<1> HIDE DEF best
<1>7. best \in SUBSET Nat
  BY <1>1, <1>4, <1>6
<1>8. best # {} => C!Min(best) \in DOMAIN outlines
  BY <1>4, <1>6, <1>7, LeastIs
<1> QED  BY <1>3, <1>5, <1>8

\* The entries used and the levels so far.
Leveled == [used : SUBSET Nat, levels : Seq(Nat)]

\* AddOutlineLevel adds a level.
LEMMA OutlineTyped ==
  ASSUME NEW acc \in Leveled, NEW block, NEW outlines, Outlined(outlines)
  PROVE  LET more == C!AddOutlineLevel(acc, block, outlines)
         IN more \in Leveled /\ Len(more.levels) = Len(acc.levels) + 1
PROOF
<1>. DEFINE more == C!AddOutlineLevel(acc, block, outlines)
            k == IF block.kind \in C!AtomicKinds THEN 0 ELSE C!MatchOutline(block.form, outlines, acc.used)
            v == outlines[k].depth + 1
            body == C!BodyLevel
            ls == Append(acc.levels, body)
            us == Append(acc.levels, v)
            u == acc.used \union {k}
<1>1. acc.used \in SUBSET Nat /\ acc.levels \in Seq(Nat)
  BY DEF Leveled
<1>2. k = 0 \/ k \in DOMAIN outlines
  BY MatchIs
<1>3. more = IF k = 0 THEN [acc EXCEPT !.levels = ls] ELSE [used |-> u, levels |-> us]
  BY DEF C!AddOutlineLevel
<1> HIDE DEF k, more
<1>4. k \in DOMAIN outlines => k \in Nat /\ v \in Nat
  <2>1. outlines \in Seq(AnyEntry)
    BY DEF Outlined
  <2>2. k \in DOMAIN outlines => k \in Nat /\ outlines[k] \in AnyEntry
    BY <2>1
  <2> QED  BY <2>2 DEF AnyEntry
<1>5. body \in Nat
  BY DEF C!BodyLevel
<1> HIDE DEF v, body
<1>6. ls \in Seq(Nat) /\ Len(ls) = Len(acc.levels) + 1
  BY <1>1, <1>5
<1>7. v \in Nat => us \in Seq(Nat) /\ Len(us) = Len(acc.levels) + 1
  BY <1>1
<1>8. k \in Nat => u \in SUBSET Nat
  BY <1>1
<1> HIDE DEF ls, us, u
<1>9. CASE k = 0
  <2>1. more = [acc EXCEPT !.levels = ls]
    BY <1>3, <1>9
  <2>2. more \in Leveled /\ more.levels = ls
    BY <1>6, <2>1 DEF Leveled
  <2> QED  BY <1>6, <2>2 DEF more
<1>10. CASE k # 0
  <2>1. more = [used |-> u, levels |-> us]
    BY <1>3, <1>10
  <2>2. u \in SUBSET Nat /\ us \in Seq(Nat) /\ Len(us) = Len(acc.levels) + 1
    BY <1>2, <1>4, <1>7, <1>8, <1>10
  <2>3. more \in Leveled /\ more.levels = us
    BY <2>1, <2>2 DEF Leveled
  <2> QED  BY <2>2, <2>3 DEF more
<1> QED  BY <1>9, <1>10

NoLevels == [used |-> {}, levels |-> << >>]

\* What the loop of resolve_outline_levels is given.
OutlinesGiven(blocks, forms, m, outlines) ==
  blocks \in Seq(AnyBlock(forms)) /\ m \in Nat /\ m = Len(blocks) /\ Outlined(outlines)

\* Its loop, block after block.
LEMMA OutlinesAre ==
  ASSUME NEW blocks, NEW forms, NEW m, NEW outlines, OutlinesGiven(blocks, forms, m, outlines)
  PROVE  \E f \in [0..m -> Leveled] :
           /\ f[0] = NoLevels
           /\ \A i \in 1..m : f[i] = C!AddOutlineLevel(f[i - 1], blocks[i], outlines)
           /\ f[m] = C!OutlineLevels(blocks, outlines)
PROOF
<1>. DEFINE st == [i \in 1..m |-> [a \in Leveled |-> C!AddOutlineLevel(a, blocks[i], outlines)]]
            F(it, s) == IF s = {} THEN NoLevels ELSE C!AddOutlineLevel(it[s \ {Top(s)}], blocks[Top(s)], outlines)
            iter == CHOOSE it : it = [s \in SUBSET (1..m) |-> F(it, s)]
<1>0. /\ blocks \in Seq(AnyBlock(forms)) /\ m \in Nat /\ m = Len(blocks) /\ Outlined(outlines)
  BY DEF OutlinesGiven
<1>1. C!OutlineLevels(blocks, outlines) = iter[1..m]
  <2>1. DOMAIN blocks = 1..m
    BY <1>0
  <2> QED  BY <2>1 DEF C!OutlineLevels, NoLevels, C!FoldLeft, C!MapThenFoldSet, Top
<1>2. \A i \in 1..m : \A a \in Leveled : st[i][a] = C!AddOutlineLevel(a, blocks[i], outlines) /\ st[i][a] \in Leveled
  BY <1>0, OutlineTyped
<1>3. NoLevels \in Leveled
  BY DEF Leveled, NoLevels
<1> HIDE DEF st
<1>4. Keep(st, Leveled, m)
  BY <1>2 DEF Keep
<1>5. \E it : it = [s \in SUBSET (1..m) |-> F(it, s)]
  <2>1. PICK it : Iterates(it, Leveled, NoLevels, m, st)
    BY <1>0, <1>3, <1>4, FoldTyped
  <2>2. ASSUME NEW s \in SUBSET (1..m)
        PROVE  it[s] = F(it, s)
    <3>1. s \ {Top(s)} \in SUBSET (1..m)
      OBVIOUS
    <3> QED  BY <1>0, <1>2, <2>1, <3>1, TopIs DEF Iterates
  <2> HIDE DEF F
  <2>3. it = [s \in SUBSET (1..m) |-> F(it, s)]
    BY <2>1, <2>2 DEF Iterates
  <2> QED  BY <2>3
<1>6. iter = [s \in SUBSET (1..m) |-> F(iter, s)]
  <2> HIDE DEF F
  <2> QED  BY <1>5
<1> HIDE DEF iter
<1>7. \A s \in SUBSET (1..m) : iter[s] = F(iter, s)
  <2> HIDE DEF F
  <2> QED  BY <1>6
<1>8. Goes(iter, Leveled, NoLevels, m, st)
  <2>1. iter[{}] = NoLevels
    BY <1>7
  <2>2. ASSUME NEW s \in SUBSET (1..m), s # {}, iter[s \ {Top(s)}] \in Leveled
        PROVE  iter[s] = st[Top(s)][iter[s \ {Top(s)}]]
    <3>1. Top(s) \in 1..m
      BY <1>0, <2>2, TopIs
    <3>2. iter[s] = C!AddOutlineLevel(iter[s \ {Top(s)}], blocks[Top(s)], outlines)
      BY <1>7, <2>2
    <3> QED  BY <1>2, <2>2, <3>1, <3>2
  <2> QED  BY <2>1, <2>2 DEF Goes
<1>9. PICK f : IsWay(f, Leveled, NoLevels, m, st) /\ f[m] = iter[1..m]
  BY <1>0, <1>3, <1>4, <1>8, FoldWay
<1>10. ASSUME NEW i \in 1..m
       PROVE  f[i] = C!AddOutlineLevel(f[i - 1], blocks[i], outlines)
  <2>1. i - 1 \in 0..m
    BY <1>0
  <2>2. f[i - 1] \in Leveled /\ f[i] = st[i][f[i - 1]]
    BY <1>9, <2>1 DEF IsWay
  <2> QED  BY <1>2, <2>2
<1> QED  BY <1>1, <1>9, <1>10 DEF IsWay

\* Every block has a level.
LEMMA LevelsTyped ==
  ASSUME NEW forms, NEW blocks \in Seq(AnyBlock(forms)), NEW outlines, Outlined(outlines)
  PROVE  C!TitleLevels(blocks, outlines) \in [1..Len(blocks) -> Nat]
PROOF
<1>. DEFINE m == Len(blocks)
            acc == C!OutlineLevels(blocks, outlines)
<1>1. m \in Nat /\ DOMAIN blocks = 1..m /\ \A i \in 1..m : blocks[i] \in AnyBlock(forms)
  OBVIOUS
<1>2. C!FrequencyLevels(blocks) \in [1..m -> Nat]
  <2>. DEFINE group == C!SelectLevelGroup(blocks)
  <2>1. DOMAIN group \subseteq Nat
    BY GroupIs
  <2>2. C!FrequencyLevels(blocks) = [i \in DOMAIN blocks |-> C!FrequencyLevel(blocks[i], group)]
    BY DEF C!FrequencyLevels
  <2> HIDE DEF group, m
  <2>3. \A i \in 1..m : C!FrequencyLevel(blocks[i], group) \in Nat
    BY <1>1, <2>1, FrequencyTyped
  <2> QED  BY <1>1, <2>2, <2>3
<1>3. OutlinesGiven(blocks, forms, m, outlines)
  BY <1>1 DEF OutlinesGiven
<1> HIDE DEF m
<1>4. PICK f \in [0..m -> Leveled] :
        /\ f[0] = NoLevels
        /\ \A i \in 1..m : f[i] = C!AddOutlineLevel(f[i - 1], blocks[i], outlines)
        /\ f[m] = acc
  BY <1>3, OutlinesAre
<1> HIDE DEF acc
<1>. DEFINE Z == {k \in Nat : k <= m => Len(f[k].levels) = k}
<1>5. 0 \in Z
  <2>1. Len(NoLevels.levels) = 0
    BY DEF NoLevels
  <2> QED  BY <1>4, <2>1
<1>6. ASSUME NEW k \in Z PROVE k + 1 \in Z
  <2>. SUFFICES ASSUME k + 1 <= m PROVE Len(f[k + 1].levels) = k + 1
    OBVIOUS
  <2>1. k \in Nat /\ k + 1 \in 1..m /\ (k + 1) - 1 = k /\ k <= m /\ k \in 0..m
    BY <1>1
  <2>2. f[k + 1] = C!AddOutlineLevel(f[k], blocks[k + 1], outlines) /\ f[k] \in Leveled
    BY <1>4, <2>1
  <2>3. Len(f[k + 1].levels) = Len(f[k].levels) + 1
    BY <2>2, OutlineTyped
  <2>4. Len(f[k].levels) = k
    BY <2>1
  <2> QED  BY <2>3, <2>4
<1>7. Z \in SUBSET Nat
  OBVIOUS
<1> HIDE DEF Z
<1>8. m \in Z /\ m <= m /\ m \in 0..m
  <2>1. Z = Nat
    BY <1>5, <1>6, <1>7, NatSetInduction
  <2> QED  BY <1>1, <2>1
<1>9. acc.levels \in Seq(Nat) /\ Len(acc.levels) = m
  <2>1. acc \in Leveled
    BY <1>4, <1>8
  <2>2. Len(acc.levels) = m
    BY <1>4, <1>8 DEF Z
  <2> QED  BY <2>1, <2>2 DEF Leveled
<1>10. acc.levels \in [1..m -> Nat]
  BY <1>9
<1>11. C!TitleLevels(blocks, outlines) = IF acc.used = {} THEN C!FrequencyLevels(blocks) ELSE acc.levels
  BY DEF C!TitleLevels, acc
<1> QED  BY <1>2, <1>10, <1>11 DEF m

-----------------------------------------------------------------------------
(* The steps of a document.                                                *)

\* The blocks that begin a section, none for the token chunker.
Openers(opts, blocks, lvls) ==
  IF opts.method = "token" THEN {} ELSE Beginnings(blocks, lvls, Len(blocks), opts.target)

\* The blocks whose text is in the bodies of the chunks.
Bodies(opts, blocks, lvls) ==
  IF opts.method = "hierarchy" THEN (1..Len(blocks)) \ Openers(opts, blocks, lvls) ELSE 1..Len(blocks)

\* What the chunkers promise.
ChunkedAs(opts, blocks, lvls, cs) ==
  /\ Tells(blocks, cs, Bodies(opts, blocks, lvls))
  /\ AllIn(cs, Placed(lvls, Openers(opts, blocks, lvls)))
  /\ opts.method = "hierarchy" => Displays(cs, Openers(opts, blocks, lvls))

\* The token chunker keeps it.
LEMMA ByTokens ==
  ASSUME NEW blocks, NEW N, N = Len(blocks), Blocks(blocks, N), NEW lvls, NEW opts, opts.method = "token",
         opts.limit \in Nat \ {0}
  PROVE  ChunkedAs(opts, blocks, lvls, C!TokenChunks(blocks, C!Ids(blocks), opts.limit, C!Root))
PROOF
<1>. DEFINE ids == C!Ids(blocks)
            n == opts.limit
            r == C!Root
            cs == C!TokenChunks(blocks, ids, n, r)
            own == 1..N
<1>1. N \in Nat /\ ids = [i \in 1..N |-> i]
  BY DEF Blocks, C!Ids
<1>2. ids \in [1..N -> 1..N] /\ \A i \in 1..N : ids[i] = i
  BY <1>1
<1>3. ids \in Seq(1..N) /\ Len(ids) = N
  <2> HIDE DEF ids
  <2> QED  BY <1>1, <1>2, MadeIsSequence
<1> HIDE DEF ids
<1>4. Ascends(ids, N)
  BY <1>2, <1>3 DEF Ascends
<1>5. Those(ids) = own
  BY <1>2, <1>3 DEF Those
<1>6. r \in AnySection /\ r.path = << >>
  BY DEF C!Root, AnySection
<1>7. Opened(r, lvls, {}, 0)
  <2>1. Over({}, lvls, 0) = {}
    BY DEF Over
  <2>2. Orderly(<< >>, {})
    BY DEF Orderly
  <2> HIDE DEF r
  <2> QED  BY <1>6, <2>1, <2>2 DEF Opened
<1> HIDE DEF r, n
<1>8. Tells(blocks, cs, own) /\ AllIn(cs, From(r, own))
  <2>1. n \in Nat \ {0}
    BY DEF n
  <2> HIDE DEF own
  <2> QED  BY <1>1, <1>4, <1>5, <1>6, <2>1, TokensTold
<1> HIDE DEF own, cs
<1>9. From(r, own) \subseteq Placed(lvls, {})
  <2>1. \A b \in own : Over({}, lvls, b) = Over({}, lvls, 0)
    BY DEF Over
  <2> QED  BY <1>7, <2>1, FromPlaced
<1>10. AllIn(cs, Placed(lvls, {}))
  BY <1>8, <1>9 DEF AllIn
<1>11. Openers(opts, blocks, lvls) = {} /\ Bodies(opts, blocks, lvls) = own
  BY DEF Openers, Bodies, own
<1>12. ChunkedAs(opts, blocks, lvls, cs)
  BY <1>8, <1>10, <1>11 DEF ChunkedAs
<1> QED  BY <1>12 DEF cs, ids, n, r

\* So do the two others.
LEMMA ByTitles ==
  ASSUME NEW blocks, NEW N, N = Len(blocks), Blocks(blocks, N), NEW lvls \in [1..N -> Nat], NEW opts,
         opts.method \in {"group", "hierarchy"}, opts.limit \in Nat \ {0}, opts.target \in Nat
  PROVE  ChunkedAs(opts, blocks, lvls,
                   IF opts.method = "group" THEN C!GroupChunks(blocks, lvls, opts.target, opts.limit)
                   ELSE C!HierarchyChunks(blocks, lvls, opts.target, opts.limit))
PROOF
<1>. DEFINE bs == Beginnings(blocks, lvls, N, opts.target)
            gs == C!GroupChunks(blocks, lvls, opts.target, opts.limit)
            hs == C!HierarchyChunks(blocks, lvls, opts.target, opts.limit)
<1>1. Titled(blocks, lvls, N, opts.target, opts.limit)
  BY DEF Titled, Blocks
<1>2. Openers(opts, blocks, lvls) = bs
  BY DEF Openers
<1>3. Tells(blocks, gs, 1..N) /\ AllIn(gs, Placed(lvls, bs))
  BY <1>1, GroupTold
<1>4. Tells(blocks, hs, (1..N) \ bs) /\ AllIn(hs, Placed(lvls, bs)) /\ Displays(hs, bs)
  BY <1>1, HierarchyTold
<1> HIDE DEF bs, gs, hs
<1>5. ASSUME opts.method = "group" PROVE ChunkedAs(opts, blocks, lvls, gs)
  <2>1. Bodies(opts, blocks, lvls) = 1..N
    BY <1>5 DEF Bodies
  <2> QED  BY <1>2, <1>3, <1>5, <2>1 DEF ChunkedAs
<1>6. ASSUME opts.method = "hierarchy" PROVE ChunkedAs(opts, blocks, lvls, hs)
  <2>1. Bodies(opts, blocks, lvls) = (1..N) \ bs
    BY <1>2, <1>6 DEF Bodies
  <2> QED  BY <1>2, <1>4, <1>6, <2>1 DEF ChunkedAs
<1> QED  BY <1>5, <1>6 DEF gs, hs

\* What a document, its options, its levels and its chunks may be.
Forms == {e.form : e \in Elements \cup Lines} \cup {"plain"}

Documents ==
  [suffix : {"md", "pdf"}, parts : C!SeqsUpTo(Elements, MaxElements) \cup C!SeqsUpTo(Lines, MaxElements),
   outlines : Outlines \cup {<< >>}, blocks : Seq(AnyBlock(Forms))]

ChunkOptions == [method : {"token", "group", "hierarchy"}, target : Nat, limit : Nat \ {0}]

ChunkState ==
  /\ document \in Documents
  /\ options \in ChunkOptions
  /\ phase \in {"given", "parsed", "resolved", "chunked"}
  /\ phase \in {"given", "parsed"} => levels = << >>
  /\ phase = "resolved" => options.method # "token"
  /\ levels # << >> \/ phase = "resolved" => levels \in [1..Len(document.blocks) -> Nat]
  /\ phase # "chunked" => chunks = << >>
  /\ phase = "chunked" => ChunkedAs(options, document.blocks, levels, chunks)

\* What Parse is given.
LEMMA PartsSized ==
  ASSUME NEW parts \in C!SeqsUpTo(Elements, MaxElements) \cup C!SeqsUpTo(Lines, MaxElements)
  PROVE  \E m : ElementsGiven(parts, m, Forms)
PROOF
<1>1. PICK Q \in {Elements, Lines} : \E m \in 0..MaxElements : parts \in [1..m -> Q]
  BY DEF C!SeqsUpTo
<1>2. PICK m \in 0..MaxElements : parts \in [1..m -> Q]
  BY <1>1
<1>3. m \in Nat
  BY ChunkParameters
<1>4. \A e \in Q : Sized(e, Forms)
  BY ChunkParameters DEF Sized, Forms
<1>5. \A i \in 1..m : Sized(parts[i], Forms)
  BY <1>2, <1>4
<1>6. DOMAIN parts = 1..m /\ parts = [i \in 1..m |-> parts[i]]
  BY <1>2
<1>7. ElementsGiven(parts, m, Forms)
  BY <1>3, <1>5, <1>6 DEF ElementsGiven
<1> QED  BY <1>7

\* It is so at first.
LEMMA ChunkInit == C!Init => ChunkState
PROOF
<1>. SUFFICES ASSUME C!Init PROVE ChunkState
  OBVIOUS
<1>1. document \in Documents
  <2>1. << >> \in Seq(AnyBlock(Forms))
    OBVIOUS
  <2>2. document.blocks = << >> /\ document.suffix \in {"md", "pdf"} /\ document.outlines \in Outlines \cup {<< >>}
        /\ document.parts \in C!SeqsUpTo(Elements, MaxElements) \cup C!SeqsUpTo(Lines, MaxElements)
    BY DEF C!Init
  <2>3. document = [suffix |-> document.suffix, parts |-> document.parts, outlines |-> document.outlines,
                    blocks |-> document.blocks]
    BY DEF C!Init
  <2>. DEFINE d == document.suffix
              p == document.parts
              o == document.outlines
              b == document.blocks
  <2>4. d \in {"md", "pdf"} /\ o \in Outlines \cup {<< >>} /\ b \in Seq(AnyBlock(Forms))
        /\ p \in C!SeqsUpTo(Elements, MaxElements) \cup C!SeqsUpTo(Lines, MaxElements)
    BY <2>1, <2>2
  <2>5. document = [suffix |-> d, parts |-> p, outlines |-> o, blocks |-> b]
    BY <2>3
  <2> HIDE DEF d, p, o, b
  <2> QED  BY <2>4, <2>5 DEF Documents
<1>2. options \in ChunkOptions
  BY ChunkParameters DEF C!Init, ChunkOptions
<1> QED  BY <1>1, <1>2 DEF C!Init, ChunkState

\* Every step keeps it.
LEMMA ChunkNext == ChunkState /\ [C!Next]_C!vars => ChunkState'
PROOF
<1>. SUFFICES ASSUME ChunkState, [C!Next]_C!vars PROVE ChunkState'
  OBVIOUS
<1>0. document \in Documents /\ options \in ChunkOptions
  BY DEF ChunkState
<1>1. /\ Blocks(document.blocks, Len(document.blocks)) /\ document.blocks \in Seq(AnyBlock(Forms))
      /\ options.method \in {"token", "group", "hierarchy"} /\ options.target \in Nat /\ options.limit \in Nat \ {0}
      /\ Outlined(document.outlines)
  <2>1. document.blocks \in Seq(AnyBlock(Forms)) /\ document.outlines \in Outlines \cup {<< >>}
    BY <1>0 DEF Documents
  <2>2. Outlined(document.outlines)
    <3>1. \A o \in Outlines : o \in Seq(AnyEntry)
      BY ChunkParameters DEF AnyEntry
    <3>2. << >> \in Seq(AnyEntry)
      OBVIOUS
    <3> QED  BY <2>1, <3>1, <3>2 DEF Outlined
  <2> QED  BY <1>0, <2>1, <2>2, TheyAreBlocks DEF ChunkOptions
<1>2. CASE C!Parse
  <2>. DEFINE b == IF document.suffix = "pdf" THEN C!PdfJsonBlocks(document.parts) ELSE C!MarkdownBlocks(document.parts)
  <2>1. b \in Seq(AnyBlock(Forms))
    <3>1. document.parts \in C!SeqsUpTo(Elements, MaxElements) \cup C!SeqsUpTo(Lines, MaxElements)
      BY <1>0 DEF Documents
    <3>2. PICK m : ElementsGiven(document.parts, m, Forms)
      BY <3>1, PartsSized
    <3>3. "plain" \in Forms
      BY DEF Forms
    <3> QED  BY <3>2, <3>3, MarkdownTyped, PdfTyped
  <2>2. phase = "given" /\ document' = [document EXCEPT !.blocks = b] /\ phase' = "parsed"
        /\ UNCHANGED <<options, levels, chunks>>
    BY <1>2 DEF C!Parse
  <2> HIDE DEF b
  <2>3. document' \in Documents
    BY <1>0, <2>1, <2>2 DEF Documents
  <2> QED  BY <2>2, <2>3 DEF ChunkState
<1>3. CASE C!ResolveLevels
  <2>1. /\ phase = "parsed" /\ options.method # "token" /\ phase' = "resolved"
        /\ levels' = C!TitleLevels(document.blocks, document.outlines)
        /\ UNCHANGED <<document, options, chunks>>
    BY <1>3 DEF C!ResolveLevels
  <2>2. levels' \in [1..Len(document.blocks) -> Nat]
    BY <1>1, <2>1, LevelsTyped
  <2> QED  BY <2>1, <2>2 DEF ChunkState
<1>4. CASE C!ChunkByTokens
  <2>1. /\ phase = "parsed" /\ options.method = "token" /\ phase' = "chunked"
        /\ chunks' = C!TokenChunks(document.blocks, C!Ids(document.blocks), options.limit, C!Root)
        /\ UNCHANGED <<document, options, levels>>
    BY <1>4 DEF C!ChunkByTokens
  <2>2. ChunkedAs(options, document.blocks, levels, chunks')
    BY <1>1, <2>1, ByTokens
  <2> QED  BY <2>1, <2>2 DEF ChunkState
<1>5. CASE C!ChunkByTitles
  <2>1. /\ phase = "resolved" /\ phase' = "chunked"
        /\ chunks' = IF options.method = "group"
                     THEN C!GroupChunks(document.blocks, levels, options.target, options.limit)
                     ELSE C!HierarchyChunks(document.blocks, levels, options.target, options.limit)
        /\ UNCHANGED <<document, options, levels>>
    BY <1>5 DEF C!ChunkByTitles
  <2>2. levels \in [1..Len(document.blocks) -> Nat] /\ options.method \in {"group", "hierarchy"}
    BY <1>1, <2>1 DEF ChunkState
  <2>3. ChunkedAs(options, document.blocks, levels, chunks')
    BY <1>1, <2>1, <2>2, ByTitles
  <2> QED  BY <2>1, <2>3 DEF ChunkState
<1>6. CASE UNCHANGED C!vars
  BY <1>6 DEF C!vars, ChunkState
<1> QED  BY <1>2, <1>3, <1>4, <1>5, <1>6 DEF C!Next

-----------------------------------------------------------------------------
(* The properties of the chunks.                                           *)

\* The openers are the headings that begin a section.
LEMMA OpenersBegin ==
  ASSUME ChunkState
  PROVE  LET N == Len(document.blocks)
             bs == Openers(options, document.blocks, levels)
         IN /\ N \in Nat /\ DOMAIN document.blocks = 1..N /\ bs \subseteq 1..N
            /\ \A h \in 1..N : h \in bs <=> C!Begins(h)
            /\ \A i \in 1..N : i \in Bodies(options, document.blocks, levels) <=> C!InBody(i)
            /\ \A i \in 1..N : C!Above(i) = Over(bs, levels, i)
            /\ Blocks(document.blocks, N)
PROOF
<1>. DEFINE N == Len(document.blocks)
            bs == Openers(options, document.blocks, levels)
<1>1. document.blocks \in Seq(AnyBlock(Forms))
  BY DEF ChunkState, Documents
<1>2. N \in Nat /\ DOMAIN document.blocks = 1..N /\ Blocks(document.blocks, N)
  BY <1>1, TheyAreBlocks DEF Blocks
<1>3. bs \subseteq 1..N
  BY DEF Openers, Beginnings, Heads
<1>4. \A h \in 1..N : h \in bs <=> C!Begins(h)
  BY DEF Openers, Beginnings, Heads, C!Begins
<1>5. \A i \in 1..N : i \in Bodies(options, document.blocks, levels) <=> C!InBody(i)
  BY <1>4 DEF Bodies, C!InBody
<1> HIDE DEF N, bs
<1>6. ASSUME NEW i \in 1..N PROVE C!Above(i) = Over(bs, levels, i)
  <2>1. \A h \in 1..i : h \in 1..N /\ \A j \in (h + 1)..i : j \in 1..N
    BY <1>2
  <2>2. ASSUME NEW h \in 1..i
        PROVE  (C!Begins(h) /\ \A j \in (h + 1)..i : C!Begins(j) => levels[j] > levels[h]) <=>
               (h \in bs /\ \A j \in (h + 1)..i : j \in bs => levels[j] > levels[h])
    <3>1. C!Begins(h) <=> h \in bs
      BY <1>4, <2>1
    <3>2. \A j \in (h + 1)..i : C!Begins(j) <=> j \in bs
      BY <1>4, <2>1
    <3> QED  BY <3>1, <3>2
  <2> QED  BY <2>2 DEF C!Above, Over
<1> QED  BY <1>2, <1>3, <1>4, <1>5, <1>6 DEF N, bs

\* Where the chunks have a token.
LEMMA PlacesAre ==
  ASSUME NEW blocks, NEW z, Tells(blocks, chunks, z)
  PROVE  /\ \A x \in C!Places :
              /\ x = <<x[1], x[2]>> /\ x[1] \in Nat /\ x[2] \in Nat
              /\ Token(chunks, x[1], x[2], C!TokenAt(x)) /\ C!TokenAt(x) \in Words(blocks, z)
         /\ \A k, p \in Nat, u \in Words(blocks, z) :
              Token(chunks, k, p, u) => <<k, p>> \in C!Places /\ C!TokenAt(<<k, p>>) = u
PROOF
<1>. DEFINE m == Len(chunks)
<1>1. m \in Nat /\ DOMAIN chunks = 1..m /\ \A k \in 1..m : chunks[k] \in AnyChunk
  BY DEF Tells, ChunkLists
<1>2. \A k \in 1..m : DOMAIN chunks[k].body = 1..Len(chunks[k].body) /\ Len(chunks[k].body) \in Nat
  <2>1. \A k \in 1..m : chunks[k].body \in Text
    BY <1>1 DEF AnyChunk
  <2> QED  BY <2>1 DEF Text
<1>3. \A k \in 1..m : \A p \in 1..Len(chunks[k].body) :
        chunks[k].body[p] = C!Newline \/ chunks[k].body[p] \in Words(blocks, z)
  BY DEF Tells
<1>4. \A u \in Words(blocks, z) : u # C!Newline
  BY DEF Words, C!Newline
<1> HIDE DEF m
<1>5. ASSUME NEW x \in C!Places
      PROVE  /\ x = <<x[1], x[2]>> /\ x[1] \in Nat /\ x[2] \in Nat
             /\ Token(chunks, x[1], x[2], C!TokenAt(x)) /\ C!TokenAt(x) \in Words(blocks, z)
  <2>1. PICK k \in DOMAIN chunks : x \in {k} \X DOMAIN chunks[k].body
    BY DEF C!Places
  <2>2. chunks[x[1]].body[x[2]] # C!Newline
    BY DEF C!Places
  <2>3. x = <<x[1], x[2]>> /\ x[1] = k /\ x[2] \in DOMAIN chunks[k].body
    BY <2>1
  <2>4. k \in 1..m /\ x[2] \in 1..Len(chunks[k].body)
    BY <1>1, <1>2, <2>1, <2>3
  <2>5. x[1] \in Nat /\ x[2] \in Nat
    BY <1>1, <1>2, <2>3, <2>4
  <2>6. Token(chunks, x[1], x[2], C!TokenAt(x))
    BY <2>3, <2>4 DEF Token, C!TokenAt, m
  <2>7. C!TokenAt(x) \in Words(blocks, z)
    BY <1>3, <2>2, <2>3, <2>4 DEF C!TokenAt
  <2> QED  BY <2>3, <2>5, <2>6, <2>7
<1>6. ASSUME NEW k \in Nat, NEW p \in Nat, NEW u \in Words(blocks, z), Token(chunks, k, p, u)
      PROVE  <<k, p>> \in C!Places /\ C!TokenAt(<<k, p>>) = u
  <2>1. k \in DOMAIN chunks /\ p \in DOMAIN chunks[k].body /\ chunks[k].body[p] = u
    BY <1>1, <1>2, <1>6 DEF Token, m
  <2>2. u # C!Newline
    BY <1>4
  <2>3. <<k, p>> \in {k} \X DOMAIN chunks[k].body
    BY <2>1
  <2>4. <<k, p>> \in C!Places
    BY <2>1, <2>2, <2>3 DEF C!Places
  <2> QED  BY <2>1, <2>4 DEF C!TokenAt
<1> QED  BY <1>5, <1>6

\* Nothing is lost.
LEMMA NothingLost == ChunkState => C!NothingIsLost
PROOF
<1>. SUFFICES ASSUME ChunkState, phase = "chunked" PROVE C!NothingIsLost
  BY DEF C!NothingIsLost
<1>. DEFINE blocks == document.blocks
            N == Len(blocks)
            bs == Openers(options, blocks, levels)
            z == Bodies(options, blocks, levels)
<1>1. /\ N \in Nat /\ DOMAIN blocks = 1..N /\ bs \subseteq 1..N
      /\ \A h \in 1..N : h \in bs <=> C!Begins(h)
      /\ \A i \in 1..N : i \in z <=> C!InBody(i)
      /\ Blocks(blocks, N)
  BY OpenersBegin
<1>2. /\ Tells(blocks, chunks, z) /\ AllIn(chunks, Placed(levels, bs))
      /\ options.method = "hierarchy" => Displays(chunks, bs)
  BY DEF ChunkState, ChunkedAs
<1>3. z \subseteq 1..N
  BY DEF Bodies
<1>4. \A x \in C!Places :
        /\ x = <<x[1], x[2]>> /\ x[1] \in Nat /\ x[2] \in Nat
        /\ Token(chunks, x[1], x[2], C!TokenAt(x)) /\ C!TokenAt(x) \in Words(blocks, z)
  BY <1>2, PlacesAre
<1>5. \A k, p \in Nat, u \in Words(blocks, z) :
        Token(chunks, k, p, u) => <<k, p>> \in C!Places /\ C!TokenAt(<<k, p>>) = u
  BY <1>2, PlacesAre
<1> HIDE DEF N, bs, z
<1>. DEFINE inBody == {j \in DOMAIN blocks : C!InBody(j)}
            all == UNION {C!ToSet(C!Units(blocks, i)) : i \in inBody}
<1>6. inBody = z
  BY <1>1, <1>3
<1>7. all = Words(blocks, z)
  <2>1. ASSUME NEW i PROVE C!ToSet(C!Units(blocks, i)) = {<<i, k>> : k \in 1..blocks[i].size}
    BY DEF C!ToSet, C!Units
  <2>2. \A i \in z : blocks[i].size \in Nat
    BY <1>1, <1>3 DEF Blocks
  <2> HIDE DEF blocks, inBody
  <2>3. all = UNION {{<<i, k>> : k \in 1..blocks[i].size} : i \in z}
    BY <1>6, <2>1
  <2> HIDE DEF all
  <2>4. ASSUME NEW u \in all PROVE u \in Words(blocks, z)
    <3>1. PICK i \in z : u \in {<<i, k>> : k \in 1..blocks[i].size}
      BY <2>3
    <3>2. PICK k \in 1..blocks[i].size : u = <<i, k>>
      BY <3>1
    <3>3. k \in Nat
      BY <2>2
    <3> QED  BY <3>2, <3>3 DEF Words
  <2>5. ASSUME NEW u \in Words(blocks, z) PROVE u \in all
    <3>1. u = <<u[1], u[2]>> /\ u[1] \in z /\ u[2] \in 1..blocks[u[1]].size
      BY DEF Words
    <3>2. u \in {<<u[1], k>> : k \in 1..blocks[u[1]].size}
      BY <3>1
    <3> QED  BY <2>3, <3>1, <3>2
  <2> QED  BY <2>4, <2>5
<1>8. {C!TokenAt(x) : x \in C!Places} = all
  <2>1. \A x \in C!Places : C!TokenAt(x) \in Words(blocks, z)
    BY <1>4
  <2>2. ASSUME NEW u \in Words(blocks, z) PROVE \E x \in C!Places : C!TokenAt(x) = u
    <3>1. PICK k, p \in Nat : Token(chunks, k, p, u)
      BY <1>2 DEF Tells
    <3>2. <<k, p>> \in C!Places /\ C!TokenAt(<<k, p>>) = u
      BY <1>5, <3>1
    <3> QED  BY <3>2
  <2> HIDE DEF all
  <2> QED  BY <1>7, <2>1, <2>2
<1>9. \A x, y \in C!Places : C!Precedes(x, y) => C!Precedes(C!TokenAt(x), C!TokenAt(y))
  <2>1. ASSUME NEW x \in C!Places, NEW y \in C!Places, C!Precedes(x, y)
        PROVE  C!Precedes(C!TokenAt(x), C!TokenAt(y))
    <3>. DEFINE u == C!TokenAt(x)
                v == C!TokenAt(y)
    <3>1. /\ x[1] \in Nat /\ x[2] \in Nat /\ Token(chunks, x[1], x[2], u) /\ u \in Words(blocks, z)
          /\ y[1] \in Nat /\ y[2] \in Nat /\ Token(chunks, y[1], y[2], v) /\ v \in Words(blocks, z)
      BY <1>4
    <3>2. C!Precedes(<<x[1], x[2]>>, <<y[1], y[2]>>)
      BY <2>1 DEF C!Precedes
    <3> HIDE DEF u, v
    <3>3. C!Precedes(u, v)
      BY <1>2, <3>1, <3>2 DEF Tells
    <3> QED  BY <3>3 DEF u, v
  <2> QED  BY <2>1
<1>10. ASSUME NEW i \in DOMAIN blocks, ~C!InBody(i) PROVE \E k \in DOMAIN chunks : C!Contains(chunks[k].path, i)
  <2>1. options.method = "hierarchy" /\ C!Begins(i)
    BY <1>10 DEF C!InBody
  <2>2. i \in bs
    BY <1>1, <2>1
  <2>3. PICK k \in 1..Len(chunks) : Names(chunks[k], i)
    BY <1>2, <2>1, <2>2 DEF Displays
  <2>4. k \in DOMAIN chunks
    BY <1>2 DEF Tells, ChunkLists
  <2> QED  BY <2>3, <2>4 DEF Names, C!Contains
<1>11. ASSUME NEW x \in C!Places, blocks[C!TokenAt(x)[1]].kind \in C!AtomicKinds
       PROVE  chunks[x[1]].body = C!Units(blocks, C!TokenAt(x)[1])
  <2>. DEFINE u == C!TokenAt(x)
              c == chunks[x[1]]
              p == x[2]
  <2>1. x[1] \in 1..Len(chunks) /\ p \in 1..Len(c.body) /\ c.body[p] = u /\ u \in Words(blocks, z)
    BY <1>4 DEF Token
  <2>2. IsTrue(blocks, c)
    BY <1>2, <2>1 DEF Tells
  <2>3. u # C!Newline
    BY <2>1 DEF Words, C!Newline
  <2>4. blocks[u[1]].kind \in C!AtomicKinds
    BY <1>11
  <2> HIDE DEF u, c, p
  <2>5. u[1] \in Inside(c.body)
    BY <2>1, <2>3 DEF Inside
  <2>6. c.kind # "text"
    BY <2>2, <2>4, <2>5 DEF IsTrue
  <2>7. PICK i \in Nat : c.body = C!Units(blocks, i)
    BY <2>2, <2>6 DEF IsTrue
  <2>8. u[1] = i
    <3>1. p \in DOMAIN c.body
      <4>1. chunks[x[1]] \in AnyChunk
        BY <1>2, <2>1 DEF Tells, ChunkLists
      <4>2. c.body \in Text
        BY <4>1 DEF AnyChunk, c
      <4> QED  BY <2>1, <4>2 DEF Text
    <3>2. c.body[p] = <<i, p>>
      BY <2>7, <3>1 DEF C!Units
    <3> QED  BY <2>1, <3>2
  <2>9. c.body = C!Units(blocks, u[1])
    BY <2>7, <2>8
  <2> QED  BY <2>9 DEF u, c
<1> HIDE DEF blocks
<1>12. C!NothingIsLost
  BY <1>8, <1>9, <1>10, <1>11 DEF C!NothingIsLost, all, inBody, blocks
<1> QED  BY <1>12

\* No chunk says it is from where its text is not.
LEMMA SectionTrue == ChunkState => C!SectionIsTrue
PROOF
<1>. SUFFICES ASSUME ChunkState, phase = "chunked" PROVE C!SectionIsTrue
  BY DEF C!SectionIsTrue
<1>. DEFINE blocks == document.blocks
            N == Len(blocks)
            bs == Openers(options, blocks, levels)
            z == Bodies(options, blocks, levels)
<1>1. N \in Nat /\ bs \subseteq 1..N /\ \A i \in 1..N : C!Above(i) = Over(bs, levels, i)
  BY OpenersBegin
<1>2. Tells(blocks, chunks, z) /\ AllIn(chunks, Placed(levels, bs))
  BY DEF ChunkState, ChunkedAs
<1>3. z \subseteq 1..N
  BY DEF Bodies
<1> HIDE DEF blocks, N, bs, z
<1>4. ASSUME NEW k \in DOMAIN chunks
      PROVE  LET c == chunks[k]
                 inside == {u[1] : u \in C!ToSet(c.body) \ {C!Newline}}
             IN /\ \A i \in inside : c.path = C!InOrder(C!Above(i))
                /\ c.path # << >> => c.level = levels[C!Last(c.path)]
                /\ c.kind = "text" => c.blocks = C!InOrder(inside)
                /\ c.body = << >> /\ c.kind = "text" => c.path = C!InOrder(C!Above(C!Last(c.path)))
  <2>. DEFINE c == chunks[k]
              inside == {u[1] : u \in C!ToSet(c.body) \ {C!Newline}}
  <2>1. k \in 1..Len(chunks) /\ c \in AnyChunk
    BY <1>2 DEF Tells, ChunkLists
  <2>2. IsTrue(blocks, c) /\ c \in Placed(levels, bs)
    BY <1>2, <2>1 DEF Tells, AllIn
  <2>3. DOMAIN c.body = 1..Len(c.body) /\ c.path \in Seq(Nat)
    <3>1. c.body \in Text /\ c.path \in Seq(Nat)
      BY <2>1 DEF AnyChunk
    <3> QED  BY <3>1 DEF Text
  <2>4. \A p \in 1..Len(c.body) : c.body[p] = C!Newline \/ c.body[p] \in Words(blocks, z)
    BY <1>2, <2>1 DEF Tells
  <2> HIDE DEF c
  <2>5. inside = Inside(c.body)
    <3>1. C!ToSet(c.body) = {c.body[p] : p \in 1..Len(c.body)}
      BY <2>3 DEF C!ToSet
    <3> QED  BY <3>1 DEF Inside
  <2>6. \A i \in Inside(c.body) : i \in 1..N
    <3>1. ASSUME NEW i \in Inside(c.body) PROVE i \in 1..N
      <4>1. PICK p \in 1..Len(c.body) : c.body[p] # C!Newline /\ i = c.body[p][1]
        BY DEF Inside
      <4>2. c.body[p] \in Words(blocks, z)
        BY <2>4, <4>1
      <4> QED  BY <1>3, <4>1, <4>2 DEF Words
    <3> QED  BY <3>1
  <2>7. /\ \A j \in 1..Len(c.path) : c.path[j] \in bs
        /\ \A i \in Inside(c.body) : c.path = C!InOrder(Over(bs, levels, i))
        /\ c.path # << >> => c.level = levels[C!Last(c.path)]
        /\ c.body = << >> /\ c.kind = "text" =>
             c.path # << >> /\ c.path = C!InOrder(Over(bs, levels, C!Last(c.path)))
    BY <2>2 DEF Placed
  <2>8. \A i \in Inside(c.body) : c.path = C!InOrder(C!Above(i))
    BY <1>1, <2>6, <2>7
  <2>9. c.body = << >> /\ c.kind = "text" => c.path = C!InOrder(C!Above(C!Last(c.path)))
    <3>. SUFFICES ASSUME c.body = << >>, c.kind = "text" PROVE c.path = C!InOrder(C!Above(C!Last(c.path)))
      OBVIOUS
    <3>. DEFINE l == C!Last(c.path)
    <3>1. c.path # << >> /\ c.path = C!InOrder(Over(bs, levels, l))
      BY <2>7
    <3>2. Len(c.path) \in 1..Len(c.path)
      BY <2>3, <3>1
    <3>3. l \in bs
      BY <2>7, <3>2 DEF C!Last
    <3> HIDE DEF l
    <3>4. c.path = C!InOrder(C!Above(l))
      BY <1>1, <3>1, <3>3
    <3> QED  BY <3>4 DEF l
  <2>10. c.kind = "text" => c.blocks = C!InOrder(inside)
    BY <2>2, <2>5 DEF IsTrue
  <2> HIDE DEF inside
  <2> QED  BY <2>5, <2>7, <2>8, <2>9, <2>10 DEF c, inside
<1> QED  BY <1>4 DEF C!SectionIsTrue

\* The blocks of a document are of the kinds the parsers make; a chunk is of one
\* of theirs, or of text, and its path is made of blocks.
LEMMA ChunkTyped == ChunkState => C!TypeOK
PROOF
<1>. SUFFICES ASSUME ChunkState PROVE C!TypeOK
  OBVIOUS
<1>. DEFINE blocks == document.blocks
            N == Len(blocks)
            bs == Openers(options, blocks, levels)
<1>1. N \in Nat /\ DOMAIN blocks = 1..N /\ bs \subseteq 1..N /\ Blocks(blocks, N)
  BY OpenersBegin
<1>2. blocks \in Seq(AnyBlock(Forms)) /\ document.suffix \in {"md", "pdf"}
  BY DEF ChunkState, Documents
<1>3. \A i \in DOMAIN blocks : blocks[i].kind \in C!AtomicKinds \cup {"text", "title"} /\ blocks[i].size \in Nat
  <2>1. ASSUME NEW i \in DOMAIN blocks PROVE blocks[i].kind \in C!AtomicKinds \cup {"text", "title"} /\ blocks[i].size \in Nat
    <3> HIDE DEF blocks
    <3>1. blocks[i] \in AnyBlock(Forms)
      BY <1>1, <1>2
    <3>. DEFINE b == blocks[i]
    <3> HIDE DEF b
    <3>2. b \in AnyBlock(Forms)
      BY <3>1 DEF b
    <3>3. b.kind \in {"text", "title", "table"} /\ b.size \in Nat
      BY <3>2 DEF AnyBlock
    <3> QED  BY <3>3 DEF b, C!AtomicKinds
  <2> QED  BY <2>1
<1>4. levels # << >> => DOMAIN levels = DOMAIN blocks
  BY <1>1 DEF ChunkState
<1>5. ASSUME NEW k \in DOMAIN chunks
      PROVE  /\ chunks[k].kind \in C!AtomicKinds \cup {"text"}
             /\ \A j \in DOMAIN chunks[k].path : chunks[k].path[j] \in DOMAIN blocks
  <2>1. CASE phase # "chunked"
    BY <1>5, <2>1 DEF ChunkState
  <2>2. CASE phase = "chunked"
    <3>. DEFINE c == chunks[k]
                z == Bodies(options, blocks, levels)
    <3>1. Tells(blocks, chunks, z) /\ AllIn(chunks, Placed(levels, bs))
      BY <2>2 DEF ChunkState, ChunkedAs
    <3> HIDE DEF bs, z
    <3>2. k \in 1..Len(chunks) /\ c \in AnyChunk
      BY <1>5, <3>1 DEF Tells, ChunkLists
    <3>3. c \in Placed(levels, bs)
      BY <3>1, <3>2 DEF AllIn
    <3> HIDE DEF c
    <3>4. c.path \in Seq(Nat) /\ c.kind \in C!AtomicKinds \cup {"text"}
      BY <3>2 DEF AnyChunk, C!AtomicKinds
    <3>5. \A j \in 1..Len(c.path) : c.path[j] \in bs
      BY <3>3 DEF Placed
    <3>6. \A j \in DOMAIN c.path : c.path[j] \in DOMAIN blocks
      BY <1>1, <3>4, <3>5
    <3> QED  BY <3>4, <3>6 DEF c
  <2> QED  BY <2>1, <2>2
<1> QED  BY <1>2, <1>3, <1>4, <1>5 DEF C!TypeOK, ChunkState

\* The document, its levels and its chunks are what the chunkers are proved to
\* make of them.
LEMMA ChunksReached == C!Spec => []ChunkState
PROOF
<1>1. C!Init => ChunkState
  BY ChunkInit
<1>2. ChunkState /\ [C!Next]_C!vars => ChunkState'
  BY ChunkNext
<1> QED  BY <1>1, <1>2, PTL DEF C!Spec

\* In every state the document, its blocks, levels and chunks have their types.
THEOREM ChunksTyped == C!Spec => []C!TypeOK
PROOF
<1> QED  BY ChunksReached, ChunkTyped, PTL

\* What a document is cut to has every token of it once and in its order, and says
\* which section it is from: the token chunker, and the two that go by the titles
\* (token_chunker.py, group_chunker.py, hierarchy_chunker.py).
THEOREM ChunksRight == C!Spec => []C!ChunksAreTrue
PROOF
<1>1. ChunkState => C!ChunksAreTrue
  BY NothingLost, SectionTrue DEF C!ChunksAreTrue
<1> QED  BY <1>1, ChunksReached, PTL
=============================================================================
