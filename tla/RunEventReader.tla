--------------------------- MODULE RunEventReader ---------------------------
(***************************************************************************)
(* GET /api/agent/runs/{run_id}/events: the generator                      *)
(* stream_agent_run_events on one connection.  It replays the Redis stream *)
(* from its first entry and, whenever XREAD comes back empty, asks the     *)
(* database whether the run is over.  The run itself is module RunStream,   *)
(* which the worker implements; what Redis retains of the log is           *)
(* log[first] and everything after it.                                     *)
(***************************************************************************)
EXTENDS RunStream

CONSTANTS
  MaxLog,      \* bound on the entries written to the stream
  Endings,     \* the ways the run may end
  MaxRetained, \* run_stream_max_len: XADD trims the stream to it
  Faults,      \* what may fail, a subset of FaultKinds
  MaxFaults    \* bound on the number of failures

FaultKinds ==
  {"connection", \* the SSE connection breaks, or the XREAD behind it fails
   "detail",     \* the request for the thread detail fails
   "expiry",     \* the stream's key expires
   "signal"}     \* the cancellation is stored but its signal is not sent

ASSUME ReaderAssumption ==
  /\ MaxLog \in Nat
  /\ Endings \subseteq Terminal
  /\ MaxRetained \in Nat \ {0, 1, 2}
  /\ Faults \subseteq FaultKinds
  /\ MaxFaults \in Nat

VARIABLES
  first,       \* the index of the oldest entry Redis retains
  conn,        \* the connection and the generator behind it
  faults       \* faults so far

readerVars == <<first, conn, faults>>

\* `id` is the Redis id of a replayed entry and 0 for a frame that the
\* generator makes up from the database; `final` carries the whole answer.
Frame == [type : EntryType \cup {"final"}, status : Terminal \cup {"none"}, id : Nat]

Conn == [at     : {"closed", "reading", "deciding", "sending"},
         cursor : Nat,         \* after_id
         frames : Seq(Frame)]  \* read but not sent

Closed == [at |-> "closed", cursor |-> 0, frames |-> <<>>]

ReaderTypeOK ==
  /\ StreamTypeOK
  /\ first \in Nat \ {0}
  /\ conn \in Conn
  /\ faults \in 0..MaxFaults

ReaderInit ==
  /\ StreamInit
  /\ first = 1
  /\ conn = Closed
  /\ faults = 0

Fault(f) ==
  /\ f \in Faults
  /\ faults < MaxFaults
  /\ faults' = faults + 1

-----------------------------------------------------------------------------
(* The run and what Redis keeps of it.                                     *)

\* A key that expired is not written again: it is kept for a day after the
\* last write, far longer than a job may run.
Expired == first > Len(log) /\ log # <<>>

\* A step of the run.  XADD trims the stream approximately: it drops any
\* number of the entries beyond the bound.
RunStep ==
  /\ StreamNext
  /\ status' \in Active \cup Endings
  /\ log' # log => Len(log) < MaxLog /\ ~Expired
  /\ first' \in first .. (IF Len(log') - MaxRetained + 1 > first /\ log' # log
                          THEN Len(log') - MaxRetained + 1
                          ELSE first)
  /\ UNCHANGED <<conn, faults>>

\* The key expires a day after the worker's last write.
Expire ==
  /\ status \in Terminal
  /\ log # <<>> /\ ~Expired
  /\ Fault("expiry")
  /\ first' = Len(log) + 1
  /\ UNCHANGED <<status, log, conn>>

-----------------------------------------------------------------------------
(* stream_agent_run_events.                                                *)

\* Whatever the client saw before, a connection begins before the first entry.
Open ==
  /\ conn.at = "closed"
  /\ conn' = [Closed EXCEPT !.at = "reading"]

FrameOf(i) == [type |-> log[i].type, status |-> log[i].status, id |-> i]

Made(type, decision) == [type |-> type, status |-> decision, id |-> 0]

\* The first retained entry behind the cursor.
NextId == IF first > conn.cursor THEN first ELSE conn.cursor + 1

\* XREAD returns everything behind the cursor.
ReadBatch ==
  /\ conn.at = "reading"
  /\ NextId <= Len(log)
  /\ conn' = [conn EXCEPT !.at = "sending",
                !.frames = [k \in 1..Len(log) - NextId + 1 |-> FrameOf(NextId + k - 1)]]

\* XREAD comes back empty when its time is over.
ReadNothing ==
  /\ conn.at = "reading"
  /\ NextId > Len(log)
  /\ conn' = [conn EXCEPT !.at = "deciding"]

MadeEnd == <<Made("end", status)>>

\* Plausible slips: an interrupted run is taken for an active one; the
\* question is left to the thread detail; a stream that fell silent is over.
AnswersWithoutInterrupted ==
  IF status \in Terminal \ {"interrupted"} THEN {MadeEnd} ELSE {<<>>}

AnswersWithoutQuestion ==
  IF status \in Terminal THEN {MadeEnd} ELSE {<<>>}

AnswersTooSoon ==
  IF status \in Active
  THEN {<<>>, <<Made("end", "completed")>>}
  ELSE {<<Made("interaction", "none"), Made("end", status)>>}

\* The frames the row gives rise to: none while the run is active.  The answer
\* of a completed run is there unless its message was not saved.
Answers ==
  CASE status = "completed"   -> {<<Made("final", "none"), Made("end", status)>>, MadeEnd}
    [] status = "interrupted" -> {<<Made("interaction", "none"), Made("end", status)>>}
    [] status \in {"failed", "cancelled"} -> {MadeEnd}
    [] OTHER                  -> {<<>>}

\* The row is read, some time after the stream was found empty.
Decided ==
  /\ conn.at = "deciding"
  /\ \E answer \in Answers :
       conn' = IF answer = <<>>
               THEN [conn EXCEPT !.at = "reading"]
               ELSE [conn EXCEPT !.at = "sending", !.frames = answer]

ReaderStep ==
  /\ ReadBatch \/ ReadNothing \/ Decided
  /\ UNCHANGED <<status, log, first, faults>>

\* The generator yields f; an end is the last thing it yields.
Send(f) ==
  /\ conn.at = "sending"
  /\ f = Head(conn.frames)
  /\ conn' = IF f.type = "end"
             THEN Closed
             ELSE [at     |-> IF Len(conn.frames) = 1 THEN "reading" ELSE "sending",
                   cursor |-> IF f.id = 0 THEN conn.cursor ELSE f.id,
                   frames |-> Tail(conn.frames)]

\* The connection breaks, or the generator does; nothing else comes of it.
Break ==
  /\ conn.at # "closed"
  /\ Fault("connection")
  /\ conn' = Closed
=============================================================================
