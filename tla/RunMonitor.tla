----------------------------- MODULE RunMonitor -----------------------------
(***************************************************************************)
(* The chat page (ChatView with useAgentRun and useChat) watching one run:  *)
(* it opens the thread or creates the run, reads the run's SSE connection,  *)
(* reconnects when the connection breaks, asks for cancellation, and        *)
(* reloads the thread detail when the run has ended.  Every navigation      *)
(* starts a new operation; what an earlier operation is still waiting for  *)
(* arrives all the same.                                                   *)
(*                                                                         *)
(* The page is single-threaded: an action is what it does between two      *)
(* awaits.  Frames in transit are the ones the generator has not sent.     *)
(***************************************************************************)
EXTENDS RunEventReader

CONSTANTS
  MaxOps,      \* bound on the operations of the page
  Cancels      \* calls of the cancel endpoint the page may make

ASSUME MonitorAssumption == MaxOps \in Nat \ {0}

VARIABLES
  op,          \* `operation`, the current one
  monitor,     \* where each operation is
  detail,      \* the thread detail each operation waits for
  view,        \* the refs of useAgentRun
  text,        \* the streamed content on the page, by entry
  cancel       \* the cancel calls

pageVars == <<op, monitor, detail, view, text, cancel>>
vars == <<status, log, readerVars, pageVars>>

Ops == 1..MaxOps

MonitorState ==
  {"none",
   "loading",    \* loadThread awaits the thread detail
   "created",    \* submit awaits it, the run was created
   "looping",    \* monitorRun before its loop condition
   "consuming",  \* it awaits the stream
   "settling",   \* it awaits the detail after an end event
   "recovering", \* it awaits the detail after an error
   "done"}

\* A thread detail is read by several queries: first the messages with their
\* runs, then the active run, then the run waiting for an answer.
Detail == [at       : {"none", "messages", "active", "question", "ready"},
           listed   : Status,                \* the run as the first query read it
           active   : Active \cup {"none"},  \* as the second did
           question : BOOLEAN]               \* whether the third found it

NoDetail == [at |-> "none", listed |-> "pending", active |-> "none", question |-> FALSE]

Asked == [NoDetail EXCEPT !.at = "messages"]

\* `run`: runId is set; `url`: streamUrl is.
View == [run : BOOLEAN, status : Status, url : BOOLEAN, question : BOOLEAN,
         cancelling : BOOLEAN]

\* clearRun.
NoRun == [run |-> FALSE, status |-> "pending", url |-> FALSE, question |-> FALSE,
          cancelling |-> FALSE]

\* The response of a call is a status or an error.
CancelState == {"none", "sent", "error"} \cup Status

TypeOK ==
  /\ ReaderTypeOK
  /\ op \in 0..MaxOps
  /\ monitor \in [Ops -> MonitorState]
  /\ detail \in [Ops -> Detail]
  /\ view \in View
  /\ text \in Seq(1..MaxLog)
  /\ cancel \in [Cancels -> CancelState]

Init ==
  /\ ReaderInit
  /\ op = 0
  /\ monitor = [o \in Ops |-> "none"]
  /\ detail = [o \in Ops |-> NoDetail]
  /\ view = NoRun
  /\ text = <<>>
  /\ cancel = [c \in Cancels |-> "none"]

ShownActive == view.run /\ view.status \in Active

stream == <<status, log, first>>

-----------------------------------------------------------------------------
(* The thread detail.                                                      *)

\* getThreadDetail is called; the operation waits at `at` for the answer.
Request(o, at) ==
  /\ monitor' = [monitor EXCEPT ![o] = at]
  /\ detail' = [detail EXCEPT ![o] = Asked]

\* One query of get_thread_detail.  The queries share a session: a row that is
\* read again is also refreshed where it was read before.
ReadDetail(o) ==
  LET d == detail[o] IN
  /\ \/ /\ d.at = "messages"
        /\ detail' = [detail EXCEPT ![o].at = "active", ![o].listed = status]
     \/ /\ d.at = "active"
        /\ detail' = [detail EXCEPT ![o] =
             IF status \in Active
             THEN [d EXCEPT !.at = "question", !.listed = status, !.active = status]
             ELSE [d EXCEPT !.at = "question"]]
     \/ /\ d.at = "question"
        /\ detail' = [detail EXCEPT ![o] =
             IF status = "interrupted"
             THEN [d EXCEPT !.at = "ready", !.listed = status, !.question = TRUE]
             ELSE [d EXCEPT !.at = "ready"]]
  /\ UNCHANGED <<stream, conn, faults, op, monitor, view, text, cancel>>

\* applyThreadDetail and restoreRunFromThread.  The messages on the page are
\* replaced by the saved ones.
Restore(d) ==
  /\ view' = [view EXCEPT !.run = TRUE,
                          !.status = d.listed,
                          !.url = d.active # "none",
                          !.question = d.question]
  /\ text' = <<>>

\* Plausible slip: an answer to an earlier operation is applied as well.
RestoreAnyway(o) == Restore(detail[o])

\* The answer is applied unless the page has moved on.
RestoreIfCurrent(o) ==
  IF o = op THEN Restore(detail[o]) ELSE UNCHANGED <<view, text>>

\* What the operation does next, given what the page then shows.
Continue(o) ==
  monitor' = [monitor EXCEPT ![o] =
    IF o # op \/ monitor[o] = "settling" THEN "done"
    ELSE IF monitor[o] = "created" THEN "looping"
    ELSE IF view'.run /\ view'.status \in Active
            /\ (monitor[o] = "loading" => detail[o].active # "none")
         THEN "looping"
         ELSE "done"]

DetailArrives(o) ==
  /\ detail[o].at = "ready"
  /\ RestoreIfCurrent(o)
  /\ Continue(o)
  /\ detail' = [detail EXCEPT ![o] = NoDetail]
  /\ UNCHANGED <<stream, conn, faults, op, cancel>>

\* The request fails.  Opening a thread gives up, monitoring goes on with
\* what the page shows.
DetailFails(o) ==
  /\ detail[o].at # "none"
  /\ Fault("detail")
  /\ UNCHANGED <<view, text>>
  /\ IF monitor[o] = "loading"
     THEN monitor' = [monitor EXCEPT ![o] = "done"]
     ELSE Continue(o)
  /\ detail' = [detail EXCEPT ![o] = NoDetail]
  /\ UNCHANGED <<stream, conn, op, cancel>>

-----------------------------------------------------------------------------
(* Operations.                                                             *)

\* abortStream: the operation that reads the stream ends with an AbortError.
Abort == [monitor EXCEPT ![op] = IF @ = "consuming" THEN "done" ELSE @]

\* submit: the response of createRun; the run is pending and has a stream.
CreateRun ==
  /\ op = 0
  /\ op' = 1
  /\ view' = [NoRun EXCEPT !.run = TRUE, !.url = TRUE]
  /\ Request(1, "created")
  /\ UNCHANGED <<stream, conn, faults, text, cancel>>

\* loadThread: the page is opened, left and opened again.
OpenThread ==
  /\ op < MaxOps
  /\ op' = op + 1
  /\ monitor' = [(IF op = 0 THEN monitor ELSE Abort) EXCEPT ![op + 1] = "loading"]
  /\ detail' = [detail EXCEPT ![op + 1] = Asked]
  /\ conn' = Closed
  /\ view' = NoRun
  /\ text' = <<>>
  /\ UNCHANGED <<stream, faults, cancel>>

-----------------------------------------------------------------------------
(* monitorRun.                                                             *)

\* Plausible slip: the streamed messages of the last connection stay.
ConnectUncleared(o) ==
  /\ monitor' = [monitor EXCEPT ![o] = "consuming"]
  /\ Open
  /\ UNCHANGED text

\* clearRunStreamMessages, and a new connection.
Connect(o) ==
  /\ monitor' = [monitor EXCEPT ![o] = "consuming"]
  /\ Open
  /\ text' = <<>>

\* The loop, entered at once or a second after an error.
Loop(o) ==
  /\ monitor[o] = "looping"
  /\ IF o = op /\ ShownActive /\ view.url
     THEN Connect(o)
     ELSE monitor' = [monitor EXCEPT ![o] = "done"] /\ UNCHANGED <<conn, text>>
  /\ UNCHANGED <<stream, faults, op, detail, view, cancel>>

\* The event handler of consumeRunStream and what follows an end.  The whole
\* answer made up for a completed run has no stream_event and is ignored.
Receive(o, f) ==
  \/ /\ f.type = "running"
     /\ view' = [view EXCEPT !.status = "running"]
     /\ UNCHANGED <<text, monitor, detail>>
  \/ /\ f.type = "content"
     /\ text' = Append(text, f.id)
     /\ UNCHANGED <<view, monitor, detail>>
  \/ /\ f.type = "interaction"
     /\ view' = [view EXCEPT !.question = TRUE]
     /\ UNCHANGED <<text, monitor, detail>>
  \/ /\ f.type = "final"
     /\ UNCHANGED <<view, text, monitor, detail>>
  \/ /\ f.type = "end"
     /\ view' = [view EXCEPT !.status = f.status, !.url = FALSE]
     /\ Request(o, "settling")
     /\ UNCHANGED text

ReceiveFrame(o) ==
  /\ monitor[o] = "consuming"
  /\ conn.at = "sending"
  /\ LET f == Head(conn.frames) IN Send(f) /\ Receive(o, f)
  /\ UNCHANGED <<stream, faults, op, cancel>>

\* The stream ends before an end event: the error branch of the loop.
ConnectionBreaks(o) ==
  /\ monitor[o] = "consuming"
  /\ Break
  /\ Request(o, "recovering")
  /\ UNCHANGED <<stream, op, view, text, cancel>>

-----------------------------------------------------------------------------
(* cancelCurrentRun.                                                       *)

SendCancel(c) ==
  /\ cancel[c] = "none"
  /\ ShownActive /\ ~view.cancelling
  /\ cancel' = [cancel EXCEPT ![c] = "sent"]
  /\ view' = [view EXCEPT !.cancelling = TRUE]
  /\ UNCHANGED <<stream, conn, faults, op, monitor, detail, text>>

\* The request is committed: RequestCancel on the status alone.
CommitCancel(c) ==
  /\ cancel[c] = "sent"
  /\ \/ AskToStop /\ cancel' = [cancel EXCEPT ![c] = "cancel_requested"] /\ UNCHANGED faults
     \/ AskToStop /\ cancel' = [cancel EXCEPT ![c] = "error"] /\ Fault("signal")
     \/ /\ status \in Terminal
        /\ cancel' = [cancel EXCEPT ![c] = status]
        /\ UNCHANGED <<status, log, faults>>
  /\ UNCHANGED <<first, conn, op, monitor, detail, view, text>>

\* Plausible slip: the flag is reset on success only.
CancelReturnsWithoutFinally(c) ==
  /\ cancel[c] \in Status \cup {"error"}
  /\ view' = IF ~view.run \/ cancel[c] = "error" THEN view
             ELSE [view EXCEPT !.cancelling = FALSE, !.status = cancel[c]]
  /\ cancel' = [cancel EXCEPT ![c] = "none"]
  /\ UNCHANGED <<stream, conn, faults, op, monitor, detail, text>>

\* The response, however late, applies to the run the page shows.
CancelReturns(c) ==
  /\ cancel[c] \in Status \cup {"error"}
  /\ view' = IF ~view.run THEN view
             ELSE IF cancel[c] = "error" THEN [view EXCEPT !.cancelling = FALSE]
             ELSE [view EXCEPT !.cancelling = FALSE, !.status = cancel[c]]
  /\ cancel' = [cancel EXCEPT ![c] = "none"]
  /\ UNCHANGED <<stream, conn, faults, op, monitor, detail, text>>

-----------------------------------------------------------------------------

PageStep(o) == ReadDetail(o) \/ DetailArrives(o) \/ Loop(o) \/ ReceiveFrame(o)

CancelStep(c) == CommitCancel(c) \/ CancelReturns(c)

Next ==
  \/ (RunStep \/ Expire \/ ReaderStep) /\ UNCHANGED pageVars
  \/ CreateRun \/ OpenThread
  \/ \E o \in Ops : PageStep(o) \/ DetailFails(o) \/ ConnectionBreaks(o)
  \/ \E c \in Cancels : SendCancel(c) \/ CancelStep(c)

\* The server answers and the page's event loop runs.  Nothing is assumed of
\* the run: it may never be decided, nor write what it promises to write.
Fairness ==
  /\ WF_vars(ReaderStep /\ UNCHANGED pageVars)
  /\ \A o \in Ops : WF_vars(PageStep(o))
  /\ \A c \in Cancels : WF_vars(CancelStep(c))

Spec == Init /\ [][Next]_vars /\ Fairness

-----------------------------------------------------------------------------
(* Safety.                                                                 *)

\* The page never says that a run is over, or how it ended, unless the row
\* says so: not by replaying, by reconnecting, by a late thread detail or by a
\* late cancel response.
ShownEndIsTrue ==
  view.run /\ view.status \in Terminal => view.status = status

\* The streamed text on the page is the stream's: no entry twice and none out
\* of order, whatever was replayed, and none the connection has not come to; and
\* as long as Redis has the whole log, no entry is missing up to where it has come.
TextIsStream ==
  /\ \A i, j \in 1..Len(text) : i < j => text[i] < text[j]
  /\ \A i \in 1..Len(text) : log[text[i]].type = "content"
  /\ conn.at # "closed" =>
       /\ \A i \in 1..Len(text) : text[i] <= conn.cursor
       /\ first = 1 => \A n \in 1..conn.cursor :
            log[n].type = "content" => \E i \in 1..Len(text) : text[i] = n

\* A page that has left the stream of an interrupted run shows its question:
\* the interaction event, the database and the thread detail cannot each leave
\* it out.  (While it has the stream a cancel response may be ahead of it.)
QuestionIsShown ==
  view.run /\ view.status = "interrupted" /\ ~view.url => view.question

\* A page that shows an active run is watching it, or about to.
ActiveIsWatched ==
  op > 0 /\ ShownActive => monitor[op] # "done"

\* Within an operation only the response to a cancel call takes back the end of
\* a run whose stream the page has left; no answer to an earlier operation does,
\* nor one that was read before the end.  (While it has the stream, the running
\* event that is replayed takes back what a cancel response was ahead with.)
ShownEndStays ==
  [][view.run /\ ~view.url /\ view.status \in Terminal /\ op' = op /\ cancel' = cancel
       => view'.status = view.status]_vars

-----------------------------------------------------------------------------
(* Liveness.                                                               *)

\* Once the run is decided every operation comes to rest, although the end
\* event may never be written, be trimmed, or expire before it is read.
WatchingEnds ==
  (status \in Terminal) ~> (\A o \in Ops : monitor[o] \in {"none", "done"})

\* The stop button does not stay disabled.
CancellingEnds == view.cancelling ~> ~view.cancelling
=============================================================================
