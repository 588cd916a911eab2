----------------------------- MODULE RunWorker ------------------------------
(***************************************************************************)
(* One agent run, from the queued ARQ job to the decided row: the job      *)
(* process_agent_run, the cancellation listener it owns, the API calls     *)
(* that ask for cancellation, the cancel key and channel and the event     *)
(* stream in Redis, and the agent_run row in PostgreSQL.  PostgreSQL is    *)
(* taken to answer; everything that goes through Redis may fail.           *)
(*                                                                         *)
(* Every step is what the program does between two awaits that reach       *)
(* PostgreSQL, Redis or the agent stream: the listener, the callers and    *)
(* the stream run between any two steps of the job.  The agent stream is   *)
(* an arbitrary producer of the chunks thread_service may yield, in the    *)
(* orders in which it may yield them (Closing).                            *)
(***************************************************************************)
EXTENDS AgentRunRepository, Naturals, Sequences

CONSTANTS
  Callers,     \* calls of the cancel endpoint for this run
  Kinds,       \* which runs there are: "chat", "resume", or "orphan", a run
               \* that is not a resume and has no input message
  Chunks,      \* the statuses of the chunks the agent stream may yield
  MaxChunks,   \* bound on the chunks yielded in one attempt
  MaxTries,    \* ARQ's max_tries
  Faults,      \* the faults that may occur, a subset of FaultKinds
  MaxFaults    \* bound on their number

ChunkStatus ==
  {"loading", "agent_state", "ask_human", "interrupted", "error", "finished"}

FaultKinds ==
  {"redis",    \* a Redis command of the worker or of a caller fails
   "drop",     \* the Pub/Sub connection drops and redis-py subscribes again
   "listener", \* a Redis command of the listener fails
   "abort",    \* ARQ cancels the job's task: timeout or shutdown
   "crash"}    \* the worker process dies

ASSUME ConstantsAssumption ==
  /\ Kinds \subseteq {"chat", "resume", "orphan"}
  /\ Chunks \subseteq ChunkStatus
  /\ MaxChunks \in Nat
  /\ MaxTries \in Nat
  /\ Faults \subseteq FaultKinds
  /\ MaxFaults \in Nat

VARIABLES
  row,         \* the agent_run row
  kind,        \* its run_type and trigger message, as the job reads them
  job,         \* ARQ's view of the job
  tries,       \* attempts ARQ has started
  pc,          \* where process_agent_run is
  chunk,       \* the chunk it is handling
  bucket,      \* loading chunks buffered by the StreamEventSmoother
  seen,        \* terminal_flag
  fin,         \* the _finalize_run in progress: its call site and result
  raised,      \* the exception on its way out through a finally
  out,         \* what the pending anext() of the agent stream has come to
  yields,      \* chunks yielded in this attempt
  listener,    \* the _watch_cancel_signal task
  inbox,       \* a message for this run waits on the subscription
  caller,      \* the cancel calls
  cancelKey,   \* run:cancel:{run_id} exists
  events,      \* run:events:{run_id}
  faults       \* faults so far

jobVars      == <<job, tries>>
workerVars   == <<pc, chunk, bucket, seen, fin, raised>>
streamVars   == <<out, yields>>
listenerVars == <<listener, inbox>>
vars == <<row, kind, jobVars, workerVars, streamVars, listenerVars, caller,
          cancelKey, events, faults>>

-----------------------------------------------------------------------------
(* Chunks and events.                                                      *)

\* `detail`: an error chunk has its text, an interrupted one its payload.
Item == [status : ChunkStatus \cup {"none", "raise", "stop"}, detail : Text]

Nothing == [status |-> "none", detail |-> "absent"]

\* Chunks after which the thread service only closes its stream.
Closing == {"interrupted", "error", "finished"}

EventType == {"status", "messages", "custom", "interaction", "end"}

Event == [type : EventType, status : Status \cup {"none"}, items : Nat]

Plain(type)      == [type |-> type, status |-> "none", items |-> 0]
Messages(n)      == [type |-> "messages", status |-> "none", items |-> n]
RunningEvent     == [type |-> "status", status |-> "running", items |-> 0]
EndEvent(status) == [type |-> "end", status |-> status, items |-> 0]

-----------------------------------------------------------------------------
(* Where the job can be.                                                   *)

\* Before the outer try: nothing to clean up.
Preparing ==
  {"loading", "preparing", "starting", "preCancelling", "preClearing"}

\* Steps of _finalize_run and the second end after it.
Finalizing == {"interacting", "publishing", "clearing", "republishing"}

\* The rest of the inner try's body and its except clauses.
TryBody == {"streaming", "smoothing", "flushing", "checkingKey",
            "checkingRow", "dispatching", "draining"}
Handlers == {"cancelling", "deciding", "failing"}

PC == {"idle", "announcing", "closing"} \cup Preparing \cup Finalizing
        \cup TryBody \cup Handlers

\* _finalize_run is called from the loop, from `except CancelledError` or
\* from `except Exception`.
Site == {"chunk", "cancel", "fail"}

Fin == [site : Site, got : Status, changed : BOOLEAN]

NoFin == [site |-> "chunk", got |-> "pending", changed |-> FALSE]

InTry == pc \in TryBody \/ (pc \in Finalizing /\ fin.site = "chunk")

CancelEventSet == listener \in {"returned", "raised"}

CallerState == {"idle", "committed", "keySet", "done"}

ListenerState ==
  {"off",        \* no task
   "checking",   \* about to look at the key
   "subscribing",\* about to subscribe
   "confirming", \* subscribed, the confirmation not read yet
   "rechecking", \* confirmation read, about to look at the key again
   "waiting",    \* in get_message
   "returned", "raised"}

\* Published messages reach this subscription.
Subscribed == listener \in {"confirming", "rechecking", "waiting"}

FlagsTyped ==
  /\ seen \in BOOLEAN
  /\ inbox \in BOOLEAN
  /\ cancelKey \in BOOLEAN

DataTyped ==
  /\ row \in Row
  /\ kind \in Kinds
  /\ job \in {"queued", "running", "finished"}
  /\ tries \in 0..MaxTries
  /\ pc \in PC
  /\ chunk \in Item
  /\ bucket \in Nat
  /\ fin \in Fin
  /\ raised \in {"none", "error", "abort"}
  /\ out \in Item
  /\ yields \in Nat
  /\ listener \in ListenerState
  /\ caller \in [Callers -> CallerState]
  /\ events \in Seq(Event)
  /\ faults \in 0..MaxFaults

TypeOK == DataTyped /\ FlagsTyped

Init ==
  /\ row = CreatedRow
  /\ kind \in Kinds
  /\ job = "queued"
  /\ tries = 0
  /\ pc = "idle"
  /\ chunk = Nothing
  /\ bucket = 0
  /\ seen = FALSE
  /\ fin = NoFin
  /\ raised = "none"
  /\ out = Nothing
  /\ yields = 0
  /\ listener = "off"
  /\ inbox = FALSE
  /\ caller = [c \in Callers |-> "idle"]
  /\ cancelKey = FALSE
  /\ events = <<>>
  /\ faults = 0

-----------------------------------------------------------------------------
(* Faults, Redis writes and exceptions.                                    *)

Fault(f) ==
  /\ f \in Faults
  /\ faults < MaxFaults
  /\ faults' = faults + 1

\* write_agent_run_stream_event: XADD, then EXPIRE.
Written(e) ==
  /\ events' = Append(events, e)
  /\ UNCHANGED faults

\* Either command fails; XADD may have taken effect.
WriteFailed(e) ==
  /\ Fault("redis")
  /\ events' \in {events, Append(events, e)}

\* StreamEventSmoother.release: the bucket is cleared after the write.
Released ==
  /\ IF bucket = 0
     THEN UNCHANGED <<events, faults>>
     ELSE Written(Messages(bucket))
  /\ bucket' = 0

ReleaseFailed ==
  /\ bucket > 0
  /\ WriteFailed(Messages(bucket))
  /\ UNCHANGED bucket

\* An exception leaves the step the job is at: the inner try catches it, and
\* out of an except clause or of the announcement it reaches the outer finally.
Throw(exception) ==
  IF InTry
  THEN /\ pc' = IF exception = "abort" THEN "cancelling" ELSE "failing"
       /\ raised' = "none"
  ELSE /\ pc' = "closing"
       /\ raised' = exception

\* Nobody reads the pending item any more.
CloseStream == out' = Nothing

\* ARQ's end of an attempt.  A returned or failed job is done; a cancelled
\* one is done after a timeout and queued again after a shutdown.
Leave(exception) ==
  /\ pc' = "idle"
  /\ job' \in IF exception = "abort" THEN {"queued", "finished"} ELSE {"finished"}

-----------------------------------------------------------------------------
(* process_agent_run up to the agent stream.                               *)

\* ARQ hands the job to a worker, or gives it up after max_tries.
StartJob ==
  /\ job = "queued"
  /\ IF tries < MaxTries
     THEN /\ job' = "running"
          /\ tries' = tries + 1
          /\ pc' = "loading"
     ELSE /\ job' = "finished"
          /\ UNCHANGED <<tries, pc>>
  /\ UNCHANGED <<row, kind, chunk, bucket, seen, fin, raised, streamVars,
                 listenerVars, caller, cancelKey, events, faults>>

\* _get_agent_run; a run already stopped is left alone.
LoadRun ==
  /\ pc = "loading"
  /\ IF row.status \in Terminal
     THEN Leave("none")
     ELSE pc' = "preparing" /\ UNCHANGED job
  /\ UNCHANGED <<row, kind, tries, chunk, bucket, seen, fin, raised, streamVars,
                 listenerVars, caller, cancelKey, events, faults>>

\* The input message (and the user, never deleted) is looked up.  Failing
\* that, only the row is written: no event announces this failure.
Prepare ==
  /\ pc = "preparing"
  /\ IF kind = "orphan"
     THEN /\ row' = SetAgentTerminal(row, "failed", "present")
          /\ Leave("none")
     ELSE pc' = "starting" /\ UNCHANGED <<row, job>>
  /\ UNCHANGED <<kind, tries, chunk, bucket, seen, fin, raised, streamVars,
                 listenerVars, caller, cancelKey, events, faults>>

\* set_run_running and the branch on what it returned; the controller's
\* listener starts with the run.
SetRunRunning ==
  /\ pc = "starting"
  /\ row' = SetRunning(row)
  /\ \/ /\ row'.status = "cancel_requested"
        /\ pc' = "preCancelling"
        /\ UNCHANGED <<job, listener>>
     \/ /\ row'.status \in Terminal
        /\ Leave("none")
        /\ UNCHANGED listener
     \/ /\ row'.status = "running"
        /\ pc' = "announcing"
        /\ listener' = "checking"
        /\ UNCHANGED job
  /\ UNCHANGED <<kind, tries, chunk, bucket, seen, fin, raised, streamVars,
                 inbox, caller, cancelKey, events, faults>>

\* Plausible slip: nothing is written.
PreCancelForgotten ==
  /\ pc = "preCancelling"
  /\ pc' = "preClearing"
  /\ UNCHANGED <<row, kind, jobVars, chunk, bucket, seen, fin, raised, streamVars,
                 listenerVars, caller, cancelKey, events, faults>>

\* Cancelled before the stream: only the row says so.
PreCancel ==
  /\ pc = "preCancelling"
  /\ row' = SetAgentTerminal(row, "cancelled", "absent")
  /\ pc' = "preClearing"
  /\ UNCHANGED <<kind, jobVars, chunk, bucket, seen, fin, raised, streamVars,
                 listenerVars, caller, cancelKey, events, faults>>

\* clear_agent_run_cancel_signal; a failure leaves the key behind.
PreClear ==
  /\ pc = "preClearing"
  /\ Leave("none")
  /\ \/ cancelKey' = FALSE /\ UNCHANGED faults
     \/ Fault("redis") /\ UNCHANGED cancelKey
  /\ UNCHANGED <<row, kind, tries, chunk, bucket, seen, fin, raised, streamVars,
                 listenerVars, caller, events>>

\* The running event, inside the outer try but outside the inner one; then a
\* fresh smoother and the agent stream.
Announce ==
  /\ pc = "announcing"
  /\ \/ /\ Written(RunningEvent)
        /\ pc' = "streaming"
        /\ chunk' = Nothing
        /\ bucket' = 0
        /\ seen' = FALSE
        /\ out' = Nothing
        /\ yields' = 0
        /\ UNCHANGED raised
     \/ /\ WriteFailed(RunningEvent)
        /\ Throw("error")
        /\ UNCHANGED <<chunk, bucket, seen, streamVars>>
  /\ UNCHANGED <<row, kind, jobVars, fin, listenerVars, caller, cancelKey>>

-----------------------------------------------------------------------------
(* The agent stream: anext() is pending while the job is "streaming".      *)

Pending == pc = "streaming" /\ out = Nothing

\* The next chunk.  After a closing chunk only `finished` may follow.
Yield(c) ==
  /\ Pending
  /\ c.status \in Chunks
  /\ yields < MaxChunks
  /\ chunk.status \in Closing => c.status = "finished"
  /\ out' = c
  /\ yields' = yields + 1

\* The stream ends, or raises.
EndStream(how) ==
  /\ Pending
  /\ out' = [status |-> how, detail |-> "absent"]
  /\ UNCHANGED yields

StreamStep ==
  /\ \/ \E c \in [status : ChunkStatus, detail : Text] : Yield(c)
     \/ \E how \in {"stop", "raise"} : EndStream(how)
  /\ UNCHANGED <<row, kind, jobVars, workerVars, listenerVars, caller,
                 cancelKey, events, faults>>

-----------------------------------------------------------------------------
(* process_agent_run: the loop over the stream.                            *)

\* _cancellable_stream saw the listener end.  A chunk that had arrived is
\* dropped.  The listener's own failure, an exception of the stream and its
\* normal end all come out of `await` here as an exception.
WakeCancelled ==
  /\ pc = "streaming"
  /\ CancelEventSet
  /\ IF listener = "raised" \/ out.status \in {"stop", "raise"}
     THEN Throw("error")
     ELSE Throw("abort")
  /\ CloseStream
  /\ UNCHANGED <<row, kind, jobVars, chunk, bucket, seen, fin, yields,
                 listenerVars, caller, cancelKey, events, faults>>

\* _cancellable_stream saw the stream first.  A loading chunk is buffered and
\* the bucket released when it is over its limit; any other chunk first
\* releases the bucket.
TakeItem ==
  /\ pc = "streaming"
  /\ out # Nothing
  /\ \/ /\ out.status = "raise"
        /\ Throw("error")
        /\ UNCHANGED <<chunk, bucket>>
     \/ /\ out.status = "stop"
        /\ pc' = "draining"
        /\ UNCHANGED <<chunk, bucket, raised>>
     \/ /\ out.status = "loading"
        /\ chunk' = out
        /\ bucket' = bucket + 1
        /\ pc' \in {"streaming", "smoothing"}
        /\ UNCHANGED raised
     \/ /\ out.status \in ChunkStatus \ {"loading"}
        /\ chunk' = out
        /\ pc' = "flushing"
        /\ UNCHANGED <<bucket, raised>>
  /\ CloseStream
  /\ UNCHANGED <<row, kind, jobVars, seen, fin, yields, listenerVars, caller,
                 cancelKey, events, faults>>

\* StreamEventSmoother.release at its two call sites in the loop.
Flush ==
  /\ pc \in {"smoothing", "flushing"}
  /\ \/ /\ Released
        /\ pc' = IF pc = "smoothing" THEN "streaming" ELSE "checkingKey"
        /\ UNCHANGED raised
     \/ /\ ReleaseFailed
        /\ Throw("error")
  /\ UNCHANGED <<row, kind, jobVars, chunk, seen, fin, streamVars, listenerVars,
                 caller, cancelKey>>

\* is_cancelled: the event, whatever set it, then the key.
CheckKey ==
  /\ pc = "checkingKey"
  /\ \/ /\ CancelEventSet \/ cancelKey
        /\ Throw("abort")
        /\ UNCHANGED faults
     \/ /\ ~CancelEventSet
        /\ ~cancelKey
        /\ pc' = "checkingRow"
        /\ UNCHANGED <<raised, faults>>
     \/ /\ ~CancelEventSet
        /\ Fault("redis")
        /\ Throw("error")
  /\ UNCHANGED <<row, kind, jobVars, chunk, bucket, seen, fin, streamVars,
                 listenerVars, caller, cancelKey, events>>

\* is_cancelled: the row.  It is read twice in a row; what the first read
\* sees the second sees too, no one but this job ends a cancellation.
CheckRow ==
  /\ pc = "checkingRow"
  /\ IF row.status = "cancel_requested"
     THEN Throw("abort")
     ELSE pc' = "dispatching" /\ UNCHANGED raised
  /\ UNCHANGED <<row, kind, jobVars, chunk, bucket, seen, fin, streamVars,
                 listenerVars, caller, cancelKey, events, faults>>

-----------------------------------------------------------------------------
(* _finalize_run and its call sites.                                       *)

\* Plausible slip: the requested status is announced, not the returned one.
FinalizeUnchecked(site, status, error) ==
  /\ row' = SetAgentTerminal(row, status, error)
  /\ fin' = [site |-> site, got |-> status, changed |-> TRUE]
  /\ pc' = "publishing"

\* set_run_terminal in a session of its own, at `site`; the events follow only
\* if this call decided the run.
Finalize(site, status, error) ==
  /\ row' = SetAgentTerminal(row, status, error)
  /\ fin' = [site |-> site, got |-> row'.status, changed |-> TerminalChanged(row)]
  /\ pc' = IF fin'.changed
           THEN IF fin'.got = "interrupted" THEN "interacting" ELSE "publishing"
           ELSE "clearing"

\* The loop acts on the status of the chunk.  A custom chunk is forwarded; a
\* status map_stream_event does not know, or an interrupted chunk without
\* payload, raises ValueError.
DispatchTerminal ==
  /\ pc = "dispatching"
  /\ \/ /\ chunk.status = "interrupted"
        /\ chunk.detail = "present"
        /\ Finalize("chunk", "interrupted", "present")
     \/ chunk.status = "error" /\ Finalize("chunk", "failed", chunk.detail)
     \/ chunk.status = "finished" /\ Finalize("chunk", "completed", "absent")
  /\ UNCHANGED <<kind, jobVars, chunk, bucket, seen, raised, streamVars,
                 listenerVars, caller, cancelKey, events, faults>>

DispatchCustom ==
  /\ pc = "dispatching"
  /\ chunk.status = "agent_state"
  /\ \/ Written(Plain("custom")) /\ pc' = "streaming" /\ UNCHANGED raised
     \/ WriteFailed(Plain("custom")) /\ Throw("error")
  /\ UNCHANGED <<row, kind, jobVars, chunk, bucket, seen, fin, streamVars,
                 listenerVars, caller, cancelKey>>

DispatchInvalid ==
  /\ pc = "dispatching"
  /\ chunk.status = "ask_human" \/ (chunk.status = "interrupted" /\ chunk.detail = "absent")
  /\ Throw("error")
  /\ UNCHANGED <<row, kind, jobVars, chunk, bucket, seen, fin, streamVars,
                 listenerVars, caller, cancelKey, events, faults>>

Dispatch == DispatchTerminal \/ DispatchCustom \/ DispatchInvalid

\* A failed write is swallowed when the run failed and thrown otherwise, but
\* not before the finally clause.
PublishFailed(e) ==
  /\ WriteFailed(e)
  /\ IF fin.got = "failed"
     THEN pc' = "clearing" /\ UNCHANGED raised
     ELSE IF fin.got = "cancelled"
          THEN pc' = "clearing" /\ raised' = "error"
          ELSE Throw("error")

PublishInteraction ==
  /\ pc = "interacting"
  /\ \/ Written(Plain("interaction")) /\ pc' = "publishing" /\ UNCHANGED raised
     \/ PublishFailed(Plain("interaction"))
  /\ UNCHANGED <<row, kind, jobVars, chunk, bucket, seen, fin, streamVars,
                 listenerVars, caller, cancelKey>>

PublishEnd ==
  /\ pc = "publishing"
  /\ \/ Written(EndEvent(fin.got)) /\ pc' = "clearing" /\ UNCHANGED raised
     \/ PublishFailed(EndEvent(fin.got))
  /\ UNCHANGED <<row, kind, jobVars, chunk, bucket, seen, fin, streamVars,
                 listenerVars, caller, cancelKey>>

\* Where _finalize_run returns to: the loop sets terminal_flag, after writing
\* the end a second time if it decided the run; an except clause is done.
ReturnFromFinalize ==
  IF fin.site = "chunk"
  THEN IF fin.changed
       THEN pc' = "republishing" /\ UNCHANGED seen
       ELSE pc' = "streaming" /\ seen' = TRUE
  ELSE pc' = "closing" /\ UNCHANGED seen

\* The finally clause of _finalize_run, and the return or the exception.
ClearSignal ==
  /\ pc = "clearing"
  /\ \/ /\ cancelKey' = IF fin.got = "cancelled" THEN FALSE ELSE cancelKey
        /\ UNCHANGED faults
        /\ IF raised = "none"
           THEN ReturnFromFinalize /\ UNCHANGED raised
           ELSE Throw(raised) /\ UNCHANGED seen
     \/ /\ fin.got = "cancelled"
        /\ Fault("redis")
        /\ Throw("error")
        /\ UNCHANGED <<seen, cancelKey>>
  /\ UNCHANGED <<row, kind, jobVars, chunk, bucket, fin, streamVars,
                 listenerVars, caller, events>>

RepublishEnd ==
  /\ pc = "republishing"
  /\ \/ /\ Written(EndEvent(fin.got))
        /\ pc' = "streaming"
        /\ seen' = TRUE
        /\ UNCHANGED raised
     \/ /\ WriteFailed(EndEvent(fin.got))
        /\ Throw("error")
        /\ UNCHANGED seen
  /\ UNCHANGED <<row, kind, jobVars, chunk, bucket, fin, streamVars,
                 listenerVars, caller, cancelKey>>

\* The stream is exhausted.  `run_controller.is_cancelled()` is not awaited:
\* a coroutine object is true, so without a terminal status the job always
\* raises CancelledError here and never reaches the lines after it.
Drain ==
  /\ pc = "draining"
  /\ \/ /\ Released
        /\ IF seen
           THEN pc' = "closing" /\ UNCHANGED raised
           ELSE Throw("abort")
     \/ /\ ReleaseFailed
        /\ Throw("error")
  /\ UNCHANGED <<row, kind, jobVars, chunk, seen, fin, streamVars, listenerVars,
                 caller, cancelKey>>

\* Plausible slip: the run is decided before its content is written.
ReleaseForgotten ==
  /\ pc = "cancelling"
  /\ pc' = "deciding"
  /\ UNCHANGED <<row, kind, jobVars, chunk, bucket, seen, fin, raised, streamVars,
                 listenerVars, caller, cancelKey, events, faults>>

\* except CancelledError: release everything, then decide.
ReleaseCancelled ==
  /\ pc = "cancelling"
  /\ \/ Released /\ pc' = "deciding" /\ UNCHANGED raised
     \/ ReleaseFailed /\ Throw("error")
  /\ UNCHANGED <<row, kind, jobVars, chunk, seen, fin, streamVars, listenerVars,
                 caller, cancelKey>>

FinalizeCancelled ==
  /\ pc = "deciding"
  /\ Finalize("cancel", "cancelled", "absent")
  /\ UNCHANGED <<kind, jobVars, chunk, bucket, seen, raised, streamVars,
                 listenerVars, caller, cancelKey, events, faults>>

\* except Exception: decide and raise again, without releasing.
FinalizeFailed ==
  /\ pc = "failing"
  /\ Finalize("fail", "failed", "present")
  /\ UNCHANGED <<kind, jobVars, chunk, bucket, seen, raised, streamVars,
                 listenerVars, caller, cancelKey, events, faults>>

\* controller.close in the outer finally, and the end of the attempt.
CloseController ==
  /\ pc = "closing"
  /\ listener' = "off"
  /\ inbox' = FALSE
  /\ raised' = "none"
  /\ out' = Nothing
  /\ Leave(raised)
  /\ UNCHANGED <<row, kind, tries, chunk, bucket, seen, fin, yields, caller,
                 cancelKey, events, faults>>

WorkerStep ==
  \/ LoadRun \/ Prepare \/ SetRunRunning \/ PreCancel \/ PreClear \/ Announce
  \/ WakeCancelled \/ TakeItem \/ Flush \/ CheckKey \/ CheckRow \/ Dispatch
  \/ PublishInteraction \/ PublishEnd \/ ClearSignal \/ RepublishEnd \/ Drain
  \/ ReleaseCancelled \/ FinalizeCancelled \/ FinalizeFailed \/ CloseController

-----------------------------------------------------------------------------
(* ARQ's cancellation of the job and the death of the worker.              *)

\* CancelledError is thrown into the await the job is at.  Releasing an empty
\* bucket awaits nothing.
AbortJob ==
  /\ pc # "idle"
  /\ pc \in {"draining", "cancelling"} => bucket > 0
  /\ Fault("abort")
  /\ IF pc \in Preparing
     THEN Leave("abort") /\ UNCHANGED raised
     ELSE /\ UNCHANGED job
          /\ IF pc \in {"interacting", "publishing"} /\ fin.got = "cancelled"
             THEN pc' = "clearing" /\ raised' = "abort"
             ELSE Throw("abort")
  /\ CloseStream
  /\ UNCHANGED <<row, kind, tries, chunk, bucket, seen, fin, yields,
                 listenerVars, caller, cancelKey, events>>

\* The process dies; ARQ runs the job again once its in-progress key expired.
CrashWorker ==
  /\ pc # "idle"
  /\ Fault("crash")
  /\ pc' = "idle"
  /\ job' = "queued"
  /\ chunk' = Nothing
  /\ bucket' = 0
  /\ seen' = FALSE
  /\ fin' = NoFin
  /\ raised' = "none"
  /\ out' = Nothing
  /\ listener' = "off"
  /\ inbox' = FALSE
  /\ UNCHANGED <<row, kind, tries, yields, caller, cancelKey, events>>

-----------------------------------------------------------------------------
(* AgentRunController._watch_cancel_signal: wait_agent_run_cancel_signal,   *)
(* whose end, of either kind, sets the event.                              *)

LookAtKey(otherwise) ==
  listener' = IF cancelKey THEN "returned" ELSE otherwise

ListenerFails == Fault("listener") /\ listener' = "raised" /\ UNCHANGED inbox

CheckKeyFirst ==
  /\ listener = "checking"
  /\ \/ LookAtKey("subscribing") /\ UNCHANGED <<inbox, faults>>
     \/ ListenerFails

Subscribe ==
  /\ listener = "subscribing"
  /\ \/ listener' = "confirming" /\ inbox' = FALSE /\ UNCHANGED faults
     \/ ListenerFails

ReadConfirmation ==
  /\ listener = "confirming"
  /\ listener' = "rechecking"
  /\ UNCHANGED <<inbox, faults>>

\* Plausible slip: the key is not looked at again.
RecheckSkipped ==
  /\ listener = "rechecking"
  /\ listener' = "waiting"
  /\ UNCHANGED <<inbox, faults>>

\* After every confirmation the key is looked at again: a signal sent before
\* the subscription was in place is not lost.
Recheck ==
  /\ listener = "rechecking"
  /\ \/ LookAtKey("waiting") /\ UNCHANGED <<inbox, faults>>
     \/ ListenerFails

ReadMessage ==
  /\ listener = "waiting"
  /\ inbox
  /\ listener' = "returned"
  /\ UNCHANGED <<inbox, faults>>

\* The connection is lost with what it carried, and redis-py subscribes again.
DropConnection ==
  /\ Subscribed
  /\ Fault("drop")
  /\ listener' = "subscribing"
  /\ inbox' = FALSE

notListener == <<row, kind, jobVars, workerVars, streamVars, caller, cancelKey,
                 events>>

ListenerStep ==
  /\ CheckKeyFirst \/ Subscribe \/ ReadConfirmation \/ Recheck \/ ReadMessage
  /\ UNCHANGED notListener

ListenerDrop == DropConnection /\ UNCHANGED notListener

-----------------------------------------------------------------------------
(* The cancel endpoint: request_cancel_agent_run for this run.             *)

\* Plausible slip: the run is signalled although the commit was forgotten.
AskCancelUncommitted(c) ==
  /\ caller[c] = "idle"
  /\ caller' = [caller EXCEPT ![c] = "committed"]
  /\ UNCHANGED <<row, kind, jobVars, workerVars, streamVars, listenerVars,
                 cancelKey, events, faults>>

\* The row is committed first; only a run that is then cancel_requested is
\* signalled.
AskCancel(c) ==
  /\ caller[c] = "idle"
  /\ row' = RequestCancel(row)
  /\ caller' = [caller EXCEPT ![c] =
                  IF row'.status = "cancel_requested" THEN "committed" ELSE "done"]
  /\ UNCHANGED <<kind, jobVars, workerVars, streamVars, listenerVars, cancelKey,
                 events, faults>>

\* publish_agent_run_cancel_signal: SET, then PUBLISH.
SetKey(c) ==
  /\ caller[c] = "committed"
  /\ \/ /\ cancelKey' = TRUE
        /\ caller' = [caller EXCEPT ![c] = "keySet"]
        /\ UNCHANGED faults
     \/ /\ Fault("redis")
        /\ cancelKey' \in {cancelKey, TRUE}
        /\ caller' = [caller EXCEPT ![c] = "done"]
  /\ UNCHANGED <<row, kind, jobVars, workerVars, streamVars, listenerVars, events>>

Publish(c) ==
  /\ caller[c] = "keySet"
  /\ caller' = [caller EXCEPT ![c] = "done"]
  /\ \/ inbox' = (inbox \/ Subscribed) /\ UNCHANGED faults
     \/ Fault("redis") /\ UNCHANGED inbox
  /\ UNCHANGED <<row, kind, jobVars, workerVars, streamVars, listener, cancelKey,
                 events>>

Signal(c) == SetKey(c) \/ Publish(c)

-----------------------------------------------------------------------------

EnvironmentStep ==
  \/ StartJob \/ AbortJob \/ CrashWorker
  \/ ListenerStep \/ ListenerDrop
  \/ \E c \in Callers : AskCancel(c) \/ Signal(c)

Next == WorkerStep \/ EnvironmentStep \/ StreamStep

\* The worker's event loop runs every task that is ready, ARQ hands out queued
\* jobs, and a call in progress goes on.  Nobody has to call, no fault has to
\* happen, and the agent stream may be silent for ever.
Fairness ==
  /\ WF_vars(StartJob)
  /\ WF_vars(WorkerStep)
  /\ WF_vars(ListenerStep)
  /\ \A c \in Callers : WF_vars(Signal(c))

Spec == Init /\ [][Next]_vars /\ Fairness

-----------------------------------------------------------------------------
(* Safety.                                                                 *)

\* An `end` event says what the database says: the run is decided, and with
\* this status, whatever retries, races and failed writes went before.
EndTellsRow ==
  \A i \in 1..Len(events) :
    events[i].type = "end" =>
      /\ row.status \in Terminal
      /\ events[i].status = row.status

\* Nothing that belongs before the end is written after it: after an end event
\* only another end follows.
NothingAfterEnd ==
  \A i, j \in 1..Len(events) :
    (i < j /\ events[i].type = "end") => events[j].type = "end"

\* A stream never consists of an end alone: it begins with the running event
\* (a run stopped before its agent stream leaves no events at all).
StreamBeginsWithRunning == Len(events) > 0 => events[1] = RunningEvent

\* The stream of a run tells its story once: it begins with the running event,
\* and its end comes last and agrees with the database.
StreamTellsRun == StreamBeginsWithRunning /\ NothingAfterEnd /\ EndTellsRow

\* A run decided by a chunk had its buffered content written first.
DecidedAfterContent ==
  (pc \in Finalizing /\ fin.site # "fail") => bucket = 0

\* The listener lives and dies with the controller: none runs before the run
\* is announced, and none is left behind when the attempt is over.
ListenerOwned ==
  (listener # "off") <=> (pc \notin {"idle"} \cup Preparing)

\* The signal follows the commit: a worker that is told to stop finds a run
\* that is being cancelled, or already decided, in the database.
SignalFollowsCommit ==
  (cancelKey \/ inbox) => row.status \in Terminal \cup {"cancel_requested"}

\* A job that is over has decided its run.
JobDecidesRun == job = "finished" => row.status \in Terminal

\* A run is cancelled only when somebody asked for it.
CancelledIsAsked ==
  row.status = "cancelled" => \E c \in Callers : caller[c] # "idle"

-----------------------------------------------------------------------------
(* Action properties.                                                      *)

\* The row goes forward only: whatever a retry, a late cancellation or a second
\* writer does, a decided run stays as it was decided, its error text included,
\* and a request to cancel is never forgotten.
RowMovesForward ==
  [][/\ row.status \in Terminal => row' = row
     /\ row.status = "cancel_requested" => row'.status \notin {"pending", "running"}]_row

\* Once cancellation is requested the run is not reported completed.
CancelPreventsCompletion ==
  [][row.status = "cancel_requested" => row'.status # "completed"]_row

-----------------------------------------------------------------------------
(* Liveness and refinement.                                                *)

\* A cancellation is served even if the agent stream never yields again and
\* the Pub/Sub connection drops: the signal is not lost between the key and
\* the channel.
CancelTakesEffect ==
  (row.status = "cancel_requested") ~> (row.status \in Terminal)

\* An event as the readers tell it apart: messages and custom are content.
AsEntry(e) ==
  [type   |-> IF e.type = "status" THEN "running"
              ELSE IF e.type \in {"messages", "custom"} THEN "content"
              ELSE e.type,
   status |-> IF e.type = "end" THEN e.status ELSE "none"]

StreamLog == [i \in 1..Len(events) |-> AsEntry(events[i])]

Stream == INSTANCE RunStream WITH status <- row.status, log <- StreamLog

\* What the worker writes is what the readers of RunStream rely on: content
\* before the decision, a question before its end, an end that repeats the row.
ImplementsStream == Stream!StreamSpec
=============================================================================
