-------------------------- MODULE RunWorkerProofs ---------------------------
(***************************************************************************)
(* Theorems about RunWorker for every set of callers, kinds, chunks and    *)
(* faults and every bound.                                                 *)
(***************************************************************************)
EXTENDS RunWorker, SequenceTheorems, TLAPS

USE ConstantsAssumption DEF ConstantsAssumption

-----------------------------------------------------------------------------
(* The writers of the row and of the event stream.                         *)

\* What the three writers of agent_run do to a well-formed row: they return a
\* well-formed row, leave a decided one alone, and only set_agent_terminal
\* decides one.
LEMMA RowWriters ==
  ASSUME NEW r \in Row
  PROVE  /\ SetRunning(r) \in Row
         /\ RequestCancel(r) \in Row
         /\ r.status \in Terminal => /\ SetRunning(r) = r
                                     /\ RequestCancel(r) = r
         /\ r.status \notin Terminal => /\ SetRunning(r).status \notin Terminal
                                        /\ RequestCancel(r).status = "cancel_requested"
         /\ r.status = "cancel_requested" => SetRunning(r) = r
         /\ \A s \in Terminal, e \in Text :
              /\ SetAgentTerminal(r, s, e) \in Row
              /\ SetAgentTerminal(r, s, e).status \in Terminal
              /\ r.status \in Terminal => SetAgentTerminal(r, s, e) = r
              /\ r.status \notin Terminal => SetAgentTerminal(r, s, e).status = s
BY DEF Row, Text, Status, Active, Terminal, SetRunning, RequestCancel, SetAgentTerminal

\* Every event the worker writes is a well-formed event.
LEMMA EventsTyped ==
  /\ RunningEvent \in Event
  /\ \A t \in EventType : Plain(t) \in Event
  /\ \A n \in Nat : Messages(n) \in Event
  /\ \A s \in Status : EndEvent(s) \in Event
BY DEF RunningEvent, Plain, Messages, EndEvent, Event, EventType, Status, Active

\* A write of an event, landed or not, leaves a well-formed stream.
LEMMA WritesTyped ==
  ASSUME DataTyped, NEW e \in Event, Written(e) \/ WriteFailed(e)
  PROVE  events' \in Seq(Event) /\ faults' \in 0..MaxFaults
BY SMTT(30) DEF DataTyped, Written, WriteFailed, Fault

\* So does a release of the smoother's bucket.
LEMMA ReleasesTyped ==
  ASSUME DataTyped, Released \/ ReleaseFailed
  PROVE  /\ events' \in Seq(Event)
         /\ faults' \in 0..MaxFaults
         /\ bucket' \in Nat
<1>1. bucket \in Nat /\ Messages(bucket) \in Event
  BY EventsTyped DEF DataTyped
<1>2. CASE Released
  BY <1>1, <1>2, WritesTyped DEF Released, DataTyped
<1>3. CASE ReleaseFailed
  BY <1>1, <1>3, WritesTyped DEF ReleaseFailed
<1> QED
  BY <1>2, <1>3

LEMMA FaultTyped ==
  ASSUME DataTyped, NEW f, Fault(f)
  PROVE  faults' \in 0..MaxFaults
BY DEF DataTyped, Fault

LEMMA ThrowTyped ==
  ASSUME NEW x \in {"error", "abort"}, Throw(x)
  PROVE  pc' \in PC /\ raised' \in {"none", "error", "abort"}
BY DEF Throw, PC, TryBody, Handlers

-----------------------------------------------------------------------------
(* Type correctness.                                                       *)

LEMMA FlagsStayTyped == FlagsTyped /\ [Next]_vars => FlagsTyped'
<1> SUFFICES ASSUME FlagsTyped, [Next]_vars PROVE FlagsTyped'
    OBVIOUS
<1> USE DEF FlagsTyped, jobVars, workerVars, streamVars, listenerVars
<1>1. CASE WorkerStep
  BY <1>1 DEF WorkerStep, LoadRun, Prepare, SetRunRunning, PreCancel, PreClear, Announce,
    WakeCancelled, TakeItem, Flush, CheckKey, CheckRow, Dispatch, DispatchTerminal,
    DispatchCustom, DispatchInvalid, PublishInteraction, PublishEnd, ClearSignal,
    ReturnFromFinalize, RepublishEnd, Drain, ReleaseCancelled, FinalizeCancelled,
    FinalizeFailed, CloseController
<1>2. CASE EnvironmentStep
  BY <1>2 DEF EnvironmentStep, StartJob, AbortJob, CrashWorker, ListenerStep, ListenerDrop,
    CheckKeyFirst, Subscribe, ReadConfirmation, Recheck, ReadMessage, DropConnection,
    ListenerFails, notListener, AskCancel, Signal, SetKey, Publish, Subscribed
<1>3. CASE StreamStep
  BY <1>3 DEF StreamStep
<1>4. CASE UNCHANGED vars
  BY <1>4 DEF vars
<1> QED
  BY <1>1, <1>2, <1>3, <1>4 DEF Next

LEMMA InitTyped == Init => TypeOK
<1>1. Init => FlagsTyped
  BY DEF Init, FlagsTyped
<1>2. Init => DataTyped
  BY DEF Init, DataTyped, CreatedRow, Row, Text, Status, Active, Terminal, PC, Nothing, Item, Text,
       NoFin, Fin, Site, ListenerState, CallerState
<1> QED
  BY <1>1, <1>2 DEF TypeOK

\* _finalize_run's result is a status.
LEMMA FinTyped == DataTyped => fin.got \in Status /\ fin.site \in Site
BY DEF DataTyped, Fin

LEMMA FinalizeTyped ==
  ASSUME DataTyped, NEW site \in Site, NEW s \in Terminal, NEW e \in Text,
         Finalize(site, s, e)
  PROVE  /\ row' \in Row
         /\ fin' \in Fin
         /\ pc' \in PC
<1>1. row' \in Row
  BY RowWriters DEF DataTyped, Finalize
<1>2. row'.status \in Status
  BY <1>1 DEF Row
<1> QED
  BY <1>1, <1>2 DEF Finalize, TerminalChanged, Fin, PC, Finalizing

LEMMA WorkerTyped == DataTyped /\ WorkerStep => DataTyped'
<1> SUFFICES ASSUME DataTyped, WorkerStep PROVE DataTyped'
    OBVIOUS
<1> USE DEF DataTyped, PC, Preparing, Finalizing, TryBody, Handlers, jobVars, streamVars,
            listenerVars
<1>1. CASE LoadRun
  BY <1>1 DEF LoadRun, Leave
<1>2. CASE Prepare
  BY <1>2, RowWriters DEF Prepare, Leave, Terminal, Text
<1>3. CASE SetRunRunning
  BY <1>3, RowWriters DEF SetRunRunning, Leave, ListenerState
<1>4. CASE PreCancel
  BY <1>4, RowWriters DEF PreCancel, Terminal, Text
<1>5. CASE PreClear
  BY <1>5, FaultTyped DEF PreClear, Leave
<1>6. CASE Announce
  BY <1>6, EventsTyped, WritesTyped, ThrowTyped DEF Announce, Nothing, Item, Text
<1>7. CASE WakeCancelled
  BY <1>7, ThrowTyped DEF WakeCancelled, CloseStream, Nothing, Item, Text
<1>8. CASE TakeItem
  BY <1>8, ThrowTyped DEF TakeItem, CloseStream, Nothing, Item, Text
<1>9. CASE Flush
  BY <1>9, ReleasesTyped, ThrowTyped DEF Flush
<1>10. CASE CheckKey
  BY <1>10, FaultTyped, ThrowTyped DEF CheckKey
<1>11. CASE CheckRow
  BY <1>11, ThrowTyped DEF CheckRow
<1>12. CASE DispatchTerminal
  BY <1>12, FinalizeTyped DEF DispatchTerminal, Item, Text, Site, Terminal
<1>13. CASE DispatchCustom
  BY <1>13, EventsTyped, WritesTyped, ThrowTyped DEF DispatchCustom, EventType
<1>14. CASE DispatchInvalid
  BY <1>14, ThrowTyped DEF DispatchInvalid
<1>15. CASE PublishInteraction
  BY <1>15, EventsTyped, WritesTyped, ThrowTyped DEF PublishInteraction, PublishFailed, EventType
<1>16. CASE PublishEnd
  BY <1>16, FinTyped, EventsTyped, WritesTyped, ThrowTyped DEF PublishEnd, PublishFailed
<1>17. CASE ClearSignal
  BY <1>17, FaultTyped, ThrowTyped DEF ClearSignal, ReturnFromFinalize
<1>18. CASE RepublishEnd
  BY <1>18, FinTyped, EventsTyped, WritesTyped, ThrowTyped DEF RepublishEnd
<1>19. CASE Drain
  BY <1>19, ReleasesTyped, ThrowTyped DEF Drain
<1>20. CASE ReleaseCancelled
  BY <1>20, ReleasesTyped, ThrowTyped DEF ReleaseCancelled
<1>21. CASE FinalizeCancelled
  BY <1>21, FinalizeTyped DEF FinalizeCancelled, Text, Site, Terminal
<1>22. CASE FinalizeFailed
  BY <1>22, FinalizeTyped DEF FinalizeFailed, Text, Site, Terminal
<1>23. CASE CloseController
  BY <1>23 DEF CloseController, Leave, ListenerState, Nothing, Item, Text
<1> QED
  BY <1>1, <1>2, <1>3, <1>4, <1>5, <1>6, <1>7, <1>8, <1>9, <1>10, <1>11, <1>12,
     <1>13, <1>14, <1>15, <1>16, <1>17, <1>18, <1>19, <1>20, <1>21, <1>22, <1>23
     DEF WorkerStep, Dispatch

LEMMA EnvironmentTyped == DataTyped /\ (EnvironmentStep \/ StreamStep) => DataTyped'
<1> SUFFICES ASSUME DataTyped, EnvironmentStep \/ StreamStep PROVE DataTyped'
    OBVIOUS
<1> USE DEF DataTyped, jobVars, workerVars, streamVars, listenerVars
<1>1. CASE StartJob
  BY <1>1 DEF StartJob, PC, Preparing
<1>2. CASE AbortJob
  BY <1>2 DEF AbortJob, Leave, Throw, InTry, CloseStream, Fault, PC, Preparing,
              Finalizing, TryBody, Handlers, Nothing, Item, Text
<1>3. CASE CrashWorker
  BY <1>3 DEF CrashWorker, Fault, PC, Nothing, Item, Text, NoFin, Fin, Site, Status, Active,
              ListenerState
<1>4. CASE ListenerStep
  BY <1>4 DEF ListenerStep, notListener, CheckKeyFirst, Subscribe, ReadConfirmation,
              Recheck, ReadMessage, LookAtKey, ListenerFails, Fault, ListenerState
<1>5. CASE ListenerDrop
  BY <1>5 DEF ListenerDrop, notListener, DropConnection, Fault, ListenerState
<1>6. ASSUME NEW c \in Callers, AskCancel(c) PROVE DataTyped'
  BY <1>6, RowWriters DEF AskCancel, CallerState
<1>7. ASSUME NEW c \in Callers, Signal(c) PROVE DataTyped'
  <2>1. CASE SetKey(c)
    <3>1. faults' \in 0..MaxFaults
      <4>1. UNCHANGED faults \/ Fault("redis")
        BY <2>1, Zenon DEF SetKey
      <4> QED
        BY <4>1, FaultTyped
    <3>2. caller' \in [Callers -> CallerState]
      BY <2>1 DEF SetKey, CallerState
    <3> QED
      BY <2>1, <3>1, <3>2, Zenon DEF SetKey
  <2>2. CASE Publish(c)
    <3>1. faults' \in 0..MaxFaults
      BY <2>2 DEF Publish, Fault
    <3>2. caller' \in [Callers -> CallerState]
      BY <2>2 DEF Publish, CallerState
    <3> QED
      BY <2>2, <3>1, <3>2, Zenon DEF Publish
  <2> QED
    BY <1>7, <2>1, <2>2 DEF Signal
<1>8. CASE StreamStep
  BY <1>8 DEF StreamStep, Yield, EndStream, Pending, Item, Text
<1> QED
  BY <1>1, <1>2, <1>3, <1>4, <1>5, <1>6, <1>7, <1>8 DEF EnvironmentStep

LEMMA NextTyped == TypeOK /\ [Next]_vars => TypeOK'
<1>1. DataTyped /\ UNCHANGED vars => DataTyped'
  BY DEF vars, DataTyped, jobVars, workerVars, streamVars, listenerVars
<1>2. DataTyped /\ [Next]_vars => DataTyped'
  BY <1>1, WorkerTyped, EnvironmentTyped DEF Next
<1> QED
  BY <1>2, FlagsStayTyped DEF TypeOK

\* Every variable of the worker, its queue, its listener, its callers and its
\* event stream keeps its type, whatever is configured and whatever fails.
THEOREM TypeCorrect == Spec => []TypeOK
<1> QED
  BY InitTyped, NextTyped, PTL DEF Spec

-----------------------------------------------------------------------------
(***************************************************************************)
(* The safety invariants and action properties of RunWorker, for every     *)
(* value of its constants.  None of the invariants is inductive by itself:  *)
(* what an end event may say depends on where the job is, on what it has   *)
(* buffered and on what the agent stream may still yield.  Control says    *)
(* that much about the job, Log adds what the event stream then holds, and *)
(* Signals is about the callers.                                           *)
(***************************************************************************)

-----------------------------------------------------------------------------
(* The inductive invariant.                                                *)

\* ARQ runs the job exactly while process_agent_run is somewhere.
JobOwnsAttempt == job = "running" <=> pc # "idle"

\* An item of the agent stream waits only for the loop that reads it.
ItemAwaited == out # Nothing => pc = "streaming"

\* A chunk that is looked at, and a cancellation that is decided, find the
\* bucket released.
BucketReleased ==
  pc \in {"checkingKey", "checkingRow", "dispatching", "deciding"} => bucket = 0

\* _finalize_run works with the status the row really has.
FinKnowsRow ==
  pc \in Finalizing => row.status \in Terminal /\ fin.got = row.status

\* What the call site of _finalize_run has seen to before calling it.
FinKnowsSite ==
  pc \in Finalizing =>
    /\ fin.site # "fail" => bucket = 0
    /\ fin.site = "chunk" => chunk.status \in Closing
    /\ pc = "republishing" => fin.site = "chunk"

\* Once the run is decided the job has no more content to write: it is outside
\* the loop, or it only waits for the stream to close.
Quiet ==
  \/ pc \in {"idle", "loading", "preClearing", "closing"} \cup Finalizing
  \/ /\ pc \in TryBody \cup Handlers
     /\ bucket = 0
     /\ chunk.status \in Closing
     /\ out.status \in {"none", "stop", "raise", "finished"}

DecidedQuiet == row.status \in Terminal => Quiet

Control ==
  /\ JobOwnsAttempt
  /\ ListenerOwned
  /\ ItemAwaited
  /\ BucketReleased
  /\ FinKnowsRow
  /\ FinKnowsSite
  /\ DecidedQuiet

-----------------------------------------------------------------------------
(* Control is inductive.                                                   *)

LEMMA InitControl == Init => Control
BY DEF Init, Control, JobOwnsAttempt, ListenerOwned, ItemAwaited, BucketReleased,
       FinKnowsRow, FinKnowsSite, DecidedQuiet, CreatedRow, Finalizing, Terminal, Preparing

\* _finalize_run enters its steps knowing the row.
LEMMA FinalizeControl ==
  ASSUME DataTyped, NEW site \in Site, NEW s \in Terminal, NEW e \in Text,
         Finalize(site, s, e)
  PROVE  /\ row'.status \in Terminal
         /\ fin'.got = row'.status
         /\ fin'.site = site
         /\ pc' \in Finalizing \ {"republishing"}
<1>1. row'.status \in Terminal
  BY RowWriters DEF DataTyped, Finalize
<1> QED
  BY <1>1 DEF Finalize, Finalizing

LEMMA ControlWorker == DataTyped /\ Control /\ WorkerStep => Control'
<1> SUFFICES ASSUME DataTyped, Control, WorkerStep PROVE Control'
    OBVIOUS
<1> USE DEF Control, JobOwnsAttempt, ListenerOwned, ItemAwaited, BucketReleased,
            FinKnowsRow, FinKnowsSite, DecidedQuiet, Quiet, Preparing, Finalizing,
            TryBody, Handlers, jobVars, streamVars, listenerVars
<1>1. CASE LoadRun
  BY <1>1 DEF LoadRun, Leave
<1>2. CASE Prepare
  BY <1>2, RowWriters DEF Prepare, Leave, Terminal, Text
<1>3. CASE SetRunRunning
  BY <1>3, RowWriters DEF SetRunRunning, Leave, DataTyped
<1>4. CASE PreCancel
  BY <1>4, RowWriters DEF PreCancel, Terminal, Text
<1>5. CASE PreClear
  BY <1>5 DEF PreClear, Leave
<1>6. CASE Announce
  BY <1>6 DEF Announce, Throw, InTry, Nothing
<1>7. CASE WakeCancelled
  BY <1>7 DEF WakeCancelled, Throw, InTry, CloseStream, Nothing
<1>8. CASE TakeItem
  BY <1>8 DEF TakeItem, Throw, InTry, CloseStream, Nothing, ChunkStatus, Closing
<1>9. CASE Flush
  BY <1>9 DEF Flush, Released, ReleaseFailed, Throw, InTry
<1>10. CASE CheckKey
  BY <1>10 DEF CheckKey, Throw, InTry
<1>11. CASE CheckRow
  BY <1>11 DEF CheckRow, Throw, InTry
<1>12. CASE DispatchTerminal
  BY <1>12, FinalizeControl DEF DispatchTerminal, DataTyped, Item, Text, Site, Terminal, Closing
<1>13. CASE DispatchCustom
  BY <1>13 DEF DispatchCustom, Throw, InTry, Closing
<1>14. CASE DispatchInvalid
  BY <1>14 DEF DispatchInvalid, Throw, InTry
<1>15. CASE PublishInteraction
  BY <1>15 DEF PublishInteraction, PublishFailed, Throw, InTry, Nothing, DataTyped, Fin
<1>16. CASE PublishEnd
  BY <1>16 DEF PublishEnd, PublishFailed, Throw, InTry, Nothing, DataTyped, Fin
<1>17. CASE ClearSignal
  <2>1. \/ pc' = "closing"
        \/ fin.site = "chunk" /\ pc' \in {"republishing", "streaming", "cancelling", "failing"}
    BY <1>17 DEF ClearSignal, ReturnFromFinalize, Throw, InTry
  <2>2. pc = "clearing" /\ UNCHANGED <<row, job, chunk, bucket, fin, out, listener>>
    BY <1>17, Zenon DEF ClearSignal
  <2> QED
    BY <2>1, <2>2 DEF Nothing
<1>18. CASE RepublishEnd
  BY <1>18 DEF RepublishEnd, Throw, InTry, Nothing
<1>19. CASE Drain
  BY <1>19 DEF Drain, Released, ReleaseFailed, Throw, InTry
<1>20. CASE ReleaseCancelled
  BY <1>20 DEF ReleaseCancelled, Released, ReleaseFailed, Throw, InTry
<1>21. CASE FinalizeCancelled
  BY <1>21, FinalizeControl DEF FinalizeCancelled, Text, Site, Terminal
<1>22. CASE FinalizeFailed
  BY <1>22, FinalizeControl DEF FinalizeFailed, Text, Site, Terminal
<1>23. CASE CloseController
  BY <1>23 DEF CloseController, Leave, Nothing
<1> QED
  BY <1>1, <1>2, <1>3, <1>4, <1>5, <1>6, <1>7, <1>8, <1>9, <1>10, <1>11, <1>12,
     <1>13, <1>14, <1>15, <1>16, <1>17, <1>18, <1>19, <1>20, <1>21, <1>22, <1>23
     DEF WorkerStep, Dispatch

LEMMA ControlEnvironment ==
  DataTyped /\ Control /\ (EnvironmentStep \/ StreamStep) => Control'
<1> SUFFICES ASSUME DataTyped, Control, EnvironmentStep \/ StreamStep PROVE Control'
    OBVIOUS
<1> USE DEF Control, JobOwnsAttempt, ListenerOwned, ItemAwaited, BucketReleased,
            FinKnowsRow, FinKnowsSite, DecidedQuiet, Quiet, Preparing, Finalizing,
            TryBody, Handlers, jobVars, workerVars, streamVars, listenerVars
<1>1. CASE StartJob
  BY <1>1 DEF StartJob
<1>2. CASE AbortJob
  BY <1>2 DEF AbortJob, Leave, Throw, InTry, CloseStream, Nothing, DataTyped, PC, Fin
<1>3. CASE CrashWorker
  BY <1>3 DEF CrashWorker
<1>4. CASE ListenerStep
  BY <1>4 DEF ListenerStep, notListener, CheckKeyFirst, Subscribe, ReadConfirmation,
              Recheck, ReadMessage, LookAtKey, ListenerFails
<1>5. CASE ListenerDrop
  BY <1>5 DEF ListenerDrop, notListener, DropConnection, Subscribed
<1>6. ASSUME NEW c \in Callers, AskCancel(c) PROVE Control'
  BY <1>6, RowWriters DEF AskCancel, DataTyped, Terminal
<1>7. ASSUME NEW c \in Callers, Signal(c) PROVE Control'
  BY <1>7, Zenon DEF Signal, SetKey, Publish
<1>8. CASE StreamStep
  BY <1>8 DEF StreamStep, Yield, EndStream, Pending, Nothing, Closing
<1> QED
  BY <1>1, <1>2, <1>3, <1>4, <1>5, <1>6, <1>7, <1>8 DEF EnvironmentStep

\* The program counter of the worker tells what it holds and what it has done.
THEOREM ControlAlways == Spec => []Control
<1>1. TypeOK /\ Control /\ [Next]_vars => Control'
  <2>1. DataTyped /\ Control /\ UNCHANGED vars => Control'
    BY DEF vars, Control, JobOwnsAttempt, ListenerOwned, ItemAwaited, BucketReleased,
           FinKnowsRow, FinKnowsSite, DecidedQuiet, Quiet, jobVars, workerVars,
           streamVars, listenerVars
  <2> QED
    BY <2>1, ControlWorker, ControlEnvironment DEF Next, TypeOK
<1> QED
  BY <1>1, InitControl, TypeCorrect, PTL DEF Spec

-----------------------------------------------------------------------------
(* What a step does to the row.                                            *)

\* Every step leaves the row alone or goes through one of its three writers.
LEMMA RowSteps ==
  ASSUME DataTyped, [Next]_vars
  PROVE  \/ row' \in {row, SetRunning(row), RequestCancel(row)}
         \/ \E s \in Terminal, e \in Text : row' = SetAgentTerminal(row, s, e)
<1> USE DEF jobVars, workerVars, streamVars, listenerVars
<1>1. CASE WorkerStep
  BY <1>1 DEF WorkerStep, LoadRun, Prepare, SetRunRunning, PreCancel, PreClear, Announce,
    WakeCancelled, TakeItem, Flush, CheckKey, CheckRow, Dispatch, DispatchTerminal,
    DispatchCustom, DispatchInvalid, PublishInteraction, PublishEnd, ClearSignal,
    RepublishEnd, Drain, ReleaseCancelled, FinalizeCancelled, FinalizeFailed,
    CloseController, Finalize, DataTyped, Item, Text, Terminal
<1>2. CASE EnvironmentStep
  BY <1>2, Zenon DEF EnvironmentStep, StartJob, AbortJob, CrashWorker, ListenerStep,
    ListenerDrop, notListener, AskCancel, Signal, SetKey, Publish
<1>3. CASE StreamStep
  BY <1>3 DEF StreamStep
<1>4. CASE UNCHANGED vars
  BY <1>4 DEF vars
<1> QED
  BY <1>1, <1>2, <1>3, <1>4 DEF Next

LEMMA RowStays ==
  ASSUME DataTyped, [Next]_vars
  PROVE  /\ row.status \in Terminal => row' = row
         /\ row.status = "cancel_requested" =>
              row'.status \in Terminal \cup {"cancel_requested"}
<1>1. row \in Row
  BY DEF DataTyped
<1>2. CASE row' \in {row, SetRunning(row), RequestCancel(row)}
  BY <1>1, <1>2, RowWriters
<1>3. ASSUME NEW s \in Terminal, NEW e \in Text, row' = SetAgentTerminal(row, s, e)
      PROVE  /\ row.status \in Terminal => row' = row
             /\ row'.status \in Terminal
  BY <1>1, <1>3, RowWriters
<1> QED
  BY <1>2, <1>3, RowSteps DEF Terminal

\* The row goes forward only: the first writer decides for ever, and a run whose
\* cancellation is requested never goes back to pending or running.
THEOREM RowsMoveForward == Spec => RowMovesForward
<1>1. TypeOK /\ [Next]_vars =>
        [/\ row.status \in Terminal => row' = row
         /\ row.status = "cancel_requested" =>
              row'.status \notin {"pending", "running"}]_row
  BY RowStays DEF TypeOK, Terminal
<1> QED
  BY <1>1, TypeCorrect, PTL DEF Spec, RowMovesForward

-----------------------------------------------------------------------------
(* What a step does to the event stream.                                   *)

NoEnd == \A i \in 1..Len(events) : events[i].type # "end"

\* The interaction comes first: no end is written before it.
InteractionFirst == pc = "interacting" => NoEnd

\* The loop, the except clauses and _finalize_run run on an announced run.
Begun == pc \in TryBody \cup Handlers \cup Finalizing => Len(events) > 0

Log ==
  /\ EndTellsRow
  /\ NothingAfterEnd
  /\ StreamBeginsWithRunning
  /\ InteractionFirst
  /\ Begun

\* A write of e: landed, or failed with or without having landed.
Wrote(e) == events' \in {events, Append(events, e)}

LEMMA InteractionTyped ==
  Plain("interaction") \in Event /\ Plain("interaction").type = "interaction"
BY EventsTyped DEF EventType, Plain

\* At most one event is written in a step: the running event before anything,
\* content while the run is not decided or its interaction comes first, and an
\* end only by _finalize_run and the repetition after it.
LEMMA EventSteps ==
  ASSUME DataTyped, Control, [Next]_vars
  PROVE  \/ UNCHANGED events
         \/ pc = "announcing" /\ row.status \notin Terminal /\ Wrote(RunningEvent)
         \/ /\ pc \in TryBody \cup Handlers
            /\ row.status \notin Terminal
            /\ \E e \in Event : e.type \in {"messages", "custom"} /\ Wrote(e)
         \/ /\ pc = "interacting"
            /\ Wrote(Plain("interaction"))
         \/ /\ pc \in {"publishing", "republishing"}
            /\ Wrote(EndEvent(fin.got))
<1> USE DEF Control, DecidedQuiet, Quiet, Preparing, Finalizing, TryBody, Handlers, Wrote
<1>1. CASE Announce
  BY <1>1 DEF Announce, Written, WriteFailed
<1>2. CASE Flush \/ Drain \/ ReleaseCancelled
  <2>1. \/ UNCHANGED events
        \/ bucket > 0 /\ Wrote(Messages(bucket))
    BY <1>2 DEF Flush, Drain, ReleaseCancelled, Released, ReleaseFailed, Written,
                WriteFailed, DataTyped
  <2>2. Messages(bucket) \in Event /\ Messages(bucket).type = "messages"
    BY EventsTyped DEF DataTyped, Messages
  <2>3. pc \in {"smoothing", "flushing", "draining", "cancelling"}
    BY <1>2 DEF Flush, Drain, ReleaseCancelled
  <2> QED
    BY <2>1, <2>2, <2>3
<1>3. CASE DispatchCustom
  <2>1. Plain("custom") \in Event /\ Plain("custom").type = "custom"
    BY EventsTyped DEF EventType, Plain
  <2>2. pc = "dispatching" /\ chunk.status \notin Closing /\ Wrote(Plain("custom"))
    BY <1>3 DEF DispatchCustom, Written, WriteFailed, Closing
  <2> QED
    BY <2>1, <2>2
<1>4. CASE PublishInteraction
  BY <1>4 DEF PublishInteraction, PublishFailed, Written, WriteFailed
<1>5. CASE PublishEnd \/ RepublishEnd
  BY <1>5 DEF PublishEnd, RepublishEnd, PublishFailed, Written, WriteFailed
<1>6. CASE \/ LoadRun \/ Prepare \/ SetRunRunning \/ PreCancel \/ PreClear \/ WakeCancelled
           \/ TakeItem \/ CheckKey \/ CheckRow \/ DispatchTerminal \/ DispatchInvalid
           \/ ClearSignal \/ FinalizeCancelled \/ FinalizeFailed \/ CloseController
  BY <1>6, Zenon DEF LoadRun, Prepare, SetRunRunning, PreCancel, PreClear, WakeCancelled,
    TakeItem, CheckKey, CheckRow, DispatchTerminal, DispatchInvalid, ClearSignal,
    FinalizeCancelled, FinalizeFailed, CloseController
<1>7. CASE EnvironmentStep
  BY <1>7, Zenon DEF EnvironmentStep, StartJob, AbortJob, CrashWorker, ListenerStep,
    ListenerDrop, notListener, AskCancel, Signal, SetKey, Publish
<1>8. CASE StreamStep
  BY <1>8 DEF StreamStep
<1>9. CASE UNCHANGED vars
  BY <1>9 DEF vars
<1> QED
  BY <1>1, <1>2, <1>3, <1>4, <1>5, <1>6, <1>7, <1>8, <1>9, Zenon
     DEF Next, WorkerStep, Dispatch

UnderWay == pc \in TryBody \cup Handlers \cup Finalizing

\* The loop is entered by writing the running event, and the interaction step
\* by deciding the run, with nothing written.
LEMMA PcSteps ==
  ASSUME DataTyped, [Next]_vars
  PROVE  /\ UnderWay' => \/ UnderWay
                         \/ pc = "announcing" /\ events' = Append(events, RunningEvent)
         /\ pc' = "interacting" => /\ UNCHANGED events
                                   /\ row.status \notin Terminal \/ pc = "interacting"
<1> USE DEF UnderWay, Preparing, Finalizing, TryBody, Handlers, workerVars, streamVars,
            listenerVars, jobVars
<1>1. CASE Announce
  BY <1>1 DEF Announce, Written, Throw, InTry
<1>2. CASE DispatchTerminal \/ FinalizeCancelled \/ FinalizeFailed
  <2>1. pc \in {"dispatching", "deciding", "failing"} /\ UNCHANGED events
    BY <1>2, Zenon DEF DispatchTerminal, FinalizeCancelled, FinalizeFailed
  <2>2. ASSUME NEW site, NEW s, NEW e, Finalize(site, s, e)
        PROVE  pc' = "interacting" => row.status \notin Terminal
    BY <2>2 DEF Finalize, TerminalChanged
  <2>3. pc' = "interacting" => row.status \notin Terminal
    BY <1>2, <2>2, Zenon DEF DispatchTerminal, FinalizeCancelled, FinalizeFailed
  <2> QED
    BY <2>1, <2>3
<1>3. CASE \/ LoadRun \/ Prepare \/ SetRunRunning \/ PreCancel \/ PreClear \/ CloseController
  BY <1>3 DEF LoadRun, Prepare, SetRunRunning, PreCancel, PreClear, CloseController, Leave
<1>4. CASE \/ WakeCancelled \/ TakeItem \/ Flush \/ CheckKey \/ CheckRow \/ DispatchCustom
           \/ DispatchInvalid \/ Drain \/ ReleaseCancelled
  BY <1>4 DEF WakeCancelled, TakeItem, Flush, CheckKey, CheckRow, DispatchCustom,
    DispatchInvalid, Drain, ReleaseCancelled, Throw, InTry
<1>5. CASE \/ PublishInteraction \/ PublishEnd \/ ClearSignal \/ RepublishEnd
  BY <1>5 DEF PublishInteraction, PublishEnd, PublishFailed, ClearSignal,
    ReturnFromFinalize, RepublishEnd, Throw, InTry
<1>6. CASE EnvironmentStep
  <2>1. CASE StartJob
    BY <2>1 DEF StartJob
  <2>2. CASE AbortJob
    BY <2>2 DEF AbortJob, Leave, Throw, InTry
  <2>3. CASE CrashWorker
    BY <2>3 DEF CrashWorker
  <2>4. ASSUME ~StartJob, ~AbortJob, ~CrashWorker
        PROVE  UNCHANGED <<pc, events>>
    BY <1>6, <2>4, Zenon DEF EnvironmentStep, ListenerStep, ListenerDrop, notListener,
      AskCancel, Signal, SetKey, Publish
  <2> QED
    BY <2>1, <2>2, <2>3, <2>4
<1>7. CASE StreamStep
  BY <1>7 DEF StreamStep
<1>8. CASE UNCHANGED vars
  BY <1>8 DEF vars
<1> QED
  BY <1>1, <1>2, <1>3, <1>4, <1>5, <1>6, <1>7, <1>8, Zenon DEF Next, WorkerStep, Dispatch

-----------------------------------------------------------------------------
(* What the event stream holds.                                            *)

LEMMA InitLog == Init => Log
BY DEF Init, Log, EndTellsRow, NothingAfterEnd, StreamBeginsWithRunning, InteractionFirst,
       Begun, Preparing, TryBody, Handlers, Finalizing

\* Appending to a sequence of events.
LEMMA Appended ==
  ASSUME NEW s \in Seq(Event), NEW e \in Event
  PROVE  /\ Append(s, e) \in Seq(Event)
         /\ Len(s) \in Nat
         /\ Len(Append(s, e)) = Len(s) + 1
         /\ \A i \in 1..Len(s) : Append(s, e)[i] = s[i]
         /\ Append(s, e)[Len(s) + 1] = e
OBVIOUS

\* A non-terminal row means a stream without an end.
LEMMA UndecidedNoEnd ==
  ASSUME EndTellsRow, row.status \notin Terminal
  PROVE  NoEnd
BY DEF EndTellsRow, NoEnd

LEMMA LogStep == TypeOK /\ Control /\ Log /\ [Next]_vars => Log'
<1> SUFFICES ASSUME DataTyped, Control, Log, [Next]_vars PROVE Log'
    BY DEF TypeOK
<1> USE DEF Log
<1>1. events \in Seq(Event)
  BY DEF DataTyped
<1>2. row.status \in Terminal => row' = row
  BY RowStays
<1>3. Begun'
  <2>1. UnderWay' => Len(events') > 0
    <3>1. CASE UnderWay /\ UNCHANGED events
      BY <3>1 DEF Begun, UnderWay
    <3>2. ASSUME NEW e \in Event, Wrote(e), UnderWay
          PROVE  Len(events') > 0
      BY <1>1, <3>2, Appended DEF Begun, UnderWay, Wrote
    <3>3. CASE events' = Append(events, RunningEvent)
      BY <1>1, <3>3, EventsTyped, Appended
    <3>4. CASE UnderWay
      BY <3>1, <3>2, <3>4, EventSteps, EventsTyped, FinTyped, InteractionTyped
    <3> QED
      BY <3>3, <3>4, PcSteps
  <2> QED
    BY <2>1 DEF Begun, UnderWay
<1>4. StreamBeginsWithRunning'
  <2>1. CASE UNCHANGED events
    BY <2>1 DEF StreamBeginsWithRunning
  <2>2. CASE Wrote(RunningEvent)
    BY <1>1, <2>2, EventsTyped, Appended DEF StreamBeginsWithRunning, Wrote
  <2>3. ASSUME NEW e \in Event, Wrote(e), UnderWay
        PROVE  StreamBeginsWithRunning'
    <3>1. Len(events) > 0
      BY <2>3 DEF Begun, UnderWay
    <3> QED
      BY <1>1, <2>3, <3>1, Appended DEF StreamBeginsWithRunning, Wrote
  <2> QED
    BY <2>1, <2>2, <2>3, EventSteps, EventsTyped, FinTyped, InteractionTyped
       DEF UnderWay, Finalizing
<1>5. EndTellsRow'
  <2>1. CASE UNCHANGED events
    BY <1>2, <2>1 DEF EndTellsRow
  <2>2. ASSUME NEW e \in Event, Wrote(e), e.type # "end"
        PROVE  EndTellsRow'
    BY SMTT(30), <1>1, <1>2, <2>2, Appended DEF EndTellsRow, Wrote
  <2>3. CASE pc \in {"publishing", "republishing"} /\ Wrote(EndEvent(fin.got))
    <3>1. row.status \in Terminal /\ fin.got = row.status
      BY <2>3 DEF Control, FinKnowsRow, Finalizing
    <3>2. EndEvent(fin.got) \in Event /\ EndEvent(fin.got).status = row.status
      BY <3>1, EventsTyped, FinTyped DEF EndEvent
    <3> QED
      BY SMTT(30), <1>1, <1>2, <2>3, <3>1, <3>2, Appended DEF EndTellsRow, Wrote
  <2>4. RunningEvent.type # "end" /\ Plain("interaction").type # "end"
    BY DEF RunningEvent, Plain
  <2> QED
    BY <2>1, <2>2, <2>3, <2>4, EventSteps, EventsTyped, InteractionTyped
<1>6. NothingAfterEnd'
  <2>1. CASE UNCHANGED events
    BY <2>1 DEF NothingAfterEnd
  <2>2. ASSUME NEW e \in Event, Wrote(e), NoEnd \/ e.type = "end"
        PROVE  NothingAfterEnd'
    <3>1. CASE UNCHANGED events
      BY <3>1 DEF NothingAfterEnd
    <3>2. CASE events' = Append(events, e) /\ NoEnd
      BY <1>1, <3>2, Appended DEF NothingAfterEnd, NoEnd
    <3>3. CASE events' = Append(events, e) /\ e.type = "end"
      BY <1>1, <3>3, Appended DEF Log, NothingAfterEnd
    <3> QED
      BY <2>2, <3>1, <3>2, <3>3 DEF Wrote
  <2>3. row.status \notin Terminal \/ pc = "interacting" => NoEnd
    BY UndecidedNoEnd DEF InteractionFirst
  <2>4. EndEvent(fin.got) \in Event /\ EndEvent(fin.got).type = "end"
    BY EventsTyped, FinTyped DEF EndEvent
  <2> QED
    BY <2>1, <2>2, <2>3, <2>4, EventSteps, EventsTyped, InteractionTyped
<1>7. InteractionFirst'
  BY UndecidedNoEnd, PcSteps DEF InteractionFirst, NoEnd
<1> QED
  BY <1>3, <1>4, <1>5, <1>6, <1>7

\* The event log and the rows tell of the same run in the same order.
THEOREM LogAlways == Spec => []Log
<1> QED
  BY InitLog, LogStep, TypeCorrect, ControlAlways, PTL DEF Spec

\* What an end event says is what the database says, and will go on saying.
THEOREM EndsTellTheRow == Spec => []EndTellsRow
<1>1. Log => EndTellsRow
  BY DEF Log
<1> QED
  BY <1>1, LogAlways, PTL

\* No content, status or interaction follows an end event.
THEOREM EndsAreLast == Spec => []NothingAfterEnd
<1>1. Log => NothingAfterEnd
  BY DEF Log
<1> QED
  BY <1>1, LogAlways, PTL

\* A stream that holds anything begins with the running event.
THEOREM StreamsBeginWithRunning == Spec => []StreamBeginsWithRunning
<1>1. Log => StreamBeginsWithRunning
  BY DEF Log
<1> QED
  BY <1>1, LogAlways, PTL

\* The three together: what a stream tells of its run, from its first event to
\* its last, whatever failed while it was written.
THEOREM StreamsTellTheirRun == Spec => []StreamTellsRun
<1>1. StreamBeginsWithRunning /\ NothingAfterEnd /\ EndTellsRow => StreamTellsRun
  BY DEF StreamTellsRun
<1> QED
  BY <1>1, StreamsBeginWithRunning, EndsAreLast, EndsTellTheRow, PTL

\* No buffered content is left behind by a run that ends by a chunk or a
\* cancellation.
THEOREM ContentBeforeDecision == Spec => []DecidedAfterContent
<1>1. Control => DecidedAfterContent
  BY DEF Control, FinKnowsSite, DecidedAfterContent
<1> QED
  BY <1>1, ControlAlways, PTL

\* The cancellation listener runs exactly while its controller does.
THEOREM ListenerHasOwner == Spec => []ListenerOwned
<1>1. Control => ListenerOwned
  BY DEF Control
<1> QED
  BY <1>1, ControlAlways, PTL

-----------------------------------------------------------------------------
(* What the signals say.                                                   *)

Stopping == row.status \in Terminal \cup {"cancel_requested"}

\* A call on its way to signal has committed its request.
CallersCommitted == \A c \in Callers : caller[c] \in {"committed", "keySet"} => Stopping

Signals == CallersCommitted /\ SignalFollowsCommit

LEMMA StoppingStays ==
  ASSUME DataTyped, [Next]_vars, Stopping
  PROVE  Stopping'
BY RowStays DEF Stopping

\* Only a caller signals, and only one that has committed.
LEMMA SignalSteps ==
  ASSUME [Next]_vars
  PROVE  \/ (cancelKey' \/ inbox') => (cancelKey \/ inbox)
         \/ \E c \in Callers : caller[c] \in {"committed", "keySet"}
<1> USE DEF jobVars, workerVars, streamVars, listenerVars
<1>1. CASE WorkerStep
  BY <1>1, Zenon DEF WorkerStep, LoadRun, Prepare, SetRunRunning, PreCancel, PreClear,
    Announce, WakeCancelled, TakeItem, Flush, CheckKey, CheckRow, Dispatch, DispatchTerminal,
    DispatchCustom, DispatchInvalid, PublishInteraction, PublishEnd, ClearSignal,
    RepublishEnd, Drain, ReleaseCancelled, FinalizeCancelled, FinalizeFailed, CloseController
<1>2. CASE EnvironmentStep
  BY <1>2, Zenon DEF EnvironmentStep, StartJob, AbortJob, CrashWorker, ListenerStep,
    ListenerDrop, CheckKeyFirst, Subscribe, ReadConfirmation, Recheck, ReadMessage,
    DropConnection, ListenerFails, notListener, AskCancel, Signal, SetKey, Publish
<1>3. CASE StreamStep
  BY <1>3, Zenon DEF StreamStep
<1>4. CASE UNCHANGED vars
  BY <1>4, Zenon DEF vars
<1> QED
  BY <1>1, <1>2, <1>3, <1>4 DEF Next

\* Only its own call moves a caller, and it is on its way to signal only after
\* it has read a run that is being cancelled.
LEMMA CallerSteps ==
  ASSUME DataTyped, [Next]_vars, NEW c \in Callers,
         caller'[c] \in {"committed", "keySet"}
  PROVE  caller[c] \in {"committed", "keySet"} \/ Stopping'
<1> USE DEF jobVars, workerVars, streamVars, listenerVars
<1>1. CASE WorkerStep
  BY <1>1, Zenon DEF WorkerStep, LoadRun, Prepare, SetRunRunning, PreCancel, PreClear,
    Announce, WakeCancelled, TakeItem, Flush, CheckKey, CheckRow, Dispatch, DispatchTerminal,
    DispatchCustom, DispatchInvalid, PublishInteraction, PublishEnd, ClearSignal,
    RepublishEnd, Drain, ReleaseCancelled, FinalizeCancelled, FinalizeFailed, CloseController
<1>2. ASSUME NEW d \in Callers, AskCancel(d)
      PROVE  caller[c] \in {"committed", "keySet"} \/ Stopping'
  BY <1>2 DEF AskCancel, Stopping, DataTyped, CallerState
<1>3. ASSUME NEW d \in Callers, SetKey(d) \/ Publish(d)
      PROVE  caller[c] \in {"committed", "keySet"}
  <2>1. \/ caller' = [caller EXCEPT ![d] = "keySet"] /\ caller[d] = "committed"
        \/ caller' = [caller EXCEPT ![d] = "done"]
    BY <1>3, Zenon DEF SetKey, Publish
  <2> QED
    BY <2>1 DEF DataTyped
<1>4. CASE StartJob \/ AbortJob \/ CrashWorker \/ ListenerStep \/ ListenerDrop
  BY <1>4, Zenon DEF StartJob, AbortJob, CrashWorker, ListenerStep, ListenerDrop, notListener
<1>5. CASE StreamStep
  BY <1>5, Zenon DEF StreamStep
<1>6. CASE UNCHANGED vars
  BY <1>6, Zenon DEF vars
<1> QED
  BY <1>1, <1>2, <1>3, <1>4, <1>5, <1>6, Zenon DEF Next, EnvironmentStep, Signal

LEMMA SignalsStep == TypeOK /\ Signals /\ [Next]_vars => Signals'
<1> SUFFICES ASSUME DataTyped, Signals, [Next]_vars PROVE Signals'
    BY DEF TypeOK
<1>1. CallersCommitted'
  BY CallerSteps, StoppingStays, Zenon DEF Signals, CallersCommitted
<1>2. SignalFollowsCommit'
  <2>1. (cancelKey' \/ inbox') => Stopping
    BY SignalSteps, Zenon DEF Signals, CallersCommitted, SignalFollowsCommit, Stopping
  <2> QED
    BY <2>1, StoppingStays, Zenon DEF SignalFollowsCommit, Stopping
<1> QED
  BY <1>1, <1>2 DEF Signals

\* A worker that is signalled finds the request, or a decision, in the row:
\* the commit always comes before the signal.
THEOREM SignalsFollowCommits == Spec => []SignalFollowsCommit
<1>1. Init => Signals
  BY Zenon DEF Init, Signals, CallersCommitted, SignalFollowsCommit
<1>2. Signals => SignalFollowsCommit
  BY DEF Signals
<1> QED
  BY <1>1, <1>2, SignalsStep, TypeCorrect, PTL DEF Spec

-----------------------------------------------------------------------------
(* A job that is over has decided its run.                                 *)

\* What this takes: the worker reaches Redis (a failed running event leaves the
\* run undecided), ARQ does not cancel the job, and there are more attempts than
\* workers that may die.
Undisturbed ==
  /\ Faults \cap {"redis", "abort"} = {}
  /\ MaxFaults < MaxTries

\* ARQ hands the job out again only after a death of its worker.
OneTryPerFault ==
  /\ tries <= faults + 1
  /\ job = "queued" => tries <= faults

\* No exception is on its way, and the attempt is left with the run decided.
LeftDecided ==
  /\ raised = "none"
  /\ seen \/ pc \in {"preClearing", "closing"} \/ job = "finished" => row.status \in Terminal

LEMMA NoRedisFault ==
  ASSUME Undisturbed
  PROVE  /\ \A e : ~WriteFailed(e)
         /\ ~ReleaseFailed
         /\ \A e : ~PublishFailed(e)
         /\ ~Fault("redis")
         /\ ~Fault("abort")
BY DEF Undisturbed, WriteFailed, ReleaseFailed, PublishFailed, Fault

LEMMA LeftWorker ==
  ASSUME Undisturbed, DataTyped, Control, LeftDecided, WorkerStep
  PROVE  LeftDecided'
<1> USE DEF LeftDecided, Control, FinKnowsRow, Finalizing, TryBody, Handlers, jobVars, streamVars,
            listenerVars
<1>1. CASE LoadRun
  BY <1>1 DEF LoadRun, Leave
<1>2. CASE Prepare
  BY <1>2, RowWriters DEF Prepare, Leave, Terminal, Text, DataTyped
<1>3. CASE SetRunRunning
  <2>1. row.status \in Terminal => row'.status \in Terminal
    BY <1>3, RowWriters DEF SetRunRunning, DataTyped
  <2> QED
    BY <1>3, <2>1 DEF SetRunRunning, Leave, Terminal
<1>4. CASE PreCancel
  BY <1>4, RowWriters DEF PreCancel, Terminal, Text, DataTyped
<1>5. CASE PreClear
  BY <1>5 DEF PreClear, Leave
<1>6. CASE Announce
  BY <1>6, NoRedisFault DEF Announce
<1>7. CASE WakeCancelled
  BY <1>7 DEF WakeCancelled, Throw, InTry
<1>8. CASE TakeItem
  BY <1>8 DEF TakeItem, Throw, InTry
<1>9. CASE Flush
  BY <1>9, NoRedisFault DEF Flush
<1>10. CASE CheckKey
  BY <1>10 DEF CheckKey, Throw, InTry
<1>11. CASE CheckRow
  BY <1>11 DEF CheckRow, Throw, InTry
<1>12. CASE DispatchTerminal \/ FinalizeCancelled \/ FinalizeFailed
  <2>1. \E site \in Site, s \in Terminal, e \in Text : Finalize(site, s, e)
    BY <1>12 DEF DispatchTerminal, FinalizeCancelled, FinalizeFailed, DataTyped, Item, Text,
                 Site, Terminal
  <2>2. row'.status \in Terminal
    BY <2>1, FinalizeControl
  <2>3. UNCHANGED <<raised, seen, job>>
    BY <1>12, Zenon DEF DispatchTerminal, FinalizeCancelled, FinalizeFailed, jobVars
  <2> QED
    BY <2>2, <2>3
<1>13. CASE DispatchCustom
  BY <1>13, NoRedisFault DEF DispatchCustom
<1>14. CASE DispatchInvalid
  BY <1>14 DEF DispatchInvalid, Throw, InTry
<1>15. CASE PublishInteraction
  BY <1>15, NoRedisFault DEF PublishInteraction
<1>16. CASE PublishEnd
  BY <1>16, NoRedisFault DEF PublishEnd
<1>17. CASE ClearSignal
  BY <1>17, NoRedisFault DEF ClearSignal, ReturnFromFinalize
<1>18. CASE RepublishEnd
  BY <1>18, NoRedisFault DEF RepublishEnd
<1>19. CASE Drain
  BY <1>19, NoRedisFault DEF Drain, Throw, InTry
<1>20. CASE ReleaseCancelled
  BY <1>20, NoRedisFault DEF ReleaseCancelled
<1>21. CASE CloseController
  BY <1>21 DEF CloseController, Leave
<1> QED
  BY <1>1, <1>2, <1>3, <1>4, <1>5, <1>6, <1>7, <1>8, <1>9, <1>10, <1>11, <1>12,
     <1>13, <1>14, <1>15, <1>16, <1>17, <1>18, <1>19, <1>20, <1>21
     DEF WorkerStep, Dispatch

LEMMA LeftEnvironment ==
  ASSUME Undisturbed, DataTyped, LeftDecided, OneTryPerFault,
         EnvironmentStep \/ StreamStep \/ UNCHANGED vars
  PROVE  LeftDecided'
<1> USE DEF LeftDecided, jobVars, workerVars, streamVars, listenerVars
<1>1. CASE StartJob
  <2>1. tries < MaxTries
    BY <1>1 DEF StartJob, OneTryPerFault, Undisturbed, DataTyped
  <2> QED
    BY <1>1, <2>1 DEF StartJob
<1>2. CASE AbortJob
  BY <1>2, NoRedisFault DEF AbortJob
<1>3. CASE CrashWorker
  BY <1>3 DEF CrashWorker
<1>4. CASE ListenerStep \/ ListenerDrop
  <2>1. UNCHANGED <<row, job, pc, seen, raised>>
    BY <1>4, Zenon DEF ListenerStep, ListenerDrop, notListener
  <2> QED
    BY <2>1
<1>5. ASSUME NEW c \in Callers, AskCancel(c) PROVE LeftDecided'
  <2>1. row.status \in Terminal => row' = row
    BY <1>5, RowWriters DEF AskCancel, DataTyped
  <2> QED
    BY <1>5, <2>1 DEF AskCancel
<1>6. ASSUME NEW c \in Callers, Signal(c) PROVE LeftDecided'
  <2>1. UNCHANGED <<row, job, pc, seen, raised>>
    BY <1>6, Zenon DEF Signal, SetKey, Publish
  <2> QED
    BY <2>1
<1>7. CASE StreamStep
  BY <1>7 DEF StreamStep
<1>8. CASE UNCHANGED vars
  BY <1>8 DEF vars
<1> QED
  BY <1>1, <1>2, <1>3, <1>4, <1>5, <1>6, <1>7, <1>8 DEF EnvironmentStep

\* Only ARQ starts an attempt, and only a death makes it start another one.
LEMMA TriesStep ==
  ASSUME Undisturbed, DataTyped, JobOwnsAttempt, LeftDecided, OneTryPerFault, [Next]_vars
  PROVE  OneTryPerFault'
<1> USE DEF OneTryPerFault, jobVars, workerVars, streamVars, listenerVars
<1>0. tries \in Nat /\ faults \in Nat
  BY DEF DataTyped
<1>1. CASE StartJob
  BY <1>0, <1>1 DEF StartJob
<1>2. CASE CrashWorker
  BY <1>0, <1>2 DEF CrashWorker, Fault
<1>3. CASE AbortJob
  BY <1>3, NoRedisFault DEF AbortJob
<1>4. CASE \/ WorkerStep \/ ListenerStep \/ ListenerDrop \/ StreamStep \/ UNCHANGED vars
           \/ \E c \in Callers : AskCancel(c) \/ Signal(c)
  <2>1. UNCHANGED tries /\ (job' = "queued" => job = "queued")
    <3>1. CASE WorkerStep
      BY <3>1 DEF WorkerStep, LoadRun, Prepare, SetRunRunning, PreCancel, PreClear, Announce,
        WakeCancelled, TakeItem, Flush, CheckKey, CheckRow, Dispatch, DispatchTerminal,
        DispatchCustom, DispatchInvalid, PublishInteraction, PublishEnd, ClearSignal,
        RepublishEnd, Drain, ReleaseCancelled, FinalizeCancelled, FinalizeFailed,
        CloseController, Leave, LeftDecided
    <3>2. CASE ~WorkerStep
      BY <1>4, <3>2, Zenon DEF ListenerStep, ListenerDrop, notListener, StreamStep, AskCancel,
        Signal, SetKey, Publish, vars, jobVars
    <3> QED
      BY <3>1, <3>2
  <2>2. faults' = faults \/ faults' = faults + 1
    <3>1. faults' = faults \/ \E f \in FaultKinds : Fault(f)
      BY <1>4, Zenon DEF WorkerStep, LoadRun, Prepare, SetRunRunning, PreCancel, PreClear,
        Announce, WakeCancelled, TakeItem, Flush, CheckKey, CheckRow, Dispatch,
        DispatchTerminal, DispatchCustom, DispatchInvalid, PublishInteraction, PublishEnd,
        PublishFailed, ClearSignal, RepublishEnd, Drain, ReleaseCancelled, FinalizeCancelled,
        FinalizeFailed, CloseController, Written, WriteFailed, Released, ReleaseFailed,
        ListenerStep, CheckKeyFirst, Subscribe, ReadConfirmation, Recheck, ReadMessage,
        ListenerFails, ListenerDrop, DropConnection, notListener, StreamStep, AskCancel,
        Signal, SetKey, Publish, FaultKinds, vars
    <3> QED
      BY <3>1 DEF Fault
  <2> QED
    BY <1>0, <2>1, <2>2
<1> QED
  BY <1>1, <1>2, <1>3, <1>4 DEF Next, EnvironmentStep

\* A job that is over has decided its run, however often its worker died and its
\* subscription dropped, as long as an attempt was left.
THEOREM JobsDecideTheirRun ==
  ASSUME Undisturbed
  PROVE  Spec => []JobDecidesRun
<1> DEFINE Inv == OneTryPerFault /\ LeftDecided
<1>1. Init => Inv
  BY DEF Init, OneTryPerFault, LeftDecided
<1>2. TypeOK /\ Control /\ Inv /\ [Next]_vars => Inv'
  <2> SUFFICES ASSUME DataTyped, Control, Inv, [Next]_vars PROVE Inv'
    BY DEF TypeOK
  <2>1. OneTryPerFault'
    BY TriesStep DEF Control
  <2>2. LeftDecided'
    BY LeftWorker, LeftEnvironment DEF Next
  <2> QED
    BY <2>1, <2>2
<1>3. Inv => JobDecidesRun
  BY DEF LeftDecided, JobDecidesRun
<1> QED
  BY <1>1, <1>2, <1>3, TypeCorrect, ControlAlways, PTL DEF Spec

-----------------------------------------------------------------------------
(* RunWorker implements RunStream: the status of the abstract run is the   *)
(* status column, and its log is the event stream with messages and custom *)
(* events told apart no longer.  Control and Log do not say enough about   *)
(* _finalize_run: that an end is written twice at the most, and that the   *)
(* question of an interrupted run comes first, depends on which of its     *)
(* steps have been taken.  Ending adds that.                               *)

(* What _finalize_run has written when.                                    *)

HasQuestion == \E i \in 1..Len(events) : events[i].type = "interaction"

OneEnd ==
  \A i, j \in 1..Len(events) : events[i].type = "end" /\ events[j].type = "end" => i = j

\* The first steps follow a decision, and it is the only thing they follow.
EndPending ==
  pc \in {"interacting", "publishing"} =>
    /\ fin.changed
    /\ NoEnd

\* An interrupted run announces its end after its question, and one that was
\* only found interrupted announces nothing.
QuestionAsked ==
  /\ pc = "interacting" => fin.got = "interrupted"
  /\ pc \in {"publishing", "clearing", "republishing"}
       /\ fin.changed /\ fin.got = "interrupted" => HasQuestion

\* The end is repeated once.
EndRepeated ==
  /\ pc = "republishing" => fin.changed
  /\ pc \in {"clearing", "republishing"} /\ fin.changed => OneEnd

Ending == EndPending /\ QuestionAsked /\ EndRepeated

LEMMA InitEnding == Init => Ending
BY DEF Init, Ending, EndPending, QuestionAsked, EndRepeated

\* What is in the stream stays there.
LEMMA QuestionStays ==
  ASSUME DataTyped, NEW e \in Event, Wrote(e) \/ UNCHANGED events
  PROVE  /\ HasQuestion => HasQuestion'
         /\ e.type # "end" /\ NoEnd => NoEnd'
         /\ NoEnd => OneEnd'
         /\ UNCHANGED events => (NoEnd => NoEnd') /\ (OneEnd => OneEnd')
<1>1. events \in Seq(Event)
  BY DEF DataTyped
<1>2. CASE UNCHANGED events
  BY <1>2 DEF HasQuestion, NoEnd, OneEnd
<1>3. CASE events' = Append(events, e)
  <2>1. HasQuestion => HasQuestion'
    BY <1>1, <1>3, Appended DEF HasQuestion
  <2>2. e.type # "end" /\ NoEnd => NoEnd'
    BY <1>1, <1>3, Appended DEF NoEnd
  <2>3. NoEnd => OneEnd'
    BY <1>1, <1>3, Appended DEF NoEnd, OneEnd
  <2>4. UNCHANGED events => (NoEnd => NoEnd') /\ (OneEnd => OneEnd')
    BY DEF NoEnd, OneEnd
  <2> QED
    BY <2>1, <2>2, <2>3, <2>4
<1> QED
  BY <1>2, <1>3 DEF Wrote

LEMMA OutsideFinalize == pc \notin Finalizing => Ending
BY DEF Ending, EndPending, QuestionAsked, EndRepeated, Finalizing

LEMMA EndingWorker ==
  ASSUME DataTyped, Control, Log, Ending, WorkerStep
  PROVE  Ending'
<1> USE DEF Ending, EndPending, QuestionAsked, EndRepeated, Finalizing
<1>1. CASE DispatchTerminal \/ FinalizeCancelled \/ FinalizeFailed
  <2>1. UNCHANGED events
    BY <1>1, Zenon DEF DispatchTerminal, FinalizeCancelled, FinalizeFailed
  <2>2. \E site, s, e : Finalize(site, s, e)
    BY <1>1, Zenon DEF DispatchTerminal, FinalizeCancelled, FinalizeFailed
  <2>3. PICK site, s, e : Finalize(site, s, e)
    BY <2>2
  <2>4. fin'.changed => NoEnd'
    BY <2>1, <2>3, UndecidedNoEnd DEF Finalize, TerminalChanged, Log, NoEnd
  <2> QED
    BY <2>3, <2>4 DEF Finalize
<1>2. CASE PublishInteraction
  <2>1. UNCHANGED fin /\ fin.got = "interrupted" /\ fin.changed /\ NoEnd
    BY <1>2 DEF PublishInteraction
  <2>2. CASE Written(Plain("interaction")) /\ pc' = "publishing"
    <3>1. HasQuestion'
      BY <2>2, InteractionTyped, Appended DEF HasQuestion, Written, DataTyped
    <3>2. NoEnd'
      BY <2>1, <2>2, InteractionTyped, QuestionStays DEF Written, Wrote
    <3> QED
      BY <2>1, <2>2, <3>1, <3>2
  <2>3. CASE PublishFailed(Plain("interaction"))
    <3>1. pc' \notin Finalizing
      BY <2>1, <2>3 DEF PublishFailed, Throw
    <3> QED
      BY <3>1
  <2> QED
    BY <1>2, <2>2, <2>3 DEF PublishInteraction
<1>3. CASE PublishEnd
  <2>1. /\ UNCHANGED fin
        /\ NoEnd
        /\ fin.got = "interrupted" => HasQuestion
        /\ Wrote(EndEvent(fin.got))
    BY <1>3 DEF PublishEnd, PublishFailed, Written, WriteFailed, Wrote
  <2>2. OneEnd' /\ (fin'.got = "interrupted" => HasQuestion')
    BY <2>1, EventsTyped, FinTyped, QuestionStays
  <2>3. pc' = "clearing" \/ pc' \notin Finalizing
    BY <1>3 DEF PublishEnd, PublishFailed, Throw
  <2> QED
    BY <2>2, <2>3
<1>4. CASE ClearSignal
  <2>1. UNCHANGED <<fin, events>> /\ pc = "clearing"
    BY <1>4, Zenon DEF ClearSignal
  <2>2. (pc' = "republishing" /\ fin.changed) \/ pc' \notin Finalizing
    BY <1>4 DEF ClearSignal, ReturnFromFinalize, Throw
  <2>3. (OneEnd => OneEnd') /\ (HasQuestion => HasQuestion')
    BY <2>1 DEF OneEnd, HasQuestion
  <2> QED
    BY <2>1, <2>2, <2>3
<1>5. CASE RepublishEnd
  BY <1>5 DEF RepublishEnd, Throw
<1>6. CASE \/ LoadRun \/ Prepare \/ SetRunRunning \/ PreCancel \/ PreClear \/ Announce
           \/ WakeCancelled \/ TakeItem \/ CloseController
  BY <1>6 DEF LoadRun, Prepare, SetRunRunning, PreCancel, PreClear, Announce, WakeCancelled,
    TakeItem, CloseController, Leave, Throw
<1>7. CASE \/ Flush \/ CheckKey \/ CheckRow \/ DispatchCustom \/ DispatchInvalid \/ Drain
           \/ ReleaseCancelled
  BY <1>7 DEF Flush, CheckKey, CheckRow, DispatchCustom, DispatchInvalid, Drain,
    ReleaseCancelled, Throw
<1> QED
  BY <1>1, <1>2, <1>3, <1>4, <1>5, <1>6, <1>7, Zenon DEF WorkerStep, Dispatch

LEMMA EndingStep == TypeOK /\ Control /\ Log /\ Ending /\ [Next]_vars => Ending'
<1> SUFFICES ASSUME DataTyped, Control, Log, Ending, [Next]_vars PROVE Ending'
    BY DEF TypeOK
<1>1. CASE WorkerStep
  BY <1>1, EndingWorker
<1>2. CASE StartJob \/ CrashWorker
  <2>1. pc' \in {"idle", "loading"} \/ UNCHANGED <<pc, fin, events>>
    BY <1>2, Zenon DEF StartJob, CrashWorker, workerVars
  <2> QED
    BY <2>1 DEF Ending, EndPending, QuestionAsked, EndRepeated, NoEnd, OneEnd, HasQuestion
<1>3. CASE AbortJob
  <2>1. UNCHANGED <<fin, events>>
    BY <1>3, Zenon DEF AbortJob
  <2>2. \/ pc \in {"interacting", "publishing"} /\ fin.got = "cancelled" /\ pc' = "clearing"
        \/ pc' \notin Finalizing
    BY <1>3 DEF AbortJob, Leave, Throw, Finalizing
  <2>3. NoEnd => OneEnd'
    BY <2>1 DEF NoEnd, OneEnd
  <2> QED
    BY <2>1, <2>2, <2>3 DEF Ending, EndPending, QuestionAsked, EndRepeated, Finalizing
<1>4. CASE UNCHANGED <<pc, fin, events>>
  BY <1>4 DEF Ending, EndPending, QuestionAsked, EndRepeated, NoEnd, OneEnd, HasQuestion
<1>5. ASSUME ~WorkerStep, ~StartJob, ~CrashWorker, ~AbortJob
      PROVE  UNCHANGED <<pc, fin, events>>
  BY <1>5, Zenon DEF Next, EnvironmentStep, StreamStep, ListenerStep, ListenerDrop, notListener,
    AskCancel, Signal, SetKey, Publish, vars, workerVars
<1> QED
  BY <1>1, <1>2, <1>3, <1>4, <1>5

\* While it finalizes, the worker knows how the run ended.
THEOREM EndingAlways == Spec => []Ending
<1> QED
  BY InitEnding, EndingStep, TypeCorrect, ControlAlways, LogAlways, PTL DEF Spec

-----------------------------------------------------------------------------
(* The log of the abstract run.                                            *)

AnyEntry == [type : EventType \cup {"running", "content"}, status : Status \cup {"none"}]

\* How the events are read: one entry for each, of the kind its type says.
LEMMA EntriesRead ==
  /\ \A e \in Event :
       /\ AsEntry(e) \in AnyEntry
       /\ e.type \in {"messages", "custom"} => AsEntry(e) = Stream!Plain("content")
       /\ AsEntry(e).type = "end" <=> e.type = "end"
       /\ AsEntry(e).type = "interaction" <=> e.type = "interaction"
       /\ AsEntry(e).type = "running" <=> e.type = "status"
  /\ AsEntry(RunningEvent) = Stream!Plain("running")
  /\ AsEntry(Plain("interaction")) = Stream!Plain("interaction")
  /\ \A s \in Status : AsEntry(EndEvent(s)) = Stream!End(s)
BY DEF AsEntry, AnyEntry, Event, EventType, RunningEvent, EndEvent, Plain, Stream!Plain,
       Stream!End

\* An event that is appended is an entry that is appended.
LEMMA LogGrows ==
  ASSUME DataTyped, NEW e \in Event, events' = Append(events, e)
  PROVE  StreamLog' = Append(StreamLog, AsEntry(e))
<1>1. events \in Seq(Event)
  BY DEF DataTyped
<1>2. /\ Len(events) \in Nat
      /\ Len(events') = Len(events) + 1
      /\ \A i \in 1..Len(events) : events'[i] = events[i] /\ events[i] \in Event
      /\ events'[Len(events) + 1] = e
  BY <1>1, Appended
<1>3. /\ StreamLog \in Seq(AnyEntry)
      /\ Len(StreamLog) = Len(events)
      /\ \A i \in 1..Len(events) : StreamLog[i] = AsEntry(events[i])
  BY <1>1, <1>2, EntriesRead DEF StreamLog
<1>4. /\ StreamLog' \in Seq(AnyEntry)
      /\ Len(StreamLog') = Len(events) + 1
      /\ \A i \in 1..(Len(events) + 1) : StreamLog'[i] = AsEntry(events'[i])
  BY <1>1, <1>2, EntriesRead, Appended DEF StreamLog
<1>5. /\ Append(StreamLog, AsEntry(e)) \in Seq(AnyEntry)
      /\ Len(Append(StreamLog, AsEntry(e))) = Len(events) + 1
      /\ \A i \in 1..Len(events) : Append(StreamLog, AsEntry(e))[i] = StreamLog[i]
      /\ Append(StreamLog, AsEntry(e))[Len(events) + 1] = AsEntry(e)
  BY <1>3, EntriesRead, AppendProperties
<1>6. ASSUME NEW i \in 1..(Len(events) + 1)
      PROVE  StreamLog'[i] = Append(StreamLog, AsEntry(e))[i]
  <2>1. CASE i = Len(events) + 1
    BY <1>2, <1>4, <1>5, <2>1
  <2>2. CASE i \in 1..Len(events)
    BY <1>2, <1>3, <1>4, <1>5, <2>2
  <2>3. Len(events) \in Nat => i = Len(events) + 1 \/ i \in 1..Len(events)
    OBVIOUS
  <2> QED
    BY <1>2, <2>1, <2>2, <2>3
<1> QED
  BY <1>4, <1>5, <1>6, SeqEqual

\* What is logged is what the event stream holds.
LEMMA LogRead ==
  ASSUME DataTyped
  PROVE  /\ Len(StreamLog) = Len(events)
         /\ \A i \in 1..Len(events) : StreamLog[i] = AsEntry(events[i]) /\ events[i] \in Event
         /\ Stream!Logged("end") <=> ~NoEnd
         /\ Stream!Logged("interaction") <=> HasQuestion
         /\ StreamBeginsWithRunning /\ Len(events) > 0 => Stream!Logged("running")
<1>1. events \in Seq(Event) /\ Len(events) \in Nat
  BY DEF DataTyped
<1>2. /\ Len(StreamLog) = Len(events)
      /\ \A i \in 1..Len(events) : StreamLog[i] = AsEntry(events[i]) /\ events[i] \in Event
  BY <1>1 DEF StreamLog
<1>3. Stream!Logged("end") <=> ~NoEnd
  BY <1>1, <1>2, EntriesRead DEF Stream!Logged, NoEnd
<1>4. Stream!Logged("interaction") <=> HasQuestion
  BY <1>1, <1>2, EntriesRead DEF Stream!Logged, HasQuestion
<1>5. ASSUME StreamBeginsWithRunning, Len(events) > 0 PROVE Stream!Logged("running")
  <2>1. 1 \in 1..Len(events) /\ events[1].type = "status"
    BY <1>1, <1>5 DEF StreamBeginsWithRunning, RunningEvent
  <2> QED
    BY <1>2, <2>1, EntriesRead DEF Stream!Logged
<1> QED
  BY <1>2, <1>3, <1>4, <1>5

-----------------------------------------------------------------------------
(* The steps.                                                              *)

\* No step writes both PostgreSQL and the event stream.
LEMMA OneStoreAtATime ==
  ASSUME [Next]_vars
  PROVE  UNCHANGED row \/ UNCHANGED events
<1>1. CASE WorkerStep
  BY <1>1, Zenon DEF WorkerStep, LoadRun, Prepare, SetRunRunning, PreCancel, PreClear,
    Announce, WakeCancelled, TakeItem, Flush, CheckKey, CheckRow, Dispatch, DispatchTerminal,
    DispatchCustom, DispatchInvalid, PublishInteraction, PublishEnd, ClearSignal,
    RepublishEnd, Drain, ReleaseCancelled, FinalizeCancelled, FinalizeFailed, CloseController
<1>2. CASE EnvironmentStep
  BY <1>2, Zenon DEF EnvironmentStep, StartJob, AbortJob, CrashWorker, ListenerStep,
    ListenerDrop, notListener, AskCancel, Signal, SetKey, Publish
<1>3. CASE StreamStep \/ UNCHANGED vars
  BY <1>3, Zenon DEF StreamStep, vars
<1> QED
  BY <1>1, <1>2, <1>3 DEF Next

LEMMA RowImplements ==
  ASSUME DataTyped, [Next]_vars, UNCHANGED events
  PROVE  [Stream!StreamNext]_<<row.status, StreamLog>>
<1>1. UNCHANGED StreamLog
  BY DEF StreamLog
<1>2. row \in Row
  BY DEF DataTyped
<1> USE DEF Stream!StreamNext
<1>3. CASE row' = row
  BY <1>1, <1>3
<1>4. CASE row' = SetRunning(row)
  <2>1. \/ row.status \in {"pending", "running"} /\ row'.status = "running"
        \/ row' = row
    BY <1>2, <1>4 DEF SetRunning, Row, Status, Active, Terminal
  <2> QED
    BY <1>1, <2>1 DEF Stream!Begin
<1>5. CASE row' = RequestCancel(row)
  <2>1. \/ row.status \notin Terminal /\ row'.status = "cancel_requested"
        \/ row' = row
    BY <1>2, <1>5, RowWriters
  <2> QED
    BY <1>1, <2>1 DEF Stream!AskToStop, Stream!Terminal, Terminal
<1>6. ASSUME NEW s \in Terminal, NEW e \in Text, row' = SetAgentTerminal(row, s, e)
      PROVE  [Stream!StreamNext]_<<row.status, StreamLog>>
  <2>0. /\ SetAgentTerminal(row, s, e).status \in Terminal
        /\ row.status \in Terminal => SetAgentTerminal(row, s, e) = row
    BY <1>2, RowWriters
  <2>1. \/ row.status \notin Terminal /\ row'.status \in Terminal
        \/ row' = row
    BY <1>6, <2>0
  <2> QED
    BY <1>1, <2>1 DEF Stream!Decide, Stream!Terminal, Terminal
<1> QED
  BY <1>3, <1>4, <1>5, <1>6, RowSteps

LEMMA EventImplements ==
  ASSUME DataTyped, Control, Log, Ending, [Next]_vars, UNCHANGED row
  PROVE  [Stream!StreamNext]_<<row.status, StreamLog>>
<1> USE DEF Stream!StreamNext, Stream!Write
<1>1. UNCHANGED row.status
  OBVIOUS
<1>2. CASE UNCHANGED events
  BY <1>1, <1>2 DEF StreamLog
<1>3. UnderWay => Stream!Logged("running")
  BY LogRead DEF UnderWay, Log, Begun
<1>4. CASE row.status \notin Terminal /\ events' = Append(events, RunningEvent)
  <2>1. StreamLog' = Append(StreamLog, Stream!Plain("running"))
    BY <1>4, LogGrows, EventsTyped, EntriesRead
  <2> QED
    BY <1>1, <1>4, <2>1 DEF Stream!WriteRunning, Stream!Terminal, Terminal
<1>5. ASSUME row.status \notin Terminal, UnderWay, NEW e \in Event,
             e.type \in {"messages", "custom"}, events' = Append(events, e)
      PROVE  Stream!WriteContent
  <2>1. StreamLog' = Append(StreamLog, Stream!Plain("content"))
    BY <1>5, LogGrows, EntriesRead
  <2> QED
    BY <1>1, <1>3, <1>5, <2>1 DEF Stream!WriteContent, Stream!Terminal, Terminal
<1>6. CASE pc = "interacting" /\ events' = Append(events, Plain("interaction"))
  <2>1. StreamLog' = Append(StreamLog, Stream!Plain("interaction"))
    BY <1>6, LogGrows, InteractionTyped, EntriesRead
  <2>2. row.status = "interrupted" /\ ~Stream!Logged("end")
    BY <1>6, LogRead DEF Control, FinKnowsRow, Finalizing, Ending, QuestionAsked, EndPending
  <2> QED
    BY <1>1, <1>3, <1>6, <2>1, <2>2 DEF Stream!WriteInteraction, UnderWay, Finalizing
<1>7. CASE pc \in {"publishing", "republishing"} /\ events' = Append(events, EndEvent(fin.got))
  <2>1. row.status \in Terminal /\ fin.got = row.status /\ UnderWay
    BY <1>7 DEF Control, FinKnowsRow, Finalizing, UnderWay
  <2>2. StreamLog' = Append(StreamLog, Stream!End(row.status))
    BY <1>7, <2>1, LogGrows, EventsTyped, FinTyped, EntriesRead
  <2>3. OneEnd /\ (row.status = "interrupted" => HasQuestion)
    BY <1>7, <2>1 DEF Ending, EndPending, QuestionAsked, EndRepeated, NoEnd, OneEnd
  <2>4. \A i, j \in 1..Len(StreamLog) :
          StreamLog[i].type = "end" /\ StreamLog[j].type = "end" => i = j
    BY <2>3, LogRead, EntriesRead DEF OneEnd
  <2>5. row.status = "interrupted" => Stream!Logged("interaction")
    BY <2>3, LogRead
  <2> QED
    BY <1>1, <1>3, <2>1, <2>2, <2>4, <2>5 DEF Stream!WriteEnd, Stream!Terminal, Terminal
<1> QED
  BY <1>2, <1>4, <1>5, <1>6, <1>7, EventSteps DEF Wrote, UnderWay

LEMMA StepImplements ==
  TypeOK /\ Control /\ Log /\ Ending /\ [Next]_vars
    => [Stream!StreamNext]_<<row.status, StreamLog>>
BY OneStoreAtATime, RowImplements, EventImplements DEF TypeOK

LEMMA InitImplements == Init => Stream!StreamInit
BY DEF Init, CreatedRow, Stream!StreamInit, StreamLog

\* The worker keeps the promises the readers of a run are checked against.
THEOREM WorkerImplementsStream == Spec => ImplementsStream
<1> QED
  BY StepImplements, InitImplements, TypeCorrect, ControlAlways, LogAlways, EndingAlways, PTL
     DEF Spec, ImplementsStream, Stream!StreamSpec, Stream!streamVars
=============================================================================
