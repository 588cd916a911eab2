----------------------------- MODULE RunStream ------------------------------
(***************************************************************************)
(* What the worker promises to the readers of one agent run: the status in *)
(* the run's row and the entries of run:events:{run_id}, in the order in    *)
(* which they are written.  RunWorker implements this module; the readers  *)
(* of a run (RunEventReader, RunMonitor) are checked against it instead of *)
(* against the worker with its queue, its signals and its faults.          *)
(***************************************************************************)
EXTENDS AgentRunRepository, Naturals, Sequences

VARIABLES
  status,      \* agent_status of the run's row
  log          \* the entries of the run's event stream

streamVars == <<status, log>>

\* `running` is the status event; messages and custom events are `content`.
EntryType == {"running", "content", "interaction", "end"}

Entry == [type : EntryType, status : Terminal \cup {"none"}]

Plain(type)   == [type |-> type, status |-> "none"]
End(decision) == [type |-> "end", status |-> decision]

Logged(type) == \E i \in 1..Len(log) : log[i].type = type

StreamTypeOK ==
  /\ status \in Status
  /\ log \in Seq(Entry)

StreamInit ==
  /\ status = "pending"
  /\ log = <<>>

-----------------------------------------------------------------------------
(* The row.                                                                *)

\* An attempt begins; a retried job begins again from running.
Begin ==
  /\ status \in {"pending", "running"}
  /\ status' = "running"
  /\ UNCHANGED log

\* The user asks the run to stop.
AskToStop ==
  /\ status \notin Terminal
  /\ status' = "cancel_requested"
  /\ UNCHANGED log

\* The run is decided, once.
Decide ==
  /\ status \notin Terminal
  /\ status' \in Terminal
  /\ UNCHANGED log

-----------------------------------------------------------------------------
(* The stream.                                                             *)

Write(e) ==
  /\ log' = Append(log, e)
  /\ UNCHANGED status

\* The running event opens the stream, once per attempt.
WriteRunning == status \notin Terminal /\ Write(Plain("running"))

\* Content belongs to a run that was announced and is not decided.
WriteContent ==
  /\ status \notin Terminal
  /\ Logged("running")
  /\ Write(Plain("content"))

\* The question of an interrupted run is asked before its end is announced.
WriteInteraction ==
  /\ status = "interrupted"
  /\ Logged("running")
  /\ ~Logged("end")
  /\ Write(Plain("interaction"))

\* The end repeats the decision of the row, and is itself written twice at
\* the most.
WriteEnd ==
  /\ status \in Terminal
  /\ \A i, j \in 1..Len(log) : log[i].type = "end" /\ log[j].type = "end" => i = j
  /\ Logged("running")
  /\ status = "interrupted" => Logged("interaction")
  /\ Write(End(status))

-----------------------------------------------------------------------------

StreamNext ==
  \/ Begin \/ AskToStop \/ Decide
  \/ WriteRunning \/ WriteContent \/ WriteInteraction \/ WriteEnd

StreamSpec == StreamInit /\ [][StreamNext]_streamVars
=============================================================================
