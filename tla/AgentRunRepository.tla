------------------------- MODULE AgentRunRepository -------------------------
(***************************************************************************)
(* The agent_run table as AgentRunRepository writes it.  A row is cut down *)
(* to the two columns the life of a run depends on (RunRequests adds the   *)
(* columns by which runs are found):                                       *)
(*   status   agent_status                                                 *)
(*   error    whether the error column holds a text                        *)
(* Each writer takes the row FOR UPDATE (_lock_update) and commits with    *)
(* its session, so each is one atomic step and is written here as a        *)
(* function from the row that was locked to the row that is committed.     *)
(***************************************************************************)

\* AGENT_RUN_TERMINAL_STATUSES.
Terminal == {"completed", "failed", "cancelled", "interrupted"}

Active == {"pending", "running", "cancel_requested"}

Status == Active \cup Terminal

\* Whether a nullable text column, or a chunk's field, has a text.
Text == {"absent", "present"}

Row == [status : Status, error : Text]

\* create_run: a run is born pending, with no error.
CreatedRow == [status |-> "pending", error |-> "absent"]

-----------------------------------------------------------------------------
(* Plausible slips in the writers, for the mutation runs. *)

SetRunningOverCancel(r) ==
  IF r.status \in Terminal THEN r
  ELSE [r EXCEPT !.status = "running", !.error = "absent"]

SetAgentTerminalUnguarded(r, status, error) ==
  [r EXCEPT !.status = status, !.error = error]

RequestCancelMisspelled(r) ==
  IF r.status \in Terminal THEN r ELSE [r EXCEPT !.status = "cancelling"]

-----------------------------------------------------------------------------

\* set_running: a stopped run and a run with a pending cancellation are left
\* alone; any other run starts (again) with a clean error column.
SetRunning(r) ==
  IF r.status \in Terminal \cup {"cancel_requested"}
  THEN r
  ELSE [r EXCEPT !.status = "running", !.error = "absent"]

\* set_agent_terminal: the first writer wins, later ones read what it wrote.
SetAgentTerminal(r, status, error) ==
  IF r.status \in Terminal
  THEN r
  ELSE [r EXCEPT !.status = status, !.error = error]

\* The second component of set_agent_terminal's result.
TerminalChanged(r) == r.status \notin Terminal

\* request_cancel.
RequestCancel(r) ==
  IF r.status \in Terminal
  THEN r
  ELSE [r EXCEPT !.status = "cancel_requested"]
=============================================================================
