----------------------------- MODULE RunRequests -----------------------------
(***************************************************************************)
(* The calls that bring agent runs into being and stop them, on the        *)
(* agent_run table they share: POST /runs, POST /runs/{id}/resume and      *)
(* POST /runs/{id}/cancel, the subagents a running run starts, and the     *)
(* worker as far as the rows show it (RunWorker is about its inside).      *)
(*                                                                         *)
(* A call is a transaction in steps: it reads what is committed, holds the *)
(* rows it took FOR UPDATE until it commits, and may lose its process      *)
(* between any two steps.  One user and one thread; the subagents have     *)
(* threads of their own.                                                   *)
(***************************************************************************)
EXTENDS AgentRunRepository, Naturals, FiniteSets

CONSTANTS
  Asks,        \* calls that create a chat run
  Answers,     \* calls that resume an interrupted run
  Stops,       \* calls that cancel a run
  Requests,    \* request ids the callers use
  MaxChildren, \* bound on the subagents that are started
  Faults,      \* the faults that may occur, a subset of FaultKinds
  MaxFaults    \* bound on their number

FaultKinds ==
  {"queue",    \* enqueueing the job fails, or only seems to
   "signal",   \* publishing a cancel signal fails
   "crash",    \* the API process dies
   "startup"}  \* a worker starts and ensures the tables

ASSUME RequestsAssumption ==
  /\ MaxChildren \in Nat
  /\ Faults \subseteq FaultKinds
  /\ MaxFaults \in Nat
  /\ IsFiniteSet(Asks) /\ IsFiniteSet(Answers)
  /\ Asks \cap Answers = {} /\ Asks \cap Stops = {} /\ Answers \cap Stops = {}
  /\ "none" \notin Requests

VARIABLES
  runs,        \* the agent_run table, as committed
  job,         \* the ARQ job of each run
  call,        \* the calls
  held,        \* the rows each call has locked
  faults       \* faults so far

vars == <<runs, job, call, held, faults>>

Calls == Asks \cup Answers \cup Stops

\* A row for whatever may be inserted.
MaxRuns == Cardinality(Asks) + Cardinality(Answers) + MaxChildren

Runs == 1..MaxRuns

\* `input` is the trigger message, which a resume run has none of.
AgentRun ==
  [type : {"none", "chat", "resume", "subagent"}, parent : 0..MaxRuns,
   request : Requests \cup {"none"}, input : BOOLEAN, status : Status, error : Text]

NoRow == [type |-> "none", parent |-> 0, request |-> "none", input |-> FALSE,
          status |-> "pending", error |-> "absent"]

JobState == {"none",    \* not enqueued
             "lost",    \* a subagent's enqueue failed
             "queued", "running", "finished"}

Stage == {"idle", "checked", "locked", "inserting", "enqueueing", "failing",
          "marking", "signalling", "done", "refused", "crashed"}

Over == {"done", "refused", "crashed"}

\* `run` is the run the call names and `got` the one it is answered with;
\* a cancel call has `listed` the children and waits for the lock on `want`.
Call == [at : Stage, run : 0..MaxRuns, request : Requests \cup {"none"},
         got : 0..MaxRuns, listed : SUBSET Runs, want : 0..MaxRuns]

NewCall == [at |-> "idle", run |-> 0, request |-> "none", got |-> 0,
            listed |-> {}, want |-> 0]

TypeOK ==
  /\ runs \in [Runs -> AgentRun]
  /\ job \in [Runs -> JobState]
  /\ call \in [Calls -> Call]
  /\ held \in [Calls -> SUBSET Runs]
  /\ faults \in 0..MaxFaults

Init ==
  /\ runs = [r \in Runs |-> NoRow]
  /\ job = [r \in Runs |-> "none"]
  /\ call = [c \in Calls |-> NewCall]
  /\ held = [c \in Calls |-> {}]
  /\ faults = 0

Fault(f) ==
  /\ f \in Faults
  /\ faults < MaxFaults
  /\ faults' = faults + 1

-----------------------------------------------------------------------------
(* The table.                                                              *)

Exists(r) == runs[r].type # "none"

Locked(r) == \E c \in Calls : r \in held[c]

\* get_resume_child.
ResumeChild(p) == {r \in Runs : runs[r].type = "resume" /\ runs[r].parent = p}

\* get_pending_interaction_run, which looks at the one thread.
PendingInteraction ==
  {r \in Runs : /\ runs[r].type \in {"chat", "resume"}
                /\ runs[r].status = "interrupted"
                /\ ResumeChild(r) = {}}

\* list_active_child_runs.
ActiveChildren(p) ==
  {r \in Runs : /\ runs[r].type = "subagent"
                /\ runs[r].parent = p
                /\ runs[r].status \notin Terminal}

\* The UNIQUE constraint on request_id.
Taken(request) == \E r \in Runs : runs[r].request = request

\* create_run: the next row.
Create(r, type, parent, request) ==
  /\ ~Exists(r)
  /\ \A s \in Runs : s < r => Exists(s)
  /\ runs' = [runs EXCEPT ![r] =
       [type |-> type, parent |-> parent, request |-> request,
        input |-> type # "resume", status |-> CreatedRow.status,
        error |-> CreatedRow.error]]

Goto(c, stage) == call' = [call EXCEPT ![c].at = stage]

Release(c) == held' = [held EXCEPT ![c] = {}]

\* The call fails, its transaction is rolled back and its session closed.
Refuse(c) == Goto(c, "refused") /\ Release(c) /\ UNCHANGED runs

-----------------------------------------------------------------------------
(* create_agent_run_service.                                               *)

\* No message is accepted while a question waits for its answer.
CheckQuestion(c) ==
  /\ call[c].at = "idle"
  /\ \/ PendingInteraction # {} /\ Goto(c, "refused")
     \/ /\ PendingInteraction = {}
        /\ \E q \in Requests :
             call' = [call EXCEPT ![c].at = "checked", ![c].request = q]
  /\ UNCHANGED <<runs, job, held, faults>>

\* The message, its links and the run are committed together.
InsertChat(c) ==
  /\ call[c].at = "checked"
  /\ \/ Taken(call[c].request) /\ Refuse(c)
     \/ /\ ~Taken(call[c].request)
        /\ \E r \in Runs :
             /\ Create(r, "chat", 0, call[c].request)
             /\ call' = [call EXCEPT ![c].at = "enqueueing", ![c].got = r]
        /\ UNCHANGED held
  /\ UNCHANGED <<job, faults>>

-----------------------------------------------------------------------------
(* create_resume_agent_run_service.                                        *)

\* Plausible slips: the row is read without FOR UPDATE; its status is not
\* looked at again; a refused call keeps its transaction open.
LockParentUnlocked(c) ==
  /\ call[c].at = "idle"
  /\ \E p \in Runs, q \in Requests :
       /\ Exists(p) /\ ~Locked(p)
       /\ IF runs[p].status = "interrupted"
          THEN call' = [call EXCEPT ![c].at = "locked", ![c].run = p, ![c].request = q]
          ELSE Goto(c, "refused")
  /\ UNCHANGED <<runs, job, held, faults>>

LockParentUnchecked(c) ==
  /\ call[c].at = "idle"
  /\ \E p \in Runs, q \in Requests :
       /\ Exists(p) /\ ~Locked(p)
       /\ call' = [call EXCEPT ![c].at = "locked", ![c].run = p, ![c].request = q]
       /\ held' = [held EXCEPT ![c] = {p}]
  /\ UNCHANGED <<runs, job, faults>>

LockParentLeaking(c) ==
  /\ call[c].at = "idle"
  /\ \E p \in Runs, q \in Requests :
       /\ Exists(p) /\ ~Locked(p)
       /\ call' = [call EXCEPT ![c].at = IF runs[p].status = "interrupted"
                                         THEN "locked" ELSE "refused",
                               ![c].run = p, ![c].request = q]
       /\ held' = [held EXCEPT ![c] = {p}]
  /\ UNCHANGED <<runs, job, faults>>

\* get_for_resume_for_update: only an interrupted run can be resumed.  Whether
\* the answer is one of the options is left out.
LockParent(c) ==
  /\ call[c].at = "idle"
  /\ \E p \in Runs, q \in Requests :
       /\ Exists(p) /\ ~Locked(p)
       /\ \/ runs[p].status # "interrupted" /\ Refuse(c)
          \/ /\ runs[p].status = "interrupted"
             /\ call' = [call EXCEPT ![c].at = "locked", ![c].run = p, ![c].request = q]
             /\ held' = [held EXCEPT ![c] = {p}]
             /\ UNCHANGED runs
  /\ UNCHANGED <<job, faults>>

\* Plausible slip: whoever answered, the answer is there.
LookForChildAnyRequest(c) ==
  /\ call[c].at = "locked"
  /\ IF ResumeChild(call[c].run) = {}
     THEN Goto(c, "inserting") /\ UNCHANGED held
     ELSE /\ \E r \in ResumeChild(call[c].run) :
               call' = [call EXCEPT ![c].at = "done", ![c].got = r]
          /\ Release(c)
  /\ UNCHANGED <<runs, job, faults>>

\* A repeated request gets the run it made, a different one is refused; so is
\* either one if there are several (MultipleResultsFound).
LookForChild(c) ==
  LET children == ResumeChild(call[c].run) IN
  /\ call[c].at = "locked"
  /\ \/ children = {} /\ Goto(c, "inserting") /\ UNCHANGED <<runs, held>>
     \/ \E r \in children :
          /\ children = {r}
          /\ runs[r].request = call[c].request
          /\ call' = [call EXCEPT ![c].at = "done", ![c].got = r]
          /\ Release(c)
          /\ UNCHANGED runs
     \/ /\ \E r \in children : children # {r} \/ runs[r].request # call[c].request
        /\ Refuse(c)
  /\ UNCHANGED <<job, faults>>

InsertResume(c) ==
  /\ call[c].at = "inserting"
  /\ \/ Taken(call[c].request) /\ Refuse(c)
     \/ /\ ~Taken(call[c].request)
        /\ \E r \in Runs :
             /\ Create(r, "resume", call[c].run, call[c].request)
             /\ call' = [call EXCEPT ![c].at = "enqueueing", ![c].got = r]
        /\ Release(c)
  /\ UNCHANGED <<job, faults>>

-----------------------------------------------------------------------------
(* Enqueueing, after the commit.                                           *)

\* Plausible slip: a failure is only logged.
EnqueueOrLog(c) ==
  /\ call[c].at = "enqueueing"
  /\ Goto(c, "done")
  /\ \/ job' = [job EXCEPT ![call[c].got] = "queued"] /\ UNCHANGED faults
     \/ Fault("queue") /\ UNCHANGED job
  /\ UNCHANGED <<runs, held>>

\* A command that failed may have reached Redis.
Enqueue(c) ==
  /\ call[c].at = "enqueueing"
  /\ \/ /\ job' = [job EXCEPT ![call[c].got] = "queued"]
        /\ Goto(c, "done")
        /\ UNCHANGED faults
     \/ /\ Fault("queue")
        /\ job' \in {job, [job EXCEPT ![call[c].got] = "queued"]}
        /\ Goto(c, "failing")
  /\ UNCHANGED <<runs, held>>

\* The run is made to fail, unless it has ended by itself.  A chat call then
\* returns set_agent_terminal's pair in place of the run, which the router
\* cannot serialise: its response is an error.
MarkFailed(c) ==
  /\ call[c].at = "failing"
  /\ ~Locked(call[c].got)
  /\ runs' = [runs EXCEPT ![call[c].got] = SetAgentTerminal(@, "failed", "present")]
  /\ Goto(c, IF c \in Asks THEN "refused" ELSE "done")
  /\ UNCHANGED <<job, held, faults>>

-----------------------------------------------------------------------------
(* request_cancel_agent_run.                                               *)

\* The rows are locked one by one, the children in whatever order they were
\* listed, the run last.
ToLock(c, left) ==
  IF left = {} THEN {call[c].run} ELSE left

ListChildren(c) ==
  /\ call[c].at = "idle"
  /\ \E r \in Runs :
       /\ Exists(r)
       /\ \E k \in (IF ActiveChildren(r) = {} THEN {r} ELSE ActiveChildren(r)) :
            call' = [call EXCEPT ![c].at = "marking", ![c].run = r,
                                 ![c].listed = ActiveChildren(r), ![c].want = k]
  /\ UNCHANGED <<runs, job, held, faults>>

\* Plausible slip: SELECT ... FOR UPDATE SKIP LOCKED.
LockNextSkipping(c) ==
  LET w == call[c].want IN
  /\ call[c].at = "marking"
  /\ w # 0
  /\ held' = IF Locked(w) THEN held ELSE [held EXCEPT ![c] = @ \cup {w}]
  /\ IF w = call[c].run
     THEN call' = [call EXCEPT ![c].want = 0]
     ELSE \E k \in {s \in Runs : s = call[c].run \/ (s \in call[c].listed /\ s > w)} :
            call' = [call EXCEPT ![c].want = k]
  /\ UNCHANGED <<runs, job, faults>>

\* request_cancel of one row: locked now, written with the commit.
LockNext(c) ==
  LET w == call[c].want IN
  /\ call[c].at = "marking"
  /\ w # 0 /\ ~Locked(w)
  /\ held' = [held EXCEPT ![c] = @ \cup {w}]
  /\ \E k \in (IF w = call[c].run THEN {0}
               ELSE ToLock(c, call[c].listed \ (held[c] \cup {w}))) :
       call' = [call EXCEPT ![c].want = k]
  /\ UNCHANGED <<runs, job, faults>>

CommitCancel(c) ==
  /\ call[c].at = "marking"
  /\ call[c].want = 0
  /\ runs' = [r \in Runs |-> IF r \in held[c] THEN RequestCancel(runs[r]) ELSE runs[r]]
  /\ Goto(c, "signalling")
  /\ Release(c)
  /\ UNCHANGED <<job, faults>>

PublishSignals(c) ==
  /\ call[c].at = "signalling"
  /\ \/ Goto(c, "done") /\ UNCHANGED faults
     \/ Goto(c, "refused") /\ Fault("signal")
  /\ UNCHANGED <<runs, job, held>>

\* PostgreSQL finds calls that wait for each other and fails one of them.
DeadlockDetected(c) ==
  /\ \E D \in SUBSET Stops :
       /\ c \in D
       /\ \A d \in D : /\ call[d].at = "marking"
                       /\ \E e \in D : call[d].want \in held[e]
  /\ Refuse(c)
  /\ UNCHANGED <<job, faults>>

-----------------------------------------------------------------------------
(* The worker, and the process of a call.                                  *)

\* process_agent_run up to its agent stream.  A run that is not a resume and
\* has no input message fails.
StartJob(r) ==
  /\ job[r] = "queued"
  /\ ~Locked(r)
  /\ LET next == IF runs[r].type # "resume" /\ ~runs[r].input
                 THEN SetAgentTerminal(runs[r], "failed", "present")
                 ELSE IF runs[r].status = "cancel_requested"
                 THEN SetAgentTerminal(runs[r], "cancelled", "absent")
                 ELSE SetRunning(runs[r])
     IN /\ runs' = [runs EXCEPT ![r] = next]
        /\ job' = [job EXCEPT ![r] = IF next.status = "running" THEN "running"
                                     ELSE "finished"]
  /\ UNCHANGED <<call, held, faults>>

\* _finalize_run.
FinishJob(r) ==
  /\ job[r] = "running"
  /\ ~Locked(r)
  /\ \E s \in Terminal : runs' = [runs EXCEPT ![r] = SetAgentTerminal(@, s, "absent")]
  /\ job' = [job EXCEPT ![r] = "finished"]
  /\ UNCHANGED <<call, held, faults>>

\* SubAgentRunService._persist_record: nobody looks at the parent's status.
Spawn(r) ==
  /\ job[r] = "running"
  /\ Cardinality({k \in Runs : runs[k].type = "subagent"}) < MaxChildren
  /\ \E k \in Runs : Create(k, "subagent", r, "none")
  /\ UNCHANGED <<job, call, held, faults>>

\* create_subagent_record enqueues after its commit, and leaves the row as it
\* is when that fails.
EnqueueChild(r) ==
  /\ runs[r].type = "subagent"
  /\ job[r] = "none"
  /\ \/ job' = [job EXCEPT ![r] = "queued"] /\ UNCHANGED faults
     \/ Fault("queue") /\ job' \in {[job EXCEPT ![r] = j] : j \in {"lost", "queued"}}
  /\ UNCHANGED <<runs, call, held>>

\* ensure_tables_exist: the type of a run is computed anew from the role of its
\* agent, which knows chat and subagent only.
EnsureTables ==
  /\ Fault("startup")
  /\ \A r \in Runs : runs[r].type = "resume" => ~Locked(r)
  /\ runs' = [r \in Runs |-> IF runs[r].type = "resume"
                             THEN [runs[r] EXCEPT !.type = "chat"]
                             ELSE runs[r]]
  /\ UNCHANGED <<job, call, held>>

CrashCall(c) ==
  /\ call[c].at \notin Over \cup {"idle"}
  /\ Fault("crash")
  /\ Goto(c, "crashed")
  /\ Release(c)
  /\ UNCHANGED <<runs, job>>

-----------------------------------------------------------------------------

\* A call comes in.
Arrive ==
  \/ \E c \in Asks : CheckQuestion(c)
  \/ \E c \in Answers : LockParent(c)
  \/ \E c \in Stops : ListChildren(c)

\* A call goes on.
Proceed(c) ==
  \/ c \in Asks /\ InsertChat(c)
  \/ c \in Answers /\ (LookForChild(c) \/ InsertResume(c))
  \/ c \in Asks \cup Answers /\ (Enqueue(c) \/ MarkFailed(c))
  \/ c \in Stops /\ (LockNext(c) \/ CommitCancel(c) \/ PublishSignals(c)
                       \/ DeadlockDetected(c))

WorkerStep(r) == StartJob(r) \/ FinishJob(r) \/ Spawn(r) \/ EnqueueChild(r)

Next ==
  \/ Arrive
  \/ \E c \in Calls : Proceed(c) \/ CrashCall(c)
  \/ \E r \in Runs : WorkerStep(r)
  \/ EnsureTables

\* A request that was accepted is carried on, and PostgreSQL detects deadlocks.
Fairness == \A c \in Calls : WF_vars(Proceed(c))

Spec == Init /\ [][Next]_vars /\ Fairness

-----------------------------------------------------------------------------
(* Properties.                                                             *)

\* A question is answered once: whatever is repeated, delayed or interleaved,
\* an interrupted run is resumed by one run at the most.
OneAnswer ==
  \A r, s \in Runs :
    /\ runs[r].type # "subagent" /\ runs[s].type # "subagent"
    /\ runs[r].parent # 0 /\ runs[r].parent = runs[s].parent
    => r = s

\* A call that succeeds is answered with the one run that bears its request.
RequestGetsItsRun ==
  \A c \in Asks \cup Answers : call[c].at = "done" =>
    \A r \in Runs : runs[r].request = call[c].request <=> r = call[c].got

\* A resume run continues a run that was, and stays, interrupted, although
\* cancellations and failed enqueues may name that run too.
ParentStaysInterrupted ==
  \A r \in Runs : runs[r].type = "resume" => runs[runs[r].parent].status = "interrupted"

\* A cancel call that has committed has reached the run and every child that
\* was active when it looked, however many others cancelled at the same time.
StopCovers ==
  \A c \in Stops : call[c].at \in {"signalling", "done"} =>
    \A r \in call[c].listed \cup {call[c].run} :
      runs[r].status \in Terminal \cup {"cancel_requested"}

\* No call waits for ever: not for a lock, not for one that waits for it.
CallsEnd ==
  \A c \in Calls : (call[c].at # "idle") ~> (call[c].at \in Over)

\* A run that was committed is handed to the worker or made to fail, unless
\* the process died in between.
CommittedIsServed ==
  \A c \in Asks \cup Answers :
    (call[c].at = "enqueueing") ~>
      \/ call[c].at = "crashed"
      \/ \E r \in Runs : /\ r = call[c].got
                         /\ job[r] # "none" \/ runs[r].status \in Terminal
=============================================================================
