-------------------------- MODULE RunRequestsProofs --------------------------
(***************************************************************************)
(* The safety of RunRequests, for every number of rows, calls and faults:   *)
(* its types first, then what a step does to the table, the calls and the  *)
(* locks, and the invariants that follow from that.                        *)
(***************************************************************************)
EXTENDS RunRequests, FiniteSetTheorems, TLAPS

\* There is a finite number of rows.
LEMMA RowsFinite == MaxRuns \in Nat
BY FS_CardinalityType, RequestsAssumption DEF MaxRuns

LEMMA RunsBounded == 0 \in 0..MaxRuns /\ \A r \in Runs : r \in 0..MaxRuns /\ r # 0
BY RowsFinite DEF Runs

\* The row writers keep a row a row.
LEMMA RowWriters ==
  ASSUME NEW r \in AgentRun
  PROVE  /\ SetRunning(r) \in AgentRun
         /\ RequestCancel(r) \in AgentRun
         /\ \A s \in Terminal, e \in Text : SetAgentTerminal(r, s, e) \in AgentRun
BY ZenonT(40) DEF AgentRun, SetRunning, RequestCancel, SetAgentTerminal, Status, Active, Terminal, Text

\* A call is a record of its fields, and stays a call if one of them changes.
LEMMA CallFields ==
  ASSUME NEW k \in Call
  PROVE  /\ \A s \in Stage : [k EXCEPT !.at = s] \in Call
         /\ \A s \in Stage, r \in 0..MaxRuns : [k EXCEPT !.at = s, !.got = r] \in Call
         /\ \A s \in Stage, q \in Requests : [k EXCEPT !.at = s, !.request = q] \in Call
         /\ \A s \in Stage, r \in 0..MaxRuns, q \in Requests :
              [k EXCEPT !.at = s, !.run = r, !.request = q] \in Call
         /\ \A s \in Stage, r \in 0..MaxRuns, L \in SUBSET Runs, w \in 0..MaxRuns :
              [k EXCEPT !.at = s, !.run = r, !.listed = L, !.want = w] \in Call
         /\ \A w \in 0..MaxRuns : [k EXCEPT !.want = w] \in Call
BY DEF Call

LEMMA GotoTyped ==
  ASSUME TypeOK, NEW c \in Calls, NEW stage \in Stage, Goto(c, stage)
  PROVE  call' \in [Calls -> Call]
<1>1. call[c] \in Call /\ call \in [Calls -> Call]
  BY DEF TypeOK
<1>2. [call[c] EXCEPT !.at = stage] \in Call
  BY <1>1, CallFields
<1> QED
  BY <1>1, <1>2 DEF Goto

LEMMA ReleaseTyped ==
  ASSUME TypeOK, NEW c \in Calls, Release(c)
  PROVE  held' \in [Calls -> SUBSET Runs]
BY DEF TypeOK, Release

\* A new row is a row.
LEMMA CreateTyped ==
  ASSUME TypeOK, NEW r \in Runs, NEW type \in {"chat", "resume", "subagent"},
         NEW p \in 0..MaxRuns, NEW q \in Requests \cup {"none"}, Create(r, type, p, q)
  PROVE  runs' \in [Runs -> AgentRun]
BY DEF TypeOK, Create, AgentRun, CreatedRow, Status, Active, Terminal, Text

LEMMA FaultTyped ==
  ASSUME TypeOK, NEW f, Fault(f)
  PROVE  faults' \in 0..MaxFaults
BY RequestsAssumption DEF TypeOK, Fault

-----------------------------------------------------------------------------

LEMMA InitTyped == Init => TypeOK
<1> SUFFICES ASSUME Init PROVE TypeOK
    OBVIOUS
<1>1. NoRow \in AgentRun
  BY RowsFinite DEF NoRow, AgentRun, Status, Active, Terminal, Text
<1>2. NewCall \in Call
  BY RowsFinite DEF NewCall, Call, Stage
<1> QED
  BY <1>1, <1>2, RequestsAssumption DEF Init, TypeOK, JobState

\* A refused call leaves everything but itself alone.
LEMMA RefuseTyped ==
  ASSUME TypeOK, NEW c \in Calls, Refuse(c), UNCHANGED <<job, faults>>
  PROVE  TypeOK'
<1>1. call' \in [Calls -> Call]
  BY GotoTyped DEF Refuse, Stage
<1>2. held' \in [Calls -> SUBSET Runs]
  BY ReleaseTyped DEF Refuse
<1> QED
  BY <1>1, <1>2 DEF TypeOK, Refuse

LEMMA CreateCallsTyped ==
  ASSUME TypeOK, NEW c \in Asks, CheckQuestion(c) \/ InsertChat(c)
  PROVE  TypeOK'
<1>0. c \in Calls /\ call[c] \in Call /\ call[c].request \in Requests \cup {"none"}
  BY DEF Calls, TypeOK, Call
<1>1. CASE CheckQuestion(c)
  <2>1. call' \in [Calls -> Call]
    <3>1. CASE Goto(c, "refused")
      BY <1>0, <3>1, GotoTyped DEF Stage
    <3>2. CASE \E q \in Requests :
                 call' = [call EXCEPT ![c].at = "checked", ![c].request = q]
      <4>1. PICK q \in Requests :
              call' = [call EXCEPT ![c] = [call[c] EXCEPT !.at = "checked", !.request = q]]
        BY <3>2
      <4>2. [call[c] EXCEPT !.at = "checked", !.request = q] \in Call
        BY <1>0, CallFields DEF Stage
      <4> QED
        BY <4>1, <4>2 DEF TypeOK
    <3> QED
      BY <1>1, <3>1, <3>2 DEF CheckQuestion
  <2> QED
    BY <1>1, <2>1 DEF CheckQuestion, TypeOK
<1>2. CASE InsertChat(c)
  <2>1. CASE Refuse(c)
    BY <1>0, <1>2, <2>1, RefuseTyped DEF InsertChat
  <2>2. CASE ~Refuse(c)
    <3>1. PICK r \in Runs :
            /\ Create(r, "chat", 0, call[c].request)
            /\ call' = [call EXCEPT ![c] = [call[c] EXCEPT !.at = "enqueueing", !.got = r]]
      BY <1>2, <2>2 DEF InsertChat
    <3>2. runs' \in [Runs -> AgentRun]
      BY <1>0, <3>1, CreateTyped, RowsFinite
    <3>3. [call[c] EXCEPT !.at = "enqueueing", !.got = r] \in Call
      BY <1>0, CallFields, RunsBounded DEF Stage
    <3>4. call' \in [Calls -> Call]
      BY <3>1, <3>3 DEF TypeOK
    <3> QED
      BY <1>2, <2>2, <3>2, <3>4 DEF InsertChat, TypeOK
  <2> QED
    BY <2>1, <2>2
<1> QED
  BY <1>1, <1>2

LEMMA ResumeCallsTyped ==
  ASSUME TypeOK, NEW c \in Answers, LockParent(c) \/ LookForChild(c) \/ InsertResume(c)
  PROVE  TypeOK'
<1>0. /\ c \in Calls /\ call[c] \in Call
      /\ call[c].request \in Requests \cup {"none"} /\ call[c].run \in 0..MaxRuns
  BY DEF Calls, TypeOK, Call
<1>1. CASE Refuse(c)
  BY <1>0, <1>1, RefuseTyped DEF LockParent, LookForChild, InsertResume
<1>2. CASE LockParent(c) /\ ~Refuse(c)
  <2>0. PICK p \in Runs, q \in Requests :
          /\ call' = [call EXCEPT ![c].at = "locked", ![c].run = p, ![c].request = q]
          /\ held' = [held EXCEPT ![c] = {p}]
          /\ UNCHANGED runs
    BY <1>2, Zenon DEF LockParent
  <2>1. call' = [call EXCEPT ![c] =
                   [call[c] EXCEPT !.at = "locked", !.run = p, !.request = q]]
    BY <2>0
  <2>2. [call[c] EXCEPT !.at = "locked", !.run = p, !.request = q] \in Call
    BY <1>0, CallFields, RunsBounded DEF Stage
  <2> QED
    <3>1. call' \in [Calls -> Call]
      BY <2>1, <2>2 DEF TypeOK
    <3>2. held' \in [Calls -> SUBSET Runs]
      BY <2>0 DEF TypeOK
    <3>3. UNCHANGED <<job, faults>>
      BY <1>2, Zenon DEF LockParent
    <3> QED
      BY <2>0, <3>1, <3>2, <3>3 DEF TypeOK
<1>3. CASE LookForChild(c) /\ ~Refuse(c)
  <2>1. CASE Goto(c, "inserting") /\ UNCHANGED <<runs, held>>
    BY <1>0, <1>3, <2>1, GotoTyped DEF LookForChild, TypeOK, Stage
  <2>2. CASE ~(Goto(c, "inserting") /\ UNCHANGED <<runs, held>>)
    <3>1. PICK r \in ResumeChild(call[c].run) :
            /\ call' = [call EXCEPT ![c] = [call[c] EXCEPT !.at = "done", !.got = r]]
            /\ Release(c)
            /\ UNCHANGED runs
      BY <1>3, <2>2 DEF LookForChild
    <3>2. [call[c] EXCEPT !.at = "done", !.got = r] \in Call
      BY <1>0, CallFields, RunsBounded DEF Stage, ResumeChild
    <3>3. held' \in [Calls -> SUBSET Runs]
      BY <1>0, <3>1, ReleaseTyped
    <3> QED
      BY <1>3, <3>1, <3>2, <3>3 DEF LookForChild, TypeOK
  <2> QED
    BY <2>1, <2>2
<1>4. CASE InsertResume(c) /\ ~Refuse(c)
  <2>1. PICK r \in Runs :
          /\ Create(r, "resume", call[c].run, call[c].request)
          /\ call' = [call EXCEPT ![c] = [call[c] EXCEPT !.at = "enqueueing", !.got = r]]
    BY <1>4 DEF InsertResume
  <2>2. runs' \in [Runs -> AgentRun]
    BY <1>0, <2>1, CreateTyped
  <2>3. [call[c] EXCEPT !.at = "enqueueing", !.got = r] \in Call
    BY <1>0, CallFields, RunsBounded DEF Stage
  <2>4. held' \in [Calls -> SUBSET Runs]
    BY <1>0, <1>4, ReleaseTyped DEF InsertResume
  <2> QED
    BY <1>4, <2>1, <2>2, <2>3, <2>4 DEF InsertResume, TypeOK
<1> QED
  BY <1>1, <1>2, <1>3, <1>4

LEMMA EnqueueTyped ==
  ASSUME TypeOK, NEW c \in Asks \cup Answers, Enqueue(c) \/ MarkFailed(c)
  PROVE  TypeOK'
<1>0. c \in Calls /\ call[c] \in Call /\ call[c].got \in 0..MaxRuns
  BY DEF Calls, TypeOK, Call
<1>1. CASE Enqueue(c)
  <2>1. call' \in [Calls -> Call]
    BY <1>0, <1>1, GotoTyped DEF Enqueue, Stage
  <2>2. job' \in [Runs -> JobState]
    BY <1>1 DEF Enqueue, TypeOK, JobState
  <2>3. faults' \in 0..MaxFaults
    BY <1>1, FaultTyped DEF Enqueue, TypeOK
  <2> QED
    BY <1>1, <2>1, <2>2, <2>3 DEF Enqueue, TypeOK
<1>2. CASE MarkFailed(c)
  <2>1. call' \in [Calls -> Call]
    BY <1>0, <1>2, GotoTyped DEF MarkFailed, Stage
  <2>2. runs' \in [Runs -> AgentRun]
    BY <1>2, RowWriters DEF MarkFailed, TypeOK, Terminal, Text
  <2> QED
    BY <1>2, <2>1, <2>2 DEF MarkFailed, TypeOK
<1> QED
  BY <1>1, <1>2

LEMMA CancelCallsTyped ==
  ASSUME TypeOK, NEW c \in Stops,
         ListChildren(c) \/ LockNext(c) \/ CommitCancel(c) \/ PublishSignals(c)
           \/ DeadlockDetected(c)
  PROVE  TypeOK'
<1>0. /\ c \in Calls /\ call[c] \in Call
      /\ call[c].run \in 0..MaxRuns /\ call[c].want \in 0..MaxRuns
      /\ call[c].listed \subseteq Runs
  BY DEF Calls, TypeOK, Call
<1>1. CASE ListChildren(c)
  <2>1. PICK r \in Runs :
          \E k \in (IF ActiveChildren(r) = {} THEN {r} ELSE ActiveChildren(r)) :
            call' = [call EXCEPT ![c].at = "marking", ![c].run = r,
                                 ![c].listed = ActiveChildren(r), ![c].want = k]
    BY <1>1 DEF ListChildren
  <2>2. ActiveChildren(r) \subseteq Runs
    BY DEF ActiveChildren
  <2>4. PICK k \in Runs :
          call' = [call EXCEPT ![c] =
            [call[c] EXCEPT !.at = "marking", !.run = r, !.listed = ActiveChildren(r),
                            !.want = k]]
    BY ZenonT(40), <2>1, <2>2
  <2>3. [call[c] EXCEPT !.at = "marking", !.run = r, !.listed = ActiveChildren(r),
                        !.want = k] \in Call
    BY <1>0, <2>2, CallFields, RunsBounded DEF Stage
  <2> QED
    BY <1>1, <2>4, <2>3 DEF ListChildren, TypeOK
<1>2. CASE LockNext(c)
  <2>1. PICK k \in (IF call[c].want = call[c].run THEN {0}
                    ELSE ToLock(c, call[c].listed \ (held[c] \cup {call[c].want}))) :
          call' = [call EXCEPT ![c] = [call[c] EXCEPT !.want = k]]
    BY <1>2 DEF LockNext
  <2>2. k \in 0..MaxRuns
    BY <1>0, <2>1, RunsBounded DEF ToLock
  <2>3. [call[c] EXCEPT !.want = k] \in Call
    BY <1>0, <2>2, CallFields
  <2>4. call[c].want \in Runs
    BY <1>0, <1>2, RowsFinite DEF LockNext, Runs
  <2>5. held' \in [Calls -> SUBSET Runs]
    BY <1>2, <2>4 DEF LockNext, TypeOK
  <2> QED
    BY <1>2, <2>1, <2>3, <2>5 DEF LockNext, TypeOK
<1>3. CASE CommitCancel(c)
  <2>1. runs' \in [Runs -> AgentRun]
    BY <1>3, RowWriters DEF CommitCancel, TypeOK
  <2>2. call' \in [Calls -> Call]
    BY <1>0, <1>3, GotoTyped DEF CommitCancel, Stage
  <2>3. held' \in [Calls -> SUBSET Runs]
    BY <1>0, <1>3, ReleaseTyped DEF CommitCancel
  <2> QED
    BY <1>3, <2>1, <2>2, <2>3 DEF CommitCancel, TypeOK
<1>4. CASE PublishSignals(c)
  <2>1. call' \in [Calls -> Call]
    BY <1>0, <1>4, GotoTyped DEF PublishSignals, Stage
  <2>2. faults' \in 0..MaxFaults
    BY <1>4, FaultTyped DEF PublishSignals, TypeOK
  <2> QED
    BY <1>4, <2>1, <2>2 DEF PublishSignals, TypeOK
<1>5. CASE DeadlockDetected(c)
  BY <1>0, <1>5, RefuseTyped DEF DeadlockDetected
<1> QED
  BY <1>1, <1>2, <1>3, <1>4, <1>5

LEMMA WorkerTyped ==
  ASSUME TypeOK, NEW r \in Runs, WorkerStep(r)
  PROVE  TypeOK'
<1>0. runs[r] \in AgentRun
  BY DEF TypeOK
<1>1. CASE StartJob(r)
  <2>1. runs' \in [Runs -> AgentRun]
    BY <1>0, <1>1, RowWriters DEF StartJob, TypeOK, Terminal, Text
  <2> QED
    BY <1>1, <2>1 DEF StartJob, TypeOK, JobState
<1>2. CASE FinishJob(r)
  <2>1. runs' \in [Runs -> AgentRun]
    BY <1>0, <1>2, RowWriters DEF FinishJob, TypeOK, Text
  <2> QED
    BY <1>2, <2>1 DEF FinishJob, TypeOK, JobState
<1>3. CASE Spawn(r)
  <2>1. runs' \in [Runs -> AgentRun]
    BY <1>3, CreateTyped, RunsBounded DEF Spawn
  <2> QED
    BY <1>3, <2>1 DEF Spawn, TypeOK
<1>4. CASE EnqueueChild(r)
  <2>1. job' \in [Runs -> JobState]
    BY <1>4 DEF EnqueueChild, TypeOK, JobState
  <2>2. faults' \in 0..MaxFaults
    BY <1>4, FaultTyped DEF EnqueueChild, TypeOK
  <2> QED
    BY <1>4, <2>1, <2>2 DEF EnqueueChild, TypeOK
<1> QED
  BY <1>1, <1>2, <1>3, <1>4 DEF WorkerStep

LEMMA EnsureTyped == TypeOK /\ EnsureTables => TypeOK'
<1> SUFFICES ASSUME TypeOK, EnsureTables PROVE TypeOK'
    OBVIOUS
<1>1. \A k \in AgentRun : [k EXCEPT !.type = "chat"] \in AgentRun
  BY DEF AgentRun
<1>2. runs' \in [Runs -> AgentRun]
  BY <1>1 DEF EnsureTables, TypeOK
<1>3. faults' \in 0..MaxFaults
  BY FaultTyped DEF EnsureTables
<1> QED
  BY <1>2, <1>3 DEF EnsureTables, TypeOK

LEMMA CrashTyped ==
  ASSUME TypeOK, NEW c \in Calls, CrashCall(c)
  PROVE  TypeOK'
<1>1. call' \in [Calls -> Call]
  BY GotoTyped DEF CrashCall, Stage
<1>2. held' \in [Calls -> SUBSET Runs]
  BY ReleaseTyped DEF CrashCall
<1>3. faults' \in 0..MaxFaults
  BY FaultTyped DEF CrashCall
<1> QED
  BY <1>1, <1>2, <1>3 DEF CrashCall, TypeOK

\* The actions of a step.
LEMMA Steps ==
  ASSUME Next
  PROVE  \/ \E c \in Asks : CheckQuestion(c) \/ InsertChat(c)
         \/ \E c \in Answers : LockParent(c) \/ LookForChild(c) \/ InsertResume(c)
         \/ \E c \in Asks \cup Answers : Enqueue(c) \/ MarkFailed(c)
         \/ \E c \in Stops : \/ ListChildren(c) \/ LockNext(c) \/ CommitCancel(c)
                             \/ PublishSignals(c) \/ DeadlockDetected(c)
         \/ \E r \in Runs : WorkerStep(r)
         \/ EnsureTables
         \/ \E c \in Calls : CrashCall(c)
BY Zenon DEF Next, Arrive, Proceed

LEMMA NextTyped == TypeOK /\ [Next]_vars => TypeOK'
<1>1. TypeOK /\ UNCHANGED vars => TypeOK'
  BY DEF vars, TypeOK
<1>2. TypeOK /\ Next => TypeOK'
  BY Steps, CreateCallsTyped, ResumeCallsTyped, EnqueueTyped, CancelCallsTyped, WorkerTyped,
     EnsureTyped, CrashTyped
<1> QED
  BY <1>1, <1>2

\* Every variable keeps its type: rows, jobs, calls and locks stay what they are
\* through every interleaving of calls, jobs, crashes and restarts.
THEOREM RequestsTyped == Spec => []TypeOK
<1> QED
  BY InitTyped, NextTyped, PTL DEF Spec

-----------------------------------------------------------------------------
(***************************************************************************)
(* One run per request, one answer per question, an interrupted parent,    *)
(* and cancellations that cover: the safety of RunRequests.                *)
(***************************************************************************)

(* What a step does to the table. *)

\* Existing rows stay what they are, but for start-ups: their parent and their
\* request never change, and a decided status does not either.
RowStays(r) ==
  /\ runs'[r].parent = runs[r].parent
  /\ runs'[r].request = runs[r].request
  /\ runs[r].status \in Terminal => runs'[r].status = runs[r].status
  /\ runs[r].status = "cancel_requested"
       => runs'[r].status \in Terminal \cup {"cancel_requested"}
  /\ \/ runs'[r].type = runs[r].type
     \/ "startup" \in Faults /\ runs[r].type = "resume" /\ runs'[r].type = "chat"

RowsStay == \A r \in Runs : RowStays(r)

Inserted(r, type, p, q) ==
  /\ ~Exists(r)
  /\ runs'[r].type = type /\ runs'[r].parent = p /\ runs'[r].request = q
  /\ \A s \in Runs : s # r => runs'[s] = runs[s]

LEMMA CreateInserts ==
  ASSUME TypeOK, NEW r \in Runs, NEW type, NEW p, NEW q, Create(r, type, p, q)
  PROVE  Inserted(r, type, p, q)
BY DEF TypeOK, Create, Inserted

\* The writers keep the columns that identify a row, and a decided status.
LEMMA WritersKeep ==
  ASSUME NEW k \in AgentRun, NEW n \in AgentRun,
         \/ n = k
         \/ n = SetRunning(k)
         \/ n = RequestCancel(k)
         \/ \E s \in Terminal, e \in Text : n = SetAgentTerminal(k, s, e)
  PROVE  /\ n.type = k.type /\ n.parent = k.parent /\ n.request = k.request
         /\ k.status \in Terminal => n.status = k.status
         /\ k.status = "cancel_requested" => n.status \in Terminal \cup {"cancel_requested"}
BY DEF AgentRun, SetRunning, RequestCancel, SetAgentTerminal, Terminal

Written(r) ==
  \/ runs'[r] = runs[r]
  \/ runs'[r] = SetRunning(runs[r])
  \/ runs'[r] = RequestCancel(runs[r])
  \/ \E s \in Terminal, e \in Text : runs'[r] = SetAgentTerminal(runs[r], s, e)

InsertsChat(c) ==
  \E r \in Runs :
    /\ ~Taken(call[c].request)
    /\ Inserted(r, "chat", 0, call[c].request)
    /\ call[c].at = "checked"
    /\ call' = [call EXCEPT ![c].at = "enqueueing", ![c].got = r]

InsertsResume(c) ==
  \E r \in Runs :
    /\ ~Taken(call[c].request)
    /\ Inserted(r, "resume", call[c].run, call[c].request)
    /\ call[c].at = "inserting"
    /\ call' = [call EXCEPT ![c].at = "enqueueing", ![c].got = r]

InsertsChild(p) ==
  /\ job[p] = "running"
  /\ \E r \in Runs : Inserted(r, "subagent", p, "none")
  /\ UNCHANGED <<job, call, held>>

LEMMA TableSteps ==
  ASSUME TypeOK, [Next]_vars
  PROVE  \/ \A r \in Runs : Written(r)
         \/ \E c \in Asks : InsertsChat(c)
         \/ \E c \in Answers : InsertsResume(c)
         \/ \E p \in Runs : InsertsChild(p)
         \/ EnsureTables
<1>1. CASE UNCHANGED runs
  BY <1>1 DEF Written
<1>2. CASE \E c \in Asks : InsertChat(c)
  <2>1. PICK c \in Asks : InsertChat(c)
    BY <1>2
  <2>2. CASE Refuse(c)
    BY <1>1, <2>2 DEF Refuse
  <2>3. CASE ~Refuse(c)
    BY <2>1, <2>3, CreateInserts DEF InsertChat, InsertsChat
  <2> QED
    BY <2>2, <2>3
<1>3. CASE \E c \in Answers : InsertResume(c)
  <2>1. PICK c \in Answers : InsertResume(c)
    BY <1>3
  <2>2. CASE Refuse(c)
    BY <1>1, <2>2 DEF Refuse
  <2>3. CASE ~Refuse(c)
    BY <2>1, <2>3, CreateInserts DEF InsertResume, InsertsResume
  <2> QED
    BY <2>2, <2>3
<1>4. CASE \E c \in Asks \cup Answers : MarkFailed(c)
  <2>1. PICK c \in Asks \cup Answers : MarkFailed(c)
    BY <1>4
  <2>2. \A r \in Runs : Written(r)
    BY <2>1 DEF MarkFailed, Written, TypeOK, Terminal, Text
  <2> QED
    BY <2>2
<1>5. CASE \E c \in Stops : CommitCancel(c)
  BY <1>5 DEF CommitCancel, Written, TypeOK
<1>6. CASE \E r \in Runs : StartJob(r) \/ FinishJob(r)
  <2>1. PICK r \in Runs : StartJob(r) \/ FinishJob(r)
    BY <1>6
  <2>2. \A s \in Runs : Written(s)
    <3>1. CASE StartJob(r)
      BY <3>1 DEF StartJob, Written, TypeOK, Terminal, Text
    <3>2. CASE FinishJob(r)
      BY <3>2 DEF FinishJob, Written, TypeOK, Terminal, Text
    <3> QED
      BY <2>1, <3>1, <3>2
  <2> QED
    BY <2>2
<1>7. CASE \E r \in Runs : Spawn(r)
  BY <1>7, CreateInserts DEF Spawn, InsertsChild
<1>8. CASE EnsureTables
  BY <1>8
<1>9. CASE UNCHANGED vars
  BY <1>1, <1>9 DEF vars
<1> QED
  <2>1. ASSUME NEW c \in Calls,
               CheckQuestion(c) \/ LockParent(c) \/ LookForChild(c) \/ Enqueue(c)
                 \/ ListChildren(c) \/ LockNext(c) \/ PublishSignals(c)
                 \/ DeadlockDetected(c) \/ CrashCall(c)
        PROVE  UNCHANGED runs
    BY <2>1, Zenon DEF CheckQuestion, LockParent, LookForChild, Enqueue, ListChildren,
       LockNext, PublishSignals, DeadlockDetected, CrashCall, Refuse
  <2>2. ASSUME NEW r \in Runs, EnqueueChild(r)
        PROVE  UNCHANGED runs
    BY <2>2, Zenon DEF EnqueueChild
  <2> QED
    BY Steps, <1>1, <1>2, <1>3, <1>4, <1>5, <1>6, <1>7, <1>8, <1>9, <2>1, <2>2
       DEF WorkerStep, Calls

\* The same, with what it leaves of the rows that are there.
LEMMA RowsKept ==
  ASSUME TypeOK, [Next]_vars
  PROVE  \/ RowsStay
         \/ \E c \in Asks : InsertsChat(c)
         \/ \E c \in Answers : InsertsResume(c)
         \/ \E p \in Runs : InsertsChild(p)
<1>1. CASE \A r \in Runs : Written(r)
  <2>1. \A r \in Runs : runs[r] \in AgentRun /\ runs'[r] \in AgentRun
    BY NextTyped DEF TypeOK
  <2>2. RowsStay
    BY <1>1, <2>1, WritersKeep DEF RowsStay, RowStays, Written
  <2> QED
    BY <2>2
<1>2. CASE EnsureTables
  <2>1. \A r \in Runs : runs[r] \in AgentRun
    BY DEF TypeOK
  <2>2. "startup" \in Faults
    BY <1>2 DEF EnsureTables, Fault
  <2>3. ASSUME NEW r \in Runs
        PROVE  RowStays(r)
    <3>1. runs'[r] = IF runs[r].type = "resume" THEN [runs[r] EXCEPT !.type = "chat"]
                     ELSE runs[r]
      BY <1>2 DEF EnsureTables
    <3> QED
      BY <2>1, <2>2, <3>1 DEF RowStays, AgentRun
  <2> QED
    BY <2>3 DEF RowsStay
<1> QED
  BY TableSteps, <1>1, <1>2

-----------------------------------------------------------------------------
(* What a step does to a call that asks for a run.                         *)

Stays(c) == call'[c] = call[c] /\ held'[c] = held[c]

Accepts(c) ==
  /\ call'[c].at \in {"checked", "locked"}
  /\ call'[c].request \in Requests

TakesParent(c) ==
  /\ call'[c].at = "locked"
  /\ call'[c].run \in held'[c]
  /\ Exists(call'[c].run)
  /\ runs[call'[c].run].status = "interrupted"
  /\ UNCHANGED runs

FindsNone(c) ==
  /\ call[c].at = "locked"
  /\ call'[c].at = "inserting"
  /\ call'[c].run = call[c].run
  /\ call'[c].request = call[c].request
  /\ ResumeChild(call[c].run) = {}
  /\ held'[c] = held[c]
  /\ UNCHANGED runs

Finds(c) ==
  /\ call[c].at = "locked"
  /\ call'[c].at = "done"
  /\ call'[c].request = call[c].request
  /\ call'[c].got \in ResumeChild(call[c].run)
  /\ runs[call'[c].got].request = call[c].request
  /\ UNCHANGED runs

GoesOn(c) ==
  /\ call[c].at \in {"enqueueing", "failing"}
  /\ call'[c].at \in {"failing", "done"}
  /\ call'[c].request = call[c].request
  /\ call'[c].got = call[c].got

Ends(c) == call'[c].at \in {"refused", "crashed"}

Moves(c) ==
  \/ Ends(c)
  \/ c \in Asks /\ Accepts(c)
  \/ c \in Asks /\ InsertsChat(c)
  \/ c \in Answers /\ Accepts(c) /\ TakesParent(c)
  \/ c \in Answers /\ FindsNone(c)
  \/ c \in Answers /\ Finds(c)
  \/ c \in Answers /\ InsertsResume(c)
  \/ GoesOn(c)

LEMMA RefuseMoves ==
  ASSUME TypeOK, NEW c \in Calls, Refuse(c)
  PROVE  /\ Ends(c)
         /\ \A d \in Calls : d # c => Stays(d)
BY DEF TypeOK, Refuse, Goto, Release, Ends, Stays

LEMMA AskMoves ==
  ASSUME TypeOK, NEW c \in Asks, CheckQuestion(c) \/ InsertChat(c)
  PROVE  /\ Moves(c)
         /\ \A d \in Calls : d # c => Stays(d)
<1>0. c \in Calls
  BY DEF Calls
<1>1. CASE CheckQuestion(c)
  BY <1>0, <1>1 DEF TypeOK, CheckQuestion, Goto, Moves, Ends, Accepts, Stays, Call
<1>2. CASE InsertChat(c) /\ Refuse(c)
  BY <1>0, <1>2, RefuseMoves DEF Moves
<1>3. CASE InsertChat(c) /\ ~Refuse(c)
  <2>1. InsertsChat(c)
    BY <1>3, CreateInserts DEF InsertChat, InsertsChat
  <2>2. \A d \in Calls : d # c => Stays(d)
    BY <1>0, <1>3 DEF TypeOK, InsertChat, Stays
  <2> QED
    BY <2>1, <2>2 DEF Moves
<1> QED
  BY <1>1, <1>2, <1>3

LEMMA AnswerMoves ==
  ASSUME TypeOK, NEW c \in Answers, LockParent(c) \/ LookForChild(c) \/ InsertResume(c)
  PROVE  /\ Moves(c)
         /\ \A d \in Calls : d # c => Stays(d)
<1>0. c \in Calls
  BY DEF Calls
<1>1. CASE Refuse(c)
  BY <1>0, <1>1, RefuseMoves DEF Moves
<1>2. CASE LockParent(c) /\ ~Refuse(c)
  <2>1. PICK p \in Runs, q \in Requests :
          /\ Exists(p)
          /\ runs[p].status = "interrupted"
          /\ call' = [call EXCEPT ![c].at = "locked", ![c].run = p, ![c].request = q]
          /\ held' = [held EXCEPT ![c] = {p}]
          /\ UNCHANGED runs
    BY <1>2, Zenon DEF LockParent
  <2>2. Accepts(c) /\ TakesParent(c)
    BY <1>0, <2>1 DEF TypeOK, Call, Accepts, TakesParent, Exists
  <2>3. \A d \in Calls : d # c => Stays(d)
    BY <1>0, <2>1 DEF TypeOK, Stays
  <2> QED
    BY <2>2, <2>3 DEF Moves
<1>3. CASE LookForChild(c) /\ ~Refuse(c)
  <2>1. CASE /\ ResumeChild(call[c].run) = {}
             /\ Goto(c, "inserting") /\ UNCHANGED <<runs, held>>
    <3>1. FindsNone(c)
      BY <1>0, <1>3, <2>1 DEF LookForChild, TypeOK, Call, Goto, FindsNone
    <3>2. \A d \in Calls : d # c => Stays(d)
      BY <1>0, <2>1 DEF TypeOK, Goto, Stays
    <3> QED
      BY <3>1, <3>2 DEF Moves
  <2>2. CASE \E r \in ResumeChild(call[c].run) :
               /\ runs[r].request = call[c].request
               /\ call' = [call EXCEPT ![c].at = "done", ![c].got = r]
               /\ Release(c)
               /\ UNCHANGED runs
    <3>1. Finds(c)
      <4>1. PICK r \in ResumeChild(call[c].run) :
              /\ runs[r].request = call[c].request
              /\ call' = [call EXCEPT ![c].at = "done", ![c].got = r]
        BY <2>2
      <4>2. call[c].at = "locked" /\ UNCHANGED runs
        BY <1>3, <2>2 DEF LookForChild
      <4>3. /\ call'[c].at = "done" /\ call'[c].got = r
            /\ call'[c].request = call[c].request
        BY <1>0, <4>1 DEF TypeOK, Call
      <4> QED
        BY <4>1, <4>2, <4>3 DEF Finds
    <3>2. \A d \in Calls : d # c => Stays(d)
      BY <1>0, <2>2 DEF TypeOK, Release, Stays
    <3> QED
      BY <3>1, <3>2 DEF Moves
  <2> QED
    BY <1>3, <2>1, <2>2 DEF LookForChild
<1>4. CASE InsertResume(c) /\ ~Refuse(c)
  <2>1. InsertsResume(c)
    BY <1>4, CreateInserts DEF InsertResume, InsertsResume
  <2>2. \A d \in Calls : d # c => Stays(d)
    BY <1>0, <1>4 DEF TypeOK, InsertResume, Release, Stays
  <2> QED
    BY <2>1, <2>2 DEF Moves
<1> QED
  BY <1>1, <1>2, <1>3, <1>4

LEMMA EnqueueMoves ==
  ASSUME TypeOK, NEW c \in Asks \cup Answers, Enqueue(c) \/ MarkFailed(c)
  PROVE  /\ Moves(c)
         /\ \A d \in Calls : d # c => Stays(d)
<1>0. c \in Calls
  BY DEF Calls
<1>1. CASE Enqueue(c)
  BY <1>0, <1>1 DEF TypeOK, Enqueue, Goto, Moves, GoesOn, Stays, Call
<1>2. CASE MarkFailed(c)
  BY <1>0, <1>2 DEF TypeOK, MarkFailed, Goto, Moves, GoesOn, Ends, Stays, Call
<1> QED
  BY <1>1, <1>2

LEMMA CrashMoves ==
  ASSUME TypeOK, NEW c \in Calls, CrashCall(c)
  PROVE  /\ Ends(c)
         /\ \A d \in Calls : d # c => Stays(d)
BY DEF TypeOK, CrashCall, Goto, Release, Ends, Stays

LEMMA StopMoves ==
  ASSUME TypeOK, NEW c \in Stops,
         ListChildren(c) \/ LockNext(c) \/ CommitCancel(c) \/ PublishSignals(c)
           \/ DeadlockDetected(c)
  PROVE  \A d \in Calls : d # c => Stays(d)
<1>0. c \in Calls
  BY DEF Calls
<1>1. CASE ListChildren(c)
  BY <1>0, <1>1 DEF TypeOK, ListChildren, Stays
<1>2. CASE LockNext(c)
  BY <1>0, <1>2 DEF TypeOK, LockNext, Stays
<1>3. CASE CommitCancel(c)
  BY <1>0, <1>3 DEF TypeOK, CommitCancel, Goto, Release, Stays
<1>4. CASE PublishSignals(c)
  BY <1>0, <1>4 DEF TypeOK, PublishSignals, Goto, Stays
<1>5. CASE DeadlockDetected(c)
  BY <1>0, <1>5, RefuseMoves DEF DeadlockDetected
<1> QED
  BY <1>1, <1>2, <1>3, <1>4, <1>5

LEMMA CallSteps ==
  ASSUME TypeOK, [Next]_vars
  PROVE  \A c \in Asks \cup Answers : Stays(c) \/ Moves(c)
<1>1. CASE UNCHANGED <<call, held>>
  BY <1>1 DEF Stays
<1>2. ASSUME NEW r \in Runs, WorkerStep(r)
      PROVE  UNCHANGED <<call, held>>
  BY <1>2, Zenon DEF WorkerStep, StartJob, FinishJob, Spawn, EnqueueChild
<1>3. EnsureTables => UNCHANGED <<call, held>>
  BY Zenon DEF EnsureTables
<1>4. UNCHANGED vars => UNCHANGED <<call, held>>
  BY Zenon DEF vars
<1>5. ASSUME NEW c \in Stops, NEW d \in Asks \cup Answers
      PROVE  c \in Calls /\ d \in Calls /\ c # d
  BY RequestsAssumption DEF Calls
<1> QED
  BY Steps, <1>1, <1>2, <1>3, <1>4, <1>5, AskMoves, AnswerMoves, EnqueueMoves, CrashMoves,
     StopMoves DEF Calls, Moves

-----------------------------------------------------------------------------
(* Requests.                                                               *)

RequestsApart ==
  \A r, s \in Runs : runs[r].request # "none" /\ runs[r].request = runs[s].request => r = s

\* An accepted call has a request, and one that has a run the run's.
CallAsks(c) ==
  /\ call[c].at \in {"checked", "locked", "inserting", "enqueueing", "failing", "done"}
       => call[c].request \in Requests
  /\ call[c].at \in {"enqueueing", "failing", "done"}
       => /\ call[c].got \in Runs
          /\ Exists(call[c].got)
          /\ runs[call[c].got].request = call[c].request

Asking ==
  /\ TypeOK
  /\ RequestsApart
  /\ \A c \in Asks \cup Answers : CallAsks(c)

LEMMA InitAsking == Init => Asking
<1>1. Init => RequestsApart /\ \A c \in Asks \cup Answers : CallAsks(c)
  BY DEF Init, RequestsApart, CallAsks, NoRow, NewCall, Calls
<1> QED
  BY <1>1, InitTyped DEF Asking

\* Rows are never deleted, and what they were asked by is never changed.
LEMMA RequestKept ==
  ASSUME TypeOK, [Next]_vars, NEW r \in Runs, Exists(r)
  PROVE  Exists(r)' /\ runs'[r].request = runs[r].request
BY RowsKept DEF RowsStay, RowStays, InsertsChat, InsertsResume, InsertsChild, Inserted, Exists

LEMMA RequestsApartKept ==
  ASSUME Asking, [Next]_vars
  PROVE  RequestsApart'
<1>0. TypeOK /\ RequestsApart
  BY DEF Asking
<1>1. CASE RowsStay
  BY <1>0, <1>1 DEF RowsStay, RowStays, RequestsApart
<1>2. ASSUME NEW q, NEW r \in Runs, NEW type, NEW p, Inserted(r, type, p, q),
             q # "none" => ~Taken(q)
      PROVE  RequestsApart'
  BY <1>0, <1>2 DEF Inserted, Taken, RequestsApart
<1>3. ASSUME NEW c, InsertsChat(c) \/ InsertsResume(c)
      PROVE  RequestsApart'
  BY <1>2, <1>3 DEF InsertsChat, InsertsResume
<1>4. ASSUME NEW p, InsertsChild(p)
      PROVE  RequestsApart'
  BY <1>2, <1>4 DEF InsertsChild
<1> QED
  BY <1>0, <1>1, <1>3, <1>4, RowsKept

LEMMA CallAsksKept ==
  ASSUME Asking, [Next]_vars, NEW c \in Asks \cup Answers
  PROVE  CallAsks(c)'
<1>0. TypeOK /\ CallAsks(c) /\ c \in Calls /\ TypeOK'
  BY NextTyped DEF Asking, Calls
<1>1. CASE Stays(c)
  BY <1>0, <1>1, RequestKept DEF Stays, CallAsks
<1>2. CASE Ends(c)
  BY <1>2 DEF Ends, CallAsks
<1>3. CASE Accepts(c)
  BY <1>3 DEF Accepts, CallAsks
<1>4. CASE FindsNone(c)
  BY <1>0, <1>4 DEF FindsNone, CallAsks
<1>5. CASE Finds(c)
  BY <1>0, <1>5 DEF Finds, CallAsks, ResumeChild, Exists
<1>6. CASE GoesOn(c)
  BY <1>0, <1>6, RequestKept DEF GoesOn, CallAsks
<1>7. CASE InsertsChat(c) \/ InsertsResume(c)
  <2>1. PICK r \in Runs :
          /\ runs'[r].type \in {"chat", "resume"}
          /\ runs'[r].request = call[c].request
          /\ call[c].at \in {"checked", "inserting"}
          /\ call' = [call EXCEPT ![c].at = "enqueueing", ![c].got = r]
    BY <1>7 DEF InsertsChat, InsertsResume, Inserted
  <2>2. call'[c].got = r /\ call'[c].request = call[c].request
    BY <1>0, <2>1 DEF TypeOK, Call
  <2> QED
    BY <1>0, <2>1, <2>2 DEF CallAsks, Exists
<1> QED
  BY <1>0, <1>1, <1>2, <1>3, <1>4, <1>5, <1>6, <1>7, CallSteps DEF Moves

LEMMA AskingKept == Asking /\ [Next]_vars => Asking'
BY NextTyped, RequestsApartKept, CallAsksKept DEF Asking

\* A call that succeeds is answered with the run that bears its request, and no
\* other run does: however many calls repeat it, and whatever fails on the way.
THEOREM RequestsGetTheirRuns == Spec => []RequestGetsItsRun
<1>1. Asking => RequestGetsItsRun
  BY RequestsAssumption DEF Asking, RequestsApart, CallAsks, RequestGetsItsRun
<1> QED
  BY <1>1, InitAsking, AskingKept, PTL DEF Spec

-----------------------------------------------------------------------------
(* Locks.                                                                  *)

\* A row is locked by one call.
HeldApart == \A c, d \in Calls : c # d => held[c] \cap held[d] = {}

\* Call c lets go of rows, or takes one that nobody holds.
Holds(c) ==
  /\ \A r \in held'[c] : r \in held[c] \/ ~Locked(r)
  /\ \A d \in Calls : d # c => held'[d] = held[d]

LEMMA HeldSteps ==
  ASSUME TypeOK, [Next]_vars
  PROVE  UNCHANGED held \/ \E c \in Calls : Holds(c)
<1>1. ASSUME NEW c \in Calls, Release(c)
      PROVE  Holds(c)
  BY <1>1 DEF TypeOK, Release, Holds
<1>2. ASSUME NEW c \in Calls,
             InsertChat(c) \/ LookForChild(c) \/ InsertResume(c) \/ CommitCancel(c)
               \/ DeadlockDetected(c) \/ CrashCall(c)
      PROVE  UNCHANGED held \/ Holds(c)
  BY <1>1, <1>2, Zenon DEF InsertChat, LookForChild, InsertResume, CommitCancel,
     DeadlockDetected, CrashCall, Refuse
<1>3. ASSUME NEW c \in Calls, LockParent(c)
      PROVE  Holds(c)
  BY <1>1, <1>3 DEF TypeOK, LockParent, Refuse, Holds
<1>4. ASSUME NEW c \in Calls, LockNext(c)
      PROVE  Holds(c)
  BY <1>4 DEF TypeOK, LockNext, Holds
<1>5. ASSUME NEW c, CheckQuestion(c) \/ Enqueue(c) \/ MarkFailed(c) \/ ListChildren(c)
                      \/ PublishSignals(c)
      PROVE  UNCHANGED held
  BY <1>5, Zenon DEF CheckQuestion, Enqueue, MarkFailed, ListChildren, PublishSignals
<1>6. ASSUME NEW r \in Runs, WorkerStep(r)
      PROVE  UNCHANGED held
  BY <1>6, Zenon DEF WorkerStep, StartJob, FinishJob, Spawn, EnqueueChild
<1>7. EnsureTables \/ UNCHANGED vars => UNCHANGED held
  BY Zenon DEF EnsureTables, vars
<1> QED
  BY Steps, <1>2, <1>3, <1>4, <1>5, <1>6, <1>7 DEF Calls

LEMMA HeldApartKept ==
  ASSUME TypeOK, HeldApart, [Next]_vars
  PROVE  HeldApart'
<1>1. CASE UNCHANGED held
  BY <1>1 DEF HeldApart
<1>2. ASSUME NEW c \in Calls, Holds(c)
      PROVE  HeldApart'
  BY <1>2 DEF TypeOK, HeldApart, Holds, Locked
<1> QED
  BY <1>1, <1>2, HeldSteps

-----------------------------------------------------------------------------
(* Resumption.                                                             *)

\* A call that is past the lock still has it.  The question it answers stays
\* open, and, once it has looked, has no other answer.
HoldsParent(c) ==
  /\ call[c].at \in {"locked", "inserting"}
       => /\ call[c].run \in Runs
          /\ call[c].run \in held[c]
          /\ Exists(call[c].run)
          /\ runs[call[c].run].status = "interrupted"
  /\ call[c].at = "inserting" => ResumeChild(call[c].run) = {}

ResumesContinue ==
  \A r \in Runs : runs[r].type = "resume" =>
    /\ runs[r].parent \in Runs
    /\ Exists(runs[r].parent)
    /\ runs[runs[r].parent].status = "interrupted"

OneResume ==
  \A r, s \in Runs :
    runs[r].type = "resume" /\ runs[s].type = "resume" /\ runs[r].parent = runs[s].parent
      => r = s

Resuming ==
  /\ TypeOK
  /\ HeldApart
  /\ \A c \in Answers : HoldsParent(c)
  /\ ResumesContinue
  /\ OneResume

LEMMA InitResuming == Init => Resuming
<1>1. Init => HeldApart /\ \A c \in Answers : HoldsParent(c)
  BY DEF Init, HeldApart, HoldsParent, NewCall, Calls
<1>2. Init => ResumesContinue /\ OneResume
  BY DEF Init, ResumesContinue, OneResume, NoRow
<1> QED
  BY <1>1, <1>2, InitTyped DEF Resuming

\* A run that waits for an answer goes on waiting.
LEMMA InterruptedKept ==
  ASSUME TypeOK, [Next]_vars, NEW r \in Runs, Exists(r), runs[r].status = "interrupted"
  PROVE  Exists(r)' /\ runs'[r].status = "interrupted"
BY RowsKept DEF RowsStay, RowStays, InsertsChat, InsertsResume, InsertsChild, Inserted, Exists,
   Terminal

\* A run gets a resume child only from the call that has locked it.
LEMMA ChildrenKept ==
  ASSUME Resuming, [Next]_vars, NEW p \in Runs, ResumeChild(p) = {},
         ~ \E c \in Answers : InsertsResume(c) /\ call[c].run = p
  PROVE  ResumeChild(p)' = {}
<1>0. TypeOK
  BY DEF Resuming
<1>1. \A r \in Runs : runs[r].type # "resume" \/ runs[r].parent # p
  BY DEF ResumeChild
<1> DEFINE NoneAfter == \A r \in Runs : runs'[r].type # "resume" \/ runs'[r].parent # p
<1>2. NoneAfter
  <2>1. CASE RowsStay
    BY <1>1, <2>1 DEF RowsStay, RowStays
  <2>2. ASSUME NEW c \in Asks, InsertsChat(c)
        PROVE  NoneAfter
    BY <1>1, <2>2 DEF InsertsChat, Inserted
  <2>3. ASSUME NEW q \in Runs, InsertsChild(q)
        PROVE  NoneAfter
    BY <1>1, <2>3 DEF InsertsChild, Inserted
  <2>4. ASSUME NEW c \in Answers, InsertsResume(c)
        PROVE  NoneAfter
    BY <1>1, <2>4 DEF InsertsResume, Inserted
  <2> QED
    BY <1>0, <2>1, <2>2, <2>3, <2>4, RowsKept
<1> QED
  BY <1>2 DEF ResumeChild

LEMMA HoldsParentKept ==
  ASSUME Resuming, [Next]_vars, NEW c \in Answers
  PROVE  HoldsParent(c)'
<1>0. TypeOK /\ TypeOK' /\ HoldsParent(c) /\ c \in Calls /\ HeldApart
  BY NextTyped DEF Resuming, Calls
<1>1. CASE Stays(c)
  <2>1. ASSUME call[c].at = "inserting"
        PROVE  ~ \E d \in Answers : InsertsResume(d) /\ call[d].run = call[c].run
    <3>1. SUFFICES ASSUME NEW d \in Answers, InsertsResume(d), call[d].run = call[c].run
                   PROVE  FALSE
      OBVIOUS
    <3>2. d # c
      BY ZenonT(40), <1>0, <1>1, <2>1, <3>1 DEF InsertsResume, Stays, TypeOK, Call
    <3>3. call[d].run \in held[d] /\ call[c].run \in held[c]
      BY <1>0, <2>1, <3>1 DEF Resuming, HoldsParent, InsertsResume
    <3> QED
      BY <1>0, <3>1, <3>2, <3>3 DEF HeldApart, Calls
  <2>2. call[c].at = "inserting" => ResumeChild(call[c].run)' = {}
    BY <1>0, <1>1, <2>1, ChildrenKept DEF HoldsParent, Stays, ResumeChild
  <2> QED
    BY <1>0, <1>1, <2>2, InterruptedKept DEF Stays, HoldsParent, ResumeChild
<1>2. CASE Ends(c) \/ Finds(c) \/ GoesOn(c)
  BY <1>2 DEF Ends, Finds, GoesOn, HoldsParent
<1>3. CASE TakesParent(c)
  BY <1>0, <1>3 DEF TakesParent, HoldsParent, TypeOK, Exists
<1>4. CASE FindsNone(c)
  BY <1>0, <1>4 DEF FindsNone, HoldsParent, ResumeChild, Exists
<1>5. CASE InsertsResume(c)
  BY <1>0, <1>5 DEF InsertsResume, HoldsParent, TypeOK, Call
<1> QED
  BY <1>0, <1>1, <1>2, <1>3, <1>4, <1>5, CallSteps, RequestsAssumption DEF Moves

\* A resume row is an old one, or is inserted by the call that holds its parent.
LEMMA ResumeRows ==
  ASSUME TypeOK, [Next]_vars, NEW r \in Runs, runs'[r].type = "resume"
  PROVE  \/ runs[r].type = "resume" /\ runs'[r].parent = runs[r].parent
         \/ \E c \in Answers : InsertsResume(c) /\ runs'[r].parent = call[c].run
BY RowsKept DEF RowsStay, RowStays, InsertsChat, InsertsChild, InsertsResume, Inserted

\* A run that waits for an answer.
Waits(p) == p \in Runs /\ Exists(p) /\ runs[p].status = "interrupted"

LEMMA ResumesContinueKept ==
  ASSUME Resuming, [Next]_vars
  PROVE  ResumesContinue'
<1>0. TypeOK /\ ResumesContinue
  BY DEF Resuming
<1>1. ASSUME NEW r \in Runs, runs'[r].type = "resume"
      PROVE  Waits(runs'[r].parent)
  <2>1. CASE runs[r].type = "resume" /\ runs'[r].parent = runs[r].parent
    BY <1>0, <2>1 DEF ResumesContinue, Waits
  <2>2. CASE \E c \in Answers : InsertsResume(c) /\ runs'[r].parent = call[c].run
    BY <2>2 DEF Resuming, HoldsParent, InsertsResume, Waits
  <2> QED
    BY <1>0, <1>1, <2>1, <2>2, ResumeRows
<1>2. ASSUME NEW r \in Runs, runs'[r].type = "resume"
      PROVE  /\ runs'[r].parent \in Runs
             /\ runs'[runs'[r].parent].type # "none"
             /\ runs'[runs'[r].parent].status = "interrupted"
  <2>1. PICK p \in Runs : p = runs'[r].parent /\ Waits(p)
    BY <1>1, <1>2 DEF Waits
  <2>2. Exists(p)' /\ runs'[p].status = "interrupted"
    BY <1>0, <2>1, InterruptedKept DEF Waits
  <2> QED
    BY <2>1, <2>2 DEF Exists
<1> QED
  BY <1>2 DEF ResumesContinue, Exists

LEMMA OneResumeKept ==
  ASSUME Resuming, [Next]_vars
  PROVE  OneResume'
<1>0. TypeOK /\ OneResume
  BY DEF Resuming
<1>1. CASE RowsStay
  BY <1>0, <1>1 DEF RowsStay, RowStays, OneResume
<1>2. ASSUME NEW c, InsertsChat(c) \/ InsertsChild(c)
      PROVE  OneResume'
  BY <1>0, <1>2 DEF InsertsChat, InsertsChild, Inserted, OneResume
<1>3. ASSUME NEW c \in Answers, InsertsResume(c)
      PROVE  OneResume'
  BY <1>0, <1>3 DEF Resuming, HoldsParent, InsertsResume, Inserted, OneResume, ResumeChild
<1> QED
  BY <1>0, <1>1, <1>2, <1>3, RowsKept

LEMMA ResumingKept == Resuming /\ [Next]_vars => Resuming'
BY NextTyped, HeldApartKept, HoldsParentKept, ResumesContinueKept, OneResumeKept DEF Resuming

\* A resume run continues a run that was interrupted and stays so, whatever
\* cancellations and failed enqueues name that run, and through every start-up.
THEOREM ParentsStayInterrupted == Spec => []ParentStaysInterrupted
<1>1. Resuming => ParentStaysInterrupted
  BY DEF Resuming, ResumesContinue, ParentStaysInterrupted
<1> QED
  BY <1>1, InitResuming, ResumingKept, PTL DEF Spec

\* Only a resumed or a spawned run has a parent, while no start-up relabels rows.
Roots == \A r \in Runs : runs[r].type \notin {"resume", "subagent"} => runs[r].parent = 0

LEMMA RootsKept ==
  ASSUME "startup" \notin Faults, TypeOK, Roots, [Next]_vars
  PROVE  Roots'
<1>1. CASE RowsStay
  BY <1>1 DEF RowsStay, RowStays, Roots
<1>2. ASSUME NEW c, InsertsChat(c) \/ InsertsResume(c) \/ InsertsChild(c)
      PROVE  Roots'
  BY <1>2 DEF InsertsChat, InsertsResume, InsertsChild, Inserted, Roots
<1> QED
  BY <1>1, <1>2, RowsKept

\* An interrupted run is resumed by one run at the most: however its answers are
\* repeated, delayed or interleaved, and whichever calls fail or crash, as long
\* as no worker start-up relabels the resume runs in between.
THEOREM AnsweredOnce ==
  ASSUME "startup" \notin Faults
  PROVE  Spec => []OneAnswer
<1>1. Init => Roots
  BY DEF Init, Roots, NoRow
<1>2. Resuming /\ Roots /\ [Next]_vars => Roots'
  BY RootsKept DEF Resuming
<1>3. Resuming /\ Roots => OneAnswer
  BY DEF Resuming, OneResume, Roots, OneAnswer
<1> QED
  BY <1>1, <1>2, <1>3, InitResuming, ResumingKept, PTL DEF Spec

-----------------------------------------------------------------------------
(* Cancellation.                                                           *)

JobsExist == \A r \in Runs : job[r] # "none" => Exists(r)

\* No run is its own child.
ChildrenApart == \A r \in Runs : runs[r].type = "subagent" => runs[r].parent # r

Stopping(r) == Exists(r) /\ runs[r].status \in Terminal \cup {"cancel_requested"}

\* The rows a cancel call listed are there; it comes to its own row when it has
\* the others, and to its commit when it has them all.
Covers(c) ==
  /\ call[c].at \in {"marking", "signalling", "done"}
       => /\ call[c].run \in Runs \ call[c].listed
          /\ \A r \in call[c].listed \cup {call[c].run} : Exists(r)
  /\ call[c].at = "marking"
       => /\ call[c].want \in call[c].listed \cup {call[c].run, 0}
          /\ call[c].want \in {call[c].run, 0} => call[c].listed \subseteq held[c]
          /\ call[c].want = 0 => call[c].run \in held[c]
  /\ call[c].at \in {"signalling", "done"}
       => \A r \in call[c].listed \cup {call[c].run} : Stopping(r)

Cancelling ==
  /\ Asking
  /\ JobsExist
  /\ ChildrenApart
  /\ \A c \in Stops : Covers(c)

LEMMA InitCancelling == Init => Cancelling
<1>1. Init => JobsExist /\ ChildrenApart /\ \A c \in Stops : Covers(c)
  BY DEF Init, JobsExist, ChildrenApart, Covers, NoRow, NewCall, Calls
<1> QED
  BY <1>1, InitAsking DEF Cancelling

\* A job is enqueued for, and taken by, a run that is in the table.
LEMMA JobSteps ==
  ASSUME Cancelling, [Next]_vars, NEW r \in Runs, job'[r] # "none"
  PROVE  Exists(r)
<1>0. TypeOK /\ JobsExist /\ \A c \in Asks \cup Answers : CallAsks(c)
  BY DEF Cancelling, Asking
<1>1. CASE job'[r] = job[r]
  BY <1>0, <1>1 DEF JobsExist
<1>2. ASSUME NEW c \in Asks \cup Answers, Enqueue(c), job'[r] # job[r]
      PROVE  Exists(r)
  <2>1. job' = [job EXCEPT ![call[c].got] = "queued"] /\ call[c].at = "enqueueing"
    BY <1>2 DEF Enqueue
  <2>2. r = call[c].got
    BY <1>0, <1>2, <2>1 DEF TypeOK
  <2> QED
    BY <1>0, <2>1, <2>2 DEF CallAsks
<1>3. ASSUME NEW s \in Runs, StartJob(s) \/ FinishJob(s), job'[r] # job[r]
      PROVE  Exists(r)
  <2>1. job[s] # "none" /\ r = s
    BY <1>0, <1>3 DEF TypeOK, StartJob, FinishJob
  <2> QED
    BY <1>0, <2>1 DEF JobsExist
<1>4. ASSUME NEW s \in Runs, EnqueueChild(s), job'[r] # job[r]
      PROVE  Exists(r)
  BY <1>0, <1>4 DEF TypeOK, EnqueueChild, Exists
<1>5. ASSUME NEW c \in Calls,
             CheckQuestion(c) \/ InsertChat(c) \/ LockParent(c) \/ LookForChild(c)
               \/ InsertResume(c) \/ MarkFailed(c) \/ ListChildren(c) \/ LockNext(c)
               \/ CommitCancel(c) \/ PublishSignals(c) \/ DeadlockDetected(c) \/ CrashCall(c)
      PROVE  UNCHANGED job
  BY <1>5, Zenon DEF CheckQuestion, InsertChat, LockParent, LookForChild, InsertResume,
     MarkFailed, ListChildren, LockNext, CommitCancel, PublishSignals, DeadlockDetected, CrashCall
<1>6. ASSUME NEW s \in Runs, Spawn(s)
      PROVE  UNCHANGED job
  BY <1>6, Zenon DEF Spawn
<1>7. EnsureTables \/ UNCHANGED vars => UNCHANGED job
  BY Zenon DEF EnsureTables, vars
<1> QED
  BY Steps, <1>1, <1>2, <1>3, <1>4, <1>5, <1>6, <1>7 DEF WorkerStep, Calls

LEMMA ChildrenApartKept ==
  ASSUME Cancelling, [Next]_vars
  PROVE  ChildrenApart'
<1>0. TypeOK /\ ChildrenApart /\ JobsExist
  BY DEF Cancelling, Asking
<1>1. CASE RowsStay
  BY <1>0, <1>1 DEF RowsStay, RowStays, ChildrenApart
<1>2. ASSUME NEW c, InsertsChat(c) \/ InsertsResume(c)
      PROVE  ChildrenApart'
  BY <1>0, <1>2 DEF InsertsChat, InsertsResume, Inserted, ChildrenApart
<1>3. ASSUME NEW p \in Runs, InsertsChild(p)
      PROVE  ChildrenApart'
  BY <1>0, <1>3 DEF InsertsChild, Inserted, ChildrenApart, JobsExist
<1> QED
  BY <1>0, <1>1, <1>2, <1>3, RowsKept

LEMMA StoppingKept ==
  ASSUME TypeOK, [Next]_vars, NEW r \in Runs, Stopping(r)
  PROVE  Stopping(r)'
BY RowsKept DEF RowsStay, RowStays, InsertsChat, InsertsResume, InsertsChild, Inserted, Exists,
   Stopping, Terminal

\* What a step does to a cancel call.
LEMMA StopSteps ==
  ASSUME TypeOK, [Next]_vars, NEW c \in Stops
  PROVE  \/ Stays(c) \/ Ends(c)
         \/ ListChildren(c) \/ LockNext(c) \/ CommitCancel(c) \/ PublishSignals(c)
<1>1. UNCHANGED <<call, held>> => Stays(c)
  BY DEF Stays
<1>2. ASSUME NEW r \in Runs, WorkerStep(r)
      PROVE  UNCHANGED <<call, held>>
  BY <1>2, Zenon DEF WorkerStep, StartJob, FinishJob, Spawn, EnqueueChild
<1>3. EnsureTables \/ UNCHANGED vars => UNCHANGED <<call, held>>
  BY Zenon DEF EnsureTables, vars
<1>4. ASSUME NEW d \in Asks \cup Answers
      PROVE  c \in Calls /\ d \in Calls /\ c # d
  BY RequestsAssumption DEF Calls
<1>5. DeadlockDetected(c) => Ends(c)
  BY RefuseMoves DEF DeadlockDetected, Calls
<1> QED
  BY Steps, <1>1, <1>2, <1>3, <1>4, <1>5, AskMoves, AnswerMoves, EnqueueMoves, CrashMoves,
     StopMoves DEF Calls

LEMMA ListCovers ==
  ASSUME Cancelling, NEW c \in Stops, ListChildren(c)
  PROVE  Covers(c)'
<1>0. TypeOK /\ ChildrenApart /\ c \in Calls
  BY DEF Cancelling, Asking, Calls
<1>1. PICK r \in Runs :
        /\ Exists(r)
        /\ \E k \in (IF ActiveChildren(r) = {} THEN {r} ELSE ActiveChildren(r)) :
             call' = [call EXCEPT ![c].at = "marking", ![c].run = r,
                                  ![c].listed = ActiveChildren(r), ![c].want = k]
  BY DEF ListChildren
<1>2. PICK k \in (IF ActiveChildren(r) = {} THEN {r} ELSE ActiveChildren(r)) :
        call' = [call EXCEPT ![c].at = "marking", ![c].run = r,
                             ![c].listed = ActiveChildren(r), ![c].want = k]
  BY <1>1
<1>3. /\ call'[c].at = "marking" /\ call'[c].run = r
      /\ call'[c].listed = ActiveChildren(r) /\ call'[c].want = k
  BY <1>0, <1>2 DEF TypeOK, Call
<1>4. /\ ActiveChildren(r) \subseteq Runs /\ r \notin ActiveChildren(r)
      /\ \A s \in ActiveChildren(r) : Exists(s)
  BY <1>0 DEF ActiveChildren, ChildrenApart, Exists
<1>5. k \in ActiveChildren(r) \cup {r} /\ k # 0
      /\ (k = r => ActiveChildren(r) = {})
  BY <1>2, <1>4, RunsBounded
<1>6. UNCHANGED runs
  BY DEF ListChildren
<1> QED
  BY <1>1, <1>3, <1>4, <1>5, <1>6 DEF Covers, Exists

LEMMA LockCovers ==
  ASSUME Cancelling, NEW c \in Stops, LockNext(c)
  PROVE  Covers(c)'
<1>0. /\ TypeOK /\ Covers(c) /\ c \in Calls /\ call[c].at = "marking"
      /\ call[c].listed \subseteq Runs
  BY DEF Cancelling, Asking, Calls, LockNext, TypeOK, Call
<1>1. PICK k \in (IF call[c].want = call[c].run THEN {0}
                  ELSE ToLock(c, call[c].listed \ (held[c] \cup {call[c].want}))) :
        call' = [call EXCEPT ![c].want = k]
  BY DEF LockNext
<1>2. /\ call'[c].at = "marking" /\ call'[c].run = call[c].run
      /\ call'[c].listed = call[c].listed /\ call'[c].want = k
  BY <1>0, <1>1 DEF TypeOK, Call
<1>3. held'[c] = held[c] \cup {call[c].want} /\ UNCHANGED runs /\ call[c].want # 0
  BY <1>0 DEF LockNext, TypeOK
<1>4. CASE call[c].want = call[c].run
  BY <1>0, <1>1, <1>2, <1>3, <1>4 DEF Covers, Exists
<1>5. CASE call[c].want # call[c].run
  <2> DEFINE left == call[c].listed \ (held[c] \cup {call[c].want})
  <2>1. k \in IF left = {} THEN {call[c].run} ELSE left
    BY <1>1, <1>5 DEF ToLock
  <2>2. CASE left = {}
    <3>1. k = call[c].run /\ call[c].listed \subseteq held'[c] /\ k # 0
      BY <1>0, <1>3, <2>1, <2>2, RunsBounded DEF Covers
    <3> QED
      BY <1>0, <1>2, <1>3, <3>1 DEF Covers, Exists
  <2>3. CASE left # {}
    <3>1. k \in call[c].listed /\ k # 0 /\ k # call[c].run
      BY <1>0, <2>1, <2>3, RunsBounded DEF Covers
    <3> QED
      BY <1>0, <1>2, <1>3, <3>1 DEF Covers, Exists
  <2> QED
    BY <2>2, <2>3
<1> QED
  BY <1>4, <1>5

LEMMA CommitCovers ==
  ASSUME Cancelling, NEW c \in Stops, CommitCancel(c)
  PROVE  Covers(c)'
<1>0. /\ TypeOK /\ Covers(c) /\ c \in Calls /\ call[c].at = "marking" /\ call[c].want = 0
      /\ call[c].listed \subseteq Runs
  BY DEF Cancelling, Asking, Calls, CommitCancel, TypeOK, Call
<1>1. /\ call'[c].at = "signalling" /\ call'[c].run = call[c].run
      /\ call'[c].listed = call[c].listed
  BY <1>0 DEF CommitCancel, Goto, TypeOK, Call
<1>2. call[c].listed \cup {call[c].run} \subseteq held[c]
  BY <1>0 DEF Covers
<1>3. ASSUME NEW r \in call[c].listed \cup {call[c].run}
      PROVE  Stopping(r)'
  <2>1. r \in Runs /\ Exists(r) /\ runs[r] \in AgentRun
    BY <1>0 DEF Covers, TypeOK
  <2>2. runs'[r] = RequestCancel(runs[r])
    BY <1>2, <2>1 DEF CommitCancel
  <2> QED
    BY <2>1, <2>2 DEF Stopping, Exists, RequestCancel, AgentRun
<1> QED
  BY <1>0, <1>1, <1>3 DEF Covers, Stopping

LEMMA CoversKept ==
  ASSUME Cancelling, [Next]_vars, NEW c \in Stops
  PROVE  Covers(c)'
<1>0. TypeOK /\ Covers(c) /\ c \in Calls /\ call[c].listed \subseteq Runs
  BY DEF Cancelling, Asking, Calls, TypeOK, Call
<1>1. CASE Stays(c)
  BY <1>0, <1>1, RequestKept, StoppingKept DEF Stays, Covers
<1>2. CASE Ends(c)
  BY <1>2 DEF Ends, Covers
<1>3. CASE PublishSignals(c)
  <2>1. /\ call[c].at = "signalling" /\ call'[c].at \in {"done", "refused"}
        /\ call'[c].run = call[c].run /\ call'[c].listed = call[c].listed
    BY <1>0, <1>3 DEF PublishSignals, Goto, TypeOK, Call
  <2> QED
    BY <1>0, <2>1, RequestKept, StoppingKept DEF Covers
<1> QED
  BY <1>0, <1>1, <1>2, <1>3, ListCovers, LockCovers, CommitCovers, StopSteps

LEMMA CancellingKept == Cancelling /\ [Next]_vars => Cancelling'
<1> SUFFICES ASSUME Cancelling, [Next]_vars PROVE Cancelling'
    OBVIOUS
<1>1. TypeOK /\ Asking'
  BY AskingKept DEF Cancelling, Asking
<1>2. JobsExist'
  BY <1>1, JobSteps, RequestKept DEF JobsExist
<1> QED
  BY <1>1, <1>2, ChildrenApartKept, CoversKept DEF Cancelling

\* A cancel call that has committed has stopped the run and every child it
\* listed, or they had stopped by themselves: whoever else cancels them, however
\* the locks are won, and whatever crashes.
THEOREM StopsCover == Spec => []StopCovers
<1>1. Cancelling => StopCovers
  BY DEF Cancelling, Covers, Stopping, StopCovers
<1> QED
  BY <1>1, InitCancelling, CancellingKept, PTL DEF Spec
=============================================================================
