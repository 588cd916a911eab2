----------------------------- MODULE ThreadStream -----------------------------
(***************************************************************************)
(* The generator a worker iterates over for one run: it lets the graph     *)
(* run, turns its events into chunks, saves the messages of the checkpoint *)
(* and tells how the run ended.  All runs of a thread share the thread's   *)
(* checkpoint and its message table.                                       *)
(*                                                                         *)
(* LangGraph is outside: a graph starts from the checkpoint, and each of   *)
(* its steps replaces the checkpoint by its own state.  The worker is here *)
(* only as the reader of the chunks (RunWorker has the rest).              *)
(***************************************************************************)
EXTENDS Naturals, FiniteSets, Sequences

CONSTANTS
  Runs,        \* the runs of the thread
  MaxActive,   \* how many are run at a time
  MaxMessages, \* bound on the messages the graphs produce
  Faults,      \* the faults that may occur, a subset of FaultKinds
  MaxFaults    \* bound on their number

FaultKinds ==
  {"graph",     \* the model, a tool or the event stream raises
   "database",  \* a statement of a save fails
   "cancel",    \* the worker closes the generator
   "missing"}   \* the agent or the conversation is not there

VARIABLES
  produced,   \* the messages so far, each with the run that produced it
  checkpoint, \* the messages of the latest checkpoint
  asked,      \* whether it ends in an interrupt
  messages,   \* the assistant messages in the message table
  results,    \* the tool calls in the tool_call table
  run,        \* the runs and their generators
  faults      \* faults so far

vars == <<produced, checkpoint, asked, messages, results, run, faults>>

Ids == 1..MaxMessages

\* A message of the graph: the answer of the model, which may call a tool, or
\* what the tool returned.
Produced == [run : Runs, type : {"ai", "call", "tool"}]

\* A row: `of` is its langgraph_message_id, 0 when it holds what was streamed
\* before a failure, and `save` the transaction of its run that added it.
Row == [of : 0..MaxMessages, run : Runs, save : {"first", "second", "failure"}]

Stage == {"idle", "streaming", "saving", "committing", "checking",
          "saving again", "closing", "over"}

Chunk == {"none", "finished", "interrupted", "ask_human", "error"}

\* `state` is what the graph's own list of messages holds, in the order in which
\* they were produced, which is the order of their numbers; `rows` and `done` the
\* messages the open transaction adds to the two tables, `output` the row that
\* output_message_id names, if it names one, and `chunk` the one that ended the run.
Run == [at : Stage, kind : {"chat", "resume"}, state : SUBSET Ids,
        rows : SUBSET Ids, done : SUBSET Ids, output : SUBSET Row, chunk : Chunk,
        status : {"pending", "running", "completed", "interrupted", "failed", "cancelled"}]

NewRun == [at |-> "idle", kind |-> "chat", state |-> {},
           rows |-> {}, done |-> {}, output |-> {}, chunk |-> "none", status |-> "pending"]

TypeOK ==
  /\ produced \in Seq(Produced) /\ Len(produced) <= MaxMessages
  /\ checkpoint \subseteq Ids
  /\ asked \in BOOLEAN
  /\ messages \subseteq Row
  /\ results \subseteq Ids
  /\ run \in [Runs -> Run]
  /\ faults \in 0..MaxFaults

Init ==
  /\ produced = <<>>
  /\ checkpoint = {}
  /\ asked = FALSE
  /\ messages = {}
  /\ results = {}
  /\ run = [r \in Runs |-> NewRun]
  /\ faults = 0

Fault(f) == f \in Faults /\ faults < MaxFaults /\ faults' = faults + 1

Active == {r \in Runs : run[r].at \notin {"idle", "over"}}

Goto(r, stage) == run' = [run EXCEPT ![r].at = stage]

\* The reader closes the generator, and a transaction that is open is lost.
End(r, chunk, status) ==
  run' = [run EXCEPT ![r].at = "over", ![r].chunk = chunk, ![r].status = status,
                     ![r].rows = {}, ![r].done = {}]

\* What the worker makes of the chunk that ends a run.  It knows no "ask_human":
\* map_stream_event returns no pair for it, and unpacking raises.
StatusOf(chunk) ==
  CASE chunk = "finished" -> "completed"
    [] chunk = "interrupted" -> "interrupted"
    [] chunk \in {"error", "ask_human"} -> "failed"

Yield(r, chunk) == End(r, chunk, StatusOf(chunk))

-----------------------------------------------------------------------------
(* The graph.                                                              *)

\* stream_agent_response, resume_agent_response.  A message to a graph that
\* waits for an answer makes it forget the question.
Start(r) ==
  /\ run[r].at = "idle"
  /\ Cardinality(Active) < MaxActive
  /\ \/ /\ run' = [run EXCEPT ![r].at = "streaming", ![r].status = "running",
                              ![r].state = checkpoint]
        /\ asked' = FALSE
        /\ UNCHANGED faults
     \/ /\ asked
        /\ run' = [run EXCEPT ![r].at = "streaming", ![r].status = "running",
                              ![r].kind = "resume", ![r].state = checkpoint]
        /\ UNCHANGED <<asked, faults>>
     \/ Fault("missing") /\ Yield(r, "error") /\ UNCHANGED asked
  /\ UNCHANGED <<produced, checkpoint, messages, results>>

\* The call of _stream_agent_event_chunks lacks an argument: nothing is read
\* from the graph, and the error chunk is all there is.
Resume(r) ==
  /\ run[r].at = "streaming" /\ run[r].kind = "resume"
  /\ Yield(r, "error")
  /\ UNCHANGED <<produced, checkpoint, asked, messages, results, faults>>

Streaming(r) == run[r].at = "streaming" /\ run[r].kind = "chat"

Newest(S) == {m \in S : \A k \in S : k <= m}

\* The last message is one of the run's own.
LastIs(r, type) ==
  \E m \in Newest(run[r].state) : produced[m] = [run |-> r, type |-> type]

\* A step of the graph ends with a message in its state and a checkpoint of it.
\* A tool answers the call before it.  The events in between only become chunks
\* (_stream_agent_event_chunks), which change nothing here.
Produce(r) ==
  /\ Streaming(r)
  /\ Len(produced) < MaxMessages
  /\ \E type \in {"ai", "call", "tool"} :
       /\ (type = "tool") = LastIs(r, "call")
       /\ produced' = Append(produced, [run |-> r, type |-> type])
       /\ run' = [run EXCEPT ![r].state = @ \cup {Len(produced) + 1}]
       /\ checkpoint' = run'[r].state
  /\ UNCHANGED <<asked, messages, results, faults>>

\* The model has answered without calling a tool, or the tool that was called
\* asks the user (interrupt()).
Finish(r) ==
  /\ Streaming(r)
  /\ \/ LastIs(r, "ai") /\ UNCHANGED asked
     \/ LastIs(r, "call") /\ asked' = TRUE
  /\ Goto(r, "saving")
  /\ UNCHANGED <<produced, checkpoint, messages, results, faults>>

-----------------------------------------------------------------------------
(* save_message_from_langgraph_state.                                      *)

RowsOf(m) == {x \in messages : x.of = m}

InCheckpoint(types) == {m \in checkpoint : produced[m].type \in types}

Assistant == InCheckpoint({"ai", "call"})

\* get_message_by_langgraph_id finds several rows: MultipleResultsFound.
SaveRaises == \E m \in Assistant : Cardinality(RowsOf(m)) > 1

Saving(r) == run[r].at \in {"saving", "saving again"}

SaveFails(r) == IF Saving(r) /\ SaveRaises THEN UNCHANGED faults ELSE Fault("database")

\* Each of the messages becomes a row of this run.
Add(r, new) ==
  /\ run' = [run EXCEPT ![r].rows = new, ![r].done = InCheckpoint({"tool"}),
                        ![r].at = IF @ = "saving" THEN "committing" ELSE "closing"]
  /\ UNCHANGED <<produced, checkpoint, asked, messages, results, faults>>

\* Plausible slips: a message is not looked for before it is added; the last
\* message, which the run ends with, is left out.
AddMessagesAgain(r) == Saving(r) /\ Add(r, Assistant)

AddMessagesButLast(r) ==
  /\ Saving(r) /\ ~SaveRaises
  /\ Add(r, {m \in Assistant \ Newest(checkpoint) : RowsOf(m) = {}})

\* save_ai_message, save_tool_message: a message that has a row is not added
\* again, and every tool message is the result of its call.
AddMessages(r) ==
  /\ Saving(r) /\ ~SaveRaises
  /\ Add(r, {m \in Assistant : RowsOf(m) = {}})

\* The row of the last message of the checkpoint that is this run's.
OutputOf(r, table) ==
  LET own == {x \in table : x.run = r /\ x.of \in Assistant}
  IN  IF own = {} THEN run[r].output ELSE {x \in own : \A y \in own : y.of <= x.of}

RowsToAdd(r) ==
  {[of |-> m, run |-> r, save |-> IF run[r].at = "committing" THEN "first" ELSE "second"] :
     m \in run[r].rows}

Commit(r) ==
  /\ messages' = messages \cup RowsToAdd(r)
  /\ results' = results \cup run[r].done
  /\ run' = [run EXCEPT ![r].at = IF @ = "committing" THEN "checking" ELSE "over",
                        ![r].chunk = IF run[r].at = "committing" THEN @ ELSE "finished",
                        ![r].status = IF run[r].at = "committing" THEN @
                                      ELSE StatusOf("finished"),
                        ![r].output = OutputOf(r, messages'),
                        ![r].rows = {}, ![r].done = {}]

\* The first save, and the second with the chunk that follows it.
CommitMessages(r) ==
  /\ run[r].at \in {"committing", "closing"}
  /\ Commit(r)
  /\ UNCHANGED <<produced, checkpoint, asked, faults>>

\* check_agent_interrupt_handler: a question is a chunk of its own, and the
\* worker's last one.
CheckInterrupt(r) ==
  /\ run[r].at = "checking"
  /\ IF asked THEN Yield(r, "ask_human") ELSE Goto(r, "saving again")
  /\ UNCHANGED <<produced, checkpoint, asked, messages, results, faults>>

\* Whatever is raised before the interrupt check: the transaction is lost,
\* save_interrupt_message adds a row with the text so far, even when there is
\* none, unless that fails as well, and the last chunk is an error.
Fail(r) ==
  /\ \/ Streaming(r) /\ Fault("graph")
     \/ run[r].at \in {"saving", "committing"} /\ SaveFails(r)
  /\ \/ LET text == [of |-> 0, run |-> r, save |-> "failure"] IN
        /\ messages' = messages \cup {text}
        /\ run' = [run EXCEPT ![r].at = "over", ![r].chunk = "error",
                              ![r].status = StatusOf("error"), ![r].rows = {},
                              ![r].done = {}, ![r].output = {text}]
     \/ Yield(r, "error") /\ UNCHANGED messages
  /\ UNCHANGED <<produced, checkpoint, asked, results>>

\* The second save fails: an error chunk without a text, and then, to no effect,
\* a finished one.
FailLate(r) ==
  /\ run[r].at \in {"saving again", "closing"}
  /\ SaveFails(r)
  /\ Yield(r, "error")
  /\ UNCHANGED <<produced, checkpoint, asked, messages, results>>

\* The worker closes the generator: neither except clause sees it, and nothing
\* is saved.
Cancel(r) ==
  /\ r \in Active
  /\ Fault("cancel")
  /\ End(r, "none", "cancelled")
  /\ UNCHANGED <<produced, checkpoint, asked, messages, results>>

Next ==
  \E r \in Runs :
    \/ Start(r) \/ Resume(r) \/ Produce(r) \/ Finish(r)
    \/ AddMessages(r) \/ CommitMessages(r) \/ CheckInterrupt(r)
    \/ Fail(r) \/ FailLate(r) \/ Cancel(r)

Spec == Init /\ [][Next]_vars

-----------------------------------------------------------------------------
(* What must hold.                                                         *)

\* A message of the checkpoint is saved once, although every run reads the whole
\* history of its thread, and reads it twice.
SavedOnce == \A m \in Ids : Cardinality(RowsOf(m)) <= 1

Answers(r) == {m \in DOMAIN produced : produced[m].run = r /\ produced[m].type # "tool"}

\* A run that is completed has every message and tool result of its graph in the
\* tables, and its output_message_id names the last of them, not one of an
\* earlier run that its checkpoint holds as well, nor the text of a failure.
CompletedIsSaved ==
  \A r \in Runs : run[r].status = "completed" =>
    /\ \A m \in Answers(r) : RowsOf(m) # {}
    /\ \A m \in DOMAIN produced :
         produced[m].run = r /\ produced[m].type = "tool" => m \in results
    /\ run[r].output \subseteq messages
    /\ \E x \in run[r].output :
         x.run = r /\ \A m \in Answers(r) : m <= x.of

===============================================================================
