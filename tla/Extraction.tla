------------------------------ MODULE Extraction ------------------------------
(***************************************************************************)
(* The text of a picture: calls of one Extractor, which makes a provider    *)
(* when it is first needed and asks one after the other until one has text, *)
(* and what the providers do.  RapidOCR works in a thread, PaddleOCR looks  *)
(* at its service and sends it one request, Unlimited-OCR gives its service *)
(* a task, asks for its state until a deadline and fetches the result.      *)
(*                                                                         *)
(* The services are outside.  A request takes no time against the interval  *)
(* of the polling.  The parser gives an Extractor one file and says which    *)
(* provider it wants; the order of the providers and the locks are for those *)
(* who share one and do not say.                                            *)
(***************************************************************************)
EXTENDS Integers, Sequences

CONSTANTS
  Calls,
  Nobody,       \* not one of them
  Kinds,        \* per kind of file: the providers that support it
  Types,        \* the values of extractor_type that callers give, Any for none
  Configured,   \* the providers whose configuration is complete
  PollInterval, \* unlimited_ocr_poll_interval_seconds
  PollTimeout,  \* unlimited_ocr_poll_timeout_seconds
  MaxClock,     \* bound on time
  MaxFaults     \* bound on what fails

VARIABLES
  made,   \* _providers: how often a provider was put there
  lock,   \* _locks: who holds the lock of a provider
  call,
  task,   \* what the service of Unlimited-OCR does for each call
  clock,
  faults

vars == <<made, lock, call, task, clock, faults>>

Order == <<"rapidocr", "paddleocr", "unlimitedocr">>

Providers == {Order[i] : i \in DOMAIN Order}

\* extractor_type is not given.
Any == "any"

Stage == {"idle", "selecting", "locking", "making", "reading", "probing", "posting",
          "token", "submitting", "polling", "sleeping", "fetching", "over"}

\* `turn` is the place of the provider in Order; `late` says that the deadline
\* ended the polling.
Call == [at : Stage, chosen : Providers \cup {Any}, support : SUBSET Providers,
         turn : DOMAIN Order, failures : SUBSET Providers,
         deadline : Nat, wake : Nat, late : BOOLEAN,
         answer : {"none", "text", "failed", "unsupported", "aborted"}]

NewCall == [at |-> "idle", chosen |-> Any, support |-> {}, turn |-> 1, failures |-> {},
            deadline |-> 0, wake |-> 0, late |-> FALSE, answer |-> "none"]

\* `ended` is when it was done.
Task == [state : {"none", "running", "success", "failed"}, ended : 0..MaxClock]

TypeOK ==
  /\ made \in [Providers -> Nat]
  /\ lock \in [Providers -> Calls \cup {Nobody}]
  /\ call \in [Calls -> Call]
  /\ task \in [Calls -> Task]
  /\ clock \in 0..MaxClock
  /\ faults \in 0..MaxFaults

Init ==
  /\ made = [p \in Providers |-> 0]
  /\ lock = [p \in Providers |-> Nobody]
  /\ call = [c \in Calls |-> NewCall]
  /\ task = [c \in Calls |-> [state |-> "none", ended |-> 0]]
  /\ clock = 0
  /\ faults = 0

Fault == faults < MaxFaults /\ faults' = faults + 1

At(c, stage) == call[c].at = stage

Goto(c, stage) == call' = [call EXCEPT ![c].at = stage]

Asked(r) == Order[r.turn]

-----------------------------------------------------------------------------
(* Extractor.  The following say what becomes of a call r.                  *)

Answered(r, answer) == [r EXCEPT !.at = "over", !.answer = answer]

\* The next turn of the loop of extractor_file, or what it raises after the last.
NextTurn(r) ==
  IF r.turn < Len(Order) THEN [r EXCEPT !.at = "selecting", !.turn = @ + 1]
  ELSE Answered(r, IF r.failures = {} THEN "unsupported" ELSE "failed")

\* A provider could not be made, failed or found no text.  One that was chosen
\* has no successor: ImageParser raises.
Refused(r) ==
  IF r.chosen = Any THEN NextTurn([r EXCEPT !.failures = @ \cup {Asked(r)}])
  ELSE Answered(r, "failed")

\* Where a provider begins: without its configuration it does not.
Begun(r) ==
  IF Asked(r) \notin Configured THEN Refused(r)
  ELSE [r EXCEPT !.at = CASE Asked(r) = "rapidocr" -> "reading"
                          [] Asked(r) = "paddleocr" -> "probing"
                          [] Asked(r) = "unlimitedocr" -> "token"]

\* The provider is there.
Offered(r) ==
  CASE Asked(r) \in r.support -> Begun(r)
    [] Asked(r) \notin r.support /\ r.chosen = Any -> NextTurn(r)
    [] OTHER -> Answered(r, "unsupported")

Becomes(c, r) == call' = [call EXCEPT ![c] = r]

StartCall(c) ==
  /\ At(c, "idle")
  /\ \E support \in Kinds, chosen \in Types :
       Becomes(c, [NewCall EXCEPT
                     !.at = "selecting", !.support = support, !.chosen = chosen,
                     !.turn = IF chosen = Any THEN 1
                              ELSE CHOOSE i \in DOMAIN Order : Order[i] = chosen])
  /\ UNCHANGED <<made, lock, task, clock, faults>>

\* _get_provider: one that is there is taken without the lock.
GetProvider(c) ==
  /\ At(c, "selecting")
  /\ IF made[Asked(call[c])] > 0 THEN Becomes(c, Offered(call[c])) ELSE Goto(c, "locking")
  /\ UNCHANGED <<made, lock, task, clock, faults>>

\* A slip: the second look is left out.
NotThere(p) == FALSE

\* The second look, under the lock.
MadeMeanwhile(p) == made[p] > 0

LockProvider(c) ==
  LET p == Asked(call[c]) IN
  /\ At(c, "locking") /\ lock[p] = Nobody
  /\ IF MadeMeanwhile(p) THEN Becomes(c, Offered(call[c])) /\ UNCHANGED lock
     ELSE Goto(c, "making") /\ lock' = [lock EXCEPT ![p] = c]
  /\ UNCHANGED <<made, task, clock, faults>>

\* _construct_default_provider, in a thread.
MakeProvider(c) ==
  LET p == Asked(call[c]) IN
  /\ At(c, "making")
  /\ lock' = [lock EXCEPT ![p] = Nobody]
  /\ \/ /\ made' = [made EXCEPT ![p] = @ + 1]
        /\ Becomes(c, Offered(call[c]))
        /\ UNCHANGED faults
     \/ Fault /\ Becomes(c, Refused(call[c])) /\ UNCHANGED made
  /\ UNCHANGED <<task, clock>>

-----------------------------------------------------------------------------
(* The providers: any of their requests may fail.                          *)

Fails(c, stage) ==
  /\ At(c, stage)
  /\ Fault
  /\ Becomes(c, Refused(call[c]))

\* A request without a consequence of its own, and the stage after it.
Request(c, stage, after) ==
  /\ \/ At(c, stage) /\ Goto(c, after) /\ UNCHANGED faults
     \/ Fails(c, stage)
  /\ UNCHANGED <<made, lock, task, clock>>

\* The last one: text, or none and the turn of the next provider.
Text(c, stage) ==
  /\ \/ At(c, stage) /\ Becomes(c, Answered(call[c], "text")) /\ UNCHANGED faults
     \/ Fails(c, stage)
  /\ UNCHANGED <<made, lock, task, clock>>

RunRapidOCR(c) == Text(c, "reading")

CheckPaddleOCR(c) == Request(c, "probing", "posting")

CallPaddleOCR(c) == Text(c, "posting")

GetAccessToken(c) == Request(c, "token", "submitting")

\* The service may have a task whose answer did not arrive.
SubmitTask(c) ==
  /\ \/ /\ At(c, "submitting")
        /\ call' = [call EXCEPT ![c].at = "polling", ![c].deadline = clock + PollTimeout]
        /\ task' = [task EXCEPT ![c].state = "running"]
        /\ UNCHANGED faults
     \/ /\ Fails(c, "submitting")
        /\ task' \in {task, [task EXCEPT ![c].state = "running"]}
  /\ UNCHANGED <<made, lock, clock>>

\* _wait_for_result: the last look is at the deadline.
Slept(r) ==
  LET remaining == r.deadline - clock
      pause == IF PollInterval < remaining THEN PollInterval ELSE remaining
  IN  IF remaining <= 0 THEN Refused([r EXCEPT !.late = TRUE])
      ELSE [r EXCEPT !.at = "sleeping", !.wake = clock + pause]

QueryTask(c) ==
  /\ \/ /\ At(c, "polling")
        /\ Becomes(c, CASE task[c].state = "success" -> [call[c] EXCEPT !.at = "fetching"]
                        [] task[c].state = "failed" -> Refused(call[c])
                        [] task[c].state = "running" -> Slept(call[c]))
        /\ UNCHANGED faults
     \/ Fails(c, "polling")
  /\ UNCHANGED <<made, lock, task, clock>>

Wake(c) ==
  /\ At(c, "sleeping") /\ clock >= call[c].wake
  /\ Goto(c, "polling")
  /\ UNCHANGED <<made, lock, task, clock, faults>>

DownloadMarkdown(c) == Text(c, "fetching")

-----------------------------------------------------------------------------
(* Around them.                                                            *)

\* The service ends a task, also one that nobody asks for any more.
TaskEnds(c) ==
  /\ task[c].state = "running"
  /\ \E state \in {"success", "failed"} :
       task' = [task EXCEPT ![c] = [state |-> state, ended |-> clock]]
  /\ UNCHANGED <<made, lock, call, clock, faults>>

\* The task of the call is cancelled.  A thread that makes a provider goes on,
\* and what it makes is dropped.
Abort(c) ==
  /\ call[c].at \notin {"idle", "over"}
  /\ Fault
  /\ Becomes(c, Answered(call[c], "aborted"))
  /\ lock' = [p \in Providers |-> IF lock[p] = c THEN Nobody ELSE lock[p]]
  /\ UNCHANGED <<made, task, clock>>

Tick ==
  /\ clock < MaxClock
  /\ \A c \in Calls : ~At(c, "polling") /\ (At(c, "sleeping") => clock < call[c].wake)
  /\ clock' = clock + 1
  /\ UNCHANGED <<made, lock, call, task, faults>>

Next ==
  \/ \E c \in Calls :
       \/ StartCall(c) \/ GetProvider(c) \/ LockProvider(c) \/ MakeProvider(c)
       \/ RunRapidOCR(c) \/ CheckPaddleOCR(c) \/ CallPaddleOCR(c)
       \/ GetAccessToken(c) \/ SubmitTask(c) \/ QueryTask(c) \/ Wake(c)
       \/ DownloadMarkdown(c) \/ TaskEnds(c) \/ Abort(c)
  \/ Tick

Spec == Init /\ [][Next]_vars

-----------------------------------------------------------------------------
(* What must hold.                                                         *)

\* RapidOCR loads its models once, however many calls need it first and whichever
\* of them fails or is aborted while it is made; and nobody waits for a lock of a
\* call that has gone.
MadeOnce ==
  \A p \in Providers :
    /\ made[p] <= 1
    /\ lock[p] # Nobody => At(lock[p], "making") /\ Asked(call[lock[p]]) = p

\* An answer comes from the first provider that has one, a failure means that all
\* that support the file have failed, and a file is called unsupported only when
\* nobody who was asked supports it.
FirstThatCan ==
  \A c \in Calls : LET r == call[c] IN
    /\ r.chosen = Any /\ r.answer = "text" =>
         \A i \in 1..(r.turn - 1) : Order[i] \in r.support => Order[i] \in r.failures
    /\ r.answer = "text" => Asked(r) \in r.support
    /\ r.chosen = Any /\ r.answer = "failed" => r.support \subseteq r.failures
    /\ r.answer = "unsupported" =>
         r.support \cap (IF r.chosen = Any THEN Providers ELSE {r.chosen}) = {}

\* A call does not give up on a task that was done before its deadline.
DoneIsFetched ==
  \A c \in Calls : call[c].late => task[c].state = "running" \/ task[c].ended >= call[c].deadline

\* What the parser is told is what the providers did.
TextIsFound == MadeOnce /\ FirstThatCan /\ DoneIsFetched
=============================================================================
