------------------------------- MODULE Composer --------------------------------
(***************************************************************************)
(* The input of the chat page: what the user types and uploads, and the     *)
(* handlers of the page that run while he goes on (ChatView's submit,       *)
(* submitResume, loadThread, uploadFiles and stop).  A handler stops at its *)
(* next await once another one has taken `operation` from it, an upload     *)
(* once the page was left (uploadGeneration).                               *)
(*                                                                         *)
(* What the page shows of a run is RunMonitor's and LiveMessages'; here a   *)
(* run is active, may ask, and ends.                                        *)
(***************************************************************************)
EXTENDS Integers, FiniteSets, Sequences

CONSTANTS
  MaxItems,    \* bound on the texts and files
  MaxHandlers, \* bound on the submissions, answers and threads opened
  MaxVisits    \* bound on the pages opened

VARIABLES
  hasThread,  \* ChatView: thread
  operation, generation,
  draft, attachments, uploading, submitting, loading,  \* useChat
  runStatus, question, resuming,                       \* useAgentRun
  handlers,   \* the calls of submit, submitResume and loadThread, in their order
  uploads,    \* the uploads under way
  runs,       \* the runs this page has created (for the properties)
  given,      \* the items of this page that were not taken back (for the properties)
  items,      \* how many there were, and how many pages
  visits,
  answeredEarly \* a question was answered before submit had returned

vars == <<hasThread, operation, generation, draft, attachments, uploading, submitting, loading,
          runStatus, question, resuming, handlers, uploads, runs, given, items, visits,
          answeredEarly>>

Items == 1..MaxItems

NoText == 0

\* `text` and `files` are what a submission took from the input.
Handler ==
  [kind : {"submit", "resume", "load"}, operation : Nat,
   text : {NoText} \cup Items, files : SUBSET Items,
   at : {"thread", "create", "detail", "post", "monitor", "reload", "over"}]

TypeOK ==
  /\ {hasThread, submitting, loading, question, resuming, answeredEarly} \subseteq BOOLEAN
  /\ operation \in Nat /\ generation \in Nat
  /\ draft \in {NoText} \cup Items /\ attachments \subseteq Items
  /\ uploading \in 0..MaxItems
  /\ runStatus \in {"none", "active", "ended"}
  /\ handlers \in Seq(Handler)
  /\ uploads \subseteq [item : Items, generation : Nat]
  /\ runs \subseteq [items : SUBSET Items, answered : BOOLEAN]
  /\ given \subseteq Items /\ items \in 0..MaxItems /\ visits \in 1..MaxVisits

Init ==
  /\ hasThread = FALSE /\ operation = 0 /\ generation = 0
  /\ draft = NoText /\ attachments = {} /\ uploading = 0 /\ submitting = FALSE
  /\ loading = FALSE /\ runStatus = "none" /\ question = FALSE /\ resuming = FALSE
  /\ handlers = << >> /\ uploads = {} /\ runs = {} /\ given = {} /\ items = 0
  /\ visits = 1 /\ answeredEarly = FALSE

InputDisabled == loading \/ resuming \/ question \/ (submitting /\ runStatus # "active")

InputOf(text, files) == files \cup (IF text = NoText THEN {} ELSE {text})

Composed == InputOf(draft, attachments)

Taken(h) == InputOf(handlers[h].text, handlers[h].files)

-----------------------------------------------------------------------------
(* The user's input.                                                       *)

Type ==
  /\ ~InputDisabled /\ items < MaxItems
  /\ items' = items + 1
  /\ draft' = items'
  /\ given' = (given \ {draft}) \cup {items'}
  /\ UNCHANGED <<hasThread, operation, generation, attachments, uploading, submitting, loading,
                 runStatus, question, resuming, handlers, uploads, runs, visits, answeredEarly>>

\* uploadFiles, of one file.
StartUpload ==
  /\ ~InputDisabled /\ items < MaxItems
  /\ items' = items + 1
  /\ uploading' = uploading + 1
  /\ uploads' = uploads \cup {[item |-> items', generation |-> generation]}
  /\ UNCHANGED <<hasThread, operation, generation, draft, attachments, submitting, loading,
                 runStatus, question, resuming, handlers, runs, given, visits, answeredEarly>>

\* Plausible slip: an upload is taken for one of the page that is shown.
AnyUpload(upload) == TRUE

OfThisPage(upload) == upload.generation = generation

\* The file comes, or does not.
FinishUpload(upload) ==
  /\ upload \in uploads
  /\ uploads' = uploads \ {upload}
  /\ uploading' = IF OfThisPage(upload) /\ uploading > 0 THEN uploading - 1 ELSE uploading
  /\ \/ /\ attachments' = attachments \cup {i \in {upload.item} : OfThisPage(upload)}
        /\ given' = given \cup {i \in {upload.item} : upload.generation = generation}
     \/ UNCHANGED <<attachments, given>>
  /\ UNCHANGED <<hasThread, operation, generation, draft, submitting, loading, runStatus,
                 question, resuming, handlers, runs, items, visits, answeredEarly>>

RemoveAttachment(item) ==
  /\ item \in attachments
  /\ attachments' = attachments \ {item}
  /\ given' = given \ {item}
  /\ UNCHANGED <<hasThread, operation, generation, draft, uploading, submitting, loading,
                 runStatus, question, resuming, handlers, uploads, runs, items, visits,
                 answeredEarly>>

-----------------------------------------------------------------------------
(* submit.                                                                 *)

At(h, place) == handlers[h].at = place
Goes(h, place) == handlers' = [handlers EXCEPT ![h].at = place]
Current(h) == handlers[h].operation = operation

Call(kind, place, text, files) ==
  /\ Len(handlers) < MaxHandlers
  /\ operation' = operation + 1
  /\ handlers' = Append(handlers, [kind |-> kind, operation |-> operation', text |-> text,
                                   files |-> files, at |-> place])

Submit ==
  /\ ~InputDisabled /\ runStatus # "active"
  /\ Composed # {} /\ uploading = 0 /\ ~submitting
  /\ Call("submit", IF hasThread THEN "create" ELSE "thread", draft, attachments)
  /\ draft' = NoText /\ attachments' = {} /\ submitting' = TRUE
  /\ UNCHANGED <<hasThread, generation, uploading, loading, runStatus, question, resuming,
                 uploads, runs, given, items, visits, answeredEarly>>

\* A handler whose operation is over returns at its next await.
Superseded(h) ==
  /\ ~Current(h) /\ handlers[h].at \in {"thread", "detail", "monitor", "reload"}
  /\ Goes(h, "over")
  /\ UNCHANGED <<hasThread, operation, generation, draft, attachments, uploading, submitting,
                 loading, runStatus, question, resuming, uploads, runs, given, items, visits,
                 answeredEarly>>

\* The catch and the finally of submit, for the operation it belongs to:
\* rollbackSubmission.
SubmitFails(h) ==
  /\ Goes(h, "over")
  /\ draft' = handlers[h].text /\ attachments' = handlers[h].files
  /\ submitting' = FALSE

\* createThread.
ThreadAnswers(h) ==
  /\ At(h, "thread") /\ Current(h)
  /\ \/ /\ hasThread' = TRUE
        /\ Goes(h, "create")
        /\ UNCHANGED <<draft, attachments, submitting>>
     \/ /\ SubmitFails(h)
        /\ UNCHANGED hasThread
  /\ UNCHANGED <<operation, generation, uploading, loading, runStatus, question, resuming,
                 uploads, runs, given, items, visits, answeredEarly>>

\* createRun: the server creates the run and answers, creates it and does not
\* answer, or refuses.
RunAnswers(h) ==
  /\ At(h, "create")
  /\ \E created, answered \in BOOLEAN :
       /\ answered => created
       /\ runs' = IF created /\ Current(h)
                  THEN runs \cup {[items |-> Taken(h), answered |-> answered]} ELSE runs
       /\ IF ~Current(h)
          THEN Goes(h, "over") /\ UNCHANGED <<draft, attachments, submitting, runStatus>>
          ELSE IF answered
          THEN /\ Goes(h, "detail") /\ runStatus' = "active"
               /\ UNCHANGED <<draft, attachments, submitting>>
          ELSE SubmitFails(h) /\ UNCHANGED runStatus
  /\ UNCHANGED <<hasThread, operation, generation, uploading, loading, question, resuming,
                 uploads, given, items, visits, answeredEarly>>

-----------------------------------------------------------------------------
(* The run: its monitor is awaited by submit and submitResume.             *)

\* What comes after the last await of a handler.
Returns(h) ==
  /\ Goes(h, "over")
  /\ submitting' = IF handlers[h].kind = "submit" THEN FALSE ELSE submitting

\* loadAndApplyThread after the run was created: it may be over by now, with a
\* question or without, and the detail may not come.
DetailAnswers(h) ==
  /\ At(h, "detail") /\ Current(h) /\ handlers[h].kind = "submit"
  /\ \/ Goes(h, "monitor") /\ UNCHANGED <<submitting, runStatus, question>>
     \/ Returns(h) /\ runStatus' = "ended" /\ question' \in BOOLEAN
  /\ UNCHANGED <<hasThread, operation, generation, draft, attachments, uploading, loading,
                 resuming, uploads, runs, given, items, visits, answeredEarly>>

\* interaction_required: the question is shown at once.
QuestionComes(h) ==
  /\ At(h, "monitor") /\ Current(h)
  /\ runStatus = "active" /\ ~question
  /\ question' = TRUE
  /\ UNCHANGED <<hasThread, operation, generation, draft, attachments, uploading, submitting,
                 loading, runStatus, resuming, handlers, uploads, runs, given, items, visits,
                 answeredEarly>>

\* The end event; the detail is asked for before the monitor returns.
EndComes(h) ==
  /\ At(h, "monitor") /\ Current(h)
  /\ runStatus' = "ended"
  /\ Goes(h, "reload")
  /\ UNCHANGED <<hasThread, operation, generation, draft, attachments, uploading, submitting,
                 loading, question, resuming, uploads, runs, given, items, visits,
                 answeredEarly>>

ReloadAnswers(h) ==
  /\ At(h, "reload") /\ Current(h)
  /\ Returns(h)
  /\ UNCHANGED <<hasThread, operation, generation, draft, attachments, uploading, loading,
                 runStatus, question, resuming, uploads, runs, given, items, visits,
                 answeredEarly>>

-----------------------------------------------------------------------------
(* submitResume.                                                           *)

Answer ==
  /\ question /\ ~resuming /\ hasThread
  /\ Call("resume", "post", NoText, {})
  /\ resuming' = TRUE
  /\ answeredEarly' = (answeredEarly \/ submitting)
  /\ UNCHANGED <<hasThread, generation, draft, attachments, uploading, submitting, loading,
                 runStatus, question, uploads, runs, given, items, visits>>

\* resumeRun; another page has another runStateVersion.
ResumeAnswers(h) ==
  /\ At(h, "post")
  /\ IF ~Current(h) THEN Goes(h, "over") /\ UNCHANGED <<runStatus, question, resuming>>
     ELSE /\ resuming' = FALSE
          /\ \/ Goes(h, "monitor") /\ runStatus' = "active" /\ question' = FALSE
             \/ Goes(h, "over") /\ UNCHANGED <<runStatus, question>>
  /\ UNCHANGED <<hasThread, operation, generation, draft, attachments, uploading, submitting,
                 loading, uploads, runs, given, items, visits, answeredEarly>>

-----------------------------------------------------------------------------
(* Other pages.                                                            *)

\* stop or its like in loadThread, clearRun, and clearPendingInput.
Leave ==
  /\ generation' = generation + 1
  /\ given' = {} /\ runs' = {}
  /\ runStatus' = "none" /\ question' = FALSE /\ resuming' = FALSE
  /\ draft' = NoText /\ attachments' = {} /\ uploading' = 0
  /\ submitting' = FALSE

OpenThread ==
  /\ visits < MaxVisits /\ visits' = visits + 1
  /\ Call("load", "detail", NoText, {})
  /\ Leave
  /\ hasThread' = FALSE /\ loading' = TRUE
  /\ UNCHANGED <<uploads, items, answeredEarly>>

\* loadThread: the run of the thread may be going on, and is monitored aside.
ThreadLoads(h) ==
  /\ At(h, "detail") /\ Current(h) /\ handlers[h].kind = "load"
  /\ loading' = FALSE
  /\ \/ /\ hasThread' = TRUE
        /\ \/ Goes(h, "monitor") /\ runStatus' = "active" /\ UNCHANGED question
           \/ Goes(h, "over") /\ runStatus' = "ended" /\ question' \in BOOLEAN
     \/ Goes(h, "over") /\ UNCHANGED <<hasThread, runStatus, question>>
  /\ UNCHANGED <<operation, generation, draft, attachments, uploading, submitting, resuming,
                 uploads, runs, given, items, visits, answeredEarly>>

\* The page of a new conversation: stop and resetThread.
NewThread ==
  /\ visits < MaxVisits /\ visits' = visits + 1
  /\ operation' = operation + 1
  /\ Leave
  /\ hasThread' = FALSE /\ loading' = FALSE
  /\ UNCHANGED <<handlers, uploads, items, answeredEarly>>

Next ==
  \/ Type \/ StartUpload \/ Submit \/ Answer \/ OpenThread \/ NewThread
  \/ \E upload \in uploads : FinishUpload(upload)
  \/ \E item \in attachments : RemoveAttachment(item)
  \/ \E h \in DOMAIN handlers :
       \/ Superseded(h) \/ ThreadAnswers(h) \/ RunAnswers(h) \/ DetailAnswers(h)
       \/ QuestionComes(h) \/ EndComes(h) \/ ReloadAnswers(h) \/ ResumeAnswers(h)
       \/ ThreadLoads(h)

Spec == Init /\ [][Next]_vars

-----------------------------------------------------------------------------
(* What must hold.                                                         *)

\* What is on its way to the server.
Pending == UNION {Taken(h) : h \in {k \in DOMAIN handlers :
                               Current(k) /\ handlers[k].at \in {"thread", "create"}}}

Sent(answered) == UNION {r.items : r \in {q \in runs : q.answered = answered}}

\* Whatever the user gave on this page and did not take back is in the input, on
\* its way or in a run, and in one of these only; a run whose creation was not
\* answered is the exception, its text is in the input again.  Nothing of another
\* page is in the input, and it waits for no upload but those of this page.
InputIsKept ==
  /\ Composed \cup Pending \cup Sent(TRUE) = given
  /\ Composed \cap Pending = {} /\ (Composed \cup Pending) \cap Sent(TRUE) = {}
  /\ uploading = Cardinality({u \in uploads : u.generation = generation})

\* When the page has nothing to wait for, the user can go on typing.  It is not so
\* for one who answers a question before the end of its run has come and the
\* thread was read again: submit, which still awaits that, then never clears
\* `submitting`.
InputComesBack ==
  (/\ \A h \in DOMAIN handlers : At(h, "over") \/ ~Current(h)
   /\ runStatus # "active" /\ ~question)
     => ~InputDisabled \/ answeredEarly

\* The input is the user's: it loses nothing and does not stay closed.
InputIsTheUsers == InputIsKept /\ InputComesBack
=============================================================================
