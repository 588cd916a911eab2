----------------------------- MODULE MCServices -----------------------------
(***************************************************************************)
(* The components that share no state with each other, side by side: the   *)
(* attachments, the conversations, the message saving of a thread, the     *)
(* streaming of its messages, the input of the page, the log-in, the files  *)
(* of a knowledge base, the reading of pictures, the chunkers, the search  *)
(* with its evaluation, the catalogues of tools and of models, and the       *)
(* sandboxes.  A behaviour is one of them, `part`, with the others left out, *)
(* so that one run checks every one of them at its own bounds.  The         *)
(* conversations have three parts, each with some of its callers.           *)
(***************************************************************************)
EXTENDS MCParts, MCOthers, MCFiles, TLC

CONSTANT Parts  \* the parts to check

VARIABLE part

aVars == <<rows, objects, links, call, edits, faults>>
tVars == <<clock, threads, asks, writes, delete, walk, panel, loads>>
sVars == <<produced, checkpoint, asked, messages, results, run, streamFaults>>
kVars == <<files, stored, binding, collection, vectors, config, fileCall, lost, bounds>>
eVars == <<made, providerLock, textCall, textTask, textClock, textFaults>>
cVars == <<document, options, levels, chunks, phase>>
rVars == <<task, searchPhase, texts, expected, embedded, searchOptions, samples, hits,
           responses, report>>
lVars == <<spoken, open, over, messageIds, lastState, bucket, entries, cards, next, breaks>>
iVars == <<hasThread, operation, generation, draft, attachments, uploading, submitting, loading,
           runStatus, question, resuming, handlers, uploads, runs, given, items, visits,
           answeredEarly>>
uVars == <<storedToken, token, user, restoring, loggingIn, owner, expired, disabled, pageLoads>>
bVars == <<bindings, closed, lock, held, toolCall, request, docker, container, started,
           activity, batch, reaping, sandboxFaults>>
mVars == <<offers, loaded, tools, errors, toolLock, doing, wanted, answers, agentTools, round,
           rounds, published, changes>>
gVars == <<version, stopped, cache, requests, page, awaited, selected, refused, ticks>>

\* What belongs together.
talkVars == <<tVars, sVars>>
dataVars == <<aVars, kVars, eVars, cVars, rVars>>
pageVars == <<lVars, iVars, uVars>>
processVars == <<bVars, mVars, gVars>>

\* Two sends of the same files to two threads: a second send to the same thread
\* waits for the run of the first one.
ToTwoThreads == ("s1" :> {"t1"} @@ "s2" :> {"t2"})

\* Two models of the same dimension and one of another; the configured one is the
\* first of them at the start, so that the next may be of either kind.
TheirDimensions == [m \in {"m1", "m2", "m3"} |-> IF m = "m3" THEN 2 ELSE 1]

\* Two messages of one model call after the other, and a third without an id from
\* another call, which overlaps them.
TheirCalls == ("m1" :> "call1" @@ "m2" :> "call1" @@ "m3" :> "call2")
TheirIds == ("m1" :> "id1" @@ "m2" :> "id2" @@ "m3" :> "no id")

\* Everybody has the same sandbox.
OneSandbox == [c \in Clients \cup {"d1"} |-> "k1"]

\* What the reranking service may think of three chunks.
ThreeOpinions == {<<2, 2, 1>>, <<1, 2, 1>>, <<1, 1, 2>>}

\* Both servers have a tool of the same full name.
TwoServers == <<"a", "b">>
TheirTools == ("a" :> {{"n1"}} @@ "b" :> {{"n1", "n2"}})

\* Two versions that each list a model of a provider that cannot be loaded, which
\* is the default of the second.
TwoCatalogues == <<{"m1", "g"}, {"m2", "g"}>>
TwoDefaults == <<"m1", "g">>

Element(type, form, size, level) ==
  [type |-> type, form |-> form, size |-> size, level |-> level]

\* A page heading, headings of two levels, a blank one, a text longer than a
\* chunk, two texts that look like headings, a table.
SomeElements ==
  {Element("page", "plain", 1, 7), Element("heading", "plain", 1, 1),
   Element("heading", "plain", 1, 2), Element("heading", "plain", 0, 2),
   Element("paragraph", "plain", 3, 0), Element("paragraph", "chapter1", 1, 0),
   Element("paragraph", "1.", 1, 0), Element("table", "plain", 2, 0)}

SomeLines ==
  {Element("line", "plain", 2, 0), Element("line", "chapter1", 1, 0),
   Element("line", "section", 1, 0)}

Entry(title, depth) == [title |-> title, depth |-> depth]

\* None, one whose first entry is less like the line than the second, and one
\* with two entries that are like the same line.
SomeOutlines ==
  {<< >>, <<Entry("chapter", 0), Entry("chapter1", 1)>>,
   <<Entry("chapter1", 0), Entry("section1", 1), Entry("section", 0)>>}

-----------------------------------------------------------------------------
AllParts ==
  {"attachments", "deletes", "list", "panel", "stream", "files", "pictures", "chunks", "retrieval",
   "live", "input", "session", "sandbox", "tools", "models"}

\* Nothing else is checked.
ASSUME PartsAreParts == Parts \subseteq AllParts

None == "none"

\* What is not moved is left out: its variables have no value.
NoAttachments ==
  /\ rows = None /\ objects = None /\ links = None /\ call = None /\ edits = None
  /\ faults = None

NoThreads ==
  /\ clock = None /\ threads = None /\ asks = None /\ writes = None /\ delete = None
  /\ walk = None /\ panel = None /\ loads = None

NoStream ==
  /\ produced = None /\ checkpoint = None /\ asked = None /\ messages = None /\ results = None
  /\ run = None /\ streamFaults = None

NoFiles ==
  /\ files = None /\ stored = None /\ binding = None /\ collection = None /\ vectors = None
  /\ config = None /\ fileCall = None /\ lost = None /\ bounds = None

NoPictures ==
  /\ made = None /\ providerLock = None /\ textCall = None /\ textTask = None
  /\ textClock = None /\ textFaults = None

NoDocument ==
  /\ document = None /\ options = None /\ levels = None /\ chunks = None /\ phase = None

NoRetrieval ==
  /\ task = None /\ searchPhase = None /\ texts = None /\ expected = None /\ embedded = None
  /\ searchOptions = None /\ samples = None /\ hits = None /\ responses = None /\ report = None

NoLive ==
  /\ spoken = None /\ open = None /\ over = None /\ messageIds = None /\ lastState = None
  /\ bucket = None /\ entries = None /\ cards = None /\ next = None /\ breaks = None

NoInput ==
  /\ hasThread = None /\ operation = None /\ generation = None /\ draft = None
  /\ attachments = None /\ uploading = None /\ submitting = None /\ loading = None
  /\ runStatus = None /\ question = None /\ resuming = None /\ handlers = None
  /\ uploads = None /\ runs = None /\ given = None /\ items = None /\ visits = None
  /\ answeredEarly = None

NoSession ==
  /\ storedToken = None /\ token = None /\ user = None /\ restoring = None
  /\ loggingIn = None /\ owner = None /\ expired = None /\ disabled = None
  /\ pageLoads = None

NoSandbox ==
  /\ bindings = None /\ closed = None /\ lock = None /\ held = None /\ toolCall = None
  /\ request = None /\ docker = None /\ container = None /\ started = None /\ activity = None
  /\ batch = None /\ reaping = None /\ sandboxFaults = None

NoTools ==
  /\ offers = None /\ loaded = None /\ tools = None /\ errors = None /\ toolLock = None
  /\ doing = None /\ wanted = None /\ answers = None /\ agentTools = None /\ round = None
  /\ rounds = None /\ published = None /\ changes = None

NoModels ==
  /\ version = None /\ stopped = None /\ cache = None /\ requests = None /\ page = None
  /\ awaited = None /\ selected = None /\ refused = None /\ ticks = None

Init ==
  /\ part \in Parts
  /\ IF part = "attachments" THEN A!Init ELSE NoAttachments
  /\ IF part \in {"deletes", "list", "panel"} THEN T!Init ELSE NoThreads
  /\ IF part = "stream" THEN S!Init ELSE NoStream
  /\ IF part = "files" THEN K!Init /\ config = "m1" ELSE NoFiles
  /\ IF part = "pictures" THEN E!Init ELSE NoPictures
  /\ IF part = "chunks" THEN C!Init ELSE NoDocument
  /\ IF part = "retrieval" THEN R!Init ELSE NoRetrieval
  /\ IF part = "live" THEN L!Init ELSE NoLive
  /\ IF part = "input" THEN I!Init ELSE NoInput
  /\ IF part = "session" THEN U!Init ELSE NoSession
  /\ IF part = "sandbox" THEN B!Init ELSE NoSandbox
  /\ IF part = "tools" THEN M!Init ELSE NoTools
  /\ IF part = "models" THEN G!Init ELSE NoModels

AttachmentsNext ==
  /\ part = "attachments"
  /\ A!Next
  /\ UNCHANGED <<part, talkVars, kVars, eVars, cVars, rVars, pageVars, processVars>>

\* The conversations with delete_thread, with a client that reads the list, and
\* with the history panel.
ThreadsNext ==
  /\ \/ part = "deletes" /\ T!Next /\ walk'.at = "idle" /\ UNCHANGED loads
     \/ part = "list" /\ T!Next /\ UNCHANGED <<delete, loads>>
     \/ part = "panel" /\ T!Next /\ walk'.at = "idle" /\ UNCHANGED writes
  /\ UNCHANGED <<part, sVars, dataVars, pageVars, processVars>>

StreamNext ==
  /\ part = "stream"
  /\ S!Next
  /\ UNCHANGED <<part, tVars, dataVars, pageVars, processVars>>

FilesNext ==
  /\ part = "files"
  /\ K!Next
  /\ UNCHANGED <<part, talkVars, aVars, eVars, cVars, rVars, pageVars, processVars>>

PicturesNext ==
  /\ part = "pictures"
  /\ E!Next
  /\ UNCHANGED <<part, talkVars, aVars, kVars, cVars, rVars, pageVars, processVars>>

ChunksNext ==
  /\ part = "chunks"
  /\ C!Next
  /\ UNCHANGED <<part, talkVars, aVars, kVars, eVars, rVars, pageVars, processVars>>

RetrievalNext ==
  /\ part = "retrieval"
  /\ R!Next
  /\ UNCHANGED <<part, talkVars, aVars, kVars, eVars, cVars, pageVars, processVars>>

LiveNext ==
  /\ part = "live"
  /\ L!Next
  /\ UNCHANGED <<part, talkVars, dataVars, iVars, uVars, processVars>>

InputNext ==
  /\ part = "input"
  /\ I!Next
  /\ UNCHANGED <<part, talkVars, dataVars, lVars, uVars, processVars>>

SessionNext ==
  /\ part = "session"
  /\ U!Next
  /\ UNCHANGED <<part, talkVars, dataVars, lVars, iVars, processVars>>

SandboxNext ==
  /\ part = "sandbox"
  /\ B!Next
  /\ UNCHANGED <<part, talkVars, dataVars, pageVars, mVars, gVars>>

ToolsNext ==
  /\ part = "tools"
  /\ M!Next
  /\ UNCHANGED <<part, talkVars, dataVars, pageVars, bVars, gVars>>

ModelsNext ==
  /\ part = "models"
  /\ G!Next
  /\ UNCHANGED <<part, talkVars, dataVars, pageVars, bVars, mVars>>

\* The calls of a component have no order among them.
ClientsAreAlike == Permutations(Clients)

Next ==
  \/ AttachmentsNext \/ ThreadsNext \/ StreamNext \/ FilesNext \/ PicturesNext
  \/ ChunksNext \/ RetrievalNext \/ LiveNext \/ InputNext \/ SessionNext
  \/ SandboxNext \/ ToolsNext \/ ModelsNext

vars == <<part, talkVars, dataVars, pageVars, processVars>>

Spec == Init /\ [][Next]_vars

-----------------------------------------------------------------------------
(* The properties of the components, under their own names.                *)

TypeOK ==
  /\ part \in AllParts
  /\ part = "attachments" => A!TypeOK
  /\ part \in {"deletes", "list", "panel"} => T!TypeOK
  /\ part = "stream" => S!TypeOK
  /\ part = "files" => K!TypeOK
  /\ part = "pictures" => E!TypeOK
  /\ part = "chunks" => C!TypeOK
  /\ part = "retrieval" => R!TypeOK
  /\ part = "live" => L!TypeOK
  /\ part = "input" => I!TypeOK
  /\ part = "session" => U!TypeOK
  /\ part = "sandbox" => B!TypeOK
  /\ part = "tools" => M!TypeOK
  /\ part = "models" => G!TypeOK

ObjectsMatchRows == part = "attachments" => A!ObjectsMatchRows
ListsAreTrue ==
  /\ part = "list" => T!UnchangedIsListedOnce
  /\ part = "panel" => T!HistoryIsLatest
RunningIsProtected == [][part = "deletes" => T!DeleteProtects]_vars
SavedOnce == part = "stream" => S!SavedOnce
CompletedIsSaved == part = "stream" => S!CompletedIsSaved
StatusIsTrue == part = "files" => K!StatusIsTrue
NobodyIsWaitedFor == part = "files" => K!NobodyIsWaitedFor
TextIsFound == part = "pictures" => E!TextIsFound
ChunksAreTrue == part = "chunks" => C!ChunksAreTrue
AnswersAreTrue == part = "retrieval" => R!AnswersAreTrue
RecommendedIsBest == part = "retrieval" => R!RecommendedIsBest
PageTellsAnswer == part = "live" => L!PageTellsAnswer
InputIsTheUsers == part = "input" => I!InputIsTheUsers
ShownUserIsOwner == part = "session" => U!ShownUserIsOwner
NothingIsHeldInVain ==
  /\ part = "sandbox" => B!ClosedIsEmpty /\ B!LocksAreReleased
  /\ part = "tools" => M!LockIsReturned
CatalogueIsTrue == part = "models" => G!CatalogueIsRecent /\ G!OfferedIsAccepted
BindingMovesForward == [][part = "sandbox" => B!MovesForward]_vars
CatalogueMovesForward == [][part = "tools" => M!MovesForward]_vars
=============================================================================
