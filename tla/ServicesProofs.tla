--------------------------- MODULE ServicesProofs ---------------------------
(***************************************************************************)
(* What the theorems about a component say of the composition that TLC      *)
(* checks: a behaviour of MCServices is, from its first state to its last, a *)
(* behaviour of the component it is about, so that its properties hold there *)
(* for every value of the bounds and every number of clients.              *)
(***************************************************************************)
EXTENDS MCServices, PartsProofs, OthersProofs, FilesProofs

IsAttachments == part = "attachments"
IsThreads == part \in {"deletes", "list", "panel"}
IsFiles == part = "files"
IsSandbox == part = "sandbox"
IsTools == part = "tools"
IsStream == part = "stream"
IsSession == part = "session"
IsModels == part = "models"
IsPictures == part = "pictures"
IsInput == part = "input"
IsRetrieval == part = "retrieval"
IsLive == part = "live"
IsChunks == part = "chunks"

-----------------------------------------------------------------------------
(* A behaviour is about one component.                                     *)

\* Every step of a behaviour about the attachments is one of theirs.
LEMMA AttachmentsSteps ==
  /\ IsAttachments /\ [Next]_vars => IsAttachments'
  /\ IsAttachments /\ [Next]_vars => [A!Next]_A!vars
  /\ ~IsAttachments /\ [Next]_vars => ~IsAttachments'
BY DEF IsAttachments, dataVars, aVars, A!vars, Next, vars, AttachmentsNext, ThreadsNext, StreamNext, FilesNext,
  PicturesNext, ChunksNext, RetrievalNext, LiveNext, InputNext, SessionNext, SandboxNext,
  ToolsNext, ModelsNext

\* A behaviour is one of the attachments, or never about them.
LEMMA AttachmentsBehave == Spec => A!Spec \/ []~IsAttachments
<1>1. Init /\ IsAttachments => A!Init
  BY DEF Init, IsAttachments
<1>2. Spec => []IsAttachments \/ []~IsAttachments
  BY AttachmentsSteps, PTL DEF Spec
<1>3. Spec /\ []IsAttachments => [][A!Next]_A!vars
  BY AttachmentsSteps, PTL DEF Spec
<1> QED
  BY <1>1, <1>2, <1>3, PTL DEF Spec, A!Spec

\* Every step of a behaviour about the conversations is one of theirs.
LEMMA ThreadsSteps ==
  /\ IsThreads /\ [Next]_vars => IsThreads'
  /\ IsThreads /\ [Next]_vars => [T!Next]_T!vars
  /\ ~IsThreads /\ [Next]_vars => ~IsThreads'
BY DEF IsThreads, talkVars, tVars, T!vars, Next, vars, AttachmentsNext, ThreadsNext, StreamNext, FilesNext,
  PicturesNext, ChunksNext, RetrievalNext, LiveNext, InputNext, SessionNext, SandboxNext,
  ToolsNext, ModelsNext

\* A behaviour is one of the conversations, or never about them.
LEMMA ThreadsBehave == Spec => T!Spec \/ []~IsThreads
<1>1. Init /\ IsThreads => T!Init
  BY DEF Init, IsThreads
<1>2. Spec => []IsThreads \/ []~IsThreads
  BY ThreadsSteps, PTL DEF Spec
<1>3. Spec /\ []IsThreads => [][T!Next]_T!vars
  BY ThreadsSteps, PTL DEF Spec
<1> QED
  BY <1>1, <1>2, <1>3, PTL DEF Spec, T!Spec

\* Every step of a behaviour about the knowledge files is one of theirs.
LEMMA FilesSteps ==
  /\ IsFiles /\ [Next]_vars => IsFiles'
  /\ IsFiles /\ [Next]_vars => [K!Next]_K!vars
  /\ ~IsFiles /\ [Next]_vars => ~IsFiles'
BY DEF IsFiles, dataVars, kVars, K!vars, Next, vars, AttachmentsNext, ThreadsNext, StreamNext, FilesNext,
  PicturesNext, ChunksNext, RetrievalNext, LiveNext, InputNext, SessionNext, SandboxNext,
  ToolsNext, ModelsNext

\* A behaviour is one of the files, or never about them.
LEMMA FilesBehave == Spec => K!Spec \/ []~IsFiles
<1>1. Init /\ IsFiles => K!Init
  BY DEF Init, IsFiles
<1>2. Spec => []IsFiles \/ []~IsFiles
  BY FilesSteps, PTL DEF Spec
<1>3. Spec /\ []IsFiles => [][K!Next]_K!vars
  BY FilesSteps, PTL DEF Spec
<1> QED
  BY <1>1, <1>2, <1>3, PTL DEF Spec, K!Spec

\* Every step of a behaviour about the sandboxes is one of theirs.
LEMMA SandboxSteps ==
  /\ IsSandbox /\ [Next]_vars => IsSandbox'
  /\ IsSandbox /\ [Next]_vars => [B!Next]_B!vars
  /\ ~IsSandbox /\ [Next]_vars => ~IsSandbox'
BY DEF IsSandbox, processVars, bVars, B!vars, Next, vars, AttachmentsNext, ThreadsNext, StreamNext, FilesNext,
  PicturesNext, ChunksNext, RetrievalNext, LiveNext, InputNext, SessionNext, SandboxNext,
  ToolsNext, ModelsNext

\* A behaviour is one of the sandboxes, or never about them.
LEMMA SandboxBehaves == Spec => (B!Spec /\ []IsSandbox) \/ []~IsSandbox
<1>1. Init /\ IsSandbox => B!Init
  BY DEF Init, IsSandbox
<1>2. Spec => []IsSandbox \/ []~IsSandbox
  BY SandboxSteps, PTL DEF Spec
<1>3. Spec /\ []IsSandbox => [][B!Next]_B!vars
  BY SandboxSteps, PTL DEF Spec
<1> QED
  BY <1>1, <1>2, <1>3, PTL DEF Spec, B!Spec

\* Every step of a behaviour about the tools is one of theirs.
LEMMA ToolsSteps ==
  /\ IsTools /\ [Next]_vars => IsTools'
  /\ IsTools /\ [Next]_vars => [M!Next]_M!vars
  /\ ~IsTools /\ [Next]_vars => ~IsTools'
BY DEF IsTools, processVars, mVars, M!vars, Next, vars, AttachmentsNext, ThreadsNext, StreamNext, FilesNext,
  PicturesNext, ChunksNext, RetrievalNext, LiveNext, InputNext, SessionNext, SandboxNext,
  ToolsNext, ModelsNext

\* A behaviour is one of the tools, or never about them.
LEMMA ToolsBehave == Spec => (M!Spec /\ []IsTools) \/ []~IsTools
<1>1. Init /\ IsTools => M!Init
  BY DEF Init, IsTools
<1>2. Spec => []IsTools \/ []~IsTools
  BY ToolsSteps, PTL DEF Spec
<1>3. Spec /\ []IsTools => [][M!Next]_M!vars
  BY ToolsSteps, PTL DEF Spec
<1> QED
  BY <1>1, <1>2, <1>3, PTL DEF Spec, M!Spec

\* Every step of a behaviour about the messages of a thread is one of theirs.
LEMMA StreamSteps ==
  /\ IsStream /\ [Next]_vars => IsStream'
  /\ IsStream /\ [Next]_vars => [S!Next]_S!vars
  /\ ~IsStream /\ [Next]_vars => ~IsStream'
BY DEF IsStream, talkVars, sVars, S!vars, Next, vars, AttachmentsNext, ThreadsNext, StreamNext, FilesNext,
  PicturesNext, ChunksNext, RetrievalNext, LiveNext, InputNext, SessionNext, SandboxNext,
  ToolsNext, ModelsNext

\* A behaviour is one of the messages of a thread, or never about them.
LEMMA StreamBehaves == Spec => S!Spec \/ []~IsStream
<1>1. Init /\ IsStream => S!Init
  BY DEF Init, IsStream
<1>2. Spec => []IsStream \/ []~IsStream
  BY StreamSteps, PTL DEF Spec
<1>3. Spec /\ []IsStream => [][S!Next]_S!vars
  BY StreamSteps, PTL DEF Spec
<1> QED
  BY <1>1, <1>2, <1>3, PTL DEF Spec, S!Spec

\* Every step of a behaviour about the log-in is one of theirs.
LEMMA SessionSteps ==
  /\ IsSession /\ [Next]_vars => IsSession'
  /\ IsSession /\ [Next]_vars => [U!Next]_U!vars
  /\ ~IsSession /\ [Next]_vars => ~IsSession'
BY DEF IsSession, pageVars, uVars, U!vars, Next, vars, AttachmentsNext, ThreadsNext, StreamNext, FilesNext,
  PicturesNext, ChunksNext, RetrievalNext, LiveNext, InputNext, SessionNext, SandboxNext,
  ToolsNext, ModelsNext

\* A behaviour is one of the log-in, or never about it.
LEMMA SessionBehaves == Spec => U!Spec \/ []~IsSession
<1>1. Init /\ IsSession => U!Init
  BY DEF Init, IsSession
<1>2. Spec => []IsSession \/ []~IsSession
  BY SessionSteps, PTL DEF Spec
<1>3. Spec /\ []IsSession => [][U!Next]_U!vars
  BY SessionSteps, PTL DEF Spec
<1> QED
  BY <1>1, <1>2, <1>3, PTL DEF Spec, U!Spec

\* Every step of a behaviour about the models is one of theirs.
LEMMA ModelsSteps ==
  /\ IsModels /\ [Next]_vars => IsModels'
  /\ IsModels /\ [Next]_vars => [G!Next]_G!vars
  /\ ~IsModels /\ [Next]_vars => ~IsModels'
BY DEF IsModels, processVars, gVars, G!vars, Next, vars, AttachmentsNext, ThreadsNext, StreamNext, FilesNext,
  PicturesNext, ChunksNext, RetrievalNext, LiveNext, InputNext, SessionNext, SandboxNext,
  ToolsNext, ModelsNext

\* A behaviour is one of the models, or never about them.
LEMMA ModelsBehave == Spec => G!Spec \/ []~IsModels
<1>1. Init /\ IsModels => G!Init
  BY DEF Init, IsModels
<1>2. Spec => []IsModels \/ []~IsModels
  BY ModelsSteps, PTL DEF Spec
<1>3. Spec /\ []IsModels => [][G!Next]_G!vars
  BY ModelsSteps, PTL DEF Spec
<1> QED
  BY <1>1, <1>2, <1>3, PTL DEF Spec, G!Spec

\* A step that moves nothing of its component moves nothing at all.
LEMMA OnlyOneMoves ==
  /\ IsSandbox /\ [Next]_vars /\ UNCHANGED B!vars => UNCHANGED vars
  /\ IsTools /\ [Next]_vars /\ UNCHANGED M!vars => UNCHANGED vars
  /\ IsThreads /\ [Next]_vars /\ UNCHANGED T!vars => UNCHANGED vars
BY DEF IsSandbox, IsTools, IsThreads, processVars, talkVars, bVars, mVars, tVars, B!vars, M!vars, T!vars, Next, vars, AttachmentsNext, ThreadsNext, StreamNext, FilesNext,
  PicturesNext, ChunksNext, RetrievalNext, LiveNext, InputNext, SessionNext, SandboxNext,
  ToolsNext, ModelsNext

\* Every step of a behaviour about the pictures is one of theirs.
LEMMA PicturesSteps ==
  /\ IsPictures /\ [Next]_vars => IsPictures'
  /\ IsPictures /\ [Next]_vars => [E!Next]_E!vars
  /\ ~IsPictures /\ [Next]_vars => ~IsPictures'
BY DEF IsPictures, dataVars, eVars, E!vars, Next, vars, AttachmentsNext, ThreadsNext, StreamNext, FilesNext,
  PicturesNext, ChunksNext, RetrievalNext, LiveNext, InputNext, SessionNext, SandboxNext,
  ToolsNext, ModelsNext

\* A behaviour is one of the pictures, or never about them.
LEMMA PicturesBehave == Spec => E!Spec \/ []~IsPictures
<1>1. Init /\ IsPictures => E!Init
  BY DEF Init, IsPictures
<1>2. Spec => []IsPictures \/ []~IsPictures
  BY PicturesSteps, PTL DEF Spec
<1>3. Spec /\ []IsPictures => [][E!Next]_E!vars
  BY PicturesSteps, PTL DEF Spec
<1> QED
  BY <1>1, <1>2, <1>3, PTL DEF Spec, E!Spec

\* Every step of a behaviour about the input is one of its.
LEMMA InputSteps ==
  /\ IsInput /\ [Next]_vars => IsInput'
  /\ IsInput /\ [Next]_vars => [I!Next]_I!vars
  /\ ~IsInput /\ [Next]_vars => ~IsInput'
BY DEF IsInput, pageVars, iVars, I!vars, Next, vars, AttachmentsNext, ThreadsNext, StreamNext, FilesNext,
  PicturesNext, ChunksNext, RetrievalNext, LiveNext, InputNext, SessionNext, SandboxNext,
  ToolsNext, ModelsNext

\* A behaviour is one of the input, or never about it.
LEMMA InputBehaves == Spec => I!Spec \/ []~IsInput
<1>1. Init /\ IsInput => I!Init
  BY DEF Init, IsInput
<1>2. Spec => []IsInput \/ []~IsInput
  BY InputSteps, PTL DEF Spec
<1>3. Spec /\ []IsInput => [][I!Next]_I!vars
  BY InputSteps, PTL DEF Spec
<1> QED
  BY <1>1, <1>2, <1>3, PTL DEF Spec, I!Spec

\* Every step of a behaviour about the search is one of its.
LEMMA RetrievalSteps ==
  /\ IsRetrieval /\ [Next]_vars => IsRetrieval'
  /\ IsRetrieval /\ [Next]_vars => [R!Next]_R!vars
  /\ ~IsRetrieval /\ [Next]_vars => ~IsRetrieval'
BY DEF IsRetrieval, dataVars, rVars, R!vars, Next, vars, AttachmentsNext, ThreadsNext, StreamNext, FilesNext,
  PicturesNext, ChunksNext, RetrievalNext, LiveNext, InputNext, SessionNext, SandboxNext,
  ToolsNext, ModelsNext

\* A behaviour is one of the search, or never about it.
LEMMA RetrievalBehaves == Spec => R!Spec \/ []~IsRetrieval
<1>1. Init /\ IsRetrieval => R!Init
  BY DEF Init, IsRetrieval
<1>2. Spec => []IsRetrieval \/ []~IsRetrieval
  BY RetrievalSteps, PTL DEF Spec
<1>3. Spec /\ []IsRetrieval => [][R!Next]_R!vars
  BY RetrievalSteps, PTL DEF Spec
<1> QED
  BY <1>1, <1>2, <1>3, PTL DEF Spec, R!Spec

\* Every step of a behaviour about the page during a run is one of its.
LEMMA LiveSteps ==
  /\ IsLive /\ [Next]_vars => IsLive'
  /\ IsLive /\ [Next]_vars => [L!Next]_L!vars
  /\ ~IsLive /\ [Next]_vars => ~IsLive'
BY DEF IsLive, pageVars, lVars, L!vars, Next, vars, AttachmentsNext, ThreadsNext, StreamNext, FilesNext,
  PicturesNext, ChunksNext, RetrievalNext, LiveNext, InputNext, SessionNext, SandboxNext,
  ToolsNext, ModelsNext

\* A behaviour is one of it, or never about it.
LEMMA LiveBehaves == Spec => L!Spec \/ []~IsLive
<1>1. Init /\ IsLive => L!Init
  BY DEF Init, IsLive
<1>2. Spec => []IsLive \/ []~IsLive
  BY LiveSteps, PTL DEF Spec
<1>3. Spec /\ []IsLive => [][L!Next]_L!vars
  BY LiveSteps, PTL DEF Spec
<1> QED
  BY <1>1, <1>2, <1>3, PTL DEF Spec, L!Spec

\* Every step of a behaviour about the chunkers is one of theirs.
LEMMA ChunksSteps ==
  /\ IsChunks /\ [Next]_vars => IsChunks'
  /\ IsChunks /\ [Next]_vars => [C!Next]_C!vars
  /\ ~IsChunks /\ [Next]_vars => ~IsChunks'
BY DEF IsChunks, dataVars, cVars, C!vars, Next, vars, AttachmentsNext, ThreadsNext, StreamNext, FilesNext,
  PicturesNext, ChunksNext, RetrievalNext, LiveNext, InputNext, SessionNext, SandboxNext,
  ToolsNext, ModelsNext

\* A behaviour is one of the chunkers, or never about them.
LEMMA ChunksBehave == Spec => C!Spec \/ []~IsChunks
<1>1. Init /\ IsChunks => C!Init
  BY DEF Init, IsChunks
<1>2. Spec => []IsChunks \/ []~IsChunks
  BY ChunksSteps, PTL DEF Spec
<1>3. Spec /\ []IsChunks => [][C!Next]_C!vars
  BY ChunksSteps, PTL DEF Spec
<1> QED
  BY <1>1, <1>2, <1>3, PTL DEF Spec, C!Spec

-----------------------------------------------------------------------------
(* The theorems of the components.                                         *)

\* An attachment that is available is stored, and calls without a fault leave
\* nothing behind in the bucket.
THEOREM AttachmentsStored == Spec => []ObjectsMatchRows
<1>1. /\ ~IsAttachments => ObjectsMatchRows
      /\ A!ObjectsMatchRows => ObjectsMatchRows
  BY DEF ObjectsMatchRows, IsAttachments
<1>2. A!Spec => []A!ObjectsMatchRows
  BY StorageMatchesRows
<1> QED
  BY <1>1, <1>2, AttachmentsBehave, PTL

\* A file is called parsed only while its Markdown is there, and indexed only
\* while its records are, of the model the knowledge base is bound to.
THEOREM FileStatusTrue == Spec => []StatusIsTrue
<1>1. /\ ~IsFiles => StatusIsTrue
      /\ K!StatusIsTrue => StatusIsTrue
  BY DEF StatusIsTrue, IsFiles
<1>2. K!Spec => []K!StatusIsTrue
  BY StatusTrue
<1> QED
  BY <1>1, <1>2, FilesBehave, PTL

\* A busy file has a call that will decide it, unless a process died under it or
\* the database refused the decision.
THEOREM FilesAreDecided == Spec => []NobodyIsWaitedFor
<1>1. /\ ~IsFiles => NobodyIsWaitedFor
      /\ K!NobodyIsWaitedFor => NobodyIsWaitedFor
  BY DEF NobodyIsWaitedFor, IsFiles
<1>2. K!Spec => []K!NobodyIsWaitedFor
  BY NobodyWaits
<1> QED
  BY <1>1, <1>2, FilesBehave, PTL

\* No sandbox stays bound after the shutdown, and no lock, of a sandbox's key or
\* of the tool catalogue, is held by a call that is over.
THEOREM NothingHeldInVain == Spec => []NothingIsHeldInVain
<1> DEFINE Sandboxes == IsSandbox => B!ClosedIsEmpty /\ B!LocksAreReleased
           Tools == IsTools => M!LockIsReturned
<1>1. /\ ~IsSandbox => Sandboxes
      /\ B!ClosedIsEmpty /\ B!LocksAreReleased => Sandboxes
      /\ ~IsTools => Tools
      /\ M!LockIsReturned => Tools
  OBVIOUS
<1>2. Sandboxes /\ Tools => NothingIsHeldInVain
  BY DEF NothingIsHeldInVain, IsSandbox, IsTools
<1>3. B!Spec => []B!ClosedIsEmpty /\ []B!LocksAreReleased
  BY ClosedStaysEmpty, SandboxLocksReleased
<1> HIDE DEF Sandboxes, Tools
<1> QED
  BY <1>1, <1>2, <1>3, SandboxBehaves, ToolsBehave, LockReturned, PTL

\* The answer of an older container never takes the place of a binding.
THEOREM BindingForward == Spec => BindingMovesForward
<1>1. B!Spec => [][B!MovesForward]_B!vars
  BY BindingsMoveForward DEF B!BindingMovesForward
<1>2. IsSandbox /\ [Next]_vars /\ [B!MovesForward]_B!vars => [part = "sandbox" => B!MovesForward]_vars
  BY OnlyOneMoves
<1>3. ~IsSandbox => [part = "sandbox" => B!MovesForward]_vars
  BY DEF IsSandbox
<1> QED
  BY <1>1, <1>2, <1>3, SandboxBehaves, PTL DEF Spec, BindingMovesForward

\* The tool catalogue is replaced as a whole, by a newer discovery only.
THEOREM CatalogueForward == Spec => CatalogueMovesForward
<1>1. IsTools /\ [Next]_vars /\ [M!MovesForward]_M!vars => [part = "tools" => M!MovesForward]_vars
  BY OnlyOneMoves
<1>2. ~IsTools => [part = "tools" => M!MovesForward]_vars
  BY DEF IsTools
<1> QED
  BY <1>1, <1>2, ToolsBehave, ToolsMoveForward, PTL DEF Spec, CatalogueMovesForward

\* No message of a thread has a second row, however often its checkpoint is saved.
THEOREM MessagesSavedOnce == Spec => []SavedOnce
<1>1. /\ ~IsStream => SavedOnce
      /\ S!SavedOnce => SavedOnce
  BY DEF SavedOnce, IsStream
<1>2. S!Spec => []S!SavedOnce
  BY MessagesAreSaved
<1> QED
  BY <1>1, <1>2, StreamBehaves, PTL

\* A completed run has its messages in the tables and names its last answer.
THEOREM CompletedRunsSaved == Spec => []CompletedIsSaved
<1>1. /\ ~IsStream => CompletedIsSaved
      /\ S!CompletedIsSaved => CompletedIsSaved
  BY DEF CompletedIsSaved, IsStream
<1>2. S!Spec => []S!CompletedIsSaved
  BY MessagesAreSaved
<1> QED
  BY <1>1, <1>2, StreamBehaves, PTL

\* A tab shows the user whose token it has, whatever the answers it waited for
\* when the user logged out or somebody else logged in (useAuthStore: restore).
THEOREM ShownUserOwns == Spec => []ShownUserIsOwner
<1>1. /\ ~IsSession => ShownUserIsOwner
      /\ U!ShownUserIsOwner => ShownUserIsOwner
  BY DEF ShownUserIsOwner, IsSession
<1> QED
  BY <1>1, SessionShows, SessionBehaves, PTL

\* What a page is given was the catalogue of a process less than the time to live
\* ago, and its model is refused only by a process of another version
\* (model_cache.py, useModelStore, create_agent_run_service).
THEOREM CatalogueTrue == Spec => []CatalogueIsTrue
<1>1. /\ ~IsModels => CatalogueIsTrue
      /\ G!CatalogueIsRecent /\ G!OfferedIsAccepted => CatalogueIsTrue
  BY DEF CatalogueIsTrue, IsModels
<1> QED
  BY <1>1, CatalogueIsFresh, ModelsBehave, PTL

\* A run that was active anywhere below a thread when delete_thread began, and still
\* is when it deletes, keeps the tree from being deleted, whatever is created, started
\* and deleted meanwhile (thread_service.py: delete_thread).
THEOREM DeletionProtects == Spec => RunningIsProtected
<1>1. IsThreads /\ [Next]_vars /\ [T!DeleteProtects]_T!vars => [part = "deletes" => T!DeleteProtects]_vars
  BY OnlyOneMoves
<1>2. ~IsThreads => [part = "deletes" => T!DeleteProtects]_vars
  BY DEF IsThreads
<1> QED
  BY <1>1, <1>2, ThreadsBehave, RunningKeepsTree, PTL DEF Spec, RunningIsProtected

\* A client that follows next_cursor to the end is given every thread that nothing
\* happened to exactly once, and the history panel shows the answer to its last
\* request (conversation_repository.py: list_top_level_for_user).
THEOREM ListsTell == Spec => []ListsAreTrue
<1>1. /\ ~IsThreads => ListsAreTrue
      /\ T!UnchangedIsListedOnce /\ T!HistoryIsLatest => ListsAreTrue
  BY DEF ListsAreTrue, IsThreads
<1> QED
  BY <1>1, ListsAreRead, ThreadsBehave, PTL

\* The text is asked of the providers in their order, each is made once, and a task
\* that was done in time is fetched (ocr_service.py: extract_text, get_provider;
\* unlimited_ocr.py: _poll).
THEOREM TextFound == Spec => []TextIsFound
<1>1. /\ ~IsPictures => TextIsFound
      /\ E!TextIsFound => TextIsFound
  BY DEF TextIsFound, IsPictures
<1> QED
  BY <1>1, PicturesAreRead, PicturesBehave, PTL

\* What the user gave is in the input, on its way or in a run, once; nothing of
\* another page is in the input; and it does not stay closed (ChatView.vue: submit,
\* rollbackSubmission, uploadFiles; useChat.ts: clearPendingInput).
THEOREM InputIsKept == Spec => []InputIsTheUsers
<1>1. /\ ~IsInput => InputIsTheUsers
      /\ I!InputIsTheUsers => InputIsTheUsers
  BY DEF InputIsTheUsers, IsInput
<1> QED
  BY <1>1, InputStays, InputBehaves, PTL

\* Each text of a file that is not blank gets its own vector, in the order of the
\* texts and of the dimension of the binding, and the hits of an answer are ranked
\* by their scores from one, and as many as were asked for (embedding_service.py:
\* embed_chunks, search).
THEOREM AnswersTrue == Spec => []AnswersAreTrue
<1>1. /\ ~IsRetrieval => AnswersAreTrue
      /\ R!AnswersAreTrue => AnswersAreTrue
  BY DEF AnswersAreTrue, IsRetrieval
<1> QED
  BY <1>1, SearchAnswers, RetrievalBehaves, PTL

\* The K an evaluation recommends reaches the recall that was asked for if any does,
\* and no other that does is better, for the searches that will be made with it
\* (evaluator.py: evaluate).
THEOREM RecommendedBest == Spec => []RecommendedIsBest
<1>1. /\ ~IsRetrieval => RecommendedIsBest
      /\ R!RecommendedIsBest => RecommendedIsBest
  BY DEF RecommendedIsBest, IsRetrieval
<1> QED
  BY <1>1, SearchRecommends, RetrievalBehaves, PTL

\* What the page shows of a run that is underway is what the agent had said up to
\* some moment, however the texts are buffered and however often the page reads the
\* stream again; a page that has read it all shows it all (worker.py:
\* StreamEventSmoother; useChat.ts: appendAiText, clearRunStreamMessages).
THEOREM PageTellsTheRun == Spec => []PageTellsAnswer
<1>1. /\ ~IsLive => PageTellsAnswer
      /\ L!PageTellsAnswer => PageTellsAnswer
  BY DEF PageTellsAnswer, IsLive
<1> QED
  BY <1>1, PageTells, LiveBehaves, PTL

\* Every token of a document is in its chunks once and in its order, no table or
\* image is cut, and a chunk says it is from the section that its text is from: for
\* each of the three chunkers, every document and every limit (token_chunker.py,
\* group_chunker.py, hierarchy_chunker.py; common.py: split_blocks_fixed).
THEOREM ChunksTrue == Spec => []ChunksAreTrue
<1>1. /\ ~IsChunks => ChunksAreTrue
      /\ C!ChunksAreTrue => ChunksAreTrue
  BY DEF ChunksAreTrue, IsChunks
<1> QED
  BY <1>1, ChunksRight, ChunksBehave, PTL
=============================================================================
