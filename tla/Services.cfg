\* Every component at its own bounds.
SPECIFICATION Spec
SYMMETRY ClientsAreAlike
CONSTANTS
  Parts = {"attachments", "deletes", "list", "panel", "stream", "files", "pictures", "chunks",
           "retrieval", "live", "input", "session", "sandbox", "tools", "models"}
  Clients = {c1, c2}
  Attached = {"f1", "f2"}
  SentTo = {"t1", "t2"}
  Uploads = {"u1"}
  Sends = {"s1", "s2"}
  Reach <- ToTwoThreads
  AttachmentFaults = {"storage", "insert", "crash"}
  MaxAttachmentFaults = 2
  MaxEdits = 1
  MaxThreads = 3
  MaxClock = 2
  MaxWrites = 2
  MaxWalks = 1
  MaxLoads = 2
  PageLimit = 1
  Deletes = {"d1"}
  ThreadRuns = {"r1", "r2", "r3"}
  ThreadFaults = {"graph", "database", "cancel", "missing"}
  MaxMessages = 4
  MaxActive = 1
  MaxStreamFaults = 2
  BaseFiles = {"f1", "f2"}
  FileCalls = {c1, c2}
  EmbeddingModels = {"m1", "m2", "m3"}
  Dimension <- TheirDimensions
  FileFaults = {"work", "database", "crash"}
  MaxFileCalls = 4
  MaxFileFaults = 1
  MaxModelChanges = 1
  MaxRemoved = 1
  PollInterval = 2
  PollTimeout = 3
  MaxPollClock = 3
  MaxServiceFaults = 2
  Elements <- SomeElements
  Lines <- SomeLines
  Outlines <- SomeOutlines
  MaxElements = 3
  Limits = {2, 4}
  Targets = {1, 3}
  MaxTexts = 3
  BatchSize = 2
  Count = 3
  SearchLimits = {1, 2, 4}
  MaxSamples = 2
\* No reranker, one that is given fewer candidates than are there, and one that is
\* given them all.
  CandidateLimits = {0, 1, 3}
  Kss = {{1, 3}, {1, 2, 3}}
  MinRecalls = {0, 45}
  Relevances <- ThreeOpinions
  Streamed = {"m1", "m2", "m3"}
  CallOf <- TheirCalls
  IdOf <- TheirIds
  NoId = "no id"
  Todos = {"todo"}
  MaxDeltas = 2
  CharacterLimit = 1
  MaxBreaks = 1
  MaxItems = 2
  MaxHandlers = 3
  MaxVisits = 2
  Tabs = {"tab1", "tab2"}
  Users = {"u1", "u2"}
  MaxTokens = 2
  MaxPageLoads = 2
  SandboxKeys = {"k1"}
  SandboxRuns = {c1, c2}
  SandboxDestroys = {"d1"}
  SandboxOf <- OneSandbox
  SandboxFaultKinds = {"docker", "unhealthy", "timeout", "restart"}
  MaxContainers = 2
  MaxSandboxFaults = 1
  ToolServers <- TwoServers
  Misconfigured = {"c"}
  ToolNames = {"n1", "n2"}
  MayOffer <- TheirTools
  Selections = {{}, {"b"}}
  Concurrency = 1
  MaxChanges = 1
  MaxRounds = 2
  Processes = {"p1", "p2"}
  Versions = {1, 2}
  Listed <- TwoCatalogues
  Default <- TwoDefaults
  Supported = {"m1", "m2"}
  TTL = 2
  MaxTicks = 4
INVARIANTS
  TypeOK
  
  ListsAreTrue
  
  
  StatusIsTrue
  NobodyIsWaitedFor
  
  ChunksAreTrue
  AnswersAreTrue
  RecommendedIsBest
  PageTellsAnswer
  InputIsTheUsers
  ShownUserIsOwner
  NothingIsHeldInVain
  CatalogueIsTrue
PROPERTIES
  RunningIsProtected
  BindingMovesForward
  CatalogueMovesForward
\* Calls are limited in number.
CHECK_DEADLOCK FALSE
