------------------------------- MODULE MCParts -------------------------------
(***************************************************************************)
(* The components that are proved about beside each other, in PartsProofs:  *)
(* the conversations, the message saving of a thread, the reading of        *)
(* pictures, the input of the page, the log-in, and the catalogues of tools *)
(* and of models.  MCServices composes them with the rest.                  *)
(***************************************************************************)
EXTENDS Integers, FiniteSets, Sequences

CONSTANTS
  Clients,           \* those who call, where it does not matter which of them does
  MaxThreads, MaxClock, MaxWrites, MaxWalks, MaxLoads, PageLimit, Deletes,
  ThreadRuns, MaxMessages, MaxActive, ThreadFaults, MaxStreamFaults,
  PollInterval, PollTimeout, MaxPollClock, MaxServiceFaults,
  MaxItems, MaxHandlers, MaxVisits,
  Tabs, Users, MaxTokens, MaxPageLoads,
  ToolServers, Misconfigured, ToolNames, MayOffer, Selections, Concurrency, MaxChanges, MaxRounds,
  Processes, Versions, Listed, Default, Supported, TTL, MaxTicks

\* The bounds of the components.
ASSUME BoundsAreNumbers ==
  /\ {MaxThreads, MaxWrites, MaxLoads} \subseteq Nat
  /\ {MaxMessages, MaxStreamFaults, MaxTokens, MaxPageLoads, MaxTicks} \subseteq Nat
  /\ {PollInterval, PollTimeout, MaxPollClock, MaxServiceFaults} \subseteq Nat
  /\ {MaxItems, MaxHandlers, MaxChanges, MaxRounds} \subseteq Nat
  /\ {MaxClock, PageLimit, TTL, MaxVisits} \subseteq Nat \ {0}

\* RunRequests lets a thread have one run at a time.
ASSUME OneRunAtATime == IsFiniteSet(ThreadRuns) /\ MaxActive \in 0..1

\* What stands for no user is no user, and what stands for no process no process.
ASSUME NobodyIsNobody == "nobody" \notin Users /\ "none" \notin Processes

\* The versions are numbered, and every process starts with the first.
ASSUME VersionsAreNumbered == 1 \in Versions /\ Versions \subseteq Nat \ {0}

\* The configuration lists the servers of tools one after the other.
ASSUME ServersAreListed == ToolServers \in Seq({ToolServers[i] : i \in DOMAIN ToolServers})

\* What holds a lock that no call holds is no call.
ASSUME ClientsAreCalls == {"none", "nobody"} \cap Clients = {}

VARIABLES
  clock, threads, asks, writes, delete, walk, panel, loads,
  produced, checkpoint, asked, messages, results, run, streamFaults,
  made, providerLock, textCall, textTask, textClock, textFaults,
  hasThread, operation, generation, draft, attachments, uploading, submitting, loading,
  runStatus, question, resuming, handlers, uploads, runs, given, items, visits, answeredEarly,
  storedToken, token, user, restoring, loggingIn, owner, expired, disabled, pageLoads,
  offers, loaded, tools, errors, toolLock, doing, wanted, answers, agentTools, round, rounds,
  published, changes,
  version, stopped, cache, requests, page, awaited, selected, refused, ticks

T == INSTANCE Threads WITH Limit <- PageLimit

S == INSTANCE ThreadStream WITH
  Runs <- ThreadRuns, Faults <- ThreadFaults, MaxFaults <- MaxStreamFaults,
  faults <- streamFaults

\* Pictures that every provider reads, and some that Unlimited-OCR does not.
E == INSTANCE Extraction WITH
  Calls <- Clients, Nobody <- "nobody",
  Kinds <- {{"rapidocr", "paddleocr", "unlimitedocr"}, {"rapidocr", "paddleocr"}},
  Types <- {"any", "unlimitedocr"}, Configured <- {"rapidocr", "paddleocr", "unlimitedocr"},
  MaxClock <- MaxPollClock, MaxFaults <- MaxServiceFaults,
  lock <- providerLock, call <- textCall, task <- textTask, clock <- textClock,
  faults <- textFaults

I == INSTANCE Composer

U == INSTANCE Session WITH
  Nobody <- "nobody", stored <- storedToken, loads <- pageLoads, MaxLoads <- MaxPageLoads

M == INSTANCE McpTools WITH
  Order <- ToolServers, Names <- ToolNames,
  Callers <- Clients, Nobody <- "nobody", lock <- toolLock, given <- agentTools

G == INSTANCE Catalogue WITH None <- "none", asked <- requests, loading <- awaited
=============================================================================
