------------------------------- MODULE MCOthers -------------------------------
(***************************************************************************)
(* More components that are proved about beside each other, in OthersProofs: *)
(* the search with its evaluation, what the page shows of a run, and the    *)
(* sandboxes.  MCServices composes them with those of MCParts and with the  *)
(* rest.                                                                    *)
(***************************************************************************)
EXTENDS Integers, FiniteSets, Sequences

CONSTANTS
  MaxTexts, BatchSize, Count, SearchLimits, MaxSamples,
  CandidateLimits, Kss, MinRecalls, Relevances,
  Streamed, CallOf, IdOf, NoId, Todos, MaxDeltas, CharacterLimit, MaxBreaks,
  SandboxKeys, SandboxRuns, SandboxDestroys, SandboxOf, SandboxFaultKinds,
  MaxContainers, MaxSandboxFaults

\* What a search and an evaluation are given: there is a batch, a limit is at least
\* one (Query(ge=1)), RetrievalEvaluator refuses ks that are empty or below one, and
\* it may be given no min_recall.
ASSUME SearchParameters ==
  /\ {MaxTexts, Count, MaxSamples} \subseteq Nat
  /\ BatchSize \in Nat \ {0}
  /\ CandidateLimits \subseteq Nat /\ CandidateLimits # {}
  /\ SearchLimits \subseteq Nat \ {0} /\ SearchLimits # {}
  /\ MinRecalls \subseteq Nat /\ 0 \in MinRecalls
  /\ Kss # {} /\ \A ks \in Kss : ks \subseteq Nat \ {0} /\ ks # {} /\ IsFiniteSet(ks)
  /\ Relevances \subseteq [1..Count -> Nat]

\* The names that the messages of a run get are their own: no two have the same id, no
\* id is a key, and what is named by its key has the key for itself.  A state of the
\* todo list is no message.
ASSUME LiveParameters ==
  /\ {MaxDeltas, CharacterLimit, MaxBreaks} \subseteq Nat
  /\ Streamed \cap Todos = {}
  /\ \A m \in Streamed :
       LET name(o) == IF IdOf[o] = NoId THEN CallOf[o] ELSE IdOf[o]
       IN /\ name(m) # "answer"
          /\ \A other \in Streamed \ {m} : /\ name(m) # name(other)
                                           /\ IdOf[m] = NoId => CallOf[m] # CallOf[other]

\* Every call has the key of a user and a thread, and what stands for no call and for
\* no key is neither.
ASSUME SandboxParameters ==
  /\ SandboxOf \in [SandboxRuns \cup SandboxDestroys -> SandboxKeys]
  /\ "none" \notin SandboxRuns \cup SandboxDestroys \cup SandboxKeys
  /\ {MaxContainers, MaxSandboxFaults} \subseteq Nat

VARIABLES
  task, searchPhase, texts, expected, embedded, searchOptions, samples, hits, responses, report,
  spoken, open, over, messageIds, lastState, bucket, entries, cards, next, breaks,
  bindings, closed, lock, held, toolCall, request, docker, container, started,
  activity, batch, reaping, sandboxFaults

R == INSTANCE Retrieval WITH
  Limits <- SearchLimits,
  phase <- searchPhase, vectors <- embedded, options <- searchOptions

L == INSTANCE LiveMessages WITH
  Messages <- Streamed, Key <- CallOf, Id <- IdOf, States <- Todos

B == INSTANCE Sandbox WITH
  Keys <- SandboxKeys, Runs <- SandboxRuns, Destroys <- SandboxDestroys,
  KeyOf <- SandboxOf, Faults <- SandboxFaultKinds, MaxFaults <- MaxSandboxFaults,
  call <- toolCall, faults <- sandboxFaults
=============================================================================
