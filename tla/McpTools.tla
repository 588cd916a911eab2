------------------------------- MODULE McpTools -------------------------------
(***************************************************************************)
(* The catalogue of MCP tools a process keeps (mcp_service): the first run   *)
(* that needs it asks every server for its tools, later ones take what is    *)
(* there, an operation refreshes it, and a lock keeps one discovery from      *)
(* another.  Servers fail and change what they offer; a run may be aborted   *)
(* wherever it waits.  Runs call the tools they were given, some at a time.  *)
(***************************************************************************)
EXTENDS Integers, FiniteSets, FiniteSetsExt, SequencesExt

CONSTANTS
  Order,         \* the servers of the configuration that are enabled and valid, in its order
  Misconfigured, \* those that are not valid: _CONFIG_ERRORS
  Names,         \* full names of tools
  MayOffer,      \* per server: the sets of names it may offer; one may clash with another's
  Selections,    \* values of server_names
  Callers,       \* runs, and who refreshes
  Nobody,        \* not one of them
  Concurrency,   \* mcp_max_concurrency
  MaxChanges,    \* bound on the changes of the servers
  MaxRounds      \* bound on the discoveries

Servers == ToSet(Order)

Failed == "failed"

VARIABLES
  offers,    \* per server: what it offers now, or Failed
  loaded,    \* _TOOLS_LOADED
  tools,     \* _TOOLS and _TOOL_ROUTES: the name of a tool and its server
  errors,    \* _SERVER_ERRORS: the servers it knows an error of
  lock,      \* _TOOLS_LOCK: who holds it
  doing,     \* per caller: what it waits for
  wanted,    \* per caller: server_names; all of them when it is empty
  answers,   \* per caller: what a discovery has been told so far
  given,     \* per caller: the tools of its agent, with their servers
  round,     \* per caller: the number of its discovery
  rounds,    \* the discoveries begun
  published, \* the one the catalogue is of
  changes

vars == <<offers, loaded, tools, errors, lock, doing, wanted, answers, given, round, rounds,
          published, changes>>

catalogue == <<loaded, tools, errors, published>>

TypeOK ==
  /\ \A s \in Servers : offers[s] \in MayOffer[s] \cup {{Failed}}
  /\ loaded \in BOOLEAN
  /\ DOMAIN tools \subseteq Names /\ \A n \in DOMAIN tools : tools[n] \in Servers
  /\ errors \subseteq Servers \cup Misconfigured
  /\ lock \in {Nobody} \cup Callers
  /\ doing \in [Callers -> {"nothing", "list", "refresh", "discover", "slot", "call"}]
  /\ wanted \in [Callers -> Selections \cup {{}}]
  /\ \A c \in Callers : /\ DOMAIN answers[c] \subseteq Servers
                        /\ DOMAIN given[c] \subseteq Names
  /\ round \in [Callers -> 0..MaxRounds] /\ rounds \in 0..MaxRounds /\ published \in 0..MaxRounds
  /\ changes \in 0..MaxChanges

Init ==
  /\ offers \in {o \in [Servers -> UNION {MayOffer[s] : s \in Servers}] :
                   \A s \in Servers : o[s] \in MayOffer[s]}
  /\ loaded = FALSE /\ tools = << >> /\ errors = Misconfigured /\ published = 0
  /\ lock = Nobody /\ rounds = 0 /\ changes = 0
  /\ doing = [c \in Callers |-> "nothing"]
  /\ wanted = [c \in Callers |-> {}]
  /\ answers = [c \in Callers |-> << >>]
  /\ given = [c \in Callers |-> << >>]
  /\ round = [c \in Callers |-> 0]

\* A server offers other tools, breaks down or comes back.
ServerChanges(s) ==
  /\ changes < MaxChanges
  /\ changes' = changes + 1
  /\ \E now \in MayOffer[s] \cup {{Failed}} : offers' = [offers EXCEPT ![s] = now]
  /\ UNCHANGED <<loaded, tools, errors, lock, doing, wanted, answers, given, round, rounds,
                 published>>

-----------------------------------------------------------------------------
(* The catalogue.                                                          *)

\* get_mcp_tools up to the lock.
AskTools(c) ==
  /\ doing[c] = "nothing"
  /\ \E servers \in Selections : wanted' = [wanted EXCEPT ![c] = servers]
  /\ doing' = [doing EXCEPT ![c] = "list"]
  /\ UNCHANGED <<offers, lock, answers, given, round, rounds, changes, catalogue>>

\* refresh_mcp_tools up to the lock.
AskRefresh(c) ==
  /\ doing[c] = "nothing"
  /\ doing' = [doing EXCEPT ![c] = "refresh"]
  /\ UNCHANGED <<offers, lock, wanted, answers, given, round, rounds, changes, catalogue>>

\* The tools of the servers asked for.
Selection(c, routes) ==
  [n \in {n \in DOMAIN routes : wanted[c] = {} \/ routes[n] \in wanted[c]} |-> routes[n]]

\* A caller has what it asked for, or nothing: what it kept for that is gone.
Done(c) ==
  /\ doing' = [doing EXCEPT ![c] = "nothing"]
  /\ wanted' = [wanted EXCEPT ![c] = {}]
  /\ answers' = [answers EXCEPT ![c] = << >>]
  /\ round' = [round EXCEPT ![c] = 0]

\* Plausible slip: the lock is not taken.
AlwaysFree == TRUE

LockIsFree == lock = Nobody

\* The catalogue is there: the lock is given back at once.
TakeListed(c) ==
  /\ LockIsFree /\ doing[c] = "list" /\ loaded
  /\ given' = [given EXCEPT ![c] = Selection(c, tools)]
  /\ Done(c)
  /\ UNCHANGED <<offers, lock, rounds, changes, catalogue>>

\* _reload_mcp_tools: every server is asked at once.
StartDiscovery(c) ==
  /\ rounds < MaxRounds
  /\ LockIsFree
  /\ doing[c] = "refresh" \/ (doing[c] = "list" /\ ~loaded)
  /\ lock' = c /\ rounds' = rounds + 1
  /\ round' = [round EXCEPT ![c] = rounds + 1]
  /\ doing' = [doing EXCEPT ![c] = "discover"]
  /\ UNCHANGED <<offers, wanted, answers, given, changes, catalogue>>

\* _load_server_tools: a timeout is a failure, too.
LoadServerTools(c, s) ==
  /\ doing[c] = "discover" /\ s \notin DOMAIN answers[c]
  /\ \E answer \in {offers[s], {Failed}} :
       answers' = [answers EXCEPT ![c] =
         [r \in DOMAIN answers[c] \cup {s} |-> IF r = s THEN answer ELSE answers[c][r]]]
  /\ UNCHANGED <<offers, lock, doing, wanted, given, round, rounds, changes, catalogue>>

\* Of two servers with a tool of the same full name the first one has it.
Offering(c, n) == {i \in DOMAIN Order : n \in answers[c][Order[i]]}

RoutesOf(c) ==
  [n \in {n \in Names : Offering(c, n) # {}} |-> Order[Min(Offering(c, n))]]

ErrorsOf(c) ==
  Misconfigured
    \cup {s \in Servers : \/ answers[c][s] = {Failed}
                          \/ \E n \in answers[c][s] : RoutesOf(c)[n] # s}

\* What was found takes the place of what was there, the errors of calls
\* included; from now on the catalogue is there, even when every server failed.
Publish(c) ==
  /\ doing[c] = "discover" /\ DOMAIN answers[c] = Servers
  /\ tools' = RoutesOf(c) /\ errors' = ErrorsOf(c) /\ loaded' = TRUE
  /\ published' = round[c]
  /\ given' = [given EXCEPT ![c] = Selection(c, RoutesOf(c))]
  /\ Done(c)
  /\ lock' = Nobody
  /\ UNCHANGED <<offers, rounds, changes>>

-----------------------------------------------------------------------------
(* The calls.                                                              *)

Calling == {c \in Callers : doing[c] = "call"}

\* The agent calls a tool it was given, or call_mcp_tool one it has just looked
\* up by its name: first it waits for the semaphore.
StartCall(c) ==
  /\ doing[c] = "nothing" /\ DOMAIN given[c] # {}
  /\ doing' = [doing EXCEPT ![c] = "slot"]
  /\ UNCHANGED <<offers, lock, wanted, answers, given, round, rounds, changes, catalogue>>

TakeSlot(c) ==
  /\ doing[c] = "slot" /\ Cardinality(Calling) < Concurrency
  /\ doing' = [doing EXCEPT ![c] = "call"]
  /\ UNCHANGED <<offers, lock, wanted, answers, given, round, rounds, changes, catalogue>>

\* _intercept_tool_call: the server answers, or fails, or the time is over.
CallEnds(c) ==
  /\ doing[c] = "call"
  /\ doing' = [doing EXCEPT ![c] = "nothing"]
  /\ \E n \in DOMAIN given[c] :
       LET s == given[c][n]
       IN \/ n \in offers[s] /\ errors' = errors \ {s}
          \/ errors' = errors \cup {s}
  /\ UNCHANGED <<offers, loaded, tools, lock, wanted, answers, given, round, rounds, published,
                 changes>>

\* The run is aborted where it waits: the lock and the semaphore are given back,
\* and a discovery leaves nothing.
Abort(c) ==
  /\ doing[c] # "nothing"
  /\ Done(c)
  /\ lock' = IF lock = c THEN Nobody ELSE lock
  /\ UNCHANGED <<offers, given, rounds, changes, catalogue>>

Next ==
  \/ \E s \in Servers : ServerChanges(s)
  \/ \E c \in Callers :
       \/ AskTools(c) \/ AskRefresh(c) \/ TakeListed(c) \/ StartDiscovery(c) \/ Publish(c)
       \/ \E s \in Servers : LoadServerTools(c, s)
       \/ StartCall(c) \/ TakeSlot(c) \/ CallEnds(c) \/ Abort(c)

Spec == Init /\ [][Next]_vars

-----------------------------------------------------------------------------
(* What must hold.                                                         *)

\* Nobody waits for a lock whose holder has gone.
LockIsReturned == lock # Nobody => doing[lock] = "discover" /\ round[lock] = rounds

\* The catalogue is of the newest discovery that came to its end: an older one
\* never takes its place, nor does one that was aborted leave a part of itself.
MovesForward ==
  tools' # tools \/ loaded' # loaded => published' > published /\ published' <= rounds

CatalogueMovesForward == [][MovesForward]_vars
=============================================================================
