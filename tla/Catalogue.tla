------------------------------- MODULE Catalogue -------------------------------
(***************************************************************************)
(* The catalogue of chat models: built from the code and configuration of a  *)
(* process, kept in Redis for an hour for all processes, read once by a page  *)
(* (model_cache, useModelStore), while processes are replaced by newer ones  *)
(* and Redis fails.  A run is created by a process that asks its own          *)
(* configuration, and not the catalogue, whether the model is available.     *)
(***************************************************************************)
EXTENDS Integers

CONSTANTS
  Processes,
  Versions,   \* of the code and the configuration: 1..n
  Listed,     \* per version: the models of its providers
  Default,    \* per version: its default model
  Supported,  \* the models of providers that can be loaded
  None,       \* no model and no process
  TTL,        \* MODEL_CATALOG_CACHE_TTL_SECONDS, in ticks
  MaxTicks    \* bound on the clock

VARIABLES
  version,  \* per process: what it runs
  stopped,  \* per version: the ticks since the last process with it stopped
  cache,    \* the key in Redis
  asked,    \* per process: where a request for the catalogue is
  page,     \* the catalogue useModelStore has, by its version; 0: none
  loading,
  selected, \* selectedModelId
  refused,  \* the version of the process that refused the model of the page last; 0: none
  ticks

vars == <<version, stopped, cache, asked, page, loading, selected, refused, ticks>>

Missing == [version |-> 0, age |-> 0]

\* A value that is no catalogue.
Garbage == [version |-> -1, age |-> 0]

TypeOK ==
  /\ version \in [Processes -> Versions]
  /\ stopped \in [Versions -> 0..MaxTicks]
  /\ cache \in {Missing, Garbage} \cup [version : Versions, age : 0..TTL - 1]
  /\ asked \in [Processes -> {"nothing", "get", "set"}]
  /\ page \in {0} \cup Versions
  /\ loading \in {None} \cup Processes
  /\ selected \in {None} \cup UNION {Listed[v] : v \in Versions}
  /\ refused \in {0} \cup Versions /\ ticks \in 0..MaxTicks

Init ==
  /\ version = [p \in Processes |-> 1]
  /\ stopped = [v \in Versions |-> 0]
  /\ cache \in {Missing, Garbage} /\ asked = [p \in Processes |-> "nothing"]
  /\ page = 0 /\ loading = None /\ selected = None /\ refused = 0 /\ ticks = 0

\* is_model_available; the same says the catalogue of the version.
Available(v) == Listed[v] \cap Supported

\* What the catalogue says: is_available of its models.
IsAvailable(v) == Listed[v] \cap Supported

-----------------------------------------------------------------------------
(* Time, and the processes.                                                *)

\* Plausible slip: the key is written without ex.
Kept == cache

\* The key expires.
Aged ==
  IF cache.version < 1 THEN cache
  ELSE IF cache.age + 1 = TTL THEN Missing ELSE [cache EXCEPT !.age = @ + 1]

Running(v) == \E p \in Processes : version[p] = v

Tick ==
  /\ ticks < MaxTicks
  /\ ticks' = ticks + 1
  /\ stopped' = [v \in Versions |-> IF Running(v) THEN 0 ELSE stopped[v] + 1]
  /\ cache' = Aged
  /\ UNCHANGED <<version, asked, page, loading, selected, refused>>

\* A process is replaced by a newer one; requests it serves end with it.
Replace(p) ==
  /\ \E v \in Versions :
       /\ v > version[p]
       /\ version' = [version EXCEPT ![p] = v]
       /\ stopped' = [stopped EXCEPT ![v] = 0]
  /\ asked' = [asked EXCEPT ![p] = "nothing"]
  /\ loading' = IF loading = p THEN None ELSE loading
  /\ UNCHANGED <<cache, page, selected, refused, ticks>>

-----------------------------------------------------------------------------
(* The page, and get_model_catalog.                                        *)

\* loadModels, once per page that has no catalogue yet: whichever process.
LoadModels(p) ==
  /\ page = 0 /\ loading = None /\ asked[p] = "nothing"
  /\ loading' = p /\ asked' = [asked EXCEPT ![p] = "get"]
  /\ UNCHANGED <<version, stopped, cache, page, selected, refused, ticks>>

\* The answer: the default model is selected, or another that is available.
Answer(p, v) ==
  IF loading # p THEN UNCHANGED <<page, loading, selected>>
  ELSE /\ page' = v /\ loading' = None
       /\ IF Default[v] \in IsAvailable(v) THEN selected' = Default[v]
          ELSE selected' \in IsAvailable(v) \cup (IF IsAvailable(v) = {} THEN {None} ELSE {})

\* redis.get finds the catalogue.
Hit(p) ==
  /\ asked[p] = "get" /\ cache.version > 0
  /\ Answer(p, cache.version)
  /\ asked' = [asked EXCEPT ![p] = "nothing"]
  /\ UNCHANGED <<version, stopped, cache, refused, ticks>>

\* It finds none, or nothing that can be read: the catalogue is built.
Miss(p) ==
  /\ asked[p] = "get" /\ cache.version < 1
  /\ asked' = [asked EXCEPT ![p] = "set"]
  /\ UNCHANGED <<version, stopped, cache, page, loading, selected, refused, ticks>>

\* redis.set takes the place of what another process may have written since.
Set(p) ==
  /\ asked[p] = "set"
  /\ cache' = [version |-> version[p], age |-> 0]
  /\ Answer(p, version[p])
  /\ asked' = [asked EXCEPT ![p] = "nothing"]
  /\ UNCHANGED <<version, stopped, refused, ticks>>

\* Redis fails: the catalogue is built and not kept.
RedisFails(p) ==
  /\ asked[p] # "nothing"
  /\ Answer(p, version[p])
  /\ asked' = [asked EXCEPT ![p] = "nothing"]
  /\ UNCHANGED <<version, stopped, cache, refused, ticks>>

\* The request fails on its way: loadModels has nothing.
LoadFails ==
  /\ loading # None
  /\ loading' = None /\ selected' = None
  /\ UNCHANGED <<version, stopped, cache, asked, page, refused, ticks>>

SelectModel(m) ==
  /\ page # 0 /\ m \in IsAvailable(page)
  /\ selected' = m
  /\ UNCHANGED <<version, stopped, cache, asked, page, loading, refused, ticks>>

\* create_agent_run_service looks the model up.
CreateRun(p) ==
  /\ selected # None
  /\ refused' = IF selected \in Available(version[p]) THEN refused ELSE version[p]
  /\ UNCHANGED <<version, stopped, cache, asked, page, loading, selected, ticks>>

\* The page is loaded again.
Reload ==
  /\ page # 0 \/ loading # None
  /\ page' = 0 /\ loading' = None /\ selected' = None /\ refused' = 0
  /\ UNCHANGED <<version, stopped, cache, asked, ticks>>

Next ==
  \/ Tick \/ LoadFails \/ Reload
  \/ \E p \in Processes :
       Replace(p) \/ LoadModels(p) \/ Hit(p) \/ Miss(p) \/ Set(p) \/ RedisFails(p) \/ CreateRun(p)
  \/ \E v \in Versions : \E m \in Listed[v] : SelectModel(m)

Spec == Init /\ [][Next]_vars

-----------------------------------------------------------------------------
(* What must hold.                                                         *)

\* What a page is given was the catalogue of some process less than the time to
\* live ago, however late an older process wrote it.
CatalogueIsRecent == cache.version > 0 => stopped[cache.version] <= cache.age

\* A model is refused only by a process of another version than the catalogue
\* the page has.
OfferedIsAccepted == refused # 0 => refused # page
=============================================================================
