----------------------------- MODULE PartsProofs -----------------------------
(***************************************************************************)
(* What holds of the conversations, of the message saving of a thread, of   *)
(* the reading of pictures, of the input of the page, of the log-in and of  *)
(* the catalogues, for every value of their bounds: one part after the      *)
(* other, each with its inductive invariant.  ServicesProofs says the same  *)
(* of the composition.                                                     *)
(***************************************************************************)
EXTENDS MCParts, FiniteSetTheorems, WellFoundedInduction, TLAPS

\* No caller is nobody.
LEMMA ToolParameters == "nobody" \notin Clients
BY ClientsAreCalls

-----------------------------------------------------------------------------
(* The catalogue of tools: a discovery publishes under the lock, and what it *)
(* publishes is newer than what was there.                                  *)

\* The shape of what the lock is about.
ToolShapes ==
  /\ doing \in [Clients -> {"nothing", "list", "refresh", "discover", "slot", "call"}]
  /\ round \in [Clients -> Nat]
  /\ rounds \in Nat /\ published \in Nat
  /\ toolLock \in Clients \cup {"nobody"}

\* Who discovers holds the lock, and is the newest to do so: what it will publish
\* is newer than what was published.
DiscoveryIsExclusive ==
  /\ \A c \in Clients : doing[c] = "discover" => toolLock = c
  /\ published <= rounds
  /\ toolLock # "nobody" => published < rounds

ToolInv == ToolShapes /\ DiscoveryIsExclusive /\ M!LockIsReturned

\* The steps of a caller that leave the lock and the catalogue alone.
LeavesCatalogue(c) ==
  \/ M!AskTools(c) \/ M!AskRefresh(c) \/ M!TakeListed(c)
  \/ \E s \in M!Servers : M!LoadServerTools(c, s)
  \/ M!StartCall(c) \/ M!TakeSlot(c) \/ M!CallEnds(c)

\* A caller that is done touches no other.
LEMMA CallerIsDone ==
  ASSUME ToolShapes, NEW c \in Clients, M!Done(c)
  PROVE  /\ doing' \in [Clients -> {"nothing", "list", "refresh", "discover", "slot", "call"}]
         /\ round' \in [Clients -> Nat]
         /\ doing'[c] = "nothing"
         /\ \A d \in Clients \ {c} : doing'[d] = doing[d] /\ round'[d] = round[d]
BY DEF ToolShapes, M!Done

\* A step that is neither the start nor the end of a discovery keeps what they rely on.
LEMMA CatalogueStays ==
  ASSUME "nobody" \notin Clients, ToolInv, NEW c \in Clients, LeavesCatalogue(c)
  PROVE  ToolInv' /\ UNCHANGED <<tools, loaded>>
<1>1. UNCHANGED <<tools, loaded, published, rounds, toolLock>>
  BY DEF LeavesCatalogue, M!AskTools, M!AskRefresh, M!TakeListed, M!LoadServerTools, M!StartCall, M!TakeSlot, M!CallEnds,
         M!catalogue
<1>2. /\ ToolShapes'
      /\ \A d \in Clients : doing'[d] = "discover" <=> doing[d] = "discover"
      /\ \A d \in Clients : doing[d] = "discover" => round'[d] = round[d]
  <2>1. CASE M!TakeListed(c)
    <3>1. doing[c] = "list" /\ M!Done(c)
      BY <2>1 DEF M!TakeListed
    <3> QED  BY <1>1, <3>1, CallerIsDone DEF ToolInv, ToolShapes
  <2>2. CASE \E s \in M!Servers : M!LoadServerTools(c, s)
    BY <1>1, <2>2 DEF M!LoadServerTools, ToolInv, ToolShapes
  <2>3. CASE M!AskTools(c) \/ M!AskRefresh(c) \/ M!StartCall(c) \/ M!TakeSlot(c) \/ M!CallEnds(c)
    <3>1. /\ UNCHANGED round /\ doing[c] # "discover"
          /\ \E s \in {"nothing", "list", "refresh", "slot", "call"} :
               doing' = [doing EXCEPT ![c] = s]
      BY <2>3 DEF M!AskTools, M!AskRefresh, M!StartCall, M!TakeSlot, M!CallEnds
    <3> QED  BY <1>1, <3>1 DEF ToolInv, ToolShapes
  <2> QED  BY <2>1, <2>2, <2>3 DEF LeavesCatalogue
<1>3. DiscoveryIsExclusive' /\ M!LockIsReturned'
  BY <1>1, <1>2 DEF ToolInv, ToolShapes, DiscoveryIsExclusive, M!LockIsReturned
<1> QED  BY <1>1, <1>2, <1>3 DEF ToolInv

\* It is true at the start.
LEMMA ToolsStart == M!Init => ToolInv
BY DEF M!Init, ToolInv, ToolShapes, DiscoveryIsExclusive, M!LockIsReturned

\* Every step keeps it, and moves the catalogue forward or not at all.
LEMMA ToolsStep ==
  ASSUME "nobody" \notin Clients, ToolInv, [M!Next]_M!vars
  PROVE  ToolInv' /\ [M!MovesForward]_M!vars
<1>1. ASSUME NEW s \in M!Servers, M!ServerChanges(s)
      PROVE  ToolInv' /\ UNCHANGED <<tools, loaded>>
  BY <1>1 DEF M!ServerChanges, ToolInv, ToolShapes, DiscoveryIsExclusive, M!LockIsReturned
<1>2. ASSUME NEW c \in Clients, M!StartDiscovery(c)
      PROVE  ToolInv' /\ UNCHANGED <<tools, loaded>>
  <2>1. /\ toolLock = "nobody" /\ toolLock' = c /\ rounds' = rounds + 1
        /\ doing'[c] = "discover" /\ round'[c] = rounds'
        /\ \A d \in Clients \ {c} : doing'[d] = doing[d]
        /\ UNCHANGED <<tools, loaded, published>>
    BY <1>2 DEF M!StartDiscovery, M!LockIsFree, M!catalogue, ToolInv, ToolShapes
  <2>2. ToolShapes'
    BY <1>2, <2>1 DEF M!StartDiscovery, ToolInv, ToolShapes
  \* The lock was free: nobody else discovers.
  <2>3. \A d \in Clients \ {c} : doing'[d] # "discover"
    BY <2>1 DEF ToolInv, DiscoveryIsExclusive
  <2>4. published' < rounds'
    BY <2>1 DEF ToolInv, ToolShapes, DiscoveryIsExclusive
  <2> QED  BY <2>1, <2>2, <2>3, <2>4 DEF ToolInv, ToolShapes, DiscoveryIsExclusive, M!LockIsReturned
<1>3. ASSUME NEW c \in Clients, M!Publish(c)
      PROVE  ToolInv' /\ M!MovesForward
  <2>1. /\ doing[c] = "discover" /\ toolLock = c /\ c # "nobody"
        /\ published' = round[c] /\ toolLock' = "nobody" /\ UNCHANGED rounds
    BY <1>3 DEF M!Publish, ToolInv, DiscoveryIsExclusive
  <2>2. published < rounds /\ round[c] = rounds
    BY <2>1 DEF ToolInv, DiscoveryIsExclusive, M!LockIsReturned
  <2>3. M!Done(c)
    BY <1>3 DEF M!Publish
  <2>4. ToolShapes' /\ DiscoveryIsExclusive' /\ M!LockIsReturned'
    BY <2>1, <2>2, <2>3, CallerIsDone DEF ToolInv, ToolShapes, DiscoveryIsExclusive, M!LockIsReturned
  <2>5. M!MovesForward
    BY <2>1, <2>2 DEF M!MovesForward, ToolInv, ToolShapes
  <2> QED  BY <2>4, <2>5 DEF ToolInv
<1>4. ASSUME NEW c \in Clients, M!Abort(c)
      PROVE  ToolInv' /\ UNCHANGED <<tools, loaded>>
  <2>1. /\ M!Done(c) /\ toolLock' = (IF toolLock = c THEN "nobody" ELSE toolLock)
        /\ UNCHANGED <<rounds, published, tools, loaded>>
    BY <1>4 DEF M!Abort, M!catalogue
  <2>2. ToolShapes' /\ DiscoveryIsExclusive' /\ M!LockIsReturned'
    BY <2>1, CallerIsDone DEF ToolInv, ToolShapes, DiscoveryIsExclusive, M!LockIsReturned
  <2> QED  BY <2>1, <2>2 DEF ToolInv
<1>5. CASE UNCHANGED M!vars
  BY <1>5 DEF M!vars, ToolInv, ToolShapes, DiscoveryIsExclusive, M!LockIsReturned
<1>6. CASE M!Next
  <2>1. \/ \E s \in M!Servers : M!ServerChanges(s)
        \/ \E c \in Clients : LeavesCatalogue(c) \/ M!StartDiscovery(c) \/ M!Publish(c) \/ M!Abort(c)
    BY <1>6 DEF M!Next, LeavesCatalogue
  <2> QED  BY <1>1, <1>2, <1>3, <1>4, <2>1, CatalogueStays DEF M!MovesForward
<1> QED  BY <1>5, <1>6

\* It is true of every behaviour.
LEMMA ToolsInductive == M!Spec => []ToolInv
<1>1. M!Init => ToolInv
  BY ToolsStart
<1>2. ToolInv /\ [M!Next]_M!vars => ToolInv'
  BY ToolParameters, ToolsStep
<1> QED
  BY <1>1, <1>2, PTL DEF M!Spec

\* _TOOLS_LOCK is held by a discovery that is underway, and by the newest one, wherever
\* runs are aborted and however servers fail (get_mcp_tools, refresh_mcp_tools).
LEMMA LockReturned == M!Spec => []M!LockIsReturned
<1>1. ToolInv => M!LockIsReturned
  BY DEF ToolInv
<1> QED
  BY <1>1, ToolsInductive, PTL

\* _reload_mcp_tools replaces the catalogue as a whole, by what a newer discovery
\* found: one that was aborted or overtaken changes nothing.
LEMMA ToolsMoveForward == M!Spec => [][M!MovesForward]_M!vars
<1>1. ToolInv /\ [M!Next]_M!vars => [M!MovesForward]_M!vars
  BY ToolParameters, ToolsStep
<1> QED
  BY <1>1, ToolsInductive, PTL DEF M!Spec

-----------------------------------------------------------------------------
(* The log-in.  A user is shown only with the token that made the tab show  *)
(* it, and tokens are never made over: that each is older than the next one *)
(* is what has to be added.                                                *)

SessionParameters == "nobody" \notin Users /\ MaxTokens \in Nat /\ MaxPageLoads \in Nat

Made == Cardinality(DOMAIN owner)

\* The tokens are numbered in the order they were made, and no other is about.
TokensAreMade ==
  /\ Made \in Nat /\ DOMAIN owner = 1..Made
  /\ storedToken \in {U!NoToken} \cup DOMAIN owner
  /\ \A t \in Tabs : /\ token[t] \in {U!NoToken} \cup DOMAIN owner
                     /\ restoring[t] \in {U!NoToken} \cup DOMAIN owner

SessionInv == U!TypeOK /\ TokensAreMade /\ U!ShownUserIsOwner

\* At the start there is no token.
LEMMA NoTokens == Cardinality(DOMAIN << >>) = 0 /\ DOMAIN << >> = 1..0
<1>1. DOMAIN << >> = {}
  OBVIOUS
<1> QED
  BY <1>1, FS_EmptySet

\* It is true at the start.
LEMMA SessionStart == SessionParameters /\ U!Init => SessionInv
<1> SUFFICES ASSUME SessionParameters, U!Init PROVE SessionInv
  OBVIOUS
<1>1. U!TypeOK
  BY NoTokens DEF SessionParameters, U!Init, U!TypeOK, U!Tokens, U!NoToken
<1>2. TokensAreMade
  BY NoTokens DEF U!Init, TokensAreMade, Made, U!NoToken
<1> QED
  BY <1>1, <1>2 DEF U!Init, U!ShownUserIsOwner, SessionInv

\* As many tokens as their last number says.
LEMMA Numbered == ASSUME NEW n \in Nat PROVE Cardinality(1..n) = n
BY FS_Interval

\* Every step keeps it.
LEMMA SessionStep == SessionParameters /\ SessionInv /\ [U!Next]_U!vars => SessionInv'
<1> SUFFICES ASSUME SessionParameters, SessionInv, [U!Next]_U!vars PROVE SessionInv'
  OBVIOUS
<1> USE DEF SessionParameters, SessionInv, U!TypeOK, TokensAreMade, U!ShownUserIsOwner, U!Tokens, U!NoToken
<1>1. ASSUME NEW t \in Tabs, U!Load(t) PROVE SessionInv'
  BY <1>1 DEF U!Load, Made
<1>2. ASSUME NEW t \in Tabs, U!RestoreReturns(t) PROVE SessionInv'
  <2> DEFINE who == U!CurrentUser(restoring[t])
  <2>1. restoring[t] \in DOMAIN owner
    BY <1>2 DEF U!RestoreReturns
  <2>2. who = owner[restoring[t]] \/ who = "nobody"
    BY DEF U!CurrentUser
  <2>3. who \in {"nobody"} \cup Users
    BY <2>1, <2>2
  <2>4. /\ restoring' = [restoring EXCEPT ![t] = 0]
        /\ UNCHANGED <<loggingIn, owner, expired, disabled, pageLoads>>
    BY <1>2 DEF U!RestoreReturns
  <2>5. Made' = Made
    BY <2>4 DEF Made
  <2>6. /\ restoring' \in [Tabs -> {0} \cup (1..MaxTokens)]
        /\ \A o \in Tabs : restoring'[o] \in {0} \cup DOMAIN owner
    BY <2>4
  <2>7. CASE UNCHANGED <<storedToken, token, user>>
    BY <2>4, <2>5, <2>6, <2>7
  <2>8. CASE /\ who # "nobody" /\ token[t] = restoring[t]
             /\ user' = [user EXCEPT ![t] = who] /\ UNCHANGED <<storedToken, token>>
    <3>1. U!ShownUserIsOwner'
      BY <1>2, <2>2, <2>4, <2>8 DEF U!RestoreReturns
    <3>2. user' \in [Tabs -> {"nobody"} \cup Users]
      BY <2>3, <2>8
    <3> HIDE DEF who
    <3> QED
      BY <2>4, <2>5, <2>6, <2>8, <3>1, <3>2
  <2>9. CASE U!LoggedOut(t)
    <3>1. /\ token' = [token EXCEPT ![t] = 0] /\ user' = [user EXCEPT ![t] = "nobody"] /\ storedToken' = 0
      BY <2>9 DEF U!LoggedOut
    <3>2. U!ShownUserIsOwner'
      BY <2>4, <3>1
    <3>3. TokensAreMade'
      BY <2>4, <2>5, <2>6, <3>1
    <3> QED
      BY <2>4, <2>6, <3>1, <3>2, <3>3
  <2>10. user' = [user EXCEPT ![t] = user[t]] => user' = user
    OBVIOUS
  <2> HIDE DEF who
  <2> QED
    BY <1>2, <2>7, <2>8, <2>9, <2>10 DEF U!RestoreReturns, U!StillThere, who
<1>3. ASSUME NEW t \in Tabs, U!LoginReturns(t) PROVE SessionInv'
  <2> DEFINE n == Made + 1
  <2>0. U!Cardinality(DOMAIN owner) = Made
    BY DEF Made, U!Cardinality, Cardinality
  <2>1. CASE UNCHANGED <<owner, token, user, storedToken>>
    BY <1>3, <2>1 DEF U!LoginReturns, Made
  <2>2. CASE /\ loggingIn[t] \notin disabled /\ n <= MaxTokens
             /\ owner' = [k \in 1..n |-> IF k = n THEN loggingIn[t] ELSE owner[k]]
             /\ token' = [token EXCEPT ![t] = n]
             /\ user' = [user EXCEPT ![t] = loggingIn[t]]
             /\ storedToken' = n
    <3>1. DOMAIN owner' = 1..n /\ n \in Nat /\ Made' = n
      BY <2>2, Numbered DEF Made
    <3>2. /\ \A k \in DOMAIN owner : k \in DOMAIN owner' /\ owner'[k] = owner[k]
          /\ owner'[n] = loggingIn[t] /\ n \in DOMAIN owner' /\ n # 0
      BY <2>2, <3>1
    <3>3. loggingIn[t] \in Users /\ loggingIn' \in [Tabs -> {"nobody"} \cup Users]
      BY <1>3 DEF U!LoginReturns
    <3>4. UNCHANGED <<restoring, expired, disabled, pageLoads>>
      BY <1>3 DEF U!LoginReturns
    <3>5. n \in U!Tokens
      BY <2>2, <3>1
    <3>6. \A k \in DOMAIN owner' : k = n \/ k \in DOMAIN owner
      BY <3>1
    <3>7. DOMAIN owner' \subseteq U!Tokens /\ \A k \in DOMAIN owner' : owner'[k] \in Users
      BY <3>2, <3>3, <3>5, <3>6
    <3> HIDE DEF n
    <3>8. TokensAreMade'
      BY <2>2, <3>1, <3>2, <3>4
    <3>9. U!TypeOK'
      BY <2>2, <3>3, <3>4, <3>5, <3>7
    <3>10. U!ShownUserIsOwner'
      BY <2>2, <3>2
    <3> QED
      BY <3>8, <3>9, <3>10
  <2> QED
    BY <1>3, <2>0, <2>1, <2>2 DEF U!LoginReturns
<1>4. ASSUME NEW t \in Tabs, U!Logout(t) PROVE SessionInv'
  BY <1>4 DEF U!Logout, U!LoggedOut, Made
<1>5. ASSUME NEW t \in Tabs, NEW u \in Users, U!StartLogin(t, u) PROVE SessionInv'
  BY <1>5 DEF U!StartLogin, Made
<1>6. ASSUME NEW u \in Users, U!Disable(u) PROVE SessionInv'
  BY <1>6 DEF U!Disable, Made
<1>7. ASSUME NEW k \in U!Tokens, U!Expire(k) PROVE SessionInv'
  BY <1>7 DEF U!Expire, Made
<1>8. CASE UNCHANGED U!vars
  BY <1>8 DEF U!vars, Made
<1> QED
  BY <1>1, <1>2, <1>3, <1>4, <1>5, <1>6, <1>7, <1>8 DEF U!Next

\* A tab shows the user whose token it has, whatever the answers it waited for
\* when the user logged out or somebody else logged in (useAuthStore: restore).
THEOREM SessionShows == U!Spec => []U!ShownUserIsOwner
<1>1. SessionParameters
  BY BoundsAreNumbers, NobodyIsNobody DEF SessionParameters
<1>2. SessionInv => U!ShownUserIsOwner
  BY DEF SessionInv
<1>3. U!Init => SessionInv
  BY <1>1, SessionStart
<1>4. SessionInv /\ [U!Next]_U!vars => SessionInv'
  BY <1>1, SessionStep
<1> QED
  BY <1>2, <1>3, <1>4, PTL DEF U!Spec

-----------------------------------------------------------------------------
(* The catalogue of models.  How long a version has been stopped is bounded  *)
(* by the clock, and what the page has selected by the catalogue it has.    *)

CatalogueParameters ==
  /\ 1 \in Versions /\ Versions \subseteq Nat \ {0}
  /\ "none" \notin Processes
  /\ TTL \in Nat \ {0} /\ MaxTicks \in Nat

\* A version has been stopped no longer than the clock has run, and not at all
\* while a process runs it.
StoppedIsTrue ==
  \A v \in Versions : stopped[v] <= ticks /\ (G!Running(v) => stopped[v] = 0)

\* The page has a model and a refusal only with a catalogue, and asks for one only
\* without; its model is one that the catalogue says is available.
PageIsTrue ==
  /\ awaited # "none" => page = 0
  /\ page = 0 => selected = "none" /\ refused = 0
  /\ selected # "none" => selected \in G!IsAvailable(page)

CatalogueInv == G!TypeOK /\ StoppedIsTrue /\ PageIsTrue /\ G!CatalogueIsRecent /\ G!OfferedIsAccepted

\* It is true at the start.
LEMMA CatalogueStart == CatalogueParameters /\ G!Init => CatalogueInv
BY DEF CatalogueParameters, G!Init, CatalogueInv, G!TypeOK, StoppedIsTrue, PageIsTrue, G!CatalogueIsRecent,
       G!OfferedIsAccepted, G!Missing, G!Garbage

\* What an answer with the catalogue of v leaves of the page.
LEMMA Answered ==
  ASSUME CatalogueParameters, CatalogueInv, NEW p \in Processes, NEW v \in Versions, G!Answer(p, v), UNCHANGED refused
  PROVE  /\ page' \in {0} \cup Versions
         /\ awaited' \in {"none"} \cup Processes
         /\ selected' \in {"none"} \cup UNION {Listed[w] : w \in Versions}
         /\ PageIsTrue' /\ G!OfferedIsAccepted'
<1> USE DEF CatalogueParameters, CatalogueInv, G!TypeOK, PageIsTrue, G!OfferedIsAccepted, G!IsAvailable
<1>1. CASE awaited # p
  BY <1>1 DEF G!Answer
<1>2. CASE awaited = p
  <2>1. page = 0 /\ refused = 0 /\ page' = v /\ awaited' = "none"
    BY <1>2 DEF G!Answer
  <2>2. selected' \in {"none"} \cup G!IsAvailable(v)
    BY <1>2 DEF G!Answer
  <2> QED
    BY <2>1, <2>2
<1> QED
  BY <1>1, <1>2

\* A cache that is written is a cache.
LEMMA CacheTyped ==
  ASSUME CatalogueParameters, CatalogueInv
  PROVE  /\ cache.version \in Int /\ cache.age \in Nat
         /\ cache.version >= 1 => cache.version \in Versions /\ cache.age \in 0..TTL - 1
                                  /\ cache = [version |-> cache.version, age |-> cache.age]
<1>1. cache \in {G!Missing, G!Garbage} \cup [version : Versions, age : 0..TTL - 1]
  BY DEF CatalogueInv, G!TypeOK
<1>2. CASE cache \in {G!Missing, G!Garbage}
  BY <1>2 DEF G!Missing, G!Garbage
<1>3. CASE cache \in [version : Versions, age : 0..TTL - 1]
  <2>1. cache.version \in Versions /\ cache.age \in 0..TTL - 1
    BY <1>3
  <2>2. \A v \in Versions : v \in Int
    BY DEF CatalogueParameters
  <2>3. TTL \in Int
    BY DEF CatalogueParameters
  <2>4. cache.version \in Int /\ cache.age \in Nat
    BY <2>1, <2>2, <2>3
  <2>5. cache = [version |-> cache.version, age |-> cache.age]
    BY <1>3
  <2> QED
    BY <2>1, <2>4, <2>5
<1> QED
  BY <1>1, <1>2, <1>3

\* The clock ages what is stopped and what is cached by one.
LEMMA Ticks ==
  ASSUME CatalogueParameters, CatalogueInv, G!Tick
  PROVE  CatalogueInv'
<1> USE DEF CatalogueParameters, CatalogueInv, StoppedIsTrue
<1>1. /\ ticks \in Nat /\ ticks' = ticks + 1 /\ ticks' \in 0..MaxTicks
      /\ stopped' = [v \in Versions |-> IF G!Running(v) THEN 0 ELSE stopped[v] + 1]
      /\ cache' = G!Aged
      /\ UNCHANGED <<version, requests, page, awaited, selected, refused>>
  BY DEF G!Tick, G!TypeOK
<1>2. \A v \in Versions : stopped[v] \in Nat
  BY DEF G!TypeOK
<1>3. \A v \in Versions : stopped'[v] \in 0..ticks' /\ (G!Running(v) => stopped'[v] = 0)
  BY <1>1, <1>2
<1>4. StoppedIsTrue'
  BY <1>1, <1>3 DEF G!Running
<1>5. cache' \in {G!Missing, G!Garbage} \cup [version : Versions, age : 0..TTL - 1]
  <2>1. CASE cache.version < 1
    BY <1>1, <2>1 DEF G!Aged, G!TypeOK
  <2>2. CASE cache.version >= 1
    <3>1. cache' \in {G!Missing, [version |-> cache.version, age |-> cache.age + 1]}
      BY <1>1, <2>2, CacheTyped DEF G!Aged
    <3>2. cache' # G!Missing => cache.age + 1 \in 0..TTL - 1
      BY <1>1, <2>2, <3>1, CacheTyped DEF G!Aged
    <3> QED
      BY <2>2, <3>1, <3>2, CacheTyped
  <2> QED
    BY <2>1, <2>2, CacheTyped
<1>6. G!TypeOK'
  BY <1>1, <1>3, <1>5 DEF G!TypeOK
<1>7. G!CatalogueIsRecent'
  <2>1. CASE cache.version < 1
    BY <1>1, <2>1, CacheTyped DEF G!CatalogueIsRecent, G!Aged
  <2>2. CASE cache.version >= 1
    <3>1. \/ cache' = G!Missing
          \/ cache'.version = cache.version /\ cache'.age = cache.age + 1
      BY <1>1, <2>2, CacheTyped DEF G!Aged
    <3>2. stopped'[cache.version] <= stopped[cache.version] + 1
      BY <1>1, <1>2, <2>2, CacheTyped
    <3>3. stopped[cache.version] <= cache.age /\ stopped[cache.version] \in Nat
          /\ stopped'[cache.version] \in Nat
      BY <1>2, <1>3, <2>2, CacheTyped, <1>1 DEF G!CatalogueIsRecent
    <3> QED
      BY <3>1, <3>2, <3>3, CacheTyped DEF G!CatalogueIsRecent, G!Missing
  <2> QED
    BY <2>1, <2>2, CacheTyped
<1> QED
  BY <1>1, <1>4, <1>6, <1>7 DEF PageIsTrue, G!OfferedIsAccepted

\* Every step keeps it.
LEMMA CatalogueStep == CatalogueParameters /\ CatalogueInv /\ [G!Next]_G!vars => CatalogueInv'
<1> SUFFICES ASSUME CatalogueParameters, CatalogueInv, [G!Next]_G!vars PROVE CatalogueInv'
  OBVIOUS
<1> USE DEF CatalogueParameters, CatalogueInv
<1>1. CASE G!LoadFails
  BY <1>1 DEF G!LoadFails, G!TypeOK, StoppedIsTrue, G!Running, PageIsTrue, G!CatalogueIsRecent, G!OfferedIsAccepted
<1>2. CASE G!Reload
  BY <1>2 DEF G!Reload, G!TypeOK, StoppedIsTrue, G!Running, PageIsTrue, G!CatalogueIsRecent, G!OfferedIsAccepted
<1>3. ASSUME NEW p \in Processes, G!Replace(p) PROVE CatalogueInv'
  <2> PICK v \in Versions : /\ v > version[p]
                            /\ version' = [version EXCEPT ![p] = v]
                            /\ stopped' = [stopped EXCEPT ![v] = 0]
    BY <1>3 DEF G!Replace
  <2>1. /\ requests' = [requests EXCEPT ![p] = "nothing"]
        /\ awaited' \in {awaited, "none"}
        /\ UNCHANGED <<cache, page, selected, refused, ticks>>
    BY <1>3 DEF G!Replace
  <2>2. G!TypeOK'
    BY <2>1 DEF G!TypeOK
  <2>3. StoppedIsTrue'
    <3> SUFFICES ASSUME NEW w \in Versions
                 PROVE  stopped'[w] <= ticks' /\ (G!Running(w)' => stopped'[w] = 0)
      BY DEF StoppedIsTrue
    <3>1. CASE w = v
      BY <3>1, <2>1 DEF G!TypeOK
    <3>2. CASE w # v
      BY <3>2, <2>1 DEF G!TypeOK, StoppedIsTrue, G!Running
    <3> QED
      BY <3>1, <3>2
  <2>4. G!CatalogueIsRecent'
    <3>1. \A w \in Versions : stopped'[w] \in {0, stopped[w]}
      BY DEF G!TypeOK
    <3> QED
      BY <2>1, <3>1, CacheTyped DEF G!CatalogueIsRecent
  <2> QED
    BY <2>1, <2>2, <2>3, <2>4 DEF PageIsTrue, G!OfferedIsAccepted
<1>4. ASSUME NEW p \in Processes, G!LoadModels(p) PROVE CatalogueInv'
  BY <1>4 DEF G!LoadModels, G!TypeOK, StoppedIsTrue, G!Running, PageIsTrue, G!CatalogueIsRecent, G!OfferedIsAccepted
<1>5. ASSUME NEW p \in Processes, G!Hit(p) \/ G!RedisFails(p) PROVE CatalogueInv'
  <2>1. /\ requests' = [requests EXCEPT ![p] = "nothing"]
        /\ UNCHANGED <<version, stopped, cache, refused, ticks>>
    BY <1>5 DEF G!Hit, G!RedisFails
  <2>2. PICK v \in Versions : G!Answer(p, v)
    <3>1. version[p] \in Versions
      BY DEF G!TypeOK
    <3> QED
      BY <1>5, <3>1, CacheTyped DEF G!Hit, G!RedisFails
  <2> QED
    BY <2>1, <2>2, Answered DEF G!TypeOK, StoppedIsTrue, G!Running, G!CatalogueIsRecent
<1>6. ASSUME NEW p \in Processes, G!Miss(p) PROVE CatalogueInv'
  BY <1>6 DEF G!Miss, G!TypeOK, StoppedIsTrue, G!Running, PageIsTrue, G!CatalogueIsRecent, G!OfferedIsAccepted
<1>7. ASSUME NEW p \in Processes, G!Set(p) PROVE CatalogueInv'
  <2>1. /\ cache' = [version |-> version[p], age |-> 0]
        /\ requests' = [requests EXCEPT ![p] = "nothing"]
        /\ UNCHANGED <<version, stopped, refused, ticks>>
        /\ version[p] \in Versions /\ G!Answer(p, version[p])
    BY <1>7 DEF G!Set, G!TypeOK
  <2>2. stopped[version[p]] = 0
    BY <2>1 DEF StoppedIsTrue, G!Running
  <2>3. G!CatalogueIsRecent'
    BY <2>1, <2>2 DEF G!CatalogueIsRecent
  <2>4. cache' \in [version : Versions, age : 0..TTL - 1]
    BY <2>1
  <2>5. G!TypeOK'
    BY <2>1, <2>4, Answered DEF G!TypeOK
  <2> QED
    BY <2>1, <2>3, <2>5, Answered DEF StoppedIsTrue, G!Running
<1>8. ASSUME NEW p \in Processes, G!CreateRun(p) PROVE CatalogueInv'
  <2>1. version[p] \in Versions
    BY DEF G!TypeOK
  <2>2. UNCHANGED <<version, stopped, cache, requests, page, awaited, selected, ticks>>
    BY <1>8 DEF G!CreateRun
  <2>3. refused' # refused => refused' = version[p] /\ version[p] # page /\ page # 0
    BY <1>8 DEF G!CreateRun, PageIsTrue, G!Available, G!IsAvailable
  <2> QED
    BY <2>1, <2>2, <2>3
       DEF G!TypeOK, StoppedIsTrue, G!Running, PageIsTrue, G!CatalogueIsRecent, G!OfferedIsAccepted
<1>9. ASSUME NEW v \in Versions, NEW m \in Listed[v], G!SelectModel(m) PROVE CatalogueInv'
  <2>1. m \in G!IsAvailable(page) /\ page # 0 /\ selected' = m
    BY <1>9 DEF G!SelectModel
  <2>2. UNCHANGED <<version, stopped, cache, requests, page, awaited, refused, ticks>>
    BY <1>9 DEF G!SelectModel
  <2> QED
    BY <2>1, <2>2
       DEF G!TypeOK, StoppedIsTrue, G!Running, PageIsTrue, G!CatalogueIsRecent, G!OfferedIsAccepted
<1>10. CASE UNCHANGED G!vars
  BY <1>10 DEF G!vars, G!TypeOK, StoppedIsTrue, G!Running, PageIsTrue, G!CatalogueIsRecent, G!OfferedIsAccepted
<1> QED
  BY <1>1, <1>2, <1>3, <1>4, <1>5, <1>6, <1>7, <1>8, <1>9, <1>10, Ticks DEF G!Next

\* What a page is given was the catalogue of a process less than the time to live
\* ago, and its model is refused only by a process of another version
\* (model_cache.py, useModelStore, create_agent_run_service).
THEOREM CatalogueIsFresh == G!Spec => []G!CatalogueIsRecent /\ []G!OfferedIsAccepted
<1>1. CatalogueParameters
  BY BoundsAreNumbers, NobodyIsNobody, VersionsAreNumbered DEF CatalogueParameters
<1>2. CatalogueInv => G!CatalogueIsRecent /\ G!OfferedIsAccepted
  BY DEF CatalogueInv
<1>3. G!Init => CatalogueInv
  BY <1>1, CatalogueStart
<1>4. CatalogueInv /\ [G!Next]_G!vars => CatalogueInv'
  BY <1>1, CatalogueStep
<1> QED
  BY <1>2, <1>3, <1>4, PTL DEF G!Spec

-----------------------------------------------------------------------------
(* The conversations.  A deletion knows the conversations that were there    *)
(* when it listed the tree; a walk has been given what is before its cursor. *)

ThreadBounds ==
  /\ MaxThreads \in Nat /\ MaxWrites \in Nat /\ MaxLoads \in Nat
  /\ MaxClock \in Nat \ {0} /\ PageLimit \in Nat \ {0}

IsThere(c) == threads[c].state # "none"

\* The rows of the conversations, without the bound on the runs.
AnyRow == [state : {"none", "live", "deleted"}, parent : 0..MaxThreads,
           updated : 0..MaxClock, last : 0..MaxClock, run : Nat, active : BOOLEAN]

ThreadShape ==
  /\ clock \in 1..MaxClock
  /\ threads \in [T!Ids -> AnyRow]
  /\ asks \subseteq T!Ids \X (1..MaxClock)

\* A conversation has a parent that was there before it, and only those that are
\* there have runs.
ParentsExist ==
  /\ \A c \in T!Ids : IsThere(c) => threads[c].parent = 0 \/ IsThere(threads[c].parent)
  /\ \A c \in T!Ids : threads[c].active => IsThere(c)
  /\ \A a \in asks : IsThere(a[1])

\* What a deletion knows of the conversations that were there when it began.
Knows(d, old) ==
  /\ \A c \in old : IsThere(c) /\ (threads[c].parent = 0 \/ threads[c].parent \in old)
  /\ \A a \in delete[d].busy : a[1] \in old /\ a[2] <= threads[a[1]].run
  /\ \A c \in old :
       T!Live(c) /\ (c = delete[d].root \/ threads[c].parent \in delete[d].tree) => c \in delete[d].tree
  /\ delete[d].at = "checked" =>
       \A c \in delete[d].tree : <<c, threads[c].run>> \in delete[d].busy => ~threads[c].active

DeleteShape ==
  delete \in [Deletes -> [at : {"idle", "listed", "checked", "done", "refused"},
                          root : 0..MaxThreads, tree : SUBSET T!Ids, busy : SUBSET (T!Ids \X Nat)]]

Known == \A d \in Deletes : delete[d].at \in {"listed", "checked"} => \E old \in SUBSET T!Ids : Knows(d, old)

DeleteTrue == ThreadShape /\ ParentsExist /\ DeleteShape /\ Known

\* What any step does to the conversations that are there.
Grown ==
  \A c \in T!Ids : IsThere(c) =>
    /\ IsThere(c)'
    /\ threads'[c].parent = threads[c].parent
    /\ T!Live(c)' => T!Live(c)
    /\ threads[c].run <= threads'[c].run
    /\ threads'[c].run = threads[c].run => (threads'[c].active => threads[c].active)

\* Threads counts as this module does.
LEMMA SameNumber == \A W : T!Cardinality(W) = Cardinality(W)
BY DEF T!Cardinality, Cardinality

\* The tree of a conversation has the conversations below it.
LEMMA TreeIsClosed ==
  ASSUME NEW root \in T!Ids, ThreadShape
  PROVE  T!Closed(T!Tree(root), root)
BY DEF T!Closed, T!Tree

\* What is below the conversation now, and was there when the deletion began, is in
\* the tree that was listed.
LEMMA TreeIsKnown ==
  ASSUME NEW d \in Deletes, NEW old \in SUBSET T!Ids, Knows(d, old), ThreadShape, DeleteShape
  PROVE  T!Tree(delete[d].root) \cap old \subseteq delete[d].tree
<1> DEFINE W == delete[d].tree \cup (T!Ids \ old)
<1>1. W \in SUBSET T!Ids
  BY DEF DeleteShape
<1>2. T!Closed(W, delete[d].root)
  <2> SUFFICES ASSUME NEW c \in T!Ids, T!Live(c), c = delete[d].root \/ threads[c].parent \in W, c \in old
               PROVE  c \in delete[d].tree
    BY DEF T!Closed
  <2>1. threads[c].parent = 0 \/ threads[c].parent \in old
    BY DEF Knows
  <2>2. 0 \notin W
    BY <1>1 DEF T!Ids
  <2> QED
    BY <2>1, <2>2 DEF Knows
<1> QED
  BY <1>1, <1>2 DEF T!Tree

\* A deletion that waits goes on knowing what it knew.
LEMMA StillKnown ==
  ASSUME NEW d \in Deletes, NEW old \in SUBSET T!Ids, Knows(d, old), Grown, ThreadShape, ThreadShape', DeleteShape,
         delete'[d] = delete[d]
  PROVE  Knows(d, old)'
<1>1. \A c \in old : IsThere(c)' /\ (threads'[c].parent = 0 \/ threads'[c].parent \in old)
  BY DEF Knows, Grown
<1>2. ASSUME NEW a \in delete[d].busy
      PROVE  a[1] \in old /\ a[2] <= threads'[a[1]].run /\ a[2] <= threads[a[1]].run
  <2>1. a \in T!Ids \X Nat
    BY DEF DeleteShape
  <2>2. a[1] \in old /\ a[2] <= threads[a[1]].run
    BY DEF Knows
  <2>3. threads[a[1]].run <= threads'[a[1]].run
    BY <2>1, <2>2 DEF Knows, Grown
  <2>4. threads[a[1]].run \in Nat /\ threads'[a[1]].run \in Nat /\ a[2] \in Nat
    BY <2>1 DEF ThreadShape, AnyRow
  <2> QED
    BY <2>2, <2>3, <2>4
<1>3. ASSUME NEW c \in old, T!Live(c)', c = delete[d].root \/ threads'[c].parent \in delete[d].tree
      PROVE  c \in delete[d].tree
  BY <1>3 DEF Knows, Grown
<1>4. ASSUME delete[d].at = "checked", NEW c \in delete[d].tree,
             <<c, threads'[c].run>> \in delete[d].busy
      PROVE  ~threads'[c].active
  <2>1. c \in old /\ threads'[c].run <= threads[c].run
    BY <1>2, <1>4
  <2>2. threads[c].run \in Nat /\ threads'[c].run \in Nat
    BY <2>1 DEF ThreadShape, AnyRow
  <2>3. threads[c].run <= threads'[c].run
    BY <2>1 DEF Knows, Grown
  <2>4. threads'[c].run = threads[c].run
    BY <2>1, <2>2, <2>3
  <2>5. ~threads[c].active
    BY <1>4, <2>4 DEF Knows
  <2> QED
    BY <2>1, <2>4, <2>5 DEF Knows, Grown
<1> QED
  BY <1>1, <1>2, <1>3, <1>4 DEF Knows

\* What makes a deletion that was allowed to go on right.
LEMMA Protected ==
  ASSUME NEW d \in Deletes, DeleteTrue, delete[d].at = "checked"
  PROVE  \A c \in T!Tree(delete[d].root) :
           threads[c].active => <<c, threads[c].run>> \notin delete[d].busy
<1>1. PICK old \in SUBSET T!Ids : Knows(d, old)
  BY DEF DeleteTrue, Known
<1> SUFFICES ASSUME NEW c \in T!Tree(delete[d].root), threads[c].active,
                    <<c, threads[c].run>> \in delete[d].busy
             PROVE  FALSE
  OBVIOUS
<1>2. c \in old
  BY <1>1 DEF Knows
<1>3. c \in delete[d].tree
  BY <1>1, <1>2, TreeIsKnown DEF DeleteTrue
<1> QED
  BY <1>1, <1>3 DEF Knows

\* The statement that lists the tree sees everything there is.
LEMMA ListTreeKnows ==
  ASSUME NEW d \in Deletes, DeleteTrue, T!ListTree(d)
  PROVE  \E old \in SUBSET T!Ids : Knows(d, old)'
<1> USE DEF DeleteTrue
<1>0. PICK old \in SUBSET T!Ids : old = {c \in T!Ids : IsThere(c)}
  OBVIOUS
<1>1. PICK c \in T!Ids : delete' = [delete EXCEPT ![d] = [at |-> "listed", root |-> c,
                                     tree |-> T!Tree(c), busy |-> T!ActiveRuns]]
  BY DEF T!ListTree
<1>2. threads' = threads
  BY DEF T!ListTree
<1>3. delete'[d] = [at |-> "listed", root |-> c, tree |-> T!Tree(c), busy |-> T!ActiveRuns]
  BY <1>1 DEF DeleteShape
<1>4. \A b \in old : IsThere(b) /\ (threads[b].parent = 0 \/ threads[b].parent \in old)
  BY <1>0 DEF ParentsExist, ThreadShape, AnyRow, T!Ids
<1>5. ASSUME NEW a \in T!ActiveRuns
      PROVE  a[1] \in old /\ a[2] <= threads[a[1]].run
  <2>1. PICK b \in T!Ids : threads[b].active /\ a = <<b, threads[b].run>>
    BY DEF T!ActiveRuns
  <2>2. threads[b].run \in Nat
    BY DEF ThreadShape, AnyRow
  <2> QED
    BY <1>0, <2>1, <2>2 DEF ParentsExist
<1>6. \A b \in old : T!Live(b) /\ (b = c \/ threads[b].parent \in T!Tree(c)) => b \in T!Tree(c)
  BY <1>0, TreeIsClosed DEF T!Closed
<1>7. \A b : IsThere(b)' = IsThere(b) /\ T!Live(b)' = T!Live(b)
  BY <1>2 DEF IsThere, T!Live
<1>8. Knows(d, old)'
  <2>1. \A b \in old : IsThere(b)' /\ (threads'[b].parent = 0 \/ threads'[b].parent \in old)
    BY <1>2, <1>4, <1>7
  <2>2. \A a \in delete'[d].busy : a[1] \in old /\ a[2] <= threads'[a[1]].run
    BY <1>2, <1>3, <1>5
  <2>3. \A b \in old : T!Live(b)' /\ (b = delete'[d].root \/ threads'[b].parent \in delete'[d].tree)
          => b \in delete'[d].tree
    BY <1>2, <1>3, <1>6, <1>7
  <2>4. delete'[d].at # "checked"
    BY <1>3
  <2> QED
    BY <2>1, <2>2, <2>3, <2>4 DEF Knows
<1> QED
  BY <1>8

\* The check finds no run of the tree active.
LEMMA CheckRunsKnows ==
  ASSUME NEW d \in Deletes, DeleteTrue, T!CheckRuns(d), delete'[d].at = "checked"
  PROVE  \E old \in SUBSET T!Ids : Knows(d, old)'
<1> USE DEF DeleteTrue
<1>1. PICK old \in SUBSET T!Ids : Knows(d, old)
  BY DEF T!CheckRuns, Known
<1>2. threads' = threads
  BY DEF T!CheckRuns
<1>3. /\ delete'[d].root = delete[d].root /\ delete'[d].tree = delete[d].tree
      /\ delete'[d].busy = delete[d].busy
      /\ \A c \in delete[d].tree : ~threads[c].active
  BY DEF T!CheckRuns, DeleteShape
<1>4. \A b : IsThere(b)' = IsThere(b) /\ T!Live(b)' = T!Live(b)
  BY <1>2 DEF IsThere, T!Live
<1>5. Knows(d, old)'
  BY <1>1, <1>2, <1>3, <1>4 DEF Knows
<1> QED
  BY <1>5

-----------------------------------------------------------------------------
\* A step that changes no conversation.
Calm ==
  /\ threads' = threads /\ clock' \in 1..MaxClock
  /\ \A a \in asks' : a \in asks \/ IsThere(a[1])
  /\ asks' \subseteq T!Ids \X (1..MaxClock)

\* The conversations are as true after such a step.
LEMMA CalmGrows ==
  ASSUME ThreadShape, ParentsExist, Calm
  PROVE  ThreadShape' /\ ParentsExist' /\ Grown
<1>1. \A c : IsThere(c)' = IsThere(c) /\ T!Live(c)' = T!Live(c)
  BY DEF Calm, IsThere, T!Live
<1>2. ThreadShape'
  BY DEF ThreadShape, Calm
<1>3. ParentsExist'
  <2>1. \A a \in asks' : IsThere(a[1])
    BY DEF ParentsExist, Calm
  <2> QED
    BY <1>1, <2>1 DEF ParentsExist, Calm
<1>4. \A c \in T!Ids : threads[c].run \in Nat
  BY DEF ThreadShape, AnyRow
<1>5. Grown
  BY <1>1, <1>4 DEF Grown, Calm
<1> QED
  BY <1>2, <1>3, <1>5

\* A step that changes one conversation, which is there, and lets it be there.
Moves(c, v) ==
  /\ threads' = [threads EXCEPT ![c] = v]
  /\ v \in AnyRow
  /\ threads[c].state = "none" =>
       /\ v.parent = 0 \/ IsThere(v.parent)
       /\ v.state = "live"
  /\ threads[c].state # "none" =>
       /\ v.state = threads[c].state /\ v.parent = threads[c].parent
       /\ threads[c].run <= v.run
       /\ v.run = threads[c].run => (v.active => threads[c].active)
  /\ \A a \in asks' : a \in asks \/ IsThere(a[1])
  /\ asks' \subseteq T!Ids \X (1..MaxClock)

\* The same of a step that changes one.
LEMMA MoveGrows ==
  ASSUME ThreadShape, ParentsExist, clock' = clock, NEW c \in T!Ids, NEW v, Moves(c, v)
  PROVE  ThreadShape' /\ ParentsExist' /\ Grown
<1>1. threads'[c] = v /\ \A b \in T!Ids \ {c} : threads'[b] = threads[b]
  BY DEF Moves, ThreadShape
<1>2. v.state # "none" /\ v.run \in Nat
  BY DEF Moves, AnyRow
<1>3. \A b \in T!Ids : IsThere(b) => IsThere(b)'
  BY <1>1, <1>2 DEF IsThere
<1>4. ThreadShape'
  BY DEF ThreadShape, Moves
<1>5. ParentsExist'
  <2>1. ASSUME NEW b \in T!Ids, IsThere(b)'
        PROVE  threads'[b].parent = 0 \/ IsThere(threads[b].parent)'
    <3>1. threads'[b].parent = 0 \/ IsThere(threads'[b].parent)
      BY <1>1, <2>1 DEF ParentsExist, Moves, IsThere
    <3>2. threads'[b].parent \in 0..MaxThreads
      BY <1>4 DEF ThreadShape, AnyRow
    <3>3. threads'[b].parent = 0 \/ threads'[b].parent \in T!Ids
      BY <3>2 DEF T!Ids
    <3> QED
      BY <1>3, <3>1, <3>3
  <2>2. \A b \in T!Ids : threads'[b].active => IsThere(b)'
    BY <1>1, <1>2, <1>3 DEF ParentsExist, IsThere
  <2>3. \A a \in asks' : IsThere(a[1])'
    <3> SUFFICES ASSUME NEW a \in asks' PROVE IsThere(a[1])'
      OBVIOUS
    <3>1. a[1] \in T!Ids /\ IsThere(a[1])
      BY DEF ParentsExist, Moves
    <3> QED
      BY <1>3, <3>1
  <2> QED
    BY <2>1, <2>2, <2>3 DEF ParentsExist
<1>6. Grown
  <2> SUFFICES ASSUME NEW b \in T!Ids, IsThere(b)
               PROVE  /\ IsThere(b)'
                      /\ threads'[b].parent = threads[b].parent
                      /\ T!Live(b)' => T!Live(b)
                      /\ threads[b].run <= threads'[b].run
                      /\ threads'[b].run = threads[b].run => (threads'[b].active => threads[b].active)
    BY DEF Grown
  <2>1. threads[b].run \in Nat
    BY DEF ThreadShape, AnyRow
  <2>2. CASE b = c
    BY <1>1, <1>3, <2>2 DEF Moves, IsThere, T!Live
  <2>3. CASE b # c
    BY <1>1, <1>3, <2>1, <2>3 DEF T!Live
  <2> QED
    BY <2>2, <2>3
<1> QED
  BY <1>4, <1>5, <1>6

\* A conversation that is deleted, at most.
SameBut(c) ==
  /\ threads[c] \in AnyRow /\ threads'[c] \in AnyRow
  /\ threads'[c].parent = threads[c].parent
  /\ threads'[c].run = threads[c].run
  /\ threads'[c].active = threads[c].active
  /\ IsThere(c) => IsThere(c)'
  /\ IsThere(c)' => IsThere(c)
  /\ T!Live(c)' => T!Live(c)

\* The same of a deletion.
LEMMA SoftDeleteGrows ==
  ASSUME DeleteTrue, NEW d \in Deletes, T!SoftDelete(d)
  PROVE  ThreadShape' /\ ParentsExist' /\ Grown
<1> USE DEF DeleteTrue
<1>1. \A c \in T!Ids :
        threads'[c] = IF c \in delete[d].tree /\ T!Live(c)
                      THEN [threads[c] EXCEPT !.state = "deleted", !.updated = clock] ELSE threads[c]
  BY DEF T!SoftDelete
<1>2. \A c \in T!Ids : SameBut(c)
  <2> SUFFICES ASSUME NEW c \in T!Ids PROVE SameBut(c)
    OBVIOUS
  <2>1. threads[c] \in AnyRow /\ clock \in 0..MaxClock
    BY DEF ThreadShape
  <2>2. CASE c \in delete[d].tree /\ T!Live(c)
    <3>1. threads'[c] = [threads[c] EXCEPT !.state = "deleted", !.updated = clock]
      BY <1>1, <2>2
    <3> QED
      BY <2>1, <2>2, <3>1 DEF AnyRow, IsThere, T!Live, SameBut
  <2>3. CASE ~(c \in delete[d].tree /\ T!Live(c))
    BY <1>1, <2>1, <2>3 DEF IsThere, T!Live, SameBut
  <2> QED
    BY <2>2, <2>3
<1>3. clock' = clock /\ asks' = asks /\ threads' = [c \in T!Ids |-> threads'[c]]
  BY DEF T!SoftDelete
<1>4. ThreadShape'
  BY <1>2, <1>3 DEF ThreadShape, SameBut
<1>5. ParentsExist'
  <2>1. \A c \in T!Ids : IsThere(c)' => threads'[c].parent = 0 \/ IsThere(threads[c].parent)'
    <3> SUFFICES ASSUME NEW c \in T!Ids, IsThere(c)'
                 PROVE  threads'[c].parent = 0 \/ IsThere(threads[c].parent)'
      OBVIOUS
    <3>1. threads[c].parent = 0 \/ threads[c].parent \in T!Ids
      BY <1>2 DEF SameBut, AnyRow, T!Ids
    <3>2. threads[c].parent = 0 \/ IsThere(threads[c].parent)
      BY <1>2 DEF SameBut, ParentsExist
    <3> QED
      BY <1>2, <3>1, <3>2 DEF SameBut
  <2>2. \A c \in T!Ids : threads'[c].active => IsThere(c)'
    BY <1>2 DEF SameBut, ParentsExist
  <2>3. \A a \in asks' : a[1] \in T!Ids /\ IsThere(a[1])
    BY <1>3 DEF ParentsExist, ThreadShape
  <2> QED
    BY <1>2, <2>1, <2>2, <2>3 DEF ParentsExist, SameBut
<1>6. \A c \in T!Ids : threads[c].run \in Nat
  BY DEF ThreadShape, AnyRow
<1>7. Grown
  BY <1>2, <1>6 DEF Grown, SameBut
<1> QED
  BY <1>4, <1>5, <1>7

\* The same of every step.
LEMMA StepGrows ==
  ASSUME ThreadBounds, DeleteTrue, [T!Next]_T!vars
  PROVE  ThreadShape' /\ ParentsExist' /\ Grown
<1> USE DEF DeleteTrue
<1>0. /\ clock \in 1..MaxClock /\ clock \in 0..MaxClock /\ asks \subseteq T!Ids \X (1..MaxClock)
      /\ \A a \in asks : a[1] \in T!Ids /\ a[2] \in 0..MaxClock /\ IsThere(a[1])
  BY DEF ThreadShape, ParentsExist
<1>1. CASE UNCHANGED <<threads, clock, asks>>
  BY <1>0, <1>1, CalmGrows DEF Calm
<1>2. ASSUME T!Tick
      PROVE  ThreadShape' /\ ParentsExist' /\ Grown
  <2>1. clock' \in 1..MaxClock
    BY <1>0, <1>2 DEF T!Tick, ThreadBounds
  <2> QED
    BY <1>0, <1>2, <2>1, CalmGrows DEF Calm, T!Tick
<1>3. ASSUME NEW c \in T!Ids, T!CreateThread(c)
      PROVE  ThreadShape' /\ ParentsExist' /\ Grown
  <2> DEFINE v == [T!NoConversation EXCEPT !.state = "live", !.parent = 0, !.updated = clock]
  <2>0. T!NoConversation \in AnyRow /\ 0 \in 0..MaxThreads
    BY DEF ThreadBounds, T!NoConversation, AnyRow
  <2>1. v \in AnyRow /\ v.parent = 0 /\ v.state = "live"
    BY <1>0, <2>0 DEF AnyRow
  <2>2. threads' = [threads EXCEPT ![c] = v] /\ threads[c].state = "none"
    BY <1>3 DEF T!CreateThread, T!Insert
  <2>3. clock' = clock /\ asks' = asks
    BY <1>3 DEF T!CreateThread
  <2> HIDE DEF v
  <2>4. Moves(c, v)
    BY <1>0, <2>1, <2>2, <2>3 DEF Moves
  <2> QED
    BY <2>3, <2>4, MoveGrows
<1>4. ASSUME NEW c \in T!Ids, T!Rename(c)
      PROVE  ThreadShape' /\ ParentsExist' /\ Grown
  <2> DEFINE v == [threads[c] EXCEPT !.updated = clock]
  <2>1. threads[c] \in AnyRow
    BY DEF ThreadShape
  <2>2. v \in AnyRow /\ v.state = threads[c].state /\ v.parent = threads[c].parent
        /\ v.run = threads[c].run /\ v.active = threads[c].active /\ v.run \in Nat
    BY <1>0, <2>1 DEF AnyRow
  <2>3. threads' = [threads EXCEPT ![c] = v] /\ threads[c].state = "live"
    BY <1>4 DEF T!Rename, T!TopLevel, T!Live
  <2>4. clock' = clock /\ asks' = asks
    BY <1>4 DEF T!Rename, T!Write
  <2> HIDE DEF v
  <2>5. Moves(c, v)
    BY <1>0, <2>2, <2>3, <2>4 DEF Moves
  <2> QED
    BY <2>4, <2>5, MoveGrows
<1>5. ASSUME NEW c \in T!Ids, T!FindThread(c)
      PROVE  ThreadShape' /\ ParentsExist' /\ Grown
  <2>1. threads' = threads /\ clock' = clock /\ asks' = asks \cup {<<c, clock>>} /\ IsThere(c)
    BY <1>5 DEF T!FindThread, T!Write, T!Live, IsThere
  <2> QED
    BY <1>0, <2>1, CalmGrows DEF Calm
<1>6. ASSUME NEW c \in T!Ids, T!EndRun(c)
      PROVE  ThreadShape' /\ ParentsExist' /\ Grown
  <2> DEFINE v == [threads[c] EXCEPT !.active = FALSE, !.last = clock]
  <2>1. threads[c] \in AnyRow
    BY DEF ThreadShape
  <2>2. v \in AnyRow /\ v.state = threads[c].state /\ v.parent = threads[c].parent
        /\ v.run = threads[c].run /\ v.active = FALSE /\ v.run \in Nat
    BY <1>0, <2>1 DEF AnyRow
  <2>3. threads' = [threads EXCEPT ![c] = v]
    BY <1>6 DEF T!EndRun
  <2>4. threads[c].state # "none"
    BY <1>6 DEF T!EndRun, ParentsExist, IsThere
  <2>5. clock' = clock /\ asks' = asks
    BY <1>6 DEF T!EndRun
  <2> HIDE DEF v
  <2>6. Moves(c, v)
    BY <1>0, <2>2, <2>3, <2>4, <2>5 DEF Moves
  <2> QED
    BY <2>5, <2>6, MoveGrows
<1>7. ASSUME NEW ask \in asks, T!StartRun(ask[1], ask[2])
      PROVE  ThreadShape' /\ ParentsExist' /\ Grown
  <2> DEFINE c == ask[1]
             t == ask[2]
             latest == IF t > threads[c].last THEN t ELSE threads[c].last
             v == [threads[c] EXCEPT !.last = latest, !.run = @ + 1, !.active = TRUE]
  <2>1. threads[c] \in AnyRow /\ c \in T!Ids /\ t \in 0..MaxClock
    BY <1>0 DEF ThreadShape
  <2>2. v \in AnyRow /\ v.state = threads[c].state /\ v.parent = threads[c].parent
        /\ v.run = threads[c].run + 1 /\ threads[c].run \in Nat
    <3>1. latest \in 0..MaxClock /\ threads[c].run \in Nat
      BY <2>1 DEF AnyRow
    <3>2. threads[c].run + 1 \in Nat
      BY <3>1
    <3> HIDE DEF latest
    <3> QED
      BY <2>1, <3>1, <3>2 DEF AnyRow
  <2>3. threads' = [threads EXCEPT ![c] = v]
    BY <1>7 DEF T!StartRun
  <2>4. threads[c].state # "none"
    BY <1>0 DEF IsThere
  <2>5. clock' = clock /\ asks' \subseteq asks
    BY <1>7 DEF T!StartRun
  <2> HIDE DEF v
  <2>6. Moves(c, v)
    BY <1>0, <2>2, <2>3, <2>4, <2>5 DEF Moves
  <2> QED
    BY <2>1, <2>5, <2>6, MoveGrows
<1>8. ASSUME NEW ask \in asks, NEW c \in T!Ids, T!SpawnChild(c, ask[1], ask[2])
      PROVE  ThreadShape' /\ ParentsExist' /\ Grown
  <2> DEFINE v == [state |-> "live", parent |-> ask[1], updated |-> ask[2], last |-> ask[2],
                   run |-> 1, active |-> TRUE]
  <2>1. ask[1] \in T!Ids /\ ask[2] \in 0..MaxClock /\ IsThere(ask[1])
    BY <1>0
  <2>2. v \in AnyRow /\ v.state = "live" /\ v.parent = ask[1]
    BY <2>1 DEF AnyRow, T!Ids
  <2>3. threads' = [threads EXCEPT ![c] = v] /\ threads[c].state = "none"
    BY <1>8 DEF T!SpawnChild
  <2>4. clock' = clock /\ asks' \subseteq asks
    BY <1>8 DEF T!SpawnChild
  <2> HIDE DEF v
  <2>5. Moves(c, v)
    BY <1>0, <2>1, <2>2, <2>3, <2>4 DEF Moves
  <2> QED
    BY <2>4, <2>5, MoveGrows
<1>9. CASE \E d \in Deletes : T!ListTree(d) \/ T!CheckRuns(d) \/ T!SoftDelete(d)
  BY <1>1, <1>9, SoftDeleteGrows DEF T!ListTree, T!CheckRuns
<1>10. CASE T!StartWalk \/ T!ReadPage \/ T!SendLoad \/ \E v \in 1..MaxLoads : T!ServeLoad(v) \/ T!ReceiveLoad(v)
  BY <1>1, <1>10 DEF T!StartWalk, T!ReadPage, T!SendLoad, T!ServeLoad, T!ReceiveLoad
<1>11. CASE UNCHANGED T!vars
  BY <1>1, <1>11 DEF T!vars
<1> QED
  BY <1>2, <1>3, <1>4, <1>5, <1>6, <1>7, <1>8, <1>9, <1>10, <1>11 DEF T!Next

\* The deletions keep what they are said to know.
LEMMA DeleteInductive ==
  ASSUME ThreadBounds, DeleteTrue, [T!Next]_T!vars
  PROVE  DeleteTrue'
<1>1. ThreadShape' /\ ParentsExist' /\ Grown
  BY StepGrows
<1>2. ASSUME NEW d \in Deletes, delete'[d] = delete[d], delete[d].at \in {"listed", "checked"}
      PROVE  \E old \in SUBSET T!Ids : Knows(d, old)'
  <2>1. PICK old \in SUBSET T!Ids : Knows(d, old)
    BY <1>2 DEF DeleteTrue, Known
  <2>2. Knows(d, old)'
    BY <1>1, <1>2, <2>1, StillKnown DEF DeleteTrue
  <2> QED
    BY <2>2
<1>3. CASE UNCHANGED delete
  <2>1. Known'
    BY <1>2, <1>3 DEF Known
  <2> QED
    BY <1>1, <1>3, <2>1 DEF DeleteTrue, DeleteShape
<1>4. ASSUME NEW d \in Deletes, T!ListTree(d) \/ T!CheckRuns(d) \/ T!SoftDelete(d)
      PROVE  DeleteTrue'
  <2>1. /\ DeleteShape'
        /\ \A e \in Deletes \ {d} : delete'[e] = delete[e]
        /\ delete'[d].at \in {"listed", "checked"} =>
             T!ListTree(d) \/ (T!CheckRuns(d) /\ delete'[d].at = "checked")
    <3>1. CASE T!ListTree(d)
      <4>1. PICK c \in T!Ids : delete' = [delete EXCEPT ![d] = [at |-> "listed", root |-> c,
                                     tree |-> T!Tree(c), busy |-> T!ActiveRuns]]
        BY <3>1 DEF T!ListTree
      <4>2. T!Tree(c) \in SUBSET T!Ids /\ T!ActiveRuns \in SUBSET (T!Ids \X Nat) /\ c \in 0..MaxThreads
        BY DEF T!Tree, T!ActiveRuns, DeleteTrue, ThreadShape, AnyRow, T!Ids
      <4> QED
        BY <3>1, <4>1, <4>2 DEF DeleteTrue, DeleteShape
    <3>2. CASE T!CheckRuns(d)
      BY <3>2 DEF T!CheckRuns, DeleteTrue, DeleteShape
    <3>3. CASE T!SoftDelete(d)
      BY <3>3 DEF T!SoftDelete, DeleteTrue, DeleteShape
    <3> QED
      BY <1>4, <3>1, <3>2, <3>3
  <2>2. Known'
    BY <1>2, <2>1, ListTreeKnows, CheckRunsKnows DEF Known
  <2> QED
    BY <1>1, <2>1, <2>2 DEF DeleteTrue
<1>5. CASE T!Next
  <2>1. T!Next => UNCHANGED delete \/ \E d \in Deletes : T!ListTree(d) \/ T!CheckRuns(d) \/ T!SoftDelete(d)
    BY DEF T!Next, T!Tick, T!CreateThread, T!Insert, T!Rename, T!FindThread, T!StartRun, T!SpawnChild, T!EndRun, T!Write,
           T!StartWalk, T!ReadPage, T!SendLoad, T!ServeLoad, T!ReceiveLoad
  <2> QED
    BY <1>3, <1>4, <1>5, <2>1
<1>6. CASE UNCHANGED T!vars
  BY <1>3, <1>6 DEF T!vars
<1> QED
  BY <1>5, <1>6

\* At the beginning there is no conversation and no deletion.
LEMMA DeleteInit ==
  ASSUME ThreadBounds, T!Init
  PROVE  DeleteTrue
<1>1. ThreadShape /\ ParentsExist
  BY DEF ThreadBounds, T!Init, ThreadShape, AnyRow, T!NoConversation, ParentsExist, IsThere
<1>2. DeleteShape /\ Known
  BY DEF ThreadBounds, T!Init, DeleteShape, Known
<1> QED
  BY <1>1, <1>2 DEF DeleteTrue

\* No step of a deletion that was allowed to go on hits a run it should have seen.
LEMMA StepProtects ==
  ASSUME DeleteTrue
  PROVE  T!DeleteProtects
BY Protected DEF T!DeleteProtects


-----------------------------------------------------------------------------
(* The list.                                                               *)

\* A finite set has a first element in every strict order.
LEMMA Extreme ==
  ASSUME NEW W, IsFiniteSet(W), W # {}, NEW Less,
         \A x \in W : <<x, x>> \notin Less,
         \A x, y, z \in W : <<x, y>> \in Less /\ <<y, z>> \in Less => <<x, z>> \in Less
  PROVE  \E x \in W : \A y \in W : <<y, x>> \notin Less
<1> DEFINE Below(x) == {y \in W : <<y, x>> \in Less}
           F == {Below(x) : x \in W}
           O == StrictSubsetOrdering(W)
<1>1. IsWellFoundedOn(O, SUBSET W)
  BY FS_StrictSubsetOrderingWellFounded, FS_FiniteSubsetsOfFinite
<1>2. F \subseteq SUBSET W /\ F # {}
  <2>1. PICK x \in W : TRUE
    OBVIOUS
  <2>2. \A y \in W : Below(y) \in SUBSET W
    OBVIOUS
  <2> HIDE DEF Below
  <2>3. Below(x) \in F
    OBVIOUS
  <2> QED
    BY <2>2, <2>3
<1>3. \E X \in F : \A Y \in F : <<Y, X>> \notin O
  <2> HIDE DEF F, O
  <2> QED
    BY <1>1, <1>2, WFMin
<1>4. PICK x \in W : \A y \in W : <<Below(y), Below(x)>> \notin O
  <2> HIDE DEF O, Below
  <2> QED
    BY <1>3
<1>5. ASSUME NEW y \in W, <<y, x>> \in Less
      PROVE  FALSE
  <2>1. Below(y) \subseteq Below(x)
    BY <1>5
  <2>2. y \in Below(x) /\ y \notin Below(y)
    BY <1>5
  <2>3. <<Below(y), Below(x)>> \in O
    BY <2>1, <2>2 DEF StrictSubsetOrdering
  <2> QED
    BY <1>4, <2>3
<1> QED
  BY <1>5

\* What the list is ordered by.
Keys == [activity : Int, id : Int]

\* The order of the list is strict and total.
LEMMA OrderIsTotal ==
  /\ \A k \in Keys : ~T!Before(k, k)
  /\ \A k, m, n \in Keys : T!Before(k, m) /\ T!Before(m, n) => T!Before(k, n)
  /\ \A k, m \in Keys : k.id # m.id => T!Before(k, m) \/ T!Before(m, k)
BY DEF Keys, T!Before

\* What a conversation is ordered by.
LEMMA KeysAreKeys ==
  ASSUME ThreadShape, NEW c \in T!Ids
  PROVE  /\ T!Key(c) \in Keys /\ T!Key(c).id = c
         /\ T!Key(c).activity \in 0..MaxClock
<1>1. threads[c].last \in 0..MaxClock /\ threads[c].updated \in 0..MaxClock
  BY DEF ThreadShape, AnyRow
<1>2. T!Activity(c) \in 0..MaxClock /\ c \in Int
  BY <1>1 DEF T!Activity, T!Ids
<1> QED
  BY <1>2 DEF T!Key, Keys

\* How many of the rows come before one of them.
Ahead(found, c) == {b \in found : T!Before(T!Key(b), T!Key(c))}

\* A page is the first rows, as many as there may be on one.
LEMMA PageIs == \A W : T!Page(W) = {c \in W : Cardinality(Ahead(W, c)) < PageLimit}
BY SameNumber DEF T!Page, Ahead

\* When all the rows fit on a page, it has them all.
LEMMA PageIsShort ==
  ASSUME ThreadBounds, ThreadShape, NEW W \in SUBSET T!Ids, IsFiniteSet(W), Cardinality(W) <= PageLimit
  PROVE  T!Page(W) = W
<1> SUFFICES ASSUME NEW c \in W PROVE Cardinality(Ahead(W, c)) < PageLimit
  BY PageIs
<1>1. Ahead(W, c) \in SUBSET (W \ {c})
  BY KeysAreKeys, OrderIsTotal DEF Ahead
<1>2. IsFiniteSet(W \ {c}) /\ Cardinality(W \ {c}) = Cardinality(W) - 1
  BY FS_RemoveElement
<1>3. IsFiniteSet(Ahead(W, c)) /\ Cardinality(Ahead(W, c)) <= Cardinality(W \ {c})
  BY <1>1, <1>2, FS_Subset
<1>4. Cardinality(W) \in Nat /\ Cardinality(Ahead(W, c)) \in Nat
  BY <1>3, FS_CardinalityType
<1>5. PageLimit \in Nat
  BY DEF ThreadBounds
<1> QED
  BY <1>2, <1>3, <1>4, <1>5

\* Otherwise it ends with a row that tells those it has from those it has not.
LEMMA PageHasLast ==
  ASSUME ThreadBounds, ThreadShape, NEW W \in SUBSET T!Ids, IsFiniteSet(W), W # {}
  PROVE  /\ T!LastOf(T!Page(W)) \in W
         /\ \A b \in W : b \in T!Page(W) <=> ~T!Before(T!Key(T!LastOf(T!Page(W))), T!Key(b))
<1> DEFINE Less == {p \in W \X W : T!Before(T!Key(p[1]), T!Key(p[2]))}
           More == {p \in W \X W : T!Before(T!Key(p[2]), T!Key(p[1]))}
           shortened == T!Page(W)
           latest == T!LastOf(shortened)
<1>0. \A x \in W : T!Key(x) \in Keys /\ T!Key(x).id = x
  BY KeysAreKeys
<1>1. \E x \in W : \A y \in W : <<y, x>> \notin Less
  <2>1. \A x \in W : <<x, x>> \notin Less
    BY <1>0, OrderIsTotal
  <2>2. \A x, y, z \in W : <<x, y>> \in Less /\ <<y, z>> \in Less => <<x, z>> \in Less
    BY <1>0, OrderIsTotal
  <2> HIDE DEF Less
  <2> QED
    BY <2>1, <2>2, Extreme
<1>2. shortened # {}
  <2>1. PICK x \in W : \A y \in W : ~T!Before(T!Key(y), T!Key(x))
    BY <1>1
  <2>2. Ahead(W, x) = {}
    BY <2>1 DEF Ahead
  <2>3. Cardinality(Ahead(W, x)) < PageLimit
    BY <2>2, FS_EmptySet DEF ThreadBounds
  <2> QED
    BY <2>3, PageIs
<1>3. shortened \subseteq W /\ IsFiniteSet(shortened)
  <2>1. shortened \subseteq W
    BY DEF T!Page
  <2> QED
    BY <2>1, FS_Subset
<1>4. \E x \in shortened : \A y \in shortened : <<y, x>> \notin More
  <2>1. \A x \in shortened : <<x, x>> \notin More
    BY <1>0, <1>3, OrderIsTotal
  <2>2. \A x, y, z \in shortened : <<x, y>> \in More /\ <<y, z>> \in More => <<x, z>> \in More
    BY <1>0, <1>3, OrderIsTotal
  <2> HIDE DEF More, shortened
  <2> QED
    BY <1>2, <1>3, <2>1, <2>2, Extreme
<1>5. \E x \in shortened : \A y \in shortened : ~T!Before(T!Key(x), T!Key(y))
  BY <1>3, <1>4
<1>6. latest \in shortened /\ \A y \in shortened : ~T!Before(T!Key(latest), T!Key(y))
  <2> HIDE DEF shortened
  <2> QED
    BY <1>5 DEF T!LastOf
<1>7. ASSUME NEW b \in W, ~T!Before(T!Key(latest), T!Key(b))
      PROVE  b \in shortened
  <2> HIDE DEF latest
  <2>1. CASE b = latest
    BY <1>6, <2>1
  <2>2. CASE b # latest
    <3>1. T!Before(T!Key(b), T!Key(latest))
      BY <1>0, <1>3, <1>6, <1>7, <2>2, OrderIsTotal
    <3>2. Ahead(W, b) \in SUBSET Ahead(W, latest)
      BY <1>0, <1>3, <1>6, <3>1, OrderIsTotal DEF Ahead
    <3>3. IsFiniteSet(Ahead(W, latest))
      <4>1. Ahead(W, latest) \in SUBSET W
        BY DEF Ahead
      <4> QED
        BY <4>1, FS_Subset
    <3>4. IsFiniteSet(Ahead(W, b)) /\ Cardinality(Ahead(W, b)) <= Cardinality(Ahead(W, latest))
      BY <3>2, <3>3, FS_Subset
    <3>5. Cardinality(Ahead(W, latest)) < PageLimit
      BY <1>6, PageIs
    <3>6. Cardinality(Ahead(W, b)) \in Nat /\ Cardinality(Ahead(W, latest)) \in Nat /\ PageLimit \in Nat
      BY <3>3, <3>4, FS_CardinalityType DEF ThreadBounds
    <3>7. Cardinality(Ahead(W, b)) < PageLimit
      BY <3>4, <3>5, <3>6
    <3> QED
      BY <3>7, PageIs
  <2> QED
    BY <2>1, <2>2
<1> QED
  BY <1>3, <1>6, <1>7

-----------------------------------------------------------------------------
IsPosition(k) == k = T!Top \/ k \in [activity : 0..MaxClock, id : 0..MaxThreads]

WalkShape ==
  /\ walk = [at |-> walk.at, cursor |-> walk.cursor, read |-> walk.read, stable |-> walk.stable]
  /\ walk.at \in {"idle", "reading", "done"}
  /\ IsPosition(walk.cursor)
  /\ walk.read \in [T!Ids -> Nat]
  /\ walk.stable \in SUBSET T!Ids

\* So far it was given those before the cursor, once.
WalkTrue ==
  /\ WalkShape
  /\ walk.at = "idle" => walk.stable = {}
  /\ walk.at = "reading" => \A c \in walk.stable :
       T!TopLevel(c) /\ walk.read[c] = (IF T!Before(walk.cursor, T!Key(c)) THEN 0 ELSE 1)
  /\ walk.at = "done" => \A c \in walk.stable : walk.read[c] = 1

\* What a step does to the walk unless the walk is what moves.
WalkUntouched ==
  /\ walk'.stable \in SUBSET walk.stable
  /\ walk' = [walk EXCEPT !.stable = walk'.stable]
  /\ \A c \in walk'.stable : T!TopLevel(c) => threads'[c] = threads[c]

\* A walk that no step touches keeps what it has been given.
LEMMA WalkStays ==
  ASSUME WalkTrue, WalkUntouched
  PROVE  WalkTrue'
<1>1. /\ walk'.at = walk.at /\ walk'.cursor = walk.cursor /\ walk'.read = walk.read
      /\ walk' = [at |-> walk'.at, cursor |-> walk'.cursor, read |-> walk'.read, stable |-> walk'.stable]
  BY DEF WalkUntouched, WalkTrue, WalkShape
<1>2. WalkShape'
  BY <1>1 DEF WalkTrue, WalkShape, WalkUntouched, IsPosition, T!Top
<1>3. ASSUME walk.at = "reading", NEW c \in walk'.stable
      PROVE  T!TopLevel(c)' /\ walk'.read[c] = (IF T!Before(walk'.cursor, T!Key(c)') THEN 0 ELSE 1)
  <2>1. T!TopLevel(c) /\ walk.read[c] = (IF T!Before(walk.cursor, T!Key(c)) THEN 0 ELSE 1)
    BY <1>3 DEF WalkTrue, WalkUntouched
  <2>2. threads'[c] = threads[c]
    BY <2>1 DEF WalkUntouched
  <2>3. T!TopLevel(c)' = T!TopLevel(c) /\ T!Key(c)' = T!Key(c)
    BY <2>2 DEF T!TopLevel, T!Live, T!Key, T!Activity
  <2> QED
    BY <1>1, <2>1, <2>3
<1>4. /\ walk'.at = "idle" => walk'.stable = {}
      /\ walk'.at = "done" => \A c \in walk'.stable : walk'.read[c] = 1
  BY <1>1 DEF WalkTrue, WalkUntouched
<1> QED
  BY <1>1, <1>2, <1>3, <1>4 DEF WalkTrue, T!Before

\* A walk begins before everything.
LEMMA WalkStarts ==
  ASSUME ThreadBounds, ThreadShape, T!StartWalk
  PROVE  WalkTrue'
<1>1. walk' = [at |-> "reading", cursor |-> T!Top, read |-> [c \in T!Ids |-> 0],
              stable |-> {c \in T!Ids : T!TopLevel(c)}] /\ threads' = threads
  BY DEF T!StartWalk
<1>2. WalkShape'
  BY <1>1 DEF WalkShape, IsPosition
<1>3. ASSUME NEW c \in walk'.stable
      PROVE  T!TopLevel(c)' /\ walk'.read[c] = 0 /\ T!Before(walk'.cursor, T!Key(c)')
  <2>1. c \in T!Ids /\ T!TopLevel(c)
    BY <1>1
  <2>2. T!TopLevel(c)' = T!TopLevel(c) /\ T!Key(c)' = T!Key(c)
    BY <1>1 DEF T!TopLevel, T!Live, T!Key, T!Activity
  <2>3. T!Key(c).id = c /\ T!Key(c).activity \in 0..MaxClock
    BY <2>1, KeysAreKeys
  <2>4. T!Before(T!Top, T!Key(c))
    BY <2>1, <2>3 DEF T!Before, T!Top, T!Ids, ThreadBounds
  <2> QED
    BY <1>1, <2>1, <2>2, <2>4
<1> QED
  BY <1>1, <1>2, <1>3 DEF WalkTrue, T!Before

\* There are finitely many rows.
LEMMA RowsAreFinite ==
  ASSUME ThreadBounds, NEW k
  PROVE  T!Rows(k) \in SUBSET T!Ids /\ IsFiniteSet(T!Rows(k)) /\ Cardinality(T!Rows(k)) \in Nat
<1>1. T!Rows(k) \in SUBSET T!Ids
  BY DEF T!Rows
<1>2. IsFiniteSet(T!Ids)
  BY FS_Interval DEF T!Ids, ThreadBounds
<1>3. IsFiniteSet(T!Rows(k))
  BY <1>1, <1>2, FS_Subset
<1> QED
  BY <1>1, <1>3, FS_CardinalityType

\* A page gives the walk what it was not given before, up to the new cursor.
LEMMA WalkReads ==
  ASSUME ThreadBounds, ThreadShape, WalkTrue, T!ReadPage
  PROVE  WalkTrue'
<1> DEFINE found == T!Rows(walk.cursor)
           shortened == T!Page(found)
           readNow == [c \in T!Ids |-> walk.read[c] + (IF c \in shortened THEN 1 ELSE 0)]
<1>1. /\ walk.at = "reading" /\ threads' = threads
      /\ walk' = IF Cardinality(found) > PageLimit
                 THEN [walk EXCEPT !.read = readNow, !.cursor = T!Key(T!LastOf(shortened))]
                 ELSE [walk EXCEPT !.read = readNow, !.at = "done"]
  BY SameNumber DEF T!ReadPage
<1>2. found \in SUBSET T!Ids /\ IsFiniteSet(found) /\ Cardinality(found) \in Nat
  BY RowsAreFinite
<1>3. \A c : T!TopLevel(c)' = T!TopLevel(c) /\ T!Key(c)' = T!Key(c)
  BY <1>1 DEF T!TopLevel, T!Live, T!Key, T!Activity
<1>4. readNow \in [T!Ids -> Nat]
  <2>1. \A c \in T!Ids : walk.read[c] \in Nat
    BY DEF WalkTrue, WalkShape
  <2> QED
    BY <2>1
<1>5. ASSUME NEW c \in walk.stable
      PROVE  /\ c \in T!Ids /\ T!TopLevel(c)
             /\ c \in found <=> T!Before(walk.cursor, T!Key(c))
             /\ walk.read[c] = (IF c \in found THEN 0 ELSE 1)
             /\ readNow[c] = (IF c \in found THEN 0 ELSE 1) + (IF c \in shortened THEN 1 ELSE 0)
  <2>1. c \in T!Ids /\ T!TopLevel(c) /\ walk.read[c] = (IF T!Before(walk.cursor, T!Key(c)) THEN 0 ELSE 1)
    BY <1>1 DEF WalkTrue, WalkShape
  <2>2. c \in found <=> T!Before(walk.cursor, T!Key(c))
    BY <2>1 DEF T!Rows
  <2> HIDE DEF found, shortened
  <2> QED
    BY <2>1, <2>2
<1>6. shortened \subseteq found
  BY DEF T!Page
<1>7. CASE Cardinality(found) > PageLimit
  <2> DEFINE latest == T!LastOf(shortened)
  <2>1. found # {}
    BY <1>7, FS_EmptySet DEF ThreadBounds
  <2>2. latest \in found /\ \A b \in found : b \in shortened <=> ~T!Before(T!Key(latest), T!Key(b))
    <3> HIDE DEF found
    <3> QED
      BY <1>2, <2>1, PageHasLast
  <2>3. T!Before(walk.cursor, T!Key(latest)) /\ latest \in T!Ids
    BY <2>2 DEF T!Rows
  <2>4. walk' = [walk EXCEPT !.read = readNow, !.cursor = T!Key(latest)]
    BY <1>1, <1>7
  <2> HIDE DEF found, shortened, readNow, latest
  <2>5. /\ walk'.at = "reading" /\ walk'.cursor = T!Key(latest) /\ walk'.read = readNow
        /\ walk'.stable = walk.stable
        /\ walk' = [at |-> walk'.at, cursor |-> walk'.cursor, read |-> walk'.read, stable |-> walk'.stable]
    BY <1>1, <2>4 DEF WalkTrue, WalkShape
  <2>6. T!Key(latest) \in [activity : 0..MaxClock, id : 0..MaxThreads]
    BY <2>3, KeysAreKeys DEF T!Key, T!Ids
  <2>7. WalkShape'
    BY <1>4, <2>5, <2>6 DEF WalkTrue, WalkShape, IsPosition
  <2>8. ASSUME NEW c \in walk.stable
        PROVE  T!TopLevel(c)' /\ readNow[c] = (IF T!Before(T!Key(latest), T!Key(c)) THEN 0 ELSE 1)
    <3>1. T!Key(c) \in Keys /\ T!Key(latest) \in Keys
      BY <1>5, <2>3, KeysAreKeys
    <3>2. walk.cursor \in Keys
      BY DEF WalkTrue, WalkShape, IsPosition, T!Top, Keys, ThreadBounds
    <3>3. c \notin found => ~T!Before(T!Key(latest), T!Key(c))
      BY <1>5, <2>3, <3>1, <3>2, OrderIsTotal
    <3>4. c \in found => (c \in shortened <=> ~T!Before(T!Key(latest), T!Key(c)))
      BY <2>2
    <3>5. c \notin found => c \notin shortened
      BY <1>6
    <3> QED
      BY <1>3, <1>5, <3>3, <3>4, <3>5
  <2> QED
    BY <1>3, <2>5, <2>7, <2>8 DEF WalkTrue, T!Before
<1>8. CASE ~(Cardinality(found) > PageLimit)
  <2>1. Cardinality(found) <= PageLimit
    BY <1>2, <1>8 DEF ThreadBounds
  <2>2. shortened = found
    <3> HIDE DEF found
    <3> QED
      BY <1>2, <2>1, PageIsShort
  <2>3. walk' = [walk EXCEPT !.read = readNow, !.at = "done"]
    BY <1>1, <1>8
  <2> HIDE DEF found, shortened, readNow
  <2>4. /\ walk'.at = "done" /\ walk'.cursor = walk.cursor /\ walk'.read = readNow
        /\ walk'.stable = walk.stable
        /\ walk' = [at |-> walk'.at, cursor |-> walk'.cursor, read |-> walk'.read, stable |-> walk'.stable]
    BY <2>3 DEF WalkTrue, WalkShape
  <2>5. WalkShape'
    BY <1>4, <2>4 DEF WalkTrue, WalkShape, IsPosition, T!Top
  <2>6. \A c \in walk.stable : readNow[c] = 1
    BY <1>5, <2>2
  <2> QED
    BY <2>4, <2>5, <2>6 DEF WalkTrue
<1> QED
  BY <1>7, <1>8

\* Nothing but its own steps changes a walk, except that what is touched is not
\* stable any more.
LEMMA WalkUndisturbed ==
  ASSUME DeleteTrue, WalkTrue, [T!Next]_T!vars, ~T!StartWalk, ~T!ReadPage
  PROVE  WalkUntouched
<1>0. /\ walk = [walk EXCEPT !.stable = walk.stable]
      /\ \A c : walk.stable \ {c} \in SUBSET walk.stable
  BY DEF WalkTrue, WalkShape
<1>1. CASE walk' = walk /\ threads' = threads
  BY <1>0, <1>1 DEF WalkUntouched
<1>2. ASSUME NEW c \in T!Ids, walk' = walk, threads[c].state = "none",
             \A b \in T!Ids \ {c} : threads'[b] = threads[b]
      PROVE  WalkUntouched
  <2>1. ASSUME NEW b \in walk.stable, T!TopLevel(b)
        PROVE  threads'[b] = threads[b]
    BY <1>2, <2>1 DEF T!TopLevel, T!Live, WalkTrue, WalkShape
  <2> QED
    BY <1>0, <1>2, <2>1 DEF WalkUntouched
<1>3. ASSUME NEW c \in T!Ids, T!Touch(c), \A b \in T!Ids \ {c} : threads'[b] = threads[b]
      PROVE  WalkUntouched
  <2>1. walk'.stable = walk.stable \ {c} /\ walk.stable \in SUBSET T!Ids
    BY <1>3 DEF T!Touch, WalkTrue, WalkShape
  <2>2. walk' = [walk EXCEPT !.stable = walk'.stable]
    BY <1>3 DEF T!Touch, WalkTrue, WalkShape
  <2> QED
    BY <1>3, <2>1, <2>2 DEF WalkUntouched
<1>4. ASSUME NEW d \in Deletes, T!SoftDelete(d)
      PROVE  WalkUntouched
  <2>1. walk'.stable = walk.stable \ delete[d].tree /\ walk.stable \in SUBSET T!Ids
    BY <1>4 DEF T!SoftDelete, WalkTrue, WalkShape
  <2>2. walk' = [walk EXCEPT !.stable = walk'.stable]
    BY <1>4 DEF T!SoftDelete, WalkTrue, WalkShape
  <2>3. \A c \in T!Ids : c \notin delete[d].tree => threads'[c] = threads[c]
    BY <1>4 DEF T!SoftDelete
  <2> QED
    BY <2>1, <2>2, <2>3 DEF WalkUntouched
<1>5. threads \in [T!Ids -> AnyRow] /\ \A ask \in asks : ask[1] \in T!Ids
  BY DEF DeleteTrue, ThreadShape
<1>6. ASSUME NEW c \in T!Ids, T!CreateThread(c)
      PROVE  WalkUntouched
  BY <1>2, <1>5, <1>6 DEF T!CreateThread, T!Insert
<1>7. ASSUME NEW c \in T!Ids, T!Rename(c) \/ T!EndRun(c)
      PROVE  WalkUntouched
  BY <1>3, <1>5, <1>7 DEF T!Rename, T!EndRun
<1>8. ASSUME NEW c \in T!Ids, T!FindThread(c)
      PROVE  WalkUntouched
  BY <1>1, <1>8 DEF T!FindThread
<1>9. ASSUME NEW ask \in asks, T!StartRun(ask[1], ask[2])
      PROVE  WalkUntouched
  BY <1>3, <1>5, <1>9 DEF T!StartRun
<1>10. ASSUME NEW ask \in asks, NEW c \in T!Ids, T!SpawnChild(c, ask[1], ask[2])
       PROVE  WalkUntouched
  BY <1>2, <1>5, <1>10 DEF T!SpawnChild
<1>11. CASE UNCHANGED T!vars
  BY <1>1, <1>11 DEF T!vars
<1>12. ASSUME T!Tick \/ (\E d \in Deletes : T!ListTree(d) \/ T!CheckRuns(d)) \/ T!SendLoad
              \/ \E v \in 1..MaxLoads : T!ServeLoad(v) \/ T!ReceiveLoad(v)
       PROVE  WalkUntouched
  BY <1>1, <1>12 DEF T!Tick, T!ListTree, T!CheckRuns, T!SendLoad, T!ServeLoad, T!ReceiveLoad
<1> QED
  BY <1>4, <1>6, <1>7, <1>8, <1>9, <1>10, <1>11, <1>12 DEF T!Next

\* The walk stays true.
LEMMA WalkInductive ==
  ASSUME ThreadBounds, DeleteTrue, WalkTrue, [T!Next]_T!vars
  PROVE  WalkTrue'
BY WalkUndisturbed, WalkStays, WalkStarts, WalkReads DEF DeleteTrue

\* At the beginning there is no walk.
LEMMA WalkInit ==
  ASSUME ThreadBounds, T!Init
  PROVE  WalkTrue
<1>1. walk = [at |-> "idle", cursor |-> T!Top, read |-> [c \in T!Ids |-> 0], stable |-> {}]
  BY DEF T!Init
<1> QED
  BY <1>1 DEF WalkTrue, WalkShape, IsPosition

-----------------------------------------------------------------------------
\* The panel has the answer to its last request, less what was deleted since; a later
\* request than its last was not sent.
PanelTrue ==
  /\ panel = [version |-> panel.version, loading |-> panel.loading, shown |-> panel.shown,
              removed |-> panel.removed]
  /\ panel.version \in 0..MaxLoads
  /\ DOMAIN loads = 1..MaxLoads
  /\ \A v \in 1..MaxLoads : loads[v] = [at |-> loads[v].at, items |-> loads[v].items]
  /\ \A v \in 1..MaxLoads : v > panel.version => loads[v].at = "none"
  /\ T!HistoryIsLatest

\* An answer changes where a load is and keeps its items.
LEMMA LoadAnswered ==
  ASSUME NEW one, one = [at |-> one.at, items |-> one.items], NEW stage
  PROVE  [one EXCEPT !.at = stage] = [at |-> stage, items |-> one.items]
OBVIOUS

\* The panel stays true, however its answers come in.
LEMMA PanelInductive ==
  ASSUME ThreadBounds, PanelTrue, [T!Next]_T!vars
  PROVE  PanelTrue'
<1>1. CASE UNCHANGED <<panel, loads>>
  BY <1>1 DEF PanelTrue, T!HistoryIsLatest
<1>2. ASSUME NEW d \in Deletes, T!SoftDelete(d)
      PROVE  PanelTrue'
  <2>1. loads' = loads /\ panel' = [panel EXCEPT !.shown = @ \ {delete[d].root},
                            !.removed = @ \cup {delete[d].root}]
    BY <1>2 DEF T!SoftDelete
  <2>2. /\ panel'.version = panel.version /\ panel'.shown = panel.shown \ {delete[d].root}
        /\ panel'.removed = panel.removed \cup {delete[d].root}
        /\ panel' = [version |-> panel'.version, loading |-> panel'.loading, shown |-> panel'.shown,
              removed |-> panel'.removed]
    BY <2>1 DEF PanelTrue
  <2> QED
    BY <2>1, <2>2 DEF PanelTrue, T!HistoryIsLatest
<1>3. ASSUME T!SendLoad
      PROVE  PanelTrue'
  <2>1. panel.version \in Nat /\ panel.version + 1 \in 1..MaxLoads
    BY <1>3 DEF T!SendLoad, PanelTrue, ThreadBounds
  <2>2. /\ panel'.version = panel.version + 1
        /\ panel' = [version |-> panel'.version, loading |-> panel'.loading, shown |-> panel'.shown,
              removed |-> panel'.removed]
    BY <1>3 DEF T!SendLoad, PanelTrue
  <2>3. loads' = [loads EXCEPT ![panel.version + 1] = [@ EXCEPT !.at = "sent"]]
    BY <1>3 DEF T!SendLoad
  <2>4. /\ DOMAIN loads' = 1..MaxLoads
        /\ loads'[panel.version + 1].at = "sent"
        /\ \A v \in 1..MaxLoads : loads'[v] = [at |-> loads'[v].at, items |-> loads'[v].items]
        /\ \A v \in 1..MaxLoads : v # panel.version + 1 => loads'[v] = loads[v]
    BY <2>1, <2>3 DEF PanelTrue
  <2>5. \A v \in 1..MaxLoads : v > panel'.version => loads'[v].at = "none"
    BY <2>1, <2>2, <2>4 DEF PanelTrue
  <2> QED
    BY <2>1, <2>2, <2>4, <2>5 DEF PanelTrue, T!HistoryIsLatest
<1>4. ASSUME NEW w \in 1..MaxLoads, loads[w].at \in {"sent", "served"},
             NEW stage, NEW listed, loads' = [loads EXCEPT ![w] = [at |-> stage, items |-> listed]]
      PROVE  /\ DOMAIN loads' = 1..MaxLoads
             /\ loads'[w].at = stage /\ loads'[w].items = listed
             /\ \A v \in 1..MaxLoads : loads'[v] = [at |-> loads'[v].at, items |-> loads'[v].items]
             /\ \A v \in 1..MaxLoads : v # w => loads'[v] = loads[v]
             /\ \A v \in 1..MaxLoads : v > panel.version => loads'[v].at = "none"
  BY <1>4 DEF PanelTrue
<1>5. ASSUME NEW w \in 1..MaxLoads, T!ServeLoad(w)
      PROVE  PanelTrue'
  <2>1. /\ loads[w].at = "sent" /\ panel' = panel
        /\ loads' = [loads EXCEPT ![w] = [at |-> "served", items |-> T!Page(T!Rows(T!Top))]]
    BY <1>5 DEF T!ServeLoad
  <2>2. /\ DOMAIN loads' = 1..MaxLoads
        /\ loads'[w].at = "served"
        /\ \A v \in 1..MaxLoads : loads'[v] = [at |-> loads'[v].at, items |-> loads'[v].items]
        /\ \A v \in 1..MaxLoads : v # w => loads'[v] = loads[v]
        /\ \A v \in 1..MaxLoads : v > panel.version => loads'[v].at = "none"
    BY <1>4, <2>1
  <2>3. T!HistoryIsLatest'
    BY <2>1, <2>2 DEF PanelTrue, T!HistoryIsLatest
  <2> QED
    BY <2>1, <2>2, <2>3 DEF PanelTrue
<1>6. ASSUME NEW w \in 1..MaxLoads, T!ReceiveLoad(w)
      PROVE  PanelTrue'
  <2>1. loads[w].at = "served" /\ loads[w] = [at |-> loads[w].at, items |-> loads[w].items]
    BY <1>6 DEF T!ReceiveLoad, PanelTrue
  <2>2. \E stage \in {"received", "failed"} :
          /\ loads' = [loads EXCEPT ![w] = [at |-> stage, items |-> loads[w].items]]
          /\ w = panel.version => panel'.version = panel.version
                 /\ (stage = "received" => panel'.shown = loads[w].items /\ panel'.removed = {})
          /\ w # panel.version => panel' = panel
          /\ panel'.version = panel.version
          /\ panel' = [version |-> panel'.version, loading |-> panel'.loading, shown |-> panel'.shown,
                       removed |-> panel'.removed]
    <3>1. CASE /\ loads' = [loads EXCEPT ![w].at = "received"]
               /\ panel' = IF w = panel.version
                    THEN [panel EXCEPT !.loading = FALSE, !.shown = loads[w].items, !.removed = {}]
                    ELSE panel
      <4>1. loads' = [loads EXCEPT ![w] = [at |-> "received", items |-> loads[w].items]]
        <5>1. loads' = [loads EXCEPT ![w] = [loads[w] EXCEPT !.at = "received"]]
          BY <3>1
        <5> QED
          BY <2>1, <5>1, LoadAnswered
      <4> QED
        BY <3>1, <4>1 DEF PanelTrue
    <3>2. CASE /\ loads' = [loads EXCEPT ![w].at = "failed"]
               /\ panel' = IF w = panel.version THEN [panel EXCEPT !.loading = FALSE] ELSE panel
      <4>1. loads' = [loads EXCEPT ![w] = [at |-> "failed", items |-> loads[w].items]]
        <5>1. loads' = [loads EXCEPT ![w] = [loads[w] EXCEPT !.at = "failed"]]
          BY <3>2
        <5> QED
          BY <2>1, <5>1, LoadAnswered
      <4> QED
        BY <3>2, <4>1 DEF PanelTrue
    <3> QED
      BY <1>6, <3>1, <3>2 DEF T!ReceiveLoad
  <2>3. PICK stage \in {"received", "failed"} :
          /\ loads' = [loads EXCEPT ![w] = [at |-> stage, items |-> loads[w].items]]
          /\ w = panel.version => panel'.version = panel.version
                 /\ (stage = "received" => panel'.shown = loads[w].items /\ panel'.removed = {})
          /\ w # panel.version => panel' = panel
          /\ panel'.version = panel.version
          /\ panel' = [version |-> panel'.version, loading |-> panel'.loading, shown |-> panel'.shown,
                       removed |-> panel'.removed]
    BY <2>2
  <2>4. /\ DOMAIN loads' = 1..MaxLoads
        /\ loads'[w].at = stage /\ loads'[w].items = loads[w].items
        /\ \A v \in 1..MaxLoads : loads'[v] = [at |-> loads'[v].at, items |-> loads'[v].items]
        /\ \A v \in 1..MaxLoads : v # w => loads'[v] = loads[v]
        /\ \A v \in 1..MaxLoads : v > panel.version => loads'[v].at = "none"
    BY <1>4, <2>1, <2>3
  <2>5. T!HistoryIsLatest'
    BY <2>1, <2>3, <2>4 DEF PanelTrue, T!HistoryIsLatest
  <2> QED
    BY <2>3, <2>4, <2>5 DEF PanelTrue
<1>7. CASE T!Next
  <2>1. T!Next => \/ UNCHANGED <<panel, loads>>
                  \/ \E d \in Deletes : T!SoftDelete(d)
                  \/ T!SendLoad
                  \/ \E v \in 1..MaxLoads : T!ServeLoad(v) \/ T!ReceiveLoad(v)
    BY DEF T!Next, T!Tick, T!CreateThread, T!Insert, T!Rename, T!FindThread, T!StartRun, T!SpawnChild, T!EndRun, T!Write,
           T!StartWalk, T!ReadPage, T!ListTree, T!CheckRuns
  <2> QED
    BY <1>1, <1>2, <1>3, <1>5, <1>6, <1>7, <2>1
<1>8. CASE UNCHANGED T!vars
  BY <1>1, <1>8 DEF T!vars
<1> QED
  BY <1>7, <1>8

\* At the beginning nothing was asked for.
LEMMA PanelInit ==
  ASSUME ThreadBounds, T!Init
  PROVE  PanelTrue
BY DEF ThreadBounds, T!Init, PanelTrue, T!HistoryIsLatest

ListsInv == DeleteTrue /\ WalkTrue /\ PanelTrue

\* Deletions, walks and the panel, together.
LEMMA ListsInductive == ThreadBounds => (T!Spec => []ListsInv)
<1> SUFFICES ASSUME ThreadBounds PROVE T!Spec => []ListsInv
  OBVIOUS
<1>1. T!Init => ListsInv
  BY DeleteInit, WalkInit, PanelInit DEF ListsInv
<1>2. ListsInv /\ [T!Next]_T!vars => ListsInv'
  BY DeleteInductive, WalkInductive, PanelInductive DEF ListsInv
<1> QED
  BY <1>1, <1>2, PTL DEF T!Spec

\* The bounds of the conversations are what their invariant asks for.
LEMMA ThreadParameters == ThreadBounds
BY BoundsAreNumbers DEF ThreadBounds

\* A run that was active anywhere below a thread when delete_thread began, and still
\* is when it deletes, keeps the tree from being deleted, whatever is created, started
\* and deleted meanwhile (thread_service.py: delete_thread).
THEOREM RunningKeepsTree == T!Spec => [][T!DeleteProtects]_T!vars
<1>1. T!Spec => []ListsInv
  BY ListsInductive, ThreadParameters
<1>2. ListsInv => [T!DeleteProtects]_T!vars
  BY StepProtects DEF ListsInv
<1> QED
  BY <1>1, <1>2, PTL

\* A client that follows next_cursor to the end is given every thread that nothing
\* happened to exactly once, and the history panel shows the answer to its last
\* request (conversation_repository.py: list_top_level_for_user).
THEOREM ListsAreRead == T!Spec => []T!UnchangedIsListedOnce /\ []T!HistoryIsLatest
<1>1. T!Spec => []ListsInv
  BY ListsInductive, ThreadParameters
<1>2. ListsInv => T!UnchangedIsListedOnce /\ T!HistoryIsLatest
  BY DEF ListsInv, WalkTrue, PanelTrue, T!UnchangedIsListedOnce
<1> QED
  BY <1>1, <1>2, PTL

-----------------------------------------------------------------------------
(* The message saving of a thread.  RunRequests lets no run of a thread start *)
(* before the one before it has ended, which is what keeps a message from    *)
(* being looked for by two transactions at once.                            *)

\* One run at a time.
StreamParameters ==
  /\ IsFiniteSet(ThreadRuns)
  /\ MaxActive \in 0..1
  /\ MaxMessages \in Nat /\ MaxStreamFaults \in Nat

OneAtATime == \A r, s \in S!Active : r = s

\* The checkpoint holds messages that were produced.
CheckpointProduced == checkpoint \subseteq DOMAIN produced

\* A row is of a message that was produced, and no two are of the same.  While a
\* run is not over, the rows of its messages are its own.
TableIsTrue ==
  /\ \A x \in messages : x.of # 0 =>
       /\ x.of \in DOMAIN produced
       /\ run[produced[x.of].run].at # "over" => x.run = produced[x.of].run
  /\ \A x, y \in messages : x.of # 0 /\ x.of = y.of => x = y

OwnMessages(r) == {m \in DOMAIN produced : produced[m].run = r}

\* What CompletedIsSaved says of a run that is completed.
IsSaved(r) ==
  /\ \A m \in S!Answers(r) : S!RowsOf(m) # {}
  /\ \A m \in DOMAIN produced :
       produced[m].run = r /\ produced[m].type = "tool" => m \in results
  /\ run[r].output \subseteq messages
  /\ \E x \in run[r].output :
       x.run = r /\ \A m \in S!Answers(r) : m <= x.of

\* The run ends its checkpoint with an answer of its own.
EndsWithAnswer(r) ==
  \E m \in S!Newest(checkpoint) : produced[m].run = r /\ produced[m].type # "tool"

\* While a run is active the checkpoint is its state and has all it produced; what
\* it is about to commit is what the tables lack of the checkpoint; from its first
\* save on, everything is saved.
RunIsTrue(r) ==
  /\ run[r].at = "idle" => OwnMessages(r) = {}
  /\ r \in S!Active => run[r].state = checkpoint /\ OwnMessages(r) \subseteq checkpoint
  /\ run[r].at \in {"saving", "committing", "checking", "saving again", "closing"} =>
       EndsWithAnswer(r)
  /\ run[r].at \in {"committing", "closing"} =>
       /\ run[r].rows = {m \in S!Assistant : S!RowsOf(m) = {}}
       /\ run[r].done = S!InCheckpoint({"tool"})
  /\ run[r].at \in {"checking", "saving again", "closing"} \/ run[r].status = "completed" =>
       IsSaved(r)
  /\ run[r].status = "completed" => run[r].at = "over"

StreamInv ==
  /\ S!TypeOK
  /\ OneAtATime
  /\ CheckpointProduced
  /\ TableIsTrue
  /\ \A r \in ThreadRuns : RunIsTrue(r)


\* It is true at the start.
LEMMA StreamStart == StreamParameters /\ S!Init => StreamInv
<1> SUFFICES ASSUME StreamParameters, S!Init PROVE StreamInv
  OBVIOUS
<1>1. S!NewRun \in S!Run /\ S!NewRun.at = "idle" /\ S!NewRun.status = "pending"
  BY DEF S!NewRun, S!Run, S!Stage, S!Chunk
<1>2. produced = << >> /\ checkpoint = {} /\ messages = {} /\ results = {}
  BY DEF S!Init
<1>3. run \in [ThreadRuns -> S!Run] /\ \A r \in ThreadRuns : run[r].at = "idle" /\ run[r].status = "pending"
  BY <1>1 DEF S!Init
<1>4. S!TypeOK
  <2>1. produced \in Seq(S!Produced) /\ Len(produced) <= MaxMessages
    BY <1>2 DEF StreamParameters
  <2>2. streamFaults \in 0..MaxStreamFaults
    BY DEF S!Init, StreamParameters
  <2>3. asked \in BOOLEAN
    BY DEF S!Init
  <2> QED
    BY <1>2, <1>3, <2>1, <2>2, <2>3 DEF S!TypeOK
<1>5. S!Active = {}
  BY <1>3 DEF S!Active
<1>6. DOMAIN produced = {}
  BY <1>2
<1>7. OneAtATime /\ CheckpointProduced /\ TableIsTrue
  BY <1>2, <1>5 DEF OneAtATime, CheckpointProduced, TableIsTrue
<1>8. ASSUME NEW r \in ThreadRuns PROVE RunIsTrue(r)
  BY <1>3, <1>5, <1>6 DEF RunIsTrue, OwnMessages
<1> QED
  BY <1>4, <1>7, <1>8 DEF StreamInv

\* The numbers of the messages.
LEMMA MessageNumbers ==
  ASSUME StreamParameters, S!TypeOK
  PROVE  /\ DOMAIN produced = 1..Len(produced)
         /\ Len(produced) \in Nat /\ Len(produced) <= MaxMessages
         /\ DOMAIN produced \subseteq S!Ids
         /\ S!Ids \subseteq Nat \ {0}
         /\ \A m \in DOMAIN produced : produced[m] \in S!Produced /\ produced[m].run \in ThreadRuns
<1>1. produced \in Seq(S!Produced) /\ Len(produced) <= MaxMessages /\ MaxMessages \in Nat
  BY DEF S!TypeOK, StreamParameters
<1>2. DOMAIN produced = 1..Len(produced) /\ Len(produced) \in Nat
  BY <1>1
<1>3. \A m \in DOMAIN produced : produced[m] \in S!Produced
  BY <1>1
<1>4. DOMAIN produced \subseteq S!Ids /\ S!Ids \subseteq Nat \ {0}
  BY <1>1, <1>2 DEF S!Ids
<1> QED
  BY <1>1, <1>2, <1>3, <1>4 DEF S!Produced

\* A run that takes a step is the only one, and leaves the others as they are.
OnlyRun(r) ==
  /\ \A s \in ThreadRuns \ {r} : run'[s] = run[s] /\ s \notin S!Active
  /\ run' \in [ThreadRuns -> S!Run]

\* What becomes of the list of messages.
LongerList(r) ==
  \/ UNCHANGED produced
  \/ \E t \in {"ai", "call", "tool"} : produced' = Append(produced, [run |-> r, type |-> t])

\* A list that grows at its end keeps the messages it has.
LEMMA LongerListFacts ==
  ASSUME S!TypeOK, NEW r \in ThreadRuns, LongerList(r)
  PROVE  /\ produced' \in Seq(S!Produced)
         /\ DOMAIN produced \subseteq DOMAIN produced'
         /\ \A m \in DOMAIN produced : produced'[m] = produced[m]
         /\ \A m \in DOMAIN produced' \ DOMAIN produced : produced'[m].run = r
<1>1. produced \in Seq(S!Produced)
  BY DEF S!TypeOK
<1>2. CASE UNCHANGED produced
  BY <1>1, <1>2
<1>3. ASSUME NEW t \in {"ai", "call", "tool"}, produced' = Append(produced, [run |-> r, type |-> t])
      PROVE  /\ produced' \in Seq(S!Produced)
             /\ DOMAIN produced \subseteq DOMAIN produced'
             /\ \A m \in DOMAIN produced : produced'[m] = produced[m]
             /\ \A m \in DOMAIN produced' \ DOMAIN produced : produced'[m].run = r
  <2> DEFINE new == [run |-> r, type |-> t]
  <2>1. new \in S!Produced /\ new.run = r
    BY DEF S!Produced
  <2> HIDE DEF new
  <2> QED
    BY <1>1, <1>3, <2>1 DEF new
<1> QED
  BY <1>2, <1>3 DEF LongerList

\* The other runs keep what they have, whatever the only active one does.
LEMMA OtherRuns ==
  ASSUME StreamInv, NEW r \in ThreadRuns, OnlyRun(r), LongerList(r),
         messages \subseteq messages', results \subseteq results',
         NEW s \in ThreadRuns, s # r
  PROVE  RunIsTrue(s)'
<1>1. run'[s] = run[s] /\ s \notin S!Active /\ RunIsTrue(s)
  BY DEF OnlyRun, StreamInv
<1>2. s \notin S!Active' /\ run[s].at \in {"idle", "over"}
  BY <1>1 DEF S!Active
<1>3. /\ OwnMessages(s)' = OwnMessages(s) /\ S!Answers(s)' = S!Answers(s)
      /\ \A m \in OwnMessages(s) : produced'[m] = produced[m]
  BY LongerListFacts DEF OwnMessages, S!Answers, StreamInv
<1>4. IsSaved(s) => IsSaved(s)'
  <2> SUFFICES ASSUME IsSaved(s) PROVE IsSaved(s)'
    OBVIOUS
  <2>1. \A m \in S!Answers(s)' : (S!RowsOf(m) # {})'
    BY <1>3 DEF IsSaved, S!RowsOf
  <2>2. \A m \in OwnMessages(s)' : produced'[m].type = "tool" => m \in results'
    BY <1>3 DEF IsSaved, OwnMessages
  <2>3. /\ run'[s].output \subseteq messages'
        /\ \E x \in run'[s].output : x.run = s /\ \A m \in S!Answers(s)' : m <= x.of
    BY <1>1, <1>3 DEF IsSaved
  <2> QED
    BY <2>1, <2>2, <2>3 DEF IsSaved, OwnMessages
<1> QED
  BY <1>1, <1>2, <1>3, <1>4 DEF RunIsTrue

\* One of them active at the most, and the next state has one too.
LEMMA StillOneRun ==
  ASSUME OneAtATime, NEW r \in ThreadRuns, OnlyRun(r)
  PROVE  OneAtATime' /\ S!Active' \subseteq {r}
BY DEF OneAtATime, OnlyRun, S!Active

\* An active run is the only one.
LEMMA ActiveAlone ==
  ASSUME OneAtATime, NEW r \in S!Active
  PROVE  \A s \in ThreadRuns \ {r} : s \notin S!Active
BY DEF OneAtATime

\* ThreadStream counts as this module does.
LEMMA CountsAlike == \A W : S!Cardinality(W) = Cardinality(W)
BY DEF S!Cardinality, Cardinality

\* A run starts only when none is active.
LEMMA NoneActive ==
  ASSUME StreamParameters, S!Cardinality(S!Active) < MaxActive
  PROVE  S!Active = {}
<1>1. IsFiniteSet(S!Active)
  BY FS_Subset DEF StreamParameters, S!Active
<1>2. Cardinality(S!Active) \in Nat /\ MaxActive \in {0, 1}
  BY <1>1, FS_CardinalityType DEF StreamParameters
<1>3. Cardinality(S!Active) = 0
  BY <1>2, CountsAlike
<1> QED
  BY <1>1, <1>3, FS_EmptySet

\* Its next value makes the run the only one that changes.
LEMMA OnlyThis ==
  ASSUME S!TypeOK, NEW r \in ThreadRuns, NEW v \in S!Run, run' = [run EXCEPT ![r] = v],
         \A s \in ThreadRuns \ {r} : s \notin S!Active
  PROVE  OnlyRun(r) /\ run'[r] = v
BY DEF S!TypeOK, OnlyRun

\* A step that adds at the most the text of a failure leaves the table true.
LEMMA TableStays ==
  ASSUME StreamParameters, StreamInv, NEW r \in ThreadRuns, OnlyRun(r), LongerList(r), run[r].at # "over",
         \A x \in messages' : x \in messages \/ x.of = 0
  PROVE  TableIsTrue'
<1>1. \A x \in messages' : x.of # 0 => x \in messages
  OBVIOUS
<1>2. \A x \in messages' : x.of # 0 =>
        /\ x.of \in DOMAIN produced'
        /\ run'[produced'[x.of].run].at # "over" => x.run = produced'[x.of].run
  <2> SUFFICES ASSUME NEW x \in messages', x.of # 0
               PROVE  /\ x.of \in DOMAIN produced'
                      /\ run'[produced'[x.of].run].at # "over" => x.run = produced'[x.of].run
    OBVIOUS
  <2> DEFINE s == produced[x.of].run
  <2>1. x \in messages /\ x.of \in DOMAIN produced /\ (run[s].at # "over" => x.run = s)
    BY <1>1 DEF StreamInv, TableIsTrue
  <2>2. x.of \in DOMAIN produced' /\ produced'[x.of] = produced[x.of]
    BY <2>1, LongerListFacts DEF StreamInv
  <2>3. s \in ThreadRuns
    BY <2>1, MessageNumbers DEF StreamInv
  <2>4. run'[s].at # "over" => run[s].at # "over"
    BY <2>3 DEF OnlyRun
  <2> QED
    BY <2>1, <2>2, <2>4
<1>3. \A x, y \in messages' : x.of # 0 /\ x.of = y.of => x = y
  BY <1>1 DEF StreamInv, TableIsTrue
<1> QED
  BY <1>2, <1>3 DEF TableIsTrue

\* What a step of a run has to show.
LEMMA StreamTogether ==
  ASSUME StreamInv, NEW r \in ThreadRuns, OnlyRun(r), LongerList(r),
         messages \subseteq messages', results \subseteq results',
         S!TypeOK', CheckpointProduced', TableIsTrue', RunIsTrue(r)'
  PROVE  StreamInv'
<1>1. OneAtATime'
  BY StillOneRun DEF StreamInv
<1>2. \A s \in ThreadRuns : RunIsTrue(s)'
  BY OtherRuns
<1> QED
  BY <1>1, <1>2 DEF StreamInv

\* A run that is over, and not completed, has nothing to show.
LEMMA OverIsTrue ==
  ASSUME NEW r \in ThreadRuns, run[r].at = "over", run[r].status # "completed"
  PROVE  RunIsTrue(r)
BY DEF RunIsTrue, S!Active

\* The faults stay within their bound.
LEMMA FaultIsCounted ==
  ASSUME StreamParameters, S!TypeOK, NEW f, S!Fault(f) \/ UNCHANGED streamFaults
  PROVE  streamFaults' \in 0..MaxStreamFaults
BY DEF StreamParameters, S!TypeOK, S!Fault

\* A step of one run that leaves the graph alone and adds no message to the
\* tables, but for the text of a failure.
LEMMA TablesAside ==
  ASSUME StreamParameters, StreamInv, NEW r \in ThreadRuns, NEW v \in S!Run,
         \A s \in ThreadRuns \ {r} : s \notin S!Active,
         run[r].at # "over", run' = [run EXCEPT ![r] = v],
         UNCHANGED <<produced, checkpoint, results>>,
         asked' \in BOOLEAN, streamFaults' \in 0..MaxStreamFaults,
         messages \subseteq messages', messages' \subseteq S!Row,
         \A x \in messages' : x \in messages \/ x.of = 0,
         run'[r] = v => RunIsTrue(r)'
  PROVE  StreamInv'
<1>1. S!TypeOK
  BY DEF StreamInv
<1>2. OnlyRun(r) /\ run'[r] = v
  BY <1>1, OnlyThis
<1>3. LongerList(r)
  BY DEF LongerList
<1>4. S!TypeOK'
  BY <1>1, <1>2 DEF S!TypeOK, OnlyRun
<1>5. CheckpointProduced'
  BY DEF StreamInv, CheckpointProduced
<1>6. TableIsTrue'
  BY <1>2, <1>3, TableStays
<1> QED
  BY <1>2, <1>3, <1>4, <1>5, <1>6, StreamTogether

\* An end that is none of a completed run.
LEMMA RunEnding ==
  ASSUME StreamParameters, StreamInv, NEW r \in ThreadRuns, NEW chunk \in S!Chunk,
         NEW status \in {"interrupted", "failed", "cancelled"},
         \A s \in ThreadRuns \ {r} : s \notin S!Active,
         run[r].at # "over", S!End(r, chunk, status), streamFaults' \in 0..MaxStreamFaults,
         UNCHANGED <<produced, checkpoint, asked, messages, results>>
  PROVE  StreamInv'
<1> DEFINE v == [run[r] EXCEPT !.at = "over", !.chunk = chunk, !.status = status,
                               !.rows = {}, !.done = {}]
<1>1. run[r] \in S!Run
  BY DEF StreamInv, S!TypeOK
<1>2. v \in S!Run /\ v.at = "over" /\ v.status # "completed"
  BY <1>1 DEF S!Run, S!Stage
<1>3. run' = [run EXCEPT ![r] = v]
  BY DEF S!End
<1>4. run'[r] = v => RunIsTrue(r)'
  BY <1>2 DEF RunIsTrue, S!Active
<1> HIDE DEF v
<1>5. asked' \in BOOLEAN /\ messages' \subseteq S!Row /\ \A x \in messages' : x \in messages
  BY DEF StreamInv, S!TypeOK
<1> QED
  BY <1>2, <1>3, <1>4, <1>5, TablesAside

\* A run starts with the checkpoint.
LEMMA StartRunKeeps ==
  ASSUME StreamParameters, StreamInv, NEW r \in ThreadRuns, S!Start(r)
  PROVE  StreamInv'
<1>1. S!Active = {} /\ run[r].at = "idle"
  BY NoneActive DEF S!Start
<1>2. \A s \in ThreadRuns \ {r} : s \notin S!Active
  BY <1>1
<1>3. OwnMessages(r) = {} /\ run[r].status # "completed"
  BY <1>1 DEF StreamInv, RunIsTrue
<1>4. run[r] \in S!Run /\ checkpoint \subseteq S!Ids /\ messages \subseteq S!Row
  BY DEF StreamInv, S!TypeOK
<1>5. ASSUME NEW kind \in {"chat", "resume"}, asked' \in BOOLEAN, UNCHANGED streamFaults,
             run' = [run EXCEPT ![r].at = "streaming", ![r].status = "running",
                                ![r].kind = kind, ![r].state = checkpoint],
             UNCHANGED <<produced, checkpoint, messages, results>>
      PROVE  StreamInv'
  <2> DEFINE v == [run[r] EXCEPT !.at = "streaming", !.status = "running",
                                 !.kind = kind, !.state = checkpoint]
  <2>1. v \in S!Run /\ v.at = "streaming" /\ v.status = "running" /\ v.state = checkpoint
    BY <1>4 DEF S!Run, S!Stage
  <2>2. run' = [run EXCEPT ![r] = v]
    BY <1>5
  <2>3. OwnMessages(r)' = {}
    BY <1>3, <1>5 DEF OwnMessages
  <2>4. run'[r] = v => RunIsTrue(r)'
    BY <1>5, <2>1, <2>3 DEF RunIsTrue
  <2>5. streamFaults' \in 0..MaxStreamFaults
    BY <1>5 DEF StreamInv, S!TypeOK
  <2> HIDE DEF v
  <2> QED
    BY <1>1, <1>2, <1>4, <1>5, <2>1, <2>2, <2>4, <2>5, TablesAside
<1>6. CASE /\ run' = [run EXCEPT ![r].at = "streaming", ![r].status = "running",
                                 ![r].state = checkpoint]
           /\ asked' = FALSE
           /\ UNCHANGED streamFaults
  <2>1. run' = [run EXCEPT ![r].at = "streaming", ![r].status = "running",
                           ![r].kind = run[r].kind, ![r].state = checkpoint]
    BY <1>4, <1>6 DEF S!Run
  <2>2. run[r].kind \in {"chat", "resume"}
    BY <1>4 DEF S!Run
  <2>3. UNCHANGED <<produced, checkpoint, messages, results>>
    BY DEF S!Start
  <2> QED
    BY <1>5, <1>6, <2>1, <2>2, <2>3
<1>7. CASE /\ run' = [run EXCEPT ![r].at = "streaming", ![r].status = "running",
                                 ![r].kind = "resume", ![r].state = checkpoint]
           /\ UNCHANGED <<asked, streamFaults>>
  <2>1. asked' \in BOOLEAN
    BY <1>7 DEF StreamInv, S!TypeOK
  <2>2. UNCHANGED <<produced, checkpoint, messages, results>>
    BY DEF S!Start
  <2> QED
    BY <1>5, <1>7, <2>1, <2>2
<1>8. CASE S!Fault("missing") /\ S!Yield(r, "error") /\ UNCHANGED asked
  <2>1. streamFaults' \in 0..MaxStreamFaults
    BY <1>8, FaultIsCounted DEF StreamInv
  <2>2. S!End(r, "error", "failed") /\ "error" \in S!Chunk
    BY <1>8 DEF S!Yield, S!StatusOf, S!Chunk
  <2>3. UNCHANGED <<produced, checkpoint, asked, messages, results>>
    BY <1>8 DEF S!Start
  <2> QED
    BY <1>1, <1>2, <2>1, <2>2, <2>3, RunEnding
<1> QED
  BY <1>6, <1>7, <1>8 DEF S!Start

\* A run that streams or saves is active, and the only one.
LEMMA ActiveIsAlone ==
  ASSUME StreamInv, NEW r \in ThreadRuns, run[r].at \notin {"idle", "over"}
  PROVE  /\ r \in S!Active
         /\ \A s \in ThreadRuns \ {r} : s \notin S!Active
         /\ run[r].state = checkpoint /\ OwnMessages(r) \subseteq checkpoint
         /\ run[r].status # "completed"
         /\ run[r] \in S!Run
<1>1. r \in S!Active
  BY DEF S!Active
<1> QED
  BY <1>1, ActiveAlone DEF StreamInv, RunIsTrue, S!TypeOK

\* A run resumes with the checkpoint.
LEMMA ResumeRunKeeps ==
  ASSUME StreamParameters, StreamInv, NEW r \in ThreadRuns, S!Resume(r)
  PROVE  StreamInv'
<1>1. S!End(r, "error", "failed") /\ "error" \in S!Chunk
  BY DEF S!Resume, S!Yield, S!StatusOf, S!Chunk
<1>2. run[r].at = "streaming"
  BY DEF S!Resume
<1>3. streamFaults' \in 0..MaxStreamFaults
  BY DEF S!Resume, StreamInv, S!TypeOK
<1> QED
  BY <1>1, <1>2, <1>3, ActiveIsAlone, RunEnding DEF S!Resume

\* A run that is cancelled saves nothing more.
LEMMA CancelRunKeeps ==
  ASSUME StreamParameters, StreamInv, NEW r \in ThreadRuns, S!Cancel(r)
  PROVE  StreamInv'
<1>1. "none" \in S!Chunk /\ run[r].at \notin {"idle", "over"}
  BY DEF S!Cancel, S!Active, S!Chunk
<1>2. streamFaults' \in 0..MaxStreamFaults
  BY FaultIsCounted DEF S!Cancel, StreamInv
<1> QED
  BY <1>1, <1>2, ActiveIsAlone, RunEnding DEF S!Cancel

\* A run whose second save fails has saved everything with the first.
LEMMA FailRunLateKeeps ==
  ASSUME StreamParameters, StreamInv, NEW r \in ThreadRuns, S!FailLate(r)
  PROVE  StreamInv'
<1>1. S!End(r, "error", "failed") /\ "error" \in S!Chunk
  BY DEF S!FailLate, S!Yield, S!StatusOf, S!Chunk
<1>2. run[r].at \in {"saving again", "closing"}
  BY DEF S!FailLate
<1>3. streamFaults' \in 0..MaxStreamFaults
  BY FaultIsCounted DEF S!FailLate, S!SaveFails, StreamInv
<1> QED
  BY <1>1, <1>2, <1>3, ActiveIsAlone, RunEnding DEF S!FailLate

\* A run that fails saves its text, which is no message of the graph.
LEMMA FailRunKeeps ==
  ASSUME StreamParameters, StreamInv, NEW r \in ThreadRuns, S!Fail(r)
  PROVE  StreamInv'
<1>1. run[r].at \in {"streaming", "saving", "committing"}
  BY DEF S!Fail, S!Streaming
<1>2. streamFaults' \in 0..MaxStreamFaults
  BY FaultIsCounted DEF S!Fail, S!SaveFails, StreamInv
<1>3. UNCHANGED <<produced, checkpoint, asked, results>>
  BY DEF S!Fail
<1> DEFINE text == [of |-> 0, run |-> r, save |-> "failure"]
<1>4. CASE /\ messages' = messages \cup {text}
           /\ run' = [run EXCEPT ![r].at = "over", ![r].chunk = "error",
                                 ![r].status = S!StatusOf("error"), ![r].rows = {},
                                 ![r].done = {}, ![r].output = {text}]
  <2> DEFINE v == [run[r] EXCEPT !.at = "over", !.chunk = "error", !.status = "failed",
                                 !.rows = {}, !.done = {}, !.output = {text}]
  <2>1. run' = [run EXCEPT ![r] = v]
    BY <1>4 DEF S!StatusOf
  <2>2. text \in S!Row /\ text.of = 0
    BY DEF S!Row, StreamParameters
  <2> HIDE DEF text
  <2>3. v \in S!Run /\ v.at = "over" /\ v.status # "completed"
    BY <1>1, <2>2, ActiveIsAlone DEF S!Run, S!Stage, S!Chunk
  <2>4. run'[r] = v => RunIsTrue(r)'
    BY <2>3 DEF RunIsTrue, S!Active
  <2>5. /\ asked' \in BOOLEAN /\ messages' \subseteq S!Row
        /\ \A x \in messages' : x \in messages \/ x.of = 0
    BY <1>3, <1>4, <2>2 DEF StreamInv, S!TypeOK
  <2> HIDE DEF v
  <2> QED
    BY <1>1, <1>2, <1>3, <1>4, <2>1, <2>3, <2>4, <2>5, ActiveIsAlone, TablesAside
<1>5. CASE S!Yield(r, "error") /\ UNCHANGED messages
  <2>1. S!End(r, "error", "failed") /\ "error" \in S!Chunk
    BY <1>5 DEF S!Yield, S!StatusOf, S!Chunk
  <2> QED
    BY <1>1, <1>2, <1>3, <1>5, <2>1, ActiveIsAlone, RunEnding
<1> QED
  BY <1>4, <1>5 DEF S!Fail

\* A run whose graph is over goes on to save, or ends interrupted.
LEMMA FinishRunKeeps ==
  ASSUME StreamParameters, StreamInv, NEW r \in ThreadRuns, S!Finish(r)
  PROVE  StreamInv'
<1>1. run[r].at = "streaming"
  BY DEF S!Finish, S!Streaming
<1>2. /\ run[r] \in S!Run /\ run[r].state = checkpoint /\ OwnMessages(r) \subseteq checkpoint
      /\ run[r].status # "completed" /\ \A s \in ThreadRuns \ {r} : s \notin S!Active
  BY <1>1, ActiveIsAlone
<1>3. /\ UNCHANGED <<produced, checkpoint, messages, results, streamFaults>>
      /\ S!Goto(r, "saving")
  BY DEF S!Finish
<1>4. S!LastIs(r, "ai") \/ S!LastIs(r, "call")
  BY DEF S!Finish
<1>5. EndsWithAnswer(r)
  BY <1>2, <1>4 DEF S!LastIs, EndsWithAnswer
<1> DEFINE v == [run[r] EXCEPT !.at = "saving"]
<1>6. /\ v \in S!Run /\ v.at = "saving" /\ v.status # "completed" /\ v.state = checkpoint
      /\ run' = [run EXCEPT ![r] = v]
  BY <1>2, <1>3 DEF S!Run, S!Stage, S!Goto
<1>7. EndsWithAnswer(r)' /\ OwnMessages(r)' = OwnMessages(r)
  BY <1>3, <1>5 DEF EndsWithAnswer, S!Newest, OwnMessages
<1>8. run'[r] = v => RunIsTrue(r)'
  BY <1>2, <1>3, <1>6, <1>7 DEF RunIsTrue
<1>9. asked' \in BOOLEAN
  BY DEF S!Finish, StreamInv, S!TypeOK
<1>10. streamFaults' \in 0..MaxStreamFaults /\ messages' \subseteq S!Row /\ messages' = messages
  BY <1>3 DEF StreamInv, S!TypeOK
<1> HIDE DEF v
<1> QED
  BY <1>1, <1>2, <1>3, <1>6, <1>8, <1>9, <1>10, TablesAside

\* The second save begins when the graph asks for nothing.
LEMMA CheckInterruptKeeps ==
  ASSUME StreamParameters, StreamInv, NEW r \in ThreadRuns, S!CheckInterrupt(r)
  PROVE  StreamInv'
<1>1. run[r].at = "checking"
  BY DEF S!CheckInterrupt
<1>2. /\ run[r] \in S!Run /\ run[r].state = checkpoint /\ OwnMessages(r) \subseteq checkpoint
      /\ run[r].status # "completed" /\ \A s \in ThreadRuns \ {r} : s \notin S!Active
  BY <1>1, ActiveIsAlone
<1>3. UNCHANGED <<produced, checkpoint, asked, messages, results, streamFaults>>
  BY DEF S!CheckInterrupt
<1>4. /\ asked' \in BOOLEAN /\ streamFaults' \in 0..MaxStreamFaults /\ messages' \subseteq S!Row
      /\ messages' = messages
  BY <1>3 DEF StreamInv, S!TypeOK
<1>5. CASE S!Yield(r, "ask_human")
  <2>1. S!End(r, "ask_human", "failed") /\ "ask_human" \in S!Chunk
    BY <1>5 DEF S!Yield, S!StatusOf, S!Chunk
  <2> QED
    BY <1>1, <1>2, <1>3, <1>4, <2>1, RunEnding
<1>6. CASE S!Goto(r, "saving again")
  <2> DEFINE v == [run[r] EXCEPT !.at = "saving again"]
  <2>1. /\ v \in S!Run /\ v.at = "saving again" /\ v.status # "completed" /\ v.state = checkpoint
        /\ v.output = run[r].output /\ run' = [run EXCEPT ![r] = v]
    BY <1>2, <1>6 DEF S!Run, S!Stage, S!Goto
  <2> HIDE DEF v
  <2>2. EndsWithAnswer(r) /\ IsSaved(r)
    BY <1>1 DEF StreamInv, RunIsTrue
  <2>3. run'[r] = v => IsSaved(r)'
    BY <1>3, <2>1, <2>2 DEF IsSaved, S!Answers, S!RowsOf
  <2>4. EndsWithAnswer(r)' /\ OwnMessages(r)' = OwnMessages(r)
    BY <1>3, <2>2 DEF EndsWithAnswer, S!Newest, OwnMessages
  <2>5. run'[r] = v => RunIsTrue(r)'
    BY <1>2, <1>3, <2>1, <2>3, <2>4 DEF RunIsTrue
  <2> QED
    BY <1>1, <1>2, <1>3, <1>4, <2>1, <2>5, TablesAside
<1> QED
  BY <1>5, <1>6 DEF S!CheckInterrupt

\* What a save adds is what the tables lack.
LEMMA AddMessagesKeeps ==
  ASSUME StreamParameters, StreamInv, NEW r \in ThreadRuns, S!AddMessages(r)
  PROVE  StreamInv'
<1> DEFINE new == {m \in S!Assistant : S!RowsOf(m) = {}}
<1> DEFINE done == S!InCheckpoint({"tool"})
<1> DEFINE next == IF run[r].at = "saving" THEN "committing" ELSE "closing"
<1>1. run[r].at \in {"saving", "saving again"} /\ S!Add(r, new)
  BY DEF S!AddMessages, S!Saving
<1>2. /\ run[r] \in S!Run /\ run[r].state = checkpoint /\ OwnMessages(r) \subseteq checkpoint
      /\ run[r].status # "completed" /\ \A s \in ThreadRuns \ {r} : s \notin S!Active
  BY <1>1, ActiveIsAlone
<1>3. UNCHANGED <<produced, checkpoint, asked, messages, results, streamFaults>>
  BY <1>1 DEF S!Add
<1>4. /\ asked' \in BOOLEAN /\ streamFaults' \in 0..MaxStreamFaults /\ messages' \subseteq S!Row
      /\ messages' = messages
  BY <1>3 DEF StreamInv, S!TypeOK
<1>5. new \subseteq S!Ids /\ done \subseteq S!Ids
  BY DEF S!Assistant, S!InCheckpoint, StreamInv, S!TypeOK
<1>6. new' = new /\ done' = done
  BY <1>3 DEF S!Assistant, S!InCheckpoint, S!RowsOf
<1>7. run' = [run EXCEPT ![r].rows = new, ![r].done = done, ![r].at = next]
  BY <1>1, <1>2 DEF S!Add
<1> DEFINE v == [run[r] EXCEPT !.rows = new, !.done = done, !.at = next]
<1> HIDE DEF new, done
<1>8. /\ v \in S!Run /\ v.at = next /\ v.status # "completed" /\ v.state = checkpoint
      /\ v.output = run[r].output /\ v.rows = new /\ v.done = done
      /\ run' = [run EXCEPT ![r] = v]
  BY <1>2, <1>5, <1>7 DEF S!Run, S!Stage
<1> HIDE DEF v
<1>9. EndsWithAnswer(r) /\ (next = "closing" => IsSaved(r))
  BY <1>1 DEF StreamInv, RunIsTrue
<1>10. run'[r] = v /\ next = "closing" => IsSaved(r)'
  BY <1>3, <1>8, <1>9 DEF IsSaved, S!Answers, S!RowsOf
<1>11. EndsWithAnswer(r)' /\ OwnMessages(r)' = OwnMessages(r)
  BY <1>3, <1>9 DEF EndsWithAnswer, S!Newest, OwnMessages
<1>12. next \in {"committing", "closing"}
  OBVIOUS
<1> HIDE DEF next
<1>13. run'[r] = v => RunIsTrue(r)'
  BY <1>2, <1>3, <1>6, <1>8, <1>10, <1>11, <1>12 DEF RunIsTrue, new, done
<1> QED
  BY <1>1, <1>2, <1>3, <1>4, <1>8, <1>13, TablesAside

\* What the graph produces is the end of the checkpoint.
LEMMA ProduceKeeps ==
  ASSUME StreamParameters, StreamInv, NEW r \in ThreadRuns, S!Produce(r)
  PROVE  StreamInv'
<1> DEFINE n == Len(produced) + 1
<1>1. run[r].at = "streaming"
  BY DEF S!Produce, S!Streaming
<1>2. /\ run[r] \in S!Run /\ run[r].state = checkpoint /\ OwnMessages(r) \subseteq checkpoint
      /\ run[r].status # "completed" /\ \A s \in ThreadRuns \ {r} : s \notin S!Active
  BY <1>1, ActiveIsAlone
<1>3. UNCHANGED <<asked, messages, results, streamFaults>>
  BY DEF S!Produce
<1>4. PICK type \in {"ai", "call", "tool"} :
        /\ produced' = Append(produced, [run |-> r, type |-> type])
        /\ run' = [run EXCEPT ![r].state = @ \cup {n}]
        /\ checkpoint' = run'[r].state
  BY DEF S!Produce
<1>5. Len(produced) < MaxMessages
  BY DEF S!Produce
<1>6. LongerList(r)
  BY <1>4 DEF LongerList
<1>7. produced \in Seq(S!Produced) /\ S!TypeOK
  BY DEF StreamInv, S!TypeOK
<1>8. n \in S!Ids
  BY <1>5, <1>7, MessageNumbers DEF S!Ids, StreamParameters
<1>9. DOMAIN produced' = DOMAIN produced \cup {n} /\ Len(produced') = n
  <2>1. [run |-> r, type |-> type] \in S!Produced
    BY DEF S!Produced
  <2>2. DOMAIN produced' = 1..n /\ Len(produced') = n
    BY <1>4, <1>7, <2>1
  <2> QED
    BY <1>7, <2>2, MessageNumbers
<1> HIDE DEF n
<1> DEFINE v == [run[r] EXCEPT !.state = checkpoint \cup {n}]
<1>10. run' = [run EXCEPT ![r] = v]
  BY <1>2, <1>4
<1>11. checkpoint \subseteq S!Ids
  BY DEF StreamInv, S!TypeOK
<1>12. /\ v \in S!Run /\ v.at = "streaming" /\ v.status # "completed"
       /\ v.state = checkpoint \cup {n}
  BY <1>1, <1>2, <1>8, <1>11 DEF S!Run
<1> HIDE DEF v
<1>13. OnlyRun(r) /\ run'[r] = v
  BY <1>2, <1>7, <1>10, <1>12, OnlyThis
<1>14. checkpoint' = checkpoint \cup {n}
  BY <1>4, <1>12, <1>13
<1>15. S!TypeOK'
  <2>1. produced' \in Seq(S!Produced)
    BY <1>6, <1>7, LongerListFacts
  <2>2. Len(produced') <= MaxMessages
    BY <1>5, <1>7, <1>9, MessageNumbers DEF n, StreamParameters
  <2>3. asked' \in BOOLEAN /\ streamFaults' \in 0..MaxStreamFaults /\ messages' \subseteq S!Row /\ results' \subseteq S!Ids
    BY <1>3, <1>7 DEF S!TypeOK
  <2>4. checkpoint' \subseteq S!Ids /\ run' \in [ThreadRuns -> S!Run]
    BY <1>8, <1>11, <1>13, <1>14 DEF OnlyRun
  <2> QED
    BY <2>1, <2>2, <2>3, <2>4 DEF S!TypeOK
<1>16. CheckpointProduced'
  BY <1>9, <1>14 DEF StreamInv, CheckpointProduced
<1>17. TableIsTrue'
  BY <1>1, <1>3, <1>6, <1>13, TableStays
<1>18. OwnMessages(r)' \subseteq checkpoint'
  BY <1>2, <1>6, <1>7, <1>9, <1>14, LongerListFacts DEF OwnMessages
<1>19. RunIsTrue(r)'
  BY <1>12, <1>13, <1>14, <1>18 DEF RunIsTrue
<1> QED
  BY <1>3, <1>6, <1>13, <1>15, <1>16, <1>17, <1>19, StreamTogether

\* A commit leaves each message of the checkpoint with its row, and names the one
\* of the answer that the checkpoint ends with.
LEMMA CommitKeeps ==
  ASSUME StreamParameters, StreamInv, NEW r \in ThreadRuns, S!CommitMessages(r)
  PROVE  StreamInv'
<1> DEFINE first == run[r].at = "committing"
<1> DEFINE save == IF first THEN "first" ELSE "second"
<1> DEFINE new == S!RowsToAdd(r)
<1> DEFINE output == S!OutputOf(r, messages')
<1>1. run[r].at \in {"committing", "closing"} /\ S!TypeOK
  BY DEF S!CommitMessages, StreamInv
<1>2. /\ run[r] \in S!Run /\ run[r].state = checkpoint /\ OwnMessages(r) \subseteq checkpoint
      /\ run[r].status # "completed" /\ \A s \in ThreadRuns \ {r} : s \notin S!Active
  BY <1>1, ActiveIsAlone
<1>3. /\ run[r].rows = {m \in S!Assistant : S!RowsOf(m) = {}}
      /\ run[r].done = S!InCheckpoint({"tool"}) /\ EndsWithAnswer(r)
  BY <1>1 DEF StreamInv, RunIsTrue
<1>4. /\ messages' = messages \cup new /\ results' = results \cup run[r].done
      /\ UNCHANGED <<produced, checkpoint, asked, streamFaults>>
  BY DEF S!CommitMessages, S!Commit
<1>5. run[r].rows \subseteq S!Ids /\ run[r].done \subseteq S!Ids
  BY <1>2 DEF S!Run
<1>6. new = {[of |-> m, run |-> r, save |-> save] : m \in run[r].rows}
  BY DEF S!RowsToAdd
<1>7. \A x \in new : x \in S!Row /\ x.run = r /\ x.of \in run[r].rows
  <2> SUFFICES ASSUME NEW m \in run[r].rows
               PROVE  [of |-> m, run |-> r, save |-> save] \in S!Row
    BY <1>6
  <2>1. m \in 0..MaxMessages /\ save \in {"first", "second", "failure"}
    BY <1>5 DEF S!Ids, StreamParameters
  <2> QED
    BY <2>1 DEF S!Row
<1>8. \A m \in run[r].rows : \E x \in new : x.of = m
  <2> SUFFICES ASSUME NEW m \in run[r].rows PROVE \E x \in new : x.of = m
    OBVIOUS
  <2> DEFINE row == [of |-> m, run |-> r, save |-> save]
  <2>1. row \in new /\ row.of = m
    BY <1>6
  <2> QED
    BY <2>1
<1>9. \A x, y \in new : x.of = y.of => x = y
  BY <1>6
<1> HIDE DEF new, save
<1>10. \A m \in S!Assistant : m \in checkpoint /\ m \in DOMAIN produced /\ m \in Nat \ {0}
  BY <1>1, MessageNumbers DEF S!Assistant, S!InCheckpoint, StreamInv, CheckpointProduced
<1>11. \A m \in S!Assistant : \E x \in messages' : x.of = m
  BY <1>3, <1>4, <1>8 DEF S!RowsOf
<1>12. messages' \subseteq S!Row /\ output \subseteq messages' \cup run[r].output
  BY <1>1, <1>4, <1>7 DEF S!TypeOK, S!OutputOf
<1>13. PICK last \in S!Newest(checkpoint) : produced[last].run = r /\ produced[last].type # "tool"
  BY <1>3 DEF EndsWithAnswer
<1>14. last \in S!Assistant /\ \A m \in checkpoint : m <= last
  <2>1. last \in checkpoint /\ \A m \in checkpoint : m <= last
    BY <1>13 DEF S!Newest
  <2>2. produced[last].type \in {"ai", "call", "tool"}
    BY <1>1, <2>1, MessageNumbers DEF StreamInv, CheckpointProduced, S!Produced
  <2> QED
    BY <1>13, <2>1, <2>2 DEF S!Assistant, S!InCheckpoint
<1>15. PICK x \in messages' : x.of = last
  BY <1>11, <1>14
<1>16. x.run = r
  <2>1. CASE x \in new
    BY <1>7, <2>1
  <2>2. CASE x \in messages
    BY <1>1, <1>10, <1>13, <1>14, <1>15, <2>2 DEF StreamInv, TableIsTrue
  <2> QED
    BY <1>4, <2>1, <2>2
<1> DEFINE own == {y \in messages' : y.run = r /\ y.of \in S!Assistant}
<1>17. x \in own /\ \A y \in own : y.of <= x.of
  BY <1>10, <1>14, <1>15, <1>16
<1>18. output = {z \in own : \A y \in own : y.of <= z.of}
  BY <1>17 DEF S!OutputOf
<1>19. x \in output /\ output \subseteq messages'
  BY <1>17, <1>18
<1> HIDE DEF output, own
<1> DEFINE v == [run[r] EXCEPT !.at = IF first THEN "checking" ELSE "over",
                               !.chunk = IF first THEN @ ELSE "finished",
                               !.status = IF first THEN @ ELSE "completed",
                               !.output = output, !.rows = {}, !.done = {}]
<1>20. run' = [run EXCEPT ![r] = v]
  BY <1>2 DEF S!CommitMessages, S!Commit, S!StatusOf, output
<1>21. /\ v \in S!Run /\ v.output = output /\ v.state = checkpoint
       /\ v.at \in {"checking", "over"} /\ (v.status = "completed" => v.at = "over")
  <2>1. output \subseteq S!Row
    BY <1>12, <1>19
  <2> QED
    BY <1>1, <1>2, <2>1 DEF S!Run, S!Stage, S!Chunk
<1> HIDE DEF v, first
<1>22. OnlyRun(r) /\ run'[r] = v
  BY <1>1, <1>2, <1>20, <1>21, OnlyThis
<1>23. LongerList(r)
  BY <1>4 DEF LongerList
<1>24. S!TypeOK'
  <2>1. results' \subseteq S!Ids
    BY <1>1, <1>4, <1>5 DEF S!TypeOK
  <2> QED
    BY <1>1, <1>4, <1>12, <1>22, <2>1 DEF S!TypeOK, OnlyRun
<1>25. CheckpointProduced'
  BY <1>4 DEF StreamInv, CheckpointProduced
<1>26. TableIsTrue'
  <2>1. \A y \in new : y.of \in S!Assistant /\ S!RowsOf(y.of) = {} /\ y.run = r
    BY <1>3, <1>7
  <2>2. ASSUME NEW y \in messages', y.of # 0
        PROVE  /\ y.of \in DOMAIN produced
               /\ run'[produced[y.of].run].at # "over" => y.run = produced[y.of].run
    <3>1. y.of \in DOMAIN produced
      BY <1>4, <1>10, <2>1, <2>2 DEF StreamInv, TableIsTrue
    <3>2. produced[y.of].run \in ThreadRuns
      BY <1>1, <3>1, MessageNumbers
    <3>3. CASE produced[y.of].run = r
      <4>1. CASE y \in new
        BY <2>1, <3>1, <3>3, <4>1
      <4>2. CASE y \in messages
        BY <1>1, <2>2, <3>1, <3>3, <4>2 DEF StreamInv, TableIsTrue
      <4> QED
        BY <1>4, <4>1, <4>2
    <3>4. CASE produced[y.of].run # r
      <4> DEFINE s == produced[y.of].run
      <4>1. run'[s] = run[s] /\ s \notin S!Active
        BY <1>22, <3>2, <3>4 DEF OnlyRun
      <4>2. run[s].at # "idle"
        BY <3>1, <3>2 DEF StreamInv, RunIsTrue, OwnMessages
      <4> QED
        BY <3>1, <3>2, <4>1, <4>2 DEF S!Active
    <3> QED
      BY <3>1, <3>3, <3>4
  <2>3. ASSUME NEW y \in messages', NEW z \in messages', y.of # 0, y.of = z.of
        PROVE  y = z
    BY <1>4, <1>9, <2>1, <2>3 DEF S!RowsOf, StreamInv, TableIsTrue
  <2> QED
    BY <1>4, <2>2, <2>3 DEF TableIsTrue
<1>27. IsSaved(r)'
  <2>1. OwnMessages(r)' = OwnMessages(r) /\ S!Answers(r)' = S!Answers(r)
    BY <1>4 DEF OwnMessages, S!Answers
  <2>2. \A m \in S!Answers(r) : m \in S!Assistant
    BY <1>1, <1>2, MessageNumbers DEF S!Answers, OwnMessages, S!Assistant, S!InCheckpoint, S!Produced
  <2>3. \A m \in S!Answers(r)' : (S!RowsOf(m) # {})'
    BY <1>11, <2>1, <2>2 DEF S!RowsOf
  <2>4. \A m \in OwnMessages(r) : produced[m].type = "tool" => m \in results'
    BY <1>2, <1>3, <1>4 DEF S!InCheckpoint
  <2>5. x.run = r /\ \A m \in S!Answers(r)' : m <= x.of
    BY <1>10, <1>14, <1>15, <1>16, <2>1, <2>2
  <2> QED
    BY <1>4, <1>19, <1>21, <1>22, <2>3, <2>4, <2>5 DEF IsSaved, OwnMessages
<1>28. EndsWithAnswer(r)' /\ OwnMessages(r)' \subseteq checkpoint'
  BY <1>2, <1>3, <1>4 DEF EndsWithAnswer, S!Newest, OwnMessages
<1>29. RunIsTrue(r)'
  BY <1>4, <1>21, <1>22, <1>27, <1>28 DEF RunIsTrue
<1> QED
  BY <1>4, <1>22, <1>23, <1>24, <1>25, <1>26, <1>29, StreamTogether

\* A step of nobody changes nothing.
LEMMA StreamStutters ==
  ASSUME StreamInv, UNCHANGED S!vars PROVE StreamInv'
<1>1. /\ produced' = produced /\ checkpoint' = checkpoint /\ asked' = asked
      /\ messages' = messages /\ results' = results /\ run' = run /\ streamFaults' = streamFaults
  BY DEF S!vars
<1>2. S!TypeOK' /\ OneAtATime' /\ CheckpointProduced' /\ TableIsTrue'
  BY <1>1 DEF StreamInv, S!TypeOK, OneAtATime, S!Active, CheckpointProduced, TableIsTrue
<1>3. ASSUME NEW r \in ThreadRuns PROVE RunIsTrue(r)'
  <2>1. RunIsTrue(r)
    BY DEF StreamInv
  <2> QED
    BY ZenonT(40), <1>1, <2>1 DEF RunIsTrue, IsSaved, EndsWithAnswer, OwnMessages, S!Answers, S!RowsOf, S!Active,
       S!Newest, S!Assistant, S!InCheckpoint
<1> QED
  BY <1>2, <1>3 DEF StreamInv

\* Every step keeps it.
LEMMA StreamStep == StreamParameters /\ StreamInv /\ [S!Next]_S!vars => StreamInv'
<1> SUFFICES ASSUME StreamParameters, StreamInv, [S!Next]_S!vars PROVE StreamInv'
  OBVIOUS
<1>1. CASE UNCHANGED S!vars
  BY <1>1, StreamStutters
<1>2. ASSUME NEW r \in ThreadRuns,
             \/ S!Start(r) \/ S!Resume(r) \/ S!Produce(r) \/ S!Finish(r)
             \/ S!AddMessages(r) \/ S!CommitMessages(r) \/ S!CheckInterrupt(r)
             \/ S!Fail(r) \/ S!FailLate(r) \/ S!Cancel(r)
      PROVE  StreamInv'
  BY <1>2, StartRunKeeps, ResumeRunKeeps, ProduceKeeps, FinishRunKeeps, AddMessagesKeeps,
     CommitKeeps, CheckInterruptKeeps, FailRunKeeps, FailRunLateKeeps, CancelRunKeeps
<1> QED
  BY <1>1, <1>2 DEF S!Next

\* It says more than the properties.
LEMMA StreamImplies == StreamInv => S!SavedOnce /\ S!CompletedIsSaved
<1> SUFFICES ASSUME StreamInv PROVE S!SavedOnce /\ S!CompletedIsSaved
  OBVIOUS
<1>1. ASSUME NEW m \in S!Ids, m # 0 PROVE Cardinality(S!RowsOf(m)) <= 1
  <2>1. \A x, y \in S!RowsOf(m) : x = y
    BY <1>1 DEF S!RowsOf, StreamInv, TableIsTrue
  <2>2. CASE S!RowsOf(m) = {}
    BY <2>2, FS_EmptySet
  <2>3. ASSUME NEW x \in S!RowsOf(m) PROVE Cardinality(S!RowsOf(m)) <= 1
    <3>1. S!RowsOf(m) = {x}
      BY <2>1, <2>3
    <3>2. Cardinality({x}) = 1
      BY FS_Singleton
    <3> QED
      BY <3>1, <3>2
  <2> QED
    BY <2>2, <2>3
<1>2. S!SavedOnce
  BY <1>1, CountsAlike DEF S!SavedOnce, S!Ids
<1>3. S!CompletedIsSaved
  BY DEF S!CompletedIsSaved, StreamInv, RunIsTrue, IsSaved
<1> QED
  BY <1>2, <1>3

\* The parameters of the component are what its invariant asks for.
LEMMA StreamBounds == StreamParameters
BY OneRunAtATime, BoundsAreNumbers DEF StreamParameters

\* However often the runs of a thread read and save its checkpoint, no message of
\* it has a second row (message_persistence_service.py: save_ai_message), and a
\* completed run has its messages and tool results in the tables, and names the
\* row of its last answer (save_message_from_langgraph_state).
THEOREM MessagesAreSaved == S!Spec => []S!SavedOnce /\ []S!CompletedIsSaved
<1>1. S!Init => StreamInv
  BY StreamBounds, StreamStart
<1>2. StreamInv /\ [S!Next]_S!vars => StreamInv'
  BY StreamBounds, StreamStep
<1>3. StreamInv => S!SavedOnce /\ S!CompletedIsSaved
  BY StreamImplies
<1> QED
  BY <1>1, <1>2, <1>3, PTL DEF S!Spec

-----------------------------------------------------------------------------
(* The reading of pictures.  A provider is made under its lock; a call goes on *)
(* to the next provider only when the one before has failed or cannot read    *)
(* the file; and it gives a task up only at its deadline.                    *)

\* What the component asks of its parameters.
PictureParameters ==
  /\ "nobody" \notin Clients
  /\ PollInterval \in Nat /\ PollTimeout \in Nat /\ MaxPollClock \in Nat /\ MaxServiceFaults \in Nat

\* The names of the providers.
Three == {"rapidocr", "paddleocr", "unlimitedocr"}

\* The providers and their order.
LEMMA ThreeProviders ==
  /\ DOMAIN E!Order = {1, 2, 3} /\ E!Len(E!Order) = 3
  /\ E!Order[1] = "rapidocr" /\ E!Order[2] = "paddleocr" /\ E!Order[3] = "unlimitedocr"
  /\ E!Providers = Three
BY DEF E!Order, E!Providers, Three

\* A call at one of these asks a provider that supports its file.
Working == {"reading", "probing", "posting", "token", "submitting", "polling", "sleeping", "fetching"}

\* At one of these it asks Unlimited-OCR.
AtService == {"token", "submitting", "polling", "sleeping", "fetching"}

\* Those it has passed have failed, unless they do not support the file.
HasPassed(r, n) ==
  \A i \in DOMAIN E!Order : i < n /\ E!Order[i] \in r.support => E!Order[i] \in r.failures

\* What is true of a call whatever the others do.
CallIsTrue(r) ==
  /\ r \in E!Call
  /\ r.chosen = E!Any => HasPassed(r, r.turn)
  /\ r.chosen # E!Any => E!Asked(r) = r.chosen
  /\ r.at \in Working => E!Asked(r) \in r.support
  /\ r.at \in AtService => E!Asked(r) = "unlimitedocr"
  /\ r.late => r.at = "over"
  /\ r.answer # "none" => r.at = "over"
  /\ r.answer = "text" => E!Asked(r) \in r.support
  /\ r.chosen = E!Any /\ r.answer = "failed" => r.support \subseteq r.failures
  /\ r.answer = "unsupported" =>
       r.support \cap (IF r.chosen = E!Any THEN E!Providers ELSE {r.chosen}) = {}

\* A call is polling only when there is a task, and gives up only when the deadline
\* is over and the task is not done, or was done after it.
TaskIsTrue(c) ==
  /\ textCall[c].at \in {"polling", "sleeping"} => textTask[c].state # "none"
  /\ textCall[c].late => textClock >= textCall[c].deadline
  /\ textCall[c].late => textTask[c].state = "running" \/ textTask[c].ended >= textCall[c].deadline

\* A provider is made under its lock, by a call that waits for it.
LocksAreTrue ==
  /\ made \in [Three -> Nat]
  /\ providerLock \in [Three -> Clients \cup {"nobody"}]
  /\ \A p \in Three : made[p] <= 1
  /\ \A p \in Three : providerLock[p] # "nobody" =>
       /\ made[p] = 0
       /\ textCall[providerLock[p]].at = "making" /\ E!Asked(textCall[providerLock[p]]) = p
  /\ \A c \in Clients : textCall[c].at = "making" => providerLock[E!Asked(textCall[c])] = c

\* Every call is true, and every task.
CallsAreTrue ==
  /\ textCall \in [Clients -> E!Call]
  /\ \A c \in Clients : CallIsTrue(textCall[c])

TasksAreTrue ==
  /\ textTask \in [Clients -> [state : {"none", "running", "success", "failed"}, ended : Nat]]
  /\ textClock \in Nat
  /\ \A c \in Clients : TaskIsTrue(c)

\* The inductive invariant.
PictureInv == CallsAreTrue /\ LocksAreTrue /\ TasksAreTrue

\* What the call has becomes of one and the same task and deadline.
SameTask(r, q) == q.deadline = r.deadline /\ q.late = r.late /\ q.at \notin {"making", "polling", "sleeping"}

\* A call asks one of the three.
LEMMA AskedIsOne ==
  ASSUME NEW r \in E!Call
  PROVE  E!Asked(r) \in Three
BY ThreeProviders DEF E!Asked, E!Call, Three

\* An answer the call may give leaves it true (ocr_service.py: what a provider returns
\* or raises).
LEMMA AnsweredTrue ==
  ASSUME NEW r, CallIsTrue(r), NEW answer \in {"text", "failed", "unsupported", "aborted"},
         answer = "text" => r.at \in Working,
         answer = "failed" => r.chosen # E!Any,
         answer = "unsupported" => r.chosen # E!Any /\ E!Asked(r) \notin r.support
  PROVE  CallIsTrue(E!Answered(r, answer)) /\ SameTask(r, E!Answered(r, answer))
<1> DEFINE q == E!Answered(r, answer)
<1>1. /\ q \in E!Call /\ q.at = "over" /\ q.answer = answer /\ q.chosen = r.chosen
      /\ q.support = r.support /\ q.turn = r.turn /\ q.failures = r.failures
      /\ q.deadline = r.deadline /\ q.late = r.late
  BY DEF E!Answered, CallIsTrue, E!Call, E!Stage
<1>2. E!Asked(q) = E!Asked(r)
  BY <1>1 DEF E!Asked
<1> HIDE DEF q
<1>3. CallIsTrue(q) /\ SameTask(r, q)
  BY <1>1, <1>2 DEF CallIsTrue, SameTask, HasPassed, Working, AtService
<1> QED
  BY <1>3 DEF q

\* What NextTurn asks of a call: the present provider is passed as well.
IsPassing(r) ==
  /\ r \in E!Call /\ r.chosen = E!Any /\ r.answer = "none" /\ (r.late => E!Asked(r) = "unlimitedocr")
  /\ \A i \in DOMAIN E!Order : i <= r.turn /\ E!Order[i] \in r.support => E!Order[i] \in r.failures

\* Once the one it asked has failed or cannot read the file, the call passes on.
LEMMA NextTurnTrue ==
  ASSUME NEW r, IsPassing(r)
  PROVE  CallIsTrue(E!NextTurn(r)) /\ SameTask(r, E!NextTurn(r))
<1> DEFINE q == E!NextTurn(r)
<1>1. r \in E!Call /\ r.turn \in {1, 2, 3} /\ r.support \subseteq Three /\ r.failures \subseteq Three
  BY ThreeProviders DEF IsPassing, E!Call
<1>2. CASE r.turn < 3
  <2>1. q = [r EXCEPT !.at = "selecting", !.turn = @ + 1]
    BY <1>2, ThreeProviders DEF E!NextTurn
  <2>2. r.turn + 1 \in {1, 2, 3} /\ r.turn \in {1, 2}
    BY <1>1, <1>2
  <2>3. /\ q \in E!Call /\ q.at = "selecting" /\ q.answer = "none" /\ q.chosen = E!Any
        /\ q.support = r.support /\ q.turn = r.turn + 1 /\ q.failures = r.failures
        /\ q.deadline = r.deadline /\ q.late = r.late
    BY <1>1, <2>1, <2>2, ThreeProviders DEF E!Call, E!Stage, IsPassing
  <2>4. ~r.late
    BY <2>2, ThreeProviders DEF IsPassing, E!Asked
  <2> HIDE DEF q
  <2>5. HasPassed(q, q.turn)
    BY <1>1, <2>3, ThreeProviders DEF IsPassing, HasPassed
  <2>6. CallIsTrue(q) /\ SameTask(r, q)
    BY <2>3, <2>4, <2>5 DEF CallIsTrue, SameTask, Working, AtService
  <2> QED
    BY <2>6 DEF q
<1>3. CASE r.turn = 3
  <2> DEFINE answer == IF r.failures = {} THEN "unsupported" ELSE "failed"
  <2>1. q = [r EXCEPT !.at = "over", !.answer = answer]
    BY <1>3, ThreeProviders DEF E!NextTurn, E!Answered
  <2>2. r.support \subseteq r.failures
    BY <1>1, <1>3, ThreeProviders DEF IsPassing, Three
  <2>3. /\ q \in E!Call /\ q.at = "over" /\ q.answer = answer /\ q.chosen = E!Any
        /\ q.support = r.support /\ q.turn = 3 /\ q.failures = r.failures
        /\ q.deadline = r.deadline /\ q.late = r.late
    BY <1>1, <1>3, <2>1 DEF E!Call, E!Stage, IsPassing
  <2> HIDE DEF q
  <2>4. HasPassed(q, q.turn)
    BY <1>1, <2>2, <2>3 DEF HasPassed
  <2>5. q.answer = "unsupported" => q.support = {}
    BY <2>2, <2>3
  <2>6. q.answer # "text" /\ q.answer # "none"
    BY <2>3
  <2> HIDE DEF answer
  <2>7. CallIsTrue(q) /\ SameTask(r, q)
    BY <2>2, <2>3, <2>4, <2>5, <2>6 DEF CallIsTrue, SameTask, Working, AtService
  <2> QED
    BY <2>7 DEF q
<1> QED
  BY <1>1, <1>2, <1>3

\* What Refused asks of a call: it is true, but that it may be late already.
IsRefusable(r) ==
  /\ r \in E!Call /\ r.answer = "none" /\ (r.late => E!Asked(r) = "unlimitedocr")
  /\ r.chosen = E!Any => HasPassed(r, r.turn)
  /\ r.chosen # E!Any => E!Asked(r) = r.chosen

\* A provider that fails ends a call that named it, and passes on the turn of another.
LEMMA RefusedTrue ==
  ASSUME NEW r, IsRefusable(r)
  PROVE  CallIsTrue(E!Refused(r)) /\ SameTask(r, E!Refused(r))
<1>1. r \in E!Call /\ r.turn \in {1, 2, 3} /\ E!Asked(r) \in Three
  BY AskedIsOne, ThreeProviders DEF IsRefusable, E!Call
<1>2. CASE r.chosen = E!Any
  <2> DEFINE q == [r EXCEPT !.failures = @ \cup {E!Asked(r)}]
  <2>1. /\ q \in E!Call /\ q.answer = "none" /\ q.chosen = E!Any
        /\ q.support = r.support /\ q.turn = r.turn /\ q.failures = r.failures \cup {E!Asked(r)}
        /\ q.deadline = r.deadline /\ q.late = r.late
    BY <1>1, <1>2, ThreeProviders DEF E!Call, IsRefusable
  <2>2. E!Refused(r) = E!NextTurn(q)
    BY <1>2 DEF E!Refused
  <2> HIDE DEF q
  <2>3. E!Asked(q) = E!Asked(r)
    BY <2>1 DEF E!Asked
  <2>4. \A i \in DOMAIN E!Order : i <= q.turn /\ E!Order[i] \in q.support => E!Order[i] \in q.failures
    <3> SUFFICES ASSUME NEW i \in DOMAIN E!Order, i <= q.turn, E!Order[i] \in q.support
                 PROVE  E!Order[i] \in q.failures
      OBVIOUS
    <3>1. i = r.turn \/ i < r.turn
      BY <1>1, <2>1, ThreeProviders
    <3>2. E!Asked(r) = E!Order[r.turn]
      BY DEF E!Asked
    <3> QED
      BY <1>2, <2>1, <3>1, <3>2 DEF IsRefusable, HasPassed
  <2>5. IsPassing(q)
    BY <2>1, <2>3, <2>4 DEF IsPassing, IsRefusable
  <2>6. CallIsTrue(E!NextTurn(q)) /\ SameTask(q, E!NextTurn(q))
    BY <2>5, NextTurnTrue
  <2> QED
    BY <2>1, <2>2, <2>6 DEF SameTask
<1>3. CASE r.chosen # E!Any
  <2> DEFINE q == E!Answered(r, "failed")
  <2>1. E!Refused(r) = q
    BY <1>3 DEF E!Refused
  <2>2. /\ q \in E!Call /\ q.at = "over" /\ q.answer = "failed" /\ q.chosen = r.chosen
        /\ q.support = r.support /\ q.turn = r.turn /\ q.failures = r.failures
        /\ q.deadline = r.deadline /\ q.late = r.late
    BY <1>1 DEF E!Answered, E!Call, E!Stage
  <2>3. E!Asked(q) = E!Asked(r)
    BY <2>2 DEF E!Asked
  <2> HIDE DEF q
  <2>4. CallIsTrue(q) /\ SameTask(r, q)
    BY <1>3, <2>2, <2>3 DEF CallIsTrue, SameTask, Working, AtService, IsRefusable
  <2> QED
    BY <2>1, <2>4
<1> QED
  BY <1>2, <1>3

\* The provider of a call that is not over may fail.
LEMMA TrueIsRefusable ==
  ASSUME NEW r, CallIsTrue(r), r.at # "over"
  PROVE  IsRefusable(r)
<1>1. r.answer = "none" /\ ~r.late
  BY DEF CallIsTrue
<1> QED
  BY <1>1 DEF CallIsTrue, IsRefusable

\* A provider that was made is asked, or passed over if it does not read the file.
LEMMA OfferedTrue ==
  ASSUME NEW r, CallIsTrue(r), r.at # "over"
  PROVE  CallIsTrue(E!Offered(r)) /\ SameTask(r, E!Offered(r))
<1>1. r \in E!Call /\ r.answer = "none" /\ ~r.late /\ E!Asked(r) \in Three /\ r.turn \in {1, 2, 3}
  BY AskedIsOne, ThreeProviders DEF CallIsTrue, E!Call
<1>2. CASE E!Asked(r) \in r.support
  <2>1. E!Offered(r) = E!Begun(r)
    BY <1>2 DEF E!Offered
  <2>2. CASE E!Begun(r) = E!Refused(r)
    BY <2>1, <2>2, RefusedTrue, TrueIsRefusable
  <2>3. CASE E!Begun(r) # E!Refused(r)
    <3>1. \E stage \in {"reading", "probing", "token"} :
            /\ E!Begun(r) = [r EXCEPT !.at = stage]
            /\ stage = "token" => E!Asked(r) = "unlimitedocr"
      BY <1>1, <2>3 DEF E!Begun, Three
    <3>2. PICK stage \in {"reading", "probing", "token"} :
            /\ E!Begun(r) = [r EXCEPT !.at = stage]
            /\ stage = "token" => E!Asked(r) = "unlimitedocr"
      BY <3>1
    <3> DEFINE q == [r EXCEPT !.at = stage]
    <3>3. /\ q \in E!Call /\ q.at = stage /\ q.answer = "none" /\ q.chosen = r.chosen
          /\ q.support = r.support /\ q.turn = r.turn /\ q.failures = r.failures
          /\ q.deadline = r.deadline /\ q.late = r.late
      BY <1>1 DEF E!Call, E!Stage
    <3> HIDE DEF q
    <3>4. E!Asked(q) = E!Asked(r) /\ HasPassed(q, q.turn) = HasPassed(r, r.turn)
      BY <3>3 DEF E!Asked, HasPassed
    <3>5. CallIsTrue(q) /\ SameTask(r, q)
      BY <1>1, <1>2, <3>2, <3>3, <3>4 DEF CallIsTrue, SameTask, AtService
    <3> QED
      BY <2>1, <3>2, <3>5 DEF q
  <2> QED
    BY <2>2, <2>3
<1>3. CASE E!Asked(r) \notin r.support /\ r.chosen = E!Any
  <2>1. E!Offered(r) = E!NextTurn(r)
    BY <1>3 DEF E!Offered
  <2>2. \A i \in DOMAIN E!Order : i <= r.turn /\ E!Order[i] \in r.support => E!Order[i] \in r.failures
    <3> SUFFICES ASSUME NEW i \in DOMAIN E!Order, i <= r.turn, E!Order[i] \in r.support
                 PROVE  E!Order[i] \in r.failures
      OBVIOUS
    <3>1. i = r.turn \/ i < r.turn
      BY <1>1, ThreeProviders
    <3>2. E!Asked(r) = E!Order[r.turn]
      BY DEF E!Asked
    <3> QED
      BY <1>3, <3>1, <3>2 DEF CallIsTrue, HasPassed
  <2>3. IsPassing(r)
    BY <1>1, <1>3, <2>2 DEF IsPassing
  <2> QED
    BY <2>1, <2>3, NextTurnTrue
<1>4. CASE E!Asked(r) \notin r.support /\ r.chosen # E!Any
  <2>1. E!Offered(r) = E!Answered(r, "unsupported")
    BY <1>4 DEF E!Offered
  <2> QED
    BY <1>4, <2>1, AnsweredTrue
<1> QED
  BY <1>2, <1>3, <1>4

\* A call that goes on to another stage.
LEMMA MovedTrue ==
  ASSUME NEW r, CallIsTrue(r), r.at # "over", NEW stage \in E!Stage,
         stage \in Working => E!Asked(r) \in r.support,
         stage \in AtService => E!Asked(r) = "unlimitedocr",
         NEW q, q = [r EXCEPT !.at = stage]
  PROVE  /\ CallIsTrue(q) /\ q.at = stage /\ q.deadline = r.deadline /\ ~q.late
         /\ q.turn = r.turn
<1>1. r \in E!Call /\ r.answer = "none" /\ ~r.late
  BY DEF CallIsTrue
<1>2. /\ q \in E!Call /\ q.at = stage /\ q.answer = "none" /\ q.chosen = r.chosen
      /\ q.support = r.support /\ q.turn = r.turn /\ q.failures = r.failures
      /\ q.deadline = r.deadline /\ q.late = r.late
  BY <1>1 DEF E!Call
<1>3. E!Asked(q) = E!Asked(r) /\ HasPassed(q, q.turn) = HasPassed(r, r.turn)
  BY <1>2 DEF E!Asked, HasPassed
<1>4. CallIsTrue(q)
  BY <1>1, <1>2, <1>3 DEF CallIsTrue
<1> QED
  BY <1>1, <1>2, <1>4

\* One call becomes another record, and the others stay.
Turns(c, q) == textCall' = [textCall EXCEPT ![c] = q] /\ CallIsTrue(q)

\* A call that becomes another true one leaves the rest as they are.
LEMMA TurnsTrue ==
  ASSUME CallsAreTrue, NEW c \in Clients, NEW q, Turns(c, q)
  PROVE  /\ CallsAreTrue'
         /\ textCall'[c] = q
         /\ \A d \in Clients \ {c} : textCall'[d] = textCall[d]
<1>1. q \in E!Call
  BY DEF Turns, CallIsTrue
<1>2. /\ textCall' \in [Clients -> E!Call] /\ textCall'[c] = q
      /\ \A d \in Clients \ {c} : textCall'[d] = textCall[d]
  BY <1>1 DEF Turns, CallsAreTrue
<1>3. \A d \in Clients : CallIsTrue(textCall'[d])
  BY <1>2 DEF Turns, CallsAreTrue
<1> QED
  BY <1>2, <1>3 DEF CallsAreTrue

\* A call that neither makes a provider nor is about to leaves the locks true.
LEMMA LocksKept ==
  ASSUME PictureInv, NEW c \in Clients, NEW q, Turns(c, q), made' = made,
         providerLock' = providerLock, textCall[c].at # "making", q.at # "making"
  PROVE  LocksAreTrue'
<1>1. textCall'[c] = q /\ \A d \in Clients \ {c} : textCall'[d] = textCall[d]
  BY TurnsTrue DEF PictureInv
<1>2. \A p \in Three : providerLock[p] # "nobody" => providerLock[p] \in Clients \ {c}
  BY DEF PictureInv, LocksAreTrue
<1> QED
  BY <1>1, <1>2 DEF PictureInv, LocksAreTrue

\* What a step of one call has to show of its task.
LEMMA TasksKept ==
  ASSUME PictureInv, NEW c \in Clients, NEW q, Turns(c, q), textClock' = textClock,
         textTask' \in [Clients -> [state : {"none", "running", "success", "failed"}, ended : Nat]],
         \A d \in Clients \ {c} : textTask'[d] = textTask[d],
         q.at \in {"polling", "sleeping"} => textTask'[c].state # "none",
         q.late => textClock >= q.deadline /\ textTask'[c].state = "running"
  PROVE  TasksAreTrue'
<1>1. textCall'[c] = q /\ \A d \in Clients \ {c} : textCall'[d] = textCall[d]
  BY TurnsTrue DEF PictureInv
<1>2. TaskIsTrue(c)'
  BY <1>1 DEF TaskIsTrue
<1>3. \A d \in Clients \ {c} : TaskIsTrue(d)'
  BY <1>1 DEF TaskIsTrue, PictureInv, TasksAreTrue
<1> QED
  BY <1>2, <1>3 DEF PictureInv, TasksAreTrue

\* A step of a call that leaves the locks, the tasks and the time alone.
LEMMA OneTurn ==
  ASSUME PictureInv, NEW c \in Clients, NEW q, Turns(c, q), UNCHANGED <<made, providerLock, textTask, textClock>>,
         textCall[c].at # "making", q.at # "making",
         q.at \in {"polling", "sleeping"} => textTask[c].state # "none",
         q.late => textClock >= q.deadline /\ textTask[c].state = "running"
  PROVE  PictureInv'
<1>1. CallsAreTrue'
  BY TurnsTrue DEF PictureInv
<1>2. LocksAreTrue'
  BY LocksKept
<1>3. TasksAreTrue'
  BY TasksKept DEF PictureInv, TasksAreTrue
<1> QED
  BY <1>1, <1>2, <1>3 DEF PictureInv

\* The call is not late before it is over.
LEMMA NotLate ==
  ASSUME PictureInv, NEW c \in Clients, textCall[c].at # "over"
  PROVE  ~textCall[c].late /\ CallIsTrue(textCall[c]) /\ textCall[c] \in E!Call
BY DEF PictureInv, CallsAreTrue, CallIsTrue

\* A call starts.
LEMMA StartCallKeeps ==
  ASSUME PictureParameters, PictureInv, NEW c \in Clients, E!StartCall(c)
  PROVE  PictureInv'
<1>1. PICK support \in {{"rapidocr", "paddleocr", "unlimitedocr"}, {"rapidocr", "paddleocr"}},
           chosen \in {"any", "unlimitedocr"} :
        textCall' = [textCall EXCEPT ![c] =
          [E!NewCall EXCEPT !.at = "selecting", !.support = support, !.chosen = chosen,
                            !.turn = IF chosen = E!Any THEN 1
                                     ELSE CHOOSE i \in DOMAIN E!Order : E!Order[i] = chosen]]
  BY DEF E!StartCall, E!Becomes
<1> DEFINE turn == IF chosen = E!Any THEN 1 ELSE CHOOSE i \in DOMAIN E!Order : E!Order[i] = chosen
           q == [E!NewCall EXCEPT !.at = "selecting", !.support = support, !.chosen = chosen,
                                  !.turn = turn]
<1>2. turn \in DOMAIN E!Order /\ (chosen = E!Any => turn = 1) /\ (chosen # E!Any => E!Order[turn] = chosen)
  BY ThreeProviders DEF E!Any
<1>3. support \in SUBSET E!Providers /\ chosen \in E!Providers \cup {E!Any}
  BY ThreeProviders DEF Three, E!Any
<1>4. E!NewCall \in E!Call
  BY ThreeProviders DEF E!NewCall, E!Call, E!Stage, E!Any
<1> HIDE DEF turn
<1>5. /\ q \in E!Call /\ q.at = "selecting" /\ q.support = support /\ q.chosen = chosen /\ q.turn = turn
      /\ q.answer = "none" /\ ~q.late
  BY <1>2, <1>3, <1>4 DEF E!NewCall, E!Call, E!Stage
<1>6. Turns(c, q)
  <2> HIDE DEF q
  <2>1. E!Asked(q) = E!Order[turn]
    BY <1>5 DEF E!Asked
  <2>2. q.chosen = E!Any => HasPassed(q, q.turn)
    BY <1>2, <1>5, ThreeProviders DEF HasPassed
  <2>3. CallIsTrue(q)
    BY <1>2, <1>5, <2>1, <2>2 DEF CallIsTrue, Working, AtService
  <2> QED
    BY <1>1, <2>3 DEF Turns, q, turn
<1> HIDE DEF q
<1> QED
  BY <1>5, <1>6, OneTurn DEF E!StartCall, E!At

\* It looks for its provider in the cache.
LEMMA GetProviderKeeps ==
  ASSUME PictureParameters, PictureInv, NEW c \in Clients, E!GetProvider(c)
  PROVE  PictureInv'
<1> DEFINE r == textCall[c]
<1>1. /\ r.at = "selecting" /\ UNCHANGED <<made, providerLock, textTask, textClock>>
      /\ \/ textCall' = [textCall EXCEPT ![c] = E!Offered(r)]
         \/ textCall' = [textCall EXCEPT ![c] = [r EXCEPT !.at = "locking"]]
  BY DEF E!GetProvider, E!At, E!Becomes, E!Goto
<1>2. CallIsTrue(r) /\ ~r.late
  BY <1>1, NotLate
<1>3. CASE textCall' = [textCall EXCEPT ![c] = E!Offered(r)]
  <2>1. CallIsTrue(E!Offered(r)) /\ SameTask(r, E!Offered(r))
    BY <1>1, <1>2, OfferedTrue
  <2> QED
    BY <1>1, <1>2, <1>3, <2>1, OneTurn DEF Turns, SameTask
<1>4. CASE textCall' = [textCall EXCEPT ![c] = [r EXCEPT !.at = "locking"]]
  <2> DEFINE q == [r EXCEPT !.at = "locking"]
  <2>1. CallIsTrue(q) /\ q.at = "locking" /\ ~q.late
    <3> HIDE DEF q, r
    <3>1. q = [r EXCEPT !.at = "locking"]
      BY DEF q
    <3> QED
      BY <1>1, <1>2, <3>1, MovedTrue DEF E!Stage, Working, AtService
  <2>2. Turns(c, q)
    BY <1>4, <2>1 DEF Turns
  <2> HIDE DEF q
  <2> QED
    BY <1>1, <2>1, <2>2, OneTurn
<1> QED
  BY <1>1, <1>3, <1>4

\* It takes the lock of its provider and looks again.
LEMMA LockProviderKeeps ==
  ASSUME PictureParameters, PictureInv, NEW c \in Clients, E!LockProvider(c)
  PROVE  PictureInv'
<1> DEFINE r == textCall[c]
           p == E!Asked(r)
           q == [r EXCEPT !.at = "making"]
<1>1. /\ r.at = "locking" /\ providerLock[p] = "nobody" /\ UNCHANGED <<made, textTask, textClock>>
      /\ \/ textCall' = [textCall EXCEPT ![c] = E!Offered(r)] /\ UNCHANGED providerLock
         \/ /\ ~(made[p] > 0) /\ textCall' = [textCall EXCEPT ![c] = q]
            /\ providerLock' = [providerLock EXCEPT ![p] = c]
  BY DEF E!LockProvider, E!At, E!Becomes, E!Goto, E!MadeMeanwhile
<1>2. CallIsTrue(r) /\ ~r.late /\ p \in Three
  BY <1>1, NotLate, AskedIsOne
<1>3. CASE textCall' = [textCall EXCEPT ![c] = E!Offered(r)] /\ UNCHANGED providerLock
  <2>1. CallIsTrue(E!Offered(r)) /\ SameTask(r, E!Offered(r))
    BY <1>1, <1>2, OfferedTrue
  <2> QED
    BY <1>1, <1>2, <1>3, <2>1, OneTurn DEF Turns, SameTask
<1>4. CASE /\ ~(made[p] > 0) /\ textCall' = [textCall EXCEPT ![c] = q]
           /\ providerLock' = [providerLock EXCEPT ![p] = c]
  <2>1. CallIsTrue(q) /\ q.at = "making" /\ ~q.late /\ q.turn = r.turn
    <3> HIDE DEF q, r
    <3>1. q = [r EXCEPT !.at = "making"]
      BY DEF q
    <3> QED
      BY <1>1, <1>2, <3>1, MovedTrue DEF E!Stage, Working, AtService
  <2>2. Turns(c, q)
    BY <1>4, <2>1 DEF Turns
  <2>3. E!Asked(q) = p
    BY <2>1 DEF E!Asked
  <2>4. made[p] = 0
    BY <1>2, <1>4 DEF PictureInv, LocksAreTrue
  <2> HIDE DEF q
  <2>5. CallsAreTrue' /\ textCall'[c] = q /\ \A d \in Clients \ {c} : textCall'[d] = textCall[d]
    BY <2>2, TurnsTrue DEF PictureInv
  <2>6. TasksAreTrue'
    BY <1>1, <2>1, <2>2, TasksKept DEF PictureInv, TasksAreTrue
  <2>7. LocksAreTrue'
    <3> HIDE DEF p
    <3>1. /\ providerLock' \in [Three -> Clients \cup {"nobody"}] /\ providerLock'[p] = c
          /\ \A o \in Three \ {p} : providerLock'[o] = providerLock[o]
      BY <1>2, <1>4 DEF PictureInv, LocksAreTrue
    <3>2. \A o \in Three : providerLock[o] # "nobody" => providerLock[o] \in Clients \ {c}
      BY <1>1 DEF PictureInv, LocksAreTrue
    <3>3. \A o \in Three : providerLock'[o] # "nobody" =>
            /\ made[o] = 0
            /\ textCall'[providerLock'[o]].at = "making" /\ E!Asked(textCall'[providerLock'[o]]) = o
      BY <2>1, <2>3, <2>4, <2>5, <3>1, <3>2 DEF PictureInv, LocksAreTrue
    <3>4. ASSUME NEW d \in Clients, textCall'[d].at = "making"
          PROVE  providerLock'[E!Asked(textCall'[d])] = d
      <4>1. CASE d = c
        BY <2>3, <2>5, <3>1, <4>1
      <4>2. CASE d # c
        <5>1. textCall'[d] = textCall[d] /\ E!Asked(textCall[d]) \in Three
          BY <2>5, <4>2, AskedIsOne DEF PictureInv, CallsAreTrue
        <5>2. providerLock[E!Asked(textCall[d])] = d
          BY <3>4, <5>1 DEF PictureInv, LocksAreTrue
        <5>3. E!Asked(textCall[d]) # p
          BY <1>1, <5>2, PictureParameters DEF PictureParameters, p
        <5> QED
          BY <3>1, <5>1, <5>2, <5>3
      <4> QED
        BY <4>1, <4>2
    <3> QED
      BY <1>1, <3>1, <3>3, <3>4 DEF PictureInv, LocksAreTrue
  <2> QED
    BY <2>5, <2>6, <2>7 DEF PictureInv
<1> QED
  BY <1>1, <1>3, <1>4

\* The lock is given back, by a call that is making no more.
LEMMA LockGivenBack ==
  ASSUME PictureParameters, PictureInv, NEW c \in Clients, NEW q, Turns(c, q), q.at # "making",
         \/ /\ textCall[c].at = "making"
            /\ providerLock' = [providerLock EXCEPT ![E!Asked(textCall[c])] = "nobody"]
         \/ providerLock' = [p \in Three |-> IF providerLock[p] = c THEN "nobody" ELSE providerLock[p]],
         \/ made' = made
         \/ textCall[c].at = "making" /\ made' = [made EXCEPT ![E!Asked(textCall[c])] = @ + 1]
  PROVE  LocksAreTrue'
<1>1. textCall'[c] = q /\ \A d \in Clients \ {c} : textCall'[d] = textCall[d]
  BY TurnsTrue DEF PictureInv
<1> DEFINE p == E!Asked(textCall[c])
<1>2. p \in Three
  BY AskedIsOne DEF PictureInv, CallsAreTrue
<1>3. \A o \in Three : providerLock[o] = c => textCall[c].at = "making" /\ o = p
  BY DEF PictureInv, LocksAreTrue, PictureParameters
<1>4. textCall[c].at = "making" => providerLock[p] = c /\ made[p] = 0
  BY <1>2 DEF PictureInv, LocksAreTrue, PictureParameters
<1> HIDE DEF p
<1>5. /\ providerLock' \in [Three -> Clients \cup {"nobody"}]
      /\ \A o \in Three : providerLock'[o] = IF providerLock[o] = c THEN "nobody" ELSE providerLock[o]
  BY <1>2, <1>3, <1>4 DEF PictureInv, LocksAreTrue, p
<1>6. /\ made' \in [Three -> Nat]
      /\ \A o \in Three : made'[o] <= 1 /\ (made'[o] = made[o] \/ (o = p /\ textCall[c].at = "making"))
  BY <1>2, <1>4 DEF PictureInv, LocksAreTrue, p
<1>7. ASSUME NEW o \in Three, providerLock'[o] # "nobody"
      PROVE  /\ made'[o] = 0
             /\ textCall'[providerLock'[o]].at = "making" /\ E!Asked(textCall'[providerLock'[o]]) = o
  <2>1. providerLock[o] # c /\ providerLock'[o] = providerLock[o] /\ providerLock[o] \in Clients \ {c}
    BY <1>5, <1>7 DEF PictureInv, LocksAreTrue
  <2>2. made'[o] = made[o]
    BY <1>4, <1>6, <2>1
  <2> QED
    BY <1>1, <1>7, <2>1, <2>2 DEF PictureInv, LocksAreTrue
<1>8. ASSUME NEW d \in Clients, textCall'[d].at = "making"
      PROVE  providerLock'[E!Asked(textCall'[d])] = d
  <2>1. d # c /\ textCall'[d] = textCall[d] /\ E!Asked(textCall[d]) \in Three
    BY <1>1, <1>8, AskedIsOne DEF PictureInv, CallsAreTrue
  <2>2. providerLock[E!Asked(textCall[d])] = d
    BY <1>8, <2>1 DEF PictureInv, LocksAreTrue
  <2> QED
    BY <1>5, <2>1, <2>2
<1> QED
  BY <1>5, <1>6, <1>7, <1>8 DEF LocksAreTrue

\* It makes its provider, which the cache then holds, and gives the lock back.
LEMMA MakeProviderKeeps ==
  ASSUME PictureParameters, PictureInv, NEW c \in Clients, E!MakeProvider(c)
  PROVE  PictureInv'
<1> DEFINE r == textCall[c]
<1>1. /\ r.at = "making" /\ providerLock' = [providerLock EXCEPT ![E!Asked(r)] = "nobody"]
      /\ UNCHANGED <<textTask, textClock>>
      /\ \/ made' = [made EXCEPT ![E!Asked(r)] = @ + 1] /\ textCall' = [textCall EXCEPT ![c] = E!Offered(r)]
         \/ made' = made /\ textCall' = [textCall EXCEPT ![c] = E!Refused(r)]
  BY DEF E!MakeProvider, E!At, E!Becomes
<1>2. CallIsTrue(r) /\ ~r.late
  BY <1>1, NotLate
<1>3. \E q \in {E!Offered(r), E!Refused(r)} : Turns(c, q) /\ SameTask(r, q)
  <2>1. CallIsTrue(E!Offered(r)) /\ SameTask(r, E!Offered(r))
    BY <1>1, <1>2, OfferedTrue
  <2>2. CallIsTrue(E!Refused(r)) /\ SameTask(r, E!Refused(r))
    BY <1>1, <1>2, RefusedTrue, TrueIsRefusable
  <2> QED
    BY <1>1, <2>1, <2>2 DEF Turns
<1>4. PICK q : Turns(c, q) /\ SameTask(r, q)
  BY <1>3
<1>5. CallsAreTrue'
  BY <1>4, TurnsTrue DEF PictureInv
<1>6. LocksAreTrue'
  BY <1>1, <1>4, LockGivenBack DEF SameTask
<1>7. TasksAreTrue'
  BY <1>1, <1>2, <1>4, TasksKept DEF SameTask, PictureInv, TasksAreTrue
<1> QED
  BY <1>5, <1>6, <1>7 DEF PictureInv

\* A request of a call that is working: it fails, gives the text or goes on.
LEMMA WorkKeeps ==
  ASSUME PictureParameters, PictureInv, NEW c \in Clients, textCall[c].at \in Working,
         UNCHANGED <<made, providerLock, textTask, textClock>>,
         \/ E!Becomes(c, E!Refused(textCall[c]))
         \/ E!Becomes(c, E!Answered(textCall[c], "text"))
         \/ \E stage \in Working : /\ E!Goto(c, stage)
                                   /\ stage \in AtService => textCall[c].at \in AtService
                                   /\ stage \in {"polling", "sleeping"} => textTask[c].state # "none"
  PROVE  PictureInv'
<1>1. /\ CallIsTrue(textCall[c]) /\ ~textCall[c].late
      /\ textCall[c].at # "over" /\ textCall[c].at # "making"
  BY NotLate DEF Working
<1>2. CASE \/ E!Becomes(c, E!Refused(textCall[c]))
           \/ E!Becomes(c, E!Answered(textCall[c], "text"))
  <2>1. \E q : Turns(c, q) /\ SameTask(textCall[c], q)
    <3>1. CASE E!Becomes(c, E!Refused(textCall[c]))
      BY <1>1, <3>1, RefusedTrue, TrueIsRefusable DEF Turns, E!Becomes
    <3>2. CASE E!Becomes(c, E!Answered(textCall[c], "text"))
      BY <1>1, <3>2, AnsweredTrue DEF Turns, E!Becomes
    <3> QED
      BY <1>2, <3>1, <3>2
  <2>2. PICK q : Turns(c, q) /\ SameTask(textCall[c], q)
    BY <2>1
  <2> QED
    BY <1>1, <2>2, OneTurn DEF SameTask
<1>3. ASSUME NEW stage \in Working, E!Goto(c, stage), stage \in AtService => textCall[c].at \in AtService,
             stage \in {"polling", "sleeping"} => textTask[c].state # "none"
      PROVE  PictureInv'
  <2>1. PICK q : q = [textCall[c] EXCEPT !.at = stage]
    OBVIOUS
  <2>2. stage \in E!Stage /\ stage # "making"
    BY DEF Working, E!Stage
  <2>3. E!Asked(textCall[c]) \in textCall[c].support
        /\ (stage \in AtService => E!Asked(textCall[c]) = "unlimitedocr")
    BY <1>1, <1>3 DEF CallIsTrue
  <2>4. CallIsTrue(q) /\ q.at = stage /\ ~q.late
    BY <1>1, <2>1, <2>2, <2>3, MovedTrue
  <2>5. Turns(c, q)
    BY <1>3, <2>1, <2>4 DEF Turns, E!Goto
  <2> QED
    BY <1>1, <1>3, <2>2, <2>4, <2>5, OneTurn
<1> QED
  BY <1>2, <1>3

\* A request of a call that is neither about its task nor about a lock.
LEMMA RequestsKeep ==
  ASSUME PictureParameters, PictureInv, NEW c \in Clients,
         \/ E!RunRapidOCR(c) \/ E!CheckPaddleOCR(c) \/ E!CallPaddleOCR(c) \/ E!GetAccessToken(c)
         \/ E!Wake(c) \/ E!DownloadMarkdown(c)
  PROVE  PictureInv'
<1>1. ASSUME NEW stage \in Working, E!Text(c, stage) PROVE PictureInv'
  BY <1>1, WorkKeeps DEF E!Text, E!Fails, E!At
<1>2. ASSUME NEW stage \in Working, NEW after \in Working, E!Request(c, stage, after),
             after \in AtService => stage \in AtService, after \notin {"polling", "sleeping"}
      PROVE  PictureInv'
  BY <1>2, WorkKeeps DEF E!Request, E!Fails, E!At
<1>3. ASSUME E!Wake(c) PROVE PictureInv'
  <2>1. textTask[c].state # "none"
    BY <1>3 DEF E!Wake, E!At, PictureInv, TasksAreTrue, TaskIsTrue
  <2>2. textCall[c].at \in Working /\ textCall[c].at \in AtService /\ "polling" \in Working
    BY <1>3 DEF E!Wake, E!At, Working, AtService
  <2> QED
    BY <1>3, <2>1, <2>2, WorkKeeps DEF E!Wake
<1>4. CASE E!RunRapidOCR(c) \/ E!CallPaddleOCR(c) \/ E!DownloadMarkdown(c)
  BY <1>1, <1>4 DEF E!RunRapidOCR, E!CallPaddleOCR, E!DownloadMarkdown, Working
<1>5. CASE E!CheckPaddleOCR(c) \/ E!GetAccessToken(c)
  BY <1>2, <1>5 DEF E!CheckPaddleOCR, E!GetAccessToken, Working, AtService
<1> QED
  BY <1>3, <1>4, <1>5

\* The service takes the task, which runs from then on.
LEMMA SubmitTaskKeeps ==
  ASSUME PictureParameters, PictureInv, NEW c \in Clients, E!SubmitTask(c)
  PROVE  PictureInv'
<1> DEFINE r == textCall[c]
           running == [textTask EXCEPT ![c] = [@ EXCEPT !.state = "running"]]
<1>1. r.at = "submitting" /\ UNCHANGED <<made, providerLock, textClock>>
  BY DEF E!SubmitTask, E!Fails, E!At
<1>2. CallIsTrue(r) /\ ~r.late /\ r \in E!Call
  BY <1>1, NotLate
<1>3. /\ running \in [Clients -> [state : {"none", "running", "success", "failed"}, ended : Nat]]
      /\ running[c].state = "running"
      /\ \A d \in Clients \ {c} : running[d] = textTask[d]
  BY DEF PictureInv, TasksAreTrue
<1>4. \E q : /\ Turns(c, q) /\ ~q.late /\ q.at # "making"
             /\ q.at \in {"polling", "sleeping"} => textTask' = running
             /\ textTask' \in {textTask, running}
  <2>1. CASE E!Fails(c, "submitting") /\ textTask' \in {textTask, running}
    <3>1. CallIsTrue(E!Refused(r)) /\ SameTask(r, E!Refused(r))
      BY <1>1, <1>2, RefusedTrue, TrueIsRefusable
    <3>2. Turns(c, E!Refused(r))
      BY <2>1, <3>1 DEF E!Fails, E!Becomes, Turns
    <3> QED
      BY <1>2, <2>1, <3>1, <3>2 DEF SameTask
  <2>2. CASE /\ textCall' = [textCall EXCEPT ![c] = [@ EXCEPT !.at = "polling",
                                              !.deadline = textClock + PollTimeout]]
             /\ textTask' = running
    <3> DEFINE q == [r EXCEPT !.at = "polling", !.deadline = textClock + PollTimeout]
    <3>1. textClock + PollTimeout \in Nat
      BY DEF PictureInv, TasksAreTrue, PictureParameters
    <3>2. /\ q \in E!Call /\ q.at = "polling" /\ q.answer = r.answer /\ q.chosen = r.chosen
          /\ q.support = r.support /\ q.turn = r.turn /\ q.failures = r.failures /\ q.late = r.late
      BY <1>2, <3>1 DEF E!Call, E!Stage
    <3>3. textCall' = [textCall EXCEPT ![c] = q]
      BY <2>2
    <3> HIDE DEF q
    <3>4. E!Asked(q) = E!Asked(r) /\ HasPassed(q, q.turn) = HasPassed(r, r.turn)
      BY <3>2 DEF E!Asked, HasPassed
    <3>5. CallIsTrue(q)
      BY <1>1, <1>2, <3>2, <3>4 DEF CallIsTrue, Working, AtService
    <3> QED
      BY <1>2, <2>2, <3>2, <3>3, <3>5 DEF Turns
  <2> QED
    BY <2>1, <2>2 DEF E!SubmitTask
<1>5. PICK q : /\ Turns(c, q) /\ ~q.late /\ q.at # "making"
               /\ q.at \in {"polling", "sleeping"} => textTask' = running
               /\ textTask' \in {textTask, running}
  BY <1>4
<1> HIDE DEF running
<1>6. CallsAreTrue'
  BY <1>5, TurnsTrue DEF PictureInv
<1>7. LocksAreTrue'
  BY <1>1, <1>5, LocksKept
<1>8. textTask' \in [Clients -> [state : {"none", "running", "success", "failed"}, ended : Nat]]
      /\ \A d \in Clients \ {c} : textTask'[d] = textTask[d]
  BY <1>3, <1>5 DEF PictureInv, TasksAreTrue
<1>9. TasksAreTrue'
  BY <1>1, <1>3, <1>5, <1>8, TasksKept
<1> QED
  BY <1>6, <1>7, <1>9 DEF PictureInv

\* A poll: the task has ended, or the call goes to sleep or gives up.
LEMMA QueryTaskKeeps ==
  ASSUME PictureParameters, PictureInv, NEW c \in Clients, E!QueryTask(c)
  PROVE  PictureInv'
<1> DEFINE r == textCall[c]
<1>1. r.at = "polling" /\ UNCHANGED <<made, providerLock, textTask, textClock>>
  BY DEF E!QueryTask, E!Fails, E!At
<1>2. CallIsTrue(r) /\ ~r.late /\ r \in E!Call /\ r.answer = "none" /\ E!Asked(r) = "unlimitedocr"
  BY <1>1, NotLate DEF CallIsTrue, AtService
<1>3. textTask[c].state \in {"running", "success", "failed"}
  <2>1. textTask[c].state \in {"none", "running", "success", "failed"}
    BY DEF PictureInv, TasksAreTrue
  <2>2. textTask[c].state # "none"
    BY <1>1 DEF PictureInv, TasksAreTrue, TaskIsTrue
  <2> QED
    BY <2>1, <2>2
<1>4. CASE E!Becomes(c, E!Refused(r))
  BY <1>1, <1>4, WorkKeeps DEF Working
<1>5. CASE E!Becomes(c, [r EXCEPT !.at = "fetching"])
  BY <1>1, <1>5, WorkKeeps DEF Working, AtService, E!Becomes, E!Goto
<1>6. ASSUME textTask[c].state = "running", E!Becomes(c, E!Slept(r))
      PROVE  PictureInv'
  <2>1. textClock \in Nat /\ r.deadline \in Nat
    BY <1>2 DEF PictureInv, TasksAreTrue, E!Call
  <2>2. CASE r.deadline - textClock <= 0
    <3> DEFINE s == [r EXCEPT !.late = TRUE]
               q == E!Refused(s)
    <3>1. q = E!Slept(r)
      BY <2>2 DEF E!Slept
    <3>2. /\ s \in E!Call /\ s.answer = r.answer /\ s.chosen = r.chosen /\ s.late
          /\ s.support = r.support /\ s.turn = r.turn /\ s.failures = r.failures /\ s.deadline = r.deadline
      BY <1>2 DEF E!Call
    <3> HIDE DEF s
    <3>3. E!Asked(s) = E!Asked(r) /\ HasPassed(s, s.turn) = HasPassed(r, r.turn)
      BY <3>2 DEF E!Asked, HasPassed
    <3>4. IsRefusable(s)
      BY <1>1, <1>2, <3>2, <3>3 DEF IsRefusable, CallIsTrue
    <3>5. CallIsTrue(q) /\ SameTask(s, q)
      BY <3>4, RefusedTrue
    <3> HIDE DEF q
    <3>6. Turns(c, q)
      BY <1>6, <3>1, <3>5 DEF Turns, E!Becomes
    <3>7. textClock >= r.deadline
      BY <2>1, <2>2
    <3> QED
      BY <1>1, <1>6, <3>2, <3>5, <3>6, <3>7, OneTurn DEF SameTask
  <2>3. CASE ~(r.deadline - textClock <= 0)
    <3> DEFINE remaining == r.deadline - textClock
               wake == textClock + (IF PollInterval < remaining THEN PollInterval ELSE remaining)
               q == [r EXCEPT !.at = "sleeping", !.wake = wake]
    <3>1. E!Slept(r) = q
      BY <2>3 DEF E!Slept
    <3>2. wake \in Nat
      BY <2>1, <2>3 DEF PictureParameters
    <3> HIDE DEF wake
    <3>3. /\ q \in E!Call /\ q.at = "sleeping" /\ q.answer = r.answer /\ q.chosen = r.chosen
          /\ q.support = r.support /\ q.turn = r.turn /\ q.failures = r.failures /\ q.late = r.late
      BY <1>2, <3>2 DEF E!Call, E!Stage
    <3> HIDE DEF q
    <3>4. E!Asked(q) = E!Asked(r) /\ HasPassed(q, q.turn) = HasPassed(r, r.turn)
      BY <3>3 DEF E!Asked, HasPassed
    <3>5. CallIsTrue(q)
      BY <1>1, <1>2, <3>3, <3>4 DEF CallIsTrue, Working, AtService
    <3>6. Turns(c, q)
      BY <1>6, <3>1, <3>5 DEF Turns, E!Becomes
    <3> QED
      BY <1>1, <1>2, <1>6, <3>3, <3>6, OneTurn
  <2> QED
    BY <2>2, <2>3
<1>7. \/ E!Becomes(c, E!Refused(r))
      \/ E!Becomes(c, [r EXCEPT !.at = "fetching"])
      \/ textTask[c].state = "running" /\ E!Becomes(c, E!Slept(r))
  BY <1>3 DEF E!QueryTask, E!Fails
<1> QED
  BY <1>4, <1>5, <1>6, <1>7

\* A call is aborted, and gives back the lock it holds.
LEMMA AbortKeeps ==
  ASSUME PictureParameters, PictureInv, NEW c \in Clients, E!Abort(c)
  PROVE  PictureInv'
<1> DEFINE r == textCall[c]
           q == E!Answered(r, "aborted")
<1>1. /\ r.at # "over" /\ textCall' = [textCall EXCEPT ![c] = q]
      /\ providerLock' = [p \in Three |-> IF providerLock[p] = c THEN "nobody" ELSE providerLock[p]]
      /\ UNCHANGED <<made, textTask, textClock>>
  BY ThreeProviders DEF E!Abort, E!Becomes
<1>2. CallIsTrue(r) /\ ~r.late
  BY <1>1, NotLate
<1>3. CallIsTrue(q) /\ SameTask(r, q)
  BY <1>1, <1>2, AnsweredTrue
<1> HIDE DEF q
<1>4. Turns(c, q)
  BY <1>1, <1>3 DEF Turns
<1>5. LocksAreTrue'
  BY <1>1, <1>3, <1>4, LockGivenBack DEF SameTask
<1>6. CallsAreTrue'
  BY <1>4, TurnsTrue DEF PictureInv
<1>7. TasksAreTrue'
  BY <1>1, <1>2, <1>3, <1>4, TasksKept DEF SameTask, PictureInv, TasksAreTrue
<1> QED
  BY <1>5, <1>6, <1>7 DEF PictureInv

\* The service ends a task.
LEMMA TaskEndsKeeps ==
  ASSUME PictureParameters, PictureInv, NEW c \in Clients, E!TaskEnds(c)
  PROVE  PictureInv'
<1>1. PICK state \in {"success", "failed"} :
        textTask' = [textTask EXCEPT ![c] = [state |-> state, ended |-> textClock]]
  BY DEF E!TaskEnds
<1>2. UNCHANGED <<made, providerLock, textCall, textClock>>
  BY DEF E!TaskEnds
<1>3. /\ textTask' \in [Clients -> [state : {"none", "running", "success", "failed"}, ended : Nat]]
      /\ textTask'[c].state = state /\ textTask'[c].ended = textClock
      /\ \A d \in Clients \ {c} : textTask'[d] = textTask[d]
  BY <1>1 DEF PictureInv, TasksAreTrue
<1>4. TaskIsTrue(c)'
  BY <1>2, <1>3 DEF TaskIsTrue, PictureInv, TasksAreTrue
<1>5. \A d \in Clients \ {c} : TaskIsTrue(d)'
  BY <1>2, <1>3 DEF TaskIsTrue, PictureInv, TasksAreTrue
<1>6. CallsAreTrue' /\ LocksAreTrue'
  BY <1>2 DEF PictureInv, CallsAreTrue, LocksAreTrue
<1> QED
  BY <1>2, <1>3, <1>4, <1>5, <1>6 DEF PictureInv, TasksAreTrue

\* Time passes.
LEMMA TickKeeps ==
  ASSUME PictureInv, E!Tick \/ UNCHANGED E!vars
  PROVE  PictureInv'
<1>1. UNCHANGED <<made, providerLock, textCall, textTask>> /\ textClock' \in {textClock, textClock + 1}
  BY DEF E!Tick, E!vars
<1>2. textClock \in Nat /\ textClock' \in Nat /\ textClock' >= textClock
  BY <1>1 DEF PictureInv, TasksAreTrue
<1>3. ASSUME NEW c \in Clients PROVE TaskIsTrue(c)'
  <2>1. textCall[c].deadline \in Nat
    BY DEF PictureInv, CallsAreTrue, E!Call
  <2> QED
    BY <1>1, <1>2, <2>1 DEF PictureInv, TasksAreTrue, TaskIsTrue
<1>4. CallsAreTrue' /\ LocksAreTrue'
  BY <1>1 DEF PictureInv, CallsAreTrue, LocksAreTrue
<1> QED
  BY <1>1, <1>2, <1>3, <1>4 DEF PictureInv, TasksAreTrue

\* Every step keeps the invariant.
LEMMA PictureStep == PictureParameters /\ PictureInv /\ [E!Next]_E!vars => PictureInv'
BY StartCallKeeps, GetProviderKeeps, LockProviderKeeps, MakeProviderKeeps, RequestsKeep, SubmitTaskKeeps,
   QueryTaskKeeps, AbortKeeps, TaskEndsKeeps, TickKeeps DEF E!Next

\* It is true at the start.
LEMMA PictureStart == PictureParameters /\ E!Init => PictureInv
<1> SUFFICES ASSUME PictureParameters, E!Init PROVE PictureInv
  OBVIOUS
<1>1. E!NewCall \in E!Call /\ E!NewCall.at = "idle" /\ ~E!NewCall.late /\ E!NewCall.chosen = E!Any
      /\ E!NewCall.turn = 1 /\ E!NewCall.answer = "none"
  BY ThreeProviders DEF E!NewCall, E!Call, E!Stage, E!Any
<1>2. HasPassed(E!NewCall, E!NewCall.turn)
  BY <1>1, ThreeProviders DEF HasPassed
<1>3. CallIsTrue(E!NewCall)
  BY <1>1, <1>2 DEF CallIsTrue, Working, AtService
<1>4. CallsAreTrue
  BY <1>1, <1>3 DEF E!Init, CallsAreTrue
<1>5. \A c \in Clients : textCall[c].at = "idle" /\ ~textCall[c].late
  BY <1>1 DEF E!Init
<1>6. LocksAreTrue
  BY <1>5, ThreeProviders DEF E!Init, LocksAreTrue
<1>7. TasksAreTrue
  BY <1>5 DEF E!Init, TasksAreTrue, TaskIsTrue
<1> QED
  BY <1>4, <1>6, <1>7 DEF PictureInv

\* It says more than the property.
LEMMA PictureImplies == PictureParameters /\ PictureInv => E!TextIsFound
<1> SUFFICES ASSUME PictureParameters, PictureInv PROVE E!TextIsFound
  OBVIOUS
<1>1. E!MadeOnce
  BY ThreeProviders DEF PictureInv, LocksAreTrue, E!MadeOnce, E!At
<1>2. E!DoneIsFetched
  BY DEF PictureInv, TasksAreTrue, TaskIsTrue, E!DoneIsFetched
<1>3. ASSUME NEW c \in Clients
      PROVE  LET r == textCall[c] IN
             /\ r.chosen = E!Any /\ r.answer = "text" =>
                  \A i \in 1..(r.turn - 1) : E!Order[i] \in r.support => E!Order[i] \in r.failures
             /\ r.answer = "text" => E!Asked(r) \in r.support
             /\ r.chosen = E!Any /\ r.answer = "failed" => r.support \subseteq r.failures
             /\ r.answer = "unsupported" =>
                  r.support \cap (IF r.chosen = E!Any THEN E!Providers ELSE {r.chosen}) = {}
  <2> DEFINE r == textCall[c]
  <2>1. CallIsTrue(r) /\ r.turn \in {1, 2, 3}
    BY ThreeProviders DEF PictureInv, CallsAreTrue, E!Call
  <2>2. r.chosen = E!Any => \A i \in 1..(r.turn - 1) : E!Order[i] \in r.support => E!Order[i] \in r.failures
    <3> SUFFICES ASSUME r.chosen = E!Any, NEW i \in 1..(r.turn - 1), E!Order[i] \in r.support
                 PROVE  E!Order[i] \in r.failures
      OBVIOUS
    <3>1. i \in DOMAIN E!Order /\ i < r.turn
      BY <2>1, ThreeProviders
    <3> QED
      BY <2>1, <3>1 DEF CallIsTrue, HasPassed
  <2> QED
    BY <2>1, <2>2 DEF CallIsTrue
<1>4. E!FirstThatCan
  BY <1>3 DEF E!FirstThatCan
<1> QED
  BY <1>1, <1>2, <1>4 DEF E!TextIsFound

\* The text is asked of the providers in their order, each is made once, and a task
\* that was done in time is fetched (ocr_service.py: extract_text, get_provider;
\* unlimited_ocr.py: _poll).
THEOREM PicturesAreRead == E!Spec => []E!TextIsFound
<1>1. PictureParameters
  BY ClientsAreCalls, BoundsAreNumbers DEF PictureParameters
<1>2. PictureInv => E!TextIsFound
  BY <1>1, PictureImplies
<1>3. E!Init => PictureInv
  BY <1>1, PictureStart
<1>4. PictureInv /\ [E!Next]_E!vars => PictureInv'
  BY <1>1, PictureStep
<1> QED
  BY <1>2, <1>3, <1>4, PTL DEF E!Spec

-----------------------------------------------------------------------------
(* The input of the page.  Every handler has an operation of its own, so that *)
(* one of them is current; while it has the input on its way, the input is    *)
(* closed and empty, and nothing but it or the page being left opens it.      *)

\* What the component asks of its parameters.
InputParameters == {MaxItems, MaxHandlers} \subseteq Nat /\ MaxVisits \in Nat \ {0}

\* The page waits for a handler that is current and not over.
Awaited(h) == I!Current(h) /\ handlers[h].at # "over"

\* What the handler took from the input is on its way to the server.
Sending(h) == I!Current(h) /\ handlers[h].at \in {"thread", "create"}

\* Every handler has an operation of its own, so that one of them is current.
OperationsTrue ==
  /\ \A h \in DOMAIN handlers : handlers[h].operation <= operation
  /\ \A h, k \in DOMAIN handlers : handlers[h].operation = handlers[k].operation => h = k

\* What a handler does, it does for its kind.
PlacesTrue ==
  \A h \in DOMAIN handlers :
    /\ handlers[h].at \in {"thread", "create"} => handlers[h].kind = "submit"
    /\ handlers[h].at = "post" => handlers[h].kind = "resume"

\* What is numbered has been given.
ItemsTrue ==
  /\ draft <= items /\ uploading <= items /\ IsFiniteSet(uploads)
  /\ given \subseteq 1..items
  /\ draft \notin attachments
  /\ \A u \in uploads : u.item <= items /\ u.generation <= generation
  /\ \A u, v \in uploads : u.item = v.item => u = v
  /\ \A u \in uploads : u.generation = generation => u.item \notin given

\* While a submission is on its way, the input is empty and stays so.
SubmissionsTrue ==
  \A h \in DOMAIN handlers : Sending(h) =>
    /\ submitting /\ runStatus # "active" /\ ~question
    /\ draft = I!NoText /\ attachments = {} /\ uploading = 0
    /\ handlers[h].text \notin handlers[h].files
    /\ handlers[h].text <= items

\* The input is closed for a handler that will open it.
ClosedForOne ==
  /\ loading => ~question /\ \E h \in DOMAIN handlers :
       I!Current(h) /\ handlers[h].at = "detail" /\ handlers[h].kind = "load"
  /\ resuming => \E h \in DOMAIN handlers : I!Current(h) /\ handlers[h].at = "post"
  /\ submitting => answeredEarly \/ \E h \in DOMAIN handlers :
       Awaited(h) /\ handlers[h].kind = "submit"

\* The inductive invariant.
InputInv ==
  /\ I!TypeOK /\ OperationsTrue /\ PlacesTrue /\ ItemsTrue /\ SubmissionsTrue /\ ClosedForOne
  /\ I!InputIsKept

\* Where a handler may be.
Places == {"thread", "create", "detail", "post", "monitor", "reload", "over"}

\* What the handlers hs have on its way for the operation op.
PendingOf(hs, op) ==
  UNION {I!InputOf(hs[h].text, hs[h].files) :
         h \in {k \in DOMAIN hs : hs[k].operation = op /\ hs[k].at \in {"thread", "create"}}}

\* The fields of a handler.
LEMMA HandlerFields ==
  ASSUME InputParameters, NEW r \in I!Handler
  PROVE  /\ r.operation \in Nat /\ r.text \in Nat /\ r.files \subseteq Nat \ {0} /\ r.at \in Places
         /\ r.kind \in {"submit", "resume", "load"}
         /\ r.text \in {I!NoText} \cup I!Items /\ r.files \subseteq I!Items
BY DEF I!Handler, I!Items, I!NoText, Places, InputParameters

\* What is pending, now and after a step.
LEMMA PendingIs ==
  /\ I!Pending = PendingOf(handlers, operation)
  /\ I!Pending' = PendingOf(handlers', operation')
BY DEF I!Pending, PendingOf, I!Current, I!Taken

\* The current handler has it, if there is one.
LEMMA OneHasIt ==
  ASSUME NEW hs, NEW op, NEW h \in DOMAIN hs, hs[h].operation = op,
         \A k \in DOMAIN hs : hs[k].operation = op => k = h
  PROVE  /\ hs[h].at \in {"thread", "create"} => PendingOf(hs, op) = I!InputOf(hs[h].text, hs[h].files)
         /\ hs[h].at \notin {"thread", "create"} => PendingOf(hs, op) = {}
<1>1. CASE hs[h].at \in {"thread", "create"}
  <2>1. {k \in DOMAIN hs : hs[k].operation = op /\ hs[k].at \in {"thread", "create"}} = {h}
    BY <1>1
  <2> QED
    BY <1>1, <2>1 DEF PendingOf
<1>2. CASE hs[h].at \notin {"thread", "create"}
  <2>1. {k \in DOMAIN hs : hs[k].operation = op /\ hs[k].at \in {"thread", "create"}} = {}
    BY <1>2
  <2> QED
    BY <1>2, <2>1 DEF PendingOf
<1> QED
  BY <1>1, <1>2

\* Without one there is nothing on its way.
LEMMA NobodyHasIt ==
  ASSUME NEW hs, NEW op, \A k \in DOMAIN hs : hs[k].operation = op => hs[k].at \notin {"thread", "create"}
  PROVE  PendingOf(hs, op) = {}
<1>1. {k \in DOMAIN hs : hs[k].operation = op /\ hs[k].at \in {"thread", "create"}} = {}
  OBVIOUS
<1> QED
  BY <1>1 DEF PendingOf

\* A handler goes to a place.
LEMMA OneGoes ==
  ASSUME handlers \in Seq(I!Handler), NEW h \in DOMAIN handlers, NEW place \in Places, I!Goes(h, place)
  PROVE  /\ handlers' \in Seq(I!Handler) /\ DOMAIN handlers' = DOMAIN handlers
         /\ handlers'[h].at = place
         /\ \A k \in DOMAIN handlers :
              /\ handlers'[k].operation = handlers[k].operation /\ handlers'[k].kind = handlers[k].kind
              /\ handlers'[k].text = handlers[k].text /\ handlers'[k].files = handlers[k].files
              /\ k # h => handlers'[k].at = handlers[k].at
<1> DEFINE q == [handlers[h] EXCEPT !.at = place]
<1>1. handlers' = [handlers EXCEPT ![h] = q]
  BY DEF I!Goes
<1>2. handlers[h] \in I!Handler
  OBVIOUS
<1>3. /\ q \in I!Handler /\ q.at = place
      /\ q.operation = handlers[h].operation /\ q.kind = handlers[h].kind
      /\ q.text = handlers[h].text /\ q.files = handlers[h].files
  BY <1>2 DEF I!Handler, Places
<1> HIDE DEF q
<1> QED
  BY <1>1, <1>3

\* n is the handler of a new call, and the current one.
IsLast(n, kind, place, text, taken) ==
  /\ n \in DOMAIN handlers'
  /\ DOMAIN handlers' = DOMAIN handlers \cup {n} /\ n \notin DOMAIN handlers
  /\ handlers'[n].operation = operation' /\ handlers'[n].kind = kind
  /\ handlers'[n].at = place /\ handlers'[n].text = text /\ handlers'[n].files = taken
  /\ \A k \in DOMAIN handlers : handlers'[k] = handlers[k]
  /\ \A k \in DOMAIN handlers' : handlers'[k].operation = operation' => k = n

\* A call adds its handler, and an operation of its own.
LEMMA OneCalls ==
  ASSUME InputParameters, I!TypeOK, OperationsTrue, NEW kind \in {"submit", "resume", "load"},
         NEW place \in Places, NEW text \in {I!NoText} \cup I!Items, NEW taken \in SUBSET I!Items,
         I!Call(kind, place, text, taken)
  PROVE  /\ operation' = operation + 1 /\ operation' \in Nat /\ handlers' \in Seq(I!Handler)
         /\ \E n : IsLast(n, kind, place, text, taken)
         /\ OperationsTrue'
<1> DEFINE q == [kind |-> kind, operation |-> operation', text |-> text, files |-> taken, at |-> place]
<1>1. operation \in Nat /\ operation' = operation + 1 /\ operation' \in Nat /\ handlers' = Append(handlers, q)
  BY DEF I!Call, I!TypeOK
<1>2. /\ q \in I!Handler /\ q.at = place /\ q.operation = operation' /\ q.kind = kind
      /\ q.text = text /\ q.files = taken
  BY <1>1 DEF I!Handler, Places
<1> HIDE DEF q
<1>3. handlers \in Seq(I!Handler)
  BY DEF I!TypeOK
<1>4. /\ handlers' \in Seq(I!Handler) /\ Len(handlers') = Len(handlers) + 1 /\ Len(handlers) \in Nat
      /\ \A k \in 1..Len(handlers) : handlers'[k] = handlers[k]
      /\ handlers'[Len(handlers) + 1] = q
  BY <1>1, <1>2, <1>3
<1>5. DOMAIN handlers = 1..Len(handlers) /\ DOMAIN handlers' = 1..(Len(handlers) + 1)
  BY <1>3, <1>4
<1>6. \A k \in DOMAIN handlers : handlers[k].operation \in Nat
  BY <1>3, HandlerFields
<1> DEFINE n == Len(handlers) + 1
<1>7. n \in DOMAIN handlers' /\ DOMAIN handlers' = DOMAIN handlers \cup {n} /\ n \notin DOMAIN handlers
  BY <1>4, <1>5
<1>8. handlers'[n] = q /\ \A k \in DOMAIN handlers : handlers'[k] = handlers[k]
  BY <1>4, <1>5
<1> HIDE DEF n
<1>9. \A k \in DOMAIN handlers : handlers'[k].operation <= operation
  BY <1>8 DEF OperationsTrue
<1>10. \A k \in DOMAIN handlers' : handlers'[k].operation = operation' => k = n
  BY <1>1, <1>6, <1>7, <1>8, <1>9
<1>11. OperationsTrue'
  <2>1. \A k \in DOMAIN handlers' : handlers'[k].operation <= operation'
    BY <1>1, <1>2, <1>6, <1>7, <1>8, <1>9
  <2>2. \A k, m \in DOMAIN handlers' : handlers'[k].operation = handlers'[m].operation => k = m
    BY <1>2, <1>7, <1>8, <1>10 DEF OperationsTrue
  <2> QED
    BY <2>1, <2>2 DEF OperationsTrue
<1>12. IsLast(n, kind, place, text, taken)
  BY <1>2, <1>7, <1>8, <1>10 DEF IsLast
<1> QED
  BY <1>1, <1>4, <1>11, <1>12

\* One handler is current.
LEMMA OnlyOne ==
  ASSUME InputInv, NEW h \in DOMAIN handlers, I!Current(h)
  PROVE  \A k \in DOMAIN handlers : I!Current(k) => k = h
BY DEF InputInv, OperationsTrue, I!Current

\* A step that leaves the input and what is on its way alone.
LEMMA InputUntouched ==
  ASSUME ItemsTrue, I!InputIsKept, I!Pending' = I!Pending,
         UNCHANGED <<generation, draft, attachments, uploading, uploads, runs, given, items>>
  PROVE  ItemsTrue' /\ I!InputIsKept'
<1>1. I!Composed' = I!Composed
  BY DEF I!Composed, I!InputOf
<1>2. I!Sent(TRUE)' = I!Sent(TRUE)
  BY DEF I!Sent
<1>3. ItemsTrue'
  BY DEF ItemsTrue
<1>4. I!InputIsKept'
  BY <1>1, <1>2 DEF I!InputIsKept
<1> QED
  BY <1>3, <1>4

\* A current handler that sends nothing goes on.
LEMMA CurrentGoesOn ==
  ASSUME InputParameters, InputInv, NEW h \in DOMAIN handlers, I!Current(h),
         handlers[h].at \notin {"thread", "create"},
         NEW place \in Places \ {"thread", "create", "post"}, I!Goes(h, place),
         UNCHANGED <<operation, generation, draft, attachments, uploading, uploads, runs, given, items>>
  PROVE  /\ handlers' \in Seq(I!Handler) /\ OperationsTrue' /\ PlacesTrue' /\ ItemsTrue'
         /\ SubmissionsTrue' /\ I!InputIsKept'
         /\ DOMAIN handlers' = DOMAIN handlers
         /\ I!Current(h)' /\ handlers'[h].at = place /\ handlers'[h].kind = handlers[h].kind
<1>1. /\ handlers' \in Seq(I!Handler) /\ DOMAIN handlers' = DOMAIN handlers
      /\ handlers'[h].at = place
      /\ \A k \in DOMAIN handlers :
           /\ handlers'[k].operation = handlers[k].operation /\ handlers'[k].kind = handlers[k].kind
           /\ k # h => handlers'[k].at = handlers[k].at
  BY OneGoes DEF InputInv, I!TypeOK
<1>2. OperationsTrue'
  BY <1>1 DEF InputInv, OperationsTrue
<1>3. PlacesTrue'
  BY <1>1 DEF InputInv, PlacesTrue
<1>4. handlers[h].operation = operation /\ \A k \in DOMAIN handlers : handlers[k].operation = operation => k = h
  BY OnlyOne DEF I!Current
<1>5. I!Pending = {}
  BY <1>4, OneHasIt, PendingIs
<1>6. I!Pending' = {}
  <2>1. \A k \in DOMAIN handlers' : handlers'[k].operation = operation' => handlers'[k].at \notin {"thread", "create"}
    BY <1>1, <1>4
  <2> QED
    BY <2>1, NobodyHasIt, PendingIs
<1>7. ItemsTrue' /\ I!InputIsKept'
  BY <1>5, <1>6, InputUntouched DEF InputInv
<1>8. SubmissionsTrue'
  BY <1>1, <1>4 DEF SubmissionsTrue, Sending, I!Current
<1> QED
  BY <1>1, <1>2, <1>3, <1>4, <1>7, <1>8 DEF I!Current

\* A handler that is not current is over.
LEMMA OtherIsOver ==
  ASSUME InputParameters, InputInv, NEW h \in DOMAIN handlers, ~I!Current(h), I!Goes(h, "over"),
         UNCHANGED <<hasThread, operation, generation, draft, attachments, uploading, submitting,
                     loading, runStatus, question, resuming, uploads, runs, given, items, visits,
                     answeredEarly>>
  PROVE  InputInv'
<1>1. /\ handlers' \in Seq(I!Handler) /\ DOMAIN handlers' = DOMAIN handlers
      /\ handlers'[h].at = "over"
      /\ \A k \in DOMAIN handlers :
           /\ handlers'[k].operation = handlers[k].operation /\ handlers'[k].kind = handlers[k].kind
           /\ handlers'[k].text = handlers[k].text /\ handlers'[k].files = handlers[k].files
           /\ k # h => handlers'[k].at = handlers[k].at
  BY OneGoes DEF InputInv, I!TypeOK, Places
<1>2. OperationsTrue'
  BY <1>1 DEF InputInv, OperationsTrue
<1>3. PlacesTrue'
  BY <1>1 DEF InputInv, PlacesTrue
<1>4. I!Pending' = I!Pending
  <2>1. {k \in DOMAIN handlers' : handlers'[k].operation = operation' /\ handlers'[k].at \in {"thread", "create"}}
        = {k \in DOMAIN handlers : handlers[k].operation = operation /\ handlers[k].at \in {"thread", "create"}}
    BY <1>1 DEF I!Current
  <2> QED
    BY <1>1, <2>1, PendingIs DEF PendingOf
<1>5. ItemsTrue' /\ I!InputIsKept'
  BY <1>4, InputUntouched DEF InputInv
<1>6. SubmissionsTrue'
  BY <1>1 DEF InputInv, SubmissionsTrue, Sending, I!Current
<1>7. ClosedForOne'
  <2>1. \A k \in DOMAIN handlers : I!Current(k) => handlers'[k].at = handlers[k].at /\ I!Current(k)'
    BY <1>1 DEF I!Current
  <2>2. \A k \in DOMAIN handlers : Awaited(k) => Awaited(k)'
    BY <1>1, <2>1 DEF Awaited
  <2> QED
    BY <1>1, <2>1, <2>2 DEF InputInv, ClosedForOne
<1>8. I!TypeOK'
  BY <1>1 DEF InputInv, I!TypeOK
<1> QED
  BY <1>2, <1>3, <1>5, <1>6, <1>7, <1>8 DEF InputInv

\* The uploads of a visit.
UploadsOf(us, g) == {u \in us : u.generation = g}

\* What is said of the input, now and after a step.
LEMMA KeptMeans ==
  /\ I!InputIsKept <=>
       /\ I!Composed \cup I!Pending \cup I!Sent(TRUE) = given
       /\ I!Composed \cap I!Pending = {} /\ (I!Composed \cup I!Pending) \cap I!Sent(TRUE) = {}
       /\ uploading = Cardinality(UploadsOf(uploads, generation))
  /\ I!InputIsKept' <=>
       /\ I!Composed' \cup I!Pending' \cup I!Sent(TRUE)' = given'
       /\ I!Composed' \cap I!Pending' = {} /\ (I!Composed' \cup I!Pending') \cap I!Sent(TRUE)' = {}
       /\ uploading' = Cardinality(UploadsOf(uploads', generation'))
<1>1. \A W : I!Cardinality(W) = Cardinality(W)
  BY DEF I!Cardinality, Cardinality
<1> QED
  BY <1>1 DEF I!InputIsKept, UploadsOf

\* Of the input nothing is on its way while the user may write.
LEMMA NothingIsSent ==
  ASSUME InputInv,
         ~submitting \/ runStatus = "active" \/ question \/ attachments # {} \/ uploading # 0
  PROVE  I!Pending = {} /\ \A h \in DOMAIN handlers : ~Sending(h)
<1>1. \A h \in DOMAIN handlers : ~Sending(h)
  BY DEF InputInv, SubmissionsTrue
<1>2. \A h \in DOMAIN handlers : handlers[h].operation = operation => handlers[h].at \notin {"thread", "create"}
  BY <1>1 DEF Sending, I!Current
<1> QED
  BY <1>1, <1>2, NobodyHasIt, PendingIs

\* A step of the user: the handlers stay where they are.
LEMMA HandlersStay ==
  ASSUME InputInv, UNCHANGED <<operation, handlers, submitting, loading, question, resuming, answeredEarly>>
  PROVE  /\ I!Pending' = I!Pending /\ OperationsTrue' /\ PlacesTrue' /\ ClosedForOne'
         /\ \A h \in DOMAIN handlers' : h \in DOMAIN handlers /\ (Sending(h)' <=> Sending(h))
<1>1. I!Pending' = I!Pending
  BY PendingIs
<1>2. OperationsTrue' /\ PlacesTrue'
  BY DEF InputInv, OperationsTrue, PlacesTrue
<1>3. ClosedForOne'
  BY DEF InputInv, ClosedForOne, Awaited, I!Current
<1>4. \A h \in DOMAIN handlers' : h \in DOMAIN handlers /\ (Sending(h)' <=> Sending(h))
  BY DEF Sending, I!Current
<1> QED
  BY <1>1, <1>2, <1>3, <1>4

\* The user writes.
LEMMA TypeKeeps ==
  ASSUME InputParameters, InputInv, I!Type
  PROVE  InputInv'
<1>1. /\ ~submitting \/ runStatus = "active"
      /\ items < MaxItems /\ items' = items + 1 /\ draft' = items' /\ given' = (given \ {draft}) \cup {items'}
      /\ UNCHANGED <<hasThread, operation, generation, attachments, uploading, submitting, loading,
                     runStatus, question, resuming, handlers, uploads, runs, visits, answeredEarly>>
  BY DEF I!Type, I!InputDisabled
<1>2. I!Pending = {} /\ \A h \in DOMAIN handlers : ~Sending(h)
  BY <1>1, NothingIsSent
<1>3. /\ I!Pending' = I!Pending /\ OperationsTrue' /\ PlacesTrue' /\ ClosedForOne'
      /\ \A h \in DOMAIN handlers' : h \in DOMAIN handlers /\ (Sending(h)' <=> Sending(h))
  BY <1>1, HandlersStay
<1>4. SubmissionsTrue'
  BY <1>2, <1>3 DEF SubmissionsTrue
<1>5. items \in Nat /\ MaxItems \in Nat /\ items' \in Nat /\ items' <= MaxItems
  BY <1>1 DEF InputInv, I!TypeOK, InputParameters
<1>6. given \subseteq 1..items /\ items' \notin given
  BY <1>1, <1>5 DEF InputInv, ItemsTrue
<1>7. I!TypeOK'
  <2>1. draft' \in I!Items /\ given' \subseteq I!Items
    <3>1. items + 1 \in I!Items
      BY <1>1, <1>5 DEF I!Items
    <3>2. given \subseteq I!Items
      BY DEF InputInv, I!TypeOK
    <3> QED
      BY <1>1, <3>1, <3>2
  <2>2. items' \in 0..MaxItems
    BY <1>5
  <2> QED
    BY <1>1, <2>1, <2>2 DEF InputInv, I!TypeOK
<1>8. I!Sent(TRUE)' = I!Sent(TRUE)
  BY <1>1 DEF I!Sent
<1>9. /\ draft # 0 => I!Composed = attachments \cup {draft}
      /\ draft = 0 => I!Composed = attachments
      /\ I!Composed' = attachments \cup {items'}
  BY <1>1, <1>5 DEF I!Composed, I!InputOf, I!NoText
<1>10. I!InputIsKept
  BY DEF InputInv
<1>11. 0 \notin given /\ draft \notin attachments /\ items' \notin attachments
  <2>1. attachments \subseteq given
    BY <1>9, <1>10, KeptMeans
  <2> QED
    BY <1>5, <1>6, <2>1 DEF InputInv, ItemsTrue
<1>12. I!InputIsKept'
  <2>1. I!Composed' \cup I!Pending' \cup I!Sent(TRUE)' = given'
    BY ZenonT(40), <1>1, <1>2, <1>3, <1>8, <1>9, <1>10, <1>11, KeptMeans
  <2>2. (I!Composed' \cup I!Pending') \cap I!Sent(TRUE)' = {}
    <3>1. I!Sent(TRUE) \subseteq given /\ attachments \cap I!Sent(TRUE) = {}
      BY <1>9, <1>10, KeptMeans
    <3> QED
      BY <1>2, <1>3, <1>6, <1>8, <1>9, <3>1
  <2> QED
    BY <1>1, <1>2, <1>3, <1>10, <2>1, <2>2, KeptMeans
<1>13. ItemsTrue'
  <2>1. given' \subseteq 1..items' /\ uploading <= items' /\ draft' <= items'
    <3>1. 1..items \subseteq 1..items' /\ items' \in 1..items'
      BY <1>1, <1>5
    <3>2. given' \subseteq 1..items'
      BY <1>1, <1>6, <3>1
    <3>3. uploading \in Nat /\ uploading <= items
      BY DEF InputInv, ItemsTrue, I!TypeOK
    <3> QED
      BY <1>1, <1>5, <3>2, <3>3
  <2>2. \A u \in uploads : u.item \in Nat /\ u.item <= items /\ u.item # items' /\ u.item <= items'
    BY <1>1, <1>5 DEF InputInv, ItemsTrue, I!TypeOK, I!Items
  <2>3. \A u \in uploads : u.generation = generation => u.item \notin given'
    BY <1>1, <2>2 DEF InputInv, ItemsTrue
  <2> QED
    BY <1>1, <1>11, <2>1, <2>2, <2>3 DEF InputInv, ItemsTrue
<1> QED
  BY <1>3, <1>4, <1>7, <1>12, <1>13 DEF InputInv

\* The user takes a file back.
LEMMA RemoveAttachmentKeeps ==
  ASSUME InputParameters, InputInv, NEW item \in attachments, I!RemoveAttachment(item)
  PROVE  InputInv'
<1>1. /\ attachments' = attachments \ {item} /\ given' = given \ {item}
      /\ UNCHANGED <<hasThread, operation, generation, draft, uploading, submitting, loading,
                     runStatus, question, resuming, handlers, uploads, runs, items, visits, answeredEarly>>
  BY DEF I!RemoveAttachment
<1>2. I!Pending = {} /\ \A h \in DOMAIN handlers : ~Sending(h)
  BY NothingIsSent
<1>3. /\ I!Pending' = I!Pending /\ OperationsTrue' /\ PlacesTrue' /\ ClosedForOne'
      /\ \A h \in DOMAIN handlers' : h \in DOMAIN handlers /\ (Sending(h)' <=> Sending(h))
  BY <1>1, HandlersStay
<1>4. SubmissionsTrue'
  BY <1>2, <1>3 DEF SubmissionsTrue
<1>5. I!TypeOK'
  BY <1>1 DEF InputInv, I!TypeOK
<1>6. ItemsTrue'
  BY <1>1 DEF InputInv, ItemsTrue
<1>7. I!Composed' = I!Composed \ {item} /\ item \in I!Composed /\ I!Sent(TRUE)' = I!Sent(TRUE)
  BY <1>1 DEF InputInv, ItemsTrue, I!Composed, I!InputOf, I!Sent
<1>8. I!InputIsKept
  BY DEF InputInv
<1>9. I!InputIsKept'
  BY ZenonT(40), <1>1, <1>2, <1>3, <1>7, <1>8, KeptMeans
<1> QED
  BY <1>3, <1>4, <1>5, <1>6, <1>9 DEF InputInv

\* The uploads of a visit are finitely many.
LEMMA UploadsCount ==
  ASSUME InputInv
  PROVE  /\ IsFiniteSet(UploadsOf(uploads, generation)) /\ Cardinality(UploadsOf(uploads, generation)) \in Nat
         /\ uploading = Cardinality(UploadsOf(uploads, generation))
<1>1. IsFiniteSet(UploadsOf(uploads, generation))
  BY FS_Subset DEF InputInv, ItemsTrue, UploadsOf
<1> QED
  BY <1>1, FS_CardinalityType, KeptMeans DEF InputInv

\* The user chooses a file.
LEMMA StartUploadKeeps ==
  ASSUME InputParameters, InputInv, I!StartUpload
  PROVE  InputInv'
<1> DEFINE u == [item |-> items', generation |-> generation]
<1>1. /\ ~submitting \/ runStatus = "active"
      /\ items < MaxItems /\ items' = items + 1 /\ uploading' = uploading + 1
      /\ uploads' = uploads \cup {u}
      /\ UNCHANGED <<hasThread, operation, generation, draft, attachments, submitting, loading,
                     runStatus, question, resuming, handlers, runs, given, visits, answeredEarly>>
  BY DEF I!StartUpload, I!InputDisabled
<1>2. I!Pending = {} /\ \A h \in DOMAIN handlers : ~Sending(h)
  BY <1>1, NothingIsSent
<1>3. /\ I!Pending' = I!Pending /\ OperationsTrue' /\ PlacesTrue' /\ ClosedForOne'
      /\ \A h \in DOMAIN handlers' : h \in DOMAIN handlers /\ (Sending(h)' <=> Sending(h))
  BY <1>1, HandlersStay
<1>4. SubmissionsTrue'
  BY <1>2, <1>3 DEF SubmissionsTrue
<1>5. items \in Nat /\ MaxItems \in Nat /\ items' \in Nat /\ items' <= MaxItems /\ items' \in I!Items
  BY <1>1 DEF InputInv, I!TypeOK, InputParameters, I!Items
<1>6. uploading \in Nat /\ uploading <= items /\ uploading + 1 <= items'
  BY <1>1, <1>5 DEF InputInv, I!TypeOK, ItemsTrue
<1>7. generation \in Nat /\ u \in [item : I!Items, generation : Nat] /\ u.item = items' /\ u.generation = generation
  BY <1>5 DEF InputInv, I!TypeOK
<1> HIDE DEF u
<1>8. I!TypeOK'
  <2>1. uploads' \subseteq [item : I!Items, generation : Nat]
    BY <1>1, <1>7 DEF InputInv, I!TypeOK
  <2>2. uploading' \in 0..MaxItems /\ items' \in 0..MaxItems
    BY <1>1, <1>5, <1>6
  <2> QED
    BY <1>1, <2>1, <2>2 DEF InputInv, I!TypeOK
<1>9. given \subseteq 1..items /\ items' \notin given
  BY <1>1, <1>5 DEF InputInv, ItemsTrue
<1>10. \A v \in uploads : v.item \in Nat /\ v.item <= items /\ v.item # items' /\ v.item <= items'
  BY <1>1, <1>5 DEF InputInv, ItemsTrue, I!TypeOK, I!Items
<1>11. u \notin uploads
  BY <1>7, <1>10
<1>12. ItemsTrue'
  <2>1. draft <= items'
    BY <1>1, <1>5 DEF InputInv, ItemsTrue, I!TypeOK, I!NoText, I!Items
  <2>2. given \subseteq 1..items'
    BY <1>1, <1>5, <1>9
  <2>3. IsFiniteSet(uploads')
    BY <1>1, FS_AddElement DEF InputInv, ItemsTrue
  <2>4. \A v \in uploads' : v.item <= items' /\ v.generation <= generation
    BY <1>1, <1>5, <1>7, <1>10 DEF InputInv, ItemsTrue
  <2>5. \A v, w \in uploads' : v.item = w.item => v = w
    BY <1>1, <1>7, <1>10 DEF InputInv, ItemsTrue
  <2>6. \A v \in uploads' : v.generation = generation => v.item \notin given
    BY <1>1, <1>7, <1>9 DEF InputInv, ItemsTrue
  <2>7. draft \notin attachments
    BY DEF InputInv, ItemsTrue
  <2> QED
    BY <1>1, <1>6, <2>1, <2>2, <2>3, <2>4, <2>5, <2>6, <2>7 DEF ItemsTrue
<1>13. UploadsOf(uploads', generation') = UploadsOf(uploads, generation) \cup {u}
  BY <1>1, <1>7 DEF UploadsOf
<1>14. uploading' = Cardinality(UploadsOf(uploads', generation'))
  <2>1. u \notin UploadsOf(uploads, generation)
    BY <1>11 DEF UploadsOf
  <2> QED
    BY <1>1, <1>13, <2>1, UploadsCount, FS_AddElement
<1>15. I!Composed' = I!Composed /\ I!Sent(TRUE)' = I!Sent(TRUE)
  BY <1>1 DEF I!Composed, I!InputOf, I!Sent
<1>16. I!InputIsKept'
  BY <1>1, <1>3, <1>14, <1>15, KeptMeans DEF InputInv
<1> QED
  BY <1>3, <1>4, <1>8, <1>12, <1>16 DEF InputInv

\* A file comes, or does not: one of the page that is shown waits no longer.
LEMMA FinishUploadKeeps ==
  ASSUME InputParameters, InputInv, NEW u \in uploads, I!FinishUpload(u)
  PROVE  InputInv'
<1>1. /\ uploads' = uploads \ {u}
      /\ uploading' = IF u.generation = generation /\ uploading > 0 THEN uploading - 1 ELSE uploading
      /\ \/ /\ attachments' = attachments \cup {i \in {u.item} : u.generation = generation}
            /\ given' = given \cup {i \in {u.item} : u.generation = generation}
         \/ UNCHANGED <<attachments, given>>
      /\ UNCHANGED <<hasThread, operation, generation, draft, submitting, loading, runStatus,
                     question, resuming, handlers, runs, items, visits, answeredEarly>>
  BY DEF I!FinishUpload, I!OfThisPage
<1>2. /\ I!Pending' = I!Pending /\ OperationsTrue' /\ PlacesTrue' /\ ClosedForOne'
      /\ \A h \in DOMAIN handlers' : h \in DOMAIN handlers /\ (Sending(h)' <=> Sending(h))
  BY <1>1, HandlersStay
<1>3. I!Sent(TRUE)' = I!Sent(TRUE)
  BY <1>1 DEF I!Sent
<1>4. MaxItems \in Nat /\ uploading \in Nat /\ uploading <= MaxItems /\ uploading <= items /\ items \in Nat
  BY DEF InputInv, I!TypeOK, ItemsTrue, InputParameters
<1>5. u.item \in I!Items /\ u.item \in Nat /\ u.item > 0 /\ u.item <= items
  BY DEF InputInv, I!TypeOK, ItemsTrue, I!Items, InputParameters
<1>6. IsFiniteSet(uploads') /\ \A v \in uploads' : v \in uploads /\ v.item # u.item
  BY <1>1, FS_RemoveElement DEF InputInv, ItemsTrue
<1>7. I!InputIsKept
  BY DEF InputInv
<1>8. CASE u.generation # generation
  <2>1. UNCHANGED <<attachments, given, uploading>>
    BY <1>1, <1>8
  <2>2. UploadsOf(uploads', generation') = UploadsOf(uploads, generation)
    BY <1>1, <1>8 DEF UploadsOf
  <2>3. I!Composed' = I!Composed
    BY <1>1, <2>1 DEF I!Composed, I!InputOf
  <2>4. I!InputIsKept'
    BY <1>2, <1>3, <1>7, <2>1, <2>2, <2>3, KeptMeans
  <2>5. SubmissionsTrue'
    BY <1>1, <1>2, <2>1 DEF InputInv, SubmissionsTrue
  <2>6. ItemsTrue'
    BY <1>1, <1>6, <2>1 DEF InputInv, ItemsTrue
  <2>7. I!TypeOK'
    BY <1>1, <1>6, <2>1 DEF InputInv, I!TypeOK
  <2> QED
    BY <1>2, <2>4, <2>5, <2>6, <2>7 DEF InputInv
<1>9. CASE u.generation = generation
  <2>1. u \in UploadsOf(uploads, generation) /\ uploading # 0
    <3>1. u \in UploadsOf(uploads, generation)
      BY <1>9 DEF UploadsOf
    <3> QED
      BY <3>1, UploadsCount, FS_EmptySet
  <2>2. UploadsOf(uploads', generation') = UploadsOf(uploads, generation) \ {u}
    BY <1>1 DEF UploadsOf
  <2>3. uploading' = uploading - 1 /\ uploading' \in Nat /\ uploading' <= items /\ uploading' <= MaxItems
    BY <1>1, <1>4, <1>9, <2>1
  <2>4. uploading' = Cardinality(UploadsOf(uploads', generation'))
    BY <2>1, <2>2, <2>3, UploadsCount, FS_RemoveElement
  <2>5. I!Pending = {} /\ \A h \in DOMAIN handlers : ~Sending(h)
    BY <2>1, NothingIsSent
  <2>6. SubmissionsTrue'
    BY <1>2, <2>5 DEF SubmissionsTrue
  <2>7. PICK W \in {{}, {u.item}} : attachments' = attachments \cup W /\ given' = given \cup W
    <3>1. {i \in {u.item} : u.generation = generation} = {u.item}
      BY <1>9
    <3> QED
      BY <1>1, <3>1
  <2>8. I!Composed' = I!Composed \cup W
    BY <1>1, <2>7 DEF I!Composed, I!InputOf
  <2>9. u.item \notin given
    BY <1>9 DEF InputInv, ItemsTrue
  <2>10. draft \notin W
    <3>1. draft # 0 => draft \in I!Composed
      BY DEF I!Composed, I!InputOf, I!NoText
    <3>2. draft # 0 => draft \in given
      BY <1>7, <3>1, KeptMeans
    <3>3. draft # u.item
      BY <1>5, <2>9, <3>2
    <3> QED
      BY <2>7, <3>3
  <2>11. I!InputIsKept'
    <3>1. I!Sent(TRUE) \cap W = {}
      BY <1>7, <2>7, <2>9, KeptMeans
    <3>2. I!Composed \cup I!Sent(TRUE) = given /\ I!Composed \cap I!Sent(TRUE) = {}
      BY <1>7, <2>5, KeptMeans
    <3>3. /\ I!Composed' \cup I!Pending' \cup I!Sent(TRUE)' = given'
          /\ I!Composed' \cap I!Pending' = {} /\ (I!Composed' \cup I!Pending') \cap I!Sent(TRUE)' = {}
      BY <1>2, <1>3, <2>5, <2>7, <2>8, <3>1, <3>2
    <3> QED
      BY <2>4, <3>3, KeptMeans
  <2>12. ItemsTrue'
    <3>1. given' \subseteq 1..items
      <4>1. W \subseteq 1..items
        BY <1>4, <1>5, <2>7
      <4> QED
        BY <2>7, <4>1 DEF InputInv, ItemsTrue
    <3>2. draft \notin attachments'
      BY <2>7, <2>10 DEF InputInv, ItemsTrue
    <3>3. \A v \in uploads' : v.generation = generation => v.item \notin given'
      BY <1>6, <2>7 DEF InputInv, ItemsTrue
    <3> QED
      BY <1>1, <1>6, <2>3, <3>1, <3>2, <3>3 DEF InputInv, ItemsTrue
  <2>13. I!TypeOK'
    <3>1. attachments' \subseteq I!Items /\ given' \subseteq I!Items
      BY <1>5, <2>7 DEF InputInv, I!TypeOK
    <3>2. uploading' \in 0..MaxItems
      BY <2>3
    <3> QED
      BY <1>1, <1>6, <3>1, <3>2 DEF InputInv, I!TypeOK
  <2> QED
    BY <1>2, <2>6, <2>11, <2>12, <2>13 DEF InputInv
<1> QED
  BY <1>8, <1>9

\* What the user submits leaves the input, and is on its way.
LEMMA SubmitKeeps ==
  ASSUME InputParameters, InputInv, I!Submit
  PROVE  InputInv'
<1>1. PICK place \in {"thread", "create"} : I!Call("submit", place, draft, attachments)
  BY DEF I!Submit
<1>2. /\ ~loading /\ ~resuming /\ ~question /\ ~submitting /\ runStatus # "active" /\ uploading = 0
      /\ draft' = I!NoText /\ attachments' = {} /\ submitting' = TRUE
      /\ UNCHANGED <<hasThread, generation, uploading, loading, runStatus, question, resuming,
                     uploads, runs, given, items, visits, answeredEarly>>
  BY DEF I!Submit, I!InputDisabled
<1>3. /\ operation' \in Nat /\ handlers' \in Seq(I!Handler) /\ OperationsTrue'
      /\ \E n : IsLast(n, "submit", place, draft, attachments)
  <2>1. /\ draft \in {I!NoText} \cup I!Items /\ attachments \in SUBSET I!Items /\ place \in Places
        /\ I!TypeOK /\ OperationsTrue
    BY DEF InputInv, I!TypeOK, Places
  <2> QED
    BY <1>1, <2>1, OneCalls
<1>4. PICK n : IsLast(n, "submit", place, draft, attachments)
  BY <1>3
<1>5. operation' \in Nat /\ handlers' \in Seq(I!Handler) /\ OperationsTrue'
  BY <1>3
<1>6. I!TypeOK'
  BY <1>2, <1>5 DEF InputInv, I!TypeOK
<1>7. PlacesTrue'
  BY <1>4 DEF InputInv, PlacesTrue, IsLast
<1>8. draft <= items /\ draft \notin attachments /\ items \in Nat
  BY DEF InputInv, ItemsTrue, I!TypeOK
<1>9. SubmissionsTrue'
  BY <1>2, <1>4, <1>8 DEF SubmissionsTrue, Sending, I!Current, IsLast
<1>10. ClosedForOne'
  BY <1>2, <1>4 DEF ClosedForOne, Awaited, I!Current, IsLast
<1>11. ItemsTrue'
  BY <1>2, <1>8 DEF InputInv, ItemsTrue, I!NoText
<1>12. I!Pending = {}
  BY <1>2, NothingIsSent
<1>13. I!Pending' = I!Composed
  <2>1. I!Pending' = I!InputOf(draft, attachments)
    BY <1>4, OneHasIt, PendingIs DEF IsLast
  <2> QED
    BY <2>1 DEF I!Composed
<1>14. I!Composed' = {} /\ I!Sent(TRUE)' = I!Sent(TRUE)
  BY <1>2 DEF I!Composed, I!InputOf, I!Sent
<1>15. I!InputIsKept'
  BY <1>2, <1>12, <1>13, <1>14, KeptMeans DEF InputInv
<1> QED
  BY <1>5, <1>6, <1>7, <1>9, <1>10, <1>11, <1>15 DEF InputInv

\* A submission that fails gives back what it took.
LEMMA SubmitFailsKeeps ==
  ASSUME InputParameters, InputInv, NEW h \in DOMAIN handlers, Sending(h), I!SubmitFails(h),
         I!Sent(TRUE)' = I!Sent(TRUE), runs' \subseteq [items : SUBSET I!Items, answered : BOOLEAN],
         UNCHANGED <<hasThread, operation, generation, uploading, loading, runStatus, question,
                     resuming, uploads, given, items, visits, answeredEarly>>
  PROVE  InputInv'
<1>1. /\ I!Goes(h, "over") /\ draft' = handlers[h].text /\ attachments' = handlers[h].files
      /\ submitting' = FALSE
  BY DEF I!SubmitFails
<1>2. /\ handlers' \in Seq(I!Handler) /\ DOMAIN handlers' = DOMAIN handlers
      /\ handlers'[h].at = "over"
      /\ \A k \in DOMAIN handlers :
           /\ handlers'[k].operation = handlers[k].operation /\ handlers'[k].kind = handlers[k].kind
           /\ k # h => handlers'[k].at = handlers[k].at
  BY <1>1, OneGoes DEF InputInv, I!TypeOK, Places
<1>3. /\ I!Current(h) /\ handlers[h].operation = operation /\ handlers[h].at \in {"thread", "create"}
      /\ \A k \in DOMAIN handlers : handlers[k].operation = operation => k = h
  BY OnlyOne DEF Sending, I!Current
<1>4. /\ draft = I!NoText /\ attachments = {} /\ handlers[h].text \notin handlers[h].files
      /\ handlers[h].text <= items
  BY DEF InputInv, SubmissionsTrue
<1>5. handlers[h] \in I!Handler
  BY DEF InputInv, I!TypeOK
<1>6. handlers[h].text \in {I!NoText} \cup I!Items /\ handlers[h].files \subseteq I!Items
  BY <1>5, HandlerFields
<1>7. I!TypeOK'
  BY <1>1, <1>2, <1>6 DEF InputInv, I!TypeOK
<1>8. OperationsTrue' /\ PlacesTrue'
  BY <1>2 DEF InputInv, OperationsTrue, PlacesTrue
<1>9. ItemsTrue'
  BY <1>1, <1>4 DEF InputInv, ItemsTrue
<1>10. \A k \in DOMAIN handlers' : handlers'[k].operation = operation' => handlers'[k].at \notin {"thread", "create"}
  BY <1>2, <1>3
<1>11. SubmissionsTrue'
  BY <1>10 DEF SubmissionsTrue, Sending, I!Current
<1>12. ~loading /\ ~resuming
  BY <1>3 DEF InputInv, ClosedForOne, PlacesTrue, I!Current
<1>13. ClosedForOne'
  BY <1>1, <1>12 DEF ClosedForOne
<1>14. I!Pending = I!Composed' /\ I!Pending' = {} /\ I!Composed = {}
  <2>1. I!Pending = I!InputOf(handlers[h].text, handlers[h].files)
    BY <1>3, OneHasIt, PendingIs
  <2>2. I!Pending' = {}
    BY <1>10, NobodyHasIt, PendingIs
  <2> QED
    BY <1>1, <1>4, <2>1, <2>2 DEF I!Composed, I!InputOf
<1>15. I!InputIsKept'
  BY <1>14, KeptMeans DEF InputInv
<1> QED
  BY <1>7, <1>8, <1>9, <1>11, <1>13, <1>15 DEF InputInv

\* createThread answers.
LEMMA ThreadAnswersKeeps ==
  ASSUME InputParameters, InputInv, NEW h \in DOMAIN handlers, I!ThreadAnswers(h)
  PROVE  InputInv'
<1>1. /\ handlers[h].at = "thread" /\ I!Current(h)
      /\ \/ hasThread' = TRUE /\ I!Goes(h, "create") /\ UNCHANGED <<draft, attachments, submitting>>
         \/ I!SubmitFails(h) /\ UNCHANGED hasThread
      /\ UNCHANGED <<operation, generation, uploading, loading, runStatus, question, resuming,
                     uploads, runs, given, items, visits, answeredEarly>>
  BY DEF I!ThreadAnswers, I!At
<1>2. Sending(h)
  BY <1>1 DEF Sending
<1>3. CASE I!SubmitFails(h) /\ UNCHANGED hasThread
  <2>1. I!Sent(TRUE)' = I!Sent(TRUE) /\ runs' \subseteq [items : SUBSET I!Items, answered : BOOLEAN]
    BY <1>1 DEF I!Sent, InputInv, I!TypeOK
  <2> QED
    BY <1>1, <1>2, <1>3, <2>1, SubmitFailsKeeps
<1>4. CASE hasThread' = TRUE /\ I!Goes(h, "create") /\ UNCHANGED <<draft, attachments, submitting>>
  <2>1. /\ handlers' \in Seq(I!Handler) /\ DOMAIN handlers' = DOMAIN handlers
        /\ handlers'[h].at = "create"
        /\ \A k \in DOMAIN handlers :
             /\ handlers'[k].operation = handlers[k].operation /\ handlers'[k].kind = handlers[k].kind
             /\ handlers'[k].text = handlers[k].text /\ handlers'[k].files = handlers[k].files
             /\ k # h => handlers'[k].at = handlers[k].at
    BY <1>4, OneGoes DEF InputInv, I!TypeOK, Places
  <2>2. I!TypeOK'
    BY <1>1, <1>4, <2>1 DEF InputInv, I!TypeOK
  <2>3. OperationsTrue'
    BY <1>1, <2>1 DEF InputInv, OperationsTrue
  <2>4. PlacesTrue'
    BY <1>1, <2>1 DEF InputInv, PlacesTrue
  <2>5. \A k \in DOMAIN handlers : (Sending(k)' <=> Sending(k)) /\ (I!Current(k)' <=> I!Current(k))
    BY <1>1, <2>1 DEF Sending, I!Current
  <2>6. SubmissionsTrue'
    BY <1>1, <1>4, <2>1, <2>5 DEF InputInv, SubmissionsTrue
  <2>7. ClosedForOne'
    <3>1. \A k \in DOMAIN handlers : (Awaited(k)' <=> Awaited(k))
      BY <1>1, <2>1, <2>5 DEF Awaited
    <3> QED
      BY <1>1, <1>4, <2>1, <2>5, <3>1 DEF InputInv, ClosedForOne
  <2>8. I!Pending' = I!Pending
    <3>1. {k \in DOMAIN handlers' : handlers'[k].operation = operation' /\ handlers'[k].at \in {"thread", "create"}}
          = {k \in DOMAIN handlers : handlers[k].operation = operation /\ handlers[k].at \in {"thread", "create"}}
      BY <1>1, <2>1
    <3> QED
      BY <2>1, <3>1, PendingIs DEF PendingOf
  <2>9. ItemsTrue' /\ I!InputIsKept'
    BY <1>1, <1>4, <2>8, InputUntouched DEF InputInv
  <2> QED
    BY <2>2, <2>3, <2>4, <2>6, <2>7, <2>9 DEF InputInv
<1> QED
  BY <1>1, <1>3, <1>4

\* createRun answers, or does not.
LEMMA RunAnswersKeeps ==
  ASSUME InputParameters, InputInv, NEW h \in DOMAIN handlers, I!RunAnswers(h)
  PROVE  InputInv'
<1>1. PICK created \in BOOLEAN, answered \in BOOLEAN :
        /\ answered => created
        /\ runs' = IF created /\ I!Current(h)
                   THEN runs \cup {[items |-> I!Taken(h), answered |-> answered]} ELSE runs
        /\ IF ~I!Current(h)
           THEN I!Goes(h, "over") /\ UNCHANGED <<draft, attachments, submitting, runStatus>>
           ELSE IF answered
           THEN /\ I!Goes(h, "detail") /\ runStatus' = "active"
                /\ UNCHANGED <<draft, attachments, submitting>>
           ELSE I!SubmitFails(h) /\ UNCHANGED runStatus
  BY DEF I!RunAnswers
<1>2. /\ handlers[h].at = "create"
      /\ UNCHANGED <<hasThread, operation, generation, uploading, loading, question, resuming,
                     uploads, given, items, visits, answeredEarly>>
  BY DEF I!RunAnswers, I!At
<1>3. CASE ~I!Current(h)
  BY <1>1, <1>2, <1>3, OtherIsOver
<1>4. handlers[h] \in I!Handler
  BY DEF InputInv, I!TypeOK
<1>5. I!Taken(h) \subseteq I!Items
  BY <1>4, HandlerFields DEF I!Taken, I!InputOf
<1> DEFINE newRun == [items |-> I!Taken(h), answered |-> answered]
<1>6. newRun \in [items : SUBSET I!Items, answered : BOOLEAN] /\ newRun.items = I!Taken(h) /\ newRun.answered = answered
  BY <1>5
<1>7. runs' \subseteq [items : SUBSET I!Items, answered : BOOLEAN]
  BY <1>1, <1>6 DEF InputInv, I!TypeOK
<1> HIDE DEF newRun
<1>8. CASE I!Current(h) /\ ~answered
  <2>1. I!Sent(TRUE)' = I!Sent(TRUE)
    <3>1. runs' = runs \/ runs' = runs \cup {newRun}
      BY <1>1 DEF newRun
    <3>2. {q \in runs' : q.answered = TRUE} = {q \in runs : q.answered = TRUE}
      BY <1>6, <1>8, <3>1
    <3> QED
      BY <3>2 DEF I!Sent
  <2>2. Sending(h) /\ I!SubmitFails(h) /\ UNCHANGED runStatus
    BY <1>1, <1>2, <1>8 DEF Sending
  <2> QED
    BY <1>2, <1>7, <2>1, <2>2, SubmitFailsKeeps
<1>9. CASE I!Current(h) /\ answered
  <2>1. /\ I!Goes(h, "detail") /\ runStatus' = "active" /\ UNCHANGED <<draft, attachments, submitting>>
        /\ runs' = runs \cup {newRun}
    BY <1>1, <1>9 DEF newRun
  <2>2. /\ handlers' \in Seq(I!Handler) /\ DOMAIN handlers' = DOMAIN handlers
        /\ handlers'[h].at = "detail"
        /\ \A k \in DOMAIN handlers :
             /\ handlers'[k].operation = handlers[k].operation /\ handlers'[k].kind = handlers[k].kind
             /\ k # h => handlers'[k].at = handlers[k].at
    BY <2>1, OneGoes DEF InputInv, I!TypeOK, Places
  <2>3. /\ handlers[h].operation = operation /\ \A k \in DOMAIN handlers : handlers[k].operation = operation => k = h
        /\ Sending(h)
    BY <1>2, <1>9, OnlyOne DEF Sending, I!Current
  <2>4. I!TypeOK'
    BY <1>2, <1>7, <2>1, <2>2 DEF InputInv, I!TypeOK
  <2>5. OperationsTrue' /\ PlacesTrue'
    BY <1>2, <2>2 DEF InputInv, OperationsTrue, PlacesTrue
  <2>6. ItemsTrue'
    BY <1>2, <2>1 DEF InputInv, ItemsTrue
  <2>7. \A k \in DOMAIN handlers' : handlers'[k].operation = operation' => handlers'[k].at \notin {"thread", "create"}
    BY <1>2, <2>2, <2>3
  <2>8. SubmissionsTrue'
    BY <2>7 DEF SubmissionsTrue, Sending, I!Current
  <2>9. handlers[h].kind = "submit" /\ ~loading /\ ~resuming
    BY <1>2, <2>3 DEF InputInv, ClosedForOne, PlacesTrue, I!Current
  <2>10. ClosedForOne'
    BY <1>2, <2>2, <2>3, <2>9 DEF ClosedForOne, Awaited, I!Current
  <2>11. I!Pending = I!Taken(h) /\ I!Pending' = {}
    <3>1. I!Pending = I!Taken(h)
      BY <1>2, <2>3, OneHasIt, PendingIs DEF I!Taken
    <3> QED
      BY <2>7, <3>1, NobodyHasIt, PendingIs
  <2>12. I!Sent(TRUE)' = I!Sent(TRUE) \cup I!Taken(h)
    <3>1. {q \in runs' : q.answered = TRUE} = {q \in runs : q.answered = TRUE} \cup {newRun}
      BY <1>6, <1>9, <2>1
    <3> QED
      BY <1>6, <3>1 DEF I!Sent
  <2>13. I!Composed' = I!Composed
    BY <2>1 DEF I!Composed, I!InputOf
  <2>14. I!InputIsKept'
    BY <1>2, <2>11, <2>12, <2>13, KeptMeans DEF InputInv
  <2> QED
    BY <2>4, <2>5, <2>6, <2>8, <2>10, <2>14 DEF InputInv
<1> QED
  BY <1>3, <1>8, <1>9

\* The current handler at its place: who else waits for it.
LEMMA WaitedFor ==
  ASSUME InputInv, NEW h \in DOMAIN handlers, I!Current(h)
  PROVE  /\ loading => handlers[h].at = "detail" /\ handlers[h].kind = "load"
         /\ resuming => handlers[h].at = "post"
         /\ submitting => answeredEarly \/ (handlers[h].kind = "submit" /\ handlers[h].at # "over")
BY OnlyOne DEF InputInv, ClosedForOne, Awaited

\* loadAndApplyThread of a submission.
LEMMA DetailAnswersKeeps ==
  ASSUME InputParameters, InputInv, NEW h \in DOMAIN handlers, I!DetailAnswers(h)
  PROVE  InputInv'
<1>1. /\ handlers[h].at = "detail" /\ I!Current(h) /\ handlers[h].kind = "submit"
      /\ \/ I!Goes(h, "monitor") /\ UNCHANGED <<submitting, runStatus, question>>
         \/ I!Goes(h, "over") /\ submitting' = FALSE /\ runStatus' = "ended" /\ question' \in BOOLEAN
      /\ UNCHANGED <<hasThread, operation, generation, draft, attachments, uploading, loading,
                     resuming, uploads, runs, given, items, visits, answeredEarly>>
  BY DEF I!DetailAnswers, I!At, I!Returns
<1>2. PICK place \in {"monitor", "over"} :
        /\ I!Goes(h, place)
        /\ place = "monitor" => UNCHANGED <<submitting, runStatus, question>>
        /\ place = "over" => submitting' = FALSE /\ runStatus' = "ended" /\ question' \in BOOLEAN
  BY <1>1
<1>3. place \in Places \ {"thread", "create", "post"}
  BY <1>2 DEF Places
<1>4. /\ handlers' \in Seq(I!Handler) /\ OperationsTrue' /\ PlacesTrue' /\ ItemsTrue'
      /\ SubmissionsTrue' /\ I!InputIsKept' /\ DOMAIN handlers' = DOMAIN handlers
      /\ I!Current(h)' /\ handlers'[h].at = place /\ handlers'[h].kind = handlers[h].kind
  BY <1>1, <1>2, <1>3, CurrentGoesOn
<1>5. ~loading /\ ~resuming
  BY <1>1, WaitedFor
<1>6. ClosedForOne'
  BY <1>1, <1>2, <1>4, <1>5 DEF ClosedForOne, Awaited
<1>7. I!TypeOK'
  BY <1>1, <1>2, <1>4 DEF InputInv, I!TypeOK
<1> QED
  BY <1>4, <1>6, <1>7 DEF InputInv

\* The run asks.
LEMMA QuestionComesKeeps ==
  ASSUME InputParameters, InputInv, NEW h \in DOMAIN handlers, I!QuestionComes(h)
  PROVE  InputInv'
<1>1. /\ handlers[h].at = "monitor" /\ I!Current(h) /\ runStatus = "active" /\ question' = TRUE
      /\ UNCHANGED <<hasThread, operation, generation, draft, attachments, uploading, submitting,
                     loading, runStatus, resuming, handlers, uploads, runs, given, items, visits,
                     answeredEarly>>
  BY DEF I!QuestionComes, I!At
<1>2. I!Pending' = I!Pending
  BY <1>1, PendingIs
<1>3. ItemsTrue' /\ I!InputIsKept'
  BY <1>1, <1>2, InputUntouched DEF InputInv
<1>4. OperationsTrue' /\ PlacesTrue'
  BY <1>1 DEF InputInv, OperationsTrue, PlacesTrue
<1>5. \A k \in DOMAIN handlers : ~Sending(k)
  BY <1>1, NothingIsSent
<1>6. SubmissionsTrue'
  BY <1>1, <1>5 DEF SubmissionsTrue, Sending, I!Current
<1>7. ~loading
  BY <1>1, WaitedFor
<1>8. ClosedForOne'
  BY <1>1, <1>7 DEF InputInv, ClosedForOne, Awaited, I!Current
<1>9. I!TypeOK'
  BY <1>1 DEF InputInv, I!TypeOK
<1> QED
  BY <1>3, <1>4, <1>6, <1>8, <1>9 DEF InputInv

\* The run ends, the thread is read again, and the handler returns.
LEMMA RunEndsKeeps ==
  ASSUME InputParameters, InputInv, NEW h \in DOMAIN handlers, I!EndComes(h) \/ I!ReloadAnswers(h)
  PROVE  InputInv'
<1>1. PICK place \in {"reload", "over"} :
        /\ handlers[h].at \in {"monitor", "reload"} /\ I!Current(h) /\ I!Goes(h, place)
        /\ place = "reload" => runStatus' = "ended" /\ UNCHANGED submitting
        /\ place = "over" => /\ submitting' = IF handlers[h].kind = "submit" THEN FALSE ELSE submitting
                             /\ UNCHANGED runStatus
        /\ UNCHANGED <<hasThread, operation, generation, draft, attachments, uploading, loading,
                       question, resuming, uploads, runs, given, items, visits, answeredEarly>>
  BY DEF I!EndComes, I!ReloadAnswers, I!Returns, I!At
<1>2. place \in Places \ {"thread", "create", "post"}
  BY <1>1 DEF Places
<1>3. /\ handlers' \in Seq(I!Handler) /\ OperationsTrue' /\ PlacesTrue' /\ ItemsTrue'
      /\ SubmissionsTrue' /\ I!InputIsKept' /\ DOMAIN handlers' = DOMAIN handlers
      /\ I!Current(h)' /\ handlers'[h].at = place /\ handlers'[h].kind = handlers[h].kind
  BY <1>1, <1>2, CurrentGoesOn
<1>4. /\ ~loading /\ ~resuming
      /\ submitting => answeredEarly \/ handlers[h].kind = "submit"
  BY <1>1, WaitedFor
<1>5. ClosedForOne'
  <2>1. ~loading' /\ ~resuming'
    BY <1>1, <1>4
  <2>2. CASE place = "reload"
    <3>1. Awaited(h)'
      BY <1>3, <2>2 DEF Awaited
    <3> QED
      BY <1>1, <1>3, <1>4, <2>1, <2>2, <3>1 DEF ClosedForOne
  <2>3. CASE place = "over"
    <3>1. submitting' => answeredEarly'
      BY <1>1, <1>4, <2>3
    <3> QED
      BY <2>1, <3>1 DEF ClosedForOne
  <2> QED
    BY <1>1, <2>2, <2>3
<1>6. I!TypeOK'
  BY <1>1, <1>3 DEF InputInv, I!TypeOK
<1> QED
  BY <1>3, <1>5, <1>6 DEF InputInv

\* A thread is loaded.
LEMMA ThreadLoadsKeeps ==
  ASSUME InputParameters, InputInv, NEW h \in DOMAIN handlers, I!ThreadLoads(h)
  PROVE  InputInv'
<1>1. PICK place \in {"monitor", "over"} :
        /\ handlers[h].at = "detail" /\ I!Current(h) /\ handlers[h].kind = "load" /\ I!Goes(h, place)
        /\ hasThread' \in BOOLEAN /\ question' \in BOOLEAN /\ runStatus' \in {"none", "active", "ended"}
        /\ loading' = FALSE
        /\ UNCHANGED <<operation, generation, draft, attachments, uploading, submitting, resuming,
                       uploads, runs, given, items, visits, answeredEarly>>
  <2>1. hasThread \in BOOLEAN /\ question \in BOOLEAN /\ runStatus \in {"none", "active", "ended"}
    BY DEF InputInv, I!TypeOK
  <2>2. hasThread' \in BOOLEAN /\ question' \in BOOLEAN /\ runStatus' \in {"none", "active", "ended"}
    BY <2>1 DEF I!ThreadLoads
  <2>3. I!Goes(h, "monitor") \/ I!Goes(h, "over")
    BY DEF I!ThreadLoads
  <2> QED
    BY <2>2, <2>3 DEF I!ThreadLoads, I!At
<1>2. place \in Places \ {"thread", "create", "post"}
  BY <1>1 DEF Places
<1>3. /\ handlers' \in Seq(I!Handler) /\ OperationsTrue' /\ PlacesTrue' /\ ItemsTrue'
      /\ SubmissionsTrue' /\ I!InputIsKept' /\ DOMAIN handlers' = DOMAIN handlers
      /\ I!Current(h)' /\ handlers'[h].at = place /\ handlers'[h].kind = handlers[h].kind
  BY <1>1, <1>2, CurrentGoesOn
<1>4. ~resuming /\ (submitting => answeredEarly)
  BY <1>1, WaitedFor
<1>5. ClosedForOne'
  BY <1>1, <1>4 DEF ClosedForOne
<1>6. I!TypeOK'
  BY <1>1, <1>3 DEF InputInv, I!TypeOK
<1> QED
  BY <1>3, <1>5, <1>6 DEF InputInv

\* resumeRun answers.
LEMMA ResumeAnswersKeeps ==
  ASSUME InputParameters, InputInv, NEW h \in DOMAIN handlers, I!ResumeAnswers(h)
  PROVE  InputInv'
<1>1. /\ handlers[h].at = "post"
      /\ UNCHANGED <<hasThread, operation, generation, draft, attachments, uploading, submitting,
                     loading, uploads, runs, given, items, visits, answeredEarly>>
  BY DEF I!ResumeAnswers, I!At
<1>2. CASE ~I!Current(h)
  <2>1. I!Goes(h, "over") /\ UNCHANGED <<runStatus, question, resuming>>
    BY <1>2 DEF I!ResumeAnswers
  <2> QED
    BY <1>1, <1>2, <2>1, OtherIsOver
<1>3. CASE I!Current(h)
  <2>1. PICK place \in {"monitor", "over"} :
          /\ I!Goes(h, place) /\ resuming' = FALSE
          /\ question' \in {FALSE, question} /\ runStatus' \in {"active", runStatus}
    BY <1>3 DEF I!ResumeAnswers
  <2>2. place \in Places \ {"thread", "create", "post"}
    BY <2>1 DEF Places
  <2>3. /\ handlers' \in Seq(I!Handler) /\ OperationsTrue' /\ PlacesTrue' /\ ItemsTrue'
        /\ SubmissionsTrue' /\ I!InputIsKept' /\ DOMAIN handlers' = DOMAIN handlers
        /\ I!Current(h)' /\ handlers'[h].at = place /\ handlers'[h].kind = handlers[h].kind
    BY <1>1, <1>3, <2>1, <2>2, CurrentGoesOn
  <2>4. handlers[h].kind = "resume"
    BY <1>1 DEF InputInv, PlacesTrue
  <2>5. ~loading /\ (submitting => answeredEarly)
    BY <1>1, <1>3, <2>4, WaitedFor
  <2>6. ClosedForOne'
    BY <1>1, <2>1, <2>5 DEF ClosedForOne
  <2>7. I!TypeOK'
    BY <1>1, <2>1, <2>3 DEF InputInv, I!TypeOK
  <2> QED
    BY <2>3, <2>6, <2>7 DEF InputInv
<1> QED
  BY <1>2, <1>3

\* The user answers the question.
LEMMA AnswerKeeps ==
  ASSUME InputParameters, InputInv, I!Answer
  PROVE  InputInv'
<1>1. /\ question /\ I!Call("resume", "post", I!NoText, {}) /\ resuming' = TRUE
      /\ answeredEarly' = (answeredEarly \/ submitting)
      /\ UNCHANGED <<hasThread, generation, draft, attachments, uploading, submitting, loading,
                     runStatus, question, uploads, runs, given, items, visits>>
  BY DEF I!Answer
<1>2. /\ operation' \in Nat /\ handlers' \in Seq(I!Handler) /\ OperationsTrue'
      /\ \E n : IsLast(n, "resume", "post", I!NoText, {})
  <2>1. "post" \in Places /\ I!TypeOK /\ OperationsTrue /\ {} \in SUBSET I!Items
    BY DEF InputInv, Places
  <2> QED
    BY <1>1, <2>1, OneCalls
<1>3. PICK n : IsLast(n, "resume", "post", I!NoText, {})
  BY <1>2
<1>4. {answeredEarly, submitting} \subseteq BOOLEAN
  BY DEF InputInv, I!TypeOK
<1>5. answeredEarly' \in BOOLEAN
  BY <1>1, <1>4
<1>6. I!TypeOK'
  BY <1>1, <1>2, <1>5 DEF InputInv, I!TypeOK
<1>7. PlacesTrue'
  BY <1>3 DEF InputInv, PlacesTrue, IsLast
<1>8. \A k \in DOMAIN handlers' : handlers'[k].operation = operation' => handlers'[k].at \notin {"thread", "create"}
  BY <1>3 DEF IsLast
<1>9. I!Pending = {} /\ I!Pending' = {}
  BY <1>1, <1>8, NothingIsSent, NobodyHasIt, PendingIs
<1>10. ItemsTrue' /\ I!InputIsKept'
  BY <1>1, <1>9, InputUntouched DEF InputInv
<1>11. SubmissionsTrue'
  BY <1>8 DEF SubmissionsTrue, Sending, I!Current
<1>12. ~loading
  BY <1>1 DEF InputInv, ClosedForOne
<1>13. ClosedForOne'
  BY <1>1, <1>3, <1>12 DEF ClosedForOne, I!Current, IsLast
<1> QED
  BY <1>2, <1>6, <1>7, <1>10, <1>11, <1>13 DEF InputInv

\* The page is left: nothing of it is left, and its uploads are of another page.
LEMMA PageIsLeft ==
  ASSUME InputParameters, InputInv, I!Leave, UNCHANGED <<uploads, items>>, I!Pending' = {}
  PROVE  ItemsTrue' /\ I!InputIsKept'
<1>1. /\ generation' = generation + 1 /\ given' = {} /\ runs' = {}
      /\ draft' = I!NoText /\ attachments' = {} /\ uploading' = 0
  BY DEF I!Leave
<1>2. generation \in Nat /\ items \in Nat
  BY DEF InputInv, I!TypeOK
<1>3. \A u \in uploads : u.generation \in Nat /\ u.generation <= generation
  BY DEF InputInv, I!TypeOK, ItemsTrue
<1>4. \A u \in uploads : u.generation <= generation' /\ u.generation # generation'
  BY <1>1, <1>2, <1>3
<1>5. ItemsTrue'
  BY <1>1, <1>2, <1>4 DEF InputInv, ItemsTrue, I!NoText
<1>6. UploadsOf(uploads', generation') = {}
  BY <1>4 DEF UploadsOf
<1>7. uploading' = Cardinality(UploadsOf(uploads', generation'))
  BY <1>1, <1>6, FS_EmptySet
<1>8. I!Composed' = {} /\ I!Sent(TRUE)' = {}
  BY <1>1 DEF I!Composed, I!InputOf, I!Sent
<1> QED
  BY <1>1, <1>5, <1>7, <1>8, KeptMeans

\* Another thread is opened.
LEMMA OpenThreadKeeps ==
  ASSUME InputParameters, InputInv, I!OpenThread
  PROVE  InputInv'
<1>1. /\ visits < MaxVisits /\ visits' = visits + 1 /\ I!Call("load", "detail", I!NoText, {}) /\ I!Leave
      /\ hasThread' = FALSE /\ loading' = TRUE /\ UNCHANGED <<uploads, items, answeredEarly>>
  BY DEF I!OpenThread
<1>2. /\ operation' \in Nat /\ handlers' \in Seq(I!Handler) /\ OperationsTrue'
      /\ \E n : IsLast(n, "load", "detail", I!NoText, {})
  <2>1. "detail" \in Places /\ I!TypeOK /\ OperationsTrue /\ {} \in SUBSET I!Items
    BY DEF InputInv, Places
  <2> QED
    BY <1>1, <2>1, OneCalls
<1>3. PICK n : IsLast(n, "load", "detail", I!NoText, {})
  BY <1>2
<1>4. /\ generation' = generation + 1 /\ given' = {} /\ runs' = {}
      /\ runStatus' = "none" /\ question' = FALSE /\ resuming' = FALSE
      /\ draft' = I!NoText /\ attachments' = {} /\ uploading' = 0 /\ submitting' = FALSE
  BY <1>1 DEF I!Leave
<1>5. generation \in Nat /\ visits \in 1..MaxVisits /\ MaxVisits \in Nat
  BY DEF InputInv, I!TypeOK, InputParameters
<1>6. generation' \in Nat /\ visits' \in 1..MaxVisits
  BY <1>1, <1>4, <1>5
<1>7. 0 \in 0..MaxItems
  BY DEF InputParameters
<1>8. I!TypeOK'
  BY <1>1, <1>2, <1>4, <1>6, <1>7 DEF InputInv, I!TypeOK
<1>9. PlacesTrue'
  BY <1>3 DEF InputInv, PlacesTrue, IsLast
<1>10. \A k \in DOMAIN handlers' : handlers'[k].operation = operation' => handlers'[k].at \notin {"thread", "create"}
  BY <1>3 DEF IsLast
<1>11. I!Pending' = {}
  BY <1>10, NobodyHasIt, PendingIs
<1>12. ItemsTrue' /\ I!InputIsKept'
  BY <1>1, <1>11, PageIsLeft
<1>13. SubmissionsTrue'
  BY <1>10 DEF SubmissionsTrue, Sending, I!Current
<1>14. ClosedForOne'
  BY <1>3, <1>4 DEF ClosedForOne, I!Current, IsLast
<1> QED
  BY <1>2, <1>8, <1>9, <1>12, <1>13, <1>14 DEF InputInv

\* A new conversation is opened.
LEMMA NewThreadKeeps ==
  ASSUME InputParameters, InputInv, I!NewThread
  PROVE  InputInv'
<1>1. /\ visits < MaxVisits /\ visits' = visits + 1 /\ operation' = operation + 1 /\ I!Leave
      /\ hasThread' = FALSE /\ loading' = FALSE /\ UNCHANGED <<handlers, uploads, items, answeredEarly>>
  BY DEF I!NewThread
<1>2. /\ generation' = generation + 1 /\ given' = {} /\ runs' = {}
      /\ runStatus' = "none" /\ question' = FALSE /\ resuming' = FALSE
      /\ draft' = I!NoText /\ attachments' = {} /\ uploading' = 0 /\ submitting' = FALSE
  BY <1>1 DEF I!Leave
<1>3. generation \in Nat /\ operation \in Nat /\ visits \in 1..MaxVisits /\ MaxVisits \in Nat
  BY DEF InputInv, I!TypeOK, InputParameters
<1>4. generation' \in Nat /\ operation' \in Nat /\ visits' \in 1..MaxVisits
  BY <1>1, <1>2, <1>3
<1>5. 0 \in 0..MaxItems
  BY DEF InputParameters
<1>6. I!TypeOK'
  BY <1>1, <1>2, <1>4, <1>5 DEF InputInv, I!TypeOK
<1>7. handlers \in Seq(I!Handler)
  BY DEF InputInv, I!TypeOK
<1>8. \A k \in DOMAIN handlers : handlers[k].operation \in Nat
  BY <1>7, HandlerFields
<1>9. \A k \in DOMAIN handlers : handlers[k].operation <= operation' /\ handlers[k].operation # operation'
  BY <1>1, <1>3, <1>8 DEF InputInv, OperationsTrue
<1>10. OperationsTrue' /\ PlacesTrue'
  BY <1>1, <1>9 DEF InputInv, OperationsTrue, PlacesTrue
<1>11. I!Pending' = {}
  BY <1>1, <1>9, NobodyHasIt, PendingIs
<1>12. ItemsTrue' /\ I!InputIsKept'
  BY <1>1, <1>11, PageIsLeft
<1>13. SubmissionsTrue'
  BY <1>1, <1>9 DEF SubmissionsTrue, Sending, I!Current
<1>14. ClosedForOne'
  BY <1>1, <1>2 DEF ClosedForOne
<1> QED
  BY <1>6, <1>10, <1>12, <1>13, <1>14 DEF InputInv

\* Every step keeps the invariant.
LEMMA InputStep == InputParameters /\ InputInv /\ [I!Next]_I!vars => InputInv'
<1> SUFFICES ASSUME InputParameters, InputInv, [I!Next]_I!vars PROVE InputInv'
  OBVIOUS
<1>1. CASE UNCHANGED I!vars
  <2>1. /\ I!Pending' = I!Pending /\ OperationsTrue' /\ PlacesTrue' /\ ClosedForOne'
        /\ \A h \in DOMAIN handlers' : h \in DOMAIN handlers /\ (Sending(h)' <=> Sending(h))
    BY <1>1, HandlersStay DEF I!vars
  <2>2. ItemsTrue' /\ I!InputIsKept'
    BY <1>1, <2>1, InputUntouched DEF I!vars, InputInv
  <2>3. SubmissionsTrue' /\ I!TypeOK'
    BY <1>1, <2>1 DEF I!vars, InputInv, SubmissionsTrue, I!TypeOK
  <2> QED
    BY <2>1, <2>2, <2>3 DEF InputInv
<1>2. ASSUME NEW h \in DOMAIN handlers, I!Superseded(h) PROVE InputInv'
  BY <1>2, OtherIsOver DEF I!Superseded
<1> QED
  BY <1>1, <1>2, TypeKeeps, StartUploadKeeps, SubmitKeeps, AnswerKeeps, OpenThreadKeeps, NewThreadKeeps,
     FinishUploadKeeps, RemoveAttachmentKeeps, ThreadAnswersKeeps, RunAnswersKeeps, DetailAnswersKeeps,
     QuestionComesKeeps, RunEndsKeeps, ResumeAnswersKeeps, ThreadLoadsKeeps DEF I!Next

\* It is true at the start.
LEMMA InputStart == InputParameters /\ I!Init => InputInv
<1> SUFFICES ASSUME InputParameters, I!Init PROVE InputInv
  OBVIOUS
<1>1. handlers = << >> /\ DOMAIN handlers = {} /\ handlers \in Seq(I!Handler)
  BY DEF I!Init
<1>2. I!TypeOK
  <2>1. 0 \in 0..MaxItems /\ 1 \in 1..MaxVisits
    BY DEF InputParameters
  <2> QED
    BY <1>1, <2>1 DEF I!Init, I!TypeOK
<1>3. OperationsTrue /\ PlacesTrue /\ SubmissionsTrue /\ ClosedForOne
  BY <1>1 DEF I!Init, OperationsTrue, PlacesTrue, SubmissionsTrue, ClosedForOne
<1>4. ItemsTrue
  BY FS_EmptySet DEF I!Init, ItemsTrue, I!NoText
<1>5. I!Pending = {}
  BY <1>1, NobodyHasIt, PendingIs
<1>6. I!Composed = {} /\ I!Sent(TRUE) = {} /\ UploadsOf(uploads, generation) = {}
  BY DEF I!Init, I!Composed, I!InputOf, I!Sent, UploadsOf
<1>7. I!InputIsKept
  BY <1>5, <1>6, KeptMeans, FS_EmptySet DEF I!Init
<1> QED
  BY <1>2, <1>3, <1>4, <1>7 DEF InputInv

\* It says more than the property.
LEMMA InputImplies == InputInv => I!InputIsTheUsers
<1> SUFFICES ASSUME InputInv PROVE I!InputIsTheUsers
  OBVIOUS
<1>1. I!InputComesBack
  BY DEF InputInv, ClosedForOne, Awaited, I!InputComesBack, I!InputDisabled, I!At
<1> QED
  BY <1>1 DEF InputInv, I!InputIsTheUsers

\* What the user gave is in the input, on its way or in a run, once; nothing of
\* another page is in the input; and it does not stay closed (ChatView.vue: submit,
\* rollbackSubmission, uploadFiles; useChat.ts: clearPendingInput).
THEOREM InputStays == I!Spec => []I!InputIsTheUsers
<1>1. InputParameters
  BY BoundsAreNumbers DEF InputParameters
<1>2. InputInv => I!InputIsTheUsers
  BY InputImplies
<1>3. I!Init => InputInv
  BY <1>1, InputStart
<1>4. InputInv /\ [I!Next]_I!vars => InputInv'
  BY <1>1, InputStep
<1> QED
  BY <1>2, <1>3, <1>4, PTL DEF I!Spec
=============================================================================
