------------------------------- MODULE Sandbox --------------------------------
(***************************************************************************)
(* The sandboxes of the threads: SandboxMiddleware and the one              *)
(* SandboxProviderService of a process on one side, the provisioner with    *)
(* its Docker backend and its IdleReaper on the other, HTTP in between.      *)
(*                                                                         *)
(* The provider serialises the calls for one user and thread with a lock of *)
(* that key.  The provisioner serialises creations with one lock; looking   *)
(* up, deleting and reaping take none.                                      *)
(***************************************************************************)
EXTENDS Naturals, FiniteSets

CONSTANTS
  Keys,           \* pairs of user and thread; each has one sandbox id
  Runs,           \* agent runs with sandbox tools
  Destroys,       \* calls of destroy
  KeyOf,          \* the key of each of them
  MaxContainers,  \* bound on the containers ever started
  Faults,         \* the faults that may occur, a subset of FaultKinds
  MaxFaults       \* bound on their number

FaultKinds ==
  {"docker",     \* Docker refuses to run or to remove a container
   "unhealthy",  \* a container stops answering, or does not answer in time
   "timeout",    \* the client gives up; the provisioner goes on
   "restart"}    \* the provisioner is restarted

VARIABLES
  bindings,   \* provider: the URL of the bound sandbox of each key, 0: none
  closed,     \* provider: how far shutdown has come
  lock,       \* provider: who holds the acquire lock of each key
  held,       \* the runs whose state holds a sandbox id
  call,       \* the calls of the provider
  request,    \* what the provisioner does for each call
  docker,     \* the call that holds the lock of DockerBackend.create
  container,  \* the container of each sandbox id
  started,    \* containers started so far; each gets a port, hence a URL, of its own
  activity,   \* IdleReaper: what it knows of each sandbox id
  batch,      \* IdleReaper: the ids it found expired
  reaping,    \* IdleReaper: the id it has deleted and not yet forgotten
  faults      \* faults so far

vars == <<bindings, closed, lock, held, call, request, docker, container,
          started, activity, batch, reaping, faults>>

provider == <<bindings, closed, lock, held, call>>
backend == <<docker, container, started>>
reaper == <<activity, batch, reaping>>

None == "none"
Calls == Runs \cup Destroys

Container == [url : 0..MaxContainers, state : {"absent", "starting", "running", "dead"}]

NoContainer == [url |-> 0, state |-> "absent"]

\* Where a call is: waiting for the lock, or for the answer to GET, POST or
\* DELETE, or about to store the binding.  `url` is what it was answered.
Call == [at : {"idle", "locking", "getting", "creating", "deleting", "storing"},
         op : {"acquire", "release", "destroy"}, url : 0..MaxContainers]

NoCall == [at |-> "idle", op |-> "acquire", url |-> 0]

\* Where the handler is.  In the end `ok` says that it did not fail; `url` 0 is a
\* 404 then.
Request == [at : {"none", "get", "create", "wait", "touch", "delete", "forget", "done"},
            url : 0..MaxContainers, ok : BOOLEAN]

NoRequest == [at |-> "none", url |-> 0, ok |-> TRUE]

TypeOK ==
  /\ bindings \in [Keys -> 0..MaxContainers]
  /\ closed \in {"no", "emptied", "yes"}
  /\ lock \in [Keys -> Calls \cup {None}]
  /\ held \subseteq Runs
  /\ call \in [Calls -> Call]
  /\ request \in [Calls -> Request]
  /\ docker \in Calls \cup {None}
  /\ container \in [Keys -> Container]
  /\ started \in 0..MaxContainers
  /\ activity \in [Keys -> {"untracked", "fresh", "expired"}]
  /\ batch \subseteq Keys
  /\ reaping \in Keys \cup {None}
  /\ faults \in 0..MaxFaults

Init ==
  /\ bindings = [k \in Keys |-> 0]
  /\ closed = "no"
  /\ lock = [k \in Keys |-> None]
  /\ held = {}
  /\ call = [c \in Calls |-> NoCall]
  /\ request = [c \in Calls |-> NoRequest]
  /\ docker = None
  /\ container = [k \in Keys |-> NoContainer]
  /\ started = 0
  /\ activity = [k \in Keys |-> "untracked"]
  /\ batch = {}
  /\ reaping = None
  /\ faults = 0

Fault(f) == f \in Faults /\ faults < MaxFaults /\ faults' = faults + 1

Goto(c, stage) == call' = [call EXCEPT ![c].at = stage]

End(c) == call' = [call EXCEPT ![c] = NoCall]

\* The `with` block is left, however the call ends.
Unlock(c) == lock' = [k \in Keys |-> IF lock[k] = c THEN None ELSE lock[k]]

Send(c, what) == request' = [request EXCEPT ![c] = [NoRequest EXCEPT !.at = what]]

Serve(c, stage, url) ==
  request' = [request EXCEPT ![c] = [at |-> stage, url |-> url, ok |-> TRUE]]

Refuse(c) ==
  request' = [request EXCEPT ![c] = [at |-> "done", url |-> 0, ok |-> FALSE]]

-----------------------------------------------------------------------------
(* The middleware and the provider.                                        *)

\* wrap_tool_call: a run that holds an id which the provider has bound uses it
\* as it is; any other tool call acquires.
StartAcquire(r) ==
  /\ call[r].at = "idle" /\ request[r].at = "none"
  /\ ~(r \in held /\ bindings[KeyOf[r]] # 0)
  /\ closed = "no"
  /\ call' = [call EXCEPT ![r] = [NoCall EXCEPT !.at = "locking"]]
  /\ UNCHANGED <<bindings, closed, lock, held, request, backend, reaper, faults>>

\* after_agent releases the binding, if there is one, and clears the id.
AfterAgent(r) ==
  /\ call[r].at = "idle" /\ request[r].at = "none"
  /\ r \in held
  /\ IF bindings[KeyOf[r]] = 0
     THEN held' = held \ {r} /\ UNCHANGED call
     ELSE /\ call' = [call EXCEPT ![r] = [NoCall EXCEPT !.at = "locking", !.op = "release"]]
          /\ UNCHANGED held
  /\ UNCHANGED <<bindings, closed, lock, request, backend, reaper, faults>>

\* destroy: a sandbox this process has not bound is deleted without the lock.
StartDestroy(d) ==
  /\ call[d].at = "idle" /\ request[d].at = "none"
  /\ IF bindings[KeyOf[d]] # 0
     THEN /\ call' = [call EXCEPT ![d] = [NoCall EXCEPT !.at = "locking", !.op = "destroy"]]
          /\ UNCHANGED request
     ELSE /\ closed # "yes"
          /\ call' = [call EXCEPT ![d] = [NoCall EXCEPT !.at = "deleting", !.op = "destroy"]]
          /\ Send(d, "delete")
  /\ UNCHANGED <<bindings, closed, lock, held, backend, reaper, faults>>

Release(c) ==
  /\ bindings' = [bindings EXCEPT ![KeyOf[c]] = 0]
  /\ held' = held \ {c}
  /\ End(c)
  /\ UNCHANGED <<lock, request>>

\* Plausible slip: every call makes a lock of its own.
FreeLock(c) == TRUE

\* _get_acquire_lock hands the same lock to all calls for a key.
LockIsFree(c) == lock[KeyOf[c]] = None

LockKey(c) ==
  /\ call[c].at = "locking"
  /\ LockIsFree(c)
  /\ IF call[c].op = "release" THEN Release(c)
     ELSE /\ IF closed = "no"
             THEN /\ lock' = [lock EXCEPT ![KeyOf[c]] = c]
                  /\ IF call[c].op = "acquire"
                     THEN Goto(c, "getting") /\ Send(c, "get")
                     ELSE Goto(c, "deleting") /\ Send(c, "delete")
             ELSE End(c) /\ UNCHANGED <<lock, request>>
          /\ UNCHANGED <<bindings, held>>
  /\ UNCHANGED <<closed, backend, reaper, faults>>

\* Plausible slip: the lock is not taken in a `with` block.
FailLocked(c) == End(c) /\ UNCHANGED lock

Fail(c) == End(c) /\ Unlock(c)

\* The answer: an unknown sandbox is created, unless the client has been closed;
\* a deleted one is no longer bound; an error is raised.  Nobody reads the answer
\* to a call that gave up.
Answer(c) ==
  /\ request[c].at = "done"
  /\ \/ /\ call[c].at \in {"getting", "creating"} /\ request[c].url # 0
        /\ call' = [call EXCEPT ![c].at = "storing", ![c].url = request[c].url]
        /\ Send(c, "none")
        /\ UNCHANGED <<bindings, lock>>
     \/ /\ call[c].at = "getting" /\ request[c].url = 0 /\ request[c].ok
        /\ IF closed # "yes"
           THEN Goto(c, "creating") /\ Send(c, "create") /\ UNCHANGED lock
           ELSE Fail(c) /\ Send(c, "none")
        /\ UNCHANGED bindings
     \/ /\ call[c].at # "idle" /\ ~request[c].ok
        /\ Fail(c) /\ Send(c, "none")
        /\ UNCHANGED bindings
     \/ /\ call[c].at = "deleting" /\ request[c].ok
        /\ bindings' = [bindings EXCEPT ![KeyOf[c]] = 0]
        /\ End(c) /\ Unlock(c) /\ Send(c, "none")
     \/ /\ call[c].at = "idle" /\ Send(c, "none")
        /\ UNCHANGED <<call, bindings, lock>>
  /\ UNCHANGED <<closed, held, backend, reaper, faults>>

\* The client waits 30 seconds; the provisioner may wait 300 for a container.
GiveUp(c) ==
  /\ call[c].at \in {"getting", "creating", "deleting"}
  /\ request[c].at # "done"
  /\ Fault("timeout")
  /\ Fail(c)
  /\ UNCHANGED <<bindings, closed, held, request, backend, reaper>>

\* _closed is looked at again under the state lock.
Store(c) ==
  /\ call[c].at = "storing"
  /\ IF closed = "no"
     THEN /\ bindings' = [bindings EXCEPT ![KeyOf[c]] = call[c].url]
          /\ held' = held \cup {c}
     ELSE UNCHANGED <<bindings, held>>
  /\ End(c) /\ Unlock(c)
  /\ UNCHANGED <<closed, request, backend, reaper, faults>>

\* shutdown empties the dictionaries, then closes the client.
Shutdown ==
  /\ \/ closed = "no" /\ closed' = "emptied"
     \/ closed = "emptied" /\ closed' = "yes"
  /\ bindings' = [k \in Keys |-> 0]
  /\ UNCHANGED <<lock, held, call, request, backend, reaper, faults>>

-----------------------------------------------------------------------------
(* The provisioner.                                                        *)

\* get_sandbox: a container that does not answer counts as unknown.
ServeGet(c) ==
  /\ request[c].at = "get"
  /\ LET found == container[KeyOf[c]] IN
       IF found.state = "running" THEN Serve(c, "touch", found.url) ELSE Serve(c, "done", 0)
  /\ UNCHANGED <<provider, backend, reaper, faults>>

\* DockerBackend.create, up to containers.run: a container that answers is
\* kept, any other is deleted.
ServeCreate(c) ==
  /\ request[c].at = "create"
  /\ docker = None
  /\ LET k == KeyOf[c] IN
       \/ /\ container[k].state = "running"
          /\ Serve(c, "touch", container[k].url)
          /\ UNCHANGED <<backend, faults>>
       \/ /\ container[k].state # "running"
          /\ started < MaxContainers
          /\ started' = started + 1
          /\ container' = [container EXCEPT ![k] = [url |-> started', state |-> "starting"]]
          /\ docker' = c
          /\ Serve(c, "wait", started')
          /\ UNCHANGED faults
       \/ /\ container[k].state # "running"
          /\ Fault("docker") \/ (started = MaxContainers /\ UNCHANGED faults)
          /\ container' = [container EXCEPT ![k] = NoContainer]
          /\ Refuse(c)
          /\ UNCHANGED <<docker, started>>
  /\ UNCHANGED <<provider, reaper>>

\* wait_for_sandbox_ready.  When it is in vain the container is left as it is.
ServeWait(c) ==
  /\ request[c].at = "wait"
  /\ LET found == container[KeyOf[c]] IN
       \/ /\ found = [url |-> request[c].url, state |-> "running"]
          /\ Serve(c, "touch", found.url)
          /\ UNCHANGED faults
       \/ /\ found.url # request[c].url \/ found.state = "dead"
          /\ Refuse(c)
          /\ UNCHANGED faults
       \/ /\ found.url = request[c].url /\ found.state = "starting"
          /\ Fault("unhealthy")
          /\ Refuse(c)
  /\ docker' = None
  /\ UNCHANGED <<provider, container, started, reaper>>

ServeTouch(c) ==
  /\ request[c].at = "touch"
  /\ activity' = [activity EXCEPT ![KeyOf[c]] = "fresh"]
  /\ Serve(c, "done", request[c].url)
  /\ UNCHANGED <<provider, backend, batch, reaping, faults>>

\* delete_sandbox: delete, then forget.
ServeDelete(c) ==
  /\ \/ /\ request[c].at = "delete"
        /\ container' = [container EXCEPT ![KeyOf[c]] = NoContainer]
        /\ Serve(c, "forget", 0)
        /\ UNCHANGED <<activity, faults>>
     \/ /\ request[c].at = "delete"
        /\ Fault("docker")
        /\ Refuse(c)
        /\ UNCHANGED <<container, activity>>
     \/ /\ request[c].at = "forget"
        /\ activity' = [activity EXCEPT ![KeyOf[c]] = "untracked"]
        /\ Serve(c, "done", 0)
        /\ UNCHANGED <<container, faults>>
  /\ UNCHANGED <<provider, docker, started, batch, reaping>>

ContainerStarts(k) ==
  /\ container[k].state = "starting"
  /\ container' = [container EXCEPT ![k].state = "running"]
  /\ UNCHANGED <<provider, request, docker, started, reaper, faults>>

ContainerDies(k) ==
  /\ container[k].state = "running"
  /\ Fault("unhealthy")
  /\ container' = [container EXCEPT ![k].state = "dead"]
  /\ UNCHANGED <<provider, request, docker, started, reaper>>

\* The idle timeout passes.
Expire(k) ==
  /\ activity[k] = "fresh"
  /\ activity' = [activity EXCEPT ![k] = "expired"]
  /\ UNCHANGED <<provider, request, backend, batch, reaping, faults>>

\* IdleReaper._run: the expired ids are computed under the lock and deleted one
\* after the other without it.
Scan ==
  /\ batch = {}
  /\ batch' = {k \in Keys : activity[k] = "expired"}
  /\ batch' # {}
  /\ UNCHANGED <<provider, request, backend, activity, reaping, faults>>

Reap(k) ==
  /\ k \in batch /\ reaping = None
  /\ \/ /\ container' = [container EXCEPT ![k] = NoContainer]
        /\ reaping' = k
        /\ UNCHANGED <<batch, faults>>
     \/ /\ Fault("docker")
        /\ batch' = batch \ {k}
        /\ UNCHANGED <<container, reaping>>
  /\ UNCHANGED <<provider, request, docker, started, activity>>

ReapForget ==
  /\ reaping # None
  /\ activity' = [activity EXCEPT ![reaping] = "untracked"]
  /\ batch' = batch \ {reaping}
  /\ reaping' = None
  /\ UNCHANGED <<provider, request, backend, faults>>

\* Requests underway break; IdleReaper.start tracks whatever Docker lists.
Restart ==
  /\ Fault("restart")
  /\ request' = [c \in Calls |-> IF request[c].at \in {"none", "done"} THEN request[c]
                                 ELSE [at |-> "done", url |-> 0, ok |-> FALSE]]
  /\ docker' = None
  /\ activity' = [k \in Keys |-> IF container[k] = NoContainer THEN "untracked" ELSE "fresh"]
  /\ batch' = {}
  /\ reaping' = None
  /\ UNCHANGED <<provider, container, started>>

Next ==
  \/ \E r \in Runs : StartAcquire(r) \/ AfterAgent(r)
  \/ \E d \in Destroys : StartDestroy(d)
  \/ \E c \in Calls : \/ LockKey(c) \/ Answer(c) \/ GiveUp(c) \/ Store(c)
                      \/ ServeGet(c) \/ ServeCreate(c) \/ ServeWait(c)
                      \/ ServeTouch(c) \/ ServeDelete(c)
  \/ \E k \in Keys : ContainerStarts(k) \/ ContainerDies(k) \/ Expire(k) \/ Reap(k)
  \/ Shutdown \/ Scan \/ ReapForget \/ Restart

Spec == Init /\ [][Next]_vars

-----------------------------------------------------------------------------
(* What must hold.                                                         *)

\* A shut-down provider binds nothing, although calls that had passed the first
\* look at _closed come back from the provisioner afterwards.
ClosedIsEmpty == closed # "no" => \A k \in Keys : bindings[k] = 0

\* A lock is held by a call that is still on its way, however calls fail: nobody
\* waits for a call that has ended.
LocksAreReleased ==
  \A k \in Keys : lock[k] # None =>
    /\ KeyOf[lock[k]] = k
    /\ call[lock[k]].at \in {"getting", "creating", "deleting", "storing"}

MovesForward == \A k \in Keys : bindings'[k] # 0 => bindings'[k] >= bindings[k]

\* The calls for one key follow each other: an answer that is older than the
\* binding never replaces it, although containers die, are reaped and are
\* replaced in between.
BindingMovesForward == [][MovesForward]_vars

=============================================================================
