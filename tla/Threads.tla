------------------------------- MODULE Threads -------------------------------
(***************************************************************************)
(* The conversations of one user: created, renamed, written to, listed     *)
(* page by page and soft-deleted as a tree, with the runs that keep a tree *)
(* from being deleted and the subagents that make it grow.  The list is    *)
(* read by a client that follows next_cursor, and by the history panel of  *)
(* the page, which numbers its requests.                                   *)
(*                                                                         *)
(* A statement of a transaction sees what was committed before it, so the  *)
(* three statements of delete_thread are three steps.                      *)
(***************************************************************************)
EXTENDS Integers, FiniteSets

CONSTANTS
  MaxThreads,  \* bound on the conversations
  MaxClock,    \* bound on time
  MaxWrites,   \* bound on renames, messages and runs
  MaxWalks,    \* bound on the walks through the list, 0 or 1
  MaxLoads,    \* bound on the loads of the panel
  Limit,       \* conversations on a page
  Deletes      \* calls of delete_thread

VARIABLES
  clock,   \* the time
  threads, \* the conversation table, as committed
  asks,    \* transactions that found a conversation and will add a run to it
  writes,  \* renames, messages and runs so far
  delete,  \* the calls of delete_thread
  walk,    \* a client that reads the whole list
  panel,   \* the history panel
  loads    \* its requests

vars == <<clock, threads, asks, writes, delete, walk, panel, loads>>

Ids == 1..MaxThreads

\* `updated` is updated_at, `last` the created_at of the last message and `run`
\* the number of the last run, of which `active` says whether it is over.
Conversation ==
  [state : {"none", "live", "deleted"}, parent : 0..MaxThreads,
   updated : 0..MaxClock, last : 0..MaxClock, run : 0..MaxWrites, active : BOOLEAN]

NoConversation == [state |-> "none", parent |-> 0, updated |-> 0, last |-> 0,
                   run |-> 0, active |-> FALSE]

Cursor == [activity : 0..MaxClock, id : 0..MaxThreads]

\* Where every conversation is on the page that begins there.
Top == [activity |-> MaxClock, id |-> MaxThreads + 1]

\* `busy` records the runs that were active when the call began.
Delete == [at : {"idle", "listed", "checked", "done", "refused"}, root : 0..MaxThreads,
           tree : SUBSET Ids, busy : SUBSET (Ids \X (0..MaxWrites))]

\* `read` is how often it was given each conversation; `stable` records those nothing
\* happened to since the walk began.
Walk == [at : {"idle", "reading", "done"}, cursor : Cursor \cup {Top},
         read : [Ids -> Nat], stable : SUBSET Ids]

\* `removed` records what was filtered out since the last list was shown.
Panel == [version : 0..MaxLoads, loading : BOOLEAN, shown : SUBSET Ids,
          removed : SUBSET Ids]

Load == [at : {"none", "sent", "served", "received", "failed"}, items : SUBSET Ids]

TypeOK ==
  /\ clock \in 1..MaxClock
  /\ threads \in [Ids -> Conversation]
  /\ asks \subseteq Ids \X (1..MaxClock)
  /\ writes \in 0..MaxWrites
  /\ delete \in [Deletes -> Delete]
  /\ walk \in Walk
  /\ panel \in Panel
  /\ loads \in [1..MaxLoads -> Load]

Init ==
  /\ clock = 1
  /\ threads = [c \in Ids |-> NoConversation]
  /\ asks = {}
  /\ writes = 0
  /\ delete = [d \in Deletes |-> [at |-> "idle", root |-> 0, tree |-> {}, busy |-> {}]]
  /\ walk = [at |-> "idle", cursor |-> Top, read |-> [c \in Ids |-> 0], stable |-> {}]
  /\ panel = [version |-> 0, loading |-> FALSE, shown |-> {}, removed |-> {}]
  /\ loads = [v \in 1..MaxLoads |-> [at |-> "none", items |-> {}]]

Live(c) == threads[c].state = "live"

TopLevel(c) == Live(c) /\ threads[c].parent = 0

\* Whatever happens to a conversation ends its being stable.
Touch(c) == walk' = [walk EXCEPT !.stable = @ \ {c}]

Tick == clock < MaxClock /\ clock' = clock + 1
        /\ UNCHANGED <<threads, asks, writes, delete, walk, panel, loads>>

-----------------------------------------------------------------------------
(* Conversations and what is written to them.                              *)

Write == writes < MaxWrites /\ writes' = writes + 1
         /\ UNCHANGED <<clock, delete, panel, loads>>

Insert(c, parent) ==
  /\ threads[c].state = "none"
  /\ \A b \in Ids : b < c => threads[b].state # "none"
  /\ threads' = [threads EXCEPT ![c] = [NoConversation EXCEPT
                   !.state = "live", !.parent = parent, !.updated = clock]]

\* create_thread.
CreateThread(c) ==
  /\ Insert(c, 0)
  /\ UNCHANGED <<clock, asks, writes, delete, walk, panel, loads>>

\* update_thread: SQLAlchemy writes the fields that changed, and updated_at.
Rename(c) ==
  /\ Write
  /\ TopLevel(c)
  /\ threads' = [threads EXCEPT ![c].updated = clock]
  /\ Touch(c)
  /\ UNCHANGED asks

\* create_agent_run_service and _persist_record find the conversation live, and
\* insert later.
FindThread(c) ==
  /\ Write
  /\ Live(c)
  /\ asks' = asks \cup {<<c, clock>>}
  /\ UNCHANGED <<threads, walk>>

\* The input message and its run.  created_at is the time of the beginning of
\* the transaction; by now the conversation may be deleted.
StartRun(c, t) ==
  /\ <<c, t>> \in asks
  /\ asks' = asks \ {<<c, t>>}
  /\ threads' = [threads EXCEPT ![c].last = IF t > @ THEN t ELSE @,
                                ![c].run = @ + 1, ![c].active = TRUE]
  /\ Touch(c)
  /\ UNCHANGED <<clock, writes, delete, panel, loads>>

\* A running run starts a subagent: a child conversation with a run.
SpawnChild(c, p, t) ==
  /\ <<p, t>> \in asks /\ threads[p].active
  /\ asks' = asks \ {<<p, t>>}
  /\ threads[c].state = "none"
  /\ \A b \in Ids : b < c => threads[b].state # "none"
  /\ threads' = [threads EXCEPT ![c] =
       [state |-> "live", parent |-> p, updated |-> t, last |-> t,
        run |-> 1, active |-> TRUE]]
  /\ UNCHANGED <<clock, writes, delete, walk, panel, loads>>

\* The worker: the run's answer is saved with its last message, and it ends.
EndRun(c) ==
  /\ threads[c].active
  /\ threads' = [threads EXCEPT ![c].active = FALSE, ![c].last = clock]
  /\ Touch(c)
  /\ UNCHANGED <<clock, asks, writes, delete, panel, loads>>

-----------------------------------------------------------------------------
(* delete_thread.                                                          *)

\* list_tree_for_user: what the recursive query is closed under, and all it can reach.
Closed(S, root) ==
  \A c \in Ids : Live(c) /\ (c = root \/ threads[c].parent \in S) => c \in S

Tree(root) == {c \in Ids : \A S \in SUBSET Ids : Closed(S, root) => c \in S}

ActiveRuns == {<<c, threads[c].run>> : c \in {b \in Ids : threads[b].active}}

\* Plausible slip: the tree is the root.
ListTreeShallow(d) ==
  /\ delete[d].at = "idle"
  /\ \E c \in Ids :
       /\ TopLevel(c)
       /\ delete' = [delete EXCEPT ![d] = [at |-> "listed", root |-> c,
                       tree |-> {c}, busy |-> ActiveRuns]]
  /\ UNCHANGED <<clock, threads, asks, writes, walk, panel, loads>>

ListTree(d) ==
  /\ delete[d].at = "idle"
  /\ \E c \in Ids :
       /\ TopLevel(c)
       /\ delete' = [delete EXCEPT ![d] = [at |-> "listed", root |-> c,
                       tree |-> Tree(c), busy |-> ActiveRuns]]
  /\ UNCHANGED <<clock, threads, asks, writes, walk, panel, loads>>

\* has_active_for_conversations.
CheckRuns(d) ==
  /\ delete[d].at = "listed"
  /\ delete' = [delete EXCEPT ![d].at =
       IF \E c \in delete[d].tree : threads[c].active THEN "refused" ELSE "checked"]
  /\ UNCHANGED <<clock, threads, asks, writes, walk, panel, loads>>

\* soft_delete_tree; the panel takes the conversation off its list.
SoftDelete(d) ==
  /\ delete[d].at = "checked"
  /\ delete' = [delete EXCEPT ![d].at = "done"]
  /\ threads' = [c \in Ids |->
       IF c \in delete[d].tree /\ Live(c)
       THEN [threads[c] EXCEPT !.state = "deleted", !.updated = clock] ELSE threads[c]]
  /\ walk' = [walk EXCEPT !.stable = @ \ delete[d].tree]
  /\ panel' = [panel EXCEPT !.shown = @ \ {delete[d].root},
                            !.removed = @ \cup {delete[d].root}]
  /\ UNCHANGED <<clock, asks, writes, loads>>

-----------------------------------------------------------------------------
(* list_threads.                                                           *)

\* The time of the last message or else updated_at.
Activity(c) == IF threads[c].last > 0 THEN threads[c].last ELSE threads[c].updated

\* Most recent first, and the higher id first when two are of the same time.
Before(k, m) == k.activity > m.activity \/ (k.activity = m.activity /\ k.id > m.id)

Key(c) == [activity |-> Activity(c), id |-> c]

\* Plausible slip: conversations of the same time are not told apart.
RowsBefore(cursor) ==
  {c \in Ids : TopLevel(c) /\ (cursor = Top \/ Activity(c) < cursor.activity)}

\* list_top_level_for_user, before the limit.
Rows(cursor) == {c \in Ids : TopLevel(c) /\ Before(cursor, Key(c))}

Page(rows) ==
  {c \in rows : Cardinality({b \in rows : Before(Key(b), Key(c))}) < Limit}

LastOf(page) == CHOOSE c \in page : \A b \in page : ~Before(Key(c), Key(b))

StartWalk ==
  /\ walk.at = "idle" /\ MaxWalks > 0
  /\ walk' = [at |-> "reading", cursor |-> Top, read |-> [c \in Ids |-> 0],
              stable |-> {c \in Ids : TopLevel(c)}]
  /\ UNCHANGED <<clock, threads, asks, writes, delete, panel, loads>>

\* One row more than the page has tells whether there is another one.
ReadPage ==
  LET rows == Rows(walk.cursor)
      page == Page(rows)
      read == [c \in Ids |-> walk.read[c] + (IF c \in page THEN 1 ELSE 0)]
  IN /\ walk.at = "reading"
     /\ walk' = IF Cardinality(rows) > Limit
                THEN [walk EXCEPT !.read = read, !.cursor = Key(LastOf(page))]
                ELSE [walk EXCEPT !.read = read, !.at = "done"]
     /\ UNCHANGED <<clock, threads, asks, writes, delete, panel, loads>>

-----------------------------------------------------------------------------
(* ChatHistoryComponent.  The response has no has_more, which the panel     *)
(* asks for before it keeps a cursor: it never loads a second page.         *)

\* On every change of the route, with an earlier load still on its way or not.
SendLoad ==
  /\ panel.version < MaxLoads
  /\ panel' = [panel EXCEPT !.version = @ + 1, !.loading = TRUE]
  /\ loads' = [loads EXCEPT ![panel.version + 1].at = "sent"]
  /\ UNCHANGED <<clock, threads, asks, writes, delete, walk>>

ServeLoad(v) ==
  /\ loads[v].at = "sent"
  /\ loads' = [loads EXCEPT ![v] =
       [at |-> "served", items |-> Page(Rows(Top))]]
  /\ UNCHANGED <<clock, threads, asks, writes, delete, walk, panel>>

\* The answer to any but the last request is dropped; a failed one shows an
\* error and keeps the list.
ReceiveLoad(v) ==
  /\ loads[v].at = "served"
  /\ \/ /\ loads' = [loads EXCEPT ![v].at = "received"]
        /\ panel' = IF v = panel.version
                    THEN [panel EXCEPT !.loading = FALSE, !.shown = loads[v].items, !.removed = {}]
                    ELSE panel
     \/ /\ loads' = [loads EXCEPT ![v].at = "failed"]
        /\ panel' = IF v = panel.version THEN [panel EXCEPT !.loading = FALSE] ELSE panel
  /\ UNCHANGED <<clock, threads, asks, writes, delete, walk>>

Next ==
  \/ Tick
  \/ \E c \in Ids : CreateThread(c) \/ Rename(c) \/ FindThread(c) \/ EndRun(c)
  \/ \E ask \in asks : \/ StartRun(ask[1], ask[2])
                       \/ \E c \in Ids : SpawnChild(c, ask[1], ask[2])
  \/ \E d \in Deletes : ListTree(d) \/ CheckRuns(d) \/ SoftDelete(d)
  \/ StartWalk \/ ReadPage
  \/ SendLoad \/ \E v \in 1..MaxLoads : ServeLoad(v) \/ ReceiveLoad(v)

Spec == Init /\ [][Next]_vars

-----------------------------------------------------------------------------
(* What must hold.                                                         *)

\* A client that follows next_cursor to the end has been given every thread
\* that existed when it began and that nothing happened to meanwhile, and has
\* been given it once, whatever happened to the others and however many are of
\* the same time.
UnchangedIsListedOnce ==
  walk.at = "done" => \A c \in walk.stable : walk.read[c] = 1

DeleteProtects ==
  \A d \in Deletes : delete[d].at = "checked" /\ delete'[d].at = "done" =>
    \A c \in Tree(delete[d].root) :
      threads[c].active => <<c, threads[c].run>> \notin delete[d].busy

\* A run that was active anywhere below the thread when delete_thread began, and
\* still is when it deletes, keeps the tree from being deleted.  (A run that was
\* started in between does not.)
RunningIsProtected == [][DeleteProtects]_vars

\* Once the answer to its last request is in, the panel shows that answer and
\* no older one, however the answers came in.
HistoryIsLatest ==
  panel.version > 0 /\ loads[panel.version].at = "received" =>
    panel.shown = loads[panel.version].items \ panel.removed

=============================================================================
