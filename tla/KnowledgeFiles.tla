---------------------------- MODULE KnowledgeFiles ----------------------------
(***************************************************************************)
(* The files of one knowledge base, from upload to search: a row with a    *)
(* status in PostgreSQL, the original and its Markdown in MinIO, the        *)
(* vectors in one Milvus collection, and the embedding model the knowledge  *)
(* base is bound to when its first file is indexed.                         *)
(*                                                                         *)
(* No call locks the file it works on.  Each reads the row, commits the     *)
(* status of its work, works, and commits the outcome; any number of calls  *)
(* may do so for the same file.                                             *)
(***************************************************************************)
EXTENDS Naturals, FiniteSets

CONSTANTS
  Files,      \* the files, by file_id
  Calls,      \* the calls that may run at the same time
  Models,     \* embedding models the configuration may name
  Dimension,  \* the length of the vectors each of them makes
  MaxCalls,   \* bound on the calls of parse_file and index_file
  MaxConfig,  \* bound on changes of the configuration
  MaxRemoved, \* bound on deletions of records
  Faults,     \* the faults that may occur, a subset of FaultKinds
  MaxFaults   \* bound on their number

FaultKinds ==
  {"work",      \* MinIO, the parser, the embedding model or Milvus fails, or
                \* there is nothing in the file to parse or to index
   "database",  \* a commit is refused
   "crash"}     \* the API process dies

VARIABLES
  rows,        \* the knowledge_file table, as committed
  objects,     \* what the bucket holds
  binding,     \* the committed model of the knowledge base
  collection,  \* the dimension the Milvus collection was created with, 0: none
  vectors,     \* the model that made the vectors of each file
  config,      \* the embedding model in the configuration
  call,        \* the calls
  lost,        \* the files a call of which died or could not record its failure
  bounds       \* changes, deletions and faults so far

vars == <<rows, objects, binding, collection, vectors, config, call, lost, bounds>>

None == "none"

Status == {None, "uploaded", "parsing", "parsed", "indexing", "indexed", "failed"}

\* `markdown` and `error` tell whether the column is set.
Row == [status : Status, markdown : BOOLEAN, error : BOOLEAN]

NoRow == [status |-> None, markdown |-> FALSE, error |-> FALSE]

Stage == {"idle", "uploading", "parse_read", "parsing", "parse_done",
          "index_read", "chunking", "flushing", "upserting", "binding",
          "index_done", "failing", "recovering"}

\* `row` is the row as the session holds it; `model` the model it embeds with;
\* `first` says that it found no binding and creates it.
Call == [at : Stage, kind : {"upload", "parse", "index"}, file : Files, row : Row,
         model : Models \cup {None}, first : BOOLEAN]

NewCall == [at |-> "idle", kind |-> "upload", file |-> CHOOSE f \in Files : TRUE,
            row |-> NoRow, model |-> None, first |-> FALSE]

TypeOK ==
  /\ rows \in [Files -> Row]
  /\ objects \subseteq Files \X {"original", "markdown"}
  /\ binding \in Models \cup {None}
  /\ collection \in {0} \cup {Dimension[m] : m \in Models}
  /\ vectors \in [Files -> Models \cup {None, "removed"}]
  /\ config \in Models
  /\ call \in [Calls -> Call]
  /\ lost \subseteq Files
  /\ bounds \in [calls : 0..MaxCalls, config : 0..MaxConfig,
                 removed : 0..MaxRemoved, faults : 0..MaxFaults]

Init ==
  /\ rows = [f \in Files |-> NoRow]
  /\ objects = {}
  /\ binding = None
  /\ collection = 0
  /\ vectors = [f \in Files |-> None]
  /\ config \in Models
  /\ call = [c \in Calls |-> NewCall]
  /\ lost = {}
  /\ bounds = [calls |-> 0, config |-> 0, removed |-> 0, faults |-> 0]

Fault(f) ==
  /\ f \in Faults
  /\ bounds.faults < MaxFaults
  /\ bounds' = [bounds EXCEPT !.faults = @ + 1]

Goto(c, stage) == call' = [call EXCEPT ![c].at = stage]

\* The call returns or raises; what follows is another one.
End(c) == call' = [call EXCEPT ![c] = NewCall]

F(c) == call[c].file

\* update_status and the flush: only the columns whose value differs from the
\* one the session has loaded are written.
Flush(c, new) ==
  rows' = [rows EXCEPT ![F(c)] =
    [k \in DOMAIN NoRow |-> IF new[k] # call[c].row[k] THEN new[k] ELSE @[k]]]

\* A status is committed, and the session holds what it wrote.
Commit(c, new, stage) ==
  /\ Flush(c, new)
  /\ call' = [call EXCEPT ![c].at = stage, ![c].row = new]

CommitAndEnd(c, new) == Flush(c, new) /\ End(c)

Marked(c, status) == [call[c].row EXCEPT !.status = status, !.error = FALSE]

-----------------------------------------------------------------------------
(* upload_file.                                                            *)

StartUpload(c) ==
  /\ call[c].at = "idle"
  /\ \E f \in Files :
       /\ rows[f].status = None
       /\ \A d \in Calls : call[d].at # "idle" => F(d) # f
       /\ objects' = objects \cup {<<f, "original">>}
       /\ call' = [call EXCEPT ![c] = [NewCall EXCEPT !.at = "uploading", !.file = f]]
  /\ UNCHANGED <<rows, binding, collection, vectors, config, lost, bounds>>

CommitUpload(c) ==
  /\ call[c].at = "uploading"
  /\ \/ /\ CommitAndEnd(c, [NoRow EXCEPT !.status = "uploaded"])
        /\ UNCHANGED <<objects, bounds>>
     \/ /\ Fault("database")
        /\ objects' = objects \ {<<F(c), "original">>}
        /\ End(c)
        /\ UNCHANGED rows
  /\ UNCHANGED <<binding, collection, vectors, config, lost>>

-----------------------------------------------------------------------------
(* parse_file.                                                             *)

Begin(c, f, kind, stage) ==
  /\ call[c].at = "idle"
  /\ bounds.calls < MaxCalls
  /\ bounds' = [bounds EXCEPT !.calls = @ + 1]
  /\ call' = [call EXCEPT ![c] = [NewCall EXCEPT !.at = stage, !.kind = kind,
                                                 !.file = f, !.row = rows[f]]]
  /\ UNCHANGED <<rows, objects, binding, collection, vectors, config, lost>>

\* A file that is parsed is returned as it is; one in another state is refused.
StartParse(c) ==
  \E f \in Files : /\ rows[f].status \in {"uploaded", "failed"}
                   /\ Begin(c, f, "parse", "parse_read")

\* The first commit of either operation.  Nothing catches its failure.
Mark(c, from, status, to) ==
  /\ call[c].at = from
  /\ \/ Commit(c, Marked(c, status), to) /\ UNCHANGED bounds
     \/ Fault("database") /\ End(c) /\ UNCHANGED rows
  /\ UNCHANGED <<objects, binding, collection, vectors, config, lost>>

MarkParsing(c) == Mark(c, "parse_read", "parsing", "parsing")

\* Download, Parser and the upload of the Markdown, to a name that every parse
\* of the file shares.
ParseDocument(c) ==
  /\ call[c].at = "parsing"
  /\ \/ /\ <<F(c), "original">> \in objects
        /\ objects' = objects \cup {<<F(c), "markdown">>}
        /\ Goto(c, "parse_done")
        /\ UNCHANGED bounds
     \/ Fault("work") /\ Goto(c, "failing") /\ UNCHANGED objects
  /\ UNCHANGED <<rows, binding, collection, vectors, config, lost>>

\* The last commit of either operation.
Save(c, from, new) ==
  /\ call[c].at = from
  /\ \/ CommitAndEnd(c, new) /\ UNCHANGED bounds
     \/ Fault("database") /\ Goto(c, "failing") /\ UNCHANGED rows
  /\ UNCHANGED <<objects, binding, collection, vectors, config, lost>>

SaveParsed(c) == Save(c, "parse_done", [Marked(c, "parsed") EXCEPT !.markdown = TRUE])

-----------------------------------------------------------------------------
(* index_file.                                                             *)

StartIndex(c) ==
  \E f \in Files : /\ rows[f].status = "parsed" /\ rows[f].markdown
                   /\ Begin(c, f, "index", "index_read")

MarkIndexing(c) == Mark(c, "index_read", "indexing", "chunking")

\* Download and chunking, then the binding is read and the texts are embedded:
\* with the bound model or, for a first file, with the configured one.
EmbedChunks(c) ==
  /\ call[c].at = "chunking"
  /\ \/ /\ <<F(c), "markdown">> \in objects
        /\ call' = [call EXCEPT ![c].at = IF binding = None THEN "flushing" ELSE "upserting",
                                ![c].model = IF binding = None THEN config ELSE binding,
                                ![c].first = binding = None]
        /\ UNCHANGED bounds
     \/ Fault("work") /\ Goto(c, "failing")
  /\ UNCHANGED <<rows, objects, binding, collection, vectors, config, lost>>

\* The transaction of another call holds the key of the binding.
HoldsKey(c) == call[c].first /\ call[c].at \in {"upserting", "binding"}

\* Plausible slip: the conflict is ignored.
FlushBindingIgnoring(c) ==
  /\ call[c].at = "flushing"
  /\ \A d \in Calls \ {c} : ~HoldsKey(d)
  /\ Goto(c, "upserting")
  /\ UNCHANGED <<rows, objects, binding, collection, vectors, config, lost, bounds>>

\* bindings.create flushes the INSERT: it waits for a transaction that inserted
\* the same key and fails when that one commits.
FlushBinding(c) ==
  /\ call[c].at = "flushing"
  /\ \A d \in Calls \ {c} : ~HoldsKey(d)
  /\ Goto(c, IF binding = None THEN "upserting" ELSE "failing")
  /\ UNCHANGED <<rows, objects, binding, collection, vectors, config, lost, bounds>>

\* build_file_index: the collection is created with the dimension of the first
\* vectors and refuses vectors of another length.  An upsert replaces the
\* records of the file.
UpsertChunks(c) ==
  /\ call[c].at = "upserting"
  /\ LET wanted == Dimension[call[c].model]
         have   == IF collection = 0 THEN wanted ELSE collection IN
     \/ /\ collection' = have
        /\ IF have = wanted
           THEN /\ vectors' = [vectors EXCEPT ![F(c)] = call[c].model]
                /\ Goto(c, IF call[c].first THEN "binding" ELSE "index_done")
           ELSE Goto(c, "failing") /\ UNCHANGED vectors
        /\ UNCHANGED bounds
     \/ /\ Fault("work")
        /\ collection' \in {collection, have}
        /\ Goto(c, "failing")
        /\ UNCHANGED vectors
  /\ UNCHANGED <<rows, objects, binding, config, lost>>

CommitBinding(c) ==
  /\ call[c].at = "binding"
  /\ \/ binding' = call[c].model /\ Goto(c, "index_done") /\ UNCHANGED bounds
     \/ Fault("database") /\ Goto(c, "failing") /\ UNCHANGED binding
  /\ UNCHANGED <<rows, objects, collection, vectors, config, lost>>

SaveIndexed(c) == Save(c, "index_done", Marked(c, "indexed"))

-----------------------------------------------------------------------------
(* The handler of both: rollback, read the row again, record the failure.  *)

Reread(c) ==
  /\ call[c].at = "failing"
  /\ call' = [call EXCEPT ![c].at = "recovering", ![c].row = rows[F(c)]]
  /\ UNCHANGED <<rows, objects, binding, collection, vectors, config, lost, bounds>>

\* Plausible slip: a status the table's constraint does not know.
BackToError(c) == IF call[c].kind = "parse" THEN "error" ELSE "parsed"

Back(c) == IF call[c].kind = "parse" THEN "failed" ELSE "parsed"

\* Plausible slip: nothing is committed.
RecoverUnsaved(c) ==
  /\ call[c].at = "recovering"
  /\ End(c)
  /\ UNCHANGED <<rows, objects, binding, collection, vectors, config, lost, bounds>>

Recover(c) ==
  /\ call[c].at = "recovering"
  /\ \/ /\ CommitAndEnd(c, [call[c].row EXCEPT !.status = Back(c), !.error = TRUE])
        /\ UNCHANGED <<lost, bounds>>
     \/ /\ Fault("database")
        /\ End(c)
        /\ lost' = lost \cup {F(c)}
        /\ UNCHANGED rows
  /\ UNCHANGED <<objects, binding, collection, vectors, config>>

Crash(c) ==
  /\ call[c].at # "idle"
  /\ Fault("crash")
  /\ End(c)
  /\ lost' = lost \cup {F(c)}
  /\ UNCHANGED <<rows, objects, binding, collection, vectors, config>>

-----------------------------------------------------------------------------
(* delete_records, and the operator.                                       *)

DeleteRecords(f) ==
  /\ binding # None /\ collection # 0
  /\ vectors[f] \in Models
  /\ bounds.removed < MaxRemoved
  /\ bounds' = [bounds EXCEPT !.removed = @ + 1]
  /\ vectors' = [vectors EXCEPT ![f] = "removed"]
  /\ UNCHANGED <<rows, objects, binding, collection, config, call, lost>>

ChangeModel ==
  /\ bounds.config < MaxConfig
  /\ bounds' = [bounds EXCEPT !.config = @ + 1]
  /\ config' \in Models \ {config}
  /\ UNCHANGED <<rows, objects, binding, collection, vectors, call, lost>>

ParseNext(c) == StartParse(c) \/ MarkParsing(c) \/ ParseDocument(c) \/ SaveParsed(c)

IndexNext(c) ==
  \/ StartIndex(c) \/ MarkIndexing(c) \/ EmbedChunks(c) \/ FlushBinding(c)
  \/ UpsertChunks(c) \/ CommitBinding(c) \/ SaveIndexed(c)

Next ==
  \/ \E c \in Calls : \/ StartUpload(c) \/ CommitUpload(c) \/ ParseNext(c)
                      \/ IndexNext(c) \/ Reread(c) \/ Recover(c) \/ Crash(c)
  \/ \E f \in Files : DeleteRecords(f)
  \/ ChangeModel

Spec == Init /\ [][Next]_vars

-----------------------------------------------------------------------------
(* What must hold.                                                         *)

\* Whatever index_file may start from, it finds Markdown for: no order of
\* overlapping calls and no failure leaves a file parsed, indexing or indexed
\* without it.
ParsedIsReadable ==
  \A f \in Files : rows[f].status \in {"parsed", "indexing", "indexed"} =>
                     rows[f].markdown /\ <<f, "markdown">> \in objects

\* The records of an indexed file were made by the model that search embeds the
\* query with, unless the user removed them: also when two files are the first
\* to be indexed and the configuration changes between them.  And a model that
\* is bound fits the collection, so that files can go on being indexed.
IndexedIsSearchable ==
  /\ \A f \in Files : rows[f].status = "indexed" =>
                        /\ binding # None
                        /\ vectors[f] \in {binding, "removed"}
  /\ binding # None => collection = Dimension[binding]

\* The status of a file says what can be done with it.
StatusIsTrue == ParsedIsReadable /\ IndexedIsSearchable

Working(f) ==
  \E c \in Calls : F(c) = f /\ call[c].at # "idle"

\* A file nobody works on can be worked on: only a crash, or a database that
\* refuses the failure as well, leaves it in a state that no call accepts.
NobodyIsWaitedFor ==
  \A f \in Files : rows[f].status \in {"parsing", "indexing"} => Working(f) \/ f \in lost

=============================================================================
