-------------------------------- MODULE MCFiles --------------------------------
(***************************************************************************)
(* The components that keep files, which are proved about beside each other, *)
(* in FilesProofs: the attachments of a user, the files of a knowledge base, *)
(* and the chunkers that cut what is parsed from them.  MCServices composes  *)
(* them with those of MCParts and MCOthers.                                 *)
(***************************************************************************)
EXTENDS Integers, FiniteSets, Sequences

CONSTANTS
  Attached, SentTo, Uploads, Sends, Reach, AttachmentFaults, MaxAttachmentFaults, MaxEdits,
  BaseFiles, FileCalls, EmbeddingModels, Dimension, FileFaults,
  MaxFileCalls, MaxFileFaults, MaxModelChanges, MaxRemoved,
  Elements, Lines, Outlines, MaxElements, Limits, Targets

\* Where a file is staged is no thread a send names, and no call is of both kinds.  A
\* send whose commit is refused removes its copies when its locks are already gone
\* (delete_copied_targets): another send of the same file to the same thread may have
\* committed by then and would lose its object.  The last line leaves that out.
ASSUME AttachmentParameters ==
  /\ "staged" \notin SentTo /\ SentTo # {}
  /\ Uploads \cap Sends = {}
  /\ Reach \in [Sends -> SUBSET SentTo]
  /\ MaxEdits \in Nat /\ MaxAttachmentFaults \in Nat
  /\ "insert" \in AttachmentFaults => \A c, d \in Sends : c # d => Reach[c] \cap Reach[d] = {}

\* Every embedding model has a dimension, and no word for none is one.
ASSUME FileParameters ==
  /\ BaseFiles # {}
  /\ Dimension \in [EmbeddingModels -> Nat \ {0}]
  /\ "none" \notin EmbeddingModels /\ "removed" \notin EmbeddingModels
  /\ MaxFileCalls \in Nat /\ MaxFileFaults \in Nat
  /\ MaxModelChanges \in Nat /\ MaxRemoved \in Nat

\* What a file is parsed to: elements with a size and a level, and outlines.
ASSUME ChunkParameters ==
  /\ \A e \in Elements \cup Lines : e.size \in Nat /\ e.level \in Nat
  /\ \A o \in Outlines : o \in Seq([title : STRING, depth : Nat])
  /\ MaxElements \in Nat /\ Targets \subseteq Nat /\ Limits \subseteq Nat \ {0}

VARIABLES
  rows, objects, links, call, edits, faults,
  files, stored, binding, collection, vectors, config, fileCall, lost, bounds,
  document, options, levels, chunks, phase

A == INSTANCE Attachments WITH
  Files <- Attached, Threads <- SentTo, MaxFaults <- MaxAttachmentFaults,
  Faults <- AttachmentFaults

K == INSTANCE KnowledgeFiles WITH
  Files <- BaseFiles, Calls <- FileCalls, Models <- EmbeddingModels, Faults <- FileFaults,
  MaxFaults <- MaxFileFaults, MaxCalls <- MaxFileCalls, MaxConfig <- MaxModelChanges,
  rows <- files, objects <- stored, call <- fileCall

C == INSTANCE Chunkers
=============================================================================
