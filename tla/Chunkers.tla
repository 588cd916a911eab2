------------------------------ MODULE Chunkers ------------------------------
(***************************************************************************)
(* From a parsed file to its chunks: the blocks that Parser.parse makes of *)
(* the elements of a Markdown text, the JSON lines of a plain PDF, the     *)
(* level of every block (the outline of a PDF, or the family of heading    *)
(* patterns that matches most blocks), and the three chunkers.             *)
(*                                                                         *)
(* A text is a sequence of units <<block, i>>: the i-th token of a block.  *)
(* The newline that join_texts puts between two texts is the unit Newline. *)
(* Text is told apart by its form: the shape that a heading pattern looks  *)
(* at, and the words that an outline entry is compared with.               *)
(***************************************************************************)
EXTENDS Integers, Sequences, FiniteSets, SequencesExt, FiniteSetsExt

CONSTANTS
  Elements,    \* elements of a Markdown text a document may be made of
  Lines,       \* lines of a plain PDF a document may be made of
  Outlines,    \* outlines a plain PDF may have, sequences of [title, depth]
  MaxElements, \* number of elements or lines of a document, at most
  Targets,     \* values of target_level
  Limits       \* values of chunk_token_size

VARIABLES
  document,    \* the ParsedDocument: what it was made of, blocks, outlines
  options,     \* the arguments of chunk_document
  levels,      \* ResolvedLevels.levels, one for each block
  chunks,      \* the result, in order
  phase        \* "given", "parsed", "resolved" or "chunked"

vars == <<document, options, levels, chunks, phase>>

BodyLevel == 99
AtomicKinds == {"table", "image"}
Newline == <<0, 0>>

-----------------------------------------------------------------------------
(* The parser.                                                             *)

\* A block of the element e on the page the last page heading named. The
\* metadata of a block is its page.
Block(e, kind, page) ==
  [kind |-> kind, form |-> e.form, size |-> e.size, page |-> page,
   heading |-> IF kind = "title" THEN e.level ELSE 0]

\* One turn of the loop of _markdown_blocks: a heading that is a page number
\* is no block, it only says on which page the following ones are.
AddElement(acc, e) ==
  CASE e.type = "page" -> [acc EXCEPT !.page = e.level]
    [] e.type = "heading" -> [acc EXCEPT !.blocks = Append(@, Block(e, "title", acc.page))]
    [] e.type = "table" -> [acc EXCEPT !.blocks = Append(@, Block(e, "table", acc.page))]
    [] OTHER -> [acc EXCEPT !.blocks = Append(@, Block(e, "text", acc.page))]

\* A text without any block that is not blank (page headings only) becomes one
\* block of text.
MarkdownBlocks(elements) ==
  LET made == FoldLeft(AddElement, [page |-> 0, blocks |-> << >>], elements).blocks
  IN IF made = << >> /\ elements # << >>
     THEN << [kind |-> "text", form |-> "plain", size |-> Len(elements),
              page |-> 0, heading |-> 0] >>
     ELSE made

\* build_pdf_json_blocks: the plain parser has dropped the blank lines, every
\* line is a block of text and keeps its fields.
PdfJsonBlocks(lines) ==
  [i \in DOMAIN lines |-> Block(lines[i], "text", lines[i].level)]

-----------------------------------------------------------------------------
(* Levels.                                                                 *)

\* The five families of heading patterns; a pattern is the set of the forms it
\* matches. "chapter" has Chinese numerals and "chapter1" digits, "(1)" and
\* "(one)" likewise.
TitleLevelGroups ==
  << << {"#"}, {"##"}, {"###"}, {"####"} >>,
     << {"part"}, {"chapter", "chapter1"}, {"section", "section1"}, {"article"}, {"(one)"} >>,
     << {"chapter1"}, {"section1"}, {"1."}, {"1.1"}, {"1.1.1"} >>,
     << {"chapter", "chapter1"}, {"section", "section1"}, {"one"}, {"(one)"}, {"(1)"} >>,
     << {"PART ONE"}, {"Chapter I"}, {"Section 1"}, {"Article 1"} >> >>

Ids(blocks) == [i \in DOMAIN blocks |-> i]

Matches(group, form) == \E k \in DOMAIN group : form \in group[k]

Hits(blocks, g) ==
  Cardinality({i \in DOMAIN blocks :
                 blocks[i].size > 0 /\ Matches(TitleLevelGroups[g], blocks[i].form)})

\* The family with the most matching blocks, the first of them when several
\* have as many; none when nothing matches.
SelectLevelGroup(blocks) ==
  LET most == Max({Hits(blocks, g) : g \in DOMAIN TitleLevelGroups})
  IN IF most = 0 THEN << >>
     ELSE TitleLevelGroups[Min({g \in DOMAIN TitleLevelGroups : Hits(blocks, g) = most})]

\* The level of one block: a title of the Markdown text has its own, a text
\* that looks like a heading of the selected family has its place in it.
FrequencyLevel(block, group) ==
  IF block.kind = "title" THEN block.heading
  ELSE IF block.kind \notin AtomicKinds /\ block.size > 0 /\ Matches(group, block.form)
  THEN Min({k \in DOMAIN group : block.form \in group[k]})
  ELSE BodyLevel

FrequencyLevels(blocks) ==
  LET group == SelectLevelGroup(blocks)
  IN [i \in DOMAIN blocks |-> FrequencyLevel(blocks[i], group)]

\* _bigram_similarity in percent: equal texts, texts that differ in a mark, and
\* others.
Similarity(title, form) ==
  IF title = form THEN 100
  ELSE IF {title, form} \in {{"chapter", "chapter1"}, {"section", "section1"}} THEN 90
  ELSE 0

\* The unused outline entry that is most like the text of the block, the first
\* of them; 0 when none is like it.
MatchOutline(form, outlines, used) ==
  LET like == {k \in DOMAIN outlines \ used : Similarity(outlines[k].title, form) > 80}
      best == {k \in like : \A m \in like :
                 Similarity(outlines[m].title, form) <= Similarity(outlines[k].title, form)}
  IN IF like = {} THEN 0 ELSE Min(best)

\* One turn of the loop of resolve_outline_levels: an entry is used once.
AddOutlineLevel(acc, block, outlines) ==
  LET k == IF block.kind \in AtomicKinds THEN 0
           ELSE MatchOutline(block.form, outlines, acc.used)
  IN IF k = 0 THEN [acc EXCEPT !.levels = Append(@, BodyLevel)]
     ELSE [used |-> acc.used \union {k}, levels |-> Append(acc.levels, outlines[k].depth + 1)]

OutlineLevels(blocks, outlines) ==
  FoldLeft(LAMBDA acc, b : AddOutlineLevel(acc, b, outlines),
           [used |-> {}, levels |-> << >>], blocks)

\* resolve_title_levels: the outline when an entry matched, else the patterns.
\* (The ratio of outline entries to blocks is above 0.03 for every document of
\* fewer than 34 blocks.)
TitleLevels(blocks, outlines) ==
  LET byOutline == OutlineLevels(blocks, outlines)
  IN IF byOutline.used = {} THEN FrequencyLevels(blocks) ELSE byOutline.levels

-----------------------------------------------------------------------------
(* Texts and their splitting.                                              *)

Units(blocks, i) == [k \in 1..blocks[i].size |-> <<i, k>>]

\* join_texts: the texts that are not blank, with a newline between them.
AddLine(text, t) == IF text = << >> \/ t = << >> THEN text \o t ELSE text \o << Newline >> \o t

JoinTexts(texts) == FoldLeft(AddLine, << >>, texts)

Join(blocks, ids) == JoinTexts([j \in DOMAIN ids |-> Units(blocks, ids[j])])

\* A slip: the rest that does not fill a window is dropped.
WindowsFull(text, n) ==
  [k \in 1..(Len(text) \div n) |-> [from |-> (k - 1) * n, to |-> k * n]]

\* split_text_fixed: consecutive windows of n tokens.
Windows(text, n) ==
  [k \in 1..((Len(text) + n - 1) \div n) |->
     [from |-> (k - 1) * n,
      to |-> IF k * n < Len(text) THEN k * n ELSE Len(text)]]

\* Where each block that is not blank begins and ends in the joined text.
AddSpan(spans, i, blocks) ==
  LET start == IF spans = << >> THEN 0 ELSE Last(spans).end + 1
  IN IF blocks[i].size = 0 THEN spans
     ELSE Append(spans, [block |-> i, start |-> start, end |-> start + blocks[i].size])

Spans(blocks, ids) == FoldLeft(LAMBDA spans, i : AddSpan(spans, i, blocks), << >>, ids)

\* The numbers in S in their order.  (SetToSortSeq and SelectSeq are made of
\* definitions that the prover does not see.)
InOrder(S) ==
  CHOOSE order \in [1..Cardinality(S) -> S] : \A j, k \in DOMAIN order : j < k => order[j] < order[k]

Covered(spans, w) ==
  LET inside == {j \in DOMAIN spans : spans[j].end > w.from /\ spans[j].start < w.to}
  IN [k \in 1..Cardinality(inside) |-> spans[InOrder(inside)[k]].block]

\* split_blocks_fixed: the windows of the joined text, each with the blocks it
\* has a part of.
SplitBlocks(blocks, ids, n) ==
  LET text == Join(blocks, ids)
      windows == Windows(text, n)
  IN [k \in DOMAIN windows |->
        [text |-> SubSeq(text, windows[k].from + 1, windows[k].to),
         blocks |-> Covered(Spans(blocks, ids), windows[k])]]

-----------------------------------------------------------------------------
(* The chunkers. A chunk has a kind, the section it is from (the path of its *)
(* headings and its level), the part of its text that is not the path, and *)
(* the blocks its metadata is of.                                          *)

Chunk(kind, section, body, ids) ==
  [kind |-> kind, path |-> section.path, level |-> section.level, body |-> body, blocks |-> ids]

Root == [path |-> << >>, level |-> 0]

AtomicChunk(blocks, i, section) == Chunk(blocks[i].kind, section, Units(blocks, i), <<i>>)

\* The chunks of a buffer of texts; none when all of them are blank.
TextChunks(blocks, ids, n, section) ==
  LET parts == SplitBlocks(blocks, ids, n)
  IN [k \in DOMAIN parts |-> Chunk("text", section, parts[k].text, parts[k].blocks)]

\* flush_text_blocks.
TextFlushed(acc, blocks, n, section) ==
  acc.chunks \o TextChunks(blocks, acc.buffer, n, section)

\* One turn of the loop of TokenChunker.chunk: texts are buffered, a table or an
\* image flushes the buffer and is a chunk of its own.
AddBlock(acc, i, blocks, n, section) ==
  IF blocks[i].kind \in AtomicKinds
  THEN [buffer |-> << >>,
        chunks |-> Append(TextFlushed(acc, blocks, n, section), AtomicChunk(blocks, i, section))]
  ELSE [acc EXCEPT !.buffer = Append(@, i)]

TokenChunks(blocks, ids, n, section) ==
  TextFlushed(FoldLeft(LAMBDA acc, i : AddBlock(acc, i, blocks, n, section),
                       [buffer |-> << >>, chunks |-> << >>], ids),
              blocks, n, section)

\* What is left of a stack, the levels of whose headings are `open`, when those that
\* are not above `level` are taken from its end; at least the first `kept` stay.
Popped(stack, kept, open, level) ==
  SubSeq(stack, 1, Max({kept} \union {k \in DOMAIN stack : open[k] < level}))

\* _push_heading: the headings of the same and of lower ranks are closed.
PushHeading(stack, level, i) ==
  Append(Popped(stack, 0, [k \in DOMAIN stack |-> stack[k].level], level), [level |-> level, block |-> i])

Path(stack) == [j \in DOMAIN stack |-> stack[j].block]

\* flush_text of the group chunker: a section goes through the token chunker.
SectionFlushed(acc, blocks, n) ==
  acc.chunks \o TokenChunks(blocks, acc.buffer, n, acc.section)

\* One turn of the loop of GroupTitleChunker: a heading up to the target level
\* begins a section, a deeper one is only remembered, both are text.
AddToSection(acc, i, blocks, lvls, target, n) ==
  LET pushed == PushHeading(acc.stack, lvls[i], i)
  IN IF lvls[i] # BodyLevel /\ blocks[i].size > 0
     THEN IF lvls[i] <= target
          THEN [chunks |-> SectionFlushed(acc, blocks, n), buffer |-> <<i>>, stack |-> pushed,
                section |-> [path |-> Path(pushed), level |-> lvls[i]]]
          ELSE [acc EXCEPT !.stack = pushed, !.buffer = Append(@, i)]
     ELSE IF blocks[i].kind \notin AtomicKinds THEN [acc EXCEPT !.buffer = Append(@, i)]
     ELSE [acc EXCEPT !.chunks = Append(SectionFlushed(acc, blocks, n),
                                        AtomicChunk(blocks, i, acc.section)),
                      !.buffer = << >>]

GroupChunks(blocks, lvls, target, n) ==
  SectionFlushed(FoldLeft(LAMBDA acc, i : AddToSection(acc, i, blocks, lvls, target, n),
                          [chunks |-> << >>, buffer |-> << >>, stack |-> << >>, section |-> Root],
                          Ids(blocks)),
                 blocks, n)

\* _HeadingNode: node 1 is the root. An item of a node is a block, or a node below
\* it, with the block of its title. Its section has the titles from the root.
Node(section) == [section |-> section, items |-> << >>]

Item(i, node) == [block |-> i, node |-> node]

\* One turn of the loop of _HeadingNode.build_tree: a heading deeper than the
\* target, or blank, is a block.
AddToTree(acc, i, blocks, lvls, target) ==
  LET ranks == [k \in DOMAIN acc.stack |-> acc.nodes[acc.stack[k]].section.level]
      open == Popped(acc.stack, 1, ranks, lvls[i])
      new == Len(acc.nodes) + 1
      path == acc.nodes[Last(open)].section.path
  IN IF lvls[i] = BodyLevel \/ blocks[i].size = 0 \/ lvls[i] > target
     THEN [acc EXCEPT !.nodes[Last(acc.stack)].items = Append(@, Item(i, 0))]
     ELSE [stack |-> Append(open, new),
           nodes |-> Append([acc.nodes EXCEPT ![Last(open)].items = Append(@, Item(i, new))],
                            Node([path |-> Append(path, i), level |-> lvls[i]]))]

BuildTree(blocks, lvls, target) ==
  FoldLeft(LAMBDA acc, i : AddToTree(acc, i, blocks, lvls, target),
           [stack |-> <<1>>, nodes |-> << Node(Root) >>], Ids(blocks)).nodes

\* What is left of the limit for the body below the prefix of a path.
BodyLimit(blocks, path, n) ==
  LET left == n - Len(Join(blocks, path)) - 1
  IN IF path = << >> THEN n ELSE IF left < 1 THEN 1 ELSE left

\* One turn of the loop of _collect_node, `below` the chunks of the other nodes.
AddItem(acc, item, blocks, n, section, below) ==
  IF item.node = 0 THEN AddBlock(acc, item.block, blocks, n, section)
  ELSE [buffer |-> << >>, chunks |-> TextFlushed(acc, blocks, n, section) \o below[item.node]]

\* _collect_node: the chunks of a node in the order of its items; a node from
\* which nothing came is a chunk of its path alone.
NodeChunks(blocks, node, n, below) ==
  LET limit == BodyLimit(blocks, node.section.path, n)
      collected == TextFlushed(
        FoldLeft(LAMBDA acc, item : AddItem(acc, item, blocks, limit, node.section, below),
                 [buffer |-> << >>, chunks |-> << >>], node.items),
        blocks, limit, node.section)
  IN IF node.section # Root /\ collected = << >>
     THEN << Chunk("text", node.section, << >>, << >>) >>
     ELSE collected

CollectNodes(blocks, nodes, n) ==
  LET collect[m \in DOMAIN nodes] == NodeChunks(blocks, nodes[m], n, collect)
  IN collect[1]

HierarchyChunks(blocks, lvls, target, n) ==
  CollectNodes(blocks, BuildTree(blocks, lvls, target), n)

-----------------------------------------------------------------------------
SeqsUpTo(S, n) == UNION {[1..k -> S] : k \in 0..n}

Init ==
  /\ \/ document \in [suffix : {"md"}, parts : SeqsUpTo(Elements, MaxElements),
                      outlines : {<< >>}, blocks : {<< >>}]
     \/ document \in [suffix : {"pdf"}, parts : SeqsUpTo(Lines, MaxElements),
                      outlines : Outlines, blocks : {<< >>}]
  /\ options \in [method : {"token", "group", "hierarchy"}, target : Targets, limit : Limits]
  /\ options.method = "token" => options.target = Min(Targets)
  /\ levels = << >>
  /\ chunks = << >>
  /\ phase = "given"

\* Parser.parse, and the first lines of the chunkers, which take the JSON of a
\* PDF in place of its blocks.
Parse ==
  /\ phase = "given"
  /\ document' = [document EXCEPT !.blocks =
                    IF document.suffix = "pdf" THEN PdfJsonBlocks(document.parts)
                    ELSE MarkdownBlocks(document.parts)]
  /\ phase' = "parsed"
  /\ UNCHANGED <<options, levels, chunks>>

\* BaseTitleChunker.invoke up to the levels.
ResolveLevels ==
  /\ phase = "parsed"
  /\ options.method # "token"
  /\ levels' = TitleLevels(document.blocks, document.outlines)
  /\ phase' = "resolved"
  /\ UNCHANGED <<document, options, chunks>>

ChunkByTokens ==
  /\ phase = "parsed"
  /\ options.method = "token"
  /\ chunks' = TokenChunks(document.blocks, Ids(document.blocks), options.limit, Root)
  /\ phase' = "chunked"
  /\ UNCHANGED <<document, options, levels>>

ChunkByTitles ==
  /\ phase = "resolved"
  /\ chunks' = IF options.method = "group"
               THEN GroupChunks(document.blocks, levels, options.target, options.limit)
               ELSE HierarchyChunks(document.blocks, levels, options.target, options.limit)
  /\ phase' = "chunked"
  /\ UNCHANGED <<document, options, levels>>

Next == Parse \/ ResolveLevels \/ ChunkByTokens \/ ChunkByTitles

Spec == Init /\ [][Next]_vars

-----------------------------------------------------------------------------
(* Properties.                                                             *)

\* The fields have the values the code gives them; a chunk that covers a block
\* has text of that block.
TypeOK ==
  /\ phase \in {"given", "parsed", "resolved", "chunked"}
  /\ document.suffix \in {"md", "pdf"}
  /\ \A i \in DOMAIN document.blocks :
       /\ document.blocks[i].kind \in AtomicKinds \union {"text", "title"}
       /\ document.blocks[i].size \in Nat
  /\ levels # << >> => DOMAIN levels = DOMAIN document.blocks
  /\ \A k \in DOMAIN chunks :
       /\ chunks[k].kind \in AtomicKinds \union {"text"}
       /\ \A j \in DOMAIN chunks[k].path : chunks[k].path[j] \in DOMAIN document.blocks

\* The headings that begin a section: up to the target level and not blank.
Begins(i) ==
  /\ options.method # "token"
  /\ document.blocks[i].size > 0
  /\ levels[i] # BodyLevel /\ levels[i] <= options.target

\* The headings block i is under, itself included: those that begin a section
\* and that no later heading up to i has closed.
Above(i) ==
  {h \in 1..i : Begins(h) /\ \A j \in (h + 1)..i : Begins(j) => levels[j] > levels[h]}

\* Where the text of block i is: in a body, or in the paths.
InBody(i) == options.method # "hierarchy" \/ ~Begins(i)

\* The places in the bodies of the chunks that have a token of the document, and
\* which token it is.
Places == {x \in UNION {{k} \X DOMAIN chunks[k].body : k \in DOMAIN chunks} :
             chunks[x[1]].body[x[2]] # Newline}

TokenAt(x) == chunks[x[1]].body[x[2]]

\* Of two places, or of two tokens, which is the first.
Precedes(x, y) == x[1] < y[1] \/ (x[1] = y[1] /\ x[2] < y[2])

\* Every token of the document is in the chunks exactly once and in the order of
\* the document: in the bodies, or, for a heading that became a node of the tree,
\* in the path of a chunk. No token is dropped at the border of two chunks, at a
\* table, at the end of a section, or with a heading under which there is
\* nothing; a table or an image is in one chunk by itself.
NothingIsLost ==
  phase = "chunked" =>
    /\ {TokenAt(x) : x \in Places} =
         UNION {ToSet(Units(document.blocks, i)) : i \in {j \in DOMAIN document.blocks : InBody(j)}}
    /\ \A x, y \in Places : Precedes(x, y) => Precedes(TokenAt(x), TokenAt(y))
    /\ \A i \in DOMAIN document.blocks :
         ~InBody(i) => \E k \in DOMAIN chunks : Contains(chunks[k].path, i)
    /\ \A x \in Places :
         document.blocks[TokenAt(x)[1]].kind \in AtomicKinds =>
           chunks[x[1]].body = Units(document.blocks, TokenAt(x)[1])

\* The section a chunk says it is from is the section its text is from: its path
\* is the headings above every block it has text of, its level that of the last
\* of them, and the blocks its metadata comes from are the ones it has text of,
\* in their order. No chunk has text of two sections.
SectionIsTrue ==
  phase = "chunked" =>
    \A k \in DOMAIN chunks :
      LET c == chunks[k]
          inside == {u[1] : u \in ToSet(c.body) \ {Newline}}
      IN /\ \A i \in inside : c.path = InOrder(Above(i))
         /\ c.path # << >> => c.level = levels[Last(c.path)]
         /\ c.kind = "text" => c.blocks = InOrder(inside)
         /\ c.body = << >> /\ c.kind = "text" => c.path = InOrder(Above(Last(c.path)))

\* What search finds and shows is the text of the document, all of it, under the
\* headings it stands under.
ChunksAreTrue == NothingIsLost /\ SectionIsTrue
=============================================================================
