------------------------------ MODULE Retrieval -------------------------------
(***************************************************************************)
(* What a search of a knowledge base answers, and what an evaluation says   *)
(* about it: EmbeddingService.embed_chunks with its batches, search with    *)
(* the reranker behind it, and RetrievalEvaluator, which asks that search   *)
(* once per query and draws its figures for every K from the one answer.    *)
(*                                                                         *)
(* The embedding model, Milvus and the reranking service are outside.  A    *)
(* chunk is known by its place in the order in which Milvus finds it.       *)
(* Figures are exact here, in parts of Whole, where the code has floats.    *)
(***************************************************************************)
EXTENDS Integers, FiniteSets, SequencesExt

CONSTANTS
  MaxTexts,        \* bound on the chunks of a file
  BatchSize,       \* embedding_batch_size
  Count,           \* chunks in the collection
  CandidateLimits, \* values of rerank_candidate_limit, 0: there is no reranker
  Limits,          \* limits of a search
  Kss,             \* what an evaluator may be given as ks
  MinRecalls,      \* and as min_recall, 0: none
  Relevances,      \* what the reranking service may think of the chunks
  MaxSamples       \* bound on the queries of a dataset

VARIABLES
  task,      \* what is done
  phase,     \* how far it has come
  texts,     \* embed: the texts of the chunks
  expected,  \* embed: the dimension of the binding, 0: it is not bound yet
  vectors,   \* embed: the vectors so far
  options,   \* search, evaluate: the configuration and the arguments
  samples,   \* search, evaluate: the queries
  hits,      \* what Milvus found for the current one
  responses, \* the answers to the queries so far
  report     \* evaluate: the outcome

vars == <<task, phase, texts, expected, vectors, options, samples, hits, responses, report>>

Dimensions == {1, 2}

\* Precision, recall and F1 of up to three hits and two relevant chunks.
Whole == 60

Chunks == 1..Count

\* A query of a dataset, and what the reranking service thinks of the chunks.
Sample == [split : {"validation", "test"}, relevant : SUBSET Chunks,
           relevance : Relevances]

\* `stored` is what the collection holds, if there is one.
Options == [candidates : CandidateLimits, limit : Limits, ks : Kss, minRecall : MinRecalls,
            stored : {0, Count}]

Hit == [chunk : Chunks, score : Nat, rank : Nat]

NoReport == [k |-> 0, targetMet |-> FALSE]

\* The elements of S in their order.  (SetToSortSeq and SelectSeq are made of
\* definitions that the prover does not see.)
InOrder(S, before(_, _)) ==
  CHOOSE s \in [1..Cardinality(S) -> S] : \A i, j \in DOMAIN s : i < j => before(s[i], s[j])

\* embed_chunks: the chunks that are not blank.
Selected == InOrder({i \in DOMAIN texts : texts[i] # "blank"}, LAMBDA i, j : i < j)

TypeOK ==
  /\ task \in {"embed", "search", "evaluate"}
  /\ phase \in {"embedding", "searching", "reranking", "reporting", "done", "failed"}
  /\ texts \in Seq({"text", "blank"})
  /\ expected \in {0} \cup Dimensions
  /\ vectors \in Seq([of : 1..MaxTexts, dimension : Dimensions])
  /\ options \in Options
  /\ samples \in Seq(Sample)
  /\ hits \in Seq(Chunks)
  /\ responses \in Seq(Seq(Hit))
  /\ report \in [k : {0} \cup UNION Kss, targetMet : BOOLEAN]

SeqsOf(S, n) == UNION {[1..k -> S] : k \in 1..n}

\* A search is a dataset of one query, of which only the answer counts.
Init ==
  /\ \/ /\ task = "embed" /\ phase = "embedding"
        /\ texts \in SeqsOf({"text", "blank"}, MaxTexts)
        /\ expected \in {0} \cup Dimensions
        /\ options = CHOOSE o \in Options : TRUE
        /\ samples = << >>
     \/ /\ task \in {"search", "evaluate"} /\ phase = "searching"
        /\ texts = << >> /\ expected = 0
        /\ options \in Options
        /\ IF task = "search"
           THEN /\ options.ks = CHOOSE ks \in Kss : TRUE
                /\ options.minRecall = 0
                /\ samples \in {<<s>> : s \in {t \in Sample : t.split = "test" /\ t.relevant = {}}}
           ELSE /\ options.limit = CHOOSE limit \in Limits : TRUE
                /\ options.stored = Count
                /\ samples \in SeqsOf({s \in Sample : Cardinality(s.relevant) \in 1..2},
                                      MaxSamples)
  /\ vectors = << >> /\ hits = << >> /\ responses = << >> /\ report = NoReport

-----------------------------------------------------------------------------
(* embed_chunks.                                                           *)

Batch ==
  LET from == Len(vectors) + 1
      to == IF from + BatchSize - 1 < Len(Selected) THEN from + BatchSize - 1 ELSE Len(Selected)
  IN SubSeq(Selected, from, to)

\* _validate_vectors: as many vectors as texts, and one dimension throughout,
\* that of the binding if there is one.
Fits(dimensions, batch) ==
  /\ Len(dimensions) = Len(batch)
  /\ \A i, j \in DOMAIN dimensions : dimensions[i] = dimensions[j]
  /\ \A i \in DOMAIN dimensions : /\ expected # 0 => dimensions[i] = expected
                                  /\ vectors # << >> => dimensions[i] = vectors[1].dimension

\* A batch after the other; the model makes a vector of each text, of whatever
\* dimension, or leaves one out.
EmbedBatch ==
  /\ phase = "embedding" /\ Len(vectors) < Len(Selected)
  /\ \E n \in {Len(Batch), Len(Batch) - 1} :
       \E dimensions \in [1..n -> Dimensions] :
         IF Fits(dimensions, Batch)
         THEN /\ vectors' = vectors \o [i \in 1..n |-> [of |-> Batch[i], dimension |-> dimensions[i]]]
              /\ UNCHANGED phase
         ELSE phase' = "failed" /\ UNCHANGED vectors
  /\ UNCHANGED <<task, texts, expected, options, samples, hits, responses, report>>

Embedded ==
  /\ phase = "embedding" /\ Len(vectors) = Len(Selected)
  /\ phase' = "done"
  /\ UNCHANGED <<task, texts, expected, vectors, options, samples, hits, responses, report>>

\* zip(selected_chunks, vectors, strict=True).
EmbeddedChunks ==
  [i \in DOMAIN vectors |-> [chunk |-> Selected[i], vector |-> vectors[i]]]

-----------------------------------------------------------------------------
(* search.                                                                 *)

Lesser(a, b) == IF a < b THEN a ELSE b
Greater(a, b) == IF a < b THEN b ELSE a

MaxK == CHOOSE k \in options.ks : \A j \in options.ks : j <= k

\* What is asked of the search: the evaluator asks for its largest K.
Limit == IF task = "search" THEN options.limit ELSE MaxK

Reranks == options.candidates # 0

\* Plausible slip: the service is only given what is asked for.
CandidatesAsked(limit) == limit

\* How many hits Milvus is asked for.
Candidates(limit) == IF Reranks THEN Greater(limit, options.candidates) ELSE limit

\* What Milvus finds, in its order.
Found(limit) == [i \in 1..Lesser(Candidates(limit), options.stored) |-> i]

Current == samples[Len(responses) + 1]

Respond(response) ==
  /\ responses' = Append(responses, response)
  /\ phase' = IF Len(responses) + 1 < Len(samples) THEN "searching"
              ELSE IF task = "search" THEN "done" ELSE "reporting"
  /\ hits' = << >>

\* Without a reranker, and when there are none, the hits are the answer.
Search ==
  /\ phase = "searching"
  /\ IF Reranks /\ Found(Limit) # << >> THEN /\ hits' = Found(Limit)
                     /\ phase' = "reranking"
                     /\ UNCHANGED responses
     ELSE Respond([i \in DOMAIN Found(Limit) |->
                     [chunk |-> Found(Limit)[i], score |-> 0, rank |-> i]])
  /\ UNCHANGED <<task, texts, expected, vectors, options, samples, report>>

\* The more relevant one first, and of two that are as relevant the earlier one.
ByRelevance(found, relevance) ==
  InOrder(DOMAIN found, LAMBDA i, j :
    \/ relevance[found[i]] > relevance[found[j]]
    \/ relevance[found[i]] = relevance[found[j]] /\ i < j)

\* What the service makes of `found` when it does as it should: the `n` most
\* relevant.
Best(found, relevance, n) ==
  LET order == ByRelevance(found, relevance)
  IN [k \in 1..n |-> [index |-> order[k], score |-> relevance[found[order[k]]]]]

\* In any order; or one too few, one twice, one nobody asked about.
Answers(found, relevance, n) ==
  LET best == Best(found, relevance, n) IN
  {best, Reverse(best), Front(best), [best EXCEPT ![1] = best[n]],
   [best EXCEPT ![1].index = Len(found) + 1]}

\* arerank and _validate_scores: as many as asked for, each of them a candidate,
\* none twice.
Valid(answer, found, n) ==
  /\ Len(answer) = n
  /\ \A i \in DOMAIN answer : answer[i].index \in DOMAIN found
  /\ IsInjective([i \in DOMAIN answer |-> answer[i].index])

\* Plausible slip: the order of the service is taken.
AsAnswered(answer) == answer

\* By their scores, and as Milvus had them when those are equal.
ByScore(answer) ==
  InOrder(DOMAIN answer, LAMBDA i, j :
    \/ answer[i].score > answer[j].score
    \/ answer[i].score = answer[j].score /\ answer[i].index < answer[j].index)

Sorted(answer) == [k \in DOMAIN answer |-> answer[ByScore(answer)[k]]]

\* The hits of the business fields they had, with score and rank.
Reranked(answer, found) ==
  LET results == Sorted(answer)
  IN [k \in DOMAIN results |->
        [chunk |-> found[results[k].index], score |-> results[k].score, rank |-> k]]

Rerank ==
  /\ phase = "reranking"
  /\ LET n == Lesser(Limit, Len(hits)) IN
       \E answer \in Answers(hits, Current.relevance, n) :
         IF Valid(answer, hits, n)
         THEN Respond(Reranked(answer, hits))
         ELSE phase' = "failed" /\ UNCHANGED <<hits, responses>>
  /\ UNCHANGED <<task, texts, expected, vectors, options, samples, report>>

-----------------------------------------------------------------------------
(* The evaluation.                                                         *)

\* normalize_hits and _unique_prefix: the first k chunks.
Prefix(response, k) == {response[i].chunk : i \in 1..Lesser(k, Len(response))}

\* calculate_query_metrics.
Matched(q, k) == Cardinality(Prefix(responses[q], k) \cap samples[q].relevant)

Recall(q, k) == (Whole * Matched(q, k)) \div Cardinality(samples[q].relevant)

F1(q, k) ==
  (2 * Whole * Matched(q, k))
    \div (Cardinality(Prefix(responses[q], k)) + Cardinality(samples[q].relevant))

\* _summary_for: the mean, here the sum, over the queries of a split.
Validation == {q \in DOMAIN samples : samples[q].split = "validation"}

Sum(figures) == FoldFunctionOnSet(+, 0, figures, Validation)

SumOfRecalls(k) == Sum([q \in DOMAIN samples |-> Recall(q, k)])

SumOfF1s(k) == Sum([q \in DOMAIN samples |-> F1(q, k)])

ReachesTarget(k) == SumOfRecalls(k) >= options.minRecall * Cardinality(Validation)

Better(k, j) == SumOfF1s(k) > SumOfF1s(j) \/ (SumOfF1s(k) = SumOfF1s(j) /\ k < j)

\* _select_top_k: the best of those that reach the target or, when none does,
\* of all.  A dataset needs a query for validation.
SelectTopK ==
  /\ phase = "reporting"
  /\ LET reaching == {k \in options.ks : ReachesTarget(k)}
         among == IF reaching = {} THEN options.ks ELSE reaching
     IN IF Validation = {} THEN phase' = "failed" /\ UNCHANGED report
        ELSE /\ phase' = "done"
             /\ report' = [k |-> CHOOSE k \in among : \A j \in among \ {k} : Better(k, j),
                           targetMet |-> reaching # {}]
  /\ UNCHANGED <<task, texts, expected, vectors, options, samples, hits, responses>>

Next == EmbedBatch \/ Embedded \/ Search \/ Rerank \/ SelectTopK

Spec == Init /\ [][Next]_vars

-----------------------------------------------------------------------------
(* What must hold.                                                         *)

\* Every chunk that is not blank has the vector of its own text, and all vectors
\* have one dimension, that of the binding if there is one, over all batches.
VectorsBelong ==
  task = "embed" /\ phase = "done" =>
    /\ \A i \in DOMAIN EmbeddedChunks :
         /\ EmbeddedChunks[i].vector.of = EmbeddedChunks[i].chunk
         /\ EmbeddedChunks[i].vector.dimension = EmbeddedChunks[1].vector.dimension
         /\ expected # 0 => EmbeddedChunks[i].vector.dimension = expected
    /\ \A i \in DOMAIN texts : texts[i] # "blank" =>
         Cardinality({j \in DOMAIN EmbeddedChunks : EmbeddedChunks[j].chunk = i}) = 1

\* An answer has as many chunks as were asked for and are there, none twice, each
\* with the score of its own text.  They come by relevance, or else as Milvus
\* found them, and no candidate that was left out is more relevant.
HitsAreRanked ==
  task = "search" /\ phase = "done" =>
    LET answer == responses[1]
        score(c) == IF Reranks THEN samples[1].relevance[c] ELSE 0
        chunks == {answer[i].chunk : i \in DOMAIN answer}
    IN /\ Len(answer) = Lesser(options.limit, options.stored)
       /\ Cardinality(chunks) = Len(answer)
       /\ \A i \in DOMAIN answer : answer[i].score = score(answer[i].chunk)
       /\ \A i, j \in DOMAIN answer : i < j =>
            \/ score(answer[i].chunk) > score(answer[j].chunk)
            \/ /\ score(answer[i].chunk) = score(answer[j].chunk)
               /\ answer[i].chunk < answer[j].chunk
       /\ \A c \in ToSet(Found(options.limit)) \ chunks : \A d \in chunks : score(c) <= score(d)

\* Whatever batches, answers and orders come from outside, what is stored and
\* what is answered belongs to the text it is shown with.
AnswersAreTrue == VectorsBelong /\ HitsAreRanked

\* What a search with limit k answers to a query.
Served(q, k) ==
  LET found == Found(k)
      n == Lesser(k, Len(found))
  IN IF Reranks THEN {found[a.index] : a \in ToSet(Best(found, samples[q].relevance, n))}
     ELSE ToSet(found)

ServedF1(q, k) ==
  (2 * Whole * Cardinality(Served(q, k) \cap samples[q].relevant))
    \div (Cardinality(Served(q, k)) + Cardinality(samples[q].relevant))

ServedRecall(q, k) ==
  (Whole * Cardinality(Served(q, k) \cap samples[q].relevant))
    \div Cardinality(samples[q].relevant)

\* The K that is recommended is the best for the searches that will be made with
\* it, although none was made in the evaluation: every figure comes from one
\* search for the largest K.  (That search must not see more candidates than the
\* others, which the code leaves to whoever chooses ks.)
RecommendedIsBest ==
  (task = "evaluate" /\ phase = "done" /\ (Reranks => MaxK <= options.candidates)) =>
    LET reaching == {k \in options.ks :
          Sum([q \in DOMAIN samples |-> ServedRecall(q, k)])
            >= options.minRecall * Cardinality(Validation)}
        among == IF reaching = {} THEN options.ks ELSE reaching
        f1(k) == Sum([q \in DOMAIN samples |-> ServedF1(q, k)])
    IN /\ report.k \in among
       /\ report.targetMet = (reaching # {})
       /\ \A k \in among : \/ f1(k) < f1(report.k)
                           \/ f1(k) = f1(report.k) /\ k >= report.k
=============================================================================
