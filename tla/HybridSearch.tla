---------------------------- MODULE HybridSearch ----------------------------
(***************************************************************************)
(* Hybrid search (searchService.ts, searchRepository.ts): the answer to a  *)
(* query is fused from three rankings of the chunks that are there,        *)
(* without the vector ranking when the query could not be embedded, and is *)
(* kept in Redis for 15 minutes.                                           *)
(*                                                                         *)
(* One text is asked for, of one tenant and entity type: every ranking     *)
(* looks at the chunks these leave.  A query is then whether it has a      *)
(* metadata filter.  A ranking is given by the order in which it would     *)
(* list the chunks, 0 for a chunk it never lists: one that does not match, *)
(* or has no embedding.                                                    *)
(***************************************************************************)
EXTENDS Integers, Sequences, FiniteSets

CONSTANTS
  Chunk,
  TextOrder,       \* [Chunk -> Nat], ts_rank_cd
  VectorOrder,     \* [Chunk -> Nat], distance of the embeddings
  TrigramOrder,    \* [Chunk -> Nat], similarity
  Passing,         \* chunks of documents that pass the metadata filter
  Limit,           \* limit, at most 100
  CandidateLimit,  \* candidateLimit, at most 200
  Unit,            \* a number that 60 + rank divides, for every rank
  SearchCall,      \* calls of hybridSearch, each made at most once
  MaxCorpora       \* bound: how often the chunks change, plus one

(* ROW_NUMBER gives no two chunks of a list the same rank. *)
Ranks(order) ==
  /\ order \in [Chunk -> Nat]
  /\ \A c, d \in Chunk : order[c] = order[d] /\ order[c] > 0 => c = d

ASSUME SearchAssumption ==
  /\ IsFiniteSet(Chunk)
  /\ Ranks(TextOrder) /\ Ranks(VectorOrder) /\ Ranks(TrigramOrder)
  /\ Passing \subseteq Chunk
  /\ {Limit, CandidateLimit, MaxCorpora, Unit} \subseteq Nat \ {0}
  /\ \A r \in 1..Cardinality(Chunk) : Unit % (60 + r) = 0

VARIABLES
  corpora,   \* the sets of chunks in search_chunks so far, now the last one
  results,   \* [Query -> Result or NoResult], the answers in Redis
  searching  \* [SearchCall -> state of the call]

searchVars == <<corpora, results, searching>>

Query == [filtered : BOOLEAN]
Now == Len(corpora)

(* An answer, the corpus it was made from, and whether the query was       *)
(* embedded.                                                               *)
Result == [chunks : SUBSET Chunk, corpus : 1..MaxCorpora, embedded : BOOLEAN]
NoResult == [corpus |-> 0]

NotSearching == [phase |-> "idle"]
Searching ==
  [phase : {"cache", "embed", "select", "save", "done"}, query : Query,
   bypass : BOOLEAN, embedded : BOOLEAN, since : 1..MaxCorpora,
   cached : BOOLEAN, result : Result \cup {NoResult}]

SearchTypeOK ==
  /\ Now \in 1..MaxCorpora /\ \A i \in 1..Now : corpora[i] \subseteq Chunk
  /\ \A q \in Query : results[q] = NoResult \/ results[q] \in Result
  /\ \A c \in SearchCall :
       searching[c] = NotSearching \/ searching[c] \in Searching

SearchInit ==
  /\ corpora \in {<<s>> : s \in SUBSET Chunk}
  /\ results = [q \in Query |-> NoResult]
  /\ searching = [c \in SearchCall |-> NotSearching]

-----------------------------------------------------------------------------
(* The rankings and their fusion. *)

(* The CandidateLimit best chunks of a set, by a ranking. *)
RankIn(order, s, c) == Cardinality({x \in s : order[x] < order[c]}) + 1
Listed(order, s) ==
  LET matching == {c \in s : order[c] > 0}
  IN {c \in matching : RankIn(order, matching, c) <= CandidateLimit}

Filter(q, s) == IF q.filtered THEN s \cap Passing ELSE s

TextList(q, s) == Listed(TextOrder, Filter(q, s))
VectorList(q, s, embedded) ==
  IF embedded THEN Listed(VectorOrder, Filter(q, s)) ELSE {}

(* The trigram ranking does not look at the metadata. *)
TrigramList(s) == Listed(TrigramOrder, s)

(* 1 / (60 + rank), as a multiple of 1 / Unit. *)
Share(order, list, c) ==
  IF c \in list THEN Unit \div (60 + RankIn(order, list, c)) ELSE 0

Fused(q, s, embedded) ==
  TextList(q, s) \cup VectorList(q, s, embedded) \cup TrigramList(s)

RrfScore(q, s, embedded, c) ==
  Share(TextOrder, TextList(q, s), c)
  + Share(VectorOrder, VectorList(q, s, embedded), c)
  + Share(TrigramOrder, TrigramList(s), c)

(* ORDER BY score DESC LIMIT limit; equal scores come in any order. *)
Answers(q, s, embedded) ==
  LET all == Fused(q, s, embedded)
      score == [c \in all |-> RrfScore(q, s, embedded, c)]
  IN {best \in SUBSET all :
        /\ Cardinality(best) = IF Cardinality(all) < Limit
                                 THEN Cardinality(all) ELSE Limit
        /\ \A c \in best, d \in all \ best : score[c] >= score[d]}

-----------------------------------------------------------------------------
(* External to this module: a document is deleted, or one is indexed (see  *)
(* SearchIngest).  Neither touches the cache.                              *)
ChangeCorpus ==
  /\ Now < MaxCorpora
  /\ \E c \in Chunk :
       LET s == corpora[Now] IN
       corpora' = Append(corpora, IF c \in s THEN s \ {c} ELSE s \cup {c})
  /\ UNCHANGED <<results, searching>>

Search(c) ==
  /\ searching[c] = NotSearching
  /\ \E q \in Query, bypass \in BOOLEAN :
       searching' = [searching EXCEPT ![c] =
         [phase |-> IF bypass THEN "embed" ELSE "cache", query |-> q,
          bypass |-> bypass, embedded |-> FALSE, since |-> Now,
          cached |-> FALSE, result |-> NoResult]]
  /\ UNCHANGED <<corpora, results>>

(* Mutant: the fingerprint leaves the metadata filter out. *)
KeyUnfiltered(q) == [filtered |-> FALSE]

(* buildCacheKey: what the answers to two queries must not share. *)
CacheKeyOf(q) == q

(* redis.getBuffer, whose errors are misses. *)
ReadCache(c) ==
  /\ searching[c].phase = "cache"
  /\ LET hit == results[CacheKeyOf(searching[c].query)] IN
     \/ /\ hit # NoResult
        /\ searching' = [searching EXCEPT ![c].phase = "done",
             ![c].cached = TRUE, ![c].result = hit]
     \/ searching' = [searching EXCEPT ![c].phase = "embed"]
  /\ UNCHANGED <<corpora, results>>

(* gemini.embedOne; any error means a search without vectors. *)
EmbedQuery(c) ==
  /\ searching[c].phase = "embed"
  /\ \E embedded \in BOOLEAN :
       searching' = [searching EXCEPT ![c].phase = "select",
                                      ![c].embedded = embedded]
  /\ UNCHANGED <<corpora, results>>

(* One statement, so one snapshot of the database. *)
SelectResults(c) ==
  /\ searching[c].phase = "select"
  /\ LET call == searching[c] IN
     \E best \in Answers(call.query, corpora[Now], call.embedded) :
       searching' = [searching EXCEPT
         ![c].phase = IF call.bypass THEN "done" ELSE "save",
         ![c].result = [chunks |-> best, corpus |-> Now,
                        embedded |-> call.embedded]]
  /\ UNCHANGED <<corpora, results>>

(* The statement fails, as it does for an empty embedding: Effect.orDie. *)
SearchDies(c) ==
  /\ searching[c].phase = "select"
  /\ searching' = [searching EXCEPT ![c].phase = "done"]
  /\ UNCHANGED <<corpora, results>>

(* redis.setBuffer, whose errors are ignored, and the answer. *)
SaveResults(c) ==
  /\ searching[c].phase = "save"
  /\ searching' = [searching EXCEPT ![c].phase = "done"]
  /\ results' \in {results,
       [results EXCEPT ![CacheKeyOf(searching[c].query)] = searching[c].result]}
  /\ UNCHANGED corpora

(* Fifteen minutes later. *)
ExpireResult(q) ==
  /\ results[q] # NoResult
  /\ results' = [results EXCEPT ![q] = NoResult]
  /\ UNCHANGED <<corpora, searching>>

SearchNext ==
  \/ ChangeCorpus
  \/ \E c \in SearchCall :
       \/ Search(c) \/ ReadCache(c) \/ EmbedQuery(c) \/ SelectResults(c)
       \/ SearchDies(c) \/ SaveResults(c)
  \/ \E q \in Query : ExpireResult(q)

-----------------------------------------------------------------------------
(***************************************************************************)
(* An answer can be traced to the chunks that were there when it was made: *)
(* during the call, or, from the cache, when another call for the same     *)
(* query made it (searchService.ts:240-299).  Its chunks were all there    *)
(* then; those that fail the metadata filter are there by their trigrams   *)
(* alone (searchRepository.ts:131-143, 205-217); and the best chunk of the *)
(* text ranking is only left out for Limit chunks each of which is in two  *)
(* rankings or the best of another one.                                    *)
(***************************************************************************)
SearchAnswerIsExplained ==
  \A c \in SearchCall :
    searching[c].phase = "done" /\ searching[c].result # NoResult =>
      LET call == searching[c]
          answer == call.result
          there == corpora[answer.corpus]
          text == TextList(call.query, there)
          vector == VectorList(call.query, there, answer.embedded)
          trigram == TrigramList(there)
          Strong(y) ==
            \/ y \in (text \cap vector) \cup (text \cap trigram)
                     \cup (vector \cap trigram)
            \/ y \in vector /\ RankIn(VectorOrder, vector, y) = 1
            \/ y \in trigram /\ RankIn(TrigramOrder, trigram, y) = 1
      IN /\ answer.chunks \subseteq there
         /\ call.cached \/ answer.corpus >= call.since
         /\ call.cached => ~call.bypass
         /\ call.query.filtered => answer.chunks \ Passing \subseteq trigram
         /\ \A x \in text \ answer.chunks :
              RankIn(TextOrder, text, x) = 1 =>
                Cardinality({y \in answer.chunks : Strong(y)}) = Limit
=============================================================================
