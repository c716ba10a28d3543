-------------------------- MODULE SemanticRetrieval ---------------------------
(***************************************************************************)
(* SemanticContentRetriever: the passages of an authorised corpus are      *)
(* ranked by their vectors.  Vectors are cached, the oldest going first;   *)
(* after a failure of any kind no search is tried for a while.             *)
(***************************************************************************)
EXTENDS Naturals, Sequences, FiniteSets, Functions

CONSTANTS
    Passage,   \* the texts of chunks
    CacheSize  \* vector_cache_size, and the longest corpus

ASSUME CacheAssumption == CacheSize \in Nat \ {0}

VARIABLES
    vectors,  \* the passages whose vectors are cached, the oldest first
    retrying, \* _retry_after has not come
    lastSearch   \* of the last search

retrieverVars == <<vectors, retrying, lastSearch>>

\* The orders in which the passages ps can be cached, no passage twice.
Orders(ps) ==
    {q \in UNION {[1 .. n -> ps] : n \in 0 .. CacheSize} :
        Range(q) = ps /\ \A i, j \in DOMAIN q : q[i] = q[j] => i = j}

RetrieverTypeOK ==
    /\ vectors \in Orders(Range(vectors))
    /\ Range(vectors) \subseteq Passage
    /\ retrying \in BOOLEAN
    /\ lastSearch \in {"none", "ranked", "not_tried", "provider_failed", "vector_missing"}

RetrieverInit == vectors = <<>> /\ retrying = FALSE /\ lastSearch = "none"

\* A corpus is at most as long as the cache.
Corpora == {c \in SUBSET Passage : Cardinality(c) <= CacheSize}

Missing(corpus) == corpus \ Range(vectors)

\* New vectors push the oldest ones out.
Evict(ps) == IF Len(ps) > CacheSize THEN SubSeq(ps, Len(ps) - CacheSize + 1, Len(ps)) ELSE ps

\* search(): vectors that are missing are made and cached, in batches; then
\* the vectors of the whole corpus are taken from the cache.
Search(corpus) ==
    /\ ~retrying
    /\ \E made \in Orders(Missing(corpus)) : vectors' = Evict(vectors \o made)
    /\ IF corpus \subseteq Range(vectors')
       THEN lastSearch' = "ranked" /\ retrying' = FALSE
       ELSE lastSearch' = "vector_missing" /\ retrying' = TRUE

\* The provider fails at the query, or after some batches.
ProviderFails(corpus) ==
    /\ ~retrying
    /\ \E part \in SUBSET Missing(corpus) :
          \E made \in Orders(part) : vectors' = Evict(vectors \o made)
    /\ lastSearch' = "provider_failed"
    /\ retrying' = TRUE

SearchTooSoon ==
    /\ retrying
    /\ lastSearch' = "not_tried"
    /\ UNCHANGED <<vectors, retrying>>

\* unavailable_retry_seconds have passed.
RetryDue ==
    /\ retrying
    /\ retrying' = FALSE
    /\ UNCHANGED <<vectors, lastSearch>>

RetrieverNext ==
    \/ \E corpus \in Corpora : Search(corpus) \/ ProviderFails(corpus)
    \/ SearchTooSoon \/ RetryDue

RetrieverSpec == RetrieverInit /\ [][RetrieverNext]_retrieverVars

===============================================================================
