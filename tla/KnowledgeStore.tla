---------------------------- MODULE KnowledgeStore ----------------------------
(***************************************************************************)
(* The indexing side of src/app/knowledge: the pipeline that embeds and    *)
(* stores the chunks of documents, the embedding cache that pipelines with *)
(* different providers share, two vector stores, and the registries of     *)
(* collections and namespaces.  An operation runs under the locks of what  *)
(* it uses and none waits inside one, so that each is one step.            *)
(***************************************************************************)
EXTENDS Integers, Sequences, FiniteSets, SequencesExt

CONSTANTS
    Documents,    (* contents: each the sequence of texts of its chunks       *)
    Providers,    (* embedding providers                                      *)
    CacheSize,    (* entries that the embedding cache keeps                   *)
    Oversample,   (* candidates per hit that is asked for before a filter     *)
    Nearness,     (* of two texts, how similar a provider's vectors are       *)
    MaxLoads      (* bound: documents that are loaded                         *)

VARIABLES
    loads,        (* history: content and namespace of each document loaded   *)
    rows,         (* InMemoryVectorStore: its parallel lists, as records      *)
    vectors, ids, (* FaissVectorStore: its index, and its parallel lists      *)
    cache,        (* _cache: <<provider, text>> and vector, oldest first      *)
    tallied,      (* KnowledgeAnalytics                                       *)
    namespaces, collections   (* NamespaceRegistry, CollectionRegistry        *)

storeVars == <<loads, rows, vectors, ids, cache, tallied, namespaces, collections>>

Spaces == {"default", "other"}

Init ==
    /\ loads = <<>> /\ rows = <<>> /\ vectors = <<>> /\ ids = <<>> /\ cache = <<>>
    /\ tallied = [created |-> 0, hits |-> 0, misses |-> 0, size |-> 0]
    /\ namespaces = {"default"} /\ collections = {}

(* What a provider makes of a text. *)
Embed(provider, text) == <<provider, text>>

-----------------------------------------------------------------------------
(* EmbeddingCache. *)
Place(c, key) == SelectInSeq(c, LAMBDA e : e.key = key)
Touched(c, i) == Append(RemoveAt(c, i), c[i])

(* get. *)
Get(c, key) == IF Place(c, key) = 0 THEN c ELSE Touched(c, Place(c, key))

(* put. *)
Put(c, key, vector) ==
    IF CacheSize = 0 THEN c
    ELSE IF Place(c, key) # 0
    THEN Append(RemoveAt(c, Place(c, key)), [key |-> key, vector |-> vector])
    ELSE LET longer == Append(c, [key |-> key, vector |-> vector])
         IN  IF Len(longer) > CacheSize THEN Tail(longer) ELSE longer

(* get_many and put_many: a text that is read may be evicted by a later one. *)
GetMany(c, provider, texts) == FoldLeft(LAMBDA d, t : Get(d, <<provider, t>>), c, texts)
PutMany(c, provider, texts) ==
    FoldLeft(LAMBDA d, t : Put(d, <<provider, t>>, Embed(provider, t)), c, texts)

(* The indices of the texts that are not in the cache; get adds nothing.     *)
Missing(c, provider, texts) ==
    SelectSeq([i \in DOMAIN texts |-> i], LAMBDA i : Place(c, <<provider, texts[i]>>) = 0)

Chosen(texts, at) == [k \in DOMAIN at |-> texts[at[k]]]

(* Mutation: new vectors are placed at their index among the new ones. *)
AssembledInPlace(c, provider, texts) ==
    LET at == Missing(c, provider, texts)
    IN  [i \in DOMAIN texts |->
            IF i \in DOMAIN at THEN Embed(provider, texts[at[i]])
            ELSE IF i \in ToSet(at) THEN <<>> ELSE c[Place(c, <<provider, texts[i]>>)].vector]

(* _embed_with_cache: what was in the cache, and what was not, each at its   *)
(* own index.                                                                *)
Assembled(c, provider, texts) ==
    LET at == Missing(c, provider, texts)
    IN  [i \in DOMAIN texts |->
            IF i \in ToSet(at) THEN Embed(provider, Chosen(texts, at)[SelectInSeq(at, LAMBDA j : j = i)])
            ELSE c[Place(c, <<provider, texts[i]>>)].vector]

-----------------------------------------------------------------------------
(* The state that the operations of a batch hand on. *)
Now == [loads |-> loads, rows |-> rows, vectors |-> vectors, ids |-> ids, cache |-> cache,
        tallied |-> tallied, up |-> TRUE]

Becomes(s) ==
    /\ loads' = s.loads /\ rows' = s.rows /\ vectors' = s.vectors /\ ids' = s.ids
    /\ cache' = s.cache /\ tallied' = s.tallied

(* add, to either store. *)
Added(s, new) ==
    [s EXCEPT !.rows = @ \o new, !.vectors = @ \o [i \in DOMAIN new |-> new[i].vector],
              !.ids = @ \o [i \in DOMAIN new |-> [new[i] EXCEPT !.vector = <<>>]]]

(* clear, of either store. *)
Cleared(s) == [s EXCEPT !.rows = <<>>, !.vectors = <<>>, !.ids = <<>>]

(* ingest: a document that is loaded again is a new one.  An embedding that  *)
(* fails raises, with the lookups counted, and stores nothing.               *)
Ingest(s, texts, space, provider, fails) ==
    LET at     == Missing(s.cache, provider, texts)
        looked == [s EXCEPT !.cache = GetMany(@, provider, texts),
                            !.tallied.misses = @ + Len(at),
                            !.tallied.hits = @ + Len(texts) - Len(at)]
        embedded == Assembled(s.cache, provider, texts)
        doc    == Len(s.loads) + 1
        stored == Added([looked EXCEPT !.cache = PutMany(@, provider, Chosen(texts, at)),
                                       !.loads = Append(@, [texts |-> texts, space |-> space, live |-> TRUE])],
                        [i \in DOMAIN texts |->
                            [id |-> <<doc, i>>, doc |-> doc, space |-> space, by |-> provider,
                             text |-> texts[i], vector |-> embedded[i]]])
    IN  IF ~s.up THEN s
        ELSE IF fails /\ at # <<>>
        THEN [looked EXCEPT !.up = FALSE,
                            !.loads = Append(@, [texts |-> texts, space |-> space, live |-> FALSE])]
        ELSE [stored EXCEPT !.tallied.created = @ + Len(texts), !.tallied.size = Len(stored.rows)]

IngestOne(texts, space, provider) ==
    /\ Len(loads) < MaxLoads
    /\ \E fails \in BOOLEAN : Becomes(Ingest(Now, texts, space, provider, fails))
    /\ UNCHANGED <<namespaces, collections>>

(* rebuild: the store is cleared, then the documents are ingested until one  *)
(* fails.                                                                    *)
Rebuild(first, second, space, provider) ==
    /\ Len(loads) + 2 <= MaxLoads
    /\ \E failing \in 0..2 :
          LET empty == Cleared([Now EXCEPT !.loads = [i \in DOMAIN @ |-> [@[i] EXCEPT !.live = FALSE]]])
          IN  Becomes(Ingest(Ingest(empty, first, space, provider, failing = 1),
                             second, space, provider, failing = 2))
    /\ UNCHANGED <<namespaces, collections>>

(* _apply_keep and _rebuild: the index is made anew of what it held. *)
Without(s, doc, space) ==
    LET Keep(r) == ~(r.doc = doc /\ r.space = space)
        at == SelectSeq([i \in DOMAIN s.ids |-> i], LAMBDA i : Keep(s.ids[i]))
    IN  [s EXCEPT !.rows = SelectSeq(@, Keep), !.vectors = Chosen(@, at), !.ids = Chosen(@, at)]

(* delete_by_document. *)
DeleteDocument(doc, space) ==
    /\ doc \in DOMAIN loads
    /\ LET gone == IF loads[doc].space = space THEN [loads EXCEPT ![doc].live = FALSE] ELSE loads
       IN  Becomes(Without([Now EXCEPT !.loads = gone], doc, space))
    /\ UNCHANGED <<namespaces, collections>>

(* The registries: the default namespace stays, and neither registry looks   *)
(* at the other or at the stores.                                            *)
Registries ==
    /\ \/ /\ namespaces' \in {namespaces \cup {"other"}, namespaces \ {"other"}}
          /\ UNCHANGED collections
       \/ collections' \in {{"c"}, {}} /\ UNCHANGED namespaces
    /\ UNCHANGED <<loads, rows, vectors, ids, cache, tallied>>

Next ==
    \/ \E space \in Spaces, provider \in Providers :
          \/ \E texts \in Documents : IngestOne(texts, space, provider)
          \/ \E first, second \in Documents : Rebuild(first, second, space, provider)
    \/ \E doc \in DOMAIN loads, space \in Spaces : DeleteDocument(doc, space)
    \/ Registries

Spec == Init /\ [][Next]_storeVars

-----------------------------------------------------------------------------
(* Vectors of two providers have nothing to do with each other. *)
Similarity(v, w) == IF v[1] = w[1] THEN Nearness[v[2]][w[2]] ELSE 0

(* The positions of a store's vectors, nearest first. *)
RankedRows(held, q) ==
    LET S(i) == Similarity(q, held[i])
    IN  SortSeq([i \in DOMAIN held |-> i], LAMBDA i, j : S(i) > S(j) \/ (S(i) = S(j) /\ i < j))

Upto(seq, n) == SubSeq(seq, 1, IF n < Len(seq) THEN n ELSE Len(seq))

(* InMemoryVectorStore.search, of documents in a set (a metadata filter) or  *)
(* of all: what a filter leaves of the nearest top_k * oversample.           *)
SearchRows(q, k, docs) ==
    LET ranked == RankedRows([i \in DOMAIN rows |-> rows[i].vector], q)
        near   == Upto(ranked, k * Oversample)
    IN  IF docs = {} THEN Upto(ranked, k)
        ELSE Upto(SelectSeq(near, LAMBDA i : rows[i].doc \in docs), k)

(* FaissVectorStore.search: hits are taken until there are enough. *)
SearchIndex(q, k, docs) ==
    FoldLeft(LAMBDA hits, i : IF Len(hits) < k /\ (docs = {} \/ ids[i].doc \in docs)
                              THEN Append(hits, i) ELSE hits,
             <<>>, Upto(RankedRows(vectors, q), IF docs = {} THEN k ELSE k * Oversample))

Texts == UNION {ToSet(d) : d \in Documents}

(* Every document that was loaded and not deleted is in the stores with all  *)
(* of its chunks and no other is, each with the vector of its own text by    *)
(* its own provider, whatever the cache held and evicted; the two stores     *)
(* answer alike: the nearest rows, of which a filter can only miss some that *)
(* are farther than the oversample; and the analytics count each text.       *)
IndexSound ==
    /\ \A r \in ToSet(rows) : r.vector = Embed(r.by, r.text)
    /\ [i \in DOMAIN rows |-> rows[i].id] =
          FlattenSeq([d \in DOMAIN loads |->
              IF loads[d].live THEN [i \in DOMAIN loads[d].texts |-> <<d, i>>] ELSE <<>>])
    /\ \A e \in ToSet(cache) : e.vector = Embed(e.key[1], e.key[2])
    /\ Len(cache) <= CacheSize /\ IsInjective([i \in DOMAIN cache |-> cache[i].key])
    /\ tallied.created <= tallied.hits + tallied.misses
    /\ "default" \in namespaces
    /\ \A q \in {Embed(p, t) : p \in Providers, t \in Texts}, k \in 1..2, docs \in {{}, {1}} :
          LET found == SearchRows(q, k, docs)
              ranked == RankedRows([i \in DOMAIN rows |-> rows[i].vector], q)
          IN  /\ SearchIndex(q, k, docs) = found
              /\ IsInjective(found) /\ Len(found) <= k
              /\ \A i \in DOMAIN rows : (docs = {} \/ rows[i].doc \in docs) /\ i \notin ToSet(found) =>
                    \/ Len(found) = k /\ Similarity(q, rows[i].vector) <= Similarity(q, rows[Last(found)].vector)
                    \/ docs # {} /\ SelectInSeq(ranked, LAMBDA j : j = i) > k * Oversample
=============================================================================
