------------------------------- MODULE Retrieval -------------------------------
(***************************************************************************)
(* A query in the retrieval pipeline of src/app/knowledge/retrieval, over  *)
(* the hybrid retriever (dense vectors, and a BM25 index if one is         *)
(* configured) or several variants of the query, and the BM25 index with   *)
(* its lazily computed statistics.  Hits are chunk numbers, best first.    *)
(***************************************************************************)
EXTENDS Integers, Sequences, FiniteSets, FiniteSetsExt, SequencesExt

CONSTANTS
    Chunks,      (* the chunks that can be found, 1..n                        *)
    DocOf,       (* of each chunk                                             *)
    TopK,        (* hits that are asked for                                   *)
    K,           (* RRF_K                                                     *)
    Variants,    (* bound: variants of a query                                *)
    MaxChanges   (* bound: changes of the BM25 index                          *)

VARIABLES
    asked,       (* the query: multi, dense, lexical, sources                 *)
    stage,       (* what retrieve() does next                                 *)
    branches,    (* hits of the variants that were retrieved, or of the one   *)
    hits, cited, (* the hits, and the chunks and documents that are cited     *)
    lexicon, counted, dirty, changed  (* BM25Index: _documents, the documents *)
                 (* of _idf and _avgdl, _dirty; changes made                  *)

retrievalVars == <<asked, stage, branches, hits, cited, lexicon, counted, dirty, changed>>

Rankings == UNION {{s \in [1..n -> Chunks] : IsInjective(s)} : n \in 0..TopK}
NotCited == [chunks |-> <<>>, docs |-> {}, set |-> FALSE]

Init ==
    /\ asked \in [multi : BOOLEAN, dense : BOOLEAN, lexical : BOOLEAN, sources : BOOLEAN]
    /\ asked.multi => ~asked.lexical /\ asked.dense
    /\ asked.dense \/ asked.lexical
    /\ stage = "rewrite" /\ branches = <<>> /\ hits = <<>> /\ cited = NotCited
    /\ lexicon = {} /\ counted = {} /\ dirty = TRUE /\ changed = 0

-----------------------------------------------------------------------------
(* A weight over K + rank, on a common denominator. *)
Denominator == FoldLeft(LAMBDA a, i : a * (K + i), 1, [i \in 1..(2 * TopK) |-> i])
Share(weight, rank) == weight * (Denominator \div (K + rank))

(* A chunk's shares of one list, in which it may stand several times. *)
ShareOf(list, weight, c) ==
    FoldLeft(LAMBDA a, i : IF list[i] = c THEN a + Share(weight, i) ELSE a, 0, [i \in DOMAIN list |-> i])

(* The chunks in the order in which the lists mention them. *)
Mentioned(list) ==
    FoldLeft(LAMBDA seen, c : IF c \in ToSet(seen) THEN seen ELSE Append(seen, c), <<>>, list)

(* _rrf_fuse: a stable sort by score. *)
Fused(first, second, w1, w2) ==
    LET Score(c) == ShareOf(first, w1, c) + ShareOf(second, w2, c)
        order == Mentioned(first \o second)
        ranked == SortSeq([i \in DOMAIN order |-> i],
                          LAMBDA i, j : \/ Score(order[i]) > Score(order[j])
                                        \/ (Score(order[i]) = Score(order[j]) /\ i < j))
    IN  [k \in 1..Min({TopK, Len(ranked)}) |-> order[ranked[k]]]

(* DefaultCitationBuilder.build: a citation for a hit and a source for a     *)
(* document.                                                                 *)
Citations(list) == [chunks |-> list, docs |-> {DocOf[c] : c \in ToSet(list)}, set |-> TRUE]

-----------------------------------------------------------------------------
Bm25 == <<lexicon, counted, dirty, changed>>

(* What a stage raises is caught, but the answer then reads citations that   *)
(* only the last stage sets: retrieve() raises after all.                    *)
Fails ==
    /\ stage \in {"rewrite", "retrieve", "fuse", "refine"} /\ stage' = "raised"
    /\ hits' = <<>> /\ UNCHANGED <<asked, branches, cited, Bm25>>

Rewrite ==
    /\ stage = "rewrite" /\ stage' = "retrieve"
    /\ UNCHANGED <<asked, branches, hits, cited, Bm25>>

(* _rebuild_if_dirty: the statistics are made anew if documents have changed. *)
Recounted ==
    /\ counted' = IF dirty THEN lexicon ELSE counted
    /\ dirty' = FALSE /\ UNCHANGED <<lexicon, changed>>

(* What BM25Index.search may answer: a ranking of documents that match. *)
Found == {s \in Rankings : ToSet(s) \subseteq lexicon}

(* HybridRetriever.retrieve.  The vector retriever answers any ranking, none *)
(* if it fails.                                                              *)
Hybrid ==
    /\ asked.dense
    /\ \E dense \in Rankings :
          IF asked.lexical
          THEN Recounted /\ \E sparse \in Found : branches' = Append(branches, Fused(dense, sparse, 1, 1))
          ELSE branches' = Append(branches, Fused(dense, <<>>, 1, 1)) /\ UNCHANGED Bm25

(* BM25Retriever.retrieve: what a server asks. *)
Lexical ==
    /\ ~asked.dense /\ Recounted
    /\ \E sparse \in Found : branches' = Append(branches, sparse)

Branch ==
    /\ stage = "retrieve" /\ (Hybrid \/ Lexical)
    /\ stage' = IF asked.multi /\ Len(branches') < Variants THEN "retrieve" ELSE "fuse"
    /\ UNCHANGED <<asked, hits, cited>>

(* MultiQueryRetriever.retrieve: the branches are put in one list, ranks     *)
(* going on from each to the next, which is fused with an empty one.         *)
Fuse ==
    /\ stage = "fuse" /\ stage' = "refine"
    /\ hits' = IF asked.multi THEN Fused(FlattenSeq(branches), <<>>, 1, 0) ELSE branches[1]
    /\ UNCHANGED <<asked, branches, cited, Bm25>>

(* A compressor drops hits and a reranker reorders them; the defaults leave  *)
(* them as they are.                                                         *)
Refine ==
    /\ stage = "refine" /\ stage' = "cite"
    /\ hits' \in {s \in Rankings : ToSet(s) \subseteq ToSet(hits)}
    /\ UNCHANGED <<asked, branches, cited, Bm25>>

Cite ==
    /\ stage = "cite" /\ stage' = "done"
    /\ cited' = IF asked.sources /\ hits # <<>> THEN Citations(hits) ELSE NotCited
    /\ UNCHANGED <<asked, branches, hits, Bm25>>

(* build raises: `citation_result` has been set to None by then. *)
CiteFails ==
    /\ stage = "cite" /\ stage' = "done" /\ asked.sources /\ hits # <<>>
    /\ hits' = <<>> /\ UNCHANGED <<asked, branches, cited, Bm25>>

(* Changes of the BM25 index. *)
Changes ==
    /\ changed < MaxChanges /\ changed' = changed + 1
    /\ UNCHANGED <<asked, stage, branches, hits, cited>>

Add(c) == Changes /\ lexicon' = lexicon \cup {c} /\ dirty' = TRUE /\ UNCHANGED counted
AddMany(cs) == Changes /\ lexicon' = lexicon \cup cs /\ dirty' = TRUE /\ UNCHANGED counted

(* An index from which nothing was removed is as clean as it was. *)
Delete(cs) ==
    /\ Changes
    /\ lexicon' = lexicon \ cs /\ dirty' = (dirty \/ cs \cap lexicon # {})
    /\ UNCHANGED counted

Clear == Changes /\ lexicon' = {} /\ counted' = {} /\ dirty' = TRUE

Change ==
    \/ \E c \in Chunks : Add(c)
    \/ \E cs \in SUBSET Chunks : AddMany(cs) \/ Delete(cs)
    \/ Clear

Next ==
    \/ Fails
    \/ Rewrite \/ Branch \/ Fuse \/ Refine \/ Cite \/ CiteFails
    \/ asked.lexical /\ Change

Spec == Init /\ [][Next]_retrievalVars

-----------------------------------------------------------------------------
(* A hit is answered once and no more than top_k are; what is cited is what  *)
(* is answered, document for document, and sources are there whenever they   *)
(* are asked for and there are hits; BM25's statistics are those of its      *)
(* documents whenever it is not dirty.                                       *)
AnswerSound ==
    /\ IsInjective(hits) /\ Len(hits) <= TopK
    /\ stage = "done" /\ hits # <<>> =>
          IF asked.sources
          THEN cited.chunks = hits /\ cited.docs = {DocOf[c] : c \in ToSet(hits)}
          ELSE ~cited.set
    /\ ~dirty => counted = lexicon
    /\ stage \in {"fuse", "refine"} /\ ~asked.multi => IsInjective(branches[1])

(* Of two chunks, one that neither list ranks lower is not fused below the   *)
(* other, with any weights; and a chunk is left out only for top_k others.   *)
FusionSound ==
    \A first, second \in Rankings, w1, w2 \in 0..2 :
        LET fused == Fused(first, second, w1, w2)
            At(list, c) == IF c \in ToSet(list) THEN SelectInSeq(list, LAMBDA d : d = c) ELSE 2 * TopK + 1
            Ahead(c, d) == /\ At(first, c) <= At(first, d) /\ At(second, c) <= At(second, d)
                           /\ (w1 > 0 /\ At(first, c) < At(first, d)) \/ (w2 > 0 /\ At(second, c) < At(second, d))
        IN  /\ Len(fused) = Min({TopK, Cardinality(ToSet(first \o second))})
            /\ \A c, d \in Chunks : d \in ToSet(fused) /\ Ahead(c, d) /\ c \in ToSet(first \o second) =>
                  At(fused, c) < At(fused, d)
=============================================================================
