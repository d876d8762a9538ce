---------------------------- MODULE KernelMemory ----------------------------
(***************************************************************************)
(* The kernel's memory: records of two tiers in one store, promoted by     *)
(* consolidation, thinned out by pruning, found again by rank.             *)
(* (src/app/kernel/memory/engine.py, models.py)                            *)
(*                                                                         *)
(* A record's content is the set of words it holds, importances are        *)
(* tenths and a time is the number of ticks before it: two records made    *)
(* within one tick of the clock have one time.  The store is a dictionary  *)
(* whose keys are inserted in ascending order.                             *)
(***************************************************************************)
EXTENDS Integers, FiniteSets, Functions

CONSTANTS
    Notes,        \* what is remembered: [tier, session, words, tags, importance]
    Promotes,     \* consolidation_importance, in tenths
    Accesses,     \* consolidation_access_threshold
    Capacity,     \* short_term_capacity
    Window,       \* how many records a search looks at; 100 in the code
    MaxRecords    \* a bound on the records made

MemoryAssumption ==
    /\ \A note \in Notes : /\ note.tier \in {"short", "long"} /\ note.importance \in Nat
                           /\ IsFiniteSet(note.words) /\ IsFiniteSet(note.tags)
    /\ Promotes \in Nat /\ Accesses \in Nat /\ Capacity \in Nat /\ Window \in Nat
    /\ MaxRecords \in Nat

VARIABLES
    records,  \* InMemoryMemoryStore._records, by id
    counter,  \* its _counter
    clock,
    kept,     \* history: ids a consolidation had to promote and nobody has forgotten
    pruned    \* history: the records the last prune removed, by id

vars == <<records, counter, clock, kept, pruned>>

None == [id \in {} |-> 0]

Init ==
    /\ records = None /\ counter = 0 /\ clock = 0
    /\ kept = {} /\ pruned = None

Ids == DOMAIN records

ShortTerm == {id \in Ids : records[id].tier = "short"}

-----------------------------------------------------------------------------
(* Sorting by keys of three numbers, which are not the same for any two.     *)
Less(k, l) == \/ k[1] < l[1]
              \/ k[1] = l[1] /\ (k[2] < l[2] \/ (k[2] = l[2] /\ k[3] < l[3]))

Ahead(S, key, x) == {y \in S : Less(key[y], key[x])}

InOrder(S, key) ==
    [n \in 1..Cardinality(S) |-> CHOOSE x \in S : Cardinality(Ahead(S, key, x)) = n - 1]

First(S, key, n) == {x \in S : Cardinality(Ahead(S, key, x)) < n}

(* Python's sort is stable, in reverse too. *)
NewestFirst == [id \in Ids |-> <<-records[id].timestamp, id, 0>>]
OldestFirst == [id \in Ids |-> <<records[id].timestamp, id, 0>>]

Either == "either"

(* A query names a tier and a session or does not care; it may name tags. *)
Matching(query) ==
    {id \in Ids : /\ query.tier \in {Either, records[id].tier}
                  /\ query.session \in {Either, records[id].session}
                  /\ query.tags \subseteq records[id].tags}

Retrieved(query, limit) == InOrder(First(Matching(query), NewestFirst, limit), NewestFirst)

-----------------------------------------------------------------------------
(* Searching. *)

(* Seven parts keywords, two parts tags, one part importance, over the       *)
(* common denominator of the three.                                          *)
Score(r, query) ==
    LET words  == Cardinality(query.words)
        tags   == Cardinality(query.tags)
        found  == Cardinality(query.words \cap r.words)
        tagged == Cardinality(query.tags \cap r.tags)
        W == IF words = 0 THEN 1 ELSE words
        T == IF tags = 0 THEN 1 ELSE tags
    IN  IF found = 0 /\ tagged = 0 THEN 0
        ELSE 70 * found * T + 20 * tagged * W + r.importance * W * T

(* The best first, and of equal scores the older record. *)
BestFirst(query) == [id \in Ids |-> <<-Score(records[id], query), records[id].timestamp, id>>]

(* The tags are for the score, so the store is asked without them. *)
Search(query, limit) ==
    LET looked == Range(Retrieved([query EXCEPT !.tags = {}], Window))
        hits   == {id \in looked : Score(records[id], query) > 0}
    IN  InOrder(First(hits, BestFirst(query), limit), BestFirst(query))

Summary ==
    [total  |-> Cardinality(Ids),
     short  |-> Cardinality(ShortTerm),
     recent |-> InOrder(First(Ids, NewestFirst, 5), NewestFirst)]

-----------------------------------------------------------------------------
(* Writing. *)

(* The counter goes on, so an id is never given out again. *)
Remember(note) ==
    /\ counter < MaxRecords
    /\ \E tick \in {0, 1} :
        /\ clock' = clock + tick
        /\ records' = [id \in Ids \cup {counter + 1} |->
               IF id \in Ids THEN records[id]
               ELSE [tier |-> note.tier, session |-> note.session,
                     words |-> note.words, tags |-> note.tags, importance |-> note.importance,
                     accesses |-> 0, timestamp |-> clock + tick]]
    /\ counter' = counter + 1
    /\ UNCHANGED kept /\ pruned' = None

Forget(id) ==
    /\ id \in Ids
    /\ records' = Restrict(records, Ids \ {id})
    /\ kept' = kept \ {id} /\ pruned' = None
    /\ UNCHANGED <<counter, clock>>

Clear ==
    /\ Ids # {}
    /\ records' = None /\ kept' = {} /\ pruned' = None
    /\ UNCHANGED <<counter, clock>>

(* Counts past the threshold are alike. *)
Touch(id) ==
    /\ id \in Ids /\ records[id].accesses < Accesses
    /\ records' = [records EXCEPT ![id].accesses = @ + 1]
    /\ pruned' = None /\ UNCHANGED <<counter, clock, kept>>

-----------------------------------------------------------------------------
(* Maintenance. *)

Qualifies(r) == r.importance >= Promotes \/ r.accesses >= Accesses

Consolidate ==
    /\ records' = [id \in Ids |-> IF Qualifies(records[id])
                                  THEN [records[id] EXCEPT !.tier = "long"]
                                  ELSE records[id]]
    /\ kept' = kept \cup {id \in Ids : \/ records[id].importance >= Promotes
                                       \/ records[id].accesses >= Accesses}
    /\ pruned' = None /\ UNCHANGED <<counter, clock>>

(* The short-term records to go, when there are too many. *)
Excess == First(ShortTerm, OldestFirst, Cardinality(ShortTerm) - Capacity)

Prune ==
    /\ Excess # {}
    /\ records' = Restrict(records, Ids \ Excess)
    /\ pruned' = Restrict(records, Excess)
    /\ UNCHANGED <<counter, clock, kept>>

Next ==
    \/ \E note \in Notes : Remember(note)
    \/ \E id \in Ids : Forget(id) \/ Touch(id)
    \/ Clear \/ Consolidate \/ Prune

Spec == Init /\ [][Next]_vars

-----------------------------------------------------------------------------
Words == UNION {note.words : note \in Notes}
Tags == UNION {note.tags : note \in Notes}
Finite(S) == {T \in SUBSET S : IsFiniteSet(T)}

(* What a search may miss is only what is older than the window.             *)
Ranked(query, limit) ==
    LET answer == Search(query, limit)
        all == {id \in Ids : /\ query.tier \in {Either, records[id].tier}
                             /\ query.session \in {Either, records[id].session}}
        found == Range(answer)
    IN  /\ found \subseteq all /\ Cardinality(found) = Cardinality(DOMAIN answer)
        /\ \A i, j \in DOMAIN answer :
             i < j => Score(records[answer[i]], query) >= Score(records[answer[j]], query)
        /\ \A id \in all \ found :
             \/ records[id].words \cap query.words = {} /\ records[id].tags \cap query.tags = {}
             \/ /\ Cardinality(DOMAIN answer) = limit
                /\ \A s \in found : Score(records[s], query) >= Score(records[id], query)
             \/ Cardinality({s \in all \ {id} : records[s].timestamp >= records[id].timestamp}) >= Window

SearchRanked ==
    \A words \in Finite(Words), tags \in Finite(Tags), limit \in 1..2,
       tier \in {Either, "short"}, session \in {n.session : n \in Notes} \cup {Either} :
        Ranked([tier |-> tier, session |-> session, words |-> words, tags |-> tags], limit)

(* MemorySound: what a consolidation promotes is in the long-term tier until *)
(* it is forgotten, whatever prunes follow; a prune removes nothing that is  *)
(* newer than a short-term record it keeps and brings the tier down to its   *)
(* capacity; an id that was given out is not given out again; a search is    *)
(* ranked and misses nothing but what is older than its window or no better  *)
(* than what fills its limit.                                                *)
MemorySound ==
    /\ \A id \in Ids : id <= counter
    /\ \A id \in kept : id \in Ids /\ records[id].tier = "long"
    /\ DOMAIN pruned # {} =>
         /\ Summary.short = Capacity
         /\ \A id \in DOMAIN pruned, left \in ShortTerm :
              records[left].timestamp >= pruned[id].timestamp
    /\ SearchRanked
=============================================================================
