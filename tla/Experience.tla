------------------------------ MODULE Experience ------------------------------
(***************************************************************************)
(* The experiences of src/app/kernel/experience/engine.py: a store in      *)
(* memory, the queries, the summary and the insights that are drawn from   *)
(* it.  Whoever records an experience has stamped it before.               *)
(***************************************************************************)
EXTENDS Integers, Sequences, FiniteSets, FiniteSetsExt, SequencesExt, Functions

CONSTANTS
    Sessions,    \* what is recorded: [goal, skills, success, lessons], the latter
                 \* a sequence of categories
    OwnIds,      \* ids that callers give; 0 stands for none
    MaxRecords   \* bound

VARIABLES
    records,     \* _records: in the order in which they were saved
    counter,     \* _counter
    saved,       \* history: what record() has answered, with what it was called for
    clock        \* datetime.utcnow

vars == <<records, counter, saved, clock>>

Init == records = <<>> /\ counter = 0 /\ saved = <<>> /\ clock = 0

(* save: an id that is there is answered and what comes with it is dropped.  *)
Record(e, id, stamp) ==
    LET new == IF id = 0 THEN <<"exp", counter + 1>> ELSE <<"own", id>>
        known == \E i \in DOMAIN records : records[i].id = new
    IN  /\ Len(saved) < MaxRecords /\ stamp \in {clock, clock - 1} /\ stamp >= 0
        /\ counter' = IF id = 0 THEN counter + 1 ELSE counter
        /\ records' = IF known THEN records
                      ELSE Append(records, [id |-> new, at |-> stamp, what |-> e])
        /\ saved' = Append(saved, [id |-> new, given |-> id # 0, what |-> e])
        /\ UNCHANGED clock

Tick == clock < 2 /\ clock' = clock + 1 /\ UNCHANGED <<records, counter, saved>>

Next == Tick \/ \E e \in Sessions, id \in OwnIds \cup {0}, stamp \in 0..2 : Record(e, id, stamp)

-----------------------------------------------------------------------------
(* query: what is not asked about is an empty sequence. *)
Asked(r, q) ==
    /\ q.goals # <<>> => r.what.goal \in q.goals[1]
    /\ q.skills # <<>> => r.what.skills \cap q.skills[1] # {}
    /\ q.success # <<>> => r.what.success = q.success[1]
    /\ q.hours # <<>> => r.at >= clock - q.hours[1]

(* Newest first; the sort is stable. *)
NewestFirst(s) ==
    LET order == SortSeq([i \in DOMAIN s |-> i],
                         LAMBDA i, j : s[i].at > s[j].at \/ (s[i].at = s[j].at /\ i < j))
    IN  [k \in DOMAIN s |-> s[order[k]]]

Answered(q) ==
    LET found == NewestFirst(SelectSeq(records, LAMBDA r : Asked(r, q)))
    IN  SubSeq(found, 1, Min({q.limit, Len(found)}))

(* How often each value occurs. *)
Counts(s) == [v \in ToSet(s) |-> Cardinality({i \in DOMAIN s : s[i] = v})]

(* summarize. *)
LessonsOf(s) == FlattenSeq([i \in DOMAIN s |-> s[i].what.lessons])
Summary ==
    LET lessons == LessonsOf(records)
        skills  == FlattenSeq([i \in DOMAIN records |-> SetToSeq(records[i].what.skills)])
    IN  [total    |-> Len(records),
         success  |-> Cardinality({i \in DOMAIN records : records[i].what.success}),
         goals    |-> Counts([i \in DOMAIN records |-> records[i].what.goal]),
         skills   |-> Counts(skills),
         lessons  |-> Counts(lessons)]

(* get_insights: one for each category, in fifths of confidence, best first. *)
Insights(goal) ==
    LET own == SelectSeq(records, LAMBDA r : r.what.goal = goal)
        counts == Counts(LessonsOf(own))
    IN  [of |-> Len(own),
         list |-> SortSeq(SetToSeq({[category |-> c, observed |-> counts[c], confidence |-> Min({5, counts[c]})] :
                                       c \in DOMAIN counts}),
                          LAMBDA x, y : x.confidence > y.confidence)]

-----------------------------------------------------------------------------
Queries ==
    [goals : {<<>>, <<{"fix"}>>}, skills : {<<>>, <<{"search"}>>}, success : {<<>>, <<TRUE>>},
     hours : {<<>>, <<1>>}, limit : 1..2]

Total(counts) == FoldFunction(LAMBDA n, sum : n + sum, 0, counts)

(* ExperienceSound: no experience is lost or recorded twice but one whose id *)
(* had been given before; a query answers the newest of what it asks for and *)
(* nothing else; the sums of the summary are those of the records; and the   *)
(* insights of all goals account for every lesson once.                      *)
ExperienceSound ==
    /\ \A i \in DOMAIN saved :
          /\ Cardinality({j \in DOMAIN records : records[j].id = saved[i].id}) = 1
          /\ ~saved[i].given => \E j \in DOMAIN records :
                                   records[j].id = saved[i].id /\ records[j].what = saved[i].what
    /\ \A q \in Queries :
          LET answer == Answered(q)
              missing == {i \in DOMAIN records : Asked(records[i], q)
                                                /\ \A k \in DOMAIN answer : answer[k].id # records[i].id}
          IN  /\ \A k \in DOMAIN answer : Asked(answer[k], q)
              /\ \A k \in 1..(Len(answer) - 1) : answer[k].at >= answer[k + 1].at
              /\ missing # {} => /\ Len(answer) = q.limit
                                 /\ \A i \in missing, k \in DOMAIN answer : records[i].at <= answer[k].at
    /\ Total(Summary.goals) = Len(records) /\ Summary.success <= Summary.total
    /\ \A c \in DOMAIN Summary.lessons :
          Summary.lessons[c] =
             Total([g \in DOMAIN Summary.goals |->
                      FoldLeft(LAMBDA n, x : IF x.category = c THEN n + x.observed ELSE n,
                               0, Insights(g).list)])
    /\ \A g \in DOMAIN Summary.goals :
          /\ Insights(g).of = Summary.goals[g]
          /\ \A k \in 1..(Len(Insights(g).list) - 1) :
                Insights(g).list[k].confidence >= Insights(g).list[k + 1].confidence
=============================================================================
