------------------------------ MODULE Telemetry ------------------------------
(***************************************************************************)
(* What the system counts about itself: the bounded log of calls and its   *)
(* view by provider (src/app/llm/analytics.py), the bounded log of         *)
(* retrievals (src/app/knowledge/analytics.py), and the metrics, spans and *)
(* events of the attempts of a pipeline stage                              *)
(* (src/app/kernel/pipeline/observability.py).                             *)
(***************************************************************************)
EXTENDS Integers, Sequences, SequencesExt, FiniteSets

CONSTANTS
    Providers,
    MaxEvents,    \* entries that a log keeps
    Subscribers,  \* of the pipeline's events, in order; "bad" ones raise
    MaxAttempts,  \* attempts of a stage
    MaxRecords    \* bound: things that are recorded

VARIABLES
    log,          \* LLMAnalytics._events: [provider, number, success]
    byProvider,   \* its _provider_events, of the providers it has seen
    queries,      \* KnowledgeAnalytics: [total, counts, entries]
    attempt,      \* the attempt under way; 0 when there is none
    metrics,      \* MetricsCollector._stages: [success, retries]
    spans,        \* TracingHook._spans: "open", "good" or "bad"
    received,     \* what each subscriber was called with
    published,    \* history: the events published
    recorded      \* history: how much was recorded

vars == <<log, byProvider, queries, attempt, metrics, spans, received, published, recorded>>

Init ==
    /\ log = <<>> /\ byProvider = [p \in {} |-> <<>>]
    /\ queries = [total |-> 0, counts |-> [q \in Providers |-> 0], entries |-> <<>>]
    /\ attempt = 0 /\ metrics = <<>> /\ spans = <<>> /\ published = <<>>
    /\ received = [s \in ToSet(Subscribers) |-> <<>>]
    /\ recorded = 0

analytics == <<log, byProvider>>
pipeline == <<attempt, metrics, spans, received, published>>

Counted == recorded < MaxRecords /\ recorded' = recorded + 1

-----------------------------------------------------------------------------
(* LLMAnalytics. *)
EventsOf(p) == IF p \in DOMAIN byProvider THEN byProvider[p] ELSE <<>>

(* Dropping the oldest of all drops it from its provider's list, where it is *)
(* the oldest too; the list stays when it gets empty.                        *)
Dropped(lists, gone) ==
    IF gone.provider \in DOMAIN lists /\ lists[gone.provider] # <<>>
         /\ Head(lists[gone.provider]) = gone
    THEN [lists EXCEPT ![gone.provider] = Tail(@)]
    ELSE lists

Record(p, success) ==
    LET event == [provider |-> p, number |-> recorded, success |-> success]
        longer == Append(log, event)
        lists == [q \in DOMAIN byProvider \cup {p} |->
                     IF q = p THEN Append(EventsOf(p), event) ELSE byProvider[q]]
    IN  /\ Counted
        /\ IF Len(longer) > MaxEvents
           THEN log' = Tail(longer) /\ byProvider' = Dropped(lists, Head(longer))
           ELSE log' = longer /\ byProvider' = lists
        /\ UNCHANGED <<queries, pipeline>>

Clear ==
    /\ log # <<>>
    /\ log' = <<>> /\ byProvider' = [p \in {} |-> <<>>]
    /\ UNCHANGED <<queries, pipeline, recorded>>

Successes(events) == Len(SelectSeq(events, LAMBDA e : e.success))

Ranking(p) == [requests |-> Len(EventsOf(p)), successes |-> Successes(EventsOf(p))]

OverallStats ==
    [requests |-> Len(log), successes |-> Successes(log),
     providers |-> Cardinality(DOMAIN byProvider)]

-----------------------------------------------------------------------------
(* KnowledgeAnalytics. *)
RecordRetrieval(q) ==
    LET longer == Append(queries.entries, q)
    IN  /\ Counted
        /\ queries' = [total |-> queries.total + 1,
                       counts |-> [queries.counts EXCEPT ![q] = @ + 1],
                       entries |-> IF Len(longer) > MaxEvents
                                   THEN SubSeq(longer, Len(longer) - MaxEvents + 1, Len(longer))
                                   ELSE longer]
        /\ UNCHANGED <<analytics, pipeline>>

-----------------------------------------------------------------------------
(* Pipeline observability. *)

(* publish: every subscriber gets the event, whatever one before it raises. *)
Publishes(events) ==
    /\ received' = [s \in DOMAIN received |-> received[s] \o events]
    /\ published' = published \o events

AttemptStarts ==
    /\ attempt = 0 /\ Counted
    /\ attempt' = 1
    /\ spans' = Append(spans, "open")
    /\ Publishes(<<"started">>)
    /\ UNCHANGED <<analytics, queries, metrics>>

Ended(success) ==
    /\ spans' = [spans EXCEPT ![Len(spans)] = IF success THEN "good" ELSE "bad"]
    /\ metrics' = Append(metrics, [success |-> success, retries |-> attempt - 1])

AttemptReturns ==
    /\ attempt > 0 /\ Ended(TRUE)
    /\ attempt' = 0
    /\ Publishes(<<"completed">>)
    /\ UNCHANGED <<analytics, queries, recorded>>

(* A cancelled attempt is recorded and not published. *)
AttemptCancelled ==
    /\ attempt > 0 /\ Ended(FALSE)
    /\ attempt' = 0
    /\ UNCHANGED <<analytics, queries, recorded, received, published>>

(* Another attempt starts when there is one left. *)
AttemptRaises ==
    /\ attempt > 0
    /\ IF attempt < MaxAttempts
       THEN /\ attempt' = attempt + 1
            /\ metrics' = Append(metrics, [success |-> FALSE, retries |-> attempt - 1])
            /\ spans' = Append([spans EXCEPT ![Len(spans)] = "bad"], "open")
            /\ Publishes(<<"failed", "started">>)
       ELSE attempt' = 0 /\ Ended(FALSE) /\ Publishes(<<"failed">>)
    /\ UNCHANGED <<analytics, queries, recorded>>

(* A stage that is skipped for a cancellation or the deadline. *)
StageSkipped ==
    /\ attempt = 0 /\ Counted
    /\ Publishes(<<"failed">>)
    /\ UNCHANGED <<analytics, queries, attempt, metrics, spans>>

Next ==
    \/ \E p \in Providers, success \in BOOLEAN : Record(p, success)
    \/ Clear
    \/ \E q \in Providers : RecordRetrieval(q)
    \/ AttemptStarts \/ AttemptReturns \/ AttemptCancelled \/ AttemptRaises \/ StageSkipped

-----------------------------------------------------------------------------
Total(f) == FoldLeft(LAMBDA sum, p : sum + f[p], 0, SetToSeq(DOMAIN f))

(* TelemetrySound: the view by provider is the log, whatever was dropped     *)
(* from it, so that the overall numbers are the sum of the rankings; a       *)
(* retrieval is counted once although the list of the last ones is cut; of   *)
(* every attempt that started there is one span and, once it is over, one    *)
(* metric that agrees with it; and every subscriber gets every event in the  *)
(* order of publication.                                                     *)
TelemetrySound ==
    /\ \A p \in Providers : EventsOf(p) = SelectSeq(log, LAMBDA e : e.provider = p)
    /\ Len(log) <= MaxEvents
    /\ OverallStats.requests = Total([p \in Providers |-> Ranking(p).requests])
    /\ OverallStats.successes = Total([p \in Providers |-> Ranking(p).successes])
    /\ queries.total = Total(queries.counts) /\ Len(queries.entries) <= MaxEvents
    /\ Len(spans) = Len(metrics) + (IF attempt > 0 THEN 1 ELSE 0)
    /\ \A i \in DOMAIN metrics : spans[i] = IF metrics[i].success THEN "good" ELSE "bad"
    /\ Len(SelectSeq(published, LAMBDA e : e = "started")) = Len(spans)
    /\ \A s \in DOMAIN received : received[s] = published
=============================================================================
