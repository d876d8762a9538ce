------------------------------- MODULE EventBus -------------------------------
(***************************************************************************)
(* The event bus of src/app/core/events/event_bus.py on an asyncio loop,   *)
(* whose ready queue is first in, first out.  emit() schedules a publish;  *)
(* publish() reads the handlers when it runs and schedules each of them.   *)
(* A handler may await (its end is a later step) and may raise.            *)
(***************************************************************************)
EXTENDS Integers, Sequences, FiniteSets, SequencesExt

CONSTANTS
    Handlers,    (* async functions                                         *)
    Topics,      (* event types, "*" apart                                  *)
    MaxEvents,   (* bound: events that are published                        *)
    MaxChanges   (* bound: subscriptions that are made or taken back        *)

BusAssumption == "*" \notin Topics

VARIABLES
    handlers,    (* _handlers: topic or "*" -> sequence of handlers         *)
    ready,       (* the loop's queue of tasks that can run                  *)
    running,     (* handlers that have started and not ended: <<h, event>>  *)
    gathers,     (* events whose publish() is awaited by a caller           *)
    started,     (* history: what has started, <<h, event>>                 *)
    due,         (* history: deliveries that a publish() scheduled          *)
    events, changes

busVars == <<handlers, ready, running, gathers, started, due, events, changes>>

Keys == Topics \cup {"*"}

Init ==
    /\ handlers = [k \in Keys |-> <<>>]
    /\ ready = <<>> /\ running = {} /\ gathers = {} /\ started = <<>> /\ due = {}
    /\ events = 0 /\ changes = 0

(* subscribe: a handler is in the list of a key at most once. *)
Subscribe(k, h) ==
    /\ changes < MaxChanges /\ changes' = changes + 1
    /\ h \notin ToSet(handlers[k])
    /\ handlers' = [handlers EXCEPT ![k] = Append(@, h)]
    /\ UNCHANGED <<ready, running, gathers, started, due, events>>

(* unsubscribe. *)
Unsubscribe(k, h) ==
    /\ changes < MaxChanges /\ changes' = changes + 1
    /\ \E i \in DOMAIN handlers[k] :
          handlers[k][i] = h /\ handlers' = [handlers EXCEPT ![k] = RemoveAt(@, i)]
    /\ UNCHANGED <<ready, running, gathers, started, due, events>>

(* The tasks that publish() creates for an event: the topic's handlers, then *)
(* those of every topic.  A handler in both lists is called twice.           *)
Deliveries(topic, e, via) ==
    LET Tasks(k) == [i \in DOMAIN handlers[k] |->
                        [task |-> "handle", event |-> e, via |-> via, key |-> k, handler |-> handlers[k][i]]]
    IN  Tasks(topic) \o Tasks("*")

(* emit: the event itself is all that is passed on. *)
Emit(topic) ==
    /\ events < MaxEvents /\ events' = events + 1
    /\ ready' = Append(ready, [task |-> "publish", event |-> events + 1, via |-> "emit",
                               key |-> topic, handler |-> "none"])
    /\ UNCHANGED <<handlers, running, gathers, started, due, changes>>

(* await publish(): it runs at once, in the caller's task. *)
Publish(topic) ==
    /\ events < MaxEvents /\ events' = events + 1
    /\ ready' = ready \o Deliveries(topic, events + 1, "publish")
    /\ gathers' = gathers \cup {events + 1}
    /\ due' = due \cup ToSet(Deliveries(topic, events + 1, "publish"))
    /\ UNCHANGED <<handlers, running, started, changes>>

(* The loop runs the publish of an emitted event. *)
RunPublish ==
    /\ ready # <<>> /\ Head(ready).task = "publish"
    /\ LET new == Deliveries(Head(ready).key, Head(ready).event, "emit")
       IN  ready' = Tail(ready) \o new /\ due' = due \cup ToSet(new)
    /\ UNCHANGED <<handlers, running, gathers, started, events, changes>>

(* The loop starts a handler; _safe_dispatch keeps what it raises. *)
RunHandler ==
    /\ ready # <<>> /\ Head(ready).task = "handle"
    /\ ready' = Tail(ready)
    /\ started' = Append(started, Head(ready))
    /\ running' = running \cup {Head(ready)}
    /\ UNCHANGED <<handlers, gathers, due, events, changes>>

(* A handler returns or raises. *)
HandlerEnds(d) ==
    /\ running' = running \ {d}
    /\ UNCHANGED <<handlers, ready, gathers, started, due, events, changes>>

(* gather is over: the caller of publish() goes on. *)
PublishReturns(e) ==
    /\ \A d \in running \cup ToSet(ready) : d.event # e \/ d.task = "publish"
    /\ gathers' = gathers \ {e}
    /\ UNCHANGED <<handlers, ready, running, started, due, events, changes>>

Next ==
    \/ \E k \in Keys, h \in Handlers : Subscribe(k, h) \/ Unsubscribe(k, h)
    \/ \E topic \in Topics : Emit(topic) \/ Publish(topic)
    \/ RunPublish \/ RunHandler
    \/ \E d \in running : HandlerEnds(d)
    \/ \E e \in gathers : PublishReturns(e)

Spec == Init /\ [][Next]_busVars

-----------------------------------------------------------------------------
(* Handlers start in the order in which the events were made, whatever they  *)
(* raise and however long they take, but for one that is published by an     *)
(* await and overtakes emitted ones that are still queued; and a handler is  *)
(* called for an event at most once through each of its subscriptions.       *)
DeliveredInOrder ==
    /\ \A i, j \in DOMAIN started :
          i < j /\ started[i].event > started[j].event =>
             started[i].via = "publish" /\ started[j].via = "emit"
    /\ IsInjective(started)
    /\ ToSet(started) \cup {t \in ToSet(ready) : t.task = "handle"} = due
=============================================================================
