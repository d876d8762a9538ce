------------------------------- MODULE Container -------------------------------
(***************************************************************************)
(* DependencyContainer of src/app/core/container/dependency_container.py.  *)
(* A call holds the container's lock from start to end, so that one thread *)
(* acts; but factories and constructors are code of others, which runs in  *)
(* the middle of a resolution, may use the container itself, and may fail. *)
(***************************************************************************)
EXTENDS Integers, Sequences, FiniteSets, SequencesExt

CONSTANTS
    Types,       (* the interfaces                                              *)
    Parameters,  (* of each one, what its constructor takes: a sequence of      *)
                 (* [on, required]                                              *)
    MaxCalls     (* bound: calls under way, past which other code resolves      *)
                 (* nothing                                                     *)

VARIABLES
    entries,     (* _entries: registered type -> [singleton, inject, built]     *)
    stack,       (* _resolve_stack                                              *)
    calls,       (* the calls of resolve under way, each in the one before it   *)
    answer,      (* how the last call that ended did: "ok" or its error         *)
    built,       (* history: objects made for each singleton's registration     *)
    asked        (* history: whether the outermost call asked for what could be *)
                 (* constructed; "unclear" once other code did more than return *)

containerVars == <<entries, stack, calls, answer, built, asked>>

Init ==
    /\ entries = <<>> /\ stack = <<>> /\ calls = <<>>
    /\ answer = "ok" /\ built = [t \in Types |-> 0] /\ asked = "unclear"

Has(es, t) == t \in DOMAIN es

(* The call under way in which others' code runs, or is at parameter `at` of *)
(* the constructor.  A registration that is removed meanwhile is not `live`. *)
Top == Last(calls)
Injecting == calls # <<>> /\ Top.at > 0
OthersRun == calls # <<>> => Top.at = 0
Wanted == Parameters[Top.type]

-----------------------------------------------------------------------------
(* The types that can be constructed: those with an instance, and those      *)
(* whose registered parameters all can and that lack no required one.        *)
Constructible(es) ==
    LET Ready(S, t) ==
            es[t].built \/ ~es[t].inject \/ \A i \in DOMAIN Parameters[t] :
                              IF Has(es, Parameters[t][i].on) THEN Parameters[t][i].on \in S
                              ELSE ~Parameters[t][i].required
        stage[k \in 0..Cardinality(Types)] ==
            IF k = 0 THEN {} ELSE {t \in DOMAIN es : Ready(stage[k - 1], t)}
    IN  stage[Cardinality(Types)]

(* Other code does more than return an object. *)
Disturbs == asked' = "unclear"

(* resolve, up to where something is built, in the calls `under` it.  What   *)
(* is not registered, what is on the stack already, and what has an instance *)
(* is answered at once.                                                      *)
Enter(under, t) ==
    LET answered == IF ~Has(entries, t) THEN "unregistered"
                    ELSE IF t \in ToSet(stack) THEN "circular" ELSE "ok"
    IN  /\ answer' = answered
        /\ IF answered = "ok" /\ ~entries[t].built
           THEN /\ stack' = Append(stack, t)
                /\ calls' = Append(under, [type |-> t, at |-> IF entries[t].inject THEN 1 ELSE 0,
                                           lacks |-> FALSE, live |-> TRUE, cleared |-> FALSE])
           ELSE stack' = stack /\ calls' = under

(* Other code resolves a type, and does with the answer what it likes. *)
Resolve(t) ==
    /\ OthersRun /\ Len(calls) < MaxCalls
    /\ Enter(calls, t)
    /\ IF calls = <<>>
       THEN asked' = IF t \in Constructible(entries) THEN "possible" ELSE "impossible"
       ELSE Disturbs
    /\ UNCHANGED <<entries, built>>

(* _build takes the parameters in turn, and notes those that it lacks. *)
Inject ==
    /\ Injecting /\ answer = "ok" /\ Top.at <= Len(Wanted)
    /\ LET p    == Wanted[Top.at]
           here == Has(entries, p.on)
           next == [calls EXCEPT ![Len(calls)].at = @ + 1,
                                 ![Len(calls)].lacks = @ \/ (p.required /\ ~here)]
       IN  IF here THEN Enter(next, p.on) ELSE calls' = next /\ UNCHANGED <<stack, answer>>
    /\ UNCHANGED <<entries, built, asked>>

(* All parameters are there: the constructor runs. *)
Construct ==
    /\ Injecting /\ answer = "ok" /\ Top.at > Len(Wanted) /\ ~Top.lacks
    /\ calls' = [calls EXCEPT ![Len(calls)].at = 0]
    /\ UNCHANGED <<entries, stack, answer, built, asked>>

-----------------------------------------------------------------------------
(* Mutation: a call that fails leaves its type on the stack. *)
PopOnSuccess(outcome) ==
    /\ calls' = Front(calls)
    /\ answer' = outcome
    /\ stack' = IF outcome = "ok" /\ stack # <<>> THEN Front(stack) ELSE stack

(* resolve ends, and in any case takes an element off the stack.  There is   *)
(* none if the container was cleared meanwhile: that is an error of its own. *)
Pop(outcome) ==
    /\ calls' = Front(calls)
    /\ IF stack = <<>> THEN answer' = "index" /\ stack' = stack
       ELSE answer' = outcome /\ stack' = Front(stack)

(* Other code returns an object, which a singleton's registration keeps. *)
Return ==
    /\ calls # <<>> /\ Top.at = 0
    /\ Pop("ok")
    /\ IF Top.live /\ entries[Top.type].singleton
       THEN /\ built' = [built EXCEPT ![Top.type] = @ + 1]
            /\ entries' = [entries EXCEPT ![Top.type].built = TRUE]
       ELSE UNCHANGED <<entries, built>>
    /\ UNCHANGED asked

(* Other code raises, an error of its own or what a resolution told it; a    *)
(* circle stays one on its way up, all else is a failed resolution.          *)
Raise ==
    /\ calls # <<>> /\ Top.at = 0
    /\ \E outcome \in {"failed"} \cup ({answer} \cap {"circular"}) : Pop(outcome)
    /\ Disturbs
    /\ UNCHANGED <<entries, built>>

(* A parameter could not be resolved, or a required one is not registered. *)
InjectFails ==
    /\ Injecting
    /\ answer # "ok" \/ (Top.at > Len(Wanted) /\ Top.lacks)
    /\ Pop(IF answer = "circular" THEN "circular" ELSE "failed")
    /\ UNCHANGED <<entries, built, asked>>

-----------------------------------------------------------------------------
(* register_singleton of an instance, a factory or neither, in which case    *)
(* the type itself is built; and register_factory.                           *)
Registrations ==
    {[singleton |-> TRUE, inject |-> FALSE, built |-> TRUE],
     [singleton |-> TRUE, inject |-> FALSE, built |-> FALSE],
     [singleton |-> TRUE, inject |-> TRUE, built |-> FALSE],
     [singleton |-> FALSE, inject |-> FALSE, built |-> FALSE]}

Register(t, entry) ==
    /\ OthersRun /\ ~Has(entries, t)
    /\ entries' = [u \in DOMAIN entries \cup {t} |-> IF u = t THEN entry ELSE entries[u]]
    /\ built' = [built EXCEPT ![t] = IF entry.built THEN 1 ELSE 0]
    /\ Disturbs
    /\ UNCHANGED <<stack, calls, answer>>

Take(ts) ==
    /\ OthersRun
    /\ entries' = [u \in DOMAIN entries \ ts |-> entries[u]]
    /\ built' = [t \in Types |-> IF t \in ts THEN 0 ELSE built[t]]
    /\ Disturbs
    /\ UNCHANGED answer

Unregister(t) ==
    /\ Has(entries, t) /\ Take({t})
    /\ calls' = [i \in DOMAIN calls |-> [calls[i] EXCEPT !.live = @ /\ calls[i].type # t]]
    /\ UNCHANGED stack

(* clear; other code may call it in the middle of a resolution. *)
Clear ==
    /\ DOMAIN entries # {} \/ stack # <<>>
    /\ Take(Types)
    /\ calls' = [i \in DOMAIN calls |-> [calls[i] EXCEPT !.live = FALSE, !.cleared = TRUE]]
    /\ stack' = <<>>

Next ==
    \/ \E t \in Types :
          \/ \E entry \in Registrations : Register(t, entry)
          \/ Resolve(t) \/ Unregister(t)
    \/ Inject \/ Construct \/ Return \/ Raise \/ InjectFails \/ Clear

Spec == Init /\ [][Next]_containerVars
-----------------------------------------------------------------------------
(* Whatever factories and constructors do in the middle of a resolution, and *)
(* wherever it fails, the stack is that of the calls under way, so that what *)
(* comes later is not taken for a circle, and a circle never goes on: those  *)
(* calls are of different types (but for calls from before a clear()).  A    *)
(* singleton is made at most once for each registration; and where other     *)
(* code only returns objects, resolve answers exactly when the registrations *)
(* well-foundedly allow it.                                                  *)
ContainerSound ==
    LET known == SelectSeq(calls, LAMBDA c : ~c.cleared)
    IN  /\ stack = [i \in DOMAIN known |-> known[i].type]
        /\ IsInjective(stack)
        /\ \A t \in Types : built[t] <= 1
        /\ calls = <<>> /\ asked # "unclear" => (answer = "ok" <=> asked = "possible")
=============================================================================
