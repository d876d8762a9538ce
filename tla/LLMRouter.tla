------------------------------- MODULE LLMRouter -------------------------------
(***************************************************************************)
(* The LLM router of src/app/llm/llm_router.py with its provider registry, *)
(* health monitor, circuit breakers, response cache and request queue.     *)
(*                                                                         *)
(* A request is generated asynchronously (through the queue of a provider, *)
(* served by one worker), synchronously in a thread ("direct") or streamed.*)
(* A handler is atomic from one suspension to the next: from its start, or *)
(* the failure of an attempt, up to the wait for the next provider.  Each  *)
(* provider call ends in one step with everything that is recorded of it.  *)
(* Scores and costs only order the providers that may be selected, so any  *)
(* of these is selected here.                                              *)
(***************************************************************************)
EXTENDS Sequences, SequencesExt, FiniteSets, FiniteSetsExt, CircuitBreaker

CONSTANTS
    Providers, Prompts,
    Requests,      (* requests, each made at most once                       *)
    KindsOf,       (* of each request: "queued", "direct" or "stream"        *)
    PinsOf,        (* of each request: providers it may be pinned to         *)
    Fallbacks,     (* FallbackManager: a sequence of providers for each one  *)
    Managed,       (* providers that are registered, unregistered, or        *)
                   (* rejected by a policy rule, while requests run          *)
    Rpm,           (* requests_per_minute of each provider, 0: no limit      *)
    GlobalLimit,   (* global_max_concurrency                                 *)
    CacheSize,     (* max_size of the response cache                         *)
    MaxChanges     (* bound: registrations and rule changes                  *)

ASSUME CacheSizeAssumption == CacheSize \in Nat \ {0}
ASSUME RouterAssumption ==
    /\ KindsOf \in [Requests -> SUBSET {"queued", "direct", "stream"}]
    /\ PinsOf \in [Requests -> SUBSET Providers]
    /\ Fallbacks \in [Providers -> Seq(Providers)]
    /\ Managed \subseteq Providers
    /\ Rpm \in [Providers -> Nat] /\ GlobalLimit \in Nat \ {0} /\ MaxChanges \in Nat

VARIABLES
    breaker,    (* _circuit_breakers: a function from the registered ids     *)
    margin,     (* health: successes minus failures of each provider         *)
    chains,     (* _chains of the fallback manager                           *)
    blocked,    (* providers that the policy rules reject                    *)
    cache,
    request,
    queue,      (* of each provider: items that are submitted and not taken  *)
    worker,     (* of each provider: its state and the item it holds         *)
    recent,     (* of each provider: submissions in the limiter's window     *)
    changes,    (* registrations and rule changes so far                     *)
    lost        (* history: providers of which an outcome will never reach   *)
                (* the breaker, since it was last half-open                  *)

routing == <<margin, chains, blocked>>
service == <<queue, worker, recent>>
vars == <<breaker, routing, cache, request, service, changes, lost>>

-----------------------------------------------------------------------------
(* The response cache of prompt_cache.py: the sequence of its entries from   *)
(* the least to the most recently accessed (last_accessed is a counter, so   *)
(* the order is total).  An entry bears the request it answers and the       *)
(* provider its key was built for; only the request is hashed.               *)
Entry(prompt, from) == [prompt |-> prompt, from |-> from]

Lookup(held, prompt) == SelectSeq(held, LAMBDA e : e.prompt = prompt)

Without(held, prompt) == SelectSeq(held, LAMBDA e : e.prompt # prompt)

Caches(held, prompt) == Lookup(held, prompt) # <<>>

(* get on a live entry: it becomes the most recently accessed one. *)
Accessed(held, prompt) == Without(held, prompt) \o Lookup(held, prompt)

(* put: a full cache first evicts its least recently accessed entry, even    *)
(* when the request has an entry already.                                    *)
Put(held, entry) ==
    LET room == IF Len(held) >= CacheSize THEN Tail(held) ELSE held
    IN  Append(Without(room, entry.prompt), entry)

(* invalidate_provider. *)
WithoutProvider(held, provider) == SelectSeq(held, LAMBDA e : e.from # provider)

-----------------------------------------------------------------------------
Registered == DOMAIN breaker

NoItem == [req |-> "none", pos |-> 0, prompt |-> "none"]
Worker(state, item) == [state |-> state, item |-> item]
Absent == Worker("none", NoItem)

(* A request that is over, or not made yet, is only its stage.               *)
Ended(stage) ==
    [stage |-> stage, kind |-> "none", prompt |-> "none", chain |-> <<>>, pos |-> 0]

Init ==
    /\ \E start \in {Providers, Providers \ Managed} :
          /\ breaker = [p \in start |-> NewBreaker]
          /\ margin = [p \in Providers |-> IF p \in start THEN 1 ELSE 0]
    /\ chains = Fallbacks
    /\ blocked = {} /\ cache = <<>>
    /\ request = [r \in Requests |-> Ended("new")]
    /\ queue = [p \in Providers |-> <<>>] /\ worker = [p \in Providers |-> Absent]
    /\ recent = [p \in Providers |-> 0] /\ changes = 0
    /\ lost = {}

InStage(stages) == {r \in Requests : request[r].stage \in stages}
At(r) == request[r].chain[request[r].pos]

(* History: a breaker that is evaluated while its timeout has passed enters  *)
(* a new recovery.                                                           *)
Recovering == {p \in Registered : breaker[p].state = "open" /\ breaker[p].due}

-----------------------------------------------------------------------------
(* Selection.                                                                *)

(* is_healthy: success_rate >= 0.5. *)
Healthy(p) == margin[p] >= 0

(* The candidates that pass the policies.  A registered provider always has  *)
(* a breaker object, so that the list of healthy ones without a breaker is   *)
(* empty and the healthy ones of all candidates are taken, open or not.      *)
Allowed ==
    LET healthy == {p \in Registered : Healthy(p)}
    IN  (IF healthy = {} THEN Registered ELSE healthy) \ blocked

ChainFrom(p) == SelectSeq(<<p>> \o chains[p], LAMBDA q : q \in Allowed)

-----------------------------------------------------------------------------
(* Walking a chain.                                                          *)

(* An attempt on p gets past the breaker, the policies and, when it is       *)
(* queued, the rate limit.                                                   *)
Admits(kind, p) ==
    /\ Allows(breaker[p])
    /\ p \notin blocked
    /\ kind = "queued" /\ Rpm[p] > 0 => recent[p] < Rpm[p]

(* The request q goes on at position i of its chain, up to the provider that *)
(* admits it; on the way each breaker that allows it gives a probe away, and *)
(* each provider of a queued one that is not rejected gets a live worker.    *)
(* `looked` are the breakers whose state is read before.                     *)
Walk(r, q, i, looked) ==
    LET Tried  == {j \in i..Len(q.chain) : q.chain[j] \in Registered}
        land   == {j \in Tried : Admits(q.kind, q.chain[j])}
        at     == IF land = {} THEN 0 ELSE Min(land)
        asked  == {q.chain[j] : j \in {t \in Tried : land = {} \/ t <= at}}
        passed == {p \in asked : Allows(breaker[p]) /\ p \notin blocked}
        target == IF at = 0 THEN {} ELSE {q.chain[at]}
        Probes(p) == Allows(breaker[p]) /\ Updated(breaker[p]).state = "half_open"
        live   == IF q.kind = "queued" THEN passed ELSE {}
    IN
    \E expired \in BOOLEAN :
    LET known == IF expired /\ Tried # {} THEN Without(cache, q.prompt) ELSE cache
        hit   == q.kind # "stream" /\ Tried # {} /\ ~expired /\ Caches(cache, q.prompt)
    IN
    /\ q.kind = "stream" => ~expired
    /\ cache' = IF hit THEN Accessed(known, q.prompt) ELSE known
    /\ breaker' = [p \in Registered |->
          IF p \in asked /\ ~hit THEN AfterAllow(breaker[p])
          ELSE IF p \in looked THEN Updated(breaker[p]) ELSE breaker[p]]
    /\ lost' = (lost \ (Recovering \cap (looked \cup (IF hit THEN {} ELSE asked))))
               \cup (IF hit THEN {} ELSE {p \in asked \ target : Probes(p)})
    /\ request' = [request EXCEPT ![r] =
          IF hit
          THEN Ended("answered")
          ELSE IF at = 0 THEN Ended("failed")
          ELSE [q EXCEPT !.pos = at,
                         !.stage = IF q.kind = "queued" THEN "waiting" ELSE "calling"]]
    /\ worker' = [p \in Providers |->
          IF ~hit /\ p \in live /\ worker[p].state = "none"
          THEN Worker("idle", NoItem) ELSE worker[p]]
    /\ IF q.kind = "queued" /\ ~hit /\ at # 0
       THEN /\ queue' = [queue EXCEPT ![q.chain[at]] = Append(@, [req |-> r, pos |-> at, prompt |-> q.prompt])]
            /\ recent' = IF Rpm[q.chain[at]] = 0 THEN recent
                         ELSE [recent EXCEPT ![q.chain[at]] = @ + 1]
       ELSE UNCHANGED <<queue, recent>>
    /\ UNCHANGED <<routing, changes>>

(* generate_async, generate and stream: routed, or pinned to a provider. A   *)
(* stream has no fallback.                                                   *)
New(kind, prompt, chain) ==
    [Ended("new") EXCEPT !.kind = kind, !.prompt = prompt,
                         !.chain = IF kind = "stream" THEN <<Head(chain)>> ELSE chain]

StartRouted(r) ==
    /\ request[r].stage = "new"
    /\ \E kind \in KindsOf[r], prompt \in Prompts, p \in Allowed :
          Walk(r, New(kind, prompt, ChainFrom(p)), 1, Registered)

StartPinned(r) ==
    /\ request[r].stage = "new"
    /\ \E kind \in KindsOf[r], prompt \in Prompts, p \in Registered \cap PinsOf[r] :
          Walk(r, New(kind, prompt, <<p>>), 1, {})

(* The next provider of the chain after a failed attempt. *)
Continue(r) ==
    /\ request[r].stage = "retry"
    /\ Walk(r, request[r], request[r].pos + 1, {})

-----------------------------------------------------------------------------
(* The outcome of a provider call: health, breaker, cache.                   *)

Outcome(p, prompt, ok, stream) ==
    /\ margin' = [margin EXCEPT ![p] = IF ok THEN @ + 1 ELSE @ - 1]
    /\ breaker' = IF p \notin Registered THEN breaker
                  ELSE [breaker EXCEPT ![p] = IF ok THEN OnSuccess(@) ELSE OnFailure(@)]
    /\ lost' = lost \ (Recovering \cap {p})
    /\ cache' = IF ok /\ ~stream THEN Put(cache, Entry(prompt, p)) ELSE cache

(* Mutation: the answer goes to the request wherever it now is. *)
SettleAlways(item, ok) ==
    IF request[item.req].stage # "waiting" THEN request
    ELSE [request EXCEPT ![item.req] =
            IF ok THEN Ended("answered") ELSE [@ EXCEPT !.stage = "retry"]]

(* The future of an item can be set while its caller waits for it.           *)
Pending(item) == request[item.req].stage = "waiting" /\ request[item.req].pos = item.pos

Settle(item, ok) ==
    IF ~Pending(item) THEN request
    ELSE [request EXCEPT ![item.req] =
            IF ok THEN Ended("answered") ELSE [@ EXCEPT !.stage = "retry"]]

(* A direct call or a stream ends; a stream that fails is not tried again.   *)
CallEnds(r) ==
    /\ request[r].stage = "calling"
    /\ \E ok \in BOOLEAN :
        LET q == request[r]
        IN  /\ Outcome(At(r), q.prompt, ok, q.kind = "stream")
            /\ request' = [request EXCEPT ![r] =
                  IF ok THEN Ended("answered")
                  ELSE IF q.kind = "stream" THEN Ended("failed")
                  ELSE [q EXCEPT !.stage = "retry"]]
    /\ UNCHANGED <<chains, blocked, service, changes>>

(* The consumer of a stream stops reading: GeneratorExit is no Exception.    *)
Abandon(r) ==
    /\ request[r].stage = "calling" /\ request[r].kind = "stream"
    /\ request' = [request EXCEPT ![r] = Ended("cancelled")]
    /\ lost' = lost \cup {At(r)}
    /\ UNCHANGED <<breaker, routing, cache, service, changes>>

-----------------------------------------------------------------------------
(* The request queue.                                                        *)

Busy == {p \in Providers : worker[p].state = "calling"}

Take(p) ==
    /\ worker[p].state = "idle" /\ queue[p] # <<>>
    /\ queue' = [queue EXCEPT ![p] = Tail(@)]
    /\ worker' = [worker EXCEPT ![p] =
          Worker(IF Cardinality(Busy) < GlobalLimit THEN "calling" ELSE "taken",
                 Head(queue[p]))]
    /\ UNCHANGED <<breaker, routing, cache, request, recent, changes, lost>>

(* The global semaphore is free for a worker that holds an item. *)
Begin(p) ==
    /\ worker[p].state = "taken" /\ Cardinality(Busy) < GlobalLimit
    /\ worker' = [worker EXCEPT ![p].state = "calling"]
    /\ UNCHANGED <<breaker, routing, cache, request, queue, recent, changes, lost>>

(* Mutation: the outcome is recorded for a caller that still waits. *)
WorkerEndsQuietly(p) ==
    /\ worker[p].state = "calling"
    /\ \E ok \in BOOLEAN :
        LET item == worker[p].item
        IN  /\ IF Pending(item) THEN Outcome(p, item.prompt, ok, FALSE)
               ELSE UNCHANGED <<margin, breaker, lost, cache>>
            /\ request' = Settle(item, ok)
            /\ worker' = [worker EXCEPT ![p] =
                  IF Pending(item) THEN Worker("idle", NoItem) ELSE Absent]
    /\ UNCHANGED <<chains, blocked, queue, recent, changes>>

(* The call of p's worker ends.  Setting a future that is cancelled raises,  *)
(* in the handler too, and the worker is gone.                               *)
WorkerEnds(p) ==
    /\ worker[p].state = "calling"
    /\ \E ok \in BOOLEAN :
        LET item == worker[p].item
        IN  /\ Outcome(p, item.prompt, ok, FALSE)
            /\ request' = Settle(item, ok)
            /\ worker' = [worker EXCEPT ![p] =
                  IF Pending(item) THEN Worker("idle", NoItem) ELSE Absent]
    /\ UNCHANGED <<chains, blocked, queue, recent, changes>>

(* Mutation: a wait has no timeout once a worker has taken the item. *)
TimeoutInQueue(r) ==
    /\ request[r].stage = "waiting"
    /\ \E i \in 1..Len(queue[At(r)]) : queue[At(r)][i].req = r
    /\ request' = [request EXCEPT ![r].stage = "retry"]
    /\ UNCHANGED <<breaker, routing, cache, service, changes, lost>>

(* wait_for in submit: the future is cancelled, its item stays where it is.  *)
Timeout(r) ==
    /\ request[r].stage = "waiting"
    /\ request' = [request EXCEPT ![r].stage = "retry"]
    /\ UNCHANGED <<breaker, routing, cache, service, changes, lost>>

(* The task that waits is cancelled: no further provider is tried. *)
CallerCancelled(r) ==
    /\ request[r].stage = "waiting"
    /\ request' = [request EXCEPT ![r] = Ended("cancelled")]
    /\ UNCHANGED <<breaker, routing, cache, service, changes, lost>>

-----------------------------------------------------------------------------
(* Administration and time.                                                  *)

Register(p) ==
    /\ p \notin Registered /\ changes < MaxChanges
    /\ changes' = changes + 1
    /\ breaker' = [q \in Registered \cup {p} |-> IF q = p THEN NewBreaker ELSE breaker[q]]
    /\ margin' = [margin EXCEPT ![p] = @ + 1]
    /\ lost' = lost \ {p}
    /\ UNCHANGED <<chains, blocked, cache, request, service>>

Unregister(p) ==
    /\ p \in Registered /\ changes < MaxChanges
    /\ changes' = changes + 1
    /\ breaker' = [q \in Registered \ {p} |-> breaker[q]]
    /\ margin' = [margin EXCEPT ![p] = 0]
    /\ chains' = [chains EXCEPT ![p] = <<>>]
    /\ cache' = WithoutProvider(cache, p)
    /\ UNCHANGED <<blocked, request, service, lost>>

(* add_rule and remove_rule of a block list. *)
ChangeRule(p) ==
    /\ changes < MaxChanges
    /\ changes' = changes + 1
    /\ blocked' = IF p \in blocked THEN blocked \ {p} ELSE blocked \cup {p}
    /\ UNCHANGED <<breaker, margin, chains, cache, request, service, lost>>

BreakerDue(p) ==
    /\ p \in Registered /\ breaker[p].state = "open" /\ ~breaker[p].due
    /\ breaker' = [breaker EXCEPT ![p].due = TRUE]
    /\ UNCHANGED <<routing, cache, request, service, changes, lost>>

(* The oldest submission leaves the sliding window of the limiter. *)
WindowSlides(p) ==
    /\ recent[p] > 0
    /\ recent' = [recent EXCEPT ![p] = @ - 1]
    /\ UNCHANGED <<breaker, routing, cache, request, queue, worker, changes, lost>>

Next ==
    \/ \E r \in Requests :
          \/ StartRouted(r) \/ StartPinned(r) \/ Continue(r)
          \/ CallEnds(r) \/ Abandon(r) \/ Timeout(r) \/ CallerCancelled(r)
    \/ \E p \in Providers :
          \/ Take(p) \/ Begin(p) \/ WorkerEnds(p)
          \/ BreakerDue(p) \/ WindowSlides(p)
    \/ \E p \in Managed : Register(p) \/ Unregister(p) \/ ChangeRule(p)

Spec == Init /\ [][Next]_vars

(* The event loop resumes a caller and fires the timer of its wait (the two  *)
(* are never enabled together).  Nothing is assumed of the providers, nor of *)
(* direct calls and streams.                                                 *)
Queued == {r \in Requests : KindsOf[r] = {"queued"}}

Fairness == \A r \in Queued : WF_vars(Continue(r) \/ Timeout(r))

FairSpec == Spec /\ Fairness
-----------------------------------------------------------------------------
(* Properties.                                                               *)

(* Each method leaves a breaker that it cannot misread later: a closed one   *)
(* is below its failure threshold, a recovering one has given away at most   *)
(* RecoveryThreshold probes and is still short of that many successes, and   *)
(* only an open one can be due.  Answers of calls from before, which count   *)
(* in whatever state they find, do not break this.                           *)
BreakersSound ==
    /\ Registered \subseteq Providers
    /\ \A p \in Registered : Sound(breaker[p])

(* A call to p that will end, or an item that a worker will come to. *)
Underway(p) ==
    \/ \E r \in InStage({"calling"}) : At(r) = p
    \/ worker[p].state \in {"taken", "calling"}
    \/ worker[p].state = "idle" /\ queue[p] # <<>>

(* Nothing can end the recovery of p: every probe is given away and no call  *)
(* is there to succeed or fail.                                              *)
Stuck(p) ==
    /\ p \in Registered
    /\ breaker[p].state = "half_open" /\ breaker[p].probes >= RecoveryThreshold
    /\ ~Underway(p)

(* A recovering breaker whose probes are used up is still waiting for one of *)
(* them, unless a probe was given away and its outcome lost: to a policy or  *)
(* the rate limit that refused afterwards, to a stream that was abandoned, or *)
(* to an item left behind by a worker that died.              *)
StuckOnlyByLoss == \A p \in Providers : Stuck(p) => p \in lost \/ queue[p] # <<>>

(* "HALF_OPEN: A limited number of probe requests are allowed through to     *)
(* test whether the provider has recovered": the test always comes to an end.*)
ProbesTestProvider == \A p \in Providers : ~Stuck(p)

(* Answers go to the attempt that asked: a request that waits for a provider *)
(* is answered only by a call to that provider which succeeds in this step,  *)
(* one that looks for a provider only from the cache; what an attempt that   *)
(* was given up comes to later never reaches it, nor a request that has gone *)
(* on to another provider.                                                   *)
AnsweredRightly(r) ==
    IF request[r].stage \in {"waiting", "calling"}
    THEN margin'[At(r)] = margin[At(r)] + 1
    ELSE \E prompt \in Prompts :
            /\ Caches(cache, prompt)
            /\ \/ request[r].stage = "new"
               \/ request[r].stage = "retry" /\ prompt = request[r].prompt

AnswerIsOfAttempt ==
    [][\A r \in Requests :
          request[r].stage # "answered" /\ request'[r].stage = "answered" => AnsweredRightly(r)]_vars

(* A queued request ends, whatever the providers and their workers do: every *)
(* wait has a timeout and every chain an end.                                *)
QueuedRequestsEnd ==
    \A r \in Queued :
        (request[r].stage # "new") ~> (request[r].stage \in {"answered", "failed", "cancelled"})
=============================================================================
