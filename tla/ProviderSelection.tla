--------------------------- MODULE ProviderSelection ---------------------------
(***************************************************************************)
(* Which provider the router of src/app/llm/llm_router.py selects, from    *)
(* what its capability matrix, health monitor, cost optimizer, policies    *)
(* and breakers know, and which one the load balancer picks.  Scores are   *)
(* whole numbers: 600 is 1.0 of a component and 6000 of the weighted sum.  *)
(***************************************************************************)
EXTENDS Integers, Sequences, FiniteSets, FiniteSetsExt, SequencesExt

CONSTANTS
    Names,        (* the provider ids, in order                              *)
    MaxOutcomes   (* bound: outcomes recorded of each provider               *)

Providers == ToSet(Names)

VARIABLES
    caps,      (* capability matrix: registered id -> ProviderCapabilities    *)
    tally,     (* health: successes, of which slow, and failures of each      *)
    price,     (* estimated cost of the request at each, in half of 0.05 USD  *)
    opened     (* providers whose breaker is open                             *)

selectionVars == <<caps, tally, price, opened>>

Capabilities == [chat : BOOLEAN, streaming : BOOLEAN, context : {4096, 8192}]

Unused == [ok |-> 0, slow |-> 0, bad |-> 0]

Init ==
    /\ caps = <<>> /\ tally = [p \in Providers |-> Unused]
    /\ price = [p \in Providers |-> 0] /\ opened = {}

Registered == DOMAIN caps

(* register_provider: the registration counts as a success without latency. *)
Register(p, c, cost) ==
    /\ p \notin Registered
    /\ caps' = [q \in Registered \cup {p} |-> IF q = p THEN c ELSE caps[q]]
    /\ tally' = [tally EXCEPT ![p].ok = @ + 1]
    /\ price' = [price EXCEPT ![p] = cost]
    /\ UNCHANGED opened

(* unregister_provider. *)
Unregister(p) ==
    /\ p \in Registered
    /\ caps' = [q \in Registered \ {p} |-> caps[q]]
    /\ tally' = [tally EXCEPT ![p] = Unused] /\ price' = [price EXCEPT ![p] = 0]
    /\ opened' = opened \ {p}

(* record_success, record_failure, and a breaker that opens or closes. *)
Outcome(p) ==
    /\ p \in Registered
    /\ \/ /\ tally[p].ok + tally[p].bad <= MaxOutcomes
          /\ tally' \in {[tally EXCEPT ![p].ok = @ + 1, ![p].slow = @ + 1], [tally EXCEPT ![p].bad = @ + 1]}
          /\ UNCHANGED opened
       \/ opened' = SymDiff(opened, {p}) /\ UNCHANGED tally
    /\ UNCHANGED <<caps, price>>

Next ==
    \E p \in Providers :
        \/ \E c \in Capabilities, cost \in 0..2 : Register(p, c, cost)
        \/ Unregister(p) \/ Outcome(p)

Spec == Init /\ [][Next]_selectionVars

-----------------------------------------------------------------------------
(* get_snapshot: the rate of successes, and whether it is a half at least. *)
Rate(p) == IF tally[p].ok = 0 THEN 0 ELSE (600 * tally[p].ok) \div (tally[p].ok + tally[p].bad)
Healthy(p) == Rate(p) >= 300

(* satisfies_context, find_compatible and the capabilities that the cost     *)
(* optimizer asks for.                                                       *)
Fits(p, c) == caps[p].context >= c.context
Capable(p, c) == Fits(p, c) /\ (c.streaming => caps[p].streaming)
Compatible(p, c) == caps[p].chat /\ Capable(p, c)

(* Preferred providers first; without a compatible one, all whose context    *)
(* suffices.                                                                 *)
Candidates(c) ==
    LET compatible == SelectSeq(Names, LAMBDA p : p \in Registered /\ Compatible(p, c))
        fitting    == SelectSeq(Names, LAMBDA p : p \in Registered /\ Fits(p, c))
        all        == IF compatible = <<>> THEN fitting ELSE compatible
    IN  SelectSeq(all, LAMBDA p : p \in c.preferred) \o SelectSeq(all, LAMBDA p : p \notin c.preferred)

(* The healthy ones, if any, that the policies let pass.  Every registered   *)
(* provider has a breaker, so that an open one keeps nobody out.             *)
Allowed(c) ==
    LET healthy == SelectSeq(Candidates(c), Healthy)
    IN  SelectSeq(IF healthy = <<>> THEN Candidates(c) ELSE healthy, LAMBDA p : p \notin c.blocked)

HealthScore(p) == IF Healthy(p) THEN Rate(p) ELSE (4 * Rate(p)) \div 10
LatencyScore(p) == IF tally[p].ok = 0 THEN 600 ELSE 600 - (600 * tally[p].slow) \div tally[p].ok
CapabilityScore(p, c) == Max({0, 600 - (IF c.streaming /\ ~caps[p].streaming THEN 150 ELSE 0)
                                     - (IF Fits(p, c) THEN 0 ELSE 300)})
CostScore(p, c) == 600 - Min({(600 * price[p]) \div (IF c.maxCost = 0 THEN 2 ELSE c.maxCost), 600})

(* _score_providers. *)
Score(p, c) ==
    Min({6000, Max({0, 3 * HealthScore(p) + 2 * LatencyScore(p) + 3 * CapabilityScore(p, c)
                       + 2 * CostScore(p, c) - (IF p \in opened THEN 3000 ELSE 0)})})

(* Best first, and as they come among equals. *)
Place(ps, p) == CHOOSE i \in DOMAIN ps : ps[i] = p
Ranked(ps, c) ==
    SortSeq(ps, LAMBDA p, q : \/ Score(p, c) > Score(q, c)
                              \/ Score(p, c) = Score(q, c) /\ Place(ps, p) < Place(ps, q))

(* The first of those with the lowest cost. *)
Cheapest(ps) == ps[Min({i \in DOMAIN ps : \A j \in DOMAIN ps : price[ps[i]] <= price[ps[j]]})]

(* _apply_strategy; select_cheapest raises if nobody is capable for the      *)
(* money, and no other strategy is then tried.                               *)
Selected(c) ==
    LET ranked     == Ranked(Allowed(c), c)
        affordable == SelectSeq(Allowed(c), LAMBDA p : Capable(p, c) /\ (c.maxCost = 0 \/ price[p] <= c.maxCost))
    IN  IF ranked = <<>> THEN "none"
        ELSE CASE c.strategy = "cheapest" -> IF affordable = <<>> THEN "none" ELSE Cheapest(affordable)
               [] c.strategy = "smart" /\ c.priority = "cost" -> Cheapest(ranked)
               [] OTHER -> ranked[1]

(* LoadBalancer.select, round robin: the counter is moved on, then used. *)
Moved(counter, ps) == (counter + 1) % Len(ps)
RoundRobin(counter, ps, k) ==
    LET c[i \in 0..k] == IF i = 0 THEN counter ELSE Moved(c[i - 1], ps) IN ps[c[k] + 1]

-----------------------------------------------------------------------------
(* A maxCost of 0 stands for none. *)
Criteria ==
    {[streaming |-> s, context |-> x, preferred |-> IF x = 4096 THEN {Last(Names)} ELSE {},
      maxCost |-> limit[1], blocked |-> limit[2], strategy |-> how[1], priority |-> how[2]] :
        s \in BOOLEAN, x \in {4096, 8192}, limit \in {<<0, {}>>, <<1, {}>>, <<0, {Names[1]}>>},
        how \in {<<"fastest", "speed">>, <<"cheapest", "quality">>, <<"best", "quality">>,
                 <<"smart", "quality">>, <<"smart", "cost">>}}

AtLeast(q, p, c) ==
    /\ HealthScore(q) >= HealthScore(p) /\ LatencyScore(q) >= LatencyScore(p)
    /\ CapabilityScore(q, c) >= CapabilityScore(p, c) /\ CostScore(q, c) >= CostScore(p, c)
    /\ q \in opened => p \in opened

(* A selected provider is registered, has the context and passes the         *)
(* policies, and is healthy if any candidate is; the cheapest strategy never *)
(* pays more than it must for what the request requires; the others never    *)
(* pass over a provider that is better in some respect and worse in none;    *)
(* and round robin visits each of its candidates once in a turn.             *)
SelectionSound ==
    /\ \A c \in Criteria :
          LET p == Selected(c)
              others == ToSet(Allowed(c))
          IN  IF p = "none"
              THEN others = {} \/ c.strategy = "cheapest"
              ELSE /\ p \in Registered \ c.blocked /\ Fits(p, c)
                   /\ Healthy(p) \/ \A q \in ToSet(Candidates(c)) : ~Healthy(q)
                   /\ c.strategy = "cheapest" =>
                         /\ Capable(p, c)
                         /\ \A q \in others : Capable(q, c) => price[p] <= price[q]
                   /\ c.strategy # "cheapest" /\ c.priority # "cost" =>
                         \A q \in others : AtLeast(q, p, c) => AtLeast(p, q, c)
    /\ \A counter \in 0..(Len(Names) + 1) :
          {RoundRobin(counter, Names, k) : k \in 1..Len(Names)} = Providers
=============================================================================
