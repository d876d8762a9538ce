--------------------------- MODULE LLMRouterProofs ---------------------------
(* Theorems about LLMRouter, for any requests, providers, chains, limits and *)
(* thresholds.                                                               *)
EXTENDS LLMRouter, FiniteSetTheorems, WellFoundedInduction, TLAPS

-----------------------------------------------------------------------------
(* The breaker's methods keep it sound.                                      *)
LEMMA NewSound == Sound(NewBreaker)
BY ThresholdAssumption DEF Sound, NewBreaker, Breaker

(* A breaker with one field set anew is one.                                 *)
LEMMA FieldSet ==
    ASSUME NEW b \in Breaker
    PROVE  /\ \A v \in {"closed", "open", "half_open"} : [b EXCEPT !.state = v] \in Breaker
           /\ [b EXCEPT !.due = FALSE] \in Breaker
           /\ \A v \in Nat : /\ [b EXCEPT !.failures = v] \in Breaker
                             /\ [b EXCEPT !.successes = v] \in Breaker
                             /\ [b EXCEPT !.probes = v] \in Breaker
BY DEF Breaker

LEMMA UpdatedSound == ASSUME NEW b, Sound(b) PROVE Sound(Updated(b))
<1> SUFFICES ASSUME b.state = "open", b.due PROVE Sound(Updated(b))
  BY DEF Updated
<1> DEFINE c == [b EXCEPT !.state = "half_open"]
           d == [c EXCEPT !.due = FALSE]
           e == [d EXCEPT !.successes = 0]
           u == [e EXCEPT !.probes = 0]
<1>1. c \in Breaker
  BY FieldSet DEF Sound
<1>2. c.state = "half_open"
  BY DEF Sound, Breaker
<1> HIDE DEF c
<1>3. d \in Breaker /\ d.state = "half_open" /\ ~d.due
  BY <1>1, <1>2, FieldSet DEF Breaker
<1> HIDE DEF d
<1>4. e \in Breaker /\ e.state = "half_open" /\ ~e.due /\ e.successes = 0
  BY <1>3, FieldSet DEF Breaker
<1> HIDE DEF e
<1>5. u \in Breaker /\ u.state = "half_open" /\ ~u.due /\ u.successes = 0 /\ u.probes = 0
  BY <1>4, FieldSet DEF Breaker
<1>6. Updated(b) = u
  BY DEF Updated, c, d, e
<1> HIDE DEF u
<1> QED
  BY <1>5, <1>6, ThresholdAssumption DEF Sound

LEMMA AfterAllowSound == ASSUME NEW b, Sound(b) PROVE Sound(AfterAllow(b))
<1> DEFINE u == Updated(b)
           w == [u EXCEPT !.probes = @ + 1]
<1>1. Sound(u)
  BY UpdatedSound
<1> HIDE DEF u
<1>2. CASE AfterAllow(b) = u
  BY <1>1, <1>2
<1>3. CASE AfterAllow(b) # u
  <2>1. u.state = "half_open" /\ Allows(u) /\ AfterAllow(b) = w
    BY <1>3 DEF AfterAllow, u
  <2>2. Updated(u) = u
    BY <2>1 DEF Updated
  <2>3. u.probes < RecoveryThreshold
    BY <2>1, <2>2 DEF Allows
  <2>4. /\ w \in Breaker /\ w.state = u.state /\ w.due = u.due /\ w.successes = u.successes
        /\ w.probes = u.probes + 1
    BY <1>1 DEF Sound, Breaker
  <2> HIDE DEF w
  <2>5. w.probes <= RecoveryThreshold
    BY <1>1, <2>3, <2>4, ThresholdAssumption DEF Sound, Breaker
  <2>6. Sound(w)
    BY <1>1, <2>1, <2>4, <2>5 DEF Sound
  <2> QED
    BY <2>1, <2>6
<1> QED
  BY <1>2, <1>3

LEMMA OnSuccessSound == ASSUME NEW b, Sound(b) PROVE Sound(OnSuccess(b))
<1> DEFINE v == Updated(b)
           u == [v EXCEPT !.failures = 0]
<1>1. Sound(v)
  BY UpdatedSound
<1> HIDE DEF v
<1>2. u \in Breaker /\ u.state = v.state /\ u.due = v.due /\ u.failures = 0
  BY <1>1 DEF Sound, Breaker
<1>3. u.successes = v.successes /\ u.probes = v.probes
  BY <1>1 DEF Sound, Breaker
<1>4. Sound(u)
  BY <1>1, <1>2, <1>3, ThresholdAssumption DEF Sound
<1>5. OnSuccess(b) = IF u.state # "half_open" THEN [u EXCEPT !.successes = 0]
                     ELSE IF u.successes + 1 >= RecoveryThreshold
                          THEN [u EXCEPT !.successes = @ + 1, !.state = "closed"]
                          ELSE [u EXCEPT !.successes = @ + 1]
  BY DEF OnSuccess, v
<1> HIDE DEF u
<1>6. CASE u.state # "half_open"
  BY <1>4, <1>5, <1>6, ThresholdAssumption DEF Sound, Breaker
<1>7. CASE u.state = "half_open" /\ u.successes + 1 >= RecoveryThreshold
  <2> DEFINE w == [u EXCEPT !.successes = @ + 1, !.state = "closed"]
  <2>1. w \in Breaker
    <3> DEFINE x == [u EXCEPT !.successes = @ + 1]
    <3>1. x \in Breaker
      BY <1>2 DEF Breaker
    <3>2. w = [x EXCEPT !.state = "closed"]
      OBVIOUS
    <3> HIDE DEF x
    <3> QED
      BY <3>1, <3>2, FieldSet
  <2>2. w.state = "closed" /\ w.due = u.due /\ w.failures = u.failures /\ w.probes = u.probes
    BY <1>2 DEF Breaker
  <2> HIDE DEF w
  <2>3. Sound(w)
    BY <1>2, <1>4, <1>7, <2>1, <2>2, ThresholdAssumption DEF Sound
  <2> QED
    BY <1>5, <1>7, <2>3 DEF w
<1>8. CASE u.state = "half_open" /\ ~(u.successes + 1 >= RecoveryThreshold)
  BY <1>4, <1>5, <1>8, ThresholdAssumption DEF Sound, Breaker
<1> QED
  BY <1>6, <1>7, <1>8

LEMMA OnFailureSound == ASSUME NEW b, Sound(b) PROVE Sound(OnFailure(b))
<1> DEFINE v == Updated(b)
           u == [v EXCEPT !.failures = @ + 1, !.successes = 0]
           w == [u EXCEPT !.state = "open", !.due = FALSE]
<1>1. Sound(v)
  BY UpdatedSound
<1> HIDE DEF v
<1>2. u \in Breaker
  <2> DEFINE x == [v EXCEPT !.failures = @ + 1]
  <2>1. x \in Breaker
    BY <1>1 DEF Sound, Breaker
  <2>2. u = [x EXCEPT !.successes = 0]
    OBVIOUS
  <2> HIDE DEF x
  <2> QED
    BY <2>1, <2>2, FieldSet
<1>3. u.state = v.state /\ u.due = v.due /\ u.successes = 0 /\ u.probes = v.probes
  BY <1>1 DEF Sound, Breaker
<1>4. OnFailure(b) = IF \/ u.state = "half_open"
                        \/ u.state = "closed" /\ u.failures >= FailureThreshold
                     THEN w ELSE u
  BY DEF OnFailure, v
<1> HIDE DEF u
<1>5. w \in Breaker /\ w.state = "open" /\ w.probes = u.probes
  <2> DEFINE x == [u EXCEPT !.state = "open"]
  <2>1. x \in Breaker
    BY <1>2, FieldSet
  <2>2. w = [x EXCEPT !.due = FALSE]
    OBVIOUS
  <2>3. x.state = "open" /\ x.probes = u.probes
    BY <1>2 DEF Breaker
  <2> HIDE DEF x
  <2>4. w \in Breaker
    BY <2>1, <2>2, FieldSet
  <2>5. w.state = "open" /\ w.probes = u.probes
    BY <2>1, <2>2, <2>3 DEF Breaker
  <2> QED
    BY <2>4, <2>5
<1> HIDE DEF w
<1>6. Sound(w)
  BY <1>1, <1>3, <1>5 DEF Sound
<1>7. ~(u.state = "closed" /\ u.failures >= FailureThreshold) => (u.state = "closed" => u.failures < FailureThreshold)
  BY <1>2, ThresholdAssumption DEF Breaker
<1>8. u.state # "half_open" /\ (u.state = "closed" => u.failures < FailureThreshold) => Sound(u)
  BY <1>1, <1>2, <1>3 DEF Sound
<1> QED
  BY <1>4, <1>6, <1>7, <1>8

-----------------------------------------------------------------------------
(* Whose an item is: its request is over, or is on the way along a chain     *)
(* that has the item's provider at its place.                                *)
Live  == {"waiting", "calling", "retry"}
Over  == {"answered", "failed", "cancelled"}
Items == [req : Requests, pos : Nat, prompt : Prompts]

Mine(p, item) ==
    \/ request[item.req].stage \in Over
    \/ request[item.req].stage \in Live /\ request[item.req].chain[item.pos] = p

Fields(q) ==
    q = [stage |-> q.stage, kind |-> q.kind, prompt |-> q.prompt, chain |-> q.chain, pos |-> q.pos]

RequestWell(r) ==
    /\ Fields(request[r])
    /\ request[r].stage \in Live \cup Over \cup {"new"}
    /\ request[r].stage \in Live => request[r].pos \in Nat /\ request[r].prompt \in Prompts
    /\ request[r].stage \in {"waiting", "calling"} => At(r) \in Providers

RequestsWell == DOMAIN request = Requests /\ \A r \in Requests : RequestWell(r)

QueueWell(p) == \A i \in 1..Len(queue[p]) : Mine(p, queue[p][i])

WorkerWell(p) ==
    /\ worker[p] = Worker(worker[p].state, worker[p].item)
    /\ worker[p].state \in {"taken", "calling"} =>
          worker[p].item \in Items /\ Mine(p, worker[p].item)

ItemsWell ==
    /\ queue \in [Providers -> Seq(Items)] /\ DOMAIN worker = Providers
    /\ \A p \in Providers : QueueWell(p) /\ WorkerWell(p)

Inv == BreakersSound /\ margin \in [Providers -> Int] /\ RequestsWell /\ ItemsWell

(* What a step may do to a breaker, and to a request.                        *)
BreakersMove ==
    /\ Registered' = Registered
    /\ \A p \in Registered :
          breaker'[p] \in {breaker[p], Updated(breaker[p]), AfterAllow(breaker[p]),
                           OnSuccess(breaker[p]), OnFailure(breaker[p])}

RequestMoves(r) ==
    \/ request'[r] = request[r]
    \/ request[r].stage = "new"
    \/ request'[r].stage \in Over
    \/ /\ request[r].stage \in Live /\ request'[r].stage \in Live
       /\ request'[r].chain = request[r].chain

RequestsMove == \A r \in Requests : RequestMoves(r)

Answers ==
    \A r \in Requests :
        request[r].stage # "answered" /\ request'[r].stage = "answered" => AnsweredRightly(r)

-----------------------------------------------------------------------------
(* The first of some positions is one of them.                               *)
LEMMA MinIsMember ==
    ASSUME NEW S, S \subseteq Nat, S # {}
    PROVE  Min(S) \in S
<1>1. \E x \in S : \A y \in S : <<y, x>> \notin OpToRel(<, Nat)
  BY WFMin, NatLessThanWellFounded
<1>2. \A x \in Nat, y \in Nat : <<y, x>> \in OpToRel(<, Nat) <=> y < x
  BY DEF OpToRel
<1>3. \E x \in S : \A y \in S : ~(y < x)
  BY <1>1, <1>2
<1>4. \E x \in S : \A y \in S : x =< y
  <2>1. PICK x \in S : \A y \in S : ~(y < x)
    BY <1>3
  <2>2. \A y \in S : x =< y
    BY <2>1
  <2> QED
    BY <2>2
<1> QED
  BY <1>4 DEF Min

LEMMA BreakersKept == ASSUME Inv, BreakersMove PROVE BreakersSound'
BY UpdatedSound, AfterAllowSound, OnSuccessSound, OnFailureSound
   DEF Inv, BreakersMove, BreakersSound

LEMMA MineKept ==
    ASSUME Inv, RequestsMove, NEW p, NEW item \in Items, Mine(p, item)
    PROVE  Mine(p, item)'
<1>1. item.req \in Requests /\ RequestMoves(item.req)
  BY DEF Items, RequestsMove
<1> QED
  BY <1>1 DEF Mine, RequestMoves, Live, Over

LEMMA QueueKept ==
    ASSUME Inv, RequestsMove, NEW p \in Providers, queue'[p] = queue[p]
    PROVE  QueueWell(p)'
<1>1. queue[p] \in Seq(Items) /\ QueueWell(p)
  BY DEF Inv, ItemsWell
<1>2. ASSUME NEW i \in 1..Len(queue[p]) PROVE Mine(p, queue[p][i])'
  <2>1. queue[p][i] \in Items /\ Mine(p, queue[p][i])
    BY <1>1, <1>2 DEF QueueWell
  <2> QED
    BY <2>1, MineKept
<1> QED
  BY <1>2 DEF QueueWell

LEMMA WorkerKept ==
    ASSUME Inv, RequestsMove, NEW p \in Providers,
           worker'[p] = worker[p] \/ worker'[p] = Worker("idle", NoItem) \/ worker'[p] = Absent
    PROVE  WorkerWell(p)'
<1>1. WorkerWell(p)
  BY DEF Inv, ItemsWell
<1>2. CASE worker'[p] = worker[p]
  <2> SUFFICES ASSUME worker[p].state \in {"taken", "calling"} PROVE Mine(p, worker[p].item)'
    BY <1>1, <1>2 DEF WorkerWell, Worker
  <2> QED
    BY <1>1, <1>2, MineKept DEF WorkerWell
<1>3. CASE worker'[p] # worker[p]
  BY <1>3 DEF WorkerWell, Worker, Absent
<1> QED
  BY <1>2, <1>3

LEMMA ItemsKept ==
    ASSUME Inv, RequestsMove, UNCHANGED queue, DOMAIN worker' = Providers,
           \A p \in Providers : \/ worker'[p] = worker[p]
                                \/ worker'[p] = Worker("idle", NoItem) \/ worker'[p] = Absent
    PROVE  ItemsWell'
BY QueueKept, WorkerKept DEF Inv, ItemsWell

-----------------------------------------------------------------------------
(* Walking a chain. *)
LEMMA WalkFacts ==
    ASSUME Inv, NEW r \in Requests, NEW q, Fields(q), NEW i \in Nat, i > 0, NEW looked,
           Walk(r, q, i, looked)
    PROVE  /\ BreakersMove /\ UNCHANGED margin
           /\ DOMAIN worker' = Providers
           /\ \A p \in Providers : worker'[p] = worker[p] \/ worker'[p] = Worker("idle", NoItem)
           /\ \/ /\ UNCHANGED queue
                 /\ \/ request' = [request EXCEPT ![r] = Ended("failed")]
                    \/ /\ request' = [request EXCEPT ![r] = Ended("answered")]
                       /\ Caches(cache, q.prompt)
                    \/ \E at \in Nat :
                         /\ q.chain[at] \in Registered
                         /\ request' = [request EXCEPT ![r] =
                                          [q EXCEPT !.pos = at, !.stage = "calling"]]
              \/ \E at \in Nat :
                    /\ q.chain[at] \in Registered
                    /\ request' = [request EXCEPT ![r] =
                                     [q EXCEPT !.pos = at, !.stage = "waiting"]]
                    /\ queue' = [queue EXCEPT ![q.chain[at]] =
                                   Append(@, [req |-> r, pos |-> at, prompt |-> q.prompt])]
<1> DEFINE Tried  == {j \in i..Len(q.chain) : q.chain[j] \in Registered}
           land   == {j \in Tried : Admits(q.kind, q.chain[j])}
           at     == IF land = {} THEN 0 ELSE Min(land)
           asked  == {q.chain[j] : j \in {t \in Tried : land = {} \/ t <= at}}
           passed == {p \in asked : Allows(breaker[p]) /\ p \notin blocked}
           live   == IF q.kind = "queued" THEN passed ELSE {}
           Hit(expired) == q.kind # "stream" /\ Tried # {} /\ ~expired /\ Caches(cache, q.prompt)
<1>1. PICK expired \in BOOLEAN :
        /\ breaker' = [p \in Registered |->
              IF p \in asked /\ ~Hit(expired) THEN AfterAllow(breaker[p])
              ELSE IF p \in looked THEN Updated(breaker[p]) ELSE breaker[p]]
        /\ request' = [request EXCEPT ![r] =
              IF Hit(expired) THEN Ended("answered")
              ELSE IF at = 0 THEN Ended("failed")
              ELSE [q EXCEPT !.pos = at,
                             !.stage = IF q.kind = "queued" THEN "waiting" ELSE "calling"]]
        /\ worker' = [p \in Providers |->
              IF ~Hit(expired) /\ p \in live /\ worker[p].state = "none"
              THEN Worker("idle", NoItem) ELSE worker[p]]
        /\ IF q.kind = "queued" /\ ~Hit(expired) /\ at # 0
           THEN queue' = [queue EXCEPT ![q.chain[at]] =
                            Append(@, [req |-> r, pos |-> at, prompt |-> q.prompt])]
           ELSE UNCHANGED queue
        /\ UNCHANGED margin
  BY DEF Walk, routing
<1>2. land # {} => at \in land /\ at \in Nat
  <2>1. land \subseteq Nat
    OBVIOUS
  <2> QED
    BY <2>1, MinIsMember
<1>3. at # 0 => at \in Nat /\ q.chain[at] \in Registered
  BY <1>2
<1> HIDE DEF at, land, Tried
<1>4. BreakersMove
  BY <1>1 DEF BreakersMove, Registered
<1> HIDE DEF asked, live, passed
<1>5. DOMAIN worker' = Providers
      /\ \A p \in Providers : worker'[p] = worker[p] \/ worker'[p] = Worker("idle", NoItem)
  BY <1>1
<1>6. CASE Hit(expired)
  BY <1>1, <1>4, <1>5, <1>6
<1>7. CASE ~Hit(expired)
  <2> HIDE DEF Hit
  <2>1. CASE at = 0
    BY <1>1, <1>4, <1>5, <1>7, <2>1
  <2>2. CASE at # 0 /\ q.kind = "queued"
    BY <1>1, <1>3, <1>4, <1>5, <1>7, <2>2
  <2>3. CASE at # 0 /\ q.kind # "queued"
    BY <1>1, <1>3, <1>4, <1>5, <1>7, <2>3
  <2> QED
    BY <2>1, <2>2, <2>3
<1> QED
  BY <1>6, <1>7

(* A request that is new, or between two providers. *)
LEMMA WalkKeeps ==
    ASSUME Inv, NEW r \in Requests, NEW q, Fields(q), NEW i \in Nat, i > 0, NEW looked,
           Walk(r, q, i, looked), q.prompt \in Prompts,
           request[r].stage = "new" \/ (request[r].stage = "retry" /\ q = request[r])
    PROVE  Inv' /\ Answers
<1> DEFINE Item(at)     == [req |-> r, pos |-> at, prompt |-> q.prompt]
           On(at, stage) == [q EXCEPT !.pos = at, !.stage = stage]
<1>1. /\ DOMAIN request = Requests /\ \A s \in Requests : RequestWell(s)
      /\ queue \in [Providers -> Seq(Items)] /\ \A p \in Providers : QueueWell(p)
      /\ Registered \subseteq Providers /\ margin \in [Providers -> Int]
  BY DEF Inv, RequestsWell, ItemsWell, BreakersSound
<1>2. /\ BreakersMove /\ UNCHANGED margin
      /\ DOMAIN worker' = Providers
      /\ \A p \in Providers : worker'[p] = worker[p] \/ worker'[p] = Worker("idle", NoItem)
  BY WalkFacts
<1>3. BreakersSound' /\ margin' \in [Providers -> Int]
  BY <1>1, <1>2, BreakersKept
<1>4. ASSUME NEW at, NEW stage
      PROVE  On(at, stage) = [stage |-> stage, kind |-> q.kind, prompt |-> q.prompt,
                              chain |-> q.chain, pos |-> at]
  <2> DEFINE x == [q EXCEPT !.pos = at]
  <2>1. x = [stage |-> q.stage, kind |-> q.kind, prompt |-> q.prompt, chain |-> q.chain,
             pos |-> at]
    BY DEF Fields
  <2>2. On(at, stage) = [x EXCEPT !.stage = stage]
    OBVIOUS
  <2> HIDE DEF x, On
  <2> QED
    BY <2>1, <2>2
<1> HIDE DEF On
<1>5. ASSUME NEW stage \in Over, request' = [request EXCEPT ![r] = Ended(stage)], UNCHANGED queue,
             stage = "answered" => Caches(cache, q.prompt)
      PROVE  Inv' /\ Answers
  <2>1. request'[r] = Ended(stage) /\ \A s \in Requests : s # r => request'[s] = request[s]
    BY <1>1, <1>5
  <2>2. RequestsMove
    BY <2>1, <1>5 DEF RequestsMove, RequestMoves, Ended
  <2>3. RequestsWell'
    BY <1>1, <1>5, <2>1 DEF RequestsWell, RequestWell, Fields, Ended, Live, Over, At
  <2>4. ItemsWell'
    BY <1>2, <1>5, <2>2, ItemsKept
  <2>5. Answers
    BY <1>5, <2>1 DEF Answers, AnsweredRightly, Ended
  <2> QED
    BY <1>3, <2>3, <2>4, <2>5 DEF Inv
<1>6. ASSUME NEW at \in Nat, NEW stage \in {"waiting", "calling"}, q.chain[at] \in Registered,
             request' = [request EXCEPT ![r] = On(at, stage)]
      PROVE  /\ RequestsMove /\ RequestsWell' /\ Answers
             /\ request'[r].stage \in Live /\ request'[r].chain[at] = q.chain[at]
  <2>1. request'[r] = On(at, stage) /\ \A s \in Requests : s # r => request'[s] = request[s]
    BY <1>1, <1>6
  <2>2. /\ request'[r].stage = stage /\ request'[r].chain = q.chain /\ request'[r].pos = at
        /\ request'[r].prompt = q.prompt /\ Fields(request'[r])
    BY <2>1, <1>4 DEF Fields
  <2>3. RequestsMove
    <3>1. RequestMoves(r)
      BY <2>2 DEF RequestMoves, Live
    <3> QED
      BY <2>1, <3>1 DEF RequestsMove, RequestMoves
  <2>4. RequestWell(r)'
    BY <1>1, <1>6, <2>2 DEF RequestWell, Live, Over, At
  <2>5. RequestsWell'
    BY <1>1, <1>6, <2>1, <2>4 DEF RequestsWell, RequestWell, Fields, At
  <2>6. Answers
    BY <2>1, <2>2 DEF Answers
  <2> QED
    BY <2>2, <2>3, <2>5, <2>6 DEF Live
<1>7. CASE /\ UNCHANGED queue
           /\ \/ request' = [request EXCEPT ![r] = Ended("failed")]
              \/ /\ request' = [request EXCEPT ![r] = Ended("answered")]
                 /\ Caches(cache, q.prompt)
  BY <1>5, <1>7 DEF Over
<1>8. ASSUME NEW at \in Nat, q.chain[at] \in Registered, UNCHANGED queue,
             request' = [request EXCEPT ![r] = On(at, "calling")]
      PROVE  Inv' /\ Answers
  BY <1>2, <1>3, <1>6, <1>8, ItemsKept DEF Inv
<1>9. ASSUME NEW at \in Nat, q.chain[at] \in Registered,
             request' = [request EXCEPT ![r] = On(at, "waiting")],
             queue' = [queue EXCEPT ![q.chain[at]] = Append(@, Item(at))]
      PROVE  Inv' /\ Answers
  <2>0. PICK t, item : t = q.chain[at] /\ item = Item(at)
    OBVIOUS
  <2>1. RequestsMove /\ RequestsWell' /\ Answers
    BY <1>6, <1>9
  <2>2. t \in Providers /\ item \in Items /\ Mine(t, item)'
    BY <1>1, <1>6, <1>9, <2>0 DEF Items, Mine
  <2> HIDE DEF Item
  <2>3. /\ queue'[t] = Append(queue[t], item)
        /\ \A p \in Providers : p # t => queue'[p] = queue[p]
        /\ queue' \in [Providers -> Seq(Items)]
    BY <1>1, <1>9, <2>0, <2>2
  <2>4. QueueWell(t)'
    <3> SUFFICES ASSUME NEW j \in 1..Len(queue'[t]) PROVE Mine(t, queue[t][j])'
      BY DEF QueueWell
    <3>1. queue[t] \in Seq(Items)
      BY <1>1, <2>2
    <3>2. CASE j = Len(queue[t]) + 1
      BY <2>2, <2>3, <3>1, <3>2
    <3>3. CASE j # Len(queue[t]) + 1
      <4>1. j \in 1..Len(queue[t]) /\ queue'[t][j] = queue[t][j]
        BY <2>2, <2>3, <3>1, <3>3
      <4>2. queue[t][j] \in Items /\ Mine(t, queue[t][j])
        BY <1>1, <2>2, <3>1, <4>1 DEF QueueWell
      <4> QED
        BY <2>1, <4>1, <4>2, MineKept
    <3> QED
      BY <3>2, <3>3
  <2>5. \A p \in Providers : QueueWell(p)' /\ WorkerWell(p)'
    BY <1>2, <2>1, <2>3, <2>4, QueueKept, WorkerKept
  <2> QED
    BY <1>2, <1>3, <2>1, <2>3, <2>5 DEF Inv, ItemsWell
<1> QED
  BY <1>7, <1>8, <1>9, WalkFacts DEF On

-----------------------------------------------------------------------------
(* The other steps. *)

(* A request is over, or its attempt was given up. *)
LEMMA RequestEnds ==
    ASSUME Inv, NEW r \in Requests, request[r].stage \in Live, NEW stage \in Over,
           \/ request' = [request EXCEPT ![r] = Ended(stage)]
           \/ request' = [request EXCEPT ![r].stage = "retry"]
    PROVE  /\ RequestsMove /\ RequestsWell'
           /\ \A s \in Requests :
                 request'[s].stage = "answered" /\ request[s].stage # "answered" =>
                     s = r /\ request' = [request EXCEPT ![r] = Ended(stage)]
<1>1. DOMAIN request = Requests /\ \A s \in Requests : RequestWell(s)
  BY DEF Inv, RequestsWell
<1>2. \A s \in Requests : s # r => request'[s] = request[s]
  BY <1>1
<1>3. CASE request' = [request EXCEPT ![r] = Ended(stage)]
  <2>1. request'[r] = Ended(stage)
    BY <1>1, <1>3
  <2>2. RequestsMove
    BY <1>2, <2>1 DEF RequestsMove, RequestMoves, Ended
  <2>3. RequestsWell'
    BY <1>1, <1>2, <1>3, <2>1 DEF RequestsWell, RequestWell, Fields, Ended, Live, Over, At
  <2> QED
    BY <1>2, <1>3, <2>2, <2>3
<1>4. CASE request' = [request EXCEPT ![r].stage = "retry"]
  <2>1. request'[r] = [request[r] EXCEPT !.stage = "retry"]
    BY <1>1, <1>4
  <2>2. /\ request'[r].stage = "retry" /\ request'[r].chain = request[r].chain
        /\ request'[r].pos = request[r].pos /\ request'[r].prompt = request[r].prompt
        /\ Fields(request'[r])
    BY <1>1, <2>1 DEF RequestWell, Fields
  <2>3. RequestMoves(r)
    BY <2>2 DEF RequestMoves, Live
  <2>4. RequestsMove
    BY <1>2, <2>3 DEF RequestsMove, RequestMoves
  <2>5. RequestWell(r)'
    BY <1>1, <2>2 DEF RequestWell, Live
  <2>6. RequestsWell'
    BY <1>1, <1>2, <1>4, <2>5 DEF RequestsWell, RequestWell, Fields, At
  <2> QED
    BY <1>2, <2>2, <2>4, <2>6
<1> QED
  BY <1>3, <1>4

LEMMA OutcomeFacts ==
    ASSUME Inv, NEW p \in Providers, NEW prompt, NEW ok, NEW stream,
           Outcome(p, prompt, ok, stream)
    PROVE  /\ BreakersMove /\ margin' \in [Providers -> Int]
           /\ ok => margin'[p] = margin[p] + 1
<1>1. BreakersMove
  BY DEF Outcome, BreakersMove, Registered
<1> QED
  BY <1>1 DEF Outcome, Inv

LEMMA CallEndsKeeps ==
    ASSUME Inv, NEW r \in Requests, CallEnds(r)
    PROVE  Inv' /\ Answers
<1>1. PICK ok \in BOOLEAN :
        /\ Outcome(At(r), request[r].prompt, ok, request[r].kind = "stream")
        /\ request' = [request EXCEPT ![r] =
              IF ok THEN Ended("answered")
              ELSE IF request[r].kind = "stream" THEN Ended("failed")
              ELSE [request[r] EXCEPT !.stage = "retry"]]
  BY DEF CallEnds
<1>2. At(r) \in Providers /\ request[r].stage = "calling"
  BY DEF CallEnds, Inv, RequestsWell, RequestWell
<1>3. PICK p \in Providers : p = At(r)
  BY <1>2
<1>4. BreakersMove /\ margin' \in [Providers -> Int] /\ (ok => margin'[p] = margin[p] + 1)
  BY <1>1, <1>3, OutcomeFacts
<1>5. \E stage \in Over :
        /\ \/ request' = [request EXCEPT ![r] = Ended(stage)] /\ (stage = "answered" => ok)
           \/ request' = [request EXCEPT ![r].stage = "retry"] /\ stage = "failed"
  BY <1>1 DEF Over
<1>6. PICK stage \in Over :
        /\ \/ request' = [request EXCEPT ![r] = Ended(stage)] /\ (stage = "answered" => ok)
           \/ request' = [request EXCEPT ![r].stage = "retry"] /\ stage = "failed"
  BY <1>5
<1>7. /\ RequestsMove /\ RequestsWell'
      /\ \A s \in Requests :
            request'[s].stage = "answered" /\ request[s].stage # "answered" =>
                s = r /\ request' = [request EXCEPT ![r] = Ended(stage)]
  BY <1>2, <1>6, RequestEnds DEF Live
<1>8. ItemsWell'
  BY <1>7, ItemsKept DEF CallEnds, service, Inv, ItemsWell
<1>9. Answers
  <2> SUFFICES ASSUME NEW s \in Requests, request[s].stage # "answered", request'[s].stage = "answered"
               PROVE  AnsweredRightly(s)
    BY DEF Answers
  <2>1. s = r /\ request' = [request EXCEPT ![r] = Ended(stage)]
    BY <1>7
  <2>2. stage = "answered"
    BY <2>1 DEF Ended, Inv, RequestsWell
  <2>3. ok
    BY <1>6, <2>2
  <2> QED
    BY <1>2, <1>3, <1>4, <2>1, <2>3 DEF AnsweredRightly
<1> QED
  BY <1>4, <1>7, <1>8, <1>9, BreakersKept DEF Inv

LEMMA GivenUpKeeps ==
    ASSUME Inv, NEW r \in Requests, Abandon(r) \/ Timeout(r) \/ CallerCancelled(r)
    PROVE  Inv' /\ Answers
<1>1. /\ request[r].stage \in Live /\ UNCHANGED <<breaker, margin, queue, worker>>
      /\ \/ request' = [request EXCEPT ![r] = Ended("cancelled")]
         \/ request' = [request EXCEPT ![r].stage = "retry"]
  BY DEF Abandon, Timeout, CallerCancelled, Live, routing, service
<1>2. /\ RequestsMove /\ RequestsWell'
      /\ \A s \in Requests :
            request'[s].stage = "answered" /\ request[s].stage # "answered" =>
                s = r /\ request' = [request EXCEPT ![r] = Ended("cancelled")]
  <2>1. PICK stage \in Over : stage = "cancelled"
    BY DEF Over
  <2> QED
    BY <1>1, <2>1, RequestEnds
<1>3. Answers
  BY <1>2 DEF Answers, Ended, Inv, RequestsWell
<1>4. ItemsWell'
  BY <1>1, <1>2, ItemsKept DEF Inv, ItemsWell
<1> QED
  BY <1>1, <1>2, <1>3, <1>4 DEF Inv, BreakersSound, Registered

(* The call of a worker ends; its request may be gone. *)
LEMMA WorkerEndsKeeps ==
    ASSUME Inv, NEW p \in Providers, WorkerEnds(p)
    PROVE  Inv' /\ Answers
<1>1. worker[p].state = "calling" /\ worker[p].item \in Items /\ Mine(p, worker[p].item)
  BY DEF WorkerEnds, Inv, ItemsWell, WorkerWell
<1>2. PICK item \in Items : item = worker[p].item
  BY <1>1
<1>3. PICK ok \in BOOLEAN :
        /\ Outcome(p, item.prompt, ok, FALSE)
        /\ request' = Settle(item, ok)
        /\ worker' = [worker EXCEPT ![p] =
              IF Pending(item) THEN Worker("idle", NoItem) ELSE Absent]
  BY <1>2 DEF WorkerEnds
<1>4. BreakersMove /\ margin' \in [Providers -> Int] /\ (ok => margin'[p] = margin[p] + 1)
  BY <1>3, OutcomeFacts
<1>5. item.req \in Requests /\ UNCHANGED queue
  BY DEF Items, WorkerEnds
<1>6. RequestsMove /\ RequestsWell' /\ Answers
  <2>1. CASE ~Pending(item)
    <3>1. request' = request
      BY <1>3, <2>1 DEF Settle
    <3> QED
      BY <3>1 DEF RequestsMove, RequestMoves, Inv, RequestsWell, RequestWell, Fields, At, Answers
  <2>2. CASE Pending(item)
    <3>1. PICK r \in Requests : r = item.req
      BY <1>5
    <3>2. request[r].stage = "waiting" /\ At(r) = p
      BY <1>1, <1>2, <2>2, <3>1 DEF Pending, Mine, At, Over
    <3>3. PICK stage \in Over :
            \/ request' = [request EXCEPT ![r] = Ended(stage)] /\ ok
            \/ request' = [request EXCEPT ![r].stage = "retry"]
      BY <1>3, <2>2, <3>1 DEF Settle, Over
    <3>4. /\ RequestsMove /\ RequestsWell'
          /\ \A s \in Requests :
                request'[s].stage = "answered" /\ request[s].stage # "answered" =>
                    s = r /\ request' = [request EXCEPT ![r] = Ended(stage)]
      BY <3>2, <3>3, RequestEnds DEF Live
    <3>5. Answers
      <4> SUFFICES ASSUME NEW s \in Requests,
                          request[s].stage # "answered", request'[s].stage = "answered"
                   PROVE  AnsweredRightly(s)
        BY DEF Answers
      <4>1. s = r
        BY <3>4
      <4>2. ok
        BY <3>3, <4>1 DEF Inv, RequestsWell, RequestWell, Fields
      <4> QED
        BY <1>4, <3>2, <4>1, <4>2 DEF AnsweredRightly
    <3> QED
      BY <3>4, <3>5
  <2> QED
    BY <2>1, <2>2
<1>7. ItemsWell'
  <2>1. DOMAIN worker' = Providers /\ \A t \in Providers : t # p => worker'[t] = worker[t]
    BY <1>3 DEF Inv, ItemsWell
  <2>2. worker'[p] = Worker("idle", NoItem) \/ worker'[p] = Absent
    BY <1>3 DEF Inv, ItemsWell
  <2> QED
    BY <1>5, <1>6, <2>1, <2>2, ItemsKept
<1> QED
  BY <1>4, <1>6, <1>7, BreakersKept DEF Inv

(* A worker takes an item, and gets to call. *)
LEMMA Untouched ==
    ASSUME Inv, UNCHANGED request
    PROVE  RequestsMove /\ RequestsWell' /\ Answers
BY DEF RequestsMove, RequestMoves, Inv, RequestsWell, RequestWell, Fields, At, Answers

LEMMA TakeKeeps ==
    ASSUME Inv, NEW p \in Providers, Take(p) \/ Begin(p)
    PROVE  Inv' /\ Answers
<1>1. UNCHANGED <<breaker, margin, request>>
  BY DEF Take, Begin, routing
<1>2. RequestsMove /\ RequestsWell' /\ Answers
  BY <1>1, Untouched
<1>3. /\ queue \in [Providers -> Seq(Items)] /\ DOMAIN worker = Providers
      /\ \A t \in Providers : QueueWell(t) /\ WorkerWell(t)
  BY DEF Inv, ItemsWell
<1>4. /\ DOMAIN worker' = Providers
      /\ \A t \in Providers : t # p => queue'[t] = queue[t] /\ worker'[t] = worker[t]
  BY <1>3 DEF Take, Begin
<1>5. \A t \in Providers : t # p => QueueWell(t)' /\ WorkerWell(t)'
  BY <1>2, <1>4, QueueKept, WorkerKept
<1>6. queue' \in [Providers -> Seq(Items)] /\ QueueWell(p)' /\ WorkerWell(p)'
  <2>1. CASE Take(p)
    <3>1. queue[p] \in Seq(Items) /\ queue[p] # <<>> /\ queue'[p] = Tail(queue[p])
      BY <1>3, <2>1 DEF Take
    <3>2. PICK item \in Items : item = Head(queue[p]) /\ item = queue[p][1]
      BY <3>1
    <3>3. Mine(p, item)'
      <4>1. Mine(p, item)
        BY <1>3, <3>1, <3>2 DEF QueueWell
      <4> QED
        BY <1>2, <4>1, MineKept
    <3>4. queue' \in [Providers -> Seq(Items)]
      BY <1>3, <2>1, <3>1 DEF Take
    <3>5. \E state \in {"taken", "calling"} : worker'[p] = Worker(state, item)
      BY <1>3, <2>1, <3>2 DEF Take
    <3>6. WorkerWell(p)'
      BY <3>3, <3>5 DEF WorkerWell, Worker
    <3>7. QueueWell(p)'
      <4> SUFFICES ASSUME NEW j \in 1..Len(queue'[p]) PROVE Mine(p, queue[p][j])'
        BY DEF QueueWell
      <4>1. j + 1 \in 1..Len(queue[p]) /\ queue'[p][j] = queue[p][j + 1]
        BY <3>1
      <4>2. queue[p][j + 1] \in Items /\ Mine(p, queue[p][j + 1])
        BY <1>3, <3>1, <4>1 DEF QueueWell
      <4> QED
        BY <1>2, <4>1, <4>2, MineKept
    <3> QED
      BY <3>4, <3>6, <3>7
  <2>2. CASE Begin(p)
    <3>1. UNCHANGED queue /\ worker[p].state = "taken"
      BY <2>2 DEF Begin
    <3>2. PICK item \in Items : item = worker[p].item
      BY <1>3, <3>1 DEF WorkerWell
    <3>3. worker'[p] = Worker("calling", item)
      BY <1>3, <2>2, <3>2 DEF Begin, WorkerWell, Worker
    <3>4. Mine(p, item)'
      <4>1. Mine(p, item)
        BY <1>3, <3>1, <3>2 DEF WorkerWell
      <4> QED
        BY <1>2, <4>1, MineKept
    <3>5. WorkerWell(p)'
      BY <3>3, <3>4 DEF WorkerWell, Worker
    <3> QED
      BY <1>2, <1>3, <3>1, <3>5, QueueKept
  <2> QED
    BY <2>1, <2>2
<1>7. ItemsWell'
  BY <1>4, <1>5, <1>6 DEF ItemsWell
<1> QED
  BY <1>1, <1>2, <1>7 DEF Inv, BreakersSound, Registered

(* Administration and time. *)
LEMMA AdministrationKeeps ==
    ASSUME Inv, RouterAssumption,
           \/ \E p \in Managed : Register(p) \/ Unregister(p) \/ ChangeRule(p)
           \/ \E p \in Providers : BreakerDue(p) \/ WindowSlides(p)
           \/ UNCHANGED vars
    PROVE  Inv' /\ Answers
<1>1. UNCHANGED <<request, queue, worker>>
  BY DEF Register, Unregister, ChangeRule, BreakerDue, WindowSlides, vars, service
<1>2. RequestsMove /\ RequestsWell' /\ Answers
  BY <1>1, Untouched
<1>3. ItemsWell'
  BY <1>1, <1>2, ItemsKept DEF Inv, ItemsWell
<1>4. Managed \subseteq Providers /\ margin \in [Providers -> Int] /\ BreakersSound
  BY RouterAssumption DEF RouterAssumption, Inv
<1>5. BreakersSound' /\ margin' \in [Providers -> Int]
  <2>1. ASSUME NEW p \in Managed, Register(p) PROVE BreakersSound' /\ margin' \in [Providers -> Int]
    BY <1>4, <2>1, NewSound DEF Register, BreakersSound, Registered
  <2>2. ASSUME NEW p \in Managed, Unregister(p) PROVE BreakersSound' /\ margin' \in [Providers -> Int]
    BY <1>4, <2>2 DEF Unregister, BreakersSound, Registered
  <2>3. ASSUME NEW p \in Managed, ChangeRule(p) PROVE BreakersSound' /\ margin' \in [Providers -> Int]
    BY <1>4, <2>3 DEF ChangeRule, BreakersSound, Registered
  <2>4. ASSUME NEW p \in Providers, BreakerDue(p)
        PROVE  BreakersSound' /\ margin' \in [Providers -> Int]
    <3>1. Sound(breaker[p]) /\ breaker[p].state = "open" /\ UNCHANGED margin
      BY <1>4, <2>4 DEF BreakerDue, BreakersSound, routing
    <3>2. Sound([breaker[p] EXCEPT !.due = TRUE])
      BY <3>1, ThresholdAssumption DEF Sound, Breaker
    <3> QED
      BY <1>4, <2>4, <3>1, <3>2 DEF BreakerDue, BreakersSound, Registered
  <2>5. ASSUME NEW p \in Providers, WindowSlides(p) PROVE BreakersSound' /\ margin' \in [Providers -> Int]
    BY <1>4, <2>5 DEF WindowSlides, BreakersSound, Registered, routing
  <2>6. CASE UNCHANGED vars
    BY <1>4, <2>6 DEF vars, BreakersSound, Registered, routing
  <2> QED
    BY <2>1, <2>2, <2>3, <2>4, <2>5, <2>6
<1> QED
  BY <1>2, <1>3, <1>5 DEF Inv

-----------------------------------------------------------------------------
LEMMA Initially == Init => Inv
<1> SUFFICES ASSUME Init PROVE Inv
  OBVIOUS
<1>1. BreakersSound /\ margin \in [Providers -> Int]
  BY NewSound DEF Init, BreakersSound, Registered
<1>2. RequestsWell
  BY DEF Init, RequestsWell, RequestWell, Fields, Ended, Live, Over
<1>3. ItemsWell
  BY DEF Init, ItemsWell, QueueWell, WorkerWell, Worker, Absent
<1> QED
  BY <1>1, <1>2, <1>3 DEF Inv

LEMMA NewFacts ==
    ASSUME NEW kind, NEW prompt, NEW chain
    PROVE  Fields(New(kind, prompt, chain)) /\ New(kind, prompt, chain).prompt = prompt
<1> DEFINE links == IF kind = "stream" THEN <<Head(chain)>> ELSE chain
           x == [Ended("new") EXCEPT !.kind = kind]
           y == [x EXCEPT !.prompt = prompt]
           z == [y EXCEPT !.chain = links]
<1> HIDE DEF links
<1>1. x = [stage |-> "new", kind |-> kind, prompt |-> "none", chain |-> <<>>, pos |-> 0]
  BY DEF Ended
<1> HIDE DEF x
<1>2. y = [stage |-> "new", kind |-> kind, prompt |-> prompt, chain |-> <<>>, pos |-> 0]
  BY <1>1
<1> HIDE DEF y
<1>3. z = [stage |-> "new", kind |-> kind, prompt |-> prompt, chain |-> links, pos |-> 0]
  BY <1>2
<1>4. New(kind, prompt, chain) = z
  BY DEF New, x, y, links
<1> HIDE DEF z
<1> QED
  BY <1>3, <1>4 DEF Fields

LEMMA Step ==
    ASSUME RouterAssumption
    PROVE  Inv /\ [Next]_vars => Inv' /\ Answers
<1> SUFFICES ASSUME Inv, [Next]_vars PROVE Inv' /\ Answers
  OBVIOUS
<1>1. \A r \in Requests : RequestWell(r)
  BY DEF Inv, RequestsWell
<1>3. ASSUME NEW r \in Requests, StartRouted(r) PROVE Inv' /\ Answers
  <2>1. PICK kind \in KindsOf[r], prompt \in Prompts, p \in Allowed :
          Walk(r, New(kind, prompt, ChainFrom(p)), 1, Registered)
    BY <1>3 DEF StartRouted
  <2>2. PICK q : q = New(kind, prompt, ChainFrom(p)) /\ Fields(q) /\ q.prompt = prompt
    BY NewFacts
  <2>3. PICK looked : looked = Registered
    OBVIOUS
  <2>4. Walk(r, q, 1, looked) /\ request[r].stage = "new" /\ q.prompt \in Prompts
    BY <1>3, <2>1, <2>2, <2>3 DEF StartRouted
  <2> QED
    BY <2>2, <2>4, WalkKeeps
<1>4. ASSUME NEW r \in Requests, StartPinned(r) PROVE Inv' /\ Answers
  <2>1. PICK kind \in KindsOf[r], prompt \in Prompts, p \in Registered \cap PinsOf[r] :
          Walk(r, New(kind, prompt, <<p>>), 1, {})
    BY <1>4 DEF StartPinned
  <2>2. PICK q : q = New(kind, prompt, <<p>>) /\ Fields(q) /\ q.prompt = prompt
    BY NewFacts
  <2>3. Walk(r, q, 1, {}) /\ request[r].stage = "new"
    BY <1>4, <2>1, <2>2 DEF StartPinned
  <2> QED
    BY <2>2, <2>3, WalkKeeps
<1>5. ASSUME NEW r \in Requests, Continue(r) PROVE Inv' /\ Answers
  <2>1. request[r].stage = "retry" /\ Walk(r, request[r], request[r].pos + 1, {})
    BY <1>5 DEF Continue
  <2>2. Fields(request[r]) /\ request[r].pos \in Nat /\ request[r].prompt \in Prompts
    BY <1>1, <2>1 DEF RequestWell, Live
  <2>3. request[r].pos + 1 \in Nat /\ request[r].pos + 1 > 0
    BY <2>2
  <2> QED
    BY <2>1, <2>2, <2>3, WalkKeeps
<1> QED
  BY <1>3, <1>4, <1>5, CallEndsKeeps, GivenUpKeeps, WorkerEndsKeeps, TakeKeeps,
     AdministrationKeeps DEF Next

(* However requests, workers, answers of calls from before and changes of    *)
(* the registry interleave, every breaker is one its methods cannot misread. *)
THEOREM BreakersSoundHolds ==
    ASSUME RouterAssumption
    PROVE  Spec => []BreakersSound
<1>1. Inv => BreakersSound
  BY DEF Inv
<1>2. Inv /\ [Next]_vars => Inv'
  BY Step
<1> QED
  BY <1>1, <1>2, Initially, PTL DEF Spec

(* A request that waits for a provider is answered only by a call to this    *)
(* provider that succeeds in that step, any other only from the cache.       *)
THEOREM AnswerIsOfAttemptHolds ==
    ASSUME RouterAssumption
    PROVE  Spec => AnswerIsOfAttempt
<1>1. Inv /\ [Next]_vars => Inv'
  BY Step
<1>2. Inv /\ [Next]_vars =>
        [\A r \in Requests :
            request[r].stage # "answered" /\ request'[r].stage = "answered" => AnsweredRightly(r)]_vars
  BY Step DEF Answers
<1> QED
  BY <1>1, <1>2, Initially, PTL DEF Spec, AnswerIsOfAttempt

-----------------------------------------------------------------------------
(* The probes of a recovering breaker and the calls underway.                *)
(* A recovering breaker owes every probe to a call that is underway or to a  *)
(* success it has counted: n calls are underway.                             *)
Owes(b, n) == b.state = "half_open" => b.probes <= b.successes + n

Serving(p) == {r \in Requests : request[r].stage = "calling" /\ At(r) = p}
AtWork(p)  == IF worker[p].state \in {"taken", "calling"} THEN 1 ELSE 0
Load(p)    == Cardinality(Serving(p)) + Len(queue[p]) + AtWork(p)

Outstanding == \A p \in Registered \ lost : Owes(breaker[p], Load(p))

LEMMA Probing ==
    ASSUME NEW b, Sound(b), NEW n \in Nat, Owes(b, n)
    PROVE  /\ Owes(Updated(b), n)
           /\ Owes(AfterAllow(b), n + 1)
           /\ ~(Allows(b) /\ Updated(b).state = "half_open") => Owes(AfterAllow(b), n)
<1> DEFINE u == Updated(b)
<1>1. Sound(u)
  BY UpdatedSound
<1>2. Owes(u, n)
  BY DEF Updated, Owes, Sound, Breaker
<1>3. Updated(u) = u
  BY DEF Updated, Sound, Breaker
<1>4. Allows(u) <=> Allows(b)
  BY <1>3 DEF Allows
<1>5. AfterAllow(b) = IF u.state = "half_open" /\ Allows(u) THEN [u EXCEPT !.probes = @ + 1] ELSE u
  BY DEF AfterAllow
<1> HIDE DEF u
<1>6. CASE u.state = "half_open" /\ Allows(u)
  <2>1. AfterAllow(b).probes = u.probes + 1 /\ AfterAllow(b).successes = u.successes
        /\ u.probes \in Nat /\ u.successes \in Nat
    BY <1>1, <1>5, <1>6 DEF Sound, Breaker
  <2>2. Owes(AfterAllow(b), n + 1)
    BY <1>2, <1>6, <2>1 DEF Owes
  <2> QED
    BY <1>2, <1>4, <1>6, <2>2 DEF u
<1>7. CASE ~(u.state = "half_open" /\ Allows(u))
  <2>1. AfterAllow(b) = u /\ Owes(u, n + 1)
    BY <1>1, <1>2, <1>5, <1>7 DEF Owes, Sound, Breaker
  <2> QED
    BY <1>2, <2>1 DEF u
<1> QED
  BY <1>6, <1>7

(* An outcome pays for one call. *)
LEMMA Paying ==
    ASSUME NEW b, Sound(b), NEW n \in Nat, Owes(b, n + 1)
    PROVE  Owes(OnSuccess(b), n) /\ Owes(OnFailure(b), n)
<1> DEFINE v == Updated(b)
           u == [v EXCEPT !.failures = 0]
           w == [v EXCEPT !.failures = @ + 1, !.successes = 0]
<1>1. Sound(v) /\ Owes(v, n + 1)
  BY UpdatedSound, Probing
<1> HIDE DEF v
<1>2. /\ u.state = v.state /\ u.probes = v.probes /\ u.successes = v.successes
      /\ w.state = v.state /\ w.state \in {"closed", "open", "half_open"}
      /\ u.probes \in Nat /\ u.successes \in Nat
  BY <1>1 DEF Sound, Breaker
<1>3. Owes(OnSuccess(b), n)
  <2>1. OnSuccess(b) = IF u.state # "half_open" THEN [u EXCEPT !.successes = 0]
                       ELSE IF u.successes + 1 >= RecoveryThreshold
                            THEN [u EXCEPT !.successes = @ + 1, !.state = "closed"]
                            ELSE [u EXCEPT !.successes = @ + 1]
    BY DEF OnSuccess, v
  <2>2. u \in Breaker
    BY <1>1, FieldSet DEF Sound
  <2> HIDE DEF u
  <2>3. CASE u.state # "half_open"
    BY <2>1, <2>2, <2>3 DEF Owes, Breaker
  <2>4. CASE u.state = "half_open"
    BY <1>1, <1>2, <2>1, <2>2, <2>4 DEF Owes, Breaker
  <2> QED
    BY <2>3, <2>4
<1>4. Owes(OnFailure(b), n)
  <2>1. OnFailure(b) = IF \/ w.state = "half_open"
                          \/ w.state = "closed" /\ w.failures >= FailureThreshold
                       THEN [w EXCEPT !.state = "open", !.due = FALSE] ELSE w
    BY DEF OnFailure, v
  <2>2. DOMAIN w = {"state", "due", "failures", "successes", "probes"}
    BY <1>1 DEF Sound, Breaker
  <2> HIDE DEF w
  <2>3. [w EXCEPT !.state = "open", !.due = FALSE].state = "open"
    BY <2>2
  <2> QED
    BY <2>1, <2>3 DEF Owes
<1> QED
  BY <1>3, <1>4

(* While its breaker is still open, nothing is owed of a provider.           *)
LEMMA Owing ==
    ASSUME Outstanding, NEW p \in Registered, p \notin lost \/ p \in Recovering
    PROVE  Owes(breaker[p], Load(p))
BY DEF Outstanding, Recovering, Owes

LEMMA LoadIsNat ==
    ASSUME Inv, IsFiniteSet(Requests), NEW p \in Providers
    PROVE  /\ IsFiniteSet(Serving(p)) /\ Cardinality(Serving(p)) \in Nat
           /\ Len(queue[p]) \in Nat /\ AtWork(p) \in Nat /\ Load(p) \in Nat
<1>1. IsFiniteSet(Serving(p))
  BY FS_Subset DEF Serving
<1>2. queue[p] \in Seq(Items)
  BY DEF Inv, ItemsWell
<1>3. Cardinality(Serving(p)) \in Nat /\ Len(queue[p]) \in Nat /\ AtWork(p) \in Nat
  BY <1>1, <1>2, FS_CardinalityType DEF AtWork
<1> QED
  BY <1>1, <1>3 DEF Load

LEMMA LoadStaysNat ==
    ASSUME Inv', IsFiniteSet(Requests), NEW p \in Providers
    PROVE  /\ IsFiniteSet(Serving(p)') /\ Cardinality(Serving(p)') \in Nat
           /\ Len(queue'[p]) \in Nat /\ AtWork(p)' \in Nat /\ Load(p)' \in Nat
<1>1. IsFiniteSet(Serving(p)')
  BY FS_Subset DEF Serving
<1>2. queue'[p] \in Seq(Items)
  BY DEF Inv, ItemsWell
<1>3. Cardinality(Serving(p)') \in Nat /\ Len(queue'[p]) \in Nat /\ AtWork(p)' \in Nat
  BY <1>1, <1>2, FS_CardinalityType DEF AtWork
<1> QED
  BY <1>1, <1>3 DEF Load

(* A request r changes, no other.                                            *)
LEMMA ServingMoves ==
    ASSUME NEW r \in Requests, \A s \in Requests : s # r => request'[s] = request[s]
    PROVE  /\ \A p : (r \in Serving(p) <=> r \in Serving(p)') => Serving(p)' = Serving(p)
           /\ \A p : r \in Serving(p) /\ r \notin Serving(p)' => Serving(p)' = Serving(p) \ {r}
           /\ \A p : r \notin Serving(p) /\ r \in Serving(p)' => Serving(p)' = Serving(p) \cup {r}
<1>1. \A p : \A s \in Requests : s # r => (s \in Serving(p) <=> s \in Serving(p)')
  BY DEF Serving, At
<1>2. \A p : Serving(p) \subseteq Requests /\ Serving(p)' \subseteq Requests
  BY DEF Serving
<1> QED
  BY <1>1, <1>2

LEMMA SameLoad ==
    ASSUME NEW p, Serving(p)' = Serving(p), queue'[p] = queue[p], AtWork(p)' = AtWork(p)
    PROVE  Load(p)' = Load(p)
BY DEF Load

(* Breakers and what is lost stay, and no call comes to its end.             *)
LEMMA LoadKept ==
    ASSUME Inv, Outstanding, UNCHANGED <<breaker, lost>>,
           \A p \in Providers : Load(p)' = Load(p)
    PROVE  Outstanding'
BY DEF Outstanding, Inv, BreakersSound, Registered

(* The outcome of a call of p. *)
LEMMA OutcomeKeeps ==
    ASSUME Inv, Inv', IsFiniteSet(Requests), Outstanding,
           NEW p \in Providers, NEW prompt, NEW ok \in BOOLEAN, NEW stream,
           Outcome(p, prompt, ok, stream), Load(p) = Load(p)' + 1,
           \A s \in Providers : s # p => Load(s)' = Load(s)
    PROVE  Outstanding'
<1>1. /\ lost' = lost \ (Recovering \cap {p})
      /\ breaker' = IF p \notin Registered THEN breaker
                    ELSE [breaker EXCEPT ![p] = IF ok THEN OnSuccess(@) ELSE OnFailure(@)]
  BY DEF Outcome
<1>2. Registered' = Registered /\ Registered \subseteq Providers
  BY <1>1 DEF Registered, Inv, BreakersSound
<1> SUFFICES ASSUME NEW s \in Registered, s \notin lost' PROVE Owes(breaker'[s], Load(s)')
  BY <1>2 DEF Outstanding
<1>3. Owes(breaker[s], Load(s))
  BY <1>1, Owing
<1>4. CASE s # p
  BY <1>1, <1>2, <1>3, <1>4 DEF Registered
<1>5. CASE s = p
  <2>1. Load(p)' \in Nat
    BY LoadStaysNat
  <2>2. breaker'[s] = OnSuccess(breaker[s]) \/ breaker'[s] = OnFailure(breaker[s])
    BY <1>1, <1>5 DEF Registered
  <2>3. Sound(breaker[s])
    BY DEF Inv, BreakersSound
  <2> QED
    BY <1>3, <1>5, <2>1, <2>2, <2>3, Paying
<1> QED
  BY <1>4, <1>5

LEMMA CallEndsPays ==
    ASSUME Inv, Inv', IsFiniteSet(Requests), Outstanding, NEW r \in Requests, CallEnds(r)
    PROVE  Outstanding'
<1>1. PICK ok \in BOOLEAN :
        /\ Outcome(At(r), request[r].prompt, ok, request[r].kind = "stream")
        /\ request' = [request EXCEPT ![r] =
              IF ok THEN Ended("answered")
              ELSE IF request[r].kind = "stream" THEN Ended("failed")
              ELSE [request[r] EXCEPT !.stage = "retry"]]
  BY DEF CallEnds
<1>2. /\ At(r) \in Providers /\ request[r].stage = "calling" /\ DOMAIN request = Requests
      /\ RequestWell(r) /\ UNCHANGED <<queue, worker>>
  BY DEF CallEnds, service, Inv, RequestsWell, RequestWell
<1>3. PICK p \in Providers : p = At(r)
  BY <1>2
<1>4. request'[r].stage # "calling" /\ \A s \in Requests : s # r => request'[s] = request[s]
  BY <1>1, <1>2 DEF Ended, RequestWell, Fields
<1>5. \A s : (r \in Serving(s) <=> s = p) /\ r \notin Serving(s)'
  BY <1>2, <1>3, <1>4 DEF Serving
<1>6. Serving(p)' = Serving(p) \ {r} /\ \A s : s # p => Serving(s)' = Serving(s)
  BY <1>4, <1>5, ServingMoves
<1>7. \A s : queue'[s] = queue[s] /\ AtWork(s)' = AtWork(s)
  BY <1>2 DEF AtWork
<1>8. \A s \in Providers : s # p => Load(s)' = Load(s)
  BY <1>6, <1>7, SameLoad
<1>9. Load(p) = Load(p)' + 1
  <2>1. Cardinality(Serving(p)') = Cardinality(Serving(p)) - 1
    BY <1>5, <1>6, LoadIsNat, FS_RemoveElement
  <2>2. Load(p)' = Cardinality(Serving(p)') + Len(queue'[p]) + AtWork(p)'
    BY DEF Load
  <2>3. Load(p)' = (Cardinality(Serving(p)) - 1) + Len(queue[p]) + AtWork(p)
    BY <1>7, <2>1, <2>2
  <2> QED
    BY <2>3, LoadIsNat DEF Load
<1> QED
  BY <1>1, <1>3, <1>8, <1>9, OutcomeKeeps

LEMMA WorkerEndsPays ==
    ASSUME Inv, Inv', IsFiniteSet(Requests), Outstanding, NEW p \in Providers, WorkerEnds(p)
    PROVE  Outstanding'
<1>1. worker[p].state = "calling" /\ worker[p].item \in Items /\ DOMAIN worker = Providers
  BY DEF WorkerEnds, Inv, ItemsWell, WorkerWell
<1>2. PICK item \in Items : item = worker[p].item
  BY <1>1
<1>3. PICK ok \in BOOLEAN :
        /\ Outcome(p, item.prompt, ok, FALSE)
        /\ request' = Settle(item, ok)
        /\ worker' = [worker EXCEPT ![p] =
              IF Pending(item) THEN Worker("idle", NoItem) ELSE Absent]
        /\ UNCHANGED queue
  BY <1>2 DEF WorkerEnds
<1>4. PICK r \in Requests : r = item.req
  BY DEF Items
<1>5. \A s : Serving(s)' = Serving(s)
  <2>1. CASE ~Pending(item)
    BY <1>3, <2>1 DEF Settle, Serving, At
  <2>2. CASE Pending(item)
    <3>1. DOMAIN request = Requests /\ request[r].stage = "waiting" /\ RequestWell(r)
      BY <1>4, <2>2 DEF Pending, Inv, RequestsWell
    <3>2. request' = [request EXCEPT ![r] =
            IF ok THEN Ended("answered") ELSE [@ EXCEPT !.stage = "retry"]]
      BY <1>3, <1>4, <2>2 DEF Settle
    <3>3. request'[r].stage # "calling" /\ \A s \in Requests : s # r => request'[s] = request[s]
      BY <3>1, <3>2 DEF Ended, RequestWell, Fields
    <3> QED
      BY <3>1, <3>3, ServingMoves DEF Serving
  <2> QED
    BY <2>1, <2>2
<1>6. /\ AtWork(p) = 1 /\ AtWork(p)' = 0
      /\ \A s \in Providers : s # p => AtWork(s)' = AtWork(s)
  BY <1>1, <1>3 DEF AtWork, Worker, Absent
<1>7. \A s \in Providers : s # p => Load(s)' = Load(s)
  BY <1>3, <1>5, <1>6, SameLoad
<1>8. Load(p) = Load(p)' + 1
  BY <1>3, <1>5, <1>6, LoadIsNat DEF Load
<1> QED
  BY <1>3, <1>7, <1>8, OutcomeKeeps

(* A waiting request is given up, and its item stays; or a stream is left,   *)
(* and its probe is lost.                                                    *)
LEMMA GivenUpPays ==
    ASSUME Inv, IsFiniteSet(Requests), Outstanding, NEW r \in Requests,
           Abandon(r) \/ Timeout(r) \/ CallerCancelled(r)
    PROVE  Outstanding'
<1>1. /\ request[r].stage \in Live /\ UNCHANGED <<breaker, queue, worker>>
      /\ DOMAIN request = Requests /\ RequestWell(r) /\ Registered \subseteq Providers
  BY DEF Abandon, Timeout, CallerCancelled, Live, service, Inv, RequestsWell, BreakersSound
<1>2. request'[r].stage # "calling" /\ \A s \in Requests : s # r => request'[s] = request[s]
  BY <1>1 DEF Abandon, Timeout, CallerCancelled, Ended, RequestWell, Fields
<1>3. \A s : AtWork(s)' = AtWork(s)
  BY <1>1 DEF AtWork
<1>4. CASE request[r].stage # "calling"
  <2>1. \A s : Serving(s)' = Serving(s)
    BY <1>2, <1>4, ServingMoves DEF Serving
  <2>2. lost' = lost
    BY <1>4 DEF Abandon, Timeout, CallerCancelled
  <2> QED
    BY <1>1, <1>3, <2>1, <2>2, SameLoad, LoadKept
<1>5. CASE request[r].stage = "calling"
  <2>1. lost' = lost \cup {At(r)}
    BY <1>5 DEF Abandon, Timeout, CallerCancelled
  <2>2. \A s : s # At(r) => Serving(s)' = Serving(s)
    BY <1>2, <1>5, ServingMoves DEF Serving
  <2>3. \A s : s # At(r) => Load(s)' = Load(s)
    BY <1>1, <1>3, <2>2, SameLoad
  <2> QED
    BY <1>1, <2>1, <2>3 DEF Outstanding, Registered
<1> QED
  BY <1>4, <1>5

LEMMA TakePays ==
    ASSUME Inv, IsFiniteSet(Requests), Outstanding, NEW p \in Providers, Take(p) \/ Begin(p)
    PROVE  Outstanding'
<1>1. UNCHANGED <<breaker, request, lost>> /\ DOMAIN worker = Providers
      /\ queue \in [Providers -> Seq(Items)]
  BY DEF Take, Begin, Inv, ItemsWell
<1>2. \A s : Serving(s)' = Serving(s)
  BY <1>1 DEF Serving, At
<1>3. \A s \in Providers : s # p => queue'[s] = queue[s] /\ AtWork(s)' = AtWork(s)
  BY <1>1 DEF Take, Begin, AtWork
<1>4. Load(p)' = Load(p)
  <2>1. CASE Take(p)
    <3>1. queue[p] \in Seq(Items) /\ queue[p] # <<>> /\ queue'[p] = Tail(queue[p])
      BY <1>1, <2>1 DEF Take
    <3>2. Len(queue'[p]) = Len(queue[p]) - 1
      BY <3>1
    <3>3. AtWork(p) = 0 /\ AtWork(p)' = 1
      BY <1>1, <2>1 DEF Take, AtWork, Worker
    <3> QED
      BY <1>2, <3>2, <3>3, LoadIsNat DEF Load
  <2>2. CASE Begin(p)
    <3>1. worker[p].state = "taken" /\ worker' = [worker EXCEPT ![p].state = "calling"]
          /\ UNCHANGED queue /\ worker[p] = Worker(worker[p].state, worker[p].item)
      BY <2>2 DEF Begin, Inv, ItemsWell, WorkerWell
    <3>2. worker'[p].state = "calling"
      BY <1>1, <3>1 DEF Worker
    <3> QED
      BY <1>2, <3>1, <3>2 DEF Load, AtWork
  <2> QED
    BY <2>1, <2>2
<1> QED
  BY <1>1, <1>2, <1>3, <1>4, SameLoad, LoadKept

LEMMA AdministrationPays ==
    ASSUME Inv, IsFiniteSet(Requests), Outstanding,
           \/ \E p \in Managed : Register(p) \/ Unregister(p) \/ ChangeRule(p)
           \/ \E p \in Providers : BreakerDue(p) \/ WindowSlides(p)
           \/ UNCHANGED vars
    PROVE  Outstanding'
<1>1. UNCHANGED <<request, queue, worker>>
  BY DEF Register, Unregister, ChangeRule, BreakerDue, WindowSlides, vars, service
<1>2. \A s : Load(s)' = Load(s)
  BY <1>1 DEF Load, Serving, AtWork, At
<1>3. ASSUME NEW p, Register(p) PROVE Outstanding'
  BY <1>2, <1>3 DEF Register, Outstanding, Registered, Owes, NewBreaker
<1>4. ASSUME NEW p, Unregister(p) PROVE Outstanding'
  BY <1>2, <1>4 DEF Unregister, Outstanding, Registered
<1>5. ASSUME NEW p, BreakerDue(p) PROVE Outstanding'
  <2>1. /\ p \in Registered /\ lost' = lost /\ breaker[p].state = "open"
        /\ breaker' = [breaker EXCEPT ![p].due = TRUE] /\ breaker[p] \in Breaker
    BY <1>5 DEF BreakerDue, Inv, BreakersSound, Sound
  <2>2. breaker'[p].state = "open"
    BY <2>1 DEF Registered, Breaker
  <2> QED
    BY <1>2, <2>1, <2>2 DEF Outstanding, Registered, Owes
<1>6. CASE UNCHANGED <<breaker, lost>>
  BY <1>2, <1>6, LoadKept
<1> QED
  BY <1>3, <1>4, <1>5, <1>6 DEF ChangeRule, WindowSlides, vars

(* A request comes to a provider: in its queue, or calling it at once.       *)
LEMMA Queueing ==
    ASSUME Inv, IsFiniteSet(Requests), NEW t \in Providers, NEW item \in Items,
           queue' = [queue EXCEPT ![t] = Append(@, item)],
           \A s : Serving(s)' = Serving(s), \A s \in Providers : AtWork(s)' = AtWork(s)
    PROVE  Load(t)' = Load(t) + 1 /\ \A s \in Providers : s # t => Load(s)' = Load(s)
<1>1. queue \in [Providers -> Seq(Items)]
  BY DEF Inv, ItemsWell
<1>2. Len(queue'[t]) = Len(queue[t]) + 1 /\ \A s \in Providers : s # t => queue'[s] = queue[s]
  BY <1>1
<1>3. Load(t)' = Cardinality(Serving(t)) + (Len(queue[t]) + 1) + AtWork(t)
  BY <1>2 DEF Load
<1> QED
  BY <1>2, <1>3, LoadIsNat, SameLoad DEF Load

LEMMA Calling ==
    ASSUME Inv, IsFiniteSet(Requests), NEW t \in Providers, NEW r \in Requests,
           request[r].stage # "calling",
           \A s \in Requests : s # r => request'[s] = request[s],
           request'[r].stage = "calling", At(r)' = t,
           UNCHANGED queue, \A s \in Providers : AtWork(s)' = AtWork(s)
    PROVE  Load(t)' = Load(t) + 1 /\ \A s \in Providers : s # t => Load(s)' = Load(s)
<1>1. \A s : r \notin Serving(s) /\ (r \in Serving(s)' <=> s = t)
  BY DEF Serving
<1>2. Serving(t)' = Serving(t) \cup {r} /\ \A s : s # t => Serving(s)' = Serving(s)
  BY <1>1, ServingMoves
<1>3. Cardinality(Serving(t)') = Cardinality(Serving(t)) + 1
  BY <1>1, <1>2, LoadIsNat, FS_AddElement
<1>4. Load(t)' = Cardinality(Serving(t)') + Len(queue[t]) + AtWork(t)
  BY DEF Load
<1> QED
  BY <1>2, <1>3, <1>4, LoadIsNat, SameLoad DEF Load

(* A walk gives away at most one probe that is not lost: to the provider it  *)
(* ends at.                                                                  *)
LEMMA WalkPays ==
    ASSUME Inv, IsFiniteSet(Requests), Outstanding,
           NEW r \in Requests, request[r].stage # "calling",
           NEW q, Fields(q), q.prompt \in Prompts, NEW i \in Nat, i > 0, NEW looked,
           Walk(r, q, i, looked)
    PROVE  Outstanding'
<1> DEFINE Tried  == {j \in i..Len(q.chain) : q.chain[j] \in Registered}
           land   == {j \in Tried : Admits(q.kind, q.chain[j])}
           at     == IF land = {} THEN 0 ELSE Min(land)
           asked  == {q.chain[j] : j \in {t \in Tried : land = {} \/ t <= at}}
           passed == {p \in asked : Allows(breaker[p]) /\ p \notin blocked}
           target == IF at = 0 THEN {} ELSE {q.chain[at]}
           live   == IF q.kind = "queued" THEN passed ELSE {}
           Probes(p) == Allows(breaker[p]) /\ Updated(breaker[p]).state = "half_open"
           Hit(expired) == q.kind # "stream" /\ Tried # {} /\ ~expired /\ Caches(cache, q.prompt)
           Stage == IF q.kind = "queued" THEN "waiting" ELSE "calling"
           On    == [q EXCEPT !.pos = at, !.stage = Stage]
<1>1. PICK expired \in BOOLEAN :
        /\ breaker' = [p \in Registered |->
              IF p \in asked /\ ~Hit(expired) THEN AfterAllow(breaker[p])
              ELSE IF p \in looked THEN Updated(breaker[p]) ELSE breaker[p]]
        /\ lost' = (lost \ (Recovering \cap (looked \cup (IF Hit(expired) THEN {} ELSE asked))))
                   \cup (IF Hit(expired) THEN {} ELSE {p \in asked \ target : Probes(p)})
        /\ request' = [request EXCEPT ![r] =
              IF Hit(expired) THEN Ended("answered")
              ELSE IF at = 0 THEN Ended("failed")
              ELSE On]
        /\ worker' = [p \in Providers |->
              IF ~Hit(expired) /\ p \in live /\ worker[p].state = "none"
              THEN Worker("idle", NoItem) ELSE worker[p]]
        /\ IF q.kind = "queued" /\ ~Hit(expired) /\ at # 0
           THEN queue' = [queue EXCEPT ![q.chain[at]] =
                            Append(@, [req |-> r, pos |-> at, prompt |-> q.prompt])]
           ELSE UNCHANGED queue
  BY DEF Walk
<1>2. at # 0 => at \in Nat /\ q.chain[at] \in Registered
  <2>1. land \subseteq Nat
    OBVIOUS
  <2> QED
    BY <2>1, MinIsMember
<1>3. /\ Registered \subseteq Providers /\ Registered' = Registered
      /\ \A p \in Registered : Sound(breaker[p])
      /\ DOMAIN request = Requests
  BY <1>1 DEF Inv, BreakersSound, RequestsWell, Registered
<1> HIDE DEF at, land, Tried, Hit, live, passed, asked, On
<1>4. \A p \in Providers : AtWork(p)' = AtWork(p)
  BY <1>1 DEF AtWork, Worker
<1>5. \A s \in Requests : s # r => request'[s] = request[s]
  BY <1>1, <1>3
<1>6. \A p \in Providers :
        \/ p \notin target /\ Load(p)' = Load(p)
        \/ ~Hit(expired) /\ p \in target /\ Load(p)' = Load(p) + 1
        \/ Hit(expired) /\ Load(p)' = Load(p)
  <2>1. CASE Hit(expired) \/ at = 0
    <3>1. request'[r].stage # "calling" /\ UNCHANGED queue
      BY <1>1, <1>3, <2>1 DEF Ended
    <3>2. \A s : Serving(s)' = Serving(s)
      BY <1>5, <3>1, ServingMoves DEF Serving
    <3> QED
      BY <1>4, <2>1, <3>1, <3>2, SameLoad
  <2>2. CASE ~Hit(expired) /\ at # 0
    <3>1. PICK t \in Providers : t = q.chain[at] /\ target = {t}
      BY <1>2, <1>3, <2>2
    <3>2. request'[r].stage = Stage /\ At(r)' = t
      <4> DEFINE x == [q EXCEPT !.pos = at]
      <4>1. x = [stage |-> q.stage, kind |-> q.kind, prompt |-> q.prompt, chain |-> q.chain,
                 pos |-> at]
        BY DEF Fields
      <4>2. On = [x EXCEPT !.stage = Stage]
        BY DEF On
      <4>3. request'[r] = On
        BY <1>1, <1>3, <2>2
      <4> HIDE DEF x, Stage
      <4>4. request'[r].stage = Stage /\ request'[r].chain = q.chain /\ request'[r].pos = at
        BY <4>1, <4>2, <4>3
      <4> QED
        BY <3>1, <4>4 DEF At
    <3>3. CASE q.kind = "queued"
      <4>1. PICK item \in Items : item = [req |-> r, pos |-> at, prompt |-> q.prompt]
        BY <1>2, <2>2 DEF Items
      <4>2. queue' = [queue EXCEPT ![t] = Append(@, item)]
        BY <1>1, <2>2, <3>1, <3>3, <4>1
      <4>3. \A s : Serving(s)' = Serving(s)
        BY <1>5, <3>2, <3>3, ServingMoves DEF Serving
      <4>4. Load(t)' = Load(t) + 1 /\ \A s \in Providers : s # t => Load(s)' = Load(s)
        BY <1>4, <4>2, <4>3, Queueing
      <4> QED
        BY <2>2, <3>1, <4>4
    <3>4. CASE q.kind # "queued"
      <4>1. UNCHANGED queue
        BY <1>1, <3>4
      <4>2. Load(t)' = Load(t) + 1 /\ \A s \in Providers : s # t => Load(s)' = Load(s)
        BY <1>4, <1>5, <3>2, <3>4, <4>1, Calling
      <4> QED
        BY <2>2, <3>1, <4>2
    <3> QED
      BY <3>3, <3>4
  <2> QED
    BY <2>1, <2>2
<1> SUFFICES ASSUME NEW s \in Registered, s \notin lost' PROVE Owes(breaker'[s], Load(s)')
  BY <1>3 DEF Outstanding
<1>7. s \notin lost \/ s \in Recovering
  BY <1>1
<1>8. Owes(breaker[s], Load(s)) /\ Load(s) \in Nat /\ Sound(breaker[s])
  BY <1>3, <1>7, Owing, LoadIsNat
<1>9. /\ Owes(Updated(breaker[s]), Load(s)) /\ Owes(AfterAllow(breaker[s]), Load(s) + 1)
      /\ ~Probes(s) => Owes(AfterAllow(breaker[s]), Load(s))
  BY <1>8, Probing
<1>10. \A b : Sound(b) /\ Owes(b, Load(s)) => Owes(b, Load(s) + 1)
  BY <1>8 DEF Owes, Sound, Breaker
<1>11. CASE s \in asked /\ ~Hit(expired)
  <2>1. breaker'[s] = AfterAllow(breaker[s]) /\ (s \in target \/ ~Probes(s))
    BY <1>1, <1>11
  <2> QED
    BY <1>3, <1>6, <1>9, <1>11, <2>1, AfterAllowSound, <1>8, <1>10
<1>12. CASE ~(s \in asked /\ ~Hit(expired))
  <2>1. breaker'[s] = Updated(breaker[s]) \/ breaker'[s] = breaker[s]
    BY <1>1, <1>12
  <2>2. Sound(breaker'[s]) /\ Owes(breaker'[s], Load(s))
    BY <1>8, <1>9, <2>1, UpdatedSound
  <2> QED
    BY <1>3, <1>6, <1>10, <2>2
<1> QED
  BY <1>11, <1>12

LEMMA StepPays ==
    ASSUME RouterAssumption, IsFiniteSet(Requests)
    PROVE  Inv /\ Outstanding /\ [Next]_vars => Outstanding'
<1> SUFFICES ASSUME Inv, Outstanding, [Next]_vars PROVE Outstanding'
  OBVIOUS
<1>0. 1 \in Nat /\ 1 > 0
  OBVIOUS
<1>1. Inv'
  BY Step
<1>2. ASSUME NEW r \in Requests, StartRouted(r) PROVE Outstanding'
  <2>1. PICK kind \in KindsOf[r], prompt \in Prompts, p \in Allowed :
          Walk(r, New(kind, prompt, ChainFrom(p)), 1, Registered)
    BY <1>2 DEF StartRouted
  <2>2. PICK q : q = New(kind, prompt, ChainFrom(p)) /\ Fields(q) /\ q.prompt = prompt
    BY NewFacts
  <2>3. PICK looked : looked = Registered
    OBVIOUS
  <2>4. Walk(r, q, 1, looked) /\ request[r].stage # "calling" /\ q.prompt \in Prompts
    BY <1>2, <2>1, <2>2, <2>3 DEF StartRouted
  <2> QED
    BY <2>2, <2>4, <1>0, WalkPays
<1>3. ASSUME NEW r \in Requests, StartPinned(r) PROVE Outstanding'
  <2>1. PICK kind \in KindsOf[r], prompt \in Prompts, p \in Registered \cap PinsOf[r] :
          Walk(r, New(kind, prompt, <<p>>), 1, {})
    BY <1>3 DEF StartPinned
  <2>2. PICK q : q = New(kind, prompt, <<p>>) /\ Fields(q) /\ q.prompt = prompt
    BY NewFacts
  <2>3. Walk(r, q, 1, {}) /\ request[r].stage # "calling"
    BY <1>3, <2>1, <2>2 DEF StartPinned
  <2> QED
    BY <2>2, <2>3, <1>0, WalkPays
<1>4. ASSUME NEW r \in Requests, Continue(r) PROVE Outstanding'
  <2>1. request[r].stage = "retry" /\ Walk(r, request[r], request[r].pos + 1, {})
    BY <1>4 DEF Continue
  <2>2. Fields(request[r]) /\ request[r].pos \in Nat /\ request[r].prompt \in Prompts
    BY <2>1 DEF Inv, RequestsWell, RequestWell, Live
  <2>3. request[r].pos + 1 \in Nat /\ request[r].pos + 1 > 0
    BY <2>2
  <2> QED
    BY <2>1, <2>2, <2>3, WalkPays
<1> QED
  BY <1>1, <1>2, <1>3, <1>4, CallEndsPays, GivenUpPays, WorkerEndsPays, TakePays,
     AdministrationPays DEF Next

(* A recovering breaker whose probes are used up still waits for one of      *)
(* them, unless its outcome was lost or an item is left in its queue: the    *)
(* invariant counts the probes given away against the calls underway and the *)
(* successes recorded (allow_request, on_success and on_failure of           *)
(* circuit_breaker.py).                                                      *)
THEOREM StuckOnlyByLossHolds ==
    ASSUME RouterAssumption, IsFiniteSet(Requests)
    PROVE  Spec => []StuckOnlyByLoss
<1>1. Init => Outstanding
  BY DEF Init, Outstanding, Owes, NewBreaker, Registered
<1>2. Inv /\ [Next]_vars => Inv'
  BY Step
<1>3. Inv /\ Outstanding /\ [Next]_vars => Outstanding'
  BY StepPays
<1>4. Inv /\ Outstanding => StuckOnlyByLoss
  <2> SUFFICES ASSUME Inv, Outstanding, NEW p \in Providers, Stuck(p), p \notin lost, queue[p] = <<>>
               PROVE  FALSE
    BY DEF StuckOnlyByLoss
  <2>1. /\ breaker[p].probes <= breaker[p].successes + Load(p)
        /\ breaker[p].probes >= RecoveryThreshold /\ breaker[p].successes < RecoveryThreshold
        /\ breaker[p].probes \in Nat /\ breaker[p].successes \in Nat
    BY DEF Stuck, Outstanding, Owes, Inv, BreakersSound, Sound, Breaker
  <2>2. Load(p) > 0
    BY <2>1, LoadIsNat, ThresholdAssumption
  <2>3. AtWork(p) = 0 /\ Serving(p) = {}
    BY DEF Stuck, Underway, AtWork, Serving, InStage
  <2>4. Load(p) = 0
    BY <2>3, FS_EmptySet DEF Load
  <2> QED
    BY <2>2, <2>4
<1> QED
  BY <1>1, <1>2, <1>3, <1>4, Initially, PTL DEF Spec
=============================================================================
