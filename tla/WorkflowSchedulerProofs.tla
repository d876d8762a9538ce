----------------------- MODULE WorkflowSchedulerProofs -----------------------
(* Theorems about WorkflowScheduler, for any set of schedules, any limits    *)
(* and any number of restarts and crashes.                                   *)
EXTENDS WorkflowScheduler, FunctionTheorems, FiniteSetTheorems, TLAPS

InFlight(s) == {f \in fires : f.id = s}

-----------------------------------------------------------------------------
(* What the helpers return.                                                  *)

LEMMA CronMatchType ==
    ASSUME NEW t \in Nat
    PROVE  CronMatch(t) \in Nat
<1>1. t \div Period \in Nat
  BY PeriodAssumption
<1> QED
  BY <1>1, PeriodAssumption DEF CronMatch

LEMMA SaveFacts ==
    ASSUME NEW s, NEW spec, Save(s, spec)
    PROVE  /\ Stored' = Stored \cup {s}
           /\ schedules'[s] = spec
           /\ \A q \in Stored : q # s => schedules'[q] = schedules[q]
BY DEF Save, Stored

LEMMA AdvancedFacts ==
    ASSUME NEW f \in Fire
    PROVE  /\ Advanced(f) \in Schedule
           /\ Advanced(f).kind = f.spec.kind
           /\ Advanced(f).last = f.at
           /\ f.spec.kind = "once" => Advanced(f).next = None /\ ~Advanced(f).enabled
           /\ f.spec.kind # "once" => Advanced(f).enabled = f.spec.enabled
           /\ f.spec.kind = "interval" => Advanced(f).next = f.at + Period
<1>1. f.spec \in Schedule /\ f.at \in Nat
  BY DEF Fire
<1>2. f.at + Period \in Nat /\ CronMatch(f.at) \in Nat
  BY <1>1, PeriodAssumption, CronMatchType
<1>3. f.spec.kind \in Kinds
  BY <1>1 DEF Schedule
<1>4. CASE f.spec.kind = "once"
  BY <1>1, <1>4 DEF Advanced, Schedule, Kinds
<1>5. CASE f.spec.kind = "interval"
  BY <1>1, <1>2, <1>5 DEF Advanced, Schedule, Kinds
<1>6. CASE f.spec.kind = "cron"
  BY <1>1, <1>2, <1>6 DEF Advanced, Schedule, Kinds
<1> QED
  BY <1>3, <1>4, <1>5, <1>6 DEF Kinds

LEMMA RestoredFacts ==
    ASSUME NEW spec \in Schedule, NEW t \in Nat
    PROVE  /\ Restored(spec, t) \in Schedule
           /\ Restored(spec, t).kind = spec.kind
           /\ Restored(spec, t).last = spec.last
           /\ Restored(spec, t).enabled => spec.enabled
           /\ spec.kind = "once" /\ spec.last # None => Restored(spec, t).next = None
           /\ spec.kind = "interval" /\ spec.last # None =>
                 /\ Restored(spec, t).next \in Nat
                 /\ Restored(spec, t).next >= spec.last + Period
<1>1. t + Period \in Nat /\ CronMatch(t) \in Nat /\ spec.kind \in Kinds
  BY PeriodAssumption, CronMatchType DEF Schedule
<1>2. CASE spec.kind = "once" /\ spec.last # None
  BY <1>2 DEF Restored, Schedule, Kinds
<1>3. CASE spec.kind = "once" /\ spec.last = None
  BY <1>3 DEF Restored, Schedule, Kinds
<1>4. CASE spec.kind = "interval" /\ spec.last = None
  BY <1>1, <1>4 DEF Restored, Schedule, Kinds
<1>5. CASE spec.kind = "interval" /\ spec.last # None
  <2>1. spec.last \in Nat
    BY <1>5 DEF Schedule
  <2>2. Later(spec.last + Period, t) \in Nat /\ Later(spec.last + Period, t) >= spec.last + Period
    BY <2>1, PeriodAssumption DEF Later
  <2> QED
    BY <2>2, <1>5 DEF Restored, Schedule, Kinds
<1>6. CASE spec.kind = "cron"
  BY <1>1, <1>6 DEF Restored, Schedule, Kinds
<1> QED
  BY <1>1, <1>2, <1>3, <1>4, <1>5, <1>6 DEF Kinds

-----------------------------------------------------------------------------
(* Type correctness and the counts of active runs.                           *)

(* A fire is known by its schedule and its time.                             *)
FireKeys == \A f, g \in fires : (f.id = g.id /\ f.at = g.at) => f = g

Counts == \A s \in Ids : IsFiniteSet(InFlight(s)) /\ active[s] = Cardinality(InFlight(s))

Limits == \A s \in Ids : active[s] <= Limit

Sound == TypeOK /\ FireKeys /\ Counts /\ Limits

(* The fires that a poll creates.                                            *)
NewFire(s) == [id |-> s, at |-> now', spec |-> schedules[s], stage |-> "created"]

LEMMA PollFacts ==
    ASSUME Sound, Poll
    PROVE  \E chosen \in SUBSET Ids :
              /\ \A s \in chosen : /\ s \in Stored /\ schedules[s].enabled
                                   /\ schedules[s].next # None
                                   /\ schedules[s].next <= now'
                                   /\ active[s] < Limit
                                   /\ ~\E f \in fires : f.id = s /\ f.at = now'
              /\ active' = [s \in Ids |-> active[s] + (IF s \in chosen THEN 1 ELSE 0)]
              /\ fires' = fires \cup {NewFire(s) : s \in chosen}
              /\ now' \in Nat
              /\ UNCHANGED <<schedules, created, runs, mode, stops, crashes>>
<1>1. now' \in Nat
  BY DEF Poll, Sound, TypeOK
<1>2. UNCHANGED <<schedules, created, runs, mode, stops, crashes>>
  BY DEF Poll
<1>3. PICK chosen \in SUBSET Ids :
         /\ Startable(chosen)
         /\ active' = [s \in Ids |-> active[s] + (IF s \in chosen THEN 1 ELSE 0)]
         /\ fires' = fires \cup {NewFire(s) : s \in chosen}
  BY DEF Poll, NewFire
<1>4. \A s \in chosen : DueNow(s) /\ MayStart(s)
  BY <1>3 DEF Startable
<1>5. \A s \in chosen : /\ s \in Stored /\ schedules[s].enabled
                        /\ schedules[s].next # None /\ schedules[s].next <= now'
                        /\ active[s] < Limit
                        /\ ~\E f \in fires : f.id = s /\ f.at = now'
  BY <1>2, <1>4 DEF DueNow, MayStart, Due, Stored
<1> QED
  BY <1>1, <1>2, <1>3, <1>5

LEMMA PollSound ==
    ASSUME Sound, Poll, overtaken' \in [Ids -> [Ids -> Nat]]
    PROVE  Sound'
<1>1. PICK chosen \in SUBSET Ids :
              /\ \A s \in chosen : /\ s \in Stored /\ schedules[s].enabled
                                   /\ schedules[s].next # None
                                   /\ schedules[s].next <= now'
                                   /\ active[s] < Limit
                                   /\ ~\E f \in fires : f.id = s /\ f.at = now'
              /\ active' = [s \in Ids |-> active[s] + (IF s \in chosen THEN 1 ELSE 0)]
              /\ fires' = fires \cup {NewFire(s) : s \in chosen}
              /\ now' \in Nat
              /\ UNCHANGED <<schedules, created, runs, mode, stops, crashes>>
  BY PollFacts
<1>2. active \in [Ids -> Nat] /\ active' \in [Ids -> Nat]
  BY <1>1 DEF Sound, TypeOK
<1>3. \A s \in chosen : NewFire(s) \in Fire /\ s \in created /\ NewFire(s).id = s
  BY <1>1 DEF Sound, TypeOK, NewFire, Fire
<1>4. fires' \subseteq Fire /\ \A f \in fires' : f.id \in created
  BY <1>1, <1>3 DEF Sound, TypeOK
<1>5. TypeOK'
  BY <1>1, <1>2, <1>4 DEF Sound, TypeOK, Stored
<1>6. FireKeys'
  <2> SUFFICES ASSUME NEW f \in fires', NEW g \in fires', f.id = g.id, f.at = g.at
               PROVE  f = g
    BY DEF FireKeys
  <2>1. \A s \in chosen : NewFire(s).at = now'
    BY DEF NewFire
  <2>2. CASE f \in fires /\ g \in fires
    BY <2>2 DEF Sound, FireKeys
  <2>3. CASE f \in fires /\ g \notin fires
    BY <1>1, <1>3, <2>1, <2>3
  <2>4. CASE f \notin fires /\ g \in fires
    BY <1>1, <1>3, <2>1, <2>4
  <2>5. CASE f \notin fires /\ g \notin fires
    BY <1>1, <1>3, <2>5
  <2> QED
    BY <2>2, <2>3, <2>4, <2>5
<1>7. ASSUME NEW s \in Ids
      PROVE  /\ IsFiniteSet(InFlight(s)') /\ active'[s] = Cardinality(InFlight(s)')
             /\ active'[s] <= Limit
  <2>1. IsFiniteSet(InFlight(s)) /\ active[s] = Cardinality(InFlight(s)) /\ active[s] <= Limit
    BY DEF Sound, Counts, Limits
  <2>2. CASE s \notin chosen
    <3>1. InFlight(s)' = InFlight(s)
      BY <1>1, <1>3, <2>2 DEF InFlight
    <3>2. active'[s] = active[s]
      BY <1>1, <1>2, <2>2
    <3> QED
      BY <2>1, <3>1, <3>2
  <2>3. CASE s \in chosen
    <3>1. InFlight(s)' = InFlight(s) \cup {NewFire(s)}
      BY <1>1, <1>3, <2>3 DEF InFlight
    <3>2. NewFire(s) \notin InFlight(s)
      BY <1>1, <1>3, <2>3 DEF InFlight, NewFire
    <3>3. IsFiniteSet(InFlight(s)') /\ Cardinality(InFlight(s)') = Cardinality(InFlight(s)) + 1
      BY <2>1, <3>1, <3>2, FS_AddElement
    <3>4. active'[s] = active[s] + 1 /\ active[s] < Limit
      BY <1>1, <2>3
    <3> QED
      BY <1>2, <2>1, <3>3, <3>4, LimitAssumption
  <2> QED
    BY <2>2, <2>3
<1> QED
  BY <1>5, <1>6, <1>7 DEF Sound, Counts, Limits

(* A fire leaves and its slot is given back.                                 *)
LEMMA FinishSound ==
    ASSUME Sound, NEW f \in fires, Finish(f), UNCHANGED <<created, mode, now, stops, crashes>>,
           runs' \subseteq Run, overtaken' \in [Ids -> [Ids -> Nat]]
    PROVE  Sound'
<1>1. f \in Fire /\ f.id \in Ids /\ f.id \in created
  BY DEF Sound, TypeOK, Fire
<1>2. Save(f.id, Advanced(f)) /\ fires' = fires \ {f}
      /\ active' = [active EXCEPT ![f.id] = active[f.id] - 1]
  BY DEF Finish
<1>3. Stored' \subseteq created /\ \A s \in Stored' : schedules'[s] \in Schedule
  BY <1>1, <1>2, SaveFacts, AdvancedFacts DEF Sound, TypeOK
<1>4. ASSUME NEW s \in Ids
      PROVE  /\ IsFiniteSet(InFlight(s)') /\ active'[s] = Cardinality(InFlight(s)')
             /\ active'[s] \in Nat /\ active'[s] <= Limit
  <2>1. /\ IsFiniteSet(InFlight(s)) /\ active[s] = Cardinality(InFlight(s))
        /\ active[s] <= Limit /\ active[s] \in Nat
    BY DEF Sound, Counts, Limits, TypeOK
  <2>2. CASE s # f.id
    <3>1. InFlight(s)' = InFlight(s)
      BY <1>2, <2>2 DEF InFlight
    <3>2. active'[s] = active[s]
      BY <1>2, <2>2 DEF Sound, TypeOK
    <3> QED
      BY <2>1, <3>1, <3>2
  <2>3. CASE s = f.id
    <3>1. InFlight(s)' = InFlight(s) \ {f} /\ f \in InFlight(s)
      BY <1>2, <2>3 DEF InFlight
    <3>2. IsFiniteSet(InFlight(s)') /\ Cardinality(InFlight(s)') = Cardinality(InFlight(s)) - 1
      BY <2>1, <3>1, FS_RemoveElement
    <3>3. active'[s] = active[s] - 1
      BY <1>2, <2>3 DEF Sound, TypeOK
    <3>4. Cardinality(InFlight(s)') \in Nat
      BY <3>2, FS_CardinalityType
    <3> QED
      BY <2>1, <3>2, <3>3, <3>4, LimitAssumption
  <2> QED
    BY <2>2, <2>3
<1>5. active' \in [Ids -> Nat]
  BY <1>2, <1>4 DEF Sound, TypeOK
<1>6. TypeOK'
  BY <1>2, <1>3, <1>5 DEF Sound, TypeOK
<1>7. FireKeys'
  BY <1>2 DEF Sound, FireKeys
<1> QED
  BY <1>4, <1>6, <1>7 DEF Sound, Counts, Limits

LEMMA StartsSound ==
    ASSUME Sound, NEW f \in fires, FireStarts(f), overtaken' \in [Ids -> [Ids -> Nat]]
    PROVE  Sound'
<1> DEFINE g == [f EXCEPT !.stage = "running"]
<1>1. f \in Fire /\ f.id \in created
  BY DEF Sound, TypeOK
<1>2. g \in Fire /\ g.id = f.id /\ g.at = f.at
  BY <1>1 DEF Fire
<1>3. fires' = (fires \ {f}) \cup {g}
      /\ UNCHANGED <<schedules, created, active, mode, now, stops, crashes>>
  BY DEF FireStarts
<1>4. [id |-> f.id, at |-> f.at, kind |-> f.spec.kind, over |-> FALSE] \in Run
  BY <1>1 DEF Fire, Run, Schedule
<1>5. runs' \subseteq Run
  BY <1>4 DEF FireStarts, Sound, TypeOK
<1>6. TypeOK'
  BY <1>1, <1>2, <1>3, <1>5 DEF Sound, TypeOK, Stored
<1> HIDE DEF g
<1>7. FireKeys'
  BY <1>2, <1>3 DEF Sound, FireKeys
<1>8. ASSUME NEW s \in Ids
      PROVE  IsFiniteSet(InFlight(s)') /\ active'[s] = Cardinality(InFlight(s)')
  <2>1. IsFiniteSet(InFlight(s)) /\ active[s] = Cardinality(InFlight(s)) /\ active[s] \in Nat
    BY DEF Sound, Counts, TypeOK
  <2>2. CASE s # f.id
    BY <1>2, <1>3, <2>1, <2>2 DEF InFlight
  <2>3. CASE s = f.id
    <3> DEFINE others == InFlight(s) \ {f}
    <3>1. f \in InFlight(s) /\ InFlight(s)' = others \cup {g}
      BY <1>2, <1>3, <2>3 DEF InFlight
    <3>2. g \notin others
      BY <1>2 DEF InFlight, Sound, FireKeys
    <3>3. IsFiniteSet(others) /\ Cardinality(others) = Cardinality(InFlight(s)) - 1
      BY <2>1, <3>1, FS_RemoveElement
    <3>4. IsFiniteSet(others \cup {g}) /\ Cardinality(others \cup {g}) = Cardinality(others) + 1
      BY <3>2, <3>3, FS_AddElement
    <3>5. Cardinality(InFlight(s)') = Cardinality(InFlight(s))
      BY <2>1, <3>1, <3>3, <3>4
    <3> QED
      BY <1>3, <2>1, <3>1, <3>4, <3>5
  <2> QED
    BY <2>2, <2>3
<1> QED
  BY <1>3, <1>6, <1>7, <1>8 DEF Sound, Counts, Limits

(* Steps that leave memory alone and store schedules of the right type.      *)
LEMMA OtherSound ==
    ASSUME Sound, UNCHANGED <<active, fires>>, created \subseteq created',
           created' \subseteq Ids, Stored' \subseteq created',
           \A s \in Stored' : schedules'[s] \in Schedule,
           runs' \subseteq Run, mode' \in {"up", "draining", "down", "starting"},
           now' \in Nat, stops' \in Nat, crashes' \in Nat, overtaken' \in [Ids -> [Ids -> Nat]]
    PROVE  Sound'
BY DEF Sound, TypeOK, FireKeys, Counts, Limits, InFlight

LEMMA InitialNextType ==
    ASSUME NEW kind \in Kinds, NEW runAt \in Nat, now \in Nat
    PROVE  InitialNext(kind, runAt) \in Nat
<1>1. now + Period \in Nat /\ CronMatch(now) \in Nat
  BY PeriodAssumption, CronMatchType
<1> QED
  BY <1>1 DEF InitialNext, Kinds

(* Whatever happens, the record of who was overtaken keeps its type.         *)
LEMMA OvertakenType ==
    ASSUME overtaken \in [Ids -> [Ids -> Nat]], [Next]_vars
    PROVE  overtaken' \in [Ids -> [Ids -> Nat]]
<1>1. NoneOvertaken \in [Ids -> [Ids -> Nat]]
  BY DEF NoneOvertaken
<1>2. ASSUME NEW s \in Ids, Rearm(s) PROVE overtaken' \in [Ids -> [Ids -> Nat]]
  BY <1>2 DEF Rearm
<1>3. ASSUME NEW chosen \in SUBSET Ids, Overtake(chosen)
      PROVE  overtaken' \in [Ids -> [Ids -> Nat]]
  BY <1>3 DEF Overtake
<1>4. CASE UNCHANGED overtaken
  BY <1>4
<1>5. CASE overtaken' = NoneOvertaken
  BY <1>1, <1>5
<1>6. CASE Client
  <2>1. PICK s \in Ids : \/ \E kind \in Kinds, runAt \in RunTimes : Create(s, kind, runAt)
                        \/ Delete(s)
                        \/ \E enabled \in BOOLEAN : SetEnabled(s, enabled)
    BY <1>6 DEF Client
  <2>2. UNCHANGED overtaken \/ Rearm(s)
    BY <2>1 DEF Create, Delete, SetEnabled
  <2> QED
    BY <1>2, <1>4, <2>2
<1>7. CASE Poll
  BY <1>3, <1>7 DEF Poll
<1>8. CASE Crash
  BY <1>5, <1>8 DEF Crash
<1>9. CASE \E t \in 0..MaxTime : Restart(t) \/ Start(t)
  BY <1>5, <1>9 DEF Restart, Start
<1>10. CASE \E f \in fires : FireStep(f)
  BY <1>4, <1>10 DEF FireStep, FireStarts, FireFails, FireEnds
<1>11. CASE Shutdown \/ Drained \/ (\E r \in runs : ResumeRun(r)) \/ UNCHANGED vars
  BY <1>4, <1>11 DEF Shutdown, Drained, ResumeRun, vars
<1> QED
  BY <1>6, <1>7, <1>8, <1>9, <1>10, <1>11 DEF Next

LEMMA SoundStep == Sound /\ [Next]_vars => Sound'
<1> SUFFICES ASSUME Sound, [Next]_vars PROVE Sound'
  OBVIOUS
<1>0. overtaken' \in [Ids -> [Ids -> Nat]]
  BY OvertakenType DEF Sound, TypeOK
<1> USE <1>0 DEF Sound, TypeOK
<1>1. ASSUME NEW s \in Ids, NEW kind \in Kinds, NEW runAt \in RunTimes, Create(s, kind, runAt)
      PROVE  Sound'
  <2> DEFINE spec == [kind |-> kind, enabled |-> TRUE, runAt |-> runAt,
                      next |-> InitialNext(kind, runAt), last |-> None]
  <2>1. runAt \in Nat /\ InitialNext(kind, runAt) \in Nat
    BY RunTimeAssumption, InitialNextType
  <2>2. spec \in Schedule
    BY <2>1 DEF Schedule
  <2>3. Save(s, spec) /\ created' = created \cup {s}
        /\ UNCHANGED <<active, fires, runs, mode, now, stops, crashes>>
    BY <1>1 DEF Create
  <2> HIDE DEF spec
  <2>4. Stored' = Stored \cup {s} /\ \A q \in Stored' : schedules'[q] \in Schedule
    BY <2>2, <2>3, SaveFacts
  <2> QED
    BY <2>3, <2>4, OtherSound
<1>2. ASSUME NEW s \in Ids, Delete(s) PROVE Sound'
  <2>1. Stored' \subseteq Stored /\ \A q \in Stored' : schedules'[q] = schedules[q]
    BY <1>2 DEF Delete, Stored
  <2> QED
    BY <1>2, <2>1, OtherSound DEF Delete
<1>3. ASSUME NEW s \in Ids, NEW enabled \in BOOLEAN, SetEnabled(s, enabled) PROVE Sound'
  <2>1. s \in Stored /\ [schedules[s] EXCEPT !.enabled = enabled] \in Schedule
    BY <1>3 DEF SetEnabled, Editable, Schedule
  <2>2. /\ Save(s, [schedules[s] EXCEPT !.enabled = enabled])
        /\ UNCHANGED <<created, active, fires, runs, mode, now, stops, crashes>>
    BY <1>3 DEF SetEnabled
  <2> DEFINE spec == [schedules[s] EXCEPT !.enabled = enabled]
  <2>4. Save(s, spec) /\ spec \in Schedule /\ s \in Stored
    BY <2>1, <2>2
  <2> HIDE DEF spec
  <2>5. Stored' = Stored \cup {s} /\ schedules'[s] = spec
        /\ \A q \in Stored : q # s => schedules'[q] = schedules[q]
    BY <2>4, SaveFacts
  <2>3. Stored' = Stored /\ \A q \in Stored' : schedules'[q] \in Schedule
    BY <2>4, <2>5
  <2> QED
    BY <2>2, <2>3, OtherSound
<1>4. CASE Poll
  BY <1>4, PollSound
<1>5. ASSUME NEW f \in fires, FireStarts(f) PROVE Sound'
  BY <1>5, StartsSound
<1>6. ASSUME NEW f \in fires, FireFails(f) PROVE Sound'
  BY <1>6, FinishSound DEF FireFails
<1>7. ASSUME NEW f \in fires, FireEnds(f) PROVE Sound'
  <2>1. runs' \subseteq Run
    BY <1>7 DEF FireEnds, Run
  <2> QED
    BY <1>7, <2>1, FinishSound DEF FireEnds
<1>8. CASE Shutdown
  BY <1>8, OtherSound DEF Shutdown, Stored
<1>9. CASE Drained
  BY <1>9, OtherSound DEF Drained, Stored
<1>10. CASE Crash
  <2>1. /\ fires' = {} /\ active' = [s \in Ids |-> 0] /\ mode' = "down"
        /\ stops' = stops + 1 /\ crashes' = crashes + 1
        /\ UNCHANGED <<schedules, created, runs, now>>
    BY <1>10 DEF Crash
  <2>2. \A s \in Ids : InFlight(s)' = {}
    BY <2>1 DEF InFlight
  <2>3. \A s \in Ids : active'[s] = 0
    BY <2>1
  <2>5. \A s \in Ids : IsFiniteSet(InFlight(s)') /\ Cardinality(InFlight(s)') = 0
    BY <2>2, FS_EmptySet
  <2>6. Counts' /\ Limits'
    BY <2>3, <2>5, LimitAssumption DEF Counts, Limits
  <2>4. TypeOK' /\ FireKeys'
    BY <2>1 DEF FireKeys, Stored
  <2> QED
    BY <2>4, <2>6
<1>11. ASSUME NEW t \in 0..MaxTime, Restart(t) \/ Start(t) PROVE Sound'
  <2>1. t \in Nat /\ RestoreAll(t)
    BY <1>11, BoundAssumption DEF Restart, Start
  <2>2. Stored' = Stored /\ \A s \in Stored' : schedules'[s] \in Schedule
    BY <2>1, RestoredFacts DEF RestoreAll, Stored
  <2> QED
    BY <1>11, <2>1, <2>2, OtherSound DEF Restart, Start
<1>12. ASSUME NEW r \in runs, ResumeRun(r) PROVE Sound'
  <2>1. runs' \subseteq Run
    BY <1>12 DEF ResumeRun, Run
  <2> QED
    BY <1>12, <2>1, OtherSound DEF ResumeRun, Stored
<1>13. CASE UNCHANGED vars
  BY <1>13, OtherSound DEF vars, Stored
<1> QED
  BY <1>1, <1>2, <1>3, <1>4, <1>5, <1>6, <1>7, <1>8, <1>9, <1>10, <1>11, <1>12, <1>13
  DEF Next, Client, FireStep

LEMMA SoundInit == Init => Sound
<1> SUFFICES ASSUME Init PROVE Sound
  OBVIOUS
<1>1. TypeOK /\ FireKeys
  BY DEF Init, TypeOK, FireKeys, Stored, NoneOvertaken
<1>2. \A s \in Ids : InFlight(s) = {}
  BY DEF Init, InFlight
<1>3. \A s \in Ids : active[s] = 0
  BY DEF Init
<1>4. \A s \in Ids : IsFiniteSet(InFlight(s)) /\ Cardinality(InFlight(s)) = 0
  BY <1>2, FS_EmptySet
<1>5. Counts /\ Limits
  BY <1>3, <1>4, LimitAssumption DEF Counts, Limits
<1> QED
  BY <1>1, <1>5 DEF Sound

(* The scheduler's state is well typed.                                      *)
THEOREM TypeCorrect == Spec => []TypeOK
<1>1. Sound => TypeOK
  BY DEF Sound
<1> QED
  BY <1>1, SoundInit, SoundStep, PTL DEF Spec

(* The counts by which fires are admitted are the fires in progress, and no  *)
(* schedule exceeds its limit, for any limits, edits, restarts and crashes.  *)
THEOREM ActiveIsInFlightHolds == Spec => []ActiveIsInFlight
<1>1. Sound => ActiveIsInFlight
  BY DEF Sound, Counts, Limits, InFlight, ActiveIsInFlight
<1> QED
  BY <1>1, SoundInit, SoundStep, PTL DEF Spec

-----------------------------------------------------------------------------
(* A schedule keeps its kind: in the store, in copies and in its runs.       *)

KindsSeen == {<<f.id, f.spec.kind>> : f \in fires}
             \cup {<<r.id, r.kind>> : r \in runs}
             \cup {<<s, schedules[s].kind>> : s \in Stored}

KindsAgree ==
    /\ \A a \in KindsSeen : a[1] \in created
    /\ \A a, b \in KindsSeen : a[1] = b[1] => a[2] = b[2]

LEMMA KindsUse ==
    ASSUME KindsAgree
    PROVE  /\ \A f \in fires, r \in runs : f.id = r.id => f.spec.kind = r.kind
           /\ \A p, q \in runs : p.id = q.id => p.kind = q.kind
           /\ \A f \in fires : f.id \in Stored => schedules[f.id].kind = f.spec.kind
           /\ \A r \in runs : r.id \in Stored => schedules[r.id].kind = r.kind
           /\ \A r \in runs : r.id \in created
<1>1. /\ \A f \in fires : <<f.id, f.spec.kind>> \in KindsSeen
      /\ \A r \in runs : <<r.id, r.kind>> \in KindsSeen
      /\ \A s \in Stored : <<s, schedules[s].kind>> \in KindsSeen
  BY DEF KindsSeen
<1> QED
  BY <1>1 DEF KindsAgree

(* Every step but Create only copies kinds.                                  *)
LEMMA KindsStep == Sound /\ KindsAgree /\ [Next]_vars => KindsAgree'
<1> SUFFICES ASSUME Sound, KindsAgree, [Next]_vars PROVE KindsAgree'
  OBVIOUS
<1>1. ASSUME KindsSeen' \subseteq KindsSeen, created' = created PROVE KindsAgree'
  BY <1>1 DEF KindsAgree
<1>2. ASSUME NEW s \in Ids, NEW kind \in Kinds, NEW runAt \in RunTimes, Create(s, kind, runAt)
      PROVE  KindsAgree'
  <2>1. /\ s \notin created /\ created' = created \cup {s} /\ UNCHANGED <<fires, runs>>
        /\ Stored' = Stored \cup {s} /\ schedules'[s].kind = kind
        /\ \A q \in Stored : q # s => schedules'[q] = schedules[q]
    BY <1>2, SaveFacts DEF Create
  <2>2. KindsSeen' \subseteq KindsSeen \cup {<<s, kind>>}
    BY <2>1 DEF KindsSeen
  <2>3. \A a \in KindsSeen : a[1] # s
    BY <2>1 DEF KindsAgree
  <2> QED
    BY <2>1, <2>2, <2>3 DEF KindsAgree
<1>3. ASSUME NEW s \in Ids, Delete(s) PROVE KindsAgree'
  <2>1. Stored' \subseteq Stored /\ \A q \in Stored' : schedules'[q] = schedules[q]
    BY <1>3 DEF Delete, Stored
  <2> QED
    BY <1>1, <1>3, <2>1 DEF Delete, KindsSeen
<1>4. ASSUME NEW s \in Ids, NEW enabled \in BOOLEAN, SetEnabled(s, enabled) PROVE KindsAgree'
  <2>1. s \in Stored /\ schedules[s] \in Schedule
    BY <1>4 DEF SetEnabled, Editable, Sound, TypeOK
  <2>2. [schedules[s] EXCEPT !.enabled = enabled].kind = schedules[s].kind
    BY <2>1 DEF Schedule
  <2>3. Stored' = Stored /\ \A q \in Stored : schedules'[q].kind = schedules[q].kind
    BY <1>4, <2>1, <2>2, SaveFacts DEF SetEnabled
  <2> QED
    BY <1>1, <1>4, <2>3 DEF SetEnabled, KindsSeen
<1>5. CASE Poll
  <2>1. PICK chosen \in SUBSET Ids :
           /\ \A s \in chosen : s \in Stored
           /\ fires' = fires \cup {NewFire(s) : s \in chosen}
           /\ UNCHANGED <<schedules, created, runs>>
    BY <1>5, PollFacts
  <2>2. \A s : NewFire(s).id = s /\ NewFire(s).spec.kind = schedules[s].kind
    BY DEF NewFire
  <2>3. KindsSeen' \subseteq KindsSeen
    BY <2>1, <2>2 DEF KindsSeen, Stored
  <2> QED
    BY <1>1, <2>1, <2>3
<1>6. ASSUME NEW f \in fires, FireStarts(f) PROVE KindsAgree'
  <2>1. f \in Fire
    BY DEF Sound, TypeOK
  <2>2. [f EXCEPT !.stage = "running"].id = f.id /\ [f EXCEPT !.stage = "running"].spec = f.spec
    BY <2>1 DEF Fire
  <2> DEFINE g == [f EXCEPT !.stage = "running"]
             r == [id |-> f.id, at |-> f.at, kind |-> f.spec.kind, over |-> FALSE]
  <2>3. /\ fires' = (fires \ {f}) \cup {g} /\ runs' = runs \cup {r}
        /\ UNCHANGED schedules /\ r.id = f.id /\ r.kind = f.spec.kind
        /\ g.id = f.id /\ g.spec.kind = f.spec.kind
    BY <1>6, <2>2 DEF FireStarts
  <2> HIDE DEF g, r
  <2>4. KindsSeen' \subseteq KindsSeen
    BY <2>3 DEF KindsSeen, Stored
  <2> QED
    BY <1>1, <1>6, <2>4 DEF FireStarts
<1>7. ASSUME NEW f \in fires, FireFails(f) \/ FireEnds(f) PROVE KindsAgree'
  <2>1. f \in Fire /\ Save(f.id, Advanced(f)) /\ fires' \subseteq fires /\ created' = created
    BY <1>7 DEF FireFails, FireEnds, Finish, Sound, TypeOK
  <2>2. /\ Stored' = Stored \cup {f.id} /\ schedules'[f.id].kind = f.spec.kind
        /\ \A q \in Stored : q # f.id => schedules'[q] = schedules[q]
    BY <2>1, SaveFacts, AdvancedFacts
  <2>3. \A r \in runs' : \E q \in runs : r.id = q.id /\ r.kind = q.kind
    BY <1>7 DEF FireFails, FireEnds, Sound, TypeOK, Run
  <2>4. KindsSeen' \subseteq KindsSeen
    BY <2>1, <2>2, <2>3 DEF KindsSeen
  <2> QED
    BY <1>1, <2>1, <2>4
<1>8. ASSUME NEW t \in 0..MaxTime, Restart(t) \/ Start(t) PROVE KindsAgree'
  <2>1. t \in Nat /\ RestoreAll(t) /\ UNCHANGED <<created, fires, runs>>
    BY <1>8, BoundAssumption DEF Restart, Start
  <2>2. Stored' = Stored /\ \A s \in Stored : schedules'[s].kind = schedules[s].kind
    BY <2>1, RestoredFacts DEF RestoreAll, Stored, Sound, TypeOK
  <2> QED
    BY <1>1, <2>1, <2>2 DEF KindsSeen
<1>9. ASSUME NEW r \in runs, ResumeRun(r) PROVE KindsAgree'
  <2>1. \A q \in runs' : \E p \in runs : q.id = p.id /\ q.kind = p.kind
    BY <1>9 DEF ResumeRun, Sound, TypeOK, Run
  <2>2. UNCHANGED <<schedules, created, fires>>
    BY <1>9 DEF ResumeRun
  <2> QED
    BY <1>1, <2>1, <2>2 DEF KindsSeen, Stored
<1>10. CASE Shutdown \/ Drained \/ Crash \/ UNCHANGED vars
  BY <1>1, <1>10 DEF Shutdown, Drained, Crash, vars, KindsSeen, Stored
<1> QED
  BY <1>2, <1>3, <1>4, <1>5, <1>6, <1>7, <1>8, <1>9, <1>10 DEF Next, Client, FireStep

-----------------------------------------------------------------------------
(* Edits survive when editors wait for fires to end.                         *)

(* A schedule that is being fired is in the store, and enabled if it will be *)
(* fired again.                                                              *)
Attached ==
    \A f \in fires : /\ f.id \in Stored
                     /\ f.spec.kind # "once" => schedules[f.id].enabled /\ f.spec.enabled
                     /\ mode \in {"up", "draining"}

Edited == Sound /\ KindsAgree /\ Attached

(* A step that edits nothing: the property of one schedule.                  *)
Survives(s) ==
    /\ s \notin Stored => s \notin Stored'
    /\ (s \in Stored /\ ~schedules[s].enabled /\ s \in Stored' /\ schedules'[s].enabled)
          => SetEnabled(s, TRUE)

LEMMA EditedStep ==
    ASSUME EditorsWait, Edited, [Next]_vars
    PROVE  Attached' /\ \A s \in created : Survives(s)
<1> USE DEF Edited
<1>0. ASSUME UNCHANGED schedules
      PROVE  Stored' = Stored /\ \A q \in created : Survives(q)
  BY <1>0 DEF Survives, Stored
<1>1. ASSUME NEW s \in Ids, NEW kind \in Kinds, NEW runAt \in RunTimes, Create(s, kind, runAt)
      PROVE  Attached' /\ \A q \in created : Survives(q)
  <2>1. /\ s \notin created /\ UNCHANGED <<fires, mode>> /\ Stored' = Stored \cup {s}
        /\ \A q \in Stored : q # s => schedules'[q] = schedules[q]
    BY <1>1, SaveFacts DEF Create
  <2>2. \A f \in fires : f.id \in created
    BY DEF Sound, TypeOK
  <2> QED
    BY <2>1, <2>2 DEF Attached, Survives
<1>2. ASSUME NEW s \in Ids, Delete(s)
      PROVE  Attached' /\ \A q \in created : Survives(q)
  <2>1. /\ Stored' = Stored \ {s} /\ \A q \in Stored' : schedules'[q] = schedules[q]
        /\ UNCHANGED <<fires, mode>> /\ \A f \in fires : f.id # s
    BY <1>2 DEF Delete, Editable, Firing, Stored
  <2> QED
    BY <2>1 DEF Attached, Survives
<1>3. ASSUME NEW s \in Ids, NEW enabled \in BOOLEAN, SetEnabled(s, enabled)
      PROVE  Attached' /\ \A q \in created : Survives(q)
  <2>1. /\ s \in Stored /\ schedules[s] \in Schedule /\ UNCHANGED <<fires, mode>>
        /\ \A f \in fires : f.id # s
    BY <1>3 DEF SetEnabled, Editable, Firing, Sound, TypeOK
  <2>2. /\ Stored' = Stored /\ schedules'[s].enabled = enabled
        /\ \A q \in Stored : q # s => schedules'[q] = schedules[q]
    BY <1>3, <2>1, SaveFacts DEF SetEnabled, Schedule
  <2> QED
    BY <1>3, <2>1, <2>2 DEF Attached, Survives
<1>4. CASE Poll
  <2>1. PICK chosen \in SUBSET Ids :
           /\ \A s \in chosen : s \in Stored /\ schedules[s].enabled
           /\ fires' = fires \cup {NewFire(s) : s \in chosen}
           /\ UNCHANGED <<schedules, mode>> /\ mode = "up"
    BY <1>4, PollFacts DEF Poll
  <2>2. \A s : NewFire(s).id = s /\ NewFire(s).spec = schedules[s]
    BY DEF NewFire
  <2>3. \A f \in fires' :
           \/ f \in fires
           \/ f.id \in Stored /\ schedules[f.id].enabled /\ f.spec = schedules[f.id]
    BY <2>1, <2>2
  <2>4. ASSUME NEW f \in fires'
        PROVE  /\ f.id \in Stored' /\ mode' \in {"up", "draining"}
               /\ f.spec.kind # "once" => schedules'[f.id].enabled /\ f.spec.enabled
    <3>1. mode' = "up" /\ Stored' = Stored /\ schedules' = schedules
      BY <1>0, <2>1
    <3>2. CASE f \in fires
      BY <3>1, <3>2 DEF Attached
    <3>3. CASE f.id \in Stored /\ schedules[f.id].enabled /\ f.spec = schedules[f.id]
      BY <3>1, <3>3
    <3> QED
      BY <2>3, <3>2, <3>3
  <2>5. Attached'
    BY <2>4 DEF Attached
  <2> QED
    BY <1>0, <2>1, <2>5
<1>5. ASSUME NEW f \in fires, FireStarts(f)
      PROVE  Attached' /\ \A q \in created : Survives(q)
  <2>1. f \in Fire
    BY DEF Sound, TypeOK
  <2>2. [f EXCEPT !.stage = "running"].id = f.id /\ [f EXCEPT !.stage = "running"].spec = f.spec
    BY <2>1 DEF Fire
  <2>3. UNCHANGED <<schedules, mode>> /\ fires' = (fires \ {f}) \cup {[f EXCEPT !.stage = "running"]}
    BY <1>5 DEF FireStarts
  <2>4. \A g \in fires' : \E e \in fires : g.id = e.id /\ g.spec = e.spec
    BY <2>2, <2>3
  <2>5. ASSUME NEW g \in fires'
        PROVE  /\ g.id \in Stored' /\ mode' \in {"up", "draining"}
               /\ g.spec.kind # "once" => schedules'[g.id].enabled /\ g.spec.enabled
    <3>1. PICK e \in fires : g.id = e.id /\ g.spec = e.spec
      BY <2>4
    <3>2. mode' = mode /\ Stored' = Stored /\ schedules' = schedules
      BY <1>0, <2>3
    <3> QED
      BY <3>1, <3>2 DEF Attached
  <2>6. Attached'
    BY <2>5 DEF Attached
  <2> QED
    BY <1>0, <2>3, <2>6
<1>6. ASSUME NEW f \in fires, FireFails(f) \/ FireEnds(f)
      PROVE  Attached' /\ \A q \in created : Survives(q)
  <2>1. f \in Fire /\ Save(f.id, Advanced(f)) /\ fires' \subseteq fires /\ mode' = mode
    BY <1>6 DEF FireFails, FireEnds, Finish, Sound, TypeOK
  <2>0. f.id \in Stored
    BY DEF Attached
  <2>2. /\ Stored' = Stored /\ schedules'[f.id] = Advanced(f)
        /\ \A q \in Stored : q # f.id => schedules'[q] = schedules[q]
    BY <2>0, <2>1, SaveFacts
  <2>3. /\ f.spec.kind = "once" => ~schedules'[f.id].enabled
        /\ f.spec.kind # "once" => schedules[f.id].enabled /\ schedules'[f.id].enabled
    BY <2>1, <2>2, AdvancedFacts DEF Attached
  <2>4. \A q \in created : Survives(q)
    BY <2>0, <2>2, <2>3 DEF Survives
  <2>5. \A g \in fires' : g.id = f.id => g.spec.kind = f.spec.kind
    BY <2>0, <2>1, KindsUse
  <2>6. Attached'
    BY <2>1, <2>2, <2>3, <2>5 DEF Attached
  <2> QED
    BY <2>4, <2>6
<1>7. ASSUME NEW t \in 0..MaxTime, Restart(t) \/ Start(t)
      PROVE  Attached' /\ \A q \in created : Survives(q)
  <2>1. t \in Nat /\ RestoreAll(t) /\ UNCHANGED fires /\ mode \in {"down", "starting"}
    BY <1>7, BoundAssumption DEF Restart, Start
  <2>2. Stored' = Stored /\ \A s \in Stored : schedules'[s].enabled => schedules[s].enabled
    BY <2>1, RestoredFacts DEF RestoreAll, Stored, Sound, TypeOK
  <2>3. fires = {}
    BY <2>1 DEF Attached
  <2> QED
    BY <2>1, <2>2, <2>3 DEF Attached, Survives
<1>8. ASSUME NEW r \in runs, ResumeRun(r)
      PROVE  Attached' /\ \A q \in created : Survives(q)
  BY <1>8 DEF ResumeRun, Attached, Survives, Stored
<1>9. CASE Shutdown \/ Drained \/ Crash \/ UNCHANGED vars
  BY <1>9 DEF Shutdown, Drained, Crash, vars, Attached, Survives, Stored
<1> QED
  BY <1>1, <1>2, <1>3, <1>4, <1>5, <1>6, <1>7, <1>8, <1>9 DEF Next, Client, FireStep

(* When clients edit a schedule only between its fires, what they deleted    *)
(* stays deleted and what they disabled stays disabled until they enable it. *)
THEOREM EditsSurviveHolds ==
    ASSUME EditorsWait
    PROVE  Spec => EditsSurvive
<1>1. Init => Edited
  BY SoundInit DEF Init, Edited, KindsAgree, KindsSeen, Attached, Stored
<1>2. Edited /\ [Next]_vars => Edited'
  BY SoundStep, KindsStep, EditedStep DEF Edited
<1>3. Edited /\ [Next]_vars =>
        [\A s \in created :
            /\ s \notin Stored => s \notin Stored'
            /\ (s \in Stored /\ ~schedules[s].enabled /\ s \in Stored' /\ schedules'[s].enabled)
                  => SetEnabled(s, TRUE)]_vars
  BY EditedStep DEF Survives
<1> QED
  BY <1>1, <1>2, <1>3, PTL DEF Spec, EditsSurvive

-----------------------------------------------------------------------------
(* One-shot schedules of which one fire at a time is allowed (the default).  *)

(* A run of a one-shot schedule is the only one; no further fire will start  *)
(* one; and its schedule has been advanced, unless its fire is in progress.  *)
OneRunEach ==
    \A p, q \in runs : (p.kind = "once" /\ p.id = q.id) => p = q

NoFireToStart ==
    \A r \in runs, f \in fires : (r.kind = "once" /\ f.id = r.id) => f.stage = "running"

SpentOrFiring ==
    \A r \in runs :
        (r.kind = "once" /\ r.id \in Stored) =>
            \/ \E f \in fires : f.id = r.id
            \/ schedules[r.id].next = None /\ schedules[r.id].last # None

OneShots == OneRunEach /\ NoFireToStart /\ SpentOrFiring

OneShotInv == Sound /\ KindsAgree /\ (crashes = 0 => OneShots)

(* A limit of one is one fire per schedule, and none below the limit.        *)
LEMMA OneFire ==
    ASSUME Sound, Limit = 1
    PROVE  /\ \A f, g \in fires : f.id = g.id => f = g
           /\ \A s \in Ids : active[s] < 1 => InFlight(s) = {}
<1>1. ASSUME NEW f \in fires, NEW g \in fires, f.id = g.id
      PROVE  f = g
  <2>1. f.id \in Ids /\ f \in InFlight(f.id) /\ g \in InFlight(f.id)
    BY <1>1 DEF Sound, TypeOK, Fire, InFlight
  <2>2. IsFiniteSet(InFlight(f.id)) /\ Cardinality(InFlight(f.id)) <= 1
    BY <2>1 DEF Sound, Counts, Limits
  <2>3. CASE f # g
    <3>1. IsFiniteSet(InFlight(f.id) \ {f})
          /\ Cardinality(InFlight(f.id) \ {f}) = Cardinality(InFlight(f.id)) - 1
      BY <2>1, <2>2, FS_RemoveElement
    <3>2. IsFiniteSet((InFlight(f.id) \ {f}) \ {g})
          /\ Cardinality((InFlight(f.id) \ {f}) \ {g}) = Cardinality(InFlight(f.id) \ {f}) - 1
      BY <2>1, <2>3, <3>1, FS_RemoveElement
    <3>3. Cardinality((InFlight(f.id) \ {f}) \ {g}) \in Nat /\ Cardinality(InFlight(f.id)) \in Nat
      BY <2>2, <3>2, FS_CardinalityType
    <3> QED
      BY <2>2, <3>1, <3>2, <3>3
  <2> QED
    BY <2>3
<1>2. ASSUME NEW s \in Ids, active[s] < 1
      PROVE  InFlight(s) = {}
  <2>1. IsFiniteSet(InFlight(s)) /\ active[s] = Cardinality(InFlight(s)) /\ active[s] \in Nat
    BY DEF Sound, Counts, TypeOK
  <2>2. Cardinality(InFlight(s)) = 0
    BY <1>2, <2>1
  <2> QED
    BY <2>1, <2>2, FS_EmptySet
<1> QED
  BY <1>1, <1>2

(* A fire ends: its schedule is spent.                                       *)
LEMMA FinishSpends ==
    ASSUME Sound, KindsAgree, OneShots, NEW f \in fires, Finish(f),
           \A r \in runs' : \E q \in runs : r.id = q.id /\ r.kind = q.kind
    PROVE  NoFireToStart' /\ SpentOrFiring'
<1>1. f \in Fire /\ Save(f.id, Advanced(f)) /\ fires' = fires \ {f}
  BY DEF Finish, Sound, TypeOK
<1>2. /\ Stored' = Stored \cup {f.id} /\ schedules'[f.id] = Advanced(f)
      /\ \A q \in Stored : q # f.id => schedules'[q] = schedules[q]
  BY <1>1, SaveFacts
<1>3. f.spec.kind = "once" => schedules'[f.id].next = None /\ schedules'[f.id].last # None
  BY <1>1, <1>2, AdvancedFacts, NoneAssumption DEF Fire
<1>4. NoFireToStart'
  BY <1>1 DEF OneShots, NoFireToStart
<1>5. ASSUME NEW r \in runs', r.kind = "once", r.id \in Stored'
      PROVE  \/ \E g \in fires' : g.id = r.id
             \/ schedules'[r.id].next = None /\ schedules'[r.id].last # None
  <2>1. PICK q \in runs : r.id = q.id /\ r.kind = q.kind
    OBVIOUS
  <2>2. CASE r.id = f.id
    BY <1>3, <2>1, <2>2, KindsUse, <1>5
  <2>3. CASE r.id # f.id
    <3>1. r.id \in Stored /\ schedules'[r.id] = schedules[r.id]
      BY <1>2, <1>5, <2>3
    <3> QED
      BY <1>1, <1>5, <2>1, <2>3, <3>1 DEF OneShots, SpentOrFiring
  <2> QED
    BY <2>2, <2>3
<1> QED
  BY <1>4, <1>5 DEF SpentOrFiring

LEMMA OneShotStep ==
    ASSUME Limit = 1, OneShotInv, [Next]_vars, crashes' = 0
    PROVE  OneShots'
<1> USE DEF OneShotInv
<1>0. crashes \in Nat
  BY DEF Sound, TypeOK
<1>1. ASSUME NEW s \in Ids, NEW kind \in Kinds, NEW runAt \in RunTimes, Create(s, kind, runAt)
      PROVE  OneShots'
  <2>1. /\ s \notin created /\ UNCHANGED <<fires, runs, crashes>> /\ Stored' = Stored \cup {s}
        /\ \A q \in Stored : q # s => schedules'[q] = schedules[q]
    BY <1>1, SaveFacts DEF Create
  <2>2. \A r \in runs : r.id # s
    BY <2>1, KindsUse
  <2> QED
    BY <2>1, <2>2 DEF OneShots, OneRunEach, NoFireToStart, SpentOrFiring
<1>2. ASSUME NEW s \in Ids, Delete(s) PROVE OneShots'
  <2>1. /\ Stored' \subseteq Stored /\ \A q \in Stored' : schedules'[q] = schedules[q]
        /\ UNCHANGED <<fires, runs, crashes>>
    BY <1>2 DEF Delete, Stored
  <2> QED
    BY <2>1 DEF OneShots, OneRunEach, NoFireToStart, SpentOrFiring
<1>3. ASSUME NEW s \in Ids, NEW enabled \in BOOLEAN, SetEnabled(s, enabled) PROVE OneShots'
  <2>1. s \in Stored /\ schedules[s] \in Schedule /\ UNCHANGED <<fires, runs, crashes>>
    BY <1>3 DEF SetEnabled, Editable, Sound, TypeOK
  <2>2. /\ Stored' = Stored /\ schedules'[s].next = schedules[s].next
        /\ schedules'[s].last = schedules[s].last
        /\ \A q \in Stored : q # s => schedules'[q] = schedules[q]
    BY <1>3, <2>1, SaveFacts DEF SetEnabled, Schedule
  <2> QED
    BY <2>1, <2>2 DEF OneShots, OneRunEach, NoFireToStart, SpentOrFiring
<1>4. CASE Poll
  <2>1. PICK chosen \in SUBSET Ids :
           /\ \A s \in chosen : s \in Stored /\ schedules[s].next # None /\ active[s] < Limit
           /\ fires' = fires \cup {NewFire(s) : s \in chosen}
           /\ UNCHANGED <<schedules, runs, crashes>>
    BY <1>4, PollFacts
  <2>2. \A s : NewFire(s).id = s
    BY DEF NewFire
  <2>3. \A s \in chosen : \A f \in fires : f.id # s
    BY <2>1, OneFire DEF InFlight
  <2>4. OneShots
    BY <2>1
  <2>5. \A s \in chosen : \A r \in runs : r.kind = "once" => r.id # s
    BY <2>1, <2>3, <2>4 DEF OneShots, SpentOrFiring
  <2>6. NoFireToStart'
    BY <2>1, <2>2, <2>4, <2>5 DEF OneShots, NoFireToStart
  <2>7. SpentOrFiring'
    BY <2>1, <2>4 DEF OneShots, SpentOrFiring, Stored
  <2> QED
    BY <2>1, <2>4, <2>6, <2>7 DEF OneShots, OneRunEach
<1>5. ASSUME NEW f \in fires, FireStarts(f) PROVE OneShots'
  <2>1. f \in Fire /\ f.stage = "created"
    BY <1>5 DEF FireStarts, Sound, TypeOK
  <2>2. [f EXCEPT !.stage = "running"].id = f.id /\ [f EXCEPT !.stage = "running"].stage = "running"
    BY <2>1 DEF Fire
  <2> DEFINE g == [f EXCEPT !.stage = "running"]
             r == [id |-> f.id, at |-> f.at, kind |-> f.spec.kind, over |-> FALSE]
  <2>3. /\ fires' = (fires \ {f}) \cup {g} /\ runs' = runs \cup {r}
        /\ UNCHANGED <<schedules, crashes>> /\ r.id = f.id /\ r.kind = f.spec.kind
        /\ g.id = f.id /\ g.stage = "running"
    BY <1>5, <2>2 DEF FireStarts
  <2> HIDE DEF g, r
  <2>4. OneShots
    BY <2>3
  <2>5. \A q \in runs : q.id = f.id => q.kind = f.spec.kind /\ q.kind # "once"
    BY <2>1, <2>4, KindsUse DEF OneShots, NoFireToStart
  <2>6. \A h \in fires : h.id = f.id => h = f
    BY OneFire
  <2>7. OneRunEach'
    BY <2>3, <2>4, <2>5 DEF OneShots, OneRunEach
  <2>8. NoFireToStart'
    BY <2>3, <2>4, <2>6 DEF OneShots, NoFireToStart
  <2>9. SpentOrFiring'
    BY <2>3, <2>4 DEF OneShots, SpentOrFiring, Stored
  <2> QED
    BY <2>7, <2>8, <2>9 DEF OneShots
<1>6. ASSUME NEW f \in fires, FireFails(f) PROVE OneShots'
  <2>1. Finish(f) /\ UNCHANGED <<runs, crashes>>
    BY <1>6 DEF FireFails
  <2>2. NoFireToStart' /\ SpentOrFiring'
    BY <2>1, FinishSpends
  <2> QED
    BY <2>1, <2>2 DEF OneShots, OneRunEach
<1>7. ASSUME NEW f \in fires, FireEnds(f) PROVE OneShots'
  <2> DEFINE Ended(r) == IF r.id = f.id /\ r.at = f.at THEN [r EXCEPT !.over = TRUE] ELSE r
  <2>1. Finish(f) /\ runs' = {Ended(r) : r \in runs} /\ UNCHANGED crashes
    BY <1>7 DEF FireEnds
  <2>2. \A r \in runs : Ended(r).id = r.id /\ Ended(r).kind = r.kind
    BY DEF Sound, TypeOK, Run
  <2> HIDE DEF Ended
  <2>3. NoFireToStart' /\ SpentOrFiring'
    BY <2>1, <2>2, FinishSpends
  <2>4. OneRunEach'
    BY <2>1, <2>2 DEF OneShots, OneRunEach
  <2> QED
    BY <2>3, <2>4 DEF OneShots
<1>8. ASSUME NEW t \in 0..MaxTime, Restart(t) \/ Start(t) PROVE OneShots'
  <2>1. t \in Nat /\ RestoreAll(t) /\ UNCHANGED <<fires, runs, crashes>>
    BY <1>8, BoundAssumption DEF Restart, Start
  <2>2. /\ Stored' = Stored
        /\ \A s \in Stored :
              /\ schedules'[s].last = schedules[s].last
              /\ schedules[s].kind = "once" /\ schedules[s].last # None => schedules'[s].next = None
    BY <2>1, RestoredFacts DEF RestoreAll, Stored, Sound, TypeOK
  <2> QED
    BY <2>1, <2>2, KindsUse DEF OneShots, OneRunEach, NoFireToStart, SpentOrFiring
<1>9. ASSUME NEW r \in runs, ResumeRun(r) PROVE OneShots'
  <2> DEFINE q == [r EXCEPT !.over = TRUE]
  <2>1. q.id = r.id /\ q.kind = r.kind
    BY DEF Sound, TypeOK, Run
  <2>2. runs' = (runs \ {r}) \cup {q} /\ UNCHANGED <<schedules, fires, crashes>>
    BY <1>9 DEF ResumeRun
  <2> HIDE DEF q
  <2>3. OneShots
    BY <2>2
  <2>4. OneRunEach'
    BY <2>1, <2>2, <2>3 DEF OneShots, OneRunEach
  <2>5. NoFireToStart' /\ SpentOrFiring'
    BY <2>1, <2>2, <2>3 DEF OneShots, NoFireToStart, SpentOrFiring, Stored
  <2> QED
    BY <2>4, <2>5 DEF OneShots
<1>10. CASE Shutdown \/ Drained \/ UNCHANGED vars
  BY <1>10 DEF Shutdown, Drained, vars, OneShots, OneRunEach, NoFireToStart, SpentOrFiring, Stored
<1>11. CASE Crash
  BY <1>0, <1>11 DEF Crash
<1> QED
  BY <1>1, <1>2, <1>3, <1>4, <1>5, <1>6, <1>7, <1>8, <1>9, <1>10, <1>11 DEF Next, Client, FireStep

(* As long as the process is only stopped gracefully, a one-shot schedule    *)
(* that may have one fire at a time is run once, whatever clients do.        *)
THEOREM OneShotOnceHolds ==
    ASSUME Limit = 1
    PROVE  Spec => []OneShotOnce
<1>1. Init => OneShotInv
  BY SoundInit DEF Init, OneShotInv, KindsAgree, KindsSeen, OneShots, OneRunEach,
                   NoFireToStart, SpentOrFiring, Stored
<1>2. OneShotInv /\ [Next]_vars => OneShotInv'
  BY SoundStep, KindsStep, OneShotStep DEF OneShotInv
<1>3. OneShotInv => OneShotOnce
  BY DEF OneShotInv, OneShots, OneRunEach, OneShotOnce
<1> QED
  BY <1>1, <1>2, <1>3, PTL DEF Spec

-----------------------------------------------------------------------------
(* Interval schedules of which one fire at a time is allowed.                *)

(* A fire in progress is an interval later than every run of its schedule,   *)
(* but for its own; the stored schedule is due an interval after them all,   *)
(* unless a fire is in progress that will store its time.                    *)
RunsApart ==
    \A p, q \in runs :
        (p.kind = "interval" /\ p.id = q.id /\ p.at < q.at) => q.at >= p.at + Period

FireApart ==
    \A r \in runs, f \in fires :
        (r.kind = "interval" /\ f.id = r.id) =>
            \/ f.stage = "running" /\ r.at = f.at
            \/ f.at >= r.at + Period

NextApart ==
    \A r \in runs :
        (r.kind = "interval" /\ r.id \in Stored) =>
            \/ \E f \in fires : f.id = r.id
            \/ /\ schedules[r.id].last # None /\ schedules[r.id].last >= r.at
               /\ schedules[r.id].next # None /\ schedules[r.id].next >= r.at + Period

Apart == RunsApart /\ FireApart /\ NextApart

ApartInv == Sound /\ KindsAgree /\ (crashes = 0 => Apart)

LEMMA Times ==
    ASSUME Sound
    PROVE  /\ \A r \in runs : r.at \in Nat
           /\ \A f \in fires : f \in Fire /\ f.at \in Nat
BY DEF Sound, TypeOK, Run, Fire

(* The same runs, but for `over`, and the same schedules and fires.          *)
LEMMA SameRuns ==
    ASSUME Apart, UNCHANGED <<schedules, fires>>,
           \A r \in runs' : \E q \in runs : r.id = q.id /\ r.kind = q.kind /\ r.at = q.at
    PROVE  Apart'
<1>1. RunsApart'
  BY DEF Apart, RunsApart
<1>2. FireApart'
  BY DEF Apart, FireApart
<1>3. NextApart'
  BY DEF Apart, NextApart, Stored
<1> QED
  BY <1>1, <1>2, <1>3 DEF Apart

(* A fire ends: its schedule is due an interval after it.                    *)
LEMMA FinishApart ==
    ASSUME Sound, KindsAgree, Apart, NEW f \in fires, Finish(f),
           \A r \in runs' : \E q \in runs : r.id = q.id /\ r.kind = q.kind /\ r.at = q.at
    PROVE  Apart'
<1>1. f \in Fire /\ Save(f.id, Advanced(f)) /\ fires' = fires \ {f}
  BY Times DEF Finish
<1>2. /\ Stored' = Stored \cup {f.id} /\ schedules'[f.id] = Advanced(f)
      /\ \A q \in Stored : q # f.id => schedules'[q] = schedules[q]
  BY <1>1, SaveFacts
<1>3. /\ schedules'[f.id].last = f.at
      /\ f.spec.kind = "interval" => schedules'[f.id].next = f.at + Period
  BY <1>1, <1>2, AdvancedFacts
<1>4. RunsApart'
  BY DEF Apart, RunsApart
<1>5. FireApart'
  BY <1>1 DEF Apart, FireApart
<1>6. ASSUME NEW r \in runs', r.kind = "interval", r.id \in Stored'
      PROVE  \/ \E g \in fires' : g.id = r.id
             \/ /\ schedules'[r.id].last # None /\ schedules'[r.id].last >= r.at
                /\ schedules'[r.id].next # None /\ schedules'[r.id].next >= r.at + Period
  <2>1. PICK q \in runs : r.id = q.id /\ r.kind = q.kind /\ r.at = q.at
    OBVIOUS
  <2>2. CASE r.id = f.id
    <3>1. f.spec.kind = "interval"
      BY <1>6, <2>1, <2>2, KindsUse
    <3>2. r.at \in Nat /\ f.at \in Nat
      BY <2>1, Times
    <3>3. f.at >= r.at
      BY <1>6, <2>1, <2>2, <3>2, PeriodAssumption DEF Apart, FireApart
    <3>4. f.at + Period >= r.at + Period /\ f.at # None /\ f.at + Period # None
      BY <3>2, <3>3, PeriodAssumption, NoneAssumption
    <3> QED
      BY <1>3, <2>2, <3>1, <3>3, <3>4
  <2>3. CASE r.id # f.id
    <3>1. r.id \in Stored /\ schedules'[r.id] = schedules[r.id]
      BY <1>2, <1>6, <2>3
    <3> QED
      BY <1>1, <1>6, <2>1, <2>3, <3>1 DEF Apart, NextApart
  <2> QED
    BY <2>2, <2>3
<1>7. NextApart'
  BY <1>6 DEF NextApart
<1> QED
  BY <1>4, <1>5, <1>7 DEF Apart

LEMMA ApartStep ==
    ASSUME Limit = 1, ApartInv, [Next]_vars, crashes' = 0
    PROVE  Apart'
<1> USE DEF ApartInv
<1>0. crashes \in Nat
  BY DEF Sound, TypeOK
<1>a. \A s \in Stored : schedules[s] \in Schedule
  BY DEF Sound, TypeOK
<1>b. \A s \in Stored : /\ schedules[s].next # None => schedules[s].next \in Nat
                        /\ schedules[s].last # None => schedules[s].last \in Nat
  BY <1>a DEF Schedule
<1>1. ASSUME NEW s \in Ids, NEW kind \in Kinds, NEW runAt \in RunTimes, Create(s, kind, runAt)
      PROVE  Apart'
  <2>1. /\ s \notin created /\ UNCHANGED <<fires, runs, crashes>> /\ Stored' = Stored \cup {s}
        /\ \A q \in Stored : q # s => schedules'[q] = schedules[q]
    BY <1>1, SaveFacts DEF Create
  <2>2. \A r \in runs : r.id # s
    BY <2>1, KindsUse
  <2> QED
    BY <2>1, <2>2 DEF Apart, RunsApart, FireApart, NextApart
<1>2. ASSUME NEW s \in Ids, Delete(s) PROVE Apart'
  <2>1. /\ Stored' \subseteq Stored /\ \A q \in Stored' : schedules'[q] = schedules[q]
        /\ UNCHANGED <<fires, runs, crashes>>
    BY <1>2 DEF Delete, Stored
  <2> QED
    BY <2>1 DEF Apart, RunsApart, FireApart, NextApart
<1>3. ASSUME NEW s \in Ids, NEW enabled \in BOOLEAN, SetEnabled(s, enabled) PROVE Apart'
  <2>1. s \in Stored /\ schedules[s] \in Schedule /\ UNCHANGED <<fires, runs, crashes>>
    BY <1>3 DEF SetEnabled, Editable, Sound, TypeOK
  <2>2. /\ Stored' = Stored /\ schedules'[s].next = schedules[s].next
        /\ schedules'[s].last = schedules[s].last
        /\ \A q \in Stored : q # s => schedules'[q] = schedules[q]
    BY <1>3, <2>1, SaveFacts DEF SetEnabled, Schedule
  <2> QED
    BY <2>1, <2>2 DEF Apart, RunsApart, FireApart, NextApart
<1>4. CASE Poll
  <2>1. PICK chosen \in SUBSET Ids :
           /\ \A s \in chosen : /\ s \in Stored /\ active[s] < Limit
                               /\ schedules[s].next # None /\ schedules[s].next <= now'
           /\ fires' = fires \cup {NewFire(s) : s \in chosen}
           /\ now' \in Nat
           /\ UNCHANGED <<schedules, runs, crashes>>
    BY <1>4, PollFacts
  <2>2. \A s : NewFire(s).id = s /\ NewFire(s).at = now'
    BY DEF NewFire
  <2>3. \A s \in chosen : \A f \in fires : f.id # s
    BY <2>1, OneFire DEF InFlight
  <2>4. Apart
    BY <2>1
  <2>5. ASSUME NEW s \in chosen, NEW r \in runs, r.kind = "interval", r.id = s
        PROVE  now' >= r.at + Period
    <3>1. schedules[s].next >= r.at + Period
      BY <2>1, <2>3, <2>4, <2>5 DEF Apart, NextApart
    <3>2. schedules[s].next \in Nat
      BY <1>b, <2>1
    <3>3. r.at \in Nat
      BY Times
    <3>4. schedules[s].next <= now'
      BY <2>1
    <3> QED
      BY <2>1, <3>1, <3>2, <3>3, <3>4, PeriodAssumption
  <2>6. FireApart'
    <3> SUFFICES ASSUME NEW r \in runs, NEW f \in fires', r.kind = "interval", f.id = r.id
                 PROVE  (f.stage = "running" /\ r.at = f.at) \/ f.at >= r.at + Period
      BY <2>1 DEF FireApart
    <3>1. CASE f \in fires
      BY <2>4, <3>1 DEF Apart, FireApart
    <3>2. CASE f \notin fires
      <4>1. PICK s \in chosen : f = NewFire(s)
        BY <2>1, <3>2
      <4> QED
        BY <2>2, <2>5, <4>1
    <3> QED
      BY <3>1, <3>2
  <2>7. NextApart'
    BY <2>1, <2>4 DEF Apart, NextApart, Stored
  <2> QED
    BY <2>1, <2>4, <2>6, <2>7 DEF Apart, RunsApart
<1>5. ASSUME NEW f \in fires, FireStarts(f) PROVE Apart'
  <2>1. f \in Fire /\ f.stage = "created" /\ f.at \in Nat
    BY <1>5, Times DEF FireStarts
  <2> DEFINE g == [f EXCEPT !.stage = "running"]
             r == [id |-> f.id, at |-> f.at, kind |-> f.spec.kind, over |-> FALSE]
  <2>2. g.id = f.id /\ g.stage = "running" /\ g.at = f.at
    BY <2>1 DEF Fire
  <2>3. /\ fires' = (fires \ {f}) \cup {g} /\ runs' = runs \cup {r}
        /\ UNCHANGED <<schedules, crashes>> /\ r.id = f.id /\ r.kind = f.spec.kind
        /\ r.at = f.at
    BY <1>5 DEF FireStarts
  <2> HIDE DEF g, r
  <2>4. Apart /\ \A q \in runs : q.at \in Nat
    BY <2>3, Times
  <2>5. \A q \in runs : (q.kind = "interval" /\ q.id = f.id) => f.at >= q.at + Period
    BY <2>1, <2>4 DEF Apart, FireApart
  <2>6. \A h \in fires : h.id = f.id => h = f
    BY OneFire
  <2>7. \A q \in runs : q.id = f.id => q.kind = f.spec.kind
    BY KindsUse
  <2>8. RunsApart'
    <3> SUFFICES ASSUME NEW p \in runs', NEW q \in runs',
                        p.kind = "interval", p.id = q.id, p.at < q.at
                 PROVE  q.at >= p.at + Period
      BY DEF RunsApart
    <3>1. CASE p \in runs /\ q \in runs
      BY <2>4, <3>1 DEF Apart, RunsApart
    <3>2. CASE p \in runs /\ q = r
      BY <2>3, <2>5, <3>2
    <3>3. CASE p = r /\ q \in runs
      <4>1. f.at >= q.at + Period /\ q.at \in Nat
        BY <2>3, <2>4, <2>5, <2>7, <3>3
      <4> QED
        BY <2>1, <2>3, <3>3, <4>1, PeriodAssumption
    <3>4. CASE p = r /\ q = r
      BY <2>1, <2>3, <3>4
    <3> QED
      BY <2>3, <3>1, <3>2, <3>3, <3>4
  <2>9. FireApart'
    <3> SUFFICES ASSUME NEW q \in runs', NEW h \in fires', q.kind = "interval", h.id = q.id
                 PROVE  (h.stage = "running" /\ q.at = h.at) \/ h.at >= q.at + Period
      BY DEF FireApart
    <3>1. CASE h = g
      BY <2>2, <2>3, <2>5, <3>1
    <3>2. CASE h # g
      <4>1. h \in fires /\ h.id # f.id
        BY <2>3, <2>6, <3>2
      <4>2. q \in runs
        BY <2>3, <4>1
      <4> QED
        BY <2>4, <4>1, <4>2 DEF Apart, FireApart
    <3> QED
      BY <3>1, <3>2
  <2>10. NextApart'
    <3> SUFFICES ASSUME NEW q \in runs', q.kind = "interval", q.id \in Stored
                 PROVE  \/ \E h \in fires' : h.id = q.id
                        \/ /\ schedules[q.id].last # None /\ schedules[q.id].last >= q.at
                           /\ schedules[q.id].next # None
                           /\ schedules[q.id].next >= q.at + Period
      BY <2>3 DEF NextApart, Stored
    <3>1. CASE q.id = f.id
      BY <2>2, <2>3, <3>1
    <3>2. CASE q.id # f.id
      BY <2>3, <2>4, <3>2 DEF Apart, NextApart
    <3> QED
      BY <3>1, <3>2
  <2> QED
    BY <2>8, <2>9, <2>10 DEF Apart
<1>6. ASSUME NEW f \in fires, FireFails(f) PROVE Apart'
  BY <1>6, FinishApart DEF FireFails
<1>7. ASSUME NEW f \in fires, FireEnds(f) PROVE Apart'
  <2> DEFINE Ended(r) == IF r.id = f.id /\ r.at = f.at THEN [r EXCEPT !.over = TRUE] ELSE r
  <2>1. Finish(f) /\ runs' = {Ended(r) : r \in runs} /\ UNCHANGED crashes
    BY <1>7 DEF FireEnds
  <2>2. \A r \in runs : Ended(r).id = r.id /\ Ended(r).kind = r.kind /\ Ended(r).at = r.at
    BY DEF Sound, TypeOK, Run
  <2> HIDE DEF Ended
  <2>3. \A r \in runs' : \E q \in runs : r.id = q.id /\ r.kind = q.kind /\ r.at = q.at
    BY <2>1, <2>2
  <2> QED
    BY <2>1, <2>3, FinishApart
<1>8. ASSUME NEW t \in 0..MaxTime, Restart(t) \/ Start(t) PROVE Apart'
  <2>1. t \in Nat /\ RestoreAll(t) /\ UNCHANGED <<fires, runs, crashes>>
    BY <1>8, BoundAssumption DEF Restart, Start
  <2>2. /\ Stored' = Stored
        /\ \A s \in Stored :
              /\ schedules'[s].last = schedules[s].last
              /\ schedules[s].kind = "interval" /\ schedules[s].last # None =>
                    /\ schedules'[s].next \in Nat
                    /\ schedules'[s].next >= schedules[s].last + Period
    <3>1. schedules' = [s \in Stored |-> Restored(schedules[s], t)]
      BY <2>1 DEF RestoreAll
    <3> QED
      BY <1>a, <2>1, <3>1, RestoredFacts DEF Stored
  <2>3. Apart
    BY <2>1
  <2>4. NextApart'
    <3> SUFFICES ASSUME NEW r \in runs, r.kind = "interval", r.id \in Stored,
                        ~\E f \in fires : f.id = r.id
                 PROVE  /\ schedules'[r.id].last # None /\ schedules'[r.id].last >= r.at
                        /\ schedules'[r.id].next # None
                        /\ schedules'[r.id].next >= r.at + Period
      BY <2>1, <2>2 DEF NextApart
    <3>1. schedules[r.id].last # None /\ schedules[r.id].last >= r.at
      BY <2>3 DEF Apart, NextApart
    <3>2. /\ schedules[r.id].kind = "interval"
          /\ schedules[r.id].last \in Nat /\ r.at \in Nat
      <4>1. schedules[r.id].kind = "interval"
        BY KindsUse
      <4>2. schedules[r.id].last \in Nat
        BY <1>b, <3>1
      <4>3. r.at \in Nat
        BY Times
      <4> QED
        BY <4>1, <4>2, <4>3
    <3>3. /\ schedules'[r.id].next \in Nat
          /\ schedules'[r.id].next >= schedules[r.id].last + Period
          /\ schedules'[r.id].last = schedules[r.id].last
      BY <2>2, <3>1, <3>2
    <3> QED
      BY <3>1, <3>2, <3>3, PeriodAssumption, NoneAssumption
  <2> QED
    BY <2>1, <2>3, <2>4 DEF Apart, RunsApart, FireApart
<1>9. ASSUME NEW r \in runs, ResumeRun(r) PROVE Apart'
  <2> DEFINE q == [r EXCEPT !.over = TRUE]
  <2>1. q.id = r.id /\ q.kind = r.kind /\ q.at = r.at
    BY DEF Sound, TypeOK, Run
  <2>2. runs' = (runs \ {r}) \cup {q} /\ UNCHANGED <<schedules, fires, crashes>>
    BY <1>9 DEF ResumeRun
  <2> HIDE DEF q
  <2>3. \A p \in runs' : \E o \in runs : p.id = o.id /\ p.kind = o.kind /\ p.at = o.at
    BY <2>1, <2>2
  <2> QED
    BY <2>2, <2>3, SameRuns
<1>10. CASE Shutdown \/ Drained \/ UNCHANGED vars
  BY <1>10 DEF Shutdown, Drained, vars, Apart, RunsApart, FireApart, NextApart, Stored
<1>11. CASE Crash
  BY <1>0, <1>11 DEF Crash
<1> QED
  BY <1>1, <1>2, <1>3, <1>4, <1>5, <1>6, <1>7, <1>8, <1>9, <1>10, <1>11 DEF Next, Client, FireStep

(* As long as the process is only stopped gracefully, runs of an interval    *)
(* schedule that may have one fire at a time are an interval apart, whatever *)
(* clients do and however often it is restarted.                             *)
THEOREM NoBurstHolds ==
    ASSUME Limit = 1
    PROVE  Spec => []NoBurst
<1>1. Init => ApartInv
  BY SoundInit DEF Init, ApartInv, KindsAgree, KindsSeen, Apart, RunsApart,
                   FireApart, NextApart, Stored
<1>2. ApartInv /\ [Next]_vars => ApartInv'
  BY SoundStep, KindsStep, ApartStep DEF ApartInv
<1>3. ApartInv => NoBurst
  BY DEF ApartInv, Apart, RunsApart, NoBurst
<1> QED
  BY <1>1, <1>2, <1>3, PTL DEF Spec
-----------------------------------------------------------------------------
(* What the scheduler admits by is a sum over its schedules: it is the number *)
(* of the fires in progress.                                                  *)
LEMMA TakenIsFires ==
    ASSUME Sound
    PROVE  /\ IsFiniteSet(fires) /\ Cardinality(fires) \in Nat
           /\ Cardinality(Taken) = Cardinality(fires)
<1>1. active \in [Ids -> Nat] /\ \A f \in fires : f.id \in Ids
  BY DEF Sound, TypeOK, Fire
<1>2. \A s \in Ids : IsFiniteSet(InFlight(s)) /\ active[s] = Cardinality(InFlight(s))
  BY DEF Sound, Counts
<1>3. IsFiniteSet(fires) /\ Cardinality(fires) \in Nat
  <2> DEFINE ofEach == {InFlight(s) : s \in Ids}
             each   == [s \in Ids |-> InFlight(s)]
  <2>1. each \in Surjection(Ids, ofEach)
    BY DEF Surjection
  <2>2. IsFiniteSet(ofEach)
    BY <2>1, IdAssumption, FS_Surjection
  <2>3. \A T \in ofEach : IsFiniteSet(T)
    BY <1>2
  <2>4. fires \subseteq UNION ofEach
    BY <1>1 DEF InFlight
  <2> HIDE DEF ofEach
  <2> QED
    BY <2>2, <2>3, <2>4, FS_UNION, FS_Subset, FS_CardinalityType
<1> DEFINE numbering == [s \in Ids |-> CHOOSE b \in Bijection(1..active[s], InFlight(s)) : TRUE]
           fireOf == [slot \in Taken |-> numbering[slot[1]][slot[2]]]
<1>4. ASSUME NEW s \in Ids
      PROVE  /\ numbering[s] \in [1..active[s] -> InFlight(s)]
             /\ \A i, j \in 1..active[s] : numbering[s][i] = numbering[s][j] => i = j
             /\ \A f \in InFlight(s) : \E i \in 1..active[s] : numbering[s][i] = f
  <2>1. ExistsBijection(1..active[s], InFlight(s))
    BY <1>2, FS_CardinalityType
  <2>2. numbering[s] \in Bijection(1..active[s], InFlight(s))
    BY <2>1 DEF ExistsBijection
  <2> DEFINE b == numbering[s]
  <2>3. b \in Bijection(1..active[s], InFlight(s))
    BY <2>2
  <2> HIDE DEF b
  <2>4. /\ b \in [1..active[s] -> InFlight(s)]
        /\ \A i, j \in 1..active[s] : b[i] = b[j] => i = j
        /\ \A f \in InFlight(s) : \E i \in 1..active[s] : b[i] = f
    BY <2>3 DEF Bijection, Injection, Surjection, IsInjective
  <2> QED
    BY <2>4 DEF b
<1> HIDE DEF numbering
<1>5. \A slot : slot \in Taken <=> \E s \in Ids : \E i \in 1..active[s] : slot = <<s, i>>
  BY DEF Taken
<1>6. ASSUME NEW slot \in Taken
      PROVE  /\ slot[1] \in Ids /\ slot[2] \in 1..active[slot[1]] /\ slot = <<slot[1], slot[2]>>
             /\ fireOf[slot] = numbering[slot[1]][slot[2]]
             /\ fireOf[slot] \in fires /\ fireOf[slot].id = slot[1]
  <2>1. slot[1] \in Ids /\ slot[2] \in 1..active[slot[1]] /\ slot = <<slot[1], slot[2]>>
    BY <1>5
  <2>2. fireOf[slot] = numbering[slot[1]][slot[2]]
    OBVIOUS
  <2>3. fireOf[slot] \in InFlight(slot[1])
    BY <1>4, <2>1, <2>2
  <2> QED
    BY <2>1, <2>2, <2>3 DEF InFlight
<1>7. fireOf \in [Taken -> fires]
  BY <1>6
<1> HIDE DEF fireOf
<1>8. \A p, q \in Taken : fireOf[p] = fireOf[q] => p = q
  <2> SUFFICES ASSUME NEW p \in Taken, NEW q \in Taken, fireOf[p] = fireOf[q]
               PROVE  p = q
    OBVIOUS
  <2>1. p[1] = q[1]
    BY <1>6
  <2>2. p[2] = q[2]
    BY <1>4, <1>6, <2>1
  <2> QED
    BY <1>6, <2>1, <2>2
<1>9. \A f \in fires : \E slot \in Taken : fireOf[slot] = f
  <2> SUFFICES ASSUME NEW f \in fires PROVE \E slot \in Taken : fireOf[slot] = f
    OBVIOUS
  <2>1. f.id \in Ids /\ f \in InFlight(f.id)
    BY <1>1 DEF InFlight
  <2>2. PICK i \in 1..active[f.id] : numbering[f.id][i] = f
    BY <1>4, <2>1
  <2>3. <<f.id, i>> \in Taken
    BY <1>5, <2>1, <2>2
  <2> QED
    BY <1>6, <2>2, <2>3
<1>10. fireOf \in Bijection(Taken, fires)
  BY <1>7, <1>8, <1>9, Fun_IsBij
<1>11. Cardinality(Taken) = Cardinality(fires)
  BY <1>3, <1>10, FS_Injection, Fun_BijectionProperties
<1> QED
  BY <1>3, <1>11

(* A poll creates as many fires as it chooses schedules, at the most, and     *)
(* chooses no more than there is room for.                                    *)
LEMMA PollBounded ==
    ASSUME Sound, ConcurrencyBounded, Poll
    PROVE  ConcurrencyBounded'
<1>1. PICK chosen \in SUBSET Ids :
         Startable(chosen) /\ fires' = fires \cup {NewFire(s) : s \in chosen}
  BY DEF Poll, NewFire
<1>2. chosen # {} => Cardinality(Taken) + Cardinality(chosen) <= MaxConcurrent
  BY <1>1 DEF Startable
<1>3. IsFiniteSet(chosen) /\ Cardinality(chosen) \in Nat
  BY IdAssumption, FS_Subset, FS_CardinalityType
<1> DEFINE new == {NewFire(s) : s \in chosen}
           make == [s \in chosen |-> NewFire(s)]
<1>4. IsFiniteSet(new) /\ Cardinality(new) <= Cardinality(chosen) /\ Cardinality(new) \in Nat
  <2>1. make \in Surjection(chosen, new)
    BY DEF Surjection
  <2> HIDE DEF make, new
  <2> QED
    BY <1>3, <2>1, FS_Surjection, FS_CardinalityType
<1>5. fires' = fires \cup new /\ (chosen = {} => fires' = fires)
  BY <1>1
<1> HIDE DEF new
<1>6. /\ IsFiniteSet(fires) /\ Cardinality(fires) \in Nat
      /\ Cardinality(Taken) = Cardinality(fires)
  BY TakenIsFires
<1>7. Cardinality(fires \cup new) <= Cardinality(fires) + Cardinality(new)
  <2>1. IsFiniteSet(fires \cap new)
    BY <1>4, FS_Subset
  <2>2. Cardinality(fires \cap new) \in Nat
    BY <2>1, FS_CardinalityType
  <2>3. Cardinality(fires \cup new) = Cardinality(fires) + Cardinality(new) - Cardinality(fires \cap new)
    BY <1>4, <1>6, FS_Union
  <2> QED
    BY <1>4, <1>6, <2>2, <2>3
<1>8. IsFiniteSet(fires \cup new) /\ Cardinality(fires \cup new) \in Nat
  BY <1>4, <1>6, FS_Union, FS_CardinalityType
<1> QED
  BY <1>2, <1>3, <1>4, <1>5, <1>6, <1>7, <1>8, LimitAssumption DEF ConcurrencyBounded

(* No other step adds a fire: one replaces a fire by itself, further on.      *)
LEMMA ConcurrencyStep == Sound /\ ConcurrencyBounded /\ [Next]_vars => ConcurrencyBounded'
<1> SUFFICES ASSUME Sound, ConcurrencyBounded, [Next]_vars PROVE ConcurrencyBounded'
  OBVIOUS
<1>1. IsFiniteSet(fires) /\ Cardinality(fires) \in Nat
  BY TakenIsFires
<1>2. ASSUME fires' \subseteq fires PROVE ConcurrencyBounded'
  <2>1. IsFiniteSet(fires') /\ Cardinality(fires') <= Cardinality(fires) /\ Cardinality(fires') \in Nat
    BY <1>1, <1>2, FS_Subset, FS_CardinalityType
  <2> QED
    BY <1>1, <2>1, LimitAssumption DEF ConcurrencyBounded
<1>3. ASSUME NEW f \in fires, FireStarts(f) PROVE ConcurrencyBounded'
  <2> DEFINE g == [f EXCEPT !.stage = "running"]
  <2>1. fires' = (fires \ {f}) \cup {g}
    BY <1>3 DEF FireStarts
  <2> HIDE DEF g
  <2>2. IsFiniteSet(fires \ {f}) /\ Cardinality(fires \ {f}) = Cardinality(fires) - 1
    BY <1>1, FS_RemoveElement
  <2>3. Cardinality(fires') = IF g \in fires \ {f} THEN Cardinality(fires \ {f})
                              ELSE Cardinality(fires \ {f}) + 1
    BY <2>1, <2>2, FS_AddElement
  <2> QED
    BY <1>1, <2>2, <2>3, LimitAssumption DEF ConcurrencyBounded
<1>4. ASSUME NEW f \in fires, FireFails(f) \/ FireEnds(f) PROVE ConcurrencyBounded'
  BY <1>2, <1>4 DEF FireFails, FireEnds, Finish
<1>5. CASE Poll
  BY <1>5, PollBounded
<1>6. ASSUME NEW s \in Ids,
             \/ \E kind \in Kinds, runAt \in RunTimes : Create(s, kind, runAt)
             \/ Delete(s)
             \/ \E enabled \in BOOLEAN : SetEnabled(s, enabled)
      PROVE  ConcurrencyBounded'
  BY <1>2, <1>6 DEF Create, Delete, SetEnabled
<1>7. CASE Shutdown \/ Drained \/ Crash
  BY <1>2, <1>7 DEF Shutdown, Drained, Crash
<1>8. ASSUME NEW t \in 0..MaxTime, Restart(t) \/ Start(t) PROVE ConcurrencyBounded'
  BY <1>2, <1>8 DEF Restart, Start
<1>9. ASSUME NEW r \in runs, ResumeRun(r) PROVE ConcurrencyBounded'
  BY <1>2, <1>9 DEF ResumeRun
<1>10. CASE UNCHANGED vars
  BY <1>2, <1>10 DEF vars
<1> QED
  BY <1>3, <1>4, <1>5, <1>6, <1>7, <1>8, <1>9, <1>10 DEF Next, Client, FireStep

(* However many schedules are due at once, whatever clients do with them and  *)
(* however often the process restarts, no more fires are in progress than     *)
(* the scheduler allows (max_concurrent_runs).                                *)
THEOREM ConcurrencyBoundedHolds == Spec => []ConcurrencyBounded
<1>1. Init => ConcurrencyBounded
  BY FS_EmptySet, LimitAssumption DEF Init, ConcurrencyBounded
<1> QED
  BY <1>1, SoundInit, SoundStep, ConcurrencyStep, PTL DEF Spec

-----------------------------------------------------------------------------
(* Nobody starves under the shared limit.                                    *)

(* t cannot be fired ahead of s: what is stored of it comes later, and what  *)
(* is still in progress will store something later.                          *)
Behind(s, t) ==
    /\ \A f \in fires : f.id = t => f.at >= schedules[s].next
    /\ \/ \E f \in fires : f.id = t
       \/ t \notin Stored
       \/ schedules[t].next = None
       \/ schedules[t].next > schedules[s].next

(* s is due and not in progress.                                             *)
Waits(s) ==
    /\ s \in Stored /\ schedules[s].enabled
    /\ schedules[s].next # None /\ schedules[s].next <= now
    /\ ~\E f \in fires : f.id = s

Passed(s, t) == t # s /\ t \in created /\ Waits(s) /\ Behind(s, t)

Overtakes == \A s, t \in Ids : overtaken[s][t] = 0 \/ (overtaken[s][t] = 1 /\ Passed(s, t))

OvertakeInv == Sound /\ Overtakes

(* A fire at or after the time n moves its schedule beyond n.                *)
LEMMA AdvancedBehind ==
    ASSUME NEW f \in Fire, NEW n \in Nat, n <= f.at
    PROVE  Advanced(f).next = None \/ Advanced(f).next > n
<1>1. f.at \in Nat /\ f.spec \in Schedule /\ f.spec.kind \in Kinds
  BY DEF Fire, Schedule
<1>2. f.at + Period > n
  BY <1>1, PeriodAssumption
<1>3. CronMatch(f.at) > n
  <2>1. f.at \div Period \in Nat /\ f.at < (f.at \div Period + 1) * Period
    BY <1>1, PeriodAssumption
  <2> QED
    BY <1>1, <2>1, PeriodAssumption DEF CronMatch
<1>4. CASE f.spec.kind = "once"
  BY <1>1, <1>4 DEF Advanced, Schedule
<1>5. CASE f.spec.kind = "interval"
  BY <1>1, <1>2, <1>5 DEF Advanced, Schedule
<1>6. CASE f.spec.kind = "cron"
  BY <1>1, <1>3, <1>6 DEF Advanced, Schedule
<1> QED
  BY <1>1, <1>4, <1>5, <1>6 DEF Kinds

(* With a limit of one, a schedule with room has no fire in progress.        *)
LEMMA RoomIsIdle ==
    ASSUME Limit = 1, Sound, NEW s \in Ids
    PROVE  active[s] < Limit <=> ~\E f \in fires : f.id = s
<1>1. IsFiniteSet(InFlight(s)) /\ active[s] = Cardinality(InFlight(s)) /\ active[s] \in Nat
  BY DEF Sound, TypeOK, Counts
<1>2. Cardinality(InFlight(s)) = 0 <=> InFlight(s) = {}
  BY <1>1, FS_EmptySet
<1>3. InFlight(s) = {} <=> ~\E f \in fires : f.id = s
  BY DEF InFlight
<1> QED
  BY <1>1, <1>2, <1>3

(* What happens elsewhere changes nothing between s and the schedules that   *)
(* overtook it.                                                              *)
LEMMA PassedKept ==
    ASSUME NEW s, NEW t, Passed(s, t), UNCHANGED fires, created \subseteq created',
           now \in Nat, now' \in Nat, now <= now', s \in Stored',
           schedules'[s] = schedules[s], schedules[s] \in Schedule,
           t \in Stored' => t \in Stored /\ schedules'[t].next = schedules[t].next
    PROVE  Passed(s, t)'
<1>1. schedules[s].next \in Nat /\ schedules[s].next <= now
  BY DEF Passed, Waits, Schedule
<1>2. Waits(s)'
  BY <1>1 DEF Passed, Waits
<1>3. Behind(s, t)'
  BY DEF Passed, Behind
<1> QED
  BY <1>2, <1>3 DEF Passed

(* A poll: whoever is overtaken was due, idle and not chosen, and whoever    *)
(* was chosen is in progress since now.                                      *)
LEMMA PollOvertakes ==
    ASSUME Limit = 1, OvertakeInv, Poll
    PROVE  Overtakes'
<1>1. PICK chosen \in SUBSET Ids :
         /\ Startable(chosen)
         /\ fires' = fires \cup {NewFire(s) : s \in chosen}
         /\ Overtake(chosen)
  BY DEF Poll, NewFire
<1>2. UNCHANGED <<schedules, created>> /\ now \in Nat /\ now' \in Nat /\ now <= now'
  BY BoundAssumption DEF Poll, OvertakeInv, Sound, TypeOK
<1>3. overtaken \in [Ids -> [Ids -> Nat]] /\ Stored \subseteq created
      /\ \A s \in Stored : schedules[s] \in Schedule
  BY DEF OvertakeInv, Sound, TypeOK
<1>4. \A s \in chosen : NewFire(s).id = s /\ NewFire(s).at = now' /\ NewFire(s) \in fires'
  BY <1>1 DEF NewFire
<1>5. \A t \in chosen : DueNow(t) /\ active[t] < Limit /\ MayStart(t) /\ t \in Stored
                        /\ schedules[t].next # None /\ ~\E f \in fires : f.id = t
  BY <1>1, <1>2, RoomIsIdle DEF Startable, MayStart, DueNow, Due, OvertakeInv, Stored
<1> SUFFICES ASSUME NEW s \in Ids, NEW t \in Ids
             PROVE  overtaken'[s][t] = 0 \/ (overtaken'[s][t] = 1 /\ Passed(s, t)')
  BY DEF Overtakes
<1>6. CASE s \in chosen
  BY <1>1, <1>6 DEF Overtake
<1>7. CASE s \notin chosen /\ t \in chosen /\ DueNow(s) /\ active[s] < Limit
  <2>1. s \in Stored /\ schedules[s].enabled /\ schedules[s].next # None
        /\ schedules[s].next <= now' /\ ~\E f \in fires : f.id = s
    BY <1>2, <1>7, RoomIsIdle DEF DueNow, Due, OvertakeInv, Stored
  <2>2. MayStart(s)
    BY <1>5, <1>7 DEF MayStart
  <2>3. schedules[t].next <= schedules[s].next
    BY <1>1, <1>7, <2>2 DEF Startable
  <2>4. schedules[s].next \in Nat /\ schedules[t].next \in Nat
    BY <1>3, <1>5, <1>7, <2>1 DEF Schedule
  <2>5. overtaken[s][t] = 0
    BY <1>5, <1>7, <2>3, <2>4 DEF OvertakeInv, Overtakes, Passed, Behind
  <2>6. overtaken'[s][t] = 1
    BY <1>1, <1>7, <2>5 DEF Overtake
  <2>7. ~\E f \in fires' : f.id = s
    BY <1>1, <1>4, <1>7, <2>1
  <2>8. Waits(s)'
    BY <1>2, <2>1, <2>7 DEF Waits, Stored
  <2>9. \A f \in fires' : f.id = t => f.at = now'
    BY <1>1, <1>4, <1>5, <1>7
  <2>10. Behind(s, t)'
    BY <1>2, <1>4, <1>7, <2>1, <2>9 DEF Behind
  <2> QED
    BY <1>2, <1>3, <1>5, <1>7, <2>6, <2>8, <2>10 DEF Passed
<1>8. CASE s \notin chosen /\ ~(t \in chosen /\ DueNow(s) /\ active[s] < Limit)
  <2>1. overtaken'[s][t] = overtaken[s][t]
    BY <1>1, <1>8 DEF Overtake
  <2>2. ASSUME overtaken[s][t] = 1, Passed(s, t) PROVE Passed(s, t)'
    <3>1. s \in Stored /\ schedules[s].enabled /\ schedules[s].next # None
          /\ schedules[s].next <= now /\ ~\E f \in fires : f.id = s
      BY <2>2 DEF Passed, Waits
    <3>2. schedules[s].next \in Nat /\ schedules[s].next <= now'
      BY <1>2, <1>3, <3>1 DEF Schedule
    <3>3. DueNow(s) /\ active[s] < Limit
      BY <1>2, <3>1, <3>2, RoomIsIdle DEF DueNow, Due, OvertakeInv, Stored
    <3>4. t \notin chosen
      BY <1>8, <3>3
    <3>5. \A f \in fires' : f.id \in {s, t} => f \in fires
      BY <1>1, <1>4, <1>8, <3>4
    <3>6. Waits(s)'
      BY <1>2, <3>1, <3>2, <3>5 DEF Waits, Stored
    <3>7. Behind(s, t)'
      BY <1>1, <1>2, <2>2, <3>5 DEF Passed, Behind, Stored
    <3> QED
      BY <1>2, <2>2, <3>6, <3>7 DEF Passed
  <2> QED
    BY <2>1, <2>2 DEF OvertakeInv, Overtakes
<1> QED
  BY <1>6, <1>7, <1>8

(* A fire ends: what it stores of its schedule lies behind those that wait.  *)
LEMMA FinishOvertakes ==
    ASSUME OvertakeInv, NEW f \in fires, Finish(f), UNCHANGED <<created, now, overtaken>>
    PROVE  Overtakes'
<1>1. f \in Fire /\ f.at \in Nat /\ f.id \in created
  BY DEF OvertakeInv, Sound, TypeOK, Fire
<1>2. Save(f.id, Advanced(f)) /\ fires' = fires \ {f}
  BY DEF Finish
<1>3. /\ Stored' = Stored \cup {f.id} /\ schedules'[f.id] = Advanced(f)
      /\ \A q \in Stored : q # f.id => schedules'[q] = schedules[q]
  BY <1>2, SaveFacts
<1> SUFFICES ASSUME NEW s \in Ids, NEW t \in Ids, Passed(s, t) PROVE Passed(s, t)'
  BY DEF OvertakeInv, Overtakes
<1>4. s # f.id /\ s \in Stored /\ t # s /\ t \in created
  BY DEF Passed, Waits
<1>5. schedules[s] \in Schedule /\ schedules[s].next # None
  BY <1>4 DEF OvertakeInv, Sound, TypeOK, Passed, Waits
<1>6. schedules[s].next \in Nat /\ schedules'[s] = schedules[s]
  BY <1>3, <1>4, <1>5 DEF Schedule
<1>7. Waits(s)'
  BY <1>2, <1>3, <1>4, <1>6 DEF Passed, Waits
<1>8. CASE t = f.id
  <2>1. schedules[s].next <= f.at
    BY <1>1, <1>6, <1>8 DEF Passed, Behind
  <2>2. Advanced(f).next = None \/ Advanced(f).next > schedules[s].next
    BY <1>1, <1>6, <2>1, AdvancedBehind
  <2>3. Behind(s, t)'
    BY <1>2, <1>3, <1>6, <1>8, <2>2 DEF Passed, Behind
  <2> QED
    BY <1>4, <1>7, <2>3 DEF Passed
<1>9. CASE t # f.id
  <2>1. Behind(s, t)'
    BY <1>2, <1>3, <1>6, <1>9 DEF Passed, Behind
  <2> QED
    BY <1>4, <1>7, <2>1 DEF Passed
<1> QED
  BY <1>8, <1>9

LEMMA OvertakeStep ==
    ASSUME Limit = 1, OvertakeInv, [Next]_vars
    PROVE  Overtakes'
<1>0. /\ overtaken \in [Ids -> [Ids -> Nat]] /\ now \in Nat
      /\ \A q \in Stored : schedules[q] \in Schedule
  BY DEF OvertakeInv, Sound, TypeOK
<1>1. ASSUME overtaken' = NoneOvertaken PROVE Overtakes'
  BY <1>1 DEF NoneOvertaken, Overtakes
<1>2. ASSUME NEW s \in Ids, NEW kind \in Kinds, NEW runAt \in RunTimes, Create(s, kind, runAt)
      PROVE  Overtakes'
  <2>1. /\ s \notin created /\ created' = created \cup {s}
        /\ UNCHANGED <<fires, now, overtaken>>
    BY <1>2 DEF Create
  <2>2. Stored' = Stored \cup {s} /\ \A q \in Stored : q # s => schedules'[q] = schedules[q]
    BY <1>2, SaveFacts DEF Create
  <2>3. ASSUME NEW q \in Ids, NEW t \in Ids, Passed(q, t) PROVE Passed(q, t)'
    <3>1. q \in Stored /\ q # s /\ t # s
      BY <2>1, <2>3 DEF Passed, Waits, OvertakeInv, Sound, TypeOK
    <3> QED
      BY <1>0, <2>1, <2>2, <2>3, <3>1, PassedKept
  <2> QED
    BY <2>1, <2>3 DEF OvertakeInv, Overtakes
<1>3. ASSUME NEW s \in Ids, Delete(s) PROVE Overtakes'
  <2>1. /\ UNCHANGED <<created, fires, now>> /\ Stored' = Stored \ {s} /\ Rearm(s)
        /\ \A q \in Stored' : schedules'[q] = schedules[q]
    BY <1>3 DEF Delete, Stored
  <2>2. \A t \in Ids : overtaken'[s][t] = 0
    BY <1>0, <2>1 DEF Rearm
  <2>3. \A q, t \in Ids : q # s => overtaken'[q][t] = overtaken[q][t]
    BY <1>0, <2>1 DEF Rearm
  <2>4. ASSUME NEW q \in Ids, NEW t \in Ids, q # s, Passed(q, t) PROVE Passed(q, t)'
    <3>1. q \in Stored
      BY <2>4 DEF Passed, Waits
    <3> QED
      BY <1>0, <2>1, <2>4, <3>1, PassedKept
  <2> QED
    BY <2>2, <2>3, <2>4 DEF OvertakeInv, Overtakes
<1>4. ASSUME NEW s \in Ids, NEW enabled \in BOOLEAN, SetEnabled(s, enabled) PROVE Overtakes'
  <2>1. /\ UNCHANGED <<created, fires, now>> /\ s \in Stored
        /\ Save(s, [schedules[s] EXCEPT !.enabled = enabled])
    BY <1>4 DEF SetEnabled, Editable
  <2>2. /\ Stored' = Stored /\ schedules'[s] = [schedules[s] EXCEPT !.enabled = enabled]
        /\ \A q \in Stored : q # s => schedules'[q] = schedules[q]
    BY <2>1, SaveFacts
  <2>3. \A q \in Stored : schedules'[q].next = schedules[q].next
    BY <1>0, <2>1, <2>2 DEF Schedule
  <2>4. CASE enabled
    <3>1. UNCHANGED overtaken
      BY <1>4, <2>4 DEF SetEnabled
    <3>2. ASSUME NEW q \in Ids, NEW t \in Ids, Passed(q, t) PROVE Passed(q, t)'
      <4>1. q \in Stored /\ schedules[q].enabled
        BY <3>2 DEF Passed, Waits
      <4>2. schedules'[q] = schedules[q]
        <5>1. CASE q = s
          <6>1. schedules[s] \in Schedule /\ schedules[s].enabled = TRUE /\ enabled = TRUE
            BY <1>0, <2>1, <2>4, <4>1, <5>1 DEF Schedule
          <6>2. [schedules[s] EXCEPT !.enabled = TRUE] = schedules[s]
            BY <6>1 DEF Schedule
          <6> QED
            BY <2>2, <5>1, <6>1, <6>2
        <5>2. CASE q # s
          BY <2>2, <4>1, <5>2
        <5> QED
          BY <5>1, <5>2
      <4> QED
        BY <1>0, <2>1, <2>2, <2>3, <3>2, <4>1, <4>2, PassedKept
    <3> QED
      BY <3>1, <3>2 DEF OvertakeInv, Overtakes
  <2>5. CASE ~enabled
    <3>1. Rearm(s)
      BY <1>4, <2>5 DEF SetEnabled
    <3>2. \A t \in Ids : overtaken'[s][t] = 0
      BY <1>0, <3>1 DEF Rearm
    <3>3. \A q, t \in Ids : q # s => overtaken'[q][t] = overtaken[q][t]
      BY <1>0, <3>1 DEF Rearm
    <3>4. ASSUME NEW q \in Ids, NEW t \in Ids, q # s, Passed(q, t) PROVE Passed(q, t)'
      <4>1. q \in Stored
        BY <3>4 DEF Passed, Waits
      <4> QED
        BY <1>0, <2>1, <2>2, <2>3, <3>4, <4>1, PassedKept
    <3> QED
      BY <3>2, <3>3, <3>4 DEF OvertakeInv, Overtakes
  <2> QED
    BY <2>4, <2>5
<1>5. CASE Poll
  BY <1>5, PollOvertakes
<1>6. ASSUME NEW f \in fires, FireStarts(f) PROVE Overtakes'
  <2> DEFINE g == [f EXCEPT !.stage = "running"]
  <2>1. g.id = f.id /\ g.at = f.at
    BY DEF OvertakeInv, Sound, TypeOK, Fire
  <2>2. fires' = (fires \ {f}) \cup {g} /\ UNCHANGED <<schedules, created, now, overtaken>>
    BY <1>6 DEF FireStarts
  <2> HIDE DEF g
  <2>3. \A h \in fires' : \E k \in fires : k.id = h.id /\ k.at = h.at
    BY <2>1, <2>2
  <2>4. \A h \in fires : \E k \in fires' : k.id = h.id /\ k.at = h.at
    BY <2>1, <2>2
  <2>5. ASSUME NEW s \in Ids, NEW t \in Ids, Passed(s, t) PROVE Passed(s, t)'
    <3>1. Waits(s)'
      BY <2>2, <2>3, <2>5 DEF Passed, Waits, Stored
    <3>2. \A h \in fires' : h.id = t => h.at >= schedules'[s].next
      BY <2>2, <2>3, <2>5 DEF Passed, Behind
    <3>3. Behind(s, t)'
      BY <2>2, <2>4, <2>5, <3>2 DEF Passed, Behind, Stored
    <3> QED
      BY <2>2, <2>5, <3>1, <3>3 DEF Passed
  <2> QED
    BY <2>2, <2>5 DEF OvertakeInv, Overtakes
<1>7. ASSUME NEW f \in fires, FireFails(f) \/ FireEnds(f) PROVE Overtakes'
  BY <1>7, FinishOvertakes DEF FireFails, FireEnds
<1>8. CASE Crash \/ \E t \in 0..MaxTime : Restart(t) \/ Start(t)
  BY <1>1, <1>8 DEF Crash, Restart, Start
<1>9. CASE Shutdown \/ Drained \/ (\E r \in runs : ResumeRun(r)) \/ UNCHANGED vars
  <2>1. UNCHANGED <<schedules, created, fires, now, overtaken>>
    BY <1>9 DEF Shutdown, Drained, ResumeRun, vars
  <2> QED
    BY <2>1 DEF OvertakeInv, Overtakes, Passed, Waits, Behind, Stored
<1> QED
  BY <1>2, <1>3, <1>4, <1>5, <1>6, <1>7, <1>8, <1>9 DEF Next, Client, FireStep

(* With the default limit of one run for each schedule, no schedule is fired *)
(* twice ahead of one that waits for the shared room, for any set of          *)
(* schedules, any limit on them together, and whatever clients do.           *)
THEOREM OvertakenOnceHolds == Spec => []OvertakenOnce
<1>1. CASE Limit = 1
  <2>1. Init => OvertakeInv
    BY SoundInit DEF Init, NoneOvertaken, OvertakeInv, Overtakes
  <2>2. OvertakeInv /\ [Next]_vars => OvertakeInv'
    BY <1>1, SoundStep, OvertakeStep DEF OvertakeInv
  <2>3. OvertakeInv => OvertakenOnce
    BY DEF OvertakeInv, Overtakes, OvertakenOnce
  <2> QED
    BY <2>1, <2>2, <2>3, PTL DEF Spec
<1>2. CASE Limit # 1
  <2>1. OvertakenOnce
    BY <1>2 DEF OvertakenOnce
  <2> QED
    BY <2>1, PTL
<1> QED
  BY <1>1, <1>2
=============================================================================
