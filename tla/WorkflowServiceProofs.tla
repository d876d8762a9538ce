------------------------ MODULE WorkflowServiceProofs ------------------------
(* Theorems about WorkflowService, for any number of runs, resumes, crashes  *)
(* and concurrent executions.                                                *)
EXTENDS WorkflowService, SequenceTheorems, TLAPS

Requests == {"PENDING"} \cup Decisions

Statuses == Terminal \cup Resumable

LEMMA LoggedSeq == Seq(Event) \subseteq Seq(Logged) /\ <<>> \in Seq(Logged)
<1>1. ASSUME NEW s \in Seq(Event) PROVE s \in Seq(Logged)
  <2>1. Len(s) \in Nat /\ DOMAIN s = 1..Len(s)
    BY LenProperties
  <2>2. \A i \in 1..Len(s) : s[i] \in Event
    BY ElementOfSeq
  <2>3. \A i \in 1..Len(s) : s[i] \in Logged
    BY <2>2 DEF Logged
  <2> QED
    BY <2>1, <2>3
<1> QED
  BY <1>1, EmptySeq

LEMMA NotesType ==
    ASSUME NEW x \in Execution
    PROVE  Notes(x) \in Seq(Logged)
<1>1. <<x.id, "completed">> \in Logged
  BY DEF Execution, Logged, Notice
<1>2. <<<<x.id, "completed">>>> \in Seq(Logged)
  BY <1>1
<1> QED
  BY <1>2, LoggedSeq DEF Notes

-----------------------------------------------------------------------------
(* What a result has in common with the run that was handed over.            *)

LEMMA ResultFacts ==
    ASSUME NEW x \in Execution, NEW status \in Statuses, NEW done \in 0..2,
           NEW requests \in Seq(Requests)
    PROVE  LET result == Result(x, status, done, requests)
           IN  /\ result \in Run
               /\ result.key = x.base.key /\ result.version = x.base.version
               /\ result.done = done
               /\ result.approvals = x.base.approvals \o requests
<1>1. x.base \in Run /\ x.id \in Nat \ {0}
  BY DEF Execution
<1>2. x.base.approvals \o requests \in Seq(Requests)
  BY <1>1, ConcatProperties DEF Run, Requests
<1> DEFINE ends == <<<<x.id, "started">>, <<x.id, "ended">>>>
<1>3. ends \in Seq(Event)
  BY <1>1 DEF Event
<1>4. x.base.events \o ends \in Seq(Event)
  BY <1>1, <1>3, ConcatProperties DEF Run
<1> QED
  BY <1>1, <1>2, <1>4 DEF Result, Run, Requests, Statuses

LEMMA ResultsFacts ==
    ASSUME NEW x \in Execution, NEW result \in Results(x)
    PROVE  /\ result \in Run
           /\ result.key = x.base.key /\ result.version = x.base.version
           /\ result.done >= x.done
           /\ \E requests \in Seq(Requests) :
                 result.approvals = x.base.approvals \o requests
<1>1. x.done \in 0..2 /\ 2 \in 0..2 /\ x.done >= x.done /\ 2 >= x.done
  BY DEF Execution
<1>2. <<>> \in Seq(Requests) /\ <<"PENDING">> \in Seq(Requests)
  BY DEF Requests
<1>3. PICK status \in Statuses, done \in 0..2, requests \in Seq(Requests) :
         done >= x.done /\ result = Result(x, status, done, requests)
  <2>1. CASE result = Result(x, "FAILED", x.done, <<>>)
    BY <1>1, <1>2, <2>1 DEF Statuses, Terminal
  <2>2. CASE result = Result(x, "SUCCEEDED", 2, <<>>)
    BY <1>1, <1>2, <2>2 DEF Statuses, Terminal
  <2>3. CASE result = Result(x, "WAITING_APPROVAL", x.done, <<"PENDING">>)
    BY <1>1, <1>2, <2>3 DEF Statuses, Resumable
  <2>4. \/ result = Result(x, "FAILED", x.done, <<>>)
        \/ result = Result(x, "SUCCEEDED", 2, <<>>)
        \/ result = Result(x, "WAITING_APPROVAL", x.done, <<"PENDING">>)
    BY DEF Results
  <2> QED
    BY <2>1, <2>2, <2>3, <2>4
<1>4. /\ result \in Run
      /\ result.key = x.base.key /\ result.version = x.base.version
      /\ result.done = done
      /\ result.approvals = x.base.approvals \o requests
  BY <1>3, ResultFacts
<1>5. result.done >= x.done
  BY <1>3, <1>4
<1> QED
  BY <1>4, <1>5

(* What storing a run does.                                                  *)
LEMMA PersistFacts ==
    ASSUME TypeOK, NEW r \in DOMAIN runs, NEW run \in Run, NEW others,
           NEW notes \in Seq(Logged), Persist(r, run, notes, others)
    PROVE  /\ runs' = [runs EXCEPT ![r] = run]
           /\ runs' \in Seq(Run) /\ Len(runs') = Len(runs) /\ DOMAIN runs' = DOMAIN runs
           /\ log' \in Seq(Seq(Logged)) /\ Len(log') = Len(runs)
           /\ synced' \in Seq(Nat) /\ Len(synced') = Len(runs)
           /\ \/ /\ executions' = others /\ mode' = mode
                 /\ toResume' = toResume /\ crashes' = crashes
              \/ /\ executions' = {} /\ mode' = "down"
                 /\ toResume' = {} /\ crashes' = crashes + 1
<1>1. /\ runs \in Seq(Run) /\ r \in 1..Len(runs) /\ DOMAIN runs = 1..Len(runs)
      /\ log \in Seq(Seq(Logged)) /\ Len(log) = Len(runs)
      /\ synced \in Seq(Nat) /\ Len(synced) = Len(runs)
  BY LenProperties DEF TypeOK
<1>2. runs' = [runs EXCEPT ![r] = run]
  BY DEF Persist, PersistAll, PersistThenDie
<1>3. runs' \in Seq(Run) /\ Len(runs') = Len(runs) /\ DOMAIN runs' = DOMAIN runs
  BY <1>1, <1>2, ExceptSeq
<1> DEFINE new == Unsynced(r, run)
<1>4. new \in Seq(Event) /\ Len(run.events) \in Nat
  <2>1. run.events \in Seq(Event) /\ synced[r] \in Nat
    BY <1>1, ElementOfSeq DEF Run
  <2>2. Len(run.events) \in Nat
    BY <2>1, LenProperties
  <2>3. \A i \in synced[r] + 1 .. Len(run.events) : run.events[i] \in Event
    BY <2>1, <2>2, ElementOfSeq
  <2> QED
    BY <2>1, <2>2, <2>3, SubSeqProperties DEF Unsynced
<1>5. ASSUME NEW s \in Seq(Logged), log' = [log EXCEPT ![r] = log[r] \o s]
      PROVE  log' \in Seq(Seq(Logged)) /\ Len(log') = Len(runs)
  <2>1. log[r] \o s \in Seq(Logged)
    BY <1>1, <1>5, ElementOfSeq, ConcatProperties
  <2> QED
    BY <1>5, <2>1, <1>1, ExceptSeq
<1>6. CASE PersistAll(r, run, notes) /\ executions' = others
  <2>1. synced' = [synced EXCEPT ![r] = Len(run.events)]
    BY <1>6 DEF PersistAll
  <2>2. synced' \in Seq(Nat) /\ Len(synced') = Len(runs)
    BY <2>1, <1>1, <1>4, ExceptSeq
  <2>3. log' = [log EXCEPT ![r] = log[r] \o new \o notes]
    BY <1>6 DEF PersistAll
  <2>4. log' \in Seq(Seq(Logged)) /\ Len(log') = Len(runs)
    <3>1. log[r] \in Seq(Logged) /\ new \in Seq(Logged)
      BY <1>1, <1>4, LoggedSeq, ElementOfSeq
    <3> HIDE DEF new
    <3>2. log[r] \o new \in Seq(Logged)
      BY <3>1, ConcatProperties
    <3>3. log[r] \o new \o notes \in Seq(Logged)
      BY <3>2, ConcatProperties
    <3> QED
      BY <1>1, <2>3, <3>3, ExceptSeq
  <2> QED
    BY <1>2, <1>3, <2>2, <2>4, <1>6 DEF PersistAll
<1>7. CASE PersistThenDie(r, run)
  <2>1. synced' \in Seq(Nat) /\ Len(synced') = Len(runs)
    BY <1>1, <1>7 DEF PersistThenDie, Die
  <2>2. PICK k \in 0..Len(new) : log' = [log EXCEPT ![r] = log[r] \o SubSeq(new, 1, k)]
    BY <1>7 DEF PersistThenDie
  <2>3. Len(new) \in Nat /\ \A i \in 1..k : new[i] \in Event
    BY <2>2, <1>4, LenProperties, ElementOfSeq
  <2>4. SubSeq(new, 1, k) \in Seq(Event)
    BY <2>2, <2>3, SubSeqProperties
  <2>5. log' \in Seq(Seq(Logged)) /\ Len(log') = Len(runs)
    BY <2>2, <2>4, <1>5, LoggedSeq
  <2> QED
    BY <1>2, <1>3, <2>1, <2>5, <1>7 DEF PersistThenDie, Die
<1> QED
  BY <1>6, <1>7 DEF Persist

-----------------------------------------------------------------------------
(* Type correctness.                                                         *)

(* The facts about sequences that TypeOK stands for.                         *)
LEMMA RunsFacts ==
    ASSUME TypeOK
    PROVE  /\ Len(runs) \in Nat /\ DOMAIN runs = 1..Len(runs)
           /\ \A r \in DOMAIN runs : runs[r] \in Run
           /\ \A r \in DOMAIN runs : DOMAIN runs[r].approvals \subseteq Nat
           /\ DOMAIN effects = DOMAIN runs /\ \A r \in DOMAIN runs : effects[r] \in Nat
<1>1. runs \in Seq(Run) /\ effects \in Seq(Nat) /\ Len(effects) = Len(runs)
  BY DEF TypeOK
<1>2. Len(runs) \in Nat /\ DOMAIN runs = 1..Len(runs) /\ DOMAIN effects = 1..Len(runs)
  BY <1>1, LenProperties
<1>3. \A r \in DOMAIN runs : runs[r] \in Run /\ effects[r] \in Nat
  BY <1>1, <1>2, ElementOfSeq
<1>4. \A r \in DOMAIN runs : DOMAIN runs[r].approvals \subseteq Nat
  <2> TAKE r \in DOMAIN runs
  <2>1. runs[r].approvals \in Seq(Requests)
    BY <1>3 DEF Run, Requests
  <2> QED
    BY <2>1, LenProperties
<1> QED
  BY <1>2, <1>3, <1>4

LEMMA PersistTyped ==
    ASSUME TypeOK, NEW r \in DOMAIN runs, NEW run \in Run, NEW others \in SUBSET executions,
           NEW notes \in Seq(Logged), Persist(r, run, notes, others), UNCHANGED <<issued, effects, resumes>>
    PROVE  TypeOK'
<1>1. /\ runs' \in Seq(Run) /\ Len(runs') = Len(runs) /\ DOMAIN runs' = DOMAIN runs
      /\ log' \in Seq(Seq(Logged)) /\ Len(log') = Len(runs)
      /\ synced' \in Seq(Nat) /\ Len(synced') = Len(runs)
      /\ executions' \subseteq executions /\ mode' \in {mode, "down"}
      /\ toResume' \subseteq toResume /\ crashes' \in {crashes, crashes + 1}
  BY PersistFacts
<1>2. \A x \in executions' : x.run \in DOMAIN runs' /\ x.id <= issued'
  <2>1. \A x \in executions : x.run \in DOMAIN runs /\ x.id <= issued
    BY DEF TypeOK
  <2>2. DOMAIN runs' = DOMAIN runs /\ issued' = issued /\ executions' \subseteq executions
    BY <1>1
  <2> QED
    BY <2>1, <2>2
<1>3. executions' \subseteq Execution /\ toResume' \subseteq DOMAIN runs'
  BY <1>1 DEF TypeOK
<1>4. mode' \in {"up", "starting", "down"} /\ crashes' \in Nat
  <2>1. mode \in {"up", "starting", "down"} /\ crashes \in Nat
    BY DEF TypeOK
  <2>2. mode' \in {mode, "down"} /\ crashes' \in {crashes, crashes + 1}
    BY <1>1
  <2> QED
    BY <2>1, <2>2
<1>5. /\ effects' \in Seq(Nat) /\ Len(effects') = Len(runs')
      /\ issued' \in Nat /\ resumes' \in Nat
  BY <1>1 DEF TypeOK
<1> QED
  BY <1>1, <1>2, <1>3, <1>4, <1>5 DEF TypeOK

LEMMA StartTyped ==
    ASSUME TypeOK, NEW r \in DOMAIN runs, StartExecution(r, runs[r], "manual"),
           UNCHANGED <<runs, log, synced, mode, effects, crashes>>,
           resumes' \in Nat, toResume' \subseteq toResume
    PROVE  TypeOK'
<1> DEFINE x == [id |-> issued + 1, run |-> r, base |-> runs[r], done |-> runs[r].done,
                 cause |-> "manual"]
<1>1. runs[r] \in Run /\ r \in Nat \ {0} /\ issued \in Nat
  BY RunsFacts DEF TypeOK
<1>2. runs[r].done \in 0..2
  BY <1>1 DEF Run
<1>3. x \in Execution /\ x.run \in DOMAIN runs /\ x.id <= issued + 1
  BY <1>1, <1>2 DEF Execution
<1>4. executions' = executions \cup {x} /\ issued' = issued + 1
  BY DEF StartExecution
<1>5. executions' \subseteq Execution
  BY <1>3, <1>4 DEF TypeOK
<1>6. \A y \in executions' : y.run \in DOMAIN runs /\ y.id <= issued'
  <2>1. \A y \in executions : y.run \in DOMAIN runs /\ y.id <= issued /\ y.id \in Nat
    BY DEF TypeOK, Execution
  <2>2. \A y \in executions : y.id <= issued + 1
    BY <2>1, <1>1
  <2> QED
    BY <2>1, <2>2, <1>3, <1>4
<1> QED
  BY <1>1, <1>4, <1>5, <1>6 DEF TypeOK

(* The run that a request creates.                                           *)
NewRun(key, version, trigger) ==
    [version |-> version, key |-> key, trigger |-> trigger, status |-> "PENDING",
     done |-> 0, approvals |-> <<>>, events |-> <<>>]

(* And its execution.                                                        *)
NewExecution(key, version, trigger) ==
    [id |-> issued + 1, run |-> Len(runs) + 1, base |-> NewRun(key, version, trigger),
     done |-> 0, cause |-> trigger]

LEMMA ExecuteFacts ==
    ASSUME TypeOK, NEW key \in Keys \cup {NoKey}, NEW version \in Versions,
           NEW trigger \in {"manual", "schedule"}, Execute(key, version, trigger)
    PROVE  /\ NewRun(key, version, trigger) \in Run
           /\ runs' = Append(runs, NewRun(key, version, trigger))
           /\ runs' \in Seq(Run) /\ Len(runs') = Len(runs) + 1
           /\ DOMAIN runs' = DOMAIN runs \cup {Len(runs) + 1}
           /\ \A r \in DOMAIN runs : runs'[r] = runs[r]
           /\ runs'[Len(runs) + 1] = NewRun(key, version, trigger)
           /\ Len(runs) + 1 \notin DOMAIN runs
           /\ executions' = executions \cup
                 {NewExecution(key, version, trigger)}
<1>1. NewRun(key, version, trigger) \in Run
  BY DEF NewRun, Run, Resumable, Terminal
<1>2. runs' = Append(runs, NewRun(key, version, trigger))
  BY DEF Execute, NewRun
<1>3. runs \in Seq(Run) /\ Len(runs) \in Nat /\ DOMAIN runs = 1..Len(runs)
  BY RunsFacts DEF TypeOK
<1>4. /\ runs' \in Seq(Run) /\ Len(runs') = Len(runs) + 1
      /\ \A r \in DOMAIN runs : runs'[r] = runs[r]
      /\ runs'[Len(runs) + 1] = NewRun(key, version, trigger)
  BY <1>1, <1>2, <1>3, AppendProperties
<1>5. DOMAIN runs' = DOMAIN runs \cup {Len(runs) + 1} /\ Len(runs) + 1 \notin DOMAIN runs
  BY <1>3, <1>4, LenProperties
<1>6. StartExecution(Len(runs) + 1, NewRun(key, version, trigger), trigger)
  BY DEF Execute, NewRun
<1>7. executions' = executions \cup {NewExecution(key, version, trigger)}
  <2>1. NewRun(key, version, trigger).done = 0
    BY DEF NewRun
  <2> QED
    BY <1>6, <2>1 DEF StartExecution, NewExecution
<1> QED
  BY <1>1, <1>2, <1>4, <1>5, <1>7

LEMMA ExecuteTyped ==
    ASSUME TypeOK, NEW key \in Keys \cup {NoKey}, NEW version \in Versions,
           NEW trigger \in {"manual", "schedule"}, Execute(key, version, trigger)
    PROVE  TypeOK'
<1> DEFINE x == NewExecution(key, version, trigger)
<1>1. /\ Len(runs) \in Nat /\ issued \in Nat
      /\ log \in Seq(Seq(Logged)) /\ Len(log) = Len(runs)
      /\ synced \in Seq(Nat) /\ Len(synced) = Len(runs)
      /\ effects \in Seq(Nat) /\ Len(effects) = Len(runs)
  BY RunsFacts DEF TypeOK
<1>2. <<>> \in Seq(Logged) /\ 0 \in Nat
  BY LoggedSeq
<1>3. log' = Append(log, <<>>) /\ synced' = Append(synced, 0) /\ effects' = Append(effects, 0)
  BY DEF Execute
<1>4. /\ log' \in Seq(Seq(Logged)) /\ Len(log') = Len(runs) + 1
      /\ synced' \in Seq(Nat) /\ Len(synced') = Len(runs) + 1
      /\ effects' \in Seq(Nat) /\ Len(effects') = Len(runs) + 1
  BY <1>1, <1>2, <1>3, AppendProperties
<1>5. issued' = issued + 1 /\ UNCHANGED <<mode, toResume, resumes, crashes>>
  BY DEF Execute, StartExecution
<1>6. x \in Execution /\ x.id <= issued' /\ x.run \in DOMAIN runs'
  <2>1. NewRun(key, version, trigger) \in Run /\ Len(runs) + 1 \in DOMAIN runs'
    BY ExecuteFacts
  <2>2. x.id = issued + 1 /\ x.run = Len(runs) + 1
    BY DEF NewExecution
  <2>3. x \in Execution
    BY <1>1, <2>1 DEF Execution, NewExecution
  <2> QED
    BY <2>1, <2>2, <2>3, <1>1, <1>5
<1>7. executions' = executions \cup {x} /\ executions' \subseteq Execution
  <2>1. executions' = executions \cup {x}
    BY ExecuteFacts
  <2> QED
    BY <2>1, <1>6 DEF TypeOK
<1>8. \A y \in executions' : y.run \in DOMAIN runs' /\ y.id <= issued'
  <2>1. \A y \in executions : y.run \in DOMAIN runs /\ y.id <= issued /\ y.id \in Nat
    BY DEF TypeOK, Execution
  <2>2. \A y \in executions : y.run \in DOMAIN runs' /\ y.id <= issued + 1
    <3>1. DOMAIN runs \subseteq DOMAIN runs'
      BY ExecuteFacts
    <3>2. \A n \in Nat : n <= issued => n <= issued + 1
      BY <1>1
    <3> QED
      BY <2>1, <3>1, <3>2
  <2> QED
    <3>1. issued' = issued + 1 /\ executions' = executions \cup {x}
      BY <1>5, <1>7
    <3> HIDE DEF x
    <3>2. TAKE y \in executions'
    <3>3. y \in executions \/ y = x
      BY <3>1
    <3> QED
      BY <2>2, <1>6, <3>1, <3>3
<1>9. toResume \subseteq DOMAIN runs'
  BY ExecuteFacts DEF TypeOK
<1>10. runs' \in Seq(Run) /\ Len(runs') = Len(runs) + 1
  BY ExecuteFacts
<1>11. /\ issued' \in Nat /\ mode' \in {"up", "starting", "down"}
       /\ toResume' \subseteq DOMAIN runs' /\ resumes' \in Nat /\ crashes' \in Nat
  BY <1>1, <1>5, <1>9 DEF TypeOK
<1> QED
  BY <1>4, <1>7, <1>8, <1>10, <1>11 DEF TypeOK

(* The runs that the clients' calls store.                                   *)
LEMMA EditFacts ==
    ASSUME TypeOK, NEW r \in DOMAIN runs
    PROVE  /\ [runs[r] EXCEPT !.status = "CANCELLED"] \in Run
           /\ \A i \in DOMAIN runs[r].approvals, d \in Decisions :
                /\ [runs[r] EXCEPT !.approvals[i] = d] \in Run
                /\ \A j \in DOMAIN runs[r].approvals :
                      /\ j \in DOMAIN [runs[r] EXCEPT !.approvals[i] = d].approvals
                      /\ [runs[r] EXCEPT !.approvals[i] = d].approvals[j]
                            = IF j = i THEN d ELSE runs[r].approvals[j]
<1>1. runs[r] \in Run
  BY RunsFacts
<1>2. [runs[r] EXCEPT !.status = "CANCELLED"] \in Run
  BY <1>1 DEF Run, Terminal
<1>3. ASSUME NEW i \in DOMAIN runs[r].approvals, NEW d \in Decisions
      PROVE  /\ [runs[r] EXCEPT !.approvals[i] = d] \in Run
             /\ \A j \in DOMAIN runs[r].approvals :
                   /\ j \in DOMAIN [runs[r] EXCEPT !.approvals[i] = d].approvals
                   /\ [runs[r] EXCEPT !.approvals[i] = d].approvals[j]
                         = IF j = i THEN d ELSE runs[r].approvals[j]
  <2> DEFINE requests == runs[r].approvals
             edited == [requests EXCEPT ![i] = d]
  <2>1. requests \in Seq(Requests) /\ d \in Requests
    BY <1>1 DEF Run, Requests
  <2>2. DOMAIN requests = 1..Len(requests)
    BY <2>1, LenProperties
  <2>3. edited \in Seq(Requests)
    BY <2>1, <2>2, <1>3, ExceptSeq
  <2>4. DOMAIN edited = DOMAIN requests
        /\ \A j \in DOMAIN requests : edited[j] = IF j = i THEN d ELSE requests[j]
    OBVIOUS
  <2>5. [runs[r] EXCEPT !.approvals[i] = d] = [runs[r] EXCEPT !.approvals = edited]
    OBVIOUS
  <2>6. [runs[r] EXCEPT !.approvals = edited] \in Run
        /\ [runs[r] EXCEPT !.approvals = edited].approvals = edited
    BY <1>1, <2>3 DEF Run, Requests
  <2> QED
    BY <2>4, <2>5, <2>6
<1> QED
  BY <1>2, <1>3

LEMMA EffectTyped ==
    ASSUME TypeOK, NEW x \in executions, TakeEffect(x)
    PROVE  TypeOK'
<1>1. x \in Execution /\ x.run \in DOMAIN runs /\ x.id <= issued
  BY DEF TypeOK
<1>2. [x EXCEPT !.done = 1] \in Execution
  BY <1>1 DEF Execution
<1>3. /\ [x EXCEPT !.done = 1].run = x.run /\ [x EXCEPT !.done = 1].id = x.id
      /\ executions' = (executions \ {x}) \cup {[x EXCEPT !.done = 1]}
  BY <1>1 DEF TakeEffect, Execution
<1>4. executions' \subseteq Execution
  BY <1>2, <1>3 DEF TypeOK
<1>5. \A y \in executions' : y.run \in DOMAIN runs /\ y.id <= issued
  BY <1>1, <1>3 DEF TypeOK
<1>6. effects' \in Seq(Nat) /\ Len(effects') = Len(runs)
  <2>1. effects \in Seq(Nat) /\ Len(effects) = Len(runs) /\ x.run \in 1..Len(effects)
    BY <1>1, RunsFacts DEF TypeOK
  <2>2. effects[x.run] + 1 \in Nat
    BY <1>1, RunsFacts
  <2>3. effects' = [effects EXCEPT ![x.run] = effects[x.run] + 1]
    BY DEF TakeEffect
  <2> QED
    BY <2>1, <2>2, <2>3, ExceptSeq
<1>7. UNCHANGED <<runs, log, synced, issued, mode, toResume, resumes, crashes>>
  BY DEF TakeEffect
<1> QED
  BY <1>4, <1>5, <1>6, <1>7 DEF TypeOK

LEMMA CrashTyped ==
    ASSUME TypeOK, Crash
    PROVE  TypeOK'
<1>1. synced' \in Seq(Nat) /\ Len(synced') = Len(runs)
  BY LenProperties DEF TypeOK, Crash, Die
<1>2. /\ executions' = {} /\ toResume' = {} /\ mode' = "down" /\ crashes' = crashes + 1
      /\ UNCHANGED <<runs, log, issued, effects, resumes>>
  BY DEF Crash, Die
<1> QED
  BY <1>1, <1>2 DEF TypeOK

LEMMA TypeStep == TypeOK /\ [Next]_vars => TypeOK'
<1> SUFFICES ASSUME TypeOK, [Next]_vars PROVE TypeOK'
  OBVIOUS
<1>1. ASSUME NEW x \in executions, TakeEffect(x) PROVE TypeOK'
  BY <1>1, EffectTyped
<1>2. ASSUME NEW x \in executions, Return(x) PROVE TypeOK'
  <2>1. x \in Execution /\ x.run \in DOMAIN runs
    BY DEF TypeOK
  <2>2. PICK result \in Results(x) : Persist(x.run, result, Notes(x), executions \ {x})
    BY <1>2 DEF Return
  <2>3. result \in Run
    BY <2>1, ResultsFacts
  <2>4. UNCHANGED <<issued, effects, resumes>>
    BY <1>2 DEF Return
  <2> QED
    BY <2>1, <2>2, <2>3, <2>4, NotesType, PersistTyped
<1>3. ASSUME NEW key \in Keys \cup {NoKey}, NEW version \in Versions,
             NEW trigger \in {"manual", "schedule"}, Execute(key, version, trigger)
      PROVE  TypeOK'
  BY <1>3, ExecuteTyped
<1>4. ASSUME NEW r \in DOMAIN runs, Resume(r) PROVE TypeOK'
  BY <1>4, StartTyped DEF Resume, TypeOK
<1>5. ASSUME NEW r \in DOMAIN runs, Cancel(r) PROVE TypeOK'
  BY <1>5, EditFacts, LoggedSeq, PersistTyped DEF Cancel
<1>6. ASSUME NEW r \in DOMAIN runs, NEW i \in DOMAIN runs[r].approvals,
             NEW d \in Decisions, Decide(r, i, d)
      PROVE  TypeOK'
  BY <1>6, EditFacts, LoggedSeq, PersistTyped DEF Decide
<1>7. CASE Startup
  BY <1>7 DEF Startup, TypeOK
<1>8. CASE ResumeNext
  <2>1. PICK r \in toResume : /\ toResume' = toResume \ {r}
                              /\ StartExecution(r, runs[r], "manual")
    BY <1>8 DEF ResumeNext
  <2>2. r \in DOMAIN runs /\ resumes \in Nat
    BY DEF TypeOK
  <2> QED
    BY <1>8, <2>1, <2>2, StartTyped DEF ResumeNext
<1>9. CASE StartupEnds
  BY <1>9 DEF StartupEnds, TypeOK
<1>10. CASE Crash
  BY <1>10, CrashTyped
<1>11. CASE UNCHANGED vars
  BY <1>11 DEF vars, TypeOK
<1> QED
  BY <1>1, <1>2, <1>3, <1>4, <1>5, <1>6, <1>7, <1>8, <1>9, <1>10, <1>11 DEF Next, Client

LEMMA TypeInit == Init => TypeOK
BY EmptySeq DEF Init, TypeOK

(* The service's state is well typed, for any number of runs and crashes.    *)
THEOREM TypeCorrect == Spec => []TypeOK
<1> QED
  BY TypeInit, TypeStep, PTL DEF Spec

-----------------------------------------------------------------------------
(* The inductive invariant behind the properties that need clients to leave  *)
(* executing runs alone: then an execution works on the run as it is stored, *)
(* alone, and the run is not over; startup has the runs it has yet to resume *)
(* to itself.                                                                *)
Settled ==
    /\ \A x \in executions : /\ x.base = runs[x.run]
                             /\ x.base.status \notin Terminal
                             /\ x.base.done <= x.done
                             /\ x.run \notin toResume
    /\ \A x, y \in executions : x.run = y.run => x = y
    /\ mode = "up" => toResume = {}
    /\ mode = "down" => executions = {}
    /\ \A r \in toResume : runs[r].status \notin Terminal

(* The first step of a run has not taken effect since the last crash if      *)
(* neither the stored run nor its execution has it as finished.              *)
Counted ==
    \A r \in DOMAIN runs :
        /\ effects[r] <= 1 + crashes
        /\ (runs[r].done = 0 /\ \A x \in executions : x.run = r => x.done = 0)
              => effects[r] <= crashes

(* Keys and versions of executions are those of their runs, whatever clients *)
(* do.                                                                       *)
SameRequest ==
    \A x \in executions : /\ x.base.key = runs[x.run].key
                          /\ x.base.version = runs[x.run].version

-----------------------------------------------------------------------------
(* One run per key.                                                          *)

Keyed == TypeOK /\ SameRequest /\ OneRunPerKey

(* A step that stores no new run and keeps every run's key and version.      *)
SameRuns ==
    /\ DOMAIN runs' = DOMAIN runs
    /\ \A r \in DOMAIN runs : /\ runs'[r].key = runs[r].key
                              /\ runs'[r].version = runs[r].version

(* Storing a run with the key and the version it had.                        *)
LEMMA StoreKeyed ==
    ASSUME Keyed, NEW r \in DOMAIN runs, NEW run \in Run, NEW others \in SUBSET executions,
           NEW notes \in Seq(Logged), Persist(r, run, notes, others), run.key = runs[r].key, run.version = runs[r].version
    PROVE  SameRequest' /\ OneRunPerKey'
<1>1. /\ runs' = [runs EXCEPT ![r] = run] /\ DOMAIN runs' = DOMAIN runs
      /\ executions' \subseteq executions
  BY PersistFacts DEF Keyed
<1>2. SameRuns
  BY <1>1 DEF SameRuns
<1>3. \A x \in executions' : x.run \in DOMAIN runs
  BY <1>1 DEF Keyed, TypeOK
<1> QED
  BY <1>1, <1>2, <1>3 DEF Keyed, SameRuns, SameRequest, OneRunPerKey

LEMMA StartKeyed ==
    ASSUME Keyed, NEW r \in DOMAIN runs, StartExecution(r, runs[r], "manual"), UNCHANGED runs
    PROVE  SameRequest' /\ OneRunPerKey'
BY DEF Keyed, StartExecution, SameRequest, OneRunPerKey

LEMMA ExecuteKeyed ==
    ASSUME Keyed, NEW key \in Keys \cup {NoKey}, NEW version \in Versions,
           NEW trigger \in {"manual", "schedule"}, Execute(key, version, trigger)
    PROVE  SameRequest' /\ OneRunPerKey'
<1> DEFINE n == Len(runs) + 1
           x == NewExecution(key, version, trigger)
<1>1. /\ DOMAIN runs' = DOMAIN runs \cup {n} /\ n \notin DOMAIN runs
      /\ \A r \in DOMAIN runs : runs'[r] = runs[r]
      /\ runs'[n] = NewRun(key, version, trigger)
      /\ executions' = executions \cup {x}
  BY ExecuteFacts DEF Keyed
<1>2. NewRun(key, version, trigger).key = key /\ NewRun(key, version, trigger).version = version
  BY DEF NewRun
<1>3. key # NoKey => \A r \in DOMAIN runs : ~(runs[r].key = key /\ runs[r].version = version)
  BY DEF Execute, Duplicate
<1>4. OneRunPerKey'
  BY <1>1, <1>2, <1>3 DEF Keyed, OneRunPerKey
<1>5. \A y \in executions : y.run \in DOMAIN runs
  BY DEF Keyed, TypeOK
<1>6. SameRequest'
  <2>1. x.run = n /\ x.base = NewRun(key, version, trigger)
    BY DEF NewExecution
  <2> QED
    BY <1>1, <1>2, <1>5, <2>1 DEF Keyed, SameRequest
<1> QED
  BY <1>4, <1>6

LEMMA KeyedStep == Keyed /\ [Next]_vars => Keyed'
<1> SUFFICES ASSUME Keyed, [Next]_vars PROVE SameRequest' /\ OneRunPerKey'
  BY TypeStep DEF Keyed
<1>1. ASSUME NEW x \in executions, TakeEffect(x) PROVE SameRequest' /\ OneRunPerKey'
  <2>1. x \in Execution
    BY DEF Keyed, TypeOK
  <2>2. /\ [x EXCEPT !.done = 1].run = x.run /\ [x EXCEPT !.done = 1].base = x.base
    BY <2>1 DEF Execution
  <2>3. UNCHANGED runs /\ executions' = (executions \ {x}) \cup {[x EXCEPT !.done = 1]}
    BY <1>1 DEF TakeEffect
  <2> QED
    BY <2>2, <2>3 DEF Keyed, SameRequest, OneRunPerKey
<1>2. ASSUME NEW x \in executions, Return(x) PROVE SameRequest' /\ OneRunPerKey'
  <2>1. x \in Execution /\ x.run \in DOMAIN runs
    BY DEF Keyed, TypeOK
  <2>2. PICK result \in Results(x) : Persist(x.run, result, Notes(x), executions \ {x})
    BY <1>2 DEF Return
  <2>3. result \in Run /\ result.key = x.base.key /\ result.version = x.base.version
    BY <2>1, ResultsFacts
  <2>4. x.base.key = runs[x.run].key /\ x.base.version = runs[x.run].version
    BY DEF Keyed, SameRequest
  <2> QED
    BY <2>1, <2>2, <2>3, <2>4, NotesType, StoreKeyed
<1>3. ASSUME NEW key \in Keys \cup {NoKey}, NEW version \in Versions,
             NEW trigger \in {"manual", "schedule"}, Execute(key, version, trigger)
      PROVE  SameRequest' /\ OneRunPerKey'
  BY <1>3, ExecuteKeyed
<1>4. ASSUME NEW r \in DOMAIN runs, Resume(r) PROVE SameRequest' /\ OneRunPerKey'
  BY <1>4, StartKeyed DEF Resume
<1>5. ASSUME NEW r \in DOMAIN runs, Cancel(r) PROVE SameRequest' /\ OneRunPerKey'
  <2>1. runs[r] \in Run /\ [runs[r] EXCEPT !.status = "CANCELLED"] \in Run
    BY RunsFacts, EditFacts DEF Keyed
  <2>2. /\ [runs[r] EXCEPT !.status = "CANCELLED"].key = runs[r].key
        /\ [runs[r] EXCEPT !.status = "CANCELLED"].version = runs[r].version
    BY <2>1 DEF Run
  <2> QED
    BY <1>5, <2>1, <2>2, LoggedSeq, StoreKeyed DEF Cancel
<1>6. ASSUME NEW r \in DOMAIN runs, NEW i \in DOMAIN runs[r].approvals,
             NEW d \in Decisions, Decide(r, i, d)
      PROVE  SameRequest' /\ OneRunPerKey'
  <2> DEFINE run == [runs[r] EXCEPT !.approvals[i] = d]
  <2>1. runs[r] \in Run /\ run \in Run
    BY RunsFacts, EditFacts DEF Keyed
  <2>2. run.key = runs[r].key /\ run.version = runs[r].version
    BY <2>1 DEF Run
  <2> QED
    BY <1>6, <2>1, <2>2, LoggedSeq, StoreKeyed DEF Decide
<1>7. CASE ResumeNext
  <2>1. PICK r \in toResume : StartExecution(r, runs[r], "manual")
    BY <1>7 DEF ResumeNext
  <2>2. r \in DOMAIN runs
    BY DEF Keyed, TypeOK
  <2> QED
    BY <1>7, <2>1, <2>2, StartKeyed DEF ResumeNext
<1>8. CASE Startup \/ StartupEnds \/ UNCHANGED vars
  BY <1>8 DEF Startup, StartupEnds, vars, Keyed, SameRequest, OneRunPerKey
<1>9. CASE Crash
  BY <1>9 DEF Crash, Die, Keyed, SameRequest, OneRunPerKey
<1> QED
  BY <1>1, <1>2, <1>3, <1>4, <1>5, <1>6, <1>7, <1>8, <1>9 DEF Next, Client

(* An idempotency key names one run of a version, for any number of          *)
(* concurrent executions, resumes and crashes, and whatever clients do while *)
(* a run is being executed: no assumption on CallersWait is needed.          *)
THEOREM OneRunPerKeyHolds == Spec => []OneRunPerKey
<1>1. Init => Keyed
  BY TypeInit DEF Init, Keyed, SameRequest, OneRunPerKey
<1>2. Keyed => OneRunPerKey
  BY DEF Keyed
<1> QED
  BY <1>1, <1>2, KeyedStep, PTL DEF Spec

-----------------------------------------------------------------------------
(* Terminal runs, decisions and effects, when clients wait.                  *)

Quiet == TypeOK /\ Settled /\ Counted

(* What may be stored in place of run r: a terminal run keeps its status, and *)
(* no decision is lost.                                                      *)
Keeps(r, run) ==
    /\ runs[r].status \in Terminal => run.status = runs[r].status
    /\ \A i \in DOMAIN runs[r].approvals :
          runs[r].approvals[i] \in Decisions =>
              i \in DOMAIN run.approvals /\ run.approvals[i] = runs[r].approvals[i]

Kept == \A r \in DOMAIN runs : Keeps(r, runs'[r])

(* A run is stored that no execution goes on with.                           *)
LEMMA StoreQuiet ==
    ASSUME Quiet, NEW r \in DOMAIN runs, NEW run \in Run, NEW others \in SUBSET executions,
           NEW notes \in Seq(Logged), Persist(r, run, notes, others), UNCHANGED effects, Keeps(r, run),
           r \notin toResume,
           \A x \in executions : x \in others <=> x.run # r,
           run.done = 0 => /\ runs[r].done = 0
                           /\ \A x \in executions : x.run = r => x.done = 0
    PROVE  Settled' /\ Counted' /\ Kept
<1>1. /\ runs' = [runs EXCEPT ![r] = run] /\ DOMAIN runs' = DOMAIN runs
      /\ \/ /\ executions' = others /\ mode' = mode
            /\ toResume' = toResume /\ crashes' = crashes
         \/ /\ executions' = {} /\ mode' = "down"
            /\ toResume' = {} /\ crashes' = crashes + 1
  BY PersistFacts DEF Quiet
<1>2. runs'[r] = run /\ \A q \in DOMAIN runs : q # r => runs'[q] = runs[q]
  BY <1>1
<1>3. Kept
  <2> SUFFICES ASSUME NEW q \in DOMAIN runs PROVE Keeps(q, runs'[q])
    BY DEF Kept
  <2>1. CASE q = r
    BY <1>2, <2>1
  <2>2. CASE q # r
    BY <1>2, <2>2 DEF Keeps
  <2> QED
    BY <2>1, <2>2
<1>4. \A x \in executions : x.run \in DOMAIN runs
  BY DEF Quiet, TypeOK
<1>5. executions' \subseteq others /\ toResume' \subseteq toResume
      /\ (mode' = "up" => toResume' = {}) /\ (mode' = "down" => executions' = {})
  BY <1>1 DEF Quiet, Settled
<1>6. \A x \in executions' : /\ x \in executions /\ x.run # r
                             /\ runs'[x.run] = runs[x.run] /\ x.run \notin toResume'
  BY <1>2, <1>4, <1>5 DEF Quiet, Settled
<1>7. \A q \in toResume' : q \in DOMAIN runs /\ runs'[q] = runs[q]
  BY <1>2, <1>5 DEF Quiet, TypeOK
<1>8. Settled'
  BY <1>5, <1>6, <1>7 DEF Quiet, Settled
<1>9. Counted'
  <2> SUFFICES ASSUME NEW q \in DOMAIN runs
               PROVE  /\ effects[q] <= 1 + crashes'
                      /\ (runs'[q].done = 0 /\ \A x \in executions' : x.run = q => x.done = 0)
                            => effects[q] <= crashes'
    BY <1>1 DEF Counted
  <2>1. effects[q] \in Nat /\ crashes \in Nat
    BY RunsFacts DEF Quiet, TypeOK
  <2>2. effects[q] <= 1 + crashes
        /\ ((runs[q].done = 0 /\ \A x \in executions : x.run = q => x.done = 0)
              => effects[q] <= crashes)
    BY DEF Quiet, Counted
  <2>3. CASE crashes' = crashes + 1
    BY <2>1, <2>2, <2>3
  <2>4. CASE crashes' = crashes /\ executions' = others
    <3>1. CASE q = r
      BY <1>2, <2>2, <2>4, <3>1
    <3>2. CASE q # r
      <4>1. runs'[q] = runs[q] /\ \A x \in executions : x.run = q => x \in executions'
        BY <1>2, <2>4, <3>2
      <4> QED
        BY <2>2, <2>4, <4>1
    <3> QED
      BY <3>1, <3>2
  <2> QED
    BY <1>1, <2>3, <2>4
<1> QED
  BY <1>3, <1>8, <1>9

LEMMA SameKept ==
    ASSUME UNCHANGED runs
    PROVE  Kept
BY DEF Kept, Keeps

(* A run that is not over and that nobody works on is handed to the engine.  *)
LEMMA StartQuiet ==
    ASSUME Quiet, NEW r \in DOMAIN runs, StartExecution(r, runs[r], "manual"),
           UNCHANGED <<runs, mode, effects, crashes>>,
           mode # "down", toResume' \subseteq toResume, r \notin toResume',
           runs[r].status \notin Terminal, ~Busy(r)
    PROVE  Settled' /\ Counted' /\ Kept
<1> DEFINE x == [id |-> issued + 1, run |-> r, base |-> runs[r], done |-> runs[r].done,
                 cause |-> "manual"]
<1>1. executions' = executions \cup {x}
  BY DEF StartExecution
<1>2. \A y \in executions : y.run # r
  BY DEF Busy
<1>3. runs[r].done <= runs[r].done
  BY RunsFacts DEF Quiet, Run
<1>4. /\ x.base = runs[x.run] /\ x.base.status \notin Terminal
      /\ x.base.done <= x.done /\ x.run \notin toResume' /\ x.run = r
  BY <1>3
<1> HIDE DEF x
<1>5. \A y, z \in executions' : y.run = z.run => y = z
  BY <1>1, <1>2, <1>4 DEF Quiet, Settled
<1>6. Settled'
  BY <1>1, <1>4, <1>5 DEF Quiet, Settled
<1>7. Counted'
  BY <1>1 DEF Quiet, Counted
<1> QED
  BY <1>6, <1>7, SameKept

LEMMA ExecuteQuiet ==
    ASSUME Quiet, NEW key \in Keys \cup {NoKey}, NEW version \in Versions,
           NEW trigger \in {"manual", "schedule"}, Execute(key, version, trigger)
    PROVE  Settled' /\ Counted' /\ Kept
<1> DEFINE n == Len(runs) + 1
           x == NewExecution(key, version, trigger)
<1>1. /\ DOMAIN runs' = DOMAIN runs \cup {n} /\ n \notin DOMAIN runs
      /\ \A r \in DOMAIN runs : runs'[r] = runs[r]
      /\ runs'[n] = NewRun(key, version, trigger)
      /\ executions' = executions \cup {x}
  BY ExecuteFacts DEF Quiet
<1>2. mode = "up" /\ toResume = {} /\ UNCHANGED <<mode, toResume, crashes>>
  BY DEF Execute, Quiet, Settled
<1>3. /\ x.base = runs'[x.run] /\ x.base.status \notin Terminal
      /\ x.base.done <= x.done /\ x.run = n
  BY <1>1 DEF NewExecution, NewRun, Terminal
<1>4. \A y \in executions : y.run \in DOMAIN runs
  BY DEF Quiet, TypeOK
<1> HIDE DEF x
<1>5. \A y, z \in executions' : y.run = z.run => y = z
  BY <1>1, <1>3, <1>4 DEF Quiet, Settled
<1>6. \A y \in executions' : /\ y.base = runs'[y.run] /\ y.base.status \notin Terminal
                             /\ y.base.done <= y.done
  BY <1>1, <1>3, <1>4 DEF Quiet, Settled
<1>7. Settled'
  BY <1>2, <1>5, <1>6 DEF Settled
<1>8. Counted'
  <2>1. effects' = Append(effects, 0) /\ effects \in Seq(Nat) /\ Len(effects) = Len(runs)
    BY DEF Execute, Quiet, TypeOK
  <2>2. effects'[n] = 0 /\ \A r \in DOMAIN runs : effects'[r] = effects[r]
    BY <2>1, AppendProperties, RunsFacts DEF Quiet
  <2>3. crashes \in Nat /\ 0 <= crashes /\ 0 <= 1 + crashes
    BY DEF Quiet, TypeOK
  <2> QED
    BY <1>1, <1>2, <2>2, <2>3 DEF Quiet, Counted
<1>9. Kept
  BY <1>1 DEF Kept, Keeps
<1> QED
  BY <1>7, <1>8, <1>9

(* The first step of x takes effect: it had not, for no other execution      *)
(* works on that run.                                                        *)
LEMMA EffectQuiet ==
    ASSUME Quiet, NEW x \in executions, TakeEffect(x)
    PROVE  Settled' /\ Counted' /\ Kept
<1> DEFINE y == [x EXCEPT !.done = 1]
<1>1. x \in Execution /\ x.run \in DOMAIN runs /\ runs[x.run] \in Run
  BY RunsFacts DEF Quiet, TypeOK
<1>2. y.run = x.run /\ y.base = x.base /\ y.done = 1
  BY <1>1 DEF Execution
<1>3. executions' = (executions \ {x}) \cup {y}
      /\ UNCHANGED <<runs, mode, toResume, crashes>> /\ x.done = 0
  BY DEF TakeEffect
<1>4. /\ x.base = runs[x.run] /\ x.base.status \notin Terminal
      /\ x.base.done <= 0 /\ x.run \notin toResume
      /\ \A z \in executions : z.run = x.run => z = x
  BY <1>3 DEF Quiet, Settled
<1>5. y.base.done <= y.done
  BY <1>1, <1>2, <1>4 DEF Run
<1> HIDE DEF y
<1>6. \A z \in executions' : /\ z.base = runs'[z.run] /\ z.base.status \notin Terminal
                             /\ z.base.done <= z.done /\ z.run \notin toResume'
  BY <1>2, <1>3, <1>4, <1>5 DEF Quiet, Settled
<1>7. \A z, w \in executions' : z.run = w.run => z = w
  BY <1>2, <1>3, <1>4 DEF Quiet, Settled
<1>8. mode # "down"
  BY DEF Quiet, Settled
<1>9. Settled'
  BY <1>3, <1>6, <1>7, <1>8 DEF Quiet, Settled
<1>10. Counted'
  <2> SUFFICES ASSUME NEW q \in DOMAIN runs
               PROVE  /\ effects'[q] <= 1 + crashes
                      /\ (runs[q].done = 0 /\ \A z \in executions' : z.run = q => z.done = 0)
                            => effects'[q] <= crashes
    BY <1>3 DEF Counted
  <2>1. effects' = [effects EXCEPT ![x.run] = effects[x.run] + 1]
        /\ DOMAIN effects = DOMAIN runs /\ effects[q] \in Nat /\ crashes \in Nat
    BY RunsFacts DEF TakeEffect, Quiet, TypeOK
  <2>2. CASE q = x.run
    <3>1. runs[q].done = 0
      BY <1>1, <1>4, <2>2 DEF Run
    <3>2. \A z \in executions : z.run = q => z.done = 0
      BY <1>3, <1>4, <2>2
    <3>3. effects[q] <= crashes
      BY <3>1, <3>2 DEF Quiet, Counted
    <3>4. effects'[q] = effects[q] + 1
      BY <2>1, <2>2
    <3>5. y \in executions' /\ y.run = q /\ y.done # 0
      BY <1>2, <1>3, <2>2
    <3>6. effects'[q] <= 1 + crashes
      BY <2>1, <3>3, <3>4
    <3> QED
      BY <3>5, <3>6
  <2>3. CASE q # x.run
    <3>1. effects'[q] = effects[q]
      BY <2>1, <2>3
    <3>2. \A z \in executions : z.run = q => z \in executions'
      BY <1>3, <2>3
    <3> QED
      BY <3>1, <3>2 DEF Quiet, Counted
  <2> QED
    BY <2>2, <2>3
<1> QED
  BY <1>3, <1>9, <1>10, SameKept

LEMMA ReturnQuiet ==
    ASSUME Quiet, NEW x \in executions, Return(x)
    PROVE  Settled' /\ Counted' /\ Kept
<1>1. x \in Execution /\ x.run \in DOMAIN runs /\ runs[x.run] \in Run
  BY RunsFacts DEF Quiet, TypeOK
<1>2. PICK result \in Results(x) : Persist(x.run, result, Notes(x), executions \ {x})
  BY DEF Return
<1>3. PICK requests \in Seq(Requests) :
         /\ result \in Run /\ result.done >= x.done
         /\ result.approvals = x.base.approvals \o requests
  BY <1>1, <1>2, ResultsFacts
<1>4. /\ x.base = runs[x.run] /\ x.base.status \notin Terminal
      /\ x.base.done <= x.done /\ x.run \notin toResume
      /\ \A z \in executions : z.run = x.run => z = x
  BY DEF Quiet, Settled
<1>5. Keeps(x.run, result)
  <2>1. x.base.approvals \in Seq(Requests)
    BY <1>1 DEF Execution, Run, Requests
  <2>2. \A i \in DOMAIN x.base.approvals :
           i \in DOMAIN result.approvals /\ result.approvals[i] = x.base.approvals[i]
    BY <1>3, <2>1, ConcatProperties, LenProperties
  <2> QED
    BY <1>4, <2>2 DEF Keeps
<1>6. result.done = 0 => /\ runs[x.run].done = 0
                         /\ \A z \in executions : z.run = x.run => z.done = 0
  <2>1. result.done = 0 => x.done = 0
    BY <1>1, <1>3 DEF Execution
  <2>2. x.done = 0 => runs[x.run].done = 0
    BY <1>1, <1>4 DEF Run
  <2> QED
    BY <2>1, <2>2, <1>4
<1>7. \A z \in executions : z \in executions \ {x} <=> z.run # x.run
  BY <1>4
<1>8. UNCHANGED effects
  BY DEF Return
<1> HIDE DEF Quiet
<1> QED
  BY <1>1, <1>2, <1>3, <1>4, <1>5, <1>6, <1>7, <1>8, NotesType, StoreQuiet

LEMMA QuietStep ==
    ASSUME CallersWait
    PROVE  Quiet /\ [Next]_vars => Quiet' /\ Kept
<1> SUFFICES ASSUME Quiet, [Next]_vars PROVE Settled' /\ Counted' /\ Kept
  BY TypeStep DEF Quiet
<1>1. ASSUME NEW x \in executions, TakeEffect(x) PROVE Settled' /\ Counted' /\ Kept
  BY <1>1, EffectQuiet
<1>2. ASSUME NEW x \in executions, Return(x) PROVE Settled' /\ Counted' /\ Kept
  BY <1>2, ReturnQuiet
<1>3. ASSUME NEW key \in Keys \cup {NoKey}, NEW version \in Versions,
             NEW trigger \in {"manual", "schedule"}, Execute(key, version, trigger)
      PROVE  Settled' /\ Counted' /\ Kept
  BY <1>3, ExecuteQuiet
<1>4. ASSUME NEW r \in DOMAIN runs, Addressable(r)
      PROVE  /\ ~Busy(r) /\ toResume = {} /\ mode = "up"
             /\ \A x \in executions : x.run # r
  BY <1>4 DEF Addressable, Quiet, Settled, Busy
<1>5. ASSUME NEW r \in DOMAIN runs, Resume(r) PROVE Settled' /\ Counted' /\ Kept
  <2>1. ~Busy(r) /\ toResume = {} /\ mode = "up"
    BY <1>4, <1>5 DEF Resume
  <2> QED
    BY <1>5, <2>1, StartQuiet DEF Resume
<1>6. ASSUME NEW r \in DOMAIN runs, Cancel(r) PROVE Settled' /\ Counted' /\ Kept
  <2> DEFINE run == [runs[r] EXCEPT !.status = "CANCELLED"]
  <2>1. toResume = {} /\ \A x \in executions : x.run # r
    BY <1>4, <1>6 DEF Cancel
  <2>2. runs[r] \in Run /\ run \in Run
    BY RunsFacts, EditFacts DEF Quiet
  <2>3. run.done = runs[r].done /\ run.approvals = runs[r].approvals
    BY <2>2 DEF Run
  <2>4. Keeps(r, run)
    BY <1>6, <2>3 DEF Keeps, Cancel
  <2>5. Persist(r, run, <<>>, executions) /\ UNCHANGED effects
    BY <1>6 DEF Cancel
  <2> HIDE DEF run
  <2> QED
    BY <2>1, <2>2, <2>3, <2>4, <2>5, LoggedSeq, StoreQuiet
<1>7. ASSUME NEW r \in DOMAIN runs, NEW i \in DOMAIN runs[r].approvals,
             NEW d \in Decisions, Decide(r, i, d)
      PROVE  Settled' /\ Counted' /\ Kept
  <2> DEFINE run == [runs[r] EXCEPT !.approvals[i] = d]
  <2>1. toResume = {} /\ \A x \in executions : x.run # r
    BY <1>4, <1>7 DEF Decide
  <2>2. runs[r] \in Run /\ run \in Run
    BY RunsFacts, EditFacts DEF Quiet
  <2>3. run.done = runs[r].done /\ run.status = runs[r].status
    BY <2>2 DEF Run
  <2>4. runs[r].approvals[i] \notin Decisions
    BY <1>7 DEF Decide, Decisions
  <2>5. \A j \in DOMAIN runs[r].approvals :
           j \in DOMAIN run.approvals /\ (j # i => run.approvals[j] = runs[r].approvals[j])
    BY EditFacts DEF Quiet
  <2>6. Persist(r, run, <<>>, executions) /\ UNCHANGED effects
    BY <1>7 DEF Decide
  <2> HIDE DEF run
  <2>7. Keeps(r, run)
    BY <2>3, <2>4, <2>5 DEF Keeps
  <2> QED
    BY <2>1, <2>2, <2>3, <2>6, <2>7, LoggedSeq, StoreQuiet
<1>8. CASE Startup
  <2>1. Settled'
    BY <1>8 DEF Startup, Quiet, Settled, Resumable, Terminal
  <2> QED
    BY <1>8, <2>1, SameKept DEF Startup, Quiet, Counted
<1>9. CASE ResumeNext
  <2>1. PICK r \in toResume : /\ toResume' = toResume \ {r}
                              /\ StartExecution(r, runs[r], "manual")
    BY <1>9 DEF ResumeNext
  <2>2. /\ r \in DOMAIN runs /\ runs[r].status \notin Terminal /\ ~Busy(r)
        /\ mode # "down" /\ UNCHANGED <<runs, mode, effects, crashes>>
    BY <1>9 DEF ResumeNext, Busy, Quiet, TypeOK, Settled
  <2> QED
    BY <2>1, <2>2, StartQuiet
<1>10. CASE StartupEnds
  BY <1>10, SameKept DEF StartupEnds, Quiet, Settled, Counted
<1>11. CASE Crash
  <2>1. crashes \in Nat /\ \A r \in DOMAIN runs : effects[r] \in Nat
    BY RunsFacts DEF Quiet, TypeOK
  <2>2. Settled'
    BY <1>11 DEF Crash, Die, Settled
  <2>3. Counted'
    BY <1>11, <2>1 DEF Crash, Die, Quiet, Counted
  <2> QED
    BY <1>11, <2>2, <2>3, SameKept DEF Crash
<1>12. CASE UNCHANGED vars
  BY <1>12, SameKept DEF vars, Quiet, Settled, Counted
<1> QED
  BY <1>1, <1>2, <1>3, <1>5, <1>6, <1>7, <1>8, <1>9, <1>10, <1>11, <1>12 DEF Next, Client

LEMMA QuietInit == Init => Quiet
BY TypeInit DEF Init, Quiet, Settled, Counted

(* When clients leave alone the runs that are being executed, a run stored   *)
(* as terminal keeps that status.                                            *)
THEOREM TerminalIsFinalHolds ==
    ASSUME CallersWait
    PROVE  Spec => TerminalIsFinal
<1>1. Quiet /\ [Next]_vars =>
         [\A r \in DOMAIN runs :
             runs[r].status \in Terminal => runs'[r].status = runs[r].status]_vars
  BY QuietStep DEF Kept, Keeps
<1>2. Quiet /\ [Next]_vars => Quiet'
  BY QuietStep
<1> QED
  BY <1>1, <1>2, QuietInit, PTL DEF Spec, TerminalIsFinal

(* Under the same assumption no decision that was recorded is lost or        *)
(* replaced.                                                                 *)
THEOREM DecisionKeptHolds ==
    ASSUME CallersWait
    PROVE  Spec => DecisionKept
<1>1. Quiet /\ [Next]_vars =>
         [\A r \in DOMAIN runs : \A i \in DOMAIN runs[r].approvals :
             runs[r].approvals[i] \in Decisions =>
                 /\ i \in DOMAIN runs'[r].approvals
                 /\ runs'[r].approvals[i] = runs[r].approvals[i]]_vars
  BY QuietStep DEF Kept, Keeps
<1>2. Quiet /\ [Next]_vars => Quiet'
  BY QuietStep
<1> QED
  BY <1>1, <1>2, QuietInit, PTL DEF Spec, DecisionKept

(* Under the same assumption a step takes effect at most once more than the  *)
(* process died.                                                             *)
THEOREM EffectBoundedHolds ==
    ASSUME CallersWait
    PROVE  Spec => []EffectBounded
<1>1. Quiet => EffectBounded
  BY RunsFacts DEF Quiet, Counted, EffectBounded
<1>2. Quiet /\ [Next]_vars => Quiet'
  BY QuietStep
<1> QED
  BY <1>1, <1>2, QuietInit, PTL DEF Spec

-----------------------------------------------------------------------------
(* The durable timeline, when clients wait.                                  *)

(* As long as the process has not died: the run's own log, with the notice of *)
(* the scheduler once there is one.                                          *)
AsWritten(r) ==
    IF runs[r].trigger = "manual" \/ Awaited(r)
    THEN log[r] = runs[r].events
    ELSE \E p \in DOMAIN runs[r].events : NotedAfter(log[r], runs[r].events, p)

(* The cursor of a run never runs ahead of its events, and nothing is noted   *)
(* about a run before the execution that a fire waits for has ended.         *)
TimelineOf(r) ==
    /\ synced[r] <= Len(runs[r].events)
    /\ Shows(log[r], runs[r])
    /\ Awaited(r) => runs[r].trigger = "schedule" /\ Noted(log[r]) = {}
    /\ crashes = 0 => synced[r] = Len(runs[r].events) /\ AsWritten(r)

Timelines == \A r \in DOMAIN runs : TimelineOf(r)

(* The elements of two sequences in a row.                                   *)
LEMMA Concat ==
    ASSUME NEW S, NEW s \in Seq(S), NEW t \in Seq(S), NEW u, u = s \o t
    PROVE  /\ u \in Seq(S) /\ Len(s) \in Nat /\ Len(t) \in Nat /\ Len(u) = Len(s) + Len(t)
           /\ DOMAIN s = 1..Len(s) /\ DOMAIN t = 1..Len(t) /\ DOMAIN u = 1..Len(u)
           /\ \A i \in DOMAIN s : i \in DOMAIN u /\ u[i] = s[i]
           /\ \A i \in DOMAIN t : Len(s) + i \in DOMAIN u /\ u[Len(s) + i] = t[i]
           /\ \A i \in DOMAIN u : \/ i \in DOMAIN s
                                  \/ i - Len(s) \in DOMAIN t /\ u[i] = t[i - Len(s)]
<1>1. /\ Len(s) \in Nat /\ Len(t) \in Nat /\ DOMAIN s = 1..Len(s) /\ DOMAIN t = 1..Len(t)
      /\ u \in Seq(S) /\ Len(u) = Len(s) + Len(t) /\ DOMAIN u = 1..Len(u)
  BY LenProperties, ConcatProperties
<1>2. \A i \in 1..(Len(s) + Len(t)) :
         u[i] = IF i <= Len(s) THEN s[i] ELSE t[i - Len(s)]
  BY ConcatProperties
<1>3. \A i \in DOMAIN s : i \in DOMAIN u /\ u[i] = s[i]
  BY <1>1, <1>2
<1>4. \A i \in DOMAIN t : Len(s) + i \in DOMAIN u /\ u[Len(s) + i] = t[i]
  BY <1>1, <1>2
<1>5. \A i \in DOMAIN u : \/ i \in DOMAIN s
                          \/ i - Len(s) \in DOMAIN t /\ u[i] = t[i - Len(s)]
  BY <1>1, <1>2
<1> QED
  BY <1>1, <1>3, <1>4, <1>5

(* The timeline goes on with events of the run.                              *)
LEMMA ShowsMore ==
    ASSUME NEW l \in Seq(Logged), NEW part \in Seq(Event), NEW u, u = l \o part,
           NEW old \in Run, NEW run \in Run, Shows(l, old), run.trigger = old.trigger,
           Range(old.events) \subseteq Range(run.events),
           Range(part) \subseteq Range(run.events)
    PROVE  Shows(u, run) /\ Noted(u) = Noted(l)
<1>1. part \in Seq(Logged)
  BY LoggedSeq
<1>2. /\ DOMAIN part = 1..Len(part)
      /\ \A i \in DOMAIN l : i \in DOMAIN u /\ u[i] = l[i]
      /\ \A i \in DOMAIN u : \/ i \in DOMAIN l
                             \/ i - Len(l) \in DOMAIN part /\ u[i] = part[i - Len(l)]
  BY <1>1, Concat
<1>3. \A i \in DOMAIN part : part[i] \in Event /\ part[i] \in Range(run.events)
  BY <1>2, ElementOfSeq DEF Range
<1>4. \A e \in Event : e \notin Notice
  BY DEF Event, Notice
<1>5. \A i \in DOMAIN u : i \in DOMAIN l \/ (u[i] \notin Notice /\ u[i] \in Range(run.events))
  BY <1>2, <1>3, <1>4
<1>6. Noted(u) = Noted(l)
  BY <1>2, <1>5 DEF Noted
<1>7. /\ \A i \in DOMAIN l \ Noted(l) : l[i] \in Range(run.events)
      /\ \A i \in Noted(l) : /\ run.trigger = "schedule"
                             /\ <<l[i][1], "ended">> \in Range(run.events)
      /\ \A i, j \in Noted(l) : i = j
  BY DEF Shows
<1>8. \A i \in Noted(l) : i \in DOMAIN l
  BY DEF Noted
<1>9. \A i \in DOMAIN u \ Noted(u) : u[i] \in Range(run.events)
  BY <1>2, <1>5, <1>6, <1>7
<1>10. \A i \in Noted(u) : /\ run.trigger = "schedule"
                           /\ <<u[i][1], "ended">> \in Range(run.events)
  BY <1>2, <1>6, <1>7, <1>8
<1> QED
  BY <1>6, <1>7, <1>9, <1>10 DEF Shows

(* The scheduler's notice follows.                                           *)
LEMMA ShowsNotice ==
    ASSUME NEW l \in Seq(Logged), NEW run \in Run, Shows(l, run), Noted(l) = {},
           NEW i \in Nat \ {0}, run.trigger = "schedule",
           <<i, "ended">> \in Range(run.events),
           NEW u, u = l \o <<<<i, "completed">>>>
    PROVE  Shows(u, run)
<1> DEFINE note == <<<<i, "completed">>>>
<1>1. /\ <<i, "completed">> \in Logged /\ note \in Seq(Logged) /\ Len(note) = 1
      /\ note[1] = <<i, "completed">>
  BY DEF Logged, Notice
<1> HIDE DEF note
<1>2. /\ Len(l) \in Nat /\ DOMAIN note = 1..1
      /\ \A j \in DOMAIN l : j \in DOMAIN u /\ u[j] = l[j]
      /\ \A j \in DOMAIN u : \/ j \in DOMAIN l
                             \/ j - Len(l) \in DOMAIN note /\ u[j] = note[j - Len(l)]
      /\ DOMAIN l = 1..Len(l) /\ DOMAIN u = 1..Len(u)
  BY <1>1, Concat DEF note
<1>3. \A j \in DOMAIN u : j \in DOMAIN l \/ (j = Len(l) + 1 /\ u[j] = <<i, "completed">>)
  BY <1>1, <1>2
<1>4. \A j \in DOMAIN l : l[j] \notin Notice /\ l[j] \in Range(run.events)
  BY DEF Shows, Noted
<1>5. \A j \in Noted(u) : j = Len(l) + 1 /\ u[j] = <<i, "completed">>
  BY <1>2, <1>3, <1>4 DEF Noted
<1>6. \A j \in DOMAIN u \ Noted(u) : u[j] \in Range(run.events)
  <2>1. <<i, "completed">> \in Notice
    BY DEF Notice
  <2> QED
    BY <1>2, <1>3, <1>4, <2>1 DEF Noted
<1>7. <<i, "completed">>[1] = i
  OBVIOUS
<1>8. \A j \in Noted(u) : /\ run.trigger = "schedule"
                          /\ <<u[j][1], "ended">> \in Range(run.events)
  BY <1>5, <1>7
<1> QED
  BY <1>5, <1>6, <1>8 DEF Shows

(* A timeline with its notice, when the run gets more events.                *)
LEMMA NotedMore ==
    ASSUME NEW l \in Seq(Logged), NEW events \in Seq(Event), NEW p \in DOMAIN events,
           NotedAfter(l, events, p), NEW more \in Seq(Event),
           NEW u, u = l \o more, NEW all, all = events \o more
    PROVE  p \in DOMAIN all /\ NotedAfter(u, all, p)
<1>1. more \in Seq(Logged)
  BY LoggedSeq
<1>2. /\ Len(u) = Len(l) + Len(more) /\ DOMAIN l = 1..Len(l) /\ DOMAIN more = 1..Len(more)
      /\ DOMAIN u = 1..Len(u) /\ Len(l) \in Nat /\ Len(more) \in Nat
      /\ \A i \in DOMAIN l : i \in DOMAIN u /\ u[i] = l[i]
      /\ \A i \in DOMAIN more : u[Len(l) + i] = more[i]
  BY <1>1, Concat
<1>3. /\ Len(all) = Len(events) + Len(more) /\ DOMAIN events = 1..Len(events)
      /\ Len(events) \in Nat /\ DOMAIN all = 1..Len(all)
      /\ \A i \in DOMAIN events : i \in DOMAIN all /\ all[i] = events[i]
      /\ \A i \in DOMAIN more : all[Len(events) + i] = more[i]
  BY Concat
<1>4. /\ Len(l) = Len(events) + 1
      /\ \A i \in 1..p : l[i] = events[i]
      /\ events[p][2] = "ended" /\ l[p + 1] = <<events[p][1], "completed">>
      /\ \A i \in p + 1..Len(events) : l[i + 1] = events[i]
  BY DEF NotedAfter
<1>5. p \in DOMAIN all /\ all[p] = events[p] /\ p \in Nat /\ p <= Len(events)
  BY <1>3
<1>6. Len(u) = Len(all) + 1
  BY <1>2, <1>3, <1>4
<1>7. \A i \in 1..p : u[i] = all[i]
  <2> TAKE i \in 1..p
  <2>1. i \in DOMAIN l /\ i \in DOMAIN events
    BY <1>2, <1>3, <1>4, <1>5
  <2> QED
    BY <1>2, <1>3, <1>4, <2>1
<1>8. u[p + 1] = <<all[p][1], "completed">>
  <2>1. p + 1 \in DOMAIN l
    BY <1>2, <1>4, <1>5
  <2> QED
    BY <1>2, <1>4, <1>5, <2>1
<1>9. \A i \in p + 1..Len(all) : u[i + 1] = all[i]
  <2> TAKE i \in p + 1..Len(all)
  <2>1. CASE i <= Len(events)
    <3>1. i \in p + 1..Len(events) /\ i \in DOMAIN events /\ i + 1 \in DOMAIN l
      BY <1>2, <1>3, <1>4, <1>5, <2>1
    <3> QED
      BY <1>2, <1>3, <1>4, <3>1
  <2>2. CASE i > Len(events)
    <3>0. PICK j : j = i - Len(events)
      OBVIOUS
    <3>1. j \in DOMAIN more /\ i = Len(events) + j /\ i + 1 = Len(l) + j
      BY <1>2, <1>3, <1>4, <1>5, <2>2, <3>0
    <3> QED
      BY <1>2, <1>3, <3>1
  <2>3. i \in Int /\ Len(events) \in Int
    BY <1>3
  <2>4. i <= Len(events) \/ i > Len(events)
    BY <2>3
  <2> QED
    BY <2>1, <2>2, <2>4
<1> QED
  BY <1>4, <1>5, <1>6, <1>7, <1>8, <1>9 DEF NotedAfter

(* A timeline that was the run's own log gets its notice.                    *)
LEMMA NotedLast ==
    ASSUME NEW events \in Seq(Event), NEW i \in Nat \ {0}, events # <<>>,
           events[Len(events)] = <<i, "ended">>,
           NEW u, u = events \o <<<<i, "completed">>>>
    PROVE  Len(events) \in DOMAIN events /\ NotedAfter(u, events, Len(events))
<1> DEFINE note == <<<<i, "completed">>>>
<1>1. /\ <<i, "completed">> \in Logged /\ note \in Seq(Logged) /\ Len(note) = 1
      /\ note[1] = <<i, "completed">> /\ events \in Seq(Logged)
  BY LoggedSeq DEF Logged, Notice
<1> HIDE DEF note
<1>2. /\ Len(events) \in Nat /\ DOMAIN events = 1..Len(events) /\ DOMAIN note = 1..1
      /\ \A j \in DOMAIN events : u[j] = events[j]
      /\ \A j \in DOMAIN note : u[Len(events) + j] = note[j]
      /\ Len(u) = Len(events) + 1
  BY <1>1, Concat DEF note
<1>3. Len(events) # 0
  BY EmptySeq
<1>4. Len(events) \in DOMAIN events
  BY <1>2, <1>3
<1>5. u[Len(events) + 1] = <<i, "completed">>
  BY <1>1, <1>2
<1>6. <<i, "ended">>[1] = i /\ <<i, "ended">>[2] = "ended"
  OBVIOUS
<1>7. \A j \in Len(events) + 1..Len(events) : u[j + 1] = events[j]
  BY <1>2
<1> QED
  BY <1>2, <1>4, <1>5, <1>6, <1>7 DEF NotedAfter

LEMMA RangeConcat ==
    ASSUME NEW S, NEW s \in Seq(S), NEW t \in Seq(S)
    PROVE  Range(s \o t) = Range(s) \cup Range(t)
<1>1. /\ Len(s) \in Nat /\ Len(t) \in Nat /\ DOMAIN s = 1..Len(s) /\ DOMAIN t = 1..Len(t)
      /\ DOMAIN (s \o t) = 1..(Len(s) + Len(t))
  BY LenProperties, ConcatProperties
<1>2. \A i \in 1..(Len(s) + Len(t)) :
         (s \o t)[i] = IF i <= Len(s) THEN s[i] ELSE t[i - Len(s)]
  BY ConcatProperties
<1>3. \A i \in DOMAIN s : i \in DOMAIN (s \o t) /\ (s \o t)[i] = s[i]
  BY <1>1, <1>2
<1>4. \A i \in DOMAIN t : Len(s) + i \in DOMAIN (s \o t) /\ (s \o t)[Len(s) + i] = t[i]
  BY <1>1, <1>2
<1>5. \A i \in DOMAIN (s \o t) :
         \/ i \in DOMAIN s /\ (s \o t)[i] = s[i]
         \/ i - Len(s) \in DOMAIN t /\ (s \o t)[i] = t[i - Len(s)]
  BY <1>1, <1>2
<1> DEFINE u == s \o t
<1> HIDE DEF u
<1>6. Range(u) \subseteq Range(s) \cup Range(t)
  BY <1>5 DEF Range, u
<1>7. Range(s) \subseteq Range(u)
  BY <1>3 DEF Range, u
<1>8. Range(t) \subseteq Range(u)
  <2>1. \A i \in DOMAIN t : t[i] \in Range(u)
    BY <1>4 DEF Range, u
  <2> QED
    BY <2>1 DEF Range
<1>9. Range(u) = Range(s) \cup Range(t)
  BY <1>6, <1>7, <1>8
<1> QED
  BY <1>9 DEF u

(* What a prefix leaves, and where the elements of a part come from.         *)
LEMMA Remainder ==
    ASSUME NEW S, NEW s \in Seq(S), NEW t \in Seq(S)
    PROVE  SubSeq(s \o t, Len(s) + 1, Len(s \o t)) = t
<1> DEFINE part == SubSeq(s \o t, Len(s) + 1, Len(s \o t))
<1>1. /\ Len(s) \in Nat /\ Len(t) \in Nat /\ Len(s \o t) = Len(s) + Len(t)
      /\ \A i \in 1..(Len(s) + Len(t)) :
            (s \o t)[i] = IF i <= Len(s) THEN s[i] ELSE t[i - Len(s)]
  BY LenProperties, ConcatProperties
<1>2. \A i \in (Len(s) + 1)..Len(s \o t) : (s \o t)[i] \in S
  BY <1>1, ConcatProperties, ElementOfSeq
<1>3. /\ part \in Seq(S)
      /\ Len(part) = IF Len(s) + 1 <= Len(s \o t) THEN Len(s \o t) - (Len(s) + 1) + 1 ELSE 0
      /\ \A i \in 1..(Len(s \o t) - (Len(s) + 1) + 1) : part[i] = (s \o t)[Len(s) + 1 + i - 1]
  BY <1>1, <1>2, SubSeqProperties
<1>4. Len(part) = Len(t)
  BY <1>1, <1>3
<1>5. \A i \in 1..Len(t) : part[i] = t[i]
  BY <1>1, <1>3
<1> HIDE DEF part
<1>6. part = t
  BY <1>3, <1>4, <1>5, SeqEqual
<1> QED
  BY <1>6 DEF part

LEMMA PartRange ==
    ASSUME NEW S, NEW s \in Seq(S), NEW m \in Nat \ {0}, NEW n \in Nat, n <= Len(s)
    PROVE  /\ SubSeq(s, m, n) \in Seq(S)
           /\ Range(SubSeq(s, m, n)) \subseteq Range(s)
<1> DEFINE part == SubSeq(s, m, n)
<1>1. Len(s) \in Nat /\ DOMAIN s = 1..Len(s)
  BY LenProperties
<1>2. \A i \in m..n : s[i] \in S
  BY <1>1, ElementOfSeq
<1>3. /\ part \in Seq(S) /\ Len(part) = IF m <= n THEN n - m + 1 ELSE 0
      /\ \A i \in 1..(n - m + 1) : part[i] = s[m + i - 1]
  BY <1>2, SubSeqProperties
<1>4. DOMAIN part = 1..Len(part)
  BY <1>3, LenProperties
<1> HIDE DEF part
<1>5. ASSUME NEW i \in DOMAIN part
      PROVE  m + i - 1 \in DOMAIN s /\ part[i] = s[m + i - 1]
  <2>1. i \in 1..(n - m + 1)
    BY <1>3, <1>4
  <2>2. m + i - 1 \in 1..Len(s)
    BY <1>1, <2>1
  <2> QED
    BY <1>1, <1>3, <2>1, <2>2
<1>6. Range(part) \subseteq Range(s)
  BY <1>5 DEF Range
<1> QED
  BY <1>3, <1>6 DEF part

(* The runs that are not written to.                                         *)
LEMMA OthersTimelines ==
    ASSUME TypeOK, Timelines, NEW q \in DOMAIN runs, runs'[q] = runs[q], log'[q] = log[q],
           synced'[q] <= Len(runs[q].events), Awaited(q)' => Awaited(q),
           crashes' = 0 => /\ crashes = 0 /\ synced'[q] = synced[q]
                           /\ Awaited(q)' = Awaited(q)
    PROVE  TimelineOf(q)'
<1>1. /\ Shows(log[q], runs[q])
      /\ Awaited(q) => runs[q].trigger = "schedule" /\ Noted(log[q]) = {}
      /\ crashes = 0 => synced[q] = Len(runs[q].events) /\ AsWritten(q)
  BY DEF Timelines, TimelineOf
<1>2. Shows(log'[q], runs'[q])
  BY <1>1
<1>3. Awaited(q)' => runs'[q].trigger = "schedule" /\ Noted(log'[q]) = {}
  BY <1>1
<1>4. crashes' = 0 => synced'[q] = Len(runs'[q].events) /\ AsWritten(q)'
  <2> SUFFICES ASSUME crashes' = 0 PROVE synced'[q] = Len(runs'[q].events) /\ AsWritten(q)'
    OBVIOUS
  <2>1. AsWritten(q) /\ synced[q] = Len(runs[q].events) /\ Awaited(q)' = Awaited(q)
    BY <1>1
  <2>2. AsWritten(q)'
    <3>1. CASE Awaited(q)
      BY <2>1, <3>1 DEF AsWritten
    <3>2. CASE ~Awaited(q)
      BY <2>1, <3>2 DEF AsWritten
    <3> QED
      BY <3>1, <3>2
  <2> QED
    BY <2>1, <2>2
<1>5. synced'[q] <= Len(runs'[q].events)
  OBVIOUS
<1> QED
  BY <1>2, <1>3, <1>4, <1>5 DEF TimelineOf

(* A run is stored that has the events of the stored one, and perhaps more:   *)
(* either nobody waits for it and nothing is noted, or a fire does, whose     *)
(* execution the events now show to have ended, and that is noted.           *)
StoredBy(r, run, notes) ==
    \/ ~Awaited(r) /\ notes = <<>>
    \/ /\ Awaited(r)
       /\ \E i \in Nat \ {0} : /\ notes = <<<<i, "completed">>>>
                               /\ run.events # <<>>
                               /\ run.events[Len(run.events)] = <<i, "ended">>

LEMMA StoreTimeline ==
    ASSUME TypeOK, Timelines, NEW r \in DOMAIN runs, NEW run \in Run,
           NEW others \in SUBSET executions, \A x \in executions : x \in others <=> x.run # r,
           NEW notes \in Seq(Logged), Persist(r, run, notes, others),
           StoredBy(r, run, notes), run.trigger = runs[r].trigger,
           NEW more \in Seq(Event), run.events = runs[r].events \o more
    PROVE  Timelines'
<1> DEFINE old == runs[r].events
           new == Unsynced(r, run)
<1>1. /\ DOMAIN runs = 1..Len(runs) /\ Len(runs) \in Nat
      /\ log \in Seq(Seq(Logged)) /\ DOMAIN log = DOMAIN runs
      /\ synced \in Seq(Nat) /\ DOMAIN synced = DOMAIN runs
      /\ crashes \in Nat /\ runs[r] \in Run
  BY RunsFacts, LenProperties DEF TypeOK
<1>2. /\ log[r] \in Seq(Logged) /\ synced[r] \in Nat
      /\ old \in Seq(Event) /\ run.events \in Seq(Event)
  BY <1>1, ElementOfSeq DEF Run
<1>3. /\ Len(old) \in Nat /\ Len(more) \in Nat /\ Len(run.events) \in Nat
      /\ Len(run.events) = Len(old) + Len(more)
      /\ Range(old) \subseteq Range(run.events)
  BY <1>2, LenProperties, ConcatProperties, RangeConcat
<1>4. /\ synced[r] <= Len(old) /\ Shows(log[r], runs[r])
      /\ Awaited(r) => runs[r].trigger = "schedule" /\ Noted(log[r]) = {}
      /\ crashes = 0 => synced[r] = Len(old) /\ AsWritten(r)
  BY DEF Timelines, TimelineOf
<1>5. new \in Seq(Event) /\ Range(new) \subseteq Range(run.events)
  <2>1. /\ synced[r] + 1 \in Nat \ {0} /\ Len(run.events) \in Nat
        /\ Len(run.events) <= Len(run.events) /\ run.events \in Seq(Event)
    BY <1>2, <1>3
  <2> QED
    BY <2>1, PartRange DEF Unsynced
<1>6. runs' = [runs EXCEPT ![r] = run] /\ DOMAIN runs' = DOMAIN runs
  BY PersistFacts
<1>7. runs'[r] = run /\ \A q \in DOMAIN runs : q # r => runs'[q] = runs[q]
  BY <1>6
<1>8. \A q \in DOMAIN runs : Len(runs[q].events) \in Nat
  <2>1. \A q \in DOMAIN runs : runs[q].events \in Seq(Event)
    BY RunsFacts DEF Run
  <2> QED
    BY <2>1, LenProperties
<1>9. CASE PersistAll(r, run, notes) /\ executions' = others
  <2>1. /\ log' = [log EXCEPT ![r] = log[r] \o new \o notes]
        /\ synced' = [synced EXCEPT ![r] = Len(run.events)]
        /\ crashes' = crashes
    BY <1>9 DEF PersistAll
  <2>2. /\ log'[r] = log[r] \o new \o notes /\ synced'[r] = Len(run.events)
        /\ \A q \in DOMAIN runs : q # r => log'[q] = log[q] /\ synced'[q] = synced[q]
    BY <1>1, <2>1
  <2>3. ~Awaited(r)'
    BY <1>9 DEF Awaited
  <2>4. \A q \in DOMAIN runs : q # r => Awaited(q)' = Awaited(q)
    BY <1>9 DEF Awaited
  <2>5. PICK u : u = log[r] \o new
    OBVIOUS
  <2>6. u \in Seq(Logged) /\ Shows(u, run) /\ Noted(u) = Noted(log[r])
    <3>1. new \in Seq(Logged)
      BY <1>5, LoggedSeq
    <3> HIDE DEF new
    <3>2. u \in Seq(Logged)
      BY <1>2, <2>5, <3>1, Concat
    <3>3. /\ log[r] \in Seq(Logged) /\ new \in Seq(Event) /\ u = log[r] \o new
          /\ runs[r] \in Run /\ run \in Run /\ Shows(log[r], runs[r])
          /\ run.trigger = runs[r].trigger
          /\ Range(runs[r].events) \subseteq Range(run.events)
          /\ Range(new) \subseteq Range(run.events)
      BY <1>1, <1>2, <1>3, <1>4, <1>5, <2>5
    <3>4. Shows(u, run) /\ Noted(u) = Noted(log[r])
      BY <3>3, ShowsMore
    <3> QED
      BY <3>2, <3>4
  <2>7. crashes = 0 => new = more
    BY <1>2, <1>4, Remainder DEF Unsynced
  <2> HIDE DEF new
  <2>8. ASSUME ~Awaited(r), notes = <<>> PROVE TimelineOf(r)'
    <3>1. log'[r] = u
      BY <2>2, <2>5, <2>6, <2>8, ConcatEmptySeq
    <3>2. ASSUME crashes = 0 PROVE AsWritten(r)'
      <4>1. u = log[r] \o more /\ AsWritten(r)
        BY <1>4, <2>5, <2>7, <3>2
      <4>2. CASE runs[r].trigger = "manual"
        <5>1. log[r] = old
          BY <4>1, <4>2 DEF AsWritten
        <5> QED
          BY <1>7, <3>1, <4>1, <4>2, <5>1 DEF AsWritten
      <4>3. CASE runs[r].trigger # "manual"
        <5>1. PICK p \in DOMAIN old : NotedAfter(log[r], old, p)
          BY <2>8, <4>1, <4>3 DEF AsWritten
        <5>2. p \in DOMAIN run.events /\ NotedAfter(u, run.events, p)
          BY <1>2, <4>1, <5>1, NotedMore
        <5> QED
          BY <1>7, <2>3, <3>1, <4>3, <5>2 DEF AsWritten
      <4> QED
        BY <4>2, <4>3
    <3>3. Shows(log'[r], runs'[r]) /\ synced'[r] = Len(run.events)
      BY <1>7, <2>2, <2>6, <3>1
    <3>4. /\ synced'[r] <= Len(runs'[r].events) /\ synced'[r] = Len(runs'[r].events)
          /\ Shows(log'[r], runs'[r])
      <4>1. runs'[r] = run /\ synced'[r] = Len(run.events) /\ Shows(log'[r], run)
        BY <1>7, <3>3
      <4>2. Len(run.events) <= Len(run.events)
        BY <1>3
      <4> QED
        BY <4>1, <4>2
    <3>5. crashes' = 0 => AsWritten(r)'
      BY <2>1, <3>2
    <3> QED
      BY <2>3, <3>4, <3>5 DEF TimelineOf
  <2>9. ASSUME Awaited(r), notes # <<>> PROVE TimelineOf(r)'
    <3>1. PICK i \in Nat \ {0} : /\ notes = <<<<i, "completed">>>>
                                 /\ run.events # <<>>
                                 /\ run.events[Len(run.events)] = <<i, "ended">>
      BY <2>9 DEF StoredBy
    <3>2. <<i, "ended">> \in Range(run.events)
      <4>1. Len(run.events) # 0 /\ DOMAIN run.events = 1..Len(run.events)
        BY <1>2, <3>1, EmptySeq, LenProperties
      <4>2. Len(run.events) \in DOMAIN run.events
        BY <1>3, <4>1
      <4> QED
        BY <3>1, <4>2 DEF Range
    <3>3. log'[r] = u \o <<<<i, "completed">>>>
      BY <2>2, <2>5, <3>1
    <3>4. Noted(u) = {} /\ run.trigger = "schedule"
      BY <1>4, <2>6, <2>9
    <3>5. Shows(log'[r], run)
      BY <2>6, <3>2, <3>3, <3>4, ShowsNotice
    <3>6. ASSUME crashes = 0 PROVE AsWritten(r)'
      <4>1. log[r] = old
        BY <1>4, <2>9, <3>6 DEF AsWritten
      <4>2. u = run.events
        BY <2>5, <2>7, <3>6, <4>1
      <4>3. /\ Len(run.events) \in DOMAIN run.events
            /\ NotedAfter(log'[r], run.events, Len(run.events))
        BY <1>2, <3>1, <3>3, <4>2, NotedLast
      <4> QED
        BY <1>7, <2>3, <3>4, <4>3 DEF AsWritten
    <3>7. /\ synced'[r] <= Len(runs'[r].events) /\ synced'[r] = Len(runs'[r].events)
          /\ Shows(log'[r], runs'[r])
      <4>1. runs'[r] = run /\ synced'[r] = Len(run.events) /\ Shows(log'[r], run)
        BY <1>7, <2>2, <3>5
      <4>2. Len(run.events) <= Len(run.events)
        BY <1>3
      <4> QED
        BY <4>1, <4>2
    <3>8. crashes' = 0 => AsWritten(r)'
      BY <2>1, <3>6
    <3> QED
      BY <2>3, <3>7, <3>8 DEF TimelineOf
  <2>10. TimelineOf(r)'
    <3>1. ASSUME NEW i PROVE <<<<i, "completed">>>> # <<>>
      OBVIOUS
    <3> QED
      BY <2>8, <2>9, <3>1 DEF StoredBy
  <2>11. \A q \in DOMAIN runs : q # r => TimelineOf(q)'
    <3> SUFFICES ASSUME NEW q \in DOMAIN runs, q # r PROVE TimelineOf(q)'
      OBVIOUS
    <3>1. synced[q] <= Len(runs[q].events)
      BY DEF Timelines, TimelineOf
    <3> QED
      BY <1>7, <2>1, <2>2, <2>4, <3>1, OthersTimelines
  <2> QED
    BY <1>6, <2>10, <2>11 DEF Timelines
<1>10. CASE PersistThenDie(r, run)
  <2>1. PICK k \in 0..Len(new) : log' = [log EXCEPT ![r] = log[r] \o SubSeq(new, 1, k)]
    BY <1>10 DEF PersistThenDie
  <2>2. /\ synced' = [q \in DOMAIN synced |-> 0] /\ crashes' = crashes + 1
        /\ executions' = {}
    BY <1>10 DEF PersistThenDie, Die
  <2> DEFINE part == SubSeq(new, 1, k)
  <2>3. part \in Seq(Event) /\ Range(part) \subseteq Range(new)
    BY <1>5, <2>1, LenProperties, PartRange
  <2>4. /\ log'[r] = log[r] \o part
        /\ \A q \in DOMAIN runs : q # r => log'[q] = log[q]
    BY <1>1, <2>1
  <2> HIDE DEF part, new
  <2>5. Shows(log'[r], run)
    <3>1. Range(part) \subseteq Range(run.events)
      BY <1>5, <2>3
    <3> QED
      BY <1>1, <1>2, <1>3, <1>4, <2>3, <2>4, <3>1, ShowsMore
  <2>6. crashes' # 0 /\ \A q \in DOMAIN runs : ~Awaited(q)' /\ synced'[q] = 0
    BY <1>1, <2>2 DEF Awaited
  <2>7. TimelineOf(r)'
    BY <1>3, <1>7, <2>5, <2>6 DEF TimelineOf
  <2>8. \A q \in DOMAIN runs : q # r => TimelineOf(q)'
    <3> SUFFICES ASSUME NEW q \in DOMAIN runs, q # r PROVE TimelineOf(q)'
      OBVIOUS
    <3>1. synced'[q] <= Len(runs[q].events)
      BY <1>8, <2>6
    <3> QED
      BY <1>7, <2>4, <2>6, <3>1, OthersTimelines
  <2> QED
    BY <1>6, <2>7, <2>8 DEF Timelines
<1> QED
  BY <1>9, <1>10 DEF Persist

(* What is handed back has the trigger and the events that were handed over,  *)
(* and two more, of which the last says that the execution has ended.        *)
LEMMA ResultEvents ==
    ASSUME NEW x \in Execution, NEW result \in Results(x)
    PROVE  /\ result.trigger = x.base.trigger
           /\ result.events # <<>>
           /\ result.events[Len(result.events)] = <<x.id, "ended">>
           /\ \E more \in Seq(Event) : result.events = x.base.events \o more
<1> DEFINE more == <<<<x.id, "started">>, <<x.id, "ended">>>>
<1>1. x.base \in Run /\ x.id \in Nat \ {0}
  BY DEF Execution
<1>2. /\ more \in Seq(Event) /\ Len(more) = 2 /\ more[2] = <<x.id, "ended">>
      /\ DOMAIN more = 1..2
  BY <1>1 DEF Event
<1>3. \A status, done, requests :
         /\ Result(x, status, done, requests).events = x.base.events \o more
         /\ Result(x, status, done, requests).trigger = x.base.trigger
  BY <1>1 DEF Result, Run
<1>4. result.events = x.base.events \o more /\ result.trigger = x.base.trigger
  <2> HIDE DEF more
  <2>1. \/ result = Result(x, "FAILED", x.done, <<>>)
        \/ result = Result(x, "SUCCEEDED", 2, <<>>)
        \/ result = Result(x, "WAITING_APPROVAL", x.done, <<"PENDING">>)
    BY DEF Results
  <2> QED
    BY <1>3, <2>1
<1>5. result.events # <<>> /\ result.events[Len(result.events)] = <<x.id, "ended">>
  <2> HIDE DEF more
  <2>1. x.base.events \in Seq(Event)
    BY <1>1 DEF Run
  <2>2. PICK u, e : u = result.events /\ e = x.base.events
    OBVIOUS
  <2>3. u = e \o more /\ e \in Seq(Event) /\ more \in Seq(Event)
    BY <1>2, <1>4, <2>1, <2>2
  <2>4. /\ Len(u) = Len(e) + Len(more) /\ Len(e) \in Nat
        /\ \A i \in DOMAIN more : u[Len(e) + i] = more[i]
    BY <2>3, Concat
  <2>5. Len(u) # 0 /\ u[Len(u)] = <<x.id, "ended">>
    BY <1>2, <2>4
  <2> QED
    BY <2>2, <2>5, EmptySeq
<1> QED
  BY <1>2, <1>4, <1>5

LEMMA TimelineStep ==
    ASSUME CallersWait
    PROVE  Quiet /\ Timelines /\ [Next]_vars => Timelines'
<1> SUFFICES ASSUME Quiet, Timelines, [Next]_vars PROVE Timelines'
  OBVIOUS
<1>0. TypeOK /\ DOMAIN log = DOMAIN runs /\ DOMAIN synced = DOMAIN runs
  <2>1. /\ runs \in Seq(Run) /\ log \in Seq(Seq(Logged)) /\ synced \in Seq(Nat)
        /\ Len(log) = Len(runs) /\ Len(synced) = Len(runs)
    BY DEF Quiet, TypeOK
  <2> QED
    BY <2>1, LenProperties DEF Quiet
<1>1. ASSUME UNCHANGED <<runs, log, synced, crashes>>,
             \A r \in DOMAIN runs : Awaited(r)' = Awaited(r)
      PROVE  Timelines'
  <2> SUFFICES ASSUME NEW r \in DOMAIN runs PROVE TimelineOf(r)'
    BY <1>1 DEF Timelines
  <2>1. synced[r] <= Len(runs[r].events)
    BY DEF Timelines, TimelineOf
  <2> QED
    BY <1>0, <1>1, <2>1, OthersTimelines
<1>2. ASSUME NEW x \in executions, TakeEffect(x) PROVE Timelines'
  <2>1. x \in Execution
    BY DEF Quiet, TypeOK
  <2>2. [x EXCEPT !.done = 1].run = x.run /\ [x EXCEPT !.done = 1].cause = x.cause
    BY <2>1 DEF Execution
  <2>3. /\ executions' = (executions \ {x}) \cup {[x EXCEPT !.done = 1]}
        /\ UNCHANGED <<runs, log, synced, crashes>>
    BY <1>2 DEF TakeEffect
  <2>4. \A r : Awaited(r)' = Awaited(r)
    BY <2>2, <2>3 DEF Awaited
  <2> QED
    BY <1>1, <2>3, <2>4
<1>3. ASSUME NEW x \in executions, Return(x) PROVE Timelines'
  <2>1. x \in Execution /\ x.run \in DOMAIN runs /\ x.base = runs[x.run]
        /\ \A y \in executions : y \in executions \ {x} <=> y.run # x.run
    BY DEF Quiet, TypeOK, Settled
  <2>2. PICK result \in Results(x) : Persist(x.run, result, Notes(x), executions \ {x})
    BY <1>3 DEF Return
  <2>3. /\ result \in Run /\ result.trigger = runs[x.run].trigger
        /\ result.events # <<>>
        /\ result.events[Len(result.events)] = <<x.id, "ended">>
        /\ \E more \in Seq(Event) : result.events = runs[x.run].events \o more
    BY <2>1, ResultsFacts, ResultEvents
  <2>4. StoredBy(x.run, result, Notes(x))
    <3>1. CASE x.cause = "schedule"
      <4>1. Awaited(x.run) /\ Notes(x) = <<<<x.id, "completed">>>> /\ x.id \in Nat \ {0}
        BY <2>1, <3>1 DEF Awaited, Notes, Execution
      <4> QED
        BY <2>3, <4>1 DEF StoredBy
    <3>2. CASE x.cause # "schedule"
      BY <2>1, <3>2 DEF Awaited, Notes, StoredBy
    <3> QED
      BY <3>1, <3>2
  <2>5. Notes(x) \in Seq(Logged)
    BY <2>1, NotesType
  <2> QED
    BY <1>0, <2>1, <2>2, <2>3, <2>4, <2>5, StoreTimeline
<1>4. ASSUME NEW r \in DOMAIN runs, NEW run \in Run, run.events = runs[r].events,
             run.trigger = runs[r].trigger, Addressable(r),
             Persist(r, run, <<>>, executions)
      PROVE  Timelines'
  <2>1. runs[r].events \in Seq(Event)
    BY <1>0, RunsFacts DEF Run
  <2>2. run.events = runs[r].events \o <<>> /\ <<>> \in Seq(Event)
    BY <1>4, <2>1, ConcatEmptySeq, EmptySeq
  <2>3. \A x \in executions : x \in executions <=> x.run # r
    BY <1>4 DEF Addressable, Busy
  <2>4. StoredBy(r, run, <<>>)
    BY <2>3 DEF StoredBy, Awaited
  <2> QED
    BY <1>0, <1>4, <2>2, <2>3, <2>4, LoggedSeq, StoreTimeline
<1>5. ASSUME NEW r \in DOMAIN runs, Cancel(r) PROVE Timelines'
  <2> DEFINE run == [runs[r] EXCEPT !.status = "CANCELLED"]
  <2>1. runs[r] \in Run /\ run \in Run /\ Persist(r, run, <<>>, executions)
    BY <1>0, <1>5, RunsFacts, EditFacts DEF Cancel
  <2>2. run.events = runs[r].events /\ run.trigger = runs[r].trigger
    BY <2>1 DEF Run
  <2>3. Addressable(r)
    BY <1>5 DEF Cancel
  <2> QED
    BY <1>4, <2>1, <2>2, <2>3
<1>6. ASSUME NEW r \in DOMAIN runs, NEW i \in DOMAIN runs[r].approvals,
             NEW d \in Decisions, Decide(r, i, d)
      PROVE  Timelines'
  <2> DEFINE run == [runs[r] EXCEPT !.approvals[i] = d]
  <2>1. runs[r] \in Run /\ run \in Run /\ Persist(r, run, <<>>, executions)
    BY <1>0, <1>6, RunsFacts, EditFacts DEF Decide
  <2>2. run.events = runs[r].events /\ run.trigger = runs[r].trigger
    BY <2>1 DEF Run
  <2>3. Addressable(r)
    BY <1>6 DEF Decide
  <2> QED
    BY <1>4, <2>1, <2>2, <2>3
<1>7. ASSUME NEW r, StartExecution(r, runs[r], "manual"),
             UNCHANGED <<runs, log, synced, crashes>>
      PROVE  Timelines'
  <2> DEFINE x == [id |-> issued + 1, run |-> r, base |-> runs[r], done |-> runs[r].done,
                   cause |-> "manual"]
  <2>1. executions' = executions \cup {x} /\ x.cause = "manual"
    BY <1>7 DEF StartExecution
  <2> HIDE DEF x
  <2>2. \A q : Awaited(q)' = Awaited(q)
    BY <2>1 DEF Awaited
  <2> QED
    BY <1>1, <1>7, <2>2
<1>8. ASSUME NEW key \in Keys \cup {NoKey}, NEW version \in Versions,
             NEW trigger \in {"manual", "schedule"}, Execute(key, version, trigger)
      PROVE  Timelines'
  <2>0. PICK n : n = Len(runs) + 1
    OBVIOUS
  <2>1. /\ DOMAIN runs' = DOMAIN runs \cup {n} /\ \A r \in DOMAIN runs : runs'[r] = runs[r]
        /\ runs'[n] = NewRun(key, version, trigger) /\ n \notin DOMAIN runs
        /\ executions' = executions \cup {NewExecution(key, version, trigger)}
    BY <1>0, <1>8, <2>0, ExecuteFacts
  <2>2. /\ log' = Append(log, <<>>) /\ synced' = Append(synced, 0) /\ crashes' = crashes
        /\ log \in Seq(Seq(Logged)) /\ Len(log) = Len(runs)
        /\ synced \in Seq(Nat) /\ Len(synced) = Len(runs)
    BY <1>0, <1>8 DEF Execute, TypeOK
  <2>3. <<>> \in Seq(Logged) /\ Len(<<>>) = 0 /\ DOMAIN <<>> = {} /\ DOMAIN runs = 1..Len(runs)
    BY <1>0, RunsFacts, LoggedSeq, EmptySeq
  <2>4. /\ log'[n] = <<>> /\ synced'[n] = 0
        /\ \A r \in DOMAIN runs : log'[r] = log[r] /\ synced'[r] = synced[r]
    BY <2>0, <2>2, <2>3, AppendProperties
  <2>5. /\ NewExecution(key, version, trigger).run = n
        /\ NewExecution(key, version, trigger).cause = trigger
    BY <2>0 DEF NewExecution
  <2>6. \A r \in DOMAIN runs : Awaited(r)' = Awaited(r)
    BY <2>1, <2>5 DEF Awaited
  <2>7. Awaited(n)' <=> trigger = "schedule"
    <3>1. \A x \in executions : x.run # n
      BY <1>0, <2>1 DEF TypeOK
    <3> QED
      BY <2>1, <2>5, <3>1 DEF Awaited
  <2>8. TimelineOf(n)'
    <3>1. runs'[n].events = <<>> /\ synced'[n] <= Len(<<>>) /\ runs'[n].trigger = trigger
      BY <2>1, <2>3, <2>4 DEF NewRun
    <3>2. Noted(<<>>) = {}
      BY <2>3 DEF Noted
    <3>3. Shows(log'[n], runs'[n])
      BY <2>3, <2>4, <3>2 DEF Shows
    <3>4. AsWritten(n)'
      BY <2>4, <2>7, <3>1 DEF AsWritten
    <3> QED
      BY <2>3, <2>4, <2>7, <3>1, <3>2, <3>3, <3>4 DEF TimelineOf
  <2>9. \A r \in DOMAIN runs : TimelineOf(r)'
    <3> SUFFICES ASSUME NEW r \in DOMAIN runs PROVE TimelineOf(r)'
      OBVIOUS
    <3>1. synced[r] <= Len(runs[r].events)
      BY DEF Timelines, TimelineOf
    <3> QED
      BY <1>0, <2>1, <2>2, <2>4, <2>6, <3>1, OthersTimelines
  <2> QED
    BY <2>1, <2>8, <2>9 DEF Timelines
<1>9. CASE Startup \/ StartupEnds \/ UNCHANGED vars
  <2>1. UNCHANGED <<runs, log, synced, crashes, executions>>
    BY <1>9 DEF Startup, StartupEnds, vars
  <2>2. \A r : Awaited(r)' = Awaited(r)
    BY <2>1 DEF Awaited
  <2> QED
    BY <1>1, <2>1, <2>2
<1>10. CASE Crash
  <2>1. /\ UNCHANGED <<runs, log>> /\ synced' = [r \in DOMAIN synced |-> 0]
        /\ crashes' = crashes + 1 /\ executions' = {}
    BY <1>10 DEF Crash, Die
  <2>2. crashes \in Nat /\ \A r \in DOMAIN runs : Len(runs[r].events) \in Nat
    <3>1. \A r \in DOMAIN runs : runs[r].events \in Seq(Event)
      BY <1>0, RunsFacts DEF Run
    <3> QED
      BY <1>0, <3>1, LenProperties DEF TypeOK
  <2>3. crashes' # 0 /\ \A r \in DOMAIN runs : synced'[r] = 0 /\ ~Awaited(r)'
    BY <1>0, <2>1, <2>2 DEF Awaited
  <2>4. \A r \in DOMAIN runs : synced'[r] <= Len(runs[r].events)
    BY <2>2, <2>3
  <2>5. \A r \in DOMAIN runs : TimelineOf(r)'
    BY <1>0, <2>1, <2>3, <2>4, OthersTimelines
  <2> QED
    BY <2>1, <2>5 DEF Timelines
<1>11. ASSUME NEW r \in DOMAIN runs, Resume(r) PROVE Timelines'
  BY <1>7, <1>11 DEF Resume
<1>12. CASE ResumeNext
  <2>1. PICK r \in toResume : StartExecution(r, runs[r], "manual")
    BY <1>12 DEF ResumeNext
  <2> QED
    BY <1>7, <1>12, <2>1 DEF ResumeNext
<1> QED
  BY <1>2, <1>3, <1>5, <1>6, <1>8, <1>9, <1>10, <1>11, <1>12 DEF Next, Client

(* Under the same assumption the durable timeline of a run shows its events   *)
(* and at most one notice of the scheduler, about an execution of a scheduled *)
(* run that has ended; and as long as the process has not died it is the      *)
(* run's event log, with that notice right behind the end of the execution   *)
(* that the fire waited for.                                                 *)
THEOREM TimelineFaithfulHolds ==
    ASSUME CallersWait
    PROVE  Spec => []TimelineFaithful
<1>1. Init => Quiet /\ Timelines
  BY QuietInit DEF Init, Timelines
<1>2. Quiet /\ Timelines /\ [Next]_vars => Quiet' /\ Timelines'
  BY QuietStep, TimelineStep
<1>3. Quiet /\ Timelines => TimelineFaithful
  <2> SUFFICES ASSUME Timelines, NEW r \in DOMAIN runs
               PROVE  /\ Shows(log[r], runs[r])
                      /\ crashes = 0 => AsWritten(r)
    BY DEF TimelineFaithful, AsWritten
  <2> QED
    BY DEF Timelines, TimelineOf
<1> QED
  BY <1>1, <1>2, <1>3, PTL DEF Spec
=============================================================================
