----------------------- MODULE WorkflowExecutorProofs -----------------------
(* Theorems about WorkflowExecutor, for every workflow and every bound.      *)
EXTENDS WorkflowExecutor, SequenceTheorems, FiniteSetTheorems, WellFoundedInduction, TLAPS

(* What any step of any task does, as far as the invariants are concerned:   *)
(* a task that has not ended moves, and may record an outcome as it ends.    *)
TaskEffect(s) ==
    /\ pc[s] \in {"queued", "running", "backoff"}
    /\ \E p \in Places \ {"idle", "queued"} :
          (p = "paused" => s \in Approval) /\ pc' = [pc EXCEPT ![s] = p]
    /\ \/ UNCHANGED records
       \/ /\ pc'[s] = "done"
          /\ \E o \in {"SUCCEEDED", "SKIPPED"} : records' = [records EXCEPT ![s] = o]
    /\ \E k \in Nat : attempt' = [attempt EXCEPT ![s] = k]
    /\ \E t \in Timer : left' = [left EXCEPT ![s] = t]
    /\ UNCHANGED <<stored, active, overall, budget, begins>>

LEMMA LimitIsTimer ==
    ASSUME NEW s \in Step, budget \in Timer
    PROVE  AttemptLimit(s) \in Timer
BY TimeAssumption DEF AttemptLimit, OwnLimit, Timer, Timeout

LEMMA TimerFacts == None \in Timer /\ StepTimeout \in [Step -> Timer]
BY TimeAssumption DEF Timer, Timeout

LEMMA RecordEffect ==
    ASSUME TypeOK, NEW s \in Step, NEW o \in {"SUCCEEDED", "SKIPPED"}, Record(s, o),
           pc[s] \in {"queued", "running", "backoff"}
    PROVE  TaskEffect(s)
<1>1. pc' = [pc EXCEPT ![s] = "done"] /\ pc'[s] = "done"
  BY DEF Record, Move, TypeOK
<1>2. attempt' = [attempt EXCEPT ![s] = 0] /\ left' = [left EXCEPT ![s] = None]
  BY DEF Record, Move
<1>3. records' = [records EXCEPT ![s] = o]
  BY DEF Record
<1>4. UNCHANGED <<stored, active, overall, budget, begins>>
  BY DEF Record, Move
<1>5. "done" \in Places \ {"idle", "queued"}
  BY DEF Places
<1> QED
  BY <1>1, <1>2, <1>3, <1>4, <1>5, TimerFacts DEF TaskEffect

LEMMA RaiseEffect ==
    ASSUME TypeOK, NEW s \in Step, NEW to \in {"paused", "failed", "timedout"},
           NEW t \in Timer, Raise(s, to, t), to = "paused" => s \in Approval,
           pc[s] \in {"queued", "running", "backoff"}
    PROVE  TaskEffect(s)
<1>1. pc' = [pc EXCEPT ![s] = to] /\ left' = [left EXCEPT ![s] = t]
  BY DEF Raise, Move
<1>2. attempt' = [attempt EXCEPT ![s] = 0] /\ UNCHANGED records
  BY DEF Raise
<1>3. UNCHANGED <<stored, active, overall, budget, begins>>
  BY DEF Raise, Move
<1>4. to \in Places \ {"idle", "queued"}
  BY DEF Places
<1> QED
  BY <1>1, <1>2, <1>3, <1>4 DEF TaskEffect

LEMMA RetryEffect ==
    ASSUME TypeOK, NEW s \in Step, RetryOrGiveUp(s), pc[s] = "running"
    PROVE  TaskEffect(s)
<1>1. CASE attempt[s] < Retries[s] /\ attempt' = [attempt EXCEPT ![s] = @ + 1]
           /\ Move(s, "backoff", Delay[s][attempt[s] + 1]) /\ UNCHANGED records
  <2>1. attempt[s] \in Nat /\ Retries[s] \in Nat
    BY PolicyAssumption DEF TypeOK
  <2>2. attempt[s] + 1 \in 1..Retries[s]
    BY <1>1, <2>1
  <2>3. Delay[s][attempt[s] + 1] \in Timer
    BY <2>2, PolicyAssumption DEF Timer
  <2>4. "backoff" \in Places \ {"idle", "queued"}
    BY DEF Places
  <2>5. attempt' = [attempt EXCEPT ![s] = attempt[s] + 1] /\ attempt[s] + 1 \in Nat
    BY <1>1, <2>1
  <2>6. pc' = [pc EXCEPT ![s] = "backoff"] /\ left' = [left EXCEPT ![s] = Delay[s][attempt[s] + 1]]
    BY <1>1 DEF Move
  <2>7. UNCHANGED <<stored, active, overall, budget, begins>>
    BY <1>1 DEF Move
  <2> QED
    BY <1>1, <2>3, <2>4, <2>5, <2>6, <2>7 DEF TaskEffect
<1>2. CASE Record(s, "SKIPPED")
  BY <1>2, RecordEffect
<1>3. CASE Record(s, "SUCCEEDED")
  BY <1>3, RecordEffect
<1>4. CASE Raise(s, "failed", None)
  BY <1>4, RaiseEffect, TimerFacts
<1> QED
  BY <1>1, <1>2, <1>3, <1>4 DEF RetryOrGiveUp

LEMMA RunEffect ==
    ASSUME TypeOK, NEW s \in Step, Move(s, "running", AttemptLimit(s)),
           UNCHANGED <<records, attempt>>, pc[s] \in {"queued", "backoff"}
    PROVE  TaskEffect(s)
<1>1. AttemptLimit(s) \in Timer
  BY LimitIsTimer DEF TypeOK
<1>2. pc' = [pc EXCEPT ![s] = "running"] /\ left' = [left EXCEPT ![s] = AttemptLimit(s)]
  BY DEF Move
<1>3. attempt' = [attempt EXCEPT ![s] = attempt[s]] /\ attempt[s] \in Nat
  BY DEF TypeOK
<1>4. UNCHANGED <<stored, active, overall, budget, begins>>
  BY DEF Move
<1>5. "running" \in Places \ {"idle", "queued"}
  BY DEF Places
<1> QED
  BY <1>1, <1>2, <1>3, <1>4, <1>5 DEF TaskEffect

LEMMA TaskStep ==
    ASSUME TypeOK, NEW s \in Step, Task(s)
    PROVE  TaskEffect(s)
<1>1. CASE AdmitSkip(s)
  BY <1>1, RecordEffect DEF AdmitSkip, Admitted
<1>2. CASE AdmitFail(s)
  BY <1>2, RaiseEffect, TimerFacts DEF AdmitFail, Admitted
<1>3. CASE AdmitRun(s)
  BY <1>3, RunEffect DEF AdmitRun, Admitted
<1>4. CASE AttemptSucceeds(s)
  BY <1>4, RecordEffect DEF AttemptSucceeds
<1>5. CASE AttemptFails(s)
  BY <1>5, RetryEffect DEF AttemptFails
<1>6. CASE AttemptTimesOut(s)
  <2>1. CASE Raise(s, "timedout", None)
    BY <1>6, <2>1, RaiseEffect, TimerFacts DEF AttemptTimesOut
  <2>2. CASE RetryOrGiveUp(s)
    BY <1>6, <2>2, RetryEffect DEF AttemptTimesOut
  <2> QED
    BY <1>6, <2>1, <2>2 DEF AttemptTimesOut
<1>7. CASE ApprovalDecided(s)
  BY <1>7, RecordEffect DEF ApprovalDecided
<1>8. CASE ApprovalExpired(s)
  BY <1>8, RetryEffect DEF ApprovalExpired
<1>9. CASE ApprovalPauses(s)
  BY <1>9, RaiseEffect, TimerFacts DEF ApprovalPauses
<1>10. CASE BackoffEnds(s)
  BY <1>10, RunEffect DEF BackoffEnds
<1> QED
  BY <1>1, <1>2, <1>3, <1>4, <1>5, <1>6, <1>7, <1>8, <1>9, <1>10 DEF Task

-----------------------------------------------------------------------------
(* The inductive invariant.  Beyond the properties it says what connects the *)
(* engine's state with the stored run: an idle engine has no tasks, a stored *)
(* outcome is in the engine's records, an unfinished task has no outcome.    *)
Request == [step : Approval, decision : Decisions, left : Timer]

Connected ==
    /\ ~active => pc = Idle /\ records = saved
    /\ active => status \in Resumable
    /\ \A s \in Step : saved[s] # "none" => records[s] = saved[s]
    /\ \A s \in Step : pc[s] \in {"queued", "running", "backoff", "paused"}
                          => records[s] = "none"
    /\ \A s \in Step : pc[s] = "paused" => s \in Approval
    /\ OverallTimeout = None => overall = None

IInv ==
    /\ TypeOK
    /\ Connected
    /\ DependencyOrder
    /\ OverallTimeout = None => SucceededMeansAllDone

LEMMA InitIInv == Init => IInv
<1> SUFFICES ASSUME Init PROVE IInv
  OBVIOUS
<1> USE DEF Init
<1>1. TypeOK
  <2>1. status \in Statuses /\ saved \in [Step -> Outcomes] /\ pc \in [Step -> Places]
    BY DEF Statuses, Resumable, Outcomes, Places, Idle
  <2>2. left \in [Step -> Timer] /\ overall \in Timer /\ budget \in Timer
    BY TimerFacts
  <2>3. approvals \in Seq([step : Approval, decision : Decisions, left : Timer])
    BY EmptySeq
  <2>4. events \in Seq(Events) /\ active \in BOOLEAN /\ begins \in Nat
    BY EmptySeq
  <2>5. records \in [Step -> Outcomes] /\ attempt \in [Step -> Nat]
    BY <2>1
  <2> QED
    BY <2>1, <2>2, <2>3, <2>4, <2>5 DEF TypeOK
<1>2. Connected
  BY DEF Connected, Idle
<1>3. DependencyOrder
  BY DEF DependencyOrder, Idle, Finished
<1>4. SucceededMeansAllDone
  BY DEF SucceededMeansAllDone
<1> QED
  BY <1>1, <1>2, <1>3, <1>4 DEF IInv

LEMMA FinalizeIInv ==
    ASSUME IInv, active,
           NEW to \in Statuses, NEW reqs \in Seq(Request), NEW evs \in Seq(Events),
           Finalize(to, reqs, evs),
           OverallTimeout = None /\ to = "SUCCEEDED" => Finished(records) = Step
    PROVE  IInv'
<1>1. /\ status' = to /\ saved' = records /\ records' = records /\ approvals' = reqs
      /\ active' = FALSE /\ pc' = Idle /\ begins' = begins
      /\ overall' = None /\ budget' = None
      /\ attempt' = [s \in Step |-> 0] /\ left' = [s \in Step |-> None]
      /\ events' = (events \o <<"RUN_STARTED">>) \o evs
  BY DEF Finalize, Reset
<1>2. events' \in Seq(Events)
  <2>1. events \in Seq(Events) /\ <<"RUN_STARTED">> \in Seq(Events)
    BY DEF IInv, TypeOK, Events
  <2> QED
    BY <1>1, <2>1
<1>3. TypeOK'
  BY <1>1, <1>2, TimerFacts
     DEF IInv, TypeOK, Idle, Places, Request, Timer
<1>4. Connected'
  BY <1>1 DEF Connected, Idle
<1>5. DependencyOrder'
  BY <1>1 DEF IInv, DependencyOrder, Idle, Finished
<1>6. OverallTimeout = None => SucceededMeansAllDone'
  BY <1>1 DEF SucceededMeansAllDone, Finished
<1> QED
  BY <1>3, <1>4, <1>5, <1>6 DEF IInv

LEMMA TaskIInv ==
    ASSUME IInv, NEW s \in Step, TaskEffect(s)
    PROVE  IInv'
<1> USE DEF TaskEffect, IInv
<1>1. UNCHANGED <<status, saved, approvals, events, active, overall, budget, begins>>
  BY DEF stored
<1>2. PICK p \in Places \ {"idle", "queued"} :
          (p = "paused" => s \in Approval) /\ pc' = [pc EXCEPT ![s] = p]
  OBVIOUS
<1>3. /\ pc \in [Step -> Places] /\ records \in [Step -> Outcomes]
      /\ attempt \in [Step -> Nat] /\ left \in [Step -> Timer]
  BY DEF TypeOK
<1>4. records' \in [Step -> Outcomes]
  BY <1>3 DEF Outcomes
<1>5. records[s] = "none"
  BY DEF Connected
<1>6. \A t \in Step \ {s} : records'[t] = records[t] /\ pc'[t] = pc[t]
  BY <1>2, <1>3
<1>7. TypeOK'
  <2>1. pc' \in [Step -> Places]
    BY <1>2, <1>3
  <2>2. attempt' \in [Step -> Nat] /\ left' \in [Step -> Timer]
    BY <1>3
  <2> QED
    BY <1>1, <1>4, <2>1, <2>2 DEF TypeOK
<1>8. active
  BY <1>3 DEF Connected, Idle, Places
<1>9. Connected'
  <2>1. \A t \in Step : saved'[t] # "none" => records'[t] = saved'[t]
    BY <1>1, <1>5, <1>6 DEF Connected
  <2>2. \A t \in Step : pc'[t] \in {"queued", "running", "backoff", "paused"}
                            => records'[t] = "none"
    <3>1. pc'[s] \in {"queued", "running", "backoff", "paused"} => records'[s] = "none"
      BY <1>5
    <3> QED
      BY <1>6, <3>1 DEF Connected
  <2>3. \A t \in Step : pc'[t] = "paused" => t \in Approval
    BY <1>2, <1>3 DEF Connected
  <2> QED
    BY <1>1, <1>8, <2>1, <2>2, <2>3 DEF Connected
<1>10. Finished(records) \subseteq Finished(records')
  BY <1>5, <1>6 DEF Finished
<1>11. DependencyOrder'
  <2>1. \A t \in Step : (pc'[t] # "idle" \/ records'[t] # "none")
                             => Deps[t] \subseteq Finished(records)
    <3>1. Deps[s] \subseteq Finished(records)
      BY DEF DependencyOrder
    <3> QED
      BY <1>6, <3>1 DEF DependencyOrder
  <2> QED
    BY <1>1, <1>10, <2>1 DEF DependencyOrder, Finished
<1>12. OverallTimeout = None => SucceededMeansAllDone'
  BY <1>1 DEF SucceededMeansAllDone, Finished
<1> QED
  BY <1>7, <1>9, <1>11, <1>12

(* With an acyclic graph, nothing is ready only when everything is finished. *)
LEMMA NothingReady ==
    ASSUME records \in [Step -> Outcomes], Ready = {}
    PROVE  Finished(records) = Step
<1> DEFINE rest == Step \ Finished(records)
<1> SUFFICES ASSUME rest # {} PROVE FALSE
  BY DEF Finished
<1>1. PICK s \in rest : Deps[s] \cap rest = {}
  BY DepsAssumption
<1>2. Deps[s] \subseteq Finished(records)
  BY <1>1, DepsAssumption
<1>3. s \in Ready
  BY <1>1, <1>2 DEF Ready, Finished
<1> QED
  BY <1>3

LEMMA NextIInv == IInv /\ [Next]_vars => IInv'
<1> SUFFICES ASSUME IInv, [Next]_vars PROVE IInv'
  OBVIOUS
<1>t. TypeOK /\ <<>> \in Seq(Events) /\ approvals \in Seq(Request)
  BY DEF IInv, TypeOK, Request
<1>1. CASE Begin
  <2>1. TypeOK'
    BY <1>1, <1>t, TimeAssumption DEF Begin, TypeOK, Timer, Timeout
  <2>2. Connected'
    BY <1>1, <1>t DEF Begin, IInv, Connected, Idle
  <2>3. DependencyOrder'
    BY <1>1 DEF Begin, IInv, DependencyOrder, Connected, Idle, Finished
  <2> QED
    BY <1>1, <2>1, <2>2, <2>3 DEF Begin, IInv, SucceededMeansAllDone, Finished
<1>2. CASE FinishRun
  <2>1. Finished(records) = Step
    BY <1>2, <1>t, NothingReady DEF FinishRun, TypeOK
  <2>2. "SUCCEEDED" \in Statuses /\ <<"RUN_COMPLETED">> \in Seq(Events)
    BY DEF Statuses, Events
  <2> QED
    BY <1>2, <1>t, <2>1, <2>2, FinalizeIInv DEF FinishRun, AtLoopTop
<1>3. CASE DeadlinePassed
  <2>1. overall = -1 => OverallTimeout # None
    BY TimeAssumption DEF IInv, Connected
  <2>2. "SUCCEEDED" \in Statuses /\ <<"RUN_TIMED_OUT", "RUN_COMPLETED">> \in Seq(Events)
    BY DEF Statuses, Events
  <2> QED
    BY <1>3, <1>t, <2>1, <2>2, FinalizeIInv DEF DeadlinePassed, AtLoopTop
<1>4. CASE StartWave
  <2>1. UNCHANGED <<status, saved, approvals, events, active, records, attempt, left, overall, begins>>
    BY <1>4 DEF StartWave, stored
  <2>2. TypeOK'
    BY <1>4, <1>t, <2>1 DEF StartWave, TypeOK, Places
  <2>3. Connected'
    BY <1>4, <2>1 DEF StartWave, AtLoopTop, IInv, Connected, Ready
  <2>4. DependencyOrder'
    BY <1>4, <2>1 DEF StartWave, IInv, DependencyOrder, Ready, Finished
  <2> QED
    BY <2>1, <2>2, <2>3, <2>4 DEF IInv, SucceededMeansAllDone, Finished
<1>5. CASE \E s \in Step : Task(s)
  BY <1>5, <1>t, TaskStep, TaskIInv
<1>6. CASE WaveRaises
  <2>1. {"FAILED", "TIMED_OUT"} \subseteq Statuses
    BY DEF Statuses
  <2>2. <<"RUN_FAILED">> \in Seq(Events) /\ <<"RUN_TIMED_OUT">> \in Seq(Events)
    BY DEF Events
  <2>3. active
    BY <1>6 DEF WaveRaises, WaveOver
  <2>4. CASE Finalize("FAILED", approvals, <<"RUN_FAILED">>)
    BY <1>t, <2>1, <2>2, <2>3, <2>4, FinalizeIInv
  <2>5. CASE Finalize("TIMED_OUT", approvals, <<"RUN_TIMED_OUT">>)
    BY <1>t, <2>1, <2>2, <2>3, <2>5, FinalizeIInv
  <2> QED
    BY <1>6, <2>4, <2>5 DEF WaveRaises
<1>7. CASE WavePauses
  <2>1. PICK s \in Paused :
            Finalize("WAITING_APPROVAL",
                     Append(approvals, [step |-> s, decision |-> "PENDING", left |-> left[s]]),
                     <<"APPROVAL_REQUESTED">>)
    BY <1>7 DEF WavePauses
  <2>2. s \in Step /\ pc[s] = "paused"
    BY DEF Paused, Wave
  <2>3. s \in Approval /\ active /\ left[s] \in Timer
    BY <1>7, <2>2 DEF IInv, TypeOK, Connected, WavePauses, WaveOver
  <2>4. [step |-> s, decision |-> "PENDING", left |-> left[s]] \in Request
    BY <2>3 DEF Request, Decisions
  <2>5. Append(approvals, [step |-> s, decision |-> "PENDING", left |-> left[s]]) \in Seq(Request)
    BY <1>t, <2>4
  <2>6. "WAITING_APPROVAL" \in Statuses /\ <<"APPROVAL_REQUESTED">> \in Seq(Events)
    BY DEF Statuses, Resumable, Events
  <2> QED
    BY <2>1, <2>3, <2>5, <2>6, FinalizeIInv
<1>8. CASE WaveCompletes
  <2>1. UNCHANGED <<status, saved, approvals, events, active, records, attempt, left, overall, budget, begins>>
    BY <1>8 DEF WaveCompletes, stored
  <2>2. TypeOK'
    BY <1>8, <1>t, <2>1 DEF WaveCompletes, TypeOK, Places, Idle
  <2>3. Connected'
    BY <1>8, <2>1 DEF WaveCompletes, WaveOver, IInv, Connected, Idle
  <2>4. DependencyOrder'
    BY <1>8, <2>1 DEF WaveCompletes, IInv, DependencyOrder, Idle, Finished
  <2> QED
    BY <2>1, <2>2, <2>3, <2>4 DEF IInv, SucceededMeansAllDone, Finished
<1>9. CASE \E i \in DOMAIN approvals, d \in {"APPROVED", "REJECTED"} : Decide(i, d)
  <2>1. PICK i \in DOMAIN approvals, d \in {"APPROVED", "REJECTED"} : Decide(i, d)
    BY <1>9
  <2>2. UNCHANGED <<status, saved, events, active, records, pc, attempt, left, overall, budget, begins>>
    BY <2>1 DEF Decide, engine
  <2>3. approvals' \in Seq(Request)
    <3>1. approvals' = [approvals EXCEPT ![i].decision = d]
      BY <2>1 DEF Decide
    <3>2. approvals[i] \in Request /\ d \in Decisions
      BY <1>t DEF Decisions
    <3>3. [approvals[i] EXCEPT !.decision = d] \in Request
      BY <3>2 DEF Request
    <3>4. approvals' = [approvals EXCEPT ![i] = [approvals[i] EXCEPT !.decision = d]]
      BY <3>1
    <3> QED
      BY <1>t, <3>3, <3>4
  <2> QED
    BY <1>t, <2>2, <2>3 DEF IInv, TypeOK, Request, Connected, DependencyOrder,
                           SucceededMeansAllDone, Finished
<1>10. CASE Crash
  <2>1. UNCHANGED <<status, saved, approvals, events, begins>>
    BY <1>10 DEF Crash, stored
  <2>2. TypeOK'
    BY <1>10, <1>t, <2>1, TimerFacts DEF Crash, Reset, TypeOK, Places, Idle
  <2>3. Connected'
    BY <1>10, <2>1 DEF Crash, Reset, IInv, Connected, Idle
  <2>4. DependencyOrder'
    BY <1>10, <2>1 DEF Crash, Reset, IInv, DependencyOrder, Idle, Finished
  <2> QED
    BY <2>1, <2>2, <2>3, <2>4 DEF IInv, SucceededMeansAllDone, Finished
<1>11. CASE Tick
  <2>0. \A t \in Timer : Dec(t) \in Timer
    BY TimeAssumption DEF Dec, Timer
  <2>1. left' \in [Step -> Timer]
    BY <1>11, <1>t, <2>0 DEF Tick, TypeOK
  <2>2. overall' \in Timer \cup {-1} /\ (overall = None => overall' = None)
    BY <1>11, <1>t, TimeAssumption DEF Tick, TypeOK, DeadlineDec, Timer
  <2>3. approvals' \in Seq(Request)
    <3>1. approvals' = [i \in DOMAIN approvals |-> [approvals[i] EXCEPT !.left = Dec(approvals[i].left)]]
      BY <1>11 DEF Tick
    <3>2. \A r \in Request : [r EXCEPT !.left = Dec(r.left)] \in Request
      BY <2>0 DEF Request
    <3>3. Len(approvals) \in Nat /\ DOMAIN approvals = 1..Len(approvals)
      BY <1>t
    <3>4. \A i \in 1..Len(approvals) : approvals[i] \in Request
      BY <1>t
    <3>5. approvals' \in [1..Len(approvals) -> Request]
      BY <3>1, <3>2, <3>3, <3>4
    <3> QED
      BY <3>3, <3>5, SeqDef
  <2>4. UNCHANGED <<status, saved, events, active, records, pc, attempt, budget, begins>>
    BY <1>11 DEF Tick
  <2> QED
    BY <1>t, <2>1, <2>2, <2>3, <2>4
       DEF IInv, TypeOK, Request, Connected, DependencyOrder, SucceededMeansAllDone, Finished
<1>12. CASE UNCHANGED vars
  BY <1>12 DEF vars, IInv, TypeOK, Connected, DependencyOrder, SucceededMeansAllDone, Finished
<1> QED
  BY <1>1, <1>2, <1>3, <1>4, <1>5, <1>6, <1>7, <1>8, <1>9, <1>10, <1>11, <1>12 DEF Next

-----------------------------------------------------------------------------
LEMMA Invariance == Spec => []IInv
BY InitIInv, NextIInv, PTL DEF Spec

(* Every variable keeps its type: in particular no timer is ever negative,   *)
(* an engine never runs with a status outside the statuses it can store, and *)
(* only approval steps make requests (WorkflowExecutor.run, executor.py).    *)
THEOREM TypeCorrect == Spec => []TypeOK
<1>1. IInv => TypeOK
  BY DEF IInv
<1> QED
  BY <1>1, Invariance, PTL

(* For every graph, concurrency and failure pattern, across pauses, resumes  *)
(* and crashes, no step starts or is recorded before its dependencies        *)
(* (ready_steps of graph.py as used by the loop of run()).                   *)
THEOREM DependencyOrderHolds == Spec => []DependencyOrder
<1>1. IInv => DependencyOrder
  BY DEF IInv
<1> QED
  BY <1>1, Invariance, PTL

(* An outcome that was stored is final: the step is never queued or run      *)
(* again ("completed steps are restored, not re-run", executor.py:18-19).    *)
THEOREM StoredNeverRerunHolds == Spec => []StoredNeverRerun
<1>1. IInv => StoredNeverRerun
  BY DEF IInv, Connected, StoredNeverRerun
<1> QED
  BY <1>1, Invariance, PTL

(* Without an overall timeout, a run stored as SUCCEEDED has finished every  *)
(* step: here the acyclicity that the validator checks is needed.            *)
THEOREM SucceededComplete ==
    ASSUME OverallTimeout = None
    PROVE  Spec => []SucceededMeansAllDone
<1>1. IInv => SucceededMeansAllDone
  BY DEF IInv
<1> QED
  BY <1>1, Invariance, PTL

-----------------------------------------------------------------------------
(* Refinement of DurableRun. *)

LEMMA FinalizeRefines ==
    ASSUME IInv, active, OverallTimeout = None,
           NEW to \in DR!Final \cup {"WAITING_APPROVAL"}, NEW reqs, NEW evs,
           Finalize(to, reqs, evs),
           to = "SUCCEEDED" => Finished(records) = Step,
           to = "WAITING_APPROVAL" => Finished(records) # Step
    PROVE  DR!Next
<1>1. status' = to /\ saved' = records
  BY DEF Finalize
<1>2. Finished(saved) \subseteq Finished(records) /\ Finished(saved)' = Finished(records)
  BY <1>1 DEF IInv, Connected, Finished
<1>3. DR!Closed(Finished(records))
  BY DEF IInv, DependencyOrder, DR!Closed, Finished
<1>4. status \in DR!Open
  BY DEF IInv, Connected, Resumable, DR!Open
<1>5. DR!Save(to, Finished(records))
  BY <1>1, <1>2, <1>3, <1>4 DEF DR!Save
<1>6. Finished(records) \in SUBSET Step
  BY DEF Finished
<1> QED
  BY <1>5, <1>6 DEF DR!Next

LEMMA InitRefines == Init => DR!Init
BY DEF Init, DR!Init, Finished

LEMMA StepRefines ==
    ASSUME IInv, OverallTimeout = None, [Next]_vars
    PROVE  [DR!Next]_(DR!vars)
<1>s. (status' = status /\ saved' = saved) => UNCHANGED DR!vars
  BY DEF DR!vars, Finished
<1>1. CASE Begin
  BY <1>1, <1>s DEF Begin
<1>2. CASE FinishRun
  <2>1. Finished(records) = Step
    BY <1>2, NothingReady DEF FinishRun, IInv, TypeOK
  <2>2. "SUCCEEDED" \in DR!Final
    BY DEF DR!Final
  <2> QED
    BY <1>2, <2>1, <2>2, FinalizeRefines DEF FinishRun, AtLoopTop
<1>3. CASE DeadlinePassed
  <2>1. overall = None /\ overall = -1
    BY <1>3 DEF DeadlinePassed, IInv, Connected
  <2> QED
    BY <2>1, TimeAssumption
<1>4. CASE StartWave
  BY <1>4, <1>s DEF StartWave, stored
<1>5. CASE \E s \in Step : Task(s)
  <2>1. PICK s \in Step : TaskEffect(s)
    BY <1>5, TaskStep DEF IInv
  <2> QED
    BY <2>1, <1>s DEF TaskEffect, stored
<1>6. CASE WaveRaises
  <2>1. {"FAILED", "TIMED_OUT"} \subseteq DR!Final
    BY DEF DR!Final
  <2>2. active
    BY <1>6 DEF WaveRaises, WaveOver
  <2>3. CASE Finalize("FAILED", approvals, <<"RUN_FAILED">>)
    BY <2>1, <2>2, <2>3, FinalizeRefines
  <2>4. CASE Finalize("TIMED_OUT", approvals, <<"RUN_TIMED_OUT">>)
    BY <2>1, <2>2, <2>4, FinalizeRefines
  <2> QED
    BY <1>6, <2>3, <2>4 DEF WaveRaises
<1>7. CASE WavePauses
  <2>1. PICK s \in Paused :
            Finalize("WAITING_APPROVAL",
                     Append(approvals, [step |-> s, decision |-> "PENDING", left |-> left[s]]),
                     <<"APPROVAL_REQUESTED">>)
    BY <1>7 DEF WavePauses
  <2>2. s \in Step /\ records[s] = "none" /\ active
    BY <1>7 DEF Paused, Wave, IInv, Connected, WavePauses, WaveOver
  <2>3. Finished(records) # Step
    BY <2>2 DEF Finished
  <2> QED
    BY <2>1, <2>2, <2>3, FinalizeRefines
<1>8. CASE WaveCompletes
  BY <1>8, <1>s DEF WaveCompletes, stored
<1>9. CASE \E i \in DOMAIN approvals, d \in {"APPROVED", "REJECTED"} : Decide(i, d)
  BY <1>9, <1>s DEF Decide
<1>10. CASE Crash
  BY <1>10, <1>s DEF Crash, stored
<1>11. CASE Tick
  BY <1>11, <1>s DEF Tick
<1>12. CASE UNCHANGED vars
  BY <1>12, <1>s DEF vars
<1> QED
  BY <1>1, <1>2, <1>3, <1>4, <1>5, <1>6, <1>7, <1>8, <1>9, <1>10, <1>11, <1>12 DEF Next

(* Without an overall timeout, the engine with its waves, tasks, retries,    *)
(* pauses and crashes implements DurableRun: the stored run moves between    *)
(* statuses once and for all, and its finished steps grow and stay closed    *)
(* under dependencies.  (With one, DeadlinePassed stores an incomplete run   *)
(* as SUCCEEDED: run ExecOverrun.)                                          *)
THEOREM Refinement ==
    ASSUME OverallTimeout = None
    PROVE  Spec => RefinesDurableRun
<1>1. IInv /\ [Next]_vars => [DR!Next]_(DR!vars)
  BY StepRefines
<1> QED
  BY <1>1, InitRefines, Invariance, PTL DEF Spec, RefinesDurableRun, DR!Spec

-----------------------------------------------------------------------------
(* Failures and pauses.                                                      *)

(* When a task of the wave has failed, what is handed over says so: only     *)
(* the end of run() adds events, and an error of a wave is looked at before  *)
(* its pauses (the scan of the gathered results in run()).                   *)
THEOREM FailureNotMaskedHolds == Spec => FailureNotMasked
<1>1. ASSUME [Next]_vars, Raised # {}, events' # events
      PROVE  status' \in {"FAILED", "TIMED_OUT"}
  <2>1. Wave # {}
    BY <1>1 DEF Raised
  <2>2. CASE WaveRaises
    BY <2>2 DEF WaveRaises, Finalize
  <2>3. ~FinishRun /\ ~DeadlinePassed /\ ~WavePauses
    BY <1>1, <2>1 DEF FinishRun, DeadlinePassed, WavePauses, AtLoopTop
  <2>4. ASSUME NEW s \in Step, Task(s) PROVE events' = events
    BY <2>4 DEF Task, AdmitSkip, AdmitFail, AdmitRun, AttemptSucceeds, AttemptFails,
                AttemptTimesOut, ApprovalDecided, ApprovalExpired, ApprovalPauses,
                BackoffEnds, RetryOrGiveUp, Record, Raise, Move, stored
  <2>5. CASE Begin \/ StartWave \/ WaveCompletes \/ Crash \/ Tick \/ UNCHANGED vars
    BY <1>1, <2>5 DEF Begin, StartWave, WaveCompletes, Crash, Tick, vars, stored
  <2>6. CASE \E i \in DOMAIN approvals, d \in {"APPROVED", "REJECTED"} : Decide(i, d)
    BY <1>1, <2>6 DEF Decide
  <2> QED
    BY <1>1, <2>2, <2>3, <2>4, <2>5, <2>6 DEF Next
<1>2. [Next]_vars =>
        [(Raised # {} /\ events' # events) => status' \in {"FAILED", "TIMED_OUT"}]_vars
  BY <1>1
<1> QED
  BY <1>2, PTL DEF Spec, FailureNotMasked

(* The newest request of a run that waits belongs to a step that the stored  *)
(* run leaves ready.  It holds while an engine works as well, for a crash    *)
(* leaves what was stored before.                                            *)
Awaited ==
    status = "WAITING_APPROVAL" =>
        /\ approvals # <<>>
        /\ saved[approvals[Len(approvals)].step] = "none"
        /\ Deps[approvals[Len(approvals)].step] \subseteq Finished(saved)

LEMMA AwaitedStep == IInv /\ Awaited /\ [Next]_vars => Awaited'
<1> SUFFICES ASSUME IInv, Awaited, [Next]_vars PROVE Awaited'
  OBVIOUS
<1>1. approvals \in Seq(Request)
  BY DEF IInv, TypeOK, Request
<1>2. ASSUME UNCHANGED <<status, saved, approvals>> PROVE Awaited'
  BY <1>2 DEF Awaited, Finished
<1>3. ASSUME UNCHANGED <<status, saved>>, approvals' \in Seq(Request),
             Len(approvals') = Len(approvals),
             \A i \in 1..Len(approvals) : approvals'[i].step = approvals[i].step
      PROVE  Awaited'
  <2>1. approvals # <<>> => approvals' # <<>> /\ Len(approvals) \in 1..Len(approvals)
    BY <1>1, <1>3, EmptySeq, LenProperties
  <2> QED
    BY <1>3, <2>1 DEF Awaited, Finished
<1>4. ASSUME NEW to \in Statuses \ {"WAITING_APPROVAL"}, NEW reqs, NEW evs,
             Finalize(to, reqs, evs)
      PROVE  Awaited'
  BY <1>4 DEF Finalize, Awaited
<1>5. CASE FinishRun \/ DeadlinePassed \/ WaveRaises
  BY <1>4, <1>5 DEF FinishRun, DeadlinePassed, WaveRaises, Statuses
<1>6. CASE WavePauses
  <2>1. PICK s \in Paused :
            Finalize("WAITING_APPROVAL",
                     Append(approvals, [step |-> s, decision |-> "PENDING", left |-> left[s]]),
                     <<"APPROVAL_REQUESTED">>)
    BY <1>6 DEF WavePauses
  <2> DEFINE request == [step |-> s, decision |-> "PENDING", left |-> left[s]]
  <2>2. s \in Approval /\ records[s] = "none" /\ Deps[s] \subseteq Finished(records)
        /\ left[s] \in Timer
    BY DEF Paused, Wave, IInv, Connected, DependencyOrder, TypeOK
  <2>3. request \in Request
    BY <2>2 DEF Request, Decisions
  <2>4. approvals' = Append(approvals, request) /\ saved' = records
    BY <2>1 DEF Finalize
  <2> HIDE DEF request
  <2>5. approvals' # <<>> /\ approvals'[Len(approvals')] = request
    BY <1>1, <2>3, <2>4, AppendProperties
  <2>6. request.step = s
    BY DEF request
  <2> QED
    BY <2>2, <2>4, <2>5, <2>6 DEF Awaited, Finished
<1>7. ASSUME NEW s \in Step, Task(s) PROVE Awaited'
  BY <1>2, <1>7, TaskStep DEF TaskEffect, stored, IInv
<1>8. ASSUME NEW i \in DOMAIN approvals, NEW d \in {"APPROVED", "REJECTED"}, Decide(i, d)
      PROVE  Awaited'
  <2>1. /\ UNCHANGED <<status, saved>> /\ i \in 1..Len(approvals)
        /\ approvals' = [approvals EXCEPT ![i] = [approvals[i] EXCEPT !.decision = d]]
    BY <1>1, <1>8, LenProperties DEF Decide
  <2>2. \A r \in Request : [r EXCEPT !.decision = d] \in Request
                           /\ [r EXCEPT !.decision = d].step = r.step
    BY DEF Request, Decisions
  <2>3. approvals[i] \in Request
    BY <1>1, <2>1, ElementOfSeq
  <2>4. /\ approvals' \in Seq(Request) /\ Len(approvals') = Len(approvals)
        /\ \A j \in 1..Len(approvals) :
              approvals'[j] = IF j = i THEN [approvals[i] EXCEPT !.decision = d] ELSE approvals[j]
    BY <1>1, <2>1, <2>2, <2>3, ExceptSeq
  <2> QED
    BY <1>3, <2>1, <2>2, <2>3, <2>4
<1>9. CASE Tick
  <2>1. /\ UNCHANGED <<status, saved>> /\ approvals' \in Seq(Request)
        /\ approvals' = [i \in DOMAIN approvals |->
                            [approvals[i] EXCEPT !.left = Dec(approvals[i].left)]]
    BY <1>9, NextIInv DEF Tick, IInv, TypeOK, Request, Next
  <2>2. DOMAIN approvals = 1..Len(approvals) /\ DOMAIN approvals' = 1..Len(approvals')
        /\ Len(approvals) \in Nat /\ Len(approvals') \in Nat
    BY <1>1, <2>1, LenProperties
  <2>3. Len(approvals') = Len(approvals)
    <3>1. DOMAIN approvals' = DOMAIN approvals
      BY <2>1
    <3>2. \A m, n \in Nat : 1..m = 1..n => m = n
      <4> SUFFICES ASSUME NEW m \in Nat, NEW n \in Nat, 1..m = 1..n, m < n PROVE FALSE
        OBVIOUS
      <4>1. n \in 1..n /\ n \notin 1..m
        OBVIOUS
      <4> QED
        BY <4>1
    <3> QED
      BY <2>2, <3>1, <3>2
  <2>4. \A i \in 1..Len(approvals) : approvals'[i].step = approvals[i].step
    <3>1. \A i \in 1..Len(approvals) : approvals[i] \in Request
      BY <1>1, ElementOfSeq
    <3>2. \A r \in Request : [r EXCEPT !.left = Dec(r.left)].step = r.step
      BY DEF Request
    <3> QED
      BY <2>1, <2>2, <3>1, <3>2
  <2> QED
    BY <1>3, <2>1, <2>3, <2>4
<1>10. CASE Begin \/ StartWave \/ WaveCompletes \/ Crash \/ UNCHANGED vars
  BY <1>2, <1>10 DEF Begin, StartWave, WaveCompletes, Crash, vars, stored
<1> QED
  BY <1>5, <1>6, <1>7, <1>8, <1>9, <1>10 DEF Next

(* The newest request of any sequence of requests is the latest of its step. *)
LEMMA NewestIsLatest ==
    ASSUME approvals \in Seq(Request), approvals # <<>>
    PROVE  /\ Len(approvals) \in DOMAIN approvals
           /\ LatestRequest(approvals[Len(approvals)].step) = Len(approvals)
<1> DEFINE n == Len(approvals)
           s == approvals[n].step
           mine == {i \in DOMAIN approvals : approvals[i].step = s}
<1>1. n \in Nat \ {0} /\ DOMAIN approvals = 1..n
  BY EmptySeq, LenProperties
<1>2. n \in mine /\ \A i \in mine : i \in 1..n /\ i <= n
  BY <1>1
<1>3. LatestRequest(s) = CHOOSE i \in mine : \A j \in mine : j <= i
  BY <1>2 DEF LatestRequest
<1> HIDE DEF mine
<1>4. \E i \in mine : \A j \in mine : j <= i
  BY <1>2
<1> DEFINE latest == CHOOSE i \in mine : \A j \in mine : j <= i
<1>5. latest \in mine /\ \A j \in mine : j <= latest
  BY <1>4
<1> HIDE DEF latest
<1>6. latest = n
  BY <1>1, <1>2, <1>5
<1> QED
  BY <1>1, <1>3, <1>6 DEF latest

(* A run stored as WAITING_APPROVAL can go on, whatever paused together and  *)
(* however often it was resumed or interrupted (_find_approval).             *)
THEOREM WaitingIsActionableHolds == Spec => []WaitingIsActionable
<1>1. Init => Awaited
  BY DEF Init, Awaited
<1>2. IInv /\ Awaited => WaitingIsActionable
  <2> SUFFICES ASSUME IInv, Awaited, ~active, status = "WAITING_APPROVAL"
               PROVE  /\ approvals # <<>>
                      /\ LatestRequest(approvals[Len(approvals)].step) = Len(approvals)
                      /\ approvals[Len(approvals)].step \in Ready
    BY DEF WaitingIsActionable
  <2>1. approvals # <<>> /\ approvals \in Seq(Request)
    BY DEF Awaited, IInv, TypeOK, Request
  <2>2. Len(approvals) \in DOMAIN approvals
        /\ LatestRequest(approvals[Len(approvals)].step) = Len(approvals)
    BY <2>1, NewestIsLatest
  <2>3. approvals[Len(approvals)].step \in Step
    <3>1. Len(approvals) \in 1..Len(approvals)
      BY <2>1, <2>2, LenProperties
    <3>2. approvals[Len(approvals)] \in Request
      BY <2>1, <3>1, ElementOfSeq
    <3>3. \A r \in Request : r.step \in Approval
      BY DEF Request
    <3> QED
      BY <3>2, <3>3, KindAssumption
  <2>4. records = saved
    BY DEF IInv, Connected
  <2> QED
    BY <2>1, <2>2, <2>3, <2>4 DEF Awaited, Ready
<1> QED
  BY <1>1, <1>2, AwaitedStep, Invariance, PTL DEF Spec

-----------------------------------------------------------------------------
(* Runs that are given up as TIMED_OUT.                                      *)

(* The budget of a wave, and what is left of an attempt that it caps, never  *)
(* run out before the overall deadline.                                      *)
InBudget ==
    /\ Wave # {} => /\ budget = None <=> overall = None
                    /\ budget # None => overall <= budget
    /\ \A s \in Step : (pc[s] = "running" /\ Capped(s)) => left[s] # None /\ overall <= left[s]
    /\ \A s \in Step : pc[s] = "timedout" => overall \in {0, -1}

(* What a task's step does to its timer.                                     *)
LEMMA TaskTimers ==
    ASSUME TypeOK, OwnTimeout = {}, NEW s \in Step, Task(s)
    PROVE  /\ pc'[s] = "running" => left'[s] = AttemptLimit(s)
           /\ pc'[s] = "timedout" => pc[s] = "running" /\ Capped(s) /\ left[s] = 0
<1>1. ASSUME NEW to, NEW timer, Move(s, to, timer)
      PROVE  pc'[s] = to /\ left'[s] = timer
  BY <1>1 DEF Move, TypeOK
<1>2. ASSUME NEW o, Record(s, o) PROVE pc'[s] = "done"
  BY <1>1, <1>2 DEF Record
<1>3. ASSUME NEW to, NEW timer, Raise(s, to, timer) PROVE pc'[s] = to
  BY <1>1, <1>3 DEF Raise
<1>4. ASSUME RetryOrGiveUp(s) PROVE pc'[s] \in {"backoff", "done", "failed"}
  BY <1>1, <1>2, <1>3, <1>4 DEF RetryOrGiveUp
<1>5. CASE AdmitRun(s) \/ BackoffEnds(s)
  BY <1>1, <1>5 DEF AdmitRun, BackoffEnds
<1>6. CASE AttemptTimesOut(s)
  <2>1. CASE Capped(s) /\ Raise(s, "timedout", None)
    BY <1>3, <1>6, <2>1 DEF AttemptTimesOut
  <2>2. CASE RetryOrGiveUp(s)
    BY <1>4, <2>2
  <2> QED
    BY <1>6, <2>1, <2>2 DEF AttemptTimesOut
<1>7. CASE AdmitSkip(s) \/ AttemptSucceeds(s) \/ ApprovalDecided(s)
  BY <1>2, <1>7 DEF AdmitSkip, AttemptSucceeds, ApprovalDecided
<1>8. CASE AdmitFail(s) \/ ApprovalPauses(s)
  BY <1>3, <1>8 DEF AdmitFail, ApprovalPauses
<1>9. CASE AttemptFails(s) \/ ApprovalExpired(s)
  BY <1>4, <1>9 DEF AttemptFails, ApprovalExpired
<1> QED
  BY <1>5, <1>6, <1>7, <1>8, <1>9 DEF Task

LEMMA TaskInBudget ==
    ASSUME TypeOK, InBudget, OwnTimeout = {}, NEW s \in Step, Task(s)
    PROVE  InBudget'
<1>1. /\ TaskEffect(s) /\ UNCHANGED <<overall, budget>>
      /\ overall \in Timer \cup {-1} /\ budget \in Timer
  BY TaskStep DEF TaskEffect, TypeOK
<1>2. \A t \in Step : t # s => pc'[t] = pc[t] /\ left'[t] = left[t]
  BY <1>1 DEF TaskEffect, TypeOK
<1>3. \A t \in Step : Capped(t)' <=> Capped(t)
  BY <1>1 DEF Capped, OwnLimit
<1>4. s \in Wave
  BY <1>1 DEF TaskEffect, Wave
<1>5. (budget = None <=> overall = None) /\ (budget # None => overall <= budget)
  BY <1>4 DEF InBudget
<1>6. (pc'[s] = "running" /\ Capped(s)) => left'[s] # None /\ overall <= left'[s]
  <2> HAVE pc'[s] = "running" /\ Capped(s)
  <2>1. left'[s] = budget
    BY TaskTimers DEF AttemptLimit
  <2> QED
    BY <1>5, <2>1 DEF Capped
<1>7. pc'[s] = "timedout" => overall \in {0, -1}
  <2> HAVE pc'[s] = "timedout"
  <2>1. pc[s] = "running" /\ Capped(s) /\ left[s] = 0
    BY TaskTimers
  <2>2. overall <= 0 /\ overall # None
    BY <1>5, <2>1 DEF InBudget, Capped
  <2> QED
    BY <1>1, <2>2, TimeAssumption DEF Timer
<1>8. \A t \in Step : (pc'[t] = "running" /\ Capped(t)') => left'[t] # None /\ overall' <= left'[t]
  BY <1>1, <1>2, <1>3, <1>6 DEF InBudget
<1>9. \A t \in Step : pc'[t] = "timedout" => overall' \in {0, -1}
  BY <1>1, <1>2, <1>7 DEF InBudget
<1> QED
  BY <1>1, <1>5, <1>8, <1>9 DEF InBudget

LEMMA TickInBudget ==
    ASSUME TypeOK, InBudget, Tick
    PROVE  InBudget'
<1>1. /\ EngineWaits /\ overall' = DeadlineDec(overall) /\ UNCHANGED <<pc, budget>>
      /\ left' = [s \in Step |-> Dec(left[s])]
  BY DEF Tick
<1>2. overall \in Timer \cup {-1} /\ budget \in Timer /\ \A s \in Step : left[s] \in Timer
  BY DEF TypeOK
<1>3. None \notin Int
  BY TimeAssumption
<1>4. /\ overall' = None <=> overall = None
      /\ overall \in {0, -1} => overall' \in {0, -1}
      /\ \A n \in Nat : (overall # None /\ overall <= n) => overall' <= n
      /\ \A n \in Nat \ {0} : (overall # None /\ overall <= n) => overall' <= n - 1
  BY <1>1, <1>2, <1>3 DEF DeadlineDec, Timer
<1>5. Wave' = Wave /\ \A s \in Step : Capped(s)' <=> Capped(s)
  BY <1>1 DEF Wave, Capped, OwnLimit
<1>6. Wave # {} => /\ budget = None <=> overall' = None
                   /\ budget # None => overall' <= budget
  <2> HAVE Wave # {}
  <2>1. (budget = None <=> overall = None) /\ (budget # None => overall <= budget)
    BY DEF InBudget
  <2> QED
    BY <1>2, <1>4, <2>1 DEF Timer
<1>7. ASSUME NEW s \in Step, pc[s] = "running", Capped(s)
      PROVE  left'[s] # None /\ overall' <= left'[s]
  <2>1. left[s] # None /\ overall <= left[s] /\ budget # None
    BY <1>7 DEF InBudget, Capped
  <2>2. left[s] # 0 /\ overall # None
    BY <1>1, <1>7, <2>1 DEF EngineWaits, Holders, Wave, InBudget
  <2>3. left[s] \in Nat \ {0}
    BY <1>2, <2>1, <2>2 DEF Timer
  <2>4. left'[s] = left[s] - 1
    BY <1>1, <2>1, <2>2 DEF Dec
  <2>5. overall' <= left[s] - 1
    BY <1>4, <2>1, <2>2, <2>3
  <2>6. left[s] - 1 # None
    BY <1>3, <2>3
  <2> QED
    BY <2>4, <2>5, <2>6
<1>8. \A s \in Step : pc[s] = "timedout" => overall' \in {0, -1}
  BY <1>4 DEF InBudget
<1> QED
  BY <1>1, <1>5, <1>6, <1>7, <1>8 DEF InBudget

LEMMA InBudgetStep ==
    ASSUME OwnTimeout = {}, IInv, InBudget, [Next]_vars
    PROVE  InBudget'
<1>1. TypeOK
  BY DEF IInv
<1>2. ASSUME pc' = Idle PROVE InBudget'
  BY <1>2 DEF InBudget, Wave, Idle
<1>3. CASE Begin
  BY <1>2, <1>3 DEF Begin, IInv, Connected
<1>4. CASE FinishRun \/ DeadlinePassed \/ WaveRaises \/ WavePauses \/ WaveCompletes \/ Crash
  BY <1>2, <1>4 DEF FinishRun, DeadlinePassed, WaveRaises, WavePauses, WaveCompletes,
                    Crash, Finalize, Reset
<1>5. CASE StartWave
  <2>1. /\ budget' = overall /\ overall' = overall /\ overall # -1
        /\ overall \in Timer \cup {-1}
        /\ pc' = [s \in Step |-> IF s \in Ready THEN "queued" ELSE "idle"]
    BY <1>1, <1>5 DEF StartWave, TypeOK
  <2>2. overall # None => overall <= overall
    BY <2>1 DEF Timer
  <2>3. \A s \in Step : pc'[s] # "running" /\ pc'[s] # "timedout"
    BY <2>1
  <2> QED
    BY <2>1, <2>2, <2>3 DEF InBudget
<1>6. ASSUME NEW s \in Step, Task(s) PROVE InBudget'
  BY <1>1, <1>6, TaskInBudget
<1>7. CASE Tick
  BY <1>1, <1>7, TickInBudget
<1>8. CASE (\E i \in DOMAIN approvals, d \in {"APPROVED", "REJECTED"} : Decide(i, d))
           \/ UNCHANGED vars
  <2>1. UNCHANGED <<pc, left, overall, budget>>
    BY <1>8 DEF Decide, engine, vars
  <2> QED
    BY <2>1 DEF InBudget, Wave, Capped, OwnLimit
<1> QED
  BY <1>3, <1>4, <1>5, <1>6, <1>7, <1>8 DEF Next

(* When no step raises TimeoutError by itself, a run is only given up as     *)
(* TIMED_OUT once its overall deadline is reached, although the budget of a  *)
(* wave is computed before its attempts start (_OverallTimeoutBudget).       *)
THEOREM TimedOutMeansLateHolds ==
    ASSUME OwnTimeout = {}
    PROVE  Spec => TimedOutMeansLate
<1>1. Init => InBudget
  BY DEF Init, InBudget, Wave, Idle
<1>2. ASSUME InBudget, [Next]_vars, status' = "TIMED_OUT", status # "TIMED_OUT"
      PROVE  overall \in {0, -1}
  <2>1. CASE WaveRaises
    <3>1. PICK s \in Raised :
             \/ pc[s] = "timedout"
             \/ Finalize("FAILED", approvals, <<"RUN_FAILED">>)
      BY <2>1 DEF WaveRaises
    <3>2. pc[s] = "timedout" /\ s \in Step
      BY <1>2, <3>1 DEF Finalize, Raised, Wave
    <3> QED
      BY <1>2, <3>2 DEF InBudget
  <2>2. ASSUME NEW s \in Step, Task(s) PROVE status' = status
    BY <2>2 DEF Task, AdmitSkip, AdmitFail, AdmitRun, AttemptSucceeds, AttemptFails,
                AttemptTimesOut, ApprovalDecided, ApprovalExpired, ApprovalPauses,
                BackoffEnds, RetryOrGiveUp, Record, Raise, Move, stored
  <2>3. ~FinishRun /\ ~DeadlinePassed /\ ~WavePauses
    BY <1>2 DEF FinishRun, DeadlinePassed, WavePauses, Finalize
  <2>4. CASE Begin \/ StartWave \/ WaveCompletes \/ Crash \/ Tick \/ UNCHANGED vars
    BY <1>2, <2>4 DEF Begin, StartWave, WaveCompletes, Crash, Tick, vars, stored
  <2>5. CASE \E i \in DOMAIN approvals, d \in {"APPROVED", "REJECTED"} : Decide(i, d)
    BY <1>2, <2>5 DEF Decide
  <2> QED
    BY <1>2, <2>1, <2>2, <2>3, <2>4, <2>5 DEF Next
<1>3. IInv /\ InBudget /\ [Next]_vars => InBudget'
  BY InBudgetStep
<1>4. InBudget /\ [Next]_vars =>
        [(status' = "TIMED_OUT" /\ status # "TIMED_OUT") => overall \in {0, -1}]_vars
  BY <1>2
<1> QED
  BY <1>1, <1>3, <1>4, Invariance, PTL DEF Spec, TimedOutMeansLate
-----------------------------------------------------------------------------
(* What ApprovalGate says, of the stored run as well: a crash goes back to   *)
(* what is stored, and the requests that were decided are still there.       *)
Granted(s) ==
    \E i \in DOMAIN approvals :
        /\ approvals[i].step = s
        /\ Decided(i) \/ (Expired(i) /\ s \in AutoApprove)

Gated ==
    \A s \in Approval :
        (records[s] = "SUCCEEDED" \/ saved[s] = "SUCCEEDED") /\ ErrorPolicy[s] # "IGNORE" => Granted(s)

(* No step takes a decision back, and a request that has expired stays so.   *)
LEMMA GrantedStays ==
    ASSUME IInv, [Next]_vars, NEW s \in Approval, Granted(s)
    PROVE  Granted(s)'
<1>1. approvals \in Seq(Request)
  BY DEF IInv, TypeOK, Request
<1>2. PICK i \in DOMAIN approvals :
          /\ approvals[i].step = s
          /\ approvals[i].decision # "PENDING" \/ (approvals[i].left = 0 /\ s \in AutoApprove)
  BY DEF Granted, Decided, Expired
<1>3. DOMAIN approvals = 1..Len(approvals) /\ Len(approvals) \in Nat /\ approvals[i] \in Request
  BY <1>1, <1>2, LenProperties, ElementOfSeq
<1>4. ASSUME i \in DOMAIN approvals', approvals'[i].step = s,
             \/ approvals'[i].decision # "PENDING"
             \/ approvals'[i].left = 0 /\ s \in AutoApprove
      PROVE  Granted(s)'
  BY <1>4 DEF Granted, Decided, Expired
<1>5. CASE UNCHANGED approvals
  BY <1>2, <1>4, <1>5
<1>6. CASE WavePauses
  <2>1. PICK t \in Paused :
            approvals' = Append(approvals, [step |-> t, decision |-> "PENDING", left |-> left[t]])
    BY <1>6 DEF WavePauses, Finalize
  <2> DEFINE request == [step |-> t, decision |-> "PENDING", left |-> left[t]]
  <2>2. request \in Request
    BY DEF Paused, Wave, IInv, Connected, TypeOK, Request, Decisions
  <2> HIDE DEF request
  <2>3. approvals' = Append(approvals, request)
    BY <2>1 DEF request
  <2>4. i \in DOMAIN approvals' /\ approvals'[i] = approvals[i]
    BY <1>1, <1>2, <1>3, <2>2, <2>3
  <2> QED
    BY <1>2, <1>4, <2>4
<1>7. ASSUME NEW j \in DOMAIN approvals, NEW d \in {"APPROVED", "REJECTED"}, Decide(j, d)
      PROVE  Granted(s)'
  <2>1. approvals' = [approvals EXCEPT ![j] = [approvals[j] EXCEPT !.decision = d]] /\ d # "PENDING"
    BY <1>7 DEF Decide
  <2>2. i \in DOMAIN approvals' /\ approvals'[i] =
            IF i = j THEN [approvals[i] EXCEPT !.decision = d] ELSE approvals[i]
    BY <1>2, <2>1
  <2>3. /\ [approvals[i] EXCEPT !.decision = d].step = approvals[i].step
        /\ [approvals[i] EXCEPT !.decision = d].decision = d
    BY <1>3 DEF Request
  <2> QED
    BY <1>2, <1>4, <2>1, <2>2, <2>3
<1>8. CASE Tick
  <2>1. approvals' = [k \in DOMAIN approvals |-> [approvals[k] EXCEPT !.left = Dec(approvals[k].left)]]
    BY <1>8 DEF Tick
  <2>2. i \in DOMAIN approvals' /\ approvals'[i] = [approvals[i] EXCEPT !.left = Dec(approvals[i].left)]
    BY <1>2, <2>1
  <2>3. /\ approvals'[i].step = approvals[i].step /\ approvals'[i].decision = approvals[i].decision
        /\ approvals[i].left = 0 => approvals'[i].left = 0
    BY <1>3, <2>2 DEF Request, Dec
  <2> QED
    BY <1>2, <1>4, <2>2, <2>3
<1>9. ASSUME NEW t \in Step, Task(t) PROVE UNCHANGED approvals
  BY <1>9, TaskStep DEF TaskEffect, stored, IInv
<1>10. CASE FinishRun \/ DeadlinePassed \/ WaveRaises
  BY <1>5, <1>10 DEF FinishRun, DeadlinePassed, WaveRaises, Finalize
<1>11. CASE Begin \/ StartWave \/ WaveCompletes \/ Crash \/ UNCHANGED vars
  BY <1>5, <1>11 DEF Begin, StartWave, WaveCompletes, Crash, stored, vars
<1> QED
  BY <1>5, <1>6, <1>7, <1>8, <1>9, <1>10, <1>11 DEF Next

(* Of finitely many requests of a step one is the latest.                    *)
LEMMA LatestExists ==
    ASSUME approvals \in Seq(Request), NEW s, LatestRequest(s) # 0
    PROVE  LatestRequest(s) \in DOMAIN approvals /\ approvals[LatestRequest(s)].step = s
<1> DEFINE n == Len(approvals)
           mine == {i \in DOMAIN approvals : approvals[i].step = s}
           later == {i .. n : i \in mine}
<1>1. n \in Nat /\ mine \subseteq 1 .. n /\ mine # {}
  BY LenProperties DEF LatestRequest
<1>2. LatestRequest(s) = CHOOSE i \in mine : \A j \in mine : j <= i
  BY <1>1 DEF LatestRequest
<1> HIDE DEF mine, n
<1>3. later \subseteq FiniteSubsetsOf(1 .. n) /\ later # {}
  <2>1. IsFiniteSet(1 .. n)
    BY <1>1, FS_Interval
  <2>2. FiniteSubsetsOf(1 .. n) = SUBSET (1 .. n)
    BY <2>1, FS_FiniteSubsetsOfFinite
  <2>3. \A i \in mine : i .. n \subseteq 1 .. n
    BY <1>1
  <2>4. \A y \in later : y \in SUBSET (1 .. n)
    BY <2>3
  <2>5. later # {}
    BY <1>1
  <2> HIDE DEF later
  <2> QED
    BY <2>2, <2>4, <2>5
<1>4. PICK x \in later : \A y \in later : ~ (<<y, x>> \in StrictSubsetOrdering(1 .. n))
  BY <1>3, WFMin, FS_StrictSubsetOrderingWellFounded
<1>5. PICK i \in mine : x = i .. n
  BY <1>4
<1>6. ASSUME NEW j \in mine, i < j PROVE FALSE
  <2>1. j .. n \in later
    OBVIOUS
  <2>2. j .. n \subseteq i .. n /\ i \in i .. n /\ i \notin j .. n
        /\ j .. n \subseteq 1 .. n /\ i .. n \subseteq 1 .. n
    BY <1>1, <1>6
  <2> QED
    BY <1>4, <1>5, <2>1, <2>2 DEF StrictSubsetOrdering
<1>7. \A j \in mine : j <= i
  BY <1>1, <1>6
<1>8. LatestRequest(s) \in mine
  <2>1. \E k \in mine : \A j \in mine : j <= k
    BY <1>7
  <2> QED
    BY <1>2, <2>1, Zenon
<1> QED
  BY <1>8 DEF mine

(* The task of an approval step succeeds only on such a request, or because  *)
(* its policy ignores that the request expired or the attempt timed out.     *)
LEMMA TaskIsGranted ==
    ASSUME IInv, NEW s \in Approval, Task(s), records[s] # "SUCCEEDED", records'[s] = "SUCCEEDED",
           ErrorPolicy[s] # "IGNORE"
    PROVE  Granted(s)
<1>1. records \in [Step -> Outcomes] /\ s \in Step /\ approvals \in Seq(Request)
  BY KindAssumption DEF IInv, TypeOK, Request
<1>2. ASSUME RetryOrGiveUp(s) PROVE FALSE
  BY <1>1, <1>2 DEF RetryOrGiveUp, Record, Raise
<1>3. CASE ApprovalDecided(s)
  <2>1. PICK i \in DOMAIN approvals : i = LatestRequest(s) /\ approvals[i].step = s
    BY <1>1, <1>3, LatestExists DEF ApprovalDecided
  <2> QED
    BY <1>3, <2>1 DEF ApprovalDecided, Granted
<1>4. CASE ~ ApprovalDecided(s)
  BY <1>1, <1>2, <1>4, KindAssumption
     DEF Task, AdmitSkip, AdmitFail, AdmitRun, AttemptSucceeds, AttemptFails, AttemptTimesOut,
         ApprovalExpired, ApprovalPauses, BackoffEnds, Record, Raise
<1> QED
  BY <1>3, <1>4

(* No step lets an approval step succeed on anything else.                   *)
LEMMA GatedStep == IInv /\ Gated /\ [Next]_vars => Gated'
<1> SUFFICES ASSUME IInv, Gated, [Next]_vars, NEW s \in Approval, ErrorPolicy[s] # "IGNORE",
                    records'[s] = "SUCCEEDED" \/ saved'[s] = "SUCCEEDED"
             PROVE  Granted(s)'
  BY DEF Gated
<1>1. ASSUME Granted(s) PROVE Granted(s)'
  BY <1>1, GrantedStays
<1>2. CASE records[s] = "SUCCEEDED" \/ saved[s] = "SUCCEEDED"
  BY <1>1, <1>2 DEF Gated
<1>3. CASE ~ (records[s] = "SUCCEEDED" \/ saved[s] = "SUCCEEDED")
  <2>1. PICK t \in Step : Task(t)
    BY <1>3 DEF Next, Begin, FinishRun, DeadlinePassed, StartWave, WaveRaises, WavePauses, WaveCompletes,
                Decide, Crash, Tick, Finalize, Reset, stored, engine, vars
  <2>2. saved' = saved /\ records'[s] = "SUCCEEDED"
    BY <1>3, <2>1, TaskStep DEF TaskEffect, stored, IInv
  <2>3. t = s
    BY <1>3, <2>1, <2>2, TaskStep, KindAssumption DEF TaskEffect, IInv, TypeOK
  <2> QED
    BY <1>1, <1>3, <2>1, <2>2, <2>3, TaskIsGranted
<1> QED
  BY <1>2, <1>3

(* An approval step succeeds only on the strength of a decision, or of a     *)
(* request that expired under automatic approval, through pauses, resumes    *)
(* and crashes (_approval_executor).                                         *)
THEOREM ApprovalGateHolds == Spec => []ApprovalGate
<1>1. Init => Gated
  BY KindAssumption DEF Init, Gated
<1>2. Gated => ApprovalGate
  BY DEF Gated, Granted, ApprovalGate
<1> QED
  BY <1>1, <1>2, GatedStep, Invariance, PTL DEF Spec

-----------------------------------------------------------------------------
(* The slots of the semaphore: only a task that is admitted takes one.       *)
(* The tasks past the semaphore are steps of the run.                        *)
LEMMA HoldersFinite == IsFiniteSet(Holders) /\ Cardinality(Holders) \in Nat
<1>1. IsFiniteSet(Step)
  BY NAssumption, FS_Interval DEF Step
<1>2. Holders \subseteq Step
  BY DEF Holders
<1> QED
  BY <1>1, <1>2, FS_Subset, FS_CardinalityType

(* Whoever waits for a slot takes one when one is free.                      *)
LEMMA SlotsStep == IInv /\ SlotsBounded /\ [Next]_vars => SlotsBounded'
<1> SUFFICES ASSUME IInv, SlotsBounded, [Next]_vars PROVE SlotsBounded'
  OBVIOUS
<1>1. IsFiniteSet(Holders) /\ Cardinality(Holders) \in Nat /\ Cardinality(Holders) <= MaxConcurrency
      /\ MaxConcurrency \in Nat \ {0} /\ pc \in [Step -> Places]
  BY HoldersFinite, BoundAssumption DEF SlotsBounded, IInv, TypeOK
<1>2. ASSUME NEW more \in SUBSET Holders, Holders' = more PROVE SlotsBounded'
  <2>1. Cardinality(more) <= Cardinality(Holders) /\ Cardinality(more) \in Nat
    BY <1>1, FS_Subset, FS_CardinalityType
  <2> QED
    BY <1>1, <1>2, <2>1 DEF SlotsBounded
<1>3. ASSUME NEW s \in Step, Task(s) PROVE SlotsBounded'
  <2>1. PICK p \in Places : pc' = [pc EXCEPT ![s] = p]
    BY <1>3, TaskStep DEF TaskEffect, IInv
  <2>2. Holders' = IF p \in {"running", "backoff"} THEN Holders \cup {s} ELSE Holders \ {s}
    BY <1>1, <2>1 DEF Holders
  <2>3. CASE p \notin {"running", "backoff"} \/ s \in Holders
    BY <1>2, <2>2, <2>3
  <2>4. CASE s \notin Holders
    <3>1. Cardinality(Holders) < MaxConcurrency
      BY <1>3, <2>4 DEF Task, AdmitSkip, AdmitFail, AdmitRun, AttemptSucceeds, AttemptFails, AttemptTimesOut,
             ApprovalDecided, ApprovalExpired, ApprovalPauses, BackoffEnds, Admitted, Holders
    <3>2. Cardinality(Holders \cup {s}) = Cardinality(Holders) + 1
      BY <1>1, <2>4, FS_AddElement
    <3>3. CASE Holders' = Holders \cup {s}
      BY <1>1, <3>1, <3>2, <3>3 DEF SlotsBounded
    <3> QED
      BY <1>2, <2>2, <3>3
  <2> QED
    BY <2>3, <2>4
<1>4. CASE UNCHANGED pc
  BY <1>2, <1>4 DEF Holders
<1>5. ASSUME \A s \in Step : pc'[s] \notin {"running", "backoff"} PROVE SlotsBounded'
  <2>1. Holders' = {}
    BY <1>5 DEF Holders
  <2> QED
    BY <1>2, <2>1
<1>6. CASE FinishRun \/ DeadlinePassed \/ WaveRaises \/ WavePauses \/ WaveCompletes \/ Crash
  BY <1>5, <1>6 DEF FinishRun, DeadlinePassed, WaveRaises, WavePauses, WaveCompletes, Crash, Finalize,
                    Reset, Idle
<1>7. CASE StartWave
  BY <1>5, <1>7 DEF StartWave
<1>8. CASE Begin \/ Tick \/ UNCHANGED vars
           \/ \E i \in DOMAIN approvals, d \in {"APPROVED", "REJECTED"} : Decide(i, d)
  BY <1>4, <1>8 DEF Begin, Tick, Decide, engine, vars
<1> QED
  BY <1>3, <1>6, <1>7, <1>8 DEF Next

(* However tasks are admitted, retried and timed out, no more of them are    *)
(* past the semaphore than it has slots, those asleep between two attempts   *)
(* included (max_concurrency).                                               *)
THEOREM SlotsBoundedHolds == Spec => []SlotsBounded
<1>1. Init => SlotsBounded
  <2>1. Init => Holders = {}
    BY DEF Init, Idle, Holders
  <2>2. Cardinality({}) = 0
    BY FS_EmptySet
  <2> QED
    BY <2>1, <2>2, BoundAssumption DEF SlotsBounded
<1> QED
  BY <1>1, SlotsStep, Invariance, PTL DEF Spec
=============================================================================
