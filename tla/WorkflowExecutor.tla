-------------------------- MODULE WorkflowExecutor --------------------------
(***************************************************************************)
(* WorkflowExecutor.run of src/app/automation/executor.py: one workflow    *)
(* run, started, paused for approvals, resumed, and interrupted by crashes *)
(* of the process.                                                         *)
(*                                                                         *)
(* The engine works in waves.  At the top of its loop it takes every ready *)
(* step, starts a task for each (asyncio.gather) and waits for all of them *)
(* before it looks at any result; a semaphore bounds the tasks past        *)
(* `async with semaphore`.  A task runs up to retries + 1 attempts, each   *)
(* under asyncio.wait_for, with a backoff in between, holding its slot.    *)
(* Nothing is persisted before the engine returns.                         *)
(*                                                                         *)
(* Steps are numbered in declaration order.  What a step computes is       *)
(* abstracted to how its attempt ends; conditions are free choices.  Time  *)
(* is a set of countdowns that Tick decrements together; a countdown that  *)
(* has reached 0 fires before time moves on.  Steps that contain steps     *)
(* (conditional, loop, parallel) are the subject of WorkflowNesting.       *)
(***************************************************************************)
EXTENDS Integers, Sequences, FiniteSets

CONSTANTS
    N,                (* number of steps                                      *)
    Deps,             (* WorkflowStep.depends_on                              *)
    Conditional,      (* steps with a run-gate condition                      *)
    Approval,         (* steps of type APPROVAL                               *)
    Unregistered,     (* steps whose type has no executor                     *)
    OwnTimeout,       (* steps whose own code may raise TimeoutError          *)
    ErrorPolicy,      (* step -> "ABORT", "RETRY", "SKIP" or "IGNORE"         *)
    Retries,          (* step -> retries after the first attempt              *)
    Delay,            (* step -> retry number -> backoff delay                *)
    AutoApprove,      (* approval steps with auto_decision AUTO_APPROVE       *)
    StepTimeout,      (* step -> timeout_s, or None                           *)
    DefaultTimeout,   (* settings.default_timeout_s, or None                  *)
    OverallTimeout,   (* settings.overall_timeout_s, or None                  *)
    MaxConcurrency,   (* settings.max_concurrency                             *)
    MaxBegins,        (* bound: calls of run() on this run                    *)
    None

Step == 1..N
Timer == Nat \cup {None}
Timeout == (Nat \ {0}) \cup {None}

ASSUME NAssumption == N \in Nat
ASSUME DepsAssumption ==
    /\ Deps \in [Step -> SUBSET Step]
    /\ \A S \in (SUBSET Step) \ {{}} : \E s \in S : Deps[s] \cap S = {}
ASSUME KindAssumption ==
    /\ Conditional \subseteq Step /\ Approval \subseteq Step
    /\ Unregistered \subseteq Step /\ OwnTimeout \subseteq Step \ Approval
    /\ AutoApprove \subseteq Approval
ASSUME PolicyAssumption ==
    /\ ErrorPolicy \in [Step -> {"ABORT", "RETRY", "SKIP", "IGNORE"}]
    /\ Retries \in [Step -> Nat]
    /\ \A s \in Step : \A k \in 1..Retries[s] : Delay[s][k] \in Nat
ASSUME TimeAssumption ==
    /\ None \notin Int
    /\ StepTimeout \in [Step -> Timeout]
    /\ DefaultTimeout \in Timeout /\ OverallTimeout \in Timeout
ASSUME BoundAssumption == MaxConcurrency \in Nat \ {0} /\ MaxBegins \in Nat

(* Where Retries and Delay come from: a StepRetryPolicy, None or a record     *)
(* [max_retries, backoff, base_delay, max_delay], in whole time units.  The  *)
(* delay before attempt number `attempt` + 1 is                              *)
BackoffDelay(policy, attempt) ==
    IF policy = None THEN 0
    ELSE LET raw == CASE policy.backoff = "linear"      -> policy.base_delay * attempt
                      [] policy.backoff = "exponential" -> policy.base_delay * 2 ^ (attempt - 1)
                      [] OTHER                          -> policy.base_delay
         IN  IF raw < policy.max_delay THEN raw ELSE policy.max_delay

(* Attempts after the first: error policy RETRY without retries means one. *)
EffectiveRetries(policy, errorPolicy) ==
    LET retries == IF policy = None THEN 0 ELSE policy.max_retries
    IN  IF errorPolicy = "RETRY" /\ retries = 0 THEN 1 ELSE retries

VARIABLES
    (* the persisted WorkflowRun *)
    status,     (* status                                                   *)
    saved,      (* step_executions: step -> outcome, "none" if absent       *)
    approvals,  (* approval_requests in order of creation                   *)
    events,     (* types of the event log                                   *)
    (* the engine's state while run() is active *)
    active,     (* run() is in progress                                     *)
    records,    (* state.step_executions and state.completed                *)
    pc,         (* step -> where its task of the current wave is            *)
    attempt,    (* step -> attempts that have already ended                 *)
    left,       (* step -> time left: of the attempt, backoff or request    *)
    overall,    (* time left before overall_deadline, -1 once it has passed *)
    budget,     (* remaining_budget, computed once for the wave             *)
    begins      (* number of calls of run()                                 *)

stored == <<status, saved, approvals, events>>
engine == <<active, records, pc, attempt, left, overall, budget>>
vars == <<status, saved, approvals, events, active, records, pc, attempt,
          left, overall, budget, begins>>

Outcomes  == {"none", "SUCCEEDED", "SKIPPED"}
Places    == {"idle", "queued", "running", "backoff", "done", "paused",
              "failed", "timedout"}
Decisions == {"PENDING", "APPROVED", "REJECTED"}
Resumable == {"PENDING", "WAITING_APPROVAL"}
Statuses  == Resumable \cup {"SUCCEEDED", "FAILED", "TIMED_OUT"}
Events    == {"RUN_STARTED", "APPROVAL_REQUESTED", "RUN_COMPLETED",
              "RUN_FAILED", "RUN_TIMED_OUT"}

Finished(rec) == {s \in Step : rec[s] # "none"}

(* Mutation: a step is ready once one of its dependencies is finished. *)
ReadyOnAny ==
    {s \in Step : /\ records[s] = "none"
                  /\ Deps[s] = {} \/ Deps[s] \cap Finished(records) # {}}

(* Mutation: a skipped dependency does not count as completed. *)
ReadyOnSuccess ==
    {s \in Step : /\ records[s] = "none"
                  /\ \A d \in Deps[s] : records[d] = "SUCCEEDED"}

(* graph.ready_steps(state.completed) *)
Ready == {s \in Step : records[s] = "none" /\ Deps[s] \subseteq Finished(records)}

Wave    == {s \in Step : pc[s] # "idle"}
Holders == {s \in Step : pc[s] \in {"running", "backoff"}}

(* step.timeout_s or snapshot.settings.default_timeout_s *)
OwnLimit(s) == IF StepTimeout[s] # None THEN StepTimeout[s] ELSE DefaultTimeout

(* The attempt's timeout is the wave's remaining budget (capped_by_budget). *)
Capped(s) ==
    /\ budget # None
    /\ OwnLimit(s) # None => budget <= OwnLimit(s)

(* Mutation: the remaining budget is not applied to the attempt. *)
OwnLimitOnly(s) == OwnLimit(s)

AttemptLimit(s) == IF Capped(s) THEN budget ELSE OwnLimit(s)

(* Mutation: the first request of the step is taken. *)
OldestRequest(s) ==
    LET mine == {i \in DOMAIN approvals : approvals[i].step = s}
    IN  IF mine = {} THEN 0 ELSE CHOOSE i \in mine : \A j \in mine : i <= j

(* _find_approval: the most recent request of a step, 0 if there is none. *)
LatestRequest(s) ==
    LET mine == {i \in DOMAIN approvals : approvals[i].step = s}
    IN  IF mine = {} THEN 0 ELSE CHOOSE i \in mine : \A j \in mine : j <= i

-----------------------------------------------------------------------------
Idle == [s \in Step |-> "idle"]

Init ==
    /\ status = "PENDING"
    /\ saved = [s \in Step |-> "none"]
    /\ approvals = <<>>
    /\ events = <<>>
    /\ active = FALSE
    /\ records = saved
    /\ pc = Idle
    /\ attempt = [s \in Step |-> 0]
    /\ left = [s \in Step |-> None]
    /\ overall = None
    /\ budget = None
    /\ begins = 0

(* The engine is gone: what it knew is what the stored run says. *)
Reset(rec) ==
    /\ active' = FALSE
    /\ records' = rec
    /\ pc' = Idle
    /\ attempt' = [s \in Step |-> 0]
    /\ left' = [s \in Step |-> None]
    /\ overall' = None
    /\ budget' = None

(* Mutation: only succeeded steps are restored. *)
BeginWithoutSkipped ==
    /\ ~active
    /\ status \in Resumable
    /\ begins < MaxBegins
    /\ begins' = begins + 1
    /\ active' = TRUE
    /\ records' = [s \in Step |-> IF saved[s] = "SKIPPED" THEN "none" ELSE saved[s]]
    /\ overall' = OverallTimeout
    /\ UNCHANGED <<status, saved, approvals, events, pc, attempt, left, budget>>

(* Mutation: a terminal run can be resumed. *)
BeginTerminal ==
    /\ ~active
    /\ begins < MaxBegins
    /\ begins' = begins + 1
    /\ active' = TRUE
    /\ records' = saved
    /\ overall' = OverallTimeout
    /\ UNCHANGED <<status, saved, approvals, events, pc, attempt, left, budget>>

(* run() is called on a run that is not terminal.  The deadline starts anew. *)
Begin ==
    /\ ~active
    /\ status \in Resumable
    /\ begins < MaxBegins
    /\ begins' = begins + 1
    /\ active' = TRUE
    /\ records' = saved
    /\ overall' = OverallTimeout
    /\ UNCHANGED <<status, saved, approvals, events, pc, attempt, left, budget>>

(* _finalize, then the caller stores the run it is given back. *)
Finalize(to, reqs, evs) ==
    /\ status' = to
    /\ saved' = records
    /\ approvals' = reqs
    /\ events' = events \o <<"RUN_STARTED">> \o evs
    /\ Reset(records)
    /\ UNCHANGED begins

AtLoopTop == active /\ Wave = {}

(* No step is ready: the loop ends, outputs are resolved (never an error). *)
FinishRun ==
    /\ AtLoopTop
    /\ Ready = {}
    /\ Finalize("SUCCEEDED", approvals, <<"RUN_COMPLETED">>)

(* The deadline has passed: the run is marked TIMED_OUT and the loop is left, *)
(* but the code after the loop goes on to complete the run.                   *)
DeadlinePassed ==
    /\ AtLoopTop
    /\ Ready # {}
    /\ overall = -1
    /\ Finalize("SUCCEEDED", approvals, <<"RUN_TIMED_OUT", "RUN_COMPLETED">>)

StartWave ==
    /\ AtLoopTop
    /\ Ready # {}
    /\ overall # -1
    /\ pc' = [s \in Step |-> IF s \in Ready THEN "queued" ELSE "idle"]
    /\ budget' = overall
    /\ UNCHANGED <<stored, active, records, attempt, left, overall, begins>>

-----------------------------------------------------------------------------
(* Tasks of a wave.  Every action below changes the place of one task s.     *)

Move(s, to, timer) ==
    /\ pc' = [pc EXCEPT ![s] = to]
    /\ left' = [left EXCEPT ![s] = timer]
    /\ UNCHANGED <<stored, active, overall, budget, begins>>

(* The task ends having recorded an outcome for its step. *)
Record(s, outcome) ==
    /\ records' = [records EXCEPT ![s] = outcome]
    /\ attempt' = [attempt EXCEPT ![s] = 0]
    /\ Move(s, "done", None)

(* The task ends with an exception, or by asking for an approval. *)
Raise(s, to, timer) ==
    /\ attempt' = [attempt EXCEPT ![s] = 0]
    /\ Move(s, to, timer)
    /\ UNCHANGED records

(* The semaphore admits queued tasks first come first served. *)
Admitted(s) ==
    /\ pc[s] = "queued"
    /\ \A t \in 1..(s - 1) : pc[t] # "queued"
    /\ Cardinality(Holders) < MaxConcurrency

AdmitSkip(s) ==
    /\ Admitted(s)
    /\ s \in Conditional
    /\ Record(s, "SKIPPED")

(* No executor for the step type: raised outside the retry loop. *)
AdmitFail(s) ==
    /\ Admitted(s)
    /\ s \in Unregistered
    /\ Raise(s, "failed", None)

AdmitRun(s) ==
    /\ Admitted(s)
    /\ s \notin Unregistered
    /\ Move(s, "running", AttemptLimit(s))
    /\ UNCHANGED <<records, attempt>>

(* Mutation: a failure that the policy ignores is recorded as one. *)
RetryOrFail(s) ==
    \/ /\ attempt[s] < Retries[s]
       /\ attempt' = [attempt EXCEPT ![s] = @ + 1]
       /\ Move(s, "backoff", Delay[s][attempt[s] + 1])
       /\ UNCHANGED records
    \/ /\ attempt[s] >= Retries[s]
       /\ ErrorPolicy[s] \in {"SKIP", "IGNORE"}
       /\ Record(s, "FAILED")
    \/ /\ attempt[s] >= Retries[s]
       /\ ErrorPolicy[s] \in {"ABORT", "RETRY"}
       /\ Raise(s, "failed", None)

(* The attempt raised an error: back off, or apply the step's error policy. *)
RetryOrGiveUp(s) ==
    \/ /\ attempt[s] < Retries[s]
       /\ attempt' = [attempt EXCEPT ![s] = @ + 1]
       /\ Move(s, "backoff", Delay[s][attempt[s] + 1])
       /\ UNCHANGED records
    \/ /\ attempt[s] >= Retries[s]
       /\ ErrorPolicy[s] = "SKIP"
       /\ Record(s, "SKIPPED")
    \/ /\ attempt[s] >= Retries[s]
       /\ ErrorPolicy[s] = "IGNORE"
       /\ Record(s, "SUCCEEDED")
    \/ /\ attempt[s] >= Retries[s]
       /\ ErrorPolicy[s] \in {"ABORT", "RETRY"}
       /\ Raise(s, "failed", None)

(* A limit that is used up need not beat the step: before an await, wait_for  *)
(* of Python 3.12 lets the coroutine finish, that of 3.10 does not start it.  *)
AttemptSucceeds(s) ==
    /\ pc[s] = "running"
    /\ s \notin Approval
    /\ Record(s, "SUCCEEDED")

AttemptFails(s) ==
    /\ pc[s] = "running"
    /\ s \notin Approval
    /\ RetryOrGiveUp(s)

(* Mutation: the timeout of the step is taken for that of the run. *)
TimeoutEndsRun(s) ==
    /\ pc[s] = "running"
    /\ left[s] = 0 \/ s \in OwnTimeout
    /\ Raise(s, "timedout", None)

(* TimeoutError, from wait_for or from the step's own code. *)
AttemptTimesOut(s) ==
    /\ pc[s] = "running"
    /\ left[s] = 0 \/ s \in OwnTimeout
    /\ \/ Capped(s)  /\ Raise(s, "timedout", None)
       \/ ~Capped(s) /\ RetryOrGiveUp(s)

Decided(i) == approvals[i].decision # "PENDING"
Expired(i) == approvals[i].left = 0

(* _approval_executor: a decision, of either kind, ends the step. *)
ApprovalDecided(s) ==
    /\ pc[s] = "running"
    /\ s \in Approval
    /\ LatestRequest(s) # 0
    /\ \/ Decided(LatestRequest(s))
       \/ Expired(LatestRequest(s)) /\ s \in AutoApprove
    /\ Record(s, "SUCCEEDED")

ApprovalExpired(s) ==
    /\ pc[s] = "running"
    /\ s \in Approval
    /\ LatestRequest(s) # 0
    /\ ~Decided(LatestRequest(s))
    /\ Expired(LatestRequest(s))
    /\ s \notin AutoApprove
    /\ RetryOrGiveUp(s)

(* No decision on the latest request: a new request, even if one is pending. *)
ApprovalPauses(s) ==
    /\ pc[s] = "running"
    /\ s \in Approval
    /\ LatestRequest(s) # 0 =>
          ~Decided(LatestRequest(s)) /\ ~Expired(LatestRequest(s))
    /\ Raise(s, "paused", StepTimeout[s])

(* The wait is over: the next attempt, under the same wave budget. *)
BackoffEnds(s) ==
    /\ pc[s] = "backoff"
    /\ left[s] = 0
    /\ Move(s, "running", AttemptLimit(s))
    /\ UNCHANGED <<records, attempt>>

-----------------------------------------------------------------------------
(* asyncio.gather returned: results are scanned in declaration order.        *)

WaveOver == active /\ Wave # {} /\ \A s \in Wave :
                pc[s] \in {"done", "paused", "failed", "timedout"}

Raised == {s \in Wave : pc[s] \in {"failed", "timedout"}}
Paused == {s \in Wave : pc[s] = "paused"}

(* The first exception that is not a pause is raised, whatever paused. *)
WaveRaises ==
    /\ WaveOver
    /\ \E s \in Raised :
        /\ \A t \in Raised : s <= t
        /\ \/ /\ pc[s] = "failed"
              /\ Finalize("FAILED", approvals, <<"RUN_FAILED">>)
           \/ /\ pc[s] = "timedout"
              /\ Finalize("TIMED_OUT", approvals, <<"RUN_TIMED_OUT">>)

(* Mutation: a pause is handled before the errors of the wave. *)
PauseBeforeErrors ==
    /\ WaveOver
    /\ \E s \in Paused :
        /\ \A t \in Paused : t <= s
        /\ Finalize("WAITING_APPROVAL",
                    Append(approvals, [step |-> s, decision |-> "PENDING",
                                       left |-> left[s]]),
                    <<"APPROVAL_REQUESTED">>)

(* Otherwise the request of the last paused step is kept, the others are not. *)
WavePauses ==
    /\ WaveOver
    /\ Raised = {}
    /\ \E s \in Paused :
        /\ \A t \in Paused : t <= s
        /\ Finalize("WAITING_APPROVAL",
                    Append(approvals, [step |-> s, decision |-> "PENDING",
                                       left |-> left[s]]),
                    <<"APPROVAL_REQUESTED">>)

WaveCompletes ==
    /\ WaveOver
    /\ Raised = {} /\ Paused = {}
    /\ pc' = Idle
    /\ UNCHANGED <<stored, active, records, attempt, left, overall, budget, begins>>

-----------------------------------------------------------------------------
(* The environment: approvers, the process, the clock.                       *)

(* approve / reject of a stored request (decisions taken while the engine    *)
(* runs are the subject of WorkflowService).                                 *)
Decide(i, decision) ==
    /\ ~active
    /\ ~Decided(i)
    /\ approvals' = [approvals EXCEPT ![i].decision = decision]
    /\ UNCHANGED <<status, saved, events, engine, begins>>

(* The process dies, or the task running the engine is cancelled: the        *)
(* CancelledError is re-raised and the run is not stored.                    *)
Crash ==
    /\ active
    /\ Reset(saved)
    /\ UNCHANGED <<stored, begins>>

Dec(t) == IF t = None \/ t = 0 THEN t ELSE t - 1

DeadlineDec(t) == IF t = None \/ t = -1 THEN t ELSE t - 1

(* Only step code, backoffs and absent decisions take time: the engine is     *)
(* waiting for its tasks, none can be admitted, no timer is due, and an      *)
(* approval step, which does not wait, is not in the middle of its attempt.  *)
EngineWaits ==
    /\ active => Wave # {} /\ ~WaveOver
    /\ \A s \in Step : ~Admitted(s)
    /\ \A s \in Holders : left[s] # 0 /\ (s \in Approval => pc[s] = "backoff")

Tick ==
    /\ EngineWaits
    /\ left' = [s \in Step |-> Dec(left[s])]
    /\ overall' = DeadlineDec(overall)
    /\ approvals' = [i \in DOMAIN approvals |-> [approvals[i] EXCEPT !.left = Dec(@)]]
    /\ UNCHANGED <<status, saved, events, active, records, pc, attempt, budget, begins>>

Task(s) ==
    \/ AdmitSkip(s) \/ AdmitFail(s) \/ AdmitRun(s)
    \/ AttemptSucceeds(s) \/ AttemptFails(s) \/ AttemptTimesOut(s)
    \/ ApprovalDecided(s) \/ ApprovalExpired(s) \/ ApprovalPauses(s)
    \/ BackoffEnds(s)

Next ==
    \/ Begin
    \/ FinishRun \/ DeadlinePassed \/ StartWave
    \/ \E s \in Step : Task(s)
    \/ WaveRaises \/ WavePauses \/ WaveCompletes
    \/ \E i \in DOMAIN approvals, d \in {"APPROVED", "REJECTED"} : Decide(i, d)
    \/ Crash
    \/ Tick

Spec == Init /\ [][Next]_vars

(* The event loop runs tasks that are runnable and fires timers that are     *)
(* due, and time passes.  A step's own code may hang: nothing is assumed of  *)
(* AttemptSucceeds and AttemptFails.                                         *)
Fairness ==
    /\ WF_vars(FinishRun \/ DeadlinePassed \/ StartWave)
    /\ WF_vars(WaveRaises \/ WavePauses \/ WaveCompletes)
    /\ \A s \in Step :
        /\ WF_vars(AdmitSkip(s) \/ AdmitFail(s) \/ AdmitRun(s))
        /\ WF_vars(left[s] = 0 /\ AttemptTimesOut(s))
        /\ WF_vars(ApprovalDecided(s) \/ ApprovalExpired(s) \/ ApprovalPauses(s))
        /\ WF_vars(BackoffEnds(s))
    /\ WF_vars(Tick)

FairSpec == Spec /\ Fairness

-----------------------------------------------------------------------------
(* Properties. *)

TypeOK ==
    /\ status \in Statuses
    /\ saved \in [Step -> Outcomes]
    /\ approvals \in Seq([step : Approval, decision : Decisions, left : Timer])
    /\ events \in Seq(Events)
    /\ active \in BOOLEAN
    /\ records \in [Step -> Outcomes]
    /\ pc \in [Step -> Places]
    /\ attempt \in [Step -> Nat]
    /\ left \in [Step -> Timer]
    /\ overall \in Timer \cup {-1}
    /\ budget \in Timer
    /\ begins \in Nat

(* No step is in a wave, or finished, in the engine or in the stored run,   *)
(* before every step it depends on is finished: whatever the order tasks    *)
(* end in, across pauses, resumes and crashes.                              *)
DependencyOrder ==
    /\ \A s \in Step : (pc[s] # "idle" \/ records[s] # "none")
                          => Deps[s] \subseteq Finished(records)
    /\ \A s \in Step : saved[s] # "none" => Deps[s] \subseteq Finished(saved)

(* At most max_concurrency tasks are past the semaphore, those that sleep    *)
(* between two attempts included.                                           *)
SlotsBounded == Cardinality(Holders) <= MaxConcurrency

(* A step whose outcome is in the stored run is never given to an executor   *)
(* again: "completed steps are restored, not re-run".                       *)
StoredNeverRerun ==
    \A s \in Step : pc[s] \in {"queued", "running", "backoff"}
                       => saved[s] = "none" /\ records[s] = "none"

(* When a task of the wave has failed, the run that the engine hands over    *)
(* says so, even if a sibling paused for an approval or is listed first.    *)
FailureNotMasked ==
    [][(Raised # {} /\ events' # events) => status' \in {"FAILED", "TIMED_OUT"}]_vars

(* An approval step only counts as succeeded on the strength of a decision   *)
(* or of an expired request with automatic approval (or of error policy     *)
(* IGNORE).                                                                 *)
ApprovalGate ==
    \A s \in Approval :
        (records[s] = "SUCCEEDED" /\ ErrorPolicy[s] # "IGNORE") =>
            \E i \in DOMAIN approvals :
                /\ approvals[i].step = s
                /\ Decided(i) \/ (Expired(i) /\ s \in AutoApprove)

(* A run stored as WAITING_APPROVAL can go on: its newest request is the one *)
(* that its step will look at, and that step is the next to run.            *)
WaitingIsActionable ==
    (~active /\ status = "WAITING_APPROVAL") =>
        /\ approvals # <<>>
        /\ LET newest == approvals[Len(approvals)]
           IN  /\ LatestRequest(newest.step) = Len(approvals)
               /\ newest.step \in Ready

(* A run that is stored as SUCCEEDED has finished every step of its graph.   *)
(* (Holds when no overall timeout is set; see OverrunIsTimedOut.)           *)
SucceededMeansAllDone == status = "SUCCEEDED" => Finished(saved) = Step

(* With the deadline as the only source of TimeoutError, a run is only given *)
(* up as TIMED_OUT once its overall budget is used up, although the budget   *)
(* is computed once for a wave and attempts start later.  This is what       *)
(* _OverallTimeoutBudget claims ("Internal signal that a step exceeded the   *)
(* run's overall budget"); it fails if a step's own code raises TimeoutError.*)
TimedOutMeansLate ==
    [][(status' = "TIMED_OUT" /\ status # "TIMED_OUT") => overall \in {0, -1}]_vars

(* The persisted run behaves as DurableRun promises. *)
DR == INSTANCE DurableRun WITH Steps <- Step, Needs <- Deps,
                               finished <- Finished(saved)

RefinesDurableRun == DR!Spec

(* With an overall timeout, every call of run() comes to an end even if the  *)
(* code of a step never returns.                                            *)
EngineTerminates == active ~> ~active

(* Claims of the repository that the code does not keep. *)

(* "A workflow exceeding its overall timeout is marked TIMED_OUT"            *)
(* (tests/runtime_verification_workflow_advanced.py).                       *)
OverrunIsTimedOut ==
    (\E i \in DOMAIN events : events[i] = "RUN_TIMED_OUT") => status = "TIMED_OUT"

(* "Pause the run and raise a pending approval request"                      *)
(* (_approval_executor): each step that paused has one in the stored run.   *)
EveryPauseHasRequest ==
    [][(status' = "WAITING_APPROVAL" /\ events' # events) =>
          \A s \in Paused : \E i \in DOMAIN approvals' :
              approvals'[i].step = s /\ approvals'[i].decision = "PENDING"]_vars
=============================================================================
