------------------------------ MODULE AgentRun ------------------------------
(***************************************************************************)
(* One run of the agent runtime of src/app/kernel/agent, from its request  *)
(* to its response: the engines make a plan, the loop executes its steps,  *)
(* each through the policy engine and the tool executor, and the run is    *)
(* reflected on, recorded and answered.  A run is cancelled through the    *)
(* token the runtime keeps for its session, or with the task that awaits   *)
(* it.                                                                     *)
(***************************************************************************)
EXTENDS Integers, Sequences, FiniteSets

CONSTANTS
    Runs,
    SessionOf,      (* runs without a session share the empty one             *)
    PlanLength,
    MaxIterations, MaxRetries,   (* of the run's configuration                *)
    PolicyRetries,               (* of the loop's retry policy                *)
    WithRouter      (* whether an LLM router words the response               *)

AgentRunAssumption ==
    /\ PlanLength \in Nat /\ MaxIterations \in Nat
    /\ MaxRetries \in Nat /\ PolicyRetries \in Nat /\ WithRouter \in BOOLEAN

VARIABLES
    agentRuns,      (* a record for each run                                  *)
    tokenOf         (* _active_sessions: session -> run whose token it holds  *)

agentVars == <<agentRuns, tokenOf>>

(* outcomes: the statuses of the steps so far; worked: the steps whose tool  *)
(* has done its work (history); late: the step's time is over.               *)
NewAgentRun ==
    [phase |-> "idle", outcomes |-> <<>>, attempts |-> 0, retries |-> 0, late |-> FALSE,
     worked |-> {}, cancelled |-> FALSE, remembered |-> 0, experience |-> "none",
     status |-> "pending"]

Init ==
    /\ agentRuns = [r \in Runs |-> NewAgentRun]
    /\ tokenOf = [s \in {} |-> 0]

Step(run) == Len(run.outcomes) + 1

Goes(r, run) == agentRuns' = [agentRuns EXCEPT ![r] = run] /\ UNCHANGED tokenOf

(* The end of run(), with its finally clause. *)
Answers(r, run, status) ==
    /\ agentRuns' = [agentRuns EXCEPT ![r] = [run EXCEPT !.phase = "answered", !.status = status]]
    /\ tokenOf' = [s \in DOMAIN tokenOf \ {SessionOf[r]} |-> tokenOf[s]]

-----------------------------------------------------------------------------
(* _with_skipped: what is left of the plan. *)
WithSkipped(run) ==
    [run EXCEPT !.outcomes = @ \o [i \in 1..(PlanLength - Len(@)) |-> "skipped"]]

AllSucceeded(run) ==
    PlanLength > 0 /\ \A i \in 1..PlanLength : run.outcomes[i] = "succeeded"

(* The last part of _run_internal. *)
Status(run) ==
    IF run.cancelled THEN "cancelled"
    ELSE IF AllSucceeded(run) THEN "succeeded" ELSE "failed"

(* _run_internal after the loop: the experience is recorded, then the        *)
(* response is built and, with a router, worded.                             *)
Closes(r, run) ==
    LET closed == [WithSkipped(run) EXCEPT
                     !.experience = IF AllSucceeded(WithSkipped(run)) THEN "success" ELSE "failure"]
    IN  IF WithRouter
        THEN Goes(r, [closed EXCEPT !.phase = "wording"])
        ELSE Answers(r, closed, Status(closed))

(* Mutation: the token is not looked at between the steps. *)
LoopsOn(r, run) ==
    IF Len(run.outcomes) >= MaxIterations \/ Len(run.outcomes) = PlanLength
    THEN Closes(r, run)
    ELSE Goes(r, [run EXCEPT !.phase = "tool", !.attempts = 1, !.retries = 0, !.late = FALSE])

(* The top of the loop, up to its next await: the end of the budget or of    *)
(* the plan, a cancelled token, a step that the policy engine denies, or one *)
(* that is handed to the tool executor in a task of its own.                 *)
LoopTop(r, run) ==
    IF Len(run.outcomes) >= MaxIterations \/ Len(run.outcomes) = PlanLength \/ run.cancelled
    THEN Closes(r, run)
    ELSE \/ Closes(r, [run EXCEPT !.outcomes = Append(@, "failed")])
         \/ Goes(r, [run EXCEPT !.phase = "attempt", !.attempts = 0, !.retries = 0,
                                !.late = FALSE])

(* _execute_with_retries, at the top: a cancelled token ends the whole run.  *)
TryTool(r, run) ==
    IF run.cancelled
    THEN Answers(r, run, "cancelled")
    ELSE Goes(r, [run EXCEPT !.phase = "tool", !.attempts = @ + 1])

Remembered(run) == [run EXCEPT !.remembered = @ + 1]

(* _execute_with_retries, after a failure. *)
RetryOrFail(r, run, transient) ==
    IF transient /\ run.retries < MaxRetries /\ run.attempts <= PolicyRetries
    THEN TryTool(r, [run EXCEPT !.retries = @ + 1])
    ELSE Closes(r, [Remembered(run) EXCEPT !.outcomes = Append(@, "failed")])

-----------------------------------------------------------------------------
Begin(r) ==
    /\ agentRuns[r].phase = "idle"
    /\ agentRuns' = [agentRuns EXCEPT ![r].phase = "planning"]
    /\ tokenOf' = [s \in DOMAIN tokenOf \cup {SessionOf[r]} |->
                     IF s = SessionOf[r] THEN r ELSE tokenOf[s]]

(* Perception, intent, goal, plan and reasoning; then the loop.              *)
PlanMade(r) ==
    /\ agentRuns[r].phase = "planning"
    /\ LoopTop(r, agentRuns[r])

(* The task of a step starts. *)
StepStarts(r) ==
    /\ agentRuns[r].phase = "attempt"
    /\ TryTool(r, agentRuns[r])

ToolSucceeds(r) ==
    LET run == [agentRuns[r] EXCEPT !.worked = @ \cup {Step(agentRuns[r])}]
    IN  /\ agentRuns[r].phase = "tool" /\ ~agentRuns[r].late
        /\ LoopTop(r, [Remembered(run) EXCEPT !.outcomes = Append(@, "succeeded")])

(* A failure; one whose message has a retryable marker is transient.         *)
ToolFails(r, transient) ==
    /\ agentRuns[r].phase = "tool" /\ ~agentRuns[r].late
    /\ RetryOrFail(r, agentRuns[r], transient)

(* The executor's timeout, which is the step's: a retry starts the tool once *)
(* more, but the step has no time left.                                      *)
ToolTimesOut(r) ==
    /\ agentRuns[r].phase = "tool" /\ ~agentRuns[r].late
    /\ RetryOrFail(r, [agentRuns[r] EXCEPT !.late = TRUE], TRUE)

(* The step's own timeout; nothing is remembered of the step.                *)
StepTimesOut(r) ==
    /\ agentRuns[r].phase = "tool"
    /\ Closes(r, [agentRuns[r] EXCEPT !.outcomes = Append(@, "failed")])

RouterAnswers(r) ==
    /\ agentRuns[r].phase = "wording"
    /\ Answers(r, agentRuns[r], Status(agentRuns[r]))

(* A failing router makes run() raise. *)
RouterFails(r) ==
    /\ agentRuns[r].phase = "wording"
    /\ Answers(r, agentRuns[r], "raised")

Awaiting(r) == agentRuns[r].phase \in {"planning", "attempt", "tool", "wording"}

OverallTimeout(r) == Awaiting(r) /\ Answers(r, agentRuns[r], "timed_out")

TaskCancelled(r) ==
    /\ Awaiting(r)
    /\ Answers(r, [agentRuns[r] EXCEPT !.cancelled = TRUE], "cancelled")

Cancel(s) ==
    /\ s \in DOMAIN tokenOf
    /\ Goes(tokenOf[s], [agentRuns[tokenOf[s]] EXCEPT !.cancelled = TRUE])

Next ==
    \/ \E r \in Runs :
          \/ Begin(r) \/ PlanMade(r) \/ StepStarts(r) \/ ToolSucceeds(r)
          \/ \E transient \in BOOLEAN : ToolFails(r, transient)
          \/ ToolTimesOut(r) \/ StepTimesOut(r) \/ RouterAnswers(r) \/ RouterFails(r)
          \/ OverallTimeout(r) \/ TaskCancelled(r)
    \/ \E s \in {SessionOf[r] : r \in Runs} : Cancel(s)

Spec == Init /\ [][Next]_agentVars

-----------------------------------------------------------------------------
(* A tool is never started for a cancelled run nor out of turn, and what a   *)
(* run says of itself is true: it succeeded only if every tool of its plan   *)
(* worked and nobody cancelled it, and an experience counts as a success     *)
(* only if they all worked, however the run itself ended.                    *)
AgentObeys ==
    [][\A r \in Runs :
          LET run == agentRuns[r]  next == agentRuns'[r]
          IN  /\ next.attempts > run.attempts =>
                    ~run.cancelled /\ run.worked = 1..Len(run.outcomes)
              /\ next.status = "succeeded" => ~next.cancelled /\ next.experience = "success"
              /\ next.experience = "success" => next.worked = 1..PlanLength]_agentVars
=============================================================================
