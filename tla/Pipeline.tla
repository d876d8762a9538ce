------------------------------ MODULE Pipeline ------------------------------
(***************************************************************************)
(* The cognitive pipeline of src/app/kernel: the orchestrator takes a      *)
(* request through the stages in order; the dispatcher applies a stage's   *)
(* failure policy, the deadline and the cancellation of the session.  An   *)
(* engine that runs is the only thing that is awaited, with the delay      *)
(* before a retry.                                                         *)
(***************************************************************************)
EXTENDS Integers, Sequences, FiniteSets

CONSTANTS
    Requests,
    SessionOf,    (* the session a request names, which may be shared         *)
    Stages,       (* number of stages; the last one builds the response       *)
    PolicyOf,     (* stage -> [policy, retries, fallback]                     *)
    Unregistered  (* stages whose engine the container does not have          *)

PipelineAssumption ==
    /\ Stages \in Nat \ {0}
    /\ \A s \in 1..Stages :
          /\ PolicyOf[s].policy \in {"retry", "abort", "continue", "fallback"}
          /\ PolicyOf[s].retries \in Nat /\ PolicyOf[s].fallback \in BOOLEAN

VARIABLES
    runs,       (* per request: where its run is                              *)
    activeRun,  (* _active_sessions: session -> request                       *)
    stopped     (* history: sessions that were active when they were cancelled *)

pipelineVars == <<runs, activeRun, stopped>>

(* left: time until the deadline, "some", "under" a second or "none".        *)
NewRun == [phase |-> "idle", stage |-> 0, attempts |-> 0, results |-> {},
           cancelled |-> FALSE, left |-> "some", outcome |-> "none"]

Init ==
    /\ runs = [r \in Requests |-> NewRun]
    /\ activeRun = [s \in {} |-> 0]
    /\ stopped = {}

MaxAttempts(s) == IF PolicyOf[s].policy = "retry" THEN PolicyOf[s].retries + 1 ELSE 1

(* process: an end, with the clean-up of the session. *)
Over(r, run, outcome) ==
    /\ runs' = [runs EXCEPT ![r] = [run EXCEPT !.phase = "answered", !.outcome = outcome]]
    /\ activeRun' = [s \in DOMAIN activeRun \ {SessionOf[r]} |-> activeRun[s]]
    /\ UNCHANGED stopped

Goes(r, run) == runs' = [runs EXCEPT ![r] = run] /\ UNCHANGED <<activeRun, stopped>>

(* process, once execute has returned. *)
Completed(r, run) ==
    Over(r, run, IF Stages \in run.results THEN "response" ELSE "no response")

(* dispatch up to its first await, for the stages from s on.  The engine is  *)
(* looked up, then the token and the deadline are looked at, none of it      *)
(* under the failure policy.  With less than a second left the attempt is    *)
(* over before the engine is called, and a stage that may fail is passed.    *)
Passed(s) ==
    /\ s \notin Unregistered
    /\ \/ PolicyOf[s].policy = "continue"
       \/ PolicyOf[s].policy = "fallback" /\ PolicyOf[s].fallback

FallenBack(stages) == {s \in stages : PolicyOf[s].policy = "fallback"}

(* An attempt has failed and there is no other. *)
GivesUp(r, run, error) == Over(r, run, IF PolicyOf[run.stage].policy = "fallback" THEN "error" ELSE error)

Dispatch(r, run, first) ==
    \E s \in first..(Stages + 1) :
       LET passed == first..(s - 1)
           there == [run EXCEPT !.stage = s, !.attempts = 1, !.phase = "engine",
                                !.results = @ \cup FallenBack(passed)]
           short == run.left = "under" /\ ~run.cancelled
       IN  /\ \A q \in passed : short /\ Passed(q)
           /\ IF s > Stages THEN Completed(r, [there EXCEPT !.stage = Stages])
              ELSE IF s \in Unregistered THEN Over(r, there, "error")
              ELSE IF run.cancelled THEN Over(r, there, "cancelled")
              ELSE IF run.left = "none" THEN Over(r, there, "timeout")
              ELSE IF ~short THEN Goes(r, there)
              ELSE /\ ~Passed(s)
                   /\ IF MaxAttempts(s) > 1 THEN Goes(r, [there EXCEPT !.phase = "delay"])
                      ELSE GivesUp(r, there, "timeout")

(* Mutation: the token is not looked at between two stages. *)
GoesOnRegardless(r, run) ==
    IF run.stage = Stages \/ run.left = "none"
    THEN Completed(r, run)
    ELSE Dispatch(r, [run EXCEPT !.cancelled = FALSE], run.stage + 1)

(* execute, after a stage: the checks that end the run before the next one.  *)
NextStage(r, run) ==
    IF run.stage = Stages \/ run.cancelled \/ run.left = "none"
    THEN Completed(r, run)
    ELSE Dispatch(r, run, run.stage + 1)

Stored(run) == [run EXCEPT !.results = @ \cup {run.stage}]

(* dispatch, for an attempt that raised an exception or timed out.           *)
Failed(r, run, error) ==
    IF run.attempts < MaxAttempts(run.stage)
    THEN Goes(r, [run EXCEPT !.phase = "delay"])
    ELSE IF Passed(run.stage)
    THEN NextStage(r, [run EXCEPT !.results = @ \cup FallenBack({run.stage})])
    ELSE GivesUp(r, run, error)

-----------------------------------------------------------------------------
Process(r) ==
    /\ runs[r].phase = "idle"
    /\ LET run == [runs[r] EXCEPT !.stage = 1, !.attempts = 1, !.phase = "engine"]
       IN  IF 1 \in Unregistered
           THEN Over(r, run, "error")
           ELSE /\ runs' = [runs EXCEPT ![r] = run]
                /\ activeRun' = [s \in DOMAIN activeRun \cup {SessionOf[r]} |->
                                   IF s = SessionOf[r] THEN r ELSE activeRun[s]]
                /\ UNCHANGED stopped

EngineReturns(r) ==
    /\ runs[r].phase = "engine"
    /\ NextStage(r, Stored(runs[r]))

EngineRaises(r) ==
    /\ runs[r].phase = "engine"
    /\ Failed(r, runs[r], "error")

(* The stage's timeout, which the deadline shortens to whole seconds.        *)
EngineTimesOut(r) ==
    /\ runs[r].phase = "engine"
    /\ Failed(r, runs[r], "timeout")

(* After the delay the next attempt starts; with less than a second left it  *)
(* is over at once.                                                          *)
DelayEnds(r) ==
    LET run == [runs[r] EXCEPT !.attempts = @ + 1, !.phase = "engine"]
    IN  /\ runs[r].phase = "delay"
        /\ IF run.left = "some" THEN Goes(r, run) ELSE Failed(r, run, "timeout")

(* cancel, for a session: the token of the run the table has for it.         *)
CancelSession(s) ==
    /\ s \in DOMAIN activeRun
    /\ runs' = [runs EXCEPT ![activeRun[s]].cancelled = TRUE]
    /\ stopped' = stopped \cup {activeRun[s]}
    /\ UNCHANGED activeRun

(* The task that runs the request is cancelled: process answers all the same. *)
TaskCancelled(r) ==
    /\ runs[r].phase \in {"engine", "delay"}
    /\ Over(r, runs[r], "cancelled")

TimePasses(r) ==
    /\ runs[r].phase \in {"engine", "delay"} /\ runs[r].left # "none"
    /\ Goes(r, [runs[r] EXCEPT !.left = IF @ = "some" THEN "under" ELSE "none"])

Next ==
    \/ \E r \in Requests :
          \/ Process(r) \/ EngineReturns(r) \/ EngineRaises(r) \/ EngineTimesOut(r)
          \/ DelayEnds(r) \/ TaskCancelled(r) \/ TimePasses(r)
    \/ \E s \in {SessionOf[r] : r \in Requests} : CancelSession(s)

Spec == Init /\ [][Next]_pipelineVars

-----------------------------------------------------------------------------
(* "Pending stages never execute", and a failure is never masked: once a     *)
(* session that was found active is cancelled, or its deadline is over, its  *)
(* run calls no engine of a further stage; and a response is given only when *)
(* every stage but those whose policy lets them fail has left its result.    *)
StoppedGoesNoFurther ==
    [][\A r \in Requests :
          /\ runs[r].stage > 0 /\ runs'[r].stage > runs[r].stage /\ runs'[r].phase = "engine"
                => r \notin stopped /\ runs[r].left # "none"
          /\ runs'[r].outcome = "response" =>
                \A s \in 1..Stages :
                    PolicyOf[s].policy # "continue" => s \in runs'[r].results]_pipelineVars
=============================================================================
