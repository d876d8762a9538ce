--------------------------- MODULE WorkflowService ---------------------------
(***************************************************************************)
(* WorkflowService of src/app/automation/workflow.py: runs of a workflow   *)
(* that are created, executed, paused for an approval, decided upon,       *)
(* cancelled, resumed, and brought back after the process died.            *)
(*                                                                         *)
(* The service lock covers each look-up-and-store, never an execution: an  *)
(* execution works on the immutable run it was given and, when it ends,    *)
(* stores what it made of THAT run.  Run registry and run store change     *)
(* together under the lock, so `runs` stands for both; the durable event   *)
(* timeline is appended to afterwards, from a cursor kept in memory.  The   *)
(* scheduler is its second writer: when the execution that a schedule fired *)
(* has returned, it appends a notice under the run's id.                   *)
(*                                                                         *)
(* The workflow is a step with an external effect followed by an approval. *)
(* The engine is reduced to what the service sees of it (WorkflowExecutor  *)
(* is its model): the effect happens, and the run that comes back has      *)
(* failed, succeeded, or paused with a new request.                        *)
(***************************************************************************)
EXTENDS Integers, Sequences, Functions

CONSTANTS
    Keys,         (* idempotency keys callers use                             *)
    NoKey,        (* idempotency_key is None                                  *)
    Versions,     (* versions the registry may resolve a request to           *)
    MaxRuns,      (* bound: runs created                                      *)
    MaxResumes,   (* bound: resume() calls by clients                         *)
    MaxCrashes,   (* bound: times the process dies                            *)
    CallersWait   (* TRUE: cancel, approve, reject and resume are only called *)
                  (* for a run that no execution is working on               *)

ASSUME KeyAssumption == NoKey \notin Keys
ASSUME BoundAssumption ==
    /\ MaxRuns \in Nat /\ MaxResumes \in Nat /\ MaxCrashes \in Nat
ASSUME CallersAssumption == CallersWait \in BOOLEAN

VARIABLES
    runs,       (* persisted runs in creation order                         *)
    log,        (* durable event timeline of each run                       *)
    synced,     (* _synced_events of each run, 0 if absent                  *)
    executions, (* _execute_run calls in progress                           *)
    issued,     (* executions started so far: names them                    *)
    mode,       (* "up", "starting" (startup in progress) or "down"         *)
    toResume,   (* runs startup() has yet to resume                         *)
    effects,    (* times each run's first step took effect outside          *)
    resumes,    (* resume() calls by clients so far                         *)
    crashes     (* times the process died                                   *)

vars == <<runs, log, synced, executions, issued, mode, toResume,
          effects, resumes, crashes>>

Terminal  == {"SUCCEEDED", "FAILED", "CANCELLED"}
Resumable == {"PENDING", "WAITING_APPROVAL"}
Decisions == {"APPROVED", "REJECTED"}

(* Engine events, and the scheduler's notices that a fire is completed, are   *)
(* told apart by the execution they are about.  Other events of the          *)
(* scheduler carry no run id.                                                *)
Event  == (Nat \ {0}) \X {"started", "ended"}
Notice == (Nat \ {0}) \X {"completed"}
Logged == Event \cup Notice

Run == [version : Versions, key : Keys \cup {NoKey},
        trigger : {"manual", "schedule"},
        status : Terminal \cup Resumable,
        done : 0..2,                       (* finished steps              *)
        approvals : Seq({"PENDING"} \cup Decisions),
        events : Seq(Event)]

(* An execution that a schedule caused has a fire waiting for it, which will   *)
(* write about it.  A resumed run has nobody who would.                      *)
Execution == [id : Nat \ {0}, run : Nat \ {0}, base : Run, done : 0..2,
              cause : {"manual", "schedule"}]

Busy(r) == \E x \in executions : x.run = r

Init ==
    /\ runs = <<>> /\ log = <<>> /\ synced = <<>> /\ effects = <<>>
    /\ executions = {} /\ issued = 0
    /\ mode = "up"
    /\ toResume = {}
    /\ resumes = 0 /\ crashes = 0

-----------------------------------------------------------------------------
(* _persist_run: first the run, then the events its timeline does not have    *)
(* yet.  What the scheduler notes about it follows without an await.         *)

Unsynced(r, run) == SubSeq(run.events, synced[r] + 1, Len(run.events))

(* Mutation: the cursor is not moved. *)
PersistWithoutCursor(r, run, notes) ==
    /\ runs' = [runs EXCEPT ![r] = run]
    /\ log' = [log EXCEPT ![r] = @ \o Unsynced(r, run) \o notes]
    /\ synced' = synced
    /\ UNCHANGED <<mode, toResume, crashes>>

PersistAll(r, run, notes) ==
    /\ runs' = [runs EXCEPT ![r] = run]
    /\ log' = [log EXCEPT ![r] = @ \o Unsynced(r, run) \o notes]
    /\ synced' = [synced EXCEPT ![r] = Len(run.events)]
    /\ UNCHANGED <<mode, toResume, crashes>>

(* Everything in memory is gone. *)
Die ==
    /\ mode' = "down"
    /\ executions' = {}
    /\ toResume' = {}
    /\ synced' = [r \in DOMAIN synced |-> 0]
    /\ crashes' = crashes + 1

(* The process dies after storing the run and some of its events. *)
PersistThenDie(r, run) ==
    /\ crashes < MaxCrashes
    /\ \E k \in 0..Len(Unsynced(r, run)) :
        /\ runs' = [runs EXCEPT ![r] = run]
        /\ log' = [log EXCEPT ![r] = @ \o SubSeq(Unsynced(r, run), 1, k)]
    /\ Die

(* _persist_run by a call after which `others` are still executing. *)
Persist(r, run, notes, others) ==
    \/ PersistAll(r, run, notes) /\ executions' = others
    \/ PersistThenDie(r, run)

Crash ==
    /\ mode # "down"
    /\ crashes < MaxCrashes
    /\ Die
    /\ UNCHANGED <<runs, log, issued, effects, resumes>>

-----------------------------------------------------------------------------
(* Executions. *)

StartExecution(r, run, cause) ==
    /\ issued' = issued + 1
    /\ executions' = executions \cup
           {[id |-> issued + 1, run |-> r, base |-> run, done |-> run.done,
             cause |-> cause]}

(* Mutation: the records of finished steps are not handed back. *)
ResultWithoutSteps(x, status, done, requests) ==
    [x.base EXCEPT !.status = status, !.approvals = @ \o requests,
                   !.events = @ \o <<<<x.id, "started">>, <<x.id, "ended">>>>]

(* The run handed back: the one handed over, with the engine's results. *)
Result(x, status, done, requests) ==
    [x.base EXCEPT !.status = status, !.done = done,
                   !.approvals = @ \o requests,
                   !.events = @ \o <<<<x.id, "started">>, <<x.id, "ended">>>>]

(* The latest request is the one the approval step looks at. *)
Decided(x) ==
    /\ x.base.approvals # <<>>
    /\ x.base.approvals[Len(x.base.approvals)] # "PENDING"

Results(x) ==
    {Result(x, "FAILED", x.done, <<>>)} \cup
    (IF x.done = 0 THEN {}
     ELSE IF Decided(x) THEN {Result(x, "SUCCEEDED", 2, <<>>)}
     ELSE {Result(x, "WAITING_APPROVAL", x.done, <<"PENDING">>)})

(* The first step of the run takes effect. *)
TakeEffect(x) ==
    /\ x.done = 0
    /\ executions' = (executions \ {x}) \cup {[x EXCEPT !.done = 1]}
    /\ effects' = [effects EXCEPT ![x.run] = @ + 1]
    /\ UNCHANGED <<runs, log, synced, issued, mode, toResume, resumes, crashes>>

(* _fire emits EVENT_SCHEDULE_COMPLETED about the run it waited for. *)
Notes(x) == IF x.cause = "schedule" THEN <<<<x.id, "completed">>>> ELSE <<>>

(* The execution ends: its result is stored, whatever is stored by now. *)
Return(x) ==
    /\ \E result \in Results(x) : Persist(x.run, result, Notes(x), executions \ {x})
    /\ UNCHANGED <<issued, effects, resumes>>

-----------------------------------------------------------------------------
(* Client calls, served between startup and the end of the process.          *)

(* Mutation: only runs that are not over are looked at. *)
DuplicateOpen(key, version) ==
    \E r \in DOMAIN runs : /\ runs[r].key = key /\ runs[r].version = version
                           /\ runs[r].status \notin Terminal

(* _find_idempotent_run *)
Duplicate(key, version) ==
    \E r \in DOMAIN runs : runs[r].key = key /\ runs[r].version = version

(* execute: the new run is stored before its execution starts.  A duplicate  *)
(* request is answered with the existing run.  A fire always has a key, and  *)
(* one of its own: the time of the poll is part of it.                       *)
Execute(key, version, trigger) ==
    /\ mode = "up"
    /\ Len(runs) < MaxRuns
    /\ key # NoKey => ~Duplicate(key, version)
    /\ trigger = "schedule" => key # NoKey
    /\ LET run == [version |-> version, key |-> key, trigger |-> trigger,
                   status |-> "PENDING", done |-> 0, approvals |-> <<>>,
                   events |-> <<>>]
       IN  /\ runs' = Append(runs, run)
           /\ StartExecution(Len(runs) + 1, run, trigger)
    /\ log' = Append(log, <<>>)
    /\ synced' = Append(synced, 0)
    /\ effects' = Append(effects, 0)
    /\ UNCHANGED <<mode, toResume, resumes, crashes>>

(* A run that clients may act upon. *)
Addressable(r) == mode = "up" /\ (CallersWait => ~Busy(r))

(* Mutation: terminal runs are resumed too. *)
ResumeTerminal(r) ==
    /\ Addressable(r)
    /\ resumes < MaxResumes
    /\ StartExecution(r, runs[r], "manual")
    /\ resumes' = resumes + 1
    /\ UNCHANGED <<runs, log, synced, mode, toResume, effects, crashes>>

(* resume: terminal runs are returned unchanged. *)
Resume(r) ==
    /\ Addressable(r)
    /\ resumes < MaxResumes
    /\ runs[r].status \notin Terminal
    /\ StartExecution(r, runs[r], "manual")
    /\ resumes' = resumes + 1
    /\ UNCHANGED <<runs, log, synced, mode, toResume, effects, crashes>>

(* cancel: the stored run is marked, its execution is not told. *)
Cancel(r) ==
    /\ Addressable(r)
    /\ runs[r].status \notin Terminal
    /\ Persist(r, [runs[r] EXCEPT !.status = "CANCELLED"], <<>>, executions)
    /\ UNCHANGED <<issued, effects, resumes>>

(* Mutation: a request that was decided can be decided again. *)
DecideAgain(r, i, decision) ==
    /\ Addressable(r)
    /\ Persist(r, [runs[r] EXCEPT !.approvals[i] = decision], <<>>, executions)
    /\ UNCHANGED <<issued, effects, resumes>>

(* _decide: approve or reject; the status of the run is not looked at. *)
Decide(r, i, decision) ==
    /\ Addressable(r)
    /\ runs[r].approvals[i] = "PENDING"
    /\ Persist(r, [runs[r] EXCEPT !.approvals[i] = decision], <<>>, executions)
    /\ UNCHANGED <<issued, effects, resumes>>

-----------------------------------------------------------------------------
(* startup: the runs that are resumable in the store are resumed one after    *)
(* another, each to its end, before the scheduler and the server start.      *)

(* Mutation: runs stored as PENDING are not among the resumable ones. *)
StartupWithoutPending ==
    /\ mode = "down"
    /\ mode' = "starting"
    /\ toResume' = {r \in DOMAIN runs : runs[r].status = "WAITING_APPROVAL"}
    /\ UNCHANGED <<runs, log, synced, executions, issued, effects, resumes, crashes>>

Startup ==
    /\ mode = "down"
    /\ mode' = "starting"
    /\ toResume' = {r \in DOMAIN runs : runs[r].status \in Resumable}
    /\ UNCHANGED <<runs, log, synced, executions, issued, effects,
                   resumes, crashes>>

(* In stored order, which is the order of creation. *)
ResumeNext ==
    /\ mode = "starting"
    /\ executions = {}
    /\ \E r \in toResume :
        /\ \A q \in toResume : r <= q
        /\ toResume' = toResume \ {r}
        /\ StartExecution(r, runs[r], "manual")
    /\ UNCHANGED <<runs, log, synced, mode, effects, resumes, crashes>>

StartupEnds ==
    /\ mode = "starting"
    /\ executions = {}
    /\ toResume = {}
    /\ mode' = "up"
    /\ UNCHANGED <<runs, log, synced, executions, issued, toResume,
                   effects, resumes, crashes>>

Client ==
    \/ \E key \in Keys \cup {NoKey}, version \in Versions,
          trigger \in {"manual", "schedule"} : Execute(key, version, trigger)
    \/ \E r \in DOMAIN runs :
        \/ Resume(r) \/ Cancel(r)
        \/ \E i \in DOMAIN runs[r].approvals, d \in Decisions : Decide(r, i, d)

Next ==
    \/ \E x \in executions : TakeEffect(x) \/ Return(x)
    \/ Client
    \/ Startup \/ ResumeNext \/ StartupEnds
    \/ Crash

Spec == Init /\ [][Next]_vars

(* Executions come to an end (WorkflowExecutor: with an overall timeout),     *)
(* startup goes on, and a dead process is restarted (docs/DEPLOYMENT.md).    *)
Fairness ==
    /\ \A r \in 1..MaxRuns :
        WF_vars(\E x \in executions : x.run = r /\ (TakeEffect(x) \/ Return(x)))
    /\ WF_vars(Startup) /\ WF_vars(ResumeNext) /\ WF_vars(StartupEnds)

FairSpec == Spec /\ Fairness

-----------------------------------------------------------------------------
(* Properties. *)

TypeOK ==
    /\ runs \in Seq(Run)
    /\ log \in Seq(Seq(Logged)) /\ Len(log) = Len(runs)
    /\ synced \in Seq(Nat) /\ Len(synced) = Len(runs)
    /\ effects \in Seq(Nat) /\ Len(effects) = Len(runs)
    /\ executions \subseteq Execution
    /\ \A x \in executions : x.run \in DOMAIN runs /\ x.id <= issued
    /\ issued \in Nat
    /\ mode \in {"up", "starting", "down"}
    /\ toResume \subseteq DOMAIN runs
    /\ resumes \in Nat /\ crashes \in Nat

(* A run that was stored as terminal keeps that status: executions that were *)
(* started before it, resumes and restarts do not bring it back.            *)
TerminalIsFinal ==
    [][\A r \in DOMAIN runs :
        runs[r].status \in Terminal => runs'[r].status = runs[r].status]_vars

(* A decision that was recorded stays recorded.                              *)
DecisionKept ==
    [][\A r \in DOMAIN runs : \A i \in DOMAIN runs[r].approvals :
        runs[r].approvals[i] \in Decisions =>
            /\ i \in DOMAIN runs'[r].approvals
            /\ runs'[r].approvals[i] = runs[r].approvals[i]]_vars

(* A step takes effect once, plus at most once for each time the process     *)
(* died: nothing of an execution is stored before it ends.                  *)
EffectBounded == \A r \in DOMAIN effects : effects[r] <= 1 + crashes

(* "prevents duplicate runs" (docs/WORKFLOW.md): a key names one run of a    *)
(* version, whatever is in progress, restarts included.                     *)
OneRunPerKey ==
    \A p, q \in DOMAIN runs :
        (runs[p].key # NoKey /\ runs[p].key = runs[q].key
            /\ runs[p].version = runs[q].version) => p = q

(* What a timeline says beside the events of its run.                        *)
Noted(l) == {i \in DOMAIN l : l[i] \in Notice}

(* The timeline l shows events of the run, and at most one notice: of a       *)
(* scheduled run, about an execution that has ended.                         *)
Shows(l, run) ==
    /\ \A i \in DOMAIN l \ Noted(l) : l[i] \in Range(run.events)
    /\ \A i \in Noted(l) : /\ run.trigger = "schedule"
                          /\ <<l[i][1], "ended">> \in Range(run.events)
    /\ \A i, j \in Noted(l) : i = j

(* The timeline l is the run's event log, with a notice after its event p.   *)
NotedAfter(l, events, p) ==
    /\ Len(l) = Len(events) + 1
    /\ \A i \in 1..p : l[i] = events[i]
    /\ events[p][2] = "ended" /\ l[p + 1] = <<events[p][1], "completed">>
    /\ \A i \in p + 1..Len(events) : l[i + 1] = events[i]

(* A fire waits for an execution of the run.                                 *)
Awaited(r) == \E x \in executions : x.run = r /\ x.cause = "schedule"

(* The durable timeline shows no engine event that the stored run does not    *)
(* have.  The scheduler's notice is the one thing in it that the run's own   *)
(* log lacks: only a scheduled run has one, once, about an execution that    *)
(* has ended.  As long as the process has not died the timeline is the run's *)
(* event log; once a fire has what it waited for, with that notice right      *)
(* behind the end of the execution: the two writers never mix up the order,  *)
(* and the cursor of one is not moved by what the other appends.             *)
TimelineFaithful ==
    \A r \in DOMAIN runs :
        /\ Shows(log[r], runs[r])
        /\ crashes = 0 =>
              IF runs[r].trigger = "manual" \/ Awaited(r)
              THEN log[r] = runs[r].events
              ELSE \E p \in DOMAIN runs[r].events : NotedAfter(log[r], runs[r].events, p)

(* Every run that was accepted is carried on until it is finished or waits   *)
(* for an approval, even if the process dies in between.                    *)
EveryRunLeavesPending ==
    \A r \in 1..MaxRuns :
        (r \in DOMAIN runs /\ runs[r].status = "PENDING") ~>
            (r \in DOMAIN runs /\ runs[r].status # "PENDING")
=============================================================================
