---------------------------- MODULE AgentManager ----------------------------
(***************************************************************************)
(* AgentManager of src/app/agents/manager.py with its SessionRegistry and  *)
(* a JSON store: sessions that are executed by background tasks, and       *)
(* control calls (cancel, pause, delete) that ask a task to stop and wait  *)
(* for it, while others resume, delete or execute the same id.             *)
(*                                                                         *)
(* Stores do not suspend, so a handler is atomic up to the point where it  *)
(* awaits a task, and a task up to the point where it awaits the runtime.  *)
(* What the runtime computes is abstracted to how its run ends.  Options   *)
(* are those of a session that is persisted.                               *)
(***************************************************************************)
EXTENDS Integers, FiniteSets

CONSTANTS
    Ids,         (* session ids                                              *)
    MaxAttempts, (* AgentExecutionOptions.max_attempts                       *)
    MaxLaunches, (* bound: tasks started                                     *)
    MaxCalls,    (* bound: control calls that wait at the same time          *)
    MaxStops     (* bound: times the process is stopped or dies              *)

ASSUME AttemptsAssumption == MaxAttempts \in Nat \ {0}
ASSUME BoundAssumption == MaxLaunches \in Nat /\ MaxCalls \in Nat /\ MaxStops \in Nat

VARIABLES
    sessions,   (* the registry: a function from the ids in it               *)
    store,      (* the same for the store                                    *)
    taskOf,     (* _tasks: the number of a session's task, 0 if absent       *)
    tokenOf,    (* _tokens: a token bears the number of the task it is for   *)
    paused,     (* _paused                                                   *)
    reasons,    (* ids in _cancel_reasons                                    *)
    tasks,      (* _run tasks that are not done                              *)
    raised,     (* numbers of the tasks that ended with an exception         *)
    cancelled,  (* tokens that are cancelled                                 *)
    calls,      (* control calls that wait for a task                        *)
    launched,   (* tasks started so far                                      *)
    overlapped, (* history: ids on which a call met another one that waited  *)
    orphaned,   (* history: ids that were started while a delete waited, or  *)
                (* RUNNING when the process died                             *)
    mode,       (* "up" or "stopping"                                        *)
    stops       (* times the process was stopped or died                     *)

registry == <<sessions, store>>
tables   == <<taskOf, tokenOf, paused, reasons>>
running  == <<tasks, raised, cancelled>>
history  == <<overlapped, orphaned>>
process  == <<mode, stops>>
vars == <<registry, tables, running, calls, launched, history, process>>

Terminal == {"COMPLETED", "FAILED", "CANCELLED", "TIMED_OUT"}
Statuses == Terminal \cup {"RUNNING", "PAUSED"}
Session  == [status : Statuses, attempts : Nat]

Answers == {"SUCCEEDED", "FAILED", "TIMED_OUT", "CANCELLED", "RAISED"}
Task == [n : 1..launched, id : Ids, stage : {"created", "attempt", "delay"} \cup Answers,
         token : Int, attempt : Nat]
Call == [kind : {"cancel", "pause", "delete"}, id : Ids, task : 1..launched]

Known == DOMAIN sessions
Saved == DOMAIN store
InState(s, status) == s \in Known /\ sessions[s].status = status

(* f with s mapped to v, and f without s. *)
With(f, s, v)  == [q \in DOMAIN f \cup {s} |-> IF q = s THEN v ELSE f[q]]
Without(f, s)  == [q \in DOMAIN f \ {s} |-> f[q]]

Init ==
    /\ sessions = [s \in {} |-> 0] /\ store = [s \in {} |-> 0]
    /\ taskOf = [s \in Ids |-> 0] /\ tokenOf = [s \in Ids |-> 0]
    /\ paused = {} /\ reasons = {}
    /\ tasks = {} /\ raised = {} /\ cancelled = {} /\ calls = {}
    /\ launched = 0 /\ overlapped = {} /\ orphaned = {}
    /\ mode = "up" /\ stops = 0

-----------------------------------------------------------------------------
(* _finalize                                                                 *)

(* Mutation: only final outcomes are persisted. *)
FinalizeUnsaved(s, status) ==
    LET final == [sessions[s] EXCEPT !.status = status]
    IN  /\ sessions' = With(sessions, s, final)
        /\ store' = IF status \in Terminal THEN With(store, s, final) ELSE store
        /\ taskOf' = [taskOf EXCEPT ![s] = 0] /\ tokenOf' = [tokenOf EXCEPT ![s] = 0]
        /\ paused' = paused \ {s} /\ reasons' = reasons \ {s}

(* Mutation: the reason of a cancellation is kept. *)
FinalizeKeepsReason(s, status) ==
    LET final == [sessions[s] EXCEPT !.status = status]
    IN  /\ sessions' = With(sessions, s, final) /\ store' = With(store, s, final)
        /\ taskOf' = [taskOf EXCEPT ![s] = 0] /\ tokenOf' = [tokenOf EXCEPT ![s] = 0]
        /\ paused' = paused \ {s} /\ UNCHANGED reasons

Finalize(s, status) ==
    LET final == [sessions[s] EXCEPT !.status = status]
    IN  /\ sessions' = With(sessions, s, final) /\ store' = With(store, s, final)
        /\ taskOf' = [taskOf EXCEPT ![s] = 0] /\ tokenOf' = [tokenOf EXCEPT ![s] = 0]
        /\ paused' = paused \ {s} /\ reasons' = reasons \ {s}

-----------------------------------------------------------------------------
(* Calls.                                                                    *)

Waiting(s) == {c \in calls : c.id = s}

(* History: a call on s arrives. *)
Touch(s) == overlapped' = IF Waiting(s) = {} THEN overlapped ELSE overlapped \cup {s}

(* A new token and a new task. *)
Launch(s) ==
    /\ launched < MaxLaunches
    /\ launched' = launched + 1
    /\ taskOf' = [taskOf EXCEPT ![s] = launched']
    /\ tokenOf' = [tokenOf EXCEPT ![s] = launched']
    /\ tasks' = tasks \cup
          {[n |-> launched', id |-> s, stage |-> "created", token |-> 0, attempt |-> 0]}
    /\ orphaned' = IF \E c \in Waiting(s) : c.kind = "delete"
                   THEN orphaned \cup {s} ELSE orphaned
    /\ UNCHANGED <<raised, cancelled, calls, process>>

Execute(s) ==
    /\ mode = "up" /\ s \notin Known
    /\ LET new == [status |-> "RUNNING", attempts |-> 0]
       IN  sessions' = With(sessions, s, new) /\ store' = With(store, s, new)
    /\ Launch(s)
    /\ Touch(s)
    /\ UNCHANGED <<paused, reasons>>

Resume(s) ==
    /\ mode = "up" /\ InState(s, "PAUSED")
    /\ sessions' = [sessions EXCEPT ![s].status = "RUNNING"]
    /\ paused' = paused \ {s}
    /\ Launch(s)
    /\ Touch(s)
    /\ UNCHANGED <<store, reasons>>

InProgress(n) == \E t \in tasks : t.n = n

(* The token is cancelled; the call waits for the task if there is one. *)
StopAndWait(kind, s) ==
    /\ Cardinality(calls) < MaxCalls
    /\ cancelled' = cancelled \cup ({tokenOf[s]} \ {0})
    /\ calls' = IF InProgress(taskOf[s])
                THEN calls \cup {[kind |-> kind, id |-> s, task |-> taskOf[s]]} ELSE calls
    /\ UNCHANGED <<taskOf, tokenOf, tasks, raised>>

(* Mutation: a session that has ended can be cancelled. *)
CancelEnded(s) ==
    /\ mode = "up"
    /\ Touch(s)
    /\ \/ /\ s \in Known /\ sessions[s].status # "RUNNING"
          /\ Finalize(s, "CANCELLED")
          /\ UNCHANGED <<running, calls>>
       \/ /\ InState(s, "RUNNING")
          /\ reasons' = reasons \cup {s}
          /\ StopAndWait("cancel", s)
          /\ UNCHANGED <<registry, paused>>
    /\ UNCHANGED <<launched, orphaned, process>>

Cancel(s) ==
    /\ mode = "up"
    /\ Touch(s)
    /\ \/ /\ InState(s, "PAUSED")
          /\ Finalize(s, "CANCELLED")
          /\ UNCHANGED <<running, calls>>
       \/ /\ InState(s, "RUNNING")
          /\ reasons' = reasons \cup {s}
          /\ StopAndWait("cancel", s)
          /\ UNCHANGED <<registry, paused>>
    /\ UNCHANGED <<launched, orphaned, process>>

Pause(s) ==
    /\ mode = "up" /\ InState(s, "RUNNING")
    /\ Touch(s)
    /\ paused' = paused \cup {s}
    /\ StopAndWait("pause", s)
    /\ UNCHANGED <<registry, reasons, launched, orphaned, process>>

Remove(s) == sessions' = Without(sessions, s) /\ store' = Without(store, s)

(* delete_session: as cancel, then the session is removed.                   *)
Delete(s) ==
    /\ mode = "up" /\ s \in Known
    /\ Touch(s)
    /\ \/ /\ sessions[s].status \in Terminal
          /\ Remove(s)
          /\ UNCHANGED <<tables, running, calls>>
       \/ /\ InState(s, "PAUSED")
          /\ Remove(s)
          /\ taskOf' = [taskOf EXCEPT ![s] = 0] /\ tokenOf' = [tokenOf EXCEPT ![s] = 0]
          /\ paused' = paused \ {s} /\ reasons' = reasons \ {s}
          /\ UNCHANGED <<running, calls>>
       \/ /\ InState(s, "RUNNING")
          /\ reasons' = reasons \cup {s}
          /\ StopAndWait("delete", s)
          /\ IF InProgress(taskOf[s]) THEN UNCHANGED registry ELSE Remove(s)
          /\ UNCHANGED paused
    /\ UNCHANGED <<launched, orphaned, process>>

(* Mutation: a call waits until its task has left the table. *)
ReturnedFromTable(c) ==
    /\ taskOf[c.id] # c.task
    /\ calls' = calls \ {c}
    /\ IF c.kind = "delete" /\ c.task \notin raised /\ c.id \in Known
       THEN Remove(c.id) ELSE UNCHANGED registry
    /\ UNCHANGED <<tables, running, launched, history, process>>

(* Mutation: only a session that has ended is removed. *)
ReturnedIfEnded(c) ==
    /\ ~InProgress(c.task)
    /\ calls' = calls \ {c}
    /\ IF c.kind = "delete" /\ c.id \in Known /\ sessions[c.id].status \in Terminal
       THEN Remove(c.id) ELSE UNCHANGED registry
    /\ UNCHANGED <<tables, running, launched, history, process>>

(* The task is done and its waiter goes on; an exception of the task is the   *)
(* waiter's.                                                                 *)
Returned(c) ==
    /\ ~InProgress(c.task)
    /\ calls' = calls \ {c}
    /\ IF c.kind = "delete" /\ c.task \notin raised /\ c.id \in Known
       THEN Remove(c.id) ELSE UNCHANGED registry
    /\ UNCHANGED <<tables, running, launched, history, process>>

-----------------------------------------------------------------------------
(* Tasks: _run.                                                              *)

(* A task goes on to another stage. *)
Becomes(t, u) == tasks' = (tasks \ {t}) \cup {u}

(* The top of the loop: the session is marked RUNNING, the token is looked    *)
(* up, or made if there is none.                                             *)
Attempt(t) ==
    /\ t.stage \in {"created", "delay"} /\ t.id \in Known
    /\ LET attempt == sessions[t.id].attempts + 1
           token   == IF tokenOf[t.id] # 0 THEN tokenOf[t.id] ELSE -t.n
       IN  /\ sessions' = With(sessions, t.id, [status |-> "RUNNING", attempts |-> attempt])
           /\ tokenOf' = [tokenOf EXCEPT ![t.id] = token]
           /\ cancelled' = IF tokenOf[t.id] # 0 THEN cancelled ELSE cancelled \ {token}
           /\ Becomes(t, [t EXCEPT !.stage = "attempt", !.attempt = attempt, !.token = token])
    /\ UNCHANGED <<store, taskOf, paused, reasons, raised, calls, launched, history, process>>

(* The session is gone. *)
Quits(t) ==
    /\ t.stage \in {"created", "delay"} /\ t.id \notin Known
    /\ tasks' = tasks \ {t}
    /\ UNCHANGED <<registry, tables, raised, cancelled, calls, launched, history, process>>

(* AgentRuntime.run ends: a token that is cancelled is seen at the end.      *)
Answered(t, answer) ==
    /\ t.stage = "attempt"
    /\ answer \in {"SUCCEEDED", "FAILED"} => t.token \notin cancelled
    /\ answer = "CANCELLED" => t.token \in cancelled
    /\ Becomes(t, [t EXCEPT !.stage = answer])
    /\ UNCHANGED <<registry, tables, raised, cancelled, calls, launched, history, process>>

Retries(t) == t.stage = "FAILED" /\ t.attempt < MaxAttempts

(* Mutation: the loop ends after a failed attempt. *)
GivesUp(t) ==
    /\ Retries(t)
    /\ tasks' = tasks \ {t}
    /\ UNCHANGED <<registry, tables, raised, cancelled, calls, launched, history, process>>

Delays(t) ==
    /\ Retries(t)
    /\ Becomes(t, [t EXCEPT !.stage = "delay"])
    /\ UNCHANGED <<registry, tables, raised, cancelled, calls, launched, history, process>>

(* The status that the answer stands for; _handle_cancelled. *)
Outcome(t) ==
    CASE t.stage = "SUCCEEDED" -> "COMPLETED"
      [] t.stage = "TIMED_OUT" -> "TIMED_OUT"
      [] t.stage \in {"FAILED", "RAISED"} -> "FAILED"
      [] t.stage = "CANCELLED" -> IF t.id \in paused THEN "PAUSED" ELSE "CANCELLED"

Ends(t) ==
    /\ t.stage \in Answers /\ ~Retries(t) /\ t.id \in Known
    /\ Finalize(t.id, Outcome(t))
    /\ tasks' = tasks \ {t}
    /\ UNCHANGED <<raised, cancelled, calls, launched, history, process>>

(* _finalize finds no session and raises. *)
Raises(t) ==
    /\ t.stage \in Answers /\ ~Retries(t) /\ t.id \notin Known
    /\ tasks' = tasks \ {t} /\ raised' = raised \cup {t.n}
    /\ IF t.stage = "CANCELLED" /\ t.id \in paused
       THEN paused' = paused \ {t.id} /\ UNCHANGED reasons
       ELSE reasons' = (IF t.stage = "CANCELLED" THEN reasons \ {t.id} ELSE reasons) /\ UNCHANGED paused
    /\ UNCHANGED <<registry, taskOf, tokenOf, cancelled, calls, launched, history, process>>

TaskStep(t) ==
    \/ Attempt(t) \/ Quits(t) \/ Delays(t) \/ Ends(t) \/ Raises(t)
    \/ \E answer \in Answers : Answered(t, answer)

-----------------------------------------------------------------------------
(* The process.                                                              *)

(* A new process: restore() loads what the store has. *)
Restarted ==
    /\ sessions' = store /\ UNCHANGED store
    /\ taskOf' = [s \in Ids |-> 0] /\ tokenOf' = [s \in Ids |-> 0]
    /\ paused' = {} /\ reasons' = {}
    /\ tasks' = {} /\ raised' = {} /\ cancelled' = {} /\ calls' = {}
    /\ overlapped' = {}
    /\ orphaned' = {s \in Saved : store[s].status = "RUNNING"}
    /\ mode' = "up"
    /\ UNCHANGED launched

(* shutdown(): all tokens are cancelled and the tasks of the table awaited. *)
Shutdown ==
    /\ mode = "up" /\ stops < MaxStops
    /\ mode' = "stopping" /\ stops' = stops + 1
    /\ cancelled' = cancelled \cup ({tokenOf[s] : s \in Ids} \ {0})
    /\ UNCHANGED <<registry, tables, tasks, raised, calls, launched, history>>

Stopped ==
    /\ mode = "stopping"
    /\ \A s \in Ids : ~InProgress(taskOf[s])
    /\ Restarted
    /\ UNCHANGED stops

Crash ==
    /\ stops < MaxStops
    /\ stops' = stops + 1
    /\ Restarted

Next ==
    \/ \E s \in Ids : Execute(s) \/ Resume(s) \/ Cancel(s) \/ Pause(s) \/ Delete(s)
    \/ \E c \in calls : Returned(c)
    \/ \E t \in tasks : TaskStep(t)
    \/ Shutdown \/ Stopped \/ Crash

Spec == Init /\ [][Next]_vars

(* The event loop runs what can run, and a run of the runtime ends (it has an *)
(* overall timeout).                                                         *)
Fairness ==
    /\ \A n \in 1..MaxLaunches : WF_vars(\E t \in tasks : t.n = n /\ TaskStep(t))
    /\ \A n \in 1..MaxLaunches : WF_vars(\E c \in calls : c.task = n /\ Returned(c))
    /\ WF_vars(Stopped)

FairSpec == Spec /\ Fairness

-----------------------------------------------------------------------------
(* Properties.                                                               *)

TypeOK ==
    /\ Known \subseteq Ids /\ \A s \in Known : sessions[s] \in Session
    /\ Saved \subseteq Ids /\ \A s \in Saved : store[s] \in Session
    /\ taskOf \in [Ids -> 0..launched] /\ tokenOf \in [Ids -> Int]
    /\ paused \subseteq Ids /\ reasons \subseteq Ids
    /\ overlapped \subseteq Ids /\ orphaned \subseteq Ids
    /\ tasks \subseteq Task /\ \A t, u \in tasks : t.n = u.n => t = u
    /\ calls \subseteq Call /\ raised \subseteq 1..launched /\ cancelled \subseteq Int
    /\ launched \in Nat /\ stops \in Nat /\ mode \in {"up", "stopping"}

(* What a client has seen of a session that is not running is what a new     *)
(* process will restore, and deleted sessions are not restored, in every     *)
(* interleaving of calls and tasks (_finalize, delete, restore); a session   *)
(* that is running comes back as it was when it was started or paused.       *)
StoreFollows ==
    /\ Known = Saved
    /\ \A s \in Known : IF sessions[s].status = "RUNNING"
                        THEN s \in orphaned \/ store[s].status \in {"RUNNING", "PAUSED"}
                        ELSE store[s] = sessions[s]

(* A session is RUNNING exactly while it has a task, it never has two, and    *)
(* the tables know that task and nothing else: active_count() counts running *)
(* sessions, and no flag waits for a later run.                              *)
TablesMatch ==
    \A s \in Ids \ orphaned :
        LET own == {t \in tasks : t.id = s}
        IN  /\ Cardinality(own) <= 1
            /\ InState(s, "RUNNING") <=> own # {}
            /\ \A t \in own : taskOf[s] = t.n
            /\ own = {} => taskOf[s] = 0 /\ tokenOf[s] = 0 /\ s \notin paused \cup reasons

(* A session that has ended keeps its outcome until it is deleted, also over  *)
(* crashes: no late task, call or restore changes it.                        *)
OutcomeKept ==
    [][\A s \in Known \ orphaned :
        sessions[s].status \in Terminal => s \notin Known' \/ sessions'[s] = sessions[s]]_vars

(* When a call returns, the run it waited for is over and a delete has        *)
(* removed the session, whatever other calls stop the same run; without       *)
(* others, cancel() leaves an ended session and pause() one that is paused    *)
(* or ended.                                                                 *)
StopsHonoured ==
    [][\A c \in calls :
        (Returned(c) /\ c.id \notin orphaned) =>
            /\ c.kind = "delete" => c.id \notin Known'
            /\ InState(c.id, "RUNNING") => taskOf[c.id] > c.task
            /\ c.id \notin overlapped =>
                  /\ c.kind = "cancel" => sessions[c.id].status \in Terminal
                  /\ c.kind = "pause"  => sessions[c.id].status \in Terminal \cup {"PAUSED"}]_vars

(* A session is only paused for a pause() that waits, and only cancelled for  *)
(* a cancel(), a delete or the shutdown.                                     *)
OnlyOnRequest ==
    [][\A s \in Known \ orphaned :
        (s \in Known' /\ sessions'[s].status # sessions[s].status /\ stops' = stops /\ ~Stopped) =>
            /\ sessions'[s].status = "PAUSED" => \E c \in calls : c.id = s /\ c.kind = "pause"
            /\ sessions'[s].status = "CANCELLED" =>
                  \/ Cancel(s)
                  \/ \E c \in calls : c.id = s /\ c.kind \in {"cancel", "delete"}
                  \/ mode = "stopping"]_vars

(* Every call that waits for a task returns, whatever becomes of the session. *)
EveryCallReturns ==
    \A n \in 1..MaxLaunches : (\E c \in calls : c.task = n) ~> ~\E c \in calls : c.task = n

(* Every session that is started or resumed comes to rest.                   *)
EveryRunEnds ==
    \A s \in Ids : InState(s, "RUNNING") ~> (s \in orphaned \/ ~InState(s, "RUNNING"))
=============================================================================
