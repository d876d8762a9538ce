------------------------- MODULE AgentManagerProofs -------------------------
(* Theorems about AgentManager, for any number of sessions, tasks, waiting   *)
(* calls, shutdowns and crashes.                                             *)
EXTENDS AgentManager, FiniteSetTheorems, TLAPS

-----------------------------------------------------------------------------
(* What the helpers do.                                                      *)

LEMMA WithoutFacts ==
    ASSUME NEW f, NEW s
    PROVE  /\ DOMAIN Without(f, s) = DOMAIN f \ {s}
           /\ \A q \in DOMAIN f \ {s} : Without(f, s)[q] = f[q]
BY DEF Without

LEMMA FinalizeFacts ==
    ASSUME TypeOK, NEW s \in Known, NEW status \in Statuses, Finalize(s, status)
    PROVE  /\ Known' = Known /\ Saved' = Saved \cup {s}
           /\ sessions'[s] \in Session /\ store'[s] = sessions'[s]
           /\ sessions'[s].status = status
           /\ \A q \in Known : q # s => sessions'[q] = sessions[q]
           /\ \A q \in Saved : q # s => store'[q] = store[q]
           /\ taskOf' = [taskOf EXCEPT ![s] = 0] /\ tokenOf' = [tokenOf EXCEPT ![s] = 0]
           /\ paused' = paused \ {s} /\ reasons' = reasons \ {s}
<1> DEFINE final == [sessions[s] EXCEPT !.status = status]
<1>1. final \in Session /\ final.status = status
  BY DEF TypeOK, Session
<1>2. sessions' = With(sessions, s, final) /\ store' = With(store, s, final)
  BY DEF Finalize
<1>3. /\ taskOf' = [taskOf EXCEPT ![s] = 0] /\ tokenOf' = [tokenOf EXCEPT ![s] = 0]
      /\ paused' = paused \ {s} /\ reasons' = reasons \ {s}
  BY DEF Finalize
<1> HIDE DEF final
<1>4. /\ DOMAIN sessions' = DOMAIN sessions \cup {s} /\ sessions'[s] = final
      /\ \A q \in DOMAIN sessions : q # s => sessions'[q] = sessions[q]
  BY <1>2 DEF With
<1>5. /\ DOMAIN store' = DOMAIN store \cup {s} /\ store'[s] = final
      /\ \A q \in DOMAIN store : q # s => store'[q] = store[q]
  BY <1>2 DEF With
<1> QED
  BY <1>1, <1>3, <1>4, <1>5 DEF Known, Saved

LEMMA OutcomeFacts ==
    ASSUME NEW t, t.stage \in Answers
    PROVE  /\ Outcome(t) \in Statuses \ {"RUNNING"}
           /\ Outcome(t) # "PAUSED" => Outcome(t) \in Terminal
           /\ Outcome(t) = "PAUSED" => t.id \in paused
BY DEF Outcome, Answers, Statuses, Terminal

-----------------------------------------------------------------------------
(* Type correctness.                                                         *)

LEMMA TypeInit == Init => TypeOK
BY DEF Init, TypeOK, Known, Saved

(* A task goes on.                                                           *)
LEMMA BecomesType ==
    ASSUME TypeOK, NEW t \in tasks, NEW u \in Task, u.n = t.n, Becomes(t, u),
           launched' = launched
    PROVE  /\ tasks' \subseteq Task'
           /\ \A v, w \in tasks' : v.n = w.n => v = w
<1>1. Task' = Task
  BY DEF Task
<1> QED
  BY <1>1 DEF TypeOK, Becomes

LEMMA LaunchType ==
    ASSUME TypeOK, NEW s \in Ids, Launch(s)
    PROVE  /\ taskOf' \in [Ids -> 0..launched'] /\ tokenOf' \in [Ids -> Int]
           /\ tasks' \subseteq Task' /\ \A v, w \in tasks' : v.n = w.n => v = w
           /\ calls' \subseteq Call' /\ raised' \subseteq 1..launched'
           /\ cancelled' \subseteq Int /\ orphaned' \subseteq Ids
           /\ launched' \in Nat /\ stops' = stops /\ mode' = mode
<1> DEFINE new == [n |-> launched', id |-> s, stage |-> "created", token |-> 0, attempt |-> 0]
<1>1. launched \in Nat /\ launched' = launched + 1 /\ launched' \in Nat
  BY DEF Launch, TypeOK
<1>2. 1..launched \subseteq 1..launched' /\ 0..launched \subseteq 0..launched'
      /\ launched' \in 1..launched' /\ launched' \notin 1..launched
  BY <1>1
<1>3. Task \subseteq Task' /\ Call \subseteq Call' /\ new \in Task'
  BY <1>2 DEF Task, Call
<1>4. tasks' = tasks \cup {new}
  BY DEF Launch
<1>5. \A v \in tasks : v.n # new.n
  BY <1>2 DEF TypeOK, Task
<1>6. taskOf' \in [Ids -> 0..launched']
  <2>1. taskOf' = [taskOf EXCEPT ![s] = launched'] /\ launched' \in 0..launched'
    BY <1>1 DEF Launch
  <2>2. taskOf \in [Ids -> 0..launched']
    BY <1>2 DEF TypeOK
  <2> QED
    BY <2>1, <2>2
<1>7. tokenOf' \in [Ids -> Int]
  <2>1. tokenOf' = [tokenOf EXCEPT ![s] = launched'] /\ tokenOf \in [Ids -> Int]
    BY DEF Launch, TypeOK
  <2> QED
    BY <1>1, <2>1
<1>8. UNCHANGED <<raised, cancelled, calls, process>> /\ orphaned' \subseteq Ids
  BY DEF Launch, TypeOK
<1> QED
  BY <1>1, <1>2, <1>3, <1>4, <1>5, <1>6, <1>7, <1>8 DEF TypeOK, process

LEMMA StopAndWaitType ==
    ASSUME TypeOK, NEW s \in Ids, NEW kind \in {"cancel", "pause", "delete"},
           StopAndWait(kind, s), launched' = launched
    PROVE  calls' \subseteq Call' /\ cancelled' \subseteq Int
<1>1. Call' = Call
  BY DEF Call
<1>2. InProgress(taskOf[s]) => taskOf[s] \in 1..launched
  BY DEF InProgress, TypeOK, Task
<1>3. tokenOf[s] \in Int
  BY DEF TypeOK
<1>4. calls' \subseteq Call
  BY <1>2 DEF StopAndWait, TypeOK, Call
<1> QED
  BY <1>1, <1>3, <1>4 DEF StopAndWait, TypeOK

LEMMA RemoveFacts ==
    ASSUME NEW s, Remove(s)
    PROVE  /\ Known' = Known \ {s} /\ Saved' = Saved \ {s}
           /\ \A q \in Known' : sessions'[q] = sessions[q]
           /\ \A q \in Saved' : store'[q] = store[q]
BY WithoutFacts DEF Remove, Known, Saved

(* The parts of TypeOK.                                                      *)
RegistryType == /\ Known \subseteq Ids /\ \A s \in Known : sessions[s] \in Session
                /\ Saved \subseteq Ids /\ \A s \in Saved : store[s] \in Session
TablesType == /\ taskOf \in [Ids -> 0..launched] /\ tokenOf \in [Ids -> Int]
              /\ paused \subseteq Ids /\ reasons \subseteq Ids
HistoryType == overlapped \subseteq Ids /\ orphaned \subseteq Ids
TasksType == tasks \subseteq Task /\ \A t, u \in tasks : t.n = u.n => t = u
RestType == /\ calls \subseteq Call /\ raised \subseteq 1..launched /\ cancelled \subseteq Int
            /\ launched \in Nat /\ stops \in Nat /\ mode \in {"up", "stopping"}

LEMMA TypeParts ==
    /\ TypeOK <=> RegistryType /\ TablesType /\ HistoryType /\ TasksType /\ RestType
    /\ RegistryType' /\ TablesType' /\ HistoryType' /\ TasksType' /\ RestType' => TypeOK'
BY DEF TypeOK, RegistryType, TablesType, HistoryType, TasksType, RestType

LEMMA TouchType == ASSUME HistoryType, NEW s \in Ids, Touch(s) PROVE overlapped' \subseteq Ids
BY DEF Touch, HistoryType

(* A step that starts a task.                                                *)
LEMMA LaunchTypeOK ==
    ASSUME TypeOK, NEW s \in Ids, Launch(s), Touch(s), RegistryType',
           paused' \subseteq Ids, reasons' \subseteq Ids
    PROVE  TypeOK'
<1>1. overlapped' \subseteq Ids
  BY TouchType, TypeParts
<1>2. TablesType' /\ HistoryType' /\ TasksType' /\ RestType'
  BY <1>1, LaunchType DEF TablesType, HistoryType, TasksType, RestType, TypeOK
<1> QED
  BY <1>2, TypeParts

LEMMA ClientType ==
    ASSUME TypeOK, NEW s \in Ids,
           Execute(s) \/ Resume(s) \/ Cancel(s) \/ Pause(s) \/ Delete(s)
    PROVE  TypeOK'
<1>t. RegistryType /\ TablesType /\ HistoryType /\ TasksType /\ RestType
  BY TypeParts
<1>r. "RUNNING" \in Statuses /\ "CANCELLED" \in Statuses
  BY DEF Statuses, Terminal
<1>1. CASE Execute(s)
  <2>1. RegistryType'
    <3>1. [status |-> "RUNNING", attempts |-> 0] \in Session
      BY <1>r DEF Session
    <3> QED
      BY <1>1, <1>t, <3>1 DEF Execute, With, RegistryType, Known, Saved
  <2> QED
    BY <1>1, <1>t, <2>1, LaunchTypeOK DEF Execute, TablesType
<1>2. CASE Resume(s)
  <2>1. RegistryType'
    BY <1>2, <1>t, <1>r DEF Resume, RegistryType, Known, Saved, Session
  <2> QED
    BY <1>2, <1>t, <2>1, LaunchTypeOK DEF Resume, TablesType
<1>3. ASSUME Finalize(s, "CANCELLED"), s \in Known, Touch(s),
             UNCHANGED <<running, calls, launched, orphaned, process>>
      PROVE  TypeOK'
  <2>1. RegistryType'
    BY <1>3, <1>t, <1>r, FinalizeFacts DEF RegistryType
  <2>2. TablesType'
    BY <1>3, <1>t DEF Finalize, TablesType, RestType
  <2>3. HistoryType'
    BY <1>3, <1>t, TouchType DEF HistoryType
  <2>4. TasksType' /\ RestType'
    BY <1>3, <1>t DEF TasksType, RestType, Task, Call, running, process
  <2> QED
    BY <2>1, <2>2, <2>3, <2>4, TypeParts
<1>4. ASSUME NEW kind \in {"cancel", "pause", "delete"}, StopAndWait(kind, s), Touch(s),
             RegistryType', paused' \subseteq Ids, reasons' \subseteq Ids,
             UNCHANGED <<launched, orphaned, process>>
      PROVE  TypeOK'
  <2>1. calls' \subseteq Call' /\ cancelled' \subseteq Int
    BY <1>4, StopAndWaitType
  <2>2. HistoryType'
    BY <1>4, <1>t, TouchType DEF HistoryType
  <2>3. UNCHANGED <<taskOf, tokenOf, tasks, raised>>
    BY <1>4 DEF StopAndWait
  <2>4. TablesType' /\ TasksType' /\ RestType'
    BY <1>4, <1>t, <2>1, <2>3 DEF TablesType, TasksType, RestType, Task, process
  <2> QED
    BY <1>4, <2>2, <2>4, TypeParts
<1>5. CASE Cancel(s)
  <2>1. CASE InState(s, "PAUSED") /\ Finalize(s, "CANCELLED") /\ UNCHANGED <<running, calls>>
    BY <1>3, <1>5, <2>1 DEF Cancel, InState
  <2>2. CASE /\ reasons' = reasons \cup {s} /\ StopAndWait("cancel", s)
             /\ UNCHANGED <<registry, paused>>
    BY <1>4, <1>5, <2>2, <1>t DEF Cancel, RegistryType, TablesType, registry, Known, Saved
  <2> QED
    BY <1>5, <2>1, <2>2 DEF Cancel
<1>6. CASE Pause(s)
  BY <1>4, <1>6, <1>t DEF Pause, RegistryType, TablesType, registry, Known, Saved
<1>7. CASE Delete(s)
  <2>1. Remove(s) => RegistryType'
    BY <1>t, RemoveFacts DEF RegistryType
  <2>2. UNCHANGED registry => RegistryType'
    BY <1>t DEF RegistryType, registry, Known, Saved
  <2>3. CASE StopAndWait("delete", s) /\ reasons' = reasons \cup {s} /\ UNCHANGED paused
    BY <1>4, <1>7, <2>1, <2>2, <2>3, <1>t DEF Delete, TablesType
  <2>4. CASE Remove(s) /\ TablesType' /\ UNCHANGED <<running, calls>>
    <3>1. HistoryType'
      BY <1>7, <1>t, TouchType DEF Delete, HistoryType
    <3>2. TasksType' /\ RestType'
      BY <1>7, <2>4, <1>t DEF Delete, TasksType, RestType, Task, Call, running, process
    <3> QED
      BY <2>1, <2>4, <3>1, <3>2, TypeParts
  <2>5. CASE Remove(s) /\ UNCHANGED <<tables, running, calls>>
    <3>1. TablesType'
      BY <1>7, <2>5, <1>t DEF Delete, TablesType, tables
    <3> QED
      BY <2>4, <2>5, <3>1
  <2>6. CASE /\ Remove(s) /\ UNCHANGED <<running, calls>>
             /\ taskOf' = [taskOf EXCEPT ![s] = 0] /\ tokenOf' = [tokenOf EXCEPT ![s] = 0]
             /\ paused' = paused \ {s} /\ reasons' = reasons \ {s}
    <3>1. TablesType'
      BY <1>7, <2>6, <1>t DEF Delete, TablesType, RestType
    <3> QED
      BY <2>4, <2>6, <3>1
  <2> QED
    BY <1>7, <2>3, <2>5, <2>6 DEF Delete
<1> QED
  BY <1>1, <1>2, <1>5, <1>6, <1>7

LEMMA TaskType ==
    ASSUME TypeOK, NEW t \in tasks, TaskStep(t)
    PROVE  TypeOK'
<1>t. RegistryType /\ TablesType /\ HistoryType /\ TasksType /\ RestType
  BY TypeParts
<1>0. t \in Task /\ t.id \in Ids /\ t.n \in 1..launched /\ launched \in Nat
  BY <1>t DEF TasksType, RestType, Task
<1>1. CASE Attempt(t)
  <2>1. RegistryType'
    <3>1. \A v \in Session : [status |-> "RUNNING", attempts |-> v.attempts + 1] \in Session
      BY DEF Session, Statuses
    <3>2. t.id \in Known /\ sessions[t.id] \in Session
      BY <1>1, <1>t DEF Attempt, RegistryType
    <3> QED
      BY <1>1, <1>t, <3>1, <3>2 DEF Attempt, With, RegistryType, Known, Saved
  <2> DEFINE token   == IF tokenOf[t.id] # 0 THEN tokenOf[t.id] ELSE -t.n
             attempt == sessions[t.id].attempts + 1
             next    == [t EXCEPT !.stage = "attempt", !.attempt = attempt, !.token = token]
  <2>2. token \in Int /\ attempt \in Nat
    BY <1>1, <1>0, <1>t DEF TablesType, Attempt, RegistryType, Session
  <2>3. next \in Task /\ next.n = t.n
    BY <1>0, <2>2 DEF Task, Answers
  <2>4. Becomes(t, next) /\ tokenOf' = [tokenOf EXCEPT ![t.id] = token]
        /\ cancelled' = (IF tokenOf[t.id] # 0 THEN cancelled ELSE cancelled \ {token})
        /\ UNCHANGED <<store, taskOf, paused, reasons, raised, calls, launched, history, process>>
    BY <1>1 DEF Attempt
  <2> HIDE DEF token, attempt, next
  <2>5. TasksType'
    BY <2>3, <2>4, BecomesType DEF TasksType
  <2>6. TablesType' /\ HistoryType'
    BY <2>2, <2>4, <1>t DEF TablesType, HistoryType, history
  <2>7. RestType'
    BY <2>4, <1>t DEF RestType, Call, process
  <2> QED
    BY <2>1, <2>5, <2>6, <2>7, TypeParts
<1>2. ASSUME NEW next \in Task, next.n = t.n, Becomes(t, next),
             UNCHANGED <<registry, tables, raised, cancelled, calls, launched, history, process>>
      PROVE  TypeOK'
  <2>1. TasksType'
    BY <1>2, BecomesType DEF TasksType
  <2>2. RegistryType' /\ TablesType' /\ HistoryType' /\ RestType'
    BY <1>2, <1>t DEF RegistryType, TablesType, HistoryType, RestType, Call, Known, Saved,
                      registry, tables, history, process
  <2> QED
    BY <2>1, <2>2, TypeParts
<1>3. CASE \E answer \in Answers : Answered(t, answer)
  <2>1. PICK answer \in Answers : Answered(t, answer)
    BY <1>3
  <2>2. [t EXCEPT !.stage = answer] \in Task /\ [t EXCEPT !.stage = answer].n = t.n
    BY <1>0 DEF Task
  <2> QED
    BY <1>2, <2>1, <2>2 DEF Answered
<1>4. CASE Delays(t)
  <2>1. [t EXCEPT !.stage = "delay"] \in Task /\ [t EXCEPT !.stage = "delay"].n = t.n
    BY <1>0 DEF Task
  <2> QED
    BY <1>2, <1>4, <2>1 DEF Delays
<1>5. ASSUME tasks' = tasks \ {t}, launched' = launched
      PROVE  TasksType'
  BY <1>5, <1>t DEF TasksType, Task
<1>6. CASE Quits(t)
  <2>1. RegistryType' /\ TablesType' /\ HistoryType' /\ RestType'
    BY <1>6, <1>t DEF Quits, RegistryType, TablesType, HistoryType, RestType, Call, Known, Saved,
                      registry, tables, history, process
  <2> QED
    BY <1>5, <1>6, <2>1, TypeParts DEF Quits
<1>7. CASE Ends(t)
  <2>1. Outcome(t) \in Statuses /\ Finalize(t.id, Outcome(t)) /\ t.id \in Known
    BY <1>7, OutcomeFacts DEF Ends
  <2>2. RegistryType'
    BY <2>1, <1>t, FinalizeFacts DEF RegistryType
  <2>3. TablesType'
    <3>1. /\ taskOf' = [taskOf EXCEPT ![t.id] = 0] /\ tokenOf' = [tokenOf EXCEPT ![t.id] = 0]
          /\ paused' = paused \ {t.id} /\ reasons' = reasons \ {t.id} /\ launched' = launched
      BY <1>7, <2>1 DEF Ends, Finalize
    <3>2. 0 \in 0..launched /\ 0 \in Int
      BY <1>0
    <3> QED
      BY <3>1, <3>2, <1>t DEF TablesType
  <2>4. HistoryType' /\ RestType'
    BY <1>7, <1>t DEF Ends, HistoryType, RestType, Call, history, process
  <2> QED
    BY <1>5, <1>7, <2>2, <2>3, <2>4, TypeParts DEF Ends
<1>8. CASE Raises(t)
  <2>1. RegistryType' /\ HistoryType' /\ RestType'
    BY <1>0, <1>8, <1>t DEF Raises, RegistryType, HistoryType, RestType, Call, Known, Saved,
                      registry, history, process
  <2>2. TablesType'
    BY <1>8, <1>t DEF Raises, TablesType
  <2> QED
    BY <1>5, <1>8, <2>1, <2>2, TypeParts DEF Raises
<1> QED
  BY <1>1, <1>3, <1>4, <1>6, <1>7, <1>8 DEF TaskStep

LEMMA ReturnedType ==
    ASSUME TypeOK, NEW c \in calls, Returned(c)
    PROVE  TypeOK'
<1>t. RegistryType /\ TablesType /\ HistoryType /\ TasksType /\ RestType
  BY TypeParts
<1>1. RegistryType'
  <2>1. Remove(c.id) => RegistryType'
    BY <1>t, RemoveFacts DEF RegistryType
  <2>2. UNCHANGED registry => RegistryType'
    BY <1>t DEF RegistryType, registry, Known, Saved
  <2> QED
    BY <2>1, <2>2 DEF Returned
<1>2. TablesType' /\ HistoryType' /\ TasksType' /\ RestType'
  BY <1>t DEF Returned, TablesType, HistoryType, TasksType, RestType, Task, Call,
              tables, running, history, process
<1> QED
  BY <1>1, <1>2, TypeParts

LEMMA RestartedType ==
    ASSUME TypeOK, Restarted, stops' \in Nat
    PROVE  TypeOK'
<1>t. RegistryType /\ TablesType /\ HistoryType /\ TasksType /\ RestType
  BY TypeParts
<1>1. RegistryType' /\ HistoryType' /\ TasksType' /\ RestType'
  BY <1>t DEF Restarted, RegistryType, HistoryType, TasksType, RestType, Known, Saved
<1>2. TablesType'
  BY <1>t DEF Restarted, TablesType, RestType
<1> QED
  BY <1>1, <1>2, TypeParts

LEMMA ShutdownType ==
    ASSUME TypeOK, Shutdown
    PROVE  TypeOK'
<1>t. RegistryType /\ TablesType /\ HistoryType /\ TasksType /\ RestType
  BY TypeParts
<1>1. RegistryType' /\ TablesType' /\ HistoryType' /\ TasksType'
  BY <1>t DEF Shutdown, RegistryType, TablesType, HistoryType, TasksType, Task, Known, Saved,
              registry, tables, history
<1>2. RestType'
  <2>1. \A s \in Ids : tokenOf[s] \in Int
    BY <1>t DEF TablesType
  <2>2. cancelled' \subseteq Int
    BY <1>t, <2>1 DEF Shutdown, RestType
  <2>3. calls' \subseteq Call' /\ raised' \subseteq 1..launched' /\ launched' \in Nat
    BY <1>t DEF Shutdown, RestType, Call, running
  <2>4. stops' \in Nat /\ mode' \in {"up", "stopping"}
    BY <1>t DEF Shutdown, RestType
  <2> QED
    BY <2>2, <2>3, <2>4 DEF RestType
<1> QED
  BY <1>1, <1>2, TypeParts

LEMMA TypeStep == TypeOK /\ [Next]_vars => TypeOK'
<1> SUFFICES ASSUME TypeOK, [Next]_vars PROVE TypeOK'
  OBVIOUS
<1>1. CASE UNCHANGED vars
  BY <1>1 DEF vars, registry, tables, running, history, process, TypeOK, Known, Saved, Task, Call
<1>2. CASE Stopped \/ Crash
  BY <1>2, RestartedType DEF Stopped, Crash, TypeOK
<1>3. CASE Shutdown
  BY <1>3, ShutdownType
<1> QED
  BY <1>1, <1>2, <1>3, ClientType, TaskType, ReturnedType DEF Next

(* The manager's state is well typed; in particular no two tasks in progress *)
(* have the same number (AgentManager._tasks).                               *)
THEOREM TypeCorrect == Spec => []TypeOK
BY TypeInit, TypeStep, PTL DEF Spec

-----------------------------------------------------------------------------
(* The inductive invariant: what holds of a session that is not orphaned.    *)

(* Session, task and tables go together.                                     *)
Matched(s) ==
    /\ InState(s, "RUNNING") <=> \E t \in tasks : t.id = s
    /\ \A t \in tasks : t.id = s => taskOf[s] = t.n
    /\ ~InState(s, "RUNNING") => taskOf[s] = 0 /\ tokenOf[s] = 0 /\ s \notin paused \cup reasons

(* Calls wait for tasks of the session, not later than the present one, and  *)
(* a delete for the present one if there is one.                             *)
Heard(s) ==
    \A c \in calls : c.id = s =>
        /\ c.task \notin raised
        /\ \A t \in tasks : t.n = c.task => t.id = s
        /\ InState(s, "RUNNING") => c.task <= taskOf[s]
        /\ InState(s, "RUNNING") /\ c.kind = "delete" => c.task = taskOf[s]

(* The flag of a pause is up as long as the pause waits for the task.        *)
PauseWaits(s) ==
    s \in paused => \E c \in calls : c.id = s /\ c.kind = "pause" /\ c.task = taskOf[s]

(* What a call that waits alone finds.                                       *)
Found(s, c) ==
    \/ InState(s, "RUNNING") /\ taskOf[s] = c.task
    \/ c.kind = "delete"
    \/ s \in Known /\ sessions[s].status \in Terminal
    \/ c.kind = "pause" /\ InState(s, "PAUSED")

Alone(s) ==
    /\ \A c, d \in calls : (c.id = s /\ d.id = s) => c = d
    /\ \A c \in calls : c.id = s => Found(s, c)

Good(s) == Matched(s) /\ Heard(s) /\ PauseWaits(s) /\ (s \notin overlapped => Alone(s))

Fresh == \A t \in tasks : t.n \notin raised

Inv == TypeOK /\ Fresh /\ StoreFollows /\ \A s \in Ids \ orphaned : Good(s)

(* A running session has a task, and it is the one of the table.             *)
LEMMA OwnTask ==
    ASSUME TypeOK, NEW s \in Ids, Matched(s)
    PROVE  /\ InState(s, "RUNNING") => InProgress(taskOf[s])
           /\ \A t, u \in tasks : (t.id = s /\ u.id = s) => t = u
BY DEF TypeOK, Matched, InProgress

-----------------------------------------------------------------------------
(* Steps that do not concern s.                                              *)

Unmoved(s) ==
    /\ s \in Known' <=> s \in Known
    /\ s \in Known => sessions'[s].status = sessions[s].status
    /\ taskOf'[s] = taskOf[s]
    /\ ~InState(s, "RUNNING") => tokenOf'[s] = tokenOf[s]
    /\ s \in paused' <=> s \in paused
    /\ s \in reasons' => s \in reasons \/ InState(s, "RUNNING")
    /\ s \in overlapped => s \in overlapped'
    /\ \A c : c.id = s => (c \in calls' <=> c \in calls)
    /\ \A v \in tasks' : (\E t \in tasks : t.n = v.n /\ t.id = v.id) \/ (v.n > launched /\ v.id # s)
    /\ \A t \in tasks : t.id = s => \E v \in tasks' : v.id = s /\ v.n = t.n
    /\ \A n \in raised' \ raised : \E t \in tasks : t.n = n /\ t.id # s

LEMMA Frame ==
    ASSUME TypeOK, NEW s \in Ids, Good(s), Unmoved(s)
    PROVE  Good(s)'
<1>1. InState(s, "RUNNING")' <=> InState(s, "RUNNING")
  BY DEF Unmoved, InState, Known
<1>2. Matched(s)'
  BY <1>1 DEF Unmoved, Good, Matched
<1>3. Heard(s)'
  <2> SUFFICES ASSUME NEW c \in calls', c.id = s
               PROVE  /\ c.task \notin raised'
                      /\ \A t \in tasks' : t.n = c.task => t.id = s
                      /\ InState(s, "RUNNING")' => c.task <= taskOf'[s]
                      /\ InState(s, "RUNNING")' /\ c.kind = "delete" => c.task = taskOf'[s]
    BY DEF Heard
  <2>1. c \in calls
    BY DEF Unmoved
  <2>2. c.task \in 1..launched /\ launched \in Nat
    BY <2>1 DEF TypeOK, Call
  <2>3. /\ c.task \notin raised
        /\ \A t \in tasks : t.n = c.task => t.id = s
        /\ InState(s, "RUNNING") => c.task <= taskOf[s]
        /\ InState(s, "RUNNING") /\ c.kind = "delete" => c.task = taskOf[s]
    BY <2>1 DEF Good, Heard
  <2>4. c.task \notin raised'
    BY <2>3 DEF Unmoved
  <2>5. \A t \in tasks' : t.n = c.task => t.id = s
    BY <2>2, <2>3 DEF Unmoved
  <2> QED
    BY <1>1, <2>3, <2>4, <2>5 DEF Unmoved
<1>4. PauseWaits(s)'
  BY DEF Unmoved, Good, PauseWaits
<1>5. s \notin overlapped' => Alone(s)'
  <2>1. ASSUME NEW c \in calls', c.id = s, Found(s, c)
        PROVE  Found(s, c)'
    BY <1>1, <2>1 DEF Unmoved, Found, InState
  <2> QED
    BY <2>1 DEF Unmoved, Good, Alone
<1> QED
  BY <1>2, <1>3, <1>4, <1>5 DEF Good

-----------------------------------------------------------------------------
(* Steps of clients, on their session.                                       *)

LEMMA LaunchGood ==
    ASSUME TypeOK, NEW s \in Ids, Launch(s), Touch(s), s \notin orphaned', Good(s),
           ~InState(s, "RUNNING"), InState(s, "RUNNING")',
           paused' \subseteq paused
    PROVE  Good(s)'
<1> DEFINE new == [n |-> launched', id |-> s, stage |-> "created", token |-> 0, attempt |-> 0]
<1>1. /\ launched' = launched + 1 /\ launched \in Nat
      /\ tasks' = tasks \cup {new} /\ taskOf'[s] = launched'
      /\ calls' = calls /\ raised' = raised
  BY DEF Launch, TypeOK
<1>2. \A t \in tasks : t.id # s
  BY DEF Good, Matched
<1>3. Matched(s)'
  <2>1. new \in tasks' /\ new.id = s /\ new.n = taskOf'[s]
    BY <1>1
  <2>2. \A t \in tasks' : t.id = s => t = new
    BY <1>1, <1>2
  <2> HIDE DEF new
  <2> QED
    BY <2>1, <2>2 DEF Matched
<1>4. \A c \in calls : c.task \in 1..launched /\ (c.id = s => c.kind # "delete")
  BY DEF TypeOK, Call, Launch, Waiting
<1>5. Heard(s)'
  BY <1>1, <1>4 DEF Good, Heard
<1>6. PauseWaits(s)'
  BY DEF Good, Matched, PauseWaits
<1>7. s \notin overlapped' => Alone(s)'
  BY <1>1 DEF Touch, Waiting, Alone
<1> QED
  BY <1>3, <1>5, <1>6, <1>7 DEF Good

LEMMA StopAndWaitGood ==
    ASSUME TypeOK, NEW s \in Ids, NEW kind \in {"cancel", "pause", "delete"},
           StopAndWait(kind, s), Touch(s), Good(s), Fresh,
           InState(s, "RUNNING"), UNCHANGED registry,
           paused' \subseteq (IF kind = "pause" THEN paused \cup {s} ELSE paused)
    PROVE  Good(s)'
<1> DEFINE new == [kind |-> kind, id |-> s, task |-> taskOf[s]]
<1>1. InProgress(taskOf[s])
  BY OwnTask DEF Good
<1>2. calls' = calls \cup {new} /\ UNCHANGED <<taskOf, tokenOf, tasks, raised>>
  BY <1>1 DEF StopAndWait
<1>3. InState(s, "RUNNING")'
  BY DEF InState, Known, registry
<1>4. Matched(s)'
  BY <1>2, <1>3 DEF Good, Matched
<1>5. \A t \in tasks : t.n = taskOf[s] => t.id = s /\ t.n \notin raised
  <2>1. PICK t \in tasks : t.id = s /\ t.n = taskOf[s]
    BY DEF Good, Matched
  <2> QED
    BY <2>1 DEF TypeOK, Fresh
<1>6. taskOf[s] \in Int /\ taskOf[s] \notin raised
  BY <1>1, <1>5 DEF TypeOK, InProgress
<1>7. Heard(s)'
  BY <1>2, <1>3, <1>5, <1>6 DEF Good, Heard, InState
<1>8. PauseWaits(s)'
  <2>1. CASE kind = "pause"
    <3>1. new \in calls' /\ new.id = s /\ new.kind = "pause" /\ new.task = taskOf'[s]
      BY <1>2, <2>1
    <3> QED
      BY <3>1 DEF PauseWaits
  <2>2. CASE kind # "pause"
    BY <1>2, <2>2 DEF Good, PauseWaits
  <2> QED
    BY <2>1, <2>2
<1>9. s \notin overlapped' => Alone(s)'
  <2> SUFFICES ASSUME s \notin overlapped' PROVE Alone(s)'
    OBVIOUS
  <2>1. \A c \in calls : c.id # s
    BY DEF Touch, Waiting
  <2> QED
    BY <1>2, <1>3, <2>1 DEF Alone, Found
<1> QED
  BY <1>4, <1>7, <1>8, <1>9 DEF Good

(* A session that has no task is cancelled or deleted.                       *)
LEMMA RestGood ==
    ASSUME TypeOK, NEW s \in Ids, Touch(s), Good(s), ~InState(s, "RUNNING"),
           ~InState(s, "RUNNING")', UNCHANGED <<running, calls>>,
           taskOf'[s] = 0, tokenOf'[s] = 0,
           s \notin paused' \cup reasons'
    PROVE  Good(s)'
<1>1. Matched(s)' /\ Heard(s)' /\ PauseWaits(s)'
  BY DEF Good, Matched, Heard, PauseWaits, running
<1>2. s \notin overlapped' => Alone(s)'
  BY DEF Touch, Waiting, Alone
<1> QED
  BY <1>1, <1>2 DEF Good

LEMMA ClientGood ==
    ASSUME TypeOK, Fresh, NEW s \in Ids, Good(s), s \notin orphaned',
           Execute(s) \/ Resume(s) \/ Cancel(s) \/ Pause(s) \/ Delete(s)
    PROVE  Good(s)'
<1>1. CASE Execute(s)
  <2>1. ~InState(s, "RUNNING") /\ InState(s, "RUNNING")'
    BY <1>1 DEF Execute, With, InState, Known
  <2> QED
    BY <1>1, <2>1, LaunchGood DEF Execute
<1>2. CASE Resume(s)
  <2>1. s \in Known /\ sessions[s] \in Session /\ sessions[s].status = "PAUSED"
    BY <1>2 DEF Resume, InState, TypeOK
  <2>2. ~InState(s, "RUNNING") /\ InState(s, "RUNNING")'
    BY <1>2, <2>1 DEF Resume, InState, Known, Session
  <2> QED
    BY <1>2, <2>2, LaunchGood DEF Resume
<1>3. ASSUME s \in Known, sessions[s].status = "PAUSED"
      PROVE  ~InState(s, "RUNNING") /\ taskOf[s] = 0 /\ tokenOf[s] = 0
  BY <1>3 DEF InState, Good, Matched
<1>t. taskOf \in [Ids -> 0..launched] /\ tokenOf \in [Ids -> Int]
  BY DEF TypeOK
<1>4. CASE Cancel(s)
  <2>1. CASE InState(s, "PAUSED") /\ Finalize(s, "CANCELLED") /\ UNCHANGED <<running, calls>>
    <3>1. "CANCELLED" \in Statuses /\ s \in Known
      BY <2>1 DEF Statuses, Terminal, InState
    <3>2. ~InState(s, "RUNNING") /\ ~InState(s, "RUNNING")'
      BY <2>1, <3>1, FinalizeFacts DEF InState
    <3>3. taskOf'[s] = 0 /\ tokenOf'[s] = 0 /\ s \notin paused' \cup reasons'
      BY <2>1, <3>1, <1>t, FinalizeFacts
    <3> QED
      BY <1>4, <2>1, <3>2, <3>3, RestGood DEF Cancel
  <2>2. CASE InState(s, "RUNNING") /\ StopAndWait("cancel", s) /\ UNCHANGED <<registry, paused>>
    BY <1>4, <2>2, StopAndWaitGood DEF Cancel
  <2> QED
    BY <1>4, <2>1, <2>2 DEF Cancel
<1>5. CASE Pause(s)
  BY <1>5, StopAndWaitGood DEF Pause
<1>6. CASE Delete(s)
  <2>1. CASE InState(s, "RUNNING") /\ StopAndWait("delete", s) /\ UNCHANGED paused
    <3>1. InProgress(taskOf[s])
      BY <2>1, OwnTask DEF Good
    <3>2. UNCHANGED registry
      BY <1>6, <2>1, <3>1 DEF Delete, InState, Terminal
    <3> QED
      BY <1>6, <2>1, <3>2, StopAndWaitGood DEF Delete
  <2>2. CASE Remove(s) /\ ~InState(s, "RUNNING") /\ UNCHANGED <<running, calls>>
             /\ taskOf'[s] = 0 /\ tokenOf'[s] = 0 /\ s \notin paused' \cup reasons'
    <3>1. ~InState(s, "RUNNING")'
      BY <2>2, RemoveFacts DEF InState
    <3> QED
      BY <1>6, <2>2, <3>1, RestGood DEF Delete
  <2>3. CASE sessions[s].status \in Terminal /\ Remove(s) /\ UNCHANGED <<tables, running, calls>>
    <3>1. ~InState(s, "RUNNING")
      BY <2>3 DEF InState, Terminal
    <3> QED
      BY <2>2, <2>3, <3>1 DEF Good, Matched, tables
  <2>4. CASE /\ InState(s, "PAUSED") /\ Remove(s) /\ UNCHANGED <<running, calls>>
             /\ taskOf' = [taskOf EXCEPT ![s] = 0] /\ tokenOf' = [tokenOf EXCEPT ![s] = 0]
             /\ paused' = paused \ {s} /\ reasons' = reasons \ {s}
    BY <2>2, <2>4, <1>t DEF InState
  <2> QED
    BY <1>6, <2>1, <2>3, <2>4 DEF Delete
<1> QED
  BY <1>1, <1>2, <1>4, <1>5, <1>6

(* Steps of clients, on other sessions.                                      *)
LEMMA ClientFrame ==
    ASSUME TypeOK, NEW s \in Ids, NEW q \in Ids \ {s},
           Execute(s) \/ Resume(s) \/ Cancel(s) \/ Pause(s) \/ Delete(s)
    PROVE  Unmoved(q)
<1>t. /\ taskOf \in [Ids -> 0..launched] /\ tokenOf \in [Ids -> Int] /\ launched \in Nat
  BY DEF TypeOK
<1>1. overlapped \subseteq overlapped'
  BY DEF Execute, Resume, Cancel, Pause, Delete, Touch
<1>2. CASE Execute(s) \/ Resume(s)
  <2>1. Launch(s)
    BY <1>2 DEF Execute, Resume
  <2>2. /\ q \in Known' <=> q \in Known
        /\ q \in Known => sessions'[q] = sessions[q]
    BY <1>2 DEF Execute, Resume, With, Known
  <2>3. taskOf'[q] = taskOf[q] /\ calls' = calls /\ raised' = raised
    BY <2>1, <1>t DEF Launch
  <2>4. tokenOf'[q] = tokenOf[q]
    BY <2>1, <1>t DEF Launch
  <2>5. \A v \in tasks' : v \in tasks \/ (v.n > launched /\ v.id = s)
    BY <2>1, <1>t DEF Launch
  <2>6. tasks \subseteq tasks'
    BY <2>1 DEF Launch
  <2>7. (q \in paused' <=> q \in paused) /\ reasons' = reasons
    BY <1>2 DEF Execute, Resume
  <2> QED
    BY <1>1, <2>2, <2>3, <2>4, <2>5, <2>6, <2>7 DEF Unmoved
<1>3. ASSUME tasks' = tasks, raised' = raised,
             \A c : c.id = q => (c \in calls' <=> c \in calls),
             taskOf'[q] = taskOf[q], tokenOf'[q] = tokenOf[q],
             q \in paused' <=> q \in paused, q \in reasons' <=> q \in reasons,
             q \in Known' <=> q \in Known,
             q \in Known => sessions'[q] = sessions[q]
      PROVE  Unmoved(q)
  BY <1>1, <1>3 DEF Unmoved
<1>4. ASSUME NEW kind, StopAndWait(kind, s)
      PROVE  /\ UNCHANGED <<taskOf, tokenOf, tasks, raised>>
             /\ \A c : c.id = q => (c \in calls' <=> c \in calls)
  BY <1>4 DEF StopAndWait
<1>5. UNCHANGED registry => /\ q \in Known' <=> q \in Known
                            /\ q \in Known => sessions'[q] = sessions[q]
  BY DEF registry, Known
<1>6. Remove(s) => /\ q \in Known' <=> q \in Known
                   /\ q \in Known => sessions'[q] = sessions[q]
  BY RemoveFacts
<1>7. CASE Cancel(s)
  <2>1. CASE s \in Known /\ Finalize(s, "CANCELLED") /\ UNCHANGED <<running, calls>>
    <3>1. "CANCELLED" \in Statuses
      BY DEF Statuses, Terminal
    <3>2. /\ q \in Known' <=> q \in Known
          /\ q \in Known => sessions'[q] = sessions[q]
          /\ taskOf'[q] = taskOf[q] /\ tokenOf'[q] = tokenOf[q]
          /\ q \in paused' <=> q \in paused
          /\ q \in reasons' <=> q \in reasons
      BY <2>1, <3>1, <1>t, FinalizeFacts
    <3> QED
      BY <1>3, <2>1, <3>2 DEF running
  <2>2. CASE /\ reasons' = reasons \cup {s} /\ StopAndWait("cancel", s)
             /\ UNCHANGED <<registry, paused>>
    BY <1>3, <1>4, <1>5, <2>2
  <2> QED
    BY <1>7, <2>1, <2>2 DEF Cancel, InState
<1>8. CASE Pause(s)
  BY <1>3, <1>4, <1>5, <1>8 DEF Pause
<1>9. CASE Delete(s)
  <2>1. CASE StopAndWait("delete", s) /\ reasons' = reasons \cup {s} /\ UNCHANGED paused
    BY <1>3, <1>4, <1>5, <1>6, <1>9, <2>1 DEF Delete
  <2>2. CASE Remove(s) /\ UNCHANGED <<tables, running, calls>>
    BY <1>3, <1>6, <2>2 DEF tables, running
  <2>3. CASE /\ Remove(s) /\ UNCHANGED <<running, calls>>
             /\ taskOf' = [taskOf EXCEPT ![s] = 0] /\ tokenOf' = [tokenOf EXCEPT ![s] = 0]
             /\ paused' = paused \ {s} /\ reasons' = reasons \ {s}
    BY <1>3, <1>6, <1>t, <2>3 DEF running
  <2> QED
    BY <1>9, <2>1, <2>2, <2>3 DEF Delete
<1> QED
  BY <1>2, <1>7, <1>8, <1>9

-----------------------------------------------------------------------------
(* Steps of tasks.                                                           *)

(* A task without a session belongs to an orphaned one.                      *)
LEMMA KnownTask ==
    ASSUME Inv, NEW t \in tasks, t.id \notin orphaned
    PROVE  InState(t.id, "RUNNING")
BY DEF Inv, TypeOK, Task, Good, Matched

LEMMA BecomesFrame ==
    ASSUME Inv, NEW t \in tasks, NEW u, u.n = t.n, u.id = t.id, Becomes(t, u),
           UNCHANGED <<taskOf, paused, reasons, raised, calls, overlapped>>,
           NEW s \in Ids, s \in Known' <=> s \in Known,
           s \in Known => sessions'[s].status = sessions[s].status,
           ~InState(s, "RUNNING") => tokenOf'[s] = tokenOf[s]
    PROVE  Unmoved(s)
<1>1. \A v \in tasks' : \E w \in tasks : w.n = v.n /\ w.id = v.id
  BY DEF Becomes
<1>2. \A w \in tasks : \E v \in tasks' : v.n = w.n /\ v.id = w.id
  BY DEF Becomes
<1> QED
  BY <1>1, <1>2 DEF Unmoved

LEMMA TaskGood ==
    ASSUME Inv, NEW t \in tasks, TaskStep(t), NEW s \in Ids \ orphaned'
    PROVE  Good(s)'
<1>0. /\ TypeOK /\ t \in Task /\ t.id \in Ids
      /\ \A v, w \in tasks : v.n = w.n => v = w
      /\ taskOf \in [Ids -> 0..launched] /\ tokenOf \in [Ids -> Int]
  BY DEF Inv, TypeOK, Task
<1>1. orphaned' = orphaned
  BY DEF TaskStep, Attempt, Quits, Delays, Ends, Raises, Answered, history
<1>2. s \in Ids /\ s \notin orphaned /\ Good(s)
  BY <1>1 DEF Inv
<1>3. ASSUME NEW u, u.n = t.n, u.id = t.id, Becomes(t, u),
             UNCHANGED <<registry, tables, raised, calls, history>>
      PROVE  Unmoved(s)
  BY <1>2, <1>3, BecomesFrame DEF registry, tables, history, Known
<1>4. CASE \E answer \in Answers : Answered(t, answer)
  <2>1. PICK answer \in Answers : Answered(t, answer)
    BY <1>4
  <2>2. [t EXCEPT !.stage = answer].n = t.n /\ [t EXCEPT !.stage = answer].id = t.id
    BY <1>0 DEF Task
  <2> QED
    BY <1>2, <1>3, <1>0, <2>1, <2>2, Frame DEF Answered
<1>5. CASE Delays(t)
  <2>1. [t EXCEPT !.stage = "delay"].n = t.n /\ [t EXCEPT !.stage = "delay"].id = t.id
    BY <1>0 DEF Task
  <2> QED
    BY <1>2, <1>3, <1>0, <1>5, <2>1, Frame DEF Delays
<1>6. CASE Attempt(t)
  <2> DEFINE token   == IF tokenOf[t.id] # 0 THEN tokenOf[t.id] ELSE -t.n
             attempt == sessions[t.id].attempts + 1
             next    == [t EXCEPT !.stage = "attempt", !.attempt = attempt, !.token = token]
             final   == [status |-> "RUNNING", attempts |-> attempt]
  <2>1. next.n = t.n /\ next.id = t.id
    BY <1>0 DEF Task
  <2>2. /\ Becomes(t, next) /\ tokenOf' = [tokenOf EXCEPT ![t.id] = token]
        /\ sessions' = With(sessions, t.id, final) /\ t.id \in Known
        /\ UNCHANGED <<taskOf, paused, reasons, raised, calls, overlapped>>
    BY <1>6 DEF Attempt, history
  <2>3. final.status = "RUNNING"
    OBVIOUS
  <2> HIDE DEF token, next, final
  <2>4. /\ s \in Known' <=> s \in Known
        /\ s \in Known /\ s # t.id => sessions'[s] = sessions[s]
        /\ sessions'[t.id].status = "RUNNING"
    BY <2>2, <2>3 DEF With, Known
  <2>5. s # t.id => tokenOf'[s] = tokenOf[s]
    BY <1>0, <1>2, <2>2
  <2>6. s = t.id => InState(s, "RUNNING")
    BY <1>2, KnownTask
  <2>7. Unmoved(s)
    BY <1>2, <2>1, <2>2, <2>4, <2>5, <2>6, BecomesFrame DEF InState
  <2> QED
    BY <1>0, <1>2, <2>7, Frame
<1>7. CASE Quits(t) \/ Raises(t)
  <2>1. s # t.id
    BY <1>2, <1>7, KnownTask DEF Quits, Raises, InState
  <2>2. /\ tasks' = tasks \ {t} /\ raised' \subseteq raised \cup {t.n}
        /\ UNCHANGED <<registry, taskOf, tokenOf, calls, history>>
        /\ paused \ {t.id} \subseteq paused' /\ paused' \subseteq paused
        /\ reasons' \subseteq reasons
    BY <1>7 DEF Quits, Raises, tables
  <2>3. Unmoved(s)
    BY <2>1, <2>2 DEF Unmoved, registry, history, Known
  <2> QED
    BY <1>0, <1>2, <2>3, Frame
<1>8. CASE Ends(t)
  <2> DEFINE to == Outcome(t)
  <2>1. /\ to \in Statuses \ {"RUNNING"}
        /\ to # "PAUSED" => to \in Terminal
        /\ to = "PAUSED" => t.id \in paused
    BY <1>8, OutcomeFacts DEF Ends
  <2>2. /\ Finalize(t.id, to) /\ t.id \in Known /\ tasks' = tasks \ {t}
        /\ UNCHANGED <<raised, calls, overlapped>>
    BY <1>8 DEF Ends, history
  <2> HIDE DEF to
  <2>3. /\ Known' = Known /\ sessions'[t.id].status = to
        /\ \A q \in Known : q # t.id => sessions'[q] = sessions[q]
        /\ taskOf' = [taskOf EXCEPT ![t.id] = 0] /\ tokenOf' = [tokenOf EXCEPT ![t.id] = 0]
        /\ paused' = paused \ {t.id} /\ reasons' = reasons \ {t.id}
    BY <1>0, <2>1, <2>2, FinalizeFacts
  <2>4. CASE s # t.id
    <3>1. Unmoved(s)
      BY <1>0, <1>2, <2>2, <2>3, <2>4 DEF Unmoved
    <3> QED
      BY <1>0, <1>2, <3>1, Frame
  <2>5. CASE s = t.id
    <3>1. InState(s, "RUNNING") /\ ~InState(s, "RUNNING")' /\ s \in Known'
      BY <1>2, <2>1, <2>2, <2>3, <2>5, KnownTask DEF InState
    <3>2. \A v \in tasks' : v.id # s
      BY <1>0, <1>2, <2>2, <2>5, OwnTask DEF Good
    <3>3. taskOf'[s] = 0 /\ tokenOf'[s] = 0 /\ s \notin paused' \cup reasons'
      BY <1>0, <2>3, <2>5
    <3>4. Matched(s)'
      BY <3>1, <3>2, <3>3 DEF Matched
    <3>5. Heard(s)'
      BY <1>2, <2>2, <3>1 DEF Good, Heard
    <3>6. PauseWaits(s)'
      BY <3>3 DEF PauseWaits
    <3>7. s \notin overlapped' => Alone(s)'
      <4> SUFFICES ASSUME s \notin overlapped' PROVE Alone(s)'
        OBVIOUS
      <4>1. \A c, d \in calls : (c.id = s /\ d.id = s) => c = d
        BY <1>2, <2>2 DEF Good, Alone
      <4>2. ASSUME NEW c \in calls, c.id = s
            PROVE  Found(s, c)'
        <5>1. to = "PAUSED" => c.kind = "pause"
          BY <1>2, <2>1, <2>5, <4>1, <4>2 DEF Good, PauseWaits
        <5> QED
          BY <2>1, <2>3, <2>5, <3>1, <5>1 DEF Found, InState
      <4> QED
        BY <2>2, <4>1, <4>2 DEF Alone
    <3> QED
      BY <3>4, <3>5, <3>6, <3>7 DEF Good
  <2> QED
    BY <2>4, <2>5
<1> QED
  BY <1>4, <1>5, <1>6, <1>7, <1>8 DEF TaskStep

-----------------------------------------------------------------------------
(* Calls that return, and the process.                                       *)

(* A delete that returns finds a session without a task, and removes it.     *)
LEMMA ReturnedFinds ==
    ASSUME Inv, NEW c \in calls, Returned(c), c.id \notin orphaned
    PROVE  /\ InState(c.id, "RUNNING") => c.task < taskOf[c.id] /\ c.kind # "delete"
           /\ c.kind = "delete" => c.id \notin Known' /\ Saved' = Saved \ {c.id}
<1>1. /\ c.id \in Ids /\ Good(c.id) /\ c.task \in Int /\ taskOf[c.id] \in Int /\ TypeOK
      /\ Known = Saved
  BY DEF Inv, TypeOK, Call, StoreFollows
<1>2. ~InProgress(c.task)
  BY DEF Returned
<1>3. InState(c.id, "RUNNING") => /\ c.task <= taskOf[c.id] /\ InProgress(taskOf[c.id])
                                  /\ c.kind = "delete" => c.task = taskOf[c.id]
  BY <1>1, OwnTask DEF Good, Heard
<1>4. c.task \notin raised
  BY <1>1 DEF Good, Heard
<1>5. c.kind = "delete" => c.id \notin Known' /\ Saved' = Saved \ {c.id}
  <2>1. CASE c.kind = "delete" /\ c.id \in Known
    BY <1>4, <2>1, RemoveFacts DEF Returned
  <2>2. CASE c.kind = "delete" /\ c.id \notin Known
    BY <1>1, <2>2 DEF Returned, registry, Known, Saved
  <2> QED
    BY <2>1, <2>2
<1> QED
  BY <1>1, <1>2, <1>3, <1>5

LEMMA ReturnedGood ==
    ASSUME Inv, NEW c \in calls, Returned(c), NEW s \in Ids \ orphaned'
    PROVE  Good(s)'
<1>1. /\ UNCHANGED <<taskOf, tokenOf, paused, reasons, tasks, raised, overlapped, orphaned>>
      /\ calls' = calls \ {c} /\ ~InProgress(c.task)
  BY DEF Returned, tables, running, history
<1>2. s \in Ids /\ s \notin orphaned /\ Good(s) /\ TypeOK
  BY <1>1 DEF Inv
<1>3. /\ s # c.id \/ c.kind # "delete" => (s \in Known' <=> s \in Known)
      /\ (s # c.id \/ c.kind # "delete") /\ s \in Known => sessions'[s] = sessions[s]
  <2>1. CASE UNCHANGED registry
    BY <2>1 DEF registry, Known
  <2>2. CASE c.kind = "delete" /\ Remove(c.id)
    BY <2>2, RemoveFacts
  <2> QED
    BY <2>1, <2>2 DEF Returned
<1>4. CASE s # c.id
  <2>1. Unmoved(s)
    BY <1>1, <1>3, <1>4 DEF Unmoved
  <2> QED
    BY <1>2, <2>1, Frame
<1>5. CASE s = c.id
  <2>1. (InState(s, "RUNNING")' <=> InState(s, "RUNNING"))
    BY <1>2, <1>3, <1>5, ReturnedFinds DEF InState
  <2>2. Matched(s)'
    BY <1>1, <1>2, <2>1 DEF Good, Matched
  <2>3. Heard(s)'
    BY <1>1, <1>2, <2>1 DEF Good, Heard
  <2>4. PauseWaits(s)'
    <3> SUFFICES ASSUME s \in paused PROVE PauseWaits(s)'
      BY <1>1 DEF PauseWaits
    <3>1. PICK d \in calls : d.id = s /\ d.kind = "pause" /\ d.task = taskOf[s]
      BY <1>2 DEF Good, PauseWaits
    <3>2. InState(s, "RUNNING")
      BY <1>2 DEF Good, Matched
    <3>3. InProgress(d.task)
      BY <1>2, <3>1, <3>2, OwnTask DEF Good
    <3> QED
      BY <1>1, <3>1, <3>3 DEF PauseWaits
  <2>5. s \notin overlapped' => Alone(s)'
    BY <1>1, <1>2, <1>5 DEF Good, Alone
  <2> QED
    BY <2>2, <2>3, <2>4, <2>5 DEF Good
<1> QED
  BY <1>4, <1>5

LEMMA RestartedGood ==
    ASSUME Inv, Restarted, NEW s \in Ids \ orphaned'
    PROVE  Good(s)'
<1>1. ~InState(s, "RUNNING")'
  BY DEF Restarted, InState, Known, Saved
<1> QED
  BY <1>1 DEF Restarted, Good, Matched, Heard, PauseWaits, Alone

LEMMA ShutdownGood ==
    ASSUME Inv, Shutdown, NEW s \in Ids \ orphaned'
    PROVE  Good(s)'
<1>1. Unmoved(s)
  BY DEF Shutdown, Unmoved, registry, tables, history, Known
<1>2. Good(s) /\ TypeOK /\ s \in Ids
  BY DEF Inv, Shutdown, history
<1> QED
  BY <1>1, <1>2, Frame

LEMMA GoodStep ==
    ASSUME Inv, [Next]_vars, NEW s \in Ids \ orphaned'
    PROVE  Good(s)'
<1>0. TypeOK /\ Fresh
  BY DEF Inv
<1>1. ASSUME NEW q \in Ids,
             Execute(q) \/ Resume(q) \/ Cancel(q) \/ Pause(q) \/ Delete(q)
      PROVE  Good(s)'
  <2>1. orphaned \subseteq orphaned'
    BY <1>1 DEF Execute, Resume, Cancel, Pause, Delete, Launch
  <2>2. Good(s) /\ s \in Ids
    BY <2>1 DEF Inv
  <2>3. CASE s = q
    BY <1>0, <1>1, <2>2, <2>3, ClientGood
  <2>4. CASE s # q
    BY <1>0, <1>1, <2>2, <2>4, ClientFrame, Frame
  <2> QED
    BY <2>3, <2>4
<1>2. CASE UNCHANGED vars
  <2>1. Unmoved(s) /\ Good(s) /\ s \in Ids
    BY <1>2 DEF vars, registry, tables, running, history, Unmoved, Known, Inv
  <2> QED
    BY <1>0, <2>1, Frame
<1>3. CASE Stopped \/ Crash
  BY <1>3, RestartedGood DEF Stopped, Crash
<1> QED
  BY <1>1, <1>2, <1>3, TaskGood, ReturnedGood, ShutdownGood DEF Next

LEMMA FreshStep == Inv /\ [Next]_vars => Fresh'
<1> SUFFICES ASSUME Inv, [Next]_vars PROVE Fresh'
  OBVIOUS
<1>0. /\ TypeOK /\ \A t \in tasks : t.n \notin raised /\ t \in Task
      /\ \A t, u \in tasks : t.n = u.n => t = u
      /\ raised \subseteq 1..launched /\ launched \in Nat
  BY DEF Inv, Fresh, TypeOK
<1>1. ASSUME UNCHANGED <<tasks, raised>> PROVE Fresh'
  BY <1>0, <1>1 DEF Fresh
<1>2. ASSUME NEW s \in Ids,
             Execute(s) \/ Resume(s) \/ Cancel(s) \/ Pause(s) \/ Delete(s)
      PROVE  Fresh'
  <2>1. CASE Launch(s)
    BY <1>0, <2>1 DEF Launch, Fresh
  <2>2. CASE UNCHANGED <<tasks, raised>>
    BY <1>1, <2>2
  <2> QED
    BY <1>2, <2>1, <2>2
       DEF Execute, Resume, Cancel, Pause, Delete, StopAndWait, running
<1>3. ASSUME NEW t \in tasks, TaskStep(t)
      PROVE  Fresh'
  <2>1. ASSUME NEW u, u.n = t.n, Becomes(t, u), raised' = raised PROVE Fresh'
    BY <1>0, <2>1 DEF Becomes, Fresh
  <2>2. \A stage : [t EXCEPT !.stage = stage].n = t.n
    BY <1>0 DEF Task
  <2>3. CASE Attempt(t)
    <3> DEFINE attempt == sessions[t.id].attempts + 1
               token   == IF tokenOf[t.id] # 0 THEN tokenOf[t.id] ELSE -t.n
               next    == [t EXCEPT !.stage = "attempt", !.attempt = attempt, !.token = token]
    <3>1. Becomes(t, next) /\ raised' = raised
      BY <2>3 DEF Attempt
    <3>2. next.n = t.n
      <4>1. t \in Task
        BY <1>0
      <4> HIDE DEF attempt, token
      <4> QED
        BY <4>1 DEF Task
    <3> HIDE DEF next
    <3> QED
      BY <2>1, <3>1, <3>2
  <2>4. CASE Delays(t) \/ \E answer \in Answers : Answered(t, answer)
    BY <2>1, <2>2, <2>4 DEF Delays, Answered
  <2>5. CASE Quits(t) \/ Ends(t) \/ Raises(t)
    <3>1. tasks' = tasks \ {t} /\ raised' \subseteq raised \cup {t.n}
      BY <2>5 DEF Quits, Ends, Raises
    <3> QED
      BY <1>0, <3>1 DEF Fresh
  <2> QED
    BY <1>3, <2>3, <2>4, <2>5 DEF TaskStep
<1>4. ASSUME NEW c \in calls, Returned(c) PROVE Fresh'
  BY <1>1, <1>4 DEF Returned, running
<1>5. CASE Stopped \/ Crash
  BY <1>5 DEF Stopped, Crash, Restarted, Fresh
<1>6. CASE Shutdown \/ UNCHANGED vars
  BY <1>1, <1>6 DEF Shutdown, vars, running
<1> QED
  BY <1>2, <1>3, <1>4, <1>5, <1>6 DEF Next

-----------------------------------------------------------------------------
(* The store.                                                                *)

(* What StoreFollows says of one session.                                    *)
Follows(s) ==
    IF sessions[s].status = "RUNNING"
    THEN s \in orphaned \/ store[s].status \in {"RUNNING", "PAUSED"}
    ELSE store[s] = sessions[s]

LEMMA StoreParts ==
    /\ StoreFollows <=> Known = Saved /\ \A s \in Known : Follows(s)
    /\ Known' = Saved' /\ (\A s \in Known' : Follows(s)') => StoreFollows'
BY DEF StoreFollows, Follows

(* A session is left alone, or saved as it is now.                           *)
LEMMA StoreFrame ==
    ASSUME NEW s, orphaned \subseteq orphaned',
           \/ sessions'[s] = sessions[s] /\ store'[s] = store[s] /\ Follows(s)
           \/ store'[s] = sessions'[s]
    PROVE  Follows(s)'
BY DEF Follows

LEMMA StoreStep == Inv /\ [Next]_vars => StoreFollows'
<1> SUFFICES ASSUME Inv, [Next]_vars PROVE StoreFollows'
  OBVIOUS
<1>0. TypeOK /\ Known = Saved /\ \A s \in Known : Follows(s)
  BY StoreParts DEF Inv
<1>1. ASSUME UNCHANGED registry, orphaned \subseteq orphaned' PROVE StoreFollows'
  <2>1. UNCHANGED <<Known, Saved, sessions, store>>
    BY <1>1 DEF registry, Known, Saved
  <2> QED
    BY <1>0, <1>1, <2>1, StoreParts, StoreFrame
<1>2. ASSUME NEW s \in Known, NEW to \in Statuses, Finalize(s, to), orphaned' = orphaned
      PROVE  StoreFollows'
  <2>1. Known' = Saved' /\ \A q \in Known' : Follows(q)'
    BY <1>0, <1>2, FinalizeFacts, StoreFrame
  <2> QED
    BY <2>1, StoreParts
<1>3. ASSUME NEW s, Remove(s), orphaned' = orphaned
      PROVE  StoreFollows'
  <2>1. Known' = Saved' /\ \A q \in Known' : Follows(q)'
    BY <1>0, <1>3, RemoveFacts, StoreFrame
  <2> QED
    BY <2>1, StoreParts
<1>4. ASSUME NEW s \in Ids, Execute(s) PROVE StoreFollows'
  <2> DEFINE new == [status |-> "RUNNING", attempts |-> 0]
  <2>1. sessions' = With(sessions, s, new) /\ store' = With(store, s, new)
        /\ orphaned \subseteq orphaned'
    BY <1>4 DEF Execute, Launch
  <2> HIDE DEF new
  <2>2. Known' = Saved' /\ sessions'[s] = store'[s]
        /\ \A q \in Known : q # s => sessions'[q] = sessions[q] /\ store'[q] = store[q]
    BY <1>0, <2>1 DEF With, Known, Saved
  <2>3. Known' = Known \cup {s}
    BY <2>1 DEF With, Known
  <2>4. \A q \in Known' : Follows(q)'
    BY <1>0, <2>1, <2>2, <2>3, StoreFrame
  <2> QED
    BY <2>2, <2>4, StoreParts
<1>5. ASSUME NEW s \in Ids, Resume(s) PROVE StoreFollows'
  <2>1. /\ s \in Known /\ sessions[s].status = "PAUSED" /\ store' = store
        /\ sessions' = [sessions EXCEPT ![s].status = "RUNNING"]
        /\ orphaned \subseteq orphaned'
    BY <1>5 DEF Resume, InState, Launch
  <2>2. /\ Known' = Known /\ Saved' = Saved
        /\ \A q \in Known : q # s => sessions'[q] = sessions[q]
    BY <2>1 DEF Known, Saved
  <2>3. sessions'[s].status = "RUNNING"
    BY <1>0, <2>1 DEF TypeOK, Session, Known
  <2>4. store[s].status = "PAUSED"
    BY <1>0, <2>1 DEF Follows
  <2>5. Follows(s)'
    BY <2>1, <2>3, <2>4 DEF Follows
  <2>6. \A q \in Known' : Follows(q)'
    BY <1>0, <2>1, <2>2, <2>5, StoreFrame
  <2> QED
    BY <1>0, <2>2, <2>6, StoreParts
<1>6. ASSUME NEW t \in tasks, Attempt(t) PROVE StoreFollows'
  <2> DEFINE final == [status |-> "RUNNING", attempts |-> sessions[t.id].attempts + 1]
  <2>1. /\ t.id \in Known /\ sessions' = With(sessions, t.id, final) /\ final.status = "RUNNING"
        /\ store' = store /\ orphaned' = orphaned
    BY <1>6 DEF Attempt, history
  <2> HIDE DEF final
  <2>2. /\ Known' = Known /\ Saved' = Saved /\ sessions'[t.id].status = "RUNNING"
        /\ \A q \in Known : q # t.id => sessions'[q] = sessions[q]
    BY <2>1 DEF With, Known, Saved
  <2>3. Follows(t.id)'
    BY <1>0, <2>1, <2>2, KnownTask DEF Follows, InState
  <2>4. \A q \in Known' : Follows(q)'
    BY <1>0, <2>1, <2>2, <2>3, StoreFrame
  <2> QED
    BY <1>0, <2>2, <2>4, StoreParts
<1>7. ASSUME NEW t \in tasks, Ends(t) PROVE StoreFollows'
  BY <1>2, <1>7, OutcomeFacts DEF Ends, history
<1>8. ASSUME NEW t \in tasks,
             Quits(t) \/ Delays(t) \/ Raises(t) \/ \E answer \in Answers : Answered(t, answer)
      PROVE  StoreFollows'
  BY <1>1, <1>8 DEF Quits, Delays, Raises, Answered, history
<1>9. ASSUME NEW s \in Ids, Cancel(s) \/ Pause(s) \/ Delete(s) PROVE StoreFollows'
  <2>1. orphaned' = orphaned
    BY <1>9 DEF Cancel, Pause, Delete
  <2>2. \/ UNCHANGED registry
        \/ Remove(s)
        \/ Finalize(s, "CANCELLED") /\ s \in Known
    BY <1>9 DEF Cancel, Pause, Delete, InState
  <2>3. "CANCELLED" \in Statuses
    BY DEF Statuses, Terminal
  <2> QED
    BY <1>1, <1>2, <1>3, <2>1, <2>2, <2>3
<1>10. ASSUME NEW c \in calls, Returned(c) PROVE StoreFollows'
  BY <1>1, <1>3, <1>10 DEF Returned, history
<1>11. CASE Restarted
  <2>1. sessions' = store /\ store' = store
        /\ orphaned' = {s \in Saved : store[s].status = "RUNNING"}
    BY <1>11 DEF Restarted
  <2>2. Known' = Saved' /\ \A q \in Known' : Follows(q)'
    BY <2>1 DEF Known, Saved, Follows
  <2> QED
    BY <2>2, StoreParts
<1>12. CASE Shutdown \/ UNCHANGED vars
  BY <1>1, <1>12 DEF Shutdown, vars, history, registry
<1> QED
  BY <1>4, <1>5, <1>6, <1>7, <1>8, <1>9, <1>10, <1>11, <1>12 DEF Next, TaskStep, Stopped, Crash

-----------------------------------------------------------------------------
(* The invariant and what follows from it.                                   *)

LEMMA InitInv == Init => Inv
<1> SUFFICES ASSUME Init PROVE Inv
  OBVIOUS
<1>1. TypeOK
  BY TypeInit
<1>2. Known = {} /\ Saved = {} /\ tasks = {} /\ calls = {} /\ paused = {} /\ reasons = {}
      /\ \A s \in Ids : taskOf[s] = 0 /\ tokenOf[s] = 0
  BY DEF Init, Known, Saved
<1>3. ASSUME NEW s \in Ids PROVE Good(s)
  BY <1>2 DEF Good, Matched, Heard, PauseWaits, Alone, InState
<1> QED
  BY <1>1, <1>2, <1>3 DEF Inv, Fresh, StoreFollows

LEMMA InvStep == Inv /\ [Next]_vars => Inv'
<1> SUFFICES ASSUME Inv, [Next]_vars PROVE Inv'
  OBVIOUS
<1>1. TypeOK' /\ Fresh' /\ StoreFollows'
  BY TypeStep, FreshStep, StoreStep DEF Inv
<1>2. \A s \in Ids \ orphaned' : Good(s)'
  BY GoodStep
<1> QED
  BY <1>1, <1>2 DEF Inv

LEMMA Invariance == Spec => []Inv
BY InitInv, InvStep, PTL DEF Spec

(* The store has what a client has seen of every session that is not running *)
(* and nothing that was deleted (_finalize, delete_session, restore).        *)
THEOREM StoreFollowsHolds == Spec => []StoreFollows
<1>1. Inv => StoreFollows
  BY DEF Inv
<1> QED
  BY <1>1, Invariance, PTL

(* A session is RUNNING exactly while it has its one task, which the tables  *)
(* _tasks and _tokens know, and they know nothing else.                      *)
THEOREM TablesMatchHolds == Spec => []TablesMatch
<1>1. ASSUME Inv PROVE TablesMatch
  <2> SUFFICES ASSUME NEW s \in Ids \ orphaned
               PROVE  LET own == {t \in tasks : t.id = s}
                      IN  /\ Cardinality(own) <= 1
                          /\ InState(s, "RUNNING") <=> own # {}
                          /\ \A t \in own : taskOf[s] = t.n
                          /\ own = {} => taskOf[s] = 0 /\ tokenOf[s] = 0 /\ s \notin paused \cup reasons
    BY DEF TablesMatch
  <2> DEFINE own == {t \in tasks : t.id = s}
  <2>1. Matched(s) /\ TypeOK
    BY <1>1 DEF Inv, Good
  <2>2. Cardinality(own) <= 1
    <3>1. CASE own = {}
      <4>1. Cardinality(own) = 0
        BY <3>1, FS_EmptySet
      <4> QED
        BY <4>1
    <3>2. CASE own # {}
      <4>1. PICK t : t \in own
        BY <3>2
      <4>2. own = {t}
        BY <2>1, <4>1, OwnTask
      <4>3. Cardinality(own) = 1
        BY <4>2, FS_Singleton
      <4> QED
        BY <4>3
    <3> QED
      BY <3>1, <3>2
  <2>3. InState(s, "RUNNING") <=> own # {}
    BY <2>1 DEF Matched
  <2>4. \A t \in own : taskOf[s] = t.n
    BY <2>1 DEF Matched
  <2>5. own = {} => taskOf[s] = 0 /\ tokenOf[s] = 0 /\ s \notin paused \cup reasons
    BY <2>1 DEF Matched
  <2> QED
    BY <2>2, <2>3, <2>4, <2>5
<1> QED
  BY <1>1, Invariance, PTL

(* What a cancel(), pause() or delete finds when the task it waited for is   *)
(* over.                                                                     *)
THEOREM StopsHonouredHolds == Spec => StopsHonoured
<1>1. ASSUME Inv, NEW c \in calls, Returned(c), c.id \notin orphaned
      PROVE  /\ c.kind = "delete" => c.id \notin Known'
             /\ InState(c.id, "RUNNING") => taskOf[c.id] > c.task
             /\ c.id \notin overlapped =>
                  /\ c.kind = "cancel" => sessions[c.id].status \in Terminal
                  /\ c.kind = "pause"  => sessions[c.id].status \in Terminal \cup {"PAUSED"}
  <2>1. /\ c.id \in Ids /\ c.task \in Int /\ taskOf[c.id] \in Int /\ Good(c.id)
    BY <1>1 DEF Inv, TypeOK, Call
  <2>2. /\ InState(c.id, "RUNNING") => c.task < taskOf[c.id]
        /\ c.kind = "delete" => c.id \notin Known'
    BY <1>1, ReturnedFinds
  <2>3. c.id \notin overlapped => Found(c.id, c)
    BY <1>1, <2>1 DEF Good, Alone
  <2>4. ~(InState(c.id, "RUNNING") /\ taskOf[c.id] = c.task)
    BY <2>1, <2>2
  <2>5. c.id \notin overlapped =>
          /\ c.kind = "cancel" => sessions[c.id].status \in Terminal
          /\ c.kind = "pause"  => sessions[c.id].status \in Terminal \cup {"PAUSED"}
    BY <2>3, <2>4 DEF Found, InState
  <2> QED
    BY <2>1, <2>2, <2>5
<1> DEFINE Step == \A c \in calls :
              (Returned(c) /\ c.id \notin orphaned) =>
            /\ c.kind = "delete" => c.id \notin Known'
            /\ InState(c.id, "RUNNING") => taskOf[c.id] > c.task
            /\ c.id \notin overlapped =>
                  /\ c.kind = "cancel" => sessions[c.id].status \in Terminal
                  /\ c.kind = "pause"  => sessions[c.id].status \in Terminal \cup {"PAUSED"}
<1>2. Inv /\ [Next]_vars => [Step]_vars
  BY <1>1
<1>3. StopsHonoured <=> [][Step]_vars
  BY DEF StopsHonoured
<1> HIDE DEF Step
<1> QED
  BY <1>2, <1>3, Invariance, PTL DEF Spec

LEMMA OutcomeStep ==
    ASSUME Inv, [Next]_vars, NEW s \in Known \ orphaned, sessions[s].status \in Terminal
    PROVE  s \notin Known' \/ sessions'[s] = sessions[s]
<1>0. /\ TypeOK /\ s \in Saved /\ store[s] = sessions[s]
      /\ ~InState(s, "RUNNING") /\ ~InState(s, "PAUSED")
  BY DEF Inv, StoreFollows, Terminal, InState
<1>1. ASSUME UNCHANGED sessions PROVE sessions'[s] = sessions[s]
  BY <1>1
<1>2. ASSUME NEW q, Remove(q) PROVE s \notin Known' \/ sessions'[s] = sessions[s]
  BY <1>2, RemoveFacts
<1>3. ASSUME NEW q, q # s, NEW v, sessions' = With(sessions, q, v)
      PROVE  sessions'[s] = sessions[s]
  BY <1>3 DEF With, Known
<1>4. ASSUME NEW q \in Ids, Execute(q) \/ Resume(q) \/ Cancel(q) \/ Pause(q) \/ Delete(q)
      PROVE  s \notin Known' \/ sessions'[s] = sessions[s]
  <2>1. CASE Execute(q)
    BY <1>3, <2>1 DEF Execute
  <2>2. CASE Resume(q)
    BY <1>0, <2>2 DEF Resume
  <2>3. CASE Cancel(q)
    BY <1>0, <1>1, <1>3, <2>3 DEF Cancel, Finalize, registry
  <2>4. CASE Pause(q)
    BY <1>1, <2>4 DEF Pause, registry
  <2>5. CASE Delete(q)
    BY <1>1, <1>2, <2>5 DEF Delete, registry
  <2> QED
    BY <1>4, <2>1, <2>2, <2>3, <2>4, <2>5
<1>5. ASSUME NEW t \in tasks, TaskStep(t)
      PROVE  sessions'[s] = sessions[s]
  <2>1. t.id # s
    BY <1>0, KnownTask
  <2>2. CASE Attempt(t)
    BY <1>3, <2>1, <2>2 DEF Attempt
  <2>3. CASE Ends(t)
    BY <1>3, <2>1, <2>3 DEF Ends, Finalize
  <2>4. CASE Quits(t) \/ Delays(t) \/ Raises(t) \/ \E answer \in Answers : Answered(t, answer)
    BY <1>1, <2>4 DEF Quits, Delays, Raises, Answered, registry
  <2> QED
    BY <1>5, <2>2, <2>3, <2>4 DEF TaskStep
<1>6. ASSUME NEW c \in calls, Returned(c)
      PROVE  s \notin Known' \/ sessions'[s] = sessions[s]
  BY <1>1, <1>2, <1>6 DEF Returned, registry
<1>7. CASE Stopped \/ Crash
  BY <1>0, <1>7 DEF Stopped, Crash, Restarted
<1>8. CASE Shutdown \/ UNCHANGED vars
  BY <1>1, <1>8 DEF Shutdown, vars, registry
<1> QED
  BY <1>4, <1>5, <1>6, <1>7, <1>8 DEF Next

(* No late task, call or restore changes the outcome of a session.           *)
THEOREM OutcomeKeptHolds == Spec => OutcomeKept
<1> DEFINE Step == \A s \in Known \ orphaned :
        sessions[s].status \in Terminal => s \notin Known' \/ sessions'[s] = sessions[s]
<1>1. Inv /\ [Next]_vars => [Step]_vars
  BY OutcomeStep
<1>2. OutcomeKept <=> [][Step]_vars
  BY DEF OutcomeKept
<1> HIDE DEF Step
<1> QED
  BY <1>1, <1>2, Invariance, PTL DEF Spec

-----------------------------------------------------------------------------
(* Who asked a task to stop.                                                 *)

(* A shutdown, or a call that waits for the session's task; a pause as long   *)
(* as its flag is up.                                                        *)
StopAsked(s) ==
    \/ mode = "stopping"
    \/ \E c \in calls : c.id = s /\ c.task = taskOf[s] /\ (c.kind = "pause" => s \in paused)

(* The token in the table is that of the session's task.                     *)
OwnToken(s) == InState(s, "RUNNING") => tokenOf[s] = taskOf[s]

(* A task holds its own token, and finds it cancelled only when asked to stop. *)
Heeded(s) ==
    \A t \in tasks : t.id = s =>
        /\ t.token \in {0, t.n}
        /\ t.n \in cancelled \/ t.stage = "CANCELLED" => StopAsked(s)

(* No two sessions share a token, and a new one was never cancelled.         *)
TokensApart ==
    /\ 0 \notin cancelled /\ \A x \in cancelled : x <= launched
    /\ \A s \in Ids : tokenOf[s] <= launched
    /\ \A s, q \in Ids : s # q /\ tokenOf[s] > 0 => tokenOf[s] # tokenOf[q]

AskInv == TokensApart /\ \A s \in Ids \ orphaned : OwnToken(s) /\ Heeded(s)

(* Tokens stay apart if those that change go, or are new.                    *)
LEMMA TokensFrame ==
    ASSUME TypeOK, TokensApart, launched' \in Nat, launched' >= launched,
           NEW q \in Ids, NEW token \in {0, tokenOf[q]} \cup {n \in Int : n < 0} \cup ({launched'} \ {launched}),
           tokenOf' = [tokenOf EXCEPT ![q] = token]
    PROVE  /\ \A s \in Ids : tokenOf'[s] <= launched'
           /\ \A s, p \in Ids : s # p /\ tokenOf'[s] > 0 => tokenOf'[s] # tokenOf'[p]
<1>1. /\ tokenOf \in [Ids -> Int] /\ launched \in Nat
      /\ \A s \in Ids : tokenOf[s] \in Int /\ tokenOf[s] <= launched
  BY DEF TypeOK, TokensApart
<1>2. \A s \in Ids : tokenOf'[s] = IF s = q THEN token ELSE tokenOf[s]
  BY <1>1
<1>3. token \in Int /\ token <= launched'
  BY <1>1
<1>4. token > 0 => \A s \in Ids \ {q} : tokenOf[s] # token
  BY <1>1 DEF TokensApart
<1>5. \A s \in Ids : tokenOf'[s] <= launched'
  BY <1>1, <1>2, <1>3
<1>6. \A s, p \in Ids : s # p /\ tokenOf'[s] > 0 => tokenOf'[s] # tokenOf'[p]
  BY <1>2, <1>4 DEF TokensApart
<1> QED
  BY <1>5, <1>6

LEMMA TokensStep == Inv /\ AskInv /\ [Next]_vars => TokensApart'
<1> SUFFICES ASSUME Inv, TokensApart, [Next]_vars PROVE TokensApart'
  BY DEF AskInv
<1>0. /\ TypeOK /\ launched \in Nat /\ tokenOf \in [Ids -> Int] /\ cancelled \subseteq Int
      /\ \A s \in Ids : tokenOf[s] <= launched
      /\ 0 \notin cancelled /\ \A x \in cancelled : x <= launched
  BY DEF Inv, TypeOK, TokensApart
<1>1. ASSUME UNCHANGED <<tokenOf, launched>>, NEW more \in SUBSET Int, cancelled' \subseteq cancelled \cup more,
             0 \notin more, \A x \in more : x <= launched
      PROVE  TokensApart'
  BY <1>0, <1>1 DEF TokensApart
<1>2. ASSUME UNCHANGED launched, cancelled' \subseteq cancelled,
             NEW q \in Ids, NEW token \in {0, tokenOf[q]} \cup {n \in Int : n < 0},
             tokenOf' = [tokenOf EXCEPT ![q] = token]
      PROVE  TokensApart'
  <2>1. launched' \in Nat /\ launched' >= launched
    BY <1>0, <1>2
  <2> QED
    BY <1>0, <1>2, <2>1, TokensFrame DEF TokensApart
<1>3. ASSUME NEW q \in Ids, Launch(q) PROVE TokensApart'
  <2>1. /\ launched' = launched + 1 /\ tokenOf' = [tokenOf EXCEPT ![q] = launched'] /\ cancelled' = cancelled
        /\ launched' \in Nat /\ launched' >= launched /\ launched' # launched
    BY <1>0, <1>3 DEF Launch
  <2>2. /\ \A s \in Ids : tokenOf'[s] <= launched'
        /\ \A s, p \in Ids : s # p /\ tokenOf'[s] > 0 => tokenOf'[s] # tokenOf'[p]
    BY <1>0, <2>1, TokensFrame
  <2>3. \A x \in cancelled' : x <= launched'
    BY <1>0, <2>1
  <2> QED
    BY <1>0, <2>1, <2>2, <2>3 DEF TokensApart
<1>4. ASSUME NEW q \in Ids, NEW kind, StopAndWait(kind, q), UNCHANGED launched PROVE TokensApart'
  <2>1. UNCHANGED <<tokenOf, launched>> /\ cancelled' = cancelled \cup ({tokenOf[q]} \ {0})
    BY <1>4 DEF StopAndWait
  <2> QED
    BY <1>0, <1>1, <2>1
<1>5. ASSUME NEW q \in Ids, NEW status, Finalize(q, status), UNCHANGED <<cancelled, launched>>
      PROVE  TokensApart'
  BY <1>0, <1>2, <1>5 DEF Finalize
<1>6. ASSUME UNCHANGED <<tokenOf, launched, cancelled>> PROVE TokensApart'
  BY <1>0, <1>1, <1>6
<1>7. ASSUME NEW s \in Ids, Execute(s) \/ Resume(s) \/ Cancel(s) \/ Pause(s) \/ Delete(s)
      PROVE  TokensApart'
  <2>1. CASE Execute(s) \/ Resume(s)
    BY <1>3, <2>1 DEF Execute, Resume
  <2>2. CASE Cancel(s)
    BY <1>4, <1>5, <2>2 DEF Cancel, running
  <2>3. CASE Pause(s)
    BY <1>4, <2>3 DEF Pause
  <2>4. CASE Delete(s)
    BY <1>0, <1>2, <1>4, <1>6, <2>4 DEF Delete, running, tables
  <2> QED
    BY <1>7, <2>1, <2>2, <2>3, <2>4
<1>8. ASSUME NEW t \in tasks, TaskStep(t) PROVE TokensApart'
  <2>0. t.id \in Ids /\ t.n \in Nat \ {0}
    BY <1>0 DEF TypeOK, Task
  <2>1. CASE Attempt(t)
    <3> DEFINE token == IF tokenOf[t.id] # 0 THEN tokenOf[t.id] ELSE -t.n
    <3>1. tokenOf' = [tokenOf EXCEPT ![t.id] = token] /\ UNCHANGED launched /\ cancelled' \subseteq cancelled
      BY <2>1 DEF Attempt
    <3>2. token \in {0, tokenOf[t.id]} \cup {n \in Int : n < 0}
      BY <2>0
    <3> HIDE DEF token
    <3> QED
      BY <1>2, <2>0, <3>1, <3>2
  <2>2. CASE Ends(t)
    BY <1>5, <2>0, <2>2 DEF Ends
  <2>3. CASE Quits(t) \/ Delays(t) \/ Raises(t) \/ \E answer \in Answers : Answered(t, answer)
    BY <1>6, <2>3 DEF Quits, Delays, Raises, Answered, tables
  <2> QED
    BY <1>8, <2>1, <2>2, <2>3 DEF TaskStep
<1>9. ASSUME NEW c \in calls, Returned(c) PROVE TokensApart'
  BY <1>6, <1>9 DEF Returned, tables, running
<1>10. CASE Stopped \/ Crash
  BY <1>0, <1>10 DEF Stopped, Crash, Restarted, TokensApart
<1>11. CASE Shutdown
  <2> DEFINE more == {tokenOf[s] : s \in Ids} \ {0}
  <2>1. UNCHANGED <<tokenOf, launched>> /\ cancelled' = cancelled \cup more
    BY <1>11 DEF Shutdown, tables
  <2>2. more \in SUBSET Int /\ 0 \notin more /\ \A x \in more : x <= launched
    BY <1>0
  <2> HIDE DEF more
  <2> QED
    BY <1>1, <2>1, <2>2
<1>12. CASE UNCHANGED vars
  BY <1>6, <1>12 DEF vars, tables, running
<1> QED
  BY <1>7, <1>8, <1>9, <1>10, <1>11, <1>12 DEF Next

(* A step leaves the stop of a session's task as it was.                     *)
Spared(s) ==
    /\ tokenOf'[s] = tokenOf[s] /\ taskOf'[s] = taskOf[s]
    /\ InState(s, "RUNNING")' => InState(s, "RUNNING")
    /\ s \in paused => s \in paused'
    /\ mode = "stopping" => mode' = "stopping"
    /\ \A c \in calls : c.id = s /\ InProgress(c.task) => c \in calls'
    /\ \A x \in cancelled' \ cancelled : x # tokenOf[s]
    /\ \A u \in tasks' : u.id = s =>
          \E t \in tasks : /\ t.id = s /\ t.n = u.n /\ u.token \in {0, u.n}
                           /\ u.stage = "CANCELLED" => t.stage = "CANCELLED" \/ t.token \in cancelled

LEMMA SparedAsked ==
    ASSUME Inv, TokensApart, NEW s \in Ids \ orphaned, OwnToken(s), Heeded(s), Spared(s)
    PROVE  OwnToken(s)' /\ Heeded(s)'
<1>0. Good(s) /\ TypeOK /\ 0 \notin cancelled
  BY DEF Inv, TokensApart
<1>1. OwnToken(s)'
  BY DEF Spared, OwnToken
<1>2. ASSUME NEW u \in tasks', u.id = s, u.n \in cancelled' \/ u.stage = "CANCELLED"
      PROVE  StopAsked(s)'
  <2>1. PICK t \in tasks : /\ t.id = s /\ t.n = u.n
                           /\ u.stage = "CANCELLED" => t.stage = "CANCELLED" \/ t.token \in cancelled
    BY <1>2 DEF Spared
  <2>2. InState(s, "RUNNING") /\ taskOf[s] = t.n /\ tokenOf[s] = t.n
    BY <1>0, <2>1 DEF Good, Matched, OwnToken
  <2>3. t.n \in cancelled \/ t.stage = "CANCELLED"
    BY <1>0, <1>2, <2>1, <2>2 DEF Spared, Heeded
  <2>4. StopAsked(s)
    BY <2>1, <2>3 DEF Heeded
  <2>5. CASE mode = "stopping"
    BY <2>5 DEF Spared, StopAsked
  <2>6. ASSUME NEW c \in calls, c.id = s, c.task = taskOf[s], c.kind = "pause" => s \in paused
        PROVE  StopAsked(s)'
    <3>1. c \in calls'
      BY <2>1, <2>2, <2>6 DEF Spared, InProgress
    <3> QED
      BY <2>6, <3>1 DEF Spared, StopAsked
  <2> QED
    BY <2>4, <2>5, <2>6 DEF StopAsked
<1>3. \A u \in tasks' : u.id = s => u.token \in {0, u.n}
  BY DEF Spared
<1> QED
  BY <1>1, <1>2, <1>3 DEF Heeded

(* A client's step on the session itself, and on another one.                *)
LEMMA ClientAsked ==
    ASSUME Inv, AskInv, NEW q \in Ids, NEW s \in Ids \ orphaned', s \notin orphaned,
           Execute(q) \/ Resume(q) \/ Cancel(q) \/ Pause(q) \/ Delete(q)
    PROVE  OwnToken(s)' /\ Heeded(s)'
<1>0. /\ TypeOK /\ Good(s) /\ TokensApart /\ OwnToken(s) /\ Heeded(s)
      /\ taskOf \in [Ids -> 0..launched] /\ tokenOf \in [Ids -> Int] /\ launched \in Nat
      /\ \A t \in tasks : t.n \in 1..launched
  BY DEF Inv, AskInv, TypeOK, Task
<1>1. ASSUME \A t \in tasks' : t.id # s, ~InState(s, "RUNNING")'
      PROVE  OwnToken(s)' /\ Heeded(s)'
  BY <1>1 DEF OwnToken, Heeded
<1>2. ASSUME Launch(q), ~InState(q, "RUNNING"),
             q # s => s \notin paused \/ s \in paused',
             q # s => ~InState(s, "RUNNING")' \/ InState(s, "RUNNING")
      PROVE  OwnToken(s)' /\ Heeded(s)'
  <2> DEFINE new == [n |-> launched', id |-> q, stage |-> "created", token |-> 0, attempt |-> 0]
  <2>1. /\ launched' = launched + 1 /\ tasks' = tasks \cup {new}
        /\ taskOf' = [taskOf EXCEPT ![q] = launched'] /\ tokenOf' = [tokenOf EXCEPT ![q] = launched']
        /\ cancelled' = cancelled /\ calls' = calls /\ mode' = mode
    BY <1>2 DEF Launch, process
  <2>2. new.id = q /\ new.n = launched' /\ new.token = 0 /\ new.stage = "created"
    OBVIOUS
  <2> HIDE DEF new
  <2>3. CASE q = s
    <3>1. \A t \in tasks' : t.id = s => t = new
      BY <1>0, <1>2, <2>1, <2>3 DEF Good, Matched
    <3>2. launched' \notin cancelled'
      BY <1>0, <2>1 DEF TokensApart, TypeOK
    <3>3. OwnToken(s)'
      BY <1>0, <2>1, <2>3 DEF OwnToken
    <3> QED
      BY <2>2, <3>1, <3>2, <3>3 DEF Heeded
  <2>4. CASE q # s
    <3>1. Spared(s)
      BY <1>0, <1>2, <2>1, <2>2, <2>4 DEF Spared, Heeded
    <3> QED
      BY <1>0, <3>1, SparedAsked
  <2> QED
    BY <2>3, <2>4
<1>3. ASSUME NEW kind \in {"cancel", "pause", "delete"}, StopAndWait(kind, q), mode' = mode,
             IF kind = "pause" THEN paused' = paused \cup {q} ELSE paused' = paused,
             InState(q, "RUNNING"), InState(s, "RUNNING")' => InState(s, "RUNNING")
      PROVE  OwnToken(s)' /\ Heeded(s)'
  <2>1. /\ UNCHANGED <<taskOf, tokenOf, tasks>> /\ calls \subseteq calls'
        /\ cancelled' = cancelled \cup ({tokenOf[q]} \ {0})
    BY <1>3 DEF StopAndWait
  <2>2. CASE q = s
    <3>1. InProgress(taskOf[s])
      BY <1>0, <1>3, <2>2, OwnTask DEF Good
    <3>2. [kind |-> kind, id |-> s, task |-> taskOf[s]] \in calls'
      BY <1>3, <2>2, <3>1 DEF StopAndWait
    <3>3. StopAsked(s)'
      <4> DEFINE c == [kind |-> kind, id |-> s, task |-> taskOf[s]]
      <4>1. c.id = s /\ c.task = taskOf'[s] /\ (c.kind = "pause" => s \in paused')
        BY <1>3, <2>1, <2>2
      <4> QED
        BY <3>2, <4>1 DEF StopAsked
    <3> QED
      BY <1>0, <1>3, <2>1, <3>3 DEF OwnToken, Heeded
  <2>3. CASE q # s
    <3>1. Spared(s) \/ ~InState(s, "RUNNING")
      <4> SUFFICES ASSUME InState(s, "RUNNING") PROVE Spared(s)
        OBVIOUS
      <4>1. PICK t \in tasks : t.id = s
        BY <1>0 DEF Good, Matched
      <4>2. tokenOf[s] = t.n /\ tokenOf[s] > 0
        BY <1>0, <4>1 DEF Good, Matched, OwnToken
      <4>3. \A x \in cancelled' \ cancelled : x # tokenOf[s]
        BY <1>0, <2>1, <2>3, <4>2 DEF TokensApart
      <4> QED
        BY <1>0, <1>3, <2>1, <2>3, <4>3 DEF Spared, Heeded
    <3>2. ~InState(s, "RUNNING") => OwnToken(s)' /\ Heeded(s)'
      BY <1>0, <1>1, <1>3, <2>1 DEF Good, Matched
    <3> QED
      BY <1>0, <3>1, <3>2, SparedAsked
  <2> QED
    BY <2>2, <2>3
<1>4. ASSUME UNCHANGED <<tasks, cancelled, calls, mode>>, ~InState(q, "RUNNING"),
             q # s => /\ taskOf'[s] = taskOf[s] /\ tokenOf'[s] = tokenOf[s]
                      /\ s \notin paused \/ s \in paused'
                      /\ ~InState(s, "RUNNING")' \/ InState(s, "RUNNING"),
             ~InState(q, "RUNNING")'
      PROVE  OwnToken(s)' /\ Heeded(s)'
  <2>1. CASE q = s
    BY <1>0, <1>1, <1>4, <2>1 DEF Good, Matched
  <2>2. CASE q # s
    <3>1. Spared(s)
      BY <1>0, <1>4, <2>2 DEF Spared, Heeded
    <3> QED
      BY <1>0, <3>1, SparedAsked
  <2> QED
    BY <2>1, <2>2
<1>5. CASE Execute(q)
  <2>1. /\ Launch(q) /\ ~InState(q, "RUNNING") /\ paused' = paused
        /\ q # s => ~InState(s, "RUNNING")' \/ InState(s, "RUNNING")
    BY <1>5 DEF Execute, InState, Known, With
  <2> QED
    BY <1>2, <2>1
<1>6. CASE Resume(q)
  <2>1. /\ Launch(q) /\ ~InState(q, "RUNNING") /\ (q # s => s \notin paused \/ s \in paused')
        /\ q # s => ~InState(s, "RUNNING")' \/ InState(s, "RUNNING")
    BY <1>6 DEF Resume, InState, Known
  <2> QED
    BY <1>2, <2>1
<1>7. ASSUME UNCHANGED registry PROVE InState(s, "RUNNING")' <=> InState(s, "RUNNING")
  BY <1>7 DEF registry, InState, Known
<1>8. CASE Cancel(q)
  <2>1. CASE InState(q, "PAUSED") /\ Finalize(q, "CANCELLED") /\ UNCHANGED <<running, calls>>
    <3>1. UNCHANGED <<tasks, cancelled, calls, mode>> /\ ~InState(q, "RUNNING")
      BY <1>8, <2>1 DEF Cancel, InState, running, process
    <3>2. /\ ~InState(q, "RUNNING")'
          /\ q # s => ~InState(s, "RUNNING")' \/ InState(s, "RUNNING")
      <4>1. sessions[q] \in Session /\ q \in DOMAIN sessions
        BY <1>0, <2>1 DEF TypeOK, InState, Known
      <4>2. sessions'[q].status = "CANCELLED" /\ (q # s => (s \in DOMAIN sessions' <=> s \in DOMAIN sessions))
        BY <2>1, <4>1 DEF Finalize, With, Session
      <4>3. q # s /\ s \in DOMAIN sessions => sessions'[s] = sessions[s]
        BY <2>1 DEF Finalize, With
      <4> QED
        BY <4>2, <4>3 DEF InState, Known
    <3>3. q # s => /\ taskOf'[s] = taskOf[s] /\ tokenOf'[s] = tokenOf[s]
                   /\ s \notin paused \/ s \in paused'
      BY <1>0, <2>1 DEF Finalize
    <3> QED
      BY <1>4, <3>1, <3>2, <3>3
  <2>2. CASE InState(q, "RUNNING") /\ StopAndWait("cancel", q) /\ UNCHANGED <<registry, paused>>
    BY <1>3, <1>7, <1>8, <2>2 DEF Cancel, process
  <2> QED
    BY <1>8, <2>1, <2>2 DEF Cancel
<1>9. CASE Pause(q)
  BY <1>3, <1>7, <1>9 DEF Pause, process
<1>10. CASE Delete(q)
  <2>1. ASSUME Remove(q) PROVE /\ ~InState(q, "RUNNING")'
                               /\ q # s => ~InState(s, "RUNNING")' \/ InState(s, "RUNNING")
    BY <2>1 DEF Remove, Without, InState, Known
  <2>2. CASE sessions[q].status \in Terminal /\ Remove(q) /\ UNCHANGED <<tables, running, calls>>
    <3>1. UNCHANGED <<tasks, cancelled, calls, mode, taskOf, tokenOf, paused>> /\ ~InState(q, "RUNNING")
      BY <1>10, <2>2 DEF Delete, InState, Terminal, running, tables, process
    <3> QED
      BY <1>4, <2>1, <2>2, <3>1
  <2>3. CASE /\ InState(q, "PAUSED") /\ Remove(q)
             /\ taskOf' = [taskOf EXCEPT ![q] = 0] /\ tokenOf' = [tokenOf EXCEPT ![q] = 0]
             /\ paused' = paused \ {q}
             /\ UNCHANGED <<running, calls>>
    <3>1. UNCHANGED <<tasks, cancelled, calls, mode>> /\ ~InState(q, "RUNNING")
      BY <1>10, <2>3 DEF Delete, InState, running, process
    <3>2. q # s => /\ taskOf'[s] = taskOf[s] /\ tokenOf'[s] = tokenOf[s]
                   /\ s \notin paused \/ s \in paused'
      BY <1>0, <2>3
    <3> QED
      BY <1>4, <2>1, <2>3, <3>1, <3>2
  <2>4. CASE /\ InState(q, "RUNNING") /\ StopAndWait("delete", q)
             /\ IF InProgress(taskOf[q]) THEN UNCHANGED registry ELSE Remove(q)
             /\ UNCHANGED paused
    <3>1. InState(s, "RUNNING")' => InState(s, "RUNNING")
      BY <1>7, <2>1, <2>4, Zenon
    <3> QED
      BY <1>3, <1>10, <2>4, <3>1 DEF Delete, process
  <2> QED
    BY <1>10, <2>2, <2>3, <2>4 DEF Delete
<1> QED
  BY <1>5, <1>6, <1>8, <1>9, <1>10

(* A task's step on its own session, and on another one.                     *)
LEMMA TaskAsked ==
    ASSUME Inv, AskInv, NEW t \in tasks, TaskStep(t), NEW s \in Ids \ orphaned
    PROVE  OwnToken(s)' /\ Heeded(s)'
<1>0. /\ TypeOK /\ Good(s) /\ TokensApart /\ OwnToken(s) /\ Heeded(s) /\ t \in Task
      /\ taskOf \in [Ids -> 0..launched] /\ tokenOf \in [Ids -> Int] /\ 0 \notin cancelled
      /\ t.n \in Nat \ {0} /\ t.id \in Ids
  BY DEF Inv, AskInv, TypeOK, Task, TokensApart
<1>1. ASSUME t.id = s
      PROVE  /\ InState(s, "RUNNING") /\ s \in Known /\ taskOf[s] = t.n /\ tokenOf[s] = t.n
             /\ t.token \in {0, t.n} /\ \A u \in tasks : u.id = s => u = t
  BY <1>0, <1>1, OwnTask DEF Good, Matched, OwnToken, Heeded, InState
<1>2. ASSUME NEW u, u.n = t.n, u.id = t.id, Becomes(t, u), t.id = s => u.token \in {0, u.n},
             u.stage = "CANCELLED" => t.token \in cancelled,
             UNCHANGED <<taskOf, paused, calls, mode>>, tokenOf'[s] = tokenOf[s],
             cancelled' \subseteq cancelled, InState(s, "RUNNING")' => InState(s, "RUNNING")
      PROVE  OwnToken(s)' /\ Heeded(s)'
  <2>1. \A v \in tasks' : v.id = s =>
          \E w \in tasks : /\ w.id = s /\ w.n = v.n /\ v.token \in {0, v.n}
                           /\ v.stage = "CANCELLED" => w.stage = "CANCELLED" \/ w.token \in cancelled
    BY <1>0, <1>2 DEF Becomes, Heeded
  <2>2. Spared(s)
    BY <1>2, <2>1 DEF Spared
  <2> QED
    BY <1>0, <2>2, SparedAsked
<1>3. ASSUME UNCHANGED sessions PROVE InState(s, "RUNNING")' <=> InState(s, "RUNNING")
  BY <1>3 DEF InState, Known
<1>4. CASE Attempt(t)
  <2> DEFINE token == IF tokenOf[t.id] # 0 THEN tokenOf[t.id] ELSE -t.n
             u == [t EXCEPT !.stage = "attempt", !.attempt = sessions[t.id].attempts + 1, !.token = token]
  <2>1. /\ Becomes(t, u) /\ UNCHANGED <<taskOf, paused, calls, mode>> /\ cancelled' \subseteq cancelled
        /\ tokenOf' = [tokenOf EXCEPT ![t.id] = token] /\ t.id \in Known
        /\ sessions' = With(sessions, t.id, [status |-> "RUNNING", attempts |-> sessions[t.id].attempts + 1])
    BY <1>4 DEF Attempt, process
  <2>2. u.n = t.n /\ u.id = t.id /\ u.token = token /\ u.stage = "attempt"
    BY <1>0 DEF Task
  <2>3. t.id = s => token = t.n /\ token = tokenOf[s]
    BY <1>0, <1>1
  <2> HIDE DEF u, token
  <2>4. tokenOf'[s] = tokenOf[s]
    BY <1>0, <2>1, <2>3
  <2>5. InState(s, "RUNNING")' => InState(s, "RUNNING")
    BY <1>1, <2>1 DEF InState, Known, With
  <2> QED
    BY <1>2, <2>1, <2>2, <2>3, <2>4, <2>5
<1>5. ASSUME NEW answer \in Answers, Answered(t, answer) PROVE OwnToken(s)' /\ Heeded(s)'
  <2> DEFINE u == [t EXCEPT !.stage = answer]
  <2>1. /\ Becomes(t, u) /\ UNCHANGED <<sessions, taskOf, tokenOf, paused, calls, mode, cancelled>>
        /\ answer = "CANCELLED" => t.token \in cancelled
    BY <1>5 DEF Answered, registry, tables, process
  <2>2. u.n = t.n /\ u.id = t.id /\ u.token = t.token /\ u.stage = answer
    BY <1>0 DEF Task
  <2> HIDE DEF u
  <2> QED
    BY <1>1, <1>2, <1>3, <2>1, <2>2
<1>6. CASE Delays(t)
  <2> DEFINE u == [t EXCEPT !.stage = "delay"]
  <2>1. Becomes(t, u) /\ UNCHANGED <<sessions, taskOf, tokenOf, paused, calls, mode, cancelled>>
    BY <1>6 DEF Delays, registry, tables, process
  <2>2. u.n = t.n /\ u.id = t.id /\ u.token = t.token /\ u.stage = "delay"
    BY <1>0 DEF Task
  <2> HIDE DEF u
  <2> QED
    BY <1>1, <1>2, <1>3, <2>1, <2>2
<1>7. ASSUME t.id # s, tasks' = tasks \ {t}, UNCHANGED <<calls, mode, cancelled>>,
             taskOf'[s] = taskOf[s], tokenOf'[s] = tokenOf[s], s \in paused => s \in paused',
             InState(s, "RUNNING")' => InState(s, "RUNNING")
      PROVE  OwnToken(s)' /\ Heeded(s)'
  <2>1. Spared(s)
    BY <1>0, <1>7 DEF Spared, Heeded
  <2> QED
    BY <1>0, <2>1, SparedAsked
<1>8. CASE Quits(t) \/ Raises(t)
  <2>1. /\ t.id # s /\ tasks' = tasks \ {t}
        /\ UNCHANGED <<sessions, calls, mode, cancelled, taskOf, tokenOf>>
        /\ s \in paused => s \in paused'
    BY <1>1, <1>8 DEF Quits, Raises, registry, tables, process
  <2> QED
    BY <1>3, <1>7, <2>1
<1>9. CASE Ends(t)
  <2>1. /\ tasks' = tasks \ {t} /\ UNCHANGED <<calls, mode, cancelled>> /\ Finalize(t.id, Outcome(t))
    BY <1>9 DEF Ends, process
  <2>2. CASE t.id # s
    <3>1. /\ taskOf'[s] = taskOf[s] /\ tokenOf'[s] = tokenOf[s] /\ (s \in paused => s \in paused')
          /\ InState(s, "RUNNING")' => InState(s, "RUNNING")
      BY <1>0, <2>1, <2>2 DEF Finalize, With, InState, Known
    <3> QED
      BY <1>7, <2>1, <2>2, <3>1
  <2>3. CASE t.id = s
    <3>1. \A u \in tasks' : u.id # s
      BY <1>1, <2>1, <2>3
    <3>2. taskOf'[s] = 0 /\ tokenOf'[s] = 0
      BY <1>0, <2>1, <2>3 DEF Finalize
    <3> QED
      BY <3>1, <3>2 DEF OwnToken, Heeded
  <2> QED
    BY <2>2, <2>3
<1> QED
  BY <1>4, <1>5, <1>6, <1>8, <1>9 DEF TaskStep

LEMMA AskStep == Inv /\ AskInv /\ [Next]_vars => AskInv'
<1> SUFFICES ASSUME Inv, AskInv, [Next]_vars PROVE AskInv'
  OBVIOUS
<1>1. TokensApart'
  BY TokensStep
<1> SUFFICES ASSUME NEW s \in Ids, s \notin orphaned' PROVE OwnToken(s)' /\ Heeded(s)'
  BY <1>1 DEF AskInv
<1>2. ASSUME NEW q \in Ids, Execute(q) \/ Resume(q) \/ Cancel(q) \/ Pause(q) \/ Delete(q)
      PROVE  OwnToken(s)' /\ Heeded(s)'
  <2>1. s \notin orphaned
    BY <1>2 DEF Execute, Resume, Cancel, Pause, Delete, Launch
  <2> QED
    BY <1>2, <2>1, ClientAsked
<1>3. ASSUME NEW t \in tasks, TaskStep(t) PROVE OwnToken(s)' /\ Heeded(s)'
  <2>1. s \notin orphaned
    BY <1>3 DEF TaskStep, Attempt, Quits, Delays, Ends, Raises, Answered, history
  <2> QED
    BY <1>3, <2>1, TaskAsked
<1>4. ASSUME UNCHANGED <<tasks, tokenOf, taskOf, paused, orphaned>>, mode = "stopping" => mode' = "stopping",
             InState(s, "RUNNING")' => InState(s, "RUNNING"),
             cancelled' = cancelled \/ mode' = "stopping",
             \A c \in calls : InProgress(c.task) => c \in calls'
      PROVE  OwnToken(s)' /\ Heeded(s)'
  <2>1. TokensApart /\ OwnToken(s) /\ Heeded(s)
    BY <1>4 DEF AskInv
  <2>2. CASE mode' = "stopping"
    BY <1>4, <2>1, <2>2 DEF OwnToken, Heeded, StopAsked
  <2>3. CASE cancelled' = cancelled
    <3>1. Spared(s)
      BY <1>4, <2>1, <2>3 DEF Spared, Heeded
    <3> QED
      BY <1>4, <2>1, <3>1, SparedAsked
  <2> QED
    BY <1>4, <2>2, <2>3
<1>5. ASSUME NEW c \in calls, Returned(c) PROVE OwnToken(s)' /\ Heeded(s)'
  <2>1. /\ UNCHANGED <<tasks, tokenOf, taskOf, paused, orphaned, mode, cancelled>>
        /\ calls' = calls \ {c} /\ ~InProgress(c.task)
    BY <1>5 DEF Returned, tables, running, history, process
  <2>2. InState(s, "RUNNING")' => InState(s, "RUNNING")
    BY <1>5 DEF Returned, Remove, Without, registry, InState, Known
  <2> QED
    BY <1>4, <2>1, <2>2
<1>6. CASE Stopped \/ Crash
  BY <1>6 DEF Stopped, Crash, Restarted, OwnToken, Heeded, InState, Known, Saved
<1>7. CASE Shutdown \/ UNCHANGED vars
  <2>1. /\ UNCHANGED <<sessions, tasks, tokenOf, taskOf, paused, orphaned, calls>>
        /\ mode = "stopping" => mode' = "stopping"
        /\ cancelled' = cancelled \/ mode' = "stopping"
    BY <1>7 DEF Shutdown, vars, registry, tables, running, history, process
  <2>2. InState(s, "RUNNING")' <=> InState(s, "RUNNING")
    BY <2>1 DEF InState, Known
  <2> QED
    BY <1>4, <2>1, <2>2
<1> QED
  BY <1>2, <1>3, <1>5, <1>6, <1>7 DEF Next

LEMMA AskHolds == Spec => [](Inv /\ AskInv)
<1>1. Init => AskInv
  BY DEF Init, AskInv, TokensApart, OwnToken, Heeded, InState, Known
<1> QED
  BY <1>1, InitInv, InvStep, AskStep, PTL DEF Spec

(* A session ends as PAUSED or CANCELLED only when its task heeds a stop.    *)
LEMMA RequestStep ==
    ASSUME Inv, AskInv, [Next]_vars, NEW s \in Known \ orphaned, s \in Known',
           sessions'[s].status # sessions[s].status, stops' = stops, ~Stopped
    PROVE  /\ sessions'[s].status = "PAUSED" => \E c \in calls : c.id = s /\ c.kind = "pause"
           /\ sessions'[s].status = "CANCELLED" =>
                 \/ Cancel(s)
                 \/ \E c \in calls : c.id = s /\ c.kind \in {"cancel", "delete"}
                 \/ mode = "stopping"
<1>0. TypeOK /\ s \in Ids /\ Good(s) /\ Heeded(s) /\ stops \in Nat /\ sessions[s] \in Session
      /\ \A c \in calls : c.kind \in {"cancel", "pause", "delete"}
  BY DEF Inv, AskInv, TypeOK, Call
<1>1. sessions' # sessions
  OBVIOUS
<1>2. ASSUME NEW q, Remove(q) PROVE FALSE
  BY <1>2, RemoveFacts
<1>3. ASSUME NEW q, NEW v, sessions' = With(sessions, q, v) PROVE q = s /\ sessions'[s] = v
  BY <1>3 DEF With, Known
<1>4. ASSUME NEW q \in Ids, Execute(q) \/ Resume(q) \/ Cancel(q) \/ Pause(q) \/ Delete(q)
      PROVE  \/ Cancel(s) /\ sessions'[s].status = "CANCELLED"
             \/ sessions'[s].status = "RUNNING"
  <2>1. ~Execute(q) /\ ~Pause(q) /\ ~Delete(q)
    BY <1>1, <1>2, <1>3 DEF Execute, Pause, Delete, registry
  <2>2. CASE Resume(q)
    <3>1. q \in Known /\ sessions' = [sessions EXCEPT ![q].status = "RUNNING"]
      BY <2>2 DEF Resume, InState
    <3>2. q = s
      BY <3>1 DEF Known
    <3> QED
      BY <1>0, <3>1, <3>2 DEF Session, Known
  <2>3. CASE Cancel(q)
    <3>1. Finalize(q, "CANCELLED")
      BY <1>1, <2>3 DEF Cancel, registry
    <3>2. q = s /\ sessions'[s] = [sessions[s] EXCEPT !.status = "CANCELLED"]
      BY <1>3, <3>1 DEF Finalize
    <3> QED
      BY <1>0, <2>3, <3>2 DEF Session
  <2> QED
    BY <1>4, <2>1, <2>2, <2>3
<1>5. ASSUME NEW t \in tasks, TaskStep(t)
      PROVE  \/ sessions'[s].status = "RUNNING"
             \/ t.id = s /\ sessions'[s].status = Outcome(t) /\ t.stage \in Answers
  <2>1. CASE Attempt(t)
    BY <1>3, <2>1 DEF Attempt
  <2>2. CASE Ends(t)
    <3>1. t.id = s /\ sessions'[s] = [sessions[s] EXCEPT !.status = Outcome(t)] /\ t.stage \in Answers
      BY <1>3, <2>2 DEF Ends, Finalize
    <3> QED
      BY <1>0, <3>1 DEF Session
  <2>3. ~(Quits(t) \/ Delays(t) \/ Raises(t) \/ \E answer \in Answers : Answered(t, answer))
    BY <1>1 DEF Quits, Delays, Raises, Answered, registry
  <2> QED
    BY <1>5, <2>1, <2>2, <2>3 DEF TaskStep
<1>6. ASSUME NEW t \in tasks, t.id = s, t.stage \in Answers, sessions'[s].status = Outcome(t)
      PROVE  /\ sessions'[s].status = "PAUSED" => \E c \in calls : c.id = s /\ c.kind = "pause"
             /\ sessions'[s].status = "CANCELLED" =>
                   \/ \E c \in calls : c.id = s /\ c.kind \in {"cancel", "delete"}
                   \/ mode = "stopping"
  <2>1. Outcome(t) \in {"PAUSED", "CANCELLED"} => t.stage = "CANCELLED"
    BY <1>6 DEF Outcome, Answers
  <2>2. ASSUME t.stage = "CANCELLED" PROVE StopAsked(s)
    BY <1>0, <1>6, <2>2 DEF Heeded
  <2>3. t.stage = "CANCELLED" => Outcome(t) = IF s \in paused THEN "PAUSED" ELSE "CANCELLED"
    BY <1>6 DEF Outcome
  <2>4. ASSUME sessions'[s].status = "PAUSED" PROVE \E c \in calls : c.id = s /\ c.kind = "pause"
    BY <1>0, <1>6, <2>1, <2>3, <2>4 DEF Good, PauseWaits
  <2>5. ASSUME sessions'[s].status = "CANCELLED"
        PROVE  (\E c \in calls : c.id = s /\ c.kind \in {"cancel", "delete"}) \/ mode = "stopping"
    BY <1>0, <1>6, <2>1, <2>2, <2>3, <2>5 DEF StopAsked
  <2> QED
    BY <2>4, <2>5
<1>7. ASSUME NEW c \in calls, Returned(c) PROVE FALSE
  BY <1>1, <1>2, <1>7 DEF Returned, registry
<1>8. ~Crash /\ ~Shutdown /\ ~UNCHANGED vars
  BY <1>0, <1>1 DEF Crash, Shutdown, vars, registry
<1> QED
  BY <1>4, <1>5, <1>6, <1>7, <1>8 DEF Next

(* No session is paused or cancelled that nobody asked to stop: neither by a *)
(* stop of another session, nor by one of an earlier run of the same one.    *)
THEOREM OnlyOnRequestHolds == Spec => OnlyOnRequest
<1> DEFINE Step == \A s \in Known \ orphaned :
        (s \in Known' /\ sessions'[s].status # sessions[s].status /\ stops' = stops /\ ~Stopped) =>
            /\ sessions'[s].status = "PAUSED" => \E c \in calls : c.id = s /\ c.kind = "pause"
            /\ sessions'[s].status = "CANCELLED" =>
                  \/ Cancel(s)
                  \/ \E c \in calls : c.id = s /\ c.kind \in {"cancel", "delete"}
                  \/ mode = "stopping"
<1>1. Inv /\ AskInv /\ [Next]_vars => [Step]_vars
  BY RequestStep
<1>2. OnlyOnRequest <=> [][Step]_vars
  BY DEF OnlyOnRequest
<1> HIDE DEF Step
<1> QED
  BY <1>1, <1>2, AskHolds, PTL DEF Spec
=============================================================================
