------------------------------ MODULE Lifecycle ------------------------------
(***************************************************************************)
(* The application lifecycle of src/app/core/lifecycle/lifecycle_manager.py: *)
(* run() takes the application through its stages and stops it in the end, *)
(* while other tasks may call shutdown().  Only hooks are awaited, so what *)
(* a task does between two hook points is one step.                        *)
(***************************************************************************)
EXTENDS Integers, Sequences

CONSTANTS Main,     (* the task that calls run()                             *)
          Stoppers  (* tasks that call shutdown(), each once                 *)

VARIABLES stage, isRunning,
          at,       (* per task: the hook point it is in, or a state below   *)
          ran       (* history: how often the hooks of each point have begun *)

lifecycleVars == <<stage, isRunning, at, ran>>

Tasks == {Main} \cup Stoppers

Stages == <<"created", "config_loading", "config_loaded", "services_initializing",
            "services_initialized", "plugins_loading", "plugins_loaded", "starting",
            "running", "stopping", "stopped">>
Rank(s) == CHOOSE i \in DOMAIN Stages : Stages[i] = s

(* LIFECYCLE_TRANSITIONS and SHUTDOWN_TRANSITIONS. *)
Permitted(from, to) ==
    \/ Rank(to) = Rank(from) + 1
    \/ to = "stopping" /\ from \in {"config_loaded", "services_initialized", "plugins_loaded"}

(* initialize, start and shutdown: the transitions after a hook point, and   *)
(* the hook point after those.                                               *)
After ==
    [begin          |-> [to |-> <<"config_loading">>, hook |-> "before_init"],
     before_init    |-> [to |-> <<"config_loaded">>, hook |-> "after_config"],
     after_config   |-> [to |-> <<"services_initializing", "services_initialized">>,
                         hook |-> "after_services"],
     after_services |-> [to |-> <<"plugins_loading", "plugins_loaded">>,
                         hook |-> "after_plugins"],
     after_plugins  |-> [to |-> <<"starting">>, hook |-> "before_start"],
     before_start   |-> [to |-> <<"running">>, hook |-> "after_start"],
     before_stop    |-> [to |-> <<"stopping", "stopped">>, hook |-> "after_stop"]]

HookPoints == (DOMAIN After \ {"begin"}) \cup {"after_start", "after_stop"}

Init ==
    /\ stage = "created" /\ isRunning = FALSE
    /\ at = [t \in Tasks |-> "idle"]
    /\ ran = [h \in HookPoints |-> 0]

-----------------------------------------------------------------------------
(* Mutation: any transition is made. *)
AllMade(from, targets) == Len(targets)

(* _transition, for each of the targets in turn: how many are made before    *)
(* one is not permitted and raises.                                          *)
Made(from, targets) ==
    LET path == <<from>> \o targets
    IN  CHOOSE n \in 0..Len(targets) :
            /\ \A i \in 1..n : Permitted(path[i], path[i + 1])
            /\ n < Len(targets) => ~Permitted(path[n + 1], path[n + 2])

EntersHooks(t, h) ==
    at' = [at EXCEPT ![t] = h] /\ ran' = [ran EXCEPT ![h] = @ + 1]

(* shutdown, until its first hook. *)
Shutdown(t, s) ==
    IF s \in {"stopped", "created"}
    THEN at' = [at EXCEPT ![t] = "ended"] /\ UNCHANGED ran
    ELSE EntersHooks(t, "before_stop")

(* An exception: run() goes on to its own shutdown, a shutdown propagates.   *)
Raises(t, s) ==
    IF t = Main /\ at[t] \notin {"before_stop", "after_stop"}
    THEN Shutdown(t, s)
    ELSE at' = [at EXCEPT ![t] = "raised"] /\ UNCHANGED ran

(* From the end of the hooks of a point to the next hook point. *)
Advance(t, point) ==
    LET targets == After[point].to
        made == Made(stage, targets)
    IN  /\ stage' = (<<stage>> \o targets)[made + 1]
        /\ IF made = Len(targets) THEN EntersHooks(t, After[point].hook) ELSE Raises(t, stage')
        /\ UNCHANGED isRunning

RunBegins ==
    /\ at[Main] = "idle"
    /\ Advance(Main, "begin")

StopCalled(t) ==
    /\ at[t] = "idle"
    /\ Shutdown(t, stage)
    /\ UNCHANGED <<stage, isRunning>>

HooksEnd(t) ==
    /\ at[t] \in DOMAIN After
    /\ Advance(t, at[t])

(* The last statement of start: run() then waits in _idle. *)
Started ==
    /\ at[Main] = "after_start"
    /\ isRunning' = TRUE /\ at' = [at EXCEPT ![Main] = "waiting"]
    /\ UNCHANGED <<stage, ran>>

(* The last statement of shutdown. *)
Stopped(t) ==
    /\ at[t] = "after_stop"
    /\ isRunning' = FALSE /\ at' = [at EXCEPT ![t] = "ended"]
    /\ UNCHANGED <<stage, ran>>

(* A hook raises. *)
HookFails(t) ==
    /\ at[t] \in HookPoints
    /\ Raises(t, stage)
    /\ UNCHANGED <<stage, isRunning>>

(* _idle sees that the application has stopped, or the user interrupts it.   *)
IdleEnds ==
    /\ at[Main] = "waiting"
    /\ Shutdown(Main, stage)
    /\ UNCHANGED <<stage, isRunning>>

Next ==
    \/ RunBegins \/ Started \/ IdleEnds
    \/ \E t \in Stoppers : StopCalled(t)
    \/ \E t \in Tasks : HooksEnd(t) \/ Stopped(t) \/ HookFails(t)

Spec == Init /\ [][Next]_lifecycleVars

-----------------------------------------------------------------------------
(* Whatever hooks fail and whoever stops the application meanwhile, the      *)
(* hooks of start-up and those after the stop begin at most once, those      *)
(* after the stop only once it has stopped, and nothing of the start-up      *)
(* begins once it has: shutdown() may be called twice at the same time, and  *)
(* only the check of the transitions tells the second call.                  *)
StopsOnce ==
    [][\A h \in HookPoints : ran'[h] # ran[h] =>
          /\ h # "before_stop" => ran[h] = 0
          /\ h = "after_stop" <=> stage' = "stopped"
          /\ h = "after_stop" => ran["before_stop"] > 0]_lifecycleVars
=============================================================================
