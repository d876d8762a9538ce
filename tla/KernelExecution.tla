--------------------------- MODULE KernelExecution ---------------------------
(***************************************************************************)
(* A skill of the kernel and a tool its handler may call: the executors of *)
(* src/app/kernel/skills/executor.py and src/app/kernel/tools/executor.py, *)
(* which are the same loop, one inside an attempt of the other.            *)
(***************************************************************************)
EXTENDS Integers, Sequences

CONSTANT Retries  \* max_retries of both; 3 by default

VARIABLES
    registered,  \* which of "skill" and "tool" has a descriptor
    handled,     \* which of them has a built-in handler
    token,       \* cancellation_token.is_cancelled, of the skill's execution
    skill,       \* the skill's execution: [at, attempt]
    tool,        \* the tool's execution: [at, attempt]
    result,      \* the SkillResult; "none" before
    returned,    \* history: attempts of the skill whose handler returned
    calls,       \* history: attempts of the tool in this attempt of the skill
    late         \* history: attempts of the tool that began when the token was set

vars == <<registered, handled, token, skill, tool, result, returned, calls, late>>

Idle == [at |-> "idle", attempt |-> 0]

Init ==
    /\ registered = {} /\ handled \in {{"skill", "tool"}, {"skill"}, {"tool"}}
    /\ token = FALSE /\ skill = Idle /\ tool = Idle
    /\ result = "none" /\ returned = 0 /\ calls = 0
    /\ late = 0

(* register_skill and register_tool; a descriptor that is there is replaced. *)
Register(kind) ==
    /\ kind \notin registered /\ registered' = registered \cup {kind}
    /\ UNCHANGED <<handled, token, skill, tool, result, returned, calls, late>>

Cancel ==
    /\ ~token /\ token' = TRUE
    /\ UNCHANGED <<registered, handled, skill, tool, result, returned, calls, late>>

-----------------------------------------------------------------------------
(* The skill. *)
Answer(r) == result' = r /\ skill' = [skill EXCEPT !.at = "over"]

(* A registered skill without a handler raises. *)
Execute ==
    /\ skill.at = "idle"
    /\ IF "skill" \notin registered THEN Answer("unregistered")
       ELSE IF "skill" \notin handled THEN Answer("raises")
       ELSE skill' = [at |-> "top", attempt |-> 0] /\ UNCHANGED result
    /\ UNCHANGED <<registered, handled, token, tool, returned, calls, late>>

(* The token is looked at here and nowhere else. *)
NextAttempt ==
    /\ skill.at = "top"
    /\ IF token THEN Answer("cancelled") /\ UNCHANGED calls
       ELSE /\ skill' = [at |-> "handler", attempt |-> skill.attempt + 1]
            /\ calls' = 0 /\ UNCHANGED result
    /\ UNCHANGED <<registered, handled, token, tool, returned, late>>

HandlerReturns ==
    /\ skill.at = "handler" /\ tool.at \in {"idle", "done", "failed"}
    /\ Answer("success") /\ tool' = Idle
    /\ returned' = returned + 1
    /\ UNCHANGED <<registered, handled, token, calls, late>>

(* After an exception the loop sleeps, after a timeout it does not. *)
Failed(next) ==
    /\ IF skill.attempt > Retries THEN Answer("failed")
       ELSE skill' = [skill EXCEPT !.at = next] /\ UNCHANGED result
    /\ tool' = Idle

(* Its own doing, or that of a tool that gave up. *)
HandlerRaises ==
    /\ skill.at = "handler" /\ tool.at \in {"idle", "done", "failed"}
    /\ Failed("asleep")
    /\ UNCHANGED <<registered, handled, token, returned, calls, late>>

(* wait_for cancels the handler and with it the tool it waits for. *)
TimesOut ==
    /\ skill.at = "handler"
    /\ Failed("top")
    /\ UNCHANGED <<registered, handled, token, returned, calls, late>>

Wakes ==
    /\ skill.at = "asleep" /\ skill' = [skill EXCEPT !.at = "top"]
    /\ UNCHANGED <<registered, handled, token, tool, result, returned, calls, late>>

-----------------------------------------------------------------------------
(* The tool, which gets no token. *)

(* _resolve_tool: a tool that is not registered or has no handler raises.    *)
CallTool ==
    /\ skill.at = "handler" /\ tool.at = "idle"
    /\ tool' = [at |-> IF {"tool"} \subseteq registered \cap handled THEN "top" ELSE "failed",
                attempt |-> 0]
    /\ UNCHANGED <<registered, handled, token, skill, result, returned, calls, late>>

NextToolAttempt ==
    /\ tool.at = "top"
    /\ tool' = [at |-> "trying", attempt |-> tool.attempt + 1]
    /\ calls' = calls + 1
    /\ late' = IF token THEN late + 1 ELSE late
    /\ UNCHANGED <<registered, handled, token, skill, result, returned>>

ToolReturns ==
    /\ tool.at = "trying" /\ tool' = [tool EXCEPT !.at = "done"]
    /\ UNCHANGED <<registered, handled, token, skill, result, returned, calls, late>>

ToolTimesOut ==
    /\ tool.at = "trying"
    /\ tool' = [tool EXCEPT !.at = IF tool.attempt > Retries THEN "failed" ELSE "top"]
    /\ UNCHANGED <<registered, handled, token, skill, result, returned, calls, late>>

ToolRaises ==
    /\ tool.at = "trying"
    /\ tool' = [tool EXCEPT !.at = IF tool.attempt > Retries THEN "failed" ELSE "asleep"]
    /\ UNCHANGED <<registered, handled, token, skill, result, returned, calls, late>>

ToolWakes ==
    /\ tool.at = "asleep" /\ tool' = [tool EXCEPT !.at = "top"]
    /\ UNCHANGED <<registered, handled, token, skill, result, returned, calls, late>>

Next ==
    \/ \E kind \in {"skill", "tool"} : Register(kind)
    \/ Cancel \/ Execute \/ NextAttempt \/ HandlerReturns \/ HandlerRaises \/ TimesOut \/ Wakes
    \/ CallTool \/ NextToolAttempt \/ ToolReturns \/ ToolTimesOut \/ ToolRaises \/ ToolWakes

Spec == Init /\ [][Next]_vars

-----------------------------------------------------------------------------
(* ExecutionSound: a skill ends as its last attempt did: a success after one *)
(* attempt that returned, a failure only after all of them, a cancellation   *)
(* before one that was still to come; once it is over nothing of it runs,    *)
(* and a tool works only for the attempt that waits for it.  A cancelled     *)
(* execution makes at most the attempts of the tool that one attempt of the  *)
(* skill has.                                                                *)
ExecutionSound ==
    /\ returned = IF result = "success" THEN 1 ELSE 0
    /\ result = "failed" => skill.attempt = Retries + 1
    /\ result = "cancelled" => token /\ skill.attempt <= Retries
    /\ skill.attempt <= Retries + 1 /\ tool.attempt <= Retries + 1
    /\ tool # Idle => skill.at = "handler" /\ calls = tool.attempt
    /\ late <= Retries + 1
=============================================================================
