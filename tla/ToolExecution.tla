---------------------------- MODULE ToolExecution ----------------------------
(***************************************************************************)
(* The tool executor of src/app/tools: a call resolves its tool, asks the  *)
(* permission system, validates its arguments and runs the tool in a       *)
(* thread, attempt by attempt, under a timeout.  A thread cannot be        *)
(* stopped: after a timeout it runs on beside the next attempt.            *)
(***************************************************************************)
EXTENDS Integers, Sequences, FiniteSets

CONSTANTS
    Calls, Tools,
    Params,      (* parameters of a tool: name |-> [required, default]        *)
    Decisions,   (* rules a client may add: [tools, decision]                 *)
    Retries, Delay,  (* max_retries and retry_delay_s of the calls            *)
    MaxRules     (* bound: rules added                                        *)

ToolAssumption ==
    /\ Retries \in Nat /\ Delay \in Nat /\ MaxRules \in Nat
    /\ \A d \in Decisions : d.tools \subseteq Tools

VARIABLES registered,  (* tools in the registry                              *)
          rules,       (* in the order they were added                       *)
          sandboxed,
          calls        (* a record for each call                             *)

toolVars == <<registered, rules, sandboxed, calls>>

NoCall == [phase |-> "idle", tool |-> "none", threads |-> <<>>, cancelled |-> FALSE,
           timed_out |-> FALSE, permitted |-> FALSE, result |-> "none"]

Init ==
    /\ registered = Tools /\ rules = <<>> /\ sandboxed \in BOOLEAN
    /\ calls = [c \in Calls |-> NoCall]

-----------------------------------------------------------------------------
(* check: the first rule that matches decides. *)
Decision(t) ==
    LET matching == {i \in DOMAIN rules : t \in rules[i].tools}
    IN  IF matching # {}
        THEN rules[CHOOSE i \in matching : \A j \in matching : i <= j].decision
        ELSE IF sandboxed THEN "deny" ELSE "allow"

(* _check_permission; confirmed is the confirmation handler's answer, FALSE  *)
(* if there is none.                                                         *)
MayRun(t, confirmed) ==
    \/ Decision(t) = "allow"
    \/ Decision(t) = "confirm" /\ confirmed

(* validate: no argument is unknown, none cannot be coerced and no required  *)
(* one is missing.                                                           *)
Valid(t, arguments) ==
    /\ DOMAIN arguments \subseteq DOMAIN Params[t]
    /\ \A p \in DOMAIN arguments : arguments[p] # "uncoercible"
    /\ \A p \in DOMAIN Params[t] \ DOMAIN arguments : ~Params[t][p].required

Update(c, call) ==
    /\ calls' = [calls EXCEPT ![c] = call]
    /\ UNCHANGED <<registered, rules, sandboxed>>

Answer(call, result) == [call EXCEPT !.phase = "answered", !.result = result]

(* The top of the loop over the attempts. *)
Attempt(call) ==
    IF call.cancelled
    THEN Answer(call, "cancelled")
    ELSE [call EXCEPT !.phase = "running", !.threads = Append(@, "runs")]

(* The end of the loop's body, after a failure. *)
AfterFailure(call) ==
    IF Len(call.threads) > Retries THEN Answer(call, "failure")
    ELSE IF Delay > 0 THEN [call EXCEPT !.phase = "delayed"]
    ELSE Attempt(call)

(* execute_async, up to the first attempt. *)
Execute(c, t, arguments, confirmed) ==
    LET call == [calls[c] EXCEPT !.tool = t]
    IN  /\ calls[c].phase = "idle"
        /\ Update(c, IF t \in registered /\ MayRun(t, confirmed) /\ Valid(t, arguments)
                     THEN Attempt([call EXCEPT !.permitted = TRUE])
                     ELSE Answer(call, "refused"))

(* A thread ends; unless its attempt has timed out, the call goes on: "ok",  *)
(* "raises", or "cancelled" by a tool that looks at the token.               *)
ThreadEnds(c, i, how) ==
    LET call == [calls[c] EXCEPT !.threads[i] = how]
        heard == call.phase = "running" /\ i = Len(call.threads)
    IN  /\ calls[c].threads[i] = "runs"
        /\ how = "cancelled" => call.cancelled
        /\ Update(c, IF ~heard THEN call
                     ELSE CASE how = "ok"        -> Answer(call, "success")
                            [] how = "cancelled" -> Answer(call, "cancelled")
                            [] how = "raises"    -> AfterFailure(call))

(* Mutation: a timeout counts as any other failure. *)
TimeoutForgotten(c) ==
    /\ calls[c].phase = "running"
    /\ Update(c, AfterFailure(calls[c]))

AttemptTimesOut(c) ==
    /\ calls[c].phase = "running"
    /\ Update(c, AfterFailure([calls[c] EXCEPT !.timed_out = TRUE]))

DelayEnds(c) ==
    /\ calls[c].phase = "delayed"
    /\ Update(c, Attempt(calls[c]))

Cancel(c) ==
    /\ ~calls[c].cancelled
    /\ Update(c, [calls[c] EXCEPT !.cancelled = TRUE])

(* The task that awaits the call is cancelled. *)
CallerCancelled(c) ==
    /\ calls[c].phase \in {"running", "delayed"}
    /\ Update(c, [calls[c] EXCEPT !.phase = "abandoned"])

AddRule(d) ==
    /\ Len(rules) < MaxRules
    /\ rules' = Append(rules, d)
    /\ UNCHANGED <<registered, sandboxed, calls>>

ClearRules ==
    /\ rules # <<>> /\ rules' = <<>>
    /\ UNCHANGED <<registered, sandboxed, calls>>

SwitchSandbox == sandboxed' = ~sandboxed /\ UNCHANGED <<registered, rules, calls>>

Register(t) == registered' = registered \cup {t} /\ UNCHANGED <<rules, sandboxed, calls>>

Unregister(t) == registered' = registered \ {t} /\ UNCHANGED <<rules, sandboxed, calls>>

(* Arguments: any subset of the parameters and an unknown one. *)
Arguments(t) ==
    UNION {[names -> {"fits", "uncoercible"}] : names \in SUBSET (DOMAIN Params[t] \cup {"other"})}

Next ==
    \/ \E c \in Calls :
          \/ \E t \in Tools, confirmed \in BOOLEAN : \E arguments \in Arguments(t) :
                Execute(c, t, arguments, confirmed)
          \/ \E i \in DOMAIN calls[c].threads, how \in {"ok", "raises", "cancelled"} :
                ThreadEnds(c, i, how)
          \/ AttemptTimesOut(c) \/ DelayEnds(c) \/ Cancel(c) \/ CallerCancelled(c)
    \/ \E d \in Decisions : AddRule(d)
    \/ \E t \in Tools : Register(t) \/ Unregister(t)
    \/ ClearRules \/ SwitchSandbox

Spec == Init /\ [][Next]_toolVars

-----------------------------------------------------------------------------
(* A tool works for a caller only as long as the caller can know: a call     *)
(* that answered with no timeout on the way has no thread left, two attempts *)
(* of one run together only after a timeout, a success is the answer of the  *)
(* last attempt, and nothing runs for a call that was not permitted when it  *)
(* was made.                                                                 *)
WorkAccountedFor ==
    \A c \in Calls :
        LET call == calls[c]
            running == {i \in DOMAIN call.threads : call.threads[i] = "runs"}
        IN  /\ ~call.timed_out /\ call.phase = "answered" => running = {}
            /\ Cardinality(running) > 1 => call.timed_out
            /\ call.result = "success" => call.threads[Len(call.threads)] = "ok"
            /\ call.threads # <<>> => call.permitted
            /\ Len(call.threads) <= Retries + 1
=============================================================================
