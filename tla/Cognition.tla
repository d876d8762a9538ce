------------------------------ MODULE Cognition ------------------------------
(***************************************************************************)
(* What the ten stages of the kernel's pipeline do to the context that is  *)
(* handed from one to the next: goals are made of an intent, a plan of a   *)
(* goal, a decision of a plan, a verdict of a decision, and a response of  *)
(* what is there.  Any stage may fail; whether the next ones still run is  *)
(* the failure policy's (Pipeline), here "abort" or "continue".            *)
(*                                                                         *)
(* A field of the context that no stage has filled is None: an empty       *)
(* sequence, where a filled one holds its value.                           *)
(***************************************************************************)
EXTENDS Integers, Sequences, FiniteSets

CONSTANTS
    Intents,      \* what the intent engine may find
    Rules,        \* rules that may be registered: [actions, verdict, priority]
    MaxRequests,  \* bound: requests
    MaxFailures   \* bound: stages of a request that fail by themselves

VARIABLES
    context,      \* PipelineContext
    stage,        \* the next stage; 0 between requests
    onFailure,    \* the failure policy
    lost,         \* history: stages of the request that failed
    requests,     \* history: requests that were started
    activeGoals,  \* GoalEngine._active_goals, by number
    nextId,       \* GoalEngine._next_id
    rules,        \* PolicyEngine._rules
    experiences   \* InMemoryExperienceStore._records, oldest first

vars == <<context, stage, onFailure, lost, requests, activeGoals, nextId, rules, experiences>>

None == <<>>
The(field) == field[1]

(* The raw message is where the percept will be. *)
Fresh == [percept |-> <<"raw">>, intent |-> None, goals |-> None, plan |-> None,
          trace |-> None, decision |-> None, verdict |-> None, reflection |-> None,
          experience |-> None, response |-> None]

Dangerous == {"shell_exec", "delete_file"}

BuiltinRules ==
    [i \in 1..2 |-> [actions |-> {<<"shell_exec", "delete_file">>[i]},
                     verdict |-> "deny", priority |-> 100]]
        \o <<[actions |-> {"skill_call", "noop"} \cup Dangerous, verdict |-> "allow", priority |-> -1]>>

Init ==
    /\ context = Fresh /\ stage = 0 /\ lost = {} /\ requests = 0
    /\ onFailure \in {"abort", "continue"}
    /\ activeGoals = [g \in {} |-> 0] /\ nextId = 0
    /\ rules = BuiltinRules
    /\ experiences = <<>>

-----------------------------------------------------------------------------
(* Goals and plans. *)
GoalType ==
    [ask |-> "question", solve |-> "task", execute |-> "task", plan |-> "project",
     learn |-> "learning", create |-> "task", explore |-> "exploration", debug |-> "debugging",
     meta |-> "system", clarify |-> "system", unknown |-> "task"]

Priority ==
    [ask |-> "normal", solve |-> "high", execute |-> "high", plan |-> "normal", learn |-> "low",
     create |-> "normal", explore |-> "low", debug |-> "high", meta |-> "normal",
     clarify |-> "normal", unknown |-> "normal"]

CognitionAssumption ==
    /\ Intents \subseteq DOMAIN GoalType
    /\ Rules \subseteq [actions : SUBSET STRING, verdict : {"allow", "confirm", "deny"}, priority : Int]

Goal(id, parent, intent) ==
    [id |-> id, parent |-> parent, type |-> GoalType[intent], intent |-> intent,
     priority |-> Priority[intent], progress |-> 0, subs |-> {}]

(* The root first, then one goal for each sub-intent. *)
Hierarchy(intent) ==
    LET root == nextId + 1
        subs == {root + i : i \in DOMAIN intent.subs}
    IN  [root |-> [Goal(root, 0, intent.primary) EXCEPT !.subs = subs],
         children |-> [i \in DOMAIN intent.subs |-> Goal(root + i, root, intent.subs[i])]]

PlanLength(type) ==
    CASE type \in {"question", "task", "exploration"} -> 3
      [] type \in {"project", "learning"} -> 4
      [] type = "debugging" -> 5
      [] OTHER -> 2

(* Each step depends on the one before it. *)
PlanOf(goal) ==
    [goal |-> goal.id,
     steps |-> [i \in 1..PlanLength(goal.type) |-> [order |-> i - 1, needs |-> {i - 2} \ {-1}]]]

-----------------------------------------------------------------------------
(* Decisions.  A candidate's confidence is one in its order plus one.        *)
Candidates(plan) ==
    [i \in DOMAIN plan.steps |->
        [action |-> "skill_call", order |-> plan.steps[i].order, outOf |-> plan.steps[i].order + 1]]

(* The first of those in which the confidence is highest. *)
Ranks(candidates, i, j) ==
    \/ candidates[i].outOf < candidates[j].outOf
    \/ candidates[i].outOf = candidates[j].outOf /\ i <= j

Decided(plan) ==
    IF plan.steps = <<>> THEN [action |-> "noop", order |-> -1, goal |-> plan.goal]
    ELSE LET candidates == Candidates(plan)
             best == CHOOSE i \in DOMAIN candidates :
                        \A j \in DOMAIN candidates : Ranks(candidates, i, j)
         IN  [action |-> candidates[best].action, order |-> candidates[best].order,
              goal |-> plan.goal]

-----------------------------------------------------------------------------
(* Policies. *)

(* Highest priority first; of equal ones the one that is nearer the front. *)
Before(rs, i, j) ==
    \/ rs[i].priority > rs[j].priority
    \/ rs[i].priority = rs[j].priority /\ i <= j

Applicable(rs, action) == {i \in DOMAIN rs : action \in rs[i].actions}

(* The first rule that applies decides; without one the action is allowed.   *)
VerdictOf(rs, action) ==
    LET those == Applicable(rs, action)
    IN  IF those = {} THEN "allow"
        ELSE rs[CHOOSE i \in those : \A j \in those : Before(rs, i, j)].verdict

(* A rule is put in front of the others. *)
Registered(rs, rule) == <<rule>> \o rs

-----------------------------------------------------------------------------
(* The response. *)
Denied == context.verdict # None /\ The(context.verdict) = "deny"

Built ==
    [success |-> ~Denied,
     error |-> IF Denied THEN "denied" ELSE "none",
     lines |-> (IF context.decision # None THEN {"action"} ELSE {})
                 \cup (IF context.trace # None THEN {"conclusion"} ELSE {}),
     action |-> context.decision]

-----------------------------------------------------------------------------
(* Mutation: a request starts with what the last one has left. *)
BeginOnOld ==
    /\ stage = 0 /\ requests < MaxRequests
    /\ requests' = requests + 1 /\ stage' = 1
    /\ context' = [context EXCEPT !.percept = <<"raw">>] /\ lost' = {}
    /\ UNCHANGED <<onFailure, activeGoals, nextId, rules, experiences>>

Begin ==
    /\ stage = 0 /\ requests < MaxRequests
    /\ requests' = requests + 1 /\ stage' = 1
    /\ context' = Fresh /\ lost' = {}
    /\ UNCHANGED <<onFailure, activeGoals, nextId, rules, experiences>>

RegisterRule(rule) ==
    /\ stage = 0 /\ Len(rules) < 4
    /\ rules' = Registered(rules, rule)
    /\ UNCHANGED <<context, stage, onFailure, lost, requests, activeGoals, nextId, experiences>>

UpdateProgress(g) ==
    /\ stage = 0 /\ g \in DOMAIN activeGoals
    /\ activeGoals' = [activeGoals EXCEPT ![g].progress = 1]
    /\ UNCHANGED <<context, stage, onFailure, lost, requests, nextId, rules, experiences>>

(* Goes on with what the stage returned, which None leaves as it was. *)
Goes(to) == context' = to /\ stage' = (stage + 1) % 11

(* The stages that take None for what they need, and those that cannot. *)
Needs ==
    CASE stage = 3 -> context.intent
      [] stage = 4 -> context.goals
      [] stage = 6 -> context.plan
      [] stage = 7 -> context.decision
      [] OTHER -> context.percept

StageFails ==
    /\ stage > 0
    /\ Needs = None \/ Cardinality(lost) < MaxFailures
    /\ lost' = lost \cup {stage}
    /\ IF onFailure = "continue" THEN Goes(context)
       ELSE /\ stage' = 0
            /\ context' = [context EXCEPT !.response =
                              <<[success |-> FALSE, error |-> "failed", lines |-> {}, action |-> None]>>]
    /\ UNCHANGED <<onFailure, requests, activeGoals, nextId, rules, experiences>>

Filled(to) == Needs # None /\ Goes(to) /\ UNCHANGED <<onFailure, lost, requests>>

Perceive ==
    /\ stage = 1 /\ Filled([context EXCEPT !.percept = <<"text">>])
    /\ UNCHANGED <<activeGoals, nextId, rules, experiences>>

(* The classifiers raise on a message that has not been perceived, which the *)
(* engine takes for an unknown intent.                                       *)
Understand ==
    /\ stage = 2
    /\ \E primary \in Intents, subs \in {<<>>, <<"debug">>} :
          /\ The(context.percept) = "raw" => primary = "unknown" /\ subs = <<>>
          /\ Filled([context EXCEPT !.intent = <<[primary |-> primary, subs |-> subs]>>])
    /\ UNCHANGED <<activeGoals, nextId, rules, experiences>>

Resolve ==
    /\ stage = 3 /\ Needs # None
    /\ LET tree == Hierarchy(The(context.intent))
           new == {tree.root} \cup {tree.children[i] : i \in DOMAIN tree.children}
       IN  /\ Filled([context EXCEPT !.goals = <<tree>>])
           /\ nextId' = nextId + Cardinality(new)
           /\ activeGoals' = [g \in DOMAIN activeGoals \cup {n.id : n \in new} |->
                                IF \E n \in new : n.id = g THEN CHOOSE n \in new : n.id = g
                                ELSE activeGoals[g]]
    /\ UNCHANGED <<rules, experiences>>

CreatePlan ==
    /\ stage = 4 /\ Needs # None
    /\ Filled([context EXCEPT !.plan = <<PlanOf(The(context.goals).root)>>])
    /\ UNCHANGED <<activeGoals, nextId, rules, experiences>>

Reason ==
    /\ stage = 5 /\ Filled([context EXCEPT !.trace = <<"trace">>])
    /\ UNCHANGED <<activeGoals, nextId, rules, experiences>>

Decide ==
    /\ stage = 6 /\ Needs # None
    /\ Filled([context EXCEPT !.decision = <<Decided(The(context.plan))>>])
    /\ UNCHANGED <<activeGoals, nextId, rules, experiences>>

EvaluatePolicy ==
    /\ stage = 7 /\ Needs # None
    /\ Filled([context EXCEPT !.verdict = <<VerdictOf(rules, The(context.decision).action)>>])
    /\ UNCHANGED <<activeGoals, nextId, rules, experiences>>

(* The request asks for the mode that passes everything. *)
Reflect ==
    /\ stage = 8 /\ Filled([context EXCEPT !.reflection = <<"pass">>])
    /\ UNCHANGED <<activeGoals, nextId, rules, experiences>>

(* Without a reflection the request counts as a success. *)
Record ==
    /\ stage = 9
    /\ LET id == Len(experiences) + 1
           goalType == IF context.intent = None THEN "unknown" ELSE The(context.intent).primary
           success == IF context.reflection = None THEN TRUE ELSE The(context.reflection) = "pass"
       IN  /\ experiences' = Append(experiences, [of |-> requests, intent |-> goalType,
                                                  success |-> success])
           /\ Filled([context EXCEPT !.experience = <<id>>])
    /\ UNCHANGED <<activeGoals, nextId, rules>>

Respond ==
    /\ stage = 10 /\ Filled([context EXCEPT !.response = <<Built>>])
    /\ UNCHANGED <<activeGoals, nextId, rules, experiences>>

Next ==
    \/ Begin \/ StageFails
    \/ \E rule \in Rules : RegisterRule(rule)
    \/ \E g \in 1..nextId : UpdateProgress(g)
    \/ Perceive \/ Understand \/ Resolve \/ CreatePlan \/ Reason \/ Decide
    \/ EvaluatePolicy \/ Reflect \/ Record \/ Respond

Spec == Init /\ [][Next]_vars

-----------------------------------------------------------------------------
(* A denial of the built-in rules stands unless a rule of at least its       *)
(* priority, or one registered with the same, says otherwise.                *)
DenialsStand ==
    \A action \in Dangerous :
        VerdictOf(rules, action) = "deny" \/
        \E i \in DOMAIN rules : /\ action \in rules[i].actions /\ rules[i].priority >= 100
                                /\ rules[i].verdict # "deny"

(* CognitionSound: what a stage makes is of this request, whatever failed    *)
(* before it: the plan is of the root of its own goals and the action it     *)
(* decides on is one that nothing must precede; what is missing is what      *)
(* failed and what cannot be made without it; the response says no exactly   *)
(* when the action was denied or the run was aborted; each goal is kept      *)
(* under its own number, below its parent; a request is recorded at most     *)
(* once; and a dangerous action is denied unless a rule of that rank allows. *)
CognitionSound ==
    LET Missing(field) == context[field] = None
        Over == stage = 0 /\ requests > 0
    IN  /\ ~Missing("plan") => ~Missing("goals") /\ The(context.plan).goal = The(context.goals).root.id
        /\ ~Missing("goals") => The(context.goals).root.id + Cardinality(The(context.goals).root.subs) = nextId
        /\ ~Missing("decision") =>
             /\ ~Missing("plan") /\ The(context.decision).goal = The(context.plan).goal
             /\ \E i \in DOMAIN The(context.plan).steps :
                  LET s == The(context.plan).steps[i]
                  IN  s.order = The(context.decision).order /\ s.needs = {}
        /\ ~Missing("verdict") => ~Missing("decision")
        /\ onFailure = "continue" /\ Over =>
             /\ Missing("decision") <=> lost \cap {2, 3, 4, 6} # {}
             /\ Missing("verdict") <=> lost \cap {2, 3, 4, 6, 7} # {}
             /\ Missing("response") <=> 10 \in lost
        /\ Over /\ ~Missing("response") =>
             The(context.response).success = (~Denied /\ (onFailure = "continue" \/ lost = {}))
        /\ \A g \in DOMAIN activeGoals :
             /\ activeGoals[g].id = g
             /\ \A s \in activeGoals[g].subs : activeGoals[s].parent = g
        /\ \A i, j \in DOMAIN experiences : i # j => experiences[i].of # experiences[j].of
        /\ DenialsStand
=============================================================================
