-------------------------- MODULE WorkflowValidation --------------------------
(***************************************************************************)
(* What src/app/automation/validation.py asks of a definition before it is *)
(* published, and the engine that runs it afterwards: waves of ready steps *)
(* of the top level, each with the steps nested in it                      *)
(* (src/app/automation/executor.py).                                       *)
(*                                                                         *)
(* A step has an id, a type, the ids it depends on, whether the field its  *)
(* type requires is there, branches of nested steps and a loop's body.     *)
(***************************************************************************)
EXTENDS WorkflowGraph, FiniteSetsExt

CONSTANT Definitions  \* the definitions that are looked at

VARIABLES
    definition,  \* WorkflowDefinition: [id, version, steps, inputs, outputs]
    report,      \* the codes of the errors; {"none"} before validation
    results,     \* the steps whose result the run holds
    ran          \* history: the ids of the steps that ran, in their order

vars == <<definition, report, results, ran>>

Branching == {"conditional", "parallel"}

(* The steps that are in a step: those of its branches, or a loop's body. *)
Nested(step) ==
    IF step.type \in Branching
    THEN FlattenSeq([i \in DOMAIN step.branches |-> step.branches[i].steps])
    ELSE IF step.type = "loop" THEN step.loop ELSE <<>>

-----------------------------------------------------------------------------
(* The validator. *)

(* A step and the steps in it, in the order in which walk comes to them. *)
RECURSIVE Walk(_)
Walk(steps) ==
    FlattenSeq([i \in DOMAIN steps |-> <<steps[i]>> \o Walk(Nested(steps[i]))])

Repeats(names) == \E i, j \in DOMAIN names : i < j /\ names[i] = names[j]

StepErrors(d) ==
    LET all == Walk(d.steps)
    IN  (IF Repeats([i \in DOMAIN all |-> all[i].id]) THEN {"duplicate_step_id"} ELSE {})
          \cup UNION {
            (IF all[i].id = "" THEN {"empty_step_id"} ELSE {})
              \cup (IF ~all[i].filled THEN {"missing_required_field"} ELSE {})
              \cup (IF all[i].type \in Branching /\ all[i].branches = <<>> THEN {"no_branches"} ELSE {})
              \cup (IF all[i].type \in Branching
                         /\ Repeats([j \in DOMAIN all[i].branches |-> all[i].branches[j].name])
                    THEN {"duplicate_branch_name"} ELSE {})
            : i \in DOMAIN all}

Ids(steps) == [i \in DOMAIN steps |-> steps[i].id]

(* The graph of the top level, a step of an id that is used twice being the  *)
(* last with that id.                                                        *)
Needs(d) ==
    [id \in Range(Ids(d.steps)) |->
        d.steps[Max({i \in DOMAIN d.steps : d.steps[i].id = id})].needs]

(* Two steps of one id are an error already, whatever their graph is.        *)
GraphErrors(d) ==
    LET order == Ids(d.steps)
    IN  (IF BadReferences(order, Needs(d)) # {} THEN {"invalid_dependency"} ELSE {})
          \cup (IF ~Repeats(order) /\ HasCycle(order, Needs(d)) THEN {"cycle"} ELSE {})

NameErrors(items, duplicate, empty) ==
    (IF Repeats(items) THEN {duplicate} ELSE {})
      \cup (IF \E i \in DOMAIN items : items[i] = "" THEN {empty} ELSE {})

(* An output's source is empty (a warning), names a step, or is something    *)
(* else, which is not looked at.                                             *)
OutputErrors(d) ==
    NameErrors([i \in DOMAIN d.outputs |-> d.outputs[i].name], "duplicate_output", "empty_output")
      \cup (IF \E i \in DOMAIN d.outputs :
                  d.outputs[i].source.of = "step" /\ d.outputs[i].source.id \notin Range(Ids(d.steps))
            THEN {"invalid_output_source"} ELSE {})

Errors(d) ==
    (IF d.id = "" THEN {"empty_id"} ELSE {})
      \cup (CASE d.version = "" -> {"empty_version"}
              [] d.version = "1.0" -> {"invalid_version"}
              [] OTHER -> {})
      \cup (IF d.steps = <<>> THEN {"no_steps"} ELSE {})
      \cup StepErrors(d) \cup GraphErrors(d)
      \cup NameErrors(d.inputs, "duplicate_input", "empty_input") \cup OutputErrors(d)

Valid == report = {}

-----------------------------------------------------------------------------
Init ==
    /\ definition \in Definitions
    /\ report = {"none"} /\ results = {} /\ ran = <<>>

Validate ==
    /\ report = {"none"} /\ report' = Errors(definition)
    /\ UNCHANGED <<definition, results, ran>>

(* The engine takes a step that has a result for done.                       *)
Runs(step, done) == IF step.id \in done THEN <<>> ELSE <<step.id>>

(* A step and what is nested in it: of a conditional one branch or none, of  *)
(* the others all, in turn.                                                  *)
Executed(step, done, taken) ==
    LET inner == IF step.type # "conditional" THEN Nested(step)
                 ELSE IF taken = 0 THEN <<>> ELSE step.branches[taken].steps
        seen == [i \in 0..Len(inner) |-> done \cup {inner[j].id : j \in 1..i}]
    IN  FlattenSeq([i \in DOMAIN inner |-> Runs(inner[i], seen[i - 1])]) \o
            Runs(step, seen[Len(inner)])

(* A published definition is run, one ready step after the other. *)
RunStep(id) ==
    /\ Valid
    /\ id \in Range(ReadySteps(Ids(definition.steps), Needs(definition), results))
    /\ \E i \in DOMAIN definition.steps :
          LET step == definition.steps[i]
          IN  /\ step.id = id
              /\ \E taken \in 0..(IF step.type = "conditional" THEN Len(step.branches) ELSE 0) :
                    LET steps == Executed(step, results, taken)
                    IN  ran' = ran \o steps /\ results' = results \cup Range(steps) \cup {id}
    /\ UNCHANGED <<definition, report>>

Next == Validate \/ \E id \in Range(Ids(definition.steps)) : RunStep(id)

-----------------------------------------------------------------------------
(* ValidMeansRunnable: a definition without errors runs to its end, however  *)
(* its steps are ordered and whatever its branches choose: no step of the    *)
(* top level is left waiting, each step that is reached has a result of its  *)
(* own, whether it is nested or not, and when the run is over the steps that *)
(* its outputs name have run.                                                *)
ValidMeansRunnable ==
    LET top == Range(Ids(definition.steps))
        Reached(step) == {step.id} \cup
            (IF step.type = "conditional" THEN {} ELSE Range(Ids(Nested(step))))
        Inside(step) == IF step.type = "conditional" THEN 0 ELSE Len(Nested(step))
    IN  Valid =>
        /\ definition.id # "" /\ definition.steps # <<>>
        /\ IsInjective(ran) /\ Range(ran) = results
        /\ \A i \in DOMAIN definition.steps :
             definition.steps[i].id \in results => Reached(definition.steps[i]) \subseteq results
        /\ ReadySteps(Ids(definition.steps), Needs(definition), results) = <<>> =>
             /\ top \subseteq results
             /\ \A i \in DOMAIN definition.outputs :
                  definition.outputs[i].source.of = "step" =>
                      definition.outputs[i].source.id \in results
             /\ Cardinality(top) = Len(definition.steps)
             /\ Len(ran) >= FoldLeft(LAMBDA n, s : n + 1 + Inside(s), 0, definition.steps)
=============================================================================
