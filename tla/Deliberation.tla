----------------------------- MODULE Deliberation -----------------------------
(***************************************************************************)
(* Reasoning and reflection of src/app/kernel: a strategy makes a trace of *)
(* a problem, a refinement adds to it, and the modes of reflection judge   *)
(* an output together with its trace.                                      *)
(*                                                                         *)
(* Of a text only what is counted is kept: the words of the problem, the   *)
(* steps of the trace, the terms that contradict each other.  Scores are   *)
(* hundredths.                                                             *)
(***************************************************************************)
EXTENDS Integers, Sequences, FiniteSets, FiniteSetsExt, SequencesExt

CONSTANTS
    MaxProblem,     \* bound: words of a problem
    MaxRefinements  \* bound: refinements of a trace

VARIABLES
    problem,      \* ReasoningRequest: words, and whether it has context and constraints
    registered,   \* ReasoningEngine._strategies
    trace,        \* ReasoningTrace; no steps before
    refinements,  \* how often it was refined
    report        \* ReflectionReport; verdict "none" before

vars == <<problem, registered, trace, refinements, report>>

NoTrace == [steps |-> <<>>, cost |-> 0, conclusion |-> FALSE]
NoReport == [verdict |-> "none", score |-> 0, errors |-> 0, mode |-> "none", output |-> FALSE]

Simple == [words |-> 0, context |-> FALSE, constraints |-> FALSE]

Init ==
    /\ problem \in [words : 0..MaxProblem, context : BOOLEAN, constraints : BOOLEAN]
    /\ registered = {"chain_of_thought", "decomposition"}
    /\ trace = NoTrace /\ refinements = 0 /\ report = NoReport

-----------------------------------------------------------------------------
(* The strategies.  A step is its type and, of a sub-problem, its words. *)
Step(type) == [type |-> type, words |-> 0]

ChainOfThought ==
    <<Step("think")>>
      \o (IF problem.context THEN <<Step("observe")>> ELSE <<>>)
      \o (IF problem.constraints THEN <<Step("evaluate")>> ELSE <<>>)
      \o <<Step("think"), Step("act")>>

ChunkSize ==
    IF problem.words > 3 THEN Max({1, problem.words \div 3}) ELSE problem.words

(* A range over no words has no step, which raises. *)
Decomposes == problem.words > 0

Decomposition ==
    LET size == ChunkSize
        pieces == (problem.words + size - 1) \div size
        Words(i) == Min({size, problem.words - (i - 1) * size})
    IN  <<Step("think")>>
          \o [i \in 1..pieces |-> [type |-> "think", words |-> Words(i)]]
          \o <<Step("act")>>

Fallback == <<Step("think"), Step("act")>>

(* A strategy that is not registered is replaced by the fallback. *)
Traced(strategy) ==
    LET steps == IF strategy \notin registered THEN Fallback
                 ELSE IF strategy = "decomposition" THEN Decomposition
                 ELSE ChainOfThought
    IN  [steps |-> steps, cost |-> 10 * Len(steps), conclusion |-> TRUE]

-----------------------------------------------------------------------------
(* The modes of reflection: the number of errors and the score, of an output *)
(* that is given or not.                                                     *)
Count == Len(trace.steps)

Verdict(score, errors) ==
    IF errors = 0 /\ score >= 80 THEN "pass"
    ELSE IF score >= 40 THEN "needs_review"
    ELSE "fail"

Completeness(output) ==
    LET plain == CASE ~output -> 0
                   [] output /\ Count >= 5 -> 100
                   [] output /\ Count \in 3..4 -> 80
                   [] output /\ Count \in 1..2 -> 60
                   [] OTHER -> 30
    IN  IF trace.conclusion THEN Min({100, plain + 10}) ELSE plain

Structure == IF Count >= 3 THEN 100 ELSE IF Count >= 1 THEN 50 ELSE 0

Basic(output) ==
    [errors |-> IF output /\ Count >= 3 THEN 0 ELSE 1,
     score |-> (Completeness(output) + Structure) \div 2]

Consistency(contradictions, gaps) ==
    [errors |-> contradictions + gaps,
     score |-> ((100 - Min({50, 20 * contradictions})) + (100 - Min({30, 10 * gaps}))) \div 2]

(* Weights of ten, eight, six and six; relevance is a hundred without a      *)
(* context and the share of its keys that are referred to with one.  What is *)
(* exactly 80 comes out just below it in floating point.                     *)
Quality(output, wordy, relevance) ==
    LET correctness == CASE trace.conclusion /\ output  -> 100
                         [] trace.conclusion /\ ~output -> 70
                         [] ~trace.conclusion /\ output -> 50
                         [] OTHER                       -> 20
        completeness == CASE Count >= 5 /\ output -> 100
                          [] Count >= 3 /\ ~(Count >= 5 /\ output) -> 70
                          [] Count \in 1..2 -> 40
                          [] OTHER -> 10
        clarity == IF Count = 0 THEN 0 ELSE IF wordy THEN 100 ELSE 50
        sum == 10 * correctness + 8 * completeness + 6 * clarity + 6 * relevance
    IN  [errors |-> IF trace.conclusion THEN 0 ELSE 1,
         score |-> IF sum = 2400 THEN 79 ELSE sum \div 30]

Passing == [errors |-> 0, score |-> 100]

(* Contradicting terms and steps that share no word are what the texts of    *)
(* the steps bring.                                                          *)
Judgements(mode, output) ==
    CASE mode = "fallback" -> {Passing}
      [] mode = "basic" -> {Basic(output)}
      [] mode = "consistency" ->
            {Consistency(c, g) : c \in (IF Count = 0 THEN {0} ELSE 0..3),
                                 g \in 0..Max({0, Count - 1})}
      [] mode = "quality" -> {Quality(output, w, r) : w \in BOOLEAN, r \in {0, 50, 100}}

-----------------------------------------------------------------------------
Unregister(strategy) ==
    /\ trace = NoTrace /\ strategy \in registered
    /\ registered' = registered \ {strategy}
    /\ UNCHANGED <<problem, trace, refinements, report>>

Reason(strategy) ==
    /\ trace = NoTrace /\ report = NoReport
    /\ strategy = "decomposition" /\ strategy \in registered => Decomposes
    /\ trace' = Traced(strategy)
    /\ UNCHANGED <<problem, registered, refinements, report>>

(* A new trace with one step more, and five tokens for it. *)
Refine ==
    /\ trace # NoTrace /\ refinements < MaxRefinements
    /\ trace' = [trace EXCEPT !.steps = Append(@, Step("evaluate")), !.cost = @ + 5]
    /\ refinements' = refinements + 1
    /\ report' = NoReport
    /\ UNCHANGED <<problem, registered>>

(* Without a trace too: a stage that failed before has left none. *)
Evaluate(mode, output) ==
    /\ report = NoReport
    /\ \E judgement \in Judgements(mode, output) :
          report' = [verdict |-> Verdict(judgement.score, judgement.errors),
                     score |-> judgement.score, errors |-> judgement.errors,
                     mode |-> mode, output |-> output]
    /\ UNCHANGED <<problem, registered, trace, refinements>>

Next ==
    \/ \E strategy \in {"chain_of_thought", "decomposition", "reflexive"} :
          Reason(strategy) \/ Unregister(strategy)
    \/ Refine
    \/ \E mode \in {"fallback", "basic", "consistency", "quality"}, output \in BOOLEAN :
          Evaluate(mode, output)

-----------------------------------------------------------------------------
(* DeliberationSound: the sub-problems of a problem are the whole problem,   *)
(* in at most five pieces; a trace costs ten for each step it was made with  *)
(* and five for each that refined it; no report with an error is a pass, and *)
(* the mode that judges completeness passes every output that has the        *)
(* engine's own chain of thought and none that is missing.                   *)
DeliberationSound ==
    LET pieces == {i \in DOMAIN trace.steps : trace.steps[i].words > 0}
    IN  /\ pieces # {} =>
             /\ Cardinality(pieces) <= 5
             /\ FoldLeft(LAMBDA sum, s : sum + s.words, 0, trace.steps) = problem.words
        /\ trace.cost = 10 * (Count - refinements) + 5 * refinements
        /\ report.verdict = "pass" => report.errors = 0
        /\ report.mode \in {"basic", "quality"} =>
             /\ report.verdict = "pass" /\ report.mode = "basic" => report.output
             /\ report.verdict = "fail" => ~report.output \/ Count < 3
        /\ report.mode = "basic" /\ report.output /\ Count >= 3 => report.verdict = "pass"
=============================================================================
