--------------------------- MODULE WorkflowNesting ---------------------------
(***************************************************************************)
(* Steps inside steps: a conditional, loop or parallel step of             *)
(* src/app/automation/executor.py and the steps of its branches or body,   *)
(* in a wave with one other step.  All of them share the engine's state:   *)
(* the set of completed ids and the list of executions.                    *)
(***************************************************************************)
EXTENDS Integers, Sequences, FiniteSets, SequencesExt

CONSTANTS
    Branches,   (* the steps of each branch of a conditional or parallel step *)
    Body,       (* the steps of the loop                                      *)
    MaxItems,   (* bound: iterations of the loop                              *)
    Approvals,  (* nested steps that ask for an approval                      *)
    Retries     (* retries of the outer step                                  *)

Nested == ToSet(Body) \cup UNION {ToSet(Branches[b]) : b \in DOMAIN Branches}

(* What the validator demands of a definition before it is published: a step *)
(* that branches has branches, and no id is used more than once.             *)
NestingAssumption ==
    /\ Branches \in Seq(Seq(STRING)) /\ Branches # <<>> /\ Body \in Seq(STRING)
    /\ \A a, b \in DOMAIN Branches : a # b => ToSet(Branches[a]) \cap ToSet(Branches[b]) = {}
    /\ {"outer", "sibling"} \cap Nested = {} /\ Approvals \subseteq Nested
    /\ MaxItems \in Nat /\ Retries \in Nat

Kinds == {"conditional", "loop", "all", "any", "none"}   (* the last three: join modes *)

VARIABLES
    kind, gated,   (* the outer step; nested steps whose condition is false   *)
    phase,         (* "ready", "running", "pausing", "failing", or how it is  *)
                   (* over: "succeeded", "skipped", "ignored"                 *)
    attempt,
    threads,       (* what the outer step awaits: one thread, or one a branch *)
    engine,        (* [completed, executions] of _EngineState                 *)
    status,        (* of the run                                              *)
    decided        (* nested approvals that have been decided                 *)

nestingVars == <<kind, gated, phase, attempt, threads, engine, status, decided>>

Init ==
    /\ kind \in Kinds /\ gated \in SUBSET Nested
    /\ phase = "ready" /\ attempt = 1 /\ threads = <<>>
    /\ engine = [completed |-> {}, executions |-> <<>>]
    /\ status = "running" /\ decided = {}

Recorded(e, step, round, outcome) ==
    [completed  |-> e.completed \cup {step},
     executions |-> Append(e.executions, [step |-> step, round |-> round, status |-> outcome])]

(* The steps of a branch or of one iteration of the loop. *)
Round(steps, n) == [i \in DOMAIN steps |-> [step |-> steps[i], round |-> n]]

(* What the outer step may await: a thread or one for each branch, and the   *)
(* rounds of each: the branch whose condition holds, if any; an iteration    *)
(* for each item until the break condition holds; all branches, or the       *)
(* first, in turn; or the branches concurrently.                             *)
Paths ==
    CASE kind = "conditional" ->
             {<<<<Round(Branches[b], 1)>>>> : b \in DOMAIN Branches} \cup {<<<<>>>>}
      [] kind = "loop" -> {<<[n \in 1..items |-> Round(Body, n)]>> : items \in 0..MaxItems}
      [] kind = "all" -> {<<[b \in DOMAIN Branches |-> Round(Branches[b], 1)]>>}
      [] kind = "any" -> {<<<<Round(Branches[1], 1)>>>>}
      [] kind = "none" -> {[b \in DOMAIN Branches |-> <<Round(Branches[b], 1)>>]}

-----------------------------------------------------------------------------
(* _execute_step, after a failed attempt of the outer step: retries, then     *)
(* the error policy.  A step that is skipped or whose failure is ignored is  *)
(* recorded, whatever of its path was left.                                  *)
AttemptFails(e) ==
    \/ /\ attempt <= Retries
       /\ phase' = "ready" /\ attempt' = attempt + 1 /\ engine' = e
    \/ /\ attempt > Retries /\ UNCHANGED attempt
       /\ \/ phase' = "failing" /\ engine' = e
          \/ phase' = "skipped" /\ engine' = Recorded(e, "outer", 1, "skipped")
          \/ phase' = "ignored" /\ engine' = Recorded(e, "outer", 1, "succeeded")

(* What follows for the outer step: branches that run concurrently have      *)
(* their exceptions collected, any other thread raises them, pauses too.     *)
Follow(e, ts) ==
    LET at == {ts[t].at : t \in DOMAIN ts}
    IN  /\ threads' = ts
        /\ IF kind # "none" /\ "fails" \in at THEN AttemptFails(e)
           ELSE IF kind # "none" /\ "pauses" \in at
           THEN phase' = "pausing" /\ engine' = e /\ UNCHANGED attempt
           ELSE IF at \cap {"moves", "runs"} # {}
           THEN phase' = "running" /\ engine' = e /\ UNCHANGED attempt
           ELSE /\ phase' = "succeeded" /\ UNCHANGED attempt
                /\ engine' = Recorded(e, "outer", 1, "succeeded")

Attempt ==
    /\ status = "running" /\ phase = "ready"
    /\ \E path \in Paths :
          Follow(engine, [t \in DOMAIN path |-> [at |-> "moves", todo |-> <<>>,
                                                rounds |-> path[t], results |-> <<>>]])
    /\ UNCHANGED <<kind, gated, status, decided>>

(* The loop of the process has come back to waiting: nothing else happens    *)
(* before every thread is at a step that is awaited, or at its end.          *)
Awaiting == \A t \in DOMAIN threads : threads[t].at # "moves"

(* Mutation: a step that was skipped does not count as completed. *)
HasSucceeded(step) ==
    \E e \in ToSet(engine.executions) : e.step = step /\ e.status = "succeeded"

IsCompleted(step) == step \in engine.completed

(* _run_nested_steps and _execute_step, up to the next step that is awaited; *)
(* the threads start in the order of their branches.  A completed step is    *)
(* not run: _execute_step answers with the last execution of the list.  A    *)
(* step whose condition is false is recorded as skipped.                     *)
Move(t) ==
    LET thread == threads[t]
        next == Head(thread.todo)
        last == Last(engine.executions)
        Goes(e, moved) == Follow(e, [threads EXCEPT ![t] = moved])
    IN  /\ phase = "running" /\ thread.at = "moves"
        /\ \A u \in DOMAIN threads : u < t => threads[u].at # "moves"
        /\ \/ /\ thread.todo = <<>> /\ thread.rounds = <<>>
              /\ Goes(engine, [thread EXCEPT !.at = "done"])
           \/ /\ thread.todo = <<>> /\ thread.rounds # <<>>
              /\ Goes(engine, [thread EXCEPT !.todo = Head(thread.rounds), !.rounds = Tail(@)])
           \/ /\ thread.todo # <<>> /\ IsCompleted(next.step)
              /\ Goes(engine, [thread EXCEPT !.todo = Tail(@),
                                   !.results = IF last.status = "succeeded"
                                               THEN Append(@, [of |-> next, is |-> last]) ELSE @])
           \/ /\ thread.todo # <<>> /\ ~IsCompleted(next.step) /\ next.step \in gated
              /\ Goes(Recorded(engine, next.step, next.round, "skipped"), [thread EXCEPT !.todo = Tail(@)])
           \/ /\ thread.todo # <<>> /\ ~IsCompleted(next.step) /\ next.step \notin gated
              /\ Goes(engine, [thread EXCEPT !.at = "runs"])
        /\ UNCHANGED <<kind, gated, status, decided>>

(* What the collaborator of a leaf step does, and what of it the step takes  *)
(* for a failure: a tool's failed result, but neither a failed agent session *)
(* nor a failed child run, whose response and outputs are returned.          *)
Answers ==
    [task |-> {"result", "failed", "nothing", "exception"}, agent |-> {"result", "failed", "exception"},
     llm |-> {"result", "exception"}, subworkflow |-> {"result", "failed", "exception"},
     callback |-> {"result", "exception"}, transform |-> {"result", "exception"}, delay |-> {"result"}]

LeafFails(type, answer) ==
    answer = "exception" \/ (type = "task" /\ answer \in {"failed", "nothing"})

(* What _execute_step makes of it after the last retry: an ignored failure   *)
(* is a success.                                                             *)
Outcomes ==
    UNION {{IF ~LeafFails(type, answer) \/ policy = "ignore" THEN "succeeded"
            ELSE IF policy = "skip" THEN "skipped" ELSE "fails"
              : answer \in Answers[type], policy \in {"fail", "skip", "ignore"}} : type \in DOMAIN Answers}

(* A nested step ends: with success, skipped after a failure, or with an     *)
(* exception; an approval that is not decided pauses instead.                *)
NestedEnds(t, outcome) ==
    LET thread == threads[t]
        next == Head(thread.todo)
        Goes(e, moved) == Follow(e, [threads EXCEPT ![t] = moved])
        result == [of |-> next, is |-> [step |-> next.step, round |-> next.round, status |-> outcome]]
    IN  /\ phase = "running" /\ thread.at = "runs" /\ Awaiting
        /\ IF next.step \in Approvals \ decided THEN Goes(engine, [thread EXCEPT !.at = "pauses"])
           ELSE IF outcome = "fails" THEN Goes(engine, [thread EXCEPT !.at = "fails"])
           ELSE Goes(Recorded(engine, next.step, next.round, outcome),
                     [thread EXCEPT !.at = "moves", !.todo = Tail(@),
                          !.results = IF outcome = "succeeded" THEN Append(@, result) ELSE @])
        /\ UNCHANGED <<kind, gated, status, decided>>

(* The timeout of the outer step cancels what it awaits. *)
OuterTimesOut ==
    /\ phase = "running" /\ Awaiting
    /\ AttemptFails(engine)
    /\ threads' = <<>> /\ UNCHANGED <<kind, gated, status, decided>>

(* The other step of the wave. *)
SiblingEnds ==
    /\ status = "running" /\ "sibling" \notin engine.completed /\ Awaiting
    /\ engine' = Recorded(engine, "sibling", 1, "succeeded")
    /\ UNCHANGED <<kind, gated, phase, attempt, threads, status, decided>>

(* run, after the wave: the run goes on with a step that is over. *)
Over == {"succeeded", "skipped", "ignored"}

WaveEnds ==
    /\ status = "running" /\ phase \in {"pausing", "failing"} \cup Over
    /\ "sibling" \in engine.completed
    /\ status' = CASE phase = "pausing" -> "waiting"
                   [] phase = "failing" -> "failed"
                   [] phase \in Over -> "succeeded"
    /\ threads' = IF phase = "succeeded" THEN threads ELSE <<>>
    /\ UNCHANGED <<kind, gated, phase, attempt, engine, decided>>

Decide(step) ==
    /\ status = "waiting" /\ step \in Approvals \ decided
    /\ decided' = decided \cup {step}
    /\ UNCHANGED <<kind, gated, phase, attempt, threads, engine, status>>

(* run, called again: what is completed is restored from the executions. *)
Resume ==
    /\ status = "waiting"
    /\ engine' = [engine EXCEPT !.completed = {e.step : e \in ToSet(engine.executions)}]
    /\ status' = "running" /\ phase' = "ready" /\ attempt' = 1
    /\ UNCHANGED <<kind, gated, threads, decided>>

Next ==
    \/ Attempt \/ OuterTimesOut \/ SiblingEnds \/ WaveEnds \/ Resume
    \/ \E t \in DOMAIN threads :
          Move(t) \/ \E outcome \in Outcomes : NestedEnds(t, outcome)
    \/ \E step \in Approvals : Decide(step)

Spec == Init /\ [][Next]_nestingVars

-----------------------------------------------------------------------------
(* Through retries of the outer step, pauses and resumes, a nested step is   *)
(* executed to an end at most once and the completed ids are exactly those   *)
(* with an execution.  Once the outer step is recorded none of its nested    *)
(* steps is under way, also when its failure was skipped or ignored; unless  *)
(* it was, or its branches run concurrently, every step of its path is       *)
(* completed; and every approval that was passed had been decided or gone    *)
(* past by the step's own policy.                                            *)
NestedOnce ==
    /\ IsInjective([i \in DOMAIN engine.executions |-> engine.executions[i].step])
    /\ engine.completed = {e.step : e \in ToSet(engine.executions)}
    /\ "outer" \in engine.completed =>
          \A t \in DOMAIN threads : threads[t].at \notin {"moves", "runs"}
    /\ phase = "succeeded" /\ kind # "none" =>
          \A t \in DOMAIN threads :
             threads[t].at = "done" /\ threads[t].todo = <<>> /\ threads[t].rounds = <<>>
    /\ \A e \in ToSet(engine.executions) :
          e.step \in Approvals => e.step \in decided \/ e.status = "skipped"

(* "Iterate over a resolved iterable, running loop steps per item": what a   *)
(* loop returns for a step of an iteration is what that step answered in     *)
(* that iteration.                                                           *)
ResultsAreOwn ==
    kind = "loop" =>
        \A t \in DOMAIN threads : \A r \in ToSet(threads[t].results) :
            r.is.step = r.of.step /\ r.is.round = r.of.round
=============================================================================
