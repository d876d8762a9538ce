---------------------------- MODULE WorkflowGraph ----------------------------
(***************************************************************************)
(* The pure queries of src/app/automation/graph.py on a workflow DAG.      *)
(*                                                                         *)
(* A graph is its steps in declaration order (a sequence without           *)
(* duplicates, step ids are unique once validated) and, for each step, the *)
(* set of ids it depends on.  An id that is not a step may be referenced:  *)
(* the graph is built before validate_references is asked.                 *)
(***************************************************************************)
EXTENDS Integers, Sequences, FiniteSets, SequencesExt

(* The members of `chosen`, in the order of declaration. *)
Kept(order, chosen) ==
    LET kept[i \in 0..Len(order)] ==
            IF i = 0 THEN <<>>
            ELSE IF order[i] \in chosen THEN Append(kept[i - 1], order[i]) ELSE kept[i - 1]
    IN  kept[Len(order)]

(* WorkflowGraph.dependents: the steps that name `node`. *)
Dependents(order, deps, node) == {step \in Range(order) : node \in deps[step]}

(* One iteration of the Kahn loop: emit `node`, release its dependents. *)
Relax(order, deps, st, node) ==
    LET freed  == Dependents(order, deps, node)
        degree == [step \in DOMAIN st.inDegree |->
                      IF step \in freed THEN st.inDegree[step] - 1 ELSE st.inDegree[step]]
    IN  [inDegree |-> degree,
         ready    |-> st.ready \o Kept(order, {step \in freed : degree[step] = 0})]

(* Kahn's algorithm.  The `ready` list is both the work list, read at       *)
(* ready_index, and, once drained, the emitted order.                       *)
KahnOrder(order, deps) ==
    LET start == [inDegree |-> [s \in Range(order) |-> Cardinality(deps[s])],
                  ready    |-> Kept(order, {s \in Range(order) : deps[s] = {}})]
        kahn[i \in 0..Len(order)] ==
            IF i = 0 THEN start
            ELSE IF i > Len(kahn[i - 1].ready) THEN kahn[i - 1]
            ELSE Relax(order, deps, kahn[i - 1], kahn[i - 1].ready[i])
    IN  kahn[Len(order)].ready

(* topological_order raises WorkflowValidationError exactly when HasCycle. *)
HasCycle(order, deps) == Len(KahnOrder(order, deps)) # Len(order)

(* The steps named in the error raised by topological_order. *)
CycleNodes(order, deps) == Range(order) \ Range(KahnOrder(order, deps))

(* Mutation: one completed dependency is enough. *)
ReadyOnAny(order, deps, completed) ==
    Kept(order, {s \in Range(order) : /\ s \notin completed
                                      /\ deps[s] = {} \/ deps[s] \cap completed # {}})

(* ready_steps: not completed, every dependency completed, in order. *)
ReadySteps(order, deps, completed) ==
    Kept(order, {s \in Range(order) : s \notin completed /\ deps[s] \subseteq completed})

(* validate_references: pairs that an error message is reported for. *)
BadReferences(order, deps) ==
    {bad \in Range(order) \X UNION {deps[s] : s \in Range(order)} :
        bad[2] \in deps[bad[1]] /\ bad[2] \notin Range(order) \ {bad[1]}}

-----------------------------------------------------------------------------
(* Reference definitions the algorithms are compared with. *)

(* No non-empty set of steps in which each waits for another of the set. *)
WellFounded(steps, deps) ==
    \A S \in (SUBSET steps) \ {{}} : \E s \in S : deps[s] \cap S = {}

(* A permutation of the steps in which each follows its dependencies. *)
IsTopological(order, deps, out) ==
    /\ IsInjective(out)
    /\ Range(out) = Range(order)
    /\ \A i \in DOMAIN out : deps[out[i]] \subseteq {out[j] : j \in 1..(i - 1)}
=============================================================================
