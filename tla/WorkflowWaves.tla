--------------------------- MODULE WorkflowWaves ---------------------------
(***************************************************************************)
(* A workflow of N steps, with any dependencies, and the loop of an engine *)
(* that runs the steps that are ready, wave by wave, until there are none. *)
(***************************************************************************)
EXTENDS WorkflowGraph

CONSTANTS N,        (* number of steps, declared in the order 1..N *)
          Unknown   (* an id that no step of the workflow has      *)

WavesAssumption == N \in Nat \ {0} /\ Unknown \notin 1..N

Order == [i \in 1..N |-> i]

VARIABLES deps,       (* step -> ids it depends on    *)
          completed   (* steps that an engine has run *)

graphVars == <<deps, completed>>

Init == /\ deps \in [1..N -> SUBSET (1..N \cup {Unknown})]
        /\ completed = {}

NextWave ==
    LET wave == ReadySteps(Order, deps, completed)
    IN  /\ wave # <<>>
        /\ completed' = completed \cup Range(wave)
        /\ UNCHANGED deps

Next == NextWave

Spec == Init /\ [][Next]_graphVars

-----------------------------------------------------------------------------
(* topological_order succeeds exactly on graphs that are well founded and   *)
(* that validate_references accepts: Kahn's in-degree bookkeeping loses     *)
(* nothing, and a dangling reference that slips past is not sorted either.  *)
SortsExactlyAcyclic ==
    HasCycle(Order, deps) <=>
        ~WellFounded(1..N, deps) \/ BadReferences(Order, deps) # {}

(* What topological_order returns is a topological order, stable for steps  *)
(* that are ready together at the start (graph.py promises input order).    *)
ReturnsTopologicalOrder ==
    ~HasCycle(Order, deps) =>
        LET out == KahnOrder(Order, deps)
        IN  /\ IsTopological(Order, deps, out)
            /\ \A i, j \in 1..N :
                 (i < j /\ deps[out[i]] = {} /\ deps[out[j]] = {}) => out[i] < out[j]

(* The steps the error names are exactly those an engine never comes to run *)
(* however many waves it takes.                                              *)
CycleNodesNeverRun ==
    /\ CycleNodes(Order, deps) \cap completed = {}
    /\ ReadySteps(Order, deps, completed) = <<>> =>
          1..N \ completed = CycleNodes(Order, deps)

GraphSound == SortsExactlyAcyclic /\ ReturnsTopologicalOrder /\ CycleNodesNeverRun
=============================================================================
