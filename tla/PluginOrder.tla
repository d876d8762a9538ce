------------------------------ MODULE PluginOrder ------------------------------
(***************************************************************************)
(* The three orders in which plugins are loaded: resolve_load_order and    *)
(* _sort_by_deps of src/app/plugins/manager.py, and _resolve_load_order of *)
(* src/app/core/plugins/plugin_loader.py.  `order` is the sequence of the  *)
(* discovered plugins and deps[p] the names p depends on, visited in an    *)
(* order that is the same each time.                                       *)
(***************************************************************************)
EXTENDS WorkflowGraph, SequencesExt

CONSTANT DepthLimit   (* the longest chain of dependencies that is followed *)

(* A search: what is emitted, on the stack, or over; and why it was given up. *)
Start == [order |-> <<>>, visited |-> {}, visiting |-> {}, error |-> "none"]

Raised(s, error) == [s EXCEPT !.error = error]

(* Where a plugin counts as visited as soon as its visit begins. *)
VisitsMarkedEarly(s, name) == [s EXCEPT !.visited = @ \cup {name}]

Enters(s, name) == [s EXCEPT !.visiting = @ \cup {name}]

Leaves(s, name) ==
    [s EXCEPT !.visiting = @ \ {name}, !.visited = @ \cup {name}, !.order = Append(@, name)]

RECURSIVE Visit(_, _, _, _, _)

(* resolve_load_order: unknown names, cycles and deep chains are refused. *)
Visit(known, deps, s, name, depth) ==
    IF s.error # "none" THEN s
    ELSE IF depth > DepthLimit THEN Raised(s, "deep")
    ELSE IF name \notin known THEN Raised(s, "unknown")
    ELSE IF name \in s.visited THEN s
    ELSE IF name \in s.visiting THEN Raised(s, "circular")
    ELSE LET t == FoldLeft(LAMBDA u, d : Visit(known, deps, u, d, depth + 1),
                           Enters(s, name), SetToSeq(deps[name]))
         IN  IF t.error = "none" THEN Leaves(t, name) ELSE t

ManagerOrder(order, deps) ==
    FoldLeft(LAMBDA s, name : IF name \in s.visited THEN s ELSE Visit(Range(order), deps, s, name, 0),
             Start, order)

RECURSIVE CoreVisit(_, _, _, _)

(* The core loader marks a plugin when its visit begins, so that a cycle is  *)
(* not noticed.  Unknown names were refused before.                          *)
CoreVisit(deps, s, name, depth) ==
    IF s.error # "none" THEN s
    ELSE IF depth > DepthLimit THEN Raised(s, "deep")
    ELSE IF name \in s.visited THEN s
    ELSE LET t == FoldLeft(LAMBDA u, d : IF d \in u.visited THEN u ELSE CoreVisit(deps, u, d, depth + 1),
                           VisitsMarkedEarly(s, name), SetToSeq(deps[name]))
         IN  IF t.error = "none" THEN Leaves(t, name) ELSE t

CoreOrder(order, deps) ==
    IF \E p \in Range(order) : ~(deps[p] \subseteq Range(order)) THEN Raised(Start, "unknown")
    ELSE FoldLeft(LAMBDA s, name : IF name \in s.visited THEN s ELSE CoreVisit(deps, s, name, 0),
                  Start, order)

RECURSIVE SortVisit(_, _, _, _)

(* _sort_by_deps follows known names alone and nothing stops it on a cycle.  *)
SortVisit(known, deps, s, name) ==
    IF name \in s.visited THEN s
    ELSE Leaves(FoldLeft(LAMBDA u, d : SortVisit(known, deps, u, d), s, SetToSeq(deps[name] \cap known)),
                name)

SortOrder(order, deps) ==
    FoldLeft(LAMBDA s, name : SortVisit(Range(order), deps, s, name), Start, order)

-----------------------------------------------------------------------------
(* The longest chain of dependencies that starts at p, in an acyclic graph.  *)
ChainLength(known, deps, p) ==
    LET reach[k \in 0..Cardinality(known)] ==
            IF k = 0 THEN {p} ELSE UNION {deps[q] \cap known : q \in reach[k - 1]}
    IN  Max({k \in 0..Cardinality(known) : reach[k] # {}})

(* The manager's order is complete and puts dependencies first, and it is    *)
(* refused only for an unknown name, a cycle, or a chain past the limit; the *)
(* core's order, where there is one, is complete and differs from a          *)
(* topological one only on a cycle; _sort_by_deps, which must not be asked   *)
(* about cycles, sorts whatever is known.                                    *)
OrdersSound(order, deps) ==
    LET known   == Range(order)
        manager == ManagerOrder(order, deps)
        core    == CoreOrder(order, deps)
        within  == [p \in known |-> deps[p] \cap known]
        sound   == WellFounded(known, deps) /\ BadReferences(order, deps) = {}
    IN  /\ manager.error = "none" => sound /\ IsTopological(order, deps, manager.order)
        /\ manager.error = "circular" => ~WellFounded(known, deps)
        /\ manager.error = "unknown" => \E p \in known : ~(deps[p] \subseteq known)
        /\ manager.error = "deep" =>
              ~sound \/ \E p \in known : ChainLength(known, deps, p) > DepthLimit
        /\ core.error = "none" =>
              /\ IsInjective(core.order) /\ Range(core.order) = known
              /\ sound => IsTopological(order, deps, core.order)
        /\ WellFounded(known, within) => IsTopological(order, within, SortOrder(order, deps).order)
=============================================================================
