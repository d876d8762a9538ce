-------------------------- MODULE WorkflowDefinitions --------------------------
(***************************************************************************)
(* The versions of one workflow: the in-memory registry of                 *)
(* src/app/automation/registries.py, the store behind it, and the          *)
(* operations of the service and of plugins on them.  Each runs under the  *)
(* service's lock; the process may die and start again between any two of  *)
(* its writes, of which only the one to the store lasts.                   *)
(***************************************************************************)
EXTENDS Integers, FiniteSets, FiniteSetsExt

CONSTANTS
    Versions,      (* a set of numbers: the order of the version strings      *)
    MaxRevisions   (* bound: contents a client comes up with                  *)

None == [version |-> 0, revision |-> 0, status |-> "none"]

VARIABLES
    versions,   (* _versions: version -> definition                           *)
    current,    (* _published: the definition runs without a version use      *)
    stored,     (* the store's document                                       *)
    provided,   (* what the plugin manager recorded of workflow plugins       *)
    apart,      (* history: versions in which a plugin has made the registry  *)
                (* and the store differ                                       *)
    revision    (* history: contents made so far                              *)

definitionVars == <<versions, current, stored, provided, apart, revision>>

Init ==
    /\ versions = [v \in {} |-> None] /\ stored = [v \in {} |-> None]
    /\ current = None /\ provided = {} /\ apart = {} /\ revision = 0

With(f, d)     == [v \in DOMAIN f \cup {d.version} |-> IF v = d.version THEN d ELSE f[v]]
Without(f, vs) == [v \in DOMAIN f \ vs |-> f[v]]

IsPublished(v) == v \in DOMAIN versions /\ versions[v].status = "published"

New(v, status) == [version |-> v, revision |-> revision + 1, status |-> status]

Drafts == revision < MaxRevisions /\ revision' = revision + 1

(* Mutation: a published version may be registered again. *)
RegisterAlways(d) ==
    versions' = With(versions, d) /\ UNCHANGED current

(* register: published versions are immutable. *)
Register(d) ==
    /\ ~IsPublished(d.version)
    /\ versions' = With(versions, d) /\ UNCHANGED current

(* create_definition.  The status is the client's: a definition may arrive   *)
(* as published, and then is not validated nor made the current one.         *)
Create(v, status) ==
    /\ Drafts
    /\ Register(New(v, status))
    /\ stored' = With(stored, New(v, status))
    /\ apart' = apart \ {v}
    /\ UNCHANGED provided

(* A plugin registers its workflow with the registry alone. *)
PluginRegisters(v) ==
    /\ Drafts
    /\ Register(New(v, "draft"))
    /\ provided' = provided \cup {v} /\ apart' = apart \cup {v}
    /\ UNCHANGED stored

(* publish_definition, of a definition that passes validation. *)
Publish(v) ==
    /\ v \in DOMAIN versions
    /\ LET published == [versions[v] EXCEPT !.status = "published"]
       IN  /\ versions' = With(versions, published) /\ current' = published
           /\ stored' = With(stored, published)
    /\ apart' = apart \ {v}
    /\ UNCHANGED <<provided, revision>>

(* delete_definition of one version: a published one is refused. *)
DeleteVersion(v) ==
    /\ v \in DOMAIN versions /\ ~IsPublished(v)
    /\ versions' = Without(versions, {v}) /\ stored' = Without(stored, {v})
    /\ apart' = apart \ {v}
    /\ UNCHANGED <<current, provided, revision>>

(* delete_definition of the workflow: published versions go as well. *)
DeleteAll ==
    /\ DOMAIN versions # {}
    /\ versions' = Without(versions, Versions) /\ stored' = Without(stored, Versions)
    /\ current' = None /\ apart' = {}
    /\ UNCHANGED <<provided, revision>>

(* The plugin is unloaded: the manager unregisters the workflow by its id    *)
(* alone, which takes every version of it out of the registry, clients' and  *)
(* published ones as well, and leaves the store as it is.                    *)
PluginRemoves(v) ==
    /\ v \in provided /\ provided' = provided \ {v}
    /\ versions' = Without(versions, Versions) /\ current' = None
    /\ apart' = DOMAIN stored
    /\ UNCHANGED <<stored, revision>>

(* The process dies and startup() loads what is stored; which version is     *)
(* current is stored nowhere.                                                *)
Restart ==
    /\ versions' = stored /\ current' = None /\ provided' = {} /\ apart' = {}
    /\ UNCHANGED <<stored, revision>>

(* get_definition without a version. *)
Latest ==
    IF current # None THEN current
    ELSE IF DOMAIN versions # {} THEN versions[Max(DOMAIN versions)]
    ELSE IF {v \in DOMAIN stored : stored[v].status = "published"} # {}
    THEN stored[CHOOSE v \in DOMAIN stored : stored[v].status = "published"]
    ELSE IF DOMAIN stored # {} THEN stored[Max(DOMAIN stored)] ELSE None

Next ==
    \/ \E v \in Versions :
          \/ \E status \in {"draft", "published"} : Create(v, status)
          \/ PluginRegisters(v) \/ Publish(v) \/ DeleteVersion(v) \/ PluginRemoves(v)
    \/ DeleteAll \/ Restart

Spec == Init /\ [][Next]_definitionVars

-----------------------------------------------------------------------------
(* "A published version can never be replaced or removed" (WorkflowRegistry) *)
(* holds of what is stored as long as the registry has it: whatever is       *)
(* created, published, deleted and restarted, a stored version that is       *)
(* published keeps its content unless the whole workflow is deleted.  Where  *)
(* an unloaded plugin took the workflow out of the registry it does not      *)
(* hold, until the next start: the next version created under its number     *)
(* replaces the published one.  In every step the version that runs use is   *)
(* the registered one, published, and outside of what plugins did the        *)
(* registry has what the store has.                                          *)
Keeps ==
    /\ \A v \in DOMAIN stored \ apart :
          stored[v].status = "published" =>
             DOMAIN stored' = {} \/ (v \in DOMAIN stored' /\ stored'[v] = stored[v])
    /\ current' # None =>
          IsPublished(current.version)' /\ versions'[current'.version] = current' /\ Latest' = current'
    /\ \A v \in Versions \ apart' :
          (v \in DOMAIN versions' \/ v \in DOMAIN stored') =>
             /\ v \in DOMAIN versions' \cap DOMAIN stored'
             /\ versions'[v] = stored'[v]

(* DefinitionsKept: every step keeps them.                                   *)
DefinitionsKept == [][Keeps]_definitionVars
=============================================================================
