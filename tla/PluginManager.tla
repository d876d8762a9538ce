---------------------------- MODULE PluginManager ----------------------------
(***************************************************************************)
(* The plugin manager of src/app/plugins/manager.py with its registry:     *)
(* plugins that are installed, loaded, enabled, disabled, unloaded and     *)
(* uninstalled, the providers it wires into the router's registry and the  *)
(* workflows it removes.  Every call runs under one lock, its hooks        *)
(* included, so each is one step; a hook may fail.                         *)
(***************************************************************************)
EXTENDS Integers, Sequences, FiniteSets

CONSTANTS
    Plugins,
    TypeOf,      (* "llm_provider", "workflow" or "tool"                      *)
    Discovered,  (* plugins with a manifest on disk                           *)
    Acceptable,  (* those whose manifest is enabled and fits this version     *)
    DependsOn,   (* effective_dependencies                                    *)
    MaxEnables   (* bound: registrations that are tracked for a plugin        *)

PluginAssumption ==
    /\ Acceptable \subseteq Discovered /\ Discovered \subseteq Plugins
    /\ DependsOn \in [Plugins -> SUBSET Plugins]
    /\ MaxEnables \in Nat

VARIABLES
    careful,    (* clients install only what is absent, and disable a plugin  *)
                (* before they uninstall it                                   *)
    lifecycle,  (* _states: a function from the plugins that have one         *)
    instances,  (* keys of _plugins                                           *)
    tracked,    (* _registrations: how many ids each plugin has               *)
    wired,      (* plugins whose provider is in the provider registry         *)
    workflows,  (* plugins whose workflow is in the workflow registry         *)
    published,  (* those whose workflow has been published                    *)
    active,     (* history: enabled, and no disable hook has ended since      *)
    failed      (* history: plugins a hook of which has raised                *)

registry == <<lifecycle, instances, tracked>>
effects  == <<wired, workflows, published, active>>
vars == <<careful, registry, effects, failed>>

Init ==
    /\ careful \in BOOLEAN
    /\ lifecycle = [p \in {} |-> "installed"] /\ instances = {}
    /\ tracked = [p \in {} |-> 0]
    /\ wired = {} /\ workflows = {} /\ published = {} /\ active = {} /\ failed = {}

Known == DOMAIN lifecycle
InState(p, states) == p \in Known /\ lifecycle[p] \in states

Set(f, p, v)   == [q \in DOMAIN f \cup {p} |-> IF q = p THEN v ELSE f[q]]
Remove(f, ps)  == [q \in DOMAIN f \ ps |-> f[q]]

(* set_state. *)
Becomes(p, state) == lifecycle' = Set(lifecycle, p, state)

(* A failing hook leaves the plugin in ERROR. *)
Fails(p) ==
    /\ Becomes(p, "error") /\ failed' = failed \cup {p}
    /\ UNCHANGED <<instances, tracked, effects>>

-----------------------------------------------------------------------------
(* check_version_compatibility and _check_dependency_versions. *)
Installable(p) == p \in Acceptable /\ DependsOn[p] \subseteq Discovered

(* add_state replaces the state of a plugin, whatever it was. *)
AddStates(ps) ==
    /\ lifecycle' = [q \in Known \cup ps |-> IF q \in ps THEN "installed" ELSE lifecycle[q]]
    /\ tracked' = [q \in DOMAIN tracked \cup ps |->
                     IF q \in DOMAIN tracked THEN tracked[q] ELSE 0]
    /\ UNCHANGED <<instances, effects, failed>>

Install(p) ==
    /\ Installable(p)
    /\ careful => p \notin Known
    /\ AddStates({p})

(* install with an instance: register_plugin refuses a second one.           *)
InstallInstance(p) ==
    /\ Installable(p) /\ p \notin instances
    /\ careful => p \notin Known
    /\ Becomes(p, "installed")
    /\ instances' = instances \cup {p} /\ tracked' = Set(tracked, p, 0)
    /\ UNCHANGED <<effects, failed>>

(* discover_and_install_all; a dependency that is missing or circular makes  *)
(* it raise before anything is installed.                                    *)
Sortable ==
    /\ \A p \in Discovered : DependsOn[p] \subseteq Discovered
    /\ ~\E cycle \in (SUBSET Discovered) \ {{}} :
          \A p \in cycle : DependsOn[p] \cap cycle # {}

InstallAll ==
    /\ Sortable
    /\ careful => Known = {}
    /\ AddStates({p \in Discovered : Installable(p)})

(* load: import and instantiate, unless there is an instance already.        *)
Load(p) ==
    /\ InState(p, {"installed"})
    /\ \/ /\ p \notin instances /\ Fails(p)
       \/ /\ Becomes(p, "loaded")
          /\ instances' = instances \cup {p}
          /\ tracked' = IF p \in instances THEN tracked ELSE Set(tracked, p, 0)
          /\ UNCHANGED <<effects, failed>>

(* _record_registrations. *)
Tracked(p) == tracked' = [tracked EXCEPT ![p] = @ + 1]

(* _register_llm_provider, in the router's registry, its capability matrix   *)
(* and its health monitor; _unregister_llm_provider, in all of them.         *)
Wire(p) == wired' = IF TypeOf[p] = "llm_provider" THEN wired \cup {p} ELSE wired
Unwire(p) == wired' = IF TypeOf[p] = "llm_provider" THEN wired \ {p} ELSE wired

(* enable: the load and enable hooks, then what they registered is tracked   *)
(* and the provider of a provider plugin is wired.                           *)
Enable(p) ==
    /\ p \in instances /\ InState(p, {"loaded", "disabled"})
    /\ \/ Fails(p)
       \/ /\ tracked[p] < MaxEnables
          /\ Becomes(p, "enabled")
          /\ Tracked(p) /\ Wire(p)
          /\ workflows' = IF TypeOf[p] = "workflow" THEN workflows \cup {p} ELSE workflows
          /\ active' = active \cup {p}
          /\ UNCHANGED <<instances, published, failed>>

(* Mutation: the provider stays in the registry. *)
DisableStaysWired(p) ==
    /\ InState(p, {"enabled"}) /\ p \in instances
    /\ \/ Fails(p)
       \/ /\ Becomes(p, "disabled")
          /\ active' = active \ {p}
          /\ UNCHANGED <<instances, tracked, wired, workflows, published, failed>>

(* disable: what is tracked stays, a later enable adds to it.                *)
Disable(p) ==
    /\ InState(p, {"enabled"}) /\ p \in instances
    /\ \/ Fails(p)
       \/ /\ Becomes(p, "disabled")
          /\ Unwire(p) /\ active' = active \ {p}
          /\ UNCHANGED <<instances, tracked, workflows, published, failed>>

(* clear_registrations and unregister_plugin. *)
Unregistered(p) ==
    /\ lifecycle' = Remove(lifecycle, {p}) /\ tracked' = Remove(tracked, {p})
    /\ instances' = instances \ {p}

(* _unregister_plugin_workflows: only what is tracked is removed, and a      *)
(* published workflow cannot be.                                             *)
TornDown(p) ==
    /\ workflows' = IF tracked[p] > 0 /\ p \notin published THEN workflows \ {p} ELSE workflows
    /\ Unregistered(p)
    /\ UNCHANGED <<wired, published, active, failed>>

Unload(p) ==
    /\ InState(p, {"loaded", "disabled"}) /\ p \in instances
    /\ Fails(p) \/ TornDown(p)

(* uninstall.  _do_unload works for a loaded or disabled plugin and leaves   *)
(* nothing to uninstall; it refuses an enabled one, whose entries are then   *)
(* removed without its disable hook, as those of one in ERROR are.           *)
Uninstall(p) ==
    /\ p \in instances
    /\ careful => p \notin active
    /\ IF InState(p, {"loaded", "disabled"})
       THEN \/ TornDown(p)
            \/ Fails(p)                   (* the unload and uninstall hooks fail *)
            \/ Unregistered(p) /\ failed' = failed \cup {p} /\ UNCHANGED effects
       ELSE Unregistered(p) /\ UNCHANGED <<effects, failed>>

Publish(p) ==
    /\ p \in workflows \ published
    /\ published' = published \cup {p}
    /\ UNCHANGED <<registry, wired, workflows, active, failed>>

Next ==
    /\ UNCHANGED careful
    /\ \/ InstallAll
       \/ \E p \in Plugins :
             \/ Install(p) \/ InstallInstance(p) \/ Load(p) \/ Enable(p) \/ Disable(p)
             \/ Unload(p) \/ Uninstall(p) \/ Publish(p)

Spec == Init /\ [][Next]_vars

-----------------------------------------------------------------------------
(* Properties.                                                               *)

(* However plugins are installed again, fail and are removed, the three      *)
(* tables of the registry agree: a plugin past INSTALLED has its instance    *)
(* (but for ERROR), an instance has a state, and only instances have         *)
(* registrations to undo.  The not-found branches of disable and unload are  *)
(* unreachable.                                                              *)
RegistryConsistent ==
    /\ instances \subseteq Known /\ DOMAIN tracked = Known
    /\ \A p \in Known :
          /\ lifecycle[p] \in {"loaded", "enabled", "disabled"} => p \in instances
          /\ tracked[p] > 0 => p \in instances

(* When clients are careful, what a plugin brought in goes with it: a        *)
(* provider is wired exactly while its plugin is enabled or could not be     *)
(* disabled, and the workflow of a plugin that is gone was published, or a   *)
(* hook of the plugin failed.                                                *)
NothingLeftBehind ==
    careful =>
        /\ \A p \in wired : p \in active /\ InState(p, {"enabled", "error"})
        /\ \A p \in Known :
              lifecycle[p] = "enabled" /\ TypeOf[p] = "llm_provider" => p \in wired
        /\ \A p \in workflows : p \in published \cup instances \cup failed
=============================================================================
