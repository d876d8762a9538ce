----------------------------- MODULE CoreProofs -----------------------------
(***************************************************************************)
(* Theorems about plugins, the lifecycle, the cognitive pipeline, what is  *)
(* kept in files and the graphs of workflows, for all values of the        *)
(* constants.                                                              *)
(***************************************************************************)
EXTENDS Platform, WorkflowGraph, WellFoundedInduction, FiniteSetTheorems, SequenceTheorems, TLAPS

-----------------------------------------------------------------------------
(***************************************************************************)
(* Plugins, of any types and dependencies, whatever hooks fail.            *)
(***************************************************************************)

PluginStates == {"installed", "loaded", "enabled", "disabled", "error"}

(* The tables of the registry; what a plugin past INSTALLED needs.           *)
Tables ==
    /\ PM!Known \subseteq Plugins /\ \A p \in PM!Known : lifecycle[p] \in PluginStates
    /\ \A p \in DOMAIN tracked : tracked[p] \in Nat
    /\ PM!RegistryConsistent

(* What plugins have brought in, with what removes it: a plugin that is      *)
(* enabled is active, what is active will be disabled or could not be, and a *)
(* workflow that is neither published nor of a plugin that failed is         *)
(* tracked.                                                                  *)
Wiring ==
    /\ active \subseteq PM!Known /\ wired \subseteq active
    /\ \A p \in wired : TypeOf[p] = "llm_provider"
    /\ \A p \in active : lifecycle[p] \in {"enabled", "error"}
    /\ \A p \in PM!Known :
          /\ lifecycle[p] = "enabled" => p \in active
          /\ lifecycle[p] = "enabled" /\ TypeOf[p] = "llm_provider" => p \in wired
          /\ lifecycle[p] = "error" => p \in failed
    /\ \A p \in workflows \ (published \cup failed) :
          p \in PM!Known /\ tracked[p] > 0 /\ lifecycle[p] \in {"enabled", "disabled"}

PluginInv == careful \in BOOLEAN /\ Tables /\ (careful => Wiring)

-----------------------------------------------------------------------------
(* What the helpers do.                                                      *)
LEMMA BecomesFacts ==
    ASSUME NEW p, NEW state, PM!Becomes(p, state)
    PROVE  /\ PM!Known' = PM!Known \cup {p} /\ lifecycle'[p] = state
           /\ \A q \in PM!Known : q # p => lifecycle'[q] = lifecycle[q]
BY DEF PM!Becomes, PM!Set, PM!Known

LEMMA UnregisteredFacts ==
    ASSUME NEW p, PM!Unregistered(p)
    PROVE  /\ PM!Known' = PM!Known \ {p} /\ DOMAIN tracked' = DOMAIN tracked \ {p}
           /\ instances' = instances \ {p}
           /\ \A q \in PM!Known : q # p => lifecycle'[q] = lifecycle[q]
           /\ \A q \in DOMAIN tracked : q # p => tracked'[q] = tracked[q]
BY DEF PM!Unregistered, PM!Remove, PM!Known

(* A plugin whose hook fails was known before, and is not active unless it   *)
(* was.                                                                      *)
LEMMA FailsKeeps ==
    ASSUME PluginInv, NEW p \in PM!Known, PM!Fails(p), UNCHANGED careful
    PROVE  PluginInv'
<1>1. /\ PM!Known' = PM!Known /\ lifecycle'[p] = "error"
      /\ \A q \in PM!Known : q # p => lifecycle'[q] = lifecycle[q]
  BY BecomesFacts DEF PM!Fails
<1>2. UNCHANGED <<instances, tracked, wired, workflows, published, active>> /\ failed' = failed \cup {p}
  BY DEF PM!Fails, PM!effects
<1>3. Tables'
  BY <1>1, <1>2 DEF PluginInv, Tables, PM!RegistryConsistent, PluginStates
<1>4. ASSUME careful PROVE Wiring'
  BY <1>1, <1>2, <1>4 DEF PluginInv, Wiring
<1> QED
  BY <1>3, <1>4 DEF PluginInv

(* Its entries are removed: it may not be active, nor its workflow one that  *)
(* only the entries tell of.                                                 *)
LEMMA UnregisteredKeeps ==
    ASSUME PluginInv, NEW p \in PM!Known, PM!Unregistered(p), UNCHANGED <<careful, wired, published, active>>,
           careful => p \notin active,
           failed \subseteq failed', workflows' \subseteq workflows,
           careful => p \notin workflows' \ (published' \cup failed')
    PROVE  PluginInv'
<1>1. /\ PM!Known' = PM!Known \ {p} /\ DOMAIN tracked' = DOMAIN tracked \ {p}
      /\ instances' = instances \ {p}
      /\ \A q \in PM!Known : q # p => lifecycle'[q] = lifecycle[q]
      /\ \A q \in DOMAIN tracked : q # p => tracked'[q] = tracked[q]
  BY UnregisteredFacts
<1>2. Tables'
  BY <1>1 DEF PluginInv, Tables, PM!RegistryConsistent
<1>3. ASSUME careful PROVE Wiring'
  <2>1. DOMAIN tracked = PM!Known
    BY DEF PluginInv, Tables, PM!RegistryConsistent
  <2>2. \A q \in PM!Known' : lifecycle'[q] = lifecycle[q] /\ tracked'[q] = tracked[q]
    BY <1>1, <2>1
  <2> QED
    BY <1>1, <1>3, <2>2 DEF PluginInv, Wiring
<1> QED
  BY <1>2, <1>3 DEF PluginInv

(* A plugin that is installed anew, where clients are careful, is unknown.   *)
LEMMA AddStatesKeeps ==
    ASSUME PluginInv, NEW ps \in SUBSET Plugins, PM!AddStates(ps), UNCHANGED careful,
           careful => ps \cap PM!Known = {}
    PROVE  PluginInv'
<1>1. /\ PM!Known' = PM!Known \cup ps /\ DOMAIN tracked' = DOMAIN tracked \cup ps
      /\ \A q \in ps : lifecycle'[q] = "installed"
      /\ \A q \in PM!Known \ ps : lifecycle'[q] = lifecycle[q]
      /\ \A q \in DOMAIN tracked : tracked'[q] = tracked[q]
      /\ \A q \in ps \ DOMAIN tracked : tracked'[q] = 0
  BY DEF PM!AddStates, PM!Known
<1>2. UNCHANGED <<instances, wired, workflows, published, active, failed>>
  BY DEF PM!AddStates, PM!effects
<1>3. Tables'
  BY <1>1, <1>2 DEF PluginInv, Tables, PM!RegistryConsistent, PluginStates
<1>4. ASSUME careful PROVE Wiring'
  <2>1. DOMAIN tracked = PM!Known
    BY DEF PluginInv, Tables, PM!RegistryConsistent
  <2>2. \A q \in PM!Known : lifecycle'[q] = lifecycle[q] /\ tracked'[q] = tracked[q]
    BY <1>1, <1>4, <2>1
  <2>3. \A q \in PM!Known' \ PM!Known : lifecycle'[q] = "installed"
    BY <1>1
  <2> QED
    BY <1>1, <1>2, <1>4, <2>2, <2>3 DEF PluginInv, Wiring
<1> QED
  BY <1>3, <1>4 DEF PluginInv

-----------------------------------------------------------------------------
(* The calls.                                                                *)
LEMMA InstallInstanceKeeps ==
    ASSUME PluginInv, NEW p \in Plugins, PM!InstallInstance(p), UNCHANGED careful
    PROVE  PluginInv'
<1>1. /\ PM!Known' = PM!Known \cup {p} /\ lifecycle'[p] = "installed"
      /\ \A q \in PM!Known : q # p => lifecycle'[q] = lifecycle[q]
  BY BecomesFacts DEF PM!InstallInstance
<1>2. /\ DOMAIN tracked' = DOMAIN tracked \cup {p} /\ tracked'[p] = 0
      /\ \A q \in DOMAIN tracked : q # p => tracked'[q] = tracked[q]
  BY DEF PM!InstallInstance, PM!Set
<1>3. UNCHANGED <<wired, workflows, published, active, failed>> /\ instances' = instances \cup {p}
  BY DEF PM!InstallInstance, PM!effects
<1>4. Tables'
  BY <1>1, <1>2, <1>3 DEF PluginInv, Tables, PM!RegistryConsistent, PluginStates
<1>5. ASSUME careful PROVE Wiring'
  <2>1. p \notin PM!Known /\ DOMAIN tracked = PM!Known
    BY <1>5 DEF PM!InstallInstance, PluginInv, Tables, PM!RegistryConsistent
  <2> QED
    BY <1>1, <1>2, <1>3, <1>5, <2>1 DEF PluginInv, Wiring
<1> QED
  BY <1>4, <1>5 DEF PluginInv

LEMMA LoadKeeps ==
    ASSUME PluginInv, NEW p \in Plugins, PM!Load(p), UNCHANGED careful
    PROVE  PluginInv'
<1>1. p \in PM!Known /\ lifecycle[p] = "installed"
  BY DEF PM!Load, PM!InState
<1>2. CASE PM!Fails(p)
  BY <1>1, <1>2, FailsKeeps
<1>3. CASE ~PM!Fails(p)
  <2>1. /\ PM!Known' = PM!Known /\ lifecycle'[p] = "loaded"
        /\ \A q \in PM!Known : q # p => lifecycle'[q] = lifecycle[q]
    BY <1>1, <1>3, BecomesFacts DEF PM!Load
  <2>2. UNCHANGED <<wired, workflows, published, active, failed>> /\ instances' = instances \cup {p}
    BY <1>3 DEF PM!Load, PM!effects
  <2>3. DOMAIN tracked = PM!Known /\ tracked' = IF p \in instances THEN tracked ELSE PM!Set(tracked, p, 0)
    BY <1>3 DEF PM!Load, PluginInv, Tables, PM!RegistryConsistent
  <2>4. /\ DOMAIN tracked' = PM!Known
        /\ \A q \in PM!Known : q # p => tracked'[q] = tracked[q]
        /\ tracked'[p] \in Nat
    <3>1. CASE p \in instances
      BY <1>1, <2>3, <3>1 DEF PluginInv, Tables
    <3>2. CASE p \notin instances
      BY <1>1, <2>3, <3>2 DEF PM!Set
    <3> QED
      BY <3>1, <3>2
  <2>5. Tables'
    BY <1>1, <2>1, <2>2, <2>3, <2>4 DEF PluginInv, Tables, PM!RegistryConsistent, PluginStates
  <2>6. ASSUME careful PROVE Wiring'
    BY <1>1, <2>1, <2>2, <2>4, <2>6 DEF PluginInv, Wiring
  <2> QED
    BY <2>5, <2>6 DEF PluginInv
<1> QED
  BY <1>2, <1>3

LEMMA EnableKeeps ==
    ASSUME PluginInv, NEW p \in Plugins, PM!Enable(p), UNCHANGED careful
    PROVE  PluginInv'
<1>1. p \in PM!Known /\ p \in instances /\ lifecycle[p] \in {"loaded", "disabled"}
  BY DEF PM!Enable, PM!InState
<1>2. CASE PM!Fails(p)
  BY <1>1, <1>2, FailsKeeps
<1>3. CASE ~PM!Fails(p)
  <2>1. /\ PM!Known' = PM!Known /\ lifecycle'[p] = "enabled"
        /\ \A q \in PM!Known : q # p => lifecycle'[q] = lifecycle[q]
    BY <1>1, <1>3, BecomesFacts DEF PM!Enable
  <2>2. /\ instances' = instances /\ published' = published /\ failed' = failed
        /\ active' = active \cup {p}
        /\ wired' = IF TypeOf[p] = "llm_provider" THEN wired \cup {p} ELSE wired
        /\ workflows' \subseteq workflows \cup {p}
    BY <1>3 DEF PM!Enable, PM!Wire
  <2>3. DOMAIN tracked = PM!Known /\ tracked[p] \in Nat
    BY <1>1 DEF PluginInv, Tables, PM!RegistryConsistent
  <2>4. /\ DOMAIN tracked' = PM!Known /\ tracked'[p] = tracked[p] + 1
        /\ \A q \in PM!Known : q # p => tracked'[q] = tracked[q]
    BY <1>1, <1>3, <2>3 DEF PM!Enable, PM!Tracked
  <2>5. tracked'[p] \in Nat /\ tracked'[p] > 0
    BY <2>3, <2>4
  <2>6. Tables'
    BY <1>1, <2>1, <2>2, <2>3, <2>4, <2>5 DEF PluginInv, Tables, PM!RegistryConsistent, PluginStates
  <2>7. ASSUME careful PROVE Wiring'
    BY <1>1, <2>1, <2>2, <2>4, <2>5, <2>7 DEF PluginInv, Wiring
  <2> QED
    BY <2>6, <2>7 DEF PluginInv
<1> QED
  BY <1>2, <1>3

LEMMA DisableKeeps ==
    ASSUME PluginInv, NEW p \in Plugins, PM!Disable(p), UNCHANGED careful
    PROVE  PluginInv'
<1>1. p \in PM!Known /\ p \in instances /\ lifecycle[p] = "enabled"
  BY DEF PM!Disable, PM!InState
<1>2. CASE PM!Fails(p)
  BY <1>1, <1>2, FailsKeeps
<1>3. CASE ~PM!Fails(p)
  <2>1. /\ PM!Known' = PM!Known /\ lifecycle'[p] = "disabled"
        /\ \A q \in PM!Known : q # p => lifecycle'[q] = lifecycle[q]
    BY <1>1, <1>3, BecomesFacts DEF PM!Disable
  <2>2. /\ UNCHANGED <<instances, tracked, workflows, published, failed>>
        /\ active' = active \ {p}
        /\ wired' = IF TypeOf[p] = "llm_provider" THEN wired \ {p} ELSE wired
    BY <1>3 DEF PM!Disable, PM!Unwire
  <2>3. Tables'
    BY <1>1, <2>1, <2>2 DEF PluginInv, Tables, PM!RegistryConsistent, PluginStates
  <2>4. ASSUME careful PROVE Wiring'
    <3>1. p \notin wired'
      BY <2>2, <2>4 DEF PluginInv, Wiring
    <3> QED
      BY <1>1, <2>1, <2>2, <2>4, <3>1 DEF PluginInv, Wiring
  <2> QED
    BY <2>3, <2>4 DEF PluginInv
<1> QED
  BY <1>2, <1>3

LEMMA TornDownKeeps ==
    ASSUME PluginInv, NEW p \in PM!Known, PM!TornDown(p), UNCHANGED careful,
           lifecycle[p] \in {"loaded", "disabled"}
    PROVE  PluginInv'
<1>1. ASSUME careful PROVE p \notin active /\ p \notin workflows' \ (published' \cup failed')
  BY <1>1 DEF PluginInv, Wiring, PM!TornDown
<1>2. workflows' \subseteq workflows /\ failed \subseteq failed'
  BY DEF PM!TornDown
<1> QED
  BY <1>1, <1>2, UnregisteredKeeps DEF PM!TornDown

LEMMA UninstallKeeps ==
    ASSUME PluginInv, NEW p \in Plugins, PM!Uninstall(p), UNCHANGED careful
    PROVE  PluginInv'
<1>1. p \in PM!Known /\ (careful => p \notin active)
  BY DEF PM!Uninstall, PluginInv, Tables, PM!RegistryConsistent
<1>2. CASE PM!InState(p, {"loaded", "disabled"})
  <2>1. lifecycle[p] \in {"loaded", "disabled"}
    BY <1>2 DEF PM!InState
  <2>2. CASE PM!TornDown(p)
    BY <1>1, <2>1, <2>2, TornDownKeeps
  <2>3. CASE PM!Fails(p)
    BY <1>1, <2>3, FailsKeeps
  <2>4. CASE PM!Unregistered(p) /\ failed' = failed \cup {p} /\ UNCHANGED PM!effects
    BY <1>1, <2>4, UnregisteredKeeps DEF PM!effects
  <2> QED
    BY <1>2, <2>2, <2>3, <2>4 DEF PM!Uninstall
<1>3. CASE ~PM!InState(p, {"loaded", "disabled"})
  <2>1. PM!Unregistered(p) /\ UNCHANGED <<PM!effects, failed>>
    BY <1>3 DEF PM!Uninstall
  <2>2. lifecycle[p] \notin {"loaded", "disabled"}
    BY <1>1, <1>3 DEF PM!InState
  <2>3. ASSUME careful PROVE p \notin workflows' \ (published' \cup failed')
    BY <1>1, <2>1, <2>2, <2>3 DEF PluginInv, Wiring, PM!effects
  <2> QED
    BY <1>1, <2>1, <2>3, UnregisteredKeeps DEF PM!effects
<1> QED
  BY <1>2, <1>3

LEMMA WorkflowPublishKeeps ==
    ASSUME PluginInv, NEW p \in Plugins, PM!Publish(p), UNCHANGED careful
    PROVE  PluginInv'
BY DEF PM!Publish, PluginInv, Tables, Wiring, PM!RegistryConsistent, PM!registry, PM!Known

-----------------------------------------------------------------------------
LEMMA PluginsInitially == PM!Init => PluginInv
BY DEF PM!Init, PluginInv, Tables, Wiring, PM!RegistryConsistent, PM!Known

LEMMA PluginsInductive ==
    ASSUME PM!PluginAssumption
    PROVE  PluginInv /\ [PM!Next]_PM!vars => PluginInv'
<1> SUFFICES ASSUME PluginInv, [PM!Next]_PM!vars PROVE PluginInv'
  OBVIOUS
<1>1. CASE UNCHANGED PM!vars
  BY <1>1 DEF PM!vars, PM!registry, PM!effects, PluginInv, Tables, Wiring, PM!RegistryConsistent, PM!Known
<1>2. ASSUME PM!Next PROVE PluginInv'
  <2>1. UNCHANGED careful
    BY <1>2 DEF PM!Next
  <2>2. CASE PM!InstallAll
    <3>1. {p \in Discovered : PM!Installable(p)} \in SUBSET Plugins
      BY PM!PluginAssumption DEF PM!PluginAssumption
    <3> QED
      BY <2>1, <2>2, <3>1, AddStatesKeeps DEF PM!InstallAll
  <2>3. ASSUME NEW p \in Plugins, PM!Install(p) PROVE PluginInv'
    BY <2>1, <2>3, AddStatesKeeps DEF PM!Install
  <2>4. ASSUME NEW p \in Plugins, PM!Unload(p) PROVE PluginInv'
    BY <2>1, <2>4, FailsKeeps, TornDownKeeps DEF PM!Unload, PM!InState
  <2> QED
    BY <1>2, <2>1, <2>2, <2>3, <2>4, InstallInstanceKeeps, LoadKeeps, EnableKeeps, DisableKeeps,
       UninstallKeeps, WorkflowPublishKeeps DEF PM!Next
<1> QED
  BY <1>1, <1>2

(* The three tables of the plugin registry agree, whatever is called and     *)
(* whatever hooks fail.                                                      *)
THEOREM RegistryConsistentHolds ==
    ASSUME PM!PluginAssumption
    PROVE  PM!Spec => []PM!RegistryConsistent
<1>1. PluginInv => PM!RegistryConsistent
  BY DEF PluginInv, Tables
<1> QED
  BY <1>1, PluginsInitially, PluginsInductive, PTL DEF PM!Spec

(* A plugin leaves nothing behind if clients disable it before they          *)
(* uninstall it: its provider is wired exactly while it is enabled or could  *)
(* not be disabled, and its workflow goes unless it was published or a hook  *)
(* of the plugin failed.                                                     *)
THEOREM NothingLeftBehindHolds ==
    ASSUME PM!PluginAssumption
    PROVE  PM!Spec => []PM!NothingLeftBehind
<1>1. PluginInv => PM!NothingLeftBehind
  <2> SUFFICES ASSUME PluginInv, careful PROVE PM!NothingLeftBehind
    BY DEF PM!NothingLeftBehind
  <2>1. \A p \in workflows : p \in published \cup instances \cup failed
    BY DEF PluginInv, Wiring, Tables, PM!RegistryConsistent
  <2> QED
    BY <2>1 DEF PluginInv, Wiring, PM!NothingLeftBehind, PM!InState
<1> QED
  BY <1>1, PluginsInitially, PluginsInductive, PTL DEF PM!Spec

-----------------------------------------------------------------------------
(***************************************************************************)
(* The application lifecycle, with any number of tasks that stop it.       *)
(***************************************************************************)

StageSet == {"created", "config_loading", "config_loaded", "services_initializing",
             "services_initialized", "plugins_loading", "plugins_loaded", "starting",
             "running", "stopping", "stopped"}

(* How far run() has come in the start-up, by the hook point it is in. *)
Come(point) ==
    CASE point = "idle" -> 0
      [] point = "before_init" -> 1
      [] point = "after_config" -> 2
      [] point = "after_services" -> 3
      [] point = "after_plugins" -> 4
      [] point = "before_start" -> 5
      [] point = "after_start" -> 6
      [] OTHER -> 7

StartHooks == {"before_init", "after_config", "after_services", "after_plugins", "before_start",
               "after_start"}
StopPoints == {"idle", "before_stop", "after_stop", "ended", "raised"}
AllHooks == StartHooks \cup {"before_stop", "after_stop"}

(* The hooks of the start-up have begun only as far as run() has come, those *)
(* after the stop only if the application has stopped, and a shutdown stops  *)
(* it only after the hooks before the stop.                                  *)
StopInv ==
    /\ stage \in StageSet
    /\ DOMAIN at = LC!Tasks /\ at[Main] \in StartHooks \cup StopPoints \cup {"waiting"}
    /\ \A t \in Stoppers \ {Main} : at[t] \in StopPoints
    /\ ran \in [AllHooks -> Nat]
    /\ \A h \in StartHooks : ran[h] > 0 => Come(h) <= Come(at[Main])
    /\ ran["after_stop"] > 0 => stage = "stopped"
    /\ \A t \in LC!Tasks : at[t] = "before_stop" => ran["before_stop"] > 0

(* What StopsOnce says of a step. *)
HooksInOrder ==
    \A h \in LC!HookPoints : ran'[h] # ran[h] =>
        /\ h # "before_stop" => ran[h] = 0
        /\ h = "after_stop" <=> stage' = "stopped"
        /\ h = "after_stop" => ran["before_stop"] > 0

StopStep == StopInv' /\ HooksInOrder

-----------------------------------------------------------------------------
LEMMA Ranks ==
    /\ LC!Rank("created") = 1 /\ LC!Rank("config_loading") = 2 /\ LC!Rank("config_loaded") = 3
    /\ LC!Rank("services_initializing") = 4 /\ LC!Rank("services_initialized") = 5
    /\ LC!Rank("plugins_loading") = 6 /\ LC!Rank("plugins_loaded") = 7 /\ LC!Rank("starting") = 8
    /\ LC!Rank("running") = 9 /\ LC!Rank("stopping") = 10 /\ LC!Rank("stopped") = 11
<1>1. DOMAIN LC!Stages = 1..11
  BY DEF LC!Stages
<1>2. \A i, j \in 1..11 : LC!Stages[i] = LC!Stages[j] => i = j
  BY DEF LC!Stages
<1>3. ASSUME NEW i \in 1..11 PROVE LC!Rank(LC!Stages[i]) = i
  BY <1>1, <1>2, <1>3 DEF LC!Rank
<1>4. /\ LC!Stages[1] = "created" /\ LC!Stages[2] = "config_loading" /\ LC!Stages[3] = "config_loaded"
      /\ LC!Stages[4] = "services_initializing" /\ LC!Stages[5] = "services_initialized"
      /\ LC!Stages[6] = "plugins_loading" /\ LC!Stages[7] = "plugins_loaded" /\ LC!Stages[8] = "starting"
      /\ LC!Stages[9] = "running" /\ LC!Stages[10] = "stopping" /\ LC!Stages[11] = "stopped"
  BY DEF LC!Stages
<1> QED
  BY <1>3, <1>4

LEMMA HookNames ==
    /\ LC!HookPoints = AllHooks
    /\ DOMAIN LC!After = {"begin", "before_init", "after_config", "after_services", "after_plugins",
                       "before_start", "before_stop"}
<1>1. DOMAIN LC!After = {"begin", "before_init", "after_config", "after_services", "after_plugins",
                       "before_start", "before_stop"}
  BY DEF LC!After
<1> QED
  BY <1>1 DEF LC!HookPoints, AllHooks, StartHooks

(* Nothing follows once the application has stopped, and the transition into *)
(* a stop is made from before it.                                            *)
LEMMA AfterTheStop ==
    \A to \in StageSet : ~LC!Permitted("stopped", to)
  BY Ranks DEF LC!Permitted, StageSet

LEMMA OneTarget ==
    ASSUME NEW from, NEW target
    PROVE  LC!Made(from, <<target>>) = IF LC!Permitted(from, target) THEN 1 ELSE 0
<1> DEFINE path == <<from>> \o <<target>>
           Goes(n) == \A i \in 1..n : LC!Permitted(path[i], path[i + 1])
           Is(n) == Goes(n) /\ (n < 1 => ~LC!Permitted(path[n + 1], path[n + 2]))
<1>1. path[1] = from /\ path[2] = target /\ Len(<<target>>) = 1
  OBVIOUS
<1>2. Goes(0) /\ (Goes(1) <=> LC!Permitted(from, target))
  BY <1>1
<1>3. (Is(0) <=> ~LC!Permitted(from, target)) /\ (Is(1) <=> LC!Permitted(from, target))
  BY <1>1, <1>2
<1>4. LC!Made(from, <<target>>) = CHOOSE n \in 0..1 : Is(n)
  BY <1>1 DEF LC!Made
<1> HIDE DEF Is
<1> QED
  BY <1>3, <1>4

LEMMA TwoTargets ==
    ASSUME NEW from, NEW first, NEW second
    PROVE  LC!Made(from, <<first, second>>) =
             IF ~LC!Permitted(from, first) THEN 0 ELSE IF ~LC!Permitted(first, second) THEN 1 ELSE 2
<1> DEFINE path == <<from>> \o <<first, second>>
           Goes(n) == \A i \in 1..n : LC!Permitted(path[i], path[i + 1])
           Is(n) == Goes(n) /\ (n < 2 => ~LC!Permitted(path[n + 1], path[n + 2]))
<1>1. path[1] = from /\ path[2] = first /\ path[3] = second /\ Len(<<first, second>>) = 2
  OBVIOUS
<1>2. /\ Goes(0) /\ (Goes(1) <=> LC!Permitted(from, first))
      /\ Goes(2) <=> LC!Permitted(from, first) /\ LC!Permitted(first, second)
  BY <1>1
<1>3. /\ Is(0) <=> ~LC!Permitted(from, first)
      /\ Is(1) <=> LC!Permitted(from, first) /\ ~LC!Permitted(first, second)
      /\ Is(2) <=> LC!Permitted(from, first) /\ LC!Permitted(first, second)
  BY <1>1, <1>2
<1>4. LC!Made(from, <<first, second>>) = CHOOSE n \in 0..2 : Is(n)
  BY <1>1 DEF LC!Made
<1> HIDE DEF Is
<1> QED
  BY <1>3, <1>4

(* Of the transitions after a hook point: they lead to a stop only if they   *)
(* are those of a stop, and none of them is made from one.                   *)
LEMMA Transitions ==
    ASSUME NEW point \in DOMAIN LC!After, NEW from \in StageSet
    PROVE  LET targets == LC!After[point].to
               made == LC!Made(from, targets)
               new == (<<from>> \o targets)[made + 1]
           IN  /\ new \in StageSet
               /\ from = "stopped" => made # Len(targets) /\ new = "stopped"
               /\ made = Len(targets) => (new = "stopped" <=> point = "before_stop")
<1> DEFINE targets == LC!After[point].to
           made == LC!Made(from, targets)
           new == (<<from>> \o targets)[made + 1]
<1>1. CASE point \in {"begin", "before_init", "after_plugins", "before_start"}
  <2>1. PICK target \in StageSet \ {"stopped"} : targets = <<target>>
    BY <1>1 DEF LC!After, StageSet
  <2>2. /\ Len(targets) = 1 /\ (<<from>> \o targets)[1] = from /\ (<<from>> \o targets)[2] = target
        /\ made = IF LC!Permitted(from, target) THEN 1 ELSE 0
    BY <2>1, OneTarget
  <2>3. from = "stopped" => made = 0
    BY <2>1, <2>2, AfterTheStop
  <2> DEFINE path == <<from>> \o targets
  <2> HIDE DEF targets, made, path
  <2>4. \/ made = 0 /\ path[made + 1] = from
        \/ made = 1 /\ path[made + 1] = target
    BY <2>2 DEF path
  <2>5. /\ new = path[made + 1] /\ Len(targets) = 1 /\ target # "stopped" /\ point # "before_stop"
    BY <1>1, <2>1, <2>2 DEF path
  <2> HIDE DEF new
  <2> QED
    BY <2>1, <2>3, <2>4, <2>5 DEF targets, made, new
<1>2. CASE point \in {"after_config", "after_services", "before_stop"}
  <2>1. PICK first \in StageSet \ {"stopped"}, second \in StageSet :
            targets = <<first, second>> /\ (second = "stopped" <=> point = "before_stop")
    BY <1>2 DEF LC!After, StageSet
  <2>2. /\ Len(targets) = 2 /\ (<<from>> \o targets)[1] = from /\ (<<from>> \o targets)[2] = first
        /\ (<<from>> \o targets)[3] = second
        /\ made = IF ~LC!Permitted(from, first) THEN 0 ELSE IF ~LC!Permitted(first, second) THEN 1 ELSE 2
    BY <2>1, TwoTargets
  <2>3. from = "stopped" => made = 0
    BY <2>1, <2>2, AfterTheStop
  <2> DEFINE path == <<from>> \o targets
  <2> HIDE DEF targets, made, path
  <2>4. \/ made = 0 /\ path[made + 1] = from
        \/ made = 1 /\ path[made + 1] = first
        \/ made = 2 /\ path[made + 1] = second
    <3>1. made = 0 \/ made = 1 \/ made = 2
      BY <2>2
    <3>2. path[1] = from /\ path[2] = first /\ path[3] = second
      BY <2>2 DEF path
    <3> QED
      BY <3>1, <3>2
  <2>5. new = path[made + 1]
    BY DEF path
  <2> HIDE DEF new
  <2> QED
    BY <2>1, <2>2, <2>3, <2>4, <2>5 DEF targets, made, new
<1> QED
  BY <1>1, <1>2, HookNames

-----------------------------------------------------------------------------
(* A task whose place changes, with no hooks begun. *)
LEMMA Quietly ==
    ASSUME StopInv, NEW t \in LC!Tasks, NEW place \in {"ended", "raised", "waiting"},
           place = "waiting" => t = Main,
           at' = [at EXCEPT ![t] = place], ran' = ran,
           stage' \in StageSet, stage = "stopped" => stage' = "stopped"
    PROVE  StopStep
<1>1. \A h \in StartHooks : Come(h) <= 7 /\ Come(place) = 7
  BY DEF Come, StartHooks
<1>2. DOMAIN at' = LC!Tasks /\ at'[t] = place /\ \A u \in LC!Tasks : u # t => at'[u] = at[u]
  BY DEF StopInv
<1>3. Main \in LC!Tasks /\ Stoppers \subseteq LC!Tasks
  BY DEF LC!Tasks
<1>4. \A h \in StartHooks : ran'[h] > 0 => Come(h) <= Come(at'[Main])
  <2>1. CASE t = Main
    BY <1>1, <1>2, <2>1
  <2>2. CASE t # Main
    BY <1>2, <1>3, <2>2 DEF StopInv
  <2> QED
    BY <2>1, <2>2
<1>5. at'[Main] \in StartHooks \cup StopPoints \cup {"waiting"}
      /\ \A u \in Stoppers \ {Main} : at'[u] \in StopPoints
  BY <1>2, <1>3 DEF StopInv, StopPoints
<1>6. \A u \in LC!Tasks : at'[u] = "before_stop" => ran'["before_stop"] > 0
  BY <1>2 DEF StopInv
<1> QED
  BY <1>2, <1>4, <1>5, <1>6 DEF StopInv, StopStep, HooksInOrder

(* A task that enters the hooks before or after the stop. *)
LEMMA StopHooksKeep ==
    ASSUME StopInv, NEW t \in LC!Tasks, NEW h \in {"before_stop", "after_stop"}, LC!EntersHooks(t, h),
           stage' \in StageSet, stage = "stopped" => stage' = "stopped" /\ h = "before_stop",
           h = "after_stop" <=> stage' = "stopped", h = "after_stop" => at[t] = "before_stop"
    PROVE  StopStep
<1>1. \A g \in StartHooks : Come(g) <= 7 /\ Come(h) = 7
  BY DEF Come, StartHooks
<1>2. DOMAIN at' = LC!Tasks /\ at'[t] = h /\ \A u \in LC!Tasks : u # t => at'[u] = at[u]
  BY DEF StopInv, LC!EntersHooks
<1>3. /\ h \in AllHooks /\ ran[h] \in Nat /\ ran' \in [AllHooks -> Nat] /\ ran'[h] = ran[h] + 1
      /\ \A g \in AllHooks : g # h => ran'[g] = ran[g]
  BY DEF StopInv, LC!EntersHooks, AllHooks
<1>4. Main \in LC!Tasks /\ Stoppers \subseteq LC!Tasks /\ StartHooks \subseteq AllHooks \ {"before_stop", "after_stop"}
  BY DEF LC!Tasks, StartHooks, AllHooks
<1>5. \A g \in StartHooks : ran'[g] > 0 => Come(g) <= Come(at'[Main])
  <2>1. CASE t = Main
    BY <1>1, <1>2, <2>1
  <2>2. CASE t # Main
    BY <1>2, <1>3, <1>4, <2>2 DEF StopInv
  <2> QED
    BY <2>1, <2>2
<1>6. at'[Main] \in StartHooks \cup StopPoints \cup {"waiting"}
      /\ \A u \in Stoppers \ {Main} : at'[u] \in StopPoints
  BY <1>2, <1>4 DEF StopInv, StopPoints
<1>7. \A u \in LC!Tasks : at'[u] = "before_stop" => ran'["before_stop"] > 0
  BY <1>2, <1>3 DEF StopInv, AllHooks
<1>8. ran'["after_stop"] > 0 => stage' = "stopped"
  BY <1>3 DEF StopInv, AllHooks
<1>9. HooksInOrder
  <2>1. h = "after_stop" => ran["after_stop"] = 0 /\ ran["before_stop"] > 0
    BY <1>3 DEF StopInv, AllHooks
  <2> QED
    BY <1>3, <2>1, HookNames DEF HooksInOrder
<1> QED
  BY <1>2, <1>3, <1>5, <1>6, <1>7, <1>8, <1>9 DEF StopInv, StopStep

(* run() enters the next hooks of the start-up. *)
LEMMA StartHooksKeep ==
    ASSUME StopInv, NEW h \in StartHooks, LC!EntersHooks(Main, h), Come(h) = Come(at[Main]) + 1,
           stage' \in StageSet, stage' # "stopped", stage # "stopped"
    PROVE  StopStep
<1>1. \A g \in StartHooks : Come(g) \in 1..6
  BY DEF Come, StartHooks
<1>2. DOMAIN at' = LC!Tasks /\ at'[Main] = h /\ \A u \in LC!Tasks : u # Main => at'[u] = at[u]
  BY DEF StopInv, LC!EntersHooks, LC!Tasks
<1>3. /\ h \in AllHooks /\ ran[h] \in Nat /\ ran' \in [AllHooks -> Nat] /\ ran'[h] = ran[h] + 1
      /\ \A g \in AllHooks : g # h => ran'[g] = ran[g]
  BY DEF StopInv, LC!EntersHooks, AllHooks
<1>4. Main \in LC!Tasks /\ Stoppers \subseteq LC!Tasks /\ StartHooks = AllHooks \ {"before_stop", "after_stop"}
      /\ "before_stop" \in AllHooks /\ "after_stop" \in AllHooks
  BY DEF LC!Tasks, StartHooks, AllHooks
<1>5. Come(h) = Come(at[Main]) + 1 /\ ran[h] = 0
  <2>1. Come(at[Main]) \in 0..7
    BY DEF Come
  <2> QED
    BY <1>1, <1>3, <2>1 DEF StopInv
<1>6. \A g \in StartHooks : ran'[g] > 0 => Come(g) <= Come(at'[Main])
  <2>0. Come(at[Main]) \in 0..7
    BY DEF Come
  <2> SUFFICES ASSUME NEW g \in StartHooks, ran'[g] > 0 PROVE Come(g) <= Come(h)
    BY <1>2
  <2>1. CASE g = h
    BY <1>1, <2>1
  <2>2. CASE g # h
    BY <2>0, <1>1, <1>3, <1>4, <1>5, <2>2 DEF StopInv
  <2> QED
    BY <2>1, <2>2
<1>7. at'[Main] \in StartHooks \cup StopPoints \cup {"waiting"}
      /\ \A u \in Stoppers \ {Main} : at'[u] \in StopPoints
  BY <1>2, <1>4 DEF StopInv
<1>8. \A u \in LC!Tasks : at'[u] = "before_stop" => ran'["before_stop"] > 0
  BY <1>2, <1>3, <1>4 DEF StopInv, AllHooks
<1>9. ran'["after_stop"] > 0 => stage' = "stopped"
  BY <1>3, <1>4 DEF StopInv, AllHooks
<1>10. HooksInOrder
  BY <1>3, <1>4, <1>5, HookNames DEF HooksInOrder
<1> QED
  BY <1>2, <1>3, <1>6, <1>7, <1>8, <1>9, <1>10 DEF StopInv, StopStep

-----------------------------------------------------------------------------
LEMMA ShutdownKeeps ==
    ASSUME StopInv, NEW t \in LC!Tasks, LC!Shutdown(t, stage'),
           stage' \in StageSet, stage = "stopped" => stage' = "stopped"
    PROVE  StopStep
<1>1. CASE stage' \in {"stopped", "created"}
  BY <1>1, Quietly DEF LC!Shutdown
<1>2. CASE stage' \notin {"stopped", "created"}
  BY <1>2, StopHooksKeep DEF LC!Shutdown
<1> QED
  BY <1>1, <1>2

LEMMA RaisesKeeps ==
    ASSUME StopInv, NEW t \in LC!Tasks, LC!Raises(t, stage'),
           stage' \in StageSet, stage = "stopped" => stage' = "stopped"
    PROVE  StopStep
<1>1. CASE t = Main /\ at[t] \notin {"before_stop", "after_stop"}
  BY <1>1, ShutdownKeeps DEF LC!Raises
<1>2. CASE ~(t = Main /\ at[t] \notin {"before_stop", "after_stop"})
  BY <1>2, Quietly DEF LC!Raises
<1> QED
  BY <1>1, <1>2

LEMMA AdvanceKeeps ==
    ASSUME StopInv, NEW t \in LC!Tasks, NEW point \in DOMAIN LC!After, LC!Advance(t, point),
           at[t] = point \/ (t = Main /\ at[t] = "idle" /\ point = "begin")
    PROVE  StopStep
<1> DEFINE targets == LC!After[point].to
           made == LC!Made(stage, targets)
           new == (<<stage>> \o targets)[made + 1]
<1>1. stage \in StageSet
  BY DEF StopInv
<1>2. /\ new \in StageSet
      /\ stage = "stopped" => made # Len(targets) /\ new = "stopped"
      /\ made = Len(targets) => (new = "stopped" <=> point = "before_stop")
  BY <1>1, Transitions
<1>3. /\ stage' = new
      /\ IF made = Len(targets) THEN LC!EntersHooks(t, LC!After[point].hook) ELSE LC!Raises(t, stage')
  BY DEF LC!Advance
<1> HIDE DEF new, made, targets
<1>4. CASE made # Len(targets)
  BY <1>2, <1>3, <1>4, RaisesKeeps
<1>5. CASE made = Len(targets) /\ point = "before_stop"
  <2>1. LC!After[point].hook = "after_stop"
    BY <1>5 DEF LC!After
  <2>2. at[t] = "before_stop"
    BY <1>5
  <2> QED
    BY <1>2, <1>3, <1>5, <2>1, <2>2, StopHooksKeep
<1>6. CASE made = Len(targets) /\ point # "before_stop"
  <2>1. /\ LC!After[point].hook \in StartHooks
        /\ Come(LC!After[point].hook) = Come(IF point = "begin" THEN "idle" ELSE point) + 1
    BY <1>6, HookNames DEF LC!After, StartHooks, Come
  <2>2. point = "begin" \/ point \in StartHooks
    BY <1>6, HookNames DEF StartHooks
  <2>3. t = Main /\ Come(LC!After[point].hook) = Come(at[Main]) + 1
    BY <2>1, <2>2 DEF StopInv, StopPoints, StartHooks, LC!Tasks
  <2> QED
    BY <1>2, <1>3, <1>6, <2>1, <2>3, StartHooksKeep
<1> QED
  BY <1>4, <1>5, <1>6

-----------------------------------------------------------------------------
LEMMA StopInitially == LC!Init => StopInv
  BY HookNames DEF LC!Init, StopInv, StageSet, StopPoints, LC!Tasks, AllHooks

LEMMA StopInductive == ASSUME StopInv, [LC!Next]_LC!lifecycleVars PROVE StopStep
<1>1. CASE UNCHANGED LC!lifecycleVars
  BY <1>1 DEF LC!lifecycleVars, StopStep, StopInv, HooksInOrder
<1>2. Main \in LC!Tasks /\ Stoppers \subseteq LC!Tasks /\ stage \in StageSet
  BY DEF LC!Tasks, StopInv
<1>3. CASE LC!RunBegins
  BY <1>2, <1>3, AdvanceKeeps, HookNames DEF LC!RunBegins
<1>4. CASE LC!Started
  BY <1>2, <1>4, Quietly DEF LC!Started
<1>5. CASE LC!IdleEnds
  BY <1>2, <1>5, ShutdownKeeps DEF LC!IdleEnds
<1>6. ASSUME NEW t \in Stoppers, LC!StopCalled(t) PROVE StopStep
  BY <1>2, <1>6, ShutdownKeeps DEF LC!StopCalled
<1>7. ASSUME NEW t \in LC!Tasks, LC!HooksEnd(t) PROVE StopStep
  BY <1>7, AdvanceKeeps DEF LC!HooksEnd
<1>8. ASSUME NEW t \in LC!Tasks, LC!Stopped(t) PROVE StopStep
  BY <1>2, <1>8, Quietly DEF LC!Stopped
<1>9. ASSUME NEW t \in LC!Tasks, LC!HookFails(t) PROVE StopStep
  BY <1>2, <1>9, RaisesKeeps DEF LC!HookFails
<1> QED
  BY <1>1, <1>3, <1>4, <1>5, <1>6, <1>7, <1>8, <1>9 DEF LC!Next

(* Whatever hooks fail and whoever stops the application, start-up and stop *)
(* happen at most once and in order.                                        *)
THEOREM LifecycleStopsOnce == LC!Spec => LC!StopsOnce
<1>1. LC!Init => StopInv
  BY StopInitially
<1>2. StopInv /\ [LC!Next]_LC!lifecycleVars => StopInv'
  BY StopInductive DEF StopStep
<1>3. StopInv /\ [LC!Next]_LC!lifecycleVars =>
        [\A h \in LC!HookPoints : ran'[h] # ran[h] =>
          /\ h # "before_stop" => ran[h] = 0
          /\ h = "after_stop" <=> stage' = "stopped"
          /\ h = "after_stop" => ran["before_stop"] > 0]_LC!lifecycleVars
  BY StopInductive DEF StopStep, HooksInOrder
<1> QED
  BY <1>1, <1>2, <1>3, PTL DEF LC!Spec, LC!StopsOnce

-----------------------------------------------------------------------------
(***************************************************************************)
(* Requests in the cognitive pipeline, for any stages and policies.        *)
(***************************************************************************)

PipelineRun ==
    [phase : {"idle", "engine", "delay", "answered"}, stage : Nat, attempts : Nat,
     results : SUBSET Nat, cancelled : BOOLEAN, left : {"some", "under", "none"},
     outcome : {"none", "response", "no response", "error", "timeout", "cancelled"}]

Needed(s) == PolicyOf[s].policy # "continue"

(* Whoever is beyond a stage that must not fail has its result. *)
Through(run, stages) ==
    run.results \subseteq stages /\ \A s \in stages : Needed(s) => s \in run.results

(* A run that works is at a stage, through those before it; a response has   *)
(* the results of all.                                                       *)
RunSound(run) ==
    /\ run \in PipelineRun
    /\ run.phase \in {"engine", "delay"} =>
          run.stage \in 1..PipelineStages /\ Through(run, 1..(run.stage - 1))
    /\ run.phase # "answered" => run.outcome = "none"
    /\ run.phase = "idle" => run.results = {}
    /\ run.outcome = "response" => \A s \in 1..PipelineStages : Needed(s) => s \in run.results

PipelineInv ==
    /\ runs \in [Requests -> PipelineRun] /\ \A r \in Requests : RunSound(runs[r])
    /\ \A s \in DOMAIN activeRun : activeRun[s] \in Requests
    /\ \A r \in stopped : r \in Requests => runs[r].cancelled

(* An engine of a further stage is called for a run that nobody stopped. *)
EntersInTime(old, new) ==
    old.stage > 0 /\ new.stage > old.stage /\ new.phase = "engine" => ~old.cancelled /\ old.left # "none"

PipelineStep == PipelineInv' /\ \A r \in Requests : EntersInTime(runs[r], runs'[r])

-----------------------------------------------------------------------------
LEMMA Standing == ASSUME NEW run \in PipelineRun PROVE EntersInTime(run, run) /\ run.stage \in Nat
<1>1. run.stage \in Nat
  BY DEF PipelineRun
<1>2. ~(run.stage > run.stage)
  BY <1>1
<1> QED
  BY <1>1, <1>2 DEF EntersInTime

(* A run goes on, or is over. *)
LEMMA RunGoes ==
    ASSUME PipelineInv, NEW r \in Requests, NEW run, PL!Goes(r, run), RunSound(run),
           runs[r].cancelled => run.cancelled, EntersInTime(runs[r], run)
    PROVE  PipelineStep
<1>1. runs' = [runs EXCEPT ![r] = run] /\ activeRun' = activeRun /\ stopped' = stopped
  BY DEF PL!Goes
<1>2. runs' \in [Requests -> PipelineRun] /\ runs'[r] = run /\ \A q \in Requests : q # r => runs'[q] = runs[q]
  BY <1>1 DEF PipelineInv, RunSound
<1>3. ASSUME NEW q \in Requests PROVE RunSound(runs'[q]) /\ EntersInTime(runs[q], runs'[q])
  <2>1. CASE q = r
    BY <1>2, <2>1
  <2>2. CASE q # r
    <3>1. runs[q] \in PipelineRun
      BY DEF PipelineInv
    <3> QED
      BY <1>2, <2>2, <3>1, Standing DEF PipelineInv
  <2> QED
    BY <2>1, <2>2
<1>4. \A q \in stopped' : q \in Requests => runs'[q].cancelled
  BY <1>1, <1>2 DEF PipelineInv
<1>5. \A s \in DOMAIN activeRun' : activeRun'[s] \in Requests
  BY <1>1 DEF PipelineInv
<1> QED
  BY <1>2, <1>3, <1>4, <1>5 DEF PipelineStep, PipelineInv

LEMMA RunOver ==
    ASSUME PipelineInv, NEW r \in Requests, NEW run \in PipelineRun,
           NEW outcome \in {"response", "no response", "error", "timeout", "cancelled"},
           PL!Over(r, run, outcome), runs[r].cancelled => run.cancelled,
           outcome = "response" => \A s \in 1..PipelineStages : Needed(s) => s \in run.results
    PROVE  PipelineStep
<1> DEFINE new == [run EXCEPT !.phase = "answered", !.outcome = outcome]
<1>1. /\ new \in PipelineRun /\ new.phase = "answered" /\ new.outcome = outcome
      /\ new.results = run.results /\ new.cancelled = run.cancelled
  BY DEF PipelineRun
<1>2. RunSound(new) /\ EntersInTime(runs[r], new)
  BY <1>1 DEF RunSound, EntersInTime
<1>3. /\ runs' = [runs EXCEPT ![r] = new] /\ stopped' = stopped
      /\ \A s \in DOMAIN activeRun' : s \in DOMAIN activeRun /\ activeRun'[s] = activeRun[s]
  BY DEF PL!Over
<1> HIDE DEF new
<1>4. runs' \in [Requests -> PipelineRun] /\ runs'[r] = new /\ \A q \in Requests : q # r => runs'[q] = runs[q]
  BY <1>1, <1>3 DEF PipelineInv
<1>5. ASSUME NEW q \in Requests PROVE RunSound(runs'[q]) /\ EntersInTime(runs[q], runs'[q])
  <2>1. CASE q = r
    BY <1>2, <1>4, <2>1
  <2>2. CASE q # r
    <3>1. runs[q] \in PipelineRun
      BY DEF PipelineInv
    <3> QED
      BY <1>4, <2>2, <3>1, Standing DEF PipelineInv
  <2> QED
    BY <2>1, <2>2
<1>6. \A q \in stopped' : q \in Requests => runs'[q].cancelled
  BY <1>1, <1>3, <1>4 DEF PipelineInv
<1>7. \A s \in DOMAIN activeRun' : activeRun'[s] \in Requests
  BY <1>3 DEF PipelineInv
<1> QED
  BY <1>4, <1>5, <1>6, <1>7 DEF PipelineStep, PipelineInv

(* Before the last stage there is no result of the last. *)
LEMMA RunCompleted ==
    ASSUME PL!PipelineAssumption, PipelineInv, NEW r \in Requests, NEW run \in PipelineRun,
           runs[r].cancelled => run.cancelled,
           NEW s \in 1..PipelineStages, Through(run, 1..s), PL!Completed(r, run)
    PROVE  PipelineStep
<1>1. PipelineStages \in Nat \ {0}
  BY DEF PL!PipelineAssumption
<1>2. CASE PipelineStages \in run.results
  <2>1. s = PipelineStages
    BY <1>1, <1>2 DEF Through
  <2> QED
    BY <1>2, <2>1, RunOver DEF PL!Completed, Through
<1>3. CASE PipelineStages \notin run.results
  BY <1>3, RunOver DEF PL!Completed
<1> QED
  BY <1>2, <1>3

(* The stages that are dispatched to from the first on. *)
LEMMA RunDispatched ==
    ASSUME PL!PipelineAssumption, PipelineInv, NEW r \in Requests, NEW run \in PipelineRun,
           run.phase = "engine", run.outcome = "none", ~run.cancelled, run.left # "none",
           runs[r].cancelled = run.cancelled, runs[r].left = run.left,
           NEW first \in 1..PipelineStages, Through(run, 1..(first - 1)), PL!Dispatch(r, run, first)
    PROVE  PipelineStep
<1> DEFINE there(s) == [run EXCEPT !.stage = s, !.attempts = 1, !.phase = "engine",
                                   !.results = @ \cup PL!FallenBack(first..(s - 1))]
           short == run.left = "under" /\ ~run.cancelled
<1>1. PipelineStages \in Nat \ {0} /\ first \in Nat /\ 1 <= first /\ first <= PipelineStages
  BY DEF PL!PipelineAssumption
<1>2. PICK s \in first..(PipelineStages + 1) :
        /\ \A q \in first..(s - 1) : short /\ PL!Passed(q)
        /\ IF s > PipelineStages THEN PL!Completed(r, [there(s) EXCEPT !.stage = PipelineStages])
           ELSE IF s \in MissingEngines THEN PL!Over(r, there(s), "error")
           ELSE IF run.cancelled THEN PL!Over(r, there(s), "cancelled")
           ELSE IF run.left = "none" THEN PL!Over(r, there(s), "timeout")
           ELSE IF ~short THEN PL!Goes(r, there(s))
           ELSE /\ ~PL!Passed(s)
                /\ IF PL!MaxAttempts(s) > 1 THEN PL!Goes(r, [there(s) EXCEPT !.phase = "delay"])
                   ELSE PL!GivesUp(r, there(s), "timeout")
  BY DEF PL!Dispatch
<1> DEFINE passed == first..(s - 1)
           got == run.results \cup PL!FallenBack(passed)
           at1 == [run EXCEPT !.stage = s, !.attempts = 1, !.phase = "engine", !.results = got]
<1>3. s \in Nat /\ s >= 1 /\ s <= PipelineStages + 1
  BY <1>1
<1>4. \A q \in passed : q \in 1..(s - 1) /\ (Needed(q) => q \in PL!FallenBack(passed))
  BY <1>1, <1>2, <1>3 DEF PL!Passed, Needed, PL!FallenBack
<1>5. PL!FallenBack(passed) \subseteq 1..(s - 1)
  BY <1>4 DEF PL!FallenBack
<1>6. got \in SUBSET Nat /\ got \subseteq 1..(s - 1) /\ \A q \in 1..(s - 1) : Needed(q) => q \in got
  <2>1. run.results \subseteq 1..(first - 1) /\ \A q \in 1..(first - 1) : Needed(q) => q \in run.results
    BY DEF Through
  <2>2. 1..(first - 1) \subseteq 1..(s - 1) /\ 1..(s - 1) \subseteq Nat
    BY <1>1, <1>3
  <2>3. \A q \in 1..(s - 1) : q \in 1..(first - 1) \/ q \in passed
    BY <1>1, <1>3
  <2> QED
    BY <1>4, <1>5, <2>1, <2>2, <2>3
<1>7. at1 = there(s)
  OBVIOUS
<1> HIDE DEF got
<1>8. /\ at1 \in PipelineRun /\ at1.stage = s /\ at1.phase = "engine" /\ at1.results = got
      /\ at1.cancelled = run.cancelled /\ at1.left = run.left /\ at1.outcome = "none"
  BY <1>3, <1>6 DEF PipelineRun
<1> HIDE DEF at1
<1>9. Through(at1, 1..(s - 1))
  BY <1>6, <1>8 DEF Through
<1>10. CASE s > PipelineStages
  <2> DEFINE last == [at1 EXCEPT !.stage = PipelineStages]
  <2>1. last \in PipelineRun /\ last.results = got /\ last.cancelled = run.cancelled
    BY <1>1, <1>8 DEF PipelineRun
  <2>2. PL!Completed(r, last)
    BY <1>2, <1>7, <1>10
  <2> HIDE DEF last
  <2>3. s - 1 = PipelineStages /\ PipelineStages \in 1..PipelineStages
    BY <1>1, <1>3, <1>10
  <2>4. Through(last, 1..PipelineStages)
    BY <1>6, <2>1, <2>3 DEF Through
  <2> QED
    BY <2>1, <2>2, <2>3, <2>4, RunCompleted
<1>11. CASE s <= PipelineStages /\ \E outcome \in {"error", "timeout"} : PL!Over(r, at1, outcome)
  BY <1>8, <1>11, RunOver
<1>12. CASE s <= PipelineStages /\ PL!Goes(r, at1)
  <2>1. RunSound(at1)
    BY <1>1, <1>3, <1>8, <1>9, <1>12 DEF RunSound
  <2>2. EntersInTime(runs[r], at1)
    BY DEF EntersInTime
  <2> QED
    BY <1>8, <1>12, <2>1, <2>2, RunGoes
<1>13. CASE s <= PipelineStages /\ PL!Goes(r, [at1 EXCEPT !.phase = "delay"])
  <2> DEFINE next == [at1 EXCEPT !.phase = "delay"]
  <2>1. /\ next \in PipelineRun /\ next.phase = "delay" /\ next.stage = s /\ next.results = got
        /\ next.outcome = "none" /\ next.cancelled = run.cancelled
    BY <1>8 DEF PipelineRun
  <2> HIDE DEF next
  <2>2. RunSound(next)
    BY <1>1, <1>3, <1>6, <1>13, <2>1 DEF RunSound, Through
  <2>3. EntersInTime(runs[r], next)
    BY <2>1 DEF EntersInTime
  <2> QED
    BY <1>13, <2>1, <2>2, <2>3, RunGoes DEF next
<1>14. s <= PipelineStages => \/ \E outcome \in {"error", "timeout"} : PL!Over(r, at1, outcome)
                      \/ PL!Goes(r, at1) \/ PL!Goes(r, [at1 EXCEPT !.phase = "delay"])
  <2> SUFFICES ASSUME s <= PipelineStages PROVE \/ \E outcome \in {"error", "timeout"} : PL!Over(r, at1, outcome)
                      \/ PL!Goes(r, at1) \/ PL!Goes(r, [at1 EXCEPT !.phase = "delay"])
    OBVIOUS
  <2>1. ~(s > PipelineStages)
    BY <1>1, <1>3
  <2> HIDE DEF short
  <2> QED
    BY <1>2, <1>7, <2>1 DEF PL!GivesUp
<1> QED
  BY <1>1, <1>3, <1>10, <1>11, <1>12, <1>13, <1>14

-----------------------------------------------------------------------------
LEMMA RunNext ==
    ASSUME PL!PipelineAssumption, PipelineInv, NEW r \in Requests, NEW run \in PipelineRun,
           run.phase = "engine", run.outcome = "none",
           runs[r].cancelled = run.cancelled, runs[r].left = run.left,
           run.stage \in 1..PipelineStages, Through(run, 1..run.stage), PL!NextStage(r, run)
    PROVE  PipelineStep
<1>1. CASE run.stage = PipelineStages \/ run.cancelled \/ run.left = "none"
  BY <1>1, RunCompleted DEF PL!NextStage
<1>2. CASE ~(run.stage = PipelineStages \/ run.cancelled \/ run.left = "none")
  <2>1. PipelineStages \in Nat /\ run.stage + 1 \in 1..PipelineStages /\ (run.stage + 1) - 1 = run.stage
    BY <1>2 DEF PL!PipelineAssumption
  <2>2. PL!Dispatch(r, run, run.stage + 1)
    BY <1>2 DEF PL!NextStage
  <2> QED
    BY <1>2, <2>1, <2>2, RunDispatched
<1> QED
  BY <1>1, <1>2

LEMMA RunFailed ==
    ASSUME PL!PipelineAssumption, PipelineInv, NEW r \in Requests, NEW run \in PipelineRun,
           RunSound(run), run.phase = "engine", run.stage = runs[r].stage,
           runs[r].cancelled = run.cancelled, runs[r].left = run.left,
           NEW error \in {"error", "timeout"}, PL!Failed(r, run, error)
    PROVE  PipelineStep
<1>1. run.stage \in 1..PipelineStages /\ Through(run, 1..(run.stage - 1)) /\ run.outcome = "none"
  BY DEF RunSound
<1>2. CASE PL!Goes(r, [run EXCEPT !.phase = "delay"])
  <2> DEFINE next == [run EXCEPT !.phase = "delay"]
  <2>1. /\ next \in PipelineRun /\ next.phase = "delay" /\ next.stage = run.stage
        /\ next.results = run.results /\ next.outcome = "none" /\ next.cancelled = run.cancelled
    BY <1>1 DEF PipelineRun
  <2> HIDE DEF next
  <2>2. RunSound(next)
    BY <1>1, <2>1 DEF RunSound, Through
  <2>3. EntersInTime(runs[r], next)
    BY <2>1 DEF EntersInTime
  <2> QED
    BY <1>2, <2>1, <2>2, <2>3, RunGoes DEF next
<1>3. CASE PL!Passed(run.stage) /\ PL!NextStage(r, [run EXCEPT !.results = @ \cup PL!FallenBack({run.stage})])
  <2> DEFINE got == run.results \cup PL!FallenBack({run.stage})
             next == [run EXCEPT !.results = got]
  <2>1. /\ PL!FallenBack({run.stage}) \subseteq {run.stage}
        /\ Needed(run.stage) => run.stage \in PL!FallenBack({run.stage})
    BY <1>3 DEF PL!FallenBack, PL!Passed, Needed
  <2>2. 1..run.stage = 1..(run.stage - 1) \cup {run.stage} /\ run.stage \in Nat /\ 1..run.stage \subseteq Nat
    BY <1>1 DEF PL!PipelineAssumption
  <2>3. got \in SUBSET Nat /\ got \subseteq 1..run.stage /\ \A q \in 1..run.stage : Needed(q) => q \in got
    BY <1>1, <2>1, <2>2 DEF Through
  <2> HIDE DEF got
  <2>4. /\ next \in PipelineRun /\ next.phase = "engine" /\ next.stage = run.stage /\ next.results = got
        /\ next.outcome = "none" /\ next.cancelled = run.cancelled /\ next.left = run.left
    BY <1>1, <2>3 DEF PipelineRun
  <2>5. PL!NextStage(r, next)
    BY <1>3 DEF got
  <2> HIDE DEF next
  <2>6. Through(next, 1..next.stage)
    BY <2>3, <2>4 DEF Through
  <2> QED
    BY <1>1, <2>4, <2>5, <2>6, RunNext
<1>4. CASE PL!GivesUp(r, run, error)
  BY <1>4, RunOver DEF PL!GivesUp
<1> QED
  BY <1>2, <1>3, <1>4 DEF PL!Failed

-----------------------------------------------------------------------------
LEMMA ProcessKeeps ==
    ASSUME PL!PipelineAssumption, PipelineInv, NEW r \in Requests, PL!Process(r)
    PROVE  PipelineStep
<1> DEFINE run == [runs[r] EXCEPT !.stage = 1, !.attempts = 1, !.phase = "engine"]
<1>1. runs[r] \in PipelineRun /\ RunSound(runs[r]) /\ runs[r].phase = "idle"
  BY DEF PipelineInv, PL!Process
<1>2. /\ run \in PipelineRun /\ run.stage = 1 /\ run.phase = "engine" /\ run.results = {}
      /\ run.cancelled = runs[r].cancelled /\ run.outcome = "none"
  BY <1>1 DEF PipelineRun, RunSound
<1>3. CASE 1 \in MissingEngines
  <2>1. PL!Over(r, run, "error")
    BY <1>3 DEF PL!Process
  <2> HIDE DEF run
  <2> QED
    BY <1>2, <2>1, RunOver
<1>4. CASE 1 \notin MissingEngines
  <2>1. /\ runs' = [runs EXCEPT ![r] = run] /\ stopped' = stopped
        /\ activeRun' = [s \in DOMAIN activeRun \cup {RequestSession[r]} |->
                           IF s = RequestSession[r] THEN r ELSE activeRun[s]]
    BY <1>4 DEF PL!Process
  <2> HIDE DEF run
  <2>2. runs' \in [Requests -> PipelineRun] /\ runs'[r] = run /\ \A q \in Requests : q # r => runs'[q] = runs[q]
    BY <1>2, <2>1 DEF PipelineInv
  <2>3. RunSound(run)
    BY <1>2 DEF RunSound, Through, PL!PipelineAssumption
  <2>4. EntersInTime(runs[r], run)
    <3>1. runs[r].stage \in Nat
      BY <1>1, Standing
    <3>2. ~(run.stage > runs[r].stage /\ runs[r].stage > 0)
      BY <1>2, <3>1
    <3> QED
      BY <3>2 DEF EntersInTime
  <2>5. ASSUME NEW q \in Requests PROVE RunSound(runs'[q]) /\ EntersInTime(runs[q], runs'[q])
    <3>1. CASE q = r
      BY <2>2, <2>3, <2>4, <3>1
    <3>2. CASE q # r
      <4>1. runs[q] \in PipelineRun
        BY DEF PipelineInv
      <4> QED
        BY <2>2, <3>2, <4>1, Standing DEF PipelineInv
    <3> QED
      BY <3>1, <3>2
  <2>6. \A q \in stopped' : q \in Requests => runs'[q].cancelled
    BY <1>2, <2>1, <2>2 DEF PipelineInv
  <2>7. \A s \in DOMAIN activeRun' : activeRun'[s] \in Requests
    BY <2>1 DEF PipelineInv
  <2> QED
    BY <2>2, <2>5, <2>6, <2>7 DEF PipelineStep, PipelineInv
<1> QED
  BY <1>3, <1>4

LEMMA EngineReturnsKeeps ==
    ASSUME PL!PipelineAssumption, PipelineInv, NEW r \in Requests, PL!EngineReturns(r)
    PROVE  PipelineStep
<1> DEFINE got == runs[r].results \cup {runs[r].stage}
           next == [runs[r] EXCEPT !.results = got]
<1>1. /\ runs[r] \in PipelineRun /\ runs[r].phase = "engine" /\ runs[r].outcome = "none"
      /\ runs[r].stage \in 1..PipelineStages /\ Through(runs[r], 1..(runs[r].stage - 1))
  BY DEF PipelineInv, PL!EngineReturns, RunSound
<1>2. 1..runs[r].stage = 1..(runs[r].stage - 1) \cup {runs[r].stage} /\ 1..runs[r].stage \subseteq Nat
  BY <1>1 DEF PL!PipelineAssumption
<1>3. got \in SUBSET Nat /\ got \subseteq 1..runs[r].stage /\ \A q \in 1..runs[r].stage : Needed(q) => q \in got
  BY <1>1, <1>2 DEF Through
<1>4. PL!NextStage(r, next)
  BY DEF PL!EngineReturns, PL!Stored
<1> HIDE DEF got
<1>5. /\ next \in PipelineRun /\ next.phase = "engine" /\ next.stage = runs[r].stage
      /\ next.results = got /\ next.outcome = "none" /\ next.cancelled = runs[r].cancelled
      /\ next.left = runs[r].left
  BY <1>1, <1>3 DEF PipelineRun
<1> HIDE DEF next
<1>6. Through(next, 1..next.stage)
  BY <1>3, <1>5 DEF Through
<1> QED
  BY <1>1, <1>4, <1>5, <1>6, RunNext

LEMMA DelayEndsKeeps ==
    ASSUME PL!PipelineAssumption, PipelineInv, NEW r \in Requests, PL!DelayEnds(r)
    PROVE  PipelineStep
<1> DEFINE run == [runs[r] EXCEPT !.attempts = @ + 1, !.phase = "engine"]
<1>0. RunSound(runs[r]) /\ runs[r] \in PipelineRun /\ runs[r].phase = "delay"
  BY DEF PipelineInv, PL!DelayEnds
<1>1. runs[r].attempts + 1 \in Nat /\ runs[r].stage \in Nat
  <2>1. runs[r].attempts \in Nat /\ runs[r].stage \in Nat
    BY <1>0 DEF PipelineRun
  <2> QED
    BY <2>1
<1>2. /\ run \in PipelineRun /\ run.phase = "engine" /\ run.stage = runs[r].stage
      /\ run.results = runs[r].results /\ run.outcome = runs[r].outcome
      /\ run.cancelled = runs[r].cancelled /\ run.left = runs[r].left
  BY <1>0, <1>1 DEF PipelineRun
<1>3. PL!Goes(r, run) \/ PL!Failed(r, run, "timeout")
  BY DEF PL!DelayEnds
<1> HIDE DEF run
<1>4. RunSound(run) /\ EntersInTime(runs[r], run)
  BY <1>0, <1>1, <1>2 DEF RunSound, Through, EntersInTime
<1> QED
  BY <1>2, <1>3, <1>4, RunGoes, RunFailed

LEMMA TimePassesKeeps ==
    ASSUME PipelineInv, NEW r \in Requests, PL!TimePasses(r)
    PROVE  PipelineStep
<1>1. RunSound(runs[r]) /\ runs[r] \in PipelineRun /\ runs[r].stage \in Nat
  BY DEF PipelineInv, PipelineRun
<1> DEFINE less == IF runs[r].left = "some" THEN "under" ELSE "none"
           run == [runs[r] EXCEPT !.left = less]
<1>2. less \in {"some", "under", "none"} /\ PL!Goes(r, run)
  BY DEF PL!TimePasses
<1> HIDE DEF less
<1>3. /\ run \in PipelineRun /\ run.phase = runs[r].phase /\ run.stage = runs[r].stage
      /\ run.results = runs[r].results /\ run.outcome = runs[r].outcome
      /\ run.cancelled = runs[r].cancelled
  BY <1>1, <1>2 DEF PipelineRun
<1> HIDE DEF run
<1>4. RunSound(run) /\ EntersInTime(runs[r], run)
  BY <1>1, <1>3 DEF RunSound, Through, EntersInTime
<1> QED
  BY <1>2, <1>3, <1>4, RunGoes

LEMMA CancelSessionKeeps ==
    ASSUME PipelineInv, NEW s, PL!CancelSession(s)
    PROVE  PipelineStep
<1> DEFINE r == activeRun[s]
           run == [runs[r] EXCEPT !.cancelled = TRUE]
<1>1. r \in Requests /\ RunSound(runs[r]) /\ runs[r] \in PipelineRun /\ runs[r].stage \in Nat
  BY DEF PipelineInv, PipelineRun, PL!CancelSession
<1>2. /\ run \in PipelineRun /\ run.phase = runs[r].phase /\ run.stage = runs[r].stage
      /\ run.results = runs[r].results /\ run.outcome = runs[r].outcome /\ run.cancelled
  BY <1>1 DEF PipelineRun
<1>3. runs' = [runs EXCEPT ![r] = run] /\ stopped' = stopped \cup {r} /\ activeRun' = activeRun
  BY DEF PL!CancelSession
<1> HIDE DEF r, run
<1>4. runs' \in [Requests -> PipelineRun] /\ runs'[r] = run /\ \A q \in Requests : q # r => runs'[q] = runs[q]
  BY <1>1, <1>2, <1>3 DEF PipelineInv
<1>5. RunSound(run) /\ EntersInTime(runs[r], run)
  BY <1>1, <1>2 DEF RunSound, Through, EntersInTime
<1>6. ASSUME NEW q \in Requests PROVE RunSound(runs'[q]) /\ EntersInTime(runs[q], runs'[q])
  <2>1. CASE q = r
    BY <1>4, <1>5, <2>1
  <2>2. CASE q # r
    <3>1. runs[q] \in PipelineRun
      BY DEF PipelineInv
    <3> QED
      BY <1>4, <2>2, <3>1, Standing DEF PipelineInv
  <2> QED
    BY <2>1, <2>2
<1>7. \A q \in stopped' : q \in Requests => runs'[q].cancelled
  BY <1>2, <1>3, <1>4 DEF PipelineInv
<1> QED
  BY <1>3, <1>4, <1>6, <1>7 DEF PipelineStep, PipelineInv

-----------------------------------------------------------------------------
LEMMA PipelineInitially == PL!Init => PipelineInv
<1>1. PL!NewRun \in PipelineRun
  BY DEF PL!NewRun, PipelineRun
<1>2. RunSound(PL!NewRun)
  BY <1>1 DEF PL!NewRun, RunSound
<1> QED
  BY <1>1, <1>2 DEF PL!Init, PipelineInv

LEMMA PipelineInductive ==
    ASSUME PL!PipelineAssumption, PipelineInv, [PL!Next]_PL!pipelineVars PROVE PipelineStep
<1>1. CASE UNCHANGED PL!pipelineVars
  <2>1. \A q \in Requests : runs[q] \in PipelineRun
    BY DEF PipelineInv
  <2>2. \A q \in Requests : EntersInTime(runs[q], runs'[q])
    BY <1>1, <2>1, Standing DEF PL!pipelineVars
  <2> QED
    BY <1>1, <2>2 DEF PL!pipelineVars, PipelineStep, PipelineInv
<1>2. ASSUME NEW r \in Requests, PL!EngineRaises(r) \/ PL!EngineTimesOut(r) PROVE PipelineStep
  BY <1>2, RunFailed DEF PL!EngineRaises, PL!EngineTimesOut, PipelineInv
<1>3. ASSUME NEW r \in Requests, PL!TaskCancelled(r) PROVE PipelineStep
  BY <1>3, RunOver DEF PL!TaskCancelled, PipelineInv
<1> QED
  BY <1>1, <1>2, <1>3, ProcessKeeps, EngineReturnsKeeps, DelayEndsKeeps, TimePassesKeeps,
     CancelSessionKeeps DEF PL!Next

(* A cancelled or late request enters no further stage, and a response has   *)
(* the results of all stages but those that may fail.                        *)
THEOREM RequestsStop ==
    ASSUME PL!PipelineAssumption
    PROVE  PL!Spec => PL!StoppedGoesNoFurther
<1>1. PL!Init => PipelineInv
  BY PipelineInitially
<1>2. PipelineInv /\ [PL!Next]_PL!pipelineVars => PipelineInv'
  BY PipelineInductive DEF PipelineStep
<1>3. PipelineInv /\ [PL!Next]_PL!pipelineVars =>
        [\A r \in Requests :
          /\ runs[r].stage > 0 /\ runs'[r].stage > runs[r].stage /\ runs'[r].phase = "engine"
                => r \notin stopped /\ runs[r].left # "none"
          /\ runs'[r].outcome = "response" =>
                \A s \in 1..PipelineStages :
                    PolicyOf[s].policy # "continue" => s \in runs'[r].results]_PL!pipelineVars
  <2>1. ASSUME PipelineInv, PipelineStep, NEW r \in Requests
        PROVE  /\ runs[r].stage > 0 /\ runs'[r].stage > runs[r].stage /\ runs'[r].phase = "engine"
                     => r \notin stopped /\ runs[r].left # "none"
               /\ runs'[r].outcome = "response" =>
                     \A s \in 1..PipelineStages :
                         PolicyOf[s].policy # "continue" => s \in runs'[r].results
    BY <2>1 DEF PipelineStep, PipelineInv, EntersInTime, RunSound, Needed
  <2> QED
    BY <2>1, PipelineInductive
<1> QED
  BY <1>1, <1>2, <1>3, PTL DEF PL!Spec, PL!StoppedGoesNoFurther

-----------------------------------------------------------------------------
(***************************************************************************)
(* Versions of a workflow in memory and in the store.                      *)
(***************************************************************************)

DefinitionType == [version : DefinitionVersions, revision : Nat, status : {"draft", "published"}]

(* Each definition is under its version. *)
Filed(f) ==
    /\ DOMAIN f \subseteq DefinitionVersions
    /\ \A v \in DOMAIN f : f[v] \in DefinitionType /\ f[v].version = v

(* Outside of what plugins did, what is stored is registered as it is        *)
(* stored, so that the registry's refusal protects the store; the current    *)
(* version is a registered, published one.                                   *)
RegisteredInv ==
    /\ revision \in Nat /\ Filed(versions) /\ Filed(stored)
    /\ \A v \in DefinitionVersions \ apart :
          v \in DOMAIN versions \/ v \in DOMAIN stored =>
             v \in DOMAIN versions /\ v \in DOMAIN stored /\ versions[v] = stored[v]
    /\ current # DE!None => DE!IsPublished(current.version) /\ versions[current.version] = current

(* What a step keeps of the published versions in the store. *)
StoreKept ==
    \A v \in DOMAIN stored \ apart :
       stored[v].status = "published" =>
          DOMAIN stored' = {} \/ (v \in DOMAIN stored' /\ stored'[v] = stored[v])

DefinitionStep == RegisteredInv' /\ StoreKept

-----------------------------------------------------------------------------
LEMMA Filing ==
    ASSUME NEW f, Filed(f), NEW d \in DefinitionType
    PROVE  /\ Filed(DE!With(f, d)) /\ DOMAIN DE!With(f, d) = DOMAIN f \cup {d.version}
           /\ DE!With(f, d)[d.version] = d
           /\ \A v \in DOMAIN f : v # d.version => DE!With(f, d)[v] = f[v]
<1>1. d.version \in DefinitionVersions
  BY DEF DefinitionType
<1>2. /\ DOMAIN DE!With(f, d) = DOMAIN f \cup {d.version} /\ DE!With(f, d)[d.version] = d
      /\ \A v \in DOMAIN f : v # d.version => DE!With(f, d)[v] = f[v]
  BY DEF DE!With
<1> QED
  BY <1>1, <1>2 DEF Filed

LEMMA Unfiling ==
    ASSUME NEW f, Filed(f), NEW vs
    PROVE  /\ Filed(DE!Without(f, vs)) /\ DOMAIN DE!Without(f, vs) = DOMAIN f \ vs
           /\ \A v \in DOMAIN f \ vs : DE!Without(f, vs)[v] = f[v]
  BY DEF Filed, DE!Without

(* A definition that is not published yet goes into the registry, and, from  *)
(* a client, into the store.                                                 *)
LEMMA RegisterKeeps ==
    ASSUME RegisteredInv, NEW v \in DefinitionVersions, NEW given \in {"draft", "published"},
           DE!Drafts, DE!Register(DE!New(v, given)),
           \/ stored' = DE!With(stored, DE!New(v, given)) /\ apart' = apart \ {v}
           \/ given = "draft" /\ stored' = stored /\ apart' = apart \cup {v}
    PROVE  DefinitionStep
<1> DEFINE d == DE!New(v, given)
<1>1. d \in DefinitionType /\ d.version = v /\ d.status = given
  BY DEF DE!New, DefinitionType, RegisteredInv
<1>2. revision' \in Nat /\ versions' = DE!With(versions, d) /\ current' = current /\ ~DE!IsPublished(v)
  BY <1>1 DEF DE!Drafts, DE!Register, RegisteredInv
<1> HIDE DEF d
<1>3. /\ Filed(versions') /\ DOMAIN versions' = DOMAIN versions \cup {v} /\ versions'[v] = d
      /\ \A u \in DOMAIN versions : u # v => versions'[u] = versions[u]
  BY <1>1, <1>2, Filing DEF RegisteredInv
<1>4. v \in DOMAIN stored \ apart => stored[v].status # "published"
  BY <1>2 DEF RegisteredInv, DE!IsPublished
<1>5. current' # DE!None => DE!IsPublished(current.version)' /\ versions'[current'.version] = current'
  <2> SUFFICES ASSUME current' # DE!None
               PROVE  DE!IsPublished(current.version)' /\ versions'[current'.version] = current'
    OBVIOUS
  <2>1. DE!IsPublished(current.version) /\ versions[current.version] = current
    BY <1>2 DEF RegisteredInv
  <2>2. current.version # v /\ current.version \in DOMAIN versions
    BY <1>2, <2>1 DEF DE!IsPublished
  <2> QED
    BY <1>2, <1>3, <2>1, <2>2 DEF DE!IsPublished
<1>6. CASE stored' = DE!With(stored, d) /\ apart' = apart \ {v}
  <2>1. /\ Filed(stored') /\ DOMAIN stored' = DOMAIN stored \cup {v} /\ stored'[v] = d
        /\ \A u \in DOMAIN stored : u # v => stored'[u] = stored[u]
    <3>1. Filed(stored)
      BY DEF RegisteredInv
    <3>2. /\ Filed(DE!With(stored, d)) /\ DOMAIN DE!With(stored, d) = DOMAIN stored \cup {v}
          /\ DE!With(stored, d)[v] = d
          /\ \A u \in DOMAIN stored : u # v => DE!With(stored, d)[u] = stored[u]
      BY <1>1, <3>1, Filing
    <3> QED
      BY <1>6, <3>2
  <2>2. StoreKept
    BY <1>4, <2>1 DEF StoreKept
  <2>3. \A u \in DefinitionVersions \ apart' :
          u \in DOMAIN versions' \/ u \in DOMAIN stored' =>
             u \in DOMAIN versions' /\ u \in DOMAIN stored' /\ versions'[u] = stored'[u]
    BY <1>3, <1>6, <2>1 DEF RegisteredInv
  <2> QED
    BY <1>2, <1>3, <1>5, <2>1, <2>2, <2>3 DEF DefinitionStep, RegisteredInv
<1>7. CASE stored' = stored /\ apart' = apart \cup {v}
  <2>1. Filed(stored') /\ StoreKept
    BY <1>7 DEF RegisteredInv, StoreKept
  <2>2. \A u \in DefinitionVersions \ apart' :
          u \in DOMAIN versions' \/ u \in DOMAIN stored' =>
             u \in DOMAIN versions' /\ u \in DOMAIN stored' /\ versions'[u] = stored'[u]
    BY <1>3, <1>7 DEF RegisteredInv
  <2> QED
    BY <1>2, <1>3, <1>5, <2>1, <2>2 DEF DefinitionStep, RegisteredInv
<1> QED
  BY <1>6, <1>7 DEF d

LEMMA PublishKeeps ==
    ASSUME RegisteredInv, NEW v \in DefinitionVersions, DE!Publish(v)
    PROVE  DefinitionStep
<1> DEFINE d == [versions[v] EXCEPT !.status = "published"]
<1>1. v \in DOMAIN versions /\ versions[v] \in DefinitionType /\ versions[v].version = v
  BY DEF DE!Publish, RegisteredInv, Filed
<1>2. d \in DefinitionType /\ d.version = v /\ d.status = "published"
  BY <1>1 DEF DefinitionType
<1>3. versions[v].status = "published" => d = versions[v]
  BY <1>1 DEF DefinitionType
<1>4. /\ versions' = DE!With(versions, d) /\ current' = d /\ stored' = DE!With(stored, d)
      /\ apart' = apart \ {v} /\ revision' = revision
  BY DEF DE!Publish
<1> HIDE DEF d
<1>5. /\ Filed(versions') /\ DOMAIN versions' = DOMAIN versions \cup {v} /\ versions'[v] = d
      /\ \A u \in DOMAIN versions : u # v => versions'[u] = versions[u]
  BY <1>2, <1>4, Filing DEF RegisteredInv
<1>6. /\ Filed(stored') /\ DOMAIN stored' = DOMAIN stored \cup {v} /\ stored'[v] = d
      /\ \A u \in DOMAIN stored : u # v => stored'[u] = stored[u]
  BY <1>2, <1>4, Filing DEF RegisteredInv
<1>7. v \in DOMAIN stored \ apart /\ stored[v].status = "published" => stored[v] = d
  BY <1>3 DEF RegisteredInv
<1>8. StoreKept
  BY <1>6, <1>7 DEF StoreKept
<1>9. DE!IsPublished(current.version)' /\ versions'[current'.version] = current'
  BY <1>2, <1>4, <1>5 DEF DE!IsPublished
<1>10. \A u \in DefinitionVersions \ apart' :
          u \in DOMAIN versions' \/ u \in DOMAIN stored' =>
             u \in DOMAIN versions' /\ u \in DOMAIN stored' /\ versions'[u] = stored'[u]
  BY <1>4, <1>5, <1>6 DEF RegisteredInv
<1> QED
  BY <1>4, <1>5, <1>6, <1>8, <1>9, <1>10 DEF DefinitionStep, RegisteredInv

(* A version that is not published leaves the registry and the store. *)
LEMMA DeleteVersionKeeps ==
    ASSUME RegisteredInv, NEW v \in DefinitionVersions, DE!DeleteVersion(v)
    PROVE  DefinitionStep
<1>1. /\ ~DE!IsPublished(v) /\ versions' = DE!Without(versions, {v}) /\ current' = current
      /\ revision' = revision /\ stored' = DE!Without(stored, {v}) /\ apart' = apart \ {v}
  BY DEF DE!DeleteVersion
<1>2. /\ Filed(versions') /\ DOMAIN versions' = DOMAIN versions \ {v}
      /\ \A u \in DOMAIN versions \ {v} : versions'[u] = versions[u]
  <2>1. Filed(versions)
    BY DEF RegisteredInv
  <2>2. /\ Filed(DE!Without(versions, {v})) /\ DOMAIN DE!Without(versions, {v}) = DOMAIN versions \ {v}
       /\ \A u \in DOMAIN versions \ {v} : DE!Without(versions, {v})[u] = versions[u]
    BY <2>1, Unfiling
  <2> QED
    BY <1>1, <2>2
<1>3. v \in DOMAIN stored \ apart => stored[v].status # "published"
  BY <1>1 DEF RegisteredInv, DE!IsPublished
<1>4. current' # DE!None => DE!IsPublished(current.version)' /\ versions'[current'.version] = current'
  <2> SUFFICES ASSUME current' # DE!None
               PROVE  DE!IsPublished(current.version)' /\ versions'[current'.version] = current'
    OBVIOUS
  <2>1. DE!IsPublished(current.version) /\ versions[current.version] = current
    BY <1>1 DEF RegisteredInv
  <2>2. current.version # v /\ current.version \in DOMAIN versions
    BY <1>1, <2>1 DEF DE!IsPublished
  <2> QED
    BY <1>1, <1>2, <2>1, <2>2 DEF DE!IsPublished
<1>5. /\ Filed(stored') /\ DOMAIN stored' = DOMAIN stored \ {v}
      /\ \A u \in DOMAIN stored \ {v} : stored'[u] = stored[u]
  <2>1. Filed(stored)
    BY DEF RegisteredInv
  <2>2. /\ Filed(DE!Without(stored, {v})) /\ DOMAIN DE!Without(stored, {v}) = DOMAIN stored \ {v}
       /\ \A u \in DOMAIN stored \ {v} : DE!Without(stored, {v})[u] = stored[u]
    BY <2>1, Unfiling
  <2> QED
    BY <1>1, <2>2
<1>6. StoreKept
  BY <1>3, <1>5 DEF StoreKept
<1>7. \A u \in DefinitionVersions \ apart' :
          u \in DOMAIN versions' \/ u \in DOMAIN stored' =>
             u \in DOMAIN versions' /\ u \in DOMAIN stored' /\ versions'[u] = stored'[u]
  BY <1>1, <1>2, <1>5 DEF RegisteredInv
<1> QED
  BY <1>1, <1>2, <1>4, <1>5, <1>6, <1>7 DEF DefinitionStep, RegisteredInv

(* With a plugin, every version leaves the registry; what stays in the store *)
(* is apart from it.                                                         *)
LEMMA PluginRemovesKeeps ==
    ASSUME RegisteredInv, NEW v \in DefinitionVersions, DE!PluginRemoves(v)
    PROVE  DefinitionStep
<1>1. /\ versions' = DE!Without(versions, DefinitionVersions) /\ current' = DE!None
      /\ stored' = stored /\ apart' = DOMAIN stored /\ revision' = revision
  BY DEF DE!PluginRemoves
<1>2. Filed(versions) /\ DOMAIN versions \subseteq DefinitionVersions
  BY DEF RegisteredInv, Filed
<1>3. /\ Filed(DE!Without(versions, DefinitionVersions))
      /\ DOMAIN DE!Without(versions, DefinitionVersions) = DOMAIN versions \ DefinitionVersions
  BY <1>2, Unfiling
<1>4. Filed(versions') /\ DOMAIN versions' = {}
  BY <1>1, <1>2, <1>3
<1> QED
  BY <1>1, <1>4 DEF DefinitionStep, StoreKept, RegisteredInv

LEMMA DeleteAllKeeps == ASSUME RegisteredInv, DE!DeleteAll PROVE DefinitionStep
<1>1. /\ versions' = DE!Without(versions, DefinitionVersions) /\ stored' = DE!Without(stored, DefinitionVersions)
      /\ current' = DE!None /\ apart' = {} /\ revision' = revision
  BY DEF DE!DeleteAll
<1>2. Filed(versions) /\ Filed(stored) /\ DOMAIN versions \subseteq DefinitionVersions /\ DOMAIN stored \subseteq DefinitionVersions
  BY DEF RegisteredInv, Filed
<1>3. /\ Filed(DE!Without(versions, DefinitionVersions)) /\ DOMAIN DE!Without(versions, DefinitionVersions) = DOMAIN versions \ DefinitionVersions
      /\ Filed(DE!Without(stored, DefinitionVersions)) /\ DOMAIN DE!Without(stored, DefinitionVersions) = DOMAIN stored \ DefinitionVersions
  BY <1>2, Unfiling
<1>4. Filed(versions') /\ DOMAIN versions' = {} /\ Filed(stored') /\ DOMAIN stored' = {}
  BY <1>1, <1>2, <1>3
<1> QED
  BY <1>1, <1>4 DEF DefinitionStep, StoreKept, RegisteredInv

LEMMA RestartKeeps == ASSUME RegisteredInv, DE!Restart PROVE DefinitionStep
  BY DEF DE!Restart, DefinitionStep, StoreKept, RegisteredInv

LEMMA DefinitionsInitially == DE!Init => RegisteredInv
  BY DEF DE!Init, RegisteredInv, Filed

LEMMA DefinitionsInductive == ASSUME RegisteredInv, [DE!Next]_DE!definitionVars PROVE DefinitionStep
<1>1. CASE UNCHANGED DE!definitionVars
  BY <1>1 DEF DE!definitionVars, DefinitionStep, StoreKept, RegisteredInv, DE!IsPublished
<1>2. ASSUME NEW v \in DefinitionVersions, NEW given \in {"draft", "published"}, DE!Create(v, given) PROVE DefinitionStep
  BY <1>2, RegisterKeeps DEF DE!Create
<1>3. ASSUME NEW v \in DefinitionVersions, DE!PluginRegisters(v) PROVE DefinitionStep
  BY <1>3, RegisterKeeps DEF DE!PluginRegisters
<1> QED
  BY <1>1, <1>2, <1>3, PublishKeeps, DeleteVersionKeeps, PluginRemovesKeeps, DeleteAllKeeps, RestartKeeps
     DEF DE!Next

(* The version of a workflow that is published and stored stays as it is, as *)
(* long as no plugin has taken the workflow out of the registry.             *)
THEOREM VersionsKeptHolds == DE!Spec => DE!DefinitionsKept
<1>1. DE!Init => RegisteredInv
  BY DefinitionsInitially
<1>2. RegisteredInv /\ [DE!Next]_DE!definitionVars => RegisteredInv'
  BY DefinitionsInductive DEF DefinitionStep
<1>3. RegisteredInv /\ [DE!Next]_DE!definitionVars => [DE!Keeps]_DE!definitionVars
  <2> SUFFICES ASSUME DefinitionStep PROVE DE!Keeps
    BY DefinitionsInductive
  <2>1. current' # DE!None => DE!Latest' = current'
    BY DEF DE!Latest
  <2> QED
    BY <2>1 DEF DE!Keeps, DefinitionStep, StoreKept, RegisteredInv
<1> QED
  BY <1>1, <1>2, <1>3, PTL DEF DE!Spec, DE!DefinitionsKept

-----------------------------------------------------------------------------
(***************************************************************************)
(* Documents in files.                                                     *)
(***************************************************************************)

(* The document and the operation under way are those of the store in memory. *)
DocumentInv ==
    storing # "events" =>
       /\ file = memory
       /\ pending # ST!None => pending[1].file = pending[1].memory

LEMMA SameItem ==
    ASSUME file = memory, NEW id, NEW item, NEW op, op = ST!SaveItem(id, item)
    PROVE  op.file = op.memory
  BY DEF ST!SaveItem

(* What an operation makes of two equal documents are equal documents. *)
LEMMA SameOperation ==
    ASSUME storing \in {"definitions", "runs", "schedules"}, file = memory, NEW op \in ST!Operations
    PROVE  op.file = op.memory
<1>3. CASE storing = "definitions"
  <2>1. \/ \E w \in DocumentIds, v \in Versions, s \in ST!Statuses : op = ST!SaveDefinition(w, v, s)
        \/ \E w \in DocumentIds : op = ST!DeleteItem(w)
        \/ \E w \in DocumentIds, v \in Versions : op = ST!DeleteVersion(w, v)
    BY <1>3 DEF ST!Operations
  <2> QED
    BY <2>1 DEF ST!SaveDefinition, ST!DeleteItem, ST!DeleteVersion
<1>4. CASE storing = "runs"
  <2>1. \/ \E id \in DocumentIds, s \in ST!RunStatuses :
              op = ST!SaveItem(id, IF ST!Has(file, id) THEN [ST!Value(file, id) EXCEPT !.status = s]
                                ELSE [status |-> s, idempotency |-> "k", created |-> writes \div 2])
        \/ \E id \in DocumentIds : op = ST!DeleteItem(id)
    BY <1>4 DEF ST!Operations
  <2> QED
    <3>1. ASSUME NEW id \in DocumentIds, op = ST!DeleteItem(id) PROVE op.file = op.memory
      BY <3>1 DEF ST!DeleteItem
    <3> QED
      BY <2>1, <3>1, SameItem
<1>5. CASE storing = "schedules"
  <2>1. \/ \E id \in DocumentIds, e \in BOOLEAN : op = ST!SaveItem(id, [enabled |-> e])
        \/ \E id \in DocumentIds : op = ST!DeleteItem(id)
    BY <1>5 DEF ST!Operations
  <2> QED
    <3>1. ASSUME NEW id \in DocumentIds, op = ST!DeleteItem(id) PROVE op.file = op.memory
      BY <3>1 DEF ST!DeleteItem
    <3> QED
      BY <2>1, <3>1, SameItem
<1> QED
  BY <1>3, <1>4, <1>5

LEMMA DocumentInitially == ST!Init => DocumentInv /\ storing \in {"definitions", "runs", "schedules", "events"}
  BY DEF ST!Init, DocumentInv

LEMMA DocumentInductive ==
    ASSUME DocumentInv, storing \in {"definitions", "runs", "schedules", "events"}, [ST!Next]_ST!vars
    PROVE  DocumentInv' /\ storing' \in {"definitions", "runs", "schedules", "events"}
<1>1. CASE UNCHANGED ST!vars
  BY <1>1 DEF ST!vars, DocumentInv
<1>2. CASE ST!Begin
  <2>1. PICK op \in ST!Operations : pending' = <<op>>
    BY <1>2 DEF ST!Begin
  <2>2. storing' = storing /\ file' = file /\ memory' = memory
    BY <1>2 DEF ST!Begin
  <2>3. storing # "events" => op.file = op.memory
    BY SameOperation DEF DocumentInv
  <2> QED
    BY <2>1, <2>2, <2>3 DEF DocumentInv
<1>3. CASE ST!Dump
  BY <1>3 DEF ST!Dump, DocumentInv
<1>4. CASE ST!DumpRaises
  BY <1>4 DEF ST!DumpRaises, DocumentInv
<1>5. CASE ST!Replace
  BY <1>5 DEF ST!Replace, DocumentInv
<1>6. CASE ST!Crash
  BY <1>6 DEF ST!Crash, DocumentInv
<1> QED
  BY <1>1, <1>2, <1>3, <1>4, <1>5, <1>6 DEF ST!Next

(* A crash or an exception at any point leaves in the file what operations   *)
(* that returned have made.                                                  *)
THEOREM FileKeptHolds == ST!Spec => []ST!FileKept
<1> DEFINE Inv == DocumentInv /\ storing \in {"definitions", "runs", "schedules", "events"}
<1>1. ST!Init => Inv
  BY DocumentInitially
<1>2. Inv /\ [ST!Next]_ST!vars => Inv'
  BY DocumentInductive
<1>3. Inv => ST!FileKept
  BY DEF DocumentInv, ST!FileKept
<1> QED
  BY <1>1, <1>2, <1>3, PTL DEF ST!Spec

-----------------------------------------------------------------------------
(***************************************************************************)
(* Snapshots of sessions.                                                  *)
(***************************************************************************)

Snapshots(f) == \A id \in DOMAIN f : f[id] \in Nat /\ 0 < f[id] /\ f[id] <= count

Busy == torn \cup (IF writing = SE!None THEN {} ELSE {writing[1]})

(* While a save is under way its snapshot is the session's; a file without a *)
(* snapshot is one that is being written or was cut short; no session in     *)
(* memory is older than its last save.                                       *)
SnapshotInv ==
    /\ count \in Nat /\ Snapshots(sessions) /\ Snapshots(saved)
    /\ writing # SE!None =>
          \E id \in DOMAIN sessions : writing = <<id, sessions[id]>>
    /\ \A id \in DOMAIN files :
          files[id] = 0 \/ (id \notin Busy /\ id \in DOMAIN saved /\ files[id] = saved[id])
    /\ \A id \in DOMAIN files : files[id] = 0 => id \in Busy
    /\ \A id \in DOMAIN saved : id \in DOMAIN files
    /\ \A id \in DOMAIN saved : id \in DOMAIN sessions => sessions[id] >= saved[id]

-----------------------------------------------------------------------------
(* A new snapshot of a session, newer than all. *)
LEMMA SnapshotKeeps ==
    ASSUME SnapshotInv, NEW id, SE!Register(id) \/ SE!Update(id)
    PROVE  SnapshotInv'
<1>1. /\ writing = SE!None /\ writing' = SE!None /\ sessions' = SE!With(sessions, id, count + 1)
      /\ count' = count + 1 /\ files' = files /\ saved' = saved /\ torn' = torn
  BY DEF SE!Register, SE!Update
<1>2. /\ DOMAIN sessions' = DOMAIN sessions \cup {id} /\ sessions'[id] = count + 1
      /\ \A x \in DOMAIN sessions : x # id => sessions'[x] = sessions[x]
  BY <1>1 DEF SE!With
<1>3. count \in Nat /\ Snapshots(sessions) /\ Snapshots(saved)
  BY DEF SnapshotInv
<1>4. count' \in Nat /\ Snapshots(sessions)' /\ Snapshots(saved)'
  BY <1>1, <1>2, <1>3 DEF Snapshots
<1>5. \A x \in DOMAIN saved' : x \in DOMAIN sessions' => sessions'[x] >= saved'[x]
  BY <1>1, <1>2, <1>3 DEF SnapshotInv, Snapshots
<1> QED
  BY <1>1, <1>4, <1>5 DEF SnapshotInv, Busy

LEMMA PersistKeeps ==
    ASSUME SnapshotInv, NEW id, SE!Persist(id)
    PROVE  SnapshotInv'
<1>1. /\ writing = SE!None /\ id \in DOMAIN sessions /\ files' = SE!With(files, id, 0)
      /\ writing' = <<id, sessions[id]>> /\ sessions' = sessions /\ count' = count
      /\ saved' = saved /\ torn' = torn
  BY DEF SE!Persist
<1>2. /\ DOMAIN files' = DOMAIN files \cup {id} /\ files'[id] = 0
      /\ \A x \in DOMAIN files : x # id => files'[x] = files[x]
  BY <1>1 DEF SE!With
<1>3. Busy = torn /\ Busy' = torn \cup {id}
  BY <1>1 DEF Busy, SE!None
<1>4. /\ \A x \in DOMAIN files' :
            files'[x] = 0 \/ (x \notin Busy' /\ x \in DOMAIN saved' /\ files'[x] = saved'[x])
      /\ \A x \in DOMAIN files' : files'[x] = 0 => x \in Busy'
  BY <1>1, <1>2, <1>3 DEF SnapshotInv
<1>5. Snapshots(sessions)' /\ Snapshots(saved)'
  BY <1>1 DEF SnapshotInv, Snapshots
<1> QED
  BY <1>1, <1>2, <1>4, <1>5 DEF SnapshotInv

LEMMA WriteEndsKeeps == ASSUME SnapshotInv, SE!WriteEnds PROVE SnapshotInv'
<1>1. writing # SE!None
  BY DEF SE!WriteEnds
<1>2. PICK id \in DOMAIN sessions : writing = <<id, sessions[id]>>
  BY <1>1 DEF SnapshotInv
<1>3. /\ files' = SE!With(files, id, sessions[id]) /\ saved' = SE!With(saved, id, sessions[id])
      /\ torn' = torn \ {id} /\ writing' = SE!None /\ sessions' = sessions /\ count' = count
  BY <1>2 DEF SE!WriteEnds
<1>4. /\ DOMAIN files' = DOMAIN files \cup {id} /\ files'[id] = sessions[id]
      /\ \A x \in DOMAIN files : x # id => files'[x] = files[x]
  BY <1>3 DEF SE!With
<1>5. /\ DOMAIN saved' = DOMAIN saved \cup {id} /\ saved'[id] = sessions[id]
      /\ \A x \in DOMAIN saved : x # id => saved'[x] = saved[x]
  BY <1>3 DEF SE!With
<1>6. Busy = torn \cup {id} /\ Busy' = torn \ {id}
  BY <1>1, <1>2, <1>3 DEF Busy
<1>7. count \in Nat /\ Snapshots(sessions) /\ Snapshots(saved)
  BY DEF SnapshotInv
<1>8. sessions[id] \in Nat /\ sessions[id] > 0
  BY <1>7 DEF Snapshots
<1>9. Snapshots(sessions)' /\ Snapshots(saved)'
  BY <1>3, <1>5, <1>7 DEF Snapshots
<1>10. /\ \A x \in DOMAIN files' :
             files'[x] = 0 \/ (x \notin Busy' /\ x \in DOMAIN saved' /\ files'[x] = saved'[x])
       /\ \A x \in DOMAIN files' : files'[x] = 0 => x \in Busy'
  BY <1>4, <1>5, <1>6, <1>8 DEF SnapshotInv
<1>11. \A x \in DOMAIN saved' : x \in DOMAIN sessions' => sessions'[x] >= saved'[x]
  BY <1>3, <1>5, <1>8 DEF SnapshotInv
<1>12. \A x \in DOMAIN saved' : x \in DOMAIN files'
  BY <1>4, <1>5 DEF SnapshotInv
<1> QED
  BY <1>3, <1>7, <1>9, <1>10, <1>11, <1>12 DEF SnapshotInv

LEMMA RemoveKeeps == ASSUME SnapshotInv, NEW id, SE!Remove(id) PROVE SnapshotInv'
<1>1. /\ writing = SE!None /\ writing' = SE!None /\ sessions' = SE!Without(sessions, id)
      /\ count' = count /\ files' = files /\ saved' = saved /\ torn' = torn
  BY DEF SE!Remove
<1>2. /\ DOMAIN sessions' = DOMAIN sessions \ {id}
      /\ \A x \in DOMAIN sessions \ {id} : sessions'[x] = sessions[x]
  BY <1>1 DEF SE!Without
<1>3. Snapshots(sessions)' /\ Snapshots(saved)'
  BY <1>1, <1>2 DEF SnapshotInv, Snapshots
<1> QED
  BY <1>1, <1>2, <1>3 DEF SnapshotInv, Busy

LEMMA DeleteKeeps == ASSUME SnapshotInv, NEW id, SE!Delete(id) PROVE SnapshotInv'
<1>1. /\ writing = SE!None /\ writing' = SE!None /\ sessions' = SE!Without(sessions, id)
      /\ count' = count /\ files' = SE!Without(files, id) /\ saved' = SE!Without(saved, id)
      /\ torn' = torn \ {id}
  BY DEF SE!Delete
<1>2. /\ DOMAIN sessions' = DOMAIN sessions \ {id}
      /\ \A x \in DOMAIN sessions \ {id} : sessions'[x] = sessions[x]
  BY <1>1 DEF SE!Without
<1>3. /\ DOMAIN files' = DOMAIN files \ {id}
      /\ \A x \in DOMAIN files \ {id} : files'[x] = files[x]
  BY <1>1 DEF SE!Without
<1>4. /\ DOMAIN saved' = DOMAIN saved \ {id}
      /\ \A x \in DOMAIN saved \ {id} : saved'[x] = saved[x]
  BY <1>1 DEF SE!Without
<1>5. Busy = torn /\ Busy' = torn \ {id}
  BY <1>1 DEF Busy
<1>6. Snapshots(sessions)' /\ Snapshots(saved)'
  BY <1>1, <1>2, <1>4 DEF SnapshotInv, Snapshots
<1> QED
  BY <1>1, <1>2, <1>3, <1>4, <1>5, <1>6 DEF SnapshotInv

LEMMA LoadAllKeeps == ASSUME SnapshotInv, SE!LoadAll PROVE SnapshotInv'
<1>1. /\ writing = SE!None /\ writing' = SE!None /\ count' = count /\ files' = files
      /\ saved' = saved /\ torn' = torn
      /\ DOMAIN sessions' = DOMAIN sessions \cup SE!Listed
      /\ \A x \in DOMAIN sessions : sessions'[x] = sessions[x]
      /\ \A x \in SE!Listed \ DOMAIN sessions : sessions'[x] = files[x]
  BY DEF SE!LoadAll
<1>2. \A x \in SE!Listed : x \in DOMAIN saved /\ files[x] = saved[x]
  BY DEF SE!Listed, SnapshotInv
<1>3. count \in Nat /\ Snapshots(sessions) /\ Snapshots(saved)
  BY DEF SnapshotInv
<1>4. Snapshots(sessions)' /\ Snapshots(saved)'
  BY <1>1, <1>2, <1>3 DEF Snapshots
<1>5. \A x \in DOMAIN saved' : x \in DOMAIN sessions' => sessions'[x] >= saved'[x]
  BY <1>1, <1>2, <1>3 DEF SnapshotInv, Snapshots
<1> QED
  BY <1>1, <1>4, <1>5 DEF SnapshotInv, Busy

LEMMA CrashKeeps == ASSUME SnapshotInv, SE!Crash PROVE SnapshotInv'
<1>1. /\ sessions' = SE!Empty /\ DOMAIN sessions' = {} /\ writing' = SE!None /\ files' = files
      /\ count' = count /\ saved' = saved
  BY DEF SE!Crash, SE!Empty
<1>2. Busy' = Busy
  BY <1>1 DEF SE!Crash, Busy
<1>3. Snapshots(sessions)' /\ Snapshots(saved)'
  BY <1>1 DEF SnapshotInv, Snapshots
<1> QED
  BY <1>1, <1>2, <1>3 DEF SnapshotInv

LEMMA SnapshotsInitially == SE!Init => SnapshotInv
  BY DEF SE!Init, SE!Empty, SnapshotInv, Snapshots, Busy

LEMMA SnapshotsInductive == ASSUME SnapshotInv, [SE!Next]_SE!vars PROVE SnapshotInv'
<1>1. CASE UNCHANGED SE!vars
  BY <1>1 DEF SE!vars, SnapshotInv, Snapshots, Busy
<1> QED
  BY <1>1, SnapshotKeeps, PersistKeeps, WriteEndsKeeps, RemoveKeeps, DeleteKeeps, LoadAllKeeps,
     CrashKeeps DEF SE!Next

(* A crash at any point leaves the snapshots of the sessions that were saved. *)
THEOREM SessionsKeptHolds == SE!Spec => []SE!SessionsKept
<1>1. SE!Init => SnapshotInv
  BY SnapshotsInitially
<1>2. SnapshotInv /\ [SE!Next]_SE!vars => SnapshotInv'
  BY SnapshotsInductive
<1>3. SnapshotInv => SE!SessionsKept
  BY DEF SnapshotInv, SE!SessionsKept, Busy, SE!Listed
<1> QED
  BY <1>1, <1>2, <1>3, PTL DEF SE!Spec

-----------------------------------------------------------------------------
(* The tables of the plugin manager agree, and a plugin leaves nothing       *)
(* behind (PluginManager).                                                   *)
THEOREM PluginsSoundHolds == Components => []PluginsSound
<1>1. Components => []PM!RegistryConsistent
  BY RegistryConsistentHolds, PlatformAssumption DEF Components
<1>2. Components => []PM!NothingLeftBehind
  BY NothingLeftBehindHolds, PlatformAssumption DEF Components
<1> QED
  BY <1>1, <1>2, PTL DEF PluginsSound

(* The hooks of start-up and of the stop begin at most once and in order,    *)
(* however many tasks stop the application (Lifecycle).                      *)
THEOREM StopsOnceHolds == Components => StopsOnce
  BY LifecycleStopsOnce DEF Components, StopsOnce

(* A cancelled or late request enters no further stage, and a response is    *)
(* given only for a run whose stages left their results (Pipeline).          *)
THEOREM StoppedGoesNoFurtherHolds == Components => StoppedGoesNoFurther
  BY RequestsStop, PlatformAssumption DEF Components, StoppedGoesNoFurther

(* What is published stays as it is in the store while the registry has it,  *)
(* and the files hold what the operations that returned have made, whatever  *)
(* crashes (WorkflowDefinitions, WorkflowStores, SessionStore).              *)
THEOREM DefinitionsKeptHolds == Components => DefinitionsKept
<1>1. Components => DE!DefinitionsKept
  BY VersionsKeptHolds DEF Components
<1>2. Components => []ST!FileKept
  BY FileKeptHolds DEF Components
<1>3. Components => []SE!SessionsKept
  BY SessionsKeptHolds DEF Components
<1> QED
  BY <1>1, <1>2, <1>3 DEF DefinitionsKept

-----------------------------------------------------------------------------
(***************************************************************************)
(* The graph of a workflow, of any size.  The provers have no induction, so *)
(* the lemmas first derive one from the least element of a set of numbers,  *)
(* and with it that what is defined by recursion exists.                    *)
(***************************************************************************)

(* Every set of numbers that has an element has a least one.                 *)
LEMMA Least ==
    ASSUME NEW S \in SUBSET Nat, NEW m \in S
    PROVE  \E n \in S : \A k \in S : n <= k
<1> DEFINE segments == {1 .. n : n \in {k \in S : k <= m}}
<1>1. segments \subseteq FiniteSubsetsOf(1 .. m) /\ segments # {}
  <2>1. IsFiniteSet(1 .. m)
    BY FS_Interval
  <2>2. FiniteSubsetsOf(1 .. m) = SUBSET (1 .. m)
    BY <2>1, FS_FiniteSubsetsOfFinite
  <2> QED
    BY <2>2
<1>2. PICK x \in segments : \A y \in segments : ~ (<<y, x>> \in StrictSubsetOrdering(1 .. m))
  BY <1>1, WFMin, FS_StrictSubsetOrderingWellFounded
<1>3. PICK n \in S : n <= m /\ x = 1 .. n
  BY <1>2
<1>4. ASSUME NEW k \in S, k < n PROVE FALSE
  <2>1. 1 .. k \in segments
    BY <1>3, <1>4
  <2>2. 1 .. k \subseteq 1 .. n /\ 1 .. k # 1 .. n /\ 1 .. k \subseteq 1 .. m /\ 1 .. n \subseteq 1 .. m
    BY <1>3, <1>4
  <2> QED
    BY <1>2, <1>3, <2>1, <2>2 DEF StrictSubsetOrdering
<1> QED
  BY <1>3, <1>4

(* Induction up to a bound, over a set that is given in place of a predicate. *)
Climbs(n, S) == 0 \in S /\ \A k \in 1 .. n : k - 1 \in S => k \in S

LEMMA Climb ==
    ASSUME NEW n \in Nat, NEW S, Climbs(n, S)
    PROVE  \A k \in 0 .. n : k \in S
<1> DEFINE out == {k \in 0 .. n : k \notin S}
<1>1. SUFFICES ASSUME out # {} PROVE FALSE
  OBVIOUS
<1>2. PICK m \in out : \A k \in out : m <= k
  <2>1. out \in SUBSET Nat
    OBVIOUS
  <2> QED
    BY <1>1, <2>1, Least
<1>3. m \in 1 .. n /\ m - 1 \in 0 .. n /\ ~ (m <= m - 1)
  BY DEF Climbs
<1>4. m - 1 \notin out
  BY <1>2, <1>3
<1> QED
  BY <1>3, <1>4 DEF Climbs

(* A function that is defined by recursion up to a bound, each step of which  *)
(* stays in X: there is one, and no other has the same first value and steps.  *)
Recurs(f, n, start, step) == f[0] = start /\ \A i \in 1 .. n : f[i] = step[i][f[i - 1]]

LEMMA Recursion ==
    ASSUME NEW n \in Nat, NEW X, NEW start \in X, NEW step \in [1 .. n -> [X -> X]]
    PROVE  \E f \in [0 .. n -> X] : Recurs(f, n, start, step)
<1> DEFINE Good(k, f) == Recurs(f, k, start, step)
           S == {k \in 0 .. n : \E f \in [0 .. k -> X] : Good(k, f)}
<1>1. 0 \in S
  <2> DEFINE f == [i \in 0 .. 0 |-> start]
  <2>1. f \in [0 .. 0 -> X] /\ Good(0, f) /\ 0 \in 0 .. n
    BY DEF Recurs
  <2> HIDE DEF f, Good
  <2> QED
    BY <2>1
<1>2. ASSUME NEW k \in 1 .. n, k - 1 \in S PROVE k \in S
  <2>1. PICK f \in [0 .. k - 1 -> X] : Good(k - 1, f)
    BY <1>2
  <2> DEFINE g == [i \in 0 .. k |-> IF i < k THEN f[i] ELSE step[k][f[k - 1]]]
  <2>2. k \in Nat /\ k - 1 \in 0 .. (k - 1) /\ step[k] \in [X -> X]
    OBVIOUS
  <2>3. \A i \in 0 .. k : g[i] \in X
    BY <2>1, <2>2 DEF Recurs
  <2>4. g[0] = start
    BY <2>1, <2>2 DEF Recurs
  <2>5. ASSUME NEW i \in 1 .. k PROVE g[i] = step[i][g[i - 1]]
    <3>1. CASE i = k
      BY <2>2, <3>1
    <3>2. CASE i # k
      <4>1. i \in 1 .. (k - 1) /\ i - 1 \in 0 .. (k - 1)
        BY <2>2, <3>2
      <4>2. g[i] = f[i] /\ g[i - 1] = f[i - 1]
        BY <2>2, <4>1
      <4> QED
        BY <2>1, <4>1, <4>2 DEF Recurs
    <3> QED
      BY <3>1, <3>2
  <2>6. g \in [0 .. k -> X]
    BY <2>3
  <2> HIDE DEF g
  <2>7. Good(k, g) /\ k \in 0 .. n
    BY <2>2, <2>4, <2>5 DEF Recurs
  <2> HIDE DEF Good
  <2> QED
    BY <2>6, <2>7
<1>3. Climbs(n, S)
  BY <1>1, <1>2 DEF Climbs
<1>4. n \in S
  <2> HIDE DEF S
  <2> QED
    BY <1>3, Climb
<1> QED
  BY <1>4

(* A function with that first value and those steps is that one.             *)
LEMMA SameRecursion ==
    ASSUME NEW n \in Nat, NEW X, NEW step \in [1 .. n -> [X -> X]], NEW f \in [0 .. n -> X], NEW g,
           Recurs(f, n, g[0], step),
           \A i \in 1 .. n : g[i - 1] \in X => g[i] = step[i][g[i - 1]]
    PROVE  \A i \in 0 .. n : g[i] = f[i] /\ g[i] \in X
<1> DEFINE S == {i \in 0 .. n : g[i] = f[i] /\ g[i] \in X}
<1>1. 0 \in S
  BY DEF Recurs
<1>2. ASSUME NEW k \in 1 .. n, k - 1 \in S PROVE k \in S
  BY <1>2 DEF Recurs
<1> HIDE DEF S
<1>3. Climbs(n, S)
  BY <1>1, <1>2 DEF Climbs
<1>4. \A k \in 0 .. n : k \in S
  BY <1>3, Climb
<1> USE DEF S
<1> QED
  BY <1>4

(* f holds what is kept of the first i steps.                                *)
KeptBy(f, order, chosen) ==
    /\ f[0] = <<>>
    /\ \A i \in 1 .. Len(order) :
          f[i] = IF order[i] \in chosen THEN Append(f[i - 1], order[i]) ELSE f[i - 1]
    /\ Kept(order, chosen) = f[Len(order)]

(* There is such a function, so Kept is its last value.                      *)
LEMMA KeptRecursion ==
    ASSUME NEW S, NEW order \in Seq(S), NEW chosen
    PROVE  \E f \in [0 .. Len(order) -> Seq(S)] : KeptBy(f, order, chosen)
<1> DEFINE n == Len(order)
           X == Seq(S)
           empty == <<>>
           Next(i, x) == IF order[i] \in chosen THEN Append(x, order[i]) ELSE x
           step == [i \in 1 .. n |-> [x \in X |-> Next(i, x)]]
           Good(f) == f = [i \in 0 .. n |-> IF i = 0 THEN empty ELSE Next(i, f[i - 1])]
<1>1. n \in Nat /\ empty \in X
  OBVIOUS
<1>2. step \in [1 .. n -> [X -> X]]
  OBVIOUS
<1>3. \A i \in 1 .. n, x \in X : step[i][x] = Next(i, x)
  BY Zenon
<1> HIDE DEF X, empty, n, step, Next
<1>4. PICK f \in [0 .. n -> X] : Recurs(f, n, empty, step)
  BY <1>1, <1>2, Recursion
<1>5. \A i \in 1 .. n : i - 1 \in 0 .. n /\ f[i - 1] \in X /\ i # 0
  BY <1>1, <1>4
<1>6. \A i \in 0 .. n : f[i] = IF i = 0 THEN empty ELSE Next(i, f[i - 1])
  <2> TAKE i \in 0 .. n
  <2>1. i = 0 \/ i \in 1 .. n
    BY <1>1
  <2> QED
    BY <1>3, <1>4, <1>5, <2>1 DEF Recurs
<1>7. Good(f)
  BY <1>6, <1>4, Zenon
<1>8. PICK g : g = (CHOOSE h : Good(h))
  OBVIOUS
<1>9. Good(g)
  BY <1>7, <1>8, Zenon
<1>10. Kept(order, chosen) = g[n]
  BY <1>8, Zenon DEF Kept, n, Next, empty
<1>11. g[0] = empty /\ \A i \in 1 .. n : g[i] = Next(i, g[i - 1])
  BY <1>1, <1>9
<1>12. \A i \in 0 .. n : g[i] = f[i] /\ g[i] \in X
  <2>2. \A i \in 1 .. n : g[i - 1] \in X => g[i] = step[i][g[i - 1]]
    BY <1>3, <1>11
  <2>3. g[0] = empty
    BY <1>11
  <2> QED
    BY <1>1, <1>2, <1>4, <2>2, <2>3, SameRecursion
<1>13. empty = <<>> /\ n = Len(order) /\ X = Seq(S) /\ \A i, x : Next(i, x) = IF order[i] \in chosen THEN Append(x, order[i]) ELSE x
  BY DEF n, X, Next, empty
<1>14. g \in [0 .. n -> X]
  BY <1>9, <1>12
<1> QED
  BY <1>10, <1>11, <1>13, <1>14 DEF KeptBy

(* A list without a repetition, as its places are ordered.                   *)
LEMMA DifferentPlaces ==
    ASSUME NEW S, NEW s \in Seq(S), \A a, b \in 1 .. Len(s) : a < b => s[a] # s[b]
    PROVE  IsInjective(s)
<1>1. Len(s) \in Nat /\ DOMAIN s = 1 .. Len(s)
  OBVIOUS
<1>2. ASSUME NEW a \in 1 .. Len(s), NEW b \in 1 .. Len(s), a # b PROVE a < b \/ b < a
  BY <1>1, <1>2
<1>3. ASSUME NEW a \in 1 .. Len(s), NEW b \in 1 .. Len(s), s[a] = s[b] PROVE a = b
  BY <1>2, <1>3
<1> QED
  BY <1>1, <1>3 DEF IsInjective

(* Who is in a list that has grown by one.                                   *)
LEMMA AppendedRange ==
    ASSUME NEW S, NEW s \in Seq(S), NEW x \in S
    PROVE  Range(Append(s, x)) = Range(s) \cup {x}
<1> DEFINE t == Append(s, x)
<1>1. /\ Len(t) = Len(s) + 1 /\ Len(s) \in Nat /\ DOMAIN t = 1 .. Len(t) /\ DOMAIN s = 1 .. Len(s)
      /\ \A a \in 1 .. Len(s) : t[a] = s[a]
      /\ t[Len(s) + 1] = x
  OBVIOUS
<1> HIDE DEF t
<1>2. \A a : a \in 1 .. Len(t) <=> a \in 1 .. Len(s) \/ a = Len(s) + 1
  BY <1>1
<1>3. \A y \in Range(t) : y \in Range(s) \cup {x}
  BY <1>1, <1>2 DEF Range
<1>4. \A y \in Range(s) : y \in Range(t)
  BY <1>1, <1>2 DEF Range
<1>5. x \in Range(t)
  BY <1>1, <1>2 DEF Range
<1>6. Range(t) = Range(s) \cup {x}
  BY <1>3, <1>4, <1>5
<1> QED
  BY <1>6 DEF t

(* What a comprehension keeps: the members, in their order. *)
KeptUpTo(order, chosen, i, kept) ==
    /\ \A x : x \in Range(kept) <=> x \in chosen /\ \E j \in 1 .. i : order[j] = x
    /\ \A a, b \in 1 .. Len(kept) : a < b =>
          \E p, q \in 1 .. i : p < q /\ order[p] = kept[a] /\ order[q] = kept[b]

(* That is what Kept returns.                                                 *)
LEMMA KeptFacts ==
    ASSUME NEW S, NEW order \in Seq(S), NEW chosen
    PROVE  Kept(order, chosen) \in Seq(S) /\ KeptUpTo(order, chosen, Len(order), Kept(order, chosen))
<1> DEFINE n == Len(order)
<1>1. PICK f \in [0 .. n -> Seq(S)] : KeptBy(f, order, chosen)
  BY KeptRecursion
<1>2. n \in Nat /\ \A i \in 1 .. n : order[i] \in S
  OBVIOUS
<1> DEFINE T == {i \in 0 .. n : KeptUpTo(order, chosen, i, f[i])}
<1> HIDE DEF n
<1>3. 0 \in T
  BY <1>1, <1>2 DEF KeptUpTo, KeptBy, Range
<1>4. ASSUME NEW i \in 1 .. n, i - 1 \in T PROVE i \in T
  <2>1. i - 1 \in 0 .. n /\ i \in Nat /\ f[i - 1] \in Seq(S) /\ KeptUpTo(order, chosen, i - 1, f[i - 1])
    BY <1>1, <1>2, <1>4
  <2> DEFINE old == f[i - 1]
             x == order[i]
  <2>2. CASE x \notin chosen
    <3>1. f[i] = old
      BY <1>1, <2>2 DEF KeptBy, n
    <3>2. \A j \in 1 .. i : j = i \/ j \in 1 .. (i - 1)
      BY <2>1
    <3> QED
      BY <2>1, <2>2, <3>1, <3>2 DEF KeptUpTo
  <2>3. CASE x \in chosen
    <3>1. f[i] = Append(old, x) /\ x \in S
      BY <1>1, <1>2, <2>3 DEF KeptBy, n
    <3> HIDE DEF old, x
    <3>2. /\ Len(f[i]) = Len(old) + 1 /\ Len(old) \in Nat /\ f[i] \in Seq(S)
          /\ DOMAIN f[i] = 1 .. Len(f[i]) /\ DOMAIN old = 1 .. Len(old)
          /\ \A a \in 1 .. Len(old) : f[i][a] = old[a]
          /\ f[i][Len(old) + 1] = x
      <4>1. old \in Seq(S)
        BY <2>1 DEF old
      <4> QED
        BY <3>1, <4>1
    <3>3. Range(f[i]) = Range(old) \cup {x}
      BY <2>1, <3>1, AppendedRange DEF old
    <3>4. \A j : j \in 1 .. i <=> j = i \/ j \in 1 .. (i - 1)
      BY <2>1
    <3>5. \A y : y \in Range(f[i]) <=> y \in chosen /\ \E j \in 1 .. i : order[j] = y
      BY <2>1, <2>3, <3>3, <3>4 DEF KeptUpTo, x, old
    <3>6. ASSUME NEW a \in 1 .. Len(f[i]), NEW b \in 1 .. Len(f[i]), a < b
          PROVE  \E p, q \in 1 .. i : p < q /\ order[p] = f[i][a] /\ order[q] = f[i][b]
      <4>1. a \in 1 .. Len(old) /\ f[i][a] = old[a] /\ old[a] \in Range(old)
        BY <3>2, <3>6 DEF Range
      <4>2. CASE b \in 1 .. Len(old)
        <5>1. PICK p \in 1 .. (i - 1), q \in 1 .. (i - 1) : p < q /\ order[p] = old[a] /\ order[q] = old[b]
          BY <2>1, <3>6, <4>1, <4>2 DEF KeptUpTo, old
        <5> QED
          BY <3>2, <3>4, <4>1, <4>2, <5>1
      <4>3. CASE b = Len(old) + 1
        <5>1. PICK p \in 1 .. (i - 1) : order[p] = old[a]
          BY <2>1, <4>1 DEF KeptUpTo, old
        <5>2. p < i /\ p \in 1 .. i /\ i \in 1 .. i
          BY <2>1
        <5> QED
          BY <3>2, <4>1, <4>3, <5>1, <5>2 DEF x
      <4> QED
        BY <3>2, <4>2, <4>3
    <3> QED
      BY <3>5, <3>6 DEF KeptUpTo
  <2> QED
    BY <2>2, <2>3
<1>5. Climbs(n, T)
  BY <1>3, <1>4 DEF Climbs
<1>6. n \in T
  <2> HIDE DEF T
  <2> QED
    BY <1>2, <1>5, Climb
<1> QED
  BY <1>1, <1>2, <1>6 DEF KeptBy, n

(* Nothing else is kept, and nothing twice.                                   *)
LEMMA KeptMembers ==
    ASSUME NEW S, NEW order \in Seq(S), NEW chosen
    PROVE  /\ Kept(order, chosen) \in Seq(S) /\ Range(Kept(order, chosen)) = Range(order) \cap chosen
           /\ IsInjective(order) => IsInjective(Kept(order, chosen))
<1>1. Kept(order, chosen) \in Seq(S) /\ KeptUpTo(order, chosen, Len(order), Kept(order, chosen))
  BY KeptFacts
<1>2. DOMAIN order = 1 .. Len(order)
  OBVIOUS
<1> DEFINE k == Kept(order, chosen)
<1> HIDE DEF k
<1>3. DOMAIN k = 1 .. Len(k) /\ Len(k) \in Nat
  BY <1>1 DEF k
<1>4. ASSUME IsInjective(order), NEW a \in DOMAIN k, NEW b \in DOMAIN k, a < b PROVE k[a] # k[b]
  <2>1. PICK p, q \in 1 .. Len(order) : p < q /\ order[p] = k[a] /\ order[q] = k[b]
    BY <1>1, <1>3, <1>4 DEF KeptUpTo, k
  <2>2. p # q
    BY <2>1
  <2> QED
    BY <1>2, <1>4, <2>1, <2>2 DEF IsInjective
<1>5. IsInjective(order) => IsInjective(k)
  <2> SUFFICES ASSUME IsInjective(order), NEW a \in DOMAIN k, NEW b \in DOMAIN k, k[a] = k[b] PROVE a = b
    BY DEF IsInjective
  <2> QED
    BY <1>3, <1>4
<1> QED
  BY <1>1, <1>2, <1>5 DEF KeptUpTo, Range, k

-----------------------------------------------------------------------------
(* The states of the loop.                                                   *)
KahnStates(order) == [inDegree : [Range(order) -> Int], ready : Seq(Range(order))]

KahnStart(order, deps) ==
    [inDegree |-> [s \in Range(order) |-> Cardinality(deps[s])],
     ready    |-> Kept(order, {s \in Range(order) : deps[s] = {}})]

KahnStep(order, deps, st, i) == IF i > Len(st.ready) THEN st ELSE Relax(order, deps, st, st.ready[i])

(* k holds the states after each iteration.                                  *)
KahnBy(k, order, deps) ==
    /\ k[0] = KahnStart(order, deps)
    /\ \A i \in 1 .. Len(order) : k[i] = KahnStep(order, deps, k[i - 1], i)
    /\ KahnOrder(order, deps) = k[Len(order)].ready

(* A graph: steps without a repetition, that name finitely many ids each.    *)
IsGraph(order, deps) ==
    /\ order \in Seq(Range(order)) /\ IsInjective(order)
    /\ \A s \in Range(order) : IsFiniteSet(deps[s])

(* What an iteration adds to the list: what waits for nothing any more.      *)
Adds(order, deps, st, node, more) ==
    /\ Relax(order, deps, st, node).ready = st.ready \o more
    /\ IsInjective(more)
    /\ Range(more) = {s \in Range(order) : /\ node \in deps[s]
                                          /\ Relax(order, deps, st, node).inDegree[s] = 0}

(* An iteration counts down what waited for the step and appends to the list. *)
LEMMA RelaxType ==
    ASSUME NEW order, NEW deps, IsGraph(order, deps), NEW st \in KahnStates(order), NEW node
    PROVE  /\ Relax(order, deps, st, node) \in KahnStates(order)
           /\ \A s \in Range(order) : Relax(order, deps, st, node).inDegree[s] =
                 IF node \in deps[s] THEN st.inDegree[s] - 1 ELSE st.inDegree[s]
           /\ \E more \in Seq(Range(order)) : Adds(order, deps, st, node, more)
<1> DEFINE S == Range(order)
           freed == Dependents(order, deps, node)
           degree == [step \in DOMAIN st.inDegree |->
                      IF step \in freed THEN st.inDegree[step] - 1 ELSE st.inDegree[step]]
           more == Kept(order, {step \in freed : degree[step] = 0})
<1>1. Relax(order, deps, st, node) = [inDegree |-> degree, ready |-> st.ready \o more]
  BY DEF Relax
<1>2. DOMAIN st.inDegree = S /\ st.inDegree \in [S -> Int] /\ st.ready \in Seq(S)
  BY DEF KahnStates
<1>3. freed = {s \in S : node \in deps[s]}
  BY DEF Dependents
<1>4. degree \in [S -> Int] /\ \A s \in S : degree[s] = IF node \in deps[s] THEN st.inDegree[s] - 1 ELSE st.inDegree[s]
  BY <1>2, <1>3
<1> HIDE DEF degree, freed
<1>5. {step \in freed : degree[step] = 0} = {s \in S : node \in deps[s] /\ degree[s] = 0}
  BY <1>3
<1>6. more \in Seq(S) /\ IsInjective(more) /\ Range(more) = S \cap {s \in S : node \in deps[s] /\ degree[s] = 0}
  BY <1>5, KeptMembers DEF IsGraph
<1> HIDE DEF more
<1>7. st.ready \o more \in Seq(S)
  BY <1>2, <1>6
<1>8. Relax(order, deps, st, node).inDegree = degree /\ Relax(order, deps, st, node).ready = st.ready \o more
  BY <1>1
<1>9. Range(more) = {s \in S : node \in deps[s] /\ degree[s] = 0}
  BY <1>6
<1>10. Relax(order, deps, st, node) \in KahnStates(order)
  BY <1>1, <1>4, <1>7 DEF KahnStates
<1> QED
  BY <1>4, <1>6, <1>8, <1>9, <1>10 DEF Adds

(* The loop has states, of which the last holds what is returned.             *)
LEMMA KahnRecursion ==
    ASSUME NEW order, NEW deps, IsGraph(order, deps)
    PROVE  \E k \in [0 .. Len(order) -> KahnStates(order)] : KahnBy(k, order, deps)
<1> DEFINE n == Len(order)
           X == KahnStates(order)
           start == KahnStart(order, deps)
           next(i, x) == KahnStep(order, deps, x, i)
           step == [i \in 1 .. n |-> [x \in X |-> next(i, x)]]
           Good(k) == k = [i \in 0 .. n |-> IF i = 0 THEN start
                                            ELSE IF i > Len(k[i - 1].ready) THEN k[i - 1]
                                            ELSE Relax(order, deps, k[i - 1], k[i - 1].ready[i])]
<1>1. n \in Nat /\ start \in X
  <2>1. Kept(order, {s \in Range(order) : deps[s] = {}}) \in Seq(Range(order))
    BY KeptMembers DEF IsGraph
  <2>2. [s \in Range(order) |-> Cardinality(deps[s])] \in [Range(order) -> Int]
    BY FS_CardinalityType DEF IsGraph
  <2> QED
    BY <2>1, <2>2 DEF IsGraph, KahnStart, KahnStates
<1>2. \A i \in 1 .. n, x \in X : next(i, x) \in X
  BY RelaxType DEF KahnStep
<1> HIDE DEF X, n, start, next
<1>3. step \in [1 .. n -> [X -> X]] /\ \A i \in 1 .. n, x \in X : step[i][x] = next(i, x)
  BY <1>2
<1> HIDE DEF step
<1>4. PICK f \in [0 .. n -> X] : Recurs(f, n, start, step)
  BY <1>1, <1>3, Recursion
<1>5. \A i \in 1 .. n : i - 1 \in 0 .. n /\ f[i - 1] \in X /\ i # 0
  BY <1>1, <1>4
<1>6. \A i \in 0 .. n : f[i] = IF i = 0 THEN start ELSE next(i, f[i - 1])
  <2> TAKE i \in 0 .. n
  <2>1. i = 0 \/ i \in 1 .. n
    BY <1>1
  <2> QED
    BY <1>3, <1>4, <1>5, <2>1 DEF Recurs
<1>7. \A i \in 0 .. n : f[i] = IF i = 0 THEN start
                                ELSE IF i > Len(f[i - 1].ready) THEN f[i - 1]
                                ELSE Relax(order, deps, f[i - 1], f[i - 1].ready[i])
  BY <1>6, Zenon DEF next, KahnStep
<1>8. Good(f)
  BY <1>7, <1>4, Zenon
<1>9. PICK g : g = (CHOOSE h : Good(h))
  OBVIOUS
<1>10. Good(g)
  BY <1>8, <1>9, Zenon
<1>11. KahnOrder(order, deps) = g[n].ready
  BY <1>9, Zenon DEF KahnOrder, n, start, KahnStart
<1>12. \A i \in 0 .. n : g[i] = IF i = 0 THEN start
                                 ELSE IF i > Len(g[i - 1].ready) THEN g[i - 1]
                                 ELSE Relax(order, deps, g[i - 1], g[i - 1].ready[i])
  BY <1>10, Zenon
<1>13. g[0] = start /\ \A i \in 1 .. n : g[i] = next(i, g[i - 1])
  BY <1>1, <1>12 DEF next, KahnStep
<1>14. \A i \in 0 .. n : g[i] = f[i] /\ g[i] \in X
  <2>1. \A i \in 1 .. n : g[i - 1] \in X => g[i] = step[i][g[i - 1]]
    BY <1>3, <1>13
  <2> QED
    BY <1>1, <1>3, <1>4, <1>13, <2>1, SameRecursion
<1>15. g \in [0 .. n -> X]
  BY <1>10, <1>14
<1>16. KahnBy(g, order, deps)
  BY <1>11, <1>13 DEF KahnBy, n, start, next
<1> QED
  BY <1>15, <1>16 DEF n, X

-----------------------------------------------------------------------------
(* What has been read of the work list after i iterations.                   *)
Emitted(st, i) == {st.ready[j] : j \in {k \in 1 .. Len(st.ready) : k <= i}}

(* The loop: in-degrees count what has not been emitted, what waits for      *)
(* nothing else is in the list, each step after what it depends on, and      *)
(* those that depend on nothing come first.                                  *)
KahnInv(order, deps, i, st) ==
    /\ st \in KahnStates(order) /\ IsInjective(st.ready)
    /\ \A s \in Range(order) :
          /\ st.inDegree[s] = Cardinality(deps[s] \ Emitted(st, i))
          /\ s \in Range(st.ready) <=> deps[s] \subseteq Emitted(st, i)
    /\ \A k \in 1 .. Len(st.ready) : deps[st.ready[k]] \subseteq Emitted(st, k - 1)
    /\ \A k \in 1 .. Len(KahnStart(order, deps).ready) :
          k <= Len(st.ready) /\ st.ready[k] = KahnStart(order, deps).ready[k]

(* It holds at the start.                                                     *)
LEMMA KahnInitially ==
    ASSUME NEW order, NEW deps, IsGraph(order, deps)
    PROVE  KahnInv(order, deps, 0, KahnStart(order, deps))
<1> DEFINE S == Range(order)
           st == KahnStart(order, deps)
           free == {s \in S : deps[s] = {}}
<1>1. Kept(order, free) \in Seq(S) /\ IsInjective(Kept(order, free)) /\ Range(Kept(order, free)) = S \cap free
  BY KeptMembers DEF IsGraph
<1>2. [s \in S |-> Cardinality(deps[s])] \in [S -> Int]
  BY FS_CardinalityType DEF IsGraph
<1>3. st.ready = Kept(order, free) /\ st.inDegree = [s \in S |-> Cardinality(deps[s])] /\ st \in KahnStates(order)
  BY <1>1, <1>2 DEF KahnStart, KahnStates
<1> HIDE DEF st
<1>4. Emitted(st, 0) = {}
  BY <1>1, <1>3 DEF Emitted
<1>5. \A s \in S : /\ st.inDegree[s] = Cardinality(deps[s] \ Emitted(st, 0))
                   /\ s \in Range(st.ready) <=> deps[s] \subseteq Emitted(st, 0)
  BY <1>1, <1>3, <1>4
<1>6. \A k \in 1 .. Len(st.ready) : deps[st.ready[k]] \subseteq Emitted(st, k - 1)
  <2> TAKE k \in 1 .. Len(st.ready)
  <2>1. DOMAIN st.ready = 1 .. Len(st.ready)
    BY <1>1, <1>3
  <2>2. st.ready[k] \in Range(st.ready)
    BY <2>1 DEF Range
  <2>3. deps[st.ready[k]] = {}
    BY <1>1, <1>3, <2>2
  <2> QED
    BY <2>3
<1>7. \A k \in 1 .. Len(KahnStart(order, deps).ready) :
          k <= Len(st.ready) /\ st.ready[k] = KahnStart(order, deps).ready[k]
  BY <1>1, <1>3 DEF st
<1> QED
  BY <1>1, <1>3, <1>5, <1>6, <1>7 DEF KahnInv, st

(* An iteration past the end of the list changes nothing.                    *)
LEMMA KahnRests ==
    ASSUME NEW order, NEW deps, NEW i \in Nat \ {0}, NEW st, KahnInv(order, deps, i - 1, st), i > Len(st.ready)
    PROVE  KahnInv(order, deps, i, st)
<1>1. Len(st.ready) \in Nat
  BY DEF KahnInv, KahnStates
<1>2. Emitted(st, i) = Emitted(st, i - 1)
  BY <1>1 DEF Emitted
<1> QED
  BY <1>2 DEF KahnInv

(* An iteration that emits a step keeps it.                                   *)
LEMMA KahnEmits ==
    ASSUME NEW order, NEW deps, IsGraph(order, deps), NEW i \in Nat \ {0}, NEW st,
           KahnInv(order, deps, i - 1, st), i <= Len(st.ready)
    PROVE  KahnInv(order, deps, i, Relax(order, deps, st, st.ready[i]))
<1> DEFINE S == Range(order)
           node == st.ready[i]
           next == Relax(order, deps, st, node)
           P == Emitted(st, i - 1)
<1>1. st \in KahnStates(order) /\ st.ready \in Seq(S) /\ Len(st.ready) \in Nat /\ DOMAIN st.ready = 1 .. Len(st.ready)
  BY DEF KahnInv, KahnStates
<1>0. PICK more \in Seq(S) : Adds(order, deps, st, node, more)
  BY <1>1, RelaxType
<1>2. /\ next.ready = st.ready \o more
      /\ IsInjective(more)
      /\ Range(more) = {s \in S : node \in deps[s] /\ next.inDegree[s] = 0}
  BY <1>0 DEF Adds
<1>3. next \in KahnStates(order) /\ \A s \in S : next.inDegree[s] = IF node \in deps[s] THEN st.inDegree[s] - 1 ELSE st.inDegree[s]
  BY <1>1, RelaxType
<1> HIDE DEF next
<1>4. /\ next.ready \in Seq(S) /\ Len(next.ready) = Len(st.ready) + Len(more) /\ Len(more) \in Nat
      /\ DOMAIN more = 1 .. Len(more) /\ DOMAIN next.ready = 1 .. Len(next.ready)
      /\ \A k \in 1 .. Len(st.ready) : next.ready[k] = st.ready[k]
      /\ \A k \in 1 .. Len(more) : next.ready[Len(st.ready) + k] = more[k]
  BY <1>1, <1>2
<1>5. i \in 1 .. Len(st.ready) /\ i \in 1 .. Len(next.ready)
  BY <1>1, <1>4
<1>6. ASSUME NEW k \in Nat, k <= Len(st.ready) PROVE Emitted(next, k) = Emitted(st, k)
  <2>1. {j \in 1 .. Len(next.ready) : j <= k} = {j \in 1 .. Len(st.ready) : j <= k}
    BY <1>1, <1>4, <1>6
  <2> QED
    BY <1>4, <2>1 DEF Emitted
<1>7. Emitted(next, i) = P \cup {node}
  <2>1. \A k \in 1 .. Len(st.ready) : k <= i <=> k = i \/ k <= i - 1
    BY <1>1, <1>5
  <2>2. Emitted(st, i) = P \cup {node}
    BY <1>5, <2>1 DEF Emitted
  <2> QED
    BY <1>5, <1>6, <2>2
<1>8. node \notin P
  BY <1>1, <1>5 DEF Emitted, KahnInv, IsInjective
<1>9. ASSUME NEW s \in S
      PROVE  /\ st.inDegree[s] = Cardinality(deps[s] \ P) /\ IsFiniteSet(deps[s] \ P)
             /\ s \in Range(st.ready) <=> deps[s] \subseteq P
  BY FS_Difference DEF KahnInv, IsGraph
<1> HIDE DEF node, P
<1>10. ASSUME NEW s \in S PROVE next.inDegree[s] = Cardinality(deps[s] \ Emitted(next, i))
  <2>1. CASE node \in deps[s]
    <3>1. node \in deps[s] \ P /\ deps[s] \ Emitted(next, i) = (deps[s] \ P) \ {node}
      BY <1>7, <1>8, <2>1
    <3>2. Cardinality((deps[s] \ P) \ {node}) = Cardinality(deps[s] \ P) - 1
      BY <1>9, <3>1, FS_RemoveElement
    <3> QED
      BY <1>3, <1>9, <2>1, <3>1, <3>2
  <2>2. CASE node \notin deps[s]
    <3>1. deps[s] \ Emitted(next, i) = deps[s] \ P
      BY <1>7, <2>2
    <3> QED
      BY <1>3, <1>9, <2>2, <3>1
  <2> QED
    BY <2>1, <2>2
<1>11. ASSUME NEW s \in S PROVE next.inDegree[s] = 0 <=> deps[s] \subseteq Emitted(next, i)
  <2>1. IsFiniteSet(deps[s] \ Emitted(next, i))
    BY FS_Difference DEF IsGraph
  <2> QED
    BY <1>10, <2>1, FS_EmptySet
<1>12. Range(next.ready) = Range(st.ready) \cup Range(more)
  <2>1. ASSUME NEW k \in 1 .. Len(next.ready) PROVE next.ready[k] \in Range(st.ready) \cup Range(more)
    <3>1. CASE k \in 1 .. Len(st.ready)
      BY <1>1, <1>4, <3>1 DEF Range
    <3>2. CASE k \notin 1 .. Len(st.ready)
      <4>1. k - Len(st.ready) \in 1 .. Len(more) /\ k = Len(st.ready) + (k - Len(st.ready))
        BY <1>1, <1>4, <3>2
      <4> QED
        BY <1>4, <4>1 DEF Range
    <3> QED
      BY <3>1, <3>2
  <2>2. Range(st.ready) \subseteq Range(next.ready)
    <3>1. \A k \in 1 .. Len(st.ready) : k \in 1 .. Len(next.ready)
      BY <1>1, <1>4
    <3> QED
      BY <1>1, <1>4, <3>1 DEF Range
  <2>3. Range(more) \subseteq Range(next.ready)
    <3>1. \A k \in 1 .. Len(more) : Len(st.ready) + k \in 1 .. Len(next.ready)
      BY <1>1, <1>4
    <3> QED
      BY <1>4, <3>1 DEF Range
  <2> QED
    BY <1>4, <2>1, <2>2, <2>3 DEF Range
<1>13. ASSUME NEW s \in S PROVE s \in Range(next.ready) <=> deps[s] \subseteq Emitted(next, i)
  <2>1. s \in Range(next.ready) <=> deps[s] \subseteq P \/ (node \in deps[s] /\ deps[s] \subseteq Emitted(next, i))
    BY <1>2, <1>9, <1>11, <1>12 DEF node
  <2> QED
    BY <1>7, <2>1
<1>14. \A s \in Range(more) : s \in S /\ s \notin Range(st.ready) /\ deps[s] \subseteq Emitted(next, i)
  BY <1>2, <1>8, <1>9, <1>11 DEF node
<1>15. IsInjective(next.ready)
  <2> SUFFICES ASSUME NEW a \in 1 .. Len(next.ready), NEW b \in 1 .. Len(next.ready), a < b
               PROVE  next.ready[a] # next.ready[b]
    BY <1>4, DifferentPlaces
  <2>1. CASE b <= Len(st.ready)
    <3>1. a \in 1 .. Len(st.ready) /\ b \in 1 .. Len(st.ready) /\ a # b
      BY <1>1, <1>4, <2>1
    <3>2. st.ready[a] # st.ready[b]
      BY <1>1, <3>1 DEF KahnInv, IsInjective
    <3>3. next.ready[a] = st.ready[a] /\ next.ready[b] = st.ready[b]
      BY <1>4, <3>1
    <3> QED
      BY <3>2, <3>3
  <2>2. CASE a <= Len(st.ready) /\ b > Len(st.ready)
    <3>1. a \in 1 .. Len(st.ready) /\ b - Len(st.ready) \in 1 .. Len(more) /\ b = Len(st.ready) + (b - Len(st.ready))
      BY <1>1, <1>4, <2>2
    <3>2. next.ready[a] \in Range(st.ready) /\ next.ready[b] \in Range(more)
      BY <1>1, <1>4, <3>1 DEF Range
    <3> QED
      BY <1>14, <3>2
  <2>3. CASE a > Len(st.ready)
    <3> DEFINE c == a - Len(st.ready)
               d == b - Len(st.ready)
    <3>1. c \in 1 .. Len(more) /\ d \in 1 .. Len(more) /\ c # d /\ a = Len(st.ready) + c /\ b = Len(st.ready) + d
      BY <1>1, <1>4, <2>3
    <3> HIDE DEF c, d
    <3>2. next.ready[a] = more[c] /\ next.ready[b] = more[d]
      BY <1>4, <3>1
    <3> QED
      BY <1>2, <1>4, <3>1, <3>2 DEF IsInjective
  <2> QED
    BY <1>1, <1>4, <2>1, <2>2, <2>3
<1>16. ASSUME NEW k \in 1 .. Len(next.ready) PROVE deps[next.ready[k]] \subseteq Emitted(next, k - 1)
  <2>1. CASE k <= Len(st.ready)
    <3>1. k \in 1 .. Len(st.ready) /\ k - 1 \in Nat /\ k - 1 <= Len(st.ready)
      BY <1>1, <1>4, <2>1
    <3>2. Emitted(next, k - 1) = Emitted(st, k - 1) /\ next.ready[k] = st.ready[k]
      BY <1>4, <1>6, <3>1
    <3> QED
      BY <3>1, <3>2 DEF KahnInv
  <2>2. CASE k > Len(st.ready)
    <3>1. k - Len(st.ready) \in 1 .. Len(more) /\ k = Len(st.ready) + (k - Len(st.ready)) /\ i <= k - 1
      BY <1>1, <1>4, <1>5, <2>2
    <3>2. next.ready[k] \in Range(more)
      BY <1>4, <3>1 DEF Range
    <3>3. Emitted(next, i) \subseteq Emitted(next, k - 1)
      <4>1. \A j \in 1 .. Len(next.ready) : j <= i => j <= k - 1
        BY <3>1
      <4> QED
        BY <4>1 DEF Emitted
    <3> QED
      BY <1>14, <3>2, <3>3
  <2> QED
    BY <1>1, <1>4, <2>1, <2>2
<1>17. ASSUME NEW k \in 1 .. Len(KahnStart(order, deps).ready)
       PROVE  k <= Len(next.ready) /\ next.ready[k] = KahnStart(order, deps).ready[k]
  <2>1. k <= Len(st.ready) /\ st.ready[k] = KahnStart(order, deps).ready[k]
    BY DEF KahnInv
  <2>2. Len(KahnStart(order, deps).ready) \in Nat
    <3>1. Kept(order, {s \in S : deps[s] = {}}) \in Seq(S)
      BY KeptMembers DEF IsGraph
    <3> QED
      BY <3>1 DEF KahnStart
  <2> QED
    BY <1>1, <1>4, <2>1, <2>2
<1>18. KahnInv(order, deps, i, next)
  BY <1>3, <1>10, <1>13, <1>15, <1>16, <1>17 DEF KahnInv
<1> QED
  BY <1>18 DEF next, node

-----------------------------------------------------------------------------
(* What Kahn's algorithm returns: no step twice, each after its dependencies, *)
(* and all whose dependencies are there.                                     *)
Sorted(order, deps, out) ==
    /\ out \in Seq(Range(order)) /\ IsInjective(out)
    /\ \A s \in Range(order) : s \in Range(out) <=> deps[s] \subseteq Range(out)
    /\ \A k \in 1 .. Len(out) : deps[out[k]] \subseteq {out[j] : j \in 1 .. (k - 1)}
    /\ \A k \in 1 .. Len(KahnStart(order, deps).ready) :
          k <= Len(out) /\ out[k] = KahnStart(order, deps).ready[k]

(* A graph has as many steps as its order has places.                         *)
LEMMA GraphSize ==
    ASSUME NEW order, NEW deps, IsGraph(order, deps)
    PROVE  IsFiniteSet(Range(order)) /\ Cardinality(Range(order)) = Len(order) /\ Len(order) \in Nat
<1>1. Len(order) \in Nat /\ DOMAIN order = 1 .. Len(order) /\ order \in [1 .. Len(order) -> Range(order)]
  BY DEF IsGraph
<1>2. order \in Bijection(1 .. Len(order), Range(order))
  BY <1>1 DEF IsGraph, Bijection, Injection, Surjection, IsInjective, Range
<1>3. IsFiniteSet(1 .. Len(order)) /\ Cardinality(1 .. Len(order)) = Len(order)
  BY <1>1, FS_Interval
<1>4. ExistsBijection(1 .. Len(order), Range(order))
  BY <1>2 DEF ExistsBijection
<1> QED
  BY <1>1, <1>3, <1>4, FS_Bijection

(* A list without repetitions has as many members as places, so all of them  *)
(* when it is as long as the order.                                          *)
LEMMA ListSize ==
    ASSUME NEW order, NEW deps, IsGraph(order, deps), NEW out \in Seq(Range(order)), IsInjective(out)
    PROVE  Len(out) <= Len(order) /\ (Len(out) = Len(order) <=> Range(out) = Range(order))
<1> DEFINE S == Range(order)
<1>1. IsFiniteSet(S) /\ Cardinality(S) = Len(order) /\ Len(order) \in Nat
  BY GraphSize
<1>2. Len(out) \in Nat /\ DOMAIN out = 1 .. Len(out) /\ out \in [1 .. Len(out) -> S]
  OBVIOUS
<1> HIDE DEF S
<1>3. IsFiniteSet(1 .. Len(out)) /\ Cardinality(1 .. Len(out)) = Len(out)
  BY <1>2, FS_Interval
<1>4. out \in Injection(1 .. Len(out), S)
  BY <1>2 DEF Injection, IsInjective
<1>5. Len(out) <= Len(order) /\ (Len(out) = Len(order) <=> out \in Surjection(1 .. Len(out), S))
  BY <1>1, <1>3, <1>4, FS_Injection
<1>6. out \in Surjection(1 .. Len(out), S) <=> Range(out) = S
  BY <1>2 DEF Surjection, Range
<1> QED
  BY <1>5, <1>6 DEF S

(* So topological_order ends with a sorted list, whatever the graph.          *)
LEMMA KahnEnds ==
    ASSUME NEW order, NEW deps, IsGraph(order, deps)
    PROVE  Sorted(order, deps, KahnOrder(order, deps))
<1> DEFINE n == Len(order)
<1>1. PICK k \in [0 .. n -> KahnStates(order)] : KahnBy(k, order, deps)
  BY KahnRecursion
<1>2. n \in Nat
  BY GraphSize
<1> DEFINE T == {i \in 0 .. n : KahnInv(order, deps, i, k[i])}
<1> HIDE DEF n
<1>3. 0 \in T
  BY <1>1, <1>2, KahnInitially DEF KahnBy
<1>4. ASSUME NEW i \in 1 .. n, i - 1 \in T PROVE i \in T
  <2>1. i \in Nat \ {0} /\ KahnInv(order, deps, i - 1, k[i - 1])
    BY <1>2, <1>4
  <2>2. k[i] = KahnStep(order, deps, k[i - 1], i)
    BY <1>1 DEF KahnBy, n
  <2>3. Len(k[i - 1].ready) \in Nat
    BY <2>1 DEF KahnInv, KahnStates
  <2>4. CASE i > Len(k[i - 1].ready)
    BY <2>1, <2>2, <2>4, KahnRests DEF KahnStep
  <2>5. CASE i <= Len(k[i - 1].ready)
    BY <2>1, <2>2, <2>3, <2>5, KahnEmits DEF KahnStep
  <2>6. KahnInv(order, deps, i, k[i])
    BY <2>1, <2>3, <2>4, <2>5
  <2> QED
    BY <1>2, <2>6
<1>5. Climbs(n, T)
  BY <1>3, <1>4 DEF Climbs
<1>6. n \in T
  <2> HIDE DEF T
  <2> QED
    BY <1>2, <1>5, Climb
<1> DEFINE st == k[n]
           out == st.ready
<1>7. KahnInv(order, deps, n, st) /\ KahnOrder(order, deps) = out
  BY <1>1, <1>6 DEF KahnBy, n
<1> HIDE DEF st
<1>8. out \in Seq(Range(order)) /\ IsInjective(out) /\ Len(out) \in Nat /\ DOMAIN out = 1 .. Len(out)
  BY <1>7 DEF KahnInv, KahnStates
<1>9. Len(out) <= n
  BY <1>8, ListSize DEF n
<1>10. Emitted(st, n) = Range(out)
  <2>1. {j \in 1 .. Len(out) : j <= n} = 1 .. Len(out)
    BY <1>2, <1>8, <1>9
  <2> QED
    BY <1>8, <2>1 DEF Emitted, Range
<1>11. ASSUME NEW i \in 1 .. Len(out) PROVE Emitted(st, i - 1) = {out[j] : j \in 1 .. (i - 1)}
  <2>1. {j \in 1 .. Len(out) : j <= i - 1} = 1 .. (i - 1)
    BY <1>8
  <2> QED
    BY <2>1 DEF Emitted
<1>12. \A i \in 1 .. Len(out) : deps[out[i]] \subseteq {out[j] : j \in 1 .. (i - 1)}
  BY <1>7, <1>11 DEF KahnInv
<1>13. \A s \in Range(order) : s \in Range(out) <=> deps[s] \subseteq Range(out)
  BY <1>7, <1>10 DEF KahnInv
<1>14. \A i \in 1 .. Len(KahnStart(order, deps).ready) :
          i <= Len(out) /\ out[i] = KahnStart(order, deps).ready[i]
  BY <1>7 DEF KahnInv
<1> HIDE DEF out
<1>15. Sorted(order, deps, out)
  BY <1>8, <1>12, <1>13, <1>14 DEF Sorted
<1> QED
  BY <1>7, <1>15

(* There is a cycle, or an id that is no step, exactly if steps are missing. *)
LEMMA CycleMeansMissing ==
    ASSUME NEW order, NEW deps, IsGraph(order, deps)
    PROVE  HasCycle(order, deps) <=> Range(KahnOrder(order, deps)) # Range(order)
BY KahnEnds, ListSize DEF HasCycle, Sorted

(* No set of steps waits for itself where there is a sorted list of them.    *)
LEMMA SortedIsWellFounded ==
    ASSUME NEW order, NEW deps, IsGraph(order, deps), NEW out, Sorted(order, deps, out), Range(out) = Range(order)
    PROVE  WellFounded(Range(order), deps) /\ BadReferences(order, deps) = {}
<1>1. Len(out) \in Nat /\ DOMAIN out = 1 .. Len(out)
  BY DEF Sorted
<1>2. ASSUME NEW A \in SUBSET Range(order), A # {} PROVE \E s \in A : deps[s] \cap A = {}
  <2> DEFINE places == {k \in 1 .. Len(out) : out[k] \in A}
  <2>1. places \in SUBSET Nat /\ places # {}
    BY <1>1, <1>2 DEF Range
  <2>2. PICK m \in places : \A k \in places : m <= k
    BY <2>1, Least
  <2>3. deps[out[m]] \subseteq {out[j] : j \in 1 .. (m - 1)}
    BY DEF Sorted
  <2>4. \A j \in 1 .. (m - 1) : out[j] \notin A
    BY <1>1, <2>2
  <2> QED
    BY <2>3, <2>4
<1>3. WellFounded(Range(order), deps)
  BY <1>2 DEF WellFounded
<1>4. ASSUME NEW s \in Range(order), NEW d \in deps[s] PROVE d \in Range(order) /\ d # s
  <2>1. PICK k \in 1 .. Len(out) : out[k] = s
    BY <1>1 DEF Range
  <2>2. PICK j \in 1 .. (k - 1) : out[j] = d
    BY <2>1 DEF Sorted
  <2>3. j \in DOMAIN out /\ k \in DOMAIN out /\ j # k
    BY <1>1
  <2> QED
    BY <2>1, <2>2, <2>3 DEF Sorted, IsInjective, Range
<1>5. BadReferences(order, deps) = {}
  BY <1>4 DEF BadReferences
<1> QED
  BY <1>3, <1>5

(* Where steps are missing and none wait in a circle, some id is no step.     *)
LEMMA MissingIsCyclic ==
    ASSUME NEW order, NEW deps, IsGraph(order, deps), NEW out, Sorted(order, deps, out), Range(out) # Range(order),
           WellFounded(Range(order), deps)
    PROVE  BadReferences(order, deps) # {}
<1> DEFINE A == Range(order) \ Range(out)
<1>1. A \in (SUBSET Range(order)) \ {{}}
  BY DEF Sorted, Range
<1>2. PICK s \in A : deps[s] \cap A = {}
  BY <1>1 DEF WellFounded
<1>3. PICK d \in deps[s] : d \notin Range(out)
  BY <1>2 DEF Sorted
<1>4. <<s, d>> \in BadReferences(order, deps)
  BY <1>2, <1>3 DEF BadReferences
<1> QED
  BY <1>4

(* What is ready, once a part of the sorted steps has run, is sorted too; and *)
(* as long as a sorted step has not run, some step is ready.                  *)
LEMMA ReadyIsSorted ==
    ASSUME NEW order, NEW deps, IsGraph(order, deps), NEW out, Sorted(order, deps, out),
           NEW done \in SUBSET Range(out)
    PROVE  /\ Range(ReadySteps(order, deps, done)) \subseteq Range(out)
           /\ ReadySteps(order, deps, done) = <<>> => Range(out) \subseteq done
<1> DEFINE free == {s \in Range(order) : s \notin done /\ deps[s] \subseteq done}
           wave == ReadySteps(order, deps, done)
<1>1. Range(wave) = Range(order) \cap free
  <2>1. wave = Kept(order, free)
    BY DEF ReadySteps
  <2> QED
    BY <2>1, KeptMembers DEF IsGraph
<1>2. Range(wave) \subseteq Range(out)
  BY <1>1 DEF Sorted
<1>3. ASSUME wave = <<>>, ~ (Range(out) \subseteq done) PROVE FALSE
  <2>1. Len(out) \in Nat /\ DOMAIN out = 1 .. Len(out) /\ Range(out) \subseteq Range(order)
    BY DEF Sorted, Range
  <2> DEFINE left == {k \in 1 .. Len(out) : out[k] \notin done}
  <2>2. left \in SUBSET Nat /\ left # {}
    BY <1>3, <2>1 DEF Range
  <2>3. PICK m \in left : \A k \in left : m <= k
    BY <2>2, Least
  <2>4. deps[out[m]] \subseteq {out[j] : j \in 1 .. (m - 1)}
    BY DEF Sorted
  <2>5. \A j \in 1 .. (m - 1) : out[j] \in done
    BY <2>1, <2>3
  <2>6. out[m] \in Range(order) \cap free
    BY <2>1, <2>3, <2>4, <2>5 DEF Range
  <2>7. Range(wave) = {}
    BY <1>3 DEF Range
  <2> QED
    BY <1>1, <2>6, <2>7
<1> QED
  BY <1>2, <1>3

(* Steps that wait for nothing keep the order of declaration.                *)
LEMMA SortedIsStable ==
    ASSUME NEW order, NEW deps, IsGraph(order, deps), NEW out, Sorted(order, deps, out),
           NEW i \in 1 .. Len(out), NEW j \in 1 .. Len(out), i < j, deps[out[i]] = {}, deps[out[j]] = {}
    PROVE  \E p, q \in 1 .. Len(order) : p < q /\ order[p] = out[i] /\ order[q] = out[j]
<1> DEFINE free == {s \in Range(order) : deps[s] = {}}
           start == Kept(order, free)
<1>1. KahnStart(order, deps).ready = start
  BY DEF KahnStart
<1>2. start \in Seq(Range(order)) /\ KeptUpTo(order, free, Len(order), start)
  BY KeptFacts DEF IsGraph
<1>3. /\ out \in Seq(Range(order)) /\ IsInjective(out)
      /\ \A k \in 1 .. Len(start) : k <= Len(out) /\ out[k] = start[k]
  BY <1>1 DEF Sorted
<1>4. Len(start) \in Nat /\ DOMAIN start = 1 .. Len(start) /\ Len(out) \in Nat /\ DOMAIN out = 1 .. Len(out)
  BY <1>2, <1>3
<1>5. ASSUME NEW k \in 1 .. Len(out), deps[out[k]] = {} PROVE k \in 1 .. Len(start) /\ out[k] = start[k]
  <2>0. out[k] \in Range(order) /\ DOMAIN order = 1 .. Len(order)
    BY <1>3, <1>4 DEF IsGraph
  <2>1. out[k] \in free /\ \E l \in 1 .. Len(order) : order[l] = out[k]
    BY <1>5, <2>0 DEF Range
  <2>2. out[k] \in Range(start)
    BY <1>2, <2>1 DEF KeptUpTo
  <2>3. PICK l \in 1 .. Len(start) : start[l] = out[k]
    BY <1>4, <2>2 DEF Range
  <2>4. l \in 1 .. Len(out) /\ out[l] = out[k]
    BY <1>3, <1>4, <2>3
  <2> QED
    BY <1>3, <1>4, <2>3, <2>4 DEF IsInjective
<1>6. i \in 1 .. Len(start) /\ j \in 1 .. Len(start) /\ out[i] = start[i] /\ out[j] = start[j]
  BY <1>5
<1> HIDE DEF start, free
<1>7. \A a, b \in 1 .. Len(start) : a < b =>
         \E p, q \in 1 .. Len(order) : p < q /\ order[p] = start[a] /\ order[q] = start[b]
  BY <1>2 DEF KeptUpTo
<1> QED
  BY <1>6, <1>7

-----------------------------------------------------------------------------
(* The operators of the graph are those that the lemmas above are about.     *)
LEMMA SameGraph ==
    ASSUME NEW order, NEW needs
    PROVE  /\ GR!KahnOrder(order, needs) = KahnOrder(order, needs)
           /\ GR!HasCycle(order, needs) <=> HasCycle(order, needs)
           /\ GR!CycleNodes(order, needs) = CycleNodes(order, needs)
           /\ GR!BadReferences(order, needs) = BadReferences(order, needs)
           /\ \A S : GR!WellFounded(S, needs) <=> WellFounded(S, needs)
           /\ \A out : GR!IsTopological(order, needs, out) <=> IsTopological(order, needs, out)
           /\ \A done : GR!ReadySteps(order, needs, done) = ReadySteps(order, needs, done)
<1>2. \A f : GR!Range(f) = Range(f) /\ (GR!IsInjective(f) <=> IsInjective(f))
  BY DEF GR!Range, Range, GR!IsInjective, IsInjective
<1>3. \A S : GR!Kept(order, S) = Kept(order, S)
  BY DEF GR!Kept, Kept
<1>6. GR!KahnOrder(order, needs) = KahnOrder(order, needs)
  BY DEF GR!KahnOrder, KahnOrder, GR!Relax, Relax, GR!Dependents, Dependents, GR!Kept, Kept,
         GR!Range, Range, GR!Cardinality, Cardinality
<1>7. GR!BadReferences(order, needs) = BadReferences(order, needs)
  BY <1>2 DEF GR!BadReferences, BadReferences
<1>8. \A S : GR!WellFounded(S, needs) <=> WellFounded(S, needs)
  BY DEF GR!WellFounded, WellFounded
<1>9. \A out : GR!IsTopological(order, needs, out) <=> IsTopological(order, needs, out)
  BY <1>2 DEF GR!IsTopological, IsTopological
<1>10. \A done : GR!ReadySteps(order, needs, done) = ReadySteps(order, needs, done)
  BY <1>2, <1>3 DEF GR!ReadySteps, ReadySteps
<1> QED
  BY <1>2, <1>6, <1>7, <1>8, <1>9, <1>10 DEF GR!HasCycle, HasCycle, GR!CycleNodes, CycleNodes

Steps == 1 .. GraphSteps

(* What an engine has run, it could sort.                                    *)
GraphInv ==
    /\ awaits \in [Steps -> SUBSET (Steps \cup {UnknownStep})]
    /\ completed \subseteq Range(KahnOrder(GR!Order, awaits))

(* The graph is one, so what the sorter returns is sorted.                   *)
LEMMA GraphIsGraph ==
    ASSUME awaits \in [Steps -> SUBSET (Steps \cup {UnknownStep})]
    PROVE  /\ Range(GR!Order) = Steps /\ Len(GR!Order) = GraphSteps /\ GraphSteps \in Nat
           /\ IsGraph(GR!Order, awaits) /\ Sorted(GR!Order, awaits, KahnOrder(GR!Order, awaits))
<1>1. GraphSteps \in Nat
  BY PlatformAssumption DEF GR!WavesAssumption
<1>2. /\ GR!Order \in Seq(Steps) /\ Len(GR!Order) = GraphSteps /\ DOMAIN GR!Order = Steps
      /\ \A i \in Steps : GR!Order[i] = i
  BY <1>1 DEF GR!Order, Steps
<1>3. Range(GR!Order) = Steps /\ IsInjective(GR!Order)
  BY <1>2 DEF Range, IsInjective
<1>4. \A s \in Steps : IsFiniteSet(awaits[s])
  <2>1. IsFiniteSet(Steps \cup {UnknownStep})
    <3>1. IsFiniteSet(Steps)
      BY <1>1, FS_Interval DEF Steps
    <3> QED
      BY <3>1, FS_AddElement
  <2>2. \A s \in Steps : awaits[s] \subseteq Steps \cup {UnknownStep}
    OBVIOUS
  <2> HIDE DEF Steps
  <2> QED
    BY <2>1, <2>2, FS_Subset
<1>5. IsGraph(GR!Order, awaits)
  BY <1>2, <1>3, <1>4 DEF IsGraph
<1> QED
  BY <1>1, <1>2, <1>3, <1>5, KahnEnds

(* GraphInv is inductive.                                                    *)
LEMMA GraphInits == GR!Init => GraphInv
BY DEF GR!Init, GraphInv, Steps

LEMMA GraphSteady == GraphInv /\ [GR!Next]_GR!graphVars => GraphInv'
<1> SUFFICES ASSUME GraphInv, [GR!Next]_GR!graphVars PROVE GraphInv'
  OBVIOUS
<1>1. CASE UNCHANGED GR!graphVars
  BY <1>1 DEF GraphInv, GR!graphVars, GR!Order
<1>2. CASE GR!NextWave
  <2> DEFINE wave == ReadySteps(GR!Order, awaits, completed)
             out == KahnOrder(GR!Order, awaits)
  <2>1. GR!ReadySteps(GR!Order, awaits, completed) = wave /\ GR!Range(wave) = Range(wave)
    BY SameGraph DEF GR!Range, Range
  <2>2. completed' = completed \cup Range(wave) /\ awaits' = awaits
    BY <1>2, <2>1 DEF GR!NextWave
  <2>3. IsGraph(GR!Order, awaits) /\ Sorted(GR!Order, awaits, out) /\ completed \in SUBSET Range(out)
    BY GraphIsGraph DEF GraphInv
  <2>4. Range(wave) \subseteq Range(out)
    BY <2>3, ReadyIsSorted
  <2>5. KahnOrder(GR!Order, awaits)' = out
    BY <2>2 DEF GR!Order
  <2> QED
    BY <2>2, <2>3, <2>4, <2>5 DEF GraphInv
<1> QED
  BY <1>1, <1>2 DEF GR!Next

(* The sorter raises exactly when a set of steps waits for itself or an id is *)
(* not that of another step.                                                  *)
LEMMA SorterIsRight == GraphInv => GR!SortsExactlyAcyclic
<1> SUFFICES ASSUME GraphInv PROVE GR!SortsExactlyAcyclic
  OBVIOUS
<1> DEFINE out == KahnOrder(GR!Order, awaits)
<1>1. /\ Range(GR!Order) = Steps /\ IsGraph(GR!Order, awaits) /\ Sorted(GR!Order, awaits, out)
  BY GraphIsGraph DEF GraphInv
<1>2. HasCycle(GR!Order, awaits) <=> Range(out) # Steps
  BY <1>1, CycleMeansMissing
<1>3. Range(out) = Steps => WellFounded(Steps, awaits) /\ BadReferences(GR!Order, awaits) = {}
  BY <1>1, SortedIsWellFounded
<1>4. Range(out) # Steps /\ WellFounded(Steps, awaits) => BadReferences(GR!Order, awaits) # {}
  BY <1>1, MissingIsCyclic
<1> HIDE DEF out
<1>5. HasCycle(GR!Order, awaits) <=> ~ WellFounded(Steps, awaits) \/ BadReferences(GR!Order, awaits) # {}
  BY <1>2, <1>3, <1>4
<1> QED
  BY <1>5, SameGraph DEF GR!SortsExactlyAcyclic, Steps

(* Without an error the answer is a topological order, and a stable one.     *)
LEMMA OrderIsRight == GraphInv => GR!ReturnsTopologicalOrder
<1> SUFFICES ASSUME GraphInv, ~ HasCycle(GR!Order, awaits) PROVE GR!ReturnsTopologicalOrder
  BY SameGraph DEF GR!ReturnsTopologicalOrder
<1> DEFINE out == KahnOrder(GR!Order, awaits)
<1>1. /\ Range(GR!Order) = Steps /\ Len(GR!Order) = GraphSteps /\ GraphSteps \in Nat
      /\ IsGraph(GR!Order, awaits) /\ Sorted(GR!Order, awaits, out)
  BY GraphIsGraph DEF GraphInv
<1>2. Range(out) = Steps /\ out \in Seq(Steps) /\ IsInjective(out) /\ Len(out) = GraphSteps
  <2>1. Range(out) = Steps
    BY <1>1, CycleMeansMissing
  <2>2. out \in Seq(Steps) /\ IsInjective(out)
    BY <1>1 DEF Sorted
  <2> QED
    BY <1>1, <2>1, <2>2, ListSize
<1>3. IsTopological(GR!Order, awaits, out)
  <2>1. DOMAIN out = 1 .. Len(out)
    BY <1>2
  <2> QED
    BY <1>1, <1>2, <2>1 DEF IsTopological, Sorted
<1>4. ASSUME NEW i \in Steps, NEW j \in Steps, i < j, awaits[out[i]] = {}, awaits[out[j]] = {}
      PROVE  out[i] < out[j]
  <2>1. i \in 1 .. Len(out) /\ j \in 1 .. Len(out)
    BY <1>2, <1>4 DEF Steps
  <2>2. \E p, q \in 1 .. Len(GR!Order) : p < q /\ GR!Order[p] = out[i] /\ GR!Order[q] = out[j]
    BY <1>1, <1>4, <2>1, SortedIsStable
  <2>3. \A p \in 1 .. Len(GR!Order) : GR!Order[p] = p
    BY <1>1 DEF GR!Order
  <2> QED
    BY <2>2, <2>3
<1> HIDE DEF out
<1>5. GR!KahnOrder(GR!Order, awaits) = out /\ GR!IsTopological(GR!Order, awaits, out)
  BY <1>3, SameGraph DEF out
<1> QED
  BY <1>4, <1>5 DEF GR!ReturnsTopologicalOrder, Steps

(* The waves end with the steps that were sorted.                            *)
LEMMA WavesAreRight == GraphInv => GR!CycleNodesNeverRun
<1> SUFFICES ASSUME GraphInv PROVE GR!CycleNodesNeverRun
  OBVIOUS
<1> DEFINE out == KahnOrder(GR!Order, awaits)
<1>1. /\ Range(GR!Order) = Steps /\ IsGraph(GR!Order, awaits) /\ Sorted(GR!Order, awaits, out)
      /\ completed \in SUBSET Range(out)
  BY GraphIsGraph DEF GraphInv
<1>2. ReadySteps(GR!Order, awaits, completed) = <<>> => Range(out) \subseteq completed
  BY <1>1, ReadyIsSorted
<1>3. CycleNodes(GR!Order, awaits) = Steps \ Range(out)
  BY <1>1 DEF CycleNodes
<1> HIDE DEF out
<1>4. GR!CycleNodes(GR!Order, awaits) = Steps \ Range(out)
  BY <1>3, SameGraph
<1>5. GR!ReadySteps(GR!Order, awaits, completed) = ReadySteps(GR!Order, awaits, completed)
  BY SameGraph
<1> QED
  BY <1>1, <1>2, <1>4, <1>5 DEF GR!CycleNodesNeverRun, Steps

(* For every number of steps and all their dependencies: the sorter raises   *)
(* exactly for what waits for itself or names what is not another step, what *)
(* it returns is a topological order in which steps that wait for nothing    *)
(* stay as declared, and waves of ready steps run all but the steps that the *)
(* error names (WorkflowWaves).                                              *)
THEOREM GraphSoundHolds == Components => []GraphSound
<1>1. GR!Init => GraphInv
  BY GraphInits
<1>2. GraphInv /\ [GR!Next]_GR!graphVars => GraphInv'
  BY GraphSteady
<1>3. GraphInv => GraphSound
  BY SorterIsRight, OrderIsRight, WavesAreRight DEF GraphSound
<1> QED
  BY <1>1, <1>2, <1>3, PTL DEF Components, GR!Spec
=============================================================================
