------------------------------- MODULE Platform -------------------------------
(***************************************************************************)
(* The components that run side by side in the process and share no state: *)
(* their composition is the conjunction of their specifications.           *)
(***************************************************************************)
EXTENDS Integers, Sequences, FiniteSets

CONSTANTS
    Plugins, Discovered, Acceptable, TypeOf, DependsOn, MaxEnables,     (* PluginManager *)
    Main, Stoppers,                                                     (* Lifecycle *)
    Calls, Tools, Params, Decisions, ToolRetries, ToolDelay, MaxRules,  (* ToolExecution *)
    KernelRetries,                                                      (* KernelExecution *)
    KernelIntents, KernelRules, KernelTurns, KernelFailures,            (* Cognition *)
    Requests, RequestSession, PipelineStages, PolicyOf, MissingEngines,  (* Pipeline *)
    AgentRuns, RunSession, AgentPlan, MaxIterations, MaxRetries, PolicyRetries,
    WithRouter,                                                         (* AgentRun *)
    Branches, Body, MaxItems, Approvals, OuterRetries,                  (* WorkflowNesting *)
    GraphSteps, UnknownStep,                                            (* WorkflowWaves *)
    DefinitionVersions, MaxRevisions,                                   (* WorkflowDefinitions *)
    DocumentIds, Versions, MaxSaves,                                    (* WorkflowStores *)
    Sessions, MaxVersions,                                              (* SessionStore *)
    Handlers, Topics, MaxEvents, MaxChanges,                            (* EventBus *)
    KernelNotes, MemoryPromotes, MemoryAccesses, MemoryCapacity, MemoryWindow,
    MemoryRecords                                                       (* KernelMemory *)

VARIABLES careful, lifecycle, instances, tracked, wired, workflows, published, active, failed
VARIABLES stage, isRunning, at, ran
VARIABLES registered, rules, sandboxed, calls
VARIABLES described, handled, cancelled, skill, tool, result, returned, toolCalls, late
VARIABLES context, thinking, onFailure, lost, requests, activeGoals, nextId, policies, experiences
VARIABLES runs, activeRun, stopped
VARIABLES agentRuns, tokenOf
VARIABLES kind, gated, phase, attempt, threads, engine, status, decided
VARIABLES awaits, completed
VARIABLES versions, current, stored, provided, apart, revision
VARIABLES storing, file, tmp, pending, memory, writes
VARIABLES sessions, files, writing, count, saved, torn
VARIABLES handlers, ready, running, gathers, started, due, events, changes
VARIABLES records, counter, clock, promoted, pruned

PM == INSTANCE PluginManager
LC == INSTANCE Lifecycle
TE == INSTANCE ToolExecution WITH Retries <- ToolRetries, Delay <- ToolDelay
KX == INSTANCE KernelExecution WITH
        Retries <- KernelRetries, registered <- described, token <- cancelled, calls <- toolCalls
CG == INSTANCE Cognition WITH
        Intents <- KernelIntents, Rules <- KernelRules, MaxRequests <- KernelTurns,
        MaxFailures <- KernelFailures, stage <- thinking, rules <- policies
PL == INSTANCE Pipeline WITH
        SessionOf <- RequestSession, Stages <- PipelineStages, Unregistered <- MissingEngines
AR == INSTANCE AgentRun WITH
        Runs <- AgentRuns, SessionOf <- RunSession, PlanLength <- AgentPlan
NE == INSTANCE WorkflowNesting WITH Retries <- OuterRetries
GR == INSTANCE WorkflowWaves WITH N <- GraphSteps, Unknown <- UnknownStep, deps <- awaits
DE == INSTANCE WorkflowDefinitions WITH Versions <- DefinitionVersions
ST == INSTANCE WorkflowStores WITH kind <- storing, Ids <- DocumentIds
SE == INSTANCE SessionStore
EB == INSTANCE EventBus
ME == INSTANCE KernelMemory WITH
        Notes <- KernelNotes, Promotes <- MemoryPromotes, Accesses <- MemoryAccesses,
        Capacity <- MemoryCapacity, Window <- MemoryWindow, MaxRecords <- MemoryRecords,
        kept <- promoted

ASSUME PlatformAssumption ==
    /\ PM!PluginAssumption /\ TE!ToolAssumption /\ PL!PipelineAssumption
    /\ AR!AgentRunAssumption /\ EB!BusAssumption /\ NE!NestingAssumption
    /\ GR!WavesAssumption /\ CG!CognitionAssumption /\ ME!MemoryAssumption
    /\ KernelRetries \in Nat

Components ==
    /\ PM!Spec /\ LC!Spec /\ TE!Spec /\ KX!Spec /\ CG!Spec /\ PL!Spec /\ AR!Spec
    /\ NE!Spec /\ GR!Spec /\ DE!Spec /\ ST!Spec /\ SE!Spec /\ EB!Spec /\ ME!Spec

-----------------------------------------------------------------------------
(* A plugin the manager counts as enabled is the one its tables hold, and    *)
(* what a plugin brought in goes with it (PluginManager).                    *)
PluginsSound == PM!RegistryConsistent /\ PM!NothingLeftBehind
(* A tool works for a caller only as long as the caller can know             *)
(* (ToolExecution), a skill ends as its last attempt did, with nothing of it *)
(* left running (KernelExecution), and handlers see events in order, each    *)
(* through each of their subscriptions once (EventBus).                      *)
WorkAccountedFor == TE!WorkAccountedFor /\ KX!ExecutionSound /\ EB!DeliveredInOrder
(* The sorter's answer is a topological order, or a cycle that is one, and   *)
(* an engine that takes ready steps wave by wave runs all but what a cycle   *)
(* or an unknown id holds back (WorkflowWaves).                              *)
GraphSound == GR!SortsExactlyAcyclic /\ GR!ReturnsTopologicalOrder /\ GR!CycleNodesNeverRun
(* What a request leads to is its own, whatever stage failed, and what is    *)
(* denied stays denied (Cognition); what was promoted is remembered, and     *)
(* found (KernelMemory).                                                     *)
KernelSound == CG!CognitionSound /\ ME!MemorySound
(* Start-up and stop happen at most once and in order (Lifecycle).           *)
StopsOnce == LC!StopsOnce
(* A cancelled or late request enters no further stage (Pipeline).           *)
StoppedGoesNoFurther == PL!StoppedGoesNoFurther
(* A run's tools start in turn and its answer is true (AgentRun).            *)
AgentObeys == AR!AgentObeys
(* A nested step ends at most once (WorkflowNesting).                        *)
NestedOnce == NE!NestedOnce
(* A stored published version is not replaced while the registry has it      *)
(* (WorkflowDefinitions), and a crash at any point leaves in the files what  *)
(* operations that returned have made (WorkflowStores, SessionStore).        *)
DefinitionsKept == DE!DefinitionsKept /\ []ST!FileKept /\ []SE!SessionsKept
=============================================================================
