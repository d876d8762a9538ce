------------------------------ MODULE MCPlatform ------------------------------
(***************************************************************************)
(* Small instances of the components that share no state with the others:  *)
(* those of Platform, whose constants get their values below, and those    *)
(* that are only checked.  In a behaviour only the subject acts, so what   *)
(* is explored is the sum of their state spaces and not the product.       *)
(***************************************************************************)
EXTENDS Platform

VARIABLE subject

VARIABLES entries, stack, resolving, resolved, built, wanted
VARIABLES caps, tally, price, opened
VARIABLES content, cut
VARIABLES loads, rows, vectors, ids, cache, tallied, namespaces, collections
VARIABLES asked, retrieving, branches, hits, cited, lexicon, counted, dirty, changed
VARIABLES raw, percept, said, classifiers, intent
VARIABLES problem, strategies, trace, refinements, report
VARIABLES definition, violations, results, executed
VARIABLES inputs, outputs, scope
VARIABLES expression, after, found
VARIABLES experienced, numbered, answered, now
VARIABLES log, byProvider, queries, trying, metrics, spans, received, announced, recorded

pluginVars == <<careful, lifecycle, instances, tracked, wired, workflows, published, active, failed>>
lifecycleVars == <<stage, isRunning, at, ran>>
toolVars == <<registered, rules, sandboxed, calls>>
pipelineVars == <<runs, activeRun, stopped>>
agentVars == <<agentRuns, tokenOf>>
graphVars == <<awaits, completed>>
nestingVars == <<kind, gated, phase, attempt, threads, engine, status, decided>>
definitionVars == <<versions, current, stored, provided, apart, revision>>
containerVars == <<entries, stack, resolving, resolved, built, wanted>>
busVars == <<handlers, ready, running, gathers, started, due, events, changes>>
selectionVars == <<caps, tally, price, opened>>
chunkVars == <<content, cut>>
storeVars == <<loads, rows, vectors, ids, cache, tallied, namespaces, collections>>
retrievalVars == <<asked, retrieving, branches, hits, cited, lexicon, counted, dirty, changed>>
memoryVars == <<records, counter, clock, promoted, pruned>>
intentVars == <<raw, percept, said, classifiers, intent>>
deliberationVars == <<problem, strategies, trace, refinements, report>>
cognitionVars == <<context, thinking, onFailure, lost, requests, activeGoals, nextId, policies, experiences>>
documentVars == <<storing, file, tmp, pending, memory, writes>>
sessionVars == <<sessions, files, writing, count, saved, torn>>
executionVars == <<described, handled, cancelled, skill, tool, result, returned, toolCalls, late>>
validationVars == <<definition, violations, results, executed>>
templateVars == <<inputs, outputs, scope>>
cronVars == <<expression, after, found>>
experienceVars == <<experienced, numbered, answered, now>>
telemetryVars == <<log, byProvider, queries, trying, metrics, spans, received, announced, recorded>>

(* The constants of Platform.  A workflow plugin that depends on a provider  *)
(* plugin.                                                                   *)
PluginTypes == [p |-> "llm_provider", q |-> "workflow"]
PluginNeeds == [p |-> {}, q |-> {"p"}]
(* A tool with a required parameter and an optional one.                     *)
ToolParams == [t |-> [a |-> [required |-> TRUE], b |-> [required |-> FALSE]]]
ToolDecisions == {[tools |-> {"t"}, decision |-> d] : d \in {"allow", "confirm"}}
(* Two requests, and two runs of agents, of one session; four stages with    *)
(* one failure policy each.                                                  *)
OneSession == [r \in {"r1", "r2"} |-> "s"]
FourPolicies ==
    <<[policy |-> "retry", retries |-> 1, fallback |-> FALSE],
      [policy |-> "fallback", retries |-> 0, fallback |-> TRUE],
      [policy |-> "continue", retries |-> 0, fallback |-> FALSE],
      [policy |-> "abort", retries |-> 0, fallback |-> FALSE]>>
(* A rule below the built-in ones, and one of their rank. *)
TwoRules ==
    {[actions |-> {"skill_call"}, verdict |-> "deny", priority |-> 0],
     [actions |-> {"skill_call", "shell_exec"}, verdict |-> "confirm", priority |-> 100]}
(* Two notes with a word in common, of which one is worth keeping.           *)
TwoNotes ==
    {[tier |-> "short", session |-> "s", words |-> {"x"}, tags |-> {}, importance |-> 8],
     [tier |-> "short", session |-> "s", words |-> {"x"}, tags |-> {"g"}, importance |-> 2]}
(* Two branches, of two steps and of one; a loop over the first branch.      *)
TwoBranches == <<<<"x", "y">>, <<"z">>>>
FirstBranch == <<"x", "y">>

(* Plugins that load in an order: the steps of the graph are plugins. *)
LO == INSTANCE PluginOrder WITH DepthLimit <- 1

(* A type that takes two others, one of which takes the third and one of     *)
(* which may take the first.                                                 *)
DC == INSTANCE Container WITH
        Types <- {"a", "b", "c"}, MaxCalls <- 2,
        calls <- resolving, answer <- resolved, asked <- wanted,
        Parameters <- [a |-> <<[on |-> "b", required |-> TRUE], [on |-> "c", required |-> FALSE]>>,
                       b |-> <<[on |-> "c", required |-> TRUE]>>,
                       c |-> <<[on |-> "a", required |-> FALSE]>>]

(* Two providers with one outcome each. *)
PS == INSTANCE ProviderSelection WITH Names <- <<"p", "q">>, MaxOutcomes <- 1

(* Texts of six characters. *)
CH == INSTANCE Chunking WITH Length <- 6, Sizes <- {2, 5}

(* Two documents with a text in common, and a cache that holds two of three  *)
(* texts for one of two providers.                                           *)
KS == INSTANCE KnowledgeStore WITH
        Documents <- {<<"a", "b">>, <<"b", "c", "b">>}, Providers <- {"m", "n"},
        CacheSize <- 2, Oversample <- 2, MaxLoads <- 3,
        Nearness <- [a |-> [a |-> 3, b |-> 2, c |-> 1], b |-> [a |-> 2, b |-> 3, c |-> 1],
                     c |-> [a |-> 1, b |-> 1, c |-> 3]]

(* Three chunks of two documents, of which two are asked for. *)
RT == INSTANCE Retrieval WITH
        Chunks <- 1..3, DocOf <- <<1, 1, 2>>, TopK <- 2, K <- 60, Variants <- 2, MaxChanges <- 2,
        stage <- retrieving

(* Texts of four characters, and texts in which two patterns match.          *)
UN == INSTANCE Intents WITH MaxText <- 4, MaxWords <- 2, Custom <- {"sure", "even", "raises"}

(* Problems of eight words: pieces of one word and of two, and a rest.       *)
DL == INSTANCE Deliberation WITH MaxProblem <- 8, MaxRefinements <- 2, registered <- strategies

(* Four records, of which a log keeps two; a subscriber raises. *)
TM == INSTANCE Telemetry WITH
        Providers <- {"p", "q"}, MaxEvents <- 2, Subscribers <- <<"bad", "good">>,
        MaxAttempts <- 2, MaxRecords <- 4, attempt <- trying, published <- announced

(* Two steps, of which the first may nest others, with outputs; and what     *)
(* else the validator looks at, of one step.                                 *)
Leaf(i) == [id |-> i, type |-> "task", needs |-> {}, filled |-> TRUE, branches |-> <<>>, loop |-> <<>>]
Branch(name, i) == [name |-> name, steps |-> <<Leaf(i)>>]
Choices ==
    {<<>>, <<Branch("p", "c")>>, <<Branch("p", "a")>>, <<Branch("p", "c"), Branch("q", "d")>>,
     <<Branch("p", "c"), Branch("p", "d")>>, <<Branch("p", "c"), Branch("q", "b")>>}
Composites ==
    {Leaf("a"), [Leaf("a") EXCEPT !.filled = FALSE]}
      \cup {[Leaf("a") EXCEPT !.type = t, !.branches = c, !.filled = (c # <<>>)] :
               t \in {"conditional", "parallel"}, c \in Choices}
      \cup {[Leaf("a") EXCEPT !.type = "loop", !.loop = body, !.filled = f] :
               body \in {<<>>, <<Leaf("c")>>, <<Leaf("b")>>, <<Leaf("c"), Leaf("c")>>}, f \in BOOLEAN}
NeedSets == {{}, {"a"}, {"b"}, {"x"}}
Output(of, i) == [name |-> "o", source |-> [of |-> of, id |-> i]]
OutputLists ==
    {<<>>, <<Output("step", "a")>>, <<Output("step", "c")>>,
     <<Output("inputs", "u"), Output("none", "")>>}
StepLists ==
    {<<[c EXCEPT !.needs = n]>> : c \in Composites, n \in NeedSets}
      \cup {<<[c EXCEPT !.needs = n], [Leaf(i) EXCEPT !.needs = k]>> :
               c \in Composites, n \in NeedSets, k \in NeedSets, i \in {"b", "a"}}
Definition(id, version, ins, steps, outs) ==
    [id |-> id, version |-> version, inputs |-> ins, steps |-> steps, outputs |-> outs]
WV == INSTANCE WorkflowValidation WITH
        report <- violations, ran <- executed,
        Definitions <-
            {Definition("w", "1.0.0", <<>>, steps, outs) : steps \in StepLists, outs \in OutputLists}
              \cup {Definition(id, v, ins, steps, <<>>) :
                       id \in {"", "w"}, v \in {"", "1.0", "1.0.0"},
                       ins \in {<<>>, <<"u", "u">>, <<"">>},
                       steps \in {<<>>, <<Leaf("a")>>, <<Leaf("")>>}}

(* Two inputs, of which a loop has the name of one, and a step.              *)
Txt(t) == <<"text", <<t>>>>
ItemPath == <<<<"inputs">>, <<"item">>>>
WT == INSTANCE WorkflowTemplates WITH
        Inputs <- [{"a", "item"} -> {<<"none">>, <<"num", 1>>, <<"bool", TRUE>>,
                                     Txt(<<"word", "no">>), Txt(<<"expr", ItemPath>>)}],
        Results <- {<<"num", 1>>, <<"list", <<Txt(<<"word", "no">>), <<"bool", FALSE>>>>>>,
                    <<"map", [f |-> <<"list", <<<<"num", 1>>>>>>]>>,
                    <<"map", [f |-> Txt(<<"word", "no">>)]>>,
                    <<"map", [output |-> Txt(<<"word", "a">>)]>>},
        Items <- {<<"none">>, <<"num", 1>>},
        Expressions <- {<<<<"inputs">>, <<"a">>>>, ItemPath,
                        <<<<"step">>, <<"s">>, <<"output">>, <<"f">>>>, <<<<"s">>, <<"output">>>>},
        Words <- <<"a", "no">>

(* A calendar of four days, over the end of a month; hours of three minutes. *)
Part(base) == [base |-> base, step |-> <<>>]
Every(base, n) == [base |-> base, step |-> <<n>>]
Star == <<Part(<<>>)>>
Fields(minute, hour, dom, month, dow) ==
    [minute |-> minute, hour |-> hour, dom |-> dom, month |-> month, dow |-> dow]
CN == INSTANCE Cron WITH
        Expressions <-
            [minute : {Star, <<Every(<<>>, 2)>>, <<Part(<<2>>), Every(<<0, 2>>, 2)>>},
             hour : {Star, <<Part(<<1>>)>>},
             dom : {Star, <<Part(<<31>>)>>, <<Every(<<>>, 2)>>},
             month : {Star, <<Part(<<2>>)>>},
             dow : {Star, <<Part(<<7>>)>>, <<Part(<<5, 7>>)>>}]
              \cup {Fields(f, Star, Star, Star, Star) :
                       f \in {<<Part(<<9>>)>>, <<Part(<<2, 1>>)>>, <<Every(<<>>, 0)>>}},
        Calendar <- <<[day |-> 30, month |-> 1, weekday |-> 6], [day |-> 31, month |-> 1, weekday |-> 0],
                      [day |-> 1, month |-> 2, weekday |-> 1], [day |-> 2, month |-> 2, weekday |-> 2]>>,
        Hours <- 2, Minutes <- 3, Days <- 31, Months <- 12, Horizon <- 4, due <- found

(* Three kinds of sessions and three records, of which one may bring its id. *)
EX == INSTANCE Experience WITH
        Sessions <- {[goal |-> "fix", skills |-> {"search"}, success |-> TRUE,
                      lessons |-> <<"strategy", "error">>],
                     [goal |-> "fix", skills |-> {}, success |-> FALSE, lessons |-> <<"error">>],
                     [goal |-> "ask", skills |-> {"search", "write"}, success |-> TRUE,
                      lessons |-> <<"error", "error">>]},
        OwnIds <- {1}, MaxRecords <- 3,
        records <- experienced, counter <- numbered, saved <- answered, clock <- now

Subjects == {"plugins", "lifecycle", "tools", "pipeline", "agent", "graph", "nesting", "definitions",
             "container", "bus", "selection", "chunks", "store", "retrieval", "memory",
             "intents", "deliberation", "cognition", "documents", "sessions", "telemetry",
             "execution", "validation", "templates", "cron", "experience"}

(* A component that is not the subject has one of its initial states. *)
Init ==
    /\ subject \in Subjects
    /\ PM!Init /\ (careful => subject = "plugins")
    /\ LC!Init
    /\ TE!Init /\ (sandboxed => subject = "tools")
    /\ PL!Init
    /\ AR!Init
    /\ IF subject = "graph" THEN GR!Init
       ELSE awaits = [i \in 1..GraphSteps |-> {i}] /\ completed = {}
    /\ NE!Init /\ (subject # "nesting" => kind = "loop" /\ gated = {})
    /\ DE!Init /\ DC!Init /\ EB!Init /\ PS!Init /\ KS!Init
    /\ IF subject = "chunks" THEN CH!Init
       ELSE content = [i \in 1..6 |-> CH!Space] /\ cut = CH!Uncut
    /\ RT!Init /\ (subject # "retrieval" => ~asked.multi /\ asked.dense /\ ~asked.lexical /\ ~asked.sources)
    /\ ME!Init /\ SE!Init /\ TM!Init
    /\ UN!Init /\ (subject # "intents" => raw = <<"a">> /\ said = UN!Nothing)
    /\ DL!Init /\ (subject # "deliberation" => problem = DL!Simple)
    /\ CG!Init /\ (subject # "cognition" => onFailure = "abort")
    /\ KX!Init /\ (subject # "execution" => handled = {"skill"})
    /\ IF subject = "validation" THEN WV!Init
       ELSE /\ definition = Definition("w", "1.0.0", <<>>, <<>>, <<>>)
            /\ violations = {"none"} /\ results = {} /\ executed = <<>>
    /\ WT!Init /\ (subject # "templates" => inputs = [name \in {"a", "item"} |-> <<"none">>])
    /\ ST!Init /\ (subject # "documents" => storing = "runs")
    /\ EX!Init
    /\ IF subject = "cron" THEN CN!Init
       ELSE expression = Fields(Star, Star, Star, Star, Star) /\ after = 0 /\ found = CN!Unasked

Next ==
    /\ UNCHANGED subject
    /\ IF subject = "plugins"     THEN PM!Next ELSE UNCHANGED pluginVars
    /\ IF subject = "lifecycle"   THEN LC!Next ELSE UNCHANGED lifecycleVars
    /\ IF subject = "tools"       THEN TE!Next ELSE UNCHANGED toolVars
    /\ IF subject = "pipeline"    THEN PL!Next ELSE UNCHANGED pipelineVars
    /\ IF subject = "agent"       THEN AR!Next ELSE UNCHANGED agentVars
    /\ IF subject = "graph"       THEN GR!Next ELSE UNCHANGED graphVars
    /\ IF subject = "nesting"     THEN NE!Next ELSE UNCHANGED nestingVars
    /\ IF subject = "definitions" THEN DE!Next ELSE UNCHANGED definitionVars
    /\ IF subject = "container"   THEN DC!Next ELSE UNCHANGED containerVars
    /\ IF subject = "bus"         THEN EB!Next ELSE UNCHANGED busVars
    /\ IF subject = "selection"   THEN PS!Next ELSE UNCHANGED selectionVars
    /\ IF subject = "chunks"      THEN CH!Next ELSE UNCHANGED chunkVars
    /\ IF subject = "store"       THEN KS!Next ELSE UNCHANGED storeVars
    /\ IF subject = "retrieval"   THEN RT!Next ELSE UNCHANGED retrievalVars
    /\ IF subject = "memory"      THEN ME!Next ELSE UNCHANGED memoryVars
    /\ IF subject = "intents"     THEN UN!Next ELSE UNCHANGED intentVars
    /\ IF subject = "deliberation" THEN DL!Next ELSE UNCHANGED deliberationVars
    /\ IF subject = "cognition"   THEN CG!Next ELSE UNCHANGED cognitionVars
    /\ IF subject = "documents"   THEN ST!Next ELSE UNCHANGED documentVars
    /\ IF subject = "sessions"    THEN SE!Next ELSE UNCHANGED sessionVars
    /\ IF subject = "telemetry"   THEN TM!Next ELSE UNCHANGED telemetryVars
    /\ IF subject = "execution"   THEN KX!Next ELSE UNCHANGED executionVars
    /\ IF subject = "validation"  THEN WV!Next ELSE UNCHANGED validationVars
    /\ IF subject = "templates"   THEN WT!Next ELSE UNCHANGED templateVars
    /\ IF subject = "cron"        THEN CN!Next ELSE UNCHANGED cronVars
    /\ IF subject = "experience"  THEN EX!Next ELSE UNCHANGED experienceVars

vars == <<subject, pluginVars, lifecycleVars, toolVars, pipelineVars, agentVars, graphVars,
          nestingVars, definitionVars, containerVars, busVars, selectionVars,
          chunkVars, storeVars, retrievalVars, memoryVars, intentVars, deliberationVars,
          cognitionVars, documentVars, sessionVars, telemetryVars, executionVars,
          validationVars, templateVars, cronVars, experienceVars>>

Spec == Init /\ [][Next]_vars

-----------------------------------------------------------------------------
(* A singleton is built once and circles are found (Container); plugins load *)
(* after what they depend on (PluginOrder); the provider that is selected is *)
(* the best of those that may be (ProviderSelection); counts and views of    *)
(* the logs agree (Telemetry); what is looked up in a store is what its      *)
(* interface promises (WorkflowStores).  A definition without errors runs to *)
(* its end (WorkflowValidation), its expressions are expanded and compared   *)
(* as they are written (WorkflowTemplates), and a cron schedule is due at    *)
(* the next minute that its expression names (Cron).                         *)
CoreSound ==
    /\ subject = "container" => DC!ContainerSound
    /\ subject = "graph" => LO!OrdersSound(GR!Order, awaits)
    /\ subject = "selection" => PS!SelectionSound
    /\ subject = "telemetry" => TM!TelemetrySound
    /\ subject = "documents" => ST!LookupsSound
    /\ subject = "validation" => WV!ValidMeansRunnable
    /\ subject = "templates" => WT!TemplatesSound
    /\ subject = "cron" => CN!CronSound
(* The chunks of a document are the document (Chunking), the stores hold what *)
(* was loaded and not deleted, with the vectors that belong to it            *)
(* (KnowledgeStore), and an answer is ranked and cited as it should be       *)
(* (Retrieval).  A message that is not understood is asked about (Intents),  *)
(* a problem is reasoned about in whole (Deliberation), and of what was      *)
(* experienced nothing is lost or counted twice (Experience).                *)
KnowledgeSound ==
    /\ subject = "chunks" => CH!ChunksSound
    /\ subject = "store" => KS!IndexSound
    /\ subject = "retrieval" => RT!AnswerSound /\ (retrieving = "rewrite" => RT!FusionSound)
    /\ subject = "intents" => UN!IntentSound
    /\ subject = "deliberation" => DL!DeliberationSound
    /\ subject = "experience" => EX!ExperienceSound
(* "Iterate over a resolved iterable, running loop steps per item": what a   *)
(* loop returns for a step of an iteration is what that step answered in     *)
(* that iteration (WorkflowNesting).                                         *)
ResultsAreOwn == subject = "nesting" => NE!ResultsAreOwn
=============================================================================
