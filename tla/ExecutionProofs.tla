-------------------------- MODULE ExecutionProofs ---------------------------
(***************************************************************************)
(* Theorems about what executes: calls of tools, skills of the kernel,     *)
(* handlers of events, runs of agents, the steps inside a step of a        *)
(* workflow, the stages of the kernel's pipeline and its memory, for all   *)
(* values of the constants.                                                *)
(***************************************************************************)
EXTENDS Platform, WellFoundedInduction, FiniteSetTheorems, SequenceTheorems, TLAPS

-----------------------------------------------------------------------------
(***************************************************************************)
(* Calls of tools: the threads of a call.                                  *)
(***************************************************************************)

LEMMA SameCount ==
    ASSUME NEW S
    PROVE  TE!Cardinality(S) = Cardinality(S)
  BY DEF TE!Cardinality, Cardinality

Thread == {"runs", "ok", "raises", "cancelled"}

CallType == [phase : {"idle", "running", "delayed", "answered", "abandoned"},
             tool : Tools \cup {"none"}, threads : Seq(Thread), cancelled : BOOLEAN,
             timed_out : BOOLEAN, permitted : BOOLEAN,
             result : {"none", "success", "cancelled", "failure", "refused"}]

(* A call attempts as often as it may, once it is permitted. *)
Counted(call) ==
    /\ Len(call.threads) <= ToolRetries + 1
    /\ call.phase = "delayed" => Len(call.threads) <= ToolRetries
    /\ call.phase = "idle" => call.threads = <<>>
    /\ call.threads # <<>> => call.permitted
    /\ call.phase \in {"running", "delayed"} => call.permitted

(* It has a result when it is answered, a success that of its last thread. *)
Answered(call) ==
    /\ call.result # "none" => call.phase = "answered"
    /\ call.result = "success" => call.threads # <<>> /\ call.threads[Len(call.threads)] = "ok"

(* The thread it waits for is the last one and, as long as there was no      *)
(* timeout, the only one that can run.                                       *)
Heard(call) ==
    /\ call.phase = "running" => call.threads # <<>>
    /\ ~call.timed_out => \A i \in DOMAIN call.threads :
          call.threads[i] = "runs" => i = Len(call.threads) /\ call.phase \in {"running", "abandoned"}

CallGood(call) == call \in CallType /\ Counted(call) /\ Answered(call) /\ Heard(call)

CallInv == calls \in [Calls -> CallType] /\ \A c \in Calls : CallGood(calls[c])

-----------------------------------------------------------------------------
(* A call that goes on to an attempt: no thread of it runs, or it timed out. *)
Free(call) ==
    /\ call \in CallType /\ call.permitted /\ call.result = "none"
    /\ Len(call.threads) <= ToolRetries + 1
    /\ ~call.timed_out => \A i \in DOMAIN call.threads : call.threads[i] # "runs"

LEMMA UpdateKeeps ==
    ASSUME CallInv, NEW c \in Calls, NEW call, CallGood(call), TE!Update(c, call)
    PROVE  CallInv'
BY DEF CallInv, TE!Update, CallGood

LEMMA AnswerGood ==
    ASSUME TE!ToolAssumption, NEW call, Free(call), NEW answer \in {"cancelled", "failure", "refused"}
    PROVE  CallGood(TE!Answer(call, answer))
BY DEF TE!ToolAssumption, Free, TE!Answer, CallGood, CallType, Counted, Answered, Heard, Thread

LEMMA AttemptGood ==
    ASSUME TE!ToolAssumption, NEW call, Free(call), Len(call.threads) <= ToolRetries
    PROVE  CallGood(TE!Attempt(call))
<1>1. CASE call.cancelled
  BY <1>1, AnswerGood DEF TE!Attempt
<1>2. CASE ~call.cancelled
  <2> DEFINE next == [call EXCEPT !.phase = "running", !.threads = Append(@, "runs")]
             n    == Len(call.threads)
  <2>1. call.threads \in Seq(Thread) /\ n \in Nat /\ ToolRetries \in Nat
    BY DEF Free, CallType, TE!ToolAssumption
  <2>2. /\ next.threads = Append(call.threads, "runs") /\ next.threads \in Seq(Thread)
        /\ Len(next.threads) = n + 1 /\ DOMAIN next.threads = 1..(n + 1)
        /\ next.threads[n + 1] = "runs" /\ \A i \in 1..n : next.threads[i] = call.threads[i]
    BY <2>1 DEF Free, CallType, Thread
  <2>3. /\ next = [call EXCEPT !.phase = "running", !.threads = next.threads]
        /\ next.phase = "running" /\ next.result = "none" /\ next.permitted
    BY <1>2 DEF Free, CallType
  <2>4. next \in CallType
    BY <2>2, <2>3 DEF Free, CallType
  <2>5. Counted(next) /\ Answered(next)
    BY <2>1, <2>2, <2>3 DEF Free, Counted, Answered
  <2>6. Heard(next)
    BY <2>1, <2>2, <2>3 DEF Free, CallType, Heard
  <2> QED
    BY <1>2, <2>4, <2>5, <2>6 DEF TE!Attempt, CallGood
<1> QED
  BY <1>1, <1>2

LEMMA FailureGood ==
    ASSUME TE!ToolAssumption, NEW call, Free(call)
    PROVE  CallGood(TE!AfterFailure(call))
<1>1. CASE Len(call.threads) > ToolRetries
  BY <1>1, AnswerGood DEF TE!AfterFailure
<1>2. CASE ~(Len(call.threads) > ToolRetries) /\ ToolDelay > 0
  BY <1>2 DEF TE!AfterFailure, TE!ToolAssumption, Free, CallGood, CallType, Counted, Answered, Heard
<1>3. CASE ~(Len(call.threads) > ToolRetries) /\ ~(ToolDelay > 0)
  <2>1. Len(call.threads) <= ToolRetries
    BY <1>3 DEF Free, CallType, TE!ToolAssumption
  <2> QED
    BY <1>3, <2>1, AttemptGood DEF TE!AfterFailure
<1> QED
  BY <1>1, <1>2, <1>3

LEMMA CallExecuteKeeps ==
    ASSUME TE!ToolAssumption, CallInv, NEW c \in Calls, NEW t \in Tools, NEW confirmed, NEW arguments,
           TE!Execute(c, t, arguments, confirmed)
    PROVE  CallInv'
<1> DEFINE call == [calls[c] EXCEPT !.tool = t]
           asked == [call EXCEPT !.permitted = TRUE]
<1>1. CallGood(calls[c]) /\ calls[c].phase = "idle"
  BY DEF CallInv, TE!Execute
<1>2. Free(asked) /\ Len(asked.threads) <= ToolRetries
  <2>1. /\ asked \in CallType /\ asked.permitted
        /\ asked.threads = calls[c].threads /\ asked.result = calls[c].result
    BY <1>1 DEF CallGood, CallType
  <2>2. calls[c].threads = <<>> /\ calls[c].result = "none"
    BY <1>1 DEF CallGood, Counted, Answered
  <2> QED
    BY <2>1, <2>2 DEF Free, TE!ToolAssumption
<1>3. CallGood(TE!Answer(call, "refused"))
  BY <1>1 DEF CallGood, TE!Answer, CallType, Counted, Answered, Heard, TE!ToolAssumption
<1>4. CallGood(TE!Attempt(asked))
  BY <1>2, AttemptGood
<1> QED
  BY <1>3, <1>4, UpdateKeeps DEF TE!Execute

LEMMA ThreadEndsKeeps ==
    ASSUME TE!ToolAssumption, CallInv, NEW c \in Calls, NEW i \in DOMAIN calls[c].threads,
           NEW how \in {"ok", "raises", "cancelled"}, TE!ThreadEnds(c, i, how)
    PROVE  CallInv'
<1> DEFINE old == calls[c]
           call == [old EXCEPT !.threads[i] = how]
           n == Len(old.threads)
           heard == old.phase = "running" /\ i = n
<1>1. CallGood(old) /\ old.threads[i] = "runs"
  BY DEF CallInv, TE!ThreadEnds
<1>2. /\ old.threads \in Seq(Thread) /\ n \in Nat /\ i \in 1..n
      /\ call.threads \in Seq(Thread) /\ Len(call.threads) = n /\ DOMAIN call.threads = 1..n
      /\ call.threads[i] = how /\ \A j \in 1..n : j # i => call.threads[j] = old.threads[j]
  BY <1>1 DEF CallGood, CallType, Thread
<1>3. call \in CallType /\ Counted(call)
  BY <1>1, <1>2 DEF CallGood, CallType, Counted
<1>4. CASE ~heard
  <2>1. Answered(call)
    BY <1>1, <1>2 DEF CallGood, CallType, Answered
  <2>2. Heard(call)
    BY <1>1, <1>2 DEF CallGood, CallType, Heard
  <2>3. TE!Update(c, call)
    BY <1>4 DEF TE!ThreadEnds
  <2> QED
    BY <1>3, <2>1, <2>2, <2>3, UpdateKeeps DEF CallGood
<1>5. CASE heard
  <2>1. Free(call)
    BY <1>1, <1>2, <1>3, <1>5 DEF CallGood, Free, CallType, Counted, Answered, Heard
  <2>2. ASSUME how = "ok"
        PROVE  CallGood(TE!Answer(call, "success"))
    <3> DEFINE done == TE!Answer(call, "success")
    <3>1. /\ done \in CallType /\ done.threads = call.threads /\ done.result = "success"
          /\ done.phase = "answered" /\ done.permitted = call.permitted
          /\ done.timed_out = call.timed_out
      BY <1>3 DEF TE!Answer, CallType
    <3>2. Counted(done)
      BY <1>3, <3>1 DEF Counted
    <3>3. Answered(done) /\ Heard(done)
      BY <1>2, <1>5, <2>1, <2>2, <3>1 DEF Answered, Heard, Free
    <3> QED
      BY <3>1, <3>2, <3>3 DEF CallGood
  <2>3. CallGood(TE!Answer(call, "cancelled")) /\ CallGood(TE!AfterFailure(call))
    BY <2>1, AnswerGood, FailureGood
  <2>4. \/ how = "ok" /\ TE!Update(c, TE!Answer(call, "success"))
        \/ TE!Update(c, TE!Answer(call, "cancelled"))
        \/ TE!Update(c, TE!AfterFailure(call))
    BY <1>5 DEF TE!ThreadEnds
  <2> QED
    BY <2>2, <2>3, <2>4, UpdateKeeps
<1> QED
  BY <1>4, <1>5

LEMMA CallStep ==
    ASSUME TE!ToolAssumption, CallInv, [TE!Next]_TE!toolVars
    PROVE  CallInv'
<1>1. ASSUME NEW c \in Calls, TE!AttemptTimesOut(c)
      PROVE  CallInv'
  <2>1. CallGood(calls[c]) /\ calls[c].phase = "running"
    BY <1>1 DEF CallInv, TE!AttemptTimesOut
  <2>2. Free([calls[c] EXCEPT !.timed_out = TRUE])
    BY <2>1 DEF CallGood, Free, CallType, Counted, Answered
  <2> QED
    BY <1>1, <2>2, FailureGood, UpdateKeeps DEF TE!AttemptTimesOut
<1>2. ASSUME NEW c \in Calls, TE!DelayEnds(c)
      PROVE  CallInv'
  <2>1. CallGood(calls[c]) /\ calls[c].phase = "delayed"
    BY <1>2 DEF CallInv, TE!DelayEnds
  <2>2. Free(calls[c]) /\ Len(calls[c].threads) <= ToolRetries
    BY <2>1 DEF CallGood, Free, CallType, Counted, Answered, Heard, TE!ToolAssumption
  <2> QED
    BY <1>2, <2>2, AttemptGood, UpdateKeeps DEF TE!DelayEnds
<1>3. ASSUME NEW c \in Calls, TE!Cancel(c) \/ TE!CallerCancelled(c)
      PROVE  CallInv'
  <2>1. CallGood(calls[c])
    BY <1>3 DEF CallInv
  <2>2. CallGood([calls[c] EXCEPT !.cancelled = TRUE])
    BY <2>1 DEF CallGood, CallType, Counted, Answered, Heard
  <2>3. calls[c].phase \in {"running", "delayed"} => CallGood([calls[c] EXCEPT !.phase = "abandoned"])
    BY <2>1 DEF CallGood, CallType, Counted, Answered, Heard
  <2> QED
    BY <1>3, <2>2, <2>3, UpdateKeeps DEF TE!Cancel, TE!CallerCancelled
<1>4. calls' = calls => CallInv'
  BY DEF CallInv
<1> QED
  BY <1>1, <1>2, <1>3, <1>4, CallExecuteKeeps, ThreadEndsKeeps
  DEF TE!Next, TE!AddRule, TE!ClearRules, TE!SwitchSandbox, TE!Register, TE!Unregister, TE!toolVars

(* A call that was answered without a timeout has no thread left, two        *)
(* threads of one call run together only after a timeout, a success is that  *)
(* of the last attempt, and a tool works only for calls that were permitted. *)
THEOREM ToolWorkAccounted ==
    ASSUME TE!ToolAssumption
    PROVE  TE!Spec => []TE!WorkAccountedFor
<1>1. TE!Init => CallInv
  BY DEF TE!Init, CallInv, TE!NoCall, CallGood, CallType, Counted, Answered, Heard, TE!ToolAssumption
<1>2. CallInv /\ [TE!Next]_TE!toolVars => CallInv'
  BY CallStep
<1>3. CallInv => TE!WorkAccountedFor
  <2>1. SUFFICES ASSUME CallInv, NEW c \in Calls
                 PROVE  LET call == calls[c]
                            going == {i \in DOMAIN call.threads : call.threads[i] = "runs"}
                        IN  /\ ~call.timed_out /\ call.phase = "answered" => going = {}
                            /\ TE!Cardinality(going) > 1 => call.timed_out
                            /\ call.result = "success" => call.threads[Len(call.threads)] = "ok"
                            /\ call.threads # <<>> => call.permitted
                            /\ Len(call.threads) <= ToolRetries + 1
    BY DEF TE!WorkAccountedFor
  <2> DEFINE call == calls[c]
             going == {i \in DOMAIN call.threads : call.threads[i] = "runs"}
  <2>2. CallGood(call)
    BY <2>1 DEF CallInv
  <2>3. ~call.timed_out => going = {} \/ going = {Len(call.threads)}
    BY <2>2 DEF CallGood, Heard
  <2>4. TE!Cardinality({}) = 0 /\ TE!Cardinality({Len(call.threads)}) = 1
    BY FS_EmptySet, FS_Singleton, SameCount
  <2>5. ~call.timed_out => ~(TE!Cardinality(going) > 1)
    <3> HIDE DEF going
    <3>1. ~call.timed_out => TE!Cardinality(going) = 0 \/ TE!Cardinality(going) = 1
      BY <2>3, <2>4
    <3> QED
      BY <3>1
  <2>6. ~call.timed_out /\ call.phase = "answered" => going = {}
    BY <2>2 DEF CallGood, Heard
  <2> QED
    BY <2>2, <2>5, <2>6 DEF CallGood, Answered, Counted
<1> QED
  BY <1>1, <1>2, <1>3, PTL DEF TE!Spec

-----------------------------------------------------------------------------
(***************************************************************************)
(* The kernel's executions: a skill and the tool it calls.                 *)
(***************************************************************************)

SkillStages == {"idle", "top", "handler", "asleep", "over"}
ToolStages == {"idle", "top", "trying", "asleep", "done", "failed"}

SkillTyped ==
    /\ skill = [at |-> skill.at, attempt |-> skill.attempt]
    /\ tool = [at |-> tool.at, attempt |-> tool.attempt]
    /\ skill.at \in SkillStages /\ skill.attempt \in Nat
    /\ tool.at \in ToolStages /\ tool.attempt \in Nat
    /\ cancelled \in BOOLEAN
    /\ returned \in Nat /\ toolCalls \in Nat /\ late \in Nat

(* A result is given with the last step of an execution; while it goes on    *)
(* there are attempts left, but for the one under way.                       *)
Progress ==
    /\ result # "none" <=> skill.at = "over"
    /\ skill.at \in {"top", "asleep"} => skill.attempt <= KernelRetries
    /\ skill.attempt <= KernelRetries + 1 /\ tool.attempt <= KernelRetries + 1
    /\ tool.at \in {"top", "asleep"} => tool.attempt <= KernelRetries
    /\ tool.at = "idle" => tool = KX!Idle
    /\ tool # KX!Idle => skill.at = "handler" /\ toolCalls = tool.attempt
    /\ skill.at = "handler" /\ tool = KX!Idle => toolCalls = 0

(* What came late belongs to the attempt of the skill that is under way, or  *)
(* was when the token was set: no attempt begins after.                      *)
LateCalls ==
    /\ late <= KernelRetries + 1
    /\ ~cancelled => late = 0
    /\ tool # KX!Idle => late <= tool.attempt
    /\ skill.at = "handler" /\ tool = KX!Idle => late = 0

SkillInv == SkillTyped /\ Progress /\ LateCalls /\ KX!ExecutionSound

LEMMA SkillInitially ==
    ASSUME KernelRetries \in Nat, KX!Init
    PROVE  SkillInv
<1>1. skill = KX!Idle /\ tool = KX!Idle /\ KX!Idle.at = "idle" /\ KX!Idle.attempt = 0
  BY DEF KX!Init, KX!Idle
<1>2. cancelled \in BOOLEAN
  BY DEF KX!Init
<1>3. SkillTyped
  BY <1>1, <1>2 DEF KX!Init, SkillTyped, KX!Idle, SkillStages, ToolStages
<1>4. Progress /\ LateCalls /\ KX!ExecutionSound
  BY <1>1 DEF KX!Init, Progress, LateCalls, KX!ExecutionSound
<1> QED
  BY <1>3, <1>4 DEF SkillInv

-----------------------------------------------------------------------------
(* The skill. *)
LEMMA SkillExecuteKeeps == ASSUME KernelRetries \in Nat, SkillInv, KX!Execute PROVE SkillInv'
BY DEF SkillInv, KX!Execute, KX!Answer, SkillTyped, Progress, LateCalls, KX!ExecutionSound, KX!Idle, SkillStages, ToolStages

LEMMA NextAttemptKeeps == ASSUME KernelRetries \in Nat, SkillInv, KX!NextAttempt PROVE SkillInv'
BY DEF SkillInv, KX!NextAttempt, KX!Answer, SkillTyped, Progress, LateCalls, KX!ExecutionSound, KX!Idle, SkillStages, ToolStages

LEMMA HandlerReturnsKeeps == ASSUME KernelRetries \in Nat, SkillInv, KX!HandlerReturns PROVE SkillInv'
BY DEF SkillInv, KX!HandlerReturns, KX!Answer, SkillTyped, Progress, LateCalls, KX!ExecutionSound, KX!Idle, SkillStages, ToolStages

LEMMA FailedKeeps ==
    ASSUME KernelRetries \in Nat, SkillInv, KX!HandlerRaises \/ KX!TimesOut
    PROVE  SkillInv'
BY DEF SkillInv, KX!HandlerRaises, KX!TimesOut, KX!Failed, KX!Answer, SkillTyped, Progress, LateCalls, KX!ExecutionSound, KX!Idle,
       SkillStages, ToolStages

(* The tool, the clients and the clock. *)
LEMMA ToolKeeps ==
    ASSUME KernelRetries \in Nat, SkillInv,
           KX!CallTool \/ KX!NextToolAttempt \/ KX!ToolReturns \/ KX!ToolTimesOut \/ KX!ToolRaises \/ KX!ToolWakes
    PROVE  SkillInv'
<1>1. CASE KX!CallTool
  BY <1>1 DEF SkillInv, KX!CallTool, SkillTyped, Progress, LateCalls, KX!ExecutionSound, KX!Idle, SkillStages, ToolStages
<1>2. CASE KX!NextToolAttempt
  BY <1>2 DEF SkillInv, KX!NextToolAttempt, SkillTyped, Progress, LateCalls, KX!ExecutionSound, KX!Idle, SkillStages, ToolStages
<1>3. CASE KX!ToolReturns \/ KX!ToolTimesOut \/ KX!ToolRaises \/ KX!ToolWakes
  BY <1>3 DEF SkillInv, KX!ToolReturns, KX!ToolTimesOut, KX!ToolRaises, KX!ToolWakes, SkillTyped, Progress, LateCalls,
              KX!ExecutionSound, KX!Idle, SkillStages, ToolStages
<1> QED
  BY <1>1, <1>2, <1>3

LEMMA OthersKeep ==
    ASSUME KernelRetries \in Nat, SkillInv,
           (\E what \in {"skill", "tool"} : KX!Register(what)) \/ KX!Cancel \/ KX!Wakes \/ UNCHANGED KX!vars
    PROVE  SkillInv'
<1> USE DEF SkillInv, SkillTyped, Progress, LateCalls, KX!ExecutionSound, KX!Idle, SkillStages, ToolStages
<1>1. CASE \E what \in {"skill", "tool"} : KX!Register(what)
  BY <1>1 DEF KX!Register
<1>2. CASE KX!Cancel
  BY <1>2 DEF KX!Cancel
<1>3. CASE KX!Wakes
  BY <1>3 DEF KX!Wakes
<1>4. CASE UNCHANGED KX!vars
  BY <1>4 DEF KX!vars
<1> QED
  BY <1>1, <1>2, <1>3, <1>4

(* However handlers and tools fail, time out and are cancelled, a skill ends *)
(* as its last attempt did, nothing of it runs on, and a cancelled one makes *)
(* at most the tool's attempts of one attempt of its own.                    *)
THEOREM ExecutionSoundHolds ==
    ASSUME KernelRetries \in Nat
    PROVE  KX!Spec => []KX!ExecutionSound
<1>1. KX!Init => SkillInv
  BY SkillInitially
<1>2. SkillInv /\ [KX!Next]_KX!vars => SkillInv'
  BY SkillExecuteKeeps, NextAttemptKeeps, HandlerReturnsKeeps, FailedKeeps, ToolKeeps, OthersKeep DEF KX!Next
<1>3. SkillInv => KX!ExecutionSound
  BY DEF SkillInv
<1> QED
  BY <1>1, <1>2, <1>3, PTL DEF KX!Spec

-----------------------------------------------------------------------------
(***************************************************************************)
(* The event bus: what has started and what waits on the loop is one       *)
(* queue, in which every two tasks are in turn.                            *)
(***************************************************************************)

BusTasks == [task : {"publish", "handle"}, event : Nat, via : {"emit", "publish"},
          key : EB!Keys, handler : Handlers \cup {"none"}]

(* What started and what waits, in order. *)
Queue == started \o ready

(* Of two deliveries the first in the queue is of the earlier event, but for *)
(* one that a caller awaits.                                                 *)
Before(x, y) == x.event > y.event => x.via = "publish" /\ y.via = "emit"

(* A delivery and an emitted event that is still to be published. *)
Apart(d, p) == d.event # p.event /\ (d.event > p.event => d.via = "publish")

Turn(x, y) ==
    /\ x.task = "handle" /\ y.task = "handle" => Before(x, y) /\ x # y
    /\ x.task = "handle" /\ y.task = "publish" => Apart(x, y)
    /\ x.task = "publish" /\ y.task = "handle" => Apart(y, x)
    /\ x.task = "publish" /\ y.task = "publish" => x.event < y.event

InTurn(s) == \A m, n \in DOMAIN s : m < n => Turn(s[m], s[n])

Due(s) == {t \in EB!ToSet(s) : t.task = "handle"}

Subscribed ==
    /\ handlers \in [EB!Keys -> Seq(Handlers)]
    /\ \A k \in EB!Keys : EB!IsInjective(handlers[k])

QueueTyped ==
    /\ events \in Nat
    /\ started \in Seq(BusTasks) /\ ready \in Seq(BusTasks)
    /\ \A n \in DOMAIN started : started[n].task = "handle"
    /\ \A n \in DOMAIN started : started[n].event <= events
    /\ \A n \in DOMAIN ready : ready[n].event <= events
    /\ \A n \in DOMAIN ready : ready[n].task = "publish" => ready[n].via = "emit" /\ ready[n].key \in Topics

BusInv ==
    /\ Subscribed
    /\ QueueTyped
    /\ InTurn(Queue)
    /\ due = Due(started) \cup Due(ready)

-----------------------------------------------------------------------------
LEMMA SetOf ==
    ASSUME NEW S, NEW s \in Seq(S)
    PROVE  /\ \A x : x \in EB!ToSet(s) <=> \E n \in 1 .. Len(s) : s[n] = x
           /\ \A n \in 1 .. Len(s) : s[n] \in EB!ToSet(s)
           /\ EB!ToSet(s) \subseteq S
  BY LenProperties, ElementOfSeq DEF EB!ToSet

LEMMA SetOfConcat ==
    ASSUME NEW S, NEW s \in Seq(S), NEW t \in Seq(S)
    PROVE  EB!ToSet(s \o t) = EB!ToSet(s) \cup EB!ToSet(t)
<1>1. /\ s \o t \in Seq(S) /\ Len(s \o t) = Len(s) + Len(t)
      /\ \A n \in 1 .. Len(s) + Len(t) : (s \o t)[n] = IF n <= Len(s) THEN s[n] ELSE t[n - Len(s)]
  BY ConcatProperties
<1>2. Len(s) \in Nat /\ Len(t) \in Nat
  BY LenProperties
<1>3. ASSUME NEW x \in EB!ToSet(s \o t) PROVE x \in EB!ToSet(s) \cup EB!ToSet(t)
  <2>1. PICK n \in 1 .. Len(s) + Len(t) : (s \o t)[n] = x
    BY <1>1, <1>3, SetOf
  <2>2. CASE n <= Len(s)
    BY <2>1, <2>2, <1>1, <1>2, SetOf
  <2>3. CASE ~ (n <= Len(s))
    <3>1. n - Len(s) \in 1 .. Len(t) /\ t[n - Len(s)] = x
      BY <2>1, <2>3, <1>1, <1>2
    <3> QED
      BY <3>1, SetOf
  <2> QED
    BY <2>2, <2>3
<1>4. ASSUME NEW x \in EB!ToSet(s) PROVE x \in EB!ToSet(s \o t)
  <2>1. PICK n \in 1 .. Len(s) : s[n] = x
    BY <1>4, SetOf
  <2>2. n \in 1 .. Len(s) + Len(t) /\ (s \o t)[n] = x
    BY <2>1, <1>1, <1>2
  <2> QED
    BY <2>2, <1>1, SetOf
<1>5. ASSUME NEW x \in EB!ToSet(t) PROVE x \in EB!ToSet(s \o t)
  <2>1. PICK n \in 1 .. Len(t) : t[n] = x
    BY <1>5, SetOf
  <2>2. n + Len(s) \in 1 .. Len(s) + Len(t) /\ (s \o t)[n + Len(s)] = x
    BY <2>1, <1>1, <1>2
  <2> QED
    BY <2>2, <1>1, SetOf
<1> QED
  BY <1>3, <1>4, <1>5

LEMMA Associative ==
    \A s, t, u \in Seq(BusTasks) : (s \o t) \o u = s \o (t \o u)
  BY ConcatAssociative

LEMMA DueOfConcat ==
    ASSUME NEW S, NEW s \in Seq(S), NEW t \in Seq(S)
    PROVE  Due(s \o t) = Due(s) \cup Due(t)
  BY SetOfConcat DEF Due

(* What is appended to a queue in turn is in turn with all of it. *)
LEMMA TurnOfConcat ==
    ASSUME NEW s \in Seq(BusTasks), NEW t \in Seq(BusTasks), InTurn(s), InTurn(t),
           \A m \in 1 .. Len(s), n \in 1 .. Len(t) : Turn(s[m], t[n])
    PROVE  InTurn(s \o t)
<1>1. /\ s \o t \in Seq(BusTasks) /\ Len(s \o t) = Len(s) + Len(t)
      /\ \A n \in 1 .. Len(s) + Len(t) : (s \o t)[n] = IF n <= Len(s) THEN s[n] ELSE t[n - Len(s)]
  BY ConcatProperties
<1>2. Len(s) \in Nat /\ Len(t) \in Nat /\ DOMAIN s = 1 .. Len(s) /\ DOMAIN t = 1 .. Len(t)
      /\ DOMAIN (s \o t) = 1 .. Len(s) + Len(t)
  BY <1>1, LenProperties
<1> SUFFICES ASSUME NEW m \in 1 .. Len(s) + Len(t), NEW n \in 1 .. Len(s) + Len(t), m < n
             PROVE  Turn((s \o t)[m], (s \o t)[n])
  BY <1>2 DEF InTurn
<1>3. CASE n <= Len(s)
  <2>1. m \in 1 .. Len(s) /\ n \in 1 .. Len(s) /\ (s \o t)[m] = s[m] /\ (s \o t)[n] = s[n]
    BY <1>1, <1>2, <1>3
  <2> QED
    BY <2>1, <1>2 DEF InTurn
<1>4. CASE m <= Len(s) /\ ~ (n <= Len(s))
  <2>1. /\ m \in 1 .. Len(s) /\ n - Len(s) \in 1 .. Len(t)
        /\ (s \o t)[m] = s[m] /\ (s \o t)[n] = t[n - Len(s)]
    BY <1>1, <1>2, <1>4
  <2> QED
    BY <2>1
<1>5. CASE ~ (m <= Len(s))
  <2>1. /\ m - Len(s) \in 1 .. Len(t) /\ n - Len(s) \in 1 .. Len(t) /\ m - Len(s) < n - Len(s)
        /\ (s \o t)[m] = t[m - Len(s)] /\ (s \o t)[n] = t[n - Len(s)]
    BY <1>1, <1>2, <1>5
  <2> QED
    BY <2>1, <1>2 DEF InTurn
<1> QED
  BY <1>3, <1>4, <1>5, <1>2

(* Taking the head out of what waits leaves the rest in turn. *)
LEMMA TurnOfRest ==
    ASSUME NEW s \in Seq(BusTasks), NEW t \in Seq(BusTasks), t # <<>>, InTurn(s \o t)
    PROVE  /\ InTurn(s \o Tail(t))
           /\ \A n \in 1 .. Len(s \o Tail(t)) :
                 \/ Turn((s \o Tail(t))[n], Head(t)) /\ n \in 1 .. Len(s) /\ (s \o Tail(t))[n] = s[n]
                 \/ Turn(Head(t), (s \o Tail(t))[n])
<1>1. /\ s \o t \in Seq(BusTasks) /\ Len(s \o t) = Len(s) + Len(t)
      /\ \A n \in 1 .. Len(s) + Len(t) : (s \o t)[n] = IF n <= Len(s) THEN s[n] ELSE t[n - Len(s)]
  BY ConcatProperties
<1>2. /\ Tail(t) \in Seq(BusTasks) /\ Len(Tail(t)) = Len(t) - 1
      /\ \A n \in 1 .. Len(Tail(t)) : Tail(t)[n] = t[n + 1]
  BY HeadTailProperties
<1>3. /\ s \o Tail(t) \in Seq(BusTasks) /\ Len(s \o Tail(t)) = Len(s) + Len(Tail(t))
      /\ \A n \in 1 .. Len(s) + Len(Tail(t)) :
            (s \o Tail(t))[n] = IF n <= Len(s) THEN s[n] ELSE Tail(t)[n - Len(s)]
  BY <1>2, ConcatProperties
<1>4. /\ Len(s) \in Nat /\ Len(t) \in Nat /\ Len(t) > 0 /\ DOMAIN (s \o t) = 1 .. Len(s) + Len(t)
      /\ DOMAIN (s \o Tail(t)) = 1 .. Len(s) + Len(t) - 1
      /\ Len(s \o Tail(t)) = Len(s) + Len(t) - 1
  <2>1. Len(t) \in Nat \ {0} /\ Len(s) \in Nat
    BY LenProperties, EmptySeq
  <2> QED
    BY <2>1, <1>1, <1>2, <1>3, LenProperties
<1>5. Head(t) = (s \o t)[Len(s) + 1]
  BY <1>1, <1>4
<1> DEFINE Was(n) == IF n <= Len(s) THEN n ELSE n + 1
<1>6. ASSUME NEW n \in 1 .. Len(s) + Len(t) - 1
      PROVE  /\ Was(n) \in 1 .. Len(s) + Len(t)
             /\ (s \o Tail(t))[n] = (s \o t)[Was(n)]
  <2>1. CASE n <= Len(s)
    BY <2>1, <1>1, <1>2, <1>3, <1>4
  <2>2. CASE ~ (n <= Len(s))
    <3>1. n - Len(s) \in 1 .. Len(t) - 1 /\ n + 1 - Len(s) = n - Len(s) + 1
      BY <2>2, <1>4
    <3>2. (s \o Tail(t))[n] = t[n + 1 - Len(s)]
      BY <2>2, <3>1, <1>2, <1>3, <1>4
    <3> QED
      BY <2>2, <3>1, <3>2, <1>1, <1>4
  <2> QED
    BY <2>1, <2>2
<1>7. InTurn(s \o Tail(t))
  <2> SUFFICES ASSUME NEW m \in 1 .. Len(s) + Len(t) - 1, NEW n \in 1 .. Len(s) + Len(t) - 1, m < n
               PROVE  Turn((s \o Tail(t))[m], (s \o Tail(t))[n])
    BY <1>4 DEF InTurn
  <2>1. Was(m) < Was(n)
    BY <1>4
  <2> HIDE DEF Was
  <2> QED
    BY <2>1, <1>6, <1>4 DEF InTurn
<1>8. ASSUME NEW n \in 1 .. Len(s) + Len(t) - 1
      PROVE  \/ Turn((s \o Tail(t))[n], Head(t)) /\ n \in 1 .. Len(s) /\ (s \o Tail(t))[n] = s[n]
             \/ Turn(Head(t), (s \o Tail(t))[n])
  <2>0. Len(s) + 1 \in 1 .. Len(s) + Len(t)
    BY <1>4
  <2>1. CASE n <= Len(s)
    <3>1. Was(n) < Len(s) + 1 /\ Was(n) = n /\ n \in 1 .. Len(s)
      BY <2>1, <1>4
    <3> HIDE DEF Was
    <3>2. Turn((s \o t)[Was(n)], (s \o t)[Len(s) + 1])
      BY <3>1, <2>0, <1>6, <1>4 DEF InTurn
    <3> QED
      BY <3>1, <3>2, <1>6, <1>5, <1>1, <1>3, <1>4
  <2>2. CASE ~ (n <= Len(s))
    <3>1. Len(s) + 1 < Was(n)
      BY <2>2, <1>4
    <3> HIDE DEF Was
    <3>2. Turn((s \o t)[Len(s) + 1], (s \o t)[Was(n)])
      BY <3>1, <2>0, <1>6, <1>4 DEF InTurn
    <3> QED
      BY <3>1, <3>2, <1>6, <1>5
  <2> QED
    BY <2>1, <2>2
<1> QED
  BY <1>7, <1>8, <1>4

-----------------------------------------------------------------------------
(* list.remove: what is left is in the list once, as it was. *)
LEMMA Removing ==
    ASSUME NEW S, NEW s \in Seq(S), EB!IsInjective(s), NEW i \in DOMAIN s
    PROVE  EB!RemoveAt(s, i) \in Seq(S) /\ EB!IsInjective(EB!RemoveAt(s, i))
<1> DEFINE a == SubSeq(s, 1, i - 1)
           b == SubSeq(s, i + 1, Len(s))
<1>1. Len(s) \in Nat /\ DOMAIN s = 1 .. Len(s) /\ i \in 1 .. Len(s)
  BY LenProperties
<1>2. \A n \in 1 .. Len(s) : s[n] \in S
  BY ElementOfSeq
<1>3. /\ a \in Seq(S) /\ Len(a) = i - 1
      /\ \A n \in 1 .. i - 1 : a[n] = s[n]
  <2>1. \A n \in 1 .. i - 1 : s[n] \in S
    BY <1>1, <1>2
  <2>2. /\ a \in Seq(S) /\ Len(a) = IF 1 <= i - 1 THEN i - 1 - 1 + 1 ELSE 0
        /\ \A n \in 1 .. i - 1 - 1 + 1 : a[n] = s[1 + n - 1]
    BY <1>1, <2>1, SubSeqProperties
  <2> HIDE DEF a
  <2> QED
    BY <1>1, <2>2
<1>4. /\ b \in Seq(S) /\ Len(b) = Len(s) - i
      /\ \A n \in 1 .. Len(s) - i : b[n] = s[n + i]
  <2>1. \A n \in i + 1 .. Len(s) : s[n] \in S
    BY <1>1, <1>2
  <2>2. /\ b \in Seq(S) /\ Len(b) = IF i + 1 <= Len(s) THEN Len(s) - (i + 1) + 1 ELSE 0
        /\ \A n \in 1 .. Len(s) - (i + 1) + 1 : b[n] = s[(i + 1) + n - 1]
    BY <1>1, <2>1, SubSeqProperties
  <2> HIDE DEF b
  <2>3. Len(b) = Len(s) - i
    BY <1>1, <2>2
  <2>4. ASSUME NEW n \in 1 .. Len(s) - i PROVE b[n] = s[n + i]
    <3>1. n \in 1 .. Len(s) - (i + 1) + 1 /\ (i + 1) + n - 1 = n + i
      BY <1>1
    <3>2. b[n] = s[(i + 1) + n - 1]
      BY <3>1, <2>2
    <3> QED
      BY <3>1, <3>2
  <2> QED
    BY <2>2, <2>3, <2>4
<1>5. EB!RemoveAt(s, i) = a \o b
  BY DEF EB!RemoveAt
<1> HIDE DEF a, b
<1>6. /\ a \o b \in Seq(S) /\ Len(a \o b) = Len(s) - 1
      /\ \A n \in 1 .. Len(s) - 1 : (a \o b)[n] = IF n <= i - 1 THEN a[n] ELSE b[n - (i - 1)]
  <2>1. /\ a \o b \in Seq(S) /\ Len(a \o b) = Len(a) + Len(b)
        /\ \A n \in 1 .. Len(a) + Len(b) : (a \o b)[n] = IF n <= Len(a) THEN a[n] ELSE b[n - Len(a)]
    BY <1>3, <1>4, ConcatProperties
  <2>2. Len(a) + Len(b) = Len(s) - 1
    BY <1>1, <1>3, <1>4
  <2> QED
    BY <2>1, <2>2, <1>3
<1>7. DOMAIN (a \o b) = 1 .. Len(s) - 1
  BY <1>6, LenProperties
<1>8. ASSUME NEW n \in 1 .. Len(s) - 1
      PROVE  (a \o b)[n] = s[IF n <= i - 1 THEN n ELSE n + 1]
  <2>1. CASE n <= i - 1
    BY <2>1, <1>1, <1>3, <1>6
  <2>2. CASE ~ (n <= i - 1)
    <3>1. n - (i - 1) \in 1 .. Len(s) - i /\ n - (i - 1) + i = n + 1
      BY <2>2, <1>1
    <3> QED
      BY <2>2, <3>1, <1>4, <1>6
  <2> QED
    BY <2>1, <2>2
<1>9. EB!IsInjective(a \o b)
  <2> SUFFICES ASSUME NEW m \in 1 .. Len(s) - 1, NEW n \in 1 .. Len(s) - 1, (a \o b)[m] = (a \o b)[n]
               PROVE  m = n
    BY <1>7 DEF EB!IsInjective
  <2> DEFINE c == IF m <= i - 1 THEN m ELSE m + 1
             d == IF n <= i - 1 THEN n ELSE n + 1
  <2>1. s[c] = s[d]
    BY <1>8
  <2>2. c \in DOMAIN s /\ d \in DOMAIN s
    BY <1>1
  <2>3. c = d
    BY <2>1, <2>2 DEF EB!IsInjective
  <2> QED
    BY <2>3, <1>1
<1> QED
  BY <1>5, <1>6, <1>9

LEMMA Appending ==
    ASSUME NEW S, NEW s \in Seq(S), NEW x \in S, EB!IsInjective(s), x \notin EB!ToSet(s)
    PROVE  Append(s, x) \in Seq(S) /\ EB!IsInjective(Append(s, x))
<1>1. /\ Append(s, x) \in Seq(S) /\ Len(Append(s, x)) = Len(s) + 1
      /\ \A n \in 1 .. Len(s) : Append(s, x)[n] = s[n]
      /\ Append(s, x)[Len(s) + 1] = x
  BY AppendProperties
<1>2. Len(s) \in Nat /\ DOMAIN s = 1 .. Len(s) /\ DOMAIN Append(s, x) = 1 .. Len(s) + 1
  BY <1>1, LenProperties
<1>3. \A n \in 1 .. Len(s) : s[n] # x
  BY SetOf
<1> QED
  BY <1>1, <1>2, <1>3 DEF EB!IsInjective

(* publish() makes one task for each subscription of an event, all different. *)
LEMMA DeliveriesMade ==
    ASSUME Subscribed, NEW topic \in Topics, NEW e \in Nat, NEW via \in {"emit", "publish"}
    PROVE  /\ EB!Deliveries(topic, e, via) \in Seq(BusTasks)
           /\ InTurn(EB!Deliveries(topic, e, via))
           /\ \A n \in 1 .. Len(EB!Deliveries(topic, e, via)) :
                 /\ EB!Deliveries(topic, e, via)[n].task = "handle"
                 /\ EB!Deliveries(topic, e, via)[n].event = e
                 /\ EB!Deliveries(topic, e, via)[n].via = via
<1> DEFINE made(k) == [i \in DOMAIN handlers[k] |->
                         [task |-> "handle", event |-> e, via |-> via, key |-> k, handler |-> handlers[k][i]]]
           all == made(topic) \o made("*")
<1>1. EB!Deliveries(topic, e, via) = all
  BY DEF EB!Deliveries
<1>2. ASSUME NEW k \in EB!Keys
      PROVE  /\ made(k) \in Seq(BusTasks)
             /\ Len(made(k)) = Len(handlers[k])
             /\ \A n \in 1 .. Len(made(k)) :
                   /\ made(k)[n].task = "handle" /\ made(k)[n].event = e /\ made(k)[n].via = via
                   /\ made(k)[n].key = k /\ made(k)[n].handler = handlers[k][n]
  <2>1. handlers[k] \in Seq(Handlers)
    BY DEF Subscribed
  <2>2. Len(handlers[k]) \in Nat /\ DOMAIN handlers[k] = 1 .. Len(handlers[k])
    BY <2>1, LenProperties
  <2>3. \A i \in 1 .. Len(handlers[k]) : handlers[k][i] \in Handlers
    BY <2>1, ElementOfSeq
  <2>4. made(k) \in [1 .. Len(handlers[k]) -> BusTasks]
    BY <2>2, <2>3 DEF BusTasks
  <2>5. made(k) \in Seq(BusTasks)
    BY <2>2, <2>4
  <2>6. Len(made(k)) = Len(handlers[k])
    BY <2>5, <2>4, <2>2
  <2> QED
    BY <2>2, <2>5, <2>6
<1>3. "*" \in EB!Keys /\ topic \in EB!Keys /\ topic # "*"
  BY PlatformAssumption DEF EB!Keys, EB!BusAssumption
<1>4. ASSUME NEW k \in EB!Keys, NEW m \in 1 .. Len(made(k)), NEW n \in 1 .. Len(made(k)), m # n
      PROVE  made(k)[m] # made(k)[n]
  <2>1. handlers[k] \in Seq(Handlers) /\ EB!IsInjective(handlers[k])
    BY DEF Subscribed
  <2>2. DOMAIN handlers[k] = 1 .. Len(handlers[k])
    BY <2>1, LenProperties
  <2>3. handlers[k][m] # handlers[k][n]
    BY <1>2, <2>1, <2>2 , <1>4 DEF EB!IsInjective
  <2>4. made(k)[m].handler = handlers[k][m] /\ made(k)[n].handler = handlers[k][n]
    BY <1>2
  <2> HIDE DEF made
  <2> QED
    BY <2>3, <2>4
<1> HIDE DEF made
<1>5. /\ all \in Seq(BusTasks) /\ Len(all) = Len(made(topic)) + Len(made("*"))
      /\ \A n \in 1 .. Len(made(topic)) + Len(made("*")) :
            all[n] = IF n <= Len(made(topic)) THEN made(topic)[n] ELSE made("*")[n - Len(made(topic))]
  BY <1>2, <1>3, ConcatProperties
<1>6. Len(made(topic)) \in Nat /\ Len(made("*")) \in Nat
  BY <1>2, <1>3, LenProperties
<1>7. ASSUME NEW n \in 1 .. Len(all)
      PROVE  all[n].task = "handle" /\ all[n].event = e /\ all[n].via = via
  <2>1. CASE n <= Len(made(topic))
    BY <2>1, <1>2, <1>3, <1>5, <1>6
  <2>2. CASE ~ (n <= Len(made(topic)))
    <3>1. n - Len(made(topic)) \in 1 .. Len(made("*"))
      BY <2>2, <1>5, <1>6
    <3> QED
      BY <3>1, <2>2, <1>2, <1>3, <1>5
  <2> QED
    BY <2>1, <2>2
<1>8. ASSUME NEW k \in EB!Keys PROVE InTurn(made(k))
  <2> SUFFICES ASSUME NEW m \in 1 .. Len(made(k)), NEW n \in 1 .. Len(made(k)), m < n
               PROVE  Turn(made(k)[m], made(k)[n])
    BY <1>2, LenProperties DEF InTurn
  <2>1. m # n
    BY <1>2, LenProperties
  <2>2. made(k)[m] # made(k)[n]
    BY <1>4, <2>1
  <2> QED
    BY <2>2, <1>2 DEF Turn, Before
<1>9. InTurn(all)
  <2> SUFFICES ASSUME NEW m \in 1 .. Len(made(topic)), NEW n \in 1 .. Len(made("*"))
               PROVE  Turn(made(topic)[m], made("*")[n])
    BY <1>2, <1>3, <1>8, TurnOfConcat
  <2>1. made(topic)[m].key # made("*")[n].key
    BY <1>2, <1>3
  <2> QED
    BY <2>1, <1>2, <1>3 DEF Turn, Before
<1> HIDE DEF all
<1> QED
  BY <1>1, <1>5, <1>7, <1>9

-----------------------------------------------------------------------------
LEMMA DueOfSteps ==
    ASSUME NEW s \in Seq(BusTasks), s # <<>>
    PROVE  /\ EB!ToSet(s) = {Head(s)} \cup EB!ToSet(Tail(s))
           /\ Head(s) = s[1] /\ 1 \in DOMAIN s
           /\ \A n \in DOMAIN Tail(s) : n + 1 \in DOMAIN s /\ Tail(s)[n] = s[n + 1]
<1>1. /\ Head(s) \in BusTasks /\ Tail(s) \in Seq(BusTasks) /\ Len(Tail(s)) = Len(s) - 1
      /\ \A n \in 1 .. Len(Tail(s)) : Tail(s)[n] = s[n + 1]
  BY HeadTailProperties
<1>2. /\ Len(s) \in Nat \ {0} /\ DOMAIN s = 1 .. Len(s) /\ DOMAIN Tail(s) = 1 .. Len(s) - 1
      /\ Head(s) = s[1]
  BY <1>1, EmptySeq, LenProperties
<1>3. ASSUME NEW x \in EB!ToSet(s) PROVE x \in {Head(s)} \cup EB!ToSet(Tail(s))
  <2>1. PICK n \in 1 .. Len(s) : s[n] = x
    BY <1>3, SetOf
  <2>2. CASE n = 1
    BY <2>1, <2>2, <1>2
  <2>3. CASE n # 1
    <3>1. n - 1 \in 1 .. Len(s) - 1 /\ n - 1 + 1 = n
      BY <2>1, <2>3, <1>2
    <3>2. Tail(s)[n - 1] = x
      BY <3>1, <2>1, <1>1
    <3> QED
      BY <3>1, <3>2, <1>1, SetOf
  <2> QED
    BY <2>2, <2>3
<1>4. ASSUME NEW n \in DOMAIN Tail(s) PROVE n + 1 \in 1 .. Len(s) /\ Tail(s)[n] = s[n + 1]
  BY <1>1, <1>2
<1>5. {Head(s)} \cup EB!ToSet(Tail(s)) \subseteq EB!ToSet(s)
  <2>1. Head(s) \in EB!ToSet(s)
    BY <1>2, SetOf
  <2>2. ASSUME NEW x \in EB!ToSet(Tail(s)) PROVE x \in EB!ToSet(s)
    <3>1. PICK n \in 1 .. Len(Tail(s)) : Tail(s)[n] = x
      BY <1>1, <2>2, SetOf
    <3> QED
      BY <3>1, <1>1, <1>2, <1>4, SetOf
  <2> QED
    BY <2>1, <2>2
<1> QED
  BY <1>2, <1>3, <1>4, <1>5

LEMMA BusInitially == EB!Init => BusInv
<1> SUFFICES ASSUME EB!Init PROVE BusInv
  OBVIOUS
<1>1. Subscribed
  BY DEF EB!Init, Subscribed, EB!IsInjective
<1>2. QueueTyped
  BY DEF EB!Init, QueueTyped
<1>3. started = <<>> /\ ready = <<>> /\ due = {}
  BY DEF EB!Init
<1>4. Queue = <<>>
  BY <1>3 DEF Queue
<1> QED
  BY <1>1, <1>2, <1>3, <1>4 DEF BusInv, InTurn, Due, EB!ToSet

LEMMA SubscribedKept ==
    ASSUME BusInv, [EB!Next]_EB!busVars
    PROVE  Subscribed'
<1>0. handlers \in [EB!Keys -> Seq(Handlers)] /\ \A k \in EB!Keys : EB!IsInjective(handlers[k])
  BY DEF BusInv, Subscribed
<1> SUFFICES ASSUME handlers' # handlers PROVE Subscribed'
  BY <1>0 DEF Subscribed
<1>1. ASSUME NEW k \in EB!Keys, NEW h \in Handlers, EB!Subscribe(k, h) PROVE Subscribed'
  <2>1. handlers[k] \in Seq(Handlers) /\ EB!IsInjective(handlers[k]) /\ h \notin EB!ToSet(handlers[k])
    BY <1>0, <1>1 DEF EB!Subscribe
  <2>2. Append(handlers[k], h) \in Seq(Handlers) /\ EB!IsInjective(Append(handlers[k], h))
    BY <2>1, Appending
  <2>3. handlers' = [handlers EXCEPT ![k] = Append(handlers[k], h)]
    BY <1>1 DEF EB!Subscribe
  <2> QED
    BY <1>0, <2>2, <2>3 DEF Subscribed
<1>2. ASSUME NEW k \in EB!Keys, NEW h \in Handlers, EB!Unsubscribe(k, h) PROVE Subscribed'
  <2>1. PICK i \in DOMAIN handlers[k] : handlers' = [handlers EXCEPT ![k] = EB!RemoveAt(handlers[k], i)]
    BY <1>2 DEF EB!Unsubscribe
  <2>2. EB!RemoveAt(handlers[k], i) \in Seq(Handlers) /\ EB!IsInjective(EB!RemoveAt(handlers[k], i))
    BY <1>0, Removing
  <2> QED
    BY <1>0, <2>1, <2>2 DEF Subscribed
<1> QED
  BY <1>1, <1>2
     DEF EB!Next, EB!busVars, EB!Emit, EB!Publish, EB!RunPublish, EB!RunHandler, EB!HandlerEnds, EB!PublishReturns

LEMMA Queued ==
    ASSUME BusInv
    PROVE  /\ started \in Seq(BusTasks) /\ ready \in Seq(BusTasks) /\ Queue \in Seq(BusTasks)
           /\ InTurn(Queue) /\ due = Due(Queue) /\ QueueTyped
           /\ \A n \in 1 .. Len(Queue) : Queue[n] \in BusTasks /\ Queue[n].event <= events
<1>1. QueueTyped /\ InTurn(Queue) /\ due = Due(started) \cup Due(ready)
  BY DEF BusInv
<1>2. /\ started \in Seq(BusTasks) /\ ready \in Seq(BusTasks) /\ events \in Nat
      /\ \A n \in 1 .. Len(started) : started[n].event <= events
      /\ \A n \in 1 .. Len(ready) : ready[n].event <= events
  BY <1>1, LenProperties DEF QueueTyped
<1>3. /\ Queue \in Seq(BusTasks) /\ Len(Queue) = Len(started) + Len(ready)
      /\ \A n \in 1 .. Len(started) + Len(ready) :
            Queue[n] = IF n <= Len(started) THEN started[n] ELSE ready[n - Len(started)]
  BY <1>2, ConcatProperties DEF Queue
<1>4. Len(started) \in Nat /\ Len(ready) \in Nat
  BY <1>2, LenProperties
<1>5. ASSUME NEW n \in 1 .. Len(Queue) PROVE Queue[n] \in BusTasks /\ Queue[n].event <= events
  <2>1. Queue[n] \in BusTasks
    BY <1>3, ElementOfSeq
  <2>2. CASE n <= Len(started)
    BY <2>1, <2>2, <1>2, <1>3, <1>4
  <2>3. CASE ~ (n <= Len(started))
    <3>1. n - Len(started) \in 1 .. Len(ready)
      BY <2>3, <1>3, <1>4
    <3> QED
      BY <2>1, <2>3, <3>1, <1>2, <1>3
  <2> QED
    BY <2>2, <2>3
<1>6. due = Due(Queue)
  BY <1>1, <1>2, DueOfConcat DEF Queue
<1> QED
  BY <1>1, <1>2, <1>3, <1>5, <1>6

(* What is made of a new event comes after all that was made before it. *)
LEMMA Joining ==
    ASSUME BusInv, NEW new \in Seq(BusTasks), InTurn(new),
           events' = events + 1, ready' = ready \o new, started' = started,
           due' = due \cup Due(new),
           \A n \in 1 .. Len(new) :
              /\ new[n].event = events + 1
              /\ new[n].task = "publish" => new[n].via = "emit" /\ new[n].key \in Topics
              /\ new[n].task = "handle" => new[n].via = "publish"
    PROVE  QueueTyped' /\ InTurn(Queue)' /\ due' = Due(started)' \cup Due(ready)'
<1>1. /\ started \in Seq(BusTasks) /\ ready \in Seq(BusTasks) /\ Queue \in Seq(BusTasks)
      /\ InTurn(Queue) /\ due = Due(Queue) /\ QueueTyped
      /\ \A n \in 1 .. Len(Queue) : Queue[n] \in BusTasks /\ Queue[n].event <= events
  BY Queued
<1>2. events \in Nat
  BY <1>1 DEF QueueTyped
<1>3. Queue' = Queue \o new
  <2>1. (started \o ready) \o new = started \o (ready \o new)
    <3>1. started \in Seq(BusTasks) /\ ready \in Seq(BusTasks) /\ new \in Seq(BusTasks)
      BY <1>1
    <3> QED
      BY <3>1, Associative, Zenon
  <2>2. Queue = started \o ready /\ Queue' = started' \o ready'
    BY DEF Queue
  <2> HIDE DEF Queue
  <2>3. Queue' = started \o (ready \o new)
    BY <2>2, Zenon
  <2> QED
    BY <2>1, <2>2, <2>3, Zenon
<1>4. ASSUME NEW m \in 1 .. Len(Queue), NEW n \in 1 .. Len(new) PROVE Turn(Queue[m], new[n])
  <2>1. Queue[m].event \in Nat /\ Queue[m].event <= events /\ new[n].event = events + 1
    BY <1>1 DEF BusTasks
  <2>2. Queue[m].event < new[n].event /\ ~ (Queue[m].event > new[n].event)
        /\ Queue[m].event # new[n].event
    BY <1>2, <2>1
  <2>3. Queue[m] # new[n]
    BY <2>2
  <2> QED
    BY <2>2, <2>3 DEF Turn, Before, Apart
<1>5. InTurn(Queue \o new)
  BY <1>1, <1>4, TurnOfConcat
<1>6. /\ ready' \in Seq(BusTasks) /\ Len(ready') = Len(ready) + Len(new)
      /\ \A n \in 1 .. Len(ready) + Len(new) :
            ready'[n] = IF n <= Len(ready) THEN ready[n] ELSE new[n - Len(ready)]
  BY <1>1, ConcatProperties
<1>7. Len(ready) \in Nat /\ Len(new) \in Nat /\ DOMAIN ready' = 1 .. Len(ready) + Len(new)
      /\ DOMAIN ready = 1 .. Len(ready) /\ DOMAIN started = 1 .. Len(started)
  BY <1>1, <1>6, LenProperties
<1>8. ASSUME NEW n \in DOMAIN ready'
      PROVE  ready'[n].event <= events' /\ (ready'[n].task = "publish" => ready'[n].via = "emit" /\ ready'[n].key \in Topics)
  <2>1. CASE n <= Len(ready)
    <3>1. n \in DOMAIN ready /\ ready'[n] = ready[n] /\ ready[n] \in BusTasks
      BY <2>1, <1>6, <1>7, <1>1, ElementOfSeq
    <3>2. ready[n].event \in Nat /\ ready[n].event <= events
      BY <3>1, <1>1 DEF QueueTyped, BusTasks
    <3>3. ready[n].event <= events + 1
      BY <1>2, <3>2
    <3> QED
      BY <3>1, <3>3, <1>1 DEF QueueTyped
  <2>2. CASE ~ (n <= Len(ready))
    <3>1. n - Len(ready) \in 1 .. Len(new) /\ ready'[n] = new[n - Len(ready)]
      BY <2>2, <1>6, <1>7
    <3> QED
      BY <3>1, <1>2
  <2> QED
    BY <2>1, <2>2
<1>9. ASSUME NEW n \in DOMAIN started PROVE started[n].task = "handle" /\ started[n].event <= events'
  <2>1. started[n] \in BusTasks
    BY <1>1, <1>7, ElementOfSeq
  <2>2. started[n].event \in Nat /\ started[n].event <= events /\ started[n].task = "handle"
    BY <2>1, <1>1 DEF QueueTyped, BusTasks
  <2> QED
    BY <2>2, <1>2
<1>10. QueueTyped'
  BY <1>1, <1>2, <1>6, <1>8, <1>9 DEF QueueTyped
<1>11. Due(ready') = Due(ready) \cup Due(new) /\ Due(Queue) = Due(started) \cup Due(ready)
  BY <1>1, DueOfConcat DEF Queue
<1>12. due' = Due(started') \cup Due(ready')
  BY <1>1, <1>11
<1>13. InTurn(Queue')
  BY <1>3, <1>5
<1> QED
  BY <1>10, <1>12, <1>13

LEMMA EmitKeeps ==
    ASSUME BusInv, NEW topic \in Topics, EB!Emit(topic)
    PROVE  QueueTyped' /\ InTurn(Queue)' /\ due' = Due(started)' \cup Due(ready)'
<1> DEFINE p == [task |-> "publish", event |-> events + 1, via |-> "emit",
                 key |-> topic, handler |-> "none"]
<1>1. /\ events' = events + 1 /\ ready' = Append(ready, p)
      /\ started' = started /\ due' = due
  BY DEF EB!Emit
<1>2. started \in Seq(BusTasks) /\ ready \in Seq(BusTasks) /\ QueueTyped
  BY Queued
<1>3. p \in BusTasks /\ p.task = "publish" /\ p.event = events + 1 /\ p.via = "emit" /\ p.key \in Topics
  BY <1>2 DEF QueueTyped, BusTasks, EB!Keys
<1> HIDE DEF p
<1>4. <<p>> \in Seq(BusTasks) /\ Len(<<p>>) = 1 /\ <<p>>[1] = p /\ DOMAIN <<p>> = 1 .. 1
  BY <1>3
<1>5. ready' = ready \o <<p>>
  BY <1>1, <1>2, <1>3, AppendIsConcat
<1>6. InTurn(<<p>>)
  BY <1>4 DEF InTurn
<1>7. Due(<<p>>) = {}
  BY <1>3, <1>4 DEF Due, EB!ToSet
<1>8. \A n \in 1 .. Len(<<p>>) :
         /\ <<p>>[n].event = events + 1
         /\ <<p>>[n].task = "publish" => <<p>>[n].via = "emit" /\ <<p>>[n].key \in Topics
         /\ <<p>>[n].task = "handle" => <<p>>[n].via = "publish"
  <2> SUFFICES ASSUME NEW n \in 1 .. 1
               PROVE  /\ <<p>>[n].event = events + 1
                      /\ <<p>>[n].task = "publish" => <<p>>[n].via = "emit" /\ <<p>>[n].key \in Topics
                      /\ <<p>>[n].task = "handle" => <<p>>[n].via = "publish"
    BY <1>4
  <2>1. n = 1
    OBVIOUS
  <2> QED
    BY <2>1, <1>3, <1>4
<1>9. due' = due \cup Due(<<p>>)
  BY <1>1, <1>7
<1> QED
  BY <1>1, <1>4, <1>5, <1>6, <1>8, <1>9, Joining

LEMMA EventPublishKeeps ==
    ASSUME BusInv, NEW topic \in Topics, EB!Publish(topic)
    PROVE  QueueTyped' /\ InTurn(Queue)' /\ due' = Due(started)' \cup Due(ready)'
<1> DEFINE new == EB!Deliveries(topic, events + 1, "publish")
<1>1. /\ events' = events + 1 /\ ready' = ready \o new
      /\ started' = started /\ due' = due \cup EB!ToSet(new)
  BY DEF EB!Publish
<1>2. Subscribed /\ events + 1 \in Nat
  BY DEF BusInv, QueueTyped
<1>3. /\ new \in Seq(BusTasks) /\ InTurn(new)
      /\ \A n \in 1 .. Len(new) :
            new[n].task = "handle" /\ new[n].event = events + 1 /\ new[n].via = "publish"
  BY <1>2, DeliveriesMade
<1> HIDE DEF new
<1>4. Due(new) = EB!ToSet(new)
  BY <1>3, SetOf DEF Due
<1>5. \A n \in 1 .. Len(new) :
         /\ new[n].event = events + 1
         /\ new[n].task = "publish" => new[n].via = "emit" /\ new[n].key \in Topics
         /\ new[n].task = "handle" => new[n].via = "publish"
  BY <1>3
<1>6. due' = due \cup Due(new)
  BY <1>1, <1>4
<1> QED
  BY <1>1, <1>3, <1>5, <1>6, Joining

(* The deliveries of an event that was emitted come after all others that    *)
(* are due, and before what is made of the events that still wait.           *)
LEMMA RunPublishKeeps ==
    ASSUME BusInv, EB!RunPublish
    PROVE  QueueTyped' /\ InTurn(Queue)' /\ due' = Due(started)' \cup Due(ready)'
<1> DEFINE p == Head(ready)
           new == EB!Deliveries(Head(ready).key, Head(ready).event, "emit")
           rest == started \o Tail(ready)
<1>1. /\ ready # <<>> /\ p.task = "publish" /\ ready' = Tail(ready) \o new
      /\ due' = due \cup EB!ToSet(new) /\ started' = started /\ events' = events
  BY DEF EB!RunPublish
<1>2. /\ started \in Seq(BusTasks) /\ ready \in Seq(BusTasks) /\ Queue \in Seq(BusTasks)
      /\ InTurn(Queue) /\ due = Due(Queue) /\ QueueTyped /\ Subscribed
  BY Queued DEF BusInv
<1>3. /\ p \in BusTasks /\ Tail(ready) \in Seq(BusTasks) /\ p = ready[1] /\ 1 \in DOMAIN ready
      /\ EB!ToSet(ready) = {p} \cup EB!ToSet(Tail(ready))
      /\ \A n \in DOMAIN Tail(ready) : n + 1 \in DOMAIN ready /\ Tail(ready)[n] = ready[n + 1]
  BY <1>1, <1>2, HeadTailProperties, DueOfSteps
<1>4. p.key \in Topics /\ p.event \in Nat /\ p.event <= events /\ events \in Nat
  BY <1>1, <1>2, <1>3 DEF QueueTyped, BusTasks
<1>5. /\ new \in Seq(BusTasks) /\ InTurn(new)
      /\ \A n \in 1 .. Len(new) :
            new[n].task = "handle" /\ new[n].event = p.event /\ new[n].via = "emit"
  BY <1>2, <1>4, DeliveriesMade
<1>6. /\ InTurn(rest)
      /\ \A n \in 1 .. Len(rest) :
            \/ Turn(rest[n], p) /\ n \in 1 .. Len(started) /\ rest[n] = started[n]
            \/ Turn(p, rest[n])
  BY <1>1, <1>2, TurnOfRest DEF Queue
<1>7. rest \in Seq(BusTasks)
  BY <1>2, <1>3, ConcatProperties
<1>8. Queue' = rest \o new
  <2> HIDE DEF p, new
  <2>1. (started \o Tail(ready)) \o new = started \o (Tail(ready) \o new)
    <3>1. started \in Seq(BusTasks) /\ Tail(ready) \in Seq(BusTasks) /\ new \in Seq(BusTasks)
      BY <1>2, <1>3, <1>5
    <3> QED
      BY <3>1, Associative, Zenon
  <2>2. Queue' = started' \o ready'
    BY DEF Queue
  <2>3. started' = started /\ ready' = Tail(ready) \o new
    BY <1>1
  <2> HIDE DEF Queue
  <2>4. Queue' = started \o (Tail(ready) \o new)
    BY <2>2, <2>3, Zenon
  <2> QED
    BY <2>1, <2>4, Zenon
<1> HIDE DEF p, new
<1>9. ready' \in Seq(BusTasks)
  BY <1>1, <1>3, <1>5, ConcatProperties
<1>10. Due(ready') \cup Due(started') = due'
  <2>1. Due(ready') = Due(Tail(ready)) \cup Due(new)
    <3>1. \A s, t \in Seq(BusTasks) : Due(s \o t) = Due(s) \cup Due(t)
      BY DueOfConcat
    <3>2. Due(Tail(ready) \o new) = Due(Tail(ready)) \cup Due(new)
      BY <3>1, <1>3, <1>5
    <3> QED
      BY <3>2, <1>1
  <2>2. Due(Queue) = Due(started) \cup Due(ready)
    BY <1>2, DueOfConcat DEF Queue
  <2>3. Due(ready) = Due(Tail(ready))
    BY <1>1, <1>3 DEF Due
  <2>4. Due(new) = EB!ToSet(new)
    BY <1>5, SetOf DEF Due
  <2> QED
    BY <1>1, <1>2, <2>1, <2>2, <2>3, <2>4
<1> HIDE DEF rest
<1>11. ASSUME NEW m \in 1 .. Len(rest), NEW n \in 1 .. Len(new) PROVE Turn(rest[m], new[n])
  <2>1. new[n].task = "handle" /\ new[n].event = p.event /\ new[n].via = "emit"
    BY <1>5
  <2>2. rest[m] \in BusTasks
    BY <1>7, ElementOfSeq
  <2>3. rest[m].event \in Nat /\ rest[m].task \in {"handle", "publish"}
    BY <2>2 DEF BusTasks
  <2>4. CASE rest[m].task = "handle"
    <3>1. Turn(rest[m], p) \/ Turn(p, rest[m])
      BY <1>6
    <3>2. Apart(rest[m], p)
      BY <3>1, <2>4, <1>1 DEF Turn
    <3> QED
      BY <3>2, <2>1, <2>4 DEF Turn, Before, Apart
  <2>5. CASE rest[m].task = "publish"
    <3>1. Turn(p, rest[m])
      <4>1. ASSUME m \in 1 .. Len(started), rest[m] = started[m] PROVE rest[m].task = "handle"
        BY <4>1, <1>2, LenProperties DEF QueueTyped
      <4> QED
        BY <4>1, <2>5, <1>6
    <3>2. p.event < rest[m].event
      BY <3>1, <2>5, <1>1 DEF Turn
    <3>3. new[n].event # rest[m].event /\ ~ (new[n].event > rest[m].event)
      BY <3>2, <2>1, <2>3, <1>4
    <3> QED
      BY <3>3, <2>1, <2>5 DEF Turn, Apart
  <2> QED
    BY <2>3, <2>4, <2>5
<1>12. InTurn(Queue')
  BY <1>5, <1>6, <1>7, <1>8, <1>11, TurnOfConcat
<1>13. ASSUME NEW n \in DOMAIN ready'
       PROVE  ready'[n].event <= events' /\ (ready'[n].task = "publish" => ready'[n].via = "emit" /\ ready'[n].key \in Topics)
  <2>1. /\ Len(ready') = Len(Tail(ready)) + Len(new) /\ DOMAIN ready' = 1 .. Len(ready')
        /\ \A k \in 1 .. Len(Tail(ready)) + Len(new) :
              ready'[k] = IF k <= Len(Tail(ready)) THEN Tail(ready)[k] ELSE new[k - Len(Tail(ready))]
    BY <1>1, <1>3, <1>5, <1>9, ConcatProperties, LenProperties
  <2>2. Len(Tail(ready)) \in Nat /\ Len(new) \in Nat /\ DOMAIN Tail(ready) = 1 .. Len(Tail(ready))
    BY <1>3, <1>5, LenProperties
  <2>3. CASE n <= Len(Tail(ready))
    <3>1. n + 1 \in DOMAIN ready /\ ready'[n] = ready[n + 1]
      BY <2>1, <2>2, <2>3, <1>3
    <3> QED
      BY <3>1, <1>1, <1>2 DEF QueueTyped
  <2>4. CASE ~ (n <= Len(Tail(ready)))
    <3>1. n - Len(Tail(ready)) \in 1 .. Len(new) /\ ready'[n] = new[n - Len(Tail(ready))]
      BY <2>1, <2>2, <2>4
    <3> QED
      BY <3>1, <1>1, <1>4, <1>5
  <2> QED
    BY <2>3, <2>4
<1>14. QueueTyped'
  BY <1>1, <1>2, <1>9, <1>13 DEF QueueTyped
<1> QED
  BY <1>10, <1>12, <1>14

(* A handler that starts keeps its place. *)
LEMMA RunHandlerKeeps ==
    ASSUME BusInv, EB!RunHandler
    PROVE  QueueTyped' /\ InTurn(Queue)' /\ due' = Due(started)' \cup Due(ready)'
<1> DEFINE p == Head(ready)
<1>1. /\ ready # <<>> /\ p.task = "handle" /\ ready' = Tail(ready)
      /\ due' = due /\ started' = Append(started, p) /\ events' = events
  BY DEF EB!RunHandler
<1>2. /\ started \in Seq(BusTasks) /\ ready \in Seq(BusTasks) /\ Queue \in Seq(BusTasks)
      /\ InTurn(Queue) /\ due = Due(Queue) /\ QueueTyped
  BY Queued
<1>3. /\ p \in BusTasks /\ Tail(ready) \in Seq(BusTasks) /\ p = ready[1] /\ 1 \in DOMAIN ready
      /\ \A n \in DOMAIN Tail(ready) : n + 1 \in DOMAIN ready /\ Tail(ready)[n] = ready[n + 1]
  BY <1>1, <1>2, HeadTailProperties, DueOfSteps
<1>4. ready = <<p>> \o Tail(ready)
  <2>1. Len(ready) \in Nat /\ 1 \in 1 .. Len(ready) /\ Len(ready) \in 1 .. Len(ready)
    BY <1>2, <1>3, LenProperties
  <2>2. SubSeq(ready, 1, Len(ready)) = <<ready[1]>> \o SubSeq(ready, 1 + 1, Len(ready))
    BY <1>2, <2>1, SubSeqRecursiveFirst
  <2> QED
    BY <1>1, <1>2, <1>3, <2>2, SubSeqFull, TailIsSubSeq
<1> HIDE DEF p
<1>5. started' = started \o <<p>> /\ started' \in Seq(BusTasks) /\ <<p>> \in Seq(BusTasks)
  BY <1>1, <1>2, <1>3, AppendIsConcat, AppendProperties
<1>6. Queue' = Queue
  <2>1. (started \o <<p>>) \o Tail(ready) = started \o (<<p>> \o Tail(ready))
    BY <1>2, <1>3, <1>5, ConcatAssociative
  <2> QED
    BY <2>1, <1>1, <1>4, <1>5 DEF Queue
<1>7. due' = Due(started') \cup Due(ready')
  <2>1. \A s, t \in Seq(BusTasks) : Due(s \o t) = Due(s) \cup Due(t)
    BY DueOfConcat
  <2>2. started' \in Seq(BusTasks) /\ ready' \in Seq(BusTasks) /\ started' \o ready' = Queue
    BY <1>1, <1>3, <1>5, <1>6 DEF Queue
  <2>3. Due(Queue) = Due(started') \cup Due(ready')
    BY <2>1, <2>2
  <2> QED
    BY <2>3, <1>1, <1>2
<1>8. ASSUME NEW n \in DOMAIN started' PROVE started'[n].task = "handle" /\ started'[n].event <= events'
  <2>1. /\ DOMAIN started' = 1 .. Len(started) + 1 /\ started'[Len(started) + 1] = p
        /\ \A k \in 1 .. Len(started) : started'[k] = started[k]
    BY <1>1, <1>2, <1>3, <1>5, AppendProperties, LenProperties
  <2>2. Len(started) \in Nat /\ DOMAIN started = 1 .. Len(started)
    BY <1>2, LenProperties
  <2>3. CASE n = Len(started) + 1
    BY <2>1, <2>3, <1>1, <1>2, <1>3 DEF QueueTyped
  <2>4. CASE n # Len(started) + 1
    <3>1. n \in DOMAIN started /\ started'[n] = started[n]
      BY <2>1, <2>2, <2>4
    <3> QED
      BY <3>1, <1>1, <1>2 DEF QueueTyped
  <2> QED
    BY <2>3, <2>4
<1>9. \A n \in DOMAIN ready' :
         ready'[n].event <= events' /\ (ready'[n].task = "publish" => ready'[n].via = "emit" /\ ready'[n].key \in Topics)
  BY <1>1, <1>2, <1>3 DEF QueueTyped
<1>10. QueueTyped'
  BY <1>1, <1>2, <1>3, <1>5, <1>8, <1>9 DEF QueueTyped
<1> QED
  BY <1>2, <1>6, <1>7, <1>10

LEMMA BusInductive ==
    ASSUME BusInv, [EB!Next]_EB!busVars
    PROVE  BusInv'
<1>1. Subscribed'
  BY SubscribedKept
<1>2. QueueTyped' /\ InTurn(Queue)' /\ due' = Due(started)' \cup Due(ready)'
  <2>1. CASE UNCHANGED <<started, ready, due, events>>
    BY <2>1 DEF BusInv, QueueTyped, Queue
  <2>2. ASSUME NEW topic \in Topics, EB!Emit(topic) \/ EB!Publish(topic)
        PROVE  QueueTyped' /\ InTurn(Queue)' /\ due' = Due(started)' \cup Due(ready)'
    BY <2>2, EmitKeeps, EventPublishKeeps
  <2>3. CASE EB!RunPublish
    BY <2>3, RunPublishKeeps
  <2>4. CASE EB!RunHandler
    BY <2>4, RunHandlerKeeps
  <2>5. ASSUME NEW k \in EB!Keys, NEW h \in Handlers, EB!Subscribe(k, h) \/ EB!Unsubscribe(k, h)
        PROVE  UNCHANGED <<started, ready, due, events>>
    BY <2>5 DEF EB!Subscribe, EB!Unsubscribe
  <2>6. ASSUME NEW d \in running, EB!HandlerEnds(d) PROVE UNCHANGED <<started, ready, due, events>>
    BY <2>6 DEF EB!HandlerEnds
  <2>7. ASSUME NEW e \in gathers, EB!PublishReturns(e) PROVE UNCHANGED <<started, ready, due, events>>
    BY <2>7 DEF EB!PublishReturns
  <2>8. CASE UNCHANGED EB!busVars
    BY <2>8, <2>1 DEF EB!busVars
  <2> QED
    BY <2>1, <2>2, <2>3, <2>4, <2>5, <2>6, <2>7, <2>8 DEF EB!Next
<1> QED
  BY <1>1, <1>2 DEF BusInv

(* What has started is a part of the queue. *)
LEMMA InOrder == BusInv => EB!DeliveredInOrder
<1> SUFFICES ASSUME BusInv PROVE EB!DeliveredInOrder
  OBVIOUS
<1>1. /\ started \in Seq(BusTasks) /\ ready \in Seq(BusTasks) /\ Queue \in Seq(BusTasks)
      /\ InTurn(Queue) /\ QueueTyped /\ due = Due(started) \cup Due(ready)
  BY Queued DEF BusInv
<1>2. /\ DOMAIN started = 1 .. Len(started) /\ Len(started) \in Nat
      /\ DOMAIN Queue = 1 .. Len(started) + Len(ready) /\ Len(ready) \in Nat
      /\ \A n \in 1 .. Len(started) : Queue[n] = started[n]
  BY <1>1, ConcatProperties, LenProperties DEF Queue
<1>3. ASSUME NEW m \in DOMAIN started, NEW n \in DOMAIN started, m < n
      PROVE  Before(started[m], started[n]) /\ started[m] # started[n]
  <2>1. Turn(started[m], started[n])
    BY <1>1, <1>2, <1>3 DEF InTurn
  <2>2. started[m].task = "handle" /\ started[n].task = "handle"
    BY <1>1 DEF QueueTyped
  <2> QED
    BY <2>1, <2>2 DEF Turn
<1>4. EB!IsInjective(started)
  <2> SUFFICES ASSUME NEW m \in DOMAIN started, NEW n \in DOMAIN started, started[m] = started[n], m # n
               PROVE  FALSE
    BY DEF EB!IsInjective
  <2>1. m < n \/ n < m
    BY <1>2
  <2> QED
    BY <2>1, <1>3
<1>5. Due(started) = EB!ToSet(started)
  <2>1. \A x \in EB!ToSet(started) : \E n \in DOMAIN started : started[n] = x
    BY DEF EB!ToSet
  <2>2. \A x \in EB!ToSet(started) : x.task = "handle"
    BY <2>1, <1>1 DEF QueueTyped
  <2> QED
    BY <2>2 DEF Due
<1>6. EB!ToSet(started) \cup {t \in EB!ToSet(ready) : t.task = "handle"} = due
  BY <1>1, <1>5 DEF Due
<1> QED
  BY <1>3, <1>4, <1>6 DEF EB!DeliveredInOrder, Before

(* Handlers start in the order of the events and at most once through each   *)
(* of their subscriptions, however tasks interleave.                         *)
THEOREM DeliveredInOrderHolds == EB!Spec => []EB!DeliveredInOrder
<1>1. EB!Spec => []BusInv
  BY BusInitially, BusInductive, PTL DEF EB!Spec
<1> QED
  BY <1>1, InOrder, PTL

-----------------------------------------------------------------------------
(***************************************************************************)
(* Runs of the agent runtime.                                              *)
(***************************************************************************)

Outcomes == {"succeeded", "failed", "skipped"}

RunType == [phase : {"idle", "planning", "attempt", "tool", "wording", "answered"},
            outcomes : Seq(Outcomes), attempts : Nat, retries : Nat, late : BOOLEAN,
            worked : SUBSET Nat, cancelled : BOOLEAN, remembered : Nat,
            experience : {"none", "success", "failure"},
            status : {"pending", "cancelled", "succeeded", "failed", "raised", "timed_out"}]

(* Up to its last step a run has had no failure: each step it has an outcome *)
(* of succeeded with its tool.                                               *)
StepsInTurn(run) ==
    /\ run.worked = 1..Len(run.outcomes) /\ Len(run.outcomes) <= AgentPlan
    /\ \A i \in 1..Len(run.outcomes) : run.outcomes[i] = "succeeded"
    /\ run.experience = "none" /\ run.status = "pending"

(* What the run says of itself is true. *)
Truthful(run) ==
    /\ run.status = "succeeded" => ~run.cancelled /\ run.experience = "success"
    /\ run.experience = "success" => run.worked = 1..AgentPlan

RunGood(run) ==
    /\ run \in RunType /\ Truthful(run)
    /\ run.phase \in {"idle", "planning", "attempt", "tool"} => StepsInTurn(run)
    /\ run.phase \in {"attempt", "tool"} => Len(run.outcomes) < AgentPlan
    /\ run.phase = "wording" =>
          run.status = "pending" /\ (AR!AllSucceeded(run) => run.experience = "success")

(* The table has tokens of runs that are not over. *)
Tokens ==
    \A s \in DOMAIN tokenOf :
        tokenOf[s] \in AgentRuns /\ RunSession[tokenOf[s]] = s /\ agentRuns[tokenOf[s]].phase # "answered"

AgentInv ==
    /\ agentRuns \in [AgentRuns -> RunType] /\ \A r \in AgentRuns : RunGood(agentRuns[r])
    /\ Tokens

(* A tool starts for a run that is not cancelled, in its turn. *)
StartsInTurn(old, new) ==
    new.attempts > old.attempts => ~old.cancelled /\ old.worked = 1..Len(old.outcomes)

AgentStep == AgentInv' /\ \A q \in AgentRuns : StartsInTurn(agentRuns[q], agentRuns'[q])

-----------------------------------------------------------------------------
(* What is left of a plan is filled up; then all steps succeeded only if     *)
(* there was nothing to fill up.                                             *)
LEMMA Filled ==
    ASSUME AR!AgentRunAssumption, NEW run \in RunType, Len(run.outcomes) <= AgentPlan
    PROVE  /\ AR!WithSkipped(run) \in RunType
           /\ AR!WithSkipped(run) = [run EXCEPT !.outcomes = AR!WithSkipped(run).outcomes]
           /\ Len(AR!WithSkipped(run).outcomes) = AgentPlan
           /\ \A i \in 1..Len(run.outcomes) : AR!WithSkipped(run).outcomes[i] = run.outcomes[i]
           /\ AR!AllSucceeded(AR!WithSkipped(run)) =>
                 /\ Len(run.outcomes) = AgentPlan
                 /\ \A i \in 1..Len(run.outcomes) : run.outcomes[i] = "succeeded"
<1> DEFINE n == Len(run.outcomes)
           rest == [i \in 1..(AgentPlan - n) |-> "skipped"]
           all == run.outcomes \o rest
<1>1. run.outcomes \in Seq(Outcomes) /\ n \in Nat /\ AgentPlan \in Nat /\ AgentPlan - n \in Nat
  BY DEF RunType, AR!AgentRunAssumption
<1>2. rest \in Seq(Outcomes) /\ Len(rest) = AgentPlan - n
  BY <1>1, IsASeq DEF Outcomes
<1>3. all \in Seq(Outcomes) /\ Len(all) = AgentPlan
  BY <1>1, <1>2, ConcatProperties
<1>4. \A i \in 1..AgentPlan : all[i] = IF i <= n THEN run.outcomes[i] ELSE "skipped"
  BY <1>1, <1>2, ConcatProperties
<1>5. AR!WithSkipped(run) = [run EXCEPT !.outcomes = all]
  BY DEF AR!WithSkipped
<1>6. AR!WithSkipped(run).outcomes = all /\ AR!WithSkipped(run) \in RunType
  BY <1>3, <1>5 DEF RunType
<1>7. ASSUME AR!AllSucceeded(AR!WithSkipped(run)) PROVE n = AgentPlan
  <2>1. \A i \in 1..AgentPlan : all[i] = "succeeded"
    BY <1>6, <1>7 DEF AR!AllSucceeded
  <2>2. ~(n < AgentPlan)
    <3>1. ASSUME n < AgentPlan PROVE all[n + 1] = "skipped"
      BY <1>1, <1>4, <3>1
    <3> QED
      BY <1>1, <2>1, <3>1
  <2> QED
    BY <1>1, <2>2
<1> HIDE DEF all
<1>8. \A i \in 1..n : all[i] = run.outcomes[i]
  BY <1>1, <1>4
<1> QED
  BY <1>1, <1>3, <1>5, <1>6, <1>7, <1>8 DEF AR!AllSucceeded

-----------------------------------------------------------------------------
LEMMA GoesKeeps ==
    ASSUME AgentInv, NEW r \in AgentRuns, NEW run, RunGood(run), run.phase # "answered",
           StartsInTurn(agentRuns[r], run), AR!Goes(r, run)
    PROVE  AgentStep
<1>1. agentRuns' = [agentRuns EXCEPT ![r] = run] /\ tokenOf' = tokenOf
  BY DEF AR!Goes
<1>2. agentRuns' \in [AgentRuns -> RunType] /\ agentRuns'[r] = run
      /\ \A q \in AgentRuns : q # r => agentRuns'[q] = agentRuns[q]
  BY <1>1 DEF AgentInv, RunGood
<1>3. \A q \in AgentRuns : agentRuns[q] \in RunType
  BY DEF AgentInv
<1>4. ASSUME NEW q \in AgentRuns PROVE StartsInTurn(agentRuns[q], agentRuns'[q])
  <2>1. StartsInTurn(agentRuns[q], agentRuns[q])
    BY <1>3 DEF StartsInTurn, RunType
  <2> QED
    BY <1>2, <2>1
<1>5. Tokens'
  BY <1>1, <1>2 DEF AgentInv, Tokens
<1> QED
  BY <1>2, <1>4, <1>5 DEF AgentStep, AgentInv

LEMMA AnswersKeeps ==
    ASSUME AgentInv, NEW r \in AgentRuns, NEW run \in RunType, Truthful(run),
           NEW end \in {"cancelled", "succeeded", "failed", "raised", "timed_out"},
           end = "succeeded" => ~run.cancelled /\ run.experience = "success",
           StartsInTurn(agentRuns[r], run), AR!Answers(r, run, end)
    PROVE  AgentStep
<1> DEFINE new == [run EXCEPT !.phase = "answered", !.status = end]
<1>1. /\ new \in RunType /\ new.phase = "answered" /\ new.status = end
      /\ new.cancelled = run.cancelled /\ new.experience = run.experience
      /\ new.worked = run.worked /\ new.attempts = run.attempts
  BY DEF RunType
<1>2. RunGood(new) /\ StartsInTurn(agentRuns[r], new)
  BY <1>1 DEF RunGood, Truthful, StartsInTurn
<1>3. agentRuns' = [agentRuns EXCEPT ![r] = new]
  BY DEF AR!Answers
<1>4. /\ DOMAIN tokenOf' = DOMAIN tokenOf \ {RunSession[r]}
      /\ \A s \in DOMAIN tokenOf' : tokenOf'[s] = tokenOf[s]
  BY DEF AR!Answers
<1> HIDE DEF new
<1>5. agentRuns' \in [AgentRuns -> RunType] /\ agentRuns'[r] = new
      /\ \A q \in AgentRuns : q # r => agentRuns'[q] = agentRuns[q]
  BY <1>1, <1>3 DEF AgentInv
<1>6. \A q \in AgentRuns : agentRuns[q] \in RunType
  BY DEF AgentInv
<1>7. ASSUME NEW q \in AgentRuns PROVE StartsInTurn(agentRuns[q], agentRuns'[q])
  <2>1. CASE q = r
    BY <1>2, <1>5, <2>1
  <2>2. CASE q # r
    BY <1>5, <1>6, <2>2 DEF StartsInTurn, RunType
  <2> QED
    BY <2>1, <2>2
<1>8. Tokens'
  BY <1>4, <1>5 DEF AgentInv, Tokens
<1> QED
  BY <1>2, <1>5, <1>7, <1>8 DEF AgentStep, AgentInv

(* A run closes with an experience that is a success only if all its tools   *)
(* worked.                                                                   *)
LEMMA ClosesKeeps ==
    ASSUME AR!AgentRunAssumption, AgentInv, NEW r \in AgentRuns, NEW run \in RunType,
           Len(run.outcomes) <= AgentPlan, run.status = "pending",
           (\A i \in 1..Len(run.outcomes) : run.outcomes[i] = "succeeded")
              => run.worked = 1..Len(run.outcomes),
           StartsInTurn(agentRuns[r], run), AR!Closes(r, run)
    PROVE  AgentStep
<1> DEFINE all == AR!WithSkipped(run)
           how == IF AR!AllSucceeded(all) THEN "success" ELSE "failure"
           closed == [all EXCEPT !.experience = how]
<1>1. /\ all \in RunType /\ all = [run EXCEPT !.outcomes = all.outcomes]
      /\ AR!AllSucceeded(all) => run.worked = 1..AgentPlan
  BY Filled
<1>2. all.status = "pending" /\ all.worked = run.worked /\ all.attempts = run.attempts
  BY <1>1 DEF RunType
<1> HIDE DEF all
<1>3. /\ closed \in RunType /\ closed.outcomes = all.outcomes /\ closed.status = "pending"
      /\ closed.worked = run.worked /\ closed.attempts = run.attempts /\ closed.experience = how
      /\ closed.phase = all.phase /\ closed.cancelled = all.cancelled
  BY <1>1, <1>2 DEF RunType
<1>4. AR!AllSucceeded(closed) <=> AR!AllSucceeded(all)
  BY <1>3 DEF AR!AllSucceeded
<1> HIDE DEF closed
<1>5. Truthful(closed) /\ (AR!AllSucceeded(closed) => closed.experience = "success")
  BY <1>1, <1>3, <1>4 DEF Truthful
<1>6. StartsInTurn(agentRuns[r], closed)
  BY <1>3 DEF StartsInTurn
<1>7. CASE WithRouter
  <2> DEFINE next == [closed EXCEPT !.phase = "wording"]
  <2>1. /\ next \in RunType /\ next.phase = "wording" /\ next.status = "pending"
        /\ next.outcomes = closed.outcomes /\ next.experience = closed.experience
        /\ next.worked = closed.worked /\ next.attempts = closed.attempts
    BY <1>3 DEF RunType
  <2>2. AR!AllSucceeded(next) <=> AR!AllSucceeded(closed)
    BY <2>1 DEF AR!AllSucceeded
  <2>3. RunGood(next)
    BY <1>5, <2>1, <2>2 DEF RunGood, Truthful
  <2>4. AR!Goes(r, next)
    BY <1>7 DEF AR!Closes, closed, all
  <2>5. StartsInTurn(agentRuns[r], next)
    BY <1>6, <2>1 DEF StartsInTurn
  <2> HIDE DEF next
  <2> QED
    BY <2>1, <2>3, <2>4, <2>5, GoesKeeps
<1>8. CASE ~WithRouter
  <2>1. AR!Answers(r, closed, AR!Status(closed))
    BY <1>8 DEF AR!Closes, closed, all
  <2>2. /\ AR!Status(closed) \in {"cancelled", "succeeded", "failed"}
        /\ AR!Status(closed) = "succeeded" => ~closed.cancelled /\ closed.experience = "success"
    BY <1>5 DEF AR!Status
  <2> QED
    BY <1>3, <1>5, <1>6, <2>1, <2>2, AnswersKeeps
<1> QED
  BY <1>7, <1>8

(* A failed step is the last one. *)
LEMMA FailureKeeps ==
    ASSUME AR!AgentRunAssumption, AgentInv, NEW r \in AgentRuns, NEW run \in RunType,
           Len(run.outcomes) < AgentPlan, run.status = "pending",
           StartsInTurn(agentRuns[r], run),
           AR!Closes(r, [run EXCEPT !.outcomes = Append(@, "failed")])
    PROVE  AgentStep
<1> DEFINE longer == Append(run.outcomes, "failed")
           new == [run EXCEPT !.outcomes = longer]
<1>1. run.outcomes \in Seq(Outcomes) /\ Len(run.outcomes) \in Nat /\ AgentPlan \in Nat
  BY DEF RunType, AR!AgentRunAssumption
<1>2. /\ longer \in Seq(Outcomes) /\ Len(longer) = Len(run.outcomes) + 1
      /\ longer[Len(run.outcomes) + 1] = "failed"
  BY <1>1 DEF Outcomes
<1>3. /\ new \in RunType /\ new.outcomes = longer /\ new.status = "pending"
      /\ new.attempts = run.attempts
  BY <1>2 DEF RunType
<1>4. Len(new.outcomes) <= AgentPlan
      /\ ~(\A i \in 1..Len(new.outcomes) : new.outcomes[i] = "succeeded")
  BY <1>1, <1>2, <1>3
<1>5. StartsInTurn(agentRuns[r], new) /\ AR!Closes(r, new)
  BY <1>3 DEF StartsInTurn
<1> HIDE DEF new
<1> QED
  BY <1>3, <1>4, <1>5, ClosesKeeps

LEMMA LoopTopKeeps ==
    ASSUME AR!AgentRunAssumption, AgentInv, NEW r \in AgentRuns, NEW run \in RunType, StepsInTurn(run),
           StartsInTurn(agentRuns[r], run), AR!LoopTop(r, run)
    PROVE  AgentStep
<1>1. Len(run.outcomes) \in Nat /\ AgentPlan \in Nat
  BY DEF RunType, AR!AgentRunAssumption
<1>2. CASE AR!Closes(r, run)
  BY <1>2, ClosesKeeps DEF StepsInTurn
<1>3. CASE Len(run.outcomes) < AgentPlan /\ AR!Closes(r, [run EXCEPT !.outcomes = Append(@, "failed")])
  BY <1>3, FailureKeeps DEF StepsInTurn
<1>4. CASE Len(run.outcomes) < AgentPlan
           /\ AR!Goes(r, [run EXCEPT !.phase = "attempt", !.attempts = 0, !.retries = 0, !.late = FALSE])
  <2> DEFINE next == [run EXCEPT !.phase = "attempt", !.attempts = 0, !.retries = 0, !.late = FALSE]
  <2>1. /\ next \in RunType /\ next.phase = "attempt" /\ next.attempts = 0
        /\ next.outcomes = run.outcomes /\ next.worked = run.worked /\ next.status = run.status
        /\ next.experience = run.experience
    BY DEF RunType
  <2>2. RunGood(next) /\ StartsInTurn(agentRuns[r], next)
    BY <1>4, <2>1 DEF RunGood, StepsInTurn, Truthful, StartsInTurn, AgentInv, RunType
  <2> HIDE DEF next
  <2> QED
    BY <1>4, <2>1, <2>2, GoesKeeps DEF next
<1> QED
  BY <1>1, <1>2, <1>3, <1>4 DEF AR!LoopTop, StepsInTurn

LEMMA Remembering ==
    ASSUME NEW run \in RunType
    PROVE  /\ AR!Remembered(run) \in RunType /\ AR!Remembered(run).outcomes = run.outcomes
           /\ AR!Remembered(run).status = run.status /\ AR!Remembered(run).attempts = run.attempts
           /\ AR!Remembered(run).worked = run.worked /\ AR!Remembered(run).experience = run.experience
<1>1. run.remembered + 1 \in Nat
  BY DEF RunType
<1> QED
  BY <1>1 DEF RunType, AR!Remembered

LEMMA TryToolKeeps ==
    ASSUME AR!AgentRunAssumption, AgentInv, NEW r \in AgentRuns, NEW run \in RunType, StepsInTurn(run),
           Len(run.outcomes) < AgentPlan,
           run.worked = agentRuns[r].worked, run.outcomes = agentRuns[r].outcomes,
           run.cancelled = agentRuns[r].cancelled, run.attempts = agentRuns[r].attempts,
           AR!TryTool(r, run)
    PROVE  AgentStep
<1>1. CASE run.cancelled
  <2>1. Truthful(run) /\ StartsInTurn(agentRuns[r], run)
    BY DEF StepsInTurn, Truthful, StartsInTurn, RunType
  <2> QED
    BY <1>1, <2>1, AnswersKeeps DEF AR!TryTool
<1>2. CASE ~run.cancelled
  <2> DEFINE next == [run EXCEPT !.phase = "tool", !.attempts = @ + 1]
  <2>0. run.attempts + 1 \in Nat
    BY DEF RunType
  <2>1. /\ next \in RunType /\ next.phase = "tool"
        /\ next.outcomes = run.outcomes /\ next.worked = run.worked /\ next.status = run.status
        /\ next.experience = run.experience
    BY <2>0 DEF RunType
  <2>2. RunGood(next) /\ StartsInTurn(agentRuns[r], next)
    BY <1>2, <2>1 DEF RunGood, StepsInTurn, Truthful, StartsInTurn
  <2>3. AR!Goes(r, next)
    BY <1>2 DEF AR!TryTool
  <2> HIDE DEF next
  <2> QED
    BY <2>1, <2>2, <2>3, GoesKeeps
<1> QED
  BY <1>1, <1>2

LEMMA RetryOrFailKeeps ==
    ASSUME AR!AgentRunAssumption, AgentInv, NEW r \in AgentRuns, NEW run \in RunType, StepsInTurn(run),
           Len(run.outcomes) < AgentPlan,
           run.worked = agentRuns[r].worked, run.outcomes = agentRuns[r].outcomes,
           run.cancelled = agentRuns[r].cancelled, run.attempts = agentRuns[r].attempts,
           NEW transient \in BOOLEAN, AR!RetryOrFail(r, run, transient)
    PROVE  AgentStep
<1>1. CASE AR!TryTool(r, [run EXCEPT !.retries = @ + 1])
  <2> DEFINE next == [run EXCEPT !.retries = @ + 1]
  <2>1. /\ next \in RunType /\ next.outcomes = run.outcomes /\ next.worked = run.worked
        /\ next.status = run.status /\ next.experience = run.experience
        /\ next.cancelled = run.cancelled /\ next.attempts = run.attempts
    BY DEF RunType
  <2>2. StepsInTurn(next)
    BY <2>1 DEF StepsInTurn
  <2> HIDE DEF next
  <2> QED
    BY <1>1, <2>1, <2>2, TryToolKeeps DEF next
<1>2. CASE AR!Closes(r, [AR!Remembered(run) EXCEPT !.outcomes = Append(@, "failed")])
  <2>1. /\ AR!Remembered(run) \in RunType /\ AR!Remembered(run).outcomes = run.outcomes
        /\ AR!Remembered(run).status = "pending" /\ AR!Remembered(run).attempts = run.attempts
    BY Remembering DEF StepsInTurn
  <2>2. StartsInTurn(agentRuns[r], AR!Remembered(run))
    BY <2>1 DEF StartsInTurn, RunType
  <2> QED
    BY <1>2, <2>1, <2>2, FailureKeeps
<1> QED
  BY <1>1, <1>2 DEF AR!RetryOrFail

-----------------------------------------------------------------------------
LEMMA BeginKeeps == ASSUME AgentInv, NEW r \in AgentRuns, AR!Begin(r) PROVE AgentStep
<1> DEFINE next == [agentRuns[r] EXCEPT !.phase = "planning"]
<1>1. RunGood(agentRuns[r]) /\ agentRuns[r].phase = "idle"
  BY DEF AgentInv, AR!Begin
<1>2. /\ next \in RunType /\ next.phase = "planning" /\ next.outcomes = agentRuns[r].outcomes
      /\ next.worked = agentRuns[r].worked /\ next.attempts = agentRuns[r].attempts
      /\ next.status = agentRuns[r].status /\ next.experience = agentRuns[r].experience
      /\ next.cancelled = agentRuns[r].cancelled
  BY <1>1 DEF RunGood, RunType
<1>3. RunGood(next)
  BY <1>1, <1>2 DEF RunGood, StepsInTurn, Truthful
<1>4. agentRuns' = [agentRuns EXCEPT ![r] = next]
  BY DEF AR!Begin
<1>5. /\ DOMAIN tokenOf' = DOMAIN tokenOf \cup {RunSession[r]} /\ tokenOf'[RunSession[r]] = r
      /\ \A s \in DOMAIN tokenOf : s # RunSession[r] => tokenOf'[s] = tokenOf[s]
  BY DEF AR!Begin
<1> HIDE DEF next
<1>6. agentRuns' \in [AgentRuns -> RunType] /\ agentRuns'[r] = next
      /\ \A q \in AgentRuns : q # r => agentRuns'[q] = agentRuns[q]
  BY <1>2, <1>4 DEF AgentInv
<1>7. \A q \in AgentRuns : agentRuns[q] \in RunType
  BY DEF AgentInv
<1>8. \A q \in AgentRuns : StartsInTurn(agentRuns[q], agentRuns'[q])
  <2>1. \A q \in AgentRuns : agentRuns'[q].attempts = agentRuns[q].attempts
    BY <1>2, <1>6
  <2>2. \A q \in AgentRuns : agentRuns[q].attempts \in Nat
    BY <1>7 DEF RunType
  <2> QED
    BY <2>1, <2>2 DEF StartsInTurn
<1>9. Tokens'
  BY <1>2, <1>5, <1>6 DEF AgentInv, Tokens
<1> QED
  BY <1>3, <1>6, <1>8, <1>9 DEF AgentStep, AgentInv

LEMMA ToolSucceedsKeeps ==
    ASSUME AR!AgentRunAssumption, AgentInv, NEW r \in AgentRuns, AR!ToolSucceeds(r)
    PROVE  AgentStep
<1> DEFINE old == agentRuns[r]
           worked == old.worked \cup {Len(old.outcomes) + 1}
           run == [old EXCEPT !.worked = worked]
           longer == Append(old.outcomes, "succeeded")
           new == [AR!Remembered(run) EXCEPT !.outcomes = longer]
<1>1. RunGood(old) /\ old.phase = "tool"
  BY DEF AgentInv, AR!ToolSucceeds
<1>2. /\ old.outcomes \in Seq(Outcomes) /\ Len(old.outcomes) \in Nat /\ AgentPlan \in Nat
      /\ StepsInTurn(old) /\ Len(old.outcomes) < AgentPlan
  BY <1>1 DEF RunGood, RunType, AR!AgentRunAssumption
<1>3. /\ longer \in Seq(Outcomes) /\ Len(longer) = Len(old.outcomes) + 1
      /\ \A i \in 1..Len(longer) : longer[i] = "succeeded"
  BY <1>2 DEF Outcomes, StepsInTurn
<1>4. worked = 1..Len(longer)
  BY <1>2, <1>3 DEF StepsInTurn
<1>5. worked \in SUBSET Nat
  BY <1>3, <1>4, <1>2
<1> HIDE DEF worked, longer
<1>6. /\ run \in RunType /\ run.worked = worked /\ run.outcomes = old.outcomes
      /\ run.attempts = old.attempts /\ run.status = old.status /\ run.experience = old.experience
  BY <1>1, <1>5 DEF RunGood, RunType
<1>7. AR!LoopTop(r, new)
  BY DEF AR!ToolSucceeds, AR!Step, worked, longer, AR!Remembered
<1> HIDE DEF run
<1>8. /\ new \in RunType /\ new.worked = worked /\ new.outcomes = longer
      /\ new.attempts = old.attempts /\ new.status = old.status /\ new.experience = old.experience
  <2> DEFINE kept == AR!Remembered(run)
  <2>1. /\ kept \in RunType /\ kept.worked = worked /\ kept.attempts = old.attempts
        /\ kept.status = old.status /\ kept.experience = old.experience
    BY <1>6, Remembering
  <2>2. new = [kept EXCEPT !.outcomes = longer]
    OBVIOUS
  <2> HIDE DEF kept, new
  <2> QED
    BY <1>3, <2>1, <2>2 DEF RunType
<1> HIDE DEF new
<1>9. StepsInTurn(new)
  BY <1>2, <1>3, <1>4, <1>8 DEF StepsInTurn
<1>10. StartsInTurn(old, new)
  BY <1>2, <1>8, <1>1 DEF StartsInTurn, RunGood, RunType
<1> QED
  BY <1>7, <1>8, <1>9, <1>10, LoopTopKeeps

LEMMA CancelKeeps ==
    ASSUME AgentInv, NEW s, AR!Cancel(s)
    PROVE  AgentStep
<1> DEFINE r == tokenOf[s]
           next == [agentRuns[r] EXCEPT !.cancelled = TRUE]
<1>1. r \in AgentRuns /\ agentRuns[r].phase # "answered" /\ RunGood(agentRuns[r])
  BY DEF AR!Cancel, AgentInv, Tokens
<1>2. /\ next \in RunType /\ next.phase = agentRuns[r].phase /\ next.outcomes = agentRuns[r].outcomes
      /\ next.worked = agentRuns[r].worked /\ next.attempts = agentRuns[r].attempts
      /\ next.status = agentRuns[r].status /\ next.experience = agentRuns[r].experience
  BY <1>1 DEF RunGood, RunType
<1>3. agentRuns[r].status # "succeeded"
  BY <1>1 DEF RunGood, RunType, StepsInTurn
<1>4. StepsInTurn(agentRuns[r]) <=> StepsInTurn(next)
  BY <1>2 DEF StepsInTurn
<1>5. AR!AllSucceeded(agentRuns[r]) <=> AR!AllSucceeded(next)
  BY <1>2 DEF AR!AllSucceeded
<1>6. Truthful(next)
  BY <1>1, <1>2, <1>3 DEF RunGood, Truthful
<1>7. RunGood(next)
  BY <1>1, <1>2, <1>4, <1>5, <1>6 DEF RunGood
<1>8. StartsInTurn(agentRuns[r], next)
  BY <1>1, <1>2 DEF RunGood, StartsInTurn, RunType
<1>9. AR!Goes(r, next)
  BY DEF AR!Cancel
<1> HIDE DEF next, r
<1> QED
  BY <1>1, <1>2, <1>7, <1>8, <1>9, GoesKeeps

(* A run that is cancelled with its task, or late, answers at once. *)
LEMMA GivenUpKeeps ==
    ASSUME AgentInv, NEW r \in AgentRuns, AR!OverallTimeout(r) \/ AR!TaskCancelled(r) \/ AR!RouterFails(r)
    PROVE  AgentStep
<1> DEFINE old == agentRuns[r]
           gone == [old EXCEPT !.cancelled = TRUE]
<1>1. RunGood(old) /\ AR!Awaiting(r)
  BY DEF AgentInv, AR!OverallTimeout, AR!TaskCancelled, AR!RouterFails, AR!Awaiting
<1>2. old \in RunType /\ Truthful(old) /\ old.status = "pending"
  BY <1>1 DEF RunGood, StepsInTurn, AR!Awaiting
<1>3. gone \in RunType /\ gone.status = "pending" /\ gone.attempts = old.attempts
      /\ gone.experience = old.experience /\ gone.worked = old.worked
  BY <1>2 DEF RunType
<1>4. Truthful(gone) /\ StartsInTurn(old, gone) /\ StartsInTurn(old, old)
  BY <1>2, <1>3 DEF Truthful, StartsInTurn, RunType
<1> HIDE DEF gone
<1> QED
  BY <1>2, <1>3, <1>4, AnswersKeeps DEF AR!OverallTimeout, AR!TaskCancelled, AR!RouterFails, gone

LEMMA StepKeeps ==
    ASSUME AR!AgentRunAssumption, AgentInv, NEW r \in AgentRuns,
           \/ AR!PlanMade(r) \/ AR!StepStarts(r) \/ \E transient \in BOOLEAN : AR!ToolFails(r, transient)
           \/ AR!ToolTimesOut(r) \/ AR!StepTimesOut(r) \/ AR!RouterAnswers(r)
    PROVE  AgentStep
<1> DEFINE old == agentRuns[r]
           tardy == [old EXCEPT !.late = TRUE]
<1>1. RunGood(old) /\ old \in RunType /\ StartsInTurn(old, old)
  BY DEF AgentInv, RunGood, StartsInTurn, RunType
<1>2. CASE AR!PlanMade(r)
  BY <1>1, <1>2, LoopTopKeeps DEF AR!PlanMade, RunGood
<1>3. CASE AR!StepStarts(r)
  BY <1>1, <1>3, TryToolKeeps DEF AR!StepStarts, RunGood
<1>4. ASSUME NEW transient \in BOOLEAN, AR!ToolFails(r, transient) PROVE AgentStep
  BY <1>1, <1>4, RetryOrFailKeeps DEF AR!ToolFails, RunGood
<1>5. CASE AR!ToolTimesOut(r)
  <2>1. /\ tardy \in RunType /\ tardy.outcomes = old.outcomes /\ tardy.worked = old.worked
        /\ tardy.status = old.status /\ tardy.experience = old.experience
        /\ tardy.cancelled = old.cancelled /\ tardy.attempts = old.attempts
    BY <1>1 DEF RunType
  <2>2. StepsInTurn(tardy) /\ Len(tardy.outcomes) < AgentPlan
    BY <1>1, <1>5, <2>1 DEF AR!ToolTimesOut, RunGood, StepsInTurn
  <2>3. AR!RetryOrFail(r, tardy, TRUE)
    BY <1>5 DEF AR!ToolTimesOut
  <2> HIDE DEF tardy
  <2> QED
    BY <2>1, <2>2, <2>3, RetryOrFailKeeps
<1>6. CASE AR!StepTimesOut(r)
  BY <1>1, <1>6, FailureKeeps DEF AR!StepTimesOut, RunGood, StepsInTurn
<1>7. CASE AR!RouterAnswers(r)
  <2>1. /\ AR!Status(old) \in {"cancelled", "succeeded", "failed"}
        /\ AR!Status(old) = "succeeded" => ~old.cancelled /\ old.experience = "success"
    BY <1>1, <1>7 DEF AR!Status, AR!RouterAnswers, RunGood
  <2> QED
    BY <1>1, <1>7, <2>1, AnswersKeeps DEF AR!RouterAnswers, RunGood
<1> QED
  BY <1>2, <1>3, <1>4, <1>5, <1>6, <1>7

LEMMA AgentInitially == ASSUME AR!AgentRunAssumption, AR!Init PROVE AgentInv
<1>1. AR!NewAgentRun \in RunType
  BY DEF AR!NewAgentRun, RunType
<1>2. RunGood(AR!NewAgentRun)
  BY <1>1 DEF AR!NewAgentRun, RunGood, Truthful, StepsInTurn, AR!AgentRunAssumption
<1> QED
  BY <1>1, <1>2 DEF AR!Init, AgentInv, Tokens

LEMMA AgentInductive == ASSUME AR!AgentRunAssumption, AgentInv, [AR!Next]_AR!agentVars PROVE AgentStep
<1>1. CASE UNCHANGED AR!agentVars
  <2>1. \A q \in AgentRuns : agentRuns[q] \in RunType
    BY DEF AgentInv
  <2> QED
    BY <1>1, <2>1 DEF AR!agentVars, AgentStep, AgentInv, Tokens, StartsInTurn, RunType
<1>2. CASE AR!Next
  BY <1>2, BeginKeeps, StepKeeps, ToolSucceedsKeeps, GivenUpKeeps, CancelKeeps DEF AR!Next
<1> QED
  BY <1>1, <1>2

(* Tools start in turn and never for a cancelled run, and what a run says of *)
(* itself is true, whatever fails, times out or is cancelled.               *)
THEOREM RunsObey ==
    ASSUME AR!AgentRunAssumption
    PROVE  AR!Spec => AR!AgentObeys
<1>1. AR!Init => AgentInv
  BY AgentInitially
<1>2. AgentInv /\ [AR!Next]_AR!agentVars => AgentInv'
  BY AgentInductive DEF AgentStep
<1>3. AgentInv /\ [AR!Next]_AR!agentVars =>
        [\A r \in AgentRuns :
          LET run == agentRuns[r]  next == agentRuns'[r]
          IN  /\ next.attempts > run.attempts =>
                    ~run.cancelled /\ run.worked = 1..Len(run.outcomes)
              /\ next.status = "succeeded" => ~next.cancelled /\ next.experience = "success"
              /\ next.experience = "success" => next.worked = 1..AgentPlan]_AR!agentVars
  BY AgentInductive DEF AgentStep, AgentInv, RunGood, Truthful, StartsInTurn
<1> QED
  BY <1>1, <1>2, <1>3, PTL DEF AR!Spec, AR!AgentObeys

-----------------------------------------------------------------------------
(* A tool's work is accounted for, a skill ends as its last attempt did, and *)
(* events are delivered in order, whatever the other components do           *)
(* (ToolExecution, KernelExecution, EventBus).                               *)
THEOREM WorkAccountedForHolds == Components => []WorkAccountedFor
<1>1. Components => []TE!WorkAccountedFor
  BY ToolWorkAccounted, PlatformAssumption DEF Components
<1>2. Components => []KX!ExecutionSound
  BY ExecutionSoundHolds, PlatformAssumption DEF Components
<1>3. Components => []EB!DeliveredInOrder
  BY DeliveredInOrderHolds DEF Components
<1> QED
  BY <1>1, <1>2, <1>3, PTL DEF WorkAccountedFor

(* Tools start in turn and never for a cancelled run, and what a run says of *)
(* itself is true (AgentRun).                                                *)
THEOREM AgentObeysHolds == Components => AgentObeys
  BY RunsObey, PlatformAssumption DEF Components, AgentObeys

-----------------------------------------------------------------------------
(***************************************************************************)
(* Steps inside steps: a thread has only steps of its own branch to run.   *)
(***************************************************************************)

StepsOf(t) == IF kind = "none" THEN NE!ToSet(Branches[t]) ELSE NE!Nested

Place(t) == [step : StepsOf(t), round : Nat]

Steps == NE!Nested \cup {"outer", "sibling"}

Execution == [step : Steps, round : Nat, status : {"succeeded", "skipped"}]

ThreadType(t) ==
    [at : {"moves", "runs", "done", "fails", "pauses"}, todo : Seq(Place(t)), rounds : Seq(Seq(Place(t))),
     results : Seq([of : Place(t), is : Execution])]

NestingType ==
    /\ kind \in NE!Kinds /\ gated \subseteq NE!Nested /\ decided \subseteq Approvals
    /\ phase \in {"ready", "running", "pausing", "failing"} \cup NE!Over /\ attempt \in Nat
    /\ status \in {"running", "waiting", "failed", "succeeded"}

(* What the engine keeps: one execution for each completed step, none of an  *)
(* approval that was not decided.                                            *)
EngineSound(e) ==
    /\ e \in [completed : SUBSET Steps, executions : Seq(Execution)]
    /\ \A i, j \in DOMAIN e.executions : e.executions[i].step = e.executions[j].step => i = j
    /\ e.completed = {e.executions[i].step : i \in DOMAIN e.executions}
    /\ \A i \in DOMAIN e.executions :
          e.executions[i].step \in Approvals => e.executions[i].step \in decided \/ e.executions[i].status = "skipped"

(* The threads of the outer step: one for each branch when these run         *)
(* concurrently, and one at most otherwise.                                  *)
ThreadsFit(ts) ==
    /\ DOMAIN ts \subseteq (IF kind = "none" THEN DOMAIN Branches ELSE {1})
    /\ \A t \in DOMAIN ts :
          /\ ts[t] \in ThreadType(t)
          /\ ts[t].at = "runs" => ts[t].todo # <<>>
          /\ ts[t].at = "done" => ts[t].todo = <<>> /\ ts[t].rounds = <<>>

(* A step that runs is not completed. *)
Unfinished(e, ts) ==
    \A t \in DOMAIN ts : ts[t].at = "runs" => Head(ts[t].todo).step \notin e.completed

(* None of them is under way. *)
Still(ts) == \A t \in DOMAIN ts : ts[t].at \notin {"moves", "runs"}

(* All of them have come to their ends, unless they run concurrently. *)
Finished(ts) == kind # "none" => \A t \in DOMAIN ts : ts[t].at = "done"

NestingInv ==
    /\ NestingType /\ EngineSound(engine) /\ ThreadsFit(threads) /\ Unfinished(engine, threads)
    /\ phase \notin NE!Over => "outer" \notin engine.completed
    /\ phase \in NE!Over => Still(threads)
    /\ phase = "succeeded" => Finished(threads)
    /\ status = "waiting" => phase = "pausing"

-----------------------------------------------------------------------------
LEMMA NestedApart ==
    /\ "outer" \notin NE!Nested /\ "sibling" \notin NE!Nested /\ Approvals \subseteq NE!Nested
    /\ \A a, b \in DOMAIN Branches : a # b => NE!ToSet(Branches[a]) \cap NE!ToSet(Branches[b]) = {}
    /\ \A b \in DOMAIN Branches : NE!ToSet(Branches[b]) \subseteq NE!Nested
    /\ NE!ToSet(Body) \subseteq NE!Nested
    /\ DOMAIN Branches = 1..Len(Branches) /\ 1 \in DOMAIN Branches
    /\ \A b \in DOMAIN Branches : Branches[b] \in Seq(STRING)
    /\ Body \in Seq(STRING) /\ MaxItems \in Nat /\ OuterRetries \in Nat
<1>1. NE!NestingAssumption
  BY PlatformAssumption
<1>2. Branches \in Seq(Seq(STRING)) /\ Branches # <<>>
  BY <1>1 DEF NE!NestingAssumption
<1>3. DOMAIN Branches = 1..Len(Branches) /\ 1 \in DOMAIN Branches
  BY <1>2
<1>4. \A b \in DOMAIN Branches : Branches[b] \in Seq(STRING)
  BY <1>2, <1>3, ElementOfSeq
<1>5. /\ \A b \in DOMAIN Branches : NE!ToSet(Branches[b]) \subseteq NE!Nested
      /\ NE!ToSet(Body) \subseteq NE!Nested
  <2> DEFINE U == UNION {NE!ToSet(Branches[c]) : c \in DOMAIN Branches}
  <2>1. ASSUME NEW b \in DOMAIN Branches, NEW s \in NE!ToSet(Branches[b])
        PROVE  s \in U
    OBVIOUS
  <2>2. NE!Nested = U \cup NE!ToSet(Body)
    BY DEF NE!Nested
  <2> HIDE DEF U
  <2> QED
    BY <2>1, <2>2
<1>6. /\ {"outer", "sibling"} \cap NE!Nested = {} /\ Approvals \subseteq NE!Nested
      /\ Body \in Seq(STRING) /\ MaxItems \in Nat /\ OuterRetries \in Nat
      /\ \A a, b \in DOMAIN Branches : a # b => NE!ToSet(Branches[a]) \cap NE!ToSet(Branches[b]) = {}
  BY <1>1 DEF NE!NestingAssumption
<1>7. "outer" \notin NE!Nested /\ "sibling" \notin NE!Nested
  BY <1>6
<1> QED
  BY <1>3, <1>4, <1>5, <1>6, <1>7

(* What a thread may run belongs to its branch. *)
LEMMA StepsApart ==
    ASSUME NEW ts, ThreadsFit(ts), NEW t \in DOMAIN ts
    PROVE  /\ StepsOf(t) \subseteq NE!Nested
           /\ \A u \in DOMAIN ts \ {t} : StepsOf(t) \cap StepsOf(u) = {}
<1>1. CASE kind = "none"
  <2>1. DOMAIN ts \subseteq DOMAIN Branches
    BY <1>1 DEF ThreadsFit
  <2>2. \A u \in DOMAIN ts : StepsOf(u) = NE!ToSet(Branches[u])
    BY <1>1 DEF StepsOf
  <2> QED
    BY <2>1, <2>2, NestedApart
<1>2. CASE kind # "none"
  <2>1. DOMAIN ts \subseteq {1} /\ StepsOf(t) = NE!Nested
    BY <1>2 DEF ThreadsFit, StepsOf
  <2> QED
    BY <2>1
<1> QED
  BY <1>1, <1>2

(* A step that is recorded for the first time. *)
LEMMA RecordedSound ==
    ASSUME NEW e, EngineSound(e), NEW step \in Steps \ e.completed, NEW round \in Nat,
           NEW outcome \in {"succeeded", "skipped"},
           step \in Approvals => step \in decided \/ outcome = "skipped"
    PROVE  /\ EngineSound(NE!Recorded(e, step, round, outcome))
           /\ NE!Recorded(e, step, round, outcome).completed = e.completed \cup {step}
<1> DEFINE x == [step |-> step, round |-> round, status |-> outcome]
           f == NE!Recorded(e, step, round, outcome)
           n == Len(e.executions)
<1>1. e.executions \in Seq(Execution) /\ e.completed \subseteq Steps /\ n \in Nat /\ DOMAIN e.executions = 1..n
  BY DEF EngineSound
<1>2. x \in Execution
  BY DEF Execution
<1>3. f.completed = e.completed \cup {step} /\ f.executions = Append(e.executions, x)
  BY DEF NE!Recorded
<1>4. f \in [completed : SUBSET Steps, executions : Seq(Execution)]
  BY <1>1, <1>2 DEF NE!Recorded
<1>5. /\ DOMAIN f.executions = 1..(n + 1) /\ f.executions[n + 1] = x
      /\ \A i \in 1..n : f.executions[i] = e.executions[i]
  BY <1>1, <1>2, <1>3, AppendProperties
<1>6. \A i \in 1..n : e.executions[i].step # step
  BY <1>1 DEF EngineSound
<1>7. \A i \in DOMAIN f.executions : i = n + 1 \/ i \in 1..n
  BY <1>1, <1>5
<1>8. x.step = step /\ x.status = outcome
  OBVIOUS
<1> HIDE DEF x, f, n
<1>9. \A i, j \in DOMAIN f.executions : f.executions[i].step = f.executions[j].step => i = j
  BY <1>1, <1>5, <1>6, <1>7, <1>8 DEF EngineSound
<1>10. f.completed = {f.executions[i].step : i \in DOMAIN f.executions}
  <2>1. \A s \in f.completed : \E i \in DOMAIN f.executions : f.executions[i].step = s
    <3> SUFFICES ASSUME NEW s \in f.completed
                 PROVE  \E i \in DOMAIN f.executions : f.executions[i].step = s
      OBVIOUS
    <3>1. CASE s = step
      BY <3>1, <1>1, <1>5, <1>8
    <3>2. CASE s \in e.completed
      <4>1. PICK i \in DOMAIN e.executions : e.executions[i].step = s
        BY <3>2 DEF EngineSound
      <4> QED
        BY <4>1, <1>1, <1>5
    <3> QED
      BY <3>1, <3>2, <1>3
  <2>2. \A i \in DOMAIN f.executions : f.executions[i].step \in f.completed
    BY <1>1, <1>3, <1>5, <1>7, <1>8 DEF EngineSound
  <2> QED
    BY <2>1, <2>2
<1>11. \A i \in DOMAIN f.executions :
          f.executions[i].step \in Approvals => f.executions[i].step \in decided \/ f.executions[i].status = "skipped"
  BY <1>1, <1>5, <1>7, <1>8 DEF EngineSound
<1> QED
  BY <1>3, <1>4, <1>9, <1>10, <1>11 DEF EngineSound, f

(* A thread that goes on, or that stops. *)
LEMMA ThreadsKept ==
    ASSUME NEW ts, ThreadsFit(ts), NEW t \in DOMAIN ts, NEW moved \in ThreadType(t),
           moved.at = "runs" => moved.todo # <<>>,
           moved.at = "done" => moved.todo = <<>> /\ moved.rounds = <<>>
    PROVE  ThreadsFit([ts EXCEPT ![t] = moved])
BY DEF ThreadsFit

(* The outer step is recorded. *)
LEMMA OuterRecorded ==
    ASSUME NEW e, EngineSound(e), NEW ts, ThreadsFit(ts), Unfinished(e, ts),
           "outer" \notin e.completed, NEW outcome \in {"succeeded", "skipped"}
    PROVE  /\ EngineSound(NE!Recorded(e, "outer", 1, outcome))
           /\ Unfinished(NE!Recorded(e, "outer", 1, outcome), ts)
<1> DEFINE f == NE!Recorded(e, "outer", 1, outcome)
<1>1. EngineSound(f) /\ f.completed = e.completed \cup {"outer"}
  <2>1. "outer" \in Steps \ e.completed /\ "outer" \notin Approvals
    BY NestedApart DEF Steps
  <2> QED
    BY <2>1, RecordedSound
<1>2. Unfinished(f, ts)
  <2> SUFFICES ASSUME NEW t \in DOMAIN ts, ts[t].at = "runs"
               PROVE  Head(ts[t].todo).step \notin f.completed
    BY DEF Unfinished
  <2>1. ts[t].todo \in Seq(Place(t)) /\ ts[t].todo # <<>>
    BY DEF ThreadsFit, ThreadType
  <2>2. Head(ts[t].todo) \in Place(t)
    BY <2>1
  <2>3. Head(ts[t].todo).step \in NE!Nested
    BY <2>2, StepsApart DEF Place
  <2> QED
    BY <1>1, <2>3, NestedApart DEF Unfinished
<1> QED
  BY <1>1, <1>2

(* A failed attempt is followed by another one, or the step fails, or it is  *)
(* recorded by its error policy.                                             *)
LEMMA AttemptFailsFacts ==
    ASSUME NestingType, NEW e, NE!AttemptFails(e)
    PROVE  /\ attempt' \in Nat
           /\ \/ engine' = e /\ phase' \in {"ready", "failing"}
              \/ \E outcome \in {"succeeded", "skipped"} :
                    /\ engine' = NE!Recorded(e, "outer", 1, outcome)
                    /\ phase' \in {"skipped", "ignored"}
BY DEF NestingType, NE!AttemptFails

(* The engine that an outer step leaves, and the threads of it.              *)
LEMMA LeftKeeps ==
    ASSUME NEW e, EngineSound(e), NEW ts, ThreadsFit(ts), Unfinished(e, ts),
           "outer" \notin e.completed, status # "waiting", NestingType', threads' = ts,
           UNCHANGED <<kind, gated, status, decided>>,
           \/ engine' = e /\ phase' \notin NE!Over
           \/ \E outcome \in {"succeeded", "skipped"} :
                 /\ engine' = NE!Recorded(e, "outer", 1, outcome)
                 /\ phase' \in NE!Over /\ Still(ts)
                 /\ phase' = "succeeded" => Finished(ts)
    PROVE  NestingInv'
<1>1. ThreadsFit(ts)'
  BY DEF ThreadsFit, ThreadType, Place, StepsOf, Execution, Steps
<1>2. CASE engine' = e /\ phase' \notin NE!Over
  <2>1. EngineSound(engine)' /\ Unfinished(engine, threads)' /\ "outer" \notin engine.completed'
    BY <1>2 DEF EngineSound, Unfinished, Execution, Steps
  <2>2. phase' # "succeeded"
    BY <1>2 DEF NE!Over
  <2> QED
    BY <1>1, <1>2, <2>1, <2>2 DEF NestingInv
<1>3. ASSUME NEW outcome \in {"succeeded", "skipped"},
             engine' = NE!Recorded(e, "outer", 1, outcome),
             phase' \in NE!Over, Still(ts), phase' = "succeeded" => Finished(ts)
      PROVE  NestingInv'
  <2>1. EngineSound(engine') /\ Unfinished(engine', ts)
    BY <1>3, OuterRecorded
  <2>2. EngineSound(engine)' /\ Unfinished(engine, threads)'
    BY <2>1 DEF EngineSound, Unfinished, Execution, Steps
  <2>3. Still(threads)' /\ (phase' = "succeeded" => Finished(threads)')
    BY <1>3 DEF Still, Finished
  <2> QED
    BY <1>1, <1>3, <2>2, <2>3 DEF NestingInv
<1> QED
  BY <1>2, <1>3

(* What follows for the outer step. *)
LEMMA FollowKeeps ==
    ASSUME NestingType, NEW e, EngineSound(e), NEW ts, ThreadsFit(ts), Unfinished(e, ts),
           "outer" \notin e.completed, status # "waiting",
           NE!Follow(e, ts), UNCHANGED <<kind, gated, status, decided>>
    PROVE  NestingInv'
<1> DEFINE ends == {ts[t].at : t \in DOMAIN ts}
<1>1. threads' = ts
  BY DEF NE!Follow
<1>2. \/ kind # "none" /\ "fails" \in ends /\ NE!AttemptFails(e)
      \/ engine' = e /\ phase' \in {"pausing", "running"} /\ UNCHANGED attempt
      \/ /\ engine' = NE!Recorded(e, "outer", 1, "succeeded") /\ phase' = "succeeded"
         /\ UNCHANGED attempt /\ ends \cap {"moves", "runs"} = {}
         /\ kind # "none" => ends \cap {"fails", "pauses"} = {}
  BY DEF NE!Follow
<1>3. \A t \in DOMAIN ts : /\ ts[t].at \in ends
                           /\ ts[t].at \in {"moves", "runs", "done", "fails", "pauses"}
  BY DEF ThreadsFit, ThreadType
<1>4. kind # "none" /\ "fails" \in ends => Still(ts)
  <2> SUFFICES ASSUME kind # "none", "fails" \in ends PROVE Still(ts)
    OBVIOUS
  <2>1. DOMAIN ts \subseteq {1} /\ \E t \in DOMAIN ts : ts[t].at = "fails"
    BY DEF ThreadsFit
  <2> QED
    BY <2>1 DEF Still
<1> HIDE DEF ends
<1>5. CASE kind # "none" /\ "fails" \in ends /\ NE!AttemptFails(e)
  <2>1. /\ attempt' \in Nat
        /\ \/ engine' = e /\ phase' \in {"ready", "failing"}
           \/ \E outcome \in {"succeeded", "skipped"} :
                 /\ engine' = NE!Recorded(e, "outer", 1, outcome)
                 /\ phase' \in {"skipped", "ignored"}
    BY <1>5, AttemptFailsFacts
  <2>2. NestingType'
    BY <2>1 DEF NestingType, NE!Over
  <2>3. \/ engine' = e /\ phase' \notin NE!Over
        \/ \E outcome \in {"succeeded", "skipped"} :
              /\ engine' = NE!Recorded(e, "outer", 1, outcome)
              /\ phase' \in NE!Over /\ Still(ts)
              /\ phase' = "succeeded" => Finished(ts)
    BY <1>4, <1>5, <2>1 DEF NE!Over
  <2> QED
    BY <1>1, <2>2, <2>3, LeftKeeps
<1>6. CASE engine' = e /\ phase' \in {"pausing", "running"} /\ UNCHANGED attempt
  <2>1. NestingType' /\ phase' \notin NE!Over
    BY <1>6 DEF NestingType, NE!Over
  <2> QED
    BY <1>1, <1>6, <2>1, LeftKeeps
<1>7. CASE /\ engine' = NE!Recorded(e, "outer", 1, "succeeded") /\ phase' = "succeeded"
           /\ UNCHANGED attempt /\ ends \cap {"moves", "runs"} = {}
           /\ kind # "none" => ends \cap {"fails", "pauses"} = {}
  <2>1. NestingType' /\ phase' \in NE!Over
    BY <1>7 DEF NestingType, NE!Over
  <2>2. Still(ts)
    BY <1>3, <1>7 DEF Still
  <2>3. Finished(ts)
    BY <1>3, <1>7 DEF Finished
  <2> QED
    BY <1>1, <1>7, <2>1, <2>2, <2>3, LeftKeeps
<1> QED
  BY <1>2, <1>5, <1>6, <1>7

-----------------------------------------------------------------------------
(* What the outer step awaits: rounds of steps of the branches.              *)
LEMMA RoundTyped ==
    ASSUME NEW steps \in Seq(STRING), NEW n \in Nat, NEW S, NE!ToSet(steps) \subseteq S
    PROVE  NE!Round(steps, n) \in Seq([step : S, round : Nat])
<1> DEFINE Of == [step : S, round : Nat]
<1>1. \A i \in DOMAIN steps : steps[i] \in S
  BY DEF NE!ToSet
<1>2. DOMAIN steps = 1..Len(steps) /\ Len(steps) \in Nat
  OBVIOUS
<1>3. NE!Round(steps, n) \in [1..Len(steps) -> Of]
  BY <1>1, <1>2 DEF NE!Round
<1> HIDE DEF Of
<1>4. NE!Round(steps, n) \in Seq(Of)
  BY <1>2, <1>3, SeqDef
<1> QED
  BY <1>4 DEF Of

LEMMA PathsTyped ==
    ASSUME NestingType, NEW path \in NE!Paths
    PROVE  /\ DOMAIN path \subseteq (IF kind = "none" THEN DOMAIN Branches ELSE {1})
           /\ \A t \in DOMAIN path : path[t] \in Seq(Seq(Place(t)))
<1>1. CASE kind = "none"
  <2>1. path = [b \in DOMAIN Branches |-> <<NE!Round(Branches[b], 1)>>]
    BY <1>1 DEF NE!Paths
  <2>2. ASSUME NEW t \in DOMAIN path
        PROVE  path[t] \in Seq(Seq(Place(t)))
    <3>1. t \in DOMAIN Branches /\ path[t] = <<NE!Round(Branches[t], 1)>>
      BY <2>1
    <3>2. Branches[t] \in Seq(STRING) /\ StepsOf(t) = NE!ToSet(Branches[t])
      BY <1>1, <3>1, NestedApart DEF StepsOf
    <3>3. NE!Round(Branches[t], 1) \in Seq(Place(t))
      BY <3>2, RoundTyped DEF Place
    <3> HIDE DEF Place
    <3> QED
      BY <3>1, <3>3
  <2> QED
    BY <1>1, <2>1, <2>2
<1>2. CASE kind # "none"
  <2>0. Place(1) = [step : NE!Nested, round : Nat]
    BY <1>2 DEF Place, StepsOf
  <2>1. \A b \in DOMAIN Branches : NE!Round(Branches[b], 1) \in Seq(Place(1))
    BY <2>0, NestedApart, RoundTyped
  <2>2. \A n \in Nat : NE!Round(Body, n) \in Seq(Place(1))
    BY <2>0, NestedApart, RoundTyped
  <2>3. \E rounds \in Seq(Seq(Place(1))) : path = <<rounds>>
    <3>1. CASE kind = "conditional"
      <4>1. path = <<<<>>>> \/ \E b \in DOMAIN Branches : path = <<<<NE!Round(Branches[b], 1)>>>>
        BY <3>1 DEF NE!Paths
      <4>2. <<>> \in Seq(Seq(Place(1)))
        OBVIOUS
      <4>3. \A b \in DOMAIN Branches : <<NE!Round(Branches[b], 1)>> \in Seq(Seq(Place(1)))
        BY <2>1
      <4> QED
        BY <4>1, <4>2, <4>3
    <3>2. CASE kind = "loop"
      <4>1. PICK items \in 0..MaxItems : path = <<[n \in 1..items |-> NE!Round(Body, n)]>>
        BY <3>2 DEF NE!Paths
      <4>2. items \in Nat
        BY NestedApart
      <4>3. [n \in 1..items |-> NE!Round(Body, n)] \in [1..items -> Seq(Place(1))]
        BY <2>2
      <4>4. [n \in 1..items |-> NE!Round(Body, n)] \in Seq(Seq(Place(1)))
        BY <4>2, <4>3, SeqDef
      <4> QED
        BY <4>1, <4>4
    <3>3. CASE kind = "all"
      <4>1. path = <<[b \in DOMAIN Branches |-> NE!Round(Branches[b], 1)]>>
        BY <3>3 DEF NE!Paths
      <4>2. [b \in DOMAIN Branches |-> NE!Round(Branches[b], 1)] \in [1..Len(Branches) -> Seq(Place(1))]
        BY <2>1, NestedApart
      <4>3. Len(Branches) \in Nat
        BY PlatformAssumption DEF NE!NestingAssumption
      <4>4. [b \in DOMAIN Branches |-> NE!Round(Branches[b], 1)] \in Seq(Seq(Place(1)))
        BY <4>2, <4>3, SeqDef
      <4> QED
        BY <4>1, <4>4
    <3>4. CASE kind = "any"
      <4>1. path = <<<<NE!Round(Branches[1], 1)>>>>
        BY <3>4 DEF NE!Paths
      <4>2. <<NE!Round(Branches[1], 1)>> \in Seq(Seq(Place(1)))
        BY <2>1, NestedApart
      <4> QED
        BY <4>1, <4>2
    <3> QED
      BY <1>2, <3>1, <3>2, <3>3, <3>4 DEF NestingType, NE!Kinds
  <2> QED
    BY <1>2, <2>3
<1> QED
  BY <1>1, <1>2

LEMMA NestingInit == NE!Init => NestingInv
<1> SUFFICES ASSUME NE!Init PROVE NestingInv
  OBVIOUS
<1>1. NestingType
  BY DEF NE!Init, NestingType
<1>2. EngineSound(engine)
  BY DEF NE!Init, EngineSound
<1>3. ThreadsFit(threads) /\ Unfinished(engine, threads)
  BY DEF NE!Init, ThreadsFit, Unfinished
<1> QED
  BY <1>1, <1>2, <1>3 DEF NestingInv, NE!Init, NE!Over

(* An attempt of the outer step: all its threads are new. *)
LEMMA AttemptKeeps == NestingInv /\ NE!Attempt => NestingInv'
<1> SUFFICES ASSUME NestingInv, NE!Attempt PROVE NestingInv'
  OBVIOUS
<1>1. PICK path \in NE!Paths :
        NE!Follow(engine, [t \in DOMAIN path |-> [at |-> "moves", todo |-> <<>>,
                                                  rounds |-> path[t], results |-> <<>>]])
  BY DEF NE!Attempt
<1> DEFINE ts == [t \in DOMAIN path |-> [at |-> "moves", todo |-> <<>>, rounds |-> path[t], results |-> <<>>]]
<1>2. ThreadsFit(ts)
  <2>1. \A t \in DOMAIN path : ts[t] \in ThreadType(t)
    BY PathsTyped DEF NestingInv, ThreadType
  <2>2. DOMAIN ts = DOMAIN path
    OBVIOUS
  <2> QED
    BY <2>1, <2>2, PathsTyped DEF NestingInv, ThreadsFit
<1>3. Unfinished(engine, ts)
  BY DEF Unfinished
<1>4. NestingType /\ EngineSound(engine) /\ "outer" \notin engine.completed /\ status # "waiting"
  BY DEF NestingInv, NE!Attempt, NE!Over
<1>5. UNCHANGED <<kind, gated, status, decided>>
  BY DEF NE!Attempt
<1> HIDE DEF ts
<1> QED
  BY <1>1, <1>2, <1>3, <1>4, <1>5, FollowKeeps DEF ts

(* What threads need: their steps are completed by no other thread. *)
LEMMA OthersUnfinished ==
    ASSUME NEW e, Unfinished(e, threads), ThreadsFit(threads), NEW t \in DOMAIN threads, NEW moved,
           NEW f, NEW step \in StepsOf(t), f.completed \subseteq e.completed \cup {step},
           moved.at = "runs" => Head(moved.todo).step \notin f.completed
    PROVE  Unfinished(f, [threads EXCEPT ![t] = moved])
<1> DEFINE ts == [threads EXCEPT ![t] = moved]
<1> SUFFICES ASSUME NEW u \in DOMAIN ts, ts[u].at = "runs"
             PROVE  Head(ts[u].todo).step \notin f.completed
  BY DEF Unfinished
<1>1. CASE u = t
  BY <1>1
<1>2. CASE u # t
  <2>1. u \in DOMAIN threads /\ ts[u] = threads[u]
    BY <1>2
  <2>2. threads[u].todo \in Seq(Place(u)) /\ threads[u].todo # <<>>
    BY <2>1 DEF ThreadsFit, ThreadType
  <2>3. Head(threads[u].todo) \in Place(u)
    BY <2>2
  <2>4. Head(threads[u].todo).step \in StepsOf(u)
    BY <2>3 DEF Place
  <2>5. Head(threads[u].todo).step # step
    BY <1>2, <2>1, <2>4, StepsApart
  <2>6. Head(threads[u].todo).step \notin e.completed
    BY <2>1 DEF Unfinished
  <2> QED
    BY <2>1, <2>5, <2>6
<1> QED
  BY <1>1, <1>2
(* _run_nested_steps goes on: to the next step, or to the next round. *)
LEMMA MoveKeeps ==
    ASSUME NestingInv, NEW t \in DOMAIN threads, NE!Move(t)
    PROVE  NestingInv'
<1> DEFINE thread == threads[t]
           next == Head(thread.todo)
           last == NE!Last(engine.executions)
<1>1. /\ NestingType /\ EngineSound(engine) /\ ThreadsFit(threads) /\ Unfinished(engine, threads)
      /\ "outer" \notin engine.completed /\ status # "waiting"
      /\ UNCHANGED <<kind, gated, status, decided>>
  BY DEF NestingInv, NE!Move, NE!Over
<1>2. thread \in ThreadType(t) /\ StepsOf(t) \subseteq NE!Nested
  BY <1>1, StepsApart DEF ThreadsFit
<1>3. ASSUME NEW e, EngineSound(e), NEW moved \in ThreadType(t), NEW step \in StepsOf(t),
             e.completed \subseteq engine.completed \cup {step},
             moved.at = "runs" => moved.todo # <<>> /\ Head(moved.todo).step \notin e.completed,
             moved.at = "done" => moved.todo = <<>> /\ moved.rounds = <<>>,
             NE!Follow(e, [threads EXCEPT ![t] = moved])
      PROVE  NestingInv'
  <2>1. ThreadsFit([threads EXCEPT ![t] = moved])
    BY <1>1, <1>3, ThreadsKept
  <2>2. Unfinished(e, [threads EXCEPT ![t] = moved])
    BY <1>1, <1>3, OthersUnfinished
  <2>3. "outer" \notin e.completed
    BY <1>1, <1>2, <1>3, NestedApart
  <2> QED
    BY <1>1, <1>3, <2>1, <2>2, <2>3, FollowKeeps
<1>4. ASSUME NEW moved \in ThreadType(t),
             moved.at = "runs" => moved.todo # <<>> /\ Head(moved.todo).step \notin engine.completed,
             moved.at = "done" => moved.todo = <<>> /\ moved.rounds = <<>>,
             NE!Follow(engine, [threads EXCEPT ![t] = moved])
      PROVE  NestingInv'
  <2>1. ThreadsFit([threads EXCEPT ![t] = moved])
    BY <1>1, <1>4, ThreadsKept
  <2>2. Unfinished(engine, [threads EXCEPT ![t] = moved])
    BY <1>1, <1>4 DEF Unfinished
  <2> QED
    BY <1>1, <1>4, <2>1, <2>2, FollowKeeps
<1>5. CASE /\ thread.todo = <<>> /\ thread.rounds = <<>>
           /\ NE!Follow(engine, [threads EXCEPT ![t] = [thread EXCEPT !.at = "done"]])
  <2>1. [thread EXCEPT !.at = "done"] \in ThreadType(t)
    BY <1>2 DEF ThreadType
  <2>2. [thread EXCEPT !.at = "done"].at = "done" /\ [thread EXCEPT !.at = "done"].todo = <<>>
        /\ [thread EXCEPT !.at = "done"].rounds = <<>>
    BY <1>2, <1>5 DEF ThreadType
  <2> QED
    BY <1>4, <1>5, <2>1, <2>2
<1>6. CASE /\ thread.todo = <<>> /\ thread.rounds # <<>> /\ thread.at = "moves"
           /\ NE!Follow(engine, [threads EXCEPT ![t] =
                                   [thread EXCEPT !.todo = Head(thread.rounds), !.rounds = Tail(@)]])
  <2> DEFINE moved == [thread EXCEPT !.todo = Head(thread.rounds), !.rounds = Tail(@)]
  <2>1. Head(thread.rounds) \in Seq(Place(t)) /\ Tail(thread.rounds) \in Seq(Seq(Place(t)))
    BY <1>2, <1>6 DEF ThreadType
  <2>2. moved \in ThreadType(t) /\ moved.at = "moves"
    BY <1>2, <1>6, <2>1 DEF ThreadType
  <2> HIDE DEF moved
  <2> QED
    BY <1>4, <1>6, <2>2 DEF moved
<1>7. CASE /\ thread.todo # <<>> /\ NE!IsCompleted(next.step) /\ thread.at = "moves"
           /\ NE!Follow(engine, [threads EXCEPT ![t] =
                 [thread EXCEPT !.todo = Tail(@),
                                !.results = IF last.status = "succeeded"
                                            THEN Append(@, [of |-> next, is |-> last]) ELSE @]])
  <2> DEFINE moved == [thread EXCEPT !.todo = Tail(@),
                                     !.results = IF last.status = "succeeded"
                                                 THEN Append(@, [of |-> next, is |-> last]) ELSE @]
  <2>1. Tail(thread.todo) \in Seq(Place(t)) /\ next \in Place(t)
    BY <1>2, <1>7 DEF ThreadType
  <2>2. last \in Execution
    <3>1. engine.executions \in Seq(Execution) /\ next.step \in engine.completed
      BY <1>1, <1>7 DEF EngineSound, NE!IsCompleted
    <3>2. engine.executions # <<>>
      BY <1>1, <3>1 DEF EngineSound
    <3> QED
      BY <3>1, <3>2 DEF NE!Last
  <2>3. Append(thread.results, [of |-> next, is |-> last]) \in Seq([of : Place(t), is : Execution])
    <3>1. [of |-> next, is |-> last] \in [of : Place(t), is : Execution]
      BY <2>1, <2>2
    <3>2. thread.results \in Seq([of : Place(t), is : Execution])
      BY <1>2 DEF ThreadType
    <3> QED
      BY <3>1, <3>2, AppendProperties
  <2>4. moved \in ThreadType(t) /\ moved.at = "moves"
    BY <1>2, <1>7, <2>1, <2>3 DEF ThreadType
  <2> HIDE DEF moved
  <2> QED
    BY <1>4, <1>7, <2>4 DEF moved
<1>8. CASE /\ thread.todo # <<>> /\ ~NE!IsCompleted(next.step) /\ thread.at = "moves"
           /\ NE!Follow(NE!Recorded(engine, next.step, next.round, "skipped"),
                        [threads EXCEPT ![t] = [thread EXCEPT !.todo = Tail(@)]])
  <2> DEFINE moved == [thread EXCEPT !.todo = Tail(@)]
             e == NE!Recorded(engine, next.step, next.round, "skipped")
  <2>1. Tail(thread.todo) \in Seq(Place(t)) /\ next \in Place(t)
    BY <1>2, <1>8 DEF ThreadType
  <2>2. next.step \in StepsOf(t) /\ next.round \in Nat
    BY <2>1 DEF Place
  <2>3. next.step \in Steps \ engine.completed
    BY <1>2, <1>8, <2>2 DEF NE!IsCompleted, Steps
  <2>4. EngineSound(e) /\ e.completed = engine.completed \cup {next.step}
    BY <1>1, <2>2, <2>3, RecordedSound
  <2>5. moved \in ThreadType(t) /\ moved.at = "moves"
    BY <1>2, <1>8, <2>1 DEF ThreadType
  <2>6. NE!Follow(e, [threads EXCEPT ![t] = moved])
    BY <1>8
  <2> HIDE DEF moved, e
  <2> QED
    BY <1>3, <2>2, <2>4, <2>5, <2>6
<1>9. CASE /\ thread.todo # <<>> /\ ~NE!IsCompleted(next.step)
           /\ NE!Follow(engine, [threads EXCEPT ![t] = [thread EXCEPT !.at = "runs"]])
  <2> DEFINE moved == [thread EXCEPT !.at = "runs"]
  <2>1. moved \in ThreadType(t) /\ moved.at = "runs" /\ moved.todo = thread.todo
    BY <1>2 DEF ThreadType
  <2>2. moved.todo # <<>> /\ Head(moved.todo).step \notin engine.completed
    BY <1>9, <2>1 DEF NE!IsCompleted
  <2> HIDE DEF moved
  <2> QED
    BY <1>4, <1>9, <2>1, <2>2 DEF moved
<1> QED
  BY <1>5, <1>6, <1>7, <1>8, <1>9 DEF NE!Move

(* A nested step ends: with an execution, or by stopping its thread. *)
LEMMA NestedEndsKeeps ==
    ASSUME NestingInv, NEW t \in DOMAIN threads, NEW outcome \in NE!Outcomes, NE!NestedEnds(t, outcome)
    PROVE  NestingInv'
<1> DEFINE thread == threads[t]
           next == Head(thread.todo)
           x == [step |-> next.step, round |-> next.round, status |-> outcome]
<1>1. /\ NestingType /\ EngineSound(engine) /\ ThreadsFit(threads) /\ Unfinished(engine, threads)
      /\ "outer" \notin engine.completed /\ status # "waiting" /\ thread.at = "runs"
      /\ UNCHANGED <<kind, gated, status, decided>>
  BY DEF NestingInv, NE!NestedEnds, NE!Over
<1>2. thread \in ThreadType(t) /\ StepsOf(t) \subseteq NE!Nested /\ thread.todo # <<>>
  BY <1>1, StepsApart DEF ThreadsFit
<1>3. Tail(thread.todo) \in Seq(Place(t)) /\ next \in Place(t)
  BY <1>2 DEF ThreadType
<1>4. next.step \in StepsOf(t) /\ next.round \in Nat
  BY <1>3 DEF Place
<1>5. next.step \in Steps \ engine.completed
  BY <1>1, <1>2, <1>4 DEF Unfinished, Steps
<1>6. ASSUME NEW stops \in {"pauses", "fails"},
             NE!Follow(engine, [threads EXCEPT ![t] = [thread EXCEPT !.at = stops]])
      PROVE  NestingInv'
  <2> DEFINE moved == [thread EXCEPT !.at = stops]
  <2>1. moved \in ThreadType(t) /\ moved.at = stops
    BY <1>2 DEF ThreadType
  <2> HIDE DEF moved
  <2>2. ThreadsFit([threads EXCEPT ![t] = moved])
    BY <1>1, <2>1, ThreadsKept
  <2>3. Unfinished(engine, [threads EXCEPT ![t] = moved])
    BY <1>1, <2>1 DEF Unfinished
  <2>4. NE!Follow(engine, [threads EXCEPT ![t] = moved])
    BY <1>6 DEF moved
  <2> QED
    BY <1>1, <2>2, <2>3, <2>4, FollowKeeps
<1>7. CASE /\ next.step \notin Approvals \ decided /\ outcome # "fails"
           /\ NE!Follow(NE!Recorded(engine, next.step, next.round, outcome),
                        [threads EXCEPT ![t] =
                           [thread EXCEPT !.at = "moves", !.todo = Tail(@),
                                !.results = IF outcome = "succeeded" THEN Append(@, [of |-> next, is |-> x]) ELSE @]])
  <2> DEFINE moved == [thread EXCEPT !.at = "moves", !.todo = Tail(@),
                            !.results = IF outcome = "succeeded" THEN Append(@, [of |-> next, is |-> x]) ELSE @]
             e == NE!Recorded(engine, next.step, next.round, outcome)
  <2>1. outcome \in {"succeeded", "skipped"}
    BY <1>7 DEF NE!Outcomes
  <2>2. EngineSound(e) /\ e.completed = engine.completed \cup {next.step}
    BY <1>1, <1>4, <1>5, <1>7, <2>1, RecordedSound
  <2>3. Append(thread.results, [of |-> next, is |-> x]) \in Seq([of : Place(t), is : Execution])
    <3>1. x \in Execution
      BY <1>4, <1>5, <2>1 DEF Execution
    <3>2. [of |-> next, is |-> x] \in [of : Place(t), is : Execution]
      BY <1>3, <3>1
    <3>3. thread.results \in Seq([of : Place(t), is : Execution])
      BY <1>2 DEF ThreadType
    <3> QED
      BY <3>2, <3>3, AppendProperties
  <2>4. moved \in ThreadType(t) /\ moved.at = "moves"
    BY <1>2, <1>3, <2>3 DEF ThreadType
  <2>5. NE!Follow(e, [threads EXCEPT ![t] = moved])
    BY <1>7
  <2> HIDE DEF moved, e
  <2>6. ThreadsFit([threads EXCEPT ![t] = moved])
    BY <1>1, <2>4, ThreadsKept
  <2>7. Unfinished(e, [threads EXCEPT ![t] = moved])
    BY <1>1, <1>4, <2>2, <2>4, OthersUnfinished
  <2>8. "outer" \notin e.completed
    BY <1>1, <1>2, <1>4, <2>2, NestedApart
  <2> QED
    BY <1>1, <2>2, <2>5, <2>6, <2>7, <2>8, FollowKeeps
<1> QED
  BY <1>6, <1>7 DEF NE!NestedEnds

(* What run restores from the executions is what was completed. *)
LEMMA CompletedRestored ==
    ASSUME NEW e, EngineSound(e)
    PROVE  e.completed = {x.step : x \in NE!ToSet(e.executions)}
BY DEF EngineSound, NE!ToSet

LEMMA EngineKept ==
    ASSUME EngineSound(engine), UNCHANGED engine, decided \subseteq decided'
    PROVE  EngineSound(engine)'
BY DEF EngineSound, Execution, Steps

LEMMA ThreadsStay ==
    ASSUME ThreadsFit(threads), UNCHANGED <<kind, threads>>
    PROVE  ThreadsFit(threads)'
BY DEF ThreadsFit, ThreadType, Place, StepsOf, Execution, Steps

LEMMA NestingStep == NestingInv /\ [NE!Next]_(NE!nestingVars) => NestingInv'
<1> SUFFICES ASSUME NestingInv, [NE!Next]_(NE!nestingVars)
             PROVE  NestingInv'
  OBVIOUS
<1>1. CASE NE!Attempt
  BY <1>1, AttemptKeeps
<1>2. CASE NE!OuterTimesOut
  <2>1. /\ threads' = <<>> /\ NE!AttemptFails(engine) /\ phase = "running"
        /\ UNCHANGED <<kind, gated, status, decided>>
    BY <1>2 DEF NE!OuterTimesOut
  <2>2. /\ attempt' \in Nat
        /\ \/ engine' = engine /\ phase' \in {"ready", "failing"}
           \/ \E outcome \in {"succeeded", "skipped"} :
                 /\ engine' = NE!Recorded(engine, "outer", 1, outcome)
                 /\ phase' \in {"skipped", "ignored"}
    BY <2>1, AttemptFailsFacts DEF NestingInv
  <2>3. NestingType'
    BY <2>1, <2>2 DEF NestingInv, NestingType, NE!Over
  <2>4. /\ EngineSound(engine) /\ ThreadsFit(<<>>) /\ Unfinished(engine, <<>>) /\ Still(<<>>)
        /\ "outer" \notin engine.completed /\ status # "waiting"
    BY <2>1 DEF NestingInv, ThreadsFit, Unfinished, Still, NE!Over
  <2>5. \/ engine' = engine /\ phase' \notin NE!Over
        \/ \E outcome \in {"succeeded", "skipped"} :
              /\ engine' = NE!Recorded(engine, "outer", 1, outcome)
              /\ phase' \in NE!Over /\ Still(<<>>)
              /\ phase' = "succeeded" => Finished(<<>>)
    BY <2>2, <2>4 DEF NE!Over
  <2> QED
    BY <2>1, <2>3, <2>4, <2>5, LeftKeeps
<1>3. CASE NE!SiblingEnds
  <2> DEFINE f == NE!Recorded(engine, "sibling", 1, "succeeded")
  <2>1. /\ engine' = f /\ "sibling" \notin engine.completed
        /\ UNCHANGED <<kind, gated, phase, attempt, threads, status, decided>>
    BY <1>3 DEF NE!SiblingEnds
  <2>2. EngineSound(f) /\ f.completed = engine.completed \cup {"sibling"}
    <3>1. "sibling" \in Steps \ engine.completed /\ "sibling" \notin Approvals /\ EngineSound(engine)
      BY <2>1, NestedApart DEF Steps, NestingInv
    <3> QED
      BY <3>1, RecordedSound
  <2> HIDE DEF f
  <2>3. EngineSound(engine)'
    BY <2>1, <2>2 DEF EngineSound, Execution, Steps
  <2>4. ThreadsFit(threads)'
    BY <2>1, ThreadsStay DEF NestingInv
  <2>5. Unfinished(f, threads)
    <3> SUFFICES ASSUME NEW t \in DOMAIN threads, threads[t].at = "runs"
                 PROVE  Head(threads[t].todo).step \notin f.completed
      BY DEF Unfinished
    <3>1. threads[t].todo \in Seq(Place(t)) /\ threads[t].todo # <<>>
      BY DEF NestingInv, ThreadsFit, ThreadType
    <3>2. Head(threads[t].todo) \in Place(t)
      BY <3>1
    <3>3. Head(threads[t].todo).step \in NE!Nested
      BY <3>2, StepsApart DEF Place, NestingInv
    <3> QED
      BY <2>2, <3>3, NestedApart DEF NestingInv, Unfinished
  <2>6. Unfinished(engine, threads)'
    BY <2>1, <2>5 DEF Unfinished
  <2> QED
    BY <2>1, <2>2, <2>3, <2>4, <2>6 DEF NestingInv, NestingType, NE!Over, Still, Finished
<1>4. CASE NE!WaveEnds
  <2>1. /\ UNCHANGED <<kind, gated, phase, attempt, engine, decided>>
        /\ threads' = IF phase = "succeeded" THEN threads ELSE <<>>
        /\ status' \in {"waiting", "failed", "succeeded"} /\ (status' = "waiting" => phase = "pausing")
    BY <1>4 DEF NE!WaveEnds
  <2>2. ThreadsFit(threads)'
    <3>1. CASE threads' = <<>>
      BY <3>1 DEF ThreadsFit
    <3>2. CASE threads' = threads
      BY <2>1, <3>2, ThreadsStay DEF NestingInv
    <3> QED
      BY <2>1, <3>1, <3>2
  <2>3. Unfinished(engine, threads)'
    BY <2>1 DEF NestingInv, Unfinished
  <2>4. EngineSound(engine)'
    BY <2>1, EngineKept DEF NestingInv
  <2> QED
    BY <2>1, <2>2, <2>3, <2>4 DEF NestingInv, NestingType, NE!Over, Still, Finished
<1>5. ASSUME NEW step \in Approvals, NE!Decide(step)
      PROVE  NestingInv'
  <2>1. decided' = decided \cup {step} /\ UNCHANGED <<kind, gated, phase, attempt, threads, engine, status>>
    BY <1>5 DEF NE!Decide
  <2>2. EngineSound(engine)'
    BY <2>1, EngineKept DEF NestingInv
  <2>3. ThreadsFit(threads)'
    BY <2>1, ThreadsStay DEF NestingInv
  <2>4. Unfinished(engine, threads)'
    BY <2>1 DEF NestingInv, Unfinished
  <2> QED
    BY <2>1, <2>2, <2>3, <2>4 DEF NestingInv, NestingType, NE!Over, Still, Finished
<1>6. CASE NE!Resume
  <2>1. /\ engine' = [engine EXCEPT !.completed = {e.step : e \in NE!ToSet(engine.executions)}]
        /\ status' = "running" /\ phase' = "ready" /\ attempt' = 1 /\ status = "waiting"
        /\ UNCHANGED <<kind, gated, threads, decided>>
    BY <1>6 DEF NE!Resume
  <2>2. engine.completed = {e.step : e \in NE!ToSet(engine.executions)}
    BY CompletedRestored DEF NestingInv
  <2>3. engine' = engine
    BY <2>1, <2>2 DEF NestingInv, EngineSound
  <2>4. "outer" \notin engine.completed
    BY <2>1 DEF NestingInv, NE!Over
  <2>5. EngineSound(engine)'
    BY <2>1, <2>3, EngineKept DEF NestingInv
  <2>6. ThreadsFit(threads)'
    BY <2>1, ThreadsStay DEF NestingInv
  <2>7. Unfinished(engine, threads)'
    BY <2>1, <2>3 DEF NestingInv, Unfinished
  <2> QED
    BY <2>1, <2>3, <2>4, <2>5, <2>6, <2>7 DEF NestingInv, NestingType, NE!Over, Still
<1>7. CASE UNCHANGED NE!nestingVars
  <2>1. UNCHANGED <<kind, gated, phase, attempt, threads, engine, status, decided>>
    BY <1>7 DEF NE!nestingVars
  <2>2. EngineSound(engine)'
    BY <2>1, EngineKept DEF NestingInv
  <2>3. ThreadsFit(threads)'
    BY <2>1, ThreadsStay DEF NestingInv
  <2>4. Unfinished(engine, threads)'
    BY <2>1 DEF NestingInv, Unfinished
  <2> QED
    BY <2>1, <2>2, <2>3, <2>4 DEF NestingInv, NestingType, NE!Over, Still, Finished
<1> QED
  BY <1>1, <1>2, <1>3, <1>4, <1>5, <1>6, <1>7, MoveKeeps, NestedEndsKeeps DEF NE!Next

LEMMA NestingSound == NestingInv => NE!NestedOnce
<1> SUFFICES ASSUME NestingInv PROVE NE!NestedOnce
  OBVIOUS
<1>1. NE!IsInjective([i \in DOMAIN engine.executions |-> engine.executions[i].step])
  BY DEF NestingInv, EngineSound, NE!IsInjective
<1>2. engine.completed = {e.step : e \in NE!ToSet(engine.executions)}
  BY CompletedRestored DEF NestingInv
<1>3. phase = "succeeded" /\ kind # "none" =>
        \A t \in DOMAIN threads :
           threads[t].at = "done" /\ threads[t].todo = <<>> /\ threads[t].rounds = <<>>
  BY DEF NestingInv, ThreadsFit, Finished
<1>5. "outer" \in engine.completed =>
        \A t \in DOMAIN threads : threads[t].at \notin {"moves", "runs"}
  BY DEF NestingInv, Still
<1>4. \A e \in NE!ToSet(engine.executions) : e.step \in Approvals => e.step \in decided \/ e.status = "skipped"
  BY DEF NestingInv, EngineSound, NE!ToSet
<1> QED
  BY <1>1, <1>2, <1>3, <1>4, <1>5 DEF NE!NestedOnce

(* Through retries of the outer step, its timeouts, pauses and resumes, a    *)
(* nested step is executed to an end at most once and no approval is passed  *)
(* undecided; none is under way once the outer step is recorded, whatever    *)
(* its error policy; and an outer step that succeeds of itself has come to   *)
(* the end of its path, unless its branches ran concurrently                 *)
(* (WorkflowNesting).                                                        *)
THEOREM NestedOnceHolds == Components => []NestedOnce
<1>1. NE!Spec => []NE!NestedOnce
  BY NestingInit, NestingStep, NestingSound, PTL DEF NE!Spec
<1> QED
  BY <1>1 DEF Components, NestedOnce

-----------------------------------------------------------------------------
(***************************************************************************)
(* Cognition: what a request leads to is its own.                          *)
(***************************************************************************)
(* The fields of a context, and what the engines put into them and keep.     *)
CogFieldNames == {"percept", "intent", "goals", "plan", "trace", "decision", "verdict",
                  "reflection", "experience", "response"}
CogKinds == {"question", "task", "project", "learning", "exploration", "debugging", "system"}
CogIntents == KernelIntents \cup {"debug", "unknown"}
CogActions == STRING \cup {"skill_call", "noop", "shell_exec", "delete_file"}
CogGoal == [id : Nat, parent : Nat, type : CogKinds, intent : CogIntents,
            priority : {"normal", "high", "low"}, progress : {0, 1}, subs : SUBSET Nat]
CogRule == [actions : SUBSET CogActions, verdict : {"allow", "confirm", "deny"}, priority : Int]
CogExperience == [of : Nat, intent : CogIntents, success : BOOLEAN]

(* A context has these fields, and no other.                                 *)
Shaped(c) == c = [f \in CogFieldNames |-> c[f]]

(* The types of what the stages work on.                                     *)
CogType ==
    /\ thinking \in 0..10 /\ requests \in Nat /\ nextId \in Nat
    /\ onFailure \in {"abort", "continue"} /\ lost \subseteq 1..10
    /\ Shaped(context) /\ context.percept # <<>>
    /\ policies \in Seq(CogRule) /\ experiences \in Seq(CogExperience)
    /\ thinking > 0 => requests > 0

(* What a field of the context holds is made of what another one holds.      *)
CogContext ==
    /\ context.intent # <<>> =>
          \E p \in KernelIntents, s \in {<<>>, <<"debug">>} :
             context.intent = <<[primary |-> p, subs |-> s]>>
    /\ context.goals # <<>> =>
          /\ context.goals[1].root.id \in Nat /\ context.goals[1].root.type \in CogKinds
          /\ context.goals[1].root.id + Cardinality(context.goals[1].root.subs) = nextId
    /\ context.plan # <<>> =>
          context.goals # <<>> /\ context.plan = <<CG!PlanOf(context.goals[1].root)>>
    /\ context.decision # <<>> =>
          context.plan # <<>> /\ context.decision = <<CG!Decided(context.plan[1])>>
    /\ context.verdict # <<>> => context.decision # <<>>

(* The stages before the next one are through.                               *)
Through(n) == IF thinking = 0 THEN requests > 0 ELSE n < thinking

(* What a stage that is still to come would fill is empty.                   *)
CogUnfilled ==
    /\ ~Through(2) => context.intent = <<>>
    /\ ~Through(3) => context.goals = <<>>
    /\ ~Through(4) => context.plan = <<>>
    /\ ~Through(6) => context.decision = <<>>
    /\ ~Through(7) => context.verdict = <<>>
    /\ ~Through(10) => context.response = <<>>

(* What is missing is what failed, or what cannot be made without it.        *)
CogMissing ==
    /\ Through(2) => (context.intent = <<>> <=> 2 \in lost)
    /\ Through(3) => (context.goals = <<>> <=> lost \cap {2, 3} # {})
    /\ Through(4) => (context.plan = <<>> <=> lost \cap {2, 3, 4} # {})
    /\ Through(6) => (context.decision = <<>> <=> lost \cap {2, 3, 4, 6} # {})
    /\ Through(7) => (context.verdict = <<>> <=> lost \cap {2, 3, 4, 6, 7} # {})
    /\ Through(10) => (context.response = <<>> <=> 10 \in lost)

(* A run's answer is yes when nothing was denied and nothing aborted it.     *)
CogAnswered ==
    (thinking = 0 /\ requests > 0 /\ context.response # <<>>) =>
        context.response[1].success = (~CG!Denied /\ (onFailure = "continue" \/ lost = {}))

(* How far the run has come.                                                 *)
CogProgress ==
    /\ \A n \in lost : Through(n)
    /\ (onFailure = "abort" /\ thinking > 0) => lost = {}
    /\ CogUnfilled /\ (onFailure = "continue" => CogMissing) /\ CogAnswered

(* Each goal is kept under its own number, with the goals below it.          *)
CogGoals ==
    /\ activeGoals \in [DOMAIN activeGoals -> CogGoal] /\ DOMAIN activeGoals \subseteq 1..nextId
    /\ \A g \in DOMAIN activeGoals :
          /\ activeGoals[g].id = g
          /\ activeGoals[g].subs \subseteq DOMAIN activeGoals
          /\ \A s \in activeGoals[g].subs : activeGoals[s].parent = g

(* No request is recorded twice, nor before its record stage.                *)
CogExperiences ==
    /\ \A i \in DOMAIN experiences :
          /\ experiences[i].of \in 1..requests
          /\ thinking \in 1..9 => experiences[i].of < requests
    /\ \A i, j \in DOMAIN experiences : i # j => experiences[i].of # experiences[j].of

(* Nobody takes the built-in rules back.                                     *)
CogDenials ==
    \A action \in CG!Dangerous : \E i \in DOMAIN policies :
        action \in policies[i].actions /\ policies[i].priority = 100 /\ policies[i].verdict = "deny"

(* The inductive invariant.                                                  *)
CogInv == CogType /\ CogContext /\ CogProgress /\ CogGoals /\ CogExperiences /\ CogDenials

-----------------------------------------------------------------------------
(* Of the rules that apply one comes before the others.                      *)
LEMMA FirstRule ==
    ASSUME NEW rs \in Seq(CogRule), NEW those \in SUBSET DOMAIN rs, those # {}
    PROVE  \E i \in those : \A j \in those : CG!Before(rs, i, j)
<1> DEFINE Strictly(j, i) == /\ CG!Before(rs, j, i) /\ j # i
           ahead(i) == {j \in those : Strictly(j, i)}
           heads == {ahead(i) : i \in those}
<1>1. /\ Len(rs) \in Nat /\ DOMAIN rs = 1..Len(rs)
      /\ \A i \in DOMAIN rs : rs[i].priority \in Int /\ i \in Int
  <2>1. Len(rs) \in Nat /\ DOMAIN rs = 1..Len(rs)
    BY LenProperties
  <2>2. \A i \in DOMAIN rs : rs[i] \in CogRule
    BY <2>1, ElementOfSeq
  <2>3. \A r \in CogRule : r.priority \in Int
    BY DEF CogRule
  <2> QED
    BY <2>1, <2>2, <2>3
<1>2. \A i, j \in those : Strictly(i, j) \/ CG!Before(rs, j, i)
  BY <1>1 DEF CG!Before
<1>3. \A i, j, k \in those : Strictly(i, j) /\ Strictly(j, k) => Strictly(i, k)
  BY <1>1 DEF CG!Before
<1> HIDE DEF Strictly
<1>4. heads \subseteq FiniteSubsetsOf(those) /\ heads # {}
  <2>1. IsFiniteSet(those)
    <3>1. IsFiniteSet(1..Len(rs)) /\ those \subseteq 1..Len(rs)
      BY <1>1, FS_Interval
    <3> QED
      BY <3>1, FS_Subset
  <2>2. FiniteSubsetsOf(those) = SUBSET those
    BY <2>1, FS_FiniteSubsetsOfFinite
  <2>3. \A y \in heads : y \in SUBSET those
    OBVIOUS
  <2>4. heads # {}
    OBVIOUS
  <2> HIDE DEF heads
  <2> QED
    BY <2>2, <2>3, <2>4
<1>6. PICK x \in heads : \A y \in heads : ~ (<<y, x>> \in StrictSubsetOrdering(those))
  BY <1>4, WFMin, FS_StrictSubsetOrderingWellFounded
<1>7. PICK i \in those : x = ahead(i)
  BY <1>6
<1>8. ASSUME NEW j \in those, Strictly(j, i) PROVE FALSE
  <2>1. ahead(j) \in heads /\ ahead(j) \subseteq ahead(i)
    BY <1>3, <1>8
  <2>2. j \in ahead(i) /\ j \notin ahead(j)
    BY <1>8 DEF Strictly
  <2> QED
    BY <1>6, <1>7, <2>1, <2>2 DEF StrictSubsetOrdering
<1> QED
  BY <1>2, <1>8

(* However rules are added in front, a dangerous action is denied unless one *)
(* of the highest rank lets it pass.                                         *)
LEMMA DenialsHold ==
    ASSUME policies \in Seq(CogRule), CogDenials
    PROVE  CG!DenialsStand
<1> SUFFICES ASSUME NEW action \in CG!Dangerous, CG!VerdictOf(policies, action) # "deny"
             PROVE  \E i \in DOMAIN policies : /\ action \in policies[i].actions
                                               /\ policies[i].priority >= 100
                                               /\ policies[i].verdict # "deny"
  BY DEF CG!DenialsStand
<1> DEFINE those == CG!Applicable(policies, action)
           first == CHOOSE i \in those : \A j \in those : CG!Before(policies, i, j)
<1>1. PICK d \in DOMAIN policies :
         action \in policies[d].actions /\ policies[d].priority = 100
  BY DEF CogDenials
<1>2. d \in those /\ those \subseteq DOMAIN policies
  BY <1>1 DEF CG!Applicable
<1>3. \A i \in those : action \in policies[i].actions
  BY DEF CG!Applicable
<1>4. CG!VerdictOf(policies, action) = policies[first].verdict
  BY <1>2 DEF CG!VerdictOf
<1> HIDE DEF those
<1>5. \E i \in those : \A j \in those : CG!Before(policies, i, j)
  BY <1>2, FirstRule
<1>6. first \in those /\ CG!Before(policies, first, d)
  BY <1>2, <1>5, Zenon
<1> HIDE DEF first
<1>7. policies[first].priority >= 100
  <2>1. policies[first].priority \in Int
    <3>1. policies[first] \in CogRule
      <4>1. DOMAIN policies = 1..Len(policies)
        BY LenProperties
      <4> QED
        BY <1>2, <1>6, <4>1, ElementOfSeq
    <3> QED
      BY <3>1 DEF CogRule
  <2> QED
    BY <1>1, <1>6, <2>1 DEF CG!Before
<1> QED
  BY <1>2, <1>3, <1>4, <1>6, <1>7

(* A plan has steps, and the first of them is the one that is decided on.    *)
LEMMA DecidedFirst ==
    ASSUME NEW goal, goal.type \in CogKinds
    PROVE  LET plan == CG!PlanOf(goal)
           IN  /\ plan.goal = goal.id /\ 1 \in DOMAIN plan.steps
               /\ plan.steps[1].order = 0 /\ plan.steps[1].needs = {}
               /\ CG!Decided(plan).goal = goal.id /\ CG!Decided(plan).order = 0
<1> DEFINE n == CG!PlanLength(goal.type)
           plan == CG!PlanOf(goal)
           candidates == CG!Candidates(plan)
           best == CHOOSE i \in DOMAIN candidates :
                      \A j \in DOMAIN candidates : CG!Ranks(candidates, i, j)
<1>1. n \in Nat /\ n >= 2
  BY DEF CG!PlanLength, CogKinds
<1> HIDE DEF n
<1>2. plan.goal = goal.id /\ plan.steps = [i \in 1..n |-> [order |-> i - 1, needs |-> {i - 2} \ {-1}]]
  BY DEF CG!PlanOf, n
<1> HIDE DEF plan
<1>3. DOMAIN plan.steps = 1..n /\ 1 \in 1..n /\ plan.steps # <<>>
  <2>1. DOMAIN plan.steps = 1..n /\ 1 \in 1..n
    BY <1>1, <1>2
  <2>2. DOMAIN <<>> = {}
    OBVIOUS
  <2>3. ASSUME plan.steps = <<>> PROVE FALSE
    BY <2>1, <2>2, <2>3, Zenon
  <2> QED
    BY <2>1, <2>3
<1>4. DOMAIN candidates = 1..n /\ \A i \in 1..n : candidates[i].order = i - 1 /\ candidates[i].outOf = i
  BY <1>1, <1>2, <1>3 DEF CG!Candidates
<1>5. CG!Decided(plan).goal = plan.goal /\ CG!Decided(plan).order = candidates[best].order
  BY <1>3 DEF CG!Decided
<1> HIDE DEF candidates
<1>6. \A i \in 1..n : (\A j \in 1..n : CG!Ranks(candidates, i, j)) <=> i = 1
  BY <1>1, <1>4 DEF CG!Ranks
<1>7. best = 1
  <2>1. \E i \in DOMAIN candidates : \A j \in DOMAIN candidates : CG!Ranks(candidates, i, j)
    <3>1. \A j \in 1..n : CG!Ranks(candidates, 1, j)
      BY <1>3, <1>6
    <3> QED
      BY <1>3, <1>4, <3>1
  <2>2. best \in DOMAIN candidates /\ \A j \in DOMAIN candidates : CG!Ranks(candidates, best, j)
    BY <2>1, Zenon
  <2> HIDE DEF best
  <2> QED
    BY <1>4, <1>6, <2>2
<1>8. plan.steps[1].order = 0 /\ plan.steps[1].needs = {}
  BY <1>1, <1>2
<1> HIDE DEF best
<1>9. candidates[best].order = 0
  BY <1>3, <1>4, <1>7
<1> QED
  BY <1>2, <1>3, <1>5, <1>8, <1>9 DEF plan

-----------------------------------------------------------------------------
(* CogInv implies the property that the run checks.                          *)
LEMMA CogImplies == CogInv => CG!CognitionSound
<1> SUFFICES ASSUME CogInv PROVE CG!CognitionSound
  OBVIOUS
<1>1. CG!DenialsStand
  BY DenialsHold DEF CogInv, CogType
<1>2. context.plan # <<>> =>
        /\ context.goals # <<>> /\ context.plan[1].goal = context.goals[1].root.id
  BY DecidedFirst DEF CogInv, CogContext
<1>3. context.decision # <<>> =>
        /\ context.plan # <<>> /\ context.decision[1].goal = context.plan[1].goal
        /\ \E i \in DOMAIN context.plan[1].steps :
              context.plan[1].steps[i].order = context.decision[1].order
                /\ context.plan[1].steps[i].needs = {}
  BY DecidedFirst DEF CogInv, CogContext
<1>4. \A S : CG!Cardinality(S) = Cardinality(S)
  BY DEF CG!Cardinality, Cardinality
<1>5. context.goals # <<>> =>
        context.goals[1].root.id + CG!Cardinality(context.goals[1].root.subs) = nextId
  BY <1>4 DEF CogInv, CogContext
<1>6. context.verdict # <<>> => context.decision # <<>>
  BY DEF CogInv, CogContext
<1>7. thinking = 0 /\ requests > 0 => Through(2) /\ Through(3) /\ Through(4) /\ Through(6) /\ Through(7) /\ Through(10)
  BY DEF Through
<1>8. onFailure = "continue" /\ thinking = 0 /\ requests > 0 =>
             /\ context.decision = <<>> <=> lost \cap {2, 3, 4, 6} # {}
             /\ context.verdict = <<>> <=> lost \cap {2, 3, 4, 6, 7} # {}
             /\ context.response = <<>> <=> 10 \in lost
  BY <1>7 DEF CogInv, CogProgress, CogUnfilled, CogMissing, CogAnswered
<1>9. thinking = 0 /\ requests > 0 /\ context.response # <<>> =>
          context.response[1].success = (~CG!Denied /\ (onFailure = "continue" \/ lost = {}))
  BY DEF CogInv, CogProgress, CogUnfilled, CogMissing, CogAnswered
<1>10. \A g \in DOMAIN activeGoals :
             /\ activeGoals[g].id = g
             /\ \A s \in activeGoals[g].subs : activeGoals[s].parent = g
  BY DEF CogInv, CogGoals
<1>11. \A i, j \in DOMAIN experiences : i # j => experiences[i].of # experiences[j].of
  BY DEF CogInv, CogExperiences
<1> QED
  BY <1>1, <1>2, <1>3, <1>5, <1>6, <1>8, <1>9, <1>10, <1>11 DEF CG!CognitionSound, CG!None, CG!The

-----------------------------------------------------------------------------
(* Before the first request the invariant holds.                             *)
LEMMA CogInit == CG!Init => CogInv
<1> SUFFICES ASSUME CG!Init PROVE CogInv
  OBVIOUS
<1> USE DEF CG!Init
<1>1. Shaped(context) /\ context.percept # <<>>
  BY DEF CG!Fresh, CG!None, Shaped, CogFieldNames
<1>2. /\ context.intent = <<>> /\ context.goals = <<>> /\ context.plan = <<>>
      /\ context.decision = <<>> /\ context.verdict = <<>> /\ context.response = <<>>
  BY DEF CG!Fresh, CG!None
<1>3. /\ policies \in Seq(CogRule) /\ Len(policies) = 3
      /\ policies[1] = [actions |-> {"shell_exec"}, verdict |-> "deny", priority |-> 100]
      /\ policies[2] = [actions |-> {"delete_file"}, verdict |-> "deny", priority |-> 100]
  <2> DEFINE deny == [i \in 1..2 |-> [actions |-> {<<"shell_exec", "delete_file">>[i]},
                                      verdict |-> "deny", priority |-> 100]]
             allow == [actions |-> {"skill_call", "noop"} \cup CG!Dangerous,
                       verdict |-> "allow", priority |-> -1]
  <2>1. policies = deny \o <<allow>>
    BY DEF CG!BuiltinRules
  <2> HIDE DEF CG!Init, allow
  <2>2. /\ deny[1] = [actions |-> {"shell_exec"}, verdict |-> "deny", priority |-> 100]
        /\ deny[2] = [actions |-> {"delete_file"}, verdict |-> "deny", priority |-> 100]
    <3> DEFINE Row(i) == [actions |-> {<<"shell_exec", "delete_file">>[i]}, verdict |-> "deny", priority |-> 100]
    <3>1. 1 \in 1..2 /\ 2 \in 1..2
      OBVIOUS
    <3>2. deny = [i \in 1..2 |-> Row(i)]
      OBVIOUS
    <3>4. deny[1] = Row(1) /\ deny[2] = Row(2)
      <4> HIDE DEF deny, Row
      <4> QED
        BY <3>1, <3>2
    <3>3. <<"shell_exec", "delete_file">>[1] = "shell_exec" /\ <<"shell_exec", "delete_file">>[2] = "delete_file"
      OBVIOUS
    <3> HIDE DEF deny
    <3> QED
      BY <3>4, <3>3, Zenon
  <2> HIDE DEF deny
  <2>3. deny[1] \in CogRule /\ deny[2] \in CogRule
    BY <2>2 DEF CogRule, CogActions
  <2>4. allow \in CogRule
    BY DEF CogRule, CogActions, CG!Dangerous, allow
  <2>5. deny \in Seq(CogRule) /\ Len(deny) = 2
    <3>1. deny = [i \in 1..2 |-> deny[i]]
      BY DEF deny
    <3>2. \A i \in 1..2 : deny[i] \in CogRule
      BY <2>3
    <3> QED
      BY <3>1, <3>2
  <2>6. policies \in Seq(CogRule) /\ Len(policies) = 3
    <3>1. <<allow>> \in Seq(CogRule) /\ Len(<<allow>>) = 1
      BY <2>4
    <3>2. deny \o <<allow>> \in Seq(CogRule) /\ Len(deny \o <<allow>>) = Len(deny) + Len(<<allow>>)
      <4> DEFINE one == <<allow>>
      <4>1. deny \in Seq(CogRule) /\ one \in Seq(CogRule)
        BY <2>5, <3>1
      <4> HIDE DEF one
      <4>2. deny \o one \in Seq(CogRule) /\ Len(deny \o one) = Len(deny) + Len(one)
        BY <4>1, ConcatProperties
      <4> QED
        BY <4>2 DEF one
    <3> QED
      BY <2>1, <2>5, <3>1, <3>2
  <2>7. policies[1] = deny[1] /\ policies[2] = deny[2]
    <3>1. 1 \in 1..Len(deny) /\ 2 \in 1..Len(deny)
      BY <2>5
    <3> QED
      BY <2>1, <2>5, <3>1
  <2> QED
    BY <2>2, <2>6, <2>7
<1>4. CogType
  BY <1>1, <1>3 DEF CogType
<1>5. CogContext
  BY <1>2 DEF CogContext
<1>6. CogProgress
  BY <1>2 DEF CogProgress, CogUnfilled, CogMissing, CogAnswered, Through
<1>7. CogGoals
  <2>1. DOMAIN activeGoals = {}
    OBVIOUS
  <2> QED
    BY <2>1 DEF CogGoals
<1>8. CogExperiences
  BY DEF CogExperiences
<1>9. CogDenials
  <2>1. 1 \in DOMAIN policies /\ 2 \in DOMAIN policies
    BY <1>3
  <2> QED
    BY <1>3, <2>1 DEF CogDenials, CG!Dangerous
<1> QED
  BY <1>4, <1>5, <1>6, <1>7, <1>8, <1>9 DEF CogInv

(* A stage fills one field of the context, and leaves the others as they are. *)
CogFills(k, f, v) ==
    /\ thinking = k /\ thinking' = (k + 1) % 11
    /\ context' = [context EXCEPT ![f] = <<v>>]
    /\ UNCHANGED <<onFailure, lost, requests>>

(* What follows from it.                                                     *)
LEMMA FillsFacts ==
    ASSUME CogType, NEW k \in 1..10, NEW f \in CogFieldNames, NEW v, CogFills(k, f, v)
    PROVE  /\ Shaped(context)' /\ context'[f] = <<v>> /\ context'[f] # <<>>
           /\ \A g \in CogFieldNames \ {f} : context'[g] = context[g]
           /\ thinking' = (IF k = 10 THEN 0 ELSE k + 1) /\ thinking' \in 0..10
           /\ context'.percept # <<>>
<1>1. /\ context = [g \in CogFieldNames |-> context[g]] /\ context["percept"] # <<>>
      /\ thinking = k /\ thinking' = (k + 1) % 11 /\ context' = [context EXCEPT ![f] = <<v>>]
  BY DEF CogType, CogFills, Shaped
<1>2. DOMAIN context = CogFieldNames
  BY <1>1
<1>3. /\ DOMAIN context' = CogFieldNames /\ context' = [g \in CogFieldNames |-> context'[g]]
      /\ context'[f] = <<v>> /\ \A g \in CogFieldNames \ {f} : context'[g] = context[g]
  BY <1>1, <1>2
<1>4. <<v>> # <<>> /\ "percept" \in CogFieldNames
  BY DEF CogFieldNames
<1>5. context'["percept"] # <<>>
  BY <1>1, <1>3, <1>4
<1>6. thinking' = IF k = 10 THEN 0 ELSE k + 1
  BY <1>1
<1> QED
  BY <1>3, <1>4, <1>5, <1>6 DEF Shaped

(* The next stages, of the whole run and of a stage.                          *)
LEMMA ThroughNext ==
    ASSUME CogType, NEW k \in 1..10, thinking = k, requests' = requests,
           thinking' = (IF k = 10 THEN 0 ELSE k + 1)
    PROVE  \A n \in 1..10 : /\ Through(n)' <=> (Through(n) \/ n = k)
                            /\ ~ Through(k)
BY DEF CogType, Through

(* A stage that leaves everything else of this component alone.               *)
LEMMA OnlyContext ==
    ASSUME CogInv, thinking' \in 1..9 => thinking \in 1..9,
           UNCHANGED <<requests, activeGoals, nextId, policies, experiences>>
    PROVE  CogGoals' /\ CogExperiences' /\ CogDenials'
<1>1. CogGoals'
  BY DEF CogInv, CogGoals
<1>2. CogDenials'
  BY DEF CogInv, CogDenials
<1>3. CogExperiences'
  BY DEF CogInv, CogExperiences
<1> QED
  BY <1>1, <1>2, <1>3

(* A request starts on an empty context, with nothing lost.                  *)
LEMMA CogBegins == CogInv /\ CG!Begin => CogInv'
<1> SUFFICES ASSUME CogInv, CG!Begin PROVE CogInv'
  OBVIOUS
<1>1. /\ thinking = 0 /\ thinking' = 1 /\ requests' = requests + 1 /\ lost' = {}
      /\ context' = CG!Fresh
      /\ UNCHANGED <<onFailure, activeGoals, nextId, policies, experiences>>
  BY DEF CG!Begin
<1>2. Shaped(context)' /\ context'.percept # <<>>
  BY <1>1 DEF CG!Fresh, CG!None, Shaped, CogFieldNames
<1>3. /\ context'.intent = <<>> /\ context'.goals = <<>> /\ context'.plan = <<>>
      /\ context'.decision = <<>> /\ context'.verdict = <<>> /\ context'.response = <<>>
  BY <1>1 DEF CG!Fresh, CG!None
<1>4. requests \in Nat /\ requests' \in Nat /\ requests' > 0
  BY <1>1 DEF CogInv, CogType
<1>5. CogType'
  BY <1>1, <1>2, <1>4 DEF CogInv, CogType
<1>6. CogContext'
  BY <1>3 DEF CogContext
<1>7. CogProgress'
  BY <1>1, <1>3 DEF CogProgress, CogUnfilled, CogMissing, CogAnswered, Through
<1>8. CogGoals'
  BY <1>1 DEF CogInv, CogGoals
<1>9. CogExperiences'
  <2>1. \A i \in DOMAIN experiences : experiences[i].of \in 1..requests
    BY DEF CogInv, CogExperiences
  <2>2. \A i \in DOMAIN experiences : experiences[i].of \in 1..requests' /\ experiences[i].of < requests'
    BY <1>1, <1>4, <2>1
  <2> QED
    BY <1>1, <2>2 DEF CogInv, CogExperiences
<1>10. CogDenials'
  BY <1>1 DEF CogInv, CogDenials
<1> QED
  BY <1>5, <1>6, <1>7, <1>8, <1>9, <1>10 DEF CogInv

(* A rule that is put in front leaves the built-in ones where they were.     *)
LEMMA CogRegisters ==
    ASSUME CogInv, NEW r \in KernelRules, CG!RegisterRule(r)
    PROVE  CogInv'
<1>1. /\ thinking = 0 /\ policies' = <<r>> \o policies
      /\ UNCHANGED <<context, thinking, onFailure, lost, requests, activeGoals, nextId, experiences>>
  BY DEF CG!RegisterRule, CG!Registered
<1>2. r \in CogRule
  BY PlatformAssumption DEF CG!CognitionAssumption, CogRule, CogActions
<1>3. policies \in Seq(CogRule)
  BY DEF CogInv, CogType
<1>4. policies' \in Seq(CogRule) /\ Len(policies') = Len(policies) + 1
      /\ \A i \in DOMAIN policies : i + 1 \in DOMAIN policies' /\ policies'[i + 1] = policies[i]
  BY <1>1, <1>2, <1>3
<1>5. CogType'
  BY <1>1, <1>4 DEF CogInv, CogType
<1>6. CogContext'
  BY <1>1 DEF CogInv, CogContext
<1>7. CogProgress'
  BY <1>1 DEF CogInv, CogProgress, CogUnfilled, CogMissing, CogAnswered, Through, CG!Denied
<1>8. CogGoals' /\ CogExperiences'
  BY <1>1 DEF CogInv, CogGoals, CogExperiences
<1>9. CogDenials'
  <2> SUFFICES ASSUME NEW action \in CG!Dangerous
               PROVE  \E i \in DOMAIN policies' : /\ action \in policies'[i].actions
                                                  /\ policies'[i].priority = 100
                                                  /\ policies'[i].verdict = "deny"
    BY DEF CogDenials
  <2>1. PICK i \in DOMAIN policies :
           action \in policies[i].actions /\ policies[i].priority = 100 /\ policies[i].verdict = "deny"
    BY DEF CogInv, CogDenials
  <2> QED
    BY <1>4, <2>1
<1> QED
  BY <1>5, <1>6, <1>7, <1>8, <1>9 DEF CogInv

(* Progress changes nothing of a goal but its progress.                      *)
LEMMA CogProgresses ==
    ASSUME CogInv, NEW g \in 1..nextId, CG!UpdateProgress(g)
    PROVE  CogInv'
<1>1. /\ g \in DOMAIN activeGoals
      /\ activeGoals' = [activeGoals EXCEPT ![g].progress = 1]
      /\ UNCHANGED <<context, thinking, onFailure, lost, requests, nextId, policies, experiences>>
  BY DEF CG!UpdateProgress
<1>2. activeGoals \in [DOMAIN activeGoals -> CogGoal]
  BY DEF CogInv, CogGoals
<1>3. [activeGoals[g] EXCEPT !.progress = 1] \in CogGoal
      /\ [activeGoals[g] EXCEPT !.progress = 1].id = activeGoals[g].id
      /\ [activeGoals[g] EXCEPT !.progress = 1].subs = activeGoals[g].subs
      /\ [activeGoals[g] EXCEPT !.progress = 1].parent = activeGoals[g].parent
  BY <1>1, <1>2 DEF CogGoal
<1>4. /\ DOMAIN activeGoals' = DOMAIN activeGoals
      /\ \A h \in DOMAIN activeGoals : /\ activeGoals'[h] \in CogGoal
                                       /\ activeGoals'[h].id = activeGoals[h].id
                                       /\ activeGoals'[h].subs = activeGoals[h].subs
                                       /\ activeGoals'[h].parent = activeGoals[h].parent
  <2>1. DOMAIN activeGoals' = DOMAIN activeGoals
    BY <1>1
  <2>2. \A h \in DOMAIN activeGoals : h # g => activeGoals'[h] = activeGoals[h]
    BY <1>1
  <2>3. activeGoals'[g] = [activeGoals[g] EXCEPT !.progress = 1]
    BY <1>1
  <2> QED
    BY <1>2, <1>3, <2>1, <2>2, <2>3
<1>5. activeGoals' = [h \in DOMAIN activeGoals' |-> activeGoals'[h]]
  BY <1>1, <1>2
<1>6. CogGoals'
  <2>1. activeGoals' \in [DOMAIN activeGoals' -> CogGoal]
    BY <1>4, <1>5
  <2> QED
    BY <1>1, <1>4, <2>1 DEF CogInv, CogGoals
<1>7. CogType' /\ CogContext' /\ CogExperiences' /\ CogDenials'
  <2>1. CogType'
    BY <1>1 DEF CogInv, CogType, Shaped
  <2>2. CogContext'
    BY <1>1 DEF CogInv, CogContext
  <2>3. CogExperiences' /\ CogDenials'
    BY <1>1 DEF CogInv, CogExperiences, CogDenials
  <2> QED
    BY <2>1, <2>2, <2>3
<1>8. CogProgress'
  BY <1>1 DEF CogInv, CogProgress, CogUnfilled, CogMissing, CogAnswered, Through, CG!Denied
<1> QED
  BY <1>6, <1>7, <1>8 DEF CogInv

-----------------------------------------------------------------------------
(* The field that a stage fills, and the field that it needs to be filled.   *)
CogStage(k, f, v) ==
    \/ k = 1 /\ f = "percept"
    \/ k = 2 /\ f = "intent"
    \/ k = 3 /\ f = "goals" /\ context.intent # <<>>
    \/ k = 4 /\ f = "plan" /\ context.goals # <<>>
    \/ k = 5 /\ f = "trace"
    \/ k = 6 /\ f = "decision" /\ context.plan # <<>>
    \/ k = 7 /\ f = "verdict" /\ context.decision # <<>>
    \/ k = 8 /\ f = "reflection"
    \/ k = 9 /\ f = "experience"
    \/ k = 10 /\ f = "response" /\ v.success = ~CG!Denied

(* A stage that fills its field keeps the shape of the context.              *)
LEMMA CogFillsType ==
    ASSUME CogInv, NEW k \in 1..10, NEW f \in CogFieldNames, NEW v, CogFills(k, f, v),
           nextId' \in Nat, UNCHANGED policies, experiences' \in Seq(CogExperience)
    PROVE  CogType'
<1>1. CogType
  BY DEF CogInv
<1>2. Shaped(context)' /\ context'.percept # <<>> /\ thinking' \in 0..10
  BY <1>1, FillsFacts
<1>3. thinking = k /\ UNCHANGED <<onFailure, lost, requests>>
  BY DEF CogFills
<1> QED
  BY <1>1, <1>2, <1>3 DEF CogType

(* A stage that fills its field has what it needs, and so did not fail.      *)
LEMMA CogFillsProgress ==
    ASSUME CogInv, NEW k \in 1..10, NEW f \in CogFieldNames, NEW v, CogFills(k, f, v),
           CogStage(k, f, v)
    PROVE  CogProgress'
<1>1. CogType /\ CogProgress /\ CogContext
  BY DEF CogInv
<1>2. /\ context'[f] = <<v>> /\ context'[f] # <<>>
      /\ \A g \in CogFieldNames \ {f} : context'[g] = context[g]
      /\ thinking' = (IF k = 10 THEN 0 ELSE k + 1)
  BY <1>1, FillsFacts
<1>3. thinking = k /\ UNCHANGED <<onFailure, lost, requests>>
  BY DEF CogFills
<1>4. \A n \in 1..10 : (Through(n)' <=> (Through(n) \/ n = k))
  BY <1>1, <1>2, <1>3, ThroughNext
<1>5. ~ Through(k)
  BY <1>1, <1>2, <1>3, ThroughNext
<1>6. lost \subseteq 1..10 /\ k \notin lost /\ \A n \in lost : Through(n)
  BY <1>1, <1>5 DEF CogType, CogProgress
<1>7. \A n \in lost' : Through(n)'
  BY <1>3, <1>4, <1>6
<1>8. (onFailure = "abort" /\ thinking > 0) => lost = {}
  BY <1>1 DEF CogProgress
<1>9. \A n \in 1..10 : n <= k <=> Through(n)'
  BY <1>2, <1>3, <1>1 DEF Through, CogType
<1>10. \A n \in 1..10 : n < k <=> Through(n)
  BY <1>3 DEF Through
<1> USE DEF CogUnfilled, CogMissing, CogAnswered
<1>11. CogUnfilled /\ (onFailure = "continue" => CogMissing)
  BY <1>1 DEF CogProgress
<1>12. \A g \in CogFieldNames : g # f => context'[g] = context[g]
  BY <1>2
<1>13. CogUnfilled'
  BY <1>2, <1>9, <1>10, <1>11 DEF CogStage, CogFieldNames
<1>14. ASSUME onFailure' = "continue" PROVE CogMissing'
  <2>1. \A n \in lost : n < k
    BY <1>6, <1>10
  <2>12. Through(2) => (context.intent = <<>> <=> 2 \in lost)
    BY <1>3, <1>11, <1>14
  <2>2. Through(2)' => (context'.intent = <<>> <=> 2 \in lost')
    <3>1. CASE k = 2
      <4>1. f = "intent" /\ 2 \notin lost
        BY <1>6, <3>1 DEF CogStage
      <4> QED
        BY <1>2, <1>3, <4>1
    <3>2. CASE k # 2
      <4>1. f # "intent"
        BY <3>2 DEF CogStage
      <4>2. context'["intent"] = context["intent"]
        BY <1>12, <4>1 DEF CogFieldNames
      <4>3. Through(2)' => Through(2)
        BY <1>4, <3>2
      <4> QED
        BY <1>3, <2>12, <4>2, <4>3
    <3> QED
      BY <3>1, <3>2
  <2>13. Through(3) => (context.goals = <<>> <=> lost \cap {2, 3} # {})
    BY <1>3, <1>11, <1>14
  <2>3. Through(3)' => (context'.goals = <<>> <=> lost' \cap {2, 3} # {})
    BY <1>2, <1>3, <1>9, <1>10, <2>1, <2>13, <2>12 DEF CogStage, CogFieldNames
  <2>14. Through(4) => (context.plan = <<>> <=> lost \cap {2, 3, 4} # {})
    BY <1>3, <1>11, <1>14
  <2>4. Through(4)' => (context'.plan = <<>> <=> lost' \cap {2, 3, 4} # {})
    BY <1>2, <1>3, <1>9, <1>10, <2>1, <2>14, <2>13 DEF CogStage, CogFieldNames
  <2>15. Through(6) => (context.decision = <<>> <=> lost \cap {2, 3, 4, 6} # {})
    BY <1>3, <1>11, <1>14
  <2>5. Through(6)' => (context'.decision = <<>> <=> lost' \cap {2, 3, 4, 6} # {})
    BY <1>2, <1>3, <1>9, <1>10, <2>1, <2>15, <2>14 DEF CogStage, CogFieldNames
  <2>16. Through(7) => (context.verdict = <<>> <=> lost \cap {2, 3, 4, 6, 7} # {})
    BY <1>3, <1>11, <1>14
  <2>6. Through(7)' => (context'.verdict = <<>> <=> lost' \cap {2, 3, 4, 6, 7} # {})
    BY <1>2, <1>3, <1>9, <1>10, <2>1, <2>16, <2>15 DEF CogStage, CogFieldNames
  <2>17. Through(10) => (context.response = <<>> <=> 10 \in lost)
    BY <1>3, <1>11, <1>14
  <2>7. Through(10)' => (context'.response = <<>> <=> 10 \in lost')
    <3>1. CASE k = 10
      <4>1. f = "response" /\ 10 \notin lost
        BY <1>6, <3>1 DEF CogStage
      <4> QED
        BY <1>2, <1>3, <4>1
    <3>2. CASE k # 10
      <4>1. f # "response"
        BY <3>2 DEF CogStage
      <4>2. context'["response"] = context["response"]
        BY <1>12, <4>1 DEF CogFieldNames
      <4>3. Through(10)' => Through(10)
        BY <1>4, <3>2
      <4> QED
        BY <1>3, <2>17, <4>2, <4>3
    <3> QED
      BY <3>1, <3>2
  <2> QED
    BY <2>2, <2>3, <2>4, <2>5, <2>6, <2>7
<1>15. CogAnswered'
  <2>1. CASE k = 10
    <3>1. f = "response" /\ v.success = ~CG!Denied
      BY <2>1 DEF CogStage
    <3>2. context'.verdict = context.verdict /\ context'.response[1] = v
      BY <1>2, <3>1 DEF CogFieldNames
    <3>3. CG!Denied' = CG!Denied
      BY <3>2 DEF CG!Denied, CG!None, CG!The
    <3>4. onFailure = "continue" \/ lost = {}
      BY <1>1, <1>3, <1>8 DEF CogType
    <3>5. context'.response[1].success = ~CG!Denied'
      BY <3>1, <3>2, <3>3
    <3> QED
      BY <1>3, <3>4, <3>5
  <2>2. CASE k # 10
    BY <1>2, <2>2
  <2> QED
    BY <2>1, <2>2
<1>16. (onFailure' = "abort" /\ thinking' > 0) => lost' = {}
  BY <1>3, <1>8
<1> QED
  BY <1>7, <1>13, <1>14, <1>15, <1>16 DEF CogProgress

(* A stage that fails is lost, and what it would have filled is missing.     *)
LEMMA CogFailsProgress == CogInv /\ CG!StageFails => CogProgress'
<1> SUFFICES ASSUME CogInv, CG!StageFails PROVE CogProgress'
  OBVIOUS
<1> DEFINE k == thinking
<1> USE DEF CogUnfilled, CogMissing, CogAnswered
<1>1. CogType /\ CogProgress
  BY DEF CogInv
<1>2. k \in 1..10 /\ lost' = lost \cup {k} /\ UNCHANGED <<onFailure, requests>> /\ requests > 0
  BY <1>1 DEF CG!StageFails, CogType
<1>3. CogUnfilled /\ (onFailure = "continue" => CogMissing)
  BY <1>1 DEF CogProgress
<1>4. CASE onFailure = "continue"
  <2>1. context' = context /\ thinking' = (thinking + 1) % 11
    BY <1>4 DEF CG!StageFails, CG!Goes
  <2>2. thinking' = (IF k = 10 THEN 0 ELSE k + 1)
    BY <1>2, <2>1
  <2>3. \A n \in 1..10 : (n <= k <=> Through(n)') /\ (n < k <=> Through(n))
    BY <1>2, <2>2 DEF Through
  <2>4. \A n \in lost' : Through(n)'
    <3>1. \A n \in lost : n \in 1..10 /\ Through(n)
      BY <1>1 DEF CogType, CogProgress
    <3> QED
      BY <1>2, <2>3, <3>1
  <2>5. CogUnfilled'
    BY <1>3, <2>1, <2>3, <1>2
  <2>6. CogMissing'
    <3>1. Through(2)' => (context'.intent = <<>> <=> 2 \in lost')
      BY <1>2, <1>3, <1>4, <2>1, <2>3
    <3>2. Through(3)' => (context'.goals = <<>> <=> lost' \cap {2, 3} # {})
      BY <1>2, <1>3, <1>4, <2>1, <2>3
    <3>3. Through(4)' => (context'.plan = <<>> <=> lost' \cap {2, 3, 4} # {})
      BY <1>2, <1>3, <1>4, <2>1, <2>3
    <3>4. Through(6)' => (context'.decision = <<>> <=> lost' \cap {2, 3, 4, 6} # {})
      BY <1>2, <1>3, <1>4, <2>1, <2>3
    <3>5. Through(7)' => (context'.verdict = <<>> <=> lost' \cap {2, 3, 4, 6, 7} # {})
      <4>1. CASE k = 7
        <5>1. context.verdict = <<>> /\ 7 \in lost'
          BY <1>2, <1>3, <2>3, <4>1
        <5> QED
          BY <2>1, <5>1
      <4>2. CASE k # 7
        <5>1. lost' \cap {2, 3, 4, 6, 7} = lost \cap {2, 3, 4, 6, 7} \/ k \in {2, 3, 4, 6}
          BY <1>2, <4>2
        <5>2. Through(7)' => Through(7) /\ 7 < k
          BY <1>2, <2>3, <4>2
        <5>3. Through(7) => (context.verdict = <<>> <=> lost \cap {2, 3, 4, 6, 7} # {})
          BY <1>3, <1>4
        <5> QED
          BY <1>2, <2>1, <5>1, <5>2, <5>3
      <4> QED
        BY <4>1, <4>2
    <3>6. Through(10)' => (context'.response = <<>> <=> 10 \in lost')
      BY <1>2, <1>3, <1>4, <2>1, <2>3
    <3> QED
      BY <3>1, <3>2, <3>3, <3>4, <3>5, <3>6
  <2>7. ~((thinking = 0 /\ requests > 0 /\ context.response # <<>>)') \/
        (context.response[1].success = (~CG!Denied /\ (onFailure = "continue" \/ lost = {})))'
    <3>1. CASE thinking' = 0
      <4>1. k = 10 /\ ~Through(10)
        BY <1>2, <2>2, <2>3, <3>1
      <4>2. context.response = <<>>
        BY <1>3, <4>1
      <4> QED
        BY <2>1, <4>2
    <3> QED
      BY <3>1
  <2>8. ~(onFailure' = "abort")
    BY <1>2, <1>4
  <2> QED
    BY <2>4, <2>5, <2>6, <2>7, <2>8 DEF CogProgress
<1>5. CASE onFailure = "abort"
  <2>1. thinking' = 0 /\ context'.response[1].success = FALSE
    <3>1. thinking' = 0
      BY <1>5 DEF CG!StageFails
    <3>2. context' = [context EXCEPT !.response =
                 <<[success |-> FALSE, error |-> "failed", lines |-> {}, action |-> <<>>]>>]
      BY <1>5 DEF CG!StageFails, CG!None
    <3>3. "response" \in DOMAIN context
      BY <1>1 DEF CogType, Shaped, CogFieldNames
    <3>4. context'["response"] = <<[success |-> FALSE, error |-> "failed", lines |-> {}, action |-> <<>>]>>
      BY <3>2, <3>3
    <3> QED
      BY <3>1, <3>4
  <2>2. \A n : Through(n)'
    BY <1>2, <2>1 DEF Through
  <2>3. lost' # {} /\ onFailure' = "abort" /\ ~(onFailure' = "continue") /\ ~(thinking' > 0)
    BY <1>2, <1>5, <2>1
  <2>4. context'.response[1].success = (~CG!Denied' /\ (onFailure' = "continue" \/ lost' = {}))
    BY <2>1, <2>3
  <2> QED
    BY <2>2, <2>3, <2>4 DEF CogProgress
<1> QED
  BY <1>1, <1>4, <1>5 DEF CogType

-----------------------------------------------------------------------------
(* A failure goes on with the same context, or ends with a response: no.     *)
LEMMA CogFails == CogInv /\ CG!StageFails => CogInv'
<1> SUFFICES ASSUME CogInv, CG!StageFails PROVE CogInv'
  OBVIOUS
<1>1. CogType /\ CogContext
  BY DEF CogInv
<1>2. /\ thinking \in 1..10 /\ lost' = lost \cup {thinking} /\ requests > 0
      /\ UNCHANGED <<onFailure, requests, activeGoals, nextId, policies, experiences>>
  BY <1>1 DEF CG!StageFails, CogType
<1>3. /\ Shaped(context)' /\ thinking' \in 0..10 /\ (thinking' \in 1..9 => thinking \in 1..9)
      /\ \A g \in CogFieldNames \ {"response"} : context'[g] = context[g]
  <2>1. CASE onFailure = "continue"
    <3>1. context' = context /\ thinking' = (thinking + 1) % 11
      BY <2>1 DEF CG!StageFails, CG!Goes
    <3>2. thinking' = IF thinking = 10 THEN 0 ELSE thinking + 1
      BY <1>2, <3>1
    <3>3. thinking' \in 0..10 /\ (thinking' \in 1..9 => thinking \in 1..9)
      BY <1>2, <3>2
    <3>4. Shaped(context)'
      BY <1>1, <3>1 DEF CogType, Shaped
    <3> QED
      BY <3>1, <3>3, <3>4
  <2>2. CASE onFailure # "continue"
    <3>1. /\ thinking' = 0
          /\ context' = [context EXCEPT !["response"] =
                 <<[success |-> FALSE, error |-> "failed", lines |-> {}, action |-> <<>>]>>]
      BY <2>2 DEF CG!StageFails, CG!None
    <3>2. context = [f \in CogFieldNames |-> context[f]]
      BY <1>1 DEF CogType, Shaped
    <3>3. context' = [f \in CogFieldNames |-> context'[f]]
          /\ \A g \in CogFieldNames \ {"response"} : context'[g] = context[g]
      BY <3>1, <3>2
    <3> QED
      BY <3>1, <3>3 DEF Shaped
  <2> QED
    BY <2>1, <2>2
<1>4. /\ context'.percept = context.percept /\ context'.intent = context.intent
      /\ context'.goals = context.goals /\ context'.plan = context.plan
      /\ context'.decision = context.decision /\ context'.verdict = context.verdict
  BY <1>3 DEF CogFieldNames
<1>5. CogType'
  BY <1>1, <1>2, <1>3, <1>4 DEF CogType
<1>6. CogContext'
  BY <1>1, <1>2, <1>4 DEF CogContext
<1>7. CogProgress'
  BY CogFailsProgress
<1>8. CogGoals' /\ CogExperiences' /\ CogDenials'
  BY <1>2, <1>3, OnlyContext
<1> QED
  BY <1>5, <1>6, <1>7, <1>8 DEF CogInv

(* A stage that keeps what the context says of itself keeps the invariant.   *)
LEMMA CogFilled ==
    ASSUME CogInv, NEW k \in 1..10, NEW f \in CogFieldNames, NEW v, CogFills(k, f, v),
           CogStage(k, f, v), UNCHANGED <<activeGoals, nextId, policies, experiences>>,
           CogContext'
    PROVE  CogInv'
<1>1. CogType
  BY DEF CogInv
<1>2. thinking = k /\ thinking' = (IF k = 10 THEN 0 ELSE k + 1) /\ UNCHANGED requests
  BY <1>1, FillsFacts DEF CogFills
<1>3. CogType'
  <2>1. nextId' \in Nat /\ experiences' \in Seq(CogExperience) /\ UNCHANGED policies
    BY <1>1 DEF CogType
  <2> QED
    BY <2>1, CogFillsType
<1>4. CogProgress'
  BY CogFillsProgress
<1>5. CogGoals' /\ CogExperiences' /\ CogDenials'
  BY <1>2, OnlyContext
<1> QED
  BY <1>3, <1>4, <1>5 DEF CogInv

(* What nothing else in the context is made of.                              *)
LEMMA CogQuiet ==
    ASSUME CogInv, NEW k \in 1..10, NEW v,
           NEW f \in {"percept", "trace", "reflection", "experience", "response"},
           CogFills(k, f, v), UNCHANGED nextId
    PROVE  CogContext'
<1>1. CogType /\ CogContext /\ f \in CogFieldNames
  BY DEF CogInv, CogFieldNames
<1>2. \A g \in CogFieldNames \ {f} : context'[g] = context[g]
  BY <1>1, FillsFacts
<1>3. /\ context'.intent = context.intent /\ context'.goals = context.goals
      /\ context'.plan = context.plan /\ context'.decision = context.decision
      /\ context'.verdict = context.verdict
  BY <1>2 DEF CogFieldNames
<1> QED
  BY <1>1, <1>3 DEF CogContext

(* Perceiving, reasoning, reflecting and responding add what nothing rests on.*)
LEMMA CogQuietStages ==
    CogInv /\ (CG!Perceive \/ CG!Reason \/ CG!Reflect \/ CG!Respond) => CogInv'
<1> USE DEF CG!Filled, CG!Goes, CG!None
<1>1. ASSUME CogInv, CG!Perceive PROVE CogInv'
  <2>1. /\ CogFills(1, "percept", "text") /\ CogStage(1, "percept", "text")
        /\ UNCHANGED <<activeGoals, nextId, policies, experiences>>
    BY <1>1 DEF CG!Perceive, CogFills, CogStage
  <2> QED
    BY <1>1, <2>1, CogQuiet, CogFilled DEF CogFieldNames
<1>2. ASSUME CogInv, CG!Reason PROVE CogInv'
  <2>1. /\ CogFills(5, "trace", "trace") /\ CogStage(5, "trace", "trace")
        /\ UNCHANGED <<activeGoals, nextId, policies, experiences>>
    BY <1>2 DEF CG!Reason, CogFills, CogStage
  <2> QED
    BY <1>2, <2>1, CogQuiet, CogFilled DEF CogFieldNames
<1>3. ASSUME CogInv, CG!Reflect PROVE CogInv'
  <2>1. /\ CogFills(8, "reflection", "pass") /\ CogStage(8, "reflection", "pass")
        /\ UNCHANGED <<activeGoals, nextId, policies, experiences>>
    BY <1>3 DEF CG!Reflect, CogFills, CogStage
  <2> QED
    BY <1>3, <2>1, CogQuiet, CogFilled DEF CogFieldNames
<1>4. ASSUME CogInv, CG!Respond PROVE CogInv'
  <2>1. CG!Built.success = ~CG!Denied
    BY DEF CG!Built
  <2>2. /\ CogFills(10, "response", CG!Built) /\ CogStage(10, "response", CG!Built)
        /\ UNCHANGED <<activeGoals, nextId, policies, experiences>>
    BY <1>4, <2>1 DEF CG!Respond, CogFills, CogStage
  <2> QED
    BY <1>4, <2>2, CogQuiet, CogFilled DEF CogFieldNames
<1> QED
  BY <1>1, <1>2, <1>3, <1>4

(* The intent is what the goals will be made of; there are none yet.         *)
LEMMA CogUnderstands == CogInv /\ CG!Understand => CogInv'
<1> SUFFICES ASSUME CogInv, CG!Understand PROVE CogInv'
  OBVIOUS
<1>1. PICK p \in KernelIntents, s \in {<<>>, <<"debug">>} :
         CG!Filled([context EXCEPT !.intent = <<[primary |-> p, subs |-> s]>>])
  BY DEF CG!Understand
<1> DEFINE v == [primary |-> p, subs |-> s]
<1>2. /\ CogFills(2, "intent", v) /\ UNCHANGED <<activeGoals, nextId, policies, experiences>>
  BY <1>1 DEF CG!Understand, CG!Filled, CG!Goes, CogFills
<1>3. CogStage(2, "intent", v)
  BY DEF CogStage
<1>4. CogType /\ CogProgress /\ thinking = 2
  BY <1>2 DEF CogInv, CogFills
<1>5. context'.intent = <<v>> /\ \A g \in CogFieldNames \ {"intent"} : context'[g] = context[g]
  BY <1>2, <1>4, FillsFacts DEF CogFieldNames
<1>6. /\ context'.goals = <<>> /\ context'.plan = <<>> /\ context'.decision = <<>>
      /\ context'.verdict = <<>>
  BY <1>4, <1>5 DEF CogProgress, CogUnfilled, CogMissing, CogAnswered, Through, CogFieldNames
<1>7. CogContext'
  BY <1>5, <1>6 DEF CogContext
<1> HIDE DEF v
<1> QED
  BY <1>2, <1>3, <1>7, CogFilled DEF CogFieldNames

(* The plan is of the root of this request's own goals.                      *)
LEMMA CogPlans == CogInv /\ CG!CreatePlan => CogInv'
<1> SUFFICES ASSUME CogInv, CG!CreatePlan PROVE CogInv'
  OBVIOUS
<1> DEFINE v == CG!PlanOf(context.goals[1].root)
<1>1. thinking = 4 /\ context.goals # <<>>
  BY DEF CG!CreatePlan, CG!Needs, CG!None
<1>2. CogFills(4, "plan", v) /\ UNCHANGED <<activeGoals, nextId, policies, experiences>>
  BY DEF CG!CreatePlan, CG!Filled, CG!Goes, CG!The, CogFills
<1>3. CogStage(4, "plan", v)
  BY <1>1 DEF CogStage
<1>4. CogType /\ CogProgress /\ CogContext
  BY DEF CogInv
<1> HIDE DEF v
<1>5. context'.plan = <<v>> /\ \A g \in CogFieldNames \ {"plan"} : context'[g] = context[g]
  BY <1>2, <1>4, FillsFacts DEF CogFieldNames
<1>6. /\ context'.decision = <<>> /\ context'.verdict = <<>>
      /\ context'.intent = context.intent /\ context'.goals = context.goals
  BY <1>1, <1>4, <1>5 DEF CogProgress, CogUnfilled, CogMissing, CogAnswered, Through, CogFieldNames
<1>7. CG!PlanOf(context'.goals[1].root) = v
  BY <1>6 DEF v, CG!PlanOf
<1>8. CogContext'
  BY <1>1, <1>2, <1>4, <1>5, <1>6, <1>7 DEF CogContext
<1> QED
  BY <1>2, <1>3, <1>8, CogFilled DEF CogFieldNames

(* The decision is of this request's own plan.                               *)
LEMMA CogDecides == CogInv /\ CG!Decide => CogInv'
<1> SUFFICES ASSUME CogInv, CG!Decide PROVE CogInv'
  OBVIOUS
<1> DEFINE v == CG!Decided(context.plan[1])
<1>1. thinking = 6 /\ context.plan # <<>>
  BY DEF CG!Decide, CG!Needs, CG!None
<1>2. CogFills(6, "decision", v) /\ UNCHANGED <<activeGoals, nextId, policies, experiences>>
  BY DEF CG!Decide, CG!Filled, CG!Goes, CG!The, CogFills
<1>3. CogStage(6, "decision", v)
  BY <1>1 DEF CogStage
<1>4. CogType /\ CogProgress /\ CogContext
  BY DEF CogInv
<1> HIDE DEF v
<1>5. context'.decision = <<v>> /\ \A g \in CogFieldNames \ {"decision"} : context'[g] = context[g]
  BY <1>2, <1>4, FillsFacts DEF CogFieldNames
<1>6. /\ context'.plan = context.plan /\ context'.verdict = <<>>
      /\ context'.intent = context.intent /\ context'.goals = context.goals
  BY <1>1, <1>4, <1>5 DEF CogProgress, CogUnfilled, CogMissing, CogAnswered, Through, CogFieldNames
<1>7. CG!Decided(context'.plan[1]) = v
  BY <1>6 DEF v
<1>8. CogContext'
  BY <1>1, <1>2, <1>4, <1>5, <1>6, <1>7 DEF CogContext
<1> QED
  BY <1>2, <1>3, <1>8, CogFilled DEF CogFieldNames

(* The verdict is of this request's own decision.                            *)
LEMMA CogEvaluates == CogInv /\ CG!EvaluatePolicy => CogInv'
<1> SUFFICES ASSUME CogInv, CG!EvaluatePolicy PROVE CogInv'
  OBVIOUS
<1> DEFINE v == CG!VerdictOf(policies, context.decision[1].action)
<1>1. thinking = 7 /\ context.decision # <<>>
  BY DEF CG!EvaluatePolicy, CG!Needs, CG!None
<1>2. CogFills(7, "verdict", v) /\ UNCHANGED <<activeGoals, nextId, policies, experiences>>
  BY DEF CG!EvaluatePolicy, CG!Filled, CG!Goes, CG!The, CogFills
<1>3. CogStage(7, "verdict", v)
  BY <1>1 DEF CogStage
<1>4. CogType /\ CogContext
  BY DEF CogInv
<1> HIDE DEF v
<1>5. context'.verdict = <<v>> /\ \A g \in CogFieldNames \ {"verdict"} : context'[g] = context[g]
  BY <1>2, <1>4, FillsFacts DEF CogFieldNames
<1>6. /\ context'.plan = context.plan /\ context'.decision = context.decision
      /\ context'.intent = context.intent /\ context'.goals = context.goals
  BY <1>5 DEF CogFieldNames
<1>8. CogContext'
  BY <1>1, <1>2, <1>4, <1>6 DEF CogContext
<1> QED
  BY <1>2, <1>3, <1>8, CogFilled DEF CogFieldNames

-----------------------------------------------------------------------------
(* A request is recorded under its own number, which no record has yet.      *)
LEMMA CogRecords == CogInv /\ CG!Record => CogInv'
<1> SUFFICES ASSUME CogInv, CG!Record PROVE CogInv'
  OBVIOUS
<1> DEFINE goalType == IF context.intent = <<>> THEN "unknown" ELSE context.intent[1].primary
           success == IF context.reflection = <<>> THEN TRUE ELSE context.reflection[1] = "pass"
           e == [of |-> requests, intent |-> goalType, success |-> success]
           v == Len(experiences) + 1
<1>1. /\ thinking = 9 /\ experiences' = Append(experiences, e)
      /\ CogFills(9, "experience", v) /\ UNCHANGED <<activeGoals, nextId, policies>>
  BY DEF CG!Record, CG!Filled, CG!Goes, CG!None, CG!The, CogFills
<1>2. CogType /\ CogContext /\ CogExperiences
  BY DEF CogInv
<1>3. goalType \in CogIntents
  <2>1. CASE context.intent = <<>>
    BY <2>1 DEF CogIntents
  <2>2. CASE context.intent # <<>>
    <3>1. PICK p \in KernelIntents, s \in {<<>>, <<"debug">>} :
             context.intent = <<[primary |-> p, subs |-> s]>>
      BY <1>2, <2>2 DEF CogContext
    <3>2. context.intent[1].primary = p
      BY <3>1
    <3> QED
      BY <2>2, <3>2 DEF CogIntents
  <2> QED
    BY <2>1, <2>2
<1>4. success \in BOOLEAN
  OBVIOUS
<1> HIDE DEF goalType, success
<1>5. e \in CogExperience /\ e.of = requests
  BY <1>2, <1>3, <1>4 DEF CogType, CogExperience
<1> HIDE DEF e, v
<1>6. experiences \in Seq(CogExperience) /\ requests \in Nat /\ requests > 0
  BY <1>1, <1>2 DEF CogType
<1>7. /\ experiences' \in Seq(CogExperience) /\ Len(experiences') = Len(experiences) + 1
      /\ \A i \in 1..Len(experiences) : experiences'[i] = experiences[i]
      /\ experiences'[Len(experiences) + 1] = e
  BY <1>1, <1>5, <1>6, AppendProperties
<1>8. CogStage(9, "experience", v)
  BY DEF CogStage
<1>9. CogContext'
  BY <1>1, CogQuiet
<1>10. CogType'
  <2>1. nextId' \in Nat
    BY <1>1, <1>2 DEF CogType
  <2> QED
    BY <1>1, <1>7, <2>1, CogFillsType DEF CogFieldNames
<1>11. CogProgress'
  BY <1>1, <1>8, CogFillsProgress DEF CogFieldNames
<1>12. CogGoals' /\ CogDenials'
  BY <1>1 DEF CogInv, CogGoals, CogDenials
<1>13. thinking' = 10 /\ requests' = requests
  BY <1>1 DEF CogFills
<1>14. CogExperiences'
  <2>1. Len(experiences) \in Nat /\ DOMAIN experiences = 1..Len(experiences)
        /\ DOMAIN experiences' = 1..Len(experiences')
    BY <1>6, <1>7, LenProperties
  <2>2. \A i \in 1..Len(experiences) : experiences[i].of \in 1..requests /\ experiences[i].of < requests
    BY <1>1, <1>2, <2>1 DEF CogExperiences
  <2>3. \A i \in DOMAIN experiences' : i \in 1..Len(experiences) \/ i = Len(experiences) + 1
    BY <1>7, <2>1
  <2>4. \A i \in DOMAIN experiences' : experiences'[i].of \in 1..requests
    BY <1>5, <1>6, <1>7, <2>2, <2>3
  <2>5. \A i, j \in 1..Len(experiences) : i # j => experiences[i].of # experiences[j].of
    BY <1>2, <2>1 DEF CogExperiences
  <2>6. \A i, j \in DOMAIN experiences' : i # j => experiences'[i].of # experiences'[j].of
    <3> SUFFICES ASSUME NEW i \in DOMAIN experiences', NEW j \in DOMAIN experiences', i # j
                 PROVE  experiences'[i].of # experiences'[j].of
      OBVIOUS
    <3>1. CASE i \in 1..Len(experiences) /\ j \in 1..Len(experiences)
      BY <1>7, <2>5, <3>1
    <3>2. CASE i \in 1..Len(experiences) /\ j = Len(experiences) + 1
      BY <1>5, <1>6, <1>7, <2>2, <3>2
    <3>3. CASE j \in 1..Len(experiences) /\ i = Len(experiences) + 1
      BY <1>5, <1>6, <1>7, <2>2, <3>3
    <3> QED
      BY <2>3, <3>1, <3>2, <3>3
  <2>7. ~(thinking' \in 1..9)
    BY <1>13
  <2> QED
    BY <1>13, <2>4, <2>6, <2>7 DEF CogExperiences
<1> QED
  BY <1>9, <1>10, <1>11, <1>12, <1>14 DEF CogInv

(* Two that differ are two.                                                  *)
LEMMA TwoElements ==
    ASSUME NEW a, NEW b, a # b
    PROVE  Cardinality({a, b}) = 2
<1>1. IsFiniteSet({a}) /\ Cardinality({a}) = 1
  BY FS_Singleton
<1>2. Cardinality({a} \cup {b}) = Cardinality({a}) + 1
  <2>1. b \notin {a}
    OBVIOUS
  <2> QED
    BY <1>1, <2>1, FS_AddElement
<1>3. {a} \cup {b} = {a, b}
  OBVIOUS
<1> QED
  BY <1>1, <1>2, <1>3

(* The goals that an intent leads to: one, or one and one below it.          *)
NewGoals(intent) ==
    LET tree == CG!Hierarchy(intent)
    IN  {tree.root} \cup {tree.children[i] : i \in DOMAIN tree.children}
NewIds(intent) == {nextId + 1} \cup (IF intent.subs = <<>> THEN {} ELSE {nextId + 2})

(* They are well formed, numbered in a row, and know each other.             *)
LEMMA TreeFacts ==
    ASSUME nextId \in Nat, NEW intent, intent.primary \in KernelIntents,
           intent.subs \in {<<>>, <<"debug">>}
    PROVE  /\ NewGoals(intent) \subseteq CogGoal
           /\ {n.id : n \in NewGoals(intent)} = NewIds(intent)
           /\ \A m, n \in NewGoals(intent) : m.id = n.id => m = n
           /\ \A n \in NewGoals(intent) : n.subs \subseteq NewIds(intent)
           /\ \A m, n \in NewGoals(intent) : n.id \in m.subs => n.parent = m.id
           /\ CG!Hierarchy(intent).root \in NewGoals(intent)
           /\ CG!Hierarchy(intent).root.id = nextId + 1
           /\ Cardinality(NewGoals(intent)) \in Nat
           /\ CG!Cardinality(NewGoals(intent)) = Cardinality(NewGoals(intent))
           /\ CG!Hierarchy(intent).root.id + Cardinality(CG!Hierarchy(intent).root.subs)
                 = nextId + Cardinality(NewGoals(intent))
           /\ NewIds(intent) \subseteq 1..(nextId + Cardinality(NewGoals(intent)))
<1> DEFINE p == intent.primary
           s == intent.subs
           tree == CG!Hierarchy(intent)
           new == NewGoals(intent)
           ids == NewIds(intent)
           subs == {nextId + 1 + i : i \in DOMAIN s}
           root == [id |-> nextId + 1, parent |-> 0, type |-> CG!GoalType[p], intent |-> p,
                    priority |-> CG!Priority[p], progress |-> 0, subs |-> subs]
           child == [id |-> nextId + 2, parent |-> nextId + 1, type |-> CG!GoalType["debug"],
                     intent |-> "debug", priority |-> CG!Priority["debug"], progress |-> 0,
                     subs |-> {}]
<1>1. tree.root = root
      /\ tree.children = [i \in DOMAIN s |-> CG!Goal(nextId + 1 + i, nextId + 1, s[i])]
  BY DEF CG!Hierarchy, CG!Goal
<1>0. /\ new = {tree.root} \cup {tree.children[i] : i \in DOMAIN tree.children}
      /\ ids = {nextId + 1} \cup (IF s = <<>> THEN {} ELSE {nextId + 2})
  BY DEF NewGoals, NewIds
<1> HIDE DEF new, ids
<1>2. DOMAIN <<>> = {} /\ DOMAIN <<"debug">> = {1} /\ <<"debug">>[1] = "debug"
  OBVIOUS
<1>3. /\ s = <<>> => tree.children = [i \in {} |-> 0] /\ subs = {} /\ new = {root}
      /\ s # <<>> => DOMAIN tree.children = {1} /\ tree.children[1] = child
                       /\ subs = {nextId + 2} /\ new = {root, child}
  <2>1. CASE s = <<>>
    BY <1>0, <1>1, <1>2, <2>1
  <2>2. CASE s = <<"debug">>
    <3>1. DOMAIN tree.children = {1} /\ tree.children[1] = CG!Goal(nextId + 1 + 1, nextId + 1, "debug")
      <4> HIDE DEF tree
      <4>1. DOMAIN s = {1} /\ s[1] = "debug"
        BY <1>2, <2>2
      <4> QED
        BY <1>1, <4>1
    <3>2. CG!Goal(nextId + 1 + 1, nextId + 1, "debug") = child
      <4>1. nextId + 1 + 1 = nextId + 2
        OBVIOUS
      <4>2. CG!Goal(nextId + 2, nextId + 1, "debug") = child
        BY Zenon DEF CG!Goal
      <4> QED
        BY <4>1, <4>2, Zenon
    <3>3. subs = {nextId + 2}
      BY <1>2, <2>2
    <3>4. new = {root, child}
      <4> HIDE DEF tree, root, child
      <4>1. \A t : DOMAIN t = {1} => {t[i] : i \in DOMAIN t} = {t[1]}
        OBVIOUS
      <4>2. {tree.children[i] : i \in DOMAIN tree.children} = {child}
        BY <3>1, <3>2, <4>1
      <4> QED
        BY <1>0, <1>1, <4>2
    <3> QED
      BY <2>2, <3>1, <3>2, <3>3, <3>4
  <2> QED
    BY <2>1, <2>2
<1>4. \A q \in DOMAIN CG!GoalType : CG!GoalType[q] \in CogKinds
                                      /\ CG!Priority[q] \in {"normal", "high", "low"}
  BY DEF CG!GoalType, CG!Priority, CogKinds
<1>5. p \in DOMAIN CG!GoalType /\ "debug" \in DOMAIN CG!GoalType
  BY PlatformAssumption DEF CG!CognitionAssumption, CG!GoalType
<1>6. subs \subseteq Nat
  BY <1>3
<1>7. root \in CogGoal /\ child \in CogGoal
  BY <1>4, <1>5, <1>6 DEF CogGoal, CogIntents
<1>8. \A S : CG!Cardinality(S) = Cardinality(S)
  BY DEF CG!Cardinality, Cardinality
<1>9. /\ root.id = nextId + 1 /\ root.subs = subs
      /\ child.id = nextId + 2 /\ child.subs = {} /\ child.parent = nextId + 1 /\ child # root
  BY DEF root, child
<1> HIDE DEF root, child, tree, subs, p, s
<1>11. CASE s = <<>>
  <2>1. new = {root} /\ root.subs = {} /\ ids = {nextId + 1}
    BY <1>3, <1>0, <1>9, <1>11
  <2>2. Cardinality(new) = 1 /\ Cardinality(root.subs) = 0
    BY <2>1, FS_Singleton, FS_EmptySet
  <2>3. /\ new \subseteq CogGoal /\ {n.id : n \in new} = ids
        /\ \A m, n \in new : m.id = n.id => m = n
        /\ \A n \in new : n.subs \subseteq ids
        /\ \A m, n \in new : n.id \in m.subs => n.parent = m.id
    BY <1>7, <1>9, <2>1
  <2>4. ids \subseteq 1..(nextId + Cardinality(new))
    BY <2>1, <2>2
  <2> QED
    BY <1>1, <1>8, <1>9, <2>1, <2>2, <2>3, <2>4 DEF tree, new, ids
<1>12. CASE s # <<>>
  <2>1. new = {root, child} /\ root.subs = {nextId + 2} /\ ids = {nextId + 1, nextId + 2}
    BY <1>3, <1>0, <1>9, <1>12
  <2>2. Cardinality(new) = 2
    BY <1>9, <2>1, TwoElements
  <2>3. Cardinality(root.subs) = 1
    BY <2>1, FS_Singleton
  <2>4. new \subseteq CogGoal
    BY <1>7, <2>1
  <2>8. {n.id : n \in new} = ids
    BY <1>9, <2>1
  <2>9. /\ tree.root \in new
        /\ \A n \in new : n.subs \subseteq ids
    BY <1>1, <1>9, <2>1
  <2>5. \A m, n \in new : m.id = n.id => m = n
    BY <1>9, <2>1
  <2>6. \A m, n \in new : n.id \in m.subs => n.parent = m.id
    BY <1>9, <2>1
  <2>7. ids \subseteq 1..(nextId + Cardinality(new))
    BY <2>1, <2>2
  <2> QED
    <3>1. /\ tree.root.id = nextId + 1
          /\ Cardinality(new) \in Nat /\ CG!Cardinality(new) = Cardinality(new)
          /\ tree.root.id + Cardinality(tree.root.subs) = nextId + Cardinality(new)
      BY <1>1, <1>8, <1>9, <2>2, <2>3
    <3> QED
      BY <2>4, <2>5, <2>6, <2>7, <2>8, <2>9, <3>1 DEF tree, new, ids
<1> QED
  BY <1>11, <1>12

-----------------------------------------------------------------------------
(* The new goals have numbers that no goal had, and point at each other.     *)
LEMMA CogResolves == CogInv /\ CG!Resolve => CogInv'
<1> SUFFICES ASSUME CogInv, CG!Resolve PROVE CogInv'
  OBVIOUS
<1>1. CogType /\ CogContext /\ CogProgress /\ CogGoals
  BY DEF CogInv
<1>2. thinking = 3 /\ context.intent # <<>> /\ nextId \in Nat
  BY <1>1 DEF CG!Resolve, CG!Needs, CG!None, CogType
<1> DEFINE intent == CG!The(context.intent)
           tree == CG!Hierarchy(intent)
           new == NewGoals(intent)
           ids == NewIds(intent)
           kept(g) == IF \E n \in new : n.id = g THEN CHOOSE n \in new : n.id = g
                      ELSE activeGoals[g]
<1>3. intent.primary \in KernelIntents /\ intent.subs \in {<<>>, <<"debug">>}
  <2>1. PICK p \in KernelIntents, s \in {<<>>, <<"debug">>} :
           context.intent = <<[primary |-> p, subs |-> s]>>
    BY <1>1, <1>2 DEF CogContext
  <2> QED
    BY <2>1 DEF CG!The
<1> HIDE DEF intent
<1>4. /\ new \subseteq CogGoal /\ {n.id : n \in new} = ids
      /\ \A m, n \in new : m.id = n.id => m = n
      /\ \A n \in new : n.subs \subseteq ids
      /\ \A m, n \in new : n.id \in m.subs => n.parent = m.id
      /\ tree.root \in new /\ tree.root.id = nextId + 1
      /\ Cardinality(new) \in Nat /\ CG!Cardinality(new) = Cardinality(new)
      /\ tree.root.id + Cardinality(tree.root.subs) = nextId + Cardinality(new)
      /\ ids \subseteq 1..(nextId + Cardinality(new))
  BY <1>2, <1>3, TreeFacts
<1>7. /\ CogFills(3, "goals", tree) /\ nextId' = nextId + Cardinality(new)
      /\ activeGoals' = [g \in DOMAIN activeGoals \cup ids |-> kept(g)]
      /\ UNCHANGED <<policies, experiences>>
  <2>1. /\ CG!Filled([context EXCEPT !.goals = <<tree>>])
        /\ nextId' = nextId + CG!Cardinality(new)
        /\ activeGoals' = [g \in DOMAIN activeGoals \cup {n.id : n \in new} |-> kept(g)]
        /\ UNCHANGED <<policies, experiences>>
    BY Zenon DEF CG!Resolve, intent, NewGoals
  <2> HIDE DEF tree, new, ids, kept
  <2>2. CogFills(3, "goals", tree)
    BY <1>2, <2>1 DEF CG!Filled, CG!Goes, CogFills
  <2> QED
    BY <1>4, <2>1, <2>2, Zenon
<1> HIDE DEF tree, new, ids, kept
<1>8. CogStage(3, "goals", tree)
  BY <1>2 DEF CogStage
<1>9. context'.goals = <<tree>> /\ \A g \in CogFieldNames \ {"goals"} : context'[g] = context[g]
  BY <1>1, <1>7, FillsFacts DEF CogFieldNames
<1>10. /\ context'.plan = <<>> /\ context'.decision = <<>> /\ context'.verdict = <<>>
       /\ context'.intent = context.intent
  BY <1>1, <1>2, <1>9 DEF CogProgress, CogUnfilled, CogMissing, CogAnswered, Through, CogFieldNames
<1>11. CogType'
  <2>1. nextId' \in Nat /\ experiences' \in Seq(CogExperience) /\ UNCHANGED policies
    BY <1>1, <1>2, <1>4, <1>7 DEF CogType
  <2> QED
    BY <1>7, <2>1, CogFillsType DEF CogFieldNames
<1>12. CogContext'
  <2>1. context'.goals[1] = tree
    BY <1>9
  <2>2. tree.root.type \in CogKinds /\ tree.root.id \in Nat
    BY <1>4 DEF CogGoal
  <2>3. context'.intent # <<>> =>
          \E q \in KernelIntents, r \in {<<>>, <<"debug">>} :
             context'.intent = <<[primary |-> q, subs |-> r]>>
    BY <1>1, <1>10 DEF CogContext
  <2> QED
    BY <1>4, <1>7, <1>10, <2>1, <2>2, <2>3 DEF CogContext
<1>13. CogProgress'
  BY <1>7, <1>8, CogFillsProgress DEF CogFieldNames
<1>14. thinking' = 4 /\ requests' = requests
  BY <1>7 DEF CogFills
<1>15. CogExperiences' /\ CogDenials'
  BY <1>2, <1>7, <1>14 DEF CogInv, CogExperiences, CogDenials
<1>16. CogGoals'
  <2>1. DOMAIN activeGoals' = DOMAIN activeGoals \cup ids
    BY <1>7
  <2>2. DOMAIN activeGoals \subseteq 1..nextId
    BY <1>1 DEF CogGoals
  <2>3. \A g \in ids : g \notin DOMAIN activeGoals
    BY <1>2, <2>2 DEF ids, NewIds
  <2>4. \A g \in ids : \E n \in new : n.id = g
    BY <1>4
  <2>5. \A g \in ids : kept(g) \in new /\ kept(g).id = g
    <3> SUFFICES ASSUME NEW g \in ids PROVE kept(g) \in new /\ kept(g).id = g
      OBVIOUS
    <3>1. \E n \in new : n.id = g
      BY <2>4
    <3> QED
      BY <3>1, Zenon DEF kept
  <2>6. \A g \in DOMAIN activeGoals : kept(g) = activeGoals[g]
    <3> SUFFICES ASSUME NEW g \in DOMAIN activeGoals PROVE kept(g) = activeGoals[g]
      OBVIOUS
    <3>1. ~ \E n \in new : n.id = g
      BY <1>4, <2>3
    <3> QED
      BY <3>1, Zenon DEF kept
  <2>7. /\ \A g \in ids : activeGoals'[g] = kept(g)
        /\ \A g \in DOMAIN activeGoals : activeGoals'[g] = activeGoals[g]
    BY <1>7, <2>6
  <2>8. activeGoals' \in [DOMAIN activeGoals' -> CogGoal]
    <3>1. \A g \in ids : activeGoals'[g] \in CogGoal
      BY <1>4, <2>5, <2>7
    <3>2. \A g \in DOMAIN activeGoals : activeGoals'[g] \in CogGoal
      BY <1>1, <2>7 DEF CogGoals
    <3>3. activeGoals' = [g \in DOMAIN activeGoals' |-> activeGoals'[g]]
      BY <1>7
    <3> QED
      BY <2>1, <3>1, <3>2, <3>3
  <2>9. DOMAIN activeGoals' \subseteq 1..nextId'
    <3>1. 1..nextId \subseteq 1..nextId' /\ ids \subseteq 1..nextId'
      BY <1>2, <1>4, <1>7
    <3> QED
      BY <2>1, <2>2, <3>1
  <2>10. ASSUME NEW g \in ids
         PROVE  /\ activeGoals'[g].id = g
                /\ activeGoals'[g].subs \subseteq DOMAIN activeGoals'
                /\ \A h \in activeGoals'[g].subs : activeGoals'[h].parent = g
    <3>1. activeGoals'[g] \in new /\ activeGoals'[g].id = g /\ activeGoals'[g].subs \subseteq ids
      BY <1>4, <2>5, <2>7
    <3>2. \A h \in ids : activeGoals'[h] \in new /\ activeGoals'[h].id = h
      BY <2>5, <2>7
    <3>3. activeGoals'[g].subs \subseteq DOMAIN activeGoals'
      BY <2>1, <3>1
    <3>4. ASSUME NEW h \in activeGoals'[g].subs PROVE activeGoals'[h].parent = g
      <4>1. activeGoals'[h] \in new /\ activeGoals'[h].id = h
        BY <3>1, <3>2
      <4> QED
        BY <1>4, <3>1, <4>1
    <3> QED
      BY <3>1, <3>3, <3>4
  <2>11. ASSUME NEW g \in DOMAIN activeGoals
         PROVE  /\ activeGoals'[g].id = g
                /\ activeGoals'[g].subs \subseteq DOMAIN activeGoals'
                /\ \A h \in activeGoals'[g].subs : activeGoals'[h].parent = g
    <3>1. /\ activeGoals[g].id = g /\ activeGoals[g].subs \subseteq DOMAIN activeGoals
          /\ \A h \in activeGoals[g].subs : activeGoals[h].parent = g
      BY <1>1 DEF CogGoals
    <3> QED
      BY <2>1, <2>7, <3>1
  <2> QED
    BY <2>1, <2>8, <2>9, <2>10, <2>11 DEF CogGoals
<1> QED
  BY <1>11, <1>12, <1>13, <1>15, <1>16 DEF CogInv

(* Every step of the stages keeps the invariant.                             *)
LEMMA CogStep == CogInv /\ [CG!Next]_(CG!vars) => CogInv'
<1> SUFFICES ASSUME CogInv, [CG!Next]_(CG!vars) PROVE CogInv'
  OBVIOUS
<1>1. CASE CG!Begin
  BY <1>1, CogBegins
<1>2. CASE CG!StageFails
  BY <1>2, CogFails
<1>3. ASSUME NEW r \in KernelRules, CG!RegisterRule(r) PROVE CogInv'
  BY <1>3, CogRegisters
<1>4. ASSUME NEW g \in 1..nextId, CG!UpdateProgress(g) PROVE CogInv'
  BY <1>4, CogProgresses
<1>5. CASE CG!Perceive \/ CG!Reason \/ CG!Reflect \/ CG!Respond
  BY <1>5, CogQuietStages
<1>6. CASE CG!Understand
  BY <1>6, CogUnderstands
<1>7. CASE CG!Resolve
  BY <1>7, CogResolves
<1>8. CASE CG!CreatePlan
  BY <1>8, CogPlans
<1>9. CASE CG!Decide
  BY <1>9, CogDecides
<1>10. CASE CG!EvaluatePolicy
  BY <1>10, CogEvaluates
<1>11. CASE CG!Record
  BY <1>11, CogRecords
<1>12. CASE UNCHANGED CG!vars
  <2>1. UNCHANGED <<context, thinking, onFailure, lost, requests, activeGoals, nextId,
                    policies, experiences>>
    BY <1>12 DEF CG!vars
  <2>2. CogType' /\ CogContext'
    BY <2>1 DEF CogInv, CogType, CogContext, Shaped
  <2>3. CogProgress'
    BY <2>1 DEF CogInv, CogProgress, CogUnfilled, CogMissing, CogAnswered, Through, CG!Denied
  <2>4. CogGoals' /\ CogExperiences' /\ CogDenials'
    BY <2>1 DEF CogInv, CogGoals, CogExperiences, CogDenials
  <2> QED
    BY <2>2, <2>3, <2>4 DEF CogInv
<1> QED
  BY <1>1, <1>2, <1>3, <1>4, <1>5, <1>6, <1>7, <1>8, <1>9, <1>10, <1>11, <1>12 DEF CG!Next

-----------------------------------------------------------------------------
(***************************************************************************)
(* KernelMemory: what is promoted is remembered, and found.                *)
(***************************************************************************)
(* A finite set whose members' keys are numbers, and differ.                 *)
Keyed(S, key) ==
    /\ IsFiniteSet(S)
    /\ \A x \in S : key[x][1] \in Int /\ key[x][2] \in Int /\ key[x][3] \in Int
    /\ \A x, y \in S : x # y => \E n \in {1, 2, 3} : key[x][n] # key[y][n]

(* How many come before a member of the set.                                 *)
Rank(S, key, x) == Cardinality(ME!Ahead(S, key, x))

LEMMA MemCardinality == \A S : ME!Cardinality(S) = Cardinality(S) /\ (ME!IsFiniteSet(S) <=> IsFiniteSet(S))
BY DEF ME!Cardinality, Cardinality, ME!IsFiniteSet, IsFiniteSet

(* The keys are a total order.                                               *)
LEMMA KeysOrder ==
    ASSUME NEW S, NEW key, Keyed(S, key)
    PROVE  /\ \A x \in S : ~ME!Less(key[x], key[x])
           /\ \A x, y, z \in S : ME!Less(key[x], key[y]) /\ ME!Less(key[y], key[z]) => ME!Less(key[x], key[z])
           /\ \A x, y \in S : x # y => ME!Less(key[x], key[y]) \/ ME!Less(key[y], key[x])
BY DEF Keyed, ME!Less

(* So the ranks are the numbers from 0 on, each of one member.               *)
LEMMA RanksGrow ==
    ASSUME NEW S, NEW key, Keyed(S, key)
    PROVE  /\ \A x \in S : Rank(S, key, x) \in 0..(Cardinality(S) - 1)
           /\ \A x, y \in S : ME!Less(key[x], key[y]) => Rank(S, key, x) < Rank(S, key, y)
<1>1. IsFiniteSet(S) /\ Cardinality(S) \in Nat
  BY FS_CardinalityType DEF Keyed
<1>2. ASSUME NEW x \in S
      PROVE  /\ IsFiniteSet(ME!Ahead(S, key, x)) /\ Rank(S, key, x) \in Nat
             /\ x \notin ME!Ahead(S, key, x) /\ ME!Ahead(S, key, x) \subseteq S
  <2>1. ME!Ahead(S, key, x) \subseteq S
    BY DEF ME!Ahead
  <2>2. x \notin ME!Ahead(S, key, x)
    BY KeysOrder DEF ME!Ahead
  <2> QED
    BY <1>1, <2>1, <2>2, FS_Subset, FS_CardinalityType DEF Rank
<1>3. ASSUME NEW x \in S PROVE Rank(S, key, x) < Cardinality(S)
  <2>1. ME!Ahead(S, key, x) # S
    BY <1>2, <1>3
  <2> QED
    BY <1>1, <1>2, <2>1, FS_Subset DEF Rank
<1>4. ASSUME NEW x \in S, NEW y \in S, ME!Less(key[x], key[y])
      PROVE  Rank(S, key, x) < Rank(S, key, y)
  <2>1. ME!Ahead(S, key, x) \cup {x} \subseteq ME!Ahead(S, key, y)
    BY <1>4, KeysOrder DEF ME!Ahead
  <2>2. /\ IsFiniteSet(ME!Ahead(S, key, x) \cup {x})
        /\ Cardinality(ME!Ahead(S, key, x) \cup {x}) = Rank(S, key, x) + 1
    BY <1>2, FS_AddElement DEF Rank
  <2>3. Rank(S, key, x) + 1 <= Rank(S, key, y)
    BY <1>2, <2>1, <2>2, FS_Subset DEF Rank
  <2> QED
    BY <1>2, <2>3
<1> QED
  BY <1>1, <1>2, <1>3, <1>4

(* No two members have one rank,                                             *)
LEMMA RanksApart ==
    ASSUME NEW S, NEW key, Keyed(S, key), NEW x \in S, NEW y \in S,
           Rank(S, key, x) = Rank(S, key, y)
    PROVE  x = y
<1>1. \A z \in S : Rank(S, key, z) \in Int
  BY RanksGrow, FS_CardinalityType DEF Keyed
<1>2. ~ME!Less(key[x], key[y]) /\ ~ME!Less(key[y], key[x])
  BY <1>1, RanksGrow
<1> QED
  BY <1>2, KeysOrder

(* so numbering the members by rank is one to one,                           *)
LEMMA RanksNumber ==
    ASSUME NEW S, NEW key, Keyed(S, key)
    PROVE  [x \in S |-> Rank(S, key, x) + 1] \in Bijection(S, 1..Cardinality(S))
<1> DEFINE N == Cardinality(S)
           f == [x \in S |-> Rank(S, key, x) + 1]
<1>1. IsFiniteSet(S) /\ N \in Nat
  BY FS_CardinalityType DEF Keyed
<1>2. \A x \in S : Rank(S, key, x) \in 0..(N - 1)
  BY RanksGrow
<1>3. f \in Injection(S, 1..N)
  <2>1. f \in [S -> 1..N]
    BY <1>1, <1>2
  <2>2. ASSUME NEW x \in S, NEW y \in S, f[x] = f[y] PROVE x = y
    <3>1. Rank(S, key, x) = Rank(S, key, y)
      BY <1>1, <1>2, <2>2
    <3> QED
      BY <3>1, RanksApart
  <2> HIDE DEF f
  <2> QED
    BY <2>1, <2>2 DEF Injection, IsInjective
<1>4. IsFiniteSet(1..N) /\ Cardinality(1..N) = N
  BY <1>1, FS_Interval
<1>5. f \in Surjection(S, 1..N)
  <2> HIDE DEF f
  <2> QED
    BY <1>3, <1>4, FS_Injection
<1> HIDE DEF f
<1> QED
  BY <1>3, <1>5 DEF Bijection, f

(* and every number is the rank of one.                                      *)
LEMMA RanksMet ==
    ASSUME NEW S, NEW key, Keyed(S, key), NEW n \in 1..Cardinality(S)
    PROVE  \E x \in S : Rank(S, key, x) = n - 1
<1> DEFINE f == [x \in S |-> Rank(S, key, x) + 1]
<1>1. Cardinality(S) \in Nat
  BY FS_CardinalityType DEF Keyed
<1>2. \A x \in S : Rank(S, key, x) \in 0..(Cardinality(S) - 1)
  BY RanksGrow
<1>3. f \in Surjection(S, 1..Cardinality(S))
  BY RanksNumber DEF Bijection
<1>4. PICK x \in S : f[x] = n
  BY <1>3 DEF Surjection
<1> QED
  BY <1>1, <1>2, <1>4

(* A set in the order of its keys.                                           *)
LEMMA SortIsRight ==
    ASSUME NEW S, NEW key, Keyed(S, key), NEW s, s = ME!InOrder(S, key)
    PROVE  /\ DOMAIN s = 1..Cardinality(S) /\ Cardinality(DOMAIN s) = Cardinality(S)
           /\ ME!Range(s) = S
           /\ \A i, j \in DOMAIN s : i < j => ME!Less(key[s[i]], key[s[j]])
<1>1. IsFiniteSet(S) /\ Cardinality(S) \in Nat
  BY FS_CardinalityType DEF Keyed
<1>2. s = [n \in 1..Cardinality(S) |-> CHOOSE x \in S : Rank(S, key, x) = n - 1]
  BY MemCardinality DEF ME!InOrder, Rank
<1>3. \A n \in 1..Cardinality(S) : s[n] \in S /\ Rank(S, key, s[n]) = n - 1
  <2> SUFFICES ASSUME NEW n \in 1..Cardinality(S) PROVE s[n] \in S /\ Rank(S, key, s[n]) = n - 1
    OBVIOUS
  <2>1. s[n] = CHOOSE x \in S : Rank(S, key, x) = n - 1
    BY <1>2
  <2>2. \E x \in S : Rank(S, key, x) = n - 1
    BY RanksMet
  <2> QED
    BY <2>1, <2>2, Zenon
<1>4. DOMAIN s = 1..Cardinality(S) /\ Cardinality(DOMAIN s) = Cardinality(S)
  BY <1>1, <1>2, FS_Interval
<1>5. ME!Range(s) = S
  <2>1. ASSUME NEW x \in S PROVE \E n \in DOMAIN s : s[n] = x
    <3>1. Rank(S, key, x) \in 0..(Cardinality(S) - 1)
      BY RanksGrow
    <3> DEFINE n == Rank(S, key, x) + 1
    <3>2. n \in 1..Cardinality(S) /\ n - 1 = Rank(S, key, x)
      BY <1>1, <3>1
    <3>3. Rank(S, key, s[n]) = Rank(S, key, x) /\ s[n] \in S
      BY <1>3, <3>2
    <3> QED
      BY <1>4, <3>2, <3>3, RanksApart
  <2> QED
    BY <1>3, <1>4, <2>1 DEF ME!Range
<1>6. ASSUME NEW i \in DOMAIN s, NEW j \in DOMAIN s, i < j PROVE ME!Less(key[s[i]], key[s[j]])
  <2>1. /\ s[i] \in S /\ s[j] \in S
        /\ Rank(S, key, s[i]) < Rank(S, key, s[j]) /\ Rank(S, key, s[i]) \in Nat /\ Rank(S, key, s[j]) \in Nat
    BY <1>1, <1>3, <1>4, <1>6
  <2>2. s[i] # s[j] /\ ~ME!Less(key[s[j]], key[s[i]])
    BY <2>1, RanksGrow
  <2> QED
    BY <2>1, <2>2, KeysOrder
<1> QED
  BY <1>4, <1>5, <1>6

(* The first of a set: as many as were asked for, if there are as many.       *)
LEMMA FirstCount ==
    ASSUME NEW S, NEW key, Keyed(S, key), NEW n \in 0..Cardinality(S)
    PROVE  Cardinality(ME!First(S, key, n)) = n
<1> DEFINE F == ME!First(S, key, n)
           N == Cardinality(S)
           f == [x \in F |-> Rank(S, key, x) + 1]
<1>1. IsFiniteSet(S) /\ N \in Nat
  BY FS_CardinalityType DEF Keyed
<1>2. \A x \in S : Rank(S, key, x) \in 0..(N - 1)
  BY RanksGrow
<1>3. F = {x \in S : Rank(S, key, x) < n}
  BY MemCardinality DEF ME!First, Rank
<1> HIDE DEF F
<1>4. F \subseteq S /\ IsFiniteSet(F)
  BY <1>1, <1>3, FS_Subset
<1>5. f \in [F -> 1..n]
  BY <1>1, <1>2, <1>3
<1>6. ASSUME NEW x \in F, NEW z \in F, f[x] = f[z] PROVE x = z
  <2>1. x \in S /\ z \in S /\ Rank(S, key, x) = Rank(S, key, z)
    BY <1>2, <1>4, <1>6
  <2> QED
    BY <2>1, RanksApart
<1>7. ASSUME NEW k \in 1..n PROVE \E x \in F : f[x] = k
  <2>1. k \in 1..N
    BY <1>1
  <2>2. PICK x \in S : Rank(S, key, x) = k - 1
    BY <2>1, RanksMet
  <2>3. x \in F
    BY <1>3, <2>2
  <2> QED
    BY <2>2, <2>3
<1> HIDE DEF f
<1>8. f \in Bijection(F, 1..n)
  BY <1>5, <1>6, <1>7 DEF Bijection, Injection, Surjection, IsInjective
<1>9. ExistsBijection(F, 1..n)
  BY <1>8 DEF ExistsBijection
<1>10. Cardinality(1..n) = n
  BY <1>1, FS_Interval
<1> QED
  BY <1>4, <1>9, <1>10, FS_Bijection DEF F

(* They come before the others; where there are others, there are as many    *)
(* before each as were asked for.                                            *)
LEMMA FirstIsRight ==
    ASSUME NEW S, NEW key, Keyed(S, key), NEW n \in Int
    PROVE  /\ ME!First(S, key, n) \subseteq S /\ Keyed(ME!First(S, key, n), key)
           /\ \A x \in ME!First(S, key, n), y \in S \ ME!First(S, key, n) : ME!Less(key[x], key[y])
           /\ \A y \in S \ ME!First(S, key, n) : Rank(S, key, y) >= n
           /\ ME!First(S, key, n) # S /\ n >= 0 => Cardinality(ME!First(S, key, n)) = n
<1> DEFINE F == ME!First(S, key, n)
<1>1. IsFiniteSet(S) /\ Cardinality(S) \in Nat
  BY FS_CardinalityType DEF Keyed
<1>2. \A x \in S : Rank(S, key, x) \in 0..(Cardinality(S) - 1)
  BY RanksGrow
<1>3. F = {x \in S : Rank(S, key, x) < n}
  BY MemCardinality DEF ME!First, Rank
<1> HIDE DEF F
<1>4. F \subseteq S /\ IsFiniteSet(F)
  BY <1>1, <1>3, FS_Subset
<1>5. Keyed(F, key)
  BY <1>4 DEF Keyed
<1>6. \A y \in S \ F : Rank(S, key, y) >= n
  BY <1>2, <1>3
<1>7. ASSUME NEW x \in F, NEW y \in S \ F PROVE ME!Less(key[x], key[y])
  <2>1. /\ x \in S /\ y \in S /\ Rank(S, key, x) < Rank(S, key, y)
        /\ Rank(S, key, x) \in Int /\ Rank(S, key, y) \in Int
    BY <1>2, <1>3, <1>6
  <2>2. x # y /\ ~ME!Less(key[y], key[x])
    BY <2>1, RanksGrow
  <2> QED
    BY <2>1, <2>2, KeysOrder
<1>8. ASSUME F # S, n >= 0 PROVE Cardinality(F) = n
  <2>1. PICK y \in S : y \notin F
    BY <1>4, <1>8
  <2>2. n \in 0..Cardinality(S)
    BY <1>1, <1>2, <1>6, <1>8, <2>1
  <2> QED
    BY <2>2, FirstCount DEF F
<1> QED
  BY <1>4, <1>5, <1>6, <1>7, <1>8 DEF F

-----------------------------------------------------------------------------
(* What the store holds.                                                     *)
MemRecord ==
    [tier : {"short", "long"}, session : {note.session : note \in KernelNotes},
     words : ME!Finite(ME!Words), tags : ME!Finite(ME!Tags),
     importance : Nat, accesses : Nat, timestamp : Nat]

(* The prune's promise, as long as nothing else has happened.                *)
PrunedOldest ==
    DOMAIN pruned # {} =>
      /\ Cardinality(ME!ShortTerm) = MemoryCapacity
      /\ \A id \in DOMAIN pruned, left \in ME!ShortTerm :
           records[left].timestamp >= pruned[id].timestamp

MemInv ==
    /\ counter \in Nat /\ clock \in Nat
    /\ ME!Ids \subseteq 1..counter
    /\ records \in [ME!Ids -> MemRecord]
    /\ \A id \in promoted : id \in ME!Ids /\ records[id].tier = "long"
    /\ PrunedOldest

(* A score is a number, and 0 only where neither a word nor a tag is found.  *)
LEMMA ScoreIsRight ==
    ASSUME NEW r \in MemRecord, NEW query, IsFiniteSet(query.words), IsFiniteSet(query.tags)
    PROVE  /\ ME!Score(r, query) \in Nat
           /\ ME!Score(r, query) = 0 => query.words \cap r.words = {} /\ query.tags \cap r.tags = {}
<1> DEFINE words  == Cardinality(query.words)
           tags   == Cardinality(query.tags)
           found  == Cardinality(query.words \cap r.words)
           tagged == Cardinality(query.tags \cap r.tags)
           W == IF words = 0 THEN 1 ELSE words
           T == IF tags = 0 THEN 1 ELSE tags
<1>1. IsFiniteSet(query.words \cap r.words) /\ IsFiniteSet(query.tags \cap r.tags)
  BY FS_Intersection
<1>2. words \in Nat /\ tags \in Nat /\ found \in Nat /\ tagged \in Nat
  BY <1>1, FS_CardinalityType
<1>3. /\ found = 0 => query.words \cap r.words = {}
      /\ tagged = 0 => query.tags \cap r.tags = {}
  BY <1>1, FS_EmptySet
<1>4. W \in Nat \ {0} /\ T \in Nat \ {0} /\ r.importance \in Nat
  BY <1>2 DEF MemRecord
<1>5. ME!Score(r, query) = IF found = 0 /\ tagged = 0 THEN 0
                           ELSE 70 * found * T + 20 * tagged * W + r.importance * W * T
  BY MemCardinality DEF ME!Score
<1> HIDE DEF words, tags, found, tagged, W, T
<1>6. \A a, b \in Nat : a * b \in Nat /\ (a > 0 /\ b > 0 => a * b > 0)
  OBVIOUS
<1>7. /\ 70 * found \in Nat /\ 20 * tagged \in Nat /\ r.importance * W \in Nat
      /\ (found > 0 => 70 * found > 0) /\ (tagged > 0 => 20 * tagged > 0)
  BY <1>2, <1>4, <1>6
<1>8. /\ 70 * found * T \in Nat /\ 20 * tagged * W \in Nat /\ r.importance * W * T \in Nat
      /\ (found > 0 => 70 * found * T > 0) /\ (tagged > 0 => 20 * tagged * W > 0)
  BY <1>4, <1>6, <1>7
<1> QED
  BY <1>2, <1>3, <1>5, <1>8

(* The orders the engine sorts by are orders by keys.                        *)
LEMMA KeysAreKeys ==
    ASSUME MemInv, NEW S, S \subseteq ME!Ids
    PROVE  /\ IsFiniteSet(S)
           /\ Keyed(S, ME!NewestFirst) /\ Keyed(S, ME!OldestFirst)
           /\ \A query : IsFiniteSet(query.words) /\ IsFiniteSet(query.tags) => Keyed(S, ME!BestFirst(query))
<1>1. IsFiniteSet(S)
  <2>1. counter \in Int /\ 1 \in Int /\ S \subseteq 1..counter
    BY DEF MemInv
  <2>2. IsFiniteSet(1..counter)
    BY <2>1, FS_Interval
  <2> QED
    BY <2>1, <2>2, FS_Subset
<1>2. \A id \in S : id \in ME!Ids /\ id \in Int /\ records[id] \in MemRecord /\ records[id].timestamp \in Nat
  BY DEF MemInv, MemRecord
<1>3. Keyed(S, ME!NewestFirst)
  BY <1>1, <1>2 DEF Keyed, ME!NewestFirst
<1>4. Keyed(S, ME!OldestFirst)
  BY <1>1, <1>2 DEF Keyed, ME!OldestFirst
<1>5. ASSUME NEW query, IsFiniteSet(query.words), IsFiniteSet(query.tags)
      PROVE  Keyed(S, ME!BestFirst(query))
  <2>1. \A id \in S : ME!Score(records[id], query) \in Nat
    BY <1>2, <1>5, ScoreIsRight
  <2> QED
    BY <1>1, <1>2, <2>1 DEF Keyed, ME!BestFirst
<1> QED
  BY <1>1, <1>3, <1>4, <1>5


(* What a search looks at.                                                   *)
Asked(tier, session) ==
    {id \in ME!Ids : tier \in {ME!Either, records[id].tier} /\ session \in {ME!Either, records[id].session}}

Query(tier, session, words, tags) ==
    [tier |-> tier, session |-> session, words |-> words, tags |-> tags]

Looked(tier, session) == ME!First(Asked(tier, session), ME!NewestFirst, MemoryWindow)

Hits(tier, session, query) == {id \in Looked(tier, session) : ME!Score(records[id], query) > 0}

LEMMA SearchIs ==
    ASSUME MemInv, NEW tier, NEW session, NEW words, NEW tags, NEW limit,
           NEW query, query = Query(tier, session, words, tags)
    PROVE  ME!Search(query, limit) =
             ME!InOrder(ME!First(Hits(tier, session, query), ME!BestFirst(query), limit), ME!BestFirst(query))
<1> DEFINE bare == [query EXCEPT !.tags = {}]
<1>1. ME!Matching(bare) = Asked(tier, session)
  <2>1. bare = Query(tier, session, words, {})
    BY DEF Query
  <2> HIDE DEF bare
  <2> QED
    BY <2>1 DEF ME!Matching, Asked, Query
<1>2. Keyed(Asked(tier, session), ME!NewestFirst)
  BY KeysAreKeys DEF Asked
<1>3. MemoryWindow \in Int
  BY PlatformAssumption DEF ME!MemoryAssumption
<1>4. Keyed(Looked(tier, session), ME!NewestFirst)
  BY <1>2, <1>3, FirstIsRight DEF Looked
<1>5. ME!Range(ME!Retrieved(bare, MemoryWindow)) = Looked(tier, session)
  <2>1. ME!Retrieved(bare, MemoryWindow) = ME!InOrder(Looked(tier, session), ME!NewestFirst)
    BY <1>1 DEF ME!Retrieved, Looked
  <2> QED
    BY <1>4, <2>1, SortIsRight
<1> HIDE DEF bare
<1> QED
  BY <1>5 DEF ME!Search, Hits, bare

(* SearchRanked: what a search finds is ranked, and what it misses is not    *)
(* about the query, is no better than what fills the limit, or is older than *)
(* the window.                                                               *)
LEMMA SearchIsRanked ==
    ASSUME MemInv
    PROVE  ME!SearchRanked
<1> SUFFICES ASSUME NEW words \in ME!Finite(ME!Words), NEW tags \in ME!Finite(ME!Tags), NEW limit \in 1..2,
                    NEW tier, NEW session
             PROVE  ME!Ranked(Query(tier, session, words, tags), limit)
  BY DEF ME!SearchRanked, Query
<1> DEFINE query == Query(tier, session, words, tags)
           answer == ME!Search(query, limit)
           all == Asked(tier, session)
           found == ME!Range(answer)
<1>0. all = {id \in ME!Ids : /\ query.tier \in {ME!Either, records[id].tier}
                             /\ query.session \in {ME!Either, records[id].session}}
  BY DEF Asked, Query
<1> HIDE DEF query, answer, all, found
<1> DEFINE L == Looked(tier, session)
           H == Hits(tier, session, query)
           best == ME!BestFirst(query)
           new == ME!NewestFirst
<1>1. /\ all \subseteq ME!Ids /\ IsFiniteSet(query.words) /\ IsFiniteSet(query.tags)
      /\ query.words = words /\ query.tags = tags /\ MemoryWindow \in Nat /\ limit \in Int /\ limit >= 0
  BY PlatformAssumption, MemCardinality DEF Asked, Query, ME!Finite, ME!MemoryAssumption, all, query
<1>2. \A id \in ME!Ids : /\ records[id] \in MemRecord /\ records[id].timestamp \in Nat /\ id \in Nat
                         /\ ME!Score(records[id], query) \in Nat
  <2>1. \A id \in ME!Ids : records[id] \in MemRecord /\ records[id].timestamp \in Nat /\ id \in Nat
    BY DEF MemInv, MemRecord
  <2> QED
    BY <1>1, <2>1, ScoreIsRight
<1>3. Keyed(all, new)
  BY <1>1, KeysAreKeys
<1>4. /\ L \subseteq all
      /\ \A id \in all \ L : Rank(all, new, id) >= MemoryWindow
  BY <1>1, <1>3, FirstIsRight DEF Looked, all
<1>5. H \subseteq L /\ \A id \in L \ H : ~(ME!Score(records[id], query) > 0)
  BY DEF Hits
<1>6. Keyed(H, best)
  BY <1>1, <1>4, <1>5, KeysAreKeys
<1> DEFINE F == ME!First(H, best, limit)
<1>7. /\ F \subseteq H /\ Keyed(F, best)
      /\ \A x \in F, y \in H \ F : ME!Less(best[x], best[y])
      /\ F # H => Cardinality(F) = limit
  BY <1>1, <1>6, FirstIsRight
<1>8. answer = ME!InOrder(F, best)
  BY SearchIs DEF answer, query, F, H
<1>9. /\ Cardinality(DOMAIN answer) = Cardinality(F) /\ found = F
      /\ \A i, j \in DOMAIN answer : i < j => ME!Less(best[answer[i]], best[answer[j]])
  BY <1>7, <1>8, SortIsRight DEF found
<1>10. \A id \in ME!Ids : best[id][1] = -ME!Score(records[id], query)
  BY DEF ME!BestFirst
<1>11. \A x, y \in ME!Ids : ME!Less(best[x], best[y]) => ME!Score(records[x], query) >= ME!Score(records[y], query)
  BY <1>2, <1>10 DEF ME!Less
<1> HIDE DEF L, H, best, F
<1>12. found \subseteq all /\ ME!Cardinality(found) = ME!Cardinality(DOMAIN answer)
  BY MemCardinality, <1>4, <1>5, <1>7, <1>9
<1>13. ASSUME NEW i \in DOMAIN answer, NEW j \in DOMAIN answer, i < j
       PROVE  ME!Score(records[answer[i]], query) >= ME!Score(records[answer[j]], query)
  <2>1. answer[i] \in found /\ answer[j] \in found
    BY DEF ME!Range, found
  <2> QED
    BY <1>1, <1>9, <1>11, <1>12, <1>13, <2>1
<1>14. ASSUME NEW id \in all \ found
       PROVE  \/ records[id].words \cap query.words = {} /\ records[id].tags \cap query.tags = {}
              \/ /\ ME!Cardinality(DOMAIN answer) = limit
                 /\ \A s \in found : ME!Score(records[s], query) >= ME!Score(records[id], query)
              \/ ME!Cardinality({s \in all \ {id} : records[s].timestamp >= records[id].timestamp}) >= MemoryWindow
  <2>1. CASE id \notin L
    <3> DEFINE newer == {s \in all \ {id} : records[s].timestamp >= records[id].timestamp}
    <3>1. Rank(all, new, id) >= MemoryWindow
      BY <1>4, <2>1
    <3>2. ME!Ahead(all, new, id) \subseteq newer
      <4> SUFFICES ASSUME NEW s \in all, ME!Less(new[s], new[id])
                   PROVE  s # id /\ records[s].timestamp >= records[id].timestamp
        BY DEF ME!Ahead
      <4>1. /\ new[s] = <<-records[s].timestamp, s, 0>>
            /\ new[id] = <<-records[id].timestamp, id, 0>>
        BY <1>1 DEF ME!NewestFirst
      <4> QED
        BY <1>1, <1>2, <4>1 DEF ME!Less
    <3>3. IsFiniteSet(newer)
      BY <1>3, FS_Subset DEF Keyed
    <3>4. /\ Rank(all, new, id) <= Cardinality(newer)
          /\ Rank(all, new, id) \in Nat /\ Cardinality(newer) \in Nat
      BY <3>2, <3>3, FS_Subset, FS_CardinalityType DEF Rank
    <3> HIDE DEF newer
    <3>5. ME!Cardinality(newer) >= MemoryWindow
      BY <1>1, <3>1, <3>4, MemCardinality
    <3> QED
      BY <3>5 DEF newer
  <2>2. CASE id \in L \ H
    <3>1. ME!Score(records[id], query) = 0 /\ records[id] \in MemRecord
      BY <1>1, <1>2, <1>5, <2>2
    <3>2. query.words \cap records[id].words = {} /\ query.tags \cap records[id].tags = {}
      BY <1>1, <3>1, ScoreIsRight
    <3> QED
      BY <3>2
  <2>3. CASE id \in H
    <3>1. id \in H \ F
      BY <1>9, <2>3
    <3>2. ME!Cardinality(DOMAIN answer) = limit
      BY MemCardinality, <1>7, <1>9, <3>1
    <3>3. \A s \in found : ME!Less(best[s], best[id])
      BY <1>7, <1>9, <3>1
    <3> QED
      BY <1>1, <1>11, <1>12, <3>2, <3>3
  <2> QED
    BY <1>5, <2>1, <2>2, <2>3
<1> QED
  BY <1>0, <1>12, <1>13, <1>14 DEF ME!Ranked, query, answer, all, found

(* The inductive invariant holds of an empty store                           *)
LEMMA MemInit ==
    ASSUME ME!Init
    PROVE  MemInv
BY DEF ME!Init, ME!None, ME!Ids, MemInv, PrunedOldest

(* and is promoted by a prune,                                                   *)
LEMMA MemPrune ==
    ASSUME MemInv, ME!Prune
    PROVE  MemInv'
<1> DEFINE short == ME!ShortTerm
           gone == ME!Excess
           key == ME!OldestFirst
           n == Cardinality(short) - MemoryCapacity
<1>1. /\ records' = [id \in ME!Ids \ gone |-> records[id]] /\ ME!Ids' = ME!Ids \ gone
      /\ pruned' = [id \in gone |-> records[id]] /\ DOMAIN pruned' = gone
      /\ UNCHANGED <<counter, clock, promoted>> /\ gone # {}
  BY DEF ME!Prune, ME!Restrict, ME!Ids
<1>2. /\ short \subseteq ME!Ids /\ Keyed(short, key) /\ IsFiniteSet(short)
      /\ MemoryCapacity \in Nat /\ Cardinality(short) \in Nat
  BY KeysAreKeys, FS_CardinalityType, PlatformAssumption DEF ME!ShortTerm, ME!MemoryAssumption
<1>3. gone = ME!First(short, key, n)
  BY MemCardinality DEF ME!Excess
<1>4. \A id \in short : Rank(short, key, id) \in Nat
  BY <1>2, RanksGrow
<1>5. gone = {id \in short : Rank(short, key, id) < n}
  BY <1>3, MemCardinality DEF ME!First, Rank
<1> HIDE DEF gone, short
<1>6. gone \subseteq short /\ n \in 0..Cardinality(short)
  <2>1. PICK id \in short : Rank(short, key, id) < n
    BY <1>1, <1>5
  <2>2. n > 0
    BY <1>2, <1>4, <2>1
  <2> QED
    BY <1>2, <1>5, <2>2
<1>7. Cardinality(gone) = n /\ IsFiniteSet(gone)
  BY <1>2, <1>3, <1>6, FirstCount, FS_Subset
<1>8. Cardinality(short \ gone) = MemoryCapacity
  <2>1. short \cap gone = gone
    BY <1>6
  <2>2. Cardinality(short \ gone) = Cardinality(short) - Cardinality(gone)
    BY <1>2, <2>1, FS_Difference
  <2> QED
    BY <1>2, <1>7, <2>2
<1>9. ME!ShortTerm' = short \ gone
  BY <1>1 DEF ME!ShortTerm, short
<1>10. ASSUME NEW id \in gone, NEW left \in short \ gone
       PROVE  records[left].timestamp >= records[id].timestamp
  <2>1. ME!Less(key[id], key[left])
    BY <1>2, <1>3, FirstIsRight
  <2>2. /\ key[id] = <<records[id].timestamp, id, 0>> /\ key[left] = <<records[left].timestamp, left, 0>>
        /\ records[id].timestamp \in Nat /\ records[left].timestamp \in Nat
    BY <1>2, <1>6 DEF ME!OldestFirst, MemInv, MemRecord
  <2> HIDE DEF key
  <2> QED
    BY <2>1, <2>2 DEF ME!Less
<1>11. PrunedOldest'
  <2>1. \A left \in ME!ShortTerm' : records'[left] = records[left]
    BY <1>1, <1>2, <1>9
  <2> QED
    BY <1>1, <1>8, <1>9, <1>10, <2>1 DEF PrunedOldest
<1>12. \A id \in promoted : id \in ME!Ids' /\ records'[id].tier = "long"
  BY <1>1, <1>6 DEF MemInv, ME!ShortTerm, short
<1>13. ME!Ids' \subseteq 1..counter /\ records' \in [ME!Ids' -> MemRecord]
  BY <1>1 DEF MemInv
<1> QED
  BY <1>1, <1>11, <1>12, <1>13 DEF MemInv

(* and by every other step.                                                  *)
LEMMA MemStep ==
    ASSUME MemInv, [ME!Next]_(ME!vars)
    PROVE  MemInv'
<1>0. /\ counter \in Nat /\ clock \in Nat /\ ME!Ids \subseteq 1..counter
      /\ records \in [ME!Ids -> MemRecord] /\ DOMAIN records = ME!Ids
      /\ \A id \in promoted : id \in ME!Ids /\ records[id].tier = "long"
  BY DEF MemInv, ME!Ids
<1>1. CASE UNCHANGED ME!vars
  BY <1>1 DEF ME!vars, MemInv, PrunedOldest, ME!Ids, ME!ShortTerm
<1>2. pruned' = ME!None => PrunedOldest'
  BY DEF PrunedOldest, ME!None
<1>3. ASSUME NEW note \in KernelNotes, ME!Remember(note) PROVE MemInv'
  <2>1. PICK tick \in {0, 1} :
          /\ clock' = clock + tick
          /\ records' = [id \in ME!Ids \cup {counter + 1} |->
                 IF id \in ME!Ids THEN records[id]
                 ELSE [tier |-> note.tier, session |-> note.session,
                       words |-> note.words, tags |-> note.tags, importance |-> note.importance,
                       accesses |-> 0, timestamp |-> clock + tick]]
    BY <1>3 DEF ME!Remember
  <2>2. counter' = counter + 1 /\ promoted' = promoted /\ pruned' = ME!None
    BY <1>3 DEF ME!Remember
  <2> DEFINE r == [tier |-> note.tier, session |-> note.session,
                   words |-> note.words, tags |-> note.tags, importance |-> note.importance,
                   accesses |-> 0, timestamp |-> clock + tick]
  <2>3. r \in MemRecord
    <3>1. /\ note.tier \in {"short", "long"} /\ note.importance \in Nat
          /\ note.words \in ME!Finite(ME!Words) /\ note.tags \in ME!Finite(ME!Tags)
      BY PlatformAssumption DEF ME!MemoryAssumption, ME!Finite, ME!Words, ME!Tags
    <3>2. clock + tick \in Nat /\ 0 \in Nat
      BY <1>0
    <3> QED
      BY <3>1, <3>2 DEF MemRecord
  <2> HIDE DEF r
  <2>4. ME!Ids' = ME!Ids \cup {counter + 1}
    BY <2>1 DEF ME!Ids
  <2>5. \A id \in ME!Ids' : records'[id] = IF id \in ME!Ids THEN records[id] ELSE r
    BY <2>1, <2>4 DEF r
  <2>6. records' \in [ME!Ids' -> MemRecord]
    BY <1>0, <2>1, <2>3, <2>4, <2>5
  <2>7. \A id \in promoted' : id \in ME!Ids' /\ records'[id].tier = "long"
    BY <1>0, <2>2, <2>4, <2>5
  <2>8. clock' \in Nat /\ counter' \in Nat /\ ME!Ids' \subseteq 1..counter'
    BY <1>0, <2>1, <2>2, <2>4
  <2> QED
    BY <1>2, <2>2, <2>6, <2>7, <2>8 DEF MemInv
<1>4. ASSUME NEW id \in ME!Ids, ME!Forget(id) PROVE MemInv'
  <2>1. /\ records' = [q \in ME!Ids \ {id} |-> records[q]] /\ ME!Ids' = ME!Ids \ {id}
        /\ promoted' = promoted \ {id} /\ pruned' = ME!None /\ UNCHANGED <<counter, clock>>
    BY <1>4 DEF ME!Forget, ME!Restrict, ME!Ids
  <2> QED
    BY <1>0, <1>2, <2>1 DEF MemInv
<1>5. ASSUME NEW id \in ME!Ids, ME!Touch(id) PROVE MemInv'
  <2>1. /\ records' = [records EXCEPT ![id].accesses = @ + 1] /\ ME!Ids' = ME!Ids
        /\ promoted' = promoted /\ pruned' = ME!None /\ UNCHANGED <<counter, clock>>
    BY <1>5 DEF ME!Touch, ME!Ids
  <2>2. /\ [records[id] EXCEPT !.accesses = @ + 1] \in MemRecord
        /\ [records[id] EXCEPT !.accesses = @ + 1].tier = records[id].tier
    BY <1>0 DEF MemRecord
  <2>3. \A q \in ME!Ids : records'[q] = IF q = id THEN [records[id] EXCEPT !.accesses = @ + 1] ELSE records[q]
    BY <1>0, <2>1
  <2>4. records' \in [ME!Ids' -> MemRecord]
    BY <1>0, <2>1, <2>2, <2>3
  <2>5. \A q \in promoted' : q \in ME!Ids' /\ records'[q].tier = "long"
    BY <1>0, <2>1, <2>2, <2>3
  <2> QED
    BY <1>0, <1>2, <2>1, <2>4, <2>5 DEF MemInv
<1>6. CASE ME!Clear
  <2>1. /\ records' = ME!None /\ ME!Ids' = {}
        /\ promoted' = {} /\ pruned' = ME!None /\ UNCHANGED <<counter, clock>>
    BY <1>6 DEF ME!Clear, ME!Ids, ME!None
  <2> QED
    BY <1>0, <1>2, <2>1 DEF MemInv, ME!None
<1>7. CASE ME!Consolidate
  <2> DEFINE long(r) == [r EXCEPT !.tier = "long"]
  <2>1. /\ records' = [id \in ME!Ids |-> IF ME!Qualifies(records[id]) THEN long(records[id]) ELSE records[id]]
        /\ ME!Ids' = ME!Ids
        /\ promoted' = promoted \cup {id \in ME!Ids : \/ records[id].importance >= MemoryPromotes
                                              \/ records[id].accesses >= MemoryAccesses}
        /\ pruned' = ME!None /\ UNCHANGED <<counter, clock>>
    BY <1>7 DEF ME!Consolidate, ME!Ids
  <2>2. \A r \in MemRecord : long(r) \in MemRecord /\ long(r).tier = "long"
    BY DEF MemRecord
  <2> HIDE DEF long
  <2>3. \A id \in ME!Ids : records'[id] = IF ME!Qualifies(records[id]) THEN long(records[id]) ELSE records[id]
    BY <2>1
  <2>4. records' \in [ME!Ids' -> MemRecord]
    BY <1>0, <2>1, <2>2, <2>3
  <2>5. ASSUME NEW id \in promoted' PROVE id \in ME!Ids' /\ records'[id].tier = "long"
    <3>1. id \in ME!Ids /\ (records[id].tier = "long" \/ ME!Qualifies(records[id]))
      BY <1>0, <2>1 DEF ME!Qualifies
    <3> QED
      BY <1>0, <2>1, <2>2, <2>3, <3>1
  <2> QED
    BY <1>0, <1>2, <2>1, <2>4, <2>5 DEF MemInv
<1>8. CASE ME!Prune
  BY <1>8, MemPrune
<1> QED
  BY <1>1, <1>3, <1>4, <1>5, <1>6, <1>7, <1>8 DEF ME!Next

(* MemorySound of every store: promoted records stay, pruned ones were the   *)
(* oldest, ids are not given out twice and a search is ranked.               *)
LEMMA MemImplies == MemInv => ME!MemorySound
<1> SUFFICES ASSUME MemInv PROVE ME!MemorySound
  OBVIOUS
<1>1. \A id \in ME!Ids : id <= counter
  BY DEF MemInv
<1>2. ME!Summary.short = Cardinality(ME!ShortTerm)
  BY MemCardinality DEF ME!Summary
<1> QED
  BY <1>1, <1>2, SearchIsRanked DEF MemInv, PrunedOldest, ME!MemorySound

-----------------------------------------------------------------------------
(* What the ten stages of the kernel make of a request is of this request,   *)
(* whatever failed before; what is missing is what failed or what needed it; *)
(* goals are kept under their own numbers; no request is recorded twice; a   *)
(* dangerous action stays denied unless a rule of that rank lets it pass     *)
(* (kernel/pipeline/context.py and the engines of kernel).  What memory has  *)
(* promoted stays, prunes take the oldest, and a search misses nothing but   *)
(* what is no better, beside the point or older than its window              *)
(* (kernel/memory/engine.py).                                                *)
THEOREM KernelSoundHolds == Components => []KernelSound
<1>1. CG!Spec => []CG!CognitionSound
  BY CogInit, CogStep, CogImplies, PTL DEF CG!Spec
<1>2. ME!Spec => []ME!MemorySound
  BY MemInit, MemStep, MemImplies, PTL DEF ME!Spec
<1>3. Components => CG!Spec /\ ME!Spec
  BY DEF Components
<1>4. CG!CognitionSound /\ ME!MemorySound <=> KernelSound
  BY DEF KernelSound
<1> QED
  BY <1>1, <1>2, <1>3, <1>4, PTL
=============================================================================
