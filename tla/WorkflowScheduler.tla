-------------------------- MODULE WorkflowScheduler --------------------------
(***************************************************************************)
(* WorkflowScheduler of src/app/automation/scheduler.py and the schedule   *)
(* part of WorkflowService: schedules that are created, edited and deleted *)
(* by clients while the poll loop fires them, over graceful restarts and   *)
(* crashes.                                                                *)
(*                                                                         *)
(* Schedules and runs are stored durably; the counts of active runs and    *)
(* the fire tasks live in memory.  A fire works on the copy of the         *)
(* schedule that tick() read.  What a run does is WorkflowService's        *)
(* business; here it is open until execute() returns.                      *)
(***************************************************************************)
EXTENDS Integers, FiniteSets

CONSTANTS
    Ids,           (* schedule ids                                           *)
    None,          (* a datetime that is None                                *)
    Period,        (* seconds of an interval, and of a cron expression       *)
    RunTimes,      (* times that one-shot schedules are created for          *)
    Limit,         (* ScheduleSpec.max_concurrent_runs                       *)
    MaxConcurrent, (* max_concurrent_runs of the scheduler                   *)
    MaxTime,       (* bound: last poll                                       *)
    MaxStops,      (* bound: times the process is stopped or dies            *)
    EditorsWait    (* TRUE: clients edit a schedule only between its fires   *)

ASSUME IdAssumption == IsFiniteSet(Ids)
ASSUME NoneAssumption == None \notin Int
ASSUME PeriodAssumption == Period \in Nat \ {0}
ASSUME RunTimeAssumption == RunTimes \subseteq Nat
ASSUME LimitAssumption == Limit \in Nat \ {0} /\ MaxConcurrent \in Nat \ {0}
ASSUME BoundAssumption == MaxTime \in Nat /\ MaxStops \in Nat
ASSUME EditorsAssumption == EditorsWait \in BOOLEAN

VARIABLES
    schedules, (* the schedule store: a function from the ids in it          *)
    created,   (* ids given out so far                                       *)
    active,    (* _active_runs, 0 if absent                                  *)
    fires,     (* _fire tasks in progress                                    *)
    runs,      (* the run store: runs started by schedules                   *)
    mode,      (* "up", "draining", "down" or "starting"                     *)
    now,       (* clock.utcnow()                                             *)
    stops,     (* times the process was stopped or died                      *)
    crashes,   (* times it died                                              *)
    overtaken  (* history: overtaken[s][t] is how often t was fired at polls *)
               (* that left s waiting, since s was last fired or armed       *)

vars == <<schedules, created, active, fires, runs, mode, now, stops, crashes,
          overtaken>>

Kinds == {"once", "interval", "cron"}

Schedule == [kind : Kinds, enabled : BOOLEAN, runAt : Nat,
             next : Nat \cup {None}, last : Nat \cup {None}]

(* The idempotency key of a fire is made of its id and time. *)
Fire == [id : Ids, at : Nat, spec : Schedule, stage : {"created", "running"}]
Run  == [id : Ids, at : Nat, kind : Kinds, over : BOOLEAN]

Later(t, u) == IF t < u THEN u ELSE t

(* next_cron_match: strictly after t. *)
CronMatch(t) == (t \div Period + 1) * Period

(* Nobody has been overtaken yet; and from now on nobody has overtaken s.    *)
NoneOvertaken == [s \in Ids |-> [t \in Ids |-> 0]]
Rearm(s) == overtaken' = [overtaken EXCEPT ![s] = [t \in Ids |-> 0]]

Init ==
    /\ schedules = [s \in {} |-> 0] /\ created = {}
    /\ active = [s \in Ids |-> 0] /\ fires = {}
    /\ runs = {}
    /\ mode = "up" /\ now = 0
    /\ stops = 0 /\ crashes = 0
    /\ overtaken = NoneOvertaken

Stored == DOMAIN schedules

(* save_schedule *)
Save(s, spec) ==
    schedules' = [q \in Stored \cup {s} |-> IF q = s THEN spec ELSE schedules[q]]

-----------------------------------------------------------------------------
(* Clients.                                                                  *)

Firing(s) == \E f \in fires : f.id = s

Editable(s) == mode = "up" /\ s \in Stored /\ (EditorsWait => ~Firing(s))

(* _initial_next_run *)
InitialNext(kind, runAt) ==
    CASE kind = "once"     -> runAt
      [] kind = "interval" -> now + Period
      [] kind = "cron"     -> CronMatch(now)

Create(s, kind, runAt) ==
    /\ mode = "up"
    /\ s \notin created
    /\ created' = created \cup {s}
    /\ Save(s, [kind |-> kind, enabled |-> TRUE, runAt |-> runAt,
                next |-> InitialNext(kind, runAt), last |-> None])
    /\ UNCHANGED <<active, fires, runs, mode, now, stops, crashes, overtaken>>

Delete(s) ==
    /\ Editable(s)
    /\ schedules' = [q \in Stored \ {s} |-> schedules[q]]
    /\ Rearm(s)
    /\ UNCHANGED <<created, active, fires, runs, mode, now, stops, crashes>>

(* enable_schedule, disable_schedule: nothing but the flag is touched.       *)
SetEnabled(s, enabled) ==
    /\ Editable(s)
    /\ Save(s, [schedules[s] EXCEPT !.enabled = enabled])
    /\ IF enabled THEN UNCHANGED overtaken ELSE Rearm(s)
    /\ UNCHANGED <<created, active, fires, runs, mode, now, stops, crashes>>

-----------------------------------------------------------------------------
(* Polling.                                                                  *)

Due(s) == /\ s \in Stored
          /\ schedules[s].enabled
          /\ schedules[s].next # None
          /\ schedules[s].next <= now

(* What the counts of active runs add up to: the slots of each schedule.     *)
Taken == UNION {{s} \X (1..active[s]) : s \in Ids}

(* _can_start, before the fires of the same tick are counted *)
MayStart(s) == /\ Cardinality(Taken) < MaxConcurrent
               /\ active[s] < Limit

(* Due at this poll.  At the bound on time the clock stands still; a schedule *)
(* is not fired twice at the same time.                                      *)
DueNow(s) == Due(s)' /\ ~\E f \in fires : f.id = s /\ f.at = now'

(* Mutation: what is due is fired in the order of the store. *)
StartableUnsorted(chosen) ==
    LET startable == {s \in Ids : DueNow(s) /\ MayStart(s)}
        total     == Cardinality(Taken) + Cardinality(chosen)
    IN  /\ chosen \subseteq startable
        /\ chosen # {} => total <= MaxConcurrent
        /\ startable # chosen => total >= MaxConcurrent

(* The schedules that tick() fires: due ones in the order of their times     *)
(* (equal times in any order), as long as there is room.                     *)
Startable(chosen) ==
    LET startable == {s \in Ids : DueNow(s) /\ MayStart(s)}
        total     == Cardinality(Taken) + Cardinality(chosen)
    IN  /\ chosen \subseteq startable
        /\ chosen # {} => total <= MaxConcurrent
        /\ \A s \in startable \ chosen :
              /\ total >= MaxConcurrent
              /\ \A t \in chosen : schedules[t].next <= schedules[s].next

(* The record of who was fired while others were left waiting: they are due,  *)
(* and have room of their own.                                               *)
Overtake(chosen) ==
    LET waiting == {s \in Ids \ chosen : DueNow(s) /\ active[s] < Limit}
    IN  overtaken' =
            [s \in Ids |-> [t \in Ids |->
                CASE s \in chosen                   -> 0
                  [] s \in waiting /\ t \in chosen -> overtaken[s][t] + 1
                  [] OTHER                         -> overtaken[s][t]]]

(* A poll is a poll interval later than the last one.  Nothing awaits         *)
(* between reading the schedules and creating the fire tasks.                *)
Poll ==
    /\ mode = "up"
    /\ now' = IF now < MaxTime THEN now + 1 ELSE now
    /\ UNCHANGED schedules
    /\ \E chosen \in SUBSET Ids :
        /\ Startable(chosen)
        /\ active' = [s \in Ids |-> active[s] + (IF s \in chosen THEN 1 ELSE 0)]
        /\ fires' = fires \cup
              {[id |-> s, at |-> now', spec |-> schedules[s], stage |-> "created"] :
                   s \in chosen}
        /\ Overtake(chosen)
    /\ UNCHANGED <<created, runs, mode, stops, crashes>>

-----------------------------------------------------------------------------
(* Fires.                                                                    *)

(* Mutation: the time of the next run is counted from the old one. *)
AdvancedFromNext(f) ==
    LET spec == [f.spec EXCEPT !.last = f.at]
    IN  CASE spec.kind = "once"     -> [spec EXCEPT !.enabled = FALSE, !.next = None]
          [] spec.kind = "interval" -> [spec EXCEPT !.next = @ + Period]
          [] spec.kind = "cron"     -> [spec EXCEPT !.next = CronMatch(f.at)]

(* Mutation: a one-shot schedule is disabled but stays due. *)
AdvancedStillDue(f) ==
    LET spec == [f.spec EXCEPT !.last = f.at]
    IN  CASE spec.kind = "once"     -> [spec EXCEPT !.enabled = FALSE]
          [] spec.kind = "interval" -> [spec EXCEPT !.next = f.at + Period]
          [] spec.kind = "cron"     -> [spec EXCEPT !.next = CronMatch(f.at)]

(* _advance: the copy that the fire was given, with its progress.            *)
Advanced(f) ==
    LET spec == [f.spec EXCEPT !.last = f.at]
    IN  CASE spec.kind = "once"     -> [spec EXCEPT !.enabled = FALSE, !.next = None]
          [] spec.kind = "interval" -> [spec EXCEPT !.next = f.at + Period]
          [] spec.kind = "cron"     -> [spec EXCEPT !.next = CronMatch(f.at)]

(* Mutation: the slot is given back only if the run was started. *)
FinishLeaky(f) ==
    /\ Save(f.id, Advanced(f))
    /\ fires' = fires \ {f}
    /\ active' = [active EXCEPT ![f.id] = IF f.stage = "running" THEN @ - 1 ELSE @]

(* The fire is over: its progress is stored, its slot is given back.         *)
Finish(f) ==
    /\ Save(f.id, Advanced(f))
    /\ fires' = fires \ {f}
    /\ active' = [active EXCEPT ![f.id] = @ - 1]

(* execute() stores a run.  No run has this key yet: a key contains the time *)
(* of its poll.                                                              *)
FireStarts(f) ==
    /\ f.stage = "created"
    /\ fires' = (fires \ {f}) \cup {[f EXCEPT !.stage = "running"]}
    /\ runs' = runs \cup
          {[id |-> f.id, at |-> f.at, kind |-> f.spec.kind, over |-> FALSE]}
    /\ UNCHANGED <<schedules, created, active, mode, now, stops, crashes, overtaken>>

(* execute() raises: there is no such workflow. *)
FireFails(f) ==
    /\ f.stage = "created"
    /\ Finish(f)
    /\ UNCHANGED <<created, runs, mode, now, stops, crashes, overtaken>>

(* execute() returns. *)
FireEnds(f) ==
    /\ f.stage = "running"
    /\ runs' = {IF r.id = f.id /\ r.at = f.at THEN [r EXCEPT !.over = TRUE] ELSE r : r \in runs}
    /\ Finish(f)
    /\ UNCHANGED <<created, mode, now, stops, crashes, overtaken>>

-----------------------------------------------------------------------------
(* Stops and starts.                                                         *)

(* shutdown(): the loop is cancelled in its sleep, the fires are awaited. *)
Shutdown ==
    /\ mode = "up"
    /\ stops < MaxStops
    /\ mode' = "draining"
    /\ stops' = stops + 1
    /\ UNCHANGED <<schedules, created, active, fires, runs, now, crashes, overtaken>>

Drained ==
    /\ mode = "draining"
    /\ fires = {}
    /\ mode' = "down"
    /\ UNCHANGED <<schedules, created, active, fires, runs, now, stops, crashes, overtaken>>

Crash ==
    /\ mode # "down"
    /\ stops < MaxStops
    /\ mode' = "down"
    /\ fires' = {} /\ active' = [s \in Ids |-> 0]
    /\ stops' = stops + 1 /\ crashes' = crashes + 1
    /\ overtaken' = NoneOvertaken
    /\ UNCHANGED <<schedules, created, runs, now>>

(* Mutation: whatever is restored is armed. *)
RestoredArmed(spec, t) ==
    CASE spec.kind = "once" /\ spec.last # None -> [spec EXCEPT !.enabled = FALSE, !.next = None]
      [] spec.kind = "once" /\ spec.last = None -> [spec EXCEPT !.next = spec.runAt, !.enabled = TRUE]
      [] spec.kind = "interval" -> [spec EXCEPT !.next = t + Period, !.enabled = TRUE]
      [] spec.kind = "cron" -> [spec EXCEPT !.next = CronMatch(t), !.enabled = TRUE]

(* _restore_schedule *)
Restored(spec, t) ==
    CASE spec.kind = "once" /\ spec.last # None ->
             [spec EXCEPT !.enabled = FALSE, !.next = None]
      [] spec.kind = "once" /\ spec.last = None ->
             [spec EXCEPT !.next = spec.runAt]
      [] spec.kind = "interval" /\ spec.last = None ->
             [spec EXCEPT !.next = t + Period]
      [] spec.kind = "interval" /\ spec.last # None ->
             [spec EXCEPT !.next = Later(spec.last + Period, t)]
      [] spec.kind = "cron" ->
             [spec EXCEPT !.next = CronMatch(t)]

(* restore() *)
RestoreAll(t) == schedules' = [s \in Stored |-> Restored(schedules[s], t)]

(* startup(): timers are restored; the runs that were left open are resumed   *)
(* one by one; start() restores the timers again and polling begins.         *)
Restart(t) ==
    /\ mode = "down"
    /\ t >= now
    /\ mode' = "starting" /\ now' = t
    /\ RestoreAll(t)
    /\ overtaken' = NoneOvertaken
    /\ UNCHANGED <<created, active, fires, runs, stops, crashes>>

ResumeRun(r) ==
    /\ mode = "starting"
    /\ ~r.over
    /\ runs' = (runs \ {r}) \cup {[r EXCEPT !.over = TRUE]}
    /\ UNCHANGED <<schedules, created, active, fires, mode, now, stops, crashes, overtaken>>

Start(t) ==
    /\ mode = "starting"
    /\ \A r \in runs : r.over
    /\ t >= now
    /\ mode' = "up" /\ now' = t
    /\ RestoreAll(t)
    /\ overtaken' = NoneOvertaken
    /\ UNCHANGED <<created, active, fires, runs, stops, crashes>>

Client ==
    \E s \in Ids :
        \/ \E kind \in Kinds, runAt \in RunTimes : Create(s, kind, runAt)
        \/ Delete(s)
        \/ \E enabled \in BOOLEAN : SetEnabled(s, enabled)

FireStep(f) == FireStarts(f) \/ FireFails(f) \/ FireEnds(f)

Next ==
    \/ Client
    \/ Poll
    \/ \E f \in fires : FireStep(f)
    \/ Shutdown \/ Drained \/ Crash
    \/ \E t \in 0..MaxTime : Restart(t) \/ Start(t)
    \/ \E r \in runs : ResumeRun(r)

Spec == Init /\ [][Next]_vars

-----------------------------------------------------------------------------
(* Properties.                                                               *)

TypeOK ==
    /\ created \subseteq Ids /\ Stored \subseteq created
    /\ \A s \in Stored : schedules[s] \in Schedule
    /\ active \in [Ids -> Nat]
    /\ fires \subseteq Fire /\ \A f \in fires : f.id \in created
    /\ runs \subseteq Run
    /\ mode \in {"up", "draining", "down", "starting"}
    /\ now \in Nat /\ stops \in Nat /\ crashes \in Nat
    /\ overtaken \in [Ids -> [Ids -> Nat]]

(* The counts that admit fires are the fires in progress, whether runs fail  *)
(* or end, schedules are deleted under a fire, or the process restarts; and  *)
(* no schedule has more of them than it allows.                              *)
ActiveIsInFlight ==
    \A s \in Ids : /\ active[s] = Cardinality({f \in fires : f.id = s})
                   /\ active[s] <= Limit

(* The scheduler never has more fires in progress than it allows.            *)
ConcurrencyBounded == Cardinality(fires) <= MaxConcurrent

(* "fires once then disables" (tests/automation/test_scheduler.py): a         *)
(* one-shot schedule has one run, over graceful restarts and whatever        *)
(* clients do with its flag.                                                 *)
OneShotOnce ==
    crashes = 0 => \A p, q \in runs : (p.kind = "once" /\ p.id = q.id) => p = q

(* "missed occurrences are not fired in a burst" (restore): runs of an       *)
(* interval schedule are an interval apart, also after restarts.             *)
NoBurst ==
    crashes = 0 =>
        \A p, q \in runs :
            (p.kind = "interval" /\ p.id = q.id /\ p.at < q.at) => q.at >= p.at + Period

(* Only clients bring back a schedule they disabled, and nobody one they     *)
(* deleted: firing a schedule stores its progress and nothing else.          *)
EditsSurvive ==
    [][\A s \in created :
        /\ s \notin Stored => s \notin Stored'
        /\ (s \in Stored /\ ~schedules[s].enabled /\ s \in Stored' /\ schedules'[s].enabled)
              => SetEnabled(s, TRUE)]_vars

(* Among schedules with the default limit of one run each, nobody starves:   *)
(* while one is due and left waiting for the shared room, no other one is    *)
(* fired ahead of it twice.  tick() sorts by the stored next_run_at, which   *)
(* for a schedule in progress is the one of its last fire, and a fire that   *)
(* ends meanwhile, of a deleted or disabled schedule too, moves it.          *)
OvertakenOnce == Limit = 1 => \A s, t \in Ids : overtaken[s][t] <= 1

(* "completed workflows are never re-run" after a restart (scheduler.py, at  *)
(* the top): a one-shot schedule whose run is over is not run again.         *)
CompletedNotRerun ==
    [][\A r \in runs' \ runs :
        (r.kind = "once" /\ ~r.over) => ~\E q \in runs : q.id = r.id /\ q.over]_vars
=============================================================================
