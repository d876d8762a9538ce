--------------------------------- MODULE Cron ---------------------------------
(***************************************************************************)
(* When a cron schedule of src/app/automation/scheduler.py is due next.    *)
(* A day has a few hours and an hour a few minutes; the calendar, which    *)
(* repeats, tells the day of the month, the month and the weekday of each  *)
(* day.  Time is counted in half minutes, so that the time from which the  *)
(* search starts may lie within a minute.                                  *)
(***************************************************************************)
EXTENDS Integers, Sequences, FiniteSets, FiniteSetsExt, SequencesExt

CONSTANTS
    Expressions,  \* each a record of five fields, a field the list of its parts
    Calendar,     \* a sequence of [day, month, weekday]; Sunday is 0
    Hours, Minutes,  \* 24 and 60
    Days, Months,    \* 31 and 12: the highest of each
    Horizon       \* 5 * 366 days are searched

VARIABLES
    expression,
    after,        \* in half minutes
    due           \* the minute that was found, or none; "raises" tells which

vars == <<expression, after, due>>

PerDay == Hours * Minutes
Unasked == [raises |-> FALSE, at |-> <<>>]

Init ==
    /\ expression \in Expressions
    /\ after \in 0..(2 * PerDay * Len(Calendar) - 1)
    /\ due = Unasked

-----------------------------------------------------------------------------
(* _parse_cron_field.  The base of a part is empty for "*", or it has one    *)
(* number or two; its step is empty if there is none.                        *)
Malformed(part) ==
    \/ part.step # <<>> /\ part.step[1] <= 0
    \/ Len(part.base) = 2 /\ part.base[1] > part.base[2]

(* The step of a single number is of no effect. *)
Named(part, low, high) ==
    LET from == IF part.base = <<>> THEN low ELSE part.base[1]
        to   == IF part.base = <<>> THEN high ELSE Last(part.base)
    IN  {v \in from..to : part.step # <<>> => (v - from) % part.step[1] = 0}

ParseField(field, low, high) == UNION {Named(part, low, high) : part \in ToSet(field)} \cap low..high

-----------------------------------------------------------------------------
(* next_cron_match.  *)
Star == [base |-> <<>>, step |-> <<>>]
Wildcard(field) == field = <<Star>>
On(minute) == Calendar[((minute \div PerDay) % Len(Calendar)) + 1]

(* Days of the month and of the week are alternatives if both are limited;   *)
(* a "*" with a step is a limit.                                             *)
DayOk(e, date) ==
    LET dom == date.day \in ParseField(e.dom, 1, Days)
        dow == date.weekday \in {d % 7 : d \in ParseField(e.dow, 0, 7)}
    IN  IF Wildcard(e.dom) /\ Wildcard(e.dow) THEN TRUE
        ELSE IF Wildcard(e.dom) THEN dow
        ELSE IF Wildcard(e.dow) THEN dom
        ELSE dom \/ dow

(* The minutes of a day that match and are still to come. *)
Candidates(e, day) ==
    {c \in {PerDay * day + Minutes * h + m : h \in ParseField(e.hour, 0, Hours - 1),
                                             m \in ParseField(e.minute, 0, Minutes - 1)} :
        2 * c > after}

NextMatch(e) ==
    LET start == after \div 2 + 1
        first == start \div PerDay
        days  == {d \in first..(first + Horizon - 1) :
                     /\ On(PerDay * d).month \in ParseField(e.month, 1, Months)
                     /\ DayOk(e, On(PerDay * d))
                     /\ Candidates(e, d) # {}}
    IN  IF \E name \in DOMAIN e : \E part \in ToSet(e[name]) : Malformed(part)
        THEN [raises |-> TRUE, at |-> <<>>]
        ELSE IF days = {} THEN [raises |-> TRUE, at |-> <<>>]
        ELSE [raises |-> FALSE, at |-> <<Min(Candidates(e, Min(days)))>>]

Search ==
    /\ due = Unasked
    /\ due' = NextMatch(expression)
    /\ UNCHANGED <<expression, after>>

Next == Search

-----------------------------------------------------------------------------
(* A number is read in a field if it is one of a list, in a range or counted *)
(* off from the start of a range.                                            *)
Read(v, field, low, high) ==
    /\ low <= v /\ v <= high
    /\ \E i \in DOMAIN field :
          LET part == field[i]
          IN  CASE Len(part.base) = 0 -> part.step = <<>> \/ \E k \in 0..v : v = low + k * part.step[1]
                [] Len(part.base) = 1 -> v = part.base[1]
                [] OTHER -> /\ v <= part.base[2]
                            /\ \E k \in 0..v : v = part.base[1] + k * (IF part.step = <<>> THEN 1 ELSE part.step[1])

Matches(minute) ==
    LET e == expression
        date == On(minute)
        dom == Read(date.day, e.dom, 1, Days)
        dow == Read(date.weekday, e.dow, 0, 7) \/ (date.weekday = 0 /\ Read(7, e.dow, 0, 7))
    IN  /\ Read(minute % Minutes, e.minute, 0, Minutes - 1)
        /\ Read((minute % PerDay) \div Minutes, e.hour, 0, Hours - 1)
        /\ Read(date.month, e.month, 1, Months)
        /\ Wildcard(e.dom) => dow
        /\ Wildcard(e.dow) => dom
        /\ dom \/ dow

(* CronSound: a schedule is due at a minute that all its fields match, not   *)
(* before or at the time of the search, and no earlier minute that they      *)
(* match is left out, at the end of a day, of a month or of the calendar;    *)
(* the search gives up only if an expression is malformed or names no minute *)
(* of the days it looks at.                                                  *)
CronSound ==
    LET to == PerDay * ((after \div 2 + 1) \div PerDay + Horizon) - 1
        coming == {m \in 0..to : 2 * m > after /\ Matches(m)}
        malformed == \E name \in DOMAIN expression :
                        \E part \in ToSet(expression[name]) : Malformed(part)
    IN  due # Unasked =>
            IF malformed \/ coming = {} THEN due.raises ELSE due.at = <<Min(coming)>>
=============================================================================
