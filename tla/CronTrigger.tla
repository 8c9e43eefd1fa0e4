---------------------------- MODULE CronTrigger ----------------------------
(***************************************************************************)
(* get_next_trigger of scheduled/service.py: the search for the next time  *)
(* that a cron expression names, in a small calendar.  Times are minutes   *)
(* on the wall; the calendar maps them to fields.  The search steps minute *)
(* by minute, and from month to month where the month does not match.      *)
(***************************************************************************)
EXTENDS Integers, Sequences, FiniteSetsExt

CONSTANTS
    MonthDays,       \* days of the months, of all years one after the other
    MonthsPerYear,
    HoursPerDay, MinutesPerHour, DaysPerWeek,
    Horizon,         \* days ahead that are looked at (366)
    FieldParts,      \* parts an expression may have: what FieldValues takes
    LastStart        \* bound: the latest "after"

VARIABLES
    expression,      \* the parsed cron expression: the values of each field
    after,           \* the time after which a trigger is asked for
    candidate,
    answer           \* "searching", "found" or "none"

cronVars == <<expression, after, candidate, answer>>

Fields == {"minute", "hour", "dom", "month", "dow"}

(* _CRON_RANGES; one more weekday than there are: the last is the first again. *)
FieldRange(f) ==
    CASE f = "minute" -> 0 .. MinutesPerHour - 1
      [] f = "hour"   -> 0 .. HoursPerDay - 1
      [] f = "dom"    -> 1 .. Max({MonthDays[m] : m \in DOMAIN MonthDays})
      [] f = "month"  -> 1 .. MonthsPerYear
      [] f = "dow"    -> 0 .. DaysPerWeek

(* _parse_field: "*", a value, a range, each with a step that counts from the *)
(* first value of its base.                                                   *)
FieldValues(f, part) ==
    LET base == IF part.star THEN FieldRange(f) ELSE part.first .. part.last
    IN  {v \in base : (v - Min(base)) % part.step = 0}

(* A part that does not raise ValueError. *)
ValidPart(f, part) == part.star \/ (part.first .. part.last) \subseteq FieldRange(f)

(* _normalize_dow *)
NormalizeDow(values) == {v % DaysPerWeek : v \in values}

(* A field is a list of parts. *)
ParseField(f, parts) ==
    LET values == UNION {FieldValues(f, p) : p \in parts}
    IN  IF f = "dow" THEN NormalizeDow(values) ELSE values

FieldSets(f) ==
    {ParseField(f, parts) : parts \in (SUBSET {p \in FieldParts : ValidPart(f, p)}) \ {{}}}

(* parse_cron *)
Expressions ==
    [minute : FieldSets("minute"), hour : FieldSets("hour"), dom : FieldSets("dom"),
     month : FieldSets("month"), dow : FieldSets("dow")]

-----------------------------------------------------------------------------
(* The calendar (datetime). *)
MinutesPerDay == HoursPerDay * MinutesPerHour

Months == DOMAIN MonthDays

(* The day on which month m begins. *)
FirstDay[m \in 1 .. Len(MonthDays) + 1] ==
    IF m = 1 THEN 0 ELSE FirstDay[m - 1] + MonthDays[m - 1]

(* Months have days, and the calendar goes on after the last day that is looked at. *)
ASSUME CalendarAssumption ==
    /\ MonthDays \in Seq(Nat \ {0})
    /\ {MonthsPerYear, HoursPerDay, MinutesPerHour, DaysPerWeek} \subseteq Nat \ {0}
    /\ Horizon \in Nat /\ LastStart \in Nat
    /\ LastStart + 1 + Horizon * MinutesPerDay < FirstDay[Len(MonthDays) + 1] * MinutesPerDay

Day(t) == t \div MinutesPerDay

MonthAt(t) == Max({m \in Months : FirstDay[m] <= Day(t)})

Field(f, t) ==
    CASE f = "minute" -> t % MinutesPerHour
      [] f = "hour"   -> (t \div MinutesPerHour) % HoursPerDay
      [] f = "dom"    -> Day(t) - FirstDay[MonthAt(t)] + 1
      [] f = "month"  -> ((MonthAt(t) - 1) % MonthsPerYear) + 1
      [] f = "dow"    -> Day(t) % DaysPerWeek

In(f, t) == Field(f, t) \in expression[f]

IsStar(f) ==
    expression[f] = IF f = "dow" THEN NormalizeDow(FieldRange(f)) ELSE FieldRange(f)

(* _check_match: both kinds of days restricted, either is enough. *)
Matches(t) ==
    /\ In("minute", t) /\ In("hour", t) /\ In("month", t)
    /\ IF IsStar("dom") \/ IsStar("dow")
       THEN (IsStar("dom") \/ In("dom", t)) /\ (IsStar("dow") \/ In("dow", t))
       ELSE In("dom", t) \/ In("dow", t)

-----------------------------------------------------------------------------
CronInit ==
    /\ expression \in Expressions
    /\ after \in 0 .. LastStart
    /\ candidate = after + 1
    /\ answer = "searching"

LastLooked == after + 1 + Horizon * MinutesPerDay

Searching == answer = "searching" /\ candidate <= LastLooked

(* A bug: the first day of the month, at the time of day of the candidate. *)
NextMonthKeepsTime(t) ==
    FirstDay[MonthAt(t) + 1] * MinutesPerDay + (t % MinutesPerDay)

(* To the first minute of the next month. *)
NextMonth(t) == FirstDay[MonthAt(t) + 1] * MinutesPerDay

SkipMonth ==
    /\ Searching /\ ~In("month", candidate)
    /\ candidate' = NextMonth(candidate)
    /\ UNCHANGED <<expression, after, answer>>

Found ==
    /\ Searching /\ In("month", candidate) /\ Matches(candidate)
    /\ answer' = "found"
    /\ UNCHANGED <<expression, after, candidate>>

NextMinute ==
    /\ Searching /\ In("month", candidate) /\ ~Matches(candidate)
    /\ candidate' = candidate + 1
    /\ UNCHANGED <<expression, after, answer>>

(* ValueError: no next trigger found. *)
BeyondHorizon ==
    /\ answer = "searching" /\ candidate > LastLooked
    /\ answer' = "none"
    /\ UNCHANGED <<expression, after, candidate>>

CronNext == SkipMonth \/ Found \/ NextMinute \/ BeyondHorizon

CronSpec == CronInit /\ [][CronNext]_cronVars

-----------------------------------------------------------------------------
(* get_next_trigger (scheduled/service.py:174) passes over no time that the *)
(* expression names: its answer is the first one after "after", and there   *)
(* is none only when the horizon holds none.                                *)
NextTriggerIsFirst ==
    /\ answer = "found" => candidate > after /\ Matches(candidate)
    /\ \A t \in after + 1 .. candidate - 1 : t <= LastLooked => ~Matches(t)
=============================================================================
