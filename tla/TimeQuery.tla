------------------------------ MODULE TimeQuery ------------------------------
(***************************************************************************)
(* The temporal part of a query: parse_temporal_query turns the text into  *)
(* a day or a range of days, and the retrieval turns that into the keys it *)
(* looks up in the temporal index.  Time is counted in hours.  Next to the *)
(* closed formulas of the code the module walks a plain calendar, one day  *)
(* at a time, which the properties take as the reference.                  *)
(*                                                                         *)
(* A text is abstracted to the form of its temporal expression:            *)
(*   zhRange  "[Y]M[D] dao [Y]M[D]"    enRange  "March to May"             *)
(*   zhDate   "[Y]M[D]"                isoDate  "2026-03-05"               *)
(*   enDate   "March 5[, 2026]"        term     "yesterday", ...           *)
(* a year or day that is left out is 0.                                    *)
(***************************************************************************)
EXTENDS ReadStore

CONSTANTS
    Windows,     \* first days of the stretches walked: [day, y, m, d, wd]
    WindowDays,  \* bound: days walked from each of them
    Texts        \* the texts asked

VARIABLES
    day0,   \* first day of the stretch
    today,  \* UTC day of now
    date,   \* reference calendar: [y, m, d, wd], wd 0 = Monday
    text,   \* the text asked, NoText before
    spec    \* the parsed intent: [kind, from, to], kind "none", "day" or "range"

timeVars == <<day0, today, date, text, spec>>

NoText == [form |-> "nothing"]
None == [kind |-> "none", from |-> 0, to |-> 0]
SingleDay(d) == [kind |-> "day", from |-> d, to |-> d]
DayRange(a, b) == [kind |-> "range", from |-> a, to |-> b]

TimeInit ==
    /\ \E w \in (IF call = "time" THEN Windows ELSE {CHOOSE v \in Windows : TRUE}) :
          /\ day0 = w.day /\ today = w.day
          /\ date = [y |-> w.y, m |-> w.m, d |-> w.d, wd |-> w.wd]
    /\ text = NoText /\ spec = None

(***************************************************************************)
(* The reference calendar.                                                 *)
(***************************************************************************)
Leap(y) == y % 4 = 0 /\ (y % 100 # 0 \/ y % 400 = 0)
MonthDays(y, m) ==
    CASE m = 2 -> IF Leap(y) THEN 29 ELSE 28
      [] m \in {4, 6, 9, 11} -> 30
      [] OTHER -> 31

\* Days since 1 January 1970: the years, the leap days among them, the months.
LeapDays(y) == (y - 1) \div 4 - (y - 1) \div 100 + (y - 1) \div 400
DaysBefore(y, m) ==
    <<0, 31, 59, 90, 120, 151, 181, 212, 243, 273, 304, 334>>[m]
        + (IF m > 2 /\ Leap(y) THEN 1 ELSE 0)
DayNumber(y, m, d) ==
    365 * (y - 1970) + LeapDays(y) - LeapDays(1970) + DaysBefore(y, m) + d - 1

NextDay ==
    /\ text = NoText /\ today < day0 + WindowDays
    /\ today' = today + 1
    /\ date' = [wd |-> (date.wd + 1) % 7,
                d |-> IF date.d < MonthDays(date.y, date.m) THEN date.d + 1 ELSE 1,
                m |-> IF date.d < MonthDays(date.y, date.m) THEN date.m ELSE (date.m % 12) + 1,
                y |-> IF date.d = 31 /\ date.m = 12 THEN date.y + 1 ELSE date.y]
    /\ UNCHANGED <<day0, text, spec>>

(***************************************************************************)
(* days_from_civil and civil_from_days, for years from 1970 on.            *)
(***************************************************************************)
\* Mutant: the centuries that are no leap years are forgotten.
DaysWithoutCenturies(year, month, d) ==
    LET y == IF month <= 2 THEN year - 1 ELSE year
        yoe == y - (y \div 400) * 400
        doy == (153 * (IF month > 2 THEN month - 3 ELSE month + 9) + 2) \div 5 + d - 1
    IN  (y \div 400) * 146097 + yoe * 365 + yoe \div 4 + doy - 719468

DaysFromCivil(year, month, d) ==
    LET y == IF month <= 2 THEN year - 1 ELSE year
        era == y \div 400
        yoe == y - era * 400
        doy == (153 * (IF month > 2 THEN month - 3 ELSE month + 9) + 2) \div 5 + d - 1
        doe == yoe * 365 + yoe \div 4 - yoe \div 100 + doy
    IN  era * 146097 + doe - 719468

CivilFromDays(days) ==
    LET z == days + 719468
        era == z \div 146097
        doe == z - era * 146097
        yoe == (doe - doe \div 1460 + doe \div 36524 - doe \div 146096) \div 365
        doy == doe - (365 * yoe + yoe \div 4 - yoe \div 100)
        mp == (5 * doy + 2) \div 153
        m == IF mp < 10 THEN mp + 3 ELSE mp - 9
    IN  [y |-> yoe + era * 400 + (IF m <= 2 THEN 1 ELSE 0), m |-> m,
         d |-> doy - (153 * mp + 2) \div 5 + 1]

Weekday(days) == (days + 3) % 7

LastDayOfMonth(y, m) ==
    LET ny == IF m = 12 THEN y + 1 ELSE y
        nm == IF m = 12 THEN 1 ELSE m + 1
    IN  DaysFromCivil(ny, nm, 1) - DaysFromCivil(y, m, 1)

(***************************************************************************)
(* The parser.                                                             *)
(***************************************************************************)
Terms == {"Today", "Yesterday", "DayBeforeYesterday", "ThisWeek", "LastWeek",
          "ThisMonth", "LastMonth", "ThisYear"}
Side == [y : Nat, m : 1..12, d : 0..31]

\* A stretch begins on a day of the calendar, and the first of all days was a
\* Thursday; months and days are the ones the parser lets through.
ASSUME TimeQueryAssumption ==
    /\ Windows # {} /\ WindowDays \in Nat
    /\ \A w \in Windows :
          /\ w.y \in Nat /\ w.y >= 1970 /\ w.m \in 1..12 /\ w.d \in 1..MonthDays(w.y, w.m)
          /\ w.day = DayNumber(w.y, w.m, w.d) /\ w.wd = (w.day + 3) % 7
    /\ \A t \in Texts :
          \/ t \in [form : {"zhRange", "enRange"}, left : Side, right : Side]
          \/ t \in [form : {"zhDate", "isoDate", "enDate"}, left : Side]
          \/ t \in [form : {"term"}, term : Terms]

RangeMaxDays == 93
ThisYearNumber == CivilFromDays(today).y
YearOK(y) == y \in 1970..2100

\* Results of the range parsers next to a spec.
NotRange == [kind |-> "notRange", from |-> 0, to |-> 0]
TooLarge == [kind |-> "tooLarge", from |-> 0, to |-> 0]

\* Mutant: the first and the last day are not both counted.
RangeOneMore(a, b) ==
    IF b < a \/ b - a > RangeMaxDays THEN TooLarge ELSE DayRange(a, b)

RangeParse(a, b) ==
    IF b < a \/ b - a + 1 > RangeMaxDays THEN TooLarge ELSE DayRange(a, b)

\* A side with a day and no year is a month and day; otherwise its day, if any,
\* is ignored.
MonthDay(side) == side.y = 0 /\ side.d # 0
ParseZhRange(t) ==
    LET l == t.left
        r == t.right
        y1 == IF l.y = 0 THEN ThisYearNumber ELSE l.y
        y2 == IF r.y = 0 THEN y1 ELSE r.y
    IN  IF MonthDay(l) /\ MonthDay(r)
        THEN IF r.m < l.m THEN NotRange
             ELSE RangeParse(DaysFromCivil(ThisYearNumber, l.m, l.d),
                             DaysFromCivil(ThisYearNumber, r.m, r.d))
        ELSE IF \/ \E y \in {l.y, r.y} \ {0} : ~ YearOK(y)
                \/ y2 < y1 \/ (y2 = y1 /\ r.m < l.m) THEN NotRange
             ELSE RangeParse(DaysFromCivil(y1, l.m, 1),
                             DaysFromCivil(y2, r.m, LastDayOfMonth(y2, r.m)))

ParseEnRange(t) ==
    IF t.right.m < t.left.m THEN NotRange
    ELSE RangeParse(DaysFromCivil(ThisYearNumber, t.left.m, 1),
                    DaysFromCivil(ThisYearNumber, t.right.m,
                                  LastDayOfMonth(ThisYearNumber, t.right.m)))

\* Mutant: a date without a year is always in the current year.
YearAsToday(m, d) == ThisYearNumber

\* The year of a date without one: a date after today is last year's.
YearFor(m, d) ==
    IF DaysFromCivil(ThisYearNumber, m, d) > today THEN ThisYearNumber - 1 ELSE ThisYearNumber

\* A month without a day is its first day.
ParseZhAbsolute(s) ==
    LET d == IF s.d = 0 THEN 1 ELSE s.d
    IN  IF s.y # 0 /\ ~ YearOK(s.y) THEN None
        ELSE SingleDay(DaysFromCivil(IF s.y # 0 THEN s.y ELSE YearFor(s.m, d), s.m, d))

\* The same on a text with two sides: the first year and the first day of the
\* text are taken, and nothing is parsed if they belong to the right side.
ParseZhBoth(t) ==
    IF \/ t.left.y = 0 /\ t.right.y # 0
       \/ t.left.d = 0 /\ t.right.d # 0
    THEN None ELSE ParseZhAbsolute(t.left)

ParseIsoAbsolute(s) ==
    IF YearOK(s.y) THEN SingleDay(DaysFromCivil(s.y, s.m, s.d)) ELSE None

\* A month name without a day is no date.
ParseEnAbsolute(s) ==
    LET y == IF s.y = 0 THEN ThisYearNumber ELSE s.y
    IN  IF s.d = 0 \/ ~ YearOK(y) THEN None ELSE SingleDay(DaysFromCivil(y, s.m, s.d))

\* Mutant: December before January is taken from the same year.
SameYearBefore(c) == [y |-> c.y, m |-> IF c.m = 1 THEN 12 ELSE c.m - 1]

MonthBefore(c) == IF c.m = 1 THEN [y |-> c.y - 1, m |-> 12] ELSE [y |-> c.y, m |-> c.m - 1]

SpecForTerm(term) ==
    LET now == CivilFromDays(today)
        monday == today - Weekday(today)
        month(c) == DayRange(DaysFromCivil(c.y, c.m, 1),
                             DaysFromCivil(c.y, c.m, LastDayOfMonth(c.y, c.m)))
    IN  CASE term = "Today" -> SingleDay(today)
          [] term = "Yesterday" -> SingleDay(today - 1)
          [] term = "DayBeforeYesterday" -> SingleDay(today - 2)
          [] term = "ThisWeek" -> DayRange(monday, monday + 6)
          [] term = "LastWeek" -> DayRange(monday - 7, monday - 1)
          [] term = "ThisMonth" -> month(now)
          [] term = "LastMonth" -> month(MonthBefore(now))
          [] term = "ThisYear" -> DayRange(DaysFromCivil(now.y, 1, 1), DaysFromCivil(now.y, 12, 31))

\* parse_temporal_query: ranges, then dates, then terms.  A text that is no
\* range after all goes on to the parser of dates.
Parse(t) ==
    CASE t.form = "zhRange" ->
             LET r == ParseZhRange(t)
             IN  CASE r = NotRange -> ParseZhBoth(t)
                   [] r = TooLarge -> None
                   [] OTHER -> r
      [] t.form = "enRange" ->
             LET r == ParseEnRange(t) IN IF r \in {NotRange, TooLarge} THEN None ELSE r
      [] t.form = "zhDate" -> ParseZhAbsolute(t.left)
      [] t.form = "isoDate" -> ParseIsoAbsolute(t.left)
      [] t.form = "enDate" -> ParseEnAbsolute(t.left)
      [] t.form = "term" -> SpecForTerm(t.term)
      [] OTHER -> None

Ask(t) ==
    /\ text = NoText
    /\ text' = t /\ spec' = Parse(t)
    /\ UNCHANGED <<day0, today, date>>

TimeStep == NextDay \/ \E t \in Texts : Ask(t)

(***************************************************************************)
(* Keys of the temporal index: u32, a negative number n stands for 2^32+n. *)
(***************************************************************************)
\* Mutant: the day alone.
KeysWithoutNeighbours(s) == s.from .. s.to

\* temporal_keys_for_spec: a single day with both neighbours.
KeysForSpec(s) == IF s.kind = "day" THEN (s.from - 1)..(s.to + 1) ELSE s.from .. s.to

(***************************************************************************)
(* Properties                                                              *)
(***************************************************************************)
TimeTypeOK == today \in Int /\ spec.kind \in {"none", "day", "range"}

\* The closed formulas agree with the calendar walked day by day, over leap
\* days, turns of the year and of the century: both conversions, the day of the
\* week and the length of the month.
CalendarAgrees ==
    /\ CivilFromDays(today) = [y |-> date.y, m |-> date.m, d |-> date.d]
    /\ DaysFromCivil(date.y, date.m, date.d) = today
    /\ Weekday(today) = date.wd
    /\ LastDayOfMonth(date.y, date.m) = MonthDays(date.y, date.m)

\* Relative terms tile the calendar: the week and the month asked for contain
\* today, begin on a Monday and on a first, and the last ones end on the day
\* before, also in January and in the week of New Year (spec_for_term).
TermsTile ==
    text.form = "term" =>
      LET firstOfMonth == today - date.d + 1
          firstOfWeek == today - date.wd
          lastMonth == IF date.m = 1 THEN MonthDays(date.y - 1, 12)
                       ELSE MonthDays(date.y, date.m - 1)
      IN  CASE text.term = "ThisWeek" -> spec = DayRange(firstOfWeek, firstOfWeek + 6)
            [] text.term = "LastWeek" -> spec = DayRange(firstOfWeek - 7, firstOfWeek - 1)
            [] text.term = "ThisMonth" ->
                 spec = DayRange(firstOfMonth, firstOfMonth + MonthDays(date.y, date.m) - 1)
            [] text.term = "LastMonth" ->
                 spec = DayRange(firstOfMonth - lastMonth, firstOfMonth - 1)
            [] text.term = "ThisYear" ->
                 /\ spec.to - spec.from = (IF Leap(date.y) THEN 365 ELSE 364)
                 /\ spec.from <= firstOfMonth /\ today <= spec.to
            [] OTHER -> spec.from = spec.to /\ spec.from \in today - 2 .. today

\* A Chinese date without a year is never in the future and never more than a
\* year back, a 29th of February or a 31st of a short month included.
YearlessIsRecent ==
    text.form = "zhDate" /\ text.left.y = 0 => spec.from \in today - 365 .. today

\* A range that was parsed covers at most RANGE_MAX_DAYS days, and one in the
\* right order is looked up as a range or not at all: it does not degrade to its
\* first day.
RangesCapped ==
    text.form \in {"zhRange", "enRange"} =>
      /\ spec.kind = "range" => spec.to - spec.from \in 0 .. RangeMaxDays - 1
      /\ text.right.y \in {0, text.left.y} /\ text.left.m <= text.right.m
            => spec.kind # "day"

\* The keys looked up for one day lead to every memory that was written on that
\* day of the writer's calendar, whatever the writer's time zone.
LocalDayCovered ==
    spec.kind = "day" =>
      \A hour \in 0..23, zone \in -12..14 :
          BucketKeys(spec.from * 24 + hour - zone) \cap KeysForSpec(spec) # {}
=============================================================================
