-------------------------- MODULE RelativeSchedule --------------------------
(***************************************************************************)
(* The local parser of app/parsing/relative_schedule.py: phrases such as    *)
(* "in two hours", "tomorrow morning" or "next friday at 5pm".              *)
(*                                                                          *)
(* Instants are seconds of UTC from a Monday 00:00.  A time zone has one    *)
(* change of offset, at UTC instant ShiftAt, from Before to After seconds.  *)
(* Arithmetic on the localized datetime is arithmetic on the wall clock, as *)
(* Python does it; the result is read back with fold = 0.                   *)
(*                                                                          *)
(* A text is what the regular expressions find in it:                       *)
(*   recurring  - a word such as "every" or "daily"                         *)
(*   duration   - NULL, or [amount, unit] with amount NULL for a word that  *)
(*                is no number ("in a few hours" finds none)                *)
(*   tomorrow   - the word "tomorrow"                                       *)
(*   weekday    - NULL, or the day of "next <weekday>", 0 for Monday        *)
(*   word       - NULL, or a key of TIME_OF_DAY                             *)
(*   clock      - NULL, or [hour, minute, pm] as written                    *)
(***************************************************************************)
EXTENDS Triggers

CONSTANTS Before, After, ShiftAt  \* the time zone

(* Instants are counted from long before the change of offset, so that none *)
(* is negative, the repeated hours of a clock that is put back included.    *)
ASSUME ZoneAssumption ==
  Before \in Int /\ After \in Int /\ ShiftAt \in Nat /\ ShiftAt >= Before - After

Minute == 60
Hour == 3600
Day == 86400

Word == {"morning", "noon", "afternoon", "evening", "midnight"}
Duration == [amount : Nat \cup {NULL}, unit : {"seconds", "minutes", "hours", "days"}]
Clock == [hour : Nat, minute : Nat, pm : BOOLEAN]
Phrase ==
  [recurring : BOOLEAN, duration : Duration \cup {NULL}, tomorrow : BOOLEAN,
   weekday : 0 .. 6 \cup {NULL}, word : Word \cup {NULL}, clock : Clock \cup {NULL}]

ASSUME NullIsNoPhrase == NULL \notin Word /\ NULL \notin Duration /\ NULL \notin Clock

-----------------------------------------------------------------------------
(* now.astimezone(tz): the wall clock at a UTC instant, and back again. *)
_localize(u) == u + (IF u < ShiftAt THEN Before ELSE After)

LastWall == ShiftAt + (IF Before > After THEN Before ELSE After)
ToUTC(w) == w - (IF w < LastWall THEN Before ELSE After)

(* Mutant: isoweekday() for weekday(). *)
IsoWeekday(w) == ((w \div Day) % 7) + 1

Weekday(w) == (w \div Day) % 7

TIME_OF_DAY(word) ==
  CASE word = "morning"   -> 9 * Hour
    [] word = "noon"      -> 12 * Hour
    [] word = "afternoon" -> 14 * Hour
    [] word = "evening"   -> 18 * Hour
    [] OTHER              -> 0

DEFAULT_HOUR_MINUTE == 9 * Hour

(* Mutant: 12am is noon. *)
Hour24NoMidnight(c) == IF c.pm /\ c.hour # 12 THEN c.hour + 12 ELSE c.hour

(* The 24-hour reading of a 12-hour clock. *)
Hour24(c) ==
  IF c.pm
  THEN IF c.hour # 12 THEN c.hour + 12 ELSE 12
  ELSE IF c.hour = 12 THEN 0 ELSE c.hour

_parse_at_time(c) ==
  IF c = NULL \/ Hour24(c) > 23 \/ c.minute > 59 THEN NULL ELSE Hour24(c) * Hour + c.minute * Minute

(* A keyword wins over a written time; neither gives the default. *)
_parse_time_of_day(t) ==
  IF t.word # NULL THEN TIME_OF_DAY(t.word)
  ELSE IF _parse_at_time(t.clock) = NULL THEN DEFAULT_HOUR_MINUTE ELSE _parse_at_time(t.clock)

(* base.replace(hour, minute, second=0): the requested time of base's day. *)
_apply_time(base, time) == (base \div Day) * Day + time

(* Mutant: hours fall into the case of days. *)
DeltaNoHours(d) ==
  d.amount * (CASE d.unit = "seconds" -> 1
                [] d.unit = "minutes" -> Minute
                [] OTHER              -> Day)

Delta(d) ==
  d.amount * (CASE d.unit = "seconds" -> 1
                [] d.unit = "minutes" -> Minute
                [] d.unit = "hours"   -> Hour
                [] OTHER              -> Day)

(* Mutant: < 0 for <= 0, so that today counts as next. *)
DaysAheadToday(today, weekday) ==
  IF weekday - today < 0 THEN weekday - today + 7 ELSE weekday - today

DaysAhead(today, weekday) ==
  IF weekday - today <= 0 THEN weekday - today + 7 ELSE weekday - today

(* The instant a phrase stands for, or None when it is left to the model.    *)
try_parse_once_schedule(t, u) ==
  LET localized == _localize(u) IN
  IF t.recurring THEN NULL
  ELSE IF t.duration # NULL
       THEN IF t.duration.amount = NULL THEN NULL ELSE ToUTC(localized + Delta(t.duration))
  ELSE IF t.tomorrow
       THEN ToUTC(_apply_time(localized + Day, _parse_time_of_day(t)))
  ELSE IF t.weekday # NULL
       THEN ToUTC(_apply_time(localized + DaysAhead(Weekday(localized), t.weekday) * Day,
                              _parse_time_of_day(t)))
  ELSE NULL

-----------------------------------------------------------------------------
(* The prompt loader's own arithmetic (app/prompts/loader.py): the instants  *)
(* written into the worked examples of the prompt.                           *)

(* Mutant: the day of the prompt counts as its own next weekday. *)
NextWeekdayToday(w, weekday) ==
  w + ((weekday - Weekday(w)) % 7) * Day

_next_weekday(w, weekday) ==
  w + (IF weekday - Weekday(w) <= 0 THEN weekday - Weekday(w) + 7 ELSE weekday - Weekday(w)) * Day

build_trigger_parse_placeholders(u) ==
  LET localized == _localize(u)
      tomorrow == localized + Day
  IN [tomorrow_morning |-> ToUTC(_apply_time(tomorrow, 9 * Hour)),
      tomorrow_0815    |-> ToUTC(_apply_time(tomorrow, 8 * Hour + 15 * Minute)),
      next_friday_5pm  |-> ToUTC(_apply_time(_next_weekday(localized, 4), 17 * Hour)),
      one_hour_later   |-> ToUTC(localized + Hour),
      next_tuesday_9am |-> ToUTC(_apply_time(_next_weekday(localized, 1), 9 * Hour))]

(* The inputs the prompt gives those examples for (trigger_parse.txt). *)
NoPhrase == [recurring |-> FALSE, duration |-> NULL, tomorrow |-> FALSE, weekday |-> NULL,
             word |-> NULL, clock |-> NULL]
AtClock(t, h, m, p) == [t EXCEPT !.clock = [hour |-> h, minute |-> m, pm |-> p]]
PromptExample ==
  [tomorrow_morning |-> [NoPhrase EXCEPT !.tomorrow = TRUE, !.word = "morning"],
   tomorrow_0815    |-> AtClock([NoPhrase EXCEPT !.tomorrow = TRUE], 8, 15, FALSE),
   next_friday_5pm  |-> AtClock([NoPhrase EXCEPT !.weekday = 4], 5, 0, TRUE),
   one_hour_later   |-> [NoPhrase EXCEPT !.duration = [amount |-> 1, unit |-> "hours"]],
   next_tuesday_9am |-> AtClock([NoPhrase EXCEPT !.weekday = 1], 9, 0, FALSE)]
=============================================================================
