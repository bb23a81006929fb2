-------------------------- MODULE TriggerParseProofs ------------------------
(***************************************************************************)
(* Machine-checked proofs about TriggerParse and the local parser of        *)
(* RelativeSchedule: for every text, instant and answer of the model, every *)
(* retry budget and every time zone (a fixed offset where a theorem says    *)
(* so).                                                                     *)
(***************************************************************************)
EXTENDS TriggerParse, TLAPS

-----------------------------------------------------------------------------
(* The local parser. *)

(* A wall clock time that is not before the present one is read back as an  *)
(* instant of the model, also across a change of offset.                    *)
LEMMA ReadBack ==
  ASSUME NEW u \in Nat, NEW w \in Int, w >= _localize(u)
  PROVE  ToUTC(w) \in Nat
BY ZoneAssumption DEF ToUTC, LastWall, _localize

(* Where the offset does not change, reading back undoes _localize. *)
LEMMA ReadBackFixed ==
  ASSUME Before = After, NEW w \in Int
  PROVE  _localize(ToUTC(w)) = w /\ ToUTC(w) = w - Before
BY ZoneAssumption DEF ToUTC, LastWall, _localize

(* What _parse_at_time accepts is a time of day. *)
LEMMA AtTimeRange ==
  ASSUME NEW c \in Clock \cup {NULL}, _parse_at_time(c) # NULL
  PROVE  /\ c \in Clock /\ Hour24(c) \in 0 .. 23 /\ c.minute \in 0 .. 59
         /\ _parse_at_time(c) = Hour24(c) * Hour + c.minute * Minute
         /\ _parse_at_time(c) \in Nat /\ _parse_at_time(c) < Day
<1>1. /\ c # NULL /\ ~(Hour24(c) > 23) /\ ~(c.minute > 59)
      /\ _parse_at_time(c) = Hour24(c) * Hour + c.minute * Minute
  BY DEF _parse_at_time
<1>2. c \in Clock /\ c.minute \in Nat /\ c.hour \in Nat
  BY <1>1 DEF Clock
<1>3. Hour24(c) \in Nat
  BY <1>2 DEF Hour24
<1>4. ASSUME NEW h \in Nat, NEW m \in Nat, h <= 23, m <= 59
      PROVE  h * Hour + m * Minute \in Nat /\ h * Hour + m * Minute < Day
  BY <1>4 DEF Hour, Minute, Day
<1>5. Hour24(c) <= 23 /\ c.minute <= 59
  BY <1>1, <1>2, <1>3
<1>6. Hour24(c) * Hour + c.minute * Minute \in Nat /\ Hour24(c) * Hour + c.minute * Minute < Day
  BY <1>2, <1>3, <1>4, <1>5
<1>7. Hour24(c) \in 0 .. 23 /\ c.minute \in 0 .. 59
  BY <1>2, <1>3, <1>5
<1>8. QED
  BY <1>1, <1>2, <1>6, <1>7

(* Whatever is written, the time that is applied is a time of day: an       *)
(* impossible one such as 13pm gives the default.                           *)
LEMMA TimeOfDayRange ==
  ASSUME NEW t \in Phrase
  PROVE  _parse_time_of_day(t) \in Nat /\ _parse_time_of_day(t) < Day
<1>1. t.word \in Word \cup {NULL} /\ t.clock \in Clock \cup {NULL}
  BY DEF Phrase
<1>2. CASE t.word # NULL
  BY <1>1, <1>2 DEF _parse_time_of_day, TIME_OF_DAY, Word, Hour, Day
<1>3. CASE t.word = NULL /\ _parse_at_time(t.clock) = NULL
  BY <1>3 DEF _parse_time_of_day, DEFAULT_HOUR_MINUTE, Hour, Day
<1>4. CASE t.word = NULL /\ _parse_at_time(t.clock) # NULL
  BY <1>1, <1>4, AtTimeRange DEF _parse_time_of_day
<1>5. QED
  BY <1>2, <1>3, <1>4

(* A weekday lies one to seven days ahead of any day. *)
LEMMA DaysAheadRange ==
  ASSUME NEW today \in 0 .. 6, NEW weekday \in 0 .. 6
  PROVE  /\ DaysAhead(today, weekday) \in 1 .. 7
         /\ \E k \in 0 .. 1 : DaysAhead(today, weekday) = weekday - today + 7 * k
<1>1. CASE weekday - today <= 0
  BY <1>1 DEF DaysAhead
<1>2. CASE weekday - today > 0
  BY <1>2 DEF DaysAhead
<1>3. QED
  BY <1>1, <1>2

(* Applying a time of day keeps the day and sets the time. *)
LEMMA ApplyTime ==
  ASSUME NEW base \in Int, NEW time \in Nat, time < Day
  PROVE  /\ _apply_time(base, time) \in Int
         /\ _apply_time(base, time) \div Day = base \div Day
         /\ _apply_time(base, time) % Day = time
<1>1. base \div Day \in Int
  BY DEF Day
<1>2. ASSUME NEW q \in Int, NEW r \in Nat, r < Day
      PROVE  q * Day + r \in Int /\ (q * Day + r) \div Day = q /\ (q * Day + r) % Day = r
  BY <1>2 DEF Day
<1>3. QED
  BY <1>1, <1>2 DEF _apply_time

(* Whole days added to a wall clock time move it by as many days. *)
LEMMA WholeDays ==
  ASSUME NEW w \in Int, NEW n \in Int
  PROVE  (w + n * Day) \div Day = w \div Day + n
BY DEF Day

(* A later day begins after the present wall clock time. *)
LEMMA LaterDay ==
  ASSUME NEW w \in Int, NEW v \in Int, v \div Day > w \div Day
  PROVE  v > w
BY DEF Day

(* The day a phrase with "tomorrow" or "next <weekday>" is about. *)
TargetDay(t, w) ==
  w \div Day + (IF t.tomorrow THEN 1 ELSE DaysAhead(Weekday(w), t.weekday))

(* The two shapes of what try_parse_once_schedule returns: the present wall *)
(* clock time and a duration, or a time of a later day.                     *)
LEMMA ParsedShape ==
  ASSUME NEW t \in Phrase, NEW u \in Nat, try_parse_once_schedule(t, u) # NULL
  PROVE  \/ /\ t.duration # NULL /\ t.duration.amount \in Nat
            /\ Delta(t.duration) \in Nat
            /\ try_parse_once_schedule(t, u) = ToUTC(_localize(u) + Delta(t.duration))
         \/ /\ t.duration = NULL
            /\ t.tomorrow \/ t.weekday \in 0 .. 6
            /\ TargetDay(t, _localize(u)) > _localize(u) \div Day
            /\ \E w \in Int :
                 /\ try_parse_once_schedule(t, u) = ToUTC(w)
                 /\ w \div Day = TargetDay(t, _localize(u))
                 /\ w % Day = _parse_time_of_day(t)
<1> DEFINE localized == _localize(u)
           time == _parse_time_of_day(t)
<1>1. localized \in Int /\ localized \div Day \in Int /\ Weekday(localized) \in 0 .. 6
  BY ZoneAssumption DEF _localize, Weekday, Day
<1>2. time \in Nat /\ time < Day
  BY TimeOfDayRange
<1>3. ~t.recurring
  BY DEF try_parse_once_schedule
<1>4. CASE t.duration # NULL
  <2>1. /\ t.duration.amount # NULL
        /\ try_parse_once_schedule(t, u) = ToUTC(localized + Delta(t.duration))
    BY <1>3, <1>4 DEF try_parse_once_schedule
  <2>2. t.duration \in Duration
    BY <1>4 DEF Phrase
  <2>3. t.duration.amount \in Nat
    BY <2>1, <2>2 DEF Duration
  <2>4. Delta(t.duration) \in Nat
    BY <2>2, <2>3 DEF Duration, Delta, Minute, Hour, Day
  <2>5. QED
    BY <1>4, <2>1, <2>3, <2>4
<1>5. CASE t.duration = NULL /\ t.tomorrow
  <2> DEFINE w == _apply_time(localized + Day, time)
  <2>1. try_parse_once_schedule(t, u) = ToUTC(w)
    BY <1>3, <1>5 DEF try_parse_once_schedule
  <2>2. localized + Day \in Int /\ (localized + Day) \div Day = localized \div Day + 1
    BY <1>1 DEF Day
  <2>3. w \in Int /\ w \div Day = localized \div Day + 1 /\ w % Day = time
    BY <1>2, <2>2, ApplyTime
  <2>4. QED
    <3> HIDE DEF w, localized, time
    <3>1. TargetDay(t, localized) = localized \div Day + 1
      BY <1>5 DEF TargetDay
    <3>2. QED
      BY <1>1, <1>5, <2>1, <2>3, <3>1 DEF localized, time
<1>6. CASE t.duration = NULL /\ ~t.tomorrow
  <2> DEFINE n == DaysAhead(Weekday(localized), t.weekday)
             w == _apply_time(localized + n * Day, time)
  <2>1. t.weekday # NULL /\ try_parse_once_schedule(t, u) = ToUTC(w)
    BY <1>3, <1>6 DEF try_parse_once_schedule
  <2>2. t.weekday \in 0 .. 6
    BY <2>1 DEF Phrase
  <2>3. n \in 1 .. 7
    BY <1>1, <2>2, DaysAheadRange
  <2>4. localized + n * Day \in Int /\ (localized + n * Day) \div Day = localized \div Day + n
    <3> HIDE DEF n
    <3>1. QED
      BY <1>1, <2>3, WholeDays DEF Day
  <2>5. w \in Int /\ w \div Day = localized \div Day + n /\ w % Day = time
    BY <1>2, <2>4, ApplyTime
  <2>6. QED
    <3>1. TargetDay(t, localized) = localized \div Day + n
      BY <1>6 DEF TargetDay
    <3> HIDE DEF w, n, localized, time
    <3>2. QED
      BY <1>1, <1>6, <2>1, <2>2, <2>3, <2>5, <3>1 DEF localized, time
<1>7. QED
  BY <1>4, <1>5, <1>6

(* Every phrase the local parser recognises is an instant of the model. *)
LEMMA ParsedInstant ==
  ASSUME NEW t \in Phrase, NEW u \in Nat, try_parse_once_schedule(t, u) # NULL
  PROVE  try_parse_once_schedule(t, u) \in Nat
<1>1. _localize(u) \in Int
  BY ZoneAssumption DEF _localize
<1>2. CASE /\ Delta(t.duration) \in Nat
           /\ try_parse_once_schedule(t, u) = ToUTC(_localize(u) + Delta(t.duration))
  <2>1. _localize(u) + Delta(t.duration) \in Int /\ _localize(u) + Delta(t.duration) >= _localize(u)
    BY <1>1, <1>2
  <2>2. QED
    BY <1>2, <2>1, ReadBack
<1>3. ASSUME NEW w \in Int, w \div Day > _localize(u) \div Day,
             try_parse_once_schedule(t, u) = ToUTC(w)
      PROVE  try_parse_once_schedule(t, u) \in Nat
  <2>1. w >= _localize(u)
    BY <1>1, <1>3, LaterDay
  <2>2. QED
    BY <1>3, <2>1, ReadBack
<1>4. QED
  BY <1>2, <1>3, ParsedShape

(* A written time, with either half of the day. *)
LEMMA WrittenTime ==
  ASSUME NEW h \in Nat, NEW m \in Nat
  PROVE  /\ [hour |-> h, minute |-> m, pm |-> TRUE] \in Clock
         /\ [hour |-> h, minute |-> m, pm |-> FALSE] \in Clock
BY Zenon DEF Clock

(* The prompt's worked examples carry the parser's instants (the loader's   *)
(* own arithmetic, example by example).                                     *)
LEMMA PromptExamples ==
  ASSUME NEW u \in Nat
  PROVE  LET p == build_trigger_parse_placeholders(u) IN
         /\ p.tomorrow_morning = try_parse_once_schedule(PromptExample.tomorrow_morning, u)
         /\ p.tomorrow_0815 = try_parse_once_schedule(PromptExample.tomorrow_0815, u)
         /\ p.next_friday_5pm = try_parse_once_schedule(PromptExample.next_friday_5pm, u)
         /\ p.one_hour_later = try_parse_once_schedule(PromptExample.one_hour_later, u)
         /\ p.next_tuesday_9am = try_parse_once_schedule(PromptExample.next_tuesday_9am, u)
<1> DEFINE p == build_trigger_parse_placeholders(u)
           localized == _localize(u)
<1>1. localized \in Int /\ Weekday(localized) \in 0 .. 6
  BY ZoneAssumption DEF _localize, Weekday, Day
<1>2. p.tomorrow_morning = try_parse_once_schedule(PromptExample.tomorrow_morning, u)
  <2> DEFINE t == PromptExample.tomorrow_morning
  <2>1. ~t.recurring /\ t.duration = NULL /\ t.tomorrow /\ t.word = "morning"
    BY DEF PromptExample, NoPhrase
  <2>2. _parse_time_of_day(t) = 9 * Hour
    BY <2>1, NullIsNoPhrase DEF _parse_time_of_day, TIME_OF_DAY, Word
  <2>3. try_parse_once_schedule(t, u) = ToUTC(_apply_time(localized + Day, 9 * Hour))
    <3> HIDE DEF t
    <3>1. QED
      BY <2>1, <2>2 DEF try_parse_once_schedule
  <2>4. QED
    BY <2>3 DEF build_trigger_parse_placeholders
<1>3. p.tomorrow_0815 = try_parse_once_schedule(PromptExample.tomorrow_0815, u)
  <2> DEFINE t == PromptExample.tomorrow_0815
             c == [hour |-> 8, minute |-> 15, pm |-> FALSE]
  <2>1. ~t.recurring /\ t.duration = NULL /\ t.tomorrow /\ t.word = NULL /\ t.clock = c
    BY DEF PromptExample, NoPhrase, AtClock
  <2>2. c # NULL
    BY NullIsNoPhrase, WrittenTime
  <2>3. _parse_at_time(c) = 8 * Hour + 15 * Minute
    BY <2>2 DEF _parse_at_time, Hour24
  <2>4. _parse_time_of_day(t) = 8 * Hour + 15 * Minute
    BY <2>1, <2>3, NullAssumption DEF _parse_time_of_day, Hour, Minute
  <2>5. try_parse_once_schedule(t, u) = ToUTC(_apply_time(localized + Day, 8 * Hour + 15 * Minute))
    <3> HIDE DEF t
    <3>1. QED
      BY <2>1, <2>4 DEF try_parse_once_schedule
  <2>6. QED
    BY <2>5 DEF build_trigger_parse_placeholders
<1>4. ASSUME NEW t, NEW time, NEW d \in 0 .. 6, NEW c \in Clock,
             ~t.recurring, t.duration = NULL, ~t.tomorrow, t.weekday = d, t.word = NULL,
             t.clock = c, _parse_at_time(c) = time, time \in Nat
      PROVE  try_parse_once_schedule(t, u) = ToUTC(_apply_time(_next_weekday(localized, d), time))
  <2>1. _parse_time_of_day(t) = time
    BY <1>4, NullAssumption DEF _parse_time_of_day
  <2>2. t.weekday # NULL
    BY <1>4, NullAssumption
  <2>3. _next_weekday(localized, d) = localized + DaysAhead(Weekday(localized), d) * Day
    BY DEF _next_weekday, DaysAhead
  <2>4. QED
    BY <1>4, <2>1, <2>2, <2>3 DEF try_parse_once_schedule
<1>5. p.next_friday_5pm = try_parse_once_schedule(PromptExample.next_friday_5pm, u)
  <2> DEFINE t == PromptExample.next_friday_5pm
             c == [hour |-> 5, minute |-> 0, pm |-> TRUE]
  <2>1. /\ ~t.recurring /\ t.duration = NULL /\ ~t.tomorrow /\ t.weekday = 4 /\ t.word = NULL
        /\ t.clock = c
    BY DEF PromptExample, NoPhrase, AtClock
  <2>2. c \in Clock /\ c # NULL
    BY NullIsNoPhrase, WrittenTime
  <2>3. _parse_at_time(c) = 17 * Hour
    BY <2>2 DEF _parse_at_time, Hour24, Hour, Minute
  <2>4. try_parse_once_schedule(t, u) = ToUTC(_apply_time(_next_weekday(localized, 4), 17 * Hour))
    <3>1. 17 * Hour \in Nat
      BY DEF Hour
    <3> HIDE DEF t, c
    <3>2. QED
      BY <1>4, <2>1, <2>2, <2>3, <3>1
  <2>5. QED
    BY <2>4 DEF build_trigger_parse_placeholders
<1>6. p.one_hour_later = try_parse_once_schedule(PromptExample.one_hour_later, u)
  <2> DEFINE t == PromptExample.one_hour_later
             d == [amount |-> 1, unit |-> "hours"]
  <2>1. ~t.recurring /\ t.duration = d
    BY DEF PromptExample, NoPhrase
  <2>2. d # NULL /\ d.amount # NULL
    BY NullIsNoPhrase, NullAssumption DEF Duration
  <2>3. Delta(d) = Hour
    BY DEF Delta, Hour
  <2>4. try_parse_once_schedule(t, u) = ToUTC(localized + Hour)
    <3> HIDE DEF t, d
    <3>1. QED
      BY <2>1, <2>2, <2>3 DEF try_parse_once_schedule
  <2>5. QED
    BY <2>4 DEF build_trigger_parse_placeholders
<1>7. p.next_tuesday_9am = try_parse_once_schedule(PromptExample.next_tuesday_9am, u)
  <2> DEFINE t == PromptExample.next_tuesday_9am
             c == [hour |-> 9, minute |-> 0, pm |-> FALSE]
  <2>1. /\ ~t.recurring /\ t.duration = NULL /\ ~t.tomorrow /\ t.weekday = 1 /\ t.word = NULL
        /\ t.clock = c
    BY DEF PromptExample, NoPhrase, AtClock
  <2>2. c \in Clock /\ c # NULL
    BY NullIsNoPhrase, WrittenTime
  <2>3. _parse_at_time(c) = 9 * Hour
    BY <2>2 DEF _parse_at_time, Hour24, Hour, Minute
  <2>4. try_parse_once_schedule(t, u) = ToUTC(_apply_time(_next_weekday(localized, 1), 9 * Hour))
    <3>1. 9 * Hour \in Nat
      BY DEF Hour
    <3> HIDE DEF t, c
    <3>2. QED
      BY <1>4, <2>1, <2>2, <2>3, <3>1
  <2>5. QED
    BY <2>4 DEF build_trigger_parse_placeholders
<1>8. QED
  BY <1>2, <1>3, <1>5, <1>6, <1>7

-----------------------------------------------------------------------------
(* The invariant. *)

(* Where the conversation is: the completions made by then, and that the    *)
(* outcome is only known at the end.                                        *)
BudgetInv ==
  /\ corrections = attempt - 1
  /\ pc \in {"start", "load"} => calls = 0
  /\ pc = "ask" => calls <= 3 * (attempt - 1) + (format - 1)
  /\ pc = "parse" => calls > 0 /\ calls <= 3 * (attempt - 1) + format
  /\ pc = "done" => calls <= 3 * attempt
  /\ pc # "done" => outcome = "none"

(* What came from the local parser is what it makes of the text. *)
LocalInv ==
  Parsed =>
    /\ try_parse_once_schedule(text, now) # NULL
    /\ spec = [type |-> "once", run_at |-> try_parse_once_schedule(text, now)]

PromptInv == prompt # NULL => prompt = build_trigger_parse_placeholders(now)

Inv ==
  /\ TypeOK
  /\ text \in Phrase \cup {NULL}
  /\ BudgetInv
  /\ AcceptedIsSchedulable
  /\ RejectedOnlyWhenExhausted
  /\ LocalInv
  /\ PromptInv

(* An output that passes the schema's validator and the checks after it is  *)
(* a trigger the scheduler takes.                                           *)
LEMMA OutputAccepted ==
  ASSUME NEW o \in OutputRecord, validate_type_fields(o), Checked(trigger_spec_from_llm_output(o))
  PROVE  LET s == trigger_spec_from_llm_output(o) IN
         /\ s \in StructuredTriggerSpec
         /\ \/ s.type = "cron" /\ s.expression.valid /\ s.expression.builds
            \/ s.type = "interval" /\ s.seconds \in 1 .. MaxSeconds
            \/ s.type = "once" /\ s.run_at \in 0 .. MaxInstant
<1> DEFINE s == trigger_spec_from_llm_output(o)
<1>1. o.type \in Type
  BY DEF OutputRecord
<1>2. CASE o.type = "cron"
  <2>1. Given(o.cron_expr)
    BY <1>2 DEF validate_type_fields
  <2>2. o.cron_expr \in CronString
    BY <2>1 DEF Given, OutputRecord
  <2>3. s = [type |-> "cron", expression |-> o.cron_expr]
    BY <1>2 DEF trigger_spec_from_llm_output
  <2>4. s.type = "cron" /\ s \in StructuredTriggerSpec
    BY <2>2, <2>3 DEF StructuredTriggerSpec
  <2>5. (s.type = "cron" => s.expression.valid) /\ (s.type = "cron" => s.expression.builds)
    BY Zenon DEF Checked, Builds
  <2>6. QED
    BY <2>4, <2>5
<1>3. CASE o.type = "interval"
  <2>1. o.interval_value # NULL /\ o.interval_unit # NULL /\ o.interval_value > 0
    BY <1>3 DEF validate_type_fields
  <2>2. o.interval_value \in Int /\ o.interval_unit \in Unit
    BY <2>1 DEF OutputRecord
  <2>3. Seconds(o) \in Nat /\ Seconds(o) > 0
    BY <2>1, <2>2 DEF Seconds, INTERVAL_UNIT_SECONDS, Unit
  <2>4. s = [type |-> "interval", seconds |-> Seconds(o)]
    BY <1>3, <2>3 DEF trigger_spec_from_llm_output
  <2>5. s.type = "interval" /\ s.seconds = Seconds(o) /\ s \in StructuredTriggerSpec
    BY <2>3, <2>4 DEF StructuredTriggerSpec
  <2>6. Seconds(o) <= MaxSeconds
    BY <2>5 DEF Checked, Builds
  <2>7. QED
    BY <2>3, <2>5, <2>6, RetriesAssumption
<1>4. CASE o.type = "once"
  <2>1. Given(o.once_datetime)
    BY <1>4 DEF validate_type_fields
  <2>2. o.once_datetime \in DateString
    BY <2>1 DEF Given, OutputRecord
  <2>3. o.once_datetime.iso
    BY <1>4 DEF trigger_spec_from_llm_output, Checked
  <2>4. s = [type |-> "once", run_at |-> o.once_datetime.at]
        /\ o.once_datetime.at \in 0 .. MaxInstant
    BY <1>4, <2>2, <2>3 DEF trigger_spec_from_llm_output, DateString
  <2>5. QED
    BY <2>4 DEF StructuredTriggerSpec
<1>5. QED
  BY <1>1, <1>2, <1>3, <1>4 DEF Type

(* A once trigger at any instant of a datetime is a trigger. *)
LEMMA OnceAccepted ==
  ASSUME NEW n \in 0 .. MaxInstant
  PROVE  [type |-> "once", run_at |-> n] \in StructuredTriggerSpec
BY DEF StructuredTriggerSpec

(* The instants in the prompt are numbers, one for each example. *)
LEMMA PlaceholdersType ==
  ASSUME NEW u \in Nat
  PROVE  build_trigger_parse_placeholders(u) \in [DOMAIN PromptExample -> Int]
<1>1. \A w \in Int : ToUTC(w) \in Int
  BY ZoneAssumption DEF ToUTC, LastWall
<1>2. _localize(u) \in Int
  BY ZoneAssumption DEF _localize
<1>3. \A b \in Int, n \in Nat : _apply_time(b, n) \in Int
  BY DEF _apply_time, Day
<1>4. \A d \in 0 .. 6 : _next_weekday(_localize(u), d) \in Int
  BY <1>2 DEF _next_weekday, Weekday, Day
<1>5. _localize(u) + Day \in Int /\ _localize(u) + Hour \in Int
  BY <1>2 DEF Day, Hour
<1>6. /\ 9 * Hour \in Nat /\ 8 * Hour + 15 * Minute \in Nat /\ 17 * Hour \in Nat
      /\ 4 \in 0 .. 6 /\ 1 \in 0 .. 6
  BY DEF Hour, Minute
<1>7. /\ ToUTC(_apply_time(_localize(u) + Day, 9 * Hour)) \in Int
      /\ ToUTC(_apply_time(_localize(u) + Day, 8 * Hour + 15 * Minute)) \in Int
      /\ ToUTC(_apply_time(_next_weekday(_localize(u), 4), 17 * Hour)) \in Int
      /\ ToUTC(_localize(u) + Hour) \in Int
      /\ ToUTC(_apply_time(_next_weekday(_localize(u), 1), 9 * Hour)) \in Int
  BY <1>1, <1>3, <1>4, <1>5, <1>6
<1>8. DOMAIN PromptExample = {"tomorrow_morning", "tomorrow_0815", "next_friday_5pm",
                              "one_hour_later", "next_tuesday_9am"}
  BY DEF PromptExample
<1>9. QED
  BY <1>7, <1>8 DEF build_trigger_parse_placeholders

-----------------------------------------------------------------------------
(* Each step keeps the invariant. *)

(* A failed attempt leaves attempts, or is the last. *)
LEMMA FailedAttempt ==
  ASSUME TypeOK, AttemptFails, corrections = attempt - 1
  PROVE  /\ attempt' \in 1 .. MaxRetries + 1 /\ format' \in 1 .. 3 /\ corrections' \in Nat
         /\ corrections' = attempt' - 1
         /\ \/ pc' = "done" /\ outcome' = "rejected" /\ attempt' = attempt /\ attempt = MaxRetries + 1
            \/ pc' = "ask" /\ outcome' = outcome /\ attempt' = attempt + 1 /\ format' = 1
BY RetriesAssumption DEF TypeOK, AttemptFails

(* An early end, before any completion. *)
LEMMA EndKeepsInv ==
  ASSUME Inv, pc # "done", calls = 0, NEW o \in {"spec", "rejected", "crashed"},
         NEW s \in StructuredTriggerSpec \cup {NULL}, End(o, s),
         o = "spec" =>
           /\ s \in StructuredTriggerSpec
           /\ text # NULL => /\ try_parse_once_schedule(text, now) # NULL
                             /\ try_parse_once_schedule(text, now) \in 0 .. MaxInstant
                             /\ s = [type |-> "once", run_at |-> try_parse_once_schedule(text, now)]
  PROVE  Inv'
<1>1. /\ pc' = "done" /\ outcome' = o /\ spec' = s /\ now' = now /\ text' = text
      /\ UNCHANGED <<prompt, attempt, format, calls, corrections, content>>
  BY DEF End, request
<1>2. TypeOK'
  BY <1>1 DEF Inv, TypeOK
<1>3. BudgetInv'
  BY <1>1 DEF Inv, TypeOK, BudgetInv
<1>4. AcceptedIsSchedulable' /\ RejectedOnlyWhenExhausted'
  <2>1. outcome' = "spec" /\ text' # NULL => spec'.type = "once" /\ spec'.run_at \in 0 .. MaxInstant
    BY <1>1
  <2>2. QED
    BY <1>1, <2>1 DEF Inv, TypeOK, AcceptedIsSchedulable, RejectedOnlyWhenExhausted
<1>5. LocalInv'
  BY <1>1 DEF LocalInv, Parsed
<1>6. PromptInv'
  BY <1>1 DEF Inv, PromptInv
<1>7. QED
  BY <1>1, <1>2, <1>3, <1>4, <1>5, <1>6 DEF Inv

(* Texts that the local parser settles, and triggers that need none. *)
LEMMA StartKeepsInv ==
  ASSUME Inv, resolve_trigger_spec \/ ParseLocally
  PROVE  Inv'
<1>1. pc = "start" /\ calls = 0 /\ now \in Nat
  BY DEF Inv, TypeOK, BudgetInv, resolve_trigger_spec, ParseLocally
<1>2. CASE resolve_trigger_spec
  <2>1. text = NULL
    BY <1>2 DEF resolve_trigger_spec
  <2>2. PICK tr \in Structured : End("spec", tr)
    BY <1>2 DEF resolve_trigger_spec
  <2>3. tr \in StructuredTriggerSpec
    BY StructuredAssumption
  <2>4. QED
    BY <1>1, <2>1, <2>2, <2>3, EndKeepsInv
<1>3. CASE ParseLocally
  <2> DEFINE run_at == try_parse_once_schedule(text, now)
  <2>1. text # NULL /\ text \in Phrase
    BY <1>3 DEF ParseLocally, Inv
  <2>2. CASE run_at # NULL /\ run_at <= MaxInstant /\ End("spec", [type |-> "once", run_at |-> run_at])
    <3>1. run_at \in 0 .. MaxInstant
      BY <1>1, <2>1, <2>2, ParsedInstant, RetriesAssumption
    <3>2. [type |-> "once", run_at |-> run_at] \in StructuredTriggerSpec
      BY <3>1, OnceAccepted
    <3> HIDE DEF run_at
    <3>3. QED
      BY <1>1, <2>2, <3>1, <3>2, EndKeepsInv DEF run_at
  <2>3. CASE End("crashed", NULL)
    BY <1>1, <2>3, EndKeepsInv
  <2>4. CASE /\ pc' = "load"
             /\ UNCHANGED <<request, prompt, attempt, format, calls, corrections, content, outcome, spec>>
    <3>1. /\ now' = now /\ text' = text
          /\ UNCHANGED <<prompt, attempt, format, calls, corrections, content, outcome, spec>>
      BY <2>4 DEF request
    <3>2. TypeOK' /\ BudgetInv'
      BY <1>1, <2>4, <3>1 DEF Inv, TypeOK, BudgetInv
    <3>3. AcceptedIsSchedulable' /\ RejectedOnlyWhenExhausted' /\ LocalInv' /\ PromptInv'
      BY <1>1, <3>1 DEF Inv, AcceptedIsSchedulable, RejectedOnlyWhenExhausted, LocalInv, Parsed, PromptInv
    <3>4. QED
      BY <3>1, <3>2, <3>3 DEF Inv
  <2>5. QED
    BY <1>3, <2>2, <2>3, <2>4 DEF ParseLocally
<1>4. QED
  BY <1>2, <1>3

(* The prompt is rendered, or the request ends without it. *)
LEMMA PromptKeepsInv ==
  ASSUME Inv, render_trigger_parse_prompt
  PROVE  Inv'
<1>1. pc = "load" /\ calls = 0 /\ now \in Nat /\ outcome = "none"
  BY DEF Inv, TypeOK, BudgetInv, render_trigger_parse_prompt
<1>2. CASE End("rejected", NULL) \/ End("crashed", NULL)
  BY <1>1, <1>2, EndKeepsInv
<1>3. CASE /\ prompt' = build_trigger_parse_placeholders(now)
           /\ pc' = "ask"
           /\ UNCHANGED <<request, attempt, format, calls, corrections, content, outcome, spec>>
  <2>1. /\ now' = now /\ text' = text
        /\ UNCHANGED <<attempt, format, calls, corrections, content, outcome, spec>>
    BY <1>3 DEF request
  <2>2. prompt' \in [DOMAIN PromptExample -> Int]
    BY <1>1, <1>3, PlaceholdersType
  <2>3. TypeOK'
    BY <1>3, <2>1, <2>2 DEF Inv, TypeOK
  <2>4. BudgetInv'
    BY <1>1, <1>3, <2>1 DEF Inv, TypeOK, BudgetInv
  <2>5. AcceptedIsSchedulable' /\ RejectedOnlyWhenExhausted' /\ LocalInv' /\ PromptInv'
    BY <1>1, <1>3, <2>1 DEF AcceptedIsSchedulable, RejectedOnlyWhenExhausted, LocalInv, Parsed, PromptInv
  <2>6. QED
    BY <2>1, <2>3, <2>4, <2>5 DEF Inv
<1>4. QED
  BY <1>2, <1>3 DEF render_trigger_parse_prompt

(* A completion fails: another format, another attempt, or the end. *)
LEMMA FailureKeepsInv ==
  ASSUME Inv, CompletionFails
  PROVE  Inv'
<1>1. /\ pc = "ask" /\ outcome = "none" /\ calls' = calls + 1 /\ calls \in Nat
      /\ now' = now /\ text' = text /\ UNCHANGED <<prompt, content, spec>>
  BY DEF Inv, TypeOK, BudgetInv, CompletionFails, request
<1>2. CASE format < 3 /\ format' = format + 1 /\ UNCHANGED <<pc, attempt, corrections, outcome>>
  <2>1. TypeOK' /\ BudgetInv'
    BY <1>1, <1>2 DEF Inv, TypeOK, BudgetInv
  <2>2. AcceptedIsSchedulable' /\ RejectedOnlyWhenExhausted' /\ LocalInv' /\ PromptInv'
    BY <1>1, <1>2 DEF Inv, AcceptedIsSchedulable, RejectedOnlyWhenExhausted, LocalInv, Parsed, PromptInv
  <2>3. QED
    BY <1>1, <2>1, <2>2 DEF Inv
<1>3. CASE format = 3 /\ AttemptFails
  <2>1. /\ attempt' \in 1 .. MaxRetries + 1 /\ format' \in 1 .. 3 /\ corrections' \in Nat
        /\ corrections' = attempt' - 1
        /\ \/ pc' = "done" /\ outcome' = "rejected" /\ attempt' = attempt /\ attempt = MaxRetries + 1
           \/ pc' = "ask" /\ outcome' = outcome /\ attempt' = attempt + 1 /\ format' = 1
    BY <1>3, FailedAttempt DEF Inv, BudgetInv
  <2>2. TypeOK'
    <3>1. pc' \in {"ask", "done"} /\ outcome' \in {"none", "rejected"} /\ calls' \in Nat
      BY <1>1, <2>1
    <3>2. QED
      BY <1>1, <2>1, <3>1 DEF Inv, TypeOK
  <2>3. BudgetInv'
    <3>1. attempt \in Nat /\ calls <= 3 * (attempt - 1) + 2
      BY <1>1, <1>3, RetriesAssumption DEF Inv, TypeOK, BudgetInv
    <3>2. CASE pc' = "done" /\ attempt' = attempt
      BY <1>1, <2>1, <3>1, <3>2 DEF BudgetInv
    <3>3. CASE pc' = "ask" /\ outcome' = outcome /\ attempt' = attempt + 1 /\ format' = 1
      BY <1>1, <2>1, <3>1, <3>3 DEF BudgetInv
    <3>4. QED
      BY <2>1, <3>2, <3>3
  <2>4. AcceptedIsSchedulable' /\ RejectedOnlyWhenExhausted' /\ LocalInv' /\ PromptInv'
    BY <1>1, <2>1 DEF Inv, AcceptedIsSchedulable, RejectedOnlyWhenExhausted, LocalInv, Parsed, PromptInv
  <2>5. QED
    BY <1>1, <2>2, <2>3, <2>4 DEF Inv
<1>4. QED
  BY <1>2, <1>3 DEF CompletionFails

(* An answer arrives. *)
LEMMA AnswerKeepsInv ==
  ASSUME Inv, CompletionAnswers
  PROVE  Inv'
<1>1. /\ pc = "ask" /\ outcome = "none" /\ calls' = calls + 1 /\ calls \in Nat
      /\ content' \in Content /\ pc' = "parse" /\ now' = now /\ text' = text
      /\ UNCHANGED <<prompt, attempt, format, corrections, outcome, spec>>
  BY DEF Inv, TypeOK, BudgetInv, CompletionAnswers, request
<1>2. TypeOK' /\ BudgetInv'
  BY <1>1 DEF Inv, TypeOK, BudgetInv
<1>3. AcceptedIsSchedulable' /\ RejectedOnlyWhenExhausted' /\ LocalInv' /\ PromptInv'
  BY <1>1 DEF Inv, AcceptedIsSchedulable, RejectedOnlyWhenExhausted, LocalInv, Parsed, PromptInv
<1>4. QED
  BY <1>1, <1>2, <1>3 DEF Inv

(* An answer is accepted, escapes the error handling, or costs an attempt.  *)
LEMMA ParseKeepsInv ==
  ASSUME Inv, _parse_trigger_json
  PROVE  Inv'
<1>1. /\ pc = "parse" /\ outcome = "none" /\ content' = NoContent /\ calls' = calls
      /\ calls \in Nat /\ calls > 0 /\ now' = now /\ text' = text /\ prompt' = prompt
  BY DEF Inv, TypeOK, BudgetInv, _parse_trigger_json, request
<1>2. CASE /\ Parses(content)
           /\ pc' = "done" /\ outcome' = "spec"
           /\ spec' = trigger_spec_from_llm_output(content.out)
           /\ UNCHANGED <<attempt, format, corrections>>
  <2>1. content.kind = "fields" /\ validate_type_fields(content.out) /\ Checked(trigger_spec_from_llm_output(content.out))
    BY <1>2 DEF Parses
  <2>2. content.out \in Output
    BY <2>1 DEF Inv, TypeOK, Content, NoContent, BadContent
  <2>3. /\ spec' \in StructuredTriggerSpec
        /\ \/ spec'.type = "cron" /\ spec'.expression.valid /\ spec'.expression.builds
           \/ spec'.type = "interval" /\ spec'.seconds \in 1 .. MaxSeconds
           \/ spec'.type = "once" /\ spec'.run_at \in 0 .. MaxInstant
    BY <1>2, <2>1, <2>2, OutputAccepted, OutputAssumption
  <2>4. TypeOK' /\ BudgetInv'
    BY <1>1, <1>2, <2>3 DEF Inv, TypeOK, BudgetInv
  <2>5. AcceptedIsSchedulable' /\ RejectedOnlyWhenExhausted' /\ LocalInv' /\ PromptInv'
    BY <1>1, <1>2, <2>3 DEF Inv, AcceptedIsSchedulable, RejectedOnlyWhenExhausted, LocalInv, Parsed, PromptInv
  <2>6. QED
    BY <1>1, <2>4, <2>5 DEF Inv
<1>3. CASE pc' = "done" /\ outcome' = "crashed" /\ UNCHANGED <<attempt, format, corrections, spec>>
  <2>1. TypeOK' /\ BudgetInv'
    BY <1>1, <1>3 DEF Inv, TypeOK, BudgetInv
  <2>2. AcceptedIsSchedulable' /\ RejectedOnlyWhenExhausted' /\ LocalInv' /\ PromptInv'
    BY <1>1, <1>3 DEF Inv, AcceptedIsSchedulable, RejectedOnlyWhenExhausted, LocalInv, Parsed, PromptInv
  <2>3. QED
    BY <1>1, <2>1, <2>2 DEF Inv
<1>4. CASE AttemptFails /\ UNCHANGED spec
  <2>1. /\ attempt' \in 1 .. MaxRetries + 1 /\ format' \in 1 .. 3 /\ corrections' \in Nat
        /\ corrections' = attempt' - 1
        /\ \/ pc' = "done" /\ outcome' = "rejected" /\ attempt' = attempt /\ attempt = MaxRetries + 1
           \/ pc' = "ask" /\ outcome' = outcome /\ attempt' = attempt + 1 /\ format' = 1
    BY <1>4, FailedAttempt DEF Inv, BudgetInv
  <2>2. TypeOK' /\ BudgetInv'
    <3>1. pc' \in {"ask", "done"} /\ outcome' \in {"none", "rejected"}
      BY <1>1, <2>1
    <3>2. TypeOK'
      BY <1>1, <1>4, <2>1, <3>1 DEF Inv, TypeOK
    <3>3. attempt \in Nat /\ calls <= 3 * (attempt - 1) + 3
      BY <1>1, RetriesAssumption DEF Inv, TypeOK, BudgetInv
    <3>4. CASE pc' = "done" /\ attempt' = attempt
      BY <1>1, <2>1, <3>2, <3>3, <3>4 DEF BudgetInv
    <3>5. CASE pc' = "ask" /\ outcome' = outcome /\ attempt' = attempt + 1 /\ format' = 1
      BY <1>1, <2>1, <3>2, <3>3, <3>5 DEF BudgetInv
    <3>6. QED
      BY <2>1, <3>2, <3>4, <3>5
  <2>3. AcceptedIsSchedulable' /\ RejectedOnlyWhenExhausted' /\ LocalInv' /\ PromptInv'
    BY <1>1, <2>1 DEF Inv, AcceptedIsSchedulable, RejectedOnlyWhenExhausted, LocalInv, Parsed, PromptInv
  <2>4. QED
    BY <1>1, <2>2, <2>3 DEF Inv
<1>5. QED
  BY <1>2, <1>3, <1>4 DEF _parse_trigger_json

(* Inv is inductive. *)
LEMMA InvInductive == Spec => []Inv
<1>1. Init => Inv
  <2>1. ASSUME Init PROVE Inv
    <3>1. now \in Nat /\ text \in Phrase \cup {NULL}
      BY <2>1, CaseAssumption DEF Init
    <3>2. TypeOK
      BY <2>1, <3>1, RetriesAssumption DEF Init, TypeOK
    <3>3. BudgetInv
      BY <2>1 DEF Init, BudgetInv
    <3>4. AcceptedIsSchedulable /\ RejectedOnlyWhenExhausted /\ LocalInv /\ PromptInv
      BY <2>1 DEF Init, AcceptedIsSchedulable, RejectedOnlyWhenExhausted, LocalInv, Parsed, PromptInv
    <3>5. QED
      BY <3>1, <3>2, <3>3, <3>4 DEF Inv
  <2>2. QED
    BY <2>1
<1>2. Inv /\ [Next]_vars => Inv'
  <2>1. ASSUME Inv, Next PROVE Inv'
    BY <2>1, StartKeepsInv, PromptKeepsInv, FailureKeepsInv, AnswerKeepsInv, ParseKeepsInv DEF Next
  <2>2. ASSUME Inv, UNCHANGED vars PROVE Inv'
    BY <2>2 DEF Inv, vars, request, TypeOK, BudgetInv, AcceptedIsSchedulable,
                RejectedOnlyWhenExhausted, LocalInv, Parsed, PromptInv
  <2>3. QED
    BY <2>1, <2>2
<1>3. QED
  BY <1>1, <1>2, PTL DEF Spec

-----------------------------------------------------------------------------
(* The variables keep their types; attempt never exceeds stop_after_attempt's *)
(* max_retries + 1.                                                         *)
THEOREM TypeCorrect == Spec => []TypeOK
<1>1. Inv => TypeOK
  BY DEF Inv
<1>2. QED
  BY <1>1, InvInductive, PTL

(* No text ends in a trigger the scheduler would refuse: neither the local  *)
(* parser nor an answer of the model, however malformed and after however   *)
(* many retries, gets an expression that does not build, a period that is   *)
(* not positive or too long, or a date that is none past                    *)
(* validate_type_fields, trigger_spec_from_llm_output and                   *)
(* _parse_trigger_json.                                                     *)
THEOREM AcceptedSchedulable == Spec => []AcceptedIsSchedulable
<1>1. Inv => AcceptedIsSchedulable
  BY DEF Inv
<1>2. QED
  BY <1>1, InvInductive, PTL

(* The retry loop of parse_trigger_text_to_spec around _call_llm never asks *)
(* for more than three completions per attempt, and every retry carries its *)
(* correction message.                                                      *)
THEOREM BudgetKept == Spec => []RetryBudget
<1>1. Inv => RetryBudget
  BY RetriesAssumption DEF Inv, TypeOK, BudgetInv, RetryBudget
<1>2. QED
  BY <1>1, InvInductive, PTL

(* A text is not rejected while attempts remain. *)
THEOREM RejectedExhausted == Spec => []RejectedOnlyWhenExhausted
<1>1. Inv => RejectedOnlyWhenExhausted
  BY DEF Inv
<1>2. QED
  BY <1>1, InvInductive, PTL

(* build_trigger_parse_placeholders and try_parse_once_schedule agree on    *)
(* the examples of the prompt, at every instant and in every time zone.     *)
THEOREM PromptAgrees == Spec => []PromptAgreesWithParser
<1>1. Inv => PromptAgreesWithParser
  <2>1. SUFFICES ASSUME Inv, prompt # NULL, NEW e \in DOMAIN PromptExample
                 PROVE  prompt[e] = try_parse_once_schedule(PromptExample[e], now)
    BY DEF PromptAgreesWithParser
  <2>2. prompt = build_trigger_parse_placeholders(now) /\ now \in Nat
    BY <2>1 DEF Inv, TypeOK, PromptInv
  <2>3. e \in {"tomorrow_morning", "tomorrow_0815", "next_friday_5pm", "one_hour_later",
               "next_tuesday_9am"}
    BY <2>1 DEF PromptExample
  <2>4. QED
    BY <2>2, <2>3, PromptExamples
<1>2. QED
  BY <1>1, InvInductive, PTL

-----------------------------------------------------------------------------
(* A zone with a fixed offset.  (Across a change of offset the first two    *)
(* fail: localized + delta is arithmetic on the wall clock.)                *)

(* The instant of a phrase the local parser settled. *)
LEMMA ParsedSpec ==
  ASSUME Inv, Parsed
  PROVE  /\ now \in Nat /\ text \in Phrase
         /\ try_parse_once_schedule(text, now) # NULL
         /\ spec.run_at = try_parse_once_schedule(text, now)
BY DEF Inv, TypeOK, LocalInv, Parsed

(* "in <n> <unit>": the unit table of try_parse_once_schedule. *)
THEOREM InElapsed ==
  ASSUME Before = After
  PROVE  Spec => []InMeansElapsed
<1>1. Inv => InMeansElapsed
  <2>1. SUFFICES ASSUME Inv, Parsed, text.duration # NULL
                 PROVE  spec.run_at - now = text.duration.amount * UnitLength[text.duration.unit]
    BY DEF InMeansElapsed
  <2>2. /\ text.duration.amount \in Nat /\ Delta(text.duration) \in Nat
        /\ spec.run_at = ToUTC(_localize(now) + Delta(text.duration))
    BY <2>1, ParsedSpec, ParsedShape
  <2>3. text.duration \in Duration
    BY <2>1, ParsedSpec DEF Phrase
  <2>4. now \in Nat /\ _localize(now) = now + Before
    BY <2>1, ParsedSpec DEF _localize
  <2>5. _localize(now) + Delta(text.duration) \in Int
    BY <2>2, <2>4, ZoneAssumption
  <2>6. spec.run_at - now = Delta(text.duration)
    BY <2>2, <2>4, <2>5, ReadBackFixed, ZoneAssumption
  <2>7. Delta(text.duration) = text.duration.amount * UnitLength[text.duration.unit]
    BY <2>2, <2>3 DEF Duration, Delta, UnitLength, Minute, Hour, Day
  <2>8. QED
    BY <2>6, <2>7
<1>2. QED
  BY <1>1, InvInductive, PTL

(* The instant of a phrase about a day, on the user's wall clock. *)
LEMMA ParsedDay ==
  ASSUME Before = After, Inv, Parsed, text.duration = NULL
  PROVE  /\ text.tomorrow \/ text.weekday \in 0 .. 6
         /\ _localize(now) \in Int /\ _localize(spec.run_at) \in Int
         /\ _localize(spec.run_at) \div Day = TargetDay(text, _localize(now))
         /\ TargetDay(text, _localize(now)) > _localize(now) \div Day
         /\ _localize(spec.run_at) % Day = _parse_time_of_day(text)
<1>1. /\ now \in Nat /\ text \in Phrase
      /\ try_parse_once_schedule(text, now) # NULL
      /\ spec.run_at = try_parse_once_schedule(text, now)
  BY ParsedSpec
<1>2. PICK w \in Int :
        /\ try_parse_once_schedule(text, now) = ToUTC(w)
        /\ w \div Day = TargetDay(text, _localize(now))
        /\ w % Day = _parse_time_of_day(text)
  BY <1>1, ParsedShape
<1>3. /\ text.tomorrow \/ text.weekday \in 0 .. 6
      /\ TargetDay(text, _localize(now)) > _localize(now) \div Day
  BY <1>1, ParsedShape
<1>4. _localize(spec.run_at) = w
  BY <1>1, <1>2, ReadBackFixed
<1>5. _localize(now) \in Int
  BY <1>1, ZoneAssumption DEF _localize
<1>6. QED
  BY <1>2, <1>3, <1>4, <1>5

(* No phrase is resolved to an instant that has passed. *)
THEOREM NotInThePast ==
  ASSUME Before = After
  PROVE  Spec => []NeverInThePast
<1>1. Inv => NeverInThePast
  <2>1. SUFFICES ASSUME Inv, Parsed
                 PROVE  spec.run_at >= now
    BY DEF NeverInThePast
  <2>2. /\ now \in Nat /\ text \in Phrase
        /\ try_parse_once_schedule(text, now) # NULL
        /\ spec.run_at = try_parse_once_schedule(text, now)
    BY <2>1, ParsedSpec
  <2>3. spec.run_at \in Nat
    BY <2>2, ParsedInstant
  <2>4. _localize(now) = now + Before /\ _localize(spec.run_at) = spec.run_at + Before
    BY DEF _localize
  <2>5. CASE text.duration # NULL
    <3>1. Delta(text.duration) \in Nat /\ spec.run_at = ToUTC(_localize(now) + Delta(text.duration))
      BY <2>2, <2>5, ParsedShape
    <3>2. _localize(now) + Delta(text.duration) \in Int
      BY <2>2, <2>4, <3>1, ZoneAssumption
    <3>3. spec.run_at = (_localize(now) + Delta(text.duration)) - Before
      BY <3>1, <3>2, ReadBackFixed
    <3>4. QED
      BY <2>2, <2>4, <3>1, <3>3, ZoneAssumption
  <2>6. CASE text.duration = NULL
    <3>1. _localize(spec.run_at) > _localize(now)
      <4>1. /\ _localize(now) \in Int /\ _localize(spec.run_at) \in Int
            /\ _localize(spec.run_at) \div Day > _localize(now) \div Day
        BY <2>1, <2>6, ParsedDay
      <4>2. QED
        BY <4>1, LaterDay
    <3>2. QED
      BY <2>2, <2>3, <2>4, <3>1, ZoneAssumption
  <2>7. QED
    BY <2>5, <2>6
<1>2. QED
  BY <1>1, InvInductive, PTL

(* The day DaysAhead reaches is the first of that weekday after today. *)
LEMMA FirstSuchDay ==
  ASSUME NEW today \in Int, NEW weekday \in 0 .. 6
  PROVE  LET d == today + DaysAhead(today % 7, weekday) IN
         /\ d % 7 = weekday
         /\ d > today
         /\ \A e \in today + 1 .. d - 1 : e % 7 # weekday
<1> DEFINE r == today % 7
           n == DaysAhead(r, weekday)
<1>1. r \in 0 .. 6
  OBVIOUS
<1>2. n \in 1 .. 7 /\ \E k \in 0 .. 1 : n = weekday - r + 7 * k
  BY <1>1, DaysAheadRange
<1>3. today = 7 * (today \div 7) + r /\ today \div 7 \in Int
  OBVIOUS
<1> HIDE DEF r, n
<1>4. (today + n) % 7 = weekday
  BY <1>1, <1>2, <1>3
<1>5. ASSUME NEW e \in today + 1 .. today + n - 1
      PROVE  e % 7 # weekday
  BY <1>1, <1>2, <1>3, <1>4
<1>6. QED
  BY <1>2, <1>4, <1>5 DEF r, n

(* "tomorrow" and "next <weekday>" are the days they name in the user's     *)
(* zone.                                                                    *)
THEOREM DayRight ==
  ASSUME Before = After
  PROVE  Spec => []DayIsRight
<1>1. Inv => DayIsRight
  <2> DEFINE d == _localize(spec.run_at) \div Day
             today == _localize(now) \div Day
  <2>1. SUFFICES ASSUME Inv, Parsed, text.duration = NULL
                 PROVE  IF text.tomorrow THEN d = today + 1
                        ELSE /\ d % 7 = text.weekday
                             /\ d > today
                             /\ \A e \in today + 1 .. d - 1 : e % 7 # text.weekday
    BY DEF DayIsRight
  <2>2. d = TargetDay(text, _localize(now)) /\ (text.tomorrow \/ text.weekday \in 0 .. 6)
    BY <2>1, ParsedDay
  <2>3. today \in Int
    BY <2>1, ParsedDay DEF Day
  <2>4. d = today + (IF text.tomorrow THEN 1 ELSE DaysAhead(today % 7, text.weekday))
    BY <2>2 DEF TargetDay, Weekday
  <2> HIDE DEF d, today
  <2>5. QED
    BY <2>2, <2>3, <2>4, FirstSuchDay
<1>2. QED
  BY <1>1, InvInductive, PTL

(* A time written on the 12-hour clock is the one applied, noon and         *)
(* midnight included (_parse_at_time).                                      *)
THEOREM TimeRight ==
  ASSUME Before = After
  PROVE  Spec => []TimeIsRight
<1>1. Inv => TimeIsRight
  <2>1. SUFFICES ASSUME Inv, Parsed, text.duration = NULL, text.word = NULL, text.clock # NULL,
                        text.clock.hour \in 1 .. 12, text.clock.minute <= 59
                 PROVE  _localize(spec.run_at) % Day = ClockTime(text.clock)
    BY DEF TimeIsRight
  <2>2. text.clock \in Clock
    BY <2>1, ParsedSpec DEF Phrase
  <2>3. text.clock.minute \in Nat /\ text.clock.pm \in BOOLEAN
    BY <2>2 DEF Clock
  <2>4. Hour24(text.clock) = (text.clock.hour % 12) + (IF text.clock.pm THEN 12 ELSE 0)
    BY <2>1, <2>3 DEF Hour24
  <2>5. Hour24(text.clock) \in 0 .. 23
    BY <2>1, <2>3 DEF Hour24
  <2>6. _parse_at_time(text.clock) = Hour24(text.clock) * Hour + text.clock.minute * Minute
    BY <2>1, <2>3, <2>5 DEF _parse_at_time
  <2>7. _parse_at_time(text.clock) \in Int
    BY <2>3, <2>5, <2>6 DEF Hour, Minute
  <2>8. _parse_time_of_day(text) = _parse_at_time(text.clock)
    BY <2>1, <2>7, NullAssumption DEF _parse_time_of_day
  <2>9. QED
    BY <2>1, <2>4, <2>6, <2>8, ParsedDay DEF ClockTime
<1>2. QED
  BY <1>1, InvInductive, PTL
=============================================================================
