---------------------------- MODULE TriggerParse ----------------------------
(***************************************************************************)
(* Turning the trigger of a request into a structured one:                  *)
(* app/services/trigger_parse.py with the output schema of                  *)
(* app/schemas/trigger_parse.py.  A text goes first through the local       *)
(* parser; what that does not recognise is given to a language model, in up *)
(* to three response formats per attempt and up to MaxRetries + 1 attempts. *)
(*                                                                          *)
(* The text and the model's answers are reduced to what the code tells      *)
(* apart.  A cron string is [valid, builds]: accepted by CronValidator,     *)
(* accepted by APScheduler.  A date string is [iso, at]: one that           *)
(* fromisoformat reads, and the instant.  EMPTY is the empty string.  What  *)
(* the local parser finds in a text is a record of RelativeSchedule.        *)
(***************************************************************************)
EXTENDS RelativeSchedule

CONSTANTS
  EMPTY,        \* the empty string
  MaxRetries,   \* settings.max_retries
  MaxSeconds,   \* the longest period a timedelta can hold
  MaxInstant,   \* the last instant a datetime can hold
  Case,         \* requests: [now, text], with text NULL for a structured trigger
  PromptFile,   \* states of the configured prompt file
  Structured,   \* structured triggers clients send
  Output        \* JSON objects with the fields of TriggerParseLLMOutput

ASSUME RetriesAssumption == MaxRetries \in Nat /\ MaxSeconds \in Nat /\ MaxInstant \in Nat

Type == {"once", "cron", "interval"}
Unit == {"seconds", "minutes", "hours", "days", "weeks"}
CronString == [valid : BOOLEAN, builds : BOOLEAN]
DateString == [iso : BOOLEAN, at : 0 .. MaxInstant]

(* OnceTrigger, CronTriggerSpec and IntervalTriggerSpec. *)
StructuredTriggerSpec ==
  [type : {"once"}, run_at : 0 .. MaxInstant]
  \cup [type : {"cron"}, expression : CronString]
  \cup [type : {"interval"}, seconds : Nat \ {0}]

OutputRecord ==
  [type : Type,
   cron_expr      : CronString \cup {EMPTY, NULL},
   interval_value : Int \cup {NULL},
   interval_unit  : Unit \cup {NULL},
   once_datetime  : DateString \cup {EMPTY, NULL}]

ASSUME OutputAssumption == Output \subseteq OutputRecord
ASSUME CaseAssumption == \A c \in Case : c.now \in Nat /\ c.text \in Phrase \cup {NULL}
ASSUME PromptAssumption ==
  PromptFile \subseteq {"unreadable", "not_utf8", "empty", "unknown_placeholder", "ok"}
ASSUME StructuredAssumption == Structured \subseteq StructuredTriggerSpec

(* The content of one completion: empty, not JSON, JSON that is no object,  *)
(* an object without the schema's fields, or one that has them; and none at *)
(* all, when the completion has no choices.                                 *)
BadContent == {"empty", "not_json", "not_object", "bad_fields", "no_choices"}
NoOutput == [type |-> "once", cron_expr |-> NULL, interval_value |-> NULL,
             interval_unit |-> NULL, once_datetime |-> NULL]
Content == [kind : BadContent, out : {NoOutput}] \cup [kind : {"fields"}, out : Output]

VARIABLES
  now,          \* datetime.now(ZoneInfo(timezone)), as UTC seconds
  text,         \* the text of the request, NULL for a structured trigger
  prompt,       \* the instants written into the prompt, NULL before
  pc,           \* "start", "ask", "parse" or "done"
  attempt,      \* tenacity's attempt_number
  format,       \* index in response_formats
  calls,        \* completions requested so far
  corrections,  \* correction messages appended to the conversation
  content,      \* the content being parsed
  outcome,      \* "none", "spec", "rejected" (422) or "crashed" (500)
  spec          \* the structured trigger, when outcome = "spec"

request == <<now, text>>
vars == <<request, prompt, pc, attempt, format, calls, corrections, content, outcome, spec>>

NoContent == [kind |-> "empty", out |-> NoOutput]

-----------------------------------------------------------------------------
INTERVAL_UNIT_SECONDS(u) ==
  CASE u = "seconds" -> 1
    [] u = "minutes" -> 60
    [] u = "hours"   -> 3600
    [] u = "days"    -> 86400
    [] OTHER         -> 604800

(* An optional string that is neither None nor empty. *)
Given(x) == x # NULL /\ x # EMPTY

(* The validator of TriggerParseLLMOutput: the fields of the declared type, *)
(* and only those.                                                          *)
validate_type_fields(o) ==
  \/ /\ o.type = "cron"
     /\ Given(o.cron_expr)
     /\ o.interval_value = NULL /\ o.interval_unit = NULL /\ o.once_datetime = NULL
  \/ /\ o.type = "interval"
     /\ o.interval_value # NULL /\ o.interval_unit # NULL
     /\ o.interval_value > 0
     /\ o.cron_expr = NULL /\ o.once_datetime = NULL
  \/ /\ o.type = "once"
     /\ Given(o.once_datetime)
     /\ o.cron_expr = NULL /\ o.interval_value = NULL /\ o.interval_unit = NULL

Seconds(o) == o.interval_value * INTERVAL_UNIT_SECONDS(o.interval_unit)

(* NULL stands for the exception of fromisoformat, or of the model that     *)
(* IntervalTriggerSpec is: its seconds are positive.                        *)
trigger_spec_from_llm_output(o) ==
  CASE o.type = "cron"     -> [type |-> "cron", expression |-> o.cron_expr]
    [] o.type = "interval" -> IF Seconds(o) > 0 THEN [type |-> "interval", seconds |-> Seconds(o)]
                                                ELSE NULL
    [] OTHER               -> IF o.once_datetime.iso
                              THEN [type |-> "once", run_at |-> o.once_datetime.at]
                              ELSE NULL

(* build_trigger, called by compute_next_run_at, raises no exception: the   *)
(* trigger classes take the expression, and a timedelta holds the seconds.  *)
Builds(s) ==
  /\ s.type = "cron" => s.expression.builds
  /\ s.type = "interval" => s.seconds <= MaxSeconds

(* Mutant: the validator of cron expressions is trusted, and the trigger    *)
(* that came out is not tried.                                              *)
CheckedUntried(s) == s # NULL /\ (s.type = "cron" => s.expression.valid)

(* The checks of _parse_trigger_json after the schema's: there is a spec,   *)
(* its expression is valid, and the scheduler builds the trigger.           *)
Checked(s) ==
  /\ s # NULL
  /\ s.type = "cron" => s.expression.valid
  /\ Builds(s)

(* Exceptions of _extract_content and _parse_trigger_json are               *)
(* TriggerParseErrors, with two exceptions: choices[0] of no choices, and   *)
(* _log_failed_parse calls .get on whatever JSON value failed the schema.   *)
Escapes(c) == c.kind \in {"not_object", "no_choices"}

Parses(c) ==
  /\ c.kind = "fields" /\ validate_type_fields(c.out)
  /\ Checked(trigger_spec_from_llm_output(c.out))

-----------------------------------------------------------------------------
Init ==
  /\ \E c \in Case : now = c.now /\ text = c.text
  /\ prompt = NULL
  /\ pc = "start" /\ attempt = 1 /\ format = 1
  /\ calls = 0 /\ corrections = 0
  /\ content = NoContent
  /\ outcome = "none" /\ spec = NULL

End(o, s) ==
  /\ pc' = "done" /\ outcome' = o /\ spec' = s
  /\ UNCHANGED <<request, prompt, attempt, format, calls, corrections, content>>

(* A structured trigger is passed on as it is. *)
resolve_trigger_spec ==
  /\ pc = "start" /\ text = NULL
  /\ \E tr \in Structured : End("spec", tr)

(* parse_trigger_text_to_spec up to the first attempt.  An instant beyond   *)
(* the last one is an OverflowError, which nothing catches.                 *)
ParseLocally ==
  /\ pc = "start" /\ text # NULL
  /\ LET run_at == try_parse_once_schedule(text, now) IN
     \/ /\ run_at # NULL /\ run_at <= MaxInstant
        /\ End("spec", [type |-> "once", run_at |-> run_at])
     \/ /\ run_at # NULL /\ run_at > MaxInstant
        /\ End("crashed", NULL)
     \/ /\ run_at = NULL
        /\ pc' = "load"
        /\ UNCHANGED <<request, prompt, attempt, format, calls, corrections, content, outcome, spec>>

(* load_prompt and render_trigger_parse_prompt: a PromptLoadError when the  *)
(* file cannot be read, is empty, or has a placeholder nothing replaces.    *)
(* Bytes that are no UTF-8 are a UnicodeDecodeError, which is no OSError    *)
(* and so becomes no PromptLoadError.                                       *)
render_trigger_parse_prompt ==
  /\ pc = "load"
  /\ \E file \in PromptFile :
       \/ file \in {"unreadable", "empty", "unknown_placeholder"} /\ End("rejected", NULL)
       \/ file = "not_utf8" /\ End("crashed", NULL)
       \/ /\ file = "ok"
          /\ prompt' = build_trigger_parse_placeholders(now)
          /\ pc' = "ask"
          /\ UNCHANGED <<request, attempt, format, calls, corrections, content, outcome, spec>>

(* Mutants of AttemptFails: stop counts retries instead of attempts; the    *)
(* last attempt is not made; no correction message is appended.             *)
FailsAfter(last) ==
  IF attempt = last
  THEN /\ pc' = "done" /\ outcome' = "rejected"
       /\ UNCHANGED <<attempt, format, corrections>>
  ELSE /\ pc' = "ask" /\ attempt' = attempt + 1 /\ format' = 1
       /\ corrections' = corrections + 1
       /\ UNCHANGED outcome
OneTooMany == FailsAfter(MaxRetries + 2)
OneTooFew == FailsAfter(MaxRetries)
Uncorrected ==
  IF attempt = MaxRetries + 1
  THEN /\ pc' = "done" /\ outcome' = "rejected"
       /\ UNCHANGED <<attempt, format, corrections>>
  ELSE /\ pc' = "ask" /\ attempt' = attempt + 1 /\ format' = 1
       /\ UNCHANGED <<corrections, outcome>>

(* tenacity: retry after a TriggerParseError while attempts remain. *)
AttemptFails ==
  IF attempt = MaxRetries + 1
  THEN /\ pc' = "done" /\ outcome' = "rejected"
       /\ UNCHANGED <<attempt, format, corrections>>
  ELSE /\ pc' = "ask" /\ attempt' = attempt + 1 /\ format' = 1
       /\ corrections' = corrections + 1
       /\ UNCHANGED outcome

(* _call_llm: the completion fails, and the next format is tried. *)
CompletionFails ==
  /\ pc = "ask"
  /\ calls' = calls + 1
  /\ \/ format < 3 /\ format' = format + 1 /\ UNCHANGED <<pc, attempt, corrections, outcome>>
     \/ format = 3 /\ AttemptFails
  /\ UNCHANGED <<request, prompt, content, spec>>

(* _call_llm: an answer arrives, in whatever format was asked for. *)
CompletionAnswers ==
  /\ pc = "ask"
  /\ calls' = calls + 1
  /\ content' \in Content
  /\ pc' = "parse"
  /\ UNCHANGED <<request, prompt, attempt, format, corrections, outcome, spec>>

(* Mutant: the parser is retried on the same answer. *)
ParseAgain ==
  /\ pc = "parse"
  /\ UNCHANGED <<request, prompt, content, calls, attempt, format, corrections>>
  /\ \/ /\ Parses(content)
        /\ pc' = "done" /\ outcome' = "spec"
        /\ spec' = trigger_spec_from_llm_output(content.out)
     \/ ~Parses(content) /\ UNCHANGED <<pc, outcome, spec>>

(* _extract_content and _parse_trigger_json. *)
_parse_trigger_json ==
  /\ pc = "parse"
  /\ content' = NoContent
  /\ UNCHANGED <<request, prompt, calls>>
  /\ \/ /\ Parses(content)
        /\ pc' = "done" /\ outcome' = "spec"
        /\ spec' = trigger_spec_from_llm_output(content.out)
        /\ UNCHANGED <<attempt, format, corrections>>
     \/ /\ Escapes(content)
        /\ pc' = "done" /\ outcome' = "crashed"
        /\ UNCHANGED <<attempt, format, corrections, spec>>
     \/ /\ ~Parses(content) /\ ~Escapes(content)
        /\ AttemptFails
        /\ UNCHANGED spec

Next ==
  \/ resolve_trigger_spec
  \/ ParseLocally
  \/ render_trigger_parse_prompt
  \/ CompletionFails
  \/ CompletionAnswers
  \/ _parse_trigger_json

Spec == Init /\ [][Next]_vars

(* Each step is a call with a timeout or local computation: it ends.        *)
FairSpec == Spec /\ WF_vars(Next)

-----------------------------------------------------------------------------
TypeOK ==
  /\ now \in Nat
  /\ prompt \in [DOMAIN PromptExample -> Int] \cup {NULL}
  /\ pc \in {"start", "load", "ask", "parse", "done"}
  /\ attempt \in 1 .. MaxRetries + 1
  /\ format \in 1 .. 3
  /\ calls \in Nat
  /\ corrections \in Nat
  /\ content \in Content \cup {NoContent}
  /\ outcome \in {"none", "spec", "rejected", "crashed"}
  /\ spec \in StructuredTriggerSpec \cup {NULL}

(* Whatever the model answers, and whatever was rejected before, a text     *)
(* ends in a trigger the scheduler takes: an expression that both the       *)
(* validator and CronTrigger accept, a positive period that fits a          *)
(* timedelta, or an instant that fits a datetime.  (A structured trigger is *)
(* passed on unchecked.)                                                    *)
AcceptedIsSchedulable ==
  outcome = "spec" /\ text # NULL =>
    \/ spec.type = "cron" /\ spec.expression.valid /\ spec.expression.builds
    \/ spec.type = "interval" /\ spec.seconds \in 1 .. MaxSeconds
    \/ spec.type = "once" /\ spec.run_at \in 0 .. MaxInstant

(* The retry budget: every retry adds exactly one correction message to the *)
(* conversation, and no text costs more than three completions per attempt. *)
RetryBudget ==
  /\ corrections = attempt - 1
  /\ calls <= 3 * attempt

(* A text is given up only when every attempt has been spent, or before the *)
(* first one when there is no prompt.                                       *)
RejectedOnlyWhenExhausted ==
  outcome = "rejected" => calls = 0 \/ attempt = MaxRetries + 1

(* Every request for a trigger is answered. *)
Answered == <>(pc = "done")

(* "parse failure returns 422": no answer of the model makes the request    *)
(* fail in another way.                                                     *)
ParseFailureIs422 == calls > 0 => outcome # "crashed"

-----------------------------------------------------------------------------
(* What the local parser makes of a phrase. *)
Parsed == outcome = "spec" /\ text # NULL /\ calls = 0

(* "in <n> <unit>" means that much later: the seconds that elapse between   *)
(* the request and run_at are n times those of the unit, in every zone.     *)
UnitLength ==
  [seconds |-> 1, minutes |-> 60, hours |-> 60 * 60, days |-> 24 * 60 * 60]

InMeansElapsed ==
  Parsed /\ text.duration # NULL =>
    spec.run_at - now = text.duration.amount * UnitLength[text.duration.unit]

(* No phrase is resolved to an instant that is over, at which the scheduler *)
(* would fire at once.                                                      *)
NeverInThePast == Parsed => spec.run_at >= now

(* "next <weekday>" is the first such day after today, and "tomorrow" the   *)
(* day after today, in the user's time zone, whatever time is written (an   *)
(* impossible one such as 13pm included).                                   *)
DayIsRight ==
  Parsed /\ text.duration = NULL =>
    LET d == _localize(spec.run_at) \div Day
        today == _localize(now) \div Day
    IN IF text.tomorrow THEN d = today + 1
       ELSE /\ d % 7 = text.weekday
            /\ d > today
            /\ \A e \in today + 1 .. d - 1 : e % 7 # text.weekday

(* The 12-hour clock: noon and midnight are 12pm and 12am, and the hours    *)
(* after them follow in order.                                              *)
ClockTime(c) == ((c.hour % 12) + (IF c.pm THEN 12 ELSE 0)) * Hour + c.minute * Minute

(* A time written on the 12-hour clock is the time of day the webhook fires *)
(* at.                                                                      *)
TimeIsRight ==
  /\ Parsed /\ text.duration = NULL /\ text.word = NULL /\ text.clock # NULL
  /\ text.clock.hour \in 1 .. 12 /\ text.clock.minute <= 59
  => _localize(spec.run_at) % Day = ClockTime(text.clock)

(* The prompt teaches the model the local parser's reading: each worked     *)
(* example carries the instant that parser gives for the example's input,   *)
(* although app/prompts/loader.py computes it with code of its own.         *)
PromptAgreesWithParser ==
  prompt # NULL =>
    \A e \in DOMAIN PromptExample :
      prompt[e] = try_parse_once_schedule(PromptExample[e], now)
=============================================================================
