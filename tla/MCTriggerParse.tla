--------------------------- MODULE MCTriggerParse ---------------------------
(* Model-checking definitions for TriggerParse: a few values of each field, *)
(* and the phrases and instants the local parser is checked with.           *)
EXTENDS TriggerParse

Crons == [valid : BOOLEAN, builds : BOOLEAN] \cup {EMPTY, NULL}
Dates == {[iso |-> TRUE, at |-> 7], [iso |-> FALSE, at |-> 7], EMPTY, NULL}

(* All combinations, so that every field can be missing or one too many.    *)
(* 2 weeks exceed MaxSeconds in the configuration, 1 week is exactly it.    *)
Outputs ==
  [type : Type, cron_expr : Crons, interval_value : {-1, 0, 1, 2, NULL},
   interval_unit : {"seconds", "weeks", NULL}, once_datetime : Dates]

(* A client may send an expression no one checked. *)
StructuredTriggers ==
  {[type |-> "cron", expression |-> [valid |-> FALSE, builds |-> FALSE]],
   [type |-> "interval", seconds |-> MaxSeconds + 1], [type |-> "once", run_at |-> 0]}

-----------------------------------------------------------------------------
Durations(amounts, units) ==
  {[NoPhrase EXCEPT !.duration = [amount |-> a, unit |-> u]] : a \in amounts, u \in units}

Times ==
  {[NoPhrase EXCEPT !.word = w] : w \in {NULL, "morning", "noon", "afternoon", "evening", "midnight"}}
  \cup {AtClock(NoPhrase, h, m, p) : h \in 0 .. 13, m \in {0, 59, 75}, p \in BOOLEAN}

Phrases ==
  Durations({0, 1, 2, 30, 99}, {"seconds", "minutes", "hours", "days"})
  \cup {[t EXCEPT !.tomorrow = TRUE] : t \in Times}
  \cup {[t EXCEPT !.weekday = d] : t \in Times, d \in 0 .. 6}

(* Texts the local parser leaves to the model: "every ...", "in few hours". *)
Recurring == {[NoPhrase EXCEPT !.recurring = TRUE, !.tomorrow = TRUE]}
Vague == Durations({NULL}, {"hours"})

(* Each day of a week: just after midnight, at and around nine, late.       *)
Instants == {d * Day + s : d \in 7 .. 13, s \in {0, 9 * Hour - 1, 9 * Hour, 9 * Hour + 1, Day - 1}}

Cases ==
  [now : Instants, text : Phrases]
  \cup [now : {d * Day + s : d \in 7 .. 13, s \in {9 * Hour, Day - 1}}, text : Recurring]
  \cup [now : {8 * Day + 100}, text : Vague \cup {NULL}]

(* Every half hour around the change of offset on the second Sunday; the    *)
(* durations are those no calendar reading could stretch.                   *)
ChangeCases ==
  [now : {13 * Day + h * 1800 : h \in 0 .. 12},
   text : Durations({0, 1, 2, 30}, {"seconds", "minutes", "hours"})]
=============================================================================
