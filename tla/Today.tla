-------------------------------- MODULE Today --------------------------------
(***************************************************************************)
(* What a chart shows for free.  app/main.py: api_chart_preview, with      *)
(* app/report/preview.py; api_today_daily, with app/today/daily.py;        *)
(* page_today and api_today_reflection, with app/today/service.py.         *)
(*                                                                         *)
(* The preview and the insight of the day are asked of a language model    *)
(* and kept in Redis, between whose GET and SET the call runs.  One chart. *)
(***************************************************************************)
EXTENDS Naturals, FiniteSets

CONSTANTS
    Pages,        \* loads that can run at a time
    Question,     \* TRUE: the reader wrote a question into the form
    LastDate      \* bound: days

ASSUME TodayAssumption == LastDate \in Nat /\ Question \in BOOLEAN

VARIABLES
    date,         \* the day in the zone of the chart
    preview,      \* freepreview:{chart}: what it holds, and whether it has no TTL
    insight,      \* today:{chart}:{d}: the day whose transits the sentence is about, or None
    diary,        \* the days that have a reflection
    page,         \* page[p]: the load p runs, and what it has read
    settled       \* the preview held an answer while nobody was waiting for another one

todayVars == <<date, preview, insight, diary, page, settled>>

None == LastDate + 1
Empty == [holds |-> "nothing", forever |-> FALSE]
Blank == [pc |-> "idle", date |-> 0]
Dates == 0 .. LastDate

TodayTypeOK ==
    /\ date \in Dates
    /\ preview \in [holds : {"nothing", "baseline", "answer"}, forever : BOOLEAN]
    /\ insight \in [Dates -> Dates \union {None}]
    /\ diary \subseteq Dates
    /\ page \in [Pages -> [pc : {"idle", "preview", "answered", "failed", "daily", "told",
                                 "wrote", "shown"}, date : Dates]]
    /\ settled \in BOOLEAN

TodayInit ==
    /\ date = 0
    /\ preview = Empty
    /\ insight = [d \in Dates |-> None]
    /\ diary = {}
    /\ page = [p \in Pages |-> Blank]
    /\ settled = FALSE

At(p, pc) == page[p].pc = pc
Turn(p, pc) == page' = [page EXCEPT ![p].pc = pc]
Leave(p) == page' = [page EXCEPT ![p] = Blank]

-----------------------------------------------------------------------------
(* api_chart_preview                                                       *)

\* free_insights is computed on each load; Redis that is away is a miss.
OpenPreview(p, reachable) ==
    /\ At(p, "idle")
    /\ IF reachable /\ preview.holds # "nothing" THEN page' = page ELSE Turn(p, "preview")
    /\ settled' = (settled /\ reachable)
    /\ UNCHANGED <<date, preview, insight, diary>>

\* enrich_free_preview_async: no question, no call; the call fails, its text is not JSON,
\* is too short or says what the brand forbids.
Enrich(p, ok) ==
    /\ At(p, "preview")
    /\ ok => Question
    /\ Turn(p, IF ok THEN "answered" ELSE "failed")
    /\ UNCHANGED <<date, preview, insight, diary, settled>>

\* A fault: a good answer is kept as briefly as a bad one.
KeepForAWhile(p) ==
    /\ At(p, "answered")
    /\ preview' = [holds |-> "answer", forever |-> FALSE]
    /\ settled' = (settled \/ \A q \in Pages \ {p} : page[q].pc \notin {"preview", "failed"})
    /\ Leave(p)
    /\ UNCHANGED <<date, insight, diary>>

\* "SUCCESS -> permanent cache (one call per chart, ever)"
KeepAnswer(p) ==
    /\ At(p, "answered")
    /\ preview' = [holds |-> "answer", forever |-> TRUE]
    /\ settled' = (settled \/ \A q \in Pages \ {p} : page[q].pc \notin {"preview", "failed"})
    /\ Leave(p)
    /\ UNCHANGED <<date, insight, diary>>

\* "A FAILED enrichment must NOT poison the permanent cache": 15 minutes.
KeepBaseline(p) ==
    /\ At(p, "failed")
    /\ preview' = [holds |-> "baseline", forever |-> FALSE]
    /\ Leave(p)
    /\ UNCHANGED <<date, insight, diary, settled>>

\* Redis is away at the SET, or the reader at any time.
Forgotten(p) ==
    /\ ~At(p, "idle")
    /\ Leave(p)
    /\ UNCHANGED <<date, preview, insight, diary, settled>>

PreviewLapses ==
    /\ preview.holds # "nothing" /\ ~preview.forever
    /\ preview' = Empty
    /\ UNCHANGED <<date, insight, diary, page, settled>>

-----------------------------------------------------------------------------
(* get_daily_layer                                                         *)

\* build_daily_cards and the key are of the day on which the load began.
OpenToday(p) ==
    /\ At(p, "idle")
    /\ IF insight[date] # None THEN page' = page
       ELSE page' = [page EXCEPT ![p] = [pc |-> "daily", date |-> date]]
    /\ UNCHANGED <<date, preview, insight, diary, settled>>

\* daily_insight_async: nothing is kept of a call that fails.
AskInsight(p) ==
    /\ At(p, "daily")
    /\ Turn(p, "told")
    /\ UNCHANGED <<date, preview, insight, diary, settled>>

\* A fault: the key is computed when the sentence is there.
KeyOfNow(p) == date

KeyOf(p) == page[p].date

KeepInsight(p) ==
    /\ At(p, "told")
    /\ insight' = [insight EXCEPT ![KeyOf(p)] = page[p].date]
    /\ Leave(p)
    /\ UNCHANGED <<date, preview, diary, settled>>

-----------------------------------------------------------------------------
(* submit_reflection, compute_streak                                       *)

\* The days in a row that end with d.
Row(days, d) ==
    LET inARow[e \in 0 .. d] == IF e \notin days THEN 0 ELSE IF e = 0 THEN 1 ELSE 1 + inARow[e - 1]
    IN  inARow[d]

\* A fault: a day that is not over breaks the row.
StreakOfToday(days, today) == Row(days, today)

\* "Today still unwritten does not break the streak."
Streak(days, today) ==
    IF today \in days THEN Row(days, today) ELSE IF today = 0 THEN 0 ELSE Row(days, today - 1)

\* The unique index refuses a second reflection of a day.
Reflect(p) ==
    /\ At(p, "idle")
    /\ date \notin diary
    /\ diary' = diary \union {date}
    /\ page' = [page EXCEPT ![p] = [pc |-> "wrote", date |-> date]]
    /\ UNCHANGED <<date, preview, insight, settled>>

\* The response carries the streak as of now, which may be the day after.
TellStreak(p) ==
    /\ At(p, "wrote")
    /\ Leave(p)
    /\ UNCHANGED <<date, preview, insight, diary, settled>>

DayEnds ==
    /\ date < LastDate
    /\ date' = date + 1
    /\ UNCHANGED <<preview, insight, diary, page, settled>>

TodayNext ==
    \/ \E p \in Pages :
          \/ \E yes \in BOOLEAN : OpenPreview(p, yes) \/ Enrich(p, yes)
          \/ KeepAnswer(p) \/ KeepBaseline(p) \/ Forgotten(p)
          \/ OpenToday(p) \/ AskInsight(p) \/ KeepInsight(p)
          \/ Reflect(p) \/ TellStreak(p)
    \/ PreviewLapses \/ DayEnds

TodaySpec == TodayInit /\ [][TodayNext]_todayVars

-----------------------------------------------------------------------------
(* Correctness.                                                            *)

\* What the free layer shows follows from what its reader did, and from the day:
\* 1. a reflection makes the streak one longer, however long today went unwritten, and
\*    only a day that ended without one resets it;
\* 2. the sentence kept for a day is about the sky of that day;
\* 3. "one call per chart, ever": once there is an answer and no load that began before
\*    it is left, nothing replaces it, unless Redis was away.
FreeLayerKept ==
    [][/\ diary' # diary => Streak(diary', date) = Streak(diary, date) + 1
       /\ date' # date => Streak(diary, date') = (IF date \in diary THEN Streak(diary, date) ELSE 0)
       /\ \A d \in Dates : insight'[d] \in {insight[d], d}
       /\ settled /\ settled' => preview' = preview]_todayVars
=============================================================================
