------------------------------- MODULE Digests -------------------------------
(***************************************************************************)
(* What subscribers are sent once a week, by two scripts of cron: the      *)
(* weekly reflection (app/report/weekly.py) and the alert of a coming      *)
(* transit (app/report/transit_alerts.py).  Both go through the            *)
(* subscriptions and look in a table for what they have sent; the first    *)
(* writes the row and then sends, the other sends and then writes it.      *)
(*                                                                         *)
(* A run may be started again while another goes on, or after one died.    *)
(* One week.                                                               *)
(***************************************************************************)
EXTENDS Integers, FiniteSets

CONSTANTS
    Batches,      \* runs of the scripts
    Subscribers,  \* subscriptions
    ChartOf(_),   \* the chart of a subscription
    ReaderOf(_)   \* the owner of a chart

SentCharts == {ChartOf(s) : s \in Subscribers}
Readers == {ReaderOf(c) : c \in SentCharts}
Digests == {"weekly", "alert"}

VARIABLES
    batch,     \* batch[b]: where a run is
    logged,    \* logged[k]: charts with a row in weekly_reflections, transit_alert_log
    sent,      \* sent[k][c]: messages sent for a chart
    \* History, read by the properties only:
    excused    \* excused[k]: charts two runs looked at at once, or one died over

digestVars == <<batch, logged, sent, excused>>

NotStarted == [pc |-> "new", kind |-> "weekly", todo |-> {}, seen |-> {}]
Over == [NotStarted EXCEPT !.pc = "over"]

\* A run between two subscriptions, or at work on one.
Between == [pc : {"new", "next", "over"}, kind : Digests, todo : SUBSET Subscribers,
            seen : SUBSET Readers]
AtWork == [pc : {"looked", "stored", "sent"}, kind : Digests, todo : SUBSET Subscribers,
           seen : SUBSET Readers, sub : Subscribers]

DigestsTypeOK ==
    /\ batch \in [Batches -> Between \union AtWork]
    /\ logged \in [Digests -> SUBSET SentCharts]
    /\ sent \in [Digests -> [SentCharts -> Nat]]
    /\ excused \in [Digests -> SUBSET SentCharts]

DigestsInit ==
    /\ batch = [b \in Batches |-> NotStarted]
    /\ logged = [k \in Digests |-> {}]
    /\ sent = [k \in Digests |-> [c \in SentCharts |-> 0]]
    /\ excused = [k \in Digests |-> {}]

\* Run b is done with the subscription s.
Forward(b, s, seen) ==
    batch' = [batch EXCEPT ![b] = [pc |-> "next", kind |-> @.kind, todo |-> @.todo \ {s},
                                   seen |-> seen]]

Work(b, pc, s) ==
    batch' = [batch EXCEPT ![b] = [pc |-> pc, kind |-> @.kind, todo |-> @.todo, seen |-> @.seen,
                                   sub |-> s]]

Log(k, c) == logged' = [logged EXCEPT ![k] = @ \union {c}]
Excuse(k, c) == excused' = [excused EXCEPT ![k] = @ \union {c}]
Count(k, c) == sent' = [sent EXCEPT ![k][c] = @ + 1]

-----------------------------------------------------------------------------
\* The subscriptions that are active, and for the reflection not expired.
StartBatch(b, kind, subs) ==
    /\ batch[b] = NotStarted
    /\ batch' = [batch EXCEPT ![b] = [pc |-> "next", kind |-> kind, todo |-> subs, seen |-> {}]]
    /\ UNCHANGED <<logged, sent, excused>>

\* A subscription is passed over: its chart has a row; or its reader has had an alert
\* from this run, has none wanted, or there is no event.
PassOver(b, s) ==
    LET k == batch[b].kind
    IN  /\ batch[b].pc = "next" /\ s \in batch[b].todo
        /\ \/ ChartOf(s) \in logged[k] /\ Forward(b, s, batch[b].seen)
           \/ k = "alert" /\ Forward(b, s, batch[b].seen)
           \/ k = "alert" /\ Forward(b, s, batch[b].seen \union {ReaderOf(ChartOf(s))})
        /\ UNCHANGED <<logged, sent, excused>>

\* A fault: the row is not looked for.
Anew(b, s) == batch[b].pc = "next" /\ s \in batch[b].todo

\* No row, and no alert for this reader yet.
Unsent(b, s) ==
    /\ batch[b].pc = "next" /\ s \in batch[b].todo
    /\ ChartOf(s) \notin logged[batch[b].kind]
    /\ ReaderOf(ChartOf(s)) \notin batch[b].seen

Look(b, s) ==
    LET k == batch[b].kind  c == ChartOf(s)
    IN  /\ Unsent(b, s)
        /\ Work(b, "looked", s)
        /\ IF \E a \in Batches \ {b} : /\ batch[a].kind = k
                                       /\ batch[a].pc \in {"looked", "sent"}
                                       /\ ChartOf(batch[a].sub) = c
           THEN Excuse(k, c) ELSE UNCHANGED excused
        /\ UNCHANGED <<logged, sent>>

\* The reflection is committed, before anything is sent.
Store(b) ==
    /\ batch[b].pc = "looked" /\ batch[b].kind = "weekly"
    /\ Log("weekly", ChartOf(batch[b].sub))
    /\ Work(b, "stored", batch[b].sub)
    /\ UNCHANGED <<sent, excused>>

\* send_message, or a push: neither tells that it failed.
SendWeekly(b, ok) ==
    LET s == batch[b].sub
    IN  /\ batch[b].pc = "stored"
        /\ IF ok THEN Count("weekly", ChartOf(s)) ELSE UNCHANGED sent
        /\ Forward(b, s, batch[b].seen)
        /\ UNCHANGED <<logged, excused>>

SendAlert(b, ok) ==
    LET s == batch[b].sub
    IN  /\ batch[b].pc = "looked" /\ batch[b].kind = "alert"
        /\ IF ok THEN Count("alert", ChartOf(s)) ELSE UNCHANGED sent
        /\ Work(b, "sent", s)
        /\ UNCHANGED <<logged, excused>>

\* The log row is committed, or that fails; one bad subscription does not stop the run.
LogAlert(b, ok) ==
    LET s == batch[b].sub  c == ChartOf(s)
    IN  /\ batch[b].pc = "sent"
        /\ IF ok THEN Log("alert", c) /\ UNCHANGED excused
           ELSE Excuse("alert", c) /\ UNCHANGED logged
        /\ Forward(b, s, IF ok THEN batch[b].seen \union {ReaderOf(c)} ELSE batch[b].seen)
        /\ UNCHANGED sent

\* The run has gone through all, or its process dies.
EndBatch(b) ==
    /\ batch[b].pc \in {"next", "looked", "stored", "sent"}
    /\ batch' = [batch EXCEPT ![b] = Over]
    /\ IF batch[b].pc = "sent" THEN Excuse("alert", ChartOf(batch[b].sub)) ELSE UNCHANGED excused
    /\ UNCHANGED <<logged, sent>>

DigestsNext ==
    \E b \in Batches :
       \/ \E kind \in Digests, subs \in SUBSET Subscribers : StartBatch(b, kind, subs)
       \/ \E s \in Subscribers : PassOver(b, s) \/ Look(b, s)
       \/ Store(b)
       \/ \E ok \in BOOLEAN : SendWeekly(b, ok) \/ SendAlert(b, ok) \/ LogAlert(b, ok)
       \/ EndBatch(b)

DigestsSpec == DigestsInit /\ [][DigestsNext]_digestVars

-----------------------------------------------------------------------------
\* "Store once per chart/week", "anti-duplicate": a chart has one message of a kind in a
\* week, unless two runs looked for its row at once, or one sent it and left no row.
SentOnce == \A k \in Digests, c \in SentCharts : sent[k][c] > 1 => c \in excused[k]
=============================================================================
