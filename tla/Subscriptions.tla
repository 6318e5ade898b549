--------------------------- MODULE Subscriptions ---------------------------
(***************************************************************************)
(* The subscription of one chart, app/payment/orders.py:                   *)
(* activate_subscription and grant_subscription_credits, called when an    *)
(* order is settled (app/main.py, api_payment_verify;                      *)
(* pay_order_with_balance), cancel_subscription, and the refund of an      *)
(* order (app/routes/admin.py).  grant_due_subscription_credits, the entry *)
(* of a cron job, is called by nobody.                                     *)
(*                                                                         *)
(* Time is counted in ticks, two to a month: a month begins in Tehran, a   *)
(* tick later in UTC.                                                      *)
(***************************************************************************)
EXTENDS Integers, FiniteSets, FiniteSetsExt

CONSTANTS
    SubOrders,    \* orders of a subscription plan
    Yearly,       \* those of the yearly plan
    MonthTicks,   \* 30 days
    YearTicks,    \* 365 days
    LastTick      \* bound: the clock stops here

ASSUME SubscriptionsAssumption ==
    /\ IsFiniteSet(SubOrders) /\ Yearly \subseteq SubOrders
    /\ MonthTicks \in Nat \ {0} /\ YearTicks \in Nat \ {0} /\ LastTick \in Nat

VARIABLES
    clock,
    sub,       \* the row of subscriptions
    settling,  \* settling[o]: where the settlement of an order is, what it has read
    grants,    \* rows of the credit ledger for this subscription
    straddled  \* history: months for which a settlement read the row of an earlier tick

subVars == <<clock, sub, settling, grants, straddled>>

LocalMonth(t) == (t + 1) \div 2
UtcMonth(t) == t \div 2
Days == [o \in SubOrders |-> IF o \in Yearly THEN YearTicks ELSE MonthTicks]
Never == -1
NoSub == [there |-> FALSE, active |-> FALSE, expires |-> 0, order |-> {}, last |-> Never]

\* "paid" is a settlement whose grant is over, "stuck" one that died or failed before it
\* committed: the order stays "verifying".
Settlement == [pc : {"pending", "read", "active", "granting", "paid", "refunded", "stuck"},
               there : BOOLEAN, active : BOOLEAN, expires : Nat, at : Nat]

Reading(pc, row, t) == [pc |-> pc, there |-> row.there, active |-> row.active,
                        expires |-> row.expires, at |-> t]

SubTypeOK ==
    /\ clock \in 0 .. LastTick
    /\ sub \in [there : BOOLEAN, active : BOOLEAN, expires : Nat,
                order : SUBSET SubOrders, last : Never .. LastTick]
    /\ settling \in [SubOrders -> Settlement]
    /\ grants \subseteq [key : Nat, made : 0 .. LastTick]
    /\ straddled \subseteq Nat

SubInit ==
    /\ clock = 0
    /\ sub = NoSub
    /\ settling = [o \in SubOrders |-> Reading("pending", NoSub, 0)]
    /\ grants = {}
    /\ straddled = {}

\* The settlement of o goes on, with what it reads now, or without what it has read.
ReadTo(o, pc) == settling' = [settling EXCEPT ![o] = Reading(pc, sub, clock)]
StepTo(o, pc) == settling' = [settling EXCEPT ![o] = Reading(pc, NoSub, 0)]

-----------------------------------------------------------------------------
(* activate_subscription                                                   *)

\* A fault: an order that is settled is settled again when its callback is repeated.
LoadSubAgain(o) ==
    /\ settling[o].pc \in {"pending", "paid"}
    /\ ReadTo(o, "read")
    /\ UNCHANGED <<clock, sub, grants, straddled>>

\* The order was paid for and its claim won; the row is read.
LoadSub(o) ==
    /\ settling[o].pc = "pending"
    /\ ReadTo(o, "read")
    /\ UNCHANGED <<clock, sub, grants, straddled>>

\* base: the later of the expiry that was read and the time of the reading.
Extended(o) == LET s == settling[o]
               IN  (IF s.expires > s.at THEN s.expires ELSE s.at) + Days[o]

\* The UPDATE of a row that was there, with the order, in one transaction; "active" is
\* written if it was read as false.
Extend(o) ==
    /\ settling[o].pc = "read"
    /\ settling[o].there
    /\ sub' = [sub EXCEPT !.active = @ \/ ~settling[o].active,
                          !.expires = Extended(o), !.order = {o}]
    /\ StepTo(o, "active")
    /\ UNCHANGED <<clock, grants, straddled>>

\* The INSERT; when another settlement has made the row the session is of no more use,
\* and the order stays claimed.
Subscribe(o) ==
    /\ settling[o].pc = "read"
    /\ ~settling[o].there
    /\ IF sub.there THEN StepTo(o, "stuck") /\ sub' = sub
       ELSE /\ sub' = [there |-> TRUE, active |-> TRUE, expires |-> Extended(o),
                       order |-> {o}, last |-> Never]
            /\ StepTo(o, "active")
    /\ UNCHANGED <<clock, grants, straddled>>

-----------------------------------------------------------------------------
(* grant_subscription_credits                                              *)

\* The row is read again; nothing is due when it has the grant of this month in Tehran.
LoadGrant(o) ==
    /\ settling[o].pc = "active"
    /\ IF sub.last # Never /\ LocalMonth(sub.last) = LocalMonth(clock) THEN StepTo(o, "paid")
       ELSE settling' = [settling EXCEPT ![o] = Reading("granting", NoSub, clock)]
    /\ UNCHANGED <<clock, sub, grants, straddled>>

\* A fault: the key is that of the grant and not of the month.
BookAlways(o, key) == grants' = grants \union {[key |-> 10 + Cardinality(grants), made |-> clock]}

\* grant() of the ledger; the row of a key that exists is left as it is.
BookGrant(o, key) ==
    grants' = IF \E g \in grants : g.key = key THEN grants
              ELSE grants \union {[key |-> key, made |-> clock]}

\* The key has the month in UTC of the time that was read.  A key that another session
\* inserted meanwhile rolls all of it back; one that was there before does not.
Grant(o, lost) ==
    LET key == UtcMonth(settling[o].at)
    IN  /\ settling[o].pc = "granting"
        /\ lost => \E g \in grants : g.key = key
        /\ IF lost THEN UNCHANGED <<sub, grants>>
           ELSE /\ BookGrant(o, key)
                /\ sub' = [sub EXCEPT !.last = settling[o].at]
        /\ straddled' = IF settling[o].at = clock THEN straddled
                        ELSE straddled \union {LocalMonth(clock)}
        /\ StepTo(o, "paid")
        /\ UNCHANGED clock

-----------------------------------------------------------------------------

\* cancel_subscription: the row is written as a whole in one request.
Cancel ==
    /\ sub.there
    /\ sub' = [sub EXCEPT !.active = FALSE, !.expires = clock]
    /\ UNCHANGED <<clock, settling, grants, straddled>>

\* /cancel_sub of the bots: the paid time is not touched.
CancelInChat ==
    /\ sub.active
    /\ sub' = [sub EXCEPT !.active = FALSE]
    /\ UNCHANGED <<clock, settling, grants, straddled>>

\* admin_refund closes the subscription if this order was the last to extend it.
RefundOrder(o) ==
    /\ settling[o].pc = "paid"
    /\ StepTo(o, "refunded")
    /\ sub' = IF o \in sub.order THEN [sub EXCEPT !.active = FALSE, !.expires = clock] ELSE sub
    /\ UNCHANGED <<clock, grants, straddled>>

\* The process dies; what was committed stays.
SettlementDies(o) ==
    /\ settling[o].pc \in {"read", "active", "granting"}
    /\ StepTo(o, IF settling[o].pc = "read" THEN "stuck" ELSE "paid")
    /\ UNCHANGED <<clock, sub, grants, straddled>>

Tick ==
    /\ clock < LastTick
    /\ clock' = clock + 1
    /\ UNCHANGED <<sub, settling, grants, straddled>>

SubNext ==
    \/ \E o \in SubOrders :
          \/ LoadSub(o) \/ Extend(o) \/ Subscribe(o) \/ LoadGrant(o)
          \/ \E lost \in BOOLEAN : Grant(o, lost)
          \/ RefundOrder(o) \/ SettlementDies(o)
    \/ Cancel \/ CancelInChat \/ Tick

SubSpec == SubInit /\ [][SubNext]_subVars

-----------------------------------------------------------------------------
(* Correctness.                                                            *)

Activated == {o \in SubOrders : settling[o].pc \in {"active", "granting", "paid", "refunded"}}

\* Renewals extend the later of expiry and now.  However settlements, cancellations and
\* refunds overlap, nobody gets more time than the orders that were activated paid for.
TimeIsPaidFor ==
    sub.there => sub.expires <= clock + MapThenSumSet(LAMBDA o : Days[o], Activated)

\* "ONCE per local month per subscription": a month in Tehran has one grant, unless a
\* settlement took its time from one month to the next.
CreditsOncePerMonth ==
    \A g, h \in grants :
        LocalMonth(g.made) = LocalMonth(h.made) =>
            g = h \/ LocalMonth(g.made) \in straddled

\* activate_subscription and grant_subscription_month give what an order paid for, once.
PeriodsArePaidFor == TimeIsPaidFor /\ CreditsOncePerMonth

\* "Returns True when granted": the month that the row has its last grant in has one.
MonthGranted ==
    sub.last # Never => \E g \in grants : LocalMonth(g.made) >= LocalMonth(sub.last)
=============================================================================
