------------------------------ MODULE Forecast ------------------------------
(***************************************************************************)
(* The paid transit analysis, POST /api/charts/{id}/forecast/analyze       *)
(* (app/main.py): look in the cache, charge or use a gold entitlement,     *)
(* narrate the events with the LLM, store the narratives, and give back    *)
(* the share of the events that failed their quality gate.                 *)
(*                                                                         *)
(* The handler drives the credit ledger of module Credits: request t is    *)
(* database session t, and a spend key k is the bucket                     *)
(* transit:{user}:{chart}:{months}:{month} of one user, chart and calendar *)
(* month.                                                                  *)
(***************************************************************************)
EXTENDS Credits

CONSTANTS
    Charts,
    Products,    \* (chart, months) pairs: what an analysis is stored under
    ChartOf,     \* ChartOf[p]: the chart of product p
    ProductOf,   \* ProductOf[k]: the product the spend key k pays for
    Narrated,    \* events narrated per analysis (5 for 3 months, 12 for 12)
    GoldSold     \* GoldSold[c]: transit units the gold bundles of c granted

ASSUME ForecastAssumption ==
    /\ ChartOf \in [Products -> Charts]
    /\ ProductOf \in [Spends -> Products]
    /\ Narrated \in Nat \ {0}
    /\ GoldSold \in [Charts -> Nat]

VARIABLES
    stored,   \* products whose cache row holds at least one narrative
    gold,     \* gold[c]: transit units of chart c not used yet
    req       \* req[t]: where request t is, its key, its failed events

forecastVars == <<credits, rows, reason, txn, stored, gold, req>>
ledgerVars == <<credits, rows, reason, txn>>

NoReq == [at |-> "idle", key |-> NoKey, failed |-> 0]

ForecastTypeOK ==
    /\ TypeOK
    /\ stored \subseteq Products
    /\ gold \in [Charts -> Nat]
    /\ req \in [Txns -> [at     : {"idle", "charging", "narrating", "refund", "refunding",
                                   "goldFound", "goldNarrating", "topup"},
                         key    : Spends \union {NoKey},
                         failed : 0 .. Narrated]]

ForecastInit ==
    /\ Init
    /\ stored = {}
    /\ gold = GoldSold
    /\ req = [t \in Txns |-> NoReq]

GoTo(t, at, k, f) == req' = [req EXCEPT ![t] = [at |-> at, key |-> k, failed |-> f]]

\* The chart whose gold units can pay for the analysis k would buy.
GoldFor(k) == ChartOf[ProductOf[k]]

Reply(t) == req' = [req EXCEPT ![t] = NoReq]

-----------------------------------------------------------------------------

\* A credit pack arrives on the user's account.
TopUp(t, k) ==
    /\ req[t].at = "idle"
    /\ BeginGrant(t, k)
    /\ GoTo(t, "topup", NoKey, 0)
    /\ UNCHANGED <<stored, gold>>

ToppedUp(t) ==
    /\ req[t].at = "topup"
    /\ AddGrant(t) \/ AddGrantDuplicate(t)
    /\ Reply(t)
    /\ UNCHANGED <<stored, gold>>

\* Neither cached (answered without a charge) nor covered by a gold unit: the
\* request goes to spend(), which returns a transaction recorded earlier under
\* the same monthly key without charging again.
Open(t, k) ==
    /\ req[t].at = "idle"
    /\ ProductOf[k] \notin stored
    /\ gold[GoldFor(k)] = 0
    /\ \/ /\ rows[<<k, 0>>] > 0
          /\ GoTo(t, "narrating", k, 0)
          /\ UNCHANGED ledgerVars
       \/ /\ BeginSpend(t, k)
          /\ GoTo(t, "charging", k, 0)
    /\ UNCHANGED <<stored, gold>>

\* A fault: a user who cannot pay is served.
ServeUnpaid(t) ==
    /\ req[t].at = "charging"
    /\ Charge(t) \/ ChargeDuplicate(t) \/ ChargeRefused(t)
    /\ GoTo(t, "narrating", req[t].key, 0)
    /\ UNCHANGED <<stored, gold>>

Charged(t) ==
    /\ req[t].at = "charging"
    /\ Charge(t) \/ ChargeDuplicate(t)
    /\ GoTo(t, "narrating", req[t].key, 0)
    /\ UNCHANGED <<stored, gold>>

\* 402: InsufficientCredits.
NotCharged(t) ==
    /\ req[t].at = "charging"
    /\ ChargeRefused(t)
    /\ Reply(t)
    /\ UNCHANGED <<stored, gold>>

\* The narratives of f failed events are missing; the others are stored.  An
\* empty list replaces what the row held.
Store(t, f) ==
    LET p == ProductOf[req[t].key]
    IN  stored' = IF f < Narrated THEN stored \union {p} ELSE stored \ {p}

Narrate(t, f) ==
    /\ req[t].at = "narrating"
    /\ Store(t, f)
    /\ IF f = 0 THEN Reply(t) ELSE GoTo(t, "refund", req[t].key, f)
    /\ UNCHANGED <<ledgerVars, gold>>

\* ceil(price * failed / narrated), the whole price when all failed.
FailedShare(k, f) == (Amount[k] * f + Narrated - 1) \div Narrated

RequestRefund(t) ==
    /\ req[t].at = "refund"
    /\ LET want == FailedShare(req[t].key, req[t].failed)
       IN  \/ /\ \E r \in RefundReasons : BeginRefund(t, req[t].key, want, r)
              /\ GoTo(t, "refunding", req[t].key, req[t].failed)
           \/ /\ ~ \E a \in 1 .. MaxAmount : RefundDue(req[t].key, want, a)
              /\ Reply(t)
              /\ UNCHANGED ledgerVars
    /\ UNCHANGED <<stored, gold>>

Refunded(t) ==
    /\ req[t].at = "refunding"
    /\ PayRefund(t) \/ PayRefundDuplicate(t)
    /\ Reply(t)
    /\ UNCHANGED <<stored, gold>>

-----------------------------------------------------------------------------
(* The gold path: consume one unit, then narrate without a charge.         *)

OpenGold(t, k) ==
    /\ req[t].at = "idle"
    /\ ProductOf[k] \notin stored
    /\ gold[GoldFor(k)] > 0
    /\ GoTo(t, "goldFound", k, 0)
    /\ UNCHANGED <<ledgerVars, stored, gold>>

\* A fault: the UPDATE of consume() is not guarded by used <= quantity - 1.
UseGoldUnguarded(t) ==
    /\ req[t].at = "goldFound"
    /\ gold' = [gold EXCEPT ![GoldFor(req[t].key)] = @ - 1]
    /\ GoTo(t, "goldNarrating", req[t].key, 0)
    /\ UNCHANGED <<ledgerVars, stored>>

\* consume() is guarded, and its result is not looked at: a request that lost
\* the last unit to another one goes on all the same.
UseGold(t) ==
    /\ req[t].at = "goldFound"
    /\ gold' = [gold EXCEPT ![GoldFor(req[t].key)] = IF @ > 0 THEN @ - 1 ELSE @]
    /\ GoTo(t, "goldNarrating", req[t].key, 0)
    /\ UNCHANGED <<ledgerVars, stored>>

NarrateGold(t, f) ==
    /\ req[t].at = "goldNarrating"
    /\ Store(t, f)
    /\ Reply(t)
    /\ UNCHANGED <<ledgerVars, gold>>

\* cached_forecast recomputes a row older than 7 days and drops the narratives
\* whose event has left the window, here all of them.
Outdated(p) ==
    /\ p \in stored
    /\ stored' = stored \ {p}
    /\ UNCHANGED <<ledgerVars, gold, req>>

\* The process dies: what was committed stays.
Crash(t) ==
    /\ req[t].at # "idle"
    /\ Reply(t)
    /\ IF txn[t].pc = "idle" THEN UNCHANGED ledgerVars ELSE Abandon(t)
    /\ UNCHANGED <<stored, gold>>

ForecastNext ==
    \/ \E p \in Products : Outdated(p)
    \/ \E t \in Txns :
          \/ \E k \in Grants : TopUp(t, k)
          \/ \E k \in Spends : Open(t, k) \/ OpenGold(t, k)
          \/ \E f \in 0 .. Narrated : Narrate(t, f) \/ NarrateGold(t, f)
          \/ ToppedUp(t) \/ Charged(t) \/ NotCharged(t)
          \/ RequestRefund(t) \/ Refunded(t)
          \/ UseGold(t) \/ Crash(t)

ForecastSpec == ForecastInit /\ [][ForecastNext]_forecastVars

-----------------------------------------------------------------------------
(* Correctness.                                                            *)

\* A spend is recorded that pays for product p.
ChargedFor(p) == \E k \in Spends : ProductOf[k] = p /\ rows[<<k, 0>>] > 0

\* An analysis that is stored was charged for in some month or took a gold
\* unit of its chart, whatever requests raced, failed or died on the way.
DeliveredWasPaid ==
    \A p \in stored : ChargedFor(p) \/ gold[ChartOf[p]] < GoldSold[ChartOf[p]]
=============================================================================
