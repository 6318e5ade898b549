----------------------------- MODULE Purchases -----------------------------
(***************************************************************************)
(* What credits buy.  app/main.py: api_purchase, the purchases of a solar  *)
(* return and of a relocation, api_create_report, and the gates that let a *)
(* buyer in; app/entitlements.py: grant_from_credits and has.              *)
(*                                                                         *)
(* One user, who owns the charts.  grant_from_credits is one transaction,  *)
(* in which the unique key purchase:{user}:{action}:{chart} decides        *)
(* between two sessions that buy the same (see Credits).  What a handler   *)
(* keeps of an entitlement is not read again by later commits              *)
(* (expire_on_commit=False).                                               *)
(***************************************************************************)
EXTENDS Integers, FiniteSets, Sequences

CONSTANTS
    Charts,          \* charts of the user
    Actions,         \* actions of the price list that are offered
    CreditPrice(_),  \* the price of an action, in credits
    Purse,           \* the credits of the user
    Buyers,          \* sessions of the user that can run at a time
    MaxReports       \* bound: reports made

ASSUME PurchasesAssumption ==
    /\ Purse \in Nat /\ MaxReports \in Nat
    /\ \A a \in Actions : CreditPrice(a) \in Nat \ {0}
    /\ "report" \notin Actions  \* a kind, which the price list sells in tiers

VARIABLES
    purse,      \* users.credits
    charged,    \* products with a row in the credit ledger
    ents,       \* ents[p]: kinds of which there is an entitlement from the charge of p
    bound,      \* bound[p]: ref_id of p's entitlement of kind "report" (0: NULL)
    reports,    \* the reports, in the order of their creation
    buyer,      \* buyer[s]: the request a session runs, and what it has read
    died        \* a request died between two of its commits

purVars == <<purse, charged, ents, bound, reports, buyer, died>>

\* An action for a chart.
Products == Actions \X Charts

\* REPORT_TIER_BY_ACTION
ReportActions == {"report_basic", "report_full", "report_gold"}
TierOf(a) == CASE a = "report_basic" -> "basic" [] a = "report_full" -> "full"
               [] a = "report_gold" -> "gold"

\* _kind_for_action
KindOf(a) == CASE a = "report_audio" -> "audio"
               [] a \in ReportActions -> "report"
               [] a \in {"transit_3m", "transit_12m"} -> "transit"
               [] a \in {"chat_pack_20", "chat_pack_100"} -> "chat"
               [] a = "solar_return" -> "solar"
               [] a = "synastry_full" -> "synastry_full"
               [] OTHER -> a

\* _kinds_for_action
Granted(a) == IF a = "report_gold" THEN {"report", "chat", "transit"} ELSE {KindOf(a)}

NoPurchase == [pc |-> "idle", prod |-> <<>>, ref |-> 0, rep |-> 0]

PurTypeOK ==
    /\ purse \in 0 .. Purse
    /\ charged \subseteq Products
    /\ ents \in [Products -> SUBSET UNION {Granted(a) : a \in Actions}]
    /\ bound \in [Products -> 0 .. MaxReports]
    /\ \A r \in DOMAIN reports :
          reports[r] \in [chart : Charts, tier : {"basic", "full", "gold"}, live : BOOLEAN]
    /\ buyer \in [Buyers -> [pc : {"idle", "find", "lock", "bind", "enqueue"},
                             prod : Products \union {<<>>},
                             ref : 0 .. MaxReports, rep : 0 .. MaxReports]]
    /\ died \in BOOLEAN

PurInit ==
    /\ purse = Purse
    /\ charged = {}
    /\ ents = [p \in Products |-> {}]
    /\ bound = [p \in Products |-> 0]
    /\ reports = <<>>
    /\ buyer = [s \in Buyers |-> NoPurchase]
    /\ died = FALSE

Rest(s) == buyer' = [buyer EXCEPT ![s] = NoPurchase]

-----------------------------------------------------------------------------
(* has                                                                     *)

\* A fault: the entitlements of the user's other charts count as well.
HasAnywhere(kind, c) == {p \in Products : kind \in ents[p]}

\* The products whose entitlement admits to kind on a chart; packs of chat and audio
\* are good for all charts of their owner.
Has(kind, c) == {p \in Products : kind \in ents[p] /\ (p[2] = c \/ kind \in {"chat", "audio"})}

\* _report_gate
MayRead(r) == \E p \in Products : "report" \in ents[p] /\ bound[p] = r

-----------------------------------------------------------------------------
(* api_purchase, api_solar_purchase, api_relocation_purchase               *)

\* grant_from_credits: a product that was charged before is not charged again.
GrantFromCredits(p) ==
    IF p \in charged THEN UNCHANGED <<purse, charged, ents>>
    ELSE /\ purse >= CreditPrice(p[1])
         /\ purse' = purse - CreditPrice(p[1])
         /\ charged' = charged \union {p}
         /\ ents' = [ents EXCEPT ![p] = Granted(p[1])]

\* The price must be there, for a product that is paid for too.
BuyAction(s, p) ==
    /\ buyer[s].pc = "idle"
    /\ purse >= CreditPrice(p[1])
    /\ GrantFromCredits(p)
    /\ IF p[1] \in ReportActions
       THEN buyer' = [buyer EXCEPT ![s] = [pc |-> "find", prod |-> p, ref |-> bound[p], rep |-> 0]]
       ELSE Rest(s)
    /\ UNCHANGED <<bound, reports, died>>

\* The other two do not look at the balance first.
PurchaseDirectly(s, p) ==
    /\ buyer[s].pc = "idle"
    /\ p[1] \in {"solar_return", "relocation"}
    /\ GrantFromCredits(p)
    /\ UNCHANGED <<bound, reports, buyer, died>>

OnChart(c) == {r \in DOMAIN reports : reports[r].chart = c}
Latest(c) == CHOOSE r \in OnChart(c) : \A q \in OnChart(c) : q <= r

\* A fault: the tier is the default of the handler.
TierByDefault(p) == "full"

Tier(p) == TierOf(p[1])

NewReport(p) == reports' = Append(reports, [chart |-> p[2], tier |-> Tier(p), live |-> TRUE])

\* The newest report of the chart serves, unless it failed; a new one is bound to the
\* entitlement, if that was not bound when the handler read it, in the same commit.
FindReport(s) ==
    LET p == buyer[s].prod
    IN  /\ buyer[s].pc = "find"
        /\ IF OnChart(p[2]) # {} /\ reports[Latest(p[2])].live
           THEN Rest(s) /\ UNCHANGED <<bound, reports>>
           ELSE /\ Len(reports) < MaxReports
                /\ NewReport(p)
                /\ bound' = IF buyer[s].ref = 0 THEN [bound EXCEPT ![p] = Len(reports) + 1]
                            ELSE bound
                /\ buyer' = [buyer EXCEPT ![s] = [@ EXCEPT !.pc = "enqueue",
                                                           !.rep = Len(reports) + 1]]
        /\ UNCHANGED <<purse, charged, ents, died>>

-----------------------------------------------------------------------------
(* api_create_report                                                       *)

\* An entitlement of the chart, one that is not bound before the others.
AskForReport(s, c) ==
    LET all == Has("report", c)
        free == {p \in all : bound[p] = 0}
    IN  /\ buyer[s].pc = "idle"
        /\ \E p \in (IF free # {} THEN free ELSE all) :
              buyer' = [buyer EXCEPT ![s] = [pc |-> "lock", prod |-> p, ref |-> bound[p],
                                             rep |-> 0]]
        /\ UNCHANGED <<purse, charged, ents, bound, reports, died>>

\* Under the advisory lock of the chart: what there is serves or is queued again, unless
\* regenerate=1 asks for another.
LookAndCreate(s, regenerate) ==
    LET c == buyer[s].prod[2]
    IN  /\ buyer[s].pc = "lock"
        /\ IF OnChart(c) # {} /\ ~regenerate
           THEN IF reports[Latest(c)].live THEN Rest(s) /\ reports' = reports
                ELSE /\ reports' = [reports EXCEPT ![Latest(c)].live = TRUE]
                     /\ buyer' = [buyer EXCEPT ![s] = [@ EXCEPT !.pc = "enqueue",
                                                                !.rep = Latest(c)]]
           ELSE /\ Len(reports) < MaxReports
                /\ NewReport(buyer[s].prod)
                /\ buyer' = [buyer EXCEPT ![s] = [@ EXCEPT !.pc = "bind",
                                                           !.rep = Len(reports) + 1]]
        /\ UNCHANGED <<purse, charged, ents, bound, died>>

\* A fault: the report that was made is not bound.
BindNothing(s) ==
    /\ buyer[s].pc = "bind"
    /\ buyer' = [buyer EXCEPT ![s].pc = "enqueue"]
    /\ UNCHANGED <<purse, charged, ents, bound, reports, died>>

\* "A credit-bought report must be DOWNLOADABLE."
Bind(s) ==
    /\ buyer[s].pc = "bind"
    /\ bound' = IF buyer[s].ref = 0 THEN [bound EXCEPT ![buyer[s].prod] = buyer[s].rep] ELSE bound
    /\ buyer' = [buyer EXCEPT ![s].pc = "enqueue"]
    /\ UNCHANGED <<purse, charged, ents, reports, died>>

Enqueue(s, ok) ==
    /\ buyer[s].pc = "enqueue"
    /\ reports' = IF ok THEN reports ELSE [reports EXCEPT ![buyer[s].rep].live = FALSE]
    /\ Rest(s)
    /\ UNCHANGED <<purse, charged, ents, bound, died>>

-----------------------------------------------------------------------------

\* The worker gives up on a report.
ReportFails(r) ==
    /\ reports[r].live
    /\ reports' = [reports EXCEPT ![r].live = FALSE]
    /\ UNCHANGED <<purse, charged, ents, bound, buyer, died>>

BuyerDies(s) ==
    /\ buyer[s].pc # "idle"
    /\ Rest(s)
    /\ died' = TRUE
    /\ UNCHANGED <<purse, charged, ents, bound, reports>>

PurNext ==
    \/ \E s \in Buyers :
          \/ \E p \in Products : BuyAction(s, p) \/ PurchaseDirectly(s, p)
          \/ \E c \in Charts : AskForReport(s, c)
          \/ FindReport(s) \/ Bind(s) \/ BuyerDies(s)
          \/ \E yes \in BOOLEAN : LookAndCreate(s, yes) \/ Enqueue(s, yes)
    \/ \E r \in DOMAIN reports : ReportFails(r)

PurSpec == PurInit /\ [][PurNext]_purVars

-----------------------------------------------------------------------------
(* Correctness.                                                            *)

\* "An entitlement for chart X is NOT valid for chart Y", nor one kind for another: the
\* gates of a chart open for what was bought on it, packs apart.
NeverCrossChart ==
    \A c \in Charts :
        /\ \A kind \in {"report", "transit", "solar", "synastry_love", "synastry_work"} :
              Has(kind, c) # {} => \E p \in charged : p[2] = c /\ kind \in Granted(p[1])
        /\ \A r \in OnChart(c) :
              MayRead(r) => \E p \in charged : p[2] = c /\ p[1] \in ReportActions

\* A report that an entitlement is bound to has the tier that was bought with it, however
\* purchases, upgrades, clicks and failures follow each other.
TierAsBought ==
    \A p \in Products : bound[p] # 0 => reports[bound[p]].tier = TierOf(p[1])

\* When the requests are over, and none of them died, whoever bought a report of a chart
\* can read one of the chart.
BuyerCanRead ==
    (~died /\ \A s \in Buyers : buyer[s].pc = "idle") =>
        \A p \in charged : p[1] \in ReportActions => \E r \in OnChart(p[2]) : MayRead(r)

\* What was bought on a chart is what api_purchase bound to it, and can be read.
BoughtIsBound == TierAsBought /\ BuyerCanRead
=============================================================================
