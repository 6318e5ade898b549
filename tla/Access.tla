------------------------------- MODULE Access -------------------------------
(***************************************************************************)
(* What a reader sees listed and may open.  app/main.py: _owns_chart,      *)
(* _report_gate, _owns_order, and the pages and downloads behind them.     *)
(*                                                                         *)
(* A reader is a person with a browser and, once signed in, an account of  *)
(* their own.  A chart nobody owns opens with its token, from the cookie   *)
(* or from a link; an owned one opens for its owner alone.  Each handler   *)
(* is one step: Owners looks into the requests that make and claim charts, *)
(* Purchases and Orders into those that pay.                               *)
(***************************************************************************)
EXTENDS Naturals, FiniteSets, Sequences

CONSTANTS
    People,
    Leaves,         \* charts
    Plans,          \* plans that are paid for in rial: basic, gold, monthly, credit3
    Extras,         \* kinds of entitlement of a chart: solar, relocation
    Shelf,          \* reports that /reports looks at, of everybody's (200 in the code)
    Recent,         \* charts that /today and /explore look at (10 in the code)
    MaxPapers,      \* bound: reports
    MaxDeals,       \* bound: paid orders and entitlements
    MaxLinks        \* bound: links sent

NoChart == "no chart"
Unmade == "unmade"
NoOne == "no one"

ASSUME AccessAssumption ==
    /\ Shelf \in Nat /\ Recent \in Nat /\ MaxPapers \in Nat
    /\ MaxDeals \in Nat /\ MaxLinks \in Nat
    /\ Plans \subseteq {"basic", "gold", "monthly", "credit3"}
    /\ IsFiniteSet(Leaves) /\ NoChart \notin Leaves
    /\ NoOne \notin People /\ Unmade \notin People

VARIABLES
    holder,     \* holder[c]: BirthProfile.user_id of a chart, NoOne (NULL) or Unmade
    made,       \* the charts, in the order of their creation
    cookie,     \* cookie[v]: the charts in the cookie of v's browser
    links,      \* links[v]: the charts v was sent a link to, with its token
    signed,     \* readers who are signed in
    papers,     \* the reports, in the order of their creation
    bills,      \* the paid orders; nothing orders what a query finds of them
    tickets,    \* entitlements: who, of what kind, for which chart, bound to which report
    talked,     \* charts with a conversation
    lapsed      \* charts whose subscription has ended

accessVars == <<holder, made, cookie, links, signed, papers, bills, tickets, talked, lapsed>>

AccessTypeOK ==
    /\ holder \in [Leaves -> People \union {NoOne, Unmade}]
    /\ made \in Seq(Leaves)
    /\ cookie \in [People -> SUBSET Leaves]
    /\ links \in [People -> SUBSET Leaves]
    /\ signed \subseteq People
    /\ \A p \in DOMAIN papers : papers[p] \in [chart : Leaves, ready : BOOLEAN]
    /\ \A o \in DOMAIN bills :
          bills[o] \in [chart : Leaves \union {NoChart}, plan : Plans,
                        payer : People \union {NoOne}, paper : 0 .. MaxPapers]
    /\ tickets \subseteq [who : People, kind : Extras \union {"report"}, chart : Leaves,
                          paper : 0 .. MaxPapers]
    /\ talked \subseteq Leaves /\ lapsed \subseteq Leaves

AccessInit ==
    /\ holder = [c \in Leaves |-> Unmade]
    /\ made = <<>>
    /\ cookie = [v \in People |-> {}]
    /\ links = [v \in People |-> {}]
    /\ signed = {}
    /\ papers = <<>> /\ bills = <<>>
    /\ tickets = {}
    /\ talked = {} /\ lapsed = {}

-----------------------------------------------------------------------------
(* The gates                                                               *)

\* A fault: a token opens a chart that has an owner as well.
TokenFirst(v, c) ==
    \/ holder[c] # Unmade /\ c \in cookie[v] \union links[v]
    \/ v \in signed /\ holder[c] = v

\* _owns_chart: a request may carry the token of a link; once a chart has an owner, its
\* token opens nothing.
MayOpenChart(v, c) ==
    \/ v \in signed /\ holder[c] = v
    \/ holder[c] = NoOne /\ c \in cookie[v] \union links[v]

\* ent_has for an entitlement of a chart
Admitted(v, kind, c) == v \in signed /\ \E t \in tickets : t.who = v /\ t.kind = kind /\ t.chart = c

\* ent_has for the entitlement bound to a report
Bound(v, p) == v \in signed /\ \E t \in tickets : t.who = v /\ t.kind = "report" /\ t.paper = p

\* A fault: an order counts for the account that placed it only.
GateOfPayer(v, p) ==
    /\ \/ Bound(v, p)
       \/ v \in signed /\ \E o \in DOMAIN bills : bills[o].paper = p /\ bills[o].payer = v
    /\ MayOpenChart(v, papers[p].chart)

\* _report_gate
ReportGate(v, p) ==
    /\ Bound(v, p) \/ \E o \in DOMAIN bills : bills[o].paper = p
    /\ MayOpenChart(v, papers[p].chart)

\* _owns_order: an order without a chart is nobody's.
OwnsOrder(v, o) == bills[o].chart # NoChart /\ MayOpenChart(v, bills[o].chart)

\* The orders of a chart, of which a query takes any one as the first.
BillsOf(c) == {o \in DOMAIN bills : bills[o].chart = c}

-----------------------------------------------------------------------------
(* Pages and downloads                                                     *)

\* account_page and dashboard_page
ChartsOf(v) == {c \in Leaves : v \in signed /\ holder[c] = v}

\* The newest of a reader's charts that a page with a choice of charts looks at.
RecentOf(v) ==
    {made[i] : i \in {j \in DOMAIN made :
        /\ made[j] \in ChartsOf(v)
        /\ Cardinality({k \in DOMAIN made : k > j /\ made[k] \in ChartsOf(v)}) < Recent}}

\* account_page: a link to each report that is ready.
AccountReports(v) == {p \in DOMAIN papers : papers[p].ready /\ papers[p].chart \in ChartsOf(v)}

AccountOrders(v) ==
    {o \in DOMAIN bills : v \in signed /\ (bills[o].payer = v \/ bills[o].chart \in ChartsOf(v))}

\* orders_page
OrdersPage(v) == {o \in DOMAIN bills : v \in signed /\ bills[o].payer = v}

\* reports_page: the newest reports of all readers, then those of this reader.
ReportsPage(v) == {p \in DOMAIN papers : p + Shelf > Len(papers) /\ papers[p].chart \in ChartsOf(v)}

\* chats_page
ChatsPage(v) == talked \intersect ChartsOf(v)

\* api_my_subscriptions: a chart is subscribed to by any paid order of a subscription.
Subscribed(c) == \E o \in BillsOf(c) : bills[o].plan = "monthly"
SubscriptionsPage(v) == {c \in ChartsOf(v) : Subscribed(c)}

\* api_report_status: the newest report of the chart, if it has one; 0 is none.
LatestPaper(c) ==
    LET mine == {p \in DOMAIN papers : papers[p].chart = c}
    IN  IF mine = {} THEN 0 ELSE CHOOSE p \in mine : \A q \in mine : q <= p

\* api_report_pdf and api_report_docx
Downloads(v) == {p \in DOMAIN papers : papers[p].ready /\ ReportGate(v, p)}

\* payment_result_page and api_order_status
Receipts(v) == {o \in DOMAIN bills : OwnsOrder(v, o)}

\* api_solar_report and api_relocation_report
Reads(v, kind, c) == MayOpenChart(v, c) /\ Admitted(v, kind, c)

\* _monthly_sub_active
StillSubscribed(o) == bills[o].plan = "monthly" => bills[o].chart \notin lapsed

\* api_chat_access without a pack: what the query for a paid order may answer.
ChatVerdicts(c) ==
    IF BillsOf(c) = {} THEN {FALSE}
    ELSE {bills[o].plan \in {"gold", "monthly"} /\ StillSubscribed(o) : o \in BillsOf(c)}

\* page_today: the chart asked for must be among the recent ones of an account that has
\* any, or the handler fails on a chart that is None.
TodayPage(v, c) ==
    IF ~MayOpenChart(v, c) THEN "refused"
    ELSE IF RecentOf(v) = {} THEN "empty"
    ELSE IF c \in RecentOf(v) THEN "shown" ELSE "fails"

-----------------------------------------------------------------------------
(* What readers do                                                         *)

MakeChart(v, c) ==
    /\ holder[c] = Unmade
    /\ holder' = [holder EXCEPT ![c] = IF v \in signed THEN v ELSE NoOne]
    /\ made' = Append(made, c)
    /\ cookie' = [cookie EXCEPT ![v] = @ \union {c}]
    /\ UNCHANGED <<links, signed, papers, bills, tickets, talked, lapsed>>

\* The button of the chart's page sends a link with the token.
ShareChart(v, w, c) ==
    /\ v # w /\ MayOpenChart(v, c)
    /\ Cardinality(UNION {{x} \X links[x] : x \in People}) < MaxLinks
    /\ links' = [links EXCEPT ![w] = @ \union {c}]
    /\ UNCHANGED <<holder, made, cookie, signed, papers, bills, tickets, talked, lapsed>>

\* A fault: the first chart of the cookie is enough.
ClaimOne(v) ==
    /\ v \notin signed
    /\ signed' = signed \union {v}
    /\ LET mine == {c \in cookie[v] : holder[c] = NoOne}
       IN  holder' = [c \in Leaves |-> IF c \in mine /\ c = (CHOOSE d \in mine : TRUE)
                                      THEN v ELSE holder[c]]
    /\ UNCHANGED <<made, cookie, links, papers, bills, tickets, talked, lapsed>>

\* auth_otp_verify: what the cookie holds and nobody owns becomes the reader's.
SignIn(v) ==
    /\ v \notin signed
    /\ signed' = signed \union {v}
    /\ holder' = [c \in Leaves |-> IF c \in cookie[v] /\ holder[c] = NoOne THEN v ELSE holder[c]]
    /\ UNCHANGED <<made, cookie, links, papers, bills, tickets, talked, lapsed>>

SignOut(v) ==
    /\ v \in signed
    /\ signed' = signed \ {v}
    /\ UNCHANGED <<holder, made, cookie, links, papers, bills, tickets, talked, lapsed>>

\* Bound: more may be bought.
MoreDeals == Len(bills) + Cardinality(tickets) < MaxDeals

NewPaper(c) == papers' = Append(papers, [chart |-> c, ready |-> FALSE])

\* api_create_order and its payment: a guest may buy for a chart; a report is made with it.
PayForChart(v, c, plan) ==
    /\ plan \in Plans \ {"credit3"} /\ MoreDeals
    /\ MayOpenChart(v, c)
    /\ IF plan = "monthly" THEN UNCHANGED papers ELSE Len(papers) < MaxPapers /\ NewPaper(c)
    /\ bills' = Append(bills, [chart |-> c, plan |-> plan,
                               payer |-> IF v \in signed THEN v ELSE NoOne,
                               paper |-> IF plan = "monthly" THEN 0 ELSE Len(papers) + 1])
    /\ lapsed' = IF plan = "monthly" THEN lapsed \ {c} ELSE lapsed
    /\ UNCHANGED <<holder, made, cookie, links, signed, tickets, talked>>

\* A pack of credits needs an account and no chart.
PayForCredits(v) ==
    /\ "credit3" \in Plans /\ v \in signed /\ MoreDeals
    /\ bills' = Append(bills, [chart |-> NoChart, plan |-> "credit3", payer |-> v, paper |-> 0])
    /\ UNCHANGED <<holder, made, cookie, links, signed, papers, tickets, talked, lapsed>>

\* api_purchase of a report, once for a chart: one that exists, whosever it is, stands for
\* the new one, and the entitlement stays unbound.
BuyReport(v, c) ==
    /\ v \in signed /\ MayOpenChart(v, c) /\ MoreDeals
    /\ ~\E t \in tickets : t.who = v /\ t.kind = "report" /\ t.chart = c
    /\ LET p == IF LatestPaper(c) # 0 THEN 0 ELSE Len(papers) + 1
       IN  /\ tickets' = tickets \union {[who |-> v, kind |-> "report", chart |-> c, paper |-> p]}
           /\ IF p = 0 THEN UNCHANGED papers ELSE Len(papers) < MaxPapers /\ NewPaper(c)
    /\ UNCHANGED <<holder, made, cookie, links, signed, bills, talked, lapsed>>

\* api_create_report where there is none, or with regenerate=1: an entitlement that has no
\* report yet gets this one, unless an order has paid for it.
CreateReport(v, c) ==
    /\ MayOpenChart(v, c) /\ Len(papers) < MaxPapers
    /\ LET mine == {t \in tickets : v \in signed /\ t.who = v /\ t.kind = "report" /\ t.chart = c}
           free == {t \in mine : t.paper = 0}
       IN  /\ BillsOf(c) # {} \/ mine # {}
           /\ tickets' = IF BillsOf(c) # {} THEN tickets
                         ELSE (tickets \ free)
                              \union {[t EXCEPT !.paper = Len(papers) + 1] : t \in free}
    /\ NewPaper(c)
    /\ UNCHANGED <<holder, made, cookie, links, signed, bills, talked, lapsed>>

\* api_solar_purchase, api_relocation_purchase
BuyExtra(v, kind, c) ==
    /\ v \in signed /\ MayOpenChart(v, c) /\ MoreDeals
    /\ tickets' = tickets \union {[who |-> v, kind |-> kind, chart |-> c, paper |-> 0]}
    /\ UNCHANGED <<holder, made, cookie, links, signed, papers, bills, talked, lapsed>>

PaperReady(p) ==
    /\ papers' = [papers EXCEPT ![p].ready = TRUE]
    /\ UNCHANGED <<holder, made, cookie, links, signed, bills, tickets, talked, lapsed>>

\* The chat lets in whoever the query for a paid order lets in.
Talk(v, c) ==
    /\ MayOpenChart(v, c) /\ TRUE \in ChatVerdicts(c)
    /\ talked' = talked \union {c}
    /\ UNCHANGED <<holder, made, cookie, links, signed, papers, bills, tickets, lapsed>>

SubscriptionEnds(c) ==
    /\ Subscribed(c)
    /\ lapsed' = lapsed \union {c}
    /\ UNCHANGED <<holder, made, cookie, links, signed, papers, bills, tickets, talked>>

AccessNext ==
    \/ \E v \in People :
          \/ SignIn(v) \/ SignOut(v) \/ PayForCredits(v)
          \/ \E c \in Leaves :
                \/ MakeChart(v, c) \/ BuyReport(v, c) \/ CreateReport(v, c) \/ Talk(v, c)
                \/ \E w \in People : ShareChart(v, w, c)
                \/ \E plan \in Plans : PayForChart(v, c, plan)
                \/ \E kind \in Extras : BuyExtra(v, kind, c)
    \/ \E p \in DOMAIN papers : PaperReady(p)
    \/ \E c \in Leaves : SubscriptionEnds(c)

AccessSpec == AccessInit /\ [][AccessNext]_accessVars

-----------------------------------------------------------------------------
(* Correctness.                                                            *)

\* What reader v has of chart c is listed and opens.
HasAll(v, c) ==
    /\ c \in ChartsOf(v)
    /\ Cardinality(ChartsOf(v)) <= Recent => TodayPage(v, c) = "shown"
    /\ \A p \in DOMAIN papers :
          papers[p].chart = c /\ papers[p].ready =>
             /\ (\E o \in BillsOf(c) : bills[o].paper = p) \/ Bound(v, p) => p \in Downloads(v)
             /\ p \in AccountReports(v)
             /\ p \in ReportsPage(v) \/ Len(papers) - p >= Shelf
    /\ BillsOf(c) \subseteq AccountOrders(v) \intersect Receipts(v)
    /\ \A t \in tickets : t.who = v /\ t.chart = c /\ t.kind \in Extras => Reads(v, t.kind, c)
    /\ c \in talked => c \in ChatsPage(v)
    /\ Subscribed(c) => c \in SubscriptionsPage(v)
    /\ (\A o \in BillsOf(c) : bills[o].plan = "gold") /\ BillsOf(c) # {} => ChatVerdicts(c) = {TRUE}

\* What a reader made or paid for as a guest is theirs once they sign in: it is on their
\* pages and opens, and it opens for nobody else any more, whatever links they had sent and
\* whatever others bought for the chart in the meantime.
AccessHeld ==
    \A v \in signed : \A c \in cookie[v] :
        /\ HasAll(v, c)
        /\ \A w \in People \ {v} :
              /\ ~MayOpenChart(w, c)
              /\ \A p \in Downloads(w) : papers[p].chart # c
              /\ \A kind \in Extras : ~Reads(w, kind, c)
=============================================================================
