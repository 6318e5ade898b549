------------------------------ MODULE Catalog ------------------------------
(***************************************************************************)
(* The price list.  Every worker of the web server seeds the plans, the    *)
(* launch coupon and the credit prices while it starts, and administrators *)
(* edit them at run time.                                                  *)
(* app/db.py: init_db, seed_plans, seed_credit_prices; app/main.py:        *)
(* lifespan, plans_page; app/routes/admin.py: api_admin_plan_update,       *)
(* admin_credit_price_set.                                                 *)
(*                                                                         *)
(* A seed reads the rows, and writes in a later step: inserts, which fail  *)
(* when somebody else has inserted the row meanwhile, and the columns that *)
(* differ from what it has read.                                           *)
(***************************************************************************)
EXTENDS Naturals, FiniteSets

CONSTANTS
    Starters,        \* workers of the web server
    PlanRows,        \* the plans of the catalogue
    PriceRows,       \* the credit prices of the catalogue
    SeedCost(_),     \* what a row costs when it is new
    SeedSale(_),     \* whether it is for sale: "on", "off", or "unsaid" by the catalogue
    Costs,           \* prices an administrator may set
    Ungated          \* products that are not in the table of the page

Offers == PlanRows \union PriceRows

ASSUME CatalogAssumption ==
    /\ PlanRows \intersect PriceRows = {} /\ Costs \subseteq Nat \ {0}
    /\ \A o \in Offers : SeedCost(o) \in Costs /\ SeedSale(o) \in {"on", "off", "unsaid"}
    /\ \A o \in PriceRows : SeedSale(o) # "unsaid"

VARIABLES
    offer,      \* offer[o]: the row of o, or NoOffer
    launch,     \* the coupon LANCH20 is there
    starter,    \* starter[w]: where worker w is, and the rows its transaction has read
    \* History, read by the properties only:
    asked,      \* asked[o]: the price an administrator has set last, else that of the seed
    switched,   \* switched[w]: plans an administrator has switched since w began to start
    unlucky     \* workers whose insert of the coupon failed

catalogVars == <<offer, launch, starter, asked, switched, unlucky>>

Offer == [cost : Costs, sale : BOOLEAN]
NoOffer == [cost |-> 0, sale |-> FALSE]

\* The order in which a worker starts; "up" serves requests.
StartSteps == {"down", "plans", "coupon", "prices", "legacy", "up"}
PlansDone == {"coupon", "prices", "legacy", "up"}

CatalogTypeOK ==
    /\ offer \in [Offers -> Offer \union {NoOffer}]
    /\ launch \in BOOLEAN
    /\ starter \in [Starters -> [at : StartSteps, seen : [Offers -> Offer \union {NoOffer}]]]
    /\ asked \in [Offers -> Costs]
    /\ switched \in [Starters -> SUBSET PlanRows]
    /\ unlucky \subseteq Starters

\* What a transaction reads that is about these rows.
Look(rows) == [o \in Offers |-> IF o \in rows THEN offer[o] ELSE NoOffer]

Stopped == [at |-> "down", seen |-> [o \in Offers |-> NoOffer]]

\* An empty database, or that of an earlier release, which sold what is retired now.
CatalogInit ==
    /\ offer \in {[o \in Offers |-> IF o \in old THEN [cost |-> SeedCost(o), sale |-> TRUE]
                                    ELSE NoOffer] : old \in SUBSET Offers}
    /\ launch = FALSE
    /\ starter = [w \in Starters |-> Stopped]
    /\ asked = [o \in Offers |-> SeedCost(o)]
    /\ switched = [w \in Starters |-> {}]
    /\ unlucky = {}

-----------------------------------------------------------------------------
(* lifespan                                                                *)

Start(w) ==
    /\ starter[w].at = "down"
    /\ starter' = [starter EXCEPT ![w] = [at |-> "plans", seen |-> Look(PlanRows)]]
    /\ switched' = [switched EXCEPT ![w] = {}]
    /\ unlucky' = unlucky \ {w}
    /\ UNCHANGED <<offer, launch, asked>>

\* A new row is for sale unless the catalogue says otherwise.
Fresh(o) == [cost |-> SeedCost(o), sale |-> SeedSale(o) # "off"]

\* A fault: the price of the catalogue is written, too.
Reseeded(row, o) == Fresh(o)

\* "only update display fields, never overwrite runtime price edits", "honor retirements"
Refreshed(row, o) == [row EXCEPT !.sale = IF SeedSale(o) = "unsaid" THEN @ ELSE SeedSale(o) = "on"]

\* The row of o after the commit of a transaction that has read `seen`.
Written(o, seen) ==
    IF seen = NoOffer THEN Fresh(o)
    ELSE [offer[o] EXCEPT !.cost = IF Refreshed(seen, o).cost = seen.cost
                                   THEN @ ELSE Refreshed(seen, o).cost,
                          !.sale = IF Refreshed(seen, o).sale = seen.sale
                                   THEN @ ELSE Refreshed(seen, o).sale]

\* Another worker has inserted a row of this one's catalogue first.
Clash(w, rows) == \E o \in rows : starter[w].seen[o] = NoOffer /\ offer[o] # NoOffer

\* One commit for the whole catalogue; a violated primary key ends the start.
Seed(w, rows, next) ==
    /\ IF Clash(w, rows)
       THEN starter' = [starter EXCEPT ![w] = Stopped] /\ UNCHANGED offer
       ELSE /\ offer' = [o \in Offers |-> IF o \in rows THEN Written(o, starter[w].seen[o])
                                          ELSE offer[o]]
            /\ starter' = [starter EXCEPT ![w] = [Stopped EXCEPT !.at = next]]
    /\ UNCHANGED <<launch, asked, switched, unlucky>>

SeedPlans(w) == starter[w].at = "plans" /\ Seed(w, PlanRows, "coupon")

\* ON CONFLICT DO NOTHING, and any error is taken for a race that was lost.  The next
\* transaction reads its rows.
SeedCoupon(w, fails) ==
    /\ starter[w].at = "coupon"
    /\ launch' = (launch \/ ~fails)
    /\ unlucky' = IF fails /\ ~launch THEN unlucky \union {w} ELSE unlucky
    /\ starter' = [starter EXCEPT ![w] = [at |-> "prices", seen |-> Look(PriceRows)]]
    /\ UNCHANGED <<offer, asked, switched>>

SeedPrices(w) == starter[w].at = "prices" /\ Seed(w, PriceRows, "legacy")

\* PLANS_SEED of main.py still sells every plan; it only adds what is not there.
LegacyRow(o) == IF offer[o] = NoOffer THEN [cost |-> SeedCost(o), sale |-> TRUE] ELSE offer[o]

SeedLegacy(w) ==
    /\ starter[w].at = "legacy"
    /\ offer' = [o \in Offers |-> IF o \in PlanRows THEN LegacyRow(o) ELSE offer[o]]
    /\ starter' = [starter EXCEPT ![w] = [Stopped EXCEPT !.at = "up"]]
    /\ UNCHANGED <<launch, asked, switched, unlucky>>

\* A restart, a crash, a deployment.
StopWorker(w) ==
    /\ starter[w].at # "down"
    /\ starter' = [starter EXCEPT ![w] = Stopped]
    /\ UNCHANGED <<offer, launch, asked, switched, unlucky>>

-----------------------------------------------------------------------------
(* The administrators.                                                     *)

\* api_admin_plan_update, admin_credit_price_set, in some worker that is up; a form with a
\* price and a switch is both, one after the other.
SetCost(o, c) ==
    /\ \E w \in Starters : starter[w].at = "up"
    /\ offer[o] # NoOffer
    /\ offer' = [offer EXCEPT ![o].cost = c]
    /\ asked' = [asked EXCEPT ![o] = c]
    /\ UNCHANGED <<launch, starter, switched, unlucky>>

\* Only a plan can be switched.
SwitchPlan(o, on) ==
    /\ \E w \in Starters : starter[w].at = "up"
    /\ o \in PlanRows /\ offer[o] # NoOffer
    /\ offer' = [offer EXCEPT ![o].sale = on]
    /\ switched' = [w \in Starters |-> switched[w] \union {o}]
    /\ UNCHANGED <<launch, starter, asked, unlucky>>

CatalogNext ==
    \/ \E w \in Starters : \/ Start(w) \/ SeedPlans(w) \/ SeedPrices(w) \/ SeedLegacy(w)
                           \/ StopWorker(w) \/ \E fails \in BOOLEAN : SeedCoupon(w, fails)
    \/ \E o \in Offers : \/ \E c \in Costs : SetCost(o, c)
                         \/ \E on \in BOOLEAN : SwitchPlan(o, on)

CatalogSpec == CatalogInit /\ [][CatalogNext]_catalogVars

-----------------------------------------------------------------------------
(* Correctness.                                                            *)

\* plans_page: the plans and the products it shows
OnSale == {o \in Offers \ Ungated : offer[o].sale}

\* However the starts of the workers and the edits of the administrators interleave:
\* 1. "an admin price edit must survive app restarts";
\* 2. a worker that serves requests finds the whole catalogue, and the coupon unless its
\*    own insert failed;
\* 3. "honor retirements": what the catalogue retires is on the page of a worker that has
\*    seeded the plans only if an administrator switched it since that worker began to
\*    start, and what it sells for credits is always there.
CatalogKept ==
    /\ \A o \in Offers : offer[o] # NoOffer => offer[o].cost = asked[o]
    /\ \A w \in Starters : starter[w].at = "up" =>
          /\ \A o \in Offers : offer[o] # NoOffer
          /\ launch \/ w \in unlucky
          /\ \A o \in OnSale : SeedSale(o) = "off" => o \in switched[w]
          /\ \A o \in PriceRows \ Ungated : SeedSale(o) = "on" => o \in OnSale
=============================================================================
