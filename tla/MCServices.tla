----------------------------- MODULE MCServices -----------------------------
(***************************************************************************)
(* Small instances of services that share no state in these models,        *)
(* checked side by side: the initial state picks one of them, which then   *)
(* runs alone.                                                             *)
(***************************************************************************)
EXTENDS Wallet, Purchases, Subscriptions, Access, LLM, Login, Audio, Deletion,
        Content, Digests, Settings, TLC

CONSTANTS
    Running,       \* the services of this run
    u1, u2, o1, o2, o3, o4, q1, q2, q3,  \* users, orders and requests of the wallet
    x1, x2, y1, y2   \* the actors of the others, and their charts

VARIABLE running   \* the service that runs

\* Two users refer each other: u2 placed o1 and o3 with the code of u1, u1 placed
\* o2 with the code of u2, as did the guest of o4.  One reward covers one request
\* of u1, but not both, nor a request and the price of o2.
MCBuyer == o1 :> u2 @@ o2 :> u1 @@ o3 :> u2 @@ o4 :> NoUser
MCReferrer == o1 :> u1 @@ o2 :> u2 @@ o3 :> u1 @@ o4 :> u2
MCPrice == o1 :> 2 @@ o2 :> 1 @@ o3 :> 1 @@ o4 :> 1
MCReward == [o \in {o1, o2, o3, o4} |-> 2]
MCRequester == q1 :> u1 @@ q2 :> u1 @@ q3 :> u2
MCAmount == q1 :> 2 @@ q2 :> 2 @@ q3 :> 1

\* A gold report is worth two credits.
MCCreditPrice(c) == IF c = "report_gold" THEN 2 ELSE 1

\* Two subscriptions of one chart, all charts of one user.
MCChartOf(s) == IF s = "s3" THEN "c2" ELSE "c1"
MCReaderOf(c) == "u"

SymmetricActors == Permutations({x1, x2}) \union Permutations({y1, y2})

\* Two threads in one process.
MCHostOf(t) == IF t = "t3" THEN "h2" ELSE "h1"

-----------------------------------------------------------------------------

ServicesInit ==
    /\ running \in Running
    /\ Init /\ PurInit /\ SubInit /\ AccessInit /\ RouterInit
    /\ LoginInit /\ AudioInit /\ DeletionInit /\ ContentInit /\ DigestsInit
    /\ SettingsInit

\* All but service s stay as they are.
OnlyIn(s) ==
    /\ IF s = "wallet" THEN TRUE ELSE UNCHANGED vars
    /\ IF s = "purchases" THEN TRUE ELSE UNCHANGED purVars
    /\ IF s = "subscriptions" THEN TRUE ELSE UNCHANGED subVars
    /\ IF s = "access" THEN TRUE ELSE UNCHANGED accessVars
    /\ IF s = "llm" THEN TRUE ELSE UNCHANGED routerVars
    /\ IF s = "login" THEN TRUE ELSE UNCHANGED loginVars
    /\ IF s = "audio" THEN TRUE ELSE UNCHANGED audioVars
    /\ IF s = "deletion" THEN TRUE ELSE UNCHANGED delVars
    /\ IF s = "content" THEN TRUE ELSE UNCHANGED contentVars
    /\ IF s = "digests" THEN TRUE ELSE UNCHANGED digestVars
    /\ IF s = "settings" THEN TRUE ELSE UNCHANGED settingVars

ServicesNext ==
    /\ UNCHANGED running
    /\ \/ running = "wallet" /\ Next /\ OnlyIn("wallet")
       \/ running = "purchases" /\ PurNext /\ OnlyIn("purchases")
       \/ running = "subscriptions" /\ SubNext /\ OnlyIn("subscriptions")
       \/ running = "access" /\ AccessNext /\ OnlyIn("access")
       \/ running = "llm" /\ RouterNext /\ OnlyIn("llm")
       \/ running = "login" /\ LoginNext /\ OnlyIn("login")
       \/ running = "audio" /\ AudioNext /\ OnlyIn("audio")
       \/ running = "deletion" /\ DeletionNext /\ OnlyIn("deletion")
       \/ running = "content" /\ ContentNext /\ OnlyIn("content")
       \/ running = "digests" /\ DigestsNext /\ OnlyIn("digests")
       \/ running = "settings" /\ SettingsNext /\ OnlyIn("settings")

servicesVars ==
    <<running, vars, purVars, subVars, accessVars, routerVars, loginVars,
      audioVars, delVars, contentVars, digestVars, settingVars>>

ServicesSpec == ServicesInit /\ [][ServicesNext]_servicesVars

\* The type of the service that runs.
ServiceTypesOK ==
    /\ running = "wallet" => TypeOK
    /\ running = "purchases" => PurTypeOK
    /\ running = "subscriptions" => SubTypeOK
    /\ running = "access" => AccessTypeOK
    /\ running = "llm" => RouterTypeOK
    /\ running = "login" => LoginTypeOK
    /\ running = "audio" => AudioTypeOK
    /\ running = "deletion" => DeletionTypeOK
    /\ running = "content" => ContentTypeOK
    /\ running = "digests" => DigestsTypeOK
    /\ running = "settings" => SettingsTypeOK

\* ImplementsAccount of the wallet, in the runs of the wallet: withdraw_request,
\* resolve_withdrawal, pay_order_with_balance and reward_referral move the balance of
\* a user by each movement once, and never below zero.
WalletImplementsAccount ==
    Account!Init /\ [][running = "wallet" => [Account!Next]_(Account!vars)]_vars
=============================================================================
