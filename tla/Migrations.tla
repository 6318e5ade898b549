----------------------------- MODULE Migrations -----------------------------
(***************************************************************************)
(* The revisions of the database, alembic/versions, in their order, and    *)
(* what alembic/env.py does with them.  A schema is a set of facts; a      *)
(* revision changes it in one transaction, or fails and changes nothing.   *)
(*                                                                         *)
(* The database is new, or that of production, "created by an old          *)
(* create_all", which differs from the first revision where the revision   *)
(* 66bc97b51008 says.  Revisions are applied and rolled back one at a      *)
(* time: a run over several is the sequence of them, or nothing.  A        *)
(* revision may also be refused by the rows of the tables, which is no     *)
(* step; the rows that three of the revisions move are modelled.           *)
(***************************************************************************)
EXTENDS Integers, Sequences, FiniteSets

CONSTANTS
    Drifts,      \* how the database of production may differ from the first revision
    SubRows,     \* ids of subscriptions of one chart and account
    Expiries,    \* their expires_at; 0 is not set
    Sales,       \* orders of a gated plan
    Copies       \* reports of one chart

VARIABLES
    rev,        \* alembic_version, as a position in Chain
    schema,     \* what the database has
    handmade,   \* create_all has added tables to it
    subs,       \* the subscriptions before and after the last revision, if it moves them
    links,      \* likewise the orders of a chart and their reports
    sold,       \* sold[o]: order o is not paid, paid, or paid by a known user
    granted,    \* granted[o]: entitlements with source "order" and source_ref o
    due         \* orders that were to get one; history

migrationVars == <<rev, schema, handmade, subs, links, sold, granted, due>>

-----------------------------------------------------------------------------
(* Changes of the schema.                                                  *)

Of(t, things) == {<<t, x>> : x \in things}
Tables(ts) == {<<t, "table">> : t \in ts}

\* create, drop: fails if it is there, or not; ensure, clear: does not;
\* provide: what a table that is missing is created with
NoChange == [create |-> {}, drop |-> {}, ensure |-> {}, clear |-> {}, provide |-> {}]

\* What is gone with the tables among these.
Within(facts) == {f \in schema : <<f[1], "table">> \in facts}

Missing(facts) == {f \in facts : <<f[1], "table">> \notin schema}

Applies(c) == schema \intersect c.create = {} /\ c.drop \subseteq schema

Applied(c) ==
    (schema \ (c.drop \union c.clear \union Within(c.drop \union c.clear)))
       \union c.create \union c.ensure \union Missing(c.provide)

\* A revision that creates something, and drops it when it is rolled back.
Adds(id, facts) ==
    [id |-> id, up |-> [NoChange EXCEPT !.create = facts], down |-> [NoChange EXCEPT !.drop = facts]]

-----------------------------------------------------------------------------
(* The revisions.  A table stands for its columns and indexes that no      *)
(* later revision touches.                                                 *)

\* What 66bc97b51008 creates, and what it makes NOT NULL.
Aligned ==
    Of("orders", {"ix_orders_chat_id", "ix_orders_secondary_chart_id"})
       \union Of("referral_codes", {"ix_referral_codes_code", "not_null"})
       \union Of("referral_events", {"ix_referral_events_code", "ix_referral_events_order_id", "not_null"})
       \union Of("subscriptions", {"plan_key_not_null"})
       \union Of("weekly_reflections", {"not_null"})

\* What it drops.
Stray ==
    {<<"orders", "idx_orders_chart_status">>, <<"referral_codes", "referral_codes_code_key">>,
     <<"referral_events", "ix_ref_code">>, <<"reports", "idx_reports_chart">>,
     <<"subscriptions", "expires_at_not_null">>}

BaselineTables ==
    Tables({"audit_logs", "bot_chat_states", "coupons", "llm_runs", "plans", "prompt_versions",
            "referral_events", "secrets", "subscriptions", "users", "weekly_reflections",
            "birth_profiles", "referral_codes", "charts", "orders", "reports"})

BaselineUp ==
    [NoChange EXCEPT !.create = BaselineTables \union Aligned
        \union {<<"orders", "plan_key_references_plans">>, <<"subscriptions", "chat_id_not_null">>}]

\* Every index is dropped by its name, then its table.
BaselineDown ==
    [NoChange EXCEPT !.drop = BaselineTables
        \union {f \in Aligned : f[2] \notin {"not_null", "plan_key_not_null"}}]

Baseline == [id |-> "dfb85378c2bf", up |-> BaselineUp, down |-> BaselineDown]

ChatMessagesRev == Adds("c4f1a2b3e5d7", Tables({"chat_messages"}))

ChatChartRev ==
    [id |-> "d4f2580df4bf",
     up |-> [NoChange EXCEPT !.ensure = {<<"chat_messages", "chart_id_not_null">>}],
     down |-> [NoChange EXCEPT !.clear = {<<"chat_messages", "chart_id_not_null">>}]]

ZodiacRev == Adds("9a3c5e7b1d2f", {<<"birth_profiles", "zodiac">>})

OneSubscriptionRev ==
    [id |-> "3c92dac1a241",
     up |-> [NoChange EXCEPT !.clear = {<<"subscriptions", "chat_id_not_null">>},
                             !.ensure = {<<"subscriptions", "uq_sub_chart_account">>}],
     down |-> [NoChange EXCEPT !.clear = {<<"subscriptions", "uq_sub_chart_account">>},
                               !.ensure = {<<"subscriptions", "chat_id_not_null">>}]]

OrderErrorRev ==
    Adds("d4db5d787f91", {<<"orders", "error">>, <<"subscriptions", "order_id">>})

\* "converges BOTH to the models' definition"; "Best-effort reverse"
AlignRev ==
    [id |-> "66bc97b51008",
     up |-> [NoChange EXCEPT !.clear = Stray, !.ensure = Aligned],
     down |-> [NoChange EXCEPT
                  !.ensure = {<<"orders", "idx_orders_chart_status">>, <<"reports", "idx_reports_chart">>},
                  !.create = {<<"referral_codes", "referral_codes_code_key">>},
                  !.clear = Aligned]]

PushRev == Adds("64397ea3dbf5", Tables({"push_subscriptions"}))

ChunksRev ==
    [id |-> "be499a77ca2b",
     up |-> [NoChange EXCEPT !.create = Tables({"report_chunks"}),
                             !.ensure = {<<"report_chunks", "ix_report_chunks_embedding_hnsw">>}],
     down |-> [NoChange EXCEPT !.drop = Tables({"report_chunks"})]]

WithdrawalsRev ==
    Adds("cdd5c0abf767", Tables({"withdrawal_requests"}) \union {<<"users", "balance_rial">>})
OrderNoteRev == Adds("9f1a5ac160e7", {<<"orders", "note">>})
HeartbeatRev == Adds("cc51bd1b6bf1", Of("reports", {"updated_at", "ix_reports_status_updated"}))
RunCostsRev ==
    Adds("bad790d98ddf", Of("llm_runs", {"user_id", "kind", "ix_llm_runs_user_id", "ix_llm_runs_kind",
                                         "ix_llm_runs_created_kind"}))
AudioRev == Adds("9d34ed9201c2", Of("reports", {"audio_status", "audio_r2_key", "ix_reports_audio_status"}))
OnePendingRev == Adds("cec42d441b5c", {<<"withdrawal_requests", "uq_withdrawal_one_pending">>})

\* F-17: rows only, "not reversible"
LinkReportsRev == [id |-> "435333592075", up |-> NoChange, down |-> NoChange]

CreditsRev ==
    Adds("fd5cf11364ab", Tables({"credit_transactions", "explorations"}) \union {<<"users", "credits">>})

ExplorationChartRev ==
    [id |-> "9f2c41e8b0d1",
     up |-> [NoChange EXCEPT !.clear = {<<"explorations", "chart_id_not_null">>}],
     down |-> [NoChange EXCEPT !.ensure = {<<"explorations", "chart_id_not_null">>}]]

ReflectionsRev == Adds("c0833e69209e", Tables({"daily_reflections"}))
FreeExplorationRev == Adds("7475dfc2998b", {<<"users", "free_exploration_used">>})
PlanCreditsRev == Adds("7108139b90bd", {<<"plans", "credits_grant">>})
OrderUserRev ==
    Adds("a7c0c5d2e9f4", Of("orders", {"user_id", "ix_orders_user_id", "orders_user_id_fkey"}))
CreditGrantRev == Adds("57a8681f0484", {<<"subscriptions", "last_credit_grant_at">>})
ReportOnlyRev == Adds("ea82d92314de", {<<"coupons", "report_only">>})
PrefsRev == Adds("5897f4417ccf", Tables({"notification_prefs"}))
ConsentRev == Adds("575c0e692ce6", Tables({"consent_logs"}))
TelemetryRev ==
    Adds("8d20fb4d4148", Of("llm_runs", {"key_slot", "section", "attempt", "error_code", "fallback_used",
                                         "prompt_version", "ix_llm_runs_key_slot"}))
CmsRev == Adds("10958fde8752", Tables({"cms_articles", "cms_media", "cms_pages", "cms_versions"}))
EntitlementsRev ==
    Adds("a1c0de000001", Tables({"credit_prices", "entitlements"})
            \union Of("credit_transactions", {"idempotency_key", "uq_credit_tx_idem_key"}))

OldFunnel == Of("funnel_events", {"ix_funnel_events_event_time", "ix_funnel_events_session"})
NewFunnel == Of("funnel_events", {"ix_funnel_events_event", "ix_funnel_events_session_id"})

FunnelRev == Adds("a1c0de000002", Tables({"funnel_events"}) \union OldFunnel)

\* A6: rows only
GrantRev == [id |-> "a1c0de000003", up |-> NoChange, down |-> NoChange]

ForecastKey == {<<"transit_forecasts", "chart_id_references_charts_on_delete_cascade">>}
UserKeyOnce == {<<"transit_alert_log", "ix_transit_alert_log_user_key_unique">>}
UserKey == {<<"transit_alert_log", "ix_transit_alert_log_user_key">>}
AlertsSet == {<<"notification_prefs", "transit_alerts_not_null">>}
TransitTables == Tables({"transit_forecasts", "transit_alert_log"})

\* "apply only what is missing"; the column is not there without its constraint.
TransitRev ==
    [id |-> "b4a0de000004",
     up |-> [NoChange EXCEPT !.provide = TransitTables \union ForecastKey \union UserKeyOnce,
                             !.ensure = AlertsSet \union {<<"notification_prefs", "transit_alerts">>}],
     down |-> [NoChange EXCEPT !.clear = TransitTables \union AlertsSet
                                            \union {<<"notification_prefs", "transit_alerts">>}]]

\* The duplicates go first, so that no row refuses it.
OneForecastRev == Adds("c7f1a2b9d4e6", {<<"transit_forecasts", "uq_transit_chart_months">>})

ModelNamesRev ==
    [id |-> "c8d2e3f4a5b6",
     up |-> [NoChange EXCEPT !.create = NewFunnel, !.ensure = UserKey,
                             !.clear = OldFunnel \union AlertsSet \union UserKeyOnce \union ForecastKey],
     down |-> [NoChange EXCEPT !.create = ForecastKey \union OldFunnel,
                               !.ensure = UserKeyOnce \union AlertsSet,
                               !.clear = UserKey \union NewFunnel]]

\* "the model is the truth"
SubscribersRev ==
    [id |-> "d9e3f4a5b6c7",
     up |-> [NoChange EXCEPT !.ensure = ForecastKey, !.provide = Tables({"subscribers"})],
     down |-> [NoChange EXCEPT !.clear = Tables({"subscribers"}) \union ForecastKey]]

\* The rows without a value get one first.
AlertsRev ==
    [id |-> "e1a2b3c4d5e6", up |-> [NoChange EXCEPT !.ensure = AlertsSet],
     down |-> [NoChange EXCEPT !.clear = AlertsSet]]

\* "Kept as no-op on purpose"
PlanKeyRev ==
    [id |-> "b7c4d9e21f05",
     up |-> [NoChange EXCEPT !.clear = {<<"orders", "plan_key_references_plans">>}],
     down |-> NoChange]

Chain ==
    <<Baseline, ChatMessagesRev, ChatChartRev, ZodiacRev, OneSubscriptionRev, OrderErrorRev, AlignRev,
      PushRev, ChunksRev, WithdrawalsRev, OrderNoteRev, HeartbeatRev, RunCostsRev, AudioRev,
      OnePendingRev, LinkReportsRev, CreditsRev, ExplorationChartRev, ReflectionsRev,
      FreeExplorationRev, PlanCreditsRev, OrderUserRev, CreditGrantRev, ReportOnlyRev, PrefsRev,
      ConsentRev, TelemetryRev, CmsRev, EntitlementsRev, FunnelRev, GrantRev, TransitRev,
      OneForecastRev, ModelNamesRev, SubscribersRev, AlertsRev, PlanKeyRev>>

MigrationAssumption ==
    /\ Drifts \subseteq SUBSET (Aligned \union Stray)
    /\ IsFiniteSet(SubRows) /\ SubRows \subseteq Int /\ Expiries \subseteq Nat
    /\ "none" \notin Copies

ASSUME MigrationAssumption

-----------------------------------------------------------------------------
(* What the program declares, app/models.py and app/models_cms.py.         *)

\* User to Entitlement
DeclaredCore ==
    Tables({"users", "birth_profiles", "charts", "llm_runs", "chat_messages", "explorations",
            "credit_transactions", "credit_prices", "entitlements"})
       \union Of("users", {"balance_rial", "credits", "free_exploration_used"})
       \union {<<"birth_profiles", "zodiac">>, <<"chat_messages", "chart_id_not_null">>}
       \union Of("llm_runs", {"user_id", "ix_llm_runs_user_id", "kind", "ix_llm_runs_kind",
                              "ix_llm_runs_created_kind", "key_slot", "ix_llm_runs_key_slot", "section",
                              "attempt", "error_code", "fallback_used", "prompt_version"})
       \union Of("credit_transactions", {"idempotency_key", "uq_credit_tx_idem_key"})

\* Report to DailyReflection
DeclaredShop ==
    Tables({"reports", "plans", "orders", "coupons", "subscriptions", "weekly_reflections",
            "daily_reflections"})
       \union Of("reports", {"updated_at", "ix_reports_status_updated", "audio_status", "audio_r2_key",
                             "ix_reports_audio_status"})
       \union Of("orders", {"error", "note", "user_id", "ix_orders_user_id", "orders_user_id_fkey",
                            "ix_orders_chat_id", "ix_orders_secondary_chart_id"})
       \union {<<"plans", "credits_grant">>, <<"coupons", "report_only">>, <<"weekly_reflections", "not_null">>}
       \union Of("subscriptions", {"uq_sub_chart_account", "order_id", "last_credit_grant_at",
                                   "plan_key_not_null"})

\* ReferralEvent to ReportChunk
DeclaredAccounts ==
    Tables({"referral_events", "referral_codes", "withdrawal_requests", "prompt_versions", "audit_logs",
            "bot_chat_states", "secrets", "push_subscriptions", "consent_logs", "notification_prefs",
            "report_chunks"})
       \union Of("referral_events", {"ix_referral_events_code", "ix_referral_events_order_id", "not_null"})
       \union Of("referral_codes", {"ix_referral_codes_code", "not_null"})
       \union {<<"withdrawal_requests", "uq_withdrawal_one_pending">>,
               <<"notification_prefs", "transit_alerts">>,
               <<"report_chunks", "ix_report_chunks_embedding_hnsw">>}
       \union AlertsSet

\* FunnelEvent to Subscriber
DeclaredTransit ==
    Tables({"funnel_events", "subscribers"}) \union TransitTables
       \union {<<"transit_forecasts", "uq_transit_chart_months">>}
       \union ForecastKey \union UserKey \union NewFunnel

DeclaredCms == Tables({"cms_articles", "cms_pages", "cms_media", "cms_versions"})

Declared == DeclaredCore \union DeclaredShop \union DeclaredAccounts \union DeclaredTransit \union DeclaredCms

Changes == {Chain[i].up : i \in DOMAIN Chain} \union {Chain[i].down : i \in DOMAIN Chain}

Facts ==
    Declared \union Aligned \union Stray
       \union UNION {c.create \union c.ensure \union c.provide : c \in Changes}

-----------------------------------------------------------------------------

\* A revision that moves no rows.
NoSubs == [rows |-> <<>>, kept |-> {}]
NoLinks == [before |-> [o \in Sales |-> "none"], after |-> [o \in Sales |-> "none"], paid |-> {}, there |-> {}]

SubTables == UNION {[ids -> Expiries] : ids \in SUBSET SubRows}
LinkTables == [Sales -> Copies \union {"none"}]

MigrationsTypeOK ==
    /\ rev \in 0 .. Len(Chain)
    /\ schema \subseteq Facts /\ handmade \in BOOLEAN
    /\ subs = NoSubs \/ subs \in [rows : SubTables, kept : SUBSET SubRows]
    /\ links \in [before : LinkTables, after : LinkTables, paid : SUBSET Sales, there : SUBSET Copies]
    /\ sold \in [Sales -> {"none", "ownerless", "owned"}]
    /\ granted \in [Sales -> Nat] /\ due \subseteq Sales

\* A new database, or the old one, stamped with the first revision.
MigrationsInit ==
    /\ \/ rev = 0 /\ schema = {}
       \/ rev = 1 /\ \E d \in Drifts : schema = (BaselineUp.create \ Aligned) \union d
    /\ handmade = FALSE
    /\ subs = NoSubs /\ links = NoLinks
    /\ sold = [o \in Sales |-> "none"]
    /\ granted = [o \in Sales |-> 0] /\ due = {}

-----------------------------------------------------------------------------
(* The rows.                                                               *)

\* A fault: the row with the earlier expiry stays.
DoomedWrongly(rows, a, b) == a < b /\ (rows[a] = 0 \/ rows[b] = 0 \/ rows[b] <= rows[a])

\* Row a of subscriptions is deleted for the sake of row b.
Doomed(rows, a, b) == a < b /\ (rows[a] = 0 \/ rows[b] = 0 \/ rows[a] <= rows[b])

Deduped(rows) == {a \in DOMAIN rows : \A b \in DOMAIN rows : ~Doomed(rows, a, b)}

\* The unique index refuses what is still there twice.
MoveSubs(id) ==
    IF id # OneSubscriptionRev.id THEN subs' = NoSubs
    ELSE \E rows \in SubTables :
            /\ \A a, b \in Deduped(rows) : a = b
            /\ subs' = [rows |-> rows, kept |-> Deduped(rows)]

Unlinked(l) == {r \in l.there : \A o \in Sales : l.before[o] # r}

\* "link each unlinked report to the ONLY paid order of its chart"
Linkable(l, o, r) ==
    /\ l.before[o] = "none" /\ l.paid = {o}
    /\ Unlinked(l) = {r}

Linked(l, o) ==
    IF \E r \in l.there : Linkable(l, o, r) THEN CHOOSE r \in l.there : Linkable(l, o, r)
    ELSE l.before[o]

MoveLinks(id) ==
    IF id # LinkReportsRev.id THEN links' = NoLinks
    ELSE \E before \in LinkTables, paid \in SUBSET Sales, there \in SUBSET Copies :
            LET l == [before |-> before, after |-> before, paid |-> paid, there |-> there]
            IN  links' = [l EXCEPT !.after = [o \in Sales |-> Linked(l, o)]]

\* "idempotent (checks source_ref)"; an order without an owner is left out.
Backfill ==
    /\ granted' = [o \in Sales |-> IF sold[o] = "owned" /\ granted[o] = 0 THEN 1 ELSE granted[o]]
    /\ due' = due \union {o \in Sales : sold[o] = "owned"}

MoveGrants(id) ==
    IF id = GrantRev.id THEN Backfill ELSE UNCHANGED <<granted, due>>

-----------------------------------------------------------------------------
(* alembic upgrade, alembic downgrade                                      *)

Upgrade ==
    /\ rev < Len(Chain)
    /\ LET r == Chain[rev + 1]
       IN  /\ Applies(r.up)
           /\ schema' = Applied(r.up)
           /\ MoveSubs(r.id) /\ MoveLinks(r.id) /\ MoveGrants(r.id)
    /\ rev' = rev + 1
    /\ UNCHANGED <<handmade, sold>>

\* What a rollback does to the orders: they go with their table, or lose their user.
AfterRollback(id, o) ==
    IF id = Baseline.id THEN "none"
    ELSE IF id = OrderUserRev.id /\ sold[o] = "owned" THEN "ownerless" ELSE sold[o]

\* Bound: a database with tables of create_all is not rolled back.
Downgrade ==
    /\ rev > 0 /\ ~handmade
    /\ LET r == Chain[rev]
           gone == r.id \in {GrantRev.id, EntitlementsRev.id}
       IN  /\ Applies(r.down)
           /\ schema' = Applied(r.down)
           /\ sold' = [o \in Sales |-> AfterRollback(r.id, o)]
           /\ granted' = IF gone THEN [o \in Sales |-> 0] ELSE granted
           /\ due' = IF gone THEN {} ELSE due
    /\ rev' = rev - 1
    /\ subs' = NoSubs /\ links' = NoLinks
    /\ UNCHANGED handmade

\* CREATE_ALL_ON_BOOT: the tables that are missing, as they are declared
CreateAll ==
    /\ Missing(Declared) # {}
    /\ schema' = schema \union Missing(Declared)
    /\ handmade' = TRUE
    /\ subs' = NoSubs /\ links' = NoLinks
    /\ UNCHANGED <<rev, sold, granted, due>>

-----------------------------------------------------------------------------
(* The program.                                                            *)

Buy(o, known) ==
    /\ sold[o] = "none" /\ <<"orders", "table">> \in schema
    /\ known => <<"orders", "user_id">> \in schema
    /\ sold' = [sold EXCEPT ![o] = IF known THEN "owned" ELSE "ownerless"]
    /\ subs' = NoSubs /\ links' = NoLinks
    /\ UNCHANGED <<rev, schema, handmade, granted, due>>

\* scripts/migrate_entitlements.py --apply
BackfillByHand ==
    /\ <<"entitlements", "table">> \in schema /\ <<"orders", "user_id">> \in schema
    /\ Backfill
    /\ subs' = NoSubs /\ links' = NoLinks
    /\ UNCHANGED <<rev, schema, handmade, sold>>

MigrationsNext ==
    \/ Upgrade \/ Downgrade \/ CreateAll \/ BackfillByHand
    \/ \E o \in Sales, known \in BOOLEAN : Buy(o, known)

MigrationsSpec == MigrationsInit /\ [][MigrationsNext]_migrationVars

-----------------------------------------------------------------------------
(* Correctness.                                                            *)

\* Whatever the history of the database, new or old, drifted or not, rolled back and
\* upgraded again: at the last revision it is what the models declare, and unless create_all
\* has been there the schema never stops a revision from being applied, or one that is not
\* the first from being rolled back.
SchemaConverges ==
    /\ rev = Len(Chain) => schema = Declared
    /\ ~handmade /\ rev < Len(Chain) => Applies(Chain[rev + 1].up)
    /\ ~handmade /\ rev > 1 => Applies(Chain[rev].down)

\* "keep the row with the latest expiry": one row of an account stays, and where every expiry
\* is set, no other row was valid for longer.
LatestKept ==
    DOMAIN subs.rows # {} =>
       \E k \in DOMAIN subs.rows :
          /\ subs.kept = {k}
          /\ (\A a \in DOMAIN subs.rows : subs.rows[a] # 0) =>
                \A a \in DOMAIN subs.rows : subs.rows[a] <= subs.rows[k]

\* F-17 takes no report from an order, and gives none to two.
LinksKept ==
    /\ \A o \in Sales : links.before[o] # "none" => links.after[o] = links.before[o]
    /\ \A o, p \in Sales : links.after[o] = links.after[p] /\ links.after[o] # "none" =>
          o = p \/ links.before[o] = links.before[p]

\* A6: an order whose user was known has exactly one entitlement, and no order two, however
\* often revision, rollback and script follow each other.
GrantedOnce == \A o \in Sales : granted[o] <= 1 /\ (o \in due => granted[o] = 1)

\* What the chain of revisions promises of schema and rows.
MigrationsKept == SchemaConverges /\ LatestKept /\ LinksKept /\ GrantedOnce
=============================================================================
