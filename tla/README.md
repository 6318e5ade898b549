# A verification project for chart-platform

chart-platform sells readings of birth charts: reports that a worker writes with
language models, analyses of transits, card explorations and a chat. The
readings are paid with credits, credits with orders at a payment gateway or from
a wallet, and wallets are filled by referral rewards. What is hard in this code
is **money and state that several processes change at once**, and that is what
most of the modules are about; two model pure computation, the geometry of the
charts and the gates that every text of a language model must pass, and one the
37 revisions of the database.

Two things about the deployment matter everywhere. The web application runs in
two uvicorn processes (`deploy/chart-web.service:11`, `Dockerfile:23`), the
worker and cron in others, so two handlers can be between any two of their
commits at the same time, the `async` ones included. And all of them share one
PostgreSQL under READ COMMITTED: a textual `UPDATE ... WHERE` acts on the
committed row under its lock, while an ORM attribute (`order.status = ...`,
`c.used_count -= 1`) is computed from the row as it was loaded and written at
the flush, whatever the row holds by then. Every module below follows this:
**a call is a load step and a write step, and a guarded UPDATE is one step.**

Contents: 1 inventory, 2 plan, 3 modules and code, 4 runs, 5 proofs, 6 what
disagrees with the code's own words, 7 what is not modelled.

## 1. Inventory

For each component: its state; its operations; with whom it interacts; what is
hard; what makes it correct.

**Credit ledger** — `app/credits.py`.
State: `users.credits`, rows of `credit_transactions` with a unique
`idempotency_key`. Operations: `spend`, `grant`, `refund`, `balance`,
`get_price`, `set_price`. Called by every paid feature, in its own transaction or
the caller's (`commit=False`). Hard: two sessions with one key, two on one
balance, partial refunds, rollback of the caller. Correct: a key is booked once,
the rows add up to the balance, no overdraft, no refund beyond the price.

**Orders, coupons and the gateway** — `app/payment/orders.py`,
`app/payment/zarinpal.py`, `api_create_order` / `api_payment_verify` in
`app/main.py`, `admin_refund` in `app/routes/admin.py`, `expire_stale_orders` in
`app/report/worker.py`. State: `orders.status`, the order's coupon,
`coupons.used_count`, the payment at the gateway. Operations: checkout, payment
from the wallet, callbacks OK and NOK, hourly sweep, admin refund. Calls the
ledger, the wallet, the report queue. Hard: duplicated callbacks, lost or garbled
answers of the gateway, a process that dies between claim and outcome, ORM
decrements that overlap, the sweep that meets a late payment. Correct: no order
is paid without money, none is delivered twice or not at all, a coupon is not
used beyond its limit, a refund takes effect once.

**Wallet, cash-out, referral rewards** — `withdraw_request`,
`resolve_withdrawal`, `pay_order_with_balance`, `reward_referral` in
`app/payment/orders.py`, `app/routes/wallet.py`, the admin routes. State:
`users.balance_rial`, withdrawal requests, referral events, the bonus credit.
Hard: the reward is a read-modify-write, cycles of referrals, "first paid order"
depends on other orders' status. Correct: one pending request, no overdraft, one
bonus per buyer, mutual referrals bring at most one reward.

**Reports: order, queue, worker, recovery** — `api_create_report`,
`api_purchase`, `_enqueue_report` in `app/main.py`, `app/report/worker.py`,
`admin_regenerate` in `app/routes/admin.py`,
`scripts/recover_stale_reports.py`, `scripts/retry_failed_reports.py`. State:
`reports.status` per version, jobs in the ARQ queue, the sections of a run, the
sums of `llm_runs`. Hard: row and job are written separately, jobs are delivered
again after a death and lost after a timeout, four parties enqueue, sections are
written concurrently under a budget that is read before and charged after.
Correct: repeated clicks make one job, a queued row is attended to, finished
reports stay finished, a report without content is never `done`, the daily
ceiling is passed by what is under way at most, every report ends.

**Paid chat** — `_chat_guarded_context`, `api_chat`, `api_chat_stream` in
`app/main.py`, the daily quota in Redis in `app/security.py`,
`app/chat/service.py`, `app/chat/retrieval.py`, the streams of `app/core/llm.py`,
`consume` in `app/entitlements.py`. State: the day's counter, the stored history,
`entitlements.used`. Hard: overlapping requests, midnight inside a request, Redis
that comes and goes, streams that break off or go on with another provider,
turns that are stored while others run. Correct: the quota is kept, claims are
given back once, units are taken for answers; a stored answer is all that one
provider said, and the model is shown answers with their questions.

**Retrieval over reports** — `app/rag.py`, called by the worker, by hand and by the
chat. State: `report_chunks`. Operations: index, search, retention. Hard: whether a
report is indexed is asked a minute before it is written, in a thread that outlives
its time limit; windows overlap by going back. Correct: chunks are of a report that
was done, are pieces of the text that was read, and hold it without a hole.

**Explorations** — `api_explore_start`, `api_explore_delete` in `app/main.py`,
`app/explore/service.py`. State: the exploration row, the one free exploration
of a user, the ledger. Hard: the freebie is checked on a row read earlier,
cleanups that fail, readers who leave. Correct: a result was paid or free, one is
free, no result means the payment is back.

**Paid transit analysis** — `api_chart_forecast_analyze` in `app/main.py`,
`app/astrology/transit_cache.py`, `app/report/transit_narrative.py`. State: the
cached narratives, the monthly charge, gold units. Hard: requests share a
monthly key, units are seen and consumed in different steps, partial refunds.
Correct: what is stored was charged or took a unit.

**Entitlements and purchases** — `app/entitlements.py`, `api_purchase` and the
solar-return and relocation handlers in `app/main.py`. State: rows of
`entitlements` with kind, chart and `ref_id`, the reports they are bound to, the
credits. Operations: purchase, re-purchase, upgrade, click, the gates. Hard: the
charge, the report and the binding are separate commits; two requests look for
the same report. Correct: what was bought is bound to a report of its chart and
tier, and can be read.

**Subscriptions** — `activate_subscription`, `grant_subscription_credits`,
`cancel_subscription` in `app/payment/orders.py`, the refund in
`app/routes/admin.py`. State: the row of `subscriptions`, its grants in the
ledger. Hard: the expiry is extended by load and write, the grant is guarded by
the Tehran month and keyed by the UTC month. Correct: no more time than was paid
for, one grant per month.

**Pages and access** — `_owns_chart`, `_report_gate`, `_owns_order`, the lists
and downloads of `app/main.py`. State: owners of charts, cookies, links, orders,
entitlements. Hard: a guest becomes a user, links survive, lists are cut off.
Correct: what a reader made or paid for as a guest is theirs once they sign in,
and nobody else's.

**Ownership of charts** — `api_create_chart`, `claim_anonymous_charts`,
`auth_otp_verify`, `auth_logout`. State: `birth_profiles.user_id`, the cookies
`chart_access` and `chart_user`. Hard: every response writes the whole cookie,
tabs overlap, two accounts claim one chart. Correct: charts follow their maker.

**LLM providers** — `app/core/llm.py`. State: key slots with error streaks and
cool-downs, circuit breakers, health, cost sums. Hard: shared between coroutines;
late answers of calls begun before a cool-down. Correct: `in_flight` is the number
of calls a key has, a cooled-down key comes back by time only.

**One-time passwords and sessions** — `app/auth.py`. State: the code, its
attempts and TTL and the request window in Redis. Hard: every command is atomic,
no handler is. Correct: a bounded number of guesses, one account.

**Bots** — `app/bots/*`, `_dedupe_update` and the webhooks in `app/main.py`.
State: the conversation row, claims in Redis and in a set of each process. Hard:
redelivered updates, Redis away, a stale row written back. Correct: the dialogue
has what its state says, an update is handled a bounded number of times.

**Audio version** — `api_report_audio_request`, `generate_report_audio`. State:
`audio_status`, the charge, the queue. Correct: "generating" has a job.

**Account deletion** — `account_delete`. State: rows of many tables, objects in
R2, jobs that upload meanwhile. Correct: no object survives its account; the
deletion can commit.

**Content** — `app/routes/cms_admin.py`. State: an article, its revisions. Hard:
overlapping edits. Correct: a text once saved is kept somewhere.

**Notifications and digests** — `app/report/weekly.py`,
`app/report/transit_alerts.py`. State: log tables. Hard: runs that overlap or die
between message and row. Correct: one message of a kind per chart and week.

**Settings and flags** — `app/secret_store.py`, `app/feature_flags.py`. State: a
row, a cache in each process. Correct: who saved or restarted uses what is stored.

**Today, preview and reflections** — `app/today/*`, `app/report/preview.py`.
State: Redis caches, the diary. Hard: overlapping loads around a slow call,
outages. Correct: the day's sentence is of the day, a settled answer stays, a
streak counts the days.

**Astrology engine** — `app/astrology/*`, `app/report/solar.py`,
`app/report/relocation.py`. No state; geometry modulo 360 with sampled motion.
Hard: the seam at zero, crossings between samples, retrograde loops, cusps in any
order. Correct: what is reported is what the sky does.

**Report text pipeline** — `app/report/rules.py`, `prompt_builder.py`, `qa.py`,
`claim_validation.py`, `transit_narrative.py`, `app/explore/service.py`. Hard:
prompts and gates are written apart. Correct: nothing refutable reaches a reader,
and what a prompt asks for passes its gate.

**Backups and restores** — `scripts/backup_db.py`, `restore_db.sh`, the drills.
State: archives on the disk and in the bucket. Hard: retention goes on while the
database or the uploads are broken. Correct: a good archive stays.

**Price list** — `seed_plans`, `seed_credit_prices` in `app/db.py`, `lifespan` in
`app/main.py`, the plan and price forms in `app/routes/admin.py`. State: the rows of
`plans` and `credit_prices`, the coupon of the launch. Hard: every worker seeds while
it starts, from rows it read before others inserted or edited them. Correct: an
edited price survives, a retired plan stays retired, a worker that serves has the
whole catalogue.

**Rate limits** — `check_rate_limit` in `app/security.py`. State: a counter with an
expiry in Redis for each window, a deque in each process. Hard: the clock is read
before Redis is asked, and any command may be the last. Correct: no more calls than
allowed, and in production none that Redis did not count.

**Schema and migrations** — `alembic/versions`, `alembic/env.py`, `app/models.py`,
`scripts/migrate_entitlements.py`. State: the schema, the position in the chain of 37
revisions, and the rows that three of them delete, link or insert. Hard: new
databases, the drifted one of production, rollbacks, `create_all` in between.
Correct: every history ends with what the models declare, and no row that is bought
is lost or granted twice.

Not modelled, in section 7: the **escrow of a guest's credits**, and parts of the
components above.

How they interact, in the modules' terms:

```
  gateway -- Orders --grant--> Credits <--spend/refund-- Forecast, Explore
                |                 |  \
                |                 |   +-- Purchases, Subscriptions, Audio (their charge is one step)
                +--reward--> Wallet --+-- CreditAccount (what both promise)
                +--enqueue-> Reports --run--> Sections --call--> LLM, TextGate
                              +--index--> Memory --search--> Answers (the turns of a chat)
  browser -- Owners, Login --> Access (who sees what)      Bots, Digests, Today (its readers)
  Redis   -- Limits, Chat --consume--> units of a pack     Zodiac (what all of them read)
  admin   -- Content, Settings, Catalog, Deletion, Backups, Migrations
```

## 2. Plan

Built in this order, the money first; every module is checked by a run and has
theorems.

| module | models | composes | proofs in |
|--------|--------|----------|-----------|
| `CreditAccount` | abstract: postings take effect once, atomically, without overdraft | – | – |
| `Credits` | the ledger | implements `CreditAccount` | `CreditsProofs` |
| `Forecast` | transit analysis | drives `Credits` | `ForecastProofs` |
| `Orders` | order, coupon, gateway | – | `OrdersProofs` |
| `Reports` | queue and worker | – | `ReportsProofs` |
| `Wallet` | wallet and referrals | implements `CreditAccount` | `ServicesProofs` |
| `Chat` | quota and pack | – | `RecordsProofs` |
| `Explore` | explorations | drives `Credits` | `ActorsProofs` |
| `Sections`, `Bots` | the sections of a report; the dialogue of a bot | – | `ActorsProofs` |
| `Catalog`, `Limits` | the price list; the rate limits | – | `ActorsProofs` |
| `Purchases`, `Subscriptions` | what credits buy; time and grants | – | `ServicesProofs` |
| `LLM`, `Login`, `Audio`, `Deletion`, `Content`, `Digests`, `Settings`, `Access` | one service each | – | `ServicesProofs` |
| `Owners`, `Today`, `Backups`, `Zodiac` | one service each | – | `RecordsProofs` |
| `TextGate` | prompts and gates | – | `RecordsProofs` |
| `Answers`, `Memory` | the turns of a conversation; the chunks of a report | – | `RecordsProofs` |
| `Migrations` | the revisions of the database | – | `RecordsProofs` |
| `MCForecast`, `MCOrders`, `MCReports`, `MCWallet` | instances of one component | | |
| `MCServices`, `MCActors`, `MCRecords` | instances of services that share no state, side by side | run their services | `ServicesProofs`, `ActorsProofs`, `RecordsProofs` |

`SumProofs` has the lemmas about sums over finite sets that `ServicesProofs` and
`ActorsProofs` share. What is left: the escrow of a guest's credits and the
administrators' pages.

## 3. Modules and code

Definitions carry the names of the functions they model where TLA+ allows it;
`PROJECT.json` maps each to its lines. An action whose comment begins with
"A fault:" is not part of any specification: it is what the code would do with a
plausible mistake in it, and shows that a property can fail. Properties come in
the last section of each module; those that no run checks are promises of a
docstring that the code does not keep (section 6) or lemmas on the way to a
theorem.

### `CreditAccount`
A balance per user and a set of postings, each applied at most once, atomically,
and never below zero. Its text is the promise of the docstring of
`app/credits.py`; `Credits` and `Wallet` refine it.

### `Credits`
`Ops` are spend and grant calls named by their idempotency key; the pair
`<<k, a>>` is the key `refund:{id}:{a}` of a refund of `a` credits, so that two
refunds of the same size collide as in the code. `txn[t]` is the call session `t`
is in the middle of: `Begin...` is the look at the key (and the SUM of the
refunds so far), the second step is UPDATE + INSERT + COMMIT, which succeeds, is
refused by `credits >= c`, or meets the unique index and rolls back as a whole.
`Abandon` is the caller's rollback or death. Amounts are bounded by `MaxAmount`.
`RefundedSoFar` counts rows whose reason is `refund` only, as the SELECT does.

### `Forecast` (on `Credits`)
`Open` (cache, gold, monthly key), `Charged`/`NotCharged`, `Narrate(t, f)` where
`f` of `Narrated` events failed their gate, and the refund of their share.
The code narrates 5 or 12 events; the instances use 3 and 5, which keep the three
cases of the rounding apart: no refund, a share, everything. `Outdated` is the
change of the cache's day or engine version.

### `Orders`
`task[s]` is the program counter of session `s`, `seen[s]` the coupon counts it
has loaded, `gate[o]` the payment at the gateway, an environment in which the
buyer pays or cancels, and unverified payments are reversed. `Claim` is the
guarded `pending -> verifying`; `VerifyTimeout` covers every exception after
which the code re-opens the order, `GatewayUnreadable` the replies that are not
JSON, which `zarinpal.py:75-85` turns into a refusal. An ORM write of a value
equal to the loaded one is modelled as a write. Wallet checkouts run inside one
request and never outlive the 30-minute window, so the sweep does not meet them;
NOK callbacks come only for payments that were cancelled at the gateway. Modelled
are orders of credit packs by a logged-in buyer: subscriptions have a module of
their own, the report that a paid order enqueues and the escrow of guests are not
modelled here.

### `Reports`
Versions of one chart's report, `jobs[r]` the ARQ queue, `slot[w]` a worker,
`task[s]` a web session, admin or script. `made` is what the sections became:
all real (`"none"` failed), some or all fallback. Whether an upload failed is not
kept: the verdict of `worker.py:427` overwrites the status it set. ARQ is external:
a job whose worker died is delivered again, one that was cut at `job_timeout` is
not. `deaths` counts both workers and the processes of requests and scripts
(`ProcessDies`). `BuyNew` is the purchase's SELECT and INSERT, which unlike the click
takes no advisory lock. Scripts enqueue first and commit afterwards, as written.

### `Sections`
Inside one run of a job: `run[j]` and, per section, what its coroutine waits for
and how many calls it made, at most `Conc` at a time. `cost[p]` is the sum of
`llm_runs` that the cap of a report and the ceiling of a day are compared with.
When one coroutine raises, `asyncio.gather` lets the others go on: the run is
`orphaned`. A run cut at its timeout is `lost`. One day, one budget, a call costs
at most one unit of it.

### `Wallet`
Balance, withdrawal requests, orders, referral events. `Overlapping` is the set
of orders whose reward reads the referrer's balance in one step and writes it in
another with anything in between; the rewards of the others run undisturbed
(`RewardAlone`). A user is `Calm` if no overlapping reward is theirs.

### `Chat`
One account with one pack and one chart. A request finds the pack or the plan
(`Admit`), claims a slot (`Claim`: INCR and the comparison), is answered, and takes a
unit of the pack it found at the end (`Consume`): the handlers run in threads of
several processes, so the pack may be used up anywhere in between. `Release` is DECR
of *today's* key, as the code computes it. Faults of Redis, midnight, interrupted
streams and deaths can always happen. Three history variables count what the
properties allow for: `strays` (releases of a slot not claimed on that day),
`placeholders` and `lost`.

### `Explore` (on `Credits`)
`req[t]` is where the handler is: paying, freeing, running, undoing, closing.
`again` says whether it is in the handler of the exception, which runs the same
cleanup from its start. `Hiccup` is a database failure before a write of the
cleanup; `Disconnect` the cancellation of the stream at its await (Starlette
raises CancelledError, which `except Exception` does not catch). A row is deleted
when the history lists it, which it does not before the start is over. History:
`strays` counts freebies marked although used, or restored again; `cut` the
explorations whose request broke off.

### `Answers`
The turns of one conversation on the stream. `Begin` reads the committed rows and
cuts them to the prompt; `StreamLine`, `Ends` and `Fails` are what a provider sends to
`chat_stream`, by number of pieces: a chunk is the text so far, the last one the whole
text again, and a provider that breaks off is followed by the next of `Route`, which
begins anew. `Deliver` is the frame `done`, after which `MakeRows` gives question and
answer their time and `CommitRows` makes them visible; a reader may leave at every
yield. Who may ask, and what it costs, is in `Chat`.

### `Memory`
`book[b]` is a report (`"open"`, `"done"`, `"gone"`), `work[k]` a run of `index_report`.
A text is a sequence of sections, each a length and the places of its spaces; `Cut`
is one step of the loop of `chunk_report_text` (`End`: the last space in the second
half of a window; `Resume`: back by the overlap, which at the end of a section stays
at the end until there are `MaxChunks`). `Write` is the one transaction, `SkipIndex`
an exception or a death. `RunBook` is the job that writes a finished report again.
The embeddings are the choice of which chunks are nearest (`Search`).

### `Purchases`
A user with a purse and charts. `buyer[s]` runs `api_purchase`: look, charge and
grant (`grant_from_credits` is one transaction with the unique key
`purchase:{user}:{action}:{chart}`), look for the newest report, create or reuse
it, bind `ref_id`; or a click of `api_create_report`. Reports may fail and be
regenerated at any time. `Has` and `MayRead` are the gates.

### `Subscriptions`
The row of one chart's subscription, `settling[o]` for each order: the read of the
row, the write of its expiry, the read and the insert of the monthly grant. Time
is in ticks, two to a month, so that a month begins in Tehran a tick before UTC.
`straddled` are months for which a settlement took its time from one to the next.

### `Access`
Every handler is one step here: making and claiming a chart, sending a link,
paying in rial or credits, a report that becomes ready, a talk. What is modelled
in detail are the queries: which charts, reports, orders and chats each page lists
(`/account`, `/reports` with its cut at `Shelf`, `/orders`, `/chats`,
`/subscriptions`, `/today` with its cut at `Recent`), and which gates open.

### `Owners`
Creations, claims, logins and logouts of the tabs of a browser. A request carries
the cookies it was sent with and its response writes all of `chart_access`.
`answered` are the charts whose response met nothing else of the browser,
`contested` those that two claims had both read as unowned.

### `LLM`
The router of a section. Calls are coroutines of one process, so an action is what
a call does from one answer to its next request: gateway, pool (least busy key
under the cap, with its error streak and cool-down), free tier. `health` of the
gateway and of the free tier has its own circuit.

### `Login`
The keys of one phone number and the visitors at it. Each Redis command is a step:
INCR and EXPIRE of the window, DEL, HSET and EXPIRE of the code, HGETALL, HSET of
the attempts, DEL at success. A code or window may lose its TTL with a process.

### `Bots`
One chat. `DeliverUpdate` is the look at Redis (which may be away) and at the set of the
process, `step[p]` a handler that has read the row and will write it. `torn` says
that a stale row was written over a newer one.

### `Audio`
The request reads the status, pays, queues, and then always answers that it failed
(see section 6); the worker writes status and key. `cutOff`: a job was cut at its
timeout.

### `Deletion`
The handler reads the reports, deletes their objects one call at a time, and
commits or is refused by a foreign key; jobs of the worker write rows and objects
meanwhile. Kinds of rows are told apart by how they hang on the account.

### `Content`
An article of two columns: a request reads it, awaits its body, and writes the
columns that differ from what it read, the version after the one it read, and a
revision of what it read.

### `Digests`
Two kinds of runs over the subscriptions: the reflection writes its row and then
sends, the alert sends and then writes.

### `Settings`
The row, the cache of each process, and threads that read and fill, or save and
empty, in two steps.

### `Today`
The preview and the sentence of the day: a load looks into Redis, asks, and
stores; the diary and its streak; the days.

### `Backups`
A run dumps, checks (`CheckSanity` asks the database, not the dump, and later),
encrypts, uploads, prunes both places; a restore drops and brings back tables one
by one; accidents empty the database. A drill accepts what has plans.

### `Catalog`
`starter[w]` is where a worker is in `lifespan` and the rows its transaction has read;
`Seed` is its commit: inserts, which fail when another worker has inserted, and the
columns that differ from what was read. `SeedLegacy` is the list in `main.py`, which
sells everything and only adds what is missing. `SetCost` and `SwitchPlan` are the
administrator's forms. `Ungated` is the product the page shows by other means.

### `Limits`
One key. `Request` takes the window from the clock, `Count` is INCR with EXPIRE for
the first call, `CountLost` a Redis that counted and went away, perhaps before
EXPIRE. `backend` says whether Redis is mandatory; `CountAlone` is the deque of a
process, `log[p]` from `head[p]` on, of which `Front` drops what is too old. `Tick`
lets no call take longer than the timeout of its socket.

### `Migrations`
A schema is a set of facts: tables, and the columns, indexes and constraints that
more than one revision, or a drift, is about. A revision is a record of what it
creates, drops, ensures, clears, or provides a missing table with, once for upgrade
and once for downgrade (`Adds` for those that only add); `Chain` is their order, read
from `down_revision`. `Upgrade` and `Downgrade` are one revision in its transaction,
`CreateAll` the boot with `CREATE_ALL_ON_BOOT`. The rows that revisions move are
records of one such step (`subs`, `links`), the orders and entitlements last
(`sold`, `granted`), since the script can be run at any time. `Declared` is what
`app/models.py` and `app/models_cms.py` say.

### `Zodiac`
Longitudes modulo `Circle`. A body moves by up to `Pace` per daily sample in
either direction; the forecast's sign-change test, the retrograde grouping, the
stays of `upcoming_transits`, the house of a longitude three ways, the Moon's
signs of a day without a time, and the search for a solar return. The ephemeris
is outside, as is the refinement of a date inside its day.

### `TextGate`
A draft is its shape, its insights with words and evidence, where a forbidden
phrase stands, and what it claims about signs. `Obedient` is what the prompts ask
for; `Passes` what the gates let through; `Judge` one attempt of the generator. The
word counts and shapes of `Drafts` are the thresholds of the gates and their
neighbours.

## 4. Runs

Every passing run explores its instance completely. Deadlock is not checked: in
each of them every order, key, question or exploration may be used up, and then
nothing is left to do.

| run | question and result | instance |
|-----|---------------------|----------|
| `forecast_core` | Was every stored analysis paid for, with gold, expiry and crashes; do ledger and balance agree; does the ledger implement `CreditAccount`? Yes. | 2 requests, 2 charts (one golden), 3 monthly keys, 3 events an analysis |
| `forecast_cap` | *violation*: can partial refunds exceed the price? Yes: their reason is not `refund`, so the SUM misses them. | 1 request, 5 events |
| `orders_race` | Coupon limit, status against money, delivery against payment, under races, lost answers, sweep and crashes: slots, and one property of money and goods. They hold. | 2 orders, 1 coupon slot, 2 request sessions, admin, sweep, 2 NOKs |
| `orders_serial` | Are slots counted exactly, refund effects single, and do claims and refunds end, if writers do not overlap and no process dies? Yes. | 1 session, 2 orders, 2 slots |
| `orders_sweep` | *violation*: does every order that holds a slot stay counted? No: each sweep gives the slots of all failed orders back again. | 2 orders, 2 slots, sweep |
| `reports_users` | Are clicks idempotent and queued rows attended (one property), finished reports kept, and does every report end? Yes; kept, unless a worker died over one. | 3 users, 2 versions, 2 workers, 2 deaths, 2 jobs |
| `reports_all` | Can a report without content become `done` when all parties act? No. | 2 versions, 2 workers, one session that is in turn user, buyer, admin and script; a death, a timeout, lost answers |
| `wallet_lost` | *violation*: is every cash-out covered? No: an overlapping reward erases a debit. | 2 users who refer each other, 4 orders, 3 cash-outs |
| `services` | Thirteen properties of eleven services, one at a time. They hold. | below |
| `actors` | Explorations, bots, sections of reports, price list and rate limits: what is given was paid, what was taken is served, the dialogue has what it needs, budget and verdict, prices and retirements survive, limits hold. They hold. | below |
| `records` | Quota and pack of the chat, its turns, what it remembers of a report, charts of overlapping tabs, free layer, sky, gates of texts, backups, the revisions of the database. They hold. | below |
| `deletion_pack` | *violation*: can a deletion that nothing disturbs commit? No: an order of a credit pack (and a daily reflection) still refers to the account. | 2 reports, 2 tries |

**Side by side.** The services of `MCServices`, `MCActors` and `MCRecords` share no
variable. The initial state picks one (`running`), all others keep their first
state, so the run is the union of the single instances and not their product.
`SkyIsReadRight` and `GatesAreFair` are the formulas `SkyReadRight` and
`GateIsFair`, asked where their service runs, because they look at a whole circle
or at all drafts in each state. `WalletImplementsAccount` asks a step of the wallet
to be one of `CreditAccount` where the wallet runs.

| service | instance |
|---------|----------|
| wallet | 2 users who refer each other, 4 orders (one of a guest without a code, one refundable), 3 cash-outs, rewards of two orders overlapping |
| purchases | 2 charts, 3 actions, purse 3 of which a gold report takes 2, 2 buyers, 3 reports |
| subscriptions | a monthly and a yearly order, 4 ticks (two months) |
| access | 2 people, 2 charts, 3 plans, 1 report, 2 deals, 1 link, lists of one entry |
| llm | 2 calls at a time, 3 calls, 2 keys, 3 providers, threshold 2, 1 call in flight per key |
| login | 2 visitors, 2 codes, 3 attempts, one request per window |
| audio | 2 listeners, 2 worker slots, 2 jobs |
| deletion | 2 reports, a deletion that is tried once, with jobs at work |
| content | 2 editors, 3 versions, 2 columns of 2 values |
| digests | 2 runs, 3 subscriptions of 2 charts of one reader |
| settings | 2 processes, 3 threads (two in one process), 2 values |
| explore | 3 explorations, 2 processes, 1 bought credit |
| bots | 2 processes, 3 updates, 4 deliveries, 1 lapse; the dialogue begins or is at the city |
| sections | 3 runs of 2 reports, 2 sections, 2 slots, one attempt, budget 1, cap 3 |
| chat | 3 requests at a time, 4 questions, 2 days, limit 2, 1 unit, a plan |
| owners | 1 browser, 2 tabs, 2 accounts, 3 charts, a cookie for 2 |
| today | 2 loads at a time, 4 days |
| zodiac | a circle of 48, angles 0, 8, 12, 16, 24 (the five major aspects), pace 2, 4 samples, 4 lists of cusps |
| text | 5 kinds of texts, 2 bodies and the angles, 2 attempts, right and wrong evidence |
| backups | 2 runs at a time, 3 dumps, 3 days, retention 0 and 1 |
| catalog | 2 workers, a pack, a retired plan and a credit price, each new or of an earlier release, 2 prices |
| limits | 2 processes, one call in a window of 2, times 0 to 3, timeout and grace 1, all three backends |
| answers | 3 turns, a gateway that cannot stream and then a pool, answers of at most 1 piece, 3 rows loaded, a window of 2 |
| memory | 2 runs of the index, 1 report, 2 texts (short, long, empty sections, with and without a space), windows of 4 that overlap by 1, at most 4 chunks, 1 found |
| migrations | the whole chain; a new database, and old ones with no drift, all drift of the old `create_all`, all that is aligned, and each of these but for one fact; 3 subscriptions with 3 expiries, 2 orders, 2 reports |

Bounds. Two sessions are the least that race and, since every handler's critical
pieces are a read and a write, the pairs of them are all there; the third request
of the chat and the third user of the reports add the queue behind a race. Two
orders, versions or explorations of one owner compete for one slot, job or
freebie; a third exploration is what a freebie that was reopened in error is spent
on. Amounts are chosen so that a balance covers either of two operations but not
both. `MaxAsked`, `MaxNok`, `MaxReports`, `MaxDeaths`, `MaxTimeouts`, `MaxJobs`,
`MaxRetries`, `MaxCalls`, `MaxCodes`, `MaxAudioJobs`, `MaxVersion`, `MaxDeliveries`,
`MaxLapses`, `MaxPapers`, `MaxDeals`, `MaxLinks`, `MaxDumps`, `MaxPieces`,
`MaxCounted`, `LastDay`, `LastDate`, `LastTick`, `LastTime`, `LastSample`, `FinalDay`
and the two `StartStages` of the bots bound counters in guards or starts; `MaxChunks`,
`Allowance`, `HistoryRows` and `HistoryWindow` are limits of the code, made small. A
database with tables of `create_all` is not rolled back. A section of seven characters
with windows of four is cut into three, and the third turn is shown what the first
and second stored in either order. The circle of 48 has room for an orb around each of
the five aspects and for four unequal houses; the proofs of section 5 are for 360
as well. Larger instances that were run and held: two reports in `access`
(320,879 states), `deletion` with two tries. Symmetry is used only in runs without
liveness; in `records` the requests and turns of the chat and the charts are
interchangeable, since none of these services tells their members apart.

Fairness. `Orders!FairSpec` assumes that a request that runs gets its next step
(thread pool, 15 s timeout at the gateway) and nothing of buyers, gateway or the
next request. `Reports!FairSpec` assumes the same of web sessions and of a worker
that has a job, and strong fairness of the pick-up of a queued job, since workers
poll in turn and a slot is free again and again. Neither assumes that cron or a
person intervenes. With a process that may die, `VerifyingEnds` is false (see
below); `ReportsEnd` is checked with worker deaths, since ARQ delivers again, but
without timeouts and deaths of web processes, which need the scripts.

## 5. Proofs

TLAPS proves what follows for all values of the constants that satisfy the named
assumptions of the modules (finite sets where a cardinality is taken, natural
bounds; TLC evaluates them in every run). Every safety and action property of the
passing runs has a theorem, but for the exceptions at the end. Hypotheses beyond
the assumptions are part of a theorem's statement and are given here.

**`CreditsProofs`**: `TypeCorrect` (no negative balance), `KeysBookedOnce`,
`CreditsImplementAccount`, `LedgerBalanced`. The inductive invariant is the type
plus `TxnOK`: a session in a call holds a key of the kind of that call. The
refinement maps a write step to the posting of its key and every other step to a
stutter. `LedgerMatchesBalance` sums over the booked keys with a function defined by
recursion over finite subsets. That such a function exists is carried through the
steps (`Summed`); that there is only one is shown by well-founded strict inclusion
(`SumsUnique`), which needs `IsFiniteSet(Ops)`.

**`ForecastProofs`**: `DeliveredPaid` from `ForecastInv` = the ledger's invariant
/\ `Behind(t)`, what is booked when request `t` is at a step /\ no more gold taken
than sold. `ForecastUsesLedger`: every step of a handler is a step of `Credits` or
leaves the ledger alone, so `ForecastSpec => Spec` of `Credits`, and the ledger's
theorems hold of it (`ForecastImplementsAccount`, `ForecastLedgerBalanced`).

**`OrdersProofs`**: the invariants of `orders_race` (`LimitKept`, and
`MoneyAndGoodsMatch`: no order is paid, or has its credits, without money, what is
shown as refunded was returned, what is paid was delivered) by `IInv` = types /\ the slot
limit, also for the *loaded* counts (a stale write must stay below the limit) /\
`Core`: claims hold their order in `verifying`, two sessions at a claim or refund
are about different orders or different phases, and the answers sessions carry are
true of the gateway. Without these the properties are not inductive: `paid` says
nothing about the session that is about to write it. `OrdersExact` assumes
`OneAtATime` (one session, no sweep, no crash, one cancellation per order: the
instance of `orders_serial`, with any number of orders and coupons); `SerialInv` adds
what the one request knows of its order and that an order in a final state has had
its effects once.

**`ReportsProofs`**: types, `DoneReportHasContent` for all parties;
`ClicksAreSeenTo` (one report and one job per chart, a queued row is seen to) where only
users order and no process of theirs dies (`UsersOnly`); `FinishedReportsStay` where
readers only click (`ClicksOnly`; any number of clickers, workers, deaths and
timeouts): for each report at most one of its job, its slot and its request exists,
and none once it is finished.

**`ActorsProofs`**. *Explorations* (`CreditsAreServed`): `EInv` (types, what is booked at
each step of a handler) /\ `Freebies` (who holds the freebie). *Bots*: the handlings of an update
are at most its claim, the processes that remember it, and the lapses; a row fits
its state unless a stale one was written. *Sections*: a run is admitted while
`Spent < Budget`, each answer moves one unit from what may be awaited to what was
spent, and what may be awaited is bounded by slots, sections and attempts; sums
over runs and sections are by the lemmas on sums. *Price list* (`CatalogIsKept`,
`CatalogInv`): a row that was read or seeded stays, and costs what was asked for it
last; a retired plan is on sale only where it was switched since a worker began, or
where that worker has still to write it, from a row it saw on sale; likewise a price.
*Rate limits* (`LimitsAreHeld`, `LimitsInv`): until the end of a window and its grace a
counter is at least what it admitted and does not expire, and by then no call of that
window is under way, because the timeout is no longer than the grace; what has left a
deque is too old for good.

**`ServicesProofs`**. *Wallet*: `OnePendingCorrect`,
`OnlyRefundsRepeatBonus` and `WalletIsAnAccount` from one invariant: rewards follow a
payment that may have been refunded since, only overlapping rewards read ahead, the
orders of pending sessions were placed. Of two orders that brought a buyer the credit
of a first order one was refunded, since each saw no other paid one;
`BonusIsFair` follows where an order that may be refunded is the only one of its buyer
(`RefundsStandAlone`: after a refund the next order is "first" again).
Its second half is that of two orders that refer each other one at most
passed the ancestry walk: the walk is a function along the parents, for which an
explicit witness is given, and a least counterexample on its length. It assumes
`OneReferrer`, that a buyer has used the codes of one referrer: the code's walk
takes any one parent, so with several a cycle may be missed.
*Settings*, *Audio*, *Content*: their properties with types
and what a request holds. *Deletion*: `KeysInRows`, `JobsAreBusy`, `LeftToDelete`: an
object that a row named is in the list, deleted, or belongs to a job at work.
*Digests*: a chart without excuse is at one run, and has a row from there on.
*LLM*: `in_flight` equals the number of waiting calls, step by step of that
cardinality. *Login*: a potential: the guesses compared, plus those that the
counts written or about to be written still leave room for, never grow beyond
`L(L+3)/2`; for two overlapping visitors (`Visitors = {v, w}`). *Access*:
charts are made once; a cookie's chart belongs to its browser's reader or to
nobody, and to the reader once they are signed in; the lists are then queries over
those, with an injection to count the charts made after one. *Purchases*: `BoundRight` (a bound report has chart and tier of the
product), `Served` (charged iff granted; a charged report is found or being looked
for), `Bindings` (a chart that has a report has one bound, one about to be bound, or
a death); the newest report exists by the least upper bound.
Its types need what only `Served` tells: that whoever works on a report bought one
of three tiers. *Subscriptions*: `ReadingsArePaid` (an expiry that was read is covered
by what was paid) and `ThisMonthIsKnown` (a settlement that is about to grant knows of
the grant of its month).

**`RecordsProofs`**. *Chat* (`ChatIsCovered`): the quota from `QInv`: holders
and answers of a day together stay within limit and strays; the pack from
`PackInv`: while there are units, every answer has taken one, is about to, or died;
once they are gone, nobody is admitted by the pack and those who still ask are the
overrun that is left. *Owners*: an entry answered alone is in the jar iff it is in
the copy of every request that is out; a claim covers what its request held.
*Today*: a streak is a recursive function; it exists because there is a last day
missed, and is unique; settled means that the preview is the permanent answer and
nobody asks. *Backups*: without a restore (`~torn`) the database cannot come back
from an accident, so a checked dump is live; a run that prunes has stored an archive
of the same day. *Sky*: `SkyInv` says
that the notes taken so far are those of the days read. `_norm180` and
`_angular_gap` give the representative around zero; a sign change with a small
distance is a passage, because `Pace + Gate <= Circle / 2` rules out the flip on the
far side, and every passage shows, because `Pace < 2 * Gate`; a house is the cusp
nearest behind, which is the arc of the list because cusps are distinct and in
order (`CuspsInOrder`, which TLC evaluates); in the days searched there is one
return of the Sun. *Texts* (`GatesAreFairAlways`): a shown text is a draft that
passed its gate (`TextInv`), factors of a prompt are points of the chart, and an
obedient draft is followed through each gate; the sum of its words is a recursive
function, for which the value at two insights is given by a witness. *Turns*
(`AnswersStayWhole`, `AnswersInv`): the rows of a turn stand next to each other,
question first, a turn has two or none, and both are committed or neither, so the
rows that are visible are pairs, and so are the last `n` of them for even `n`. What is
replayed is a selection of a sequence, given by a recursive function that exists for
every length, since a least length without one would have an extension (`PickedFrom`).
*Memory* (`ReportsAreRemembered`, `MemoryInv`): at each step of the loop everything
before the next window is in a window made before; a window moves on because
`2 * Overlap <= Size` and a space is taken in its second half only, so the next one
begins inside what is covered. The runs that have written chunks of a report and those
that still may are together no more than the indexers. *Revisions* (`MigrationsAreKept`, from
`MigrationsInv` = types /\ `RowsMoved`, and `SchemaInv`). Of the schema: at
every revision there is what the database has for sure (`Sure(r)`) and what it may
have besides (`Loose(r, h)`: the drift of a database older than the revisions, what a
rollback restores, what `create_all` adds), and the schema lies between the two, unless
`create_all` came so early that a later revision finds what it wants to create
(`Stuck`, which nothing ends: such a database is not rolled back). For each of the 37
revisions, up and down, `Fits` says that it applies to anything in these bounds, and
`Leads` that it leads from them to the next ones; a drop of a table takes with it what
hangs on the table (`Rooted`). At the last revision nothing is loose and what is sure is what the models declare
(`AtTheEnd`). Of the rows: the row with the highest id is never deleted, so it is the one
that stays where the unique index has accepted the rest; of the rows with the greatest
expiry the last is not deleted either, so it is that row. An order has as many
entitlements as rollbacks left it, at most one.

The same three modules conclude with the runs themselves. A step of `MCServices`,
`MCActors` or `MCRecords` is a step of the service that runs and leaves the variables of
the others alone, so its specification implies the specification of each service
(`ServicesAreParts`, `ActorsAreParts`, `RecordsAreParts`), and what is proved of one
holds in the run. From there `ServiceTypesCorrect`, `ActorTypesCorrect`,
`RecordTypesCorrect`, `WalletOfServices`, `SkyOfRecords` and `GatesOfRecords` are the
properties of the runs as the runs state them, and `ServicesAreSound`,
`ActorsAreSound` and `RecordsAreSound` say in one statement each that everything the
run checks holds for every value of its constants. `ServicesAreSound` names its three
conditions, which the instance of the run meets: `RefundsStandAlone`, `OneReferrer`
with at least one hop of the walk, and two visitors.

Only model-checked, and why:
* `OrdersSettle`, `ReportsEnd`: liveness under fairness, which needs ENABLED.
* Outside `OneAtATime`, `UsersOnly`, `ClicksOnly`, `RefundsStandAlone`, `OneReferrer`
  and two visitors:
  the properties fail there, as section 6 says, or are not stated (for `n` visitors
  the bound would be a binomial).

## 6. What disagrees with the code's own words

Shown by a run: `forecast_cap`, `orders_sweep`, `wallet_lost`, `deletion_pack` (see
`PROJECT.json`, findings). Met while modelling and part of the modules, so that the
properties above are stated around them:

**Orders.**
* `main.py:1542`: a repeated NOK callback releases its coupon slot again.
* `main.py:1334`: `used_count -= 1` on a loaded row erases a reservation made in
  between; the limit still holds, the count does not.
* `routes/admin.py:125`: the failing call of one admin overwrites the `refunded`
  of another, and the side effects can run again.
* `zarinpal.py:84`: an unreadable answer counts as a refusal, so an order can fail
  whose payment went through; `orders.py:305`: the sweep closes a re-opened order
  whose payment was confirmed.
* `main.py:1453`: a process that dies after the claim leaves the order in
  `verifying`; nothing looks at it again.

**Transit analysis.** `main.py:2917`: the loser of the last gold unit is narrated
without a charge; `main.py:2982`: shares of one monthly charge can add up to all of
it although narratives are stored.

**Reports.**
* `main.py:796`: `?regenerate=1` does not look at a queued or running report;
  `main.py:1157`: two purchases create two reports; `routes/admin.py:184`: an admin
  queues a report that runs; `main.py:1167`: a death between commit and enqueue
  leaves a queued report without a job; `recover_stale_reports.py:76`: the script
  can set a finished report back to queued. A report whose job was cut at
  `job_timeout` stays `running` until the recovery script finds it.
* `worker.py:427`: the verdict replaces the `degraded` of a failed upload;
  `worker.py:255`: at the cost cap the list of fallback sections becomes empty.

**Wallet.** `orders.py:410`: the ancestry walk follows one of several referral
events; `orders.py:425`: two orders settled close together rule out each other's
bonus; `orders.py:427`: after a refund the bonus is granted again.

**Chat and explorations.**
* `security.py:96`: a slot claimed before midnight is given back on the next day;
  `main.py:2150`: a slot that was never claimed (Redis was away) is given back.
* `main.py:2190`: a pack is consumed after the answer, so overlapping requests get
  more answers than it has units; a placeholder of `/api/chat` takes a unit.
* `main.py:3714`: two overlapping explorations are both free;
  `explore/service.py:300`: a repeated cleanup reopens a freebie another one used;
  `main.py:3753`: a reader who leaves gets nothing back.

* `llm.py`, `GoPoolProvider.stream` asks one key only, and when its stream breaks off the
  router leaves the generator before the error is tracked.
* `rag.py`: the last 64 characters of a section of more than 512 are repeated until the
  report has its 40 chunks, so that later sections are not indexed ("overlapping
  windows"); runs that overlap store the chunks twice ("Idempotent per report"); a report
  written again by a second job keeps its old chunks. The chat takes the latest report
  of a chart, whether it is done or not.

**Purchases and subscriptions.**
* Buying again needs the price in the purse although nothing is charged; after a
  failed report it makes one that no entitlement is bound to. Reports made by
  `?regenerate=1` are not bound either: listed, not downloadable. An upgrade over a
  live report generates nothing. A chat pack's key has no chart: once per user.
* `/api/synastry/access` asks for a kind "synastry" that nothing grants; the page
  goes on to `GET /synastry/full`, while there is only `POST /api/synastry/full`
  (`main.py:1728`, `templates/synastry.html:224`).
* `orders.py:238-241`: a refused grant leaves `last_credit_grant_at` set
  (`MonthGranted` is not kept); `grant_due_subscription_credits` is called by nothing;
  overlapping renewals lose an extension; the refund of the newest order closes all of
  the time, that of an older one none.

**Access and owners.**
* A shared link (`?t=`) stops opening once the chart's maker signs in, and with it
  what was bought by credits through the link.
* The pages disagree: `/orders` lists by user only, `/account` also by chart;
  `reports_page` takes the newest 200 of everybody before it filters; `/today?chart=`
  of a reader's chart beyond the ten most recent has no access to compute and fails.
* `main.py:511`: overlapping responses lose entries of `chart_access`; a cookie
  beyond 4096 bytes is dropped; overlapping claims move a chart between accounts
  ("never stolen", `main.py:1197`); `api_synastry_charts` sets no cookie.

**Providers, login, bots, audio.**
* `docs/ROUTING.md:16` puts the free tier last; the order by health and cost may put it
  first (`FreeTierIsLast`). A success does not set `healthy` back,
  only the next error after it does; errors of streams are not tracked; the gateway's timeout exceeds the deadline of a call.
* Overlapping guesses write back older counts; HSET after DEL recreates a code without
  its value; a death between INCR and EXPIRE locks a number out.
* `main.py:2350`: "already processed" is not kept when Redis goes and comes
  (`HandledOnce`); Telegram and Bale share the keys of their updates.
* The audio request always answers 503: `asyncio.run` is given the result of
  `asyncio.run`; the job is queued all the same, and may overwrite a ready version.

**Deletion, content, digests, settings.**
* Objects already deleted do not come back when the transaction is refused; objects of a
  job that runs meanwhile stay; rows of `daily_reflections` refuse the deletion, too.
* The creation and the first update both store version 1; a deletion stores no
  revision (`cms_admin.py:3`); overlapping edits share a number and lose a text.
* A second subscription of a chart gets nothing; a second run alerts a reader of another
  chart in the same week; a lost message is recorded as sent; the birthday reminder
  calls its sender without a session.
* `feature_flags.py`, "toggle without a deploy": other processes keep the old value
  until they are restarted; a reader in flight at a save pins it.

**Free layer, sky, texts.**
* An overlapping load that fails, or one that met Redis away, overwrites the permanent
  answer ("one LLM call per chart, ever"). `today_facts` drops the target, so that the
  houses of its sentence are always empty; the Moon's phase shown is the natal one.
* The forecast looks for `lon - target - aspect` only, one side of the aspects of 60,
  90 and 120 degrees; an aspect exact at the last sample is missed; `find_solar_return`
  searches from 30 days before to 90 days after the day of the month it is called on
  ("always enough", `report/solar.py`), so that for most of the year the return it gives
  is the end of its search; the Moon's signs of a sidereal chart are tropical.
* `claim_validation.py` looks planets up by lower-case names, which the charts of the
  engine do not have: of all claims only those of the ascendant are ever held against
  the chart ("the hard gate", lines 4-6; the tests use lower-case charts).
* The prompt of a personal question asks for one or two insights and its gate refuses
  one; the prompt of an exploration lists aspects whose first body its gate refuses.
  A JSON of another shape raises in `qa_section` and fails the whole report.

**Prices, limits, revisions.**
* `LANCH20` is seeded as a coupon for reports only, and no order of a report is left
  that could redeem it; the docstring of `security.py` names
  `scripts/audit_fallback_ingest.py`, which does not exist.
* `3c92…` keeps "the row with the latest expiry" only among rows in the order of their
  ids: a lower id with a later expiry stays as well, and the unique index then refuses
  the revision; where an expiry is not set, the latest may be lost (`LatestKept`).
* `435333592075` may link the report of a refunded order to the only paid one; A6 leaves
  out orders from before `a7c0…`, which have no user.
* Once `66bc97b51008` has aligned a database the first revision cannot be rolled back;
  `c8d2…` and `3c92…` cannot be once there are rows they did not have.
  A rollback past `a1c0de000003` deletes entitlements, and with them what was used.
* A database made by `create_all` cannot be upgraded through `c7f1…`, although `b4a0…` is
  written for it ("apply only what is missing"); the `try` around a `drop_index` in `d9e3…`
  does not help inside a transaction that is aborted.

**Backups.** A failed run leaves a plain dump behind. The weekly drill says "DRILL OK"
for an empty dump, since alembic makes the schema (`restore-drill.sh:23`); a
half-finished restore passes the sanity gate; `deploy.sh` goes on after a failed backup.

## 7. Not modelled

* **Guest escrow** (`main.py:1480-1493`): credits of a guest's order wait for the claim of
  the chart; a grant under a key, as in `Credits`.
* Parts of components: the report a paid order of an old plan queues; column types,
  defaults, and rows that refuse a revision; the embeddings of the chunks; usage, prices and the registry of the LLM providers; the ORM's flush
  order and the export of an account; the birthday reminder and push registration; media,
  pages and SEO of the CMS; the ephemeris, and the weights of synastry, rectification and
  ranking; rendering, the Word export and all wording; metrics, readiness and
  the administrators' reports; benchmark, audit and deployment scripts.
