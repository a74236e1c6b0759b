# FuseMomo API: a verification project

TLA+ models, TLC runs and TLAPS proofs for the FuseMomo API (Go, Fiber, PostgreSQL, Stripe).
Every definition is translated from the code under `src/`; `PROJECT.json` maps each one to its
lines. PostgreSQL, Stripe, the clock and the process itself are modelled from how the code uses
them and marked external. The schema is not part of the repository: unique keys, the trigger
functions and foreign keys are those the statements of the code rely on.

## 1. Inventory

| component | state | operations | hard behaviour |
|---|---|---|---|
| **identity resolution** `core_handlers.go` 47–710, 1096–1148 | tables `entities`, `entity_identifiers`, `entity_links`, `usage_logs`, and the entity of each interaction | resolve (find, create, merge, attach), link by hand, erase | concurrent transactions at READ COMMITTED; checks made before the transaction; deadlocks; rollback half-way |
| **interaction log** `core_handlers.go` 1152–1755 | `interactions`, `usage_logs` | log one, log a batch, list | entity checked before the insert; `external_ref` dedupe outside the transaction; ids matched by position |
| **entity reads** `core_handlers.go` 715–1094 | – | list, details | pages of a table that changes; parallel statements beside merges |
| **billing webhook** `billing/webhook.go`, `services.go`, `plans.go` | billing columns of `tenants`, `stripe_webhook_events`, the in-memory sessions | claim, apply/clear plan, schedule cancel, note a failed payment, push to sessions, release, acknowledge | duplicated, retried and reordered deliveries; 20 s context; failed statements, lost answers; crashes |
| **checkout** `billing/services.go` 223–348 | `tenants.stripe_customer_id`, an advisory lock, customers at Stripe | create or reuse a customer, create a session, recover from a deleted customer | check–lock–check; effects outside the transaction; unconditional recovery |
| **sessions** `session/session.go`, `auth_session_handler.go`, `middlewares/session.go` | map from session id to session | login, logout, plan push, expiry, GC | a login racing a plan change; sessions outlive their tenant |
| **rate limiter** `middlewares/ratelimit` | sync.Map of buckets with a mutex each | check, cleanup pass | stamps taken before the mutex; deletion after unlock |
| **API keys** `middlewares/auth.go`, `apikey_handlers.go` | `api_keys` | create, authenticate, revoke, delete, sync-expired | an unconditional background update racing revocation and sweep |
| **recommendation** `handlers/v1/recommendation` | `recommendations` | recommend, persist in the background, feedback | answer before persistence; merges between the statements of feedback; scorer arithmetic |
| **administration, profile** `admin_handlers.go`, `dashboard_handler.go` | `tenants` | set a plan, delete a tenant, soft-delete and update a profile, list | overrides that neither the sessions nor the webhook know of |
| **reports** `analytics_handlers.go`, `utils/analytics.go`, `dashboard_handler.go` 180–345 | – | summary of a period, impact of recommendations, entity graph, usage of the month and of twelve | several statements and several readings of the clock; percentages; calendar arithmetic |
| portal and status of billing; the other charts of the dashboard | – | one SELECT each | – |
| plan and role gates, server, config, db, logging, generated docs | – | – | – |

How they interact: the webhook finds its tenant by `stripe_customer_id`, which checkout writes;
it pushes plans into the session store, which the session middleware reads on every app
request and from which the plan gates and the rate limiter's bucket key are taken; merges of
identity resolution re-point the rows of the interaction log, from which the recommendation
store reads its statistics; quotas join `tenants` (written by webhook and administration) with
`usage_logs` (written by resolve and log).

What makes each of them correct:
* identity: identifiers live on live entities, merges are audited and end, an identifier moves
  only along a merge, quotas hold, requests are answered;
* webhook: an acknowledged event is in the database, at most one handler works on an event, every
  event takes effect once and in order, row and sessions follow Stripe;
* checkout: the customer offered is the one the webhook will look up, and there is only one;
* rate limiter: no window overflows, nobody is refused early, memory is given back;
* interactions and recommendations: a known reference is not logged again, an answered id names the
  row it is for, what is billed is stored, feedback links interactions and recommendations of one
  person and is refused only for a race, one more success never costs an action its rank;
* access: a key that ended stays out and none ends early, stale sessions and stored sessions have a
  bound in time;
* reads: a page walk, the details of an entity, the graph, a summary and an impact miss nothing but
  what the properties name; the usage and the history mean what they show.

## 2. Modules

| module | models | used by |
|---|---|---|
| `EntityResolution` | resolve, link, log and erase of one tenant as concurrent requests | `MCEntityResolution`, `EntityResolution_proofs` |
| `IdentityPartition` | abstract: a partition of identifiers into entities | refined by `EntityResolution`, in `EntityResolution_proofs` |
| `StripeWebhook` | webhook, plan changes and sessions of one tenant | `MCStripeWebhook`, `StripeWebhook_proofs`, `Entitlement_proofs` |
| `Entitlement` | abstract: Stripe's decisions take effect once and in order | refined by `StripeWebhook`, in `Entitlement_proofs` |
| `Checkout` | checkout requests of one tenant | `MCCheckout`, `Checkout_proofs` |
| `RateLimiter` | memory store, middleware decision and cleanup | `MCRateLimiter`, `RateLimiter_proofs` |
| `Scorer` | the scoring engine over buckets of interactions, as operators | `BehavioralGraph` |
| `BehavioralGraph` | logging, batches, recommendations and feedback of one tenant, beside merges | `MCBehavioralGraph`, `BehavioralGraph_proofs` |
| `Access` | API keys, sessions, administration and deletions of tenants | `MCAccess`, `Access_proofs` |
| `Tables` | what reads see, and each write as the one transaction they see | `Listing`, `Reports` |
| `Listing` | lists walked page by page, entity details, entity graph | `Reads` |
| `Reports` | summary, impact, monthly usage, history | `Reads` |
| `Reads` | one read of `Listing` or `Reports` beside the writes of `Tables` | `MCReads`, `Reads_proofs` |

### EntityResolution
One request is one handler, served once; `req[r].pc` is the statement it is at.

| action | code |
|---|---|
| `CheckQuota` | validation and the quota query, before the transaction |
| `Lookup` | BEGIN, the query for matching identifiers, and the three-way switch on the matches |
| `CreateEntity` | no match: INSERT of an entity and its identifiers |
| `PickCanonical`, `RepointIdentifiers`, `AbsorbMerged` | several matches: the oldest live one is canonical; identifiers, interactions, soft-delete and audit links of the others |
| `AttachIdentifiers` | identifiers of the request onto the canonical entity |
| `Commit`, `FetchResolved` | COMMIT with the counter, then the read of the answer outside the transaction |
| `LinkExists`, `CheckConflict` | link by hand: existence and conflict checks outside the transaction, then `AttachIdentifiers` and `Commit` |
| `LogExists`, `LogWrite` | log one interaction |
| `Erase` | the erasure transaction of `DeleteEntityHandler` |
| `Abort`, `DeadlockFail` | any statement fails (deferred Rollback), PostgreSQL breaks a deadlock |

What a transaction has written is in `tx[r]`, invisible to others until `Commit`; the rows it wrote
are locked (`IdsLockedBy`, `EntitiesLockedBy`), and a statement that needs one waits. Entity ids
are numbers in the order of `created_at`. Two sources may share a value (`ValueOf`), because the
lookup query is by value while the unique key is (source, value). `usage` is the counter of
the month; `Counted` are the values it may start from.
Left out: metadata, names, confidences, statistics recomputed on the canonical entity; the dedupe
by `external_ref` is in `BehavioralGraph`.

### StripeWebhook
`Emit` and `Deliver` are Stripe (external): a subscription moves, an event is logged, and every
event is delivered until a delivery is answered 200. A delivery is a handler in `handler[d]`:
`Lookup` (tenant of the customer), `claimWebhookEvent`/`ClaimFails`, `Work`/`WorkFails` (the one
UPDATE of `handleWebhookEvent`), `UpdatePlan` (push into the sessions), `Finish` (answer 200, or go on to
release), `releaseWebhookClaim`. `Expire` is the handler's context, `Crash` the process. The row of
the tenant is plan, subscription, cancellation date and payment note; limits go with the plan.
`handled` is a history variable: the events whose change has reached the database.

Environment assumptions, each a constant of the module:
* `InOrder`: Stripe does not promise an order of delivery. The properties about what a sequence of
  events means (`StatusFollowsStripe`, `NoticesNeedSubscription`, `ImplementsEntitlement`) are checked for ordered deliveries and
  do not hold without; `ClaimExclusive` is checked without.
* `MaxLive = 1`: one live subscription at a time. Checkout offers a subscribed tenant another one,
  and then `ClearPlan`, which looks only at the customer, ends the plan with the first that ends.
* `LoginsOverlap`: a login reads the plan and stores its session in two steps; when a delivery
  comes between them the session keeps the old plan. `SessionsCurrent` is checked without overlap,
  and without lost write answers, after which the second `ApplyPlan` touches no row and pushes nothing.
* A deletion of a subscription that is to be cancelled at period end is announced (`deferred`)
  and becomes real later, as the comment at `webhook.go:245` expects.
* Sessions are in the memory of one process; a crash logs everybody out.
* A tenant is always found for the customer of an event; the 200 for an unknown customer is not in the model.
* The note of a failed payment is best effort: its error is dropped (`webhook.go:269`) and the
  event acknowledged, so `AckedWasHandled` and `EveryEventHandled` exempt it.

### Checkout
`FetchTenant` (fast path), `AcquireLock`, `RefetchTenant`, `NewCustomer`, `WriteCustomer`,
`CommitCustomer`, `NewSession`, `WipeCustomer`: the statements and Stripe calls of
`CreateCheckoutSession` in order. `Fail` is any of them failing. `NewCustomer` and `CommitCustomer`
may take effect and lose their answer, `WipeCustomer` too. Customers are numbers in the order Stripe
makes them. `EraseCustomer` is somebody deleting a customer in the dashboard, which is what the
recovery is for.

### RateLimiter
A request is stamped (`Arrive`), finds or stores its bucket (`LoadBucket`), and under the mutex evicts,
decides and records (`CheckRateLimit`); `Bypass` are the paths, admins and tiers without a limit. The
cleanup is stamped when its ticker fires (`CleanupStart`: ticks are multiples of the interval, at most one
pending), visits (`CleanupVisit`, `CleanupSkip`: a bucket stored during `Range` may be seen or not), then deletes
by key (`CleanupDelete`). A bucket is named by the request that stored it, so a request that holds a
deleted bucket goes on with that one; `records` has the requests a bucket lists, `turn` the order in which they were
let in, which is the order of the slice. `MaxDelay` bounds the ticks between stamp and decision: the
exact window overflows when a delayed request meets a bucket from which later requests have evicted,
so `WindowLimit` is stated for windows shorter by `MaxDelay`; in the code the delay is microseconds
against a minute. A tenant that changes tier changes its key and starts with an empty bucket.
Not modelled: `ResetLimit`, `GetCurrentCount` (no caller outside the tests), `Close` (shutdown), headers and texts.

### BehavioralGraph and Scorer
A request is a handler in `req[r]`, a row's id its place in `rows`.

| action | code |
|---|---|
| `StartLog`, `CheckEntities`, `Dedupe`, `InsertItems` | `LogInteractionHandler` (a batch of one) and `LogBatchInteractionsHandler`: validation, the entities, the references that are known, the transaction with the counter |
| `StartRecommend`, `FetchInteractionStats`, `FetchFeedbackWeights`, `Recommend` | the handler of a recommendation: the two queries of `store.go`, `Scorer`, the answer |
| `PersistRecommendation`, `PersistFails` | `persistAsync`, at any time after the answer, or never |
| `StartFeedback`, `FetchRecommendation`, `FetchOutcome`, `UpdateFeedback` | `FeedbackHandler` and its three statements |
| `Merge` | the committed merge of `EntityResolution`: interactions and recommendations move |
| `Fails` | any statement fails, or the answer of a commit is lost |

`Scorer` has the buckets of the two queries (`InteractionStats`, `FeedbackWeights`), the weight of the
feedback, the composite score with its rounding and clamping, and the order of the ranking; numbers are
fractions of a million. `exp` is external: a table `Recency` of fractions that falls (`exp(-λ·days)` with λ > 0), and no row is of
the future, because no item in the future passes the validation. Entries that tie come in any order.
The dedupe keeps a snapshot between its lookup and the insert, so duplicates by a race are possible, as in the code.

### Access
`FindTenant`, `Create`, `Delete` (login in two steps, logout), `purgeExpired` (GC), `WritePlan` and `UpdatePlan`
(a webhook and its push), `CreateAPIKey`, `RevokeAPIKey`, `DeleteAPIKey`, `SyncExpiredAPIKeys`,
`DeleteTenantProfile`, `UpdateAdminTenantPlan`, `DeleteTenant`, and the middleware: a request with a key finds it
(`Accepts`), or refuses it as expired and leaves a background update (`RefuseExpired`, `MarkExpired`).
Time goes by in ticks that no login and no push outlasts (a login is milliseconds, a tick is hours).
Assumed of the schema: deleting the row of a tenant deletes its keys.

### Tables, Listing, Reports, Reads
`Tables` has one action per kind of write, each the transaction its handler commits, enabled only while a read is
under way that could see it; `Listing` and `Reports` have the read in `read`, one action per statement:
`ListInteractions`, `GetAllEntities`, `GetAdminTenants` start a walk, `VerifyEntity`, `CountRows` and the `Fetch…`
actions are the statements of a page, `NextPage` is the client; `FetchEntity` and `FetchGraphEntities` start reads
whose parts are fetched in any order until `Joined`/`JoinedGraph`; `StartSummary`, `SummaryPlan`, `CurrentPeriod`,
`RecommendationAccuracy`, `PreviousPeriod` and the `…Impact`/`…Recommendations` actions are the statements of
the two reports; `GetMonthlyUsage` and `GetHistoricalUsage` are one statement each, with the arithmetic after it.
`PeriodStart` and `PreviousPeriodRange` read the clock each for itself. Rows that sort alike come in any order.
Filters are fixed for a walk, so the table stands for the rows that pass them.

## 3. Runs

| run | question | bounds and why they are enough |
|---|---|---|
| `MCResolveSerial` | with one request at a time, do the tables stay consistent and implement a partition? | 3 requests of every kind, 3 identifiers of which all share a value, 2 entities at the start, quota 2: create, attach, merge of two, erase and refusal all happen |
| `MCResolveRace` | what survives when requests overlap? | 3 requests, 2 in flight; two merges that share an entity, a merge against a link or an erasure; the counter starts below and near the limit. Logging is left to the serial run: it has no part in these properties |
| `MCResolveLive` | is every request answered? | 2 resolves over 3 seeded entities: enough for a cycle of row locks |
| `MCWebhookOrdered` | do row and sessions follow Stripe, does every event take effect, once and in order? | 2 subscriptions in turn, 4 events, 2 faults, a browser: a life of a subscription and the start of another, and a retry that fails again |
| `MCWebhookOverlap` | is work exclusive under every fault? | 2 deliveries at once of 2 events, all six faults, twice |
| `MCWebhookApplyPlan` (violation) | does applying a plan clear the notices? | 3 events |
| `MCCheckout` | is the customer offered the one in the row; is there only one; is every request answered? | 3 requests, 2 faults, 1 deleted customer |
| `MCRateLimiter` | do the limits hold, is memory given back? | 4 requests, limit 2, window and interval 3 ticks, delay 1: a full window, its eviction, a late request and a cleanup pass in between. Requests are numbered in the order of arrival, which is a symmetry reduction |
| `MCGraph` | do ids, bills, feedback and ranking agree with the rows? | 3 requests of every kind, 2 at once, batches of 2, a merge and a fault; the items share a reference with a row of the other entity, one is in the future, two actions compete |
| `MCGraphFeedback` (violation) | does feedback move a weight? | a recommendation, feedback on it, a second recommendation |
| `MCAccess` | do keys end when they should, and how long can a session be wrong? | a key that expires or never does, two browsers, a user and an administrator, TTL 2 and GC interval 2 within 5 ticks: a session lives, expires and is collected, and another is stored after a change |
| `MCReads` | what can a read of several statements miss? | 3 entities, 4 rows of which two tie, pages of 1 and 2, 2 writes and a tick of the clock during the read; every day of two years, one of them a leap year, for the history |

`CHECK_DEADLOCK FALSE` appears where the system may stop: Stripe's log is bounded by `MaxEvents`, the requests of
`BehavioralGraph` are served once, the clock of `Access` ends, a read ends with its answer.
Symmetry is used in runs without liveness properties only.
`TypeOK` is proved for every module that has one and is therefore no property of a run.

**Violations, and what the code does.**
* `ApplyPlanClears` (`services.go:379`, `webhook.go:303`): the UPDATE has a condition on plan and
  subscription, both current on a reactivation or a retried payment, so the notice stays.
* `FeedbackMovesWeight` (`scorer.go:102`): `FetchFeedbackWeights` leaves the API of a weight empty, the scorer looks it up
  under API and action; no weight is ever found and every feedback is neutral.

**Known divergences** met while modelling. The models contain each of them; no run asks for them, the properties say under which
condition they hold:
* two resolves that both find nothing create two entities ("into one canonical record", README.md:10 of the repository);
  `ON CONFLICT DO NOTHING` leaves the second without the identifiers it was answered for (`core_handlers.go:187`);
* the link handler answers success for an identifier that another request committed between its check and its
  insert (`core_handlers.go:606`);
* the claim of an event is committed before the work, so the retry of an event whose handler died is answered
  "already processed" (`webhook.go:91`); `AckedWasHandled` is checked without crashes;
* the recovery of a deleted customer sets the column to NULL although another request has stored a fresh
  one (`services.go:257`): the webhook of its checkout finds no tenant; `OfferedIsKnown` is stated while nobody deletes customers;
* the dropped error of `NotifyPaymentFailed` (`webhook.go:269`); the session of a login that overlaps a plan change
  (`auth_session_handler.go:132`); the missing push after a lost write answer (`services.go:404`); the empty
  bucket that is deleted at once although `ratelimit_cleanup.go:61` says five minutes;
* a plan set by an administrator reaches no session before `SessionTTL` (`admin_handlers.go:201`), and the API keys of a
  soft-deleted tenant go on to authenticate (`auth.go` does not ask for `deleted_at`): `SessionsCatchUp` is about sessions;
* the same reference twice in one batch, or in two requests that race, is logged twice;
* on days 29 to 31 the history repeats a month and misses a shorter one, against "12 months" (`dashboard_handler.go:297`):
  `HistoryInOrder` exempts months that have no such day;
* a negative limit other than -1 is shown as 0 % and refuses every resolve; no plan has one, and `ReportsAssumption` excludes it;
* interactions of erased entities count in the report of a period and not in the report of all time (`SummaryHasNoGap` says so);
* `additional_successes` can be positive while the improvement is 0, by the rounding of the rate.

**Fairness.** A handler that has started is run to its end by the Go scheduler: weak fairness of the
steps of each request. Stripe retries what was not answered 200: weak fairness of the
delivery of each event (the real retries end after days; the model's faults are bounded well before). Nothing obliges a client to call,
a subscription to move, a fault to happen or a user to log in. A row lock is granted in the end because
its holder is fair; a deadlock is broken because PostgreSQL's detection is a step of the
waiting request. In the limiter the clock and the ticker go on, too. `BehavioralGraph`, `Access` and `Reads`
assume no fairness: what they promise is safety, or is bounded in ticks (`SessionsCatchUp`, `SessionsForgotten`).

## 4. Proofs

Every invariant and action property of the passing runs is a theorem; what a run shows on its instance, the
theorem states for every value of the constants, under the hypotheses of the last column.

| theorem | states | hypotheses |
|---|---|---|
| `EntityResolution_proofs!TypeCorrect` | `TypeOK` | |
| `EntityResolution_proofs!MergesAudited` | `MergedIntoOlder` | |
| `EntityResolution_proofs!TrailsEnd` | `TrailReachesSurvivor` | |
| `EntityResolution_proofs!QuotaBounded` | `QuotaOverrunBounded` | |
| `EntityResolution_proofs!NoStolenIdentifier` | `RelinkOnlyByMerge` (action property) | |
| `EntityResolution_proofs!SerialLinks` | `LinkedToLive` | `MaxInFlight = 1` |
| `EntityResolution_proofs!SerialRows` | `NoRowOnMerged` | `MaxInFlight = 1` |
| `EntityResolution_proofs!ImplementsPartitionSerially` | `ImplementsPartition` (refinement) | `MaxInFlight = 1` |
| `StripeWebhook_proofs!TypeCorrect` | `TypeOK` | |
| `StripeWebhook_proofs!ClaimsExclusive` | `ClaimExclusive` | |
| `Entitlement_proofs!AckedHandled` | `AckedWasHandled` | no claim is left, no overlap |
| `Entitlement_proofs!SessionsFollowThePlan` | `SessionsCurrent` | in order, no overlap, no login across a delivery |
| `Entitlement_proofs!ImplementsEntitlementInOrder` | `ImplementsEntitlement` (refinement) | in order, no overlap, no claim is left |
| `Entitlement_proofs!NoticesHaveSubscription` | `NoticesNeedSubscription` | the same, `MaxLive = 1` |
| `Entitlement_proofs!StatusIsStripes` | `StatusFollowsStripe` | the same, `MaxLive = 1` |
| `Checkout_proofs!TypeCorrect` | `TypeOK` | |
| `Checkout_proofs!LockExclusive` | only the holder of the lock is between lock and end of the transaction | |
| `Checkout_proofs!OfferedKnown` | `OfferedIsKnown` | |
| `Checkout_proofs!CustomersAreBounded` | `CustomersBounded` | finitely many requests |
| `RateLimiter_proofs!TypeCorrect` | `TypeOK` | |
| `RateLimiter_proofs!WindowIsLimited` | `WindowLimit` | |
| `RateLimiter_proofs!RefusalsAreEarned` | `RefusedOnlyWhenFull` | |
| `RateLimiter_proofs!ResetIsHonest` | `ResetFreesASlot` (action property) | |
| `RateLimiter_proofs!ForgetsLittle` | `ForgetsOnlyTheOverlap` (action property) | |
| `BehavioralGraph_proofs!TypeCorrect` | `TypeOK` | |
| `BehavioralGraph_proofs!BilledIsStored` | `UsageCountsRows` | |
| `BehavioralGraph_proofs!OnePerson` | `FeedbackOfItsPerson` | |
| `BehavioralGraph_proofs!AnswersAreRight` | `AnswersNameTheirRows` | |
| `BehavioralGraph_proofs!KnownStayOut` | `KnownRefsNotRelogged` (action property) | |
| `BehavioralGraph_proofs!RefusalsAreRaces` | `RefusedOnlyByRace` (action property) | |
| `BehavioralGraph_proofs!OutcomesCount` | `OutcomesMoveTheRanking` | finitely many requests |
| `Access_proofs!TypeCorrect` | `TypeOK` | |
| `Access_proofs!EndedStayOut` | `EndedKeysStayOut` | |
| `Access_proofs!ExpiryHonest` | `ExpiredMeansExpired` | |
| `Access_proofs!CatchUp` | `SessionsCatchUp` | |
| `Access_proofs!Forgotten` | `SessionsForgotten` | |
| `Reads_proofs!TypeCorrect` | `TypeOK` | |
| `Reads_proofs!NoGap` | `SummaryHasNoGap` | |
| `Reads_proofs!FullIsRefused` | `FullMeansRefused` | |
| `Reads_proofs!MonthsOfHistory` | `HistoryInOrder` | |
| `Reads_proofs!EachIsCounted` | `ImpactCountsEach` | |
| `Reads_proofs!ImpactIsEarned` | `ImpactAgrees` | finitely many recommendations |
| `Reads_proofs!NothingIsHidden` | `MergesHideNothing` | finitely many entities |
| `Reads_proofs!WalksSeeAll` | `WalkSeesAll` | finitely many entities and tenants |

**What is assumed.** The `ASSUME`s of the modules, which TLC evaluates in the runs: the bounds are numbers, the null values are
not elements of the sets they extend, rows that were there before are of entities there are and lie in the past (`SeededAssumption`,
`TablesAssumption`, `SeedsAssumption`), the decay of the scorer is a fraction and falls (`ScorerAssumption`), a limit is at least 1 (`RateLimiterAssumption`:
`ratelimit_config.go` adds a burst to a base of the plan), `Lookback` and `MinSuccess` are not negative (`handler.go:66`).
The hypotheses of the last column are the conditions under which the property is meant to hold, and not
conveniences of the proof: without them TLC finds a counterexample, and section 3 names it. "No claim is left"
is `NoClaimLeft`: the faults are failing statements, expiring contexts and lost answers of an UPDATE, none of which
keeps the release from running; "no overlap" and "in order" are constants of `StripeWebhook`, about Stripe. The
configurations `MCWebhookOrdered.cfg` and `MCResolveSerial.cfg` satisfy them. The finite sets are needed to
count (`Cardinality`) or to find a newest or a nearest row; the number of requests, entities or
recommendations there ever were is finite.

**Identity.**
* `MergedIntoOlder` is not inductive: a handler picks its canonical entity from a snapshot and
  merges statements later, when others may have merged or erased what it saw. `MergeInv` adds
  what a handler knows in between: the entities it is to merge were all born, those of them still live
  are younger than its canonical entity; an id reserved for an entity to be created is seen by no one
  and is nobody else's; ids not yet given out are absent. The step that matters is `Commit`
  (`MergeCommit`), which makes the whole pending transaction visible at once.
  `TrailReachesSurvivor` follows without another induction: in a non-empty set of merged
  entities the oldest has, by `MergedIntoOlder`, a link to an older one, which is outside the set.
* `QuotaOverrunBounded` bounds the counter, which only commits raise, by what the checks let through earlier. `QuotaInv` gives each
  resolve in flight that passed the check a unit it is owed: counter and units owed stay under the bound, since a check adds a unit only
  below the limit and a commit or a failure turns it into a count or gives it back.
* `RelinkOnlyByMerge` needs the row locks: `LockInv` says that what a transaction has re-pointed is locked by it alone, and still
  is of an entity that this transaction merges, whatever was read when. Then the commit moves only such rows, and links and kills their owner.
* The serial theorems and the refinement share `SerialInv`: with one request in flight nothing changes between its statements, so what
  was looked up is still so (`Learned`), and a transaction at its end has covered everything that hung on what it kills (`Complete`).
  The refinement then maps the commits to the operations of `IdentityPartition` and every other step to a stutter.

**Billing.**
* `ClaimExclusive` is inductive with `TypeOK`: a handler enters the section only by inserting the claim,
  and only a handler that holds the claim releases it.
* `AckedWasHandled`: `AckInv` follows the claim, which stands for "done" only if somebody is at work on it or the change is there: that is what a
  duplicate relies on when it is acknowledged unseen.
* `SessionsCurrent`: in order at most one delivery is in progress, of the first event that is not answered (`OrderInv`); a session with
  another plan than the row has a push to come, and what is to be pushed is the plan of the row (`SessionInv`).
* The refinement of `Entitlement`: `EntInv` says that what was handled and not answered has its decision in the row, so
  that the second handling of a retry changes nothing there; every other step of a delivery is a stutter.
  `StatusFollowsStripe` and `NoticesNeedSubscription` need the log as well: `LogInv` (what Stripe decided up to an event tells who was alive then)
  and `TenantInv` (the row is where the log says, as far as it was taken).
* `OfferedIsKnown` needs `CheckoutInv`: who is between lock and commit holds the lock and, while
  nobody has deleted a customer, the column is NULL until it commits; who knows a customer with no
  deletion knows the one in the column. `CustomersBounded` is an account (`BoundInv`): each customer beyond the first is paid for by a fault or by a
  wipe, a pair of deleted customer and request that met it, and a request meets a deleted customer once.

**Rate limiter.** `LimiterInv` has five parts besides the types: no decision comes more than `MaxDelay` after its stamp (`ClockInv`); what is known of a
request at each step (`StageInv`); a bucket records only what it let in, and at most `Limit` (`StoreInv`); whatever was let in is recorded or has left the
window by the clock (`KeptInv`), which is why a delayed decision may evict too little, and never too much but by its delay; a
bucket to be deleted records nothing from before the pass (`CleanerInv`). `WindowLimit` looks at the one of the window that was
let in last: all the others were then recorded, and fewer than `Limit`. `ResetFreesASlot` is about the order of the
slice: the first record need not be the oldest, but it is in the window, so at its end at least this one has gone.

**Interactions and recommendations.**
* `UsageCountsRows` is inductive by the arithmetic of appending the new items; `FeedbackOfItsPerson` needs what a request
  of feedback knows between its statements: recommendation and interaction it has compared are of one person, and a
  merge, which redirects `into` for both, keeps that. `RefusedOnlyByRace` adds that what was inserted in time is of
  a living entity, since merges take it along (`LateInv`).
* `AnswersNameTheirRows` and `KnownRefsNotRelogged`: `LogInv` is what a request knows of each item it has looked up. The ids of the new rows
  are put back by position: the n-th row is for the item of rank n among the new ones, and rank is a bijection (`RankInRange`, `RankUnique`, `RankOnto`,
  by well-founded induction over the places of the batch).
* `OutcomesMoveTheRanking` goes through the arithmetic: the share of successes moves the right way under integer division (`RateMoves`), rounding,
  clamping and weighting keep an order (`RoundKeeps`, `ClampKeeps`, `PercentKeeps`), so the composite score of a better bucket is no lower
  (`CompositeMoves`), and by the three keys of the sort nothing new comes before it (`BeforeMoves`). One more row of an action touches its
  bucket alone (`Added`). The invariant it needs is that no row is of the future (`DaysInv`): the newest success is then today's.

**Access.**
* `EndedKeysStayOut` and `ExpiredMeansExpired` need each other's background update: a key in `updates` is past
  its expiry, and since time only goes on, marking it late is harmless; a key that ended is not active or past its expiry.
* `SessionsCatchUp`: a stored session either has the plan of its live tenant, or was stored at most in the tick of
  the last change (no tick passes between a login's read and its store, or between a write and its push), so it
  expires `SessionTTL` later. `SessionsForgotten`: before the ticker's next pass, the last pass has seen every session
  that had expired by then.

**Reads.**
* `SummaryHasNoGap`: once the period has been counted, whatever row was there at the start is counted, erased or outside of
  it, and writers neither change the time of a row nor bring an erased entity back; the second
  reading of the clock is not before the first, so the earlier period reaches at least to the later one.
  `FullMeansRefused` and `HistoryInOrder` rest on integer division and on `MonthBefore` being one of two neighbours.
* `ImpactCountsEach`: `ImpactInv` remembers between the two statements which interactions were named by feedback, and those on the first
  side are exactly these. `ImpactAgrees` is arithmetic of the rounded rates.
* `MergesHideNothing`: an interaction leaves its entity only when the entity is merged away (`DetailInv`); the graph has, with an entity, every older
  living one, and merges go to older ones, so what hung on it when it was listed hangs on a listed entity until it is read (`GraphInv`).
* `WalkSeesAll`: every row of the start is seen, excused, or still ahead of the offset: fewer than `offset` rows sort before it
  (`WalkInv`). A page takes the next rows in the order of the list, so what it leaves out sorts below everything it took (`PageMisses`), and writers only push
  rows down unless one above is removed.

Model-checked only: the liveness properties (`EveryRequestAnswered`, `EveryEventHandled`, `EveryCheckoutAnswered`, `IdleBucketsForgotten`), because
neither `ENABLED` nor fairness is in reach of TLAPS; and the two properties that the code violates.

## 5. What could come next

1. The refinements under weaker hypotheses (which decisions
   survive events out of order).
2. Compositions: administration with the webhook's own event handling (`Access` has its writes and pushes only);
   checkout with webhook (a customer that was offered is found).
3. The remaining charts of the dashboard, if one of them comes to read in more than one statement.

## 6. Not modelled

Billing portal and status, the profile, the list of API keys and the remaining charts (time series, performance, heat map, API
distribution, top entities, global statistics) read in one statement and decide nothing.
`core_handlers.go` 1757–2115 and the end of `dashboard_handler.go` are commented out; `SupabaseJWTMiddleware`
and the `RequirePlan` of `middlewares/tier.go` are used by no route.
Server wiring, configuration, logging, CORS, error formatting, generated
documentation and cryptography (token and signature checks, hashes) have no behaviour a state model adds to.
Several tenants: every table is keyed by tenant and every statement filters by it, so one tenant stands for all,
except in `Access`, where administrators act on other tenants.
