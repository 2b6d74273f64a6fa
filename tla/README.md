# N4Cluster ICP Finder: TLA+ models, checks and proofs

This directory is the verification project of the ICP Finder: TLA+ modules
translated from the Python source, TLC configurations that check them on small
instances, and theorems that the TLA+ proof system proves for every instance.
`PROJECT.json` is the index: components, runs, mutants, the map from each
definition to the lines it models, findings, hazards and theorems. Paths below
are relative to `src/src/`, the Python package, unless they say otherwise.

    tlc -workers 2 -config EmailEvents.cfg MCEmailEvents.tla     # a run
    tlapm EmailEventsProofs.tla                                  # the proofs

## 1. The system

A FastAPI application (`api/`, `dashboard/`) and a pool of Celery workers
(`tasks/`) over one PostgreSQL database (`db/models.py`, READ COMMITTED, one
session per request or task, `db/session.py`). It crawls restaurant listings,
scores them against an ideal customer profile, promotes restaurants to leads,
writes to them by mail and text message, follows the provider's events, and
keeps leads in step with HubSpot. Only the database, the broker (Redis) and the
external services keep state between requests: whatever a handler has read
before an `await` may be stale after it.

| component | state it keeps | operations | hard because | correct when |
|---|---|---|---|---|
| event webhook, event and reply tasks (`api/routers/webhooks.py`, `tasks/email_tasks.py`, `services/reply_detection.py`) | tracker rows, target status, opt-outs; batches in the broker | post, process batch, process reply | batches share one transaction; duplicates; retries; lost posts | a stored event has had its effects and an accepted one is stored |
| status engine (`services/communication_status.py`) | `communication_status`, status history | `transition_status`, `log_status_activity` | check and write are two statements | targets only walk the table |
| sending (`tasks/email_tasks.py`, `services/email_service.py`, `sms.py`, `tcpa.py`, `api/routers/unsubscribe.py`) | activities, status, opt-out, consent | send mail, send text, unsubscribe, consent | provider call between gate and commit; retries | nobody is written to twice without a fault; sends are recorded |
| promotion and qualification (`services/prospect_promotion.py`, `tasks/qualification_tasks.py`) | leads, targets, verdicts | promote a selection, qualify | savepoints, unique keys, task before commit, deadlocks | every restaurant ends with one lead and the counts say so |
| crawl jobs and cleanup (`tasks/crawl_tasks.py`, `api/routers/jobs.py`, `services/cleanup.py`) | job rows, restaurants, source records | create, crawl, mark, clean up | three transactions per job; redelivery; cleanup by age | the row of a job agrees with what is stored, and settles |
| lead identity (`api/routers/leads.py`, `crm.py`, `services/compliance.py`, `hubspot.py`, `tasks/hubspot_tasks.py`) | lead rows, HubSpot contacts | form, merge, PATCH, two erasures, contact events | HubSpot calls between read and write; column-wise updates; unique address | erased stays erased; row and contact agree |
| lead stages and HubSpot deals (`api/routers/crm.py`, `tasks/hubspot_tasks.py`) | a column and its history, HubSpot's deal | set, qualify, deal event | events late or repeated, unconditional writes | history ends at the value, the lead follows its deal |
| rep queue (`services/rep_queue.py`) | queue items | populate, claim, complete, skip | no lock between check and UPDATE | an item is doubled by overlaps only |
| versioned settings (`services/prompt_versioning.py`, `configuration.py`) | versions, active flag, overrides | create, set, update, rollback, override | numbers computed from a read | the history tells the present value |
| scoring profiles (`services/scoring_engine.py`, `feedback_loop.py`) | profile, rules, snapshots, explanations, jobs | update, suggest, apply, score, recalculate, delete | changes lost between read and write; aborted jobs | snapshots and jobs tell what was done |
| ICP scores (`scoring/`, `tasks/score_tasks.py`, `api/routers/scores.py`) | a row of scores per restaurant | task, recalculation, rescore, inline | four writers of different columns; numeric boundaries | better facts make no lower score; a breakdown makes its total |
| campaigns (`services/outreach.py`, `anomaly_detection.py`, `tasks/engagement_tasks.py`) | targets, performance, status, engagement | select, log, count, pause, score | several reads per figure; status read before written | figures come from what happened |
| A/B experiments (`services/ab_testing.py`) | experiment, assignments, outcomes | start, assign, record, declare | outcomes change in place; declaration overlaps everything else | a winner has its sample |
| cluster engine (`services/cluster_engine.py`) | clusters, members, plans, outreach targets | detect, expand, launch, recalculate | read, compute, write without locks; one unique key | planned once, contacted once, no group left out |
| merchant graph (`services/merchant_graph.py`) | entities, edges | build a restaurant, build a zip code | a build sees what is there; limits | who finds each other is connected |
| qualification (`services/qualification.py`) | results with reviews | evaluate, review | column-wise updates; repeated reviews | status and dates are those of the reviews |
| tracking (`tasks/tracking_tasks.py`, `api/routers/tracking.py`) | tokens in Redis, visits in the broker, events | wrap, visit, log | redelivery; erased targets | one event per token |
| agents (`agents/`) | runs of a pipeline | run one, run all | aborted transactions | the stages tell how far it came |
| API clients (`services/auth_service.py`, `api/`) | client, tokens | issue, refresh, present, deactivate | tokens are judged without the client | deactivation ends access |
| rate limiter (`utils/rate_limiter.py`) | a window in Redis | check | clocks differ; refused calls are counted | the window tells who gets in |
| the rest (aggregates, templates, crawlers' parsing, dashboard pages, notifications, seeds) | none of their own, or text | queries and I/O | - | - |

How they interact: the webhook hands a batch to a worker through the broker;
the event task calls the status engine inside its own transaction; the send
task creates the activity by which later events find their target; promotion
dispatches the qualification task, which writes the lead the promotion has not
committed yet; the website form, the merge, the erasure and the HubSpot webhook
meet in the row of a lead and in HubSpot's contact; the daily cleanup rewrites
the job rows that running crawls hold. What the crawls store feeds the scores,
the clusters, the graph and the qualifications, which share no rows with each other. The list of every component, also the
ones that are not modelled with the reason, is in `PROJECT.json`.

## 2. The modules

### CommunicationStatus, CommLifecycle
`CommunicationStatus` has the statuses, `_VALID_TRANSITIONS`, the terminal
statuses and the map from provider events to statuses as constant operators.
`CommLifecycle` is the abstract specification of one target's status: from one
commit to the next it moves along a path of the table. It is what a reader of
`communication_status` relies on.

### EmailEvents
From the webhook to the database. A job is a Celery message (a batch of events
or a reply). A worker takes one step per await that reaches the database:
`Take`; `SkipEvent` or `ReadEvent` (the dedup SELECT, the activity, the target);
`KeepStatus` or `ApplyStatus` (the transition and its history row); `OptOut`;
`Record` or `RecordConflict` (the INSERT under the unique `provider_event_id`,
with `session.rollback()` on a duplicate); `Commit`; `Ack`. What the open
transaction has written is in `tx`, what is committed in `status`, `history`,
`optOut`, `tracker`. `held` is the object the loop variable keeps in the session:
a second event of the same target sees the status as it was first read. `DbError`,
`Crash` and `DeadlockVictim` end a transaction and retry, redeliver or lose its
message. `SendEmail` is the sending transaction, whose inner steps are in:

### OutreachSend
One send of a mail (Celery, with retries) or text message (HTTP request): gate,
provider call, load of the target, flush, commit; the provider may accept and
the answer be lost; `Exception`, `Crash` and `CrashBeforeAck` at any step;
against `Unsubscribe`, `RecordConsent` and `Engage` (later events, as
`EmailEvents` has them, in one step).

### ProspectPromotion
A promote request is one transaction with a savepoint per restaurant: `CheckLead`,
`InsertLead` (waits for the unique key of a concurrent one), `AttachTarget`,
`Qualify` (reuse a verdict or dispatch the task), `CommitRequest`. `StatementError`
rolls one savepoint back, `Abort` the request, whose tasks are out already. A
worker evaluates and commits a task in two steps. Which signals give which
verdict is a choice.

### CrawlJobs
A crawl in a Celery task, in a request for one source, in a request for all, or
of a city, ZIP code by ZIP code (`CreateCity`): the row is committed before it runs, marked running, the records are upserted in
one transaction (`tx` is the set of locked restaurants), and the row is marked in
another. A crawl that fails keeps its transaction, and the locks of it, while a session of
its own marks the job failed (`MarkFailed`), until the exception leaves the block of the
session (`LeaveBlock`); only an error of the database, or a deadlock, ends it at once.
A record without an address meets no unique key. Rows age by `Tick`
(fresh, stale after an hour, old after retention) and `Cleanup` goes by age.

### LeadRecords
The columns of a lead that identify a person (`email`, `data`, `rest`, `hub`,
`into`) and HubSpot's contacts. A request is a record of what it has read; the
ORM writes only the columns that changed since, so each `...Commit` writes by
column. A form flushes its row before it calls HubSpot and holds its locks
across the call. The personal columns are of two kinds (`Fields`): both erasures clear those
of the person, but only the one with HubSpot (`services/compliance.py`) clears the type of
business, the locations and the interest; `Cleared` is what the UPDATE of an erasure
(`Overwrite`) is about. `PatchLoad` and `PatchCommit` are `PATCH /leads/{id}`, which sets the
contact of any row, of an erased one too. `overlap` is an auxiliary variable: the leads
another request had loaded while they were erased, and erased leads that a merge was asked
to fill or a PATCH to give a contact.

### ClusterExpansion
The pipeline from places to campaigns. `BeginDetect`, one `Scan` per restaurant of
the result (in any order) and `CommitDetect` are the greedy pass of
`detect_clusters`; `BeginExpand`, `Anchors` (the API's request chooses anchors
first, the dashboard's does not), `Select`, `Insert` and `CommitExpand` are
`identify_anchors` and `plan_expansion`; then `launch_campaign` and
`recalculate_cluster` from read to commit. A transaction keeps in `txn` what it
has read; a commit writes only the columns that differ from that, as the ORM does.
`Insert` is where PostgreSQL checks `uq_cluster_member`: it waits for an uncommitted
row with the same key and fails on a committed one. `Rollback` may end any
transaction. `from` and `to` of a target place the launch among the commits.

### The services of the office side, and BackOffice
A module each; their requests read, wait and commit, so that two overlap at every
place where the code awaits. SQLAlchemy leaves a column out of the UPDATE when it is given
the value that was read; so two requests can leave a row with columns of both
(`Campaigns.Column`, `ScoringProfiles.Writes`, `CommitUpdate` of `Settings`, `Written`). Where
a property excuses an overlap, the module keeps what a request had read (`seen`) next to
what it wrote.
- `RepQueue`: `Add` (one INSERT), `BeginPopulate` (the filters, without what is
  queued), `CommitPopulate`, `BeginUpdate` (the status test of claim, complete and
  skip), `CommitUpdate` (an UPDATE by key, whatever the status has become).
- `PromptVersions`: create, update (the active version is read, the next number
  inserted, the old one switched off), rollback (the target is read, then the
  others that are active); (name, version) is unique.
- `Settings`: `BeginSet` reads the entry and `CountVersions` its versions, a SELECT each, so
  that a commit in between gives an old value with a new number; `CommitInsert` meets the
  unique key of the entry, `CommitUpdate` writes version and, if it differs, value;
  overrides of a scope carry any value.
- `Experiments`: start, assign, record, declare; the declaration is two steps,
  since the experiment and its outcomes are two queries. Significance is the
  two-proportion z-test in integers.
- `ScoringProfiles`: the weighted total with rules, updates of a profile by hand
  and by the feedback loop (`Suggest`, `BeginApply`), single scorings, and
  recalculations that count the restaurants (`BeginRecalculate`), list them
  (`ListRestaurants`), evaluate one per step and end completed, failed or rolled back,
  while crawls add restaurants (`AddRestaurant`).
- `Campaigns`: targets that activities advance, and `calculate_performance`: four counts, a
  look at the stored row and its UPDATE, a step each; `CampaignHealth`: thresholds, pause and log.
- `CrmHistory`: one column, its history, requests, the qualification task and the
  batches of deal events the broker holds. Posts may be late, repeated or retried.
- `AgentRuns`: `RunStage` hands the context on or stops the pipeline; `CommitRun` or
  `Rollback` ends the one transaction.
- `Access`: a clock, the client's row, its tokens; `CheckClient` and `Persist` are two
  transactions. `RateLimiter`: the sorted set; `Begin` reads a clock, `Run` is the
  Redis pipeline, `RunDown` what happens without Redis.

### What is made of the restaurants, and DerivedData
- `IcpScores`: the signals, weights, penalties and labels as operators on facts;
  four kinds of scoring read restaurants, then their records, and upsert the columns
  each of them names (`Columns`).
- `Qualifications`: the verdict as a function, evaluations one by one or in batches,
  reviews from read to UPDATE, and days that pass.
- `MerchantGraph`: `Find` and `Make` an entity, then `Link` it, search by search, to the
  peers its transaction sees; the unique keys of both tables make requests wait.
- `Tracking`: tokens that expire, visits that the broker loses or repeats, `Take`, then
  `Skip` or `Insert`, against `Erase`.
- `EngagementScores`: events and activities of the leads, and the hourly and the daily
  task, each in three steps: whom it counts, what it reads of them, its commit.

### The composites
`BackOffice` instantiates the eleven modules of the office side; `DerivedData` extends
`ClusterExpansion` and instantiates `CrawlJobs` and the five modules above. Both take
the constants of their services as their own, and `MCBackOffice` and
`MCClusterExpansion` give them the values of the small instances. The services share
no rows, so an invariant of one cannot depend on the others: `Init` picks the service
of a behaviour, the others stay as they began, and the product of the state spaces is
not built. (`MCBackOffice` also lets the services that do not run begin in one way
only.) An invariant of a composite joins promises of one kind; each of its conjuncts is
a definition of the module it is about, with a comment there, and has a mutant of that
module.

Definitions marked "wrong on purpose" are the mutants of `PROJECT.json`: each is
the change of one mapped definition that a plausible bug would make, and TLC
finds the property it is paired with violated. No specification uses them.

## 3. The runs

| run | checks | instance |
|---|---|---|
| `email_events` | type, opt-out follows row, status backed by event, history ends at status, events accounted, refinement of `CommLifecycle`, queue drains | 2 workers, 2 targets and leads, 2 posts of 4 batches, 1 retry, 1 fault |
| `status_race` (violation) | terminal statuses stay | the events of one mail split over two posts |
| `lost_events` (violation) | events accounted | a repeated event grouped with a new one |
| `outreach_send` | type, repeats are faults, sent is recorded, one late mail, queued is given up | a mail (2 faults, 1 retry) and a text message (1 fault) to one target |
| `promotion` | type, nobody left out, counts, records agree, promotion ends | 2 requests with two restaurants in opposite orders, an unknown id, a campaign, 1 fault, 1 stage change |
| `promotion_race` (violation) | qualified lead advances | 1 restaurant, no fault |
| `crawl_jobs` | type, the job tells the records, copies are faults, jobs settle | a task and the crawl of a city of 2 ZIP codes over 3 restaurants in opposite orders, an unknown source, 1 fault |
| `done_jobs_kept` (violation) | finished jobs deleted | the same |
| `lead_records` | type, erased stays erased, contacts explained, someone moves | 2 people of one restaurant, two kinds of personal columns, any 3 requests |
| `second_erasure` (violation) | erasure redacts | the same |
| `cluster_expansion` | types, planned once, launches apart, detection complete; scores tell facts, reviews tell status, graph links peers, findings accounted | clusters: 2 workers, 4 restaurants on a street, 5 requests of any kind; one service at a time: a request for every source beside a task and a city without ZIP codes, 2 scorings of 2 restaurants, 2 results with 2 reviews, 3 entities and 2 builds, 3 tokens and 2 visits, 2 leads and 2 runs |
| `back_office` | types, duplicates explained, histories tell state, campaigns tell work, access ends, records tell work | one service at a time, 2 workers: 3 queue items; 4 prompt versions; 5 leads on 3 variants, a sample of 2; 3 versions of a setting with two values; 2 signals, a restaurant and one that a crawl adds, 2 snapshots, 2 jobs; 1 target and 3 commits; 2 moves, 2 posts, 2 writes of a lead; a pipeline; 4 writes of a campaign's status; 3 tokens and 3 requests within 3 ticks |

What they show. The passing runs say that, under the interleavings and faults of
the instance, what is committed stays consistent, and they say exactly when it
does not: `RepeatsAreFaults` and `SentIsRecorded` count the faults, and
`DanglingExplained`, `OrphanExplained`, `SharedExplained` and `ErasedStaysErased`
name the only overlaps, merges and PATCHes that leave a lead and its contact in
disagreement (the first three are `ContactsExplained`). `QueuedIsGivenUp` says what
retries are for: a mail that is through leaves its target queued only if a fault hit it
that no later attempt made up for.

In `cluster_expansion` nothing but a unique key of another table keeps expansions
from planning a restaurant twice, and nothing keeps overlapping launches from
contacting it twice: `LaunchesApart` says that the overlap is the only way.
`DuplicatesExplained` says the same of the rep queue (two populates at once, or a
claim that brings a finished item back).

`HistoriesTellState` of `back_office` is four promises about versions. Prompts: after an
overlap two versions may be active or none, `get_active_prompt` then fails, and one
rollback that meets no other request repairs it; and an update that nothing overtook is
refused by the unique key only after a rollback, which may bring back a version whose
successor is there already (`RefusalsExplained`: every update is refused then, until
someone rolls to the newest). Settings and scoring profiles: changes that do not overlap
get numbers of their own and are not undone; a snapshot may give weights that were not
written, because they were those that had been read (`wrote`). The CRM: history rows form
a chain that ends at the value, but for overlaps; the qualification task keeps no
history, but what it wrote over is known, since the value is then the qualified stage. `CampaignsTellWork`: an answer of a lead is
taken back only by hand or by a request that had read it earlier, the funnel narrows
when no target changed between the counts and no other calculation between the look at
the row and its UPDATE (`calm`; with two of them the row may mix both), a pause has its anomaly and a winner its
sample. `AccessEnds`: after the deactivation of a client, and the lifetime of a token,
only tokens of requests that were under way get through, no more than there were
such requests, and none of those is refreshed; the limiter lets in who
the requests of the window, refused ones included, leave room for. `RecordsTellWork`:
the stages of a pipeline, the deal of a lead, and the counts of a recalculation: those of
the restaurants it listed, which are no fewer than it had counted (a crawl may add some in
between and later; `total` and `processed` of a completed job need not be equal).

`ScoresTellFacts` of `cluster_expansion` compares totals over every listing of the
abstraction: a chain, fewer platforms, fewer reviews, a lower rating or an older POS
never scores more; and after the task has stored a score beside columns it does not
write, the next scoring of another kind makes the breakdown add up again.
`FindingsAccounted`: one event per token, whatever was delivered twice; the records of
a source once, whatever the other sources of the request did (for the ZIP codes of a
city `CopiesAreFaults` in `crawl_jobs`).

`email_events` takes batches in which every event of a target that asks for a
status arrives in one batch and repeats come as the same batch; the lifecycle,
and that no event is lost, hold only then. The two violation runs drop one of
these conditions each.

The violation runs each refute a sentence of the repository:

- `status_race`: "Terminal states - no outbound transitions"
  (`services/communication_status.py:62`). The status is read without a lock and
  written later; "delivered" overwrites a committed "bounced".
- `lost_events`: "For each event: ... Creates a TrackerEvent"
  (`tasks/email_tasks.py:120-123`). The rollback after a duplicate drops the
  earlier events of the batch.
- `promotion_race`: "the Lead's lifecycle_stage and status are updated"
  (`tasks/qualification_tasks.py:28-30`). The task runs before the lead is
  committed, finds none and is not repeated.
- `done_jobs_kept`: "Delete completed/failed jobs older than retention period"
  (`services/cleanup.py:88`). A crawl task writes "done", which the DELETE does
  not name.
- `second_erasure`: "all personally-identifying fields are overwritten"
  (`api/routers/leads.py:173-174`). All erased leads get one address and the
  address is unique: the second erasure fails.

### Bounds, and why they are enough
Every property is about at most two transactions that meet and one thing that
goes wrong: two workers or requests give every interleaving of two, including
the circle of two that waits (a third adds another waiter, not another kind of
conflict). Two targets, restaurants or leads are needed for opposite lock
orders, and two posts for a repeat. `MaxRetries = 1` has the first attempt, the
retry and the exhausted retry; a mail gets two faults so that a retry can fail
too. `LeadRecords` has three requests because its worst cases are a form, a merge
and an erasure of one lead. The requests are interchangeable, so that run uses
symmetry; it checks no liveness. Its deadlock check is off because each request is
used once and the system stops when all have ended; `SomeoneMoves` asks instead
that, as long as one is under way, one can go on: that it is `Ready`, the guards of the
actions of `Work`, whose effects are always possible. In `cluster_expansion` five requests
are enough for a detection, an expansion, two launches and one that interferes,
two at a time, and the four restaurants (two at one place) give groups that depend on the
order of the scan, a group and a restaurant left over, and targets in reach;
workers are interchangeable, restaurants are not. Three queue items of a restaurant are an
item, its duplicate and one more; four versions allow an update from each side of an
overlap and another after it; five leads give two variants a sample of two and a third one
too few. Two restaurants, of which one is found late, give a crawl between count, list and
end of a recalculation. Three commits do not reach every mix of two calculations, whose
proof needs no bound. Three versions of a setting are one before an overlap and the two that
overlap; two moves of a deal and two posts are a late and a repeated batch; three
ticks let a window, or a token's life, end and another begin; three tokens are one, its
refresh and one that is under way. Two facts per restaurant, one on each side of the
thresholds, and three restaurants of which two share a ZIP code give every kind of
edge and, with one peer per search, the limit. The three facts of a qualification are
one per verdict. `ScoreMonotone` ranges over all facts of the abstraction, with the numbers of
reviews at which a signal or a penalty changes (`MCLogs`) and two densities; the theorem
needs neither limit. The two composites leave out overlaps of different services, which
have no row in common. Both runs check no liveness and turn
the deadlock check off because requests, rows and leads run out.
`OutreachSend` and `CrawlJobs`
bound faults per request or job, and `MaxConsents`, `MaxMoves`, `MaxPosts` cap what
would repeat for ever.

### Fairness
Liveness is checked under weak fairness of what the runtime schedules, never of
what goes wrong: as long as workers, requests or queued tasks can go on, one of
them does (Celery's pool, the event loop) or PostgreSQL's deadlock detector ends
a circle of waiting transactions (`DeadlockVictim`). That no single worker is
starved is not assumed: nothing here runs for ever, so it is not needed. In `CrawlJobs` time passes
(`Tick`) and the beat schedule runs the daily cleanup (`tasks/celery_app.py`).
Posts, sends, unsubscribes, faults and stage changes are not fair.

## 4. The proofs

A proof module per component that EXTENDS it. The theorems hold for all constants that
meet the named assumptions of the modules, which TLC evaluates on the instances. Each
rests on an inductive invariant, since none of the properties is inductive by itself;
TLC checked the invariants on the instances of the runs before they were proved.

`EmailEventsProofs`
- `Typed`: `[]TypeOK`, a busy worker being at an event of its batch.
- `OptOutNotLost`: `[]OptOutFollowsRecord`. It is not inductive: between the opt-out
  and the commit both are in the open transaction, so the invariant says of each
  transaction that a row it has written is accompanied by its opt-out (committed
  or in the same transaction), and of a worker about to record an event that the
  opt-out is made. A rollback drops both.
- `StatusBacked`: `[]StatusBackedByEvent`, from the same for the moves of a
  transaction and the event a worker is at.
- `HistoryTellsStatus`: `[]HistoryEndsAtStatus`: a commit appends the moves of the
  transaction and sets the status to the last of them.
- `NothingFromNowhere`: every history row is a transition of the table from queued or from an
  earlier row of its target, and the status is the last row, with no condition on the
  posts: a stale read may repeat a step of the table, never make one up. `PastInv` says that
  what a worker has read, its object in the session included, was the status once
  (`StatusIsPast`, `SeenIsPast`), and that the moves of its transaction are explained by that.
  The stronger promise, that a status moves along the table from one commit to the next
  (`FollowsLifecycle`), is false in general, as `status_race` shows; it holds on the instance of
  `email_events` and is only model-checked there.
- `BatchesAccounted`: `[]EventsAccounted` for a provider that may repeat a batch but not put
  an event it repeats into another one (`GroupedAlike`; `SeparateBatches` meets it,
  `RegroupedBatches`, the instance of `lost_events`, does not, and there the property is
  false). `AccountInv` says that a worker has noted every event it has behind it, in the
  database or in its transaction, and that the events of a batch are stored together or not
  at all, so that the rollback on a duplicate drops only what an earlier commit has stored.

`OutreachSendProofs`
- `TypeCorrect`, `RepeatsOnlyByFault` (`RepeatsAreFaults`), `SendsRecorded` (`SentIsRecorded`),
  `AtMostOneLateMail` (`OneLateMail`), `GivenUpByFault` (`QueuedIsGivenUp`), for any numbers of
  requests, retries and faults. `Paid` keeps
  the account of a request step by step: each attempt but the running one was ended by a
  fault, a message the provider answered for is accepted, and what will not be recorded is
  not sent or is paid for. The messages of a request are then counted by their attempts.
  `LateMeetsGate` says that the lead of a late mail has opted out and its request is past
  the provider, so that no later attempt gets through the gate. `AllRepaid` adds that
  each retry was made for a fault, and that an attempt under way has read its target queued,
  so that its commit will move it, or the target has been moved already.

`ProspectPromotionProofs`
- `TypeCorrect`, `NobodyForgotten` (`NobodyLeftOut`), `CountsTell` (`CountsTellLeads`), `RecordsStayInStep`
  (`RecordsAgree`), for batches of any length, with repeated and unknown ids. The
  properties speak of answered requests; the invariant says of every position a request has
  dealt with that it is failed, somebody's lead or its own uncommitted one (`AllServed`),
  that result and open transaction tell the same (`Book`), that a dispatched task has a
  lead which only the loss of the whole request undoes (`Handed`), and extends "one lead"
  and "targets name their lead" to what is not committed yet (`OneLead`, `TargetRows`).

`CrawlJobsProofs`
- `TypeCorrect`, `RowsTellRecords` (`JobTellsRecords`), `CopiesOnlyByFault` (`CopiesAreFaults`), for any jobs,
  sources and restaurants. `StoredOnce` counts the copies by the sources a job has behind it
  and by how often it started over; `DoneStored` and `FailedEmpty` say for each place of the
  program, the failed crawl that has not left its session among them, what is stored when
  the row may come to be called done or failed, the cleanup's marks included.

`LeadRecordsProofs`
- `TypeCorrect`: `[]TypeOK`. The strengthening `Equipped` says what a
  request under way has in hand (a flushed form has a lead, a merge two, an
  erasure a stored one).
- `ErasureStays`: `[]ErasedStaysErased`. The strengthening `ErasedInv` adds that no
  request under way could still write an erased lead (`CanWrite`: forms look up by
  an address no erased row has, events by a contact no erased row names, and a
  merge or PATCH that would fill one puts it into `overlap`), what an erased row has left
  of the business, and that no row is born erased.
- `ContactsAgree`: `[]ContactsExplained`, in three layers. `OwnInv`: a row nobody touched
  names a contact of the person whose address it has, no two rows have one address, and
  forms that have flushed are at different rows; so a contact is shared by a merge or a
  PATCH only.
  `GoneInv`: each contact that is gone was deleted by an erasure after which every row that
  still names it was touched. `FoundInv`: each contact HubSpot has is named by an
  untouched row, or a request tells why not; what a request has read of a link still
  holds, or a form has written the link since (`LinkRead`).
  The proofs need that identifiers of people and of restaurants are different
  (`LeadAssumption`): they are keys of different tables.
- `NobodyStuck`: `[]SomeoneMoves`. A form keeps its row and restaurant locked through its calls
  of HubSpot. `MovesInv` adds that a restaurant has one holder (`OneHolder`), so that of the
  forms that have flushed one always gets through (`HolderMoves`); when there is none,
  nothing is locked, and a request waits for nothing but, if it is a form of an
  address no row has, a new row: only one row has the address of the erased, so
  that its person has one left (`Addresses`, `RowIsFree`). The bound on the rows of a
  person is thus never what stops a request.

`ClusterExpansionProofs`
- `TypeCorrect`: `[]TypeOK`. Besides, a transaction about a cluster names a row (`Named`).
- `NeverPlannedTwice`: `[]PlannedOnce`. The unique key is one of members, not of plans,
  so `PlanInv` relates the tables: every plan has a member row
  (`PlansAreMembers`); a transaction that has passed `Insert` holds keys no
  committed row has (`KeysAreFree`) and no other transaction inserts
  (`KeysAreHeld`); a launch's copies are plans of the table (`LaunchesReadPlans`).
- `LaunchesDisjoint`: `[]LaunchesApart`. `TargetInv` adds that the plan of a contacted
  restaurant is in progress for good (`ContactedIsLaunched`) and that a launch under
  way has read no plan whose target was committed before it began
  (`LaunchesReadUncontacted`); it needs `PlannedOnce`, or another plan of the
  restaurant could still be planned.
- `DetectionsFindAll`: `[]DetectionComplete`. `Scanned` says it of the part of the pool that was
  looked at: whoever is still free had too few free neighbors when it was its turn, and
  the free ones only become fewer.

`BackOfficeProofs`: a theorem for each promise of a service, then the composition.
- `QueueDuplicates` (`DuplicatesExplained`). A populate under way has seen rows that are there
  and those of the restaurants it adds were finished when it looked (`Populating`): an open
  item it doubles was committed later or brought back.
- `DeactivationEndsAccess` (`DeactivationEnds`). `TokensTell` and `RequestsTell` bound what a token
  made before the deactivation can do; `UnderwayKept` counts: the late tokens and the
  requests that have checked the client but not stored their token are together no more
  than the requests under way when it was deactivated.
- `OneVersionActive` (`OneActive` and `RefusalsExplained`): what a request has read of the versions and of the active
  ones (`HasRead`) still holds as long as nobody else has committed.
- `HistoryTellsSetting` (`HistoryTellsValue`): what a change starts from is the entry's value as
  long as no version was committed since it had read the entry (`Changes`), whatever it
  has counted after that.
- `SnapshotsTellProfile` (`VersionsExplained`): an update carries the weights it had read but
  for those it changes, and these are what the snapshots say that it has seen (`Carries`,
  `Holds`); it writes them only if they differ. The proof attempt showed an earlier form of the property to be false with more
  snapshots than the run has: it asked the overlap of a neighbouring snapshot. The property
  now looks for it anywhere between the two snapshots that disagree.
- `HistoryChained` (`HistoryIsChain`) and `DealFollowed` (`LeadFollowsDeal`). The writes form a
  chain that ends at the value where each has seen the one before (`Chain`), the writes of
  one batch are linked to what it has read (`Linked`), and what a deal event writes is the
  stage of its move (`Told`).
- `WindowTells` (`WindowTellsWho`): Redis holds stamps of requests, and all of those that a
  window may still reach (`LimiterInv`), so that its count is that of `Stamps`.
- `PausesTold` (`PausesExplained`): a check that writes a pause has found the campaign active, and
  so it is as long as nobody has written its status (`Checks`).
- `WinnerSampled` (`WinnerHasSample`): a declaration under way has found a sample of the winner
  and of a rival (`Judges`, `Sampled`), and samples do not become smaller, since assignments
  are never undone and an outcome is only replaced by another.
- `AnswersKept` (`AdvanceKept`): a request that writes a target knows what the writes it has read
  had earned (`Knows`, `Honours`). `FunnelKept` (`FunnelNarrows`): the counts made so far are those
  of the present targets as long as no transaction has changed them (`Counts`); the row it
  leaves is its own if no column was changed under it.
- `PipelinesTell` (`PipelineTellsStages`): the rows of a run are those of consecutive stages, all
  but the last with success (`Follows`), and a restaurant is qualified and a lead closed
  only for a caller who named it (`Named`).
- `JobsTell` (`JobsExplained`): a scoring knows whether its restaurant has an explanation, as of
  the rows it has seen (`Looked`); rows are only added (`Further`), and a job is told by them
  ever after (`JobTold`).
- `QueueTold`, `HistoriesTold`, `CampaignsTold`, `AccessEnded`, `RecordsTold`: the five invariants of
  the run `back_office`, for every `BackOffice`. `StepsApart` splits a step of the composite: the
  service of the behaviour takes it and the others stutter; from it the behaviour of
  each service is one of its own specification (`QueueApart` and its like), and the
  theorem of the service carries over.
- `ServicesTyped` (`TypesOK`): the types of each service by itself (`TestsTyped`, `PromptsTyped` and
  their like), with what its invariants say of the transactions under way. The total of an
  explanation is a sum over the signals, a recursive function: that a sum of integers over
  a finite set is an integer (`SumOfIntegers`) is shown without an induction theorem, whose
  operator parameter the provers cannot instantiate, by the least size of a subset
  whose sum would not be one. From there `TotalInRange`: a score stays in its range whatever
  the weights and the rules, negative ones included.

`DerivedDataProofs`: the same for what is made of the restaurants.
- `PeersAreLinked` (`GraphLinksPeers`). `Sound` says of a build that what it has ready is
  linked to all that was there when it began and to one another, and what it has at hand
  by the searches made so far, unless a search was cut off; builds that overlap are the
  exception the property names.
- `VisitsLeaveEvents` (`VisitsAccounted`): each visit is in the broker, at a worker, stored or
  excused; a task that found an event of its token still finds it or the lead was erased
  (`Remembers`).
- `StatusTellsReviews` (`ReviewsTellStatus`, with its types): a stored status and its dates come
  from the last decision (`Tells`), and a review that has read all reviews there are has
  read the status there is (`Knows`).
- `EventsTold` (`ScoreTellsEvents`): a run counts its audience as it is as long as nothing has
  changed since it began, and has read the score there is as long as no other run was
  committed (`Current`).
- `BetterScoresMore` (`ScoreMonotone`), for all facts of the abstraction, any numbers of
  reviews and any density: signal by signal (`NoWorse`), with each weight and penalty as
  in the code. Of the logarithm in `volume_proxy_score` it uses only that it is a share and
  grows with the reviews (`LogsGrow`). `BreakdownsTold`
  (`BreakdownTellsTotal`): whatever columns a scoring does not write, the row it leaves adds up
  (`Agrees`, `Fine`); the most neighbours a restaurant has exist by the well-foundedness of
  the naturals.
- The crawls are those of `CrawlJobsProofs`, instantiated (`CrawlsTell`).
- `ReviewsTold`, `PeersLinked`, `FindingsTold`, `ScoresTold`, `ValuesTyped`: the invariants of the run
  `cluster_expansion` about these services, for every `DerivedData`, from their theorems by
  `StepsApart` as above. `ValuesTyped` bounds the numbers too: a build, task or run
  that had begun may pass a limit, and the open ones are counted (`GraphTypes`).

Assumptions the proofs added to the models, each true of the code: the restaurants, leads
or workers that are counted are finite sets; NULL is no value of a column; a missing
configuration is no entry; the searches of the graph are a list; weights and points of a
profile are integers; a prompt can have a version; `min(log10(n + 1) / 3, 1)` is between 0
and 1 and grows with `n` (`scoring/signals.py:210`).

Only model-checked, and why:
- liveness (`QueueDrains`, `PromotionEnds`, `JobsSettle`): fairness and
  `ENABLED` are beyond the prover. `SomeoneMoves` is stated with guards for that reason;
- that the five sentences the violation runs refute are false: these are counterexamples.

## 5. What is left out, and why

In the modelled parts: signatures, parsing, wording, time stamps and templates
(no property tells them apart); the match of a company and what an agent computes
(choices); the parallel sub-requests of one crawl; quiet hours and bulk sends; the
flywheel score of a cluster (a choice), the rounding of experiment means, the
context and outcome text of queue items and a rep's ranking; the retention of
communications (`services/compliance.py`, `cleanup_expired_data`); the audit trail; the deal
a `PATCH /leads/{id}` may name; a crawl the dashboard runs in the background, which marks
its job completed after the crawl has swallowed its failure and marked it failed
(`dashboard/routes.py:445-473`), so that the promise of `JobTellsRecords` is not made for it. The rows an
expansion or launch writes are one commit. PostgreSQL, Celery, Redis and HubSpot
are modelled from how the code uses them and marked external in the map.

Not modelled at all, and why:
- aggregates for reading (analytics, metrics, reports, rankings): no state of their own;
- text generation and ratings of texts, parsing of the crawlers, language models:
  external I/O whose results are data elsewhere;
- discovery of a place on demand (`api/discover.py`): the upsert loop of `CrawlJobs` once
  more in a request, without a job. After a database error its last commit is a
  rollback, and it still returns the records it has not stored;
- normal forms of addresses, website enrichment, neighbourhoods: string functions;
- the cycle two merges of leads in opposite directions make (`api/routers/crm.py:619`
  asks only the source whether it was merged), and the outcome of a queue item that
  the ORM does not write (`services/rep_queue.py:138`): the code states no promise about
  either;
- notifications, seeds and HTML pages.

Observations made while modelling, which no run refutes because nothing in the
repository is contradicted by a behaviour, or because the code is not reached:
- A pipeline that starts at discovery with ZIP codes alone cannot get past
  qualification: what discovery finds is not handed on (`PipelineTellsStages`).
- `revoke_token` and `is_token_revoked` are called by no endpoint and no check, and no
  router uses `rate_limit`. `RateLimiter` models the dependency as it would run.
- `tasks/anomaly_tasks.py` ("Runs every 30 minutes via celery beat schedule") is
  neither in the schedule nor among the worker's modules, and imports a session
  factory that does not exist.
- An entity of the merchant graph is made once and never updated, though its endpoint
  is documented as "Create or update"; the search by cuisine looks at two cuisines of
  one side only, so that it need not be symmetric (`Related` is therefore a set of
  ordered pairs).
- A visit whose target was erased is dropped as a duplicate; a token of a text
  message without a target may still store an event of an erased lead.
- The crawl of a city without ZIP codes leaves its job running until the cleanup
  marks it failed (`CreateCity`).

## 6. Plan

All modules of the plan are there, and every safety invariant and action property that a
passing run checks is stated by a theorem. What is left to TLC alone is liveness, for the
reason § 4 gives. The next components to model would be those of § 5 that get a promise
of their own: the outcome of a queue item and the merge of a lead that was merged.
