# ConsentOS: TLA+ models, model checking and proofs

ConsentOS is a consent management platform: an API with a Postgres database,
Redis and Celery workers, a cookie scanner with its own browser service, a
banner that runs on visitors' pages, an admin interface and two mobile SDKs.
This directory holds its formal models. Every definition is translated from the
code; the `map` of `PROJECT.json` names the lines each one stands for.

## 1. Inventory

| Component | Code | State | Operations | Hard behaviour | What makes it correct |
| --- | --- | --- | --- | --- | --- |
| Draft tables | `routers/{sites,cookies,translations,org_config,site_group_config,site_groups}.py`, `services/config_snapshot.py`, `config_resolver.py`, migration 0013 | `site_configs`, `translations`, `cookies`, `cookie_allow_list`, defaults of organisation and group, membership of a group | saves, snapshot, restore, join, leave and delete a group, upgrade | saves commit between the SELECTs of a snapshot; four layers read by three pieces of code | a snapshot is what the publisher saw; the layers are told as they are served |
| Publishing | `services/config_publishing.py`, `routers/revisions.py` | `site_config_revisions`, `sites.live_revision_id`, `publish_attempts`, row locks | review, publish, rollback, discard | several sessions, waits for a row lock, refusals and errors logged in a second transaction | no draft is published twice or unseen; numbers and consent versions; the log agrees with history; a visitor is served what a session asked for, whole |
| Bulk publish | `config_publishing.bulk_publish`, `_publish_one` | the same, many locks in one transaction | publish a list of sites | locks taken in request order, savepoints, deadlock, results that are sent before the commit | a batch takes effect as it says or not at all; batches end |
| Serving | `routers/config.py`, `services/{config_resolver,geoip,config_preview}.py` | none: reads the live revision | `geo-resolved`, preview | headers, address databases, regions that fall back | serves the live revision, in the visitor's region |
| Scan jobs | `services/scanner.py`, `tasks/scanner.py`, `routers/scanner.py`, `celery_app.py` | `scan_jobs`, `scan_results`, `cookies`, the task queue | start, run, retry, recover, sync | redelivery, lost workers, timeouts that race a live worker, read-then-write | a scan ends; a completed scan is in the inventory |
| Scanner service | `apps/scanner/src` | the crawl, the page that is open, a stream of events; a validation's visits | crawl a site, validate a page's consent | a page that acts at any moment, a client that leaves, timeouts | the stream adds up; what is found belongs to its page and its visit; a request ends |
| Cookie classification | `services/classification.py`, `routers/cookies.py` | `cookies`, allow-list, known cookies | classify a site, save rules, sync a scan | three reads before one flush, two writers that lock the same rows | an allow-list entry decides; a request is whole; the matcher is right and cheap |
| Compliance checks | `services/compliance.py`, `routers/compliance.py` | none: reads the site's row | check | judges one layer, visitors get four | a pass means what it says |
| Cookie reports | `routers/scanner.py` `/report`, banner `reporter.ts` | `cookies` | upsert | two inserts of one cookie | one row per cookie |
| Consent banner | `apps/banner/src/{loader,banner,consent,reconsent,blocking-mode,site-config}.ts`, `routers/consent_bridge.py` | a site's consent cookie, the group's cookie, each page's banners and granted categories, messages between tabs | load, decide, dismiss, SDK, preview, bridge, cross-tab sync, re-consent | other tabs, a frame that answers late, an expiry at any time | only decisions are stored; only choices cross from site to site; withdrawal is at hand |
| Script blocker | `apps/banner/src/blocker.ts` | accepted categories, the queue of held scripts | hook, observe, release | URL, insertion, observation and consent in any order | nothing starts without its consent, nothing waits with it |
| Consent records | `routers/consent.py`, `tasks/retention.py` | `consent_records` | record, purge | a purge that reads, then deletes, and may fail | a record stays for its retention and goes after it |
| Rate limiting | `middleware/rate_limit.py` | a Redis key per address and minute | count, refuse | requests that share a key, Redis away | no minute exceeds its limit |
| Installation | `services/installation.py`, `routers/installation.py` | last sighting, last check, throttle keys | note a visit, check a page | sightings, checks and keys that overlap | a fixed page is shown as installed in the end |
| Consent signals | `tcf.ts`, `gpp*.ts`, `gcm.ts`, `gpc.ts`, `shopify.ts` | command queues, strings | encode | - | - |
| Accounts, telemetry, admin interface, mobile SDKs, deployment | rest | single rows or none | CRUD, HTTP | little that is shared | - |

The behaviour that no test of the repository reaches is listed under `hazards`
in `PROJECT.json`, at its line, with the properties that would catch it.

## 2. Plan

In order of importance; what is done is marked.

1. **Publishing** (done): `SiteDraft`, `ConfigPublishing`, the abstract
   `ServedConfig`, and `PublishingRefinement` between the two.
2. **Bulk publish** (done): one transaction over many sites.
3. **Scan jobs** (done but for result pages and error texts).
4. **Banner and blocker** (done but for storage and signals): `ConsentBanner`,
   `ScriptBlocker`, and `VisitorPages`, which composes them.
5. **Classification** (done but for vendors and regular expressions):
   `CookieClassification`, `PatternMatch`.
6. **Settings** (done but for locales): the cascade, regions, compliance rules.
7. **Visits** (done): installation, consent records, rate limiter.
8. **Scanner service** (done but for the browser itself): `SiteCrawl`,
   `ConsentValidation`.
9. Left: the command queues of the TCF and GPP APIs, the mobile SDKs' offline
   queue, the blocker's proxies of cookies and storage.

## 3. Modules

| Module | What it is |
| --- | --- |
| `SiteDraft` | the tables an editor saves into, every save, what a snapshot takes and what a discard writes back |
| `ConfigPublishing` | EXTENDS `SiteDraft` with requests, row locks, revisions, the live pointer and the attempt log |
| `ServedConfig` | abstract: sessions are shown a content, ask for it or for an earlier one, and visitors are served what was asked for, in one step, under a kept or a fresh consent version |
| `PublishingRefinement` | the refinement mapping from `ConfigPublishing` to `ServedConfig` |
| `BulkPublish` | batches of sites in one transaction: savepoints, two kinds of row lock, deadlock and its victim |
| `ScanJobs` | the life of scan jobs among starters, the queue, workers, the sweep and visitors |
| `SiteCrawl` | one crawl request, from its sitemaps to the lines of its stream |
| `ConsentValidation` | one validation request: a visit, Accept, a second visit, Reject |
| `ScannerService` | either of the two |
| `ConfigLayers` | the four layers of a configuration, saves in each, membership of a group, the upgrade's backfill |
| `VisitorRegion` | how a request's region is found and which mode it gets; EXTENDS `ConfigLayers` |
| `ComplianceRules` | the rule engine and the context it reads; EXTENDS `VisitorRegion` |
| `Installation` | sightings, checks and the installation state |
| `ConsentRecords` | visitors behind the rate limiter, consent records and the daily purge |
| `SiteVisits` | either of the two |
| `PatternMatch` | the wildcard matcher, one action per pass of its loops |
| `CookieClassification` | a classify request and a scan's sync over the same rows |
| `Classification` | either of the two |
| `ConsentBanner` | pages of a group's sites in tabs, cookies, frames and messages |
| `ScriptBlocker` | one classified script element on a page |
| `VisitorPages` | the banner's pages with a script on one of them: the page's granted categories are the blocker's |
| `MC...` | constants, and symmetry, for TLC |
| `..._proofs` | theorems and proofs about the module of that name, or about one that composes it: `ConfigPublishing_proofs` proves the refinement too, `ConfigLayers_proofs` a rule of `ComplianceRules`, `Classification_proofs` the matcher, `ScannerService_proofs` both requests |

`XOther` that stands before `X` under a comment "Mutation of X" is a plausible
bug in the code `X` models; `mutants` of `PROJECT.json` says which property it
must break. No specification uses one.

`ScannerService`, `SiteVisits` and `Classification` put two components side by
side that share no state, so one behaviour is one or the other: nothing is lost,
since a step of one changes nothing the other reads. `ConfigPublishing`,
`PublishingRefinement`, `ComplianceRules` and `VisitorPages` compose components
that do interact.

### Publishing

| Variable | Code |
| --- | --- |
| `settings`, `texts`, `cookies`, `allow` | the rows of `site_configs`, `translations`, `cookies`, `cookie_allow_list` of a site |
| `defaults` | organisation and site group defaults, as one level |
| `status` | `sites.is_active`, `sites.deleted_at` |
| `lock` | who has the sites row `FOR UPDATE` |
| `revisions`, `live`, `attempts` | `site_config_revisions` in the order of commits, `sites.live_revision_id`, `publish_attempts` |
| `pc`, `req` | a request in progress and what it has read into Python objects |
| `reviewed` | the draft hash a session was last shown, which its publish sends back |

One action per SELECT or decision of a request: `Begin` (`_require_org_site`),
`Lock` (`_lock_site`), `ReadSettings`, `ReadConfig`, `ReadTexts`, `ReadServed`,
`ReadLayer` (the SELECTs of `build_site_snapshot`, grouped where nothing that is modelled can
be told apart between them), `CheckPublish`, `CheckRollback`, `TakeNumber`,
`Commit`, `Restore` (`discard_draft`), `LogFailure` (`_record_failure`), `Fail`.
Postgres runs READ COMMITTED, so any save may commit between two of them; a save
that inserts a row referencing the site takes `FOR KEY SHARE` and waits for a
publisher's lock, one that updates does not. A hash is the snapshot it hashes,
so collisions of SHA-256 are left out. A new site has its row of settings from
`create_site`.

`ServedConfig` knows none of this. Its `shown` is what a session's last review
showed, its `asked` the publish or rollback the session waits for, its `past` and
`used` what has been served and under which versions. `PublishingRefinement` maps
`reviewed`, the requests in progress and the history to them, so that a publish
which puts live what nobody was shown, a rollback to what was never served, and a
save that reaches visitors by itself are no steps of it.

### Bulk publish

A batch goes through `Request`, then per site `NextItem`, `LockItem`,
`CheckItem`, `EndItem`, or `FailItem` and `LogFailure`, then `Answer`,
which sends the results, and `Commit`, which `get_db` makes after the response is
out. A crash between the two loses a batch that was reported. A succeeded site keeps its row until the end of the batch. A failed one goes back
to the savepoint, which frees the row, but its log entry is written outside the
savepoint, references the site and takes a share of its lock (`sharers`).
Postgres breaks a circle of waits by failing one waiter (`Victim`): inside a
savepoint that fails the item, outside it the whole request. A draft is a
version number here: how a single site is read and checked is the matter of
`ConfigPublishing`.

### Scan jobs

| Variable | Code |
| --- | --- |
| `jobs`, `results`, `inventory` | `scan_jobs`, `scan_results`, `cookies` |
| `stale` | jobs whose `updated_at` is older than their timeout (`_is_stale`) |
| `queue` | messages of `run_scan` in the broker, by retry count |
| `worker`, `starter`, `sweep` | what a Celery worker, a caller of `start_scan`, a run of `recover_stale_scans` has read and not yet written |

Reads and later writes are separate actions, since nothing locks a job. A
message is gone from the broker when taken and comes back when the worker dies
(`Crash`, because of `task_acks_late`). `ReadActive`/`CreateJob`/`Dispatch` are
`start_scan` with its two commits; `Take` to `Acknowledge` are `run_scan`;
`SweepRead`/`SweepWrite` are the sweep. Time is the action `Age`: a job may
become stale whenever nobody is bound to write it in time (`KeptFresh`).

### Scanner service

`SiteCrawl` begins with every web of three sitemaps (an index lists later ones
only, so that the recursion ends) and every request. Which pages are crawled is
a function of the two; `Prepare`, `Launch` and the pages are actions. An open page
goes through the crawler's waits (`Loaded`, `FirstPass`, `SecondPass`,
`ReadLocal`, `ReadSession`) while `PageActs` sets and drops cookies and storage
at any time and `HeaderRead` completes the asynchronous response handler late.
`events` is the `asyncio.Queue` between crawl and response, `lines` what the
API's worker has read. `Disconnect` and `Cancelled` are a client that leaves,
`PageFails` a timeout, `CloseFails` a context that cannot be closed, which ends
the crawl with an error line after its progress lines. A cookie whose header spells its domain otherwise does not
merge with the browser's, as in `_build_cookie`.

`ConsentValidation` is `run_validation` with one step per `await`: between any two
the page fires a tracker, sets a cookie or removes its banner. The accepted page is there until `page.goto` has its answer
(`Replaced`). `past` records when the page did what; the code does not know it, the properties do.

### Settings

`org`, `group` and `site` are the three rows; `Resolved` is `resolve_config`,
`Source` the walk of `/inheritance`, `Backfilled` the SQL of migration 0013. The
three are separate pieces of code that must agree. A save of one field is an
action for each endpoint; a PUT writes all of its schema's defaults. A group is
joined by a PATCH that checks before it writes, and deleted by a request that
reads the group's sites before it ungroups them.
`VisitorRegion` is evaluated over all requests there are (headers, databases that
know the address or do not, private addresses) and `ComplianceRules` over every
row that saves can reach.

### Visits

`Installation` keeps times as an order: `clock` lists who holds a time, oldest
first, which is all the code compares. `record_banner_load` is `Claim`, `Stamp`,
`Save`, a check is `Load`, `Judge`, `SaveCheck`; each may fail (`Drop`,
`Unavailable`), and a throttle key that was set before a failure stays until it
expires. In `ConsentRecords` a request takes its minute (`Arrive`) before its key
is counted (`Count`), so it may be counted in a minute that is over.
`ReadConfig` and `Delete` are the purge's two statements.

### Classification

A request reads allow-list, known cookies and rows in three statements, then its
one flush updates row after row, each locked until the commit; a scan classifies
each cookie it found, commits, and syncs them row by row. `held` is who has which
rows, `lost` rows deleted since they were read. The ORM sends the UPDATEs of two or
more rows that set the same columns together and does not count what they matched,
so only a lone UPDATE of a deleted row fails the flush: `batched` is which are sent
together, `Unnoticed` and `Flushed` what becomes of the flush; `BreakDeadlock` is Postgres failing one of two transactions that
wait for each other. `by` says who gave a row its category, and `lasting` which
rules have stood since the beginning: both for properties only.

`PatternMatch` is `_wildcard_match` with an action per branch of its loops, and
`Glob` what a pattern means: the value can be cut into a piece for each of its letters
and stars.

### Visitors' pages

A page's handler runs to its end, as JavaScript does, so a handler is one action;
tabs, fetches, frames and messages interleave. `Open` is the loader, which
applies the stored consent before it knows the configuration; `Configure` is
`init` up to its bridge request; `FrameLoads`, `Adopt`, `BridgeTimeout` and
`FrameStores` are the consent bridge's frame and its two directions;
`HandleConsent` is every decision, with what it stores, sends to the frame and
broadcasts. Each fetch chooses the mode of the configuration anew (`implicit`),
since a publish, the visitor's region and a draft all change it. `Answer`, `Dismiss`, `Sdk` and `ShowPreferences` are the ways to one,
`Receive` another tab's message, `Leave` a page that is closed at any time.
`decided` collects the decisions taken, with their sites; no code reads it.

`ScriptBlocker` follows one element through the hooks of `src` and of insertion,
the parser, the observer's microtask and the release. `VisitorPages` instantiates
it with the accepted set of the watched page, and makes every step of that page
that calls `_updateBlocker` a release as well.

## 4. Runs

| Run | Instance | What it shows |
| --- | --- | --- |
| `publish_race` | two sites, two sessions, three requests, two saves, fairness | `PublishedAsReviewed`: nothing goes live but what its session was shown last, with two saves between the SELECTs of a snapshot; `RollbackCopiesOwn` with revisions of another site to name; `RequestsEnd`: no refusal, error or failure log leaves a lock that another waits on for ever |
| `publish_refinement` | one site, two sessions, six requests, one save of any kind | `EachPublishChanges`, `ConsentVersionOnRequest`, `NumbersGapFree`, `RollbackCopiesOwn`, `AttemptsMatchHistory` over publish, rollback and publish again, with refusals and errors; `TypeOK`, `HistoryGrows`, and that the code implements `ServedConfig` |
| `bulk_publish` | two batches of two sites, each by domain or in any order, saves, refusals, crashes, fairness | `NoDeadlock`, `AsAnsweredOrNotAtAll`, `NeverBackward`, `BatchesEnd` |
| `scan_recovery` | two scans of one site, two workers, two cookies, one crash or lost message | `TypeOK`, `CompletedIsSynced` |
| `scan_liveness` | one job, two workers, a retry, one loss anywhere, database outages, fairness | `ScansEnd` |
| `scanner_service` | two pages of a site and a foreign one, three sitemaps, two changes per page; or one tracker, two cookies and three acts of a page; fairness | `StreamAddsUp`, `FoundWhereSet`, `CrawlsListed`; `VisitsApart`, `RejectMissesNothing`; `ServiceEnds` |
| `site_settings` | any three saves, a group joined, left and deleted, and over each state all requests | `InheritanceTrue`, `BackfillMatches`, `OptInPassIsServed` |
| `site_visits` | two background tasks and a check; or two visitors, two minutes, three days; fairness | `FixIsNoticed`; `LimitHolds`, `YoungRecordsStay`, `ExpiredGo` |
| `classification` | two cookies, three rules that disagree, one save; or all patterns and values of up to four characters; fairness | `OverrideWins`, `ClassifyIsWhole`, `RunsEnd`; `MatchIsGlob`, `TimeIsProduct` |
| `visitor_pages` | two tabs, two sites in any mode at each fetch, two categories, two decisions; or one page with a script | `OnlyDecisionsStored`, `WithdrawalAtHand`, `OnlyChoicesCross`; `HeldUntilGranted` |
| `scan_resurrected` | violation, no loss at all | `OneScanAtATime` |
| `tabs_apart` | violation | `TabsFollow` |

### Findings

Each is a sentence of the repository's documentation that the code does not meet;
the run's counterexample is the shortest way there.

- `scan_resurrected`. A pending scan superseded by a new one keeps its message,
  and `start_scan_job` sets it running again, beside its successor.
- `tabs_apart`. A tab that hears of another tab's decision compares it with the
  consent cookie, which the two share and the other tab has already written: it
  takes the decision for known and keeps blocking, or allowing, what it did.

### Bounds

`MaxRequests`, `MaxEdits`, `MaxSaves`, `MaxChanges`, `MaxJobs`, `MaxRetries`,
`MaxCopies`, `MaxFaults`, `MaxFailures`, `MaxVersion`,
`MaxWindow`, `MaxDay`, `MaxLoads`, `MaxDecisions`, `MaxBanners`, `MaxScripted`,
`MaxActs`, `MaxChecks`, `MaxPages` and `MaxLength` bound counters that the code
does not bound (the page limit it does), and `MaxLocs` the addresses one sitemap
lists; each stands in a guard or an initial state under its own name.

- *Publishing.* The row lock lets no third session take part in a conflict before
  one of two ends. Six requests are a review and a publish, both again after a
  save, and a rollback with one more request beside it: the second and third revision
  that numbers, versions and copies speak of. Two saves tear a snapshot between two
  drafts, two sites have each other's revisions to name: `publish_race` has both,
  and three requests.
- *Bulk publish.* Two batches of two sites close the smallest circle of waits.
- *Scans.* Two scans of one site with two workers are the smallest in which a
  message outlives its job; a crash, a redelivery and the sweep need one fault
  each. In `scan_recovery` retries are left out: a retry puts the message back as
  a crash does; `scan_liveness` has them.
- *Crawl.* With two pages a cookie can be carried into the next page, a sitemap
  can be fuller than the limit, and three sitemaps nest an index in an index. Two
  addresses in a sitemap let one child use up the limit before the next is fetched.
- *Settings.* Three saves put a value in every layer of one field, or clear one
  that a second had set; no rule reads more than three fields at once.
- *Visits.* A second task is the one that a throttle key turns away, or that
  writes its older time late. The second minute is where a request of the first
  is counted late; three days let a record outlive a retention of one.
- *Classification.* Two rows are enough for two transactions to lock them in
  either order. In four characters a pattern has two stars with a letter after
  each, where giving up the first star could matter.
- *Pages.* Two pages are two tabs of one site, two sites of the group, or one
  page after another; the second decision is the one that races the first. Two
  banners are up when preferences are opened over the first one.

The safety properties proved in section 6 hold for every value of these bounds.
Symmetry is declared only in runs without temporal properties that it would
affect. `CHECK_DEADLOCK FALSE` is set everywhere: once the bounded requests are
used up and answered, the system rests.

## 5. Fairness

- *Publishing*: `WF(Serve(u))`. A worker that has begun a request keeps running,
  and Postgres wakes the transaction that waits for a row when the holder ends.
  Nothing forces a session to ask or an editor to save.
- *Bulk publish*: `WF(Run(b))`, which includes deadlock detection. Crashes are
  allowed and not required.
- *Scan jobs*: beat fires the sweep every five minutes, workers take what is
  queued and go on, time passes (`Age`). What may be lost for ever is bounded by
  `MaxFaults`: with unbounded losses no scan need end.
- *Scanner service*: the crawl and the validation go on, since Playwright's
  timeouts end their waits, and the server sends while its client reads. A page
  need not act and a client need not leave. `/validate` waits without a timeout
  for `__tcfapi` to call back, so `ServiceEnds` assumes a page whose consent
  interface, if it has one, answers.
- *Installation*: started tasks and checks go on, keys expire, and a page that is
  up goes on having visitors. Without the last a fixed page is never noticed.
- *Consent records*: beat starts the purge day after day.
- *Classification*: strong fairness of the request's and the scan's steps, because
  Postgres grants a row lock in the order of asking, so that editors cannot keep
  one from its row for ever; weak fairness of deadlock detection.
- *Settings* and *pages* have none: their properties are safety only, and a
  visitor may leave at any time.

## 6. Proofs

`tlapm` checks every proof to its last leaf. All theorems hold for any values of
the constants, under the named assumptions of the modules, which TLC also
evaluates. `theorems` of `PROJECT.json` lists them.

**Publishing.** `IInv` is `TypeOK /\ LockInv /\ HistoryInv /\ RequestInv`.
`EachPublishChanges` alone is not inductive: the request that is about to commit
compared its draft with the live revision some steps before. So one has to know
that the pointer is on the site's newest revision (`HistoryInv`), that the live
revision and the number a request read under its lock have not changed since, and
that its draft differs from that one (`RequestInv`), and that therefore no other
request is past its lock on the same site (`LockInv`). From it follow
`NothingTwice`, `HistoryOnlyGrows`, `TypeCorrect` and `ReconsentOnRequest`, which
needs besides that a fresh consent version is above every earlier one
(`version <= index`).

The second part of the module adds `StoryInv`: besides the three properties of the
history, what every request in progress knows of the revision it is about to copy
or to log. From both follow `NoGaps`,
`CopiesOwn`, `LogIsHistory` and `SeenBeforeLive`, and `PublishingServes`: the
initial states map to initial states of `ServedConfig`, and each step to one of
its steps or a stutter: a commit to the step that serves what its session asked
for, a review's last read to one that shows, a request's start to one that asks.
`NothingAssumption` only says that the values standing for "nothing" are no
configuration, request or snapshot.

**Bulk publish.** `PanelNeverDeadlocks`: batches that list sites by domain never
wait in a circle. `OrderInv` says that every lock a batch has, held or shared,
is on a site that comes before its present item, or is that item. So a batch that
waits does so for one whose item is further on in the order of domains, and of
any set of batches the one that is furthest waits for none of the others
(`LeastExists`, by well-founded induction over `Nat` from the library's facts).
`RevisionsGoForward`: `ForwardInv` says that what a batch has made is newer than
what is live and that it holds the rows it made revisions of, so nobody else
commits to them first. `AnsweredOrNothing`: `ReportInv` follows a batch item by
item, what it has made and logged so far against what its results say, through the
answer to the commit; what a crash loses was never in the history.

**Scan jobs.** `TypeCorrect`, with `TaskInv` (a worker that is not idle has a
job). `SyncedWithoutOutages`: under `Outages = FALSE`, `CompletedIsSynced` for any
number of scans, workers, retries, crashes and lost messages. `SyncInv` says that
a completed job which is not synced is still owed its sync: a message for it is
pending, or a worker is on its way to the sync, to taking "completed" back, or
about to insert all that is missing. Each action keeps the debts of the others
and passes its own on; `Crash` turns a worker's into a message. With outages it is
false (`ScanUnsynced.cfg`): that is why the assumption is in the theorem and not
in the module.

**Settings.** `InheritanceTold` and `BackfillAlways`: that the walk, the merge and
the migration agree is a fact about three operators, proved by which layer is the
last that has a value, together with an invariant of what rows can hold.
`LayersTypeCorrect` is the invariant of types: in particular only the group's row
ever has the setting to share consent. `OptInAlways` needs no induction either: the
rule passes only if the site's row says `opt_in`, that row is the last layer, and a
mode without a mapping of regions is served to every region as it is. Its one
assumption, `NullAssumption`, is that SQL NULL is none of the three modes.

**Scanner service.** `VisitsKeptApart` and `NothingMissed` rest on `ValidationInv`:
which actions can have happened at each step of the two visits (`VisitInv`) and
what the part of the report that is already written owes to the requests seen so
far (`VerdictInv`). The one assumption is that an address of a tracker is not
the name of a cookie, since one report holds both.

`StreamIsTrue` and `FoundIsSet` rest on `CrawlInv`: everything the open page holds
it has set itself, since its context is new (`PageInv`); the pages done found
only what they set and the consent cookie the crawler planted (`PagesInv`); and the
nth line, read or still in the queue, is the progress line of the first n pages, or
the result of all of them (`StreamInv`, which also counts while the client reads: the
lines read and queued are as many as the pages done). A reader that has left owes
nothing to the queue. That the count of cookies never falls is the lemma
`UniqueGrows`; on which page an item is first found is `FirstExists`, from the
least-number principle `Least`.

`ListedIsCrawled` is about two recursive definitions, the fetch of nested sitemaps
and the plain listing it is compared with, for any number and nesting of sitemaps.
TLA+ gives a recursive function a meaning only if some function obeys its
equation, so both existence and value are proved: `JoinsExists` and `ListsExists`
build the functions position by position and sitemap by sitemap, and `ChildUrlsIs`
and `SitemapUrlsIs` show that what the loop collects, with its early end and with
the limits handed down, is the beginning of the listing. The induction is
`UpToAll`, over a set and not over an operator, which the provers can instantiate.
The root of the argument is that an index lists only later sitemaps, that is, that
sitemaps do not list each other in a circle; the code follows such a circle until
Python's recursion ends it, which is not modelled.

**Consent records.** `CountInv`: a key never lets through more than it has
counted, so `LimitAlways`; `PurgeInv`: the retention a purge works with is above
zero and its cutoff is no later than today's, so `YoungStay`.

**Classification.** `OverrideHolds`: `ClassifyInv` says that whoever is about to
classify has every standing allow-list entry at hand, and that whatever waits to be
written is what those entries allow; then no order of flushes and commits
matters. `WholeRequests`: `WriteInv` says that a row a request is to write is there
or known to be lost, that a row it holds cannot get lost, and that it commits with
a lost row only where the UPDATE of it was sent with others. `TimeBounded`: a
potential argument. `TimeInv` bounds the passes by
`resume * (Len(pattern) + 1) + atPattern`: a pass moves on in the pattern, or
lets the last star swallow one more, which pays for going back. `MatchDecides`: the
answer is the one of `Glob`, which says without any order of steps that the value can
be cut so that each letter of the pattern covers one character and each star any
number. `GlobInv` has the two halves of it: what was matched so far is covered by
what was read of the pattern, and any cut of the whole value has the last star
end no earlier than where the loop took the value up again; so a match that exists
lies ahead of the loop, and no star before the last need be tried again.

**Pages.** `BannerInv` and `PageOK`: what every cookie, page, frame and message
holds was decided; a consent taken for granted counts on its own site alone,
because a page has a bridge frame only if its own configuration asks first, whatever
mode the site is in for others; so what is on its way to the group's cookie, in it
and in an answer was chosen. From it follow `OnlyDecisions`, `OnlyChoices` and
`AlwaysAtHand`. `ScriptInv`: a script that could run has run, and one in the queue is
inert and not granted, so that no script is left that a withdrawal would come too
late for: `HeldUntil`, which is about every step and not about what was once
decided.
`PagesImplementBanner`: the composed pages implement the banner's specification.

Only model-checked:

- liveness (`RequestsEnd`, `BatchesEnd`, `ScansEnd`, `ServiceEnds`,
  `FixIsNoticed`, `ExpiredGo`, `RunsEnd`), which is out of the prover's reach as
  is `ENABLED`;
- the types of `Installation`, whose `SelectSeq` the provers have no meaning for.

Every safety property that a passing run checks is the statement of a theorem.

## 7. Disagreements not kept as runs

Each configuration named here belongs to no run of `PROJECT.json`; checked by
hand, TLC finds its property violated.

| Configuration | What it shows |
| --- | --- |
| `HiddenAllowList.cfg` | The hash that decides "There are no unpublished changes" covers of the allow-list only the number of entries: replacing one rule by another cannot be published. |
| `DiscardTorn.cfg` | The site layer re-reads the cookies after the hashed snapshot was read. A review saved between the two is in the layer alone, and a later discard restores it although visitors are served the other. |
| `ScanUnsynced.cfg` | A scan is committed as completed before its cookies are synced. When the database fails in between, `_mark_failed` fails too and swallows it. |
| `BulkPublishOrder.cfg` | API clients may list sites in any order. Two batches can deadlock, and if the victim is waiting to log a failure, outside its savepoint, all of its batch is rolled back. |
| `ClassifyOverwrites.cfg` | "Only pending cookies without a category": the test is made on a row read earlier, so an editor's save in between is overwritten. |
| `DeletedGroup.cfg` | A PATCH that has checked a group joins it after the request that deletes it read the group's sites: the site stays in a deleted group. |
| `UnlocatedVisitors.cfg` | A visitor without a region gets the site's mode, not the mapping's `DEFAULT` that the documentation promises. |
| `ComplianceMisjudges.cfg` | The check reads the site's row and `show_reject_all`, the banner reads all layers and `showRejectAll`: a site that passes may serve Europe no reject button. |
| `BridgeRace.cfg`, with INVARIANT `PreviewStaysOnPage` for its property | "Nothing is saved", and the choice applies "to this page only" (banner.ts:653-654): a preview's decision is broadcast to the site's other tabs like any other, and they let run what it accepts. |
| `BridgeRace.cfg` | The bridge's answer replaces a decision the visitor made while the page waited. |
| `LateSource.cfg` | A script inserted empty, whose `src` is set after the observer saw it, is made inert but not queued: consent never releases it. |

Others, met while modelling and not reproduced by a configuration:

- *Bulk publish.* The results are sent before `get_db` commits: a worker that dies in
  between, or a commit that fails, has reported sites as published that are not.
- *Publishing.* `attempted_at` is `now()`, which Postgres takes when the
  transaction begins: of two publishes that waited for each other the later may
  carry the earlier time. A discard restores categories and reviews, not a
  cookie's description and vendor.
- *Scans.* Two starters may both see no active scan. The ORM writes a column only
  when its session believes it changed: a job that the sweep failed while a worker
  ran it completes with the sweep's error text. A redelivered scan appends its
  results a second time. An exception with an empty text marks its job completed.
  `start_scan_job` does not reset the progress.
- *Settings.* `scan_schedule_cron` and `scan_max_pages` are read from the resolved
  configuration, which has neither. A new site's row has values of its own, so
  that its organisation's and group's defaults apply only once they are reset. A
  NULL `consent_expiry_days` makes the CNIL check raise.
- *Validation.* A silent `__tcfapi` keeps the request for ever. The pre-consent
  requests are cleared before the reload, so what the reloaded page does before
  the click is blamed on the rejection. The crawler's planted consent cookie is
  reported as found; the accepted page is still loaded while the context is cleared
  and until `page.goto` has its answer, and what it does then is blamed on the
  rejection; a cookie whose domain is spelt in two ways is reported twice.
- *Visits.* `mark_seen` writes its time without comparing it, so an older one may
  replace a newer. The limiter's documentation says "sliding window", it counts
  fixed minutes; `EXPIRE` is a command of its own after `INCR`. The retention is
  read from the site's row alone, although the module's comment speaks of the
  resolved configuration.
- *Classification.* A row deleted during a classify request fails the whole request
  if its UPDATE is the only one, and is reported as classified if others go with it.
  The sync looks at a cookie's category, not at its review; a
  category stored with a scan's result wins over an allow-list entry added before
  the sync.
- *Banner.* An acceptance that Escape stored under `opt_out` counts on a later page of
  the same site that is served `opt_in`, by another region's rule or after a publish
  that does not ask again: the loader applies the cookie before it knows the mode. A
  consent adopted through the bridge is neither checked for its age
  nor recorded. A returning visitor's page has no bridge frame, so a withdrawal
  there does not reach the group. When the API cannot be reached, the default
  configuration has no version, so returning visitors are asked again. Escape in a
  preferences banner accepts everything in an implicit mode. GPC is recorded but
  changes no default.

## 8. Not modelled

- *Publishing*: display of differences, the contents of regions, consent groups
  and banner texts beyond one value each, what an extension's hooks do.
- *Bulk publish*: a rollback or a single publish beside it other than as a batch
  of one, a site listed twice in one batch, sites outside the organisation;
  Postgres's queue order for a row.
- *Scans*: error texts, the row locks of a starter's UPDATE, cookies deleted during
  a sync, the pages a result names, the view of differences.
- *Scanner service*: the browser, addresses it refuses, names of trackers, the
  order of selectors, the dark-pattern heuristics beyond their steps.
- *Settings*: initiator maps, locales, preview tokens, frameworks other than GDPR
  and CNIL, whose rules have the same shape.
- *Consent records*: what a record holds beside its day, the revision it names
  included; event streams. *Limiter*: how an address is determined, exempt paths, the backoff.
- *Classification*: vendors and descriptions; regular expressions, whose matches
  are given.
- *Banner*: the cookie's encoding; the age of a consent, which counts as a changed
  version here; GPC, Google and Shopify signals; a banner that is fading out is
  closed; an operator's option to hide the preferences button. *Blocker*: its proxies of cookies and storage, and URL
  patterns.
- Database errors other than those named in an action.
- Components with status `not_modelled` in `PROJECT.json`: consent signals
  (encodings), banner interface (layout), accounts (CRUD and token checks on single
  rows), telemetry and list updates (daily best-effort HTTP), the admin interface
  (a client; its order of calls is in `ConfigPublishing`), the mobile SDKs
  (separate clients), deployment.
