# SignalSlate, modelled in TLA+

SignalSlate collects a person's mail, chat, meetings, domains, job postings and
parcels into a daily digest: a FastAPI process with a scheduler thread, one
SQLite file, one JSON settings file, and a desktop helper for job applications.
This directory holds TLA+ modules of its core, the TLC configurations that check
them on small instances, and theorems about them that TLAPS checks for every
value of the constants. `PROJECT.json` maps every definition to the lines it
stands for.

Run a configuration with `tlc -config X.cfg M` and the proofs with `tlapm M.tla`.

## The system

| Component | State it keeps | Operations | What is hard |
|---|---|---|---|
| Digest runner (`pipeline/runner.py`, `api/routers/runs.py`) | `Run` rows, `_start_lock` | start (cron, UI), collect each source, persist, advance the watermark, finish, reap at startup | two starts at once; a run cut short anywhere; watermarks against items |
| Watermarks and items (`pipeline/db.py`, `api/routers/collectors.py`) | `SourceCursor`, `CollectedItem` | record attempt and failure, advance, reset, clear the streak | operators write the same row while a run holds an old copy |
| Domain purchase (`pipeline/domains/purchase.py`, `api/routers/domain_buy.py`) | `DomainQuote`, `DomainPurchase`, `_purchase_lock` | quote, guarded purchase, reconcile | money is spent by an order whose answer may be lost |
| Registrar adapters (`pipeline/domains/registrars/`) | none | check, list, purchase | what an error says about the order |
| Domain inventory (`pipeline/domains/inventory.py`, `api/routers/domains.py`) | `Domain`, `DomainSnapshot` | sync, add, remove, import, snapshot | a listing older than the table it is compared with |
| Packages (`pipeline/packages/`, `api/routers/packages.py`) | `Package`, `PackageEvent`, `PackageEmail`, a cursor per mailbox | scan mail, poll carriers, add, archive, delete, mark stale | rows read before a slow call and written after it |
| Connection store (`pipeline/connections.py`, `api/routers/connections.py`, `pipeline/crypto.py`) | connections, tombstones, the overlay cache | create, update, delete, seed from `.env`, read through the overlay | a cache built from an old version; a new connection that is active before it is tested |
| Settings (`pipeline/config_store.py`, `api/routers/config.py`) | `config.json` | load, replace, toggle a source | full replace against read-modify-write |
| Credentials (`pipeline/health.py`, `pipeline/tokencache.py`, `pipeline/oauth_*.py`) | refresh tokens, MSAL cache files, pending sign-ins | check, refresh, rotate, sign in | a single-use refresh token shared by several processes |
| Source collectors (`pipeline/collectors/`) | none but a result under way | list page by page, fetch what is listed, merge, report a status | one of many requests fails; things change between the list and the fetch |
| Jobs (`pipeline/jobs/`, `api/routers/jobs.py`) | companies, boards, postings, fits | resolve, poll, score, research | listings that come and go; a daily model budget |
| Apply assist (`api/routers/job_apply.py`, `pipeline/jobs/assist/`) | applications, sessions, answers | queue, claim, progress, submit by hand | a desktop runner and a browser tab drive one application |
| Triage (`pipeline/triage.py`, `pipeline/normalize.py`) | none | check a model's answer | untrusted output |
| Scheduler and lifespan (`api/scheduler.py`, `api/main.py`) | four cron jobs | start, reschedule | jobs overlap with the endpoints that do the same work |
| Request guards, redaction, web client, CLIs | little or none | | not modelled |

The components meet in three ways: through the SQLite tables (each write is one
transaction, a row may be read long before it is written), through three
in-process locks (`_start_lock`, `_purchase_lock`, the connection store's), and
through outside services whose answers are slow, lost or repeated.

## Modules

| Module | What it models |
|---|---|
| `Runner` | the digest run, its tables and every endpoint that touches them while one is in flight |
| `RunLedger` | the abstract promise of the run table; `Runner` implements it |
| `MCRunner` | `Runner` for TLC |
| `RunnerProofs` | theorems about `Runner` |
| `DomainPurchase` | quotes, the guarded purchase, the registrar's answers, reconciliation, and the portfolio sync beside it |
| `PurchaseIntent` | the abstract promise of a purchase row; `DomainPurchase` implements it |
| `MCDomainPurchase` | `DomainPurchase` for TLC, with the registrar's offers |
| `DomainPurchaseProofs` | theorems about `DomainPurchase` |
| `Packages` | the mail scan, the package tables, the carrier poll, staleness and the operator's endpoints |
| `MCPackages` | `Packages` for TLC, with the mails of each instance |
| `PackagesProofs` | theorems about `Packages` |
| `Connections` | the connection store, its overlay cache, the toggles file, startup import, the requests that write them, a run that reads them, and a key rotation by another process |
| `MCConnections` | `Connections` for TLC |
| `ConnectionsProofs` | theorems about `Connections` |
| `Credentials` | the browser sign-ins and their flow store, the Zoom refresh with its locks, the Microsoft cache file, by threads of two processes |
| `MCCredentials` | `Credentials` for TLC |
| `CredentialsProofs` | theorems about `Credentials` |
| `Autofill` | what one fill of a page proposes and writes, as operators |
| `Assist` | the application rows, their endpoints and the desktop runner's session; EXTENDS `Autofill` |
| `MCAssist` | `Assist` for TLC, with a page that has a field for every rule |
| `AssistProofs` | theorems about `Assist` and `Autofill` |
| `Ats` | the job-board adapters and the resolver's ladder, as operators |
| `JobBoards` | companies, boards and postings under refresh, rescan, override and scoring; EXTENDS `Ats` |
| `MCJobBoards` | `JobBoards` for TLC |
| `JobBoardsProofs` | theorems about `JobBoards` |
| `Collectors` | the Gmail, Microsoft 365, Slack and Zoom collectors against a changing service, and what the runner keeps |
| `MCCollectors` | `Collectors` for TLC, with a small world for each service |
| `CollectorsProofs` | theorems about `Collectors` |

### Runner

A source's history is cut into instants; the instant *i* is the item received in
[*i*, *i*+1), and a watermark *m* claims everything below *m*. That is all the
properties need of an item. `runs`, `cursor` and `stored` are the three tables;
`startLock` is `_start_lock`; `pc[t]` and `job[t]` are where thread `t` is in
`execute_run` and its local variables there. Each action is one stretch of
`execute_run` between two points where another thread, the operator or a crash
can be seen: taking the lock and asking `has_running_run`, inserting the row,
the health check, noting a shortfall, reading the window, the collector's
answer, the item insert, the SELECT and the commit of `record_attempt` and
`record_failure` (two steps: nothing holds the row between them), the streak
decision, the advance, the terminal write. A collector may answer with
everything, with a part, with an error, or raise. `Crash` drops every thread;
`Restart` is the lifespan with `reap_orphaned_runs`. The operator's actions are
`ResetTo`, `ResetAll`, `ClearFailures` and `DeleteConnection`.
A `Run` row keeps two texts, the summary and the error, and `_scrub` cuts each at
`MAX_PERSISTED_CHARS`: sentences are appended in the order of the code, and with the fault
`long` the earlier ones of a text may fill it, so that what comes later is not said
(`Filled`, `Heard`, the field `full`).
`gone` is a ghost (instants passed without an item): no guard reads it.

### DomainPurchase

One registrar connection. `quotes`, `book` and `domain` are the tables; `lock` is
`_purchase_lock`; `held` and `charged` are the registrar's account, which the
program sees only through answers. `Submit` takes the clock before the lock, as
`execute_purchase` does; `PassGuards`, `InsertPending`, `Order`, `Answer`,
`Record` are its stretches; `Replies` and `Outcome` say which answers each
adapter can give and what the code makes of them: a transport error, a body that does not
parse, and one that parses and reads as a refusal although the registrar may have charged
(`unusable`: an error status, a rejected entity, no `DomainCreateResult`). What a day has spent is the size of a
set with one member for each unit counted (`Units`), the sum of the code; `Bill` is what the
registrar charges, at the renewal price it really asks. `SyncList` and `SyncWrite` are
the two halves of `_sync_one`: the listing is old when the table is written.

### Packages

One Gmail account; carriers, one of them with a configured adapter. A row's key is its
carrier and number, or without a number its order and carrier, as the two indexes of the
table have it (`Unique`). `db` holds the three
tables as committed, `cursor` the account's watermark, `lock` SQLite's write
lock. A session of `scan[s]` reads into `draft`; its first write takes the lock,
and from then on `draft` is what it will commit (WAL: others read the committed
tables meanwhile). `Fetch` is one message of the listing, `ScanWrite` one shipment
of it through `apply_email`, `ScanCommit` the cursor and the commit, `MarkRead`
and `MarkWrite` the two statements of `mark_stale`. `ScanCollides` is the write
that finds its row gone or its key taken (`StaleDataError`, `IntegrityError`): the
account is rolled back. `PollBegin`, `PollGet` and the answers are `refresh_due`:
`snap` is the row as loaded, and `Flushed` writes back only the columns the poll
changed, over whatever has been committed since. Row ids are reused as SQLite
reuses them. `seen` (mails a committed scan has processed), `missed` (mails that the
page cap or the first look-back left out of the listing of a scan that moved the cursor)
and `torn` (the session wrote on the strength of a read that was out of date) are ghosts.

What `extract()` finds in a mail is an input (`Contents`); merchant names, eta,
last error and descriptions are left out.

### Connections

An id is a source the collectors know (`live`, `secrets` and `tombs` are the tables
`Connection`, its encrypted envelope and `Tombstone`). `toggles` is `active_sources` in
`config.json`; `retained`, `version` and `cache` are `_unseeded`, `_version` and
`_overlay_cache`; `writeLock`, `overlayLock` and `fileLock` are the three locks.
`job[t]` is where thread `t` is in its handler and the locals it holds there: `had`
(`had_tombstone`), `read` (the envelope an update merges into), `seen`, `build` and `got`
(what `overlay_provider` has read), `file` and `known` (what `config_store` has read).

A write is two steps, the commit (`CreateCommit`, `DeleteCommit`, `UpdateCommit`,
`Undo`) and `Bump`, with the write lock in between, because readers take only the
overlay lock. Everyone who asks for the environment goes through `OverlayHit` or
`OverlayMiss`, `OverlayBuild`, `OverlayStore`; `Return` says from where and where to.
`LockFile` and the step that ends the hold are one `load_config`, `save_config` or
`set_source_active`; a page is a `GET /config`, one flip and a `PUT /config` of the
whole page. `CreateStart` to `SwitchOff` is `create_connection`, with `Undo` and
`Untomb` as `_roll_back_create`. `RunStart` and `RunPlan` are what a digest run reads:
the snapshot of the environment, then the toggles. `Seed` is one declaration of
`seed_from_env`, `Startup` the lifespan, `RotateRead` and `RotateEnd` the rotation.

A secret's value is the number of the request that wrote it. Left out: field and
format validation, the registrar kinds (no toggle, no collector), a deployment
without a key (read only), the watermark reset after a deletion (in `Runner`), the
per-family readers of the environment, busy timeouts of SQLite, and the creation of
`config.json` on the first load. `gone`, `deleted`, `overtaken`, `stored` and `run` are ghosts:
`deleted` holds the ids whose deletion was answered and no create of them since,
`overtaken` those of which requests overlapped a create. No rollback takes an id out of
`deleted`. A run remembers the deletions that were answered before its snapshot (`Answered`).

### Credentials

Two processes share the connection store (`conn`: each provider's token), the Microsoft
cache file (`file`) and `zoom_refresh.lock`; `flows` and `outcomes` are `FlowStore` of
the API process, `cache` the Zoom access token each process holds, `live` the refresh
token Zoom accepts. A lock is no variable: its holder is the thread whose `pc` lies
inside it (`AliasFree`, `ZoomFree`, `FlockFree`). `StartSignIn`, `Callback`, `Paste`,
`Consume` and `Settle` are the router's handlers with the store's methods; `Way` is what
the four providers' `finish` do differently, and `Finish`, `Exchange`, `StoreToken`,
`SaveCache` and `FinishView` are its stretches between network calls. `ZoomRead` to
`ZoomCached` is `_zoom_oauth_token_data`; `SilentLoad` and `SilentSave` hold the alias
lock as `check_m365` and the Graph collector do. A process can die at any step: its
memory and its locks go, the store and the files stay. What `parse_pasted_url`, the
nonce and the state comparison decide is which of the two successors is taken.
`seen` is a ghost.

### Autofill and Assist

`Autofill` turns a page's fields into proposals and proposals into writes: `Ladder` is
`propose_values` (attestations and CAPTCHAs first, then the profile's rules in their
order, the answer bank, the model), `Localized` the runner's replacement of server paths
by its own files, `Filled` what `apply_proposals` types. A label is the set of things
its regular expressions recognize in it, a value where it comes from. In `Assist` a
handler is a read of the row and a later update of the columns it changed: SQLite takes
no lock for the read. `Poll` to `ClaimReply` is `watch` and `claim_assist`, `Open` to
`Advance` is `run_session` with its loop and pump, and the panel's buttons are queued by
`Press` and performed by the pump. `clicked` and `wrote` are ghosts. Left out: the
assist log, saved answers, and what the page does with a click.

### Ats and JobBoards

An adapter is the record of what its `probe` and `list_postings` make of an answer, and
`Ladder` is `resolve_company`: guessed slugs, links of a careers page, JSON-LD, then
(`Researched`) the model's verified claim. `JobBoards` has the three tables and a `job`
per thread: the cron's refresh resolves, polls every board and scores, a rescan does one
company. A poll is `BeginList`, one `ListPage` per request, `Snapshot` (the SELECT of
`_upsert_postings`) and `Commit`, which writes the columns whose value differs from the
snapshot. Postings are published, withdrawn and moved with their board while this goes
on. `absences` (the answered listings in a row that lacked the posting), `refusals` (those
that ended with a final error), `raced` (two polls overlapped over the row) are ghosts; a
listing with the posting sets the two counts back. Left out: fields of a posting and the
prompts made of them.

### Collectors

A collection is a queue of requests: a listing is drained page by page, and what it
lists asks for more (mails one by one, the messages of a chat, the replies of a
thread). `Kept`, `Key`, `Scanned`, `Threads`, `Merge`, `Fatal` and `Result` are where
the four collectors differ; `TooManyPages` is what they make of a listing longer than
`MAX_PAGES`. `Persist` is the runner's part: `_persist`, and the watermark, which moves on an
`ok` and after `MAX_STUCK_RUNS` failures in a row (`Moves`, `Streak`).
Things arrive with the clock, may be deleted, and a meeting's summary is written late.
A payload is left out except whether the summary was in it. `vouched` (what an `ok`
claimed), `behind` (what a page limit hid from a collection that moved the watermark) and
`given` (what a failed request would have brought, in a window that was given up) are ghosts.

## Runs

| Run | Checks | Bounds |
|---|---|---|
| `runner_guard` | types; one run at a time, owned by the thread that collects; no item stored twice; `RunLedger`; every run ends | 2 threads, 2 runs, 1 source, 1 crash, 2 instants |
| `runner_holes` | a complete run tells every hole, unless a text of it was cut off; no watermark pinned | 1 thread, 3 runs, 4 instants, 1 crash, failing writes, texts that overflow |
| `purchase_guard` | types; one order per quote; the bills of a day within its cap; `PurchaseIntent` | 2 threads, 2 names, 2 quotes for 2 years, a renewal price not stated, malformed and unusable answers, 1 crash, 2 days |
| `purchase_tracked` | a name held by the account ends up live in the portfolio for good | 1 thread, 2 names, 1 quote, 1 crash |
| `purchase_lost` | refutes `FailedNeverCharged` ("never failed") for a lost answer | 1 thread, 1 quote |
| `packages_guard` | no orphans; one row per parcel; statuses go forward | 2 scanners, 2 mails, 2 carriers, order mails that name a carrier or not, poll, 1 delete |
| `packages_scan` | types; no mail passed over; every mail processed in the end | 1 scanner, 1 mail of two shipments, 1 fault, 1 crash, 1 operator call of any kind |
| `connections_guard` | types and locks; the overlay is fresh; a deleted connection stays deleted and is not collected from; no secret and no toggle lost; every request ends | 2 threads, 2 ids (one `.env` import, one `.env` rejection), 2 secret names, 2 requests and any number of runs, 1 fault, 1 crash |
| `credentials_guard` | types; codes and refresh tokens used once; the status a browser is told is true; a saved sign-in stays | 2 API threads, 1 CLI thread, 2 sign-ins, 3 providers, 3 requests, 1 fault or crash |
| `assist_guard` | types; no click at or after the review; attestations and CAPTCHAs untouched; every queued application is served | 1 server thread, 2 runners of which one has no browser, 2 applications, a playbook of 3 steps, a page of 17 fields, 2 requests, 1 button press, 1 fault |
| `jobs_guard` | types; closed means absent from polls in a row; boards, postings and scores settle | 3 boards of 3 kinds, 3 companies of which two come out at one board, 3 ids of which one is off target and one is refused by the model each time, batches of 2, 1 rescan thread, 2 operations of the world or the user, 1 fault |
| `collectors_guard` | types and one row per key; what an `ok` vouches for is stored; everything collectable is stored in the end; the watermark moves on | each of the 4 collectors on 3 to 10 things, pages of 1, at most 2 or 3 of them, windows given up after 3 failures, 3 instants, 1 fault, 1 change at the service |

Why the bounds are enough. The races of the start guard, of the cap and of the
unique quote are between two threads; a third only repeats them. Two runs give
overlapping windows, three give a failure streak (`MAX_STUCK_RUNS` is 2 here),
its advance and a run after it; `MaxTime` exceeds the backfill cap by one, which is where
the shortfall note starts. The fault `long` lets any text of a run be full before a later
sentence. `MaxCrashes` is 1: a crash
leaves only table rows, and the states after a second one are those after a
first. Time is the one counter that runs out in every instance, so
`BoundsReached` lets a used-up instance stutter instead of deadlocking.

`Packages` runs with `OVERLAP` 0, which is stricter than the one day of the code,
and with a `PageCap` the mailbox never reaches (the theorem `NothingSkipped` is for
every cap). Two
mails are an order and its parcel, in either order of processing; two scanners are
the cron and the button. Two instants separate a mail that arrives during a scan
from the scan's start. A `StatusForward` step is exempt when its
session wrote on a read that was out of date: without the exemption TLC
refutes it (see the known differences).

`DomainPurchase`: two years make the renewal price count, and the cap is what one
purchase costs, so that a second one on the same day has to be refused. The run has every
answer of Namecheap but the transport error, which `purchase_tracked` and `purchase_lost`
have for GoDaddy.

`Connections` needs two requests for each of its races (a create against a delete,
an update against a rotation, a page against a create); runs are not counted, so a
third thread's reads are always there for a thread that is idle. Two ids are one
whose declaration in `.env` becomes a row and one whose declaration is refused and
stays retained; two names let a merge lose a secret it was not sent. Both threads
must be at work for the cache races: one builds, the other commits and bumps.

`Credentials`: a race for a token needs two threads of one process (the thread lock) and
one of another (the lock file); three requests are a refresh that waits for another while
a sign-in comes in. One pending flow and one outcome make the caps bite with the second
sign-in. WordPress finishes as Google does and is left out of the instance.

`Assist`: the playbook has one step of each kind (a form, a user's step, the review), the
page one field for every rule of the ladder; one press is a Next step during a fill,
two requests are a claim that a queue or a status overtakes, and the second runner
claims what the first is about to: it has no browser, so that its session ends at once
and leaves its claim behind. The page has the cases in which something of the user's is
written after all (see the known differences): a file input that is an attestation and a
cover letter, three boxes of one id of which the last is the user's, and two of one id
that are both the user's.

`JobBoards`: `MISSED_TO_CLOSE` is 2; `MAX_SCORE` is 3 and `BATCH` 2, so that a run has a
full batch and a short one, and a posting that the model refuses each time can take a
batch's place for good; pages hold one posting. Two of the three companies come out at the
same board, which ends the refresh as long as both are pending (`Blocked`). Two operations are, for example, a posting
withdrawn and a rescan beside the refresh; the fault is an outage, a lost answer of the
model, or a crash.

`Collectors`: pages of one thing and two or three pages let every listing end on a full
page, on a short one and at its limit; the mailbox of `m365`, a channel of Slack's and the
report of Zoom's can exceed it, so that a page limit is met both by a collector that calls
it a failure and by one that says `ok`. Two instants of arrivals give two windows that
overlap. `MAX_STUCK_RUNS` is 3 as in the code: an unreadable mail makes every collection of its window
`partial`, and the one fault may fall on the third. Each exemption of `OkIsStored` and
`CollectedInTheEnd` is needed: without it TLC refutes the property.

Fairness. Weak fairness of every thread's steps: each is a Python thread whose
calls time out. Weak fairness of `Restart`: `docker-compose.yml` restarts the
container. Weak fairness of each scanner's steps: the packages cron job starts
scans for ever. Weak fairness of the sync: the domains cron job. Weak fairness of a
runner's process in `Assist` (it keeps polling) and of its user closing the window in
the end; of the refresh and of a thread at work in `JobBoards` (the cron trigger fires
again); of a collection's steps and of time in `Collectors` (requests time out). Weak fairness of a
request's steps in `Connections` (a thread of the pool is scheduled, and each lock is
released by a step its holder can always take) and of the rotation's end; the user
need not answer a page, and a page left open is not a request at work. No fairness for
ticks, crashes, requests or operator actions, and none for the collectors'
success.

### Known differences between the code and what it says

The one refuted by a run (`purchase_lost`) is the finding of `PROJECT.json`. Met while
modelling, with no run of their own. The models contain the behaviour; where a property
would be refuted by it, the property names the case it leaves out:

Runs, purchases, packages, connections:

- `runner.py:9` says that every source is isolated. A cursor row deleted between the
  SELECT and the commit of `record_attempt`, or a failed INSERT of `_persist`, ends the
  whole run.
- `POST /collectors/{source}/reset` during a run is overwritten by the run's advance,
  although "The next run collects from the watermark" (`collectors.py:56`).
- The poll writes `out_for_delivery` over a `delivered` that a scan committed during the
  carrier's answer, although "delivered/returned are terminal"
  (`packages/inventory.py:15`).
- Two triggers can both be accepted before either has its row
  (`api/routers/runs.py:49`); one raises unseen, although the check is there so
  that nobody gets `{"accepted": true}` and no run.
- A fatal exception replaces the report of a watermark that was advanced over a
  hole (`runner.py:350` "Advance, and say so"). `NoSilentHole` is therefore
  stated for runs whose loop completed.
- `_scrub` cuts each text of a run at 1000 characters, and the sentence about the advance
  (`runner.py:354`) stands behind the failure's own detail (`runner.py:342`) and those of
  the sources before: with long or many details the advance is made and not said.
  `NoSilentHole` leaves out runs one of whose texts is full.
- A run in flight writes the cursor row of a deleted connection back
  (`api/routers/connections.py:350` "forgets its toggle and watermark").
- The terminal write can itself fail; the row then stays at `running` until a
  restart (`runner.py:9`). `RunsEnd` is checked without that fault.
- An order that Namecheap charged for is recorded `failed` when its answer is an error
  status, a rejected entity or has no `DomainCreateResult` (`namecheap.py:167`, `:268`,
  `:370`); then it does not count towards the cap and may be made again. The comment at
  `namecheap.py:269` says that `ValueError` covers `ET.ParseError`, which is a `SyntaxError`:
  a body that does not parse ends as `unknown`, by the `except Exception` of
  `execute_purchase`. `SpendWithinCap` leaves out what is recorded as failed, and
  `FailedNeverCharged` is no property of a passing run.
- The clock of a purchase is read before the lock (`purchase.py:257`), so one that waited
  over midnight counts for the day of its request, while the charge falls on the next.
- A crash or a failed final write leaves a purchase `pending`, and
  `reconcile_unknown` looks at `unknown` only.
- `reconcile_unknown` takes an owned row as proof of the purchase, whoever put
  the name there.
- A premium Namecheap quote without a renewal price is stored with renewal 0, so
  a longer term is priced at one year (`purchase.py:46`). `SpendWithinCap` leaves such a
  term out.
- A sync that listed before a purchase marks the bought name missing until the
  next sync; `HeldIsTracked` shows that it comes back.

- A deleted package comes back with the next scan whose window still covers its
  mail, and a package that reuses a deleted id is taken by the digest for the old
  one (`pipeline/collectors/packages.py`, external id `package:{id}:{status}`).
- `scan.py` says a page-capped listing never skips unprocessed mail. The listing is
  newest first, so the cap leaves out the oldest messages and the cursor passes
  them. `missed` records them, and `NoMailSkipped` says that they are the only ones.
- A message that can never be fetched holds its account's cursor for good.
- `refresh_due` says nothing is raised to the scheduler; a package deleted during
  `track()`, or a locked database at the commit of an error, is (`PollRaises`).
- `mark_stale` writes `stale` over a status committed between its SELECT and its
  UPDATE, and `eta` goes back to an older mail's.
- A new connection is on between its commit and its switch to off: a run collects from
  it, and a crash there leaves it on (`routers/connections.py:8` "inactive until tested").
- `had_tombstone` is read before the create and used after it without a lock: when
  another request deletes the id in between, the rollback removes that deletion's
  tombstone and the next start imports the id from `.env` again. The same between two
  creates of one id. `DeletedStaysDeleted` and `DeletedNotCollected` leave out the ids
  of which a request overlapped a create (`overtaken`).
- A create that is rolled back for an id whose declaration `.env` holds but the store
  refused ends its retention until a restart: the row or its tombstone was seen by
  `_live_unseeded`, though `_roll_back_create` says "Undoes a create".
- `config.json` is truncated and rewritten in place: a crash in between leaves a file
  no later start can parse. The model writes it in one step.
- `PUT /config` writes the page as it was loaded: what another request switched off since
  then is on again, a connection created meanwhile included. `TogglesKept` covers the
  writers that read and write under the file lock, and of a page only what it shows as off.
- An order-level row stays beside a numbered one when the number came first from a
  manual add without an order.
- Two mails of one order whose texts name different carriers, or one none, leave two
  numberless rows: `packages/inventory.py:6` identifies them by (merchant_domain,
  order_id), the unique index of `db.py:337` has the carrier too, and a poll of another
  carrier's row finds nothing. `OneRowPerParcel` is about the keys of the indexes.

Credentials:

- `POST /oauth/zoom/paste` for a sign-in whose callback is being exchanged settles it as
  failed, and the success that follows is dropped.
- The alias lock is per process: a silent refresh by the command line can write the cache
  file over a sign-in of the API, and `m365_bootstrap` writes it without a lock.
  `SignInKept` is checked for the API's threads.
- A Zoom sign-in stores its token without `_ZOOM_LOCK`; a refresh under way then stores
  its own over it.
- A crash between Zoom's rotation and `set_secret` loses the token (as documented).

Apply assist:

- `claim_assist` reads and then updates: two claims at once both succeed, though it is
  called atomic (`job_apply.py:61`).
- A session's end reports neither done nor failed, so that an application stays `running`
  and cannot be queued again; a paused one can, and a late `running` of its old session
  takes it off the queue unserved.
- Attestations and CAPTCHAs are "forced to needs_user=True unconditionally"
  (`mapping.py:32`), but two ways to write one are left open. Fields that share an id (the
  boxes of one name, `extract.js:181`) share the proposal of the last of them, which need
  not be one of the user's. And the swap of files gives a file input that reads like a
  cover letter the runner's own copy, whatever was proposed for it (`__main__.py:381`).
  `UsersFieldsUntouched` names both; the page of the instance has both.
- Pressing Pause while the loop fills does not stop its next click.
- The Fill button also fills a step of the user's, and overwrites what the user typed.

Jobs:

- Two companies that come out at the same board: the second insert violates the unique
  key and ends the refresh, at this run and at every later one, although a failure "must
  never stop the others" (`jobs/inventory.py:119`). `Settles` leaves that out (`Blocked`);
  the instance contains it. The same for a listing that names a posting twice, which it
  does not.
- A run scores the first `max_score_per_run` unscored rows (`scoring.py:382`). A batch the
  model refuses each time keeps its place, and starves what is behind the last of them.
  `Settles` says that nothing else does.
- "Closed means missing from N consecutive polls" (`jobs/inventory.py:31`) has two gaps. A
  final error, such as a 404, is an empty listing to the adapters: it clears `last_error`
  and counts as an absence (`ClosedIsAbsent` counts it by name, in `refusals`). And a poll
  that overlaps another may write, or leave as it was, a `missed_polls` read before the
  other's commit, so that the count outlives a listing with the posting (`raced`).
- A posting scored after the window of its digest is never reported.
- A model's answer is capped at 0.8 (`research.py:59`), which is above the 0.7 of a slug
  that was probed and not confirmed (`resolve.py:58`), although it "can never outrank a
  directly verified ladder step" (`research.py:29`).

Collectors:

- Slack's and Zoom's listings stop at `MAX_PAGES` and answer `ok` (`slack.py:75`,
  `zoom.py:110`), although `collectors/__init__.py:24` says that this "now raises rather
  than truncating silently": the watermark passes what lies behind. `OkIsStored` leaves
  that out by name (`behind`), and the instance meets it in both services.
- A watermark that moves after `MAX_STUCK_RUNS` failures gives up its window
  (`runner.py:347`). When one thing makes every collection `partial`, such as a mail that
  cannot be parsed, a passing failure of something else on the third of them loses that
  for good (`given` in `CollectedInTheEnd`).
- A meeting stored before its summary exists keeps the row without it, although `zoom.py`
  says that late summaries are caught.
- An edited chat message keeps its id, so that the edit is dropped.
- A Graph page that is not JSON raises out of `collect_m365`; the run's handler takes it.
- `CollectedItem` has no unique key; only `_persist` keeps rows apart.

## Theorems

Proved from the assumptions the modules name (`WindowAssumption`,
`StuckAssumption`, `OperatorAssumption`, `OfferAssumption`, `LimitAssumption`,
`JobWorld`, `EverySiteHasAnAdapter`, `BoxAssumption`, `ServiceAssumption`, ...), for any number of sources, threads, runs,
quotes, mails, boards and crashes. TLC evaluates each assumption on its instances.

`RunnerProofs`: `TypeCorrect`; `OneRunAtATime` (one run, owned by the thread that
collects) and `ItemsStoredOnce` from one inductive invariant, `Guarded`, that says which thread
may hold the open run: the lock holder saw no open run, a collecting thread's run
is open, two threads never collect, and what a thread is about to store is not
stored. Neither of the three is inductive alone: the run table says nothing about
who collects. `RunnerKeepsLedger` maps every step to `RunLedger`'s or a stutter
under the same invariant.

`HolesAreSaid` (`NoSilentHole`) rests on `Holes`. A hole comes about over many steps (a
short window, a partial answer, an advance past the stuck source), so the invariant
follows the instants: of a thread that collects, `Accounts` says that every instant its
advance will claim is stored, in its window, or already reported (`AllAccounted`);
`AllReported` that each instant passed over is in the notes of the run that did it and,
once that run is complete, in what it said. `OperatorAssumption` (a reset goes back at
least a day and at most the backfill cap) is what the endpoint's validation admits.
`StreaksAreAnswered` (`NoPinnedWatermark`) rests on `Streaks`: the run in flight counts
as cut short until it is complete, and a source that it has not yet failed or answered
is one run behind the bound (`Behind`, `Unanswered`).

`DomainPurchaseProofs`: `TypeCorrect`; `DayStaysWithinCap` (`SpendWithinCap`) from
`Capped`: the sum a thread compared with the cap is still the sum when it inserts its row,
because it has held the lock since and no row that the day does not count comes to count
again; `OrderedOnce` from `Booked` (a thread past
its insert owns a pending row no other thread owns, and a quote without a row was
never ordered); `PurchaseKeepsIntent`, the refinement, from the same;
`FailedIsFree`, that a failed purchase was never charged provided that answers
arrive (`AnswersArrive`: no lost response, and no unreadable one the GoDaddy
adapter would take for a refusal), which is exactly what `purchase_lost` shows is
needed. `DayStaysWithinCap` needs it too: a row marked failed leaves the sum, and when
the registrar charged for it the cap is passed.

`PackagesProofs`: `TypeCorrect`; `NothingOrphaned` and `ParcelsDistinct` from `IInv`:
the committed tables are sound (no orphan, unique keys), so is the draft of the
session that holds the lock, a scan's queue stays inside the mailbox and a poll at
work has a row in hand. The draft has to be part of it because a commit publishes
it whole. The proof goes through one lemma about `apply_email` (`AppliedSound`) and
two frame lemmas, for a scanner's step and for everybody else's. `NothingSkipped`
(`NoMailSkipped`) adds `SIInv`: the cursor is not ahead of the clock, and every scan is
`Swept`: as long as nothing failed, a mail older than its start is seen, missed, done by
it, given up by its listing, or still queued. `StatusesMoveForward` (`StatusForward`) is about commits, and a
commit publishes many writes at once: `Ahead` says that the draft of the session that
holds the lock follows from the committed tables by moves the ranking allows, each write
extends it (`Follows`), and moves compose (`Advances`).

`ConnectionsProofs`: `TypeCorrect`; `CacheIsFresh`, `DeletionLasts` and
`SecretsSurvive` from `IInv`. `OverlayFresh` is not inductive: a reader may hold an
overlay it has built but not stored. `Sane` says that one built under the current
version is the store as it is, or a writer holds the lock and will bump; `CacheSound`
adds that what is retained has neither row nor tombstone, without which the removal
of a tombstone would outdate the cache with no bump. `SecretsKept` needs that a merge
works on the envelope as it is and that a rotation in progress holds SQLite's write
lock; `DeletedStaysDeleted` that no id has both a row and a tombstone. The proof goes
through frame lemmas: `QuietKeeps` for steps that leave the store alone, `WriteKeeps`
for commits, and one lemma per remaining kind of step. `DeletedIsNotCollected` relates a
run's snapshot to a deletion three steps away: `History` says that a tombstone whose
removal is bumped is out of the current cache and of every overlay built under the
current version, that a request's number is never used again for a deletion, and that as
long as an id known deleted stays deleted the run's overlay is without it.
`TogglesAreKept` needs `FileSame`, that a thread under the file lock works on the file as
it is.

`CredentialsProofs`: `TypeCorrect`, and three theorems with an invariant each.
`StatusesTrue` rests on `Told`: a thread that finishes a sign-in knows its flow and
has consumed it, and what it will settle is what became of the credential; the status
in the store alone does not say that. `SignInsLast` rests on `FileKept`: inside the
alias lock the loaded copy is the file, so that saving it loses nothing. It assumes
`Silent \subseteq ApiThreads`, because the lock is one of the process. `UsedOnce` needs
`CodesOnce` (between `consume` and the exchange a code belongs to one thread) and
`SpentOnce`: a stored token is spent only while the thread that spent it is about to
store the next one, under both locks, and tokens in threads' hands are fresh and
distinct.

`AssistProofs`: `TypeCorrect`, which includes that every field has a last one of its id
(the least element of a set of naturals, by `WFMin`) and that whatever the ladder
proposes is a value. `ReviewIsTheUsers` adds `OnOwnSteps` to the property: a session
that has just filled did so at a step of its own, and one whose pump has ended without
moving on is still there. The click happens two steps after the guard was evaluated, so
the property alone is not inductive. `AttestationsAreTheUsers` follows through the
ladder, the file swap and the filler under two assumptions on the page, `OwnIds` and
`NoForcedFile`; without either the code can write into such a field.

`JobBoardsProofs`: `JobsTyped`, which covers the ladder and the adapters, and
`ClosingTakesAbsences` (`ClosedIsAbsent`) from `IInv`. A poll writes what it computed from
a snapshot, so the invariant speaks of threads: `Counted` bounds a row's `missed_polls` by
its absences and says that a closed row has `MISSED_TO_CLOSE` of them, and a thread
`Fits` when its queue names rows of the tables, it writes only what an answered listing
said, and the count in its snapshot is at most the absences the posting has now, though another
thread may have committed in between.

`CollectorsProofs`: `CollectionsTyped` (`TypeOK`, with one row per key) from `Typed`: the
queue asks only for listings and things there are, and what is read of a listing is things
(`Ask`, `Asking`). Each way to take an answer keeps that (`DoneTyped`, `DroppedTyped`,
`EndedTyped`, `ListedTyped`, `PagedTyped`).

`OkStoresEverything` (`OkIsStored`) rests on `Promise`. A result is a claim about a window
that was read over many requests, so the invariant follows the things: as long as nothing
has failed, each thing an `ok` would vouch for is in hand or some request of the queue
leads to it (`Promised`, `Leads`): the listing of its box, the list, chat or channel that
shows it, its thread's parent, the merge of the meetings. What has been read of a listing
is full pages, each thing once, and chats in their order (`RowsFit`, `InOrder`); without the order
the scan could stop before a chat it owes (`ScannedShows`). An answer keeps the promise when what the head
of the queue led to is an item of it or is led to by what it asks next (`AnswerKeeps`), a
failure takes the promise back, and `_persist` finds the thing under a key no other thing has
(`KeyOwn`). The assumptions are on the services: `ServiceAssumption` (an id is given once in
a chat or channel and once outside of them, Graph lists chats by their last message), and
the premise `NothingTruncated`, that no listing of Slack or Zoom has more than `MAX_PAGES` pages. The
premise holds in all states of `collectors_guard`; with one page for Slack TLC finds
`OkIsStored` violated, which is the divergence named above.

Every invariant and action property of the runs is stated by a theorem. Only
model-checked are the liveness properties (`RunsEnd`, `HeldIsTracked`, `MailIsProcessed`,
`RequestsEnd`, `QueueServed`, `Settles`, `CollectedInTheEnd`): what fairness implies is out
of this prover's reach.

## Not modelled

HTTP parsing, HTML and prompt text, TLS and host checks, the web client, the
command line tools and the formatting of responses: no property here is about
them. `components` in `PROJECT.json` lists every part with its status.

