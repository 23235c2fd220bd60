# A formal model of CHILE-OEF

CHILE-OEF ingests seismic catalogs (CSN and USGS), keeps every revision in a
bitemporal PostgreSQL catalog, fits statistical models on as-of selections of
it, issues probabilistic forecasts from them, and evaluates those forecasts
walk-forward. A separate job posts observed events to a Telegram channel.

This directory holds TLA+ modules translated from the code, the TLC
configurations that check them, and proofs checked by TLAPS. Paths below are
relative to the repository root.

## 1. Inventory

| Part | State it keeps | Operations | Talks to |
|---|---|---|---|
| Source adapters (`ingestion/sources/`) | none; stamp `retrieved_at` **before** the request | `fetch`, `parse`, `count` (FDSN) | CSN, USGS over HTTP |
| Ingestion service (`ingestion/service.py`) | `ingestion_runs`, `raw_artifacts`, `source_events`, `event_revisions`, `canonical_events`, `canonical_event_memberships` | `run`, `ingest_artifact`, `_insert_event_revision`, `_link_or_create_canonical` | adapters, PostgreSQL, raw archive |
| Raw archive (`ingestion/raw_archive.py`) | files named by their hash | `store` | ingestion, tectonics |
| Catalog reads (`db/repositories/events.py`, `datasets/service.py`, `seismicity/catalog_selection.py`) | none | `list_events`, `_latest_revisions`, `fetch_*_catalog` | API, datasets, estimators, evaluation, replay engine |
| Dataset versions (`datasets/service.py`) | `dataset_versions` | `create` | catalog reads |
| Historical backfill (`ingestion/historical_backfill.py`) | `historical_backfill_slices` | `plan_time_partitions`, `run_usgs_historical_backfill` | FDSN adapter, ingestion |
| Estimators (`seismicity/`) | one table per estimate, each row naming the row it was fitted on | completeness, Gutenberg-Richter, declustering, background rate, Omori, ETAS (temporal, spatiotemporal), IAS | catalog reads |
| Forecasts (`forecast/`) | `forecast_runs`, `forecast_cell_magnitude_bins` | `issue_operational_forecast`, `issue_forecast`, freshness | estimates, catalog reads, advisory lock |
| Walk-forward evaluation (`evaluation/replay.py`) | `evaluation_runs`, `evaluation_fold_scores` | `run_walk_forward_evaluation` | forecast service, catalog reads |
| Promotion (`evaluation/promotion.py`, `cli.py`) | none | `assess-model-promotion` | evaluation tables |
| Telegram notifier (`scripts/telegram_alert.py`, `.github/workflows/telegram-alerts.yml`) | `data/notified_events.json` on the main branch | `--poll` | USGS, Telegram, git |
| Tectonics (`tectonics/`) | releases (`building`, `ready`), assets, slab nodes, fault traces, classifications, grids | acquire, load, classify | raw archive |
| Replay engine, HTTP API, CLI, scripts, migrations | none of their own | | all of the above |

What is hard about it:

* **Concurrency.** Every command is a process of its own on one PostgreSQL
  under READ COMMITTED. Nothing keeps two runs of one source, two issuances or
  two notifier jobs apart, except unique constraints and one advisory lock.
* **Time.** `available_at` is the moment before the request, the rows become
  visible when the run commits. A read "as of t" can therefore change after t
  has passed, until every run stamped at or before t has ended.
* **Transactions that do not end where steps end.** `ingest_artifact` commits
  before its run is marked; `issue_forecast` commits the session of its
  caller; the backfill counts a success before its row is committed; the
  notifier saves its state once, after all messages.
* **Reads in several statements** used together: a fold's two catalog reads,
  the three queries of the operational lineage, the fold reads of a promotion.
* **Failure.** Processes die between any two steps; requests fail, answers get
  lost; commands are run again.

What makes each part correct:

* *Catalog*: append-only; a source event has exactly one canonical event; two
  events a source tells apart are never merged; reads of a settled time repeat.
* *Datasets*: what a manifest froze can be rebuilt.
* *API*: a list read page by page while ingestion goes on is the list of its
  `as_of`, each event once.
* *Estimators*: every row of a lineage saw the same events as the completeness
  estimate it starts from; a b-value covers the events it is used on; the
  families of a declustering run partition its triggered events; an anomaly
  index compares like with like.
* *Backfill*: the plan covers the range; the summary agrees with the table; no
  event is lost silently; a recorded range is not fetched again.
* *Issuance*: one run per slot whatever races; one lineage per forecast; the
  lineage picked is one the service accepts.
* *Evaluation*: a finished evaluation is whole, an interrupted one is
  recognisable, a promotion rests on whole ones.
* *Tectonics*: a ready release is whole, a command that stopped half-way never
  keeps the next one from finishing; classifications rest on frozen releases and
  leave a revision out only for others that are as old or older.
* *Notifier*: nothing is posted twice without a cause, nothing is marked
  without a reason, every event is settled in the end.

`PROJECT.json` lists all parts under `components`, with what is left out, and
the hazards at the lines where they bite under `hazards`.

## 2. Modules

| Module | Models | Extends |
|---|---|---|
| `CatalogReads` | the as-of queries, as functions of two tables | |
| `AbstractCatalog` | what the catalog promises: an append-only log of stamped batches | |
| `CatalogIngestion` | `IngestionService.run`, several at once | `CatalogReads`; refines `AbstractCatalog` |
| `AsOfReaders` | dataset versions, the reads of a fold and paging clients, beside the log | `CatalogReads`; instance of `AbstractCatalog` |
| `SeismicityMethods` | what the estimators compute from a selection (no state) | `CatalogReads` |
| `SeismicityEstimators` | the estimator services beside ingestion | `AsOfReaders`, `SeismicityMethods` |
| `SeismicityEstimators_proofs` | theorems | `SeismicityEstimators`, `TLAPS` |
| `CatalogIngestion_proofs` | theorems | `CatalogIngestion`, `TLAPS` |
| `HistoricalBackfill` | `run_usgs_historical_backfill` | |
| `HistoricalBackfill_proofs` | theorems | `HistoricalBackfill`, `TLAPS` |
| `ForecastIssuance` | the chain of fits and the issuance of forecasts | |
| `ForecastIssuance_proofs` | theorems | `ForecastIssuance`, `TLAPS` |
| `FoldCounts` | which events a fold counts and scores, by cell and magnitude bin | |
| `FoldCounts_proofs` | theorems | `FoldCounts`, `TLAPS` |
| `WalkForward` | `run_walk_forward_evaluation`, `assess-model-promotion` | `FoldCounts` |
| `WalkForward_proofs` | theorems | `WalkForward`, `FoldCounts_proofs`, `TLAPS` |
| `TelegramNotifier` | the polling job | |
| `TelegramNotifier_proofs` | theorems | `TelegramNotifier`, `TLAPS` |
| `TectonicReleases` | `ingest-slab2`, `ingest-chaf`, `classify-tectonics`, several at once | |
| `TectonicReleases_proofs` | theorems | `TectonicReleases`, `TLAPS` |
| `MCCatalog`, `MCReaders`, `MCBackfill`, `MCIssuance`, `MCWalkForward`, `MCNotifier`, `MCTectonics` | values for TLC | the module they check |

Definitions named *Variant* in a comment are not part of a specification. They
state a plausible error in the code, and each property is known to fail when
the definition below the variant is replaced by it.

### CatalogReads and CatalogIngestion

`revs` and `mem` are the committed rows of `event_revisions` and
`canonical_event_memberships`. A content is a version number, which stands for
the hash. Position and origin time are one coordinate, `Place`, so that the
scorer's decision and the five-minute window are distances. `LatestOf` is
`row_number() ... = 1`; `PreferredProjection` ranks by source priority and then
by `available_at`, keeping ties because the database may return either.

One run is `StartRun` (the `running` row is committed), `Stamp` (the adapter
reads the clock), `Receive`, `StoreArtifact`, then `SkipKnown` or
`InsertRevision` for each event in any order, `Commit` and `Finish` (status
`succeeded`, in a second transaction). What a run inserts stays in `txArtifacts`,
`txRevs` and `txMem`. The unique constraints are `CanInsert`: an insert whose
key is held by another transaction blocks (`Block`); when that one commits it
fails (`Conflict`); a cycle of waits loses a member (`DeadlockVictim`). `Fail`
may happen anywhere, `RejectPayload` is CSN's error on an empty page, `Crash`
loses the process and keeps the status. `Overlap` says whether two runs of one
source may run at once: nothing in the code prevents it, a careful operator
may. A version stands for what `revision_hash` covers. For USGS that includes
`source_updated_at` and the payload's `updated`, so that even values that return have a
new hash; CSN's adapter sets `source_updated_at` to None and a page can return to a row
exactly. `Reverting` is the set of sources that do.

`AbstractCatalog` has no runs: a time is drawn, and later one batch is added
under it, or none. The refinement maps `clock` to `now` and `open` to the stamps
of runs that may still commit.

### AsOfReaders

The ingestion beside the readers is the log of `AbstractCatalog`, which
`CatalogIngestion` is shown and proved to implement; what holds here holds beside
any ingestion that keeps it. `Retrieve` draws a stamp, `Deliver` commits one batch
of one source under it, `Lapse` commits none. `LinksOf` leaves open which match a
new event is joined to, as long as no canonical event gathers two events of a source.

`CreateDataset` freezes `LatestRevisions` of one statement. A fold reads as of
its issue time (`Prepare`, the baseline), again inside `issue_forecast`
(`Issue`), and as of the end of its window (`Adjudicate`). A client of
`GET /earthquakes` chooses an `as_of` (`StartPaging`) and requests page after page
(`RequestPage`); the query orders by event time only, so that each request may
order events of one time differently. `settled` fields are history variables
for the properties: they tell whether a read was of a time that had passed and
that no open retrieval could still write under.

### SeismicityMethods and SeismicityEstimators

A selection is the set of rows `ListEvents` returns. Magnitudes are whole numbers
in a unit finer than a bin; `Bin` is `_bin_magnitude` with its rounding to the even
bin, which makes `BinnedAbove` (what a b-value is fitted to) larger than
`AtOrAbove` (what is declustered). What an optimizer returns is *any* value its
bounds and its stopping rule leave: `Estimates` for the three completeness
methods, `Thresholds`, `OmoriOutcomes`, `EtasOutcomes`. `Nearest` is the `argmin` over
predecessors for any order of events of one time (`InTimeOrder`), `FamilyRoots` is
`_resolve_family_roots`, `HistoryWindows` and `Anomaly` are the windows of the
anomaly index, what each counts and what its expectation is computed from.

`SeismicityEstimators` has one action per service. Each reads the rows it was
given the id of, reads the catalog *again* as of the time they carry, and commits
its row. Rows never change, so an estimate holds the rows it refers to (`of`);
`used` and `settled` are history variables. The event-time window and the magnitude
type are constants, a region is only present or absent (`boxed`). A behaviour has
either estimators or the readers above: they share nothing but the log.

### HistoricalBackfill

`agenda` is the stack of `plan_time_partitions`, one count per `Plan`;
`slices` are its leaves. `Fetch` is `ingestion_service.run`, whose transactions
are in `CatalogIngestion`; `FetchRaises` includes the run that committed its
rows and failed on its status. `Record` and `RecordRaises` are the commit of the
slice row inside the same `try`: when it fails nobody rolls the session back,
`session` is `"broken"`, every later attempt raises, and the commit of the
failure (`RecordFailureRaises`) ends the command.

### ForecastIssuance

A row of `rows` is an estimate; `at` is its `created_at`, chosen freely after
that of the row it was fitted on because it is taken at flush, not commit. `ok`
says whether the value later steps need is there. `Lock` is the advisory lock on
the **text** of the instant, `Existing` compares the instants, so a request has a
`rendering`. `PickEtas`, `PickGutenbergRichter` and `PickBackground` are three
statements; `Consistent` and `BackgroundFits` are the lineage checks of
`prepare_generation_inputs`. That the horizon is known and that the grid exists and has
cells are about the configuration, refuse whatever rows are given, and are not in
`Consistent`: an operational call that meets them is a `Fail`.
`IssueNamed` is `issue_forecast` called with explicit rows by folds and scripts,
without the lock and with any `trigger_type`.

### FoldCounts and WalkForward

`FoldCounts` has no state. `CellOf` is the division of `_cell_id_for_point`, `InCell`
the bounds `iter_cells` gave the cell when the grid was built; `BinOf` is
`_magnitude_bin_index`; `Estimable` is the row's `support_state`, decided by the
reference magnitude (the `mc_value` of the completeness estimate). `Selected` is the
catalog query of a fold, `Counted` is what `observed_event_count` adds up and
`Scored` what the arrays of the scores hold. The two differ by the events of the
bin that the reference magnitude falls into. Coordinates and magnitudes are whole
numbers; the epsilon in the division only repairs rounding they do not have.

`catalog` has the events of each window. The window of a fold does not depend on
the horizon in the model: overlapping windows are independent sets.

The variables `evals`, `folds`, `forecasts` are committed rows; `flushed` is the score
a fold has flushed. `IssueFold` commits it along with the forecast of the *next*
fold, which is why an evaluation that stops leaves all its scores but the last.
The assessment is `Load`, `ReadCandidate` and `Decide` or `Reject`, one per
statement. `spatialFolds` stands for the counts of folds in which the spatial and
the magnitude test have a result, which the evidence rule of promotion reads.
`Aligned` compares issue times and observed counts as the command does.

### TelegramNotifier

`repo` is the state file on the branch, an option because the first poll finds
none and takes the answer as its baseline. `Newest` is the source's answer, cut
at `Limit`; events are numbered in the order the source reports them. `SendFails` covers
a refused message and a posted one whose answer was lost. One `except` clause ends the
request, the loop and the save, prints, and lets the job go on to its push. `QueryFails`
is the request. `LoopFails` is a feature the loop would send and cannot format (no place,
magnitude or geometry): the save is skipped, and what this poll posted before is
forgotten and posted again by the next. `SaveFails` leaves the file as it was, or
empty. `Push` is refused when `behind`. `upsets` bounds lost answers, dead runners,
foreign commits, polls that raised after a post and saves that failed, and `NoRepeat`
counts them; a poll that raises before it posts anything costs nothing and is not bounded.

### TectonicReleases

`release` is the status of a `tectonic_releases` row, `asset` and `rows` are the
committed assets and the slab nodes or fault traces, these in batches. An ingest
command is `Start` (the select of `ensure_release`), `CreateRelease`, then for each
asset `Reuse` (it is recorded: the file is read and verified again) or `StartRun`
(an `ingestion_runs` row is committed before the download) and `Record` or
`RunFails`; `CheckEmpty` and `Insert` are `load_nodes` and `load_chaf`, whose
batches stay in `tx` until `CommitReady` commits them with the status. Unique
constraints let an insert wait for another transaction (the guard of `Insert`) or fail
(`InsertConflict`, the second case of `CreateRelease`, `RunFails`). A classify
command is `PickSlab` and `PickFault` (two calls of `ready_release`) or `Refuse`,
`Select` (`Oldest`: revisions of one artifact share `available_at`, and the query orders by it
alone, so any order of them and any cut between them), and for each revision `Look` and `Write` or `WriteConflict`, with one
commit each. `seen` is a history variable. An altered file, content that does not
parse and database errors are `Error`; `Crash` loses the process.

## 3. Runs

| Run | Question | Instance |
|---|---|---|
| `catalog_serial` | Is linking right when runs of one source do not overlap? | CSN with one event, USGS with two close to it, one revised out of the window; whole feeds and a narrower query; 3 runs |
| `catalog_overlap` | What survives when they do overlap? Refinement, final reads, one membership, no hang | the same events, 2 runs, with fairness |
| `readers` | Are datasets, folds and pages of settled times reproducible, and does a lineage of estimates see one catalog? | a CSN event and three of USGS, one of them revised out of the window, two at one time; 2 retrievals; one dataset, fold or client, or one lineage of up to 4 estimates; index ends before, at and after the end of the window |
| `backfill` | Coverage, summary, nothing lost, nothing fetched twice, termination | 4 events on [0, 8), one appearing late; 3 invocations with ends 4 and 8; 2 attempts |
| `issuance` | One run per slot, one lineage, no refusal after the picks, no hang | 2 processes, 2 calls, 1 explicit issuance, up to 6 estimates with two completeness and two Gutenberg-Richter, background rates over two grids, one estimate unusable |
| `promotion` | What is left by interrupted evaluations, what their scores are over, and what an assessment may see | 2 evaluations with different reference magnitudes, protocols of three and two folds, 1 change of the catalog by one of 3 events: on an edge between two cells and two bins, in a bin that is estimable for one of the evaluations, on the edge of the grid |
| `notifier` | Is anything posted twice or marked without a reason, and is every event settled? | 4 events, answers of 3, 2 messages per poll, 1 upset, clock to 2, age limit 0 |
| `tectonics` | What is built and classified when commands race, fail and die, and does each one end? | a slab release of two assets, a second one and a fault release of one, 2 batches; 2 ingest commands, 2 classify commands with limit 2; 3 revisions, two of them of one artifact |
| `catalog_conflict` | *violated*: overlapping runs put two USGS events in one canonical event | 3 runs, `Overlap` |
| `catalog_revert` | *violated*: a content that comes back never becomes the latest again | the CSN event alone, whose page says 1, 2, 1; 3 runs |
| `readers_race` | *violated*: the two reads of a fold differ | 1 fold, the same events |
| `notifier_overlap` | *violated*: two jobs post one event though nothing fails | 2 jobs, 1 event |

The violated runs each check a sentence of the repository against what its code
does; `findings` in `PROJECT.json` quotes the sentence.

**Why the bounds are enough.** Linking needs a match, a second event of the
matched source and a revision that moves: three events, of which one has two
versions. An overlap anomaly needs two runs, and a third to see it from a
narrower query. A backfill needs one bisection on each level, an adapter cap
above the plan limit, a failed attempt and a second one, and one invocation to
leave state and one to use it (the third covers a range that nests in both). Two
processes are enough to race for a lock, two Gutenberg-Richter estimates on
one completeness estimate for the picks to differ from the newest rows, two completeness
estimates for a rate model and a b-value that do not belong together, and two grids for a
background rate of the wrong one. An estimate may be committed before one that was created
earlier (`MaxOpen` of them), so that the newest row need not be the last to appear. For the
notifier, one event more than an answer holds and two more than a poll may send, so that a
loop can raise after a post and a poll can leave events to the next. An event at
each kind of edge is enough for the counts, which treat events one by one. A release
needs a second asset to stop between two, a second batch to stop between two,
two commands to race; a batch of classifications needs one revision more than
the limit, and two of one `available_at` for the limit to cut between. A reader needs a second retrieval, stamped before its read and committed
after it or between two of its reads. A lineage needs a chain: completeness,
b-value, declustering and the families of that run are four commits, and so are
completeness, ETAS and an index; a family with two generations needs three
events and `MinPairs` predecessors, an index a window before the evaluated one.
In `SeismicityEstimators` one completeness estimate is enough because a row refers to no
other lineage; the exception, a seed taken from another lineage, is named in section 6.
The bounds (`MaxPublish`, `MaxStarts`, `MaxCalls`, `MaxNamed`, `MaxRows`,
`MaxOf`, `MaxUnusable`, `MaxOpen`, `MaxChanges`, `MaxUpsets`, `MaxNow`, `MaxClock`, `MaxReaders`, `MaxLineages`,
`MaxFits`, and the sets `Ends`, `Loader` and `Classifier`
of commands that may be started) are constants in the guards of
the actions that would make the state infinite. Symmetry is used over runs
where no liveness is checked.

Deadlock is not checked: a model whose bounds are used up stops, and so do
the commands it models. That no process is stuck is what the liveness
properties say instead.

**What the properties assume.** `SlotIdempotent` excludes slots that were
written with two offsets or issued outside the lock (`Disturbed`), because the
code does not protect them. The properties of `AsOfReaders` and
`SeismicityEstimators` about rows made at different moments speak of *settled*
times: before that, the same read may give more rows, and `readers_race` shows that it
does. `PagesAreWhole` also assumes that no two listed events have one event time,
because the order of the pages does not tell them apart.
`NoRefetch` is checked, and proved, for invocations that bisect one range: with an `--end`
that is on no cut of the others, or an event that appears late and makes a recorded slice
too full, the code requests again what it has.
`IasComparesLikeWithLike` compares counts with the catalog for ends inside the
window of the completeness estimate (section 6). `NoRepeat` with jobs that overlap is a finding; the
passing run has one job at a time. It does not say that a poll never repeats: a feature
the loop cannot format makes *each* poll that posts before it repeat its messages, until
the feature is past the age limit, and each of them counts as an upset. `OneSourcePerCanonical` and
`CatalogReflectsLastDelivery` are checked without overlap of one source, and the
first is a finding with it; the second also assumes that no source goes back to a content
it withdrew, and is a finding for CSN, which can. `EveryEventSettles` does not claim that an event is
posted: one whose messages fail, or that waits behind the limit of a poll, is
marked at the age limit without having been posted.

## 4. Fairness

* `CatalogIngestion!FairSpec`: weak fairness of each run's own progress. HTTP
  clients have timeouts, PostgreSQL ends every wait by commit, rollback or
  deadlock detection. Errors and crashes are never owed.
* `HistoricalBackfill!FairSpec`: weak fairness of the command, which is one
  sequential process. Its errors are among its steps; the source is not owed.
* `ForecastIssuance!FairSpec`: weak fairness of each process, and strong fairness
  of `Lock`: PostgreSQL queues waiters of an advisory lock, so one that is free
  again and again is handed over in the end.
* `TelegramNotifier!FairSpec`: the clock, the schedule and each job run on, and
  the source does not fail every request for ever (strong fairness of `Query`).
  That Telegram ever accepts a message is not assumed, nor that a feature the loop cannot
  format is ever completed: it expires. Saves that fail, and polls that raise
  after a post, do so `MaxUpsets` times at most.
* `TectonicReleases!FairSpec`: weak fairness of each command, a sequential process
  with timeouts on its requests; a wait ends with the transaction waited for.
  Its errors and crashes are not owed.

## 5. Proofs

The theorems hold for every value of the constants that satisfies the modules'
assumptions: any number of runs, events, versions, processes, slots and
estimates.

**`CatalogIngestion_proofs`**

* `TypeCorrect`: `Spec => []TypeOK`.
* `OneMembershipHolds`: `Spec => []OneMembership`, overlap included.
* `AsOfReadsSettle`: `Spec => AsOfSettled`.
* `LogRefinement`: `Spec => ImplementsLog`.
* `OneSourcePerCanonicalHolds` and `MembershipCoversRevisionsHolds`, if runs of one
  source do not overlap (`~Overlap`); runs of different sources still do.
* `LastDeliveryHolds`: `Spec => []CatalogReflectsLastDelivery`, if moreover no source
  goes back to a content it had withdrawn (`Reverting = {}`; USGS cannot, CSN can).

* `NeverAllStuck`: `Spec => []NoStandstill`. As long as a run has not ended, some run
  may take a step of its own work, without an error or a crash.
* `RunsAreShort`: `Spec => []FiniteInv /\ RunsGetNearer`. A step of a run's own work
  brings it nearer to its end (`Nearer`: a later stage, fewer events to ingest, or the
  wait for one of them), and no step of another run or of a source takes it away from it.

With overlap `OneSourcePerCanonical`, and with such a source `CatalogReflectsLastDelivery`,
are findings (section 3).

None of these is inductive: rows come from transactions, so the invariant must
speak of what is still inside them. `IInv` adds to `TypeOK` the parts
`StampInv` (stamps of runs that may still commit are distinct, none is ahead of
the clock, pending rows carry the stamp of their run), `KeyInv` (the unique
constraints over committed rows and open transactions) and `MemInv` (a
revision, committed or pending, has a membership; a pending membership is the
first of its event). `RowSteps` reduces every step to four effects on the rows,
and `StampStep`, `KeyStep`, `MemStep` treat those. The refinement needs
`StampInv` twice: a commit adds rows under one open time, and the open times
without it are those of the other runs.

The last three need what keeping runs apart gives. `SerialInv`: two active runs have
different sources, and what a run has still to ingest is of its source. `OwnInv`:
rows of an open transaction are of the run's source, and what that source already
has in the catalog carries an earlier stamp. With these, `CoverInv` and `ApartInv`
are the two properties stated for an open transaction together with what is
committed: the canonical event a revision joins was seen by its retrieval and has no
member of its source (`LinkTarget`), and no concurrent run can add one. `LateInv`
follows the deliveries: contents are numbered as they were published (`FeedInv`), what a
run received is to be ingested or recorded and what is recorded was received
(`KeptInv`), and a row retrieved later is not an older content (`OrderInv`), because
a run is stamped after every earlier delivery of its source and receives the last
content there is.

`NeverAllStuck` and `RunsAreShort` are what can be said of `EveryRunEnds` without
fairness. ENABLED is out of the prover's reach, so `MayMove` writes the guards of the
disjuncts of `Progress` out. `WaitInv` says that a run waits for a key it wants to
insert, or one that is committed by now, and that only a run that is ingesting holds
keys. A run that may not move waits for a key in the open transaction of another
(`StuckWaits`); if none may move, all wait so, and among finitely many such runs some
wait in a circle (`CircleExists`, the smallest set in which each waits for another), which
is what PostgreSQL breaks. No assumption keeps the number of runs finite: only those that
were started matter, and they are finitely many at any moment. Linking is not an obstacle
either: it has an outcome for every revision (`LinksExist`). Nothing is assumed of
overlap.

**`ForecastIssuance_proofs`**

* `TypeCorrect`: `Spec => []TypeOK`.
* `SlotIdempotentHolds`: `Spec => []SlotIdempotent`. The invariant `SInv`
  follows the double check: processes past the lock with one request are one
  process (`Exclusion`), one that found no run still would (`StillNone`), a slot
  nobody disturbed has at most one scheduled run (`OneRun`), and answers name
  runs that are there (`Answered`).
* `LineageConsistentHolds` and `PickedIsIssuableHolds`: from `LInv`, which says
  that ids are unique (`RowIds`, which also makes the grid of a background rate one), that an estimate rests on a usable one
  (`FittedOnUsable`), that issued runs passed the checks (`IssuedConsistent`), and
  at each step of a process which of the checks its picks already pass
  (`PickedSoFar`). The lemma behind them is `ConsistentGrows`: rows are only
  added, so a lineage that passes the checks passes them for ever.

**`TectonicReleases_proofs`**

* `TypeCorrect`: `Spec => []TypeOK`.
* `ReadyIsWholeHolds`: `Spec => []ReadyIsWhole`.
* `BasisFrozenHolds`: `Spec => BasisFrozen`.
* `AssetsHaveOneRunHolds`: `Spec => []AssetsHaveOneRun`.
* `OldestFirstHolds`: `Spec => []OldestFirst`.

`ReadyIsWhole` alone says nothing of a command under way. `IInv` adds `LoaderInv`
(a command has recorded the assets before the one it is at, and all of them when
it inserts rows), `ClassifierInv` (the releases a command picked are still ready)
and `ResultsInv` (so are those of every result). Assets are never removed and a
ready release stays ready, so what a command knows survives the others' steps;
that the rows are whole when it commits follows from `ReadyIsWhole` itself: the
command inserted every batch, and before its commit either all batches of the
release were committed already or none was. `AssetsHaveOneRun` needs `RunsInv` beside
`IInv`: an asset is recorded exactly when one command's run for it succeeded, because
both are one transaction and the second to try fails on the unique constraint.
`OldestFirst` is about the end of a command whose selection was made long before;
`OldestInv` says it of the selection: each revision seen is classified, selected, or
behind `Limit` others as old or older that are. "As old" cannot be dropped: of an artifact's
revisions the database may take any. Results are only added, so only `Select` has to be
looked at (`OldestFill`: a selection that leaves something out has `Limit` members, and none
is younger than what it leaves out).

**`HistoricalBackfill_proofs`**

* `TypeCorrect`: `Spec => []TypeOK`.
* `PlanCoversHolds`: `Spec => []PlanCovers`.
* `SummaryMatchesRowsHolds`: `Spec => []SummaryMatchesRows`.
* `NothingLostHolds`: `Spec => []NothingLost`.
* `NoRefetchHolds`: `Spec => NoRefetch`, if `SettledPlan(top)` for some range `top`.
* `SameCommandNeverRefetches`: `Spec => NoRefetch`, if there is one `--end` and nothing
  is published after the first invocation; the plain reading of the resume key.
* `CommandIsBounded`: an invocation for a range of x instants takes at most
  x (2 `MaxRetries` + 4) + 1 steps, whatever is published meanwhile.

The first four hold for any events and range, any limits, whatever counts the source gives
while the plan is made, and any number of failures and invocations. `PlanCovers` is
proved from a form of it that bisection keeps more easily, `Partition`: the intervals lie
one after the other and every instant is in one (`Bisected`; `PartitionTiles` leads
back). A bisection makes two intervals of positive length because `MinSlice` is
positive (`MidpointInside`). Beside `PlanInv`, `IInv` has `LoopInv` (the slices dealt with
so far have a row that agrees with the report, and an attempt about to be recorded has its
events in the catalog), `IngestedInv` (so has every row that says "succeeded",
whichever invocation wrote it), `KeyInv` (one row per interval) and `CountInv` (a session
that is broken never returns, so that a success counted twice is never reported).
`Distinct` is why the row of one slice is not the row of another.

`NoRefetch` needs a hypothesis, because a slice is skipped only if a row has exactly its
bounds. `SettledPlan(top)` says that every range asked for is an interval of the
bisection of `top`, and that no interval of it comes to hold too many events only with
those published late. Otherwise a later invocation cuts elsewhere and requests what it
has. The instance of the run `backfill` satisfies it, with `top` = [0, 8). `Tree(top)` is the least
set that is closed under bisection, so that no induction is needed: what belongs to
every closed set belongs to it. Its leaves do not overlap (`LeavesApart`), and
`RefetchInv` says that slices and successful rows are leaves. For `CommandIsBounded`,
`StepsLeft` counts what may still come: planned pieces have positive length and are at
most as many as instants (`PiecesAreFew`), and each takes two steps per attempt, one to
look for its row and one to record that it failed.

**`WalkForward_proofs`**

* `TypeCorrect`: `Spec => []TypeOK`.
* `FoldsArePrefixHolds`: `Spec => []FoldsArePrefix`.
* `PromotionHolds`: `Spec => []PromotionComparesWholeRuns`.
* `ScoresMatchForecastHolds`: `Spec => []ScoresMatchForecast`.

`EvalInv` says what each step of an evaluation finds: `Cut(e, l)`, the forecasts up to
the issue time `l` and the scores of all but the last, moves with the loop, and the
score of `l` is flushed or lost. `NextTime` says that the loop passes over no issue time
(multiples of the step are a step apart). For a promotion, `ReviewInv` says that the
aggregates of a candidate are loaded from a finished evaluation only, so its folds
are read whole; those of the champion have the same times, and an evaluation that has begun
and has all its scores is finished (`WholeIsFinished`), because an unfinished one lacks
the score of its last forecast. `ScoresMatchForecast` rests on `RowsAddUp` of
`FoldCounts_proofs`: the score of a fold is computed from the catalog of the moment, and the
events it counts are those of the rows of its forecast.

**`TelegramNotifier_proofs`**

* `TypeCorrect`: `Spec => []TypeOK`.
* `MarkedForAReasonHolds`: `Spec => MarkedForAReason`, with jobs that overlap or not.
* `NoRepeatHolds`: `Spec => []NoRepeat`, if jobs do not overlap (`~Overlap`); with
  overlap it is a finding.

`FreshInv` says that a job whose push will be accepted started from the state that is on the
branch, and `ReasonInv` that whatever its copy has beyond that state was posted or is too
old. `PostedInv` is an account for each event: what was posted is at most its mark, where
the job at work has it, plus the upsets; a job that is behind still owes one upset,
because its marks will be lost with the refused push. A poll that raises after a post
loses its marks and counts one upset in their place; before its first post it has
posted nothing that the branch does not say.

**`FoldCounts_proofs`**

* `CellByBounds`: an event is given the cell whose bounds hold it.
* `ScoredAreRows`: what a fold scores is the union of the events of its estimable
  rows.
* `RowsApart`: no event is in two rows.
* `RowsAddUp`: the counts of the estimable rows add up to the number of events scored.

They hold for every grid, bins, region, catalog and reference magnitude. The sum is a
fold over the set of rows, defined by a recursive function of the community modules;
counting the events held by a subset of the rows satisfies its equation (`HeldAdds`),
and nothing else does, because two solutions would differ at a smallest set of rows
(`SumIsUnique`). The others rest on `Quotient`
(division by a positive number), `BinByBounds` (the first bin that holds a
magnitude is the only one) and on `BinsAscending`, the assumption that the bins of
`config/forecast-specification.yaml` are in order; its loader does not check it.

**`SeismicityEstimators_proofs`**

* `DatasetReproducibleHolds`: `Spec => []DatasetReproducible`.
* `SettledFoldsAgreeHolds`: `Spec => []SettledFoldsAgree`.
* `LineageSeesOneCatalogHolds`: `Spec => []LineageSeesOneCatalog`.
* `BValueCoversLineageHolds`: `Spec => []BValueCoversLineage`.
* `IasComparesLikeWithLikeHolds`: `Spec => []IasComparesLikeWithLike`.
* `PagesAreWholeHolds`: `Spec => []PagesAreWhole`.
* `FamiliesPartitionHolds`: `Spec => []FamiliesPartition`.
* `LogStaysWhole`: `Spec => []LogWhole`, which the last two use.

The first five follow from one invariant, `IInv`, in two steps. First the log: a settled
time stays settled, because a stamp drawn later is later (`LogStep`), and rows of
later batches carry later stamps, so every read of a settled time gives the same
rows after any step of the log (`LogKeepsReaders`). Then the rows: what an
estimate was made from is, as long as its lineage is settled, a function of the
catalog now (`LineageInv`, `IndexInv`), and estimates are only added. From that,
two rows of a lineage agree whenever they were made. `BinIsMonotone` says that
rounding to bins keeps the order of magnitudes, from which `BinnedAboveCovers`:
an event at or above Mc is one the b-value was fitted to. `WindowsFollow` says
that the windows of an index start where the previous one ends and none starts before
the catalog's window, which needs that the first event is inside it
(`ReachedUpwards`). They hold for any number of readers, lineages and estimates.

The other two need that a read is finite, which `LogWhole` says from the assumption that
`Event` is. Events with different times have one order (`OrderIsUnique`, by the first
place where two orders differ), it is the same for every request of a client once its
time is settled, and a page is the next piece of it (`PrefixGrows`). The links from
triggered events to their parents are a forest: a parent comes before its child in
the order of the catalog (`NearestIsEarlier`, `ClassifyMakesForest`), so climbing from
any event ends at one background event (`ClimbEnds`, by the first event from which it
would not; `RootsAreResolved`), and the events that end at it are its family
(`FamiliesOfForest`).

**Only model-checked**: liveness (`EveryRunEnds`, `CommandEnds`, `EveryCallEnds`,
`EveryEventSettles`, `EveryCommandEnds`), which is out of the prover's reach.
`NeverAllStuck`, `RunsAreShort` and `CommandIsBounded` prove the parts of the first two that
need no fairness. Every invariant and action property of the passing runs, and the
refinement, has a theorem. The library's induction theorems cannot be used, because they
take an operator; where an argument is an induction, its place is taken by a least
counterexample (`LeastOf`, from the well-foundedness of `<`).

## 6. What is not modelled

Numbers: likelihoods, kernels, optimisers, forecast rates, scores and tests are
floating-point computations, followed only by what they were computed from and
what their bounds and stopping rules leave; of the anomaly index, the counts are
modelled and the percentile is not. An evaluation's counts are modelled, the
scores over them are not. Parsers, normalisation and quality flags are functions
of one event.
Settings, schema migrations, the API's formatting and the replay engine keep no
state of their own or are one call of something that is modelled.
`issue-forecast` on the command line passes an argument `issue_forecast` does
not have (`cli.py:545`), so explicit issuance in the model comes from
evaluations and scripts.

Known limits that no property states: two reports of one shock that arrive in
overlapping transactions of two sources are never joined
(`ingestion/service.py:380`, both orders are reachable in `CatalogIngestion`); a
walk-forward step shorter than the horizon gives overlapping folds that are
treated as independent (`evaluation/replay.py:432`); a promotion compares evaluations
whose estimates have different reference magnitudes, and so scores over different
bins, when their event counts agree (`cli.py:607`); an anomaly index whose end is
after the window of its lineage counts events in a part of its window that the
catalog was not read for (`seismicity/service.py:917`, reachable in
`SeismicityEstimators`, where `Ends` has such an end); an ETAS fit may be seeded with the
Omori row of another lineage (`seismicity/service.py:499`); a background rate is
computed from the first event alone when no threshold could be fitted
(`EstimateBackgroundRate`); a second ready release of a
source is refused by every classification (`tectonics/service.py:154`, reached by the
run `tectonics`).

## 7. Plan

1. Catalog, readers, estimators, backfill, issuance, evaluation, notifier,
   tectonics: modelled and checked; a theorem for every safety property. *Done.*
2. Tectonics extended: what a classification should do with a second release of
   one source (the run reaches the refusal).
3. Issuance extended: forecast freshness and the status endpoint, the refusal
   when an older compatible lineage exists, fit times against issue times.
4. Algorithms as functions against a reference: the support decisions of
   promotion, quality flags.
5. Bounds like `CommandIsBounded` and `RunsAreShort` for issuance, the notifier and the
   commands of tectonics.
6. The seeding pipeline: a moving end of the backfill against its resume key.
