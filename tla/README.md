# Specifications of BusyCafe

TLA+ models of the BusyCafe program (the paths below are relative to the
repository), TLC configurations that check them on small instances, and TLAPS
proofs of the properties that matter most for every value of the constants.

## 1. The system

    city data API --> ingest worker --> PostgreSQL / SQLite --> FastAPI --> edge cache --> browser
                      (poll, store,      cycles, snapshots,     (cache-only  (5 min, keyed    (map, search,
                       materialize,      scores, serving         reads,       by the data      panel, reports)
                       prune)            states, cafes,          user         version)
                                         user reports)           writes)
    place catalogs --> seed / sync scripts --> cafes, cafe_provider_places

Supabase `pg_cron` dispatches two GitHub workflows every five minutes, the poll
(offset 2) and the freshness monitor (offset 4); the Kakao catalog is applied
weekly; the other catalog refreshes, the bootstrap and the evaluations are
dispatched by hand. The parts share the database and nothing else; inside the
browser the parts share one thread.

| component | source | state | operations | hard parts | what makes it correct |
|---|---|---|---|---|---|
| poller | `backend/app/ingest/poller.py` | futures and counters of one pass | fetch with retries, take results in order, open the circuit | threads against ordered results, the circuit's budget, interrupts | a pass is a sequential circuit breaker, whatever the threads do |
| worker, repository | `ingest/worker.py`, `repository.py` | `ingest_cycles`, `hotspot_snapshots` | start, poll, save a batch or fall back, materialize, prune, finish | signals between commits, lost acknowledgements, overlapping workers | a closed cycle tells the truth; the newest snapshot is never lost; scores follow snapshots |
| scoring engine | `scoring/engine.py` | `cafe_scores`, `hotspot_serving_states` | score a cafe, forecast, `materialize_all` | several reads and one write without a lock | scores and serving states of one hotspot agree, or readers notice |
| read API | `api/routes.py`, `main.py` | none | list, search, detail, hotspots, health | tables written at different times, answers cached under a version | nothing stale is presented as current |
| user contributions | `routes.py` | `cafe_crowd_feedbacks`, `cafe_place_reports`, `user_contribution_rate_limits` | claim a slot, store the contribution | concurrent claims, clocks of several servers, two transactions | the cap holds; a 202 is stored |
| catalog writers | `ingest/overture_places.py`, `kakao_catalog_*.py`, `scripts/seed_*.py` | `cafes`, `cafe_provider_places` | seed, refresh, link, retire | five pipelines own overlapping rows | one owner per place; no pipeline undoes what another must rely on |
| catalog builders | `ingest/*catalog*.py`, `permit_*.py`, `naver_place_links.py`, `seoul_refreshment_candidates.py` | none | match names, phones, addresses and distances in stages | records that match two others, the order of stages and rows | a place, a permit or an identity is linked once |
| sweeps, caches | `kakao_places.py`, `scripts/cache_*.py` | cache and manifest on disk | sweep recursively, page, publish | paging under change, call budgets, kills between two files | what reads as complete is complete |
| provider clients | `app/clients/` | none | request, parse, classify errors | which errors are retried, how long to wait | calls stay in budget, errors are no data |
| browser data layer | `frontend/src/cafe-provider.ts` | tile cache, splits, request slots, data version | fetch tiles and details, limit requests | aborts, answers late for the version or the view | a resolved viewport misses no cafe; every slot comes back |
| browser map | `map.ts`, `observation-age.ts` | sequence numbers, controller, collections | move, refresh, check health, age | late answers, aborted loads, background refreshes | a resting map shows what it rests on, and nothing outdated as current |
| browser panel | `panel.ts`, `map.ts` | open cafe, details, two forms | select, update, submit | late answers, submissions that outlive the panel | the panel shows what the user chose, and thanks only for what is stored |
| browser search | `cafe-search.ts` | query sequence, results, report form | type, filter, select, report | late answers against a cleared input | results are those of the current query |
| page shell | `app-boot.ts`, `visual-viewport.ts`, `cafe-panel-sheet.ts`, ... | layout | gestures, notices, overlay, analytics | | |
| monitor, SLO analysis | `scripts/check_freshness.py`, `analyze_ingest_slo.py` | none | compare ages with limits, attribute snapshots to cycles | thresholds at their boundaries, cycles that overlap | what is live is healthy; nothing is counted for two cycles |
| scheduling | `.github/workflows`, `scripts/configure_supabase_scheduler.py` | concurrency groups, cron rows | dispatch, cancel | which jobs may overlap, minutes that wrap | every poll is followed by its monitor |
| schema, settings | `models.py`, `database.py`, `config.py`, `backend/migrations` | | | | |
| offline data | `ingest/living_population.py`, `scripts/download_living_*`, `compact_*`, `build_purpose_od_*`, `run_living_od_*`, `run_purpose_od_*` | archives, manifests, artifacts | download and resume, compact, add up, screen | kills, lost files, masked counts, hours at boundaries | no row is lost or doubled, no evidence replaced, only held-out days decide |
| shadow models, backtests, evaluation | `scoring/*_shadow.py`, `confidence_v2.py`, `scripts/run_*eval*.py`, `select_eval_*`, `prepare_eval_*` | files | estimate, look back, compare, promote | evidence that is missing, outdated or from the future | nothing is judged by what was not known yet, nor on unequal terms |
| activity artifacts, hotspot master, reports | `build_activity_artifact.py`, `hotspot_master.py`, `scripts/report_*`, `profile_*` | files | join, render | | |

`PROJECT.json` says of every component what is modelled, and lists the hazards
of the code at their lines with the properties that watch each of them; section 5
names those that no property can judge.

## 2. The modules

### PollOnce, and the abstract CircuitBreaker

`poll_once`: `caller` is the caller's thread, `fetch[t]` the future of target `t`,
`attempts[t]` the requests `fetch_target` has made, and `saved`, `failed`,
`consecutive` the counters. The caller submits a batch no larger than the pool
and the circuit's remaining budget, takes results in target order, counts, and
returns, cancels, or unwinds through the executor's exit. A pool thread requests,
retries and ends on its own. What `build_snapshot_record` makes of a payload is
the choice of a valid or an invalid one. `CircuitBreaker` has no threads and no
counters: outcomes in target order, cut at the first run of failures, one report
that accounts for every target. The refinement mapping (`PassLog`, `PassReport`)
reads the outcomes of the processed prefix.

### IngestWorker, and the abstract CycleLedger

`run_poll_cycle` with the repository calls it makes, one action per commit, so
that several workers interleave and SIGINT, a kill or a database error falls
between any two: open a cycle, poll (PollOnce as one step), save the batch or
fall back to record by record, read the newest snapshots, overwrite all scores,
select and delete old snapshots, close the cycle. `rows` is `hotspot_snapshots`
by its natural key, `scored[h]` the observation the stored scores come from,
`cycles` is `ingest_cycles`. A failing batch may have committed before its
acknowledgement was lost. `InterruptAt` names the places where SIGINT may
arrive; the runs that check what holds under signals let it arrive at all of them.
`cut` is a history variable: the cycles that SIGINT took outside the try block, or
between the return of the poll and the line that takes its report back, and those
whose process was killed or whose close raised. `MCIngestAlone` puts one worker
beside a pass of `PollOnce`; they share no variable. `CycleLedger` is what the readers of `ingest_cycles` rely on: a cycle is
opened running, closed once, to counters its CHECK constraints allow.

### Contributions

The three POST endpoints. `slot[k]` is the rate-limit row of kind `k`, `lock[k]`
the request whose open transaction holds it, `granted`, `stored` and `accepted`
count per bucket what was committed, inserted and answered with 202. A request
upserts under PostgreSQL's row lock, is refused with 429, commits its claim,
inserts, answers; any commit can fail and any server can stop. `Skew` lets each
server's clock be off from the true bucket, either way.

### RequestSlots, and the abstract Semaphore

`acquireRequestSlot` and `withRequestSlot`: the counter, the queue of waiters
(`ahead[t]` is its order), the aborted signals, and where each task is. Each
action is the code between two awaits. A release hands its slot to the first
waiter; a waiter that is aborted after the grant and before it resumes passes
the slot on. `Semaphore` knows only the set of holders.

### TileProvider

`getCafes` and `getTileFeatures`: the cache by version and tile, the remembered
splits, and for each call what it does with each tile. A tile is the sequence of
quadrants that leads to it. The server may answer from any catalog there has
been, as HTTP caches do; the catalog and the data version change under the calls.

### CafePanel

`selectCafe` of `map.ts` and `panel.ts`: the open cafe, its details, the detail
requests in flight and the one that holds the sequence number, what the map brings
for an open panel, and the two forms, whose submissions outlive it. Details and
search results bring a level with the observation it was computed from
(`Evidenced`); the summaries of the viewport (`/api/cafes/summary`) bring a level
and no evidence, from a tile of any age, and so replace the level on the panel and
leave its citation (`Summaries`). `chosen` and `stored` are history variables, and
so is `bare`: the level shown came without an observation.

### MapView

`updateDisplayedCollection`, `refresh` and the handlers of `map.ts`: what the map
rests on or passes, the loads in flight, `requestController` and the holder of
`requestSequence`, the health checks, the search that replaces the viewport's
cafes, and the ticks that turn levels off once their observation is outdated.
The panel and the slots are not repeated here.

### Catalog

The tables `cafes` (by origin) and `cafe_provider_places` (by place) as partial
functions, and the pipelines that write them: the curated Overture seed, the
direct one of the bootstrap, the provider catalog, the weekly Kakao apply and the
Naver links. An apply is one transaction and so one action; the Naver job is two,
its reads and its inserts, because it shares no workflow group with the others
and searches for minutes in between. A Naver commit that falls inside another
apply can only make that apply fail on a unique key, which changes nothing, and
is a stutter. A spot stands for positions within 250 m of one another, so that a
change of spot is a large move. Which records match which is an arbitrary choice
within the uniqueness that the builders guarantee. The bootstrap's seed is one
more job that excludes the others, as `docs/OPERATIONS.md` has it run on an empty
database.

### Serving

One hotspot and one cafe beside it, from the stored snapshot to the screen.
`materialize_all` is three steps (read the latest snapshots, read the twelve-hour
history, write scores and serving states in one commit), with snapshots stored
and other materializers running between them. It may raise, or its process be
interrupted or killed, at each of them: the rows are then committed and their
scores are not (`Fails`). A hotspot whose rows are all older than twelve hours has
no trend, and its serving state is not written though the score is
(`engine.py:357`); `horizon` is how far observations were found that old. `Detail`
is the gate of `get_cafe` that leaves out a trend and a forecast of another
observation than the score's. `edge[v]` is the observation of what the edge holds
for the URL of data version `v`, and whether its `s-maxage` is over; it leaves when
the last of stale-while-revalidate and stale-if-error is. The browser takes its
version from whichever health answer arrives last. `settled`, `reached` and
`crossed` are history variables: what was last scored by a materializer beside whom
no other was at work, what that was when each version began, and those at work now
beside whom another was.

### CafeSearch

`cafe-search.ts`: the input, the debounce timer, the running search and its
aborted predecessors, the results and where they are published, and the form that
reports a missing cafe. `MCRequests` composes it with `RequestSlots`: the two
share the page and no variable, the search taking no slot, so each is explored
while the other rests.

### Backfill and SourceSweep

The two kinds of offline job that keep state on disk. `Backfill` is
`download_living_population_history.py`: one month after another through a
partial file, a link and a manifest, killed between any two steps, ended by a
manifest that cannot be written, resumed over what is there, with files lost or
damaged and removed by the operator between runs. `SourceSweep` is the recursive Kakao sweep (a cell is the path of quarters
to it, a full cell is divided, pages are read one by one while places come and
go, a budget bounds the calls), the paged permits, and the publication of cache
and manifest; `Readable` is what `read_kakao_cache` accepts.

### The rules

Modules of operators without variables: functions of the rows, files or answers
that the code is given, in the order of its guards. Each ends in its properties,
which take inputs as arguments. `Rules` puts them together: one variable, the
`sample` (a rule and an input of it), and the six families as conjunctions.

| module | code |
|---|---|
| `Estimates` | `score_cafe`, confidence tiers and the one-hour forecast of `engine.py` |
| `Freshness`, `ReadApi` | ages and their masks in the API, the browser, the status line and the monitor; listings, search and its ranking, verified links, health of `routes.py` |
| `Operations` | cron schedules of `configure_supabase_scheduler.py`; cadence gaps, missed cycles and attribution in `analyze_ingest_slo.py` |
| `Clients` | retries and their delays, budgets and error payloads of the provider clients |
| `Matching` | permits, curated catalog, provider catalog, expansion, permit verification, review samples |
| `LivingData`, `Statistics` | reading and compacting living population, flows by hour, same-day and repeated screens, stability; ranks, quantiles, correlations |
| `Evaluation` | selection, worksheets, replay at the time of a row, agreement, promotion |
| `Backtests` | nowcast and its backtest, source delays, temporal baseline |
| `Shadows` | polygon, density, grid, confidence, capacity and activity shadows |

Times, positions, counts and weights are small integers, exponentials and logs
are tables given as constants, ratios are percentages or pairs compared by
products. Texts are equal, near or not. A row that the code refuses makes the
operator `Refused`, a missing value is `None` (`Outcomes`, which also has the
`InOrder` of every ORDER BY and `sorted`).

## 3. What TLC checks

| run | instance | question |
|---|---|---|
| `workers` | 2 workers, 2 hotspots, 2 times, any 2 faults | Do overlapping cycles stay apart in the ledger (`KeepsLedger`), does complete mean stored (`WorkInv`), is a newest snapshot never lost (`LatestNeverMovesBack`)? |
| `ingest_alone` | a pass of 5 targets, 1 retry, circuit of 3, pool of 2; 1 worker, 2 hotspots, 3 cycles, 2 faults of SIGINT anywhere and kill | Do threads, retries and interrupts leave the pass a sequential circuit breaker that stays in budget and drops no fetched answer (`PollInv`, `IsCircuitBreaker`)? Without overlap and database errors: what strands a cycle, what may be published as saved, are settled scores current (`AloneInv`)? Do passes and cycles end (`CycleEnds`)? |
| `worker_interrupted` | 1 worker, 1 hotspot, a SIGINT while it prunes or closes | Violation: an interrupt need not finalize the cycle (`InterruptsFinalize`). |
| `worker_zero_inserted` | 1 worker, 1 database error | Violation: zero inserted rows do not mean that scores are current (`ZeroInsertedMeansCurrent`). |
| `contributions` | 2 requests, clocks a bucket apart, limits 2 and 1 | Does the cap hold, is every 202 stored (`ContributionInv`), does no slot come back, does every request end? |
| `requests` | 5 tile requests of 2 signals over 2 slots; a search box with 3 inputs, 2 origins and 2 reports | Is the counter exact, are waiters served in turn, is it a semaphore; does the list, the map and the order on screen belong to the newest search (`SearchInv`); does everything asked for settle? |
| `tile_provider` | 2 calls over a quadtree with 3 cafes, 2 slots, 2 changes | Does a resolved call miss no cafe, is nothing served under another version (`TileInv`), does no call hang on slots held by its parents? |
| `cafe_panel` | 2 cafes, 2 detail requests, 2 submissions, 2 observations | Whatever arrives late or without evidence, does the panel show what the user chose, evidence that never ages beside a level that it matches if it came with any, and forms that are honest and unlock? |
| `map_view` | 2 near viewports and a far one, 2 loads, 2 checks, 2 moves, 1 failure | Do late loads stay off a resting map, off a zoomed-out one and out of a search; does the map settle; do outdated levels go dark? |
| `catalog` | 2 Overture cafes, a permit, 2 Kakao places, a Naver place, 2 spots | In any order of applies with any inputs, do the tables stay as each pipeline demands (`CatalogInv`), and is no verified identity given away or turned off before a provider catalog has relabelled it (`VerifiedIdentitiesStay`)? |
| `serving` | 2 materializers that may fail or be killed, 3 observations of which 2 may grow 12 hours old, answers cached per version | Does every answer show one observation (`ServingInv`), is what is cached under a version never behind what had been scored when that version began (`NoScoredIngestIsMissed`), and does the browser come to show the current score (`ClientCatchesUp`)? |
| `rules` | inputs of two or three rows each; 3 months to backfill, 4 places in 2 quarters | Do the rules keep what they promise over all these inputs (`CatalogRules`, `EstimateRules`, `ReadRules`, `OperationRules`, `DataRules`, `EvaluationRules`), can what the offline jobs leave on disk be told whole from partial (`BackfillInv`, `SweepInv`), and is recorded evidence never replaced (`EvidenceIsKept`)? |

In `rules` a behaviour picks one rule and one input, and an invariant judges it;
the invariants of a family of rules are named conjunctions of the properties at
the ends of the modules. The two offline machines take their steps in the same
run, each while the rest is at rest.

Every property of the passing runs is paired in `PROJECT.json` with a plausible bug of
the code (a mutant, defined beside the definition it replaces) that violates it.
A property with several parts has further mutants, marked as such beside their
definitions and found the same way; each violates the run of its module.

### Disagreements with the repository's texts

- `worker_zero_inserted` violates `ZeroInsertedMeansCurrent`. `worker.py:52` says
  that zero inserted rows mean that scores are current; after a materializer
  failed, or the acknowledgement of the batch's commit was lost, the next cycle
  finds only duplicates, skips the scores and ends complete with stale ones.
- `worker_interrupted` violates `InterruptsFinalize`. `worker.py:152` says that a
  KeyboardInterrupt must finalize the durable cycle, "otherwise /api/health reports
  ``running`` forever", and `docs/INCIDENTS.md:443` that it does. The handler stands
  around the poll, the batch and the scores; the prune and the close come after it
  (`worker.py:179-203`), each with round trips to the database, and a SIGINT during
  them ends the process with the cycle still running. So does one between the
  cycle's commit and the try block.

Others, of which the models have the behaviour and the properties state what
does hold:

- `docs/OPERATIONS.md:130` counts on a concurrency group to serialize the write
  cycle. The bootstrap workflow runs the same worker in a group of its own, and
  the materializer that commits last wins although it read first. So
  `SettledScoresAreCurrent` is checked for one worker, and `NoScoredIngestIsMissed`
  counts as scored what a materializer scored that ran beside no other.
- "An interrupt must never publish optimistic saved count" (`worker.py:121`): a
  SIGINT between the return of `poll_once` and `worker.py:122` finds `poll_report`
  still counting as saved what is only fetched, and the handler publishes it.
  `PublishedSavedIsDurable` excepts the cycles that were cut there, and only them.
- `docs/CHANGELOG.md:254` says of the panel that an incomplete summary updates the
  present state and keeps the evidence, and that a summary of an older observation
  is ignored. A summary of the viewport has no time of observation
  (`schemas.py:297`), so that an older one, from a tile cached earlier, is not
  ignored, and the level it brings need not be that of the citation which stays
  beside it (`panel.ts:438-454`). `LevelMatchesEvidence` speaks of levels that came
  with an observation; `EvidenceNeverAges` holds of what is cited in every case.
- The provider seed says that it retires "only links owned by this pipeline"
  (`seed_provider_cafes.py:141`). But where its catalog names, for an Overture
  cafe, the Naver place that the Naver search had found, it relabels the link as
  the website's (`seed_provider_cafes.py:303-309`), after which an Overture seed
  turns it off or frees it as it does its own. `VerifiedIdentitiesStay` says that nothing else ends
  the protection.
- `_observation_age_minutes` is the age "without understating" it
  (`routes.py:444`). That is so of the server's answer; the browser counts on from
  the answer's arrival (`cafe-provider.ts:304`, `:396`), and an answer may have
  waited minutes in the caches of the edge and the browser (`config.py:478-489`,
  `main.py:44-55`). `AgeLagsByItsWait` allows for that wait, and for nothing more.
- `updateDisplayedCollection` (`map.ts:463`) returns early while no viewport is
  loaded: a search that is cleared then stays on the map, though
  `docs/VERIFICATION.md:1870` has it restore the viewport, and ticks do not age
  what a failed load left there. `LevelsGoDark` speaks of a map that has its limits.
- `load_observations` refuses a whole file when a malformed primary row leaves its
  valid reliability row alone, though its docstring only counts such rows.
- A change of the data version is visible before the scores it announces
  (`config.py` speaks of a new cache key for a new ingest): an answer computed in
  between is cached under the new version, and after a materializer that failed
  every answer is behind until the next that inserts something. What is missing is
  never an ingest that had been scored, undisturbed by another, when the version
  began: `NoScoredIngestIsMissed`.
- An answer to an earlier report of a missing cafe says thanks, and unlocks, under
  a form that was reopened since (`cafe-search.ts:503`).
- A place that arrives while a full cell is paged pushes another one out of the
  pages unnoticed (`kakao_places.py:218` compares only the first page's count):
  `SweepInv` allows for as many missed places as came.

### Bounds

Every bound is a constant. `MaxTime`, `MaxCycles`, `MaxFaults` (worker): two
faults are the shortest way to a fault during the handling of one, and two
cycles of each of two workers the shortest way to a stale read, an overlap and a
repair. In `ingest_alone` the third cycle is the one after a cycle that was cut
short and the one that repaired it, and the worker is explored after one ending of
the pass, which shares nothing with it. `KeepTime` and `PruneLimit` put old snapshots within a prune's reach at
once. `MaxBucket` and `Skew` of 1 give every order of late and early clocks
around one boundary. Five tasks over two slots fill the slots and leave three
waiters, so that one can be aborted between two others. `MaxSplitDepth` 1 with
one cafe per answer makes every root split and every child whole. `MaxMoves`,
`MaxFailures` let a load of each viewport be late once and fail once. Three
observations let a materializer be overtaken by two inserts; `MaxAged` 2 lets the
newest row be too old for a trend and a fresh one follow. `MaxInputs` 3 is
type, change and clear. Two Overture cafes let a URL move from one to the other,
two Kakao places let a cafe be matched to one while it is linked to the other;
`MoveBound` and `CandidateBound` of 1 are reached and exceeded. In every run the
second of a kind is what creates the conflict; the theorems below cover any
number.

The inputs of the rules hold, for every comparison in the code, values below, at
and above its limit (the limits of the instance are small, the order of the
guards is the code's); two or three rows are the fewest that tie, collide, or
have one before and one after. Three months let one be done, one be under way
and one be open; `MaxLosses` 1 loses or damages one file between any two runs.
One cell of two parts with one place on both, pages of one and two
changes of the provider are enough to repeat one place and lose another.
`MaxCalls` is reached.

Workers (`workers`), data versions, the places of Kakao and spots in Seoul are
interchangeable in what the code does with them, so their runs use symmetry; no
run with liveness does. `CHECK_DEADLOCK FALSE` stands in the worker's runs, whose
bounds on cycles and faults let the system stop, in `requests`, where a page may
have asked for all it will, and in `rules`, where a rule picked is the end.

### Fairness

- `PollOnce`: the caller's thread and each pool thread run on (weak fairness);
  requests have timeouts and backoffs are finite. Nobody has to interrupt.
- `IngestWorker`: a started worker keeps running; nothing makes a scheduler start
  one, and nothing obliges a fault.
- `Contributions`: strong fairness of each request's own steps, because
  PostgreSQL queues the waiters of a row lock and so none is passed over forever.
- `RequestSlots`, `CafePanel`, `MapView`, `CafeSearch`: the event loop runs what
  is resolved, the browser settles every fetch and fires the timers of a visible
  tab; gestures end. No user ever has to select, submit or search.
- `Serving`: a materializer goes on or fails, checks are sent and answered, cached answers
  outlive their lifetimes (weak fairness); loads are strongly fair, because the
  background refresh repeats and an origin is not down whenever it is asked. No
  observation has to be stored.
- `TileProvider`, `Catalog`, `Backfill` and `SourceSweep` are checked for safety
  only: jobs and operators may stop for ever.

## 4. What is proved

For every value of the constants that the modules' assumptions allow (finite
sets, positive limits, values that differ), checked by TLAPS. Every invariant and
every action property of the passing runs above is among them:

| module | theorems | argument |
|---|---|---|
| `IngestProofs` (PollOnce) | `PollInvariant`, `CallsStayInBudget`, `NothingFetchedIsDropped`, `PollImplementsBreaker` | `PollInv` is inductive: results are taken in order, `consecutive` is the length of the trailing run of failures, and the counters account for the processed prefix. With it each step maps to a step or a stutter of `CircuitBreaker`. Without the trailing run the circuit could not be shown to trip at the same target. |
| `IngestProofs` (IngestWorker) | `WorkInvariant`, `WorkersKeepLedger`, `CompleteCyclesAreDurable`, `NewestSnapshotsPersist`; `AloneInvariant`, `InterruptedCyclesAreHeld`, `SavedCountsAreDurable`, `ScoresSettle` | `WorkInv`: a worker owns its running cycle and owners differ (so a close hits a running cycle), the fallback's tally accounts for every answered target once (so the counters fit the CHECK), a report without failures is backed by rows, and a prune's victims have newer rows that survive. `AloneInv` is proved part by part, each under the hypotheses it needs, SIGINT falling wherever `InterruptAt` lets it, which nothing restricts: a running cycle without a process was cut outside the try block, killed, or failed to close, and no saved target is overstated but by a cycle cut right after its poll, both with any workers and faults; scores settle for one worker without database errors. |
| `ContributionsProofs` | `ContributionInvariant`, `LimitIsKept`, `AnswersAreBacked`, `SlotsAreNeverReclaimed` | `ContributionInv`: the row counts the slots granted in its bucket and no later bucket has any; what the holder of a row saw still holds; each contribution stands on a slot of its own. |
| `RequestSlotsProofs` | `SlotInvariant`, `SlotsAreSemaphore`, `FirstComeIsFirstServed`, `SearchInvariant` | `SlotInv`: the counter is the number of holders, the queue is the set of waiting tasks and its order is total, and nobody waits while a slot is free. Each step then takes, releases or hands over a slot, and what is ahead of a waiter has left when it is started. `SearchInv` (of the page of `MCRequests`): what is listed, shown and said belongs to the search with the newest number, the only one that is not aborted. |
| `CafePanelProofs` | `PanelInvariant`, `PanelFollowsTheUser`, `LevelsMatchEvidence`, `FormsAreHonest`, `SelectionOpens`, `EvidenceAdvances` | `PanelInv` joins the safety properties with: a loading panel has no details, and a locked form has its own submission in flight. What arrives may be a level without evidence, at any time. |
| `BrowserProofs` | `TileInvariant`, `OpenCallsKeepProceeding`, `MapInvariant`, `LoadsAreOfTheRestingView` | `TileInv`: an answer, cached or held by a call, has every cafe of its tile that was there all along; each cafe of an open call lies in a tile that is answered or asked for, so a split leaves no gap; splits stay within reach of a root. That a call proceeds then follows from the slots being held by fetching tasks only. `MapInv`: on a resting map only a load of its viewport holds the sequence number. |
| `ServingProofs` (Serving) | `ServingInvariant`, `CachedAnswersAreRecent` | A materializer that ran beside no other read the newest row there was, so that what it scores is the newest; one that is still on its way read what is at least as new as `settled`, whatever failed or overlapped meanwhile, so that no commit puts the score back behind it. What is cached later is then never behind what had been scored when its version began. The score and its forecast are of one snapshot until that has no trend any more; then it is no longer fresh, and its forecast is not shown. |
| `ServingProofs` (rules) | `CatalogsAreOfOnePiece` (of `CatalogsLinkOnce`, `PermitsAreVerifiedOnce`, `ExpansionsAddOnce` and others), `EstimatesRestOnEvidence`, `ReadsShowTheBest`, `OperationsAreAccounted` (of `MonitorsFollowPolls`, `AppliesAreAccepted`, `ErrorsAreNeverData`, `CallsStayWithinTheirLimits` and others) | See below. In the catalogs, stage by stage, what an earlier stage linked is taken from the candidates of the next. |
| `EvaluationProofs` (rules) | `OfflineDataAddUp` (of `CompactionsAreWhole`, `HeldOutDaysDecide` and others), `EvaluationsAreSound` (of `SheetsFitTheEvaluation`, `EvaluationsKnowNoFuture`, `PromotionsAreOnEqualTerms`, `NowcastsAreLocal`, `NeighboursHoldTheNearest`, `BaselinesLieWithinTheirCounts`, `LongHolidaysAreBlocks`, `BacktestsAddUp` and others) | See below. Of what a rule may know: the sets it chooses from are the same with and without what it must not know, and the point it chooses stays the first of them. Of any three days in a row one is no day of a weekend, so that a block too long to be seen whole still shows a holiday from each of its days. |
| `JobProofs` | `CatalogInvariant`, `VerifiedIdentities`; `BackfillInvariant`, `RecordedEvidenceIsKept`; `SweepInvariant` | `CatalogInv` pipeline by pipeline: each may move only links its own earlier statement left to it. `BackfillInv`: all that a run holds for done is on disk, and at most one archive is ahead of the manifest. `SweepInv`, see below. |

### The balance of a sweep

Of the places that were there since a job began, let `Passed` be those in no
record and in no cell still to be read, and `Slipped` those of the cell under way
that moved to a page that was read before. Then

    |Passed| + |Slipped| + max(length of the listing, documents paged)  <=  came + expected

while a cell is read, and `|Passed| <= came` between cells. A place that leaves
lets at most one slip and shortens the listing by one, or lets none slip; one
that comes lengthens it by one and is counted in `came`; a page that is full
moves nothing; and a leaf that is accepted has read as many documents as
`expected`, so that what slipped or was pushed past the end is paid for. Without
`max` a listing that shrinks below what was read would seem to earn something.
The lemmas about listings (positions are a permutation of `0..n-1`, a slice has
as many places as positions) stand before it.

### How the rules are proved

The six families are properties of operators, so their theorems have no
behaviours: for any `sample` that is an input of its rule (`CatalogInput`,
`EstimateInput`, `ReadInput`, `OperationInput`, `DataInput`, `EvaluationInput`,
which say what the callers in the code see to: finite sets, whole numbers,
sequences, rows with ids of their own, the order of a ledger) the family holds,
whatever the number and the values of its rows. Every sample of the run `rules`
satisfies them, as TLC found with each of the six as one more invariant of that
run (but for the clauses on None named under Assumptions, which no sample decides).

- *Sums.* A mean, a count by groups or a total is a `SumFunction` over a finite
  set. The fold chooses a recursive table over the subsets of the
  set; that there is one, and so that a sum is that of a set less one element and
  that element, whichever it is, comes from the least-number principle on
  cardinalities: a least number of elements for which a statement about sums
  fails is neither 0 nor another's successor. So come: a sum over a union, of sums, by parts of a partition,
  in another order, between bounds times the number of terms. A weighted mean
  then lies between its least and greatest term (levels, baselines, nowcasts),
  and what is grouped adds up to what was grouped (flows by hour, compaction,
  strata of a backtest, days of a report, missed cycles, stretches of a window).
- *Orders.* `InOrder(set, before)` (ORDER BY, `sorted`) is stated by how many
  come before each; for a total order the places are a bijection, and the first
  *n* places are the *n* best (searches, listings, worksheets, hotspots of a
  backtest). `AtRank` is where the count of smaller values passes a rank, so
  quantiles and medians are monotone.
- *Choices.* The code's ties are broken by ids, so a `CHOOSE` is one of a total
  order and the same for two evaluations of equal sets; what must not depend on
  row order (`RowsHaveNoOrder`), file cuts or labels is shown equal set by set.
- *Worksheets.* That every sheet is accepted by the evaluation is the longest
  argument: the selection fills each band, the four cafes seen twice lie in three
  bands and are distinct, a row stands for a place and a role, and who observes
  what goes round with a period of the observers, so loads differ by one at most.

### Assumptions

Beside the modules' named assumptions on their constants the proofs use nothing:
`OutcomesAssumption` (None and Refused are no numbers and differ),
`TileAssumption` (locations are known deeper than any split),
`EstimateAssumption` (decay falls with age), `ReadAssumption` (a brand's terms
name it, and no two brands share one, as the table of aliases has it),
`ShadowAssumption` (factors fall with the area), `EvaluationAssumption` (bands in
order), `BacktestAssumption` (horizons, gaps and windows are natural numbers,
recency counts), `OperationsAssumption` (the interval divides the hour, as the
script demands), `SweepAssumption` (every place lies in a smallest cell). TLC
evaluates each of them. What it cannot evaluate stands as a hypothesis of the
theorem that needs it: `NoneIsApart`, `SkipsAreApart`, `SheetsAreApart` and that
`Refused` is no set of points. They say that None and Refused, of which the code
has one each, are none of the texts, tables and sets that stand for something
else; as model values they are not.

Well-founded choices (a newest row, a deepest split, a least set) come from the
least-number principle of the library. `RequestSlotsProofs` extends `MCRequests`
and `BrowserProofs` extends `MCMapView`, which instantiate `CafeSearch` and
`MapView` beside the module whose names they would share; `EvaluationProofs`
extends `ServingProofs` for its lemmas on sums, ranks and orders.

Each invariant was checked by TLC in a run above before it was proved. Only
model-checked is liveness (`CycleEnds`, `RequestsEnd`,
`RequestsSettle`, `LockEnds`, `MapSettles`, `LevelsGoDark`, `ClientCatchesUp`),
which is beyond this prover.

## 5. What is not modelled

- Formatting: names and addresses are normalized before the models see them; the
  rendering of reports, manifests and worksheets, texts, layout and analytics.
- HTTP, credentials and the parsing of fields: a payload is valid or not, and
  `Clients` says which answers are tried again.
- Geometry and real arithmetic: reprojection, polygon areas, bootstrap intervals;
  distances, cells, weights and tables stand for them.
- `activity artifacts`, `hotspot master` and the `report_*`, `profile_*` and
  `build_subway_assets.py` scripts: one pass over files by hand, without state,
  whose results nothing else in the product reads back but as data.
- The page shell: gestures, notices and the subway overlay, which share no state
  with the map but its canvas.
- Migrations, and the declarations of schemas and settings: keys, CHECKs and
  cascades enter the modules that write the tables, settings are their constants.
- The database is its committed state: PostgreSQL's row locks and unique keys are
  modelled where code relies on them, and a transaction without such a conflict
  is atomic.

Hazards that are real and that no property judges, because no text says what
should happen:

- After a lost commit acknowledgement the fallback stores parse failures a second
  time (`repository.py:275`): the table has no natural key and nothing reads it.
- Feedback stores the score it read before its claim committed (`routes.py:883`).
- A cafe reopened while a submission is in flight can be reported twice
  (`panel.ts:256`); the server stores both.
- A curated seed writes Overture's position over what a Kakao refresh stored for
  the same cafe (`overture_places.py:596`); which source wins is the operators'
  choice. `Catalog` has the behaviour.
- A retired Kakao link still counts as its cafe's place, so that a later match to
  another id makes the provider seed refuse every cafe
  (`seed_provider_cafes.py:230`); `Catalog` has the behaviour, and no text
  promises that the seed keeps succeeding.

## 6. Plan

Done: 1. the ingest path; 2. user contributions; 3. the browser's slots, tiles,
panel, map and search; 4. the catalog's writers; 5. serving and the edge cache;
6. sweeps and the backfill; 7. the rules of scoring, reads, operations, matching,
offline data, shadows, backtests and evaluation; 8. the proofs of all of these
but liveness.

Left:

1. The parse failures of the repository, so that it is modelled whole.
2. The rules of the activity artifact and of the hotspot master.
