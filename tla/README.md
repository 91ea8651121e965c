# A TLA+ model of NSE_agent

NSE_agent is a single-user research agent for Indian equities: a `click` command
line (`cli.py`), a read-mostly FastAPI service (`app/`) and a LangGraph pipeline
(`agents/`) over one PostgreSQL database. It collects facts (quarterly results,
filings, corporate actions, prices, news), imports the owner's broker history,
rebuilds the portfolio lot by lot, and replays its own decisions point in time.
Two promises run through the code: **a recorded fact is never rewritten, only
superseded**, and **a read "as of" an instant sees what was known then**. This
project states those promises, and the ones of the accounting engine, as
properties of models of the code, checks them with TLC on small instances, and
proves the most important ones with TLAPS for every value of the constants.

Paths below are relative to `src/investing_agent/`.

## 1. Inventory

Processes. Every CLI command and API request is a process of its own with its own
`AsyncSession`: one transaction at PostgreSQL's default READ COMMITTED, autoflush
off, committed by the command (`db/session.py`, `cli.py`) or rolled back when it
raises. Nothing serialises two commands: a cron sync, a manual backfill and an
API request may overlap, and the database's unique constraints and row locks are
the only thing between them. So most of what can go wrong is of three kinds:
read-then-write races inside a transaction, a command that stops half-way, and
time (a fact that arrives late, or is dated earlier than it was learned).

| Component | State it keeps | Operations | What makes it correct | Modelled by |
|---|---|---|---|---|
| Financial facts (`db/repositories/financial.py`, `services/ingestion/{financial_results,historical_financials}.py`, `services/verification.py`) | `financial_results`: versions per (period, scope, basis, source) | sync, transcribe an archived filing, verify by hand, as-of reads | one latest version, no version lost or rewritten, availability nobody has to guess, verified only against a document | `FinancialFacts` |
| Corporate actions (`db/repositories/corporate_action.py`, `services/ingestion/corporate_actions.py`) | `corporate_actions`: versions per (company, type, ex-date, source) | sync, record a split, company view as of, splits for FIFO | flag and version agree, settled past | `CorporateActions`, `VersionChain` |
| FIFO lot engine (`services/reconstruction/fifo.py`) | lots, per-symbol queues, realized P&L, adjustments, warnings | replay of opening adjustments, splits, trades | FIFO order across splits and oversells, two copies of the open lots agree, figures agree with the cash moved | `FifoLots` |
| Broker statement import (`services/ingestion/broker_history/`) | `historical_import_runs`, trades, cash flows, dividends | claim a file by hash, parse, insert rows by dedupe key | SUCCESS means stored, rows traceable, overlap merges | `BrokerImport` |
| Portfolio reconstruction (`services/reconstruction/`) | lot cache, opening adjustments | rebuild, adjust, reconcile with statements, portfolio as of a date | a rebuild replaces, complete books reconcile | `Reconstruction` |
| Portfolio sync (`services/portfolio_sync.py`, `services/instrument_resolver.py`, `gateway/`) | ingestion runs, snapshots, holdings, `instrument_master`, companies | fetch with retries, resolve, weigh, store | all of what the broker listed or the number missing; no identity is lost | `PortfolioSync`, composed with the former in `Books` |
| Walk-forward simulation (`services/walkforward/`, `db/repositories/walkforward.py`) | frozen decisions and their scored outcomes | freeze, score, back-fill TRI figures, replay, audit | a frozen decision is never re-decided; outcomes look the right way and see through splits; what is compared is comparable | `WalkForward` |
| Price ingestion (`services/prices/`) | daily and index closes, archived files and their rows | sync of one or many symbols, of an index by day or range | every close traceable, the first one stands, every weekday accounted for | `PriceSync`, `Archive` |
| Document archive, filings (`services/ingestion/{common,filings}.py`, `services/storage.py`, `services/extraction/`) | content-addressed files, `source_documents`, text cache, transcribed facts | sync announcements, unpack, archive by hand, extract text, record facts | no row without its file; a sync finishes what another began | `Filings`, `Archive` |
| News (`services/ingestion/news.py`, `services/dedup/`, `services/matching/`) | items, events, company links, feed reliability | poll, deduplicate, link, cluster, record by hand | one story once per source; no event without its item | `News` |
| Interpretation (`services/interpretation/`) | interpretations; catalysts, risks, thesis changes, notes | read by rule or model, review, note | only what a person reviewed enters the memory; decisions stand | `Interpretation` |
| Estimation, backtesting (`services/estimation/`, `services/backtesting/`) | feature snapshots, estimates, scores | features as of a cutoff, estimate, score | nothing from the future, a backtest is blind | `Forecasts` |
| Valuation (`services/valuation.py`, `services/historical_pe_band.py`) | multiples, valuations | band of a multiple, value | one scope, nothing from a later instant, closes and bands nothing from a later day | `Forecasts` |
| Recommendations and theses (`services/current_recommendations.py`, `services/active_theses.py`, `app/api/{company,watchlist}.py`) | theses, watchlist, runs, decisions, evidence, reviews | append a thesis, watch, run, review | a decision is supported by what it cites; records stand | `Advice` |
| Policy governance (`services/governed_policy.py`) | candidate rules, proposals | evaluate, propose, approve, reject | a rerun leaves alone a rule it found approved | `Advice` |
| Agent graph (`agents/`) | per-request state | route, call tools, decide | reads only; the model's answers are out of reach | not modelled |
| Source adapters (`services/sources/`) | HTTP session | fetch, classify | what they may answer is the input of the models | inputs |
| Reports, HTTP views, settings, provider experiments | none | read | | not modelled |

Interactions. The commands share nothing but tables and the archive directory.
`FifoLots` consumes the trades `BrokerImport` stores and the splits
`CorporateActions` returns; `Reconstruction` replays them for a rebuild and a
reconciliation. Walk-forward freezing, features and valuations read facts, prices
and splits as of an instant. Recommendations read theses, valuations, estimates and
risks, and risks come from reviewed interpretations of news events.
PostgreSQL itself (locks,
unique indexes, `now()` as the start of the transaction, the deadlock detector)
is an external participant, modelled only as far as the code relies on it.

`PROJECT.json` lists every component with its sources, and the hazards: what in
this code is hard to test, at its line, with the property aimed at it.

## 2. Plan

| # | Module | Composes / abstract spec | Runs | Theorems | State |
|---|---|---|---|---|---|
| 1 | `FinancialFacts` | implements `VersionChain` | `FinancialFacts`, `FinancialFactsBatch` | type, one latest, history, neighbours differ, availability, verification, refinement of `VersionChain` | done |
| 2 | `FifoLots` | | `FifoLots` | type, queues, FIFO order, totals, cash, split dates | done |
| 3 | `VersionChain`, `CorporateActions` | `CorporateActions` implements `VersionChain` | `CorporateActions` | type, latest is highest, refinement of `VersionChain`, settled past | done |
| 4 | `BrokerImport` | | `BrokerImport` | type, complete, traceable, add-only | done |
| 5 | `WalkForward` | reads as-of facts and prices | `WalkForward` | type, outcomes in window, split-neutral, frozen, pairs compare | done |
| 6 | `Transactions`, `Archive` | what the modules below extend | with them | drafts disjoint, for commands that only insert | done |
| 7 | `PriceSync`, `Filings` | `Archive` | `PriceSync`, `Filings` | first price stands, prices traceable, syncs accounted for, documents traceable, syncs archive all, archive stands | done |
| 8 | `News`, `Interpretation` | `Interpretation` extends `News` | `Interpretation` | every committed database consistent; stories stored once, events supported, memory reviewed, decisions kept | done |
| 9 | `PortfolioSync`, `Reconstruction`, `Books` | `Books` runs both side by side | `Books`, `BooksAsOf` (finding) | every committed database booked; syncs complete, identities stand, rebuilds replace, complete books reconcile | done |
| 10 | `Forecasts`, `Advice` | `Advice` extends `Forecasts` | `Research` | every committed database consistent; nothing from the future, backtests blind, advice supported, records kept | done |

The order is by consequence: the fact tables are what everything reads, the lot
engine is what money figures come from, and imports feed it. Modules that are
proved about use no recursive operators; their constants carry named assumptions.

## 3. The modules and the code

Conventions. A session is one command's transaction. What it has flushed and not
committed is its *draft*; a read sees the committed table overlaid with the draft.
A step that needs a row or index entry another session has drafted waits for it.
Every command may be rolled back at any point (exception, kill, lost connection),
and PostgreSQL's deadlock detector ends a cycle of waits by failing one session.
Names of operators are the names of the functions they translate where TLA+ allows
it; `map` in `PROJECT.json` gives the lines. Comments that start with "Mutant:"
introduce altered forms of a definition that the properties are shown to reject;
they are used by nothing else.

**`FinancialFacts`** models the table `financial_results` and all that writes it.
`SyncBegin` is `FinancialResultIngestionService.sync` (one candidate per row of
NSE's answer, built by `normalize`), `TranscribeBegin` is
`record_historical_financial_result` as its command calls it, without a result date, `VerifyBegin` and `FlushVerification` are
`verify_financial_result_manual`. `upsert_versioned` is split where another session
can get in between: `ReadLatest` (the SELECT), then `FlushRefresh` (values unchanged:
only the provenance columns are refreshed) or `FlushInsert` (version n+1, old row's
`is_latest` cleared) or `UniqueViolation`. SQLAlchemy writes only the columns that
differ from the row as loaded; `Assign` models that, so a stale load can lose
an update of another session exactly when the code's would. A row keeps of its
`verification_notes` what they say: matched or transcribed from which document, or which figures did
not match. `_COMPARE_FIELDS` are
two: `result_date`, from which `available_at` is derived, and `fig` for all figures.
Instants are integers grouped into days, because the code dates a fact to the end
of a day.

**`CorporateActions`** models `corporate_actions` in the same style, with the two
readers `list_as_of` and `load_corporate_action_events`.
NSE rows never carry a ratio (the normalizer sets none), so splits that FIFO
can use come only from `record-corporate-action`. Its table and that of `FinancialFacts` are
shown to implement **`VersionChain`**, the abstract specification of a versioned table: versions
are only ever appended, and each differs from the one before it.

**`FifoLots`** models `fifo.py` as the replay of one sorted timeline, chosen
nondeterministically event by event. A sale is the loop it is in the code:
`SellBegin`, one `MatchLot` per iteration, `SellEnd` with the synthetic lot of an
oversell. Quantities are integers in units of 1/`Scale`; `Scale` stands for
`Decimal`'s 28 digits, and `Times`, `Over` and `Factor` round as `Decimal` does, in
the order the code divides and multiplies.

**`BrokerImport`** models `import_statement_file` and the CLI around it: `Select` and
`Claim` (look the hash up, flush a PARTIAL run), `Parse`, then `LookUp`/`Insert` per
row (`create_if_not_exists`), `Refuse` (the Pydantic schema raises), `Finish`, and
`HandleError`, the CLI's `except` clause that commits what is there. Trades, cash
flows and dividends go through the same code and are one set of keys.

**`WalkForward`** models `services/walkforward/` for one symbol in one account. Four
commands run beside each other: `run_walk_forward` and `run_bulk_walk_forward` freeze,
for each date, what was decided (ACTUAL) and the decision to do nothing
(HOLD_BASELINE) and score both; `replay_deterministic_baseline` adds an AGENT row per
ACTUAL one; `backfill_walk_forward_tri` scores every row of a run again and writes the
total-return columns. `freeze_decision` is `SnapshotAt`, `SnapshotPrior`, `Decide`,
`InsertDecision` (or `UniqueViolation`); `score_outcome` is `LoadEntry`, one
`ResolveHorizon` per turn of its loop, `ComputeMaxDrawdown`, and `InsertOutcome` or
`BackfillOutcome`. Between any two of them `IngestPrice` and `RecordEvent` may commit a
close, a trade or a split. The history of the symbol is a constant, `Timeline`, of
which `recorded` says what the database knows and since when; `Price` is the closes
there are, `market` the ones stored. So "the split factor is right" can be said
without restating it: a return must be that of the holding's true value.

**`Transactions`** is what the modules below share: `db`, a function from unique keys
to committed rows, a draft per session, and `sess`, what each command is doing and the
key its next write `want`s. `FlushNew` waits for whoever holds that key and rolls the
command back if it was taken (IntegrityError, which these commands do not catch);
`FlushUpdate` waits for a row lock; `Commit`, `Rollback`, `Crash` and `DeadlockVictim`
end a transaction. Two reads of one command are two steps, and another session may
commit between them. **`Archive`** adds the directory of downloaded bytes, in which a
rollback undoes nothing and a crash may leave a torn file, and `ensure_company`.

**`PriceSync`**: `Begin` starts `sync-daily-prices`, the yearly back-fill or
`sync-benchmark-prices`; per request (`NextAsked`: the next weekday, or the next range) `Fetch` (an answer, an outage,
a block, no data), `WriteArchive`, `RecordFile`, `Parse`, one `StoreRow` per close; `EndOfRange`
works out the days without data, `Finish` commits and opens the next year, or what follows
the loop over the years that a block ended (`Rest`).

**`Filings`**: `BeginSync`, `BeginArchive`, `BeginExtract` and `BeginRecord` are the four
kinds of command; `NextAnnouncement`, `Download`, `WriteArchive`, `RecordDocument`,
`Unpack` and `CacheText` are the loop of `FilingIngestionService`, the members of a zip
file going through the same steps as the file. A document is identified by its bytes; what a
url serves, and whether bytes can be opened, is given by the instance.

**`News`** and **`Interpretation`**: `Fetch` and `Count` poll a feed and take the lock on
its reliability row; `ReadRecent` is the one read of `list_recent`, limited to `RecentLimit` items of
all sources; `Ingest`, `LinkCompany`, `cluster_event` and `JoinEvent` are `_ingest_item`;
`ResolveCompany`, `RecordItem`, `RecordLink` and the same two are `record-news-url`. Per event, `LookUp` is the
SELECT (`already_interpreted`) and `Propose` the rules or the wait for the model, and the INSERT, and
`BeginReview`, `CreateFacts`, `Mark` are `review-interpretation`. Headlines are model
values with a table of similarities and of the phrases the rules look for.

**`PortfolioSync`**: `InsertRun`, `FetchHoldings` (three attempts), then for each holding
`Resolve` (by ISIN), `FindInstrument`, `FindByIsin`, `FindBySymbol`, `CreateStub` and
`UpsertInstrument`, each a statement of its own, and `Persist`. An UPDATE writes the columns that
differ from the row as it was loaded before the wait for its lock (`Assigned`, `Linked`). `blank`, which no action
reads, is what a sync has read as not known.
**`Reconstruction`**: a rebuild is `ReadLatest`, `ReadTrades`, `ReadActions`, `ReadOpenings`, `BeginDelete`,
`DeleteLots`, `InsertLots`; `Compare` is one statement file
of `reconcile-portfolio`, with the rows and the tolerance of `reconciliation.py`;
`AdjustedCompany` and `Adjust` are `record-opening-position-adjustment`; `Import` stands for the imports and
splits of the modules above. **`Books`** runs the two beside each other.

**`Forecasts`**: `ReadResults`, `ReadSignals`, `UseFeatures`, `WriteEstimate` are an
estimate; `ListActuals`, `NextActual`, `WriteScore` a backtest around it;
`ReadCloses`/`WriteBand` a band of historical multiples; `LatestFinancial`,
`TtmEarnings`, `ReadMultiple`, `WriteValuation` a valuation. Results are keyed by quarter, scope, source and version; where
a query without an order decides between two of them (`OneOfEach`, the order `listed` of a band), either may be taken. `Publish` is what other
commands commit meanwhile: a restatement, a result dated anew by a later sync, a risk
made active; a backtest's `untouched` results, which the code does not keep, lose those it replaces.
`Store` is a command of one statement. The figures are abstracted to the set of results they were computed
from, each with the availability it had when it was read: that is what "no
look-ahead" is about. **`Advice`** adds theses (`CheckEvidence`, `FirstVersion`,
`AppendThesis`), the watchlist, the recommendation run (`Universe`, then per symbol
`ReadThesis`, `ReadValuation`, `ReadEstimate`, `Decide`), reviews, and the candidate
rules (`DraftRule`, `DraftProposal`, `ReviewRule`).

`MC*` modules give the constants values and the symmetry sets. `*Proofs` modules
hold the theorems.

## 4. What the runs check

"Bounds" name what limits the instance; each counter is capped in a guard by a
constant named `Max...`.

| Run | Bounds | Shows |
|---|---|---|
| `FinancialFacts` | 2 sessions, 1 key per source, 2 figures, 2 versions, 2 instants of which the first ends the result's day, a document published before | races of sync, transcription and verification, facts that are available before they are ingested: `OneLatest`, `HistoryPreserved`, `VerifiedByDocument`, `DefensibleAvailability` |
| `FinancialFactsBatch` | 2 sessions, 2 periods, responses of 2 rows, fair | lock cycles occur and are resolved, several keys are committed at once: `CommandsEnd`, `VersionsRecorded` |
| `CorporateActions` | 2 sessions, responses of up to 2 rows, 1 ex-date, 3 versions, 2 instants | races, and several versions written by one transaction: `LatestIsHighest`, `VersionsRecorded` (refinement), `SettledPast` |
| `FifoLots` | 2 symbols, 4 events, ratios exact in decimal | `QueueMatchesLots`, `ConsumedInOrder`, `CashIdentity`, `SplitScope` |
| `BrokerImport` | 2 sessions, 5 files, 3 keys, fair | `SuccessIsComplete`, `RowsAreTraceable`, `ImportsOnlyAdd`, `ImportsEnd` |
| `WalkForward` | 2 sessions, 3 commands, 1 run of up to 2 dates, 5 events, 4 days, 2 horizons, 6 initial worlds | `OutcomesInWindow`, `SplitNeutral`, `PairsComparable`, `Frozen` |
| `PriceSync` | 2 sessions, 2 of 3 commands, 3 days, 6 contents, fair | outages, blocks, republished and unreadable files, crashes, crossing locks: `PricesTraceable`, `FirstPriceStands`, `SyncIsAccountedFor`, `SyncsEnd` |
| `Filings` | 2 sessions, 2 commands, 7 kinds of bytes at 3 addresses | crashes between file and row, a zip file half done by another command, unreadable and encrypted attachments: `DocumentsTraceable`, `SyncArchivesAll`, `ArchiveStands` |
| `Interpretation` | 2 sessions, 2 commands, 2 feeds, 5 headlines, a `list_recent` of 2 items, 3 initial databases | polls within and beyond the limit, reviews and other runs between the look-up and the insert: `OneStoryPerSource`, `EventsAreSupported`, `OnlyReviewedFacts`, `DecisionsStand` |
| `Books` | 2 sessions, 3 commands, 4 broker answers (a symbol under two ISINs, one whose ISIN comes later, a renamed one), 4 facts, 2 initial databases | `SyncIsComplete`, `IdentityStands`, `RebuildReplaces`, `CompleteBooksReconcile` |
| `Research` | 2 sessions, 2 commands, 3 quarters in 2 scopes and from 2 sources, 2 cutoffs (the end of a day and the start of the next), 3 initial databases, 5 publications | `PointInTime`, `ScoredBlind`, `AdviceIsSupported`, `RecordsStand` |

`TypeOK` of `FinancialFacts`, `CorporateActions`, `FifoLots`, `BrokerImport` and `WalkForward`
is proved; that of `PriceSync`, `Interpretation` and `Books` (`BooksTypeOK`) holds on the instances above but is no property of a run: it says too little.

Why the bounds are enough. A race needs two sessions on one key, and what one session
can do to a chain is decided by its latest version and the one it has read, so two
or three versions show every combination of stale and fresh. A lock cycle needs two
keys and opposite orders, hence the two-row responses and the two export files
listing shared trades in opposite orders. The shortest timelines on which FIFO
order, a split and an oversell interact have four events (two buys, a split, a
sale across both lots). A walk-forward history needs a split on the decision day and
one between two closes, and a sale with nothing to sell; each world of its instance
lacks what one of the cases is about (the close of the decision day, every close up to
it, a close of the second horizon, one of the index, the first purchase, the second
split), which may then arrive at any moment. Three commands are a run and two that
race on it. In the modules over `Transactions` a command started after another has
ended begins from a database that one wrote, so two commands show both a race and a
sequence; where a longer past matters (a thesis with a successor, an interpretation
awaiting review, a rule approved, complete books) it is an initial database of its own, each a
state the commands do produce. The limit of 500 recent items is 2 there: polls
that compare with all that was told lately and polls that do not both occur. A fact is
available before its ingestion only when the first command runs no earlier than the end of the day
of the result, hence the `Start` of the run `FinancialFacts`. A row NSE reports
without a date, and a document whose publication is unknown, count as available when the command
began; they are in no run, only in the theorem `AvailabilityIsDefensible`. What a run shows of two imports,
the proofs show of any number. The theorems of section 6 lift the core of this to any size.

`CHECK_DEADLOCK FALSE` is set throughout: a timeline ends, a clock reaches its
bound, every file has been imported, every command has been used up, or no command is running, and the system really
stops there. That no *running* command is stuck is the liveness property of the
component.

Fairness. `FinancialFacts`, `BrokerImport` and `PriceSync` assume strong fairness of the
steps a started command takes by itself: a lock PostgreSQL releases goes to the session
that queued for it, so a waiting command is not overtaken for ever. Nobody is obliged to
start a command, and rollback is never required. The other modules state safety only: their
commands are finite loops over what they read, and what could keep them from ending,
a cycle of locks, is of the same kind as in these three.

Divergences. The run `BooksAsOf` is of kind `violation`: it checks one statement of a docstring,
and TLC shows the code does otherwise; `findings` quotes the lines. `reconstruct-portfolio` is
to answer what the portfolio looked like on date X (`cli.py:2219`); trades stop at X,
splits do not, so the shares of that day are multiplied by splits that came later.

The following came up while modelling and have no run of their own. The models do
what the code does in each case; the properties of the passing runs are worded so as to claim no more.

*Facts and corporate actions.* `verify-financial-result` promises to record a mismatch
as disputed (`services/verification.py:107`). Two verifications load a disputed row; the one that
matches commits *verified*; the one that does not finds the status it loaded unchanged, so its
UPDATE carries the notes and leaves *verified*. A restatement NSE reports under the same result date is dated
back to it, so a read as of an earlier instant changes (`normalization.py:120`,
against `db/models.py:497`). `upgrade_timestamp_precision` promises never to
downgrade EXACT to DATE_ONLY, the next sync of unchanged figures does
(`db/repositories/financial.py:173`). `corporate_action.py:5` calls an identical
re-ingestion a no-op, but two dividends of one ex-date share a key and supersede each
other at every sync. The dividend calendar as of X loses a dividend amended
after X (`corporate_action.py:154`). A re-dated ex-date is a second current action
(`corporate_action.py:48`); a split recorded under two sources, or as SPLIT and as
BONUS, is applied twice.

*Lots and imports.* `Decimal` rounds the factor of a 3:4 bonus, so selling every share left
oversells by 1E-27 of a share (`fifo.py:221`, against `fifo.py:14-22`). An import
that raises past the parser leaves no FAILED run (`cli.py:2138`), and its hash answers every
retry with the PARTIAL one. Two identical ledger lines of a day are one row.

*Walk-forward.* A split between a stale entry close and the decision is not counted
(`outcomes.py:111`, against `returns.py:16`). `excess_return_tri` sets a return computed with
the splits known today beside a stock return frozen earlier. Warnings are matched to a symbol
by substring. Two back-fills of a run may deadlock.

*Prices.* A range sync counts the days of a failed batch among those without data;
an unknown HTTP status is taken for a holiday; a parse error rolls a whole range back; a
file torn by a crash is never written again; sessions held on a Saturday are never asked for.

*Filings and news.* One encrypted zip file or overlong title aborts the whole sync, though a comment in
`filings.py` says a bad attachment must never abort discovery. A recorded fact may
cite a document of another company. The likeness of two
headlines depends on which comes first (`difflib`). A reworded headline of the same outlet is
promised never to become a second row (`services/ingestion/news.py:13`), but only the newest 500 items
of all sources are compared (`db/repositories/news.py:56`): after enough newer ones the story is stored again.
`interpret-events` is to skip an event with any interpretation (`services/interpretation/service.py:10`), but the
insert does not look again: two commands that looked an event up before either wrote interpret it twice. Two sources, or two concurrent syncs, make separate events of one story. Two concurrent reviews may create the
facts of one interpretation twice. `record-news-url` with a naive time raises.

*Portfolio.* A failed sync is rolled back with its run, which is therefore never
recorded. An answer nobody recognises is an empty portfolio. A renamed symbol gives a
second instrument with the same ISIN, and from then on that holding cannot be resolved,
against "ISIN is the durable identity" (`db/models.py`). Of three syncs that link an instrument
which has no company, one may link it to a company and a later one to another, because the column is written from what was
read before the wait for the row's lock (`db/repositories/instrument.py`). A sync that found no
company and inserts a stub overwrites the ISIN of one that another sync has committed meanwhile under the same symbol
(`services/instrument_resolver.py:111`); the run `Books` reaches this, the former takes three syncs at once and is covered by the theorem only. An import that
overtakes a comparison may show in one of its statements and not in another. Two concurrent rebuilds leave the lots of both. The one-rupee tolerance is also applied to quantities.

*Research.* The fingerprint of a feature snapshot leaves out catalysts, risks and
news, so their change reuses the old one. A historical band mixes scopes, and is to look never
ahead (`services/historical_pe_band.py:46`): `--as-of` a date is its midnight, yet the close of that day and
the results of its hours are used, and the band is stored as available at midnight. A
valuation of a midnight rests on the close of the day that begins (`services/valuation.py:122`). It checks the age of the latest result and adds up
a year read after it, which may by then be of other versions. A
recommendation run reads theses and risks as they are now, whatever its `as_of`. Two
concurrent commands may give a thesis two successors; a second POST begins a second
chain. An unpriced holding with a fresh valuation raises and loses the run
(`Unweighable`). A rerun overwrites the proposal of an approved rule, and an approval committed after it
loaded the rule, against `db/repositories/policy.py:35`; a review that
races a rerun may approve what the rerun rejects. `app/api/agent.py` calls `build_graph` with an argument it
does not take.

## 5. Abstractions

* The identity map of the ORM is reduced to "the row as this command loaded it".
* `FinancialFacts`: the 0.5 % tolerance and the field subset of a verification are
  equality of the one figure; `financial_periods` rows exist; `superseded_by` is the
  next version. `VersionBound` gives a command up at `MaxVersion`; it exists only to
  keep the instance finite and rolls back, as any failure may.
* `CorporateActions`: of the compared fields the amount or the ratio is kept. The BSE
  adapter returns an empty list, so cross-verification never writes.
* `FifoLots`: brokerage and account are left out (one replay is one account); the
  test `old_quantity == 0` coincides with an empty queue, because a queue holds only lots with
  shares left (`QueuesMatchLots`, proved).
* `BrokerImport`: a workbook is the list of rows it parses to, or one that cannot be
  parsed; a row is its dedupe key and whether the schema accepts it.

* `WalkForward`: one symbol and one account, so warnings need no text; every warning the
  replay gives makes the decision RECONSTRUCTION_WARNING. Lots and costs are left to
  `FifoLots`: a position is its quantity. The SELECTs of one snapshot, of one turn of the
  horizon loop and of the entry are one step each; a month is a number of days; ratios
  are integers; a return is an integer in units of 1/`Unit`; start prices are positive.
  `data_quality_notes` are left out. The instance has no opening
  adjustment: its warnings come from the oversell. Stored figures are rounded and computed ones are
  not, so a back-fill always rewrites a total-return figure it has. `quiet` records
  whether anything was stored during a run; only `PairsComparable` reads it, because a
  run disturbed by an import makes no promise.
* `Transactions`: `Crash` may follow any step; a statement that waits is a step that
  is not enabled. Keys are the unique constraints; ids of uuid columns are the next
  number nobody uses. Foreign keys hold by the order of the steps and are not checked.
* `PriceSync`, `Filings`: bytes are model values, a hash is the value itself; of a document
  the title and of a price file the columns are left out. The retry loops inside one fetch
  are one step with their outcomes.
* `News`, `Interpretation`: the similarity of two headlines is a table, the numbers and
  phrases in them sets, a table that need not be symmetric; `Now` is one instant. The limit of
  500 recent items is the constant `RecentLimit`; of items found at one instant any may be cut off. What a language model may
  answer is a set of proposals, a failed call among them.
* `PortfolioSync`, `Reconstruction`: a trade is a symbol, day, quantity and
  price; the lots of a symbol cost alike, so that a position is a quantity and a cost; lots
  in full are `FifoLots`. Companies have no rows beyond symbol and ISIN.
* `Forecasts`, `Advice`: estimates, errors and fair values are the sets of rows they
  rest on, of a valuation also whether the close was below the fair value; quarters and days are
  numbers. Results are of quarters: no command writes an annual or cumulative one. Both commands that write a multiple name its
  horizon TTM, so the guard `horizons_compatible` is always true. A band's quartiles are by nearest rank on whole
  ratios; its share-count adjustment is left out.

## 6. What is proved

All theorems hold for every value of the constants under the module's named
assumptions (`ConstantsAssumption`, `CorporateActionsAssumption`, `FifoAssumption`,
`BrokerImportAssumption`, `PriceSyncAssumption`, `FilingsAssumption`, `WalkForwardAssumption`,
`TimelineAssumption`, `NoneAssumption`, `NewsAssumption`, `InterpretationAssumption`, `ForecastsAssumption`,
`AdviceAssumption`, `PortfolioSyncAssumption`, `ReconstructionAssumption`, `StatementsAssumption`, `BooksAssumption`: bounds are naturals, quantities, ratios and closes positive,
a timeline is in the order `replay_fifo` sorts events into, `NONE` is
not a value, the sets of sessions and the dates `--position` may name are finite, a headline is like itself, no feed is called
"manual", a database the news or the research commands start from is one that they leave,
what others publish are results with an instant of availability, closes and risks, the rules are a finite list,
only zip files have members, which are no zip files themselves, a symbol has one opening
lot, what a statement says is what a replay of complete books gives but for what its gaps explain, and the books begin in a state
that their commands leave).
TLC evaluates them on every run. It also checked each inductive invariant on the
instance before it was proved.

* `FinancialFactsProofs`: `TypeCorrect`, `ExactlyOneLatest`, `HistoryIsPreserved`,
  `NeighboursDiffer`, `AvailabilityIsDefensible`, `VerifiedFromFiling`, `TableIsChain`.
  `OneLatest` says nothing of uncommitted rows, so it is not inductive. The
  strengthening `IInv` adds: drafts of two sessions are disjoint (row locks); every
  session's *view* is a well-formed chain; a session that has written nothing holds
  nothing; the row a session loaded is still there. Committing a draft turns that
  session's view into the table, and disjointness keeps the others' views
  well-formed. The last three theorems are about decisions taken on a row as loaded and
  carried out after a wait for its lock, during which another session may have refreshed
  or verified it. `Evidence` says what survives the wait: the values loaded are the row's
  (`LoadedValues`, because no step changes values in place), neighbours differ in every
  session's view and not in the table only (`RestatementsDiffer`; two rows that become neighbours in a view at a
  commit were neighbours in the view of one of the two sessions), every drafted instant is
  vouched for, and every candidate still in a queue is. A refresh that writes half of the
  provenance columns is covered: each half is the candidate's or the row's, and with equal values both derive
  from the same date. `TableIsChain`, that the table implements `VersionChain`, puts three of
  these together: because exactly the newest version is the latest, the histories of the abstract
  specification are the values up to it (`ReportedIs`), and they only grow, by versions that differ.
* `CorporateActionsProofs`: `TypeCorrect`, `FlagNamesTheHighest`, `TableIsChain` (every step of
  `CorporateActions` is a step of `VersionChain` or leaves it alone), `PastIsSettled`. A
  transaction may write several versions of one key, so the strengthening follows its view:
  flags name the highest version there, its new versions follow the committed ones without a
  gap, and no other session has drafted a version of that key. For the settled past it adds that what a
  session has drafted is available no earlier than it started.
* `BrokerHistoryProofs`, of `FifoLots`: `TypeCorrect`, `QueuesMatchLots`, `FirstInFirstOut`, for any
  precision: rounding never makes a remaining quantity negative nor turns a positive
  one into zero, and the head of a queue is its only partly sold lot. `TotalsAreOfTheLots` and
  `CashIsOfTheLots` are about sums over all lots, kept up while a sale is matched lot by lot: the
  invariant counts what the sale at hand is still to bring in (`Due`) and what it has realized
  (`Running`). The totals agree whatever is rounded. The cash identity cannot: a split whose cost
  per share does not divide moves value, and `CashIsOfTheLots` assumes that no split of the replay
  does (`ExactSplit`, a step formula; TLC finds it true of every step of the instance, and
  `WholeSplitIsExact` shows it of a split of k for one where k divides the cost). What `SumFunction` of the
  community modules computes, a fold in an unspecified order, is proved once for finite sets of
  integers (`SumOfAny`, `SumOfOneMore`, `SumOfOneChanged`). `SplitsKeepToTheirDate` rests on the
  sort key: a lot opened or closed by a trade on the day of the last event rules out a corporate action
  of that day, so that what its queue holds is what was held when the day began.
* `BrokerHistoryProofs`, of `BrokerImport`: `ImportsTypeCorrect`, `SuccessMeansStored`,
  `EveryRowTraceable`, `NothingIsRewritten`. The strengthening describes a session in mid-file: the keys
  it has inserted are fresh, are as many as it has counted, cover with the stored ones every row it has
  passed, and no two open transactions hold the same key or file.
* `TransactionsProofs`, and `SyncProofs`, of `PriceSync`: `FirstPriceAlwaysStands`, which uses no assumption
  on the constants at all, `PricesComeFromFiles` and `SyncsAreAccountedFor`. That a stored close is never changed does not follow from the
  steps of one sync: a commit writes a whole draft, and what the others have drafted
  since it was flushed could be in it. `OnlyInserts` is the strengthening: the drafts of two
  sessions are disjoint and none touches a committed row. It is preserved because a
  flush is guarded by the unique constraint (`GetOrCreateStep`, `FlushNewStep`) and a commit
  moves keys from one side to the other. `TransactionsProofs` holds what any client
  that only inserts can cite. That every stored close is traceable (`PricesTraceable`) is not
  inductive either: a sync drafts a close together with the row of the file it is from, and a
  commit installs both. `PriceIInv` says that each drafted row is traceable in the view of its session,
  that the path a sync is at is in the archive from when it was written, on record from
  when it is parsed, and that the places of the rows left to store are places of that file;
  and that the key a sync waits for is the key of the row it will insert, so that a wait
  cannot put a row under the key of another. Files and keys only grow, so what one session does keeps the
  others' views (`OthersKeep`). What a sync tells at its commit (`SyncIsAccountedFor`) is kept up request by
  request: the files behind the one at hand are stored, that one up to the rows left, and
  every weekday before the next request is told of (`Accounted`; a range sync tells of its days
  at the end only). An answer to one range may hold rows of days of another, so of a
  range sync the property counts the days it has rows of, not those it has asked for.
* `SyncProofs`, of `Filings`: `WhatIsRecordedIsArchived`, `TheArchiveStands`. A row is traceable when
  the bytes it names are on disk, the file it was unpacked from is a row, and so is the
  document a fact cites. None of that is inductive of the committed rows: a command flushes rows of files it
  has only just written, whose parent it may itself have drafted, and a crash leaves files
  without rows. `FilingIInv` says it of every session's view, of the path and parent a
  running command is about to use, and adds that keys about to be used are fresh; files only grow, and
  a file written to its end stays whole, because only a torn one or none is written. `SyncsArchiveAll` needs a second
  invariant on top, `Gathered`: what a sync downloaded is complete except for the one attachment it is at, and of that
  each member is on record, at hand or still to come (`AtHand`), whatever part of it was there before; a
  readable PDF in its draft, a member or attached itself, has its text, or the text is its next step (`TextsOk`). It is for this that a zip file already
  known must be unpacked again: a commit of one command in the middle of another's archive makes it known.
* `SyncProofs`, of `Books`: `SyncsAreComplete`, `IdentitiesStand`, `RebuildsReplace` and `CompleteBooksAreClean`, from
  one invariant, `BooksIInv`, for syncs, adjustments, rebuilds and comparisons side by side. `Booked` says what committed
  books are; each kind of command has a predicate of its own, of its state, its draft, what it sees and what is
  committed, and `BooksGrown` is all that the others' commits can do to these. *Syncs*: each holding before the next has
  been normalized, with its value, or counted (`Progress`), and the run and its one snapshot are written from these counts
  (`Persisted`). *Identities*: rows are updated here, so that drafts do not only insert; what is
  stated of a draft is that it loses no ISIN and no link of a committed row, and puts another in its place only in a row the sync has read
  as not known (`KeepsIdentity`). A command that found no company and
  inserts a stub may find one when it gets the lock, and overwrites it: that company is one it has noted
  as not found (`StubOk`), as an instrument it links is one it has read without a company (`LinkOk`). *Rebuilds*: of the lots a DELETE found, those it has passed are dead, whoever deleted them
  (`RebuildOk`); a rebuild that waits finds its target deleted or alive again after a rollback.
  *Comparisons*: books that were complete at the start stay so, whatever is imported, so the splits, openings and trades that are
  read one after the other are all there are, and each statement adds only what its gaps explain (`Compared`).
* `InterpretationProofs`: `DatabaseStaysConsistent`, and from it `StoriesAreStoredOnce`,
  `EventsStaySupported`, `MemoryIsReviewed` and `DecisionsAreKept`. `Consistent` says what a committed
  database is, and nothing of what a command is still writing. `IInv` says, for each kind of
  command, what is true of its draft, of what it sees and of what is committed, such that the
  view of one that is done is consistent. *Stories*: the near-duplicate check compares with items read before the first insert, so
  that two syncs of one source would both find nothing; what rules it out is that a sync that is past `Count` has
  the row of its source's counters in its draft (`ItemsOk`), so that no other sync of that source is
  past it. The likeness is not symmetric, and the invariant survives with it, because
  `Apart` asks that one of the two directions falls short. The items compared with are those of `list_recent`: what it leaves out is
  older than as many items as the limit allows, so that an item told again despite it is crowded (`RecentOk`, `Crowded`), and
  stays so, because no item is removed. *Events*: an item is linked to a company before it is filed under an
  event, so in between the invariant counts three cases: linked and filed, linked and at hand,
  neither (`LinksOk`); it needs that a company an item is filed under has its link in the
  same draft, or a second event could be opened for it. Events are also updated
  (`last_seen`), so drafts here do not only insert, and what a wait leaves unchanged of a
  row that another session has committed meanwhile is its company and headline (`Stands`). *Reviews*: two
  may find one interpretation pending, create the facts of both and mark it in turn; the second mark waits, then
  overwrites. The property survives because what is accepted lists the facts of the
  one that marked it last, and those of the other still come from an interpretation that is decided.
  What a review loaded fits what is committed, since the columns it was proposed with never change. *Runs*: of an event that has an
  interpretation when the command begins the look-up finds it, whenever it is made; of one that is interpreted meanwhile
  nothing is claimed (section 4, divergences).
* `ResearchProofs`: `ResearchStaysConsistent`, and from its invariant `NothingFromTheFuture`, `BacktestsAreBlind`,
  `AdviceStaysSupported` and `RecordsAreKept`. `Consistent` is again what a committed database is, and
  `IInv` what is true of each kind of command on its way there. *Snapshots*: an estimate may reuse a
  snapshot that another command built from results since verified, restated or dated anew. What carries over is the
  fingerprint: it names the results that were read (`Chosen`), of a snapshot as of a command, so the
  reused one has the results of the command (`Snapped`), and its own cutoff bounds them, whatever the
  results' availability has become. *Valuations*: each read is bounded by the instant itself, and a band by the ends of its days; that the days
  of a band made earlier end no later than the day of the valuation is arithmetic (`DaysInOrder`). *Blindness*: the cutoff precedes every availability of the quarter that was
  known when the backtest took it, in any scope or version (`Blind`); what is published later may be dated earlier, which is why the
  property speaks of results that still stand. *Advice*: thesis, valuation and estimate are read at different times; each is a
  row that no command changes, so what supported a decision when it was read does so at the commit (`Supports`), and a run commits
  only when no symbol is left (`RunIs`). A thesis superseded after the run began is allowed for by the set
  the run starts with. *Approvals*: a rerun and a review write the same rule. Both hold the row as they loaded it, wait for
  its lock and then assign only the columns they changed. A rule that is approved says
  when (`StampOk`); a rerun drafts a rule it met approved only when that approval is gone (`NoLonger`), no draft
  of another command can bring it back (`Answers`), and as times of approval only grow (`NotBefore`), a rule rejected and approved anew
  is not mistaken for the one it met.
* `WalkForwardProofs`: `TypesHold`, `WhatIsCommittedIsInWindow`, `ReturnsAreOfTheHolding`,
  `CommittedStands`, `PairsCompare`, the first four from one invariant, `Inv`. It follows a decision through its
  commands: what a session has drafted continues what is committed and is of its own run; no key is
  drafted by two sessions; a drafted row lacks its outcome only while that is scored; what has been read for a
  row fits what is still to be read. The step that needs most is the back-fill, which scores
  a row again and writes every total-return figure of the new row, also a missing one, over the
  old. That this erases nothing holds because the closes a figure was made of are still
  stored (`Supported`): where there was an entry on or before the decision there is still one, and
  where there was a close in the window there is still one, perhaps another.
  `ReturnsAreOfTheHolding` is the arithmetic: the factor over two adjacent intervals is
  the product of the two (`ProductOfParts`), and the truncated quotient of a return does
  not change with the share count both closes are stated on (`DivCancels`). The fold that
  replays a history and the product of ratios are shown to be what they should by the
  smallest set of events for which they are not (`SmallestSet`, from the library's theorem on
  well-founded minima), which does what induction would.
  `PairsCompare` needs a second invariant on top, `PairInv`. While nothing is stored, everything a
  run reads is a function of the date (`Readings`), so a quiet run holds what it would read now
  (`ReadOk`, `DraftedOk`), and both decisions of a date are scored with the same closes and
  splits, although they are read at different times; the jobs done, at hand and to come always hold both
  sources of a date or neither (`RunOk`); and the number of a running run is nobody else's, so it finds no
  row it did not draft (`Alone`). That the impact in money is the trades' own compares the replays of two sets of
  events: in the sort order of `replay_fifo` the trades of the day come last, after the splits
  of the day and unless a split is announced for later, and an unwarned replay adds to the
  position without them exactly their net quantity (`LastTradesAdd`, `DayMoves`).

Model-checked only: liveness (`CommandsEnd`, `ImportsEnd`, `SyncsEnd`), which needs fairness and
ENABLED and is beyond the prover. Every other property of a passing run is stated by a theorem. The library's induction theorems take an
operator as a parameter and cannot be used here; the argument by a smallest counterexample in
`WalkForwardProofs`, `BrokerHistoryProofs`, `InterpretationProofs` and `ResearchProofs` can.

## 7. Not modelled

Left out for good: the agent graph (a fixed pipeline of reads around a language
model), parsing of HTML, PDF, XLSX and JSON (pure conversions, better tested), the
numeric estimation formulas and the narrator, prompts, printing and argument parsing,
settings and logging, reports and read-only HTTP views, the calendars, and the offline
provider experiments. Left out so far: creating a financial period, the
archiving of the answer in the syncs of results and corporate actions (`Filings` has
`archive_document`), more than one broker account in `Reconstruction`, the personal policy report.
