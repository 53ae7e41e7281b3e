# BPM-Screener: verification project

BPM-Screener is a FastAPI service that receives TradingView telemetry, ranks
the US stock universe in the background and serves the rankings. This directory
holds TLA+ models of its code, TLC runs that check them on small instances and
TLAPS proofs about them for every instance. Paths are relative to `src/`.

## 1. The system

| Component | Code | State it keeps | Operations | Interacts with |
|---|---|---|---|---|
| Scheduler, leader election | `app/scheduler.py`, lifespan of `app/main.py` | its task, `lock_conn`; the advisory lock in Postgres | acquire, retry, run, persist, sleep, release, cancel | cache, tables, ranking pipeline |
| Ranking cache | `app/ranking_cache.py` | `_results`, `_updated_at` | `set`, `get`, `get_for_symbol`, `updated_at` | scheduler writes; `rankings`, `scanner`, `statistics` read in worker threads |
| Telemetry webhook | `app/routes/telemetry.py`, `app/security.py`, `app/models/telemetry_schemas.py`, size limit of `app/main.py` | `telemetry_events`, `webhook_audit_log` | validate, authenticate, look up, insert, audit, answer | the sender and its retries |
| Behavioral provider | `app/providers/db_behavioral_data.py` | none | latest event of a symbol | reads telemetry, for the pipeline and `/behavior` |
| HTTP client | `app/providers/http_client.py` | `_last_request_at`, lock, TTL cache | cache, rate limit, request, retry with backoff | every vendor provider |
| Vendor providers, factory | `app/providers/polygon_*.py`, `finnhub_corporate_events.py`, `sec_edgar_filings.py`, `parsers.py`, `factory.py` | CIK map, stream backoff | fetch, parse, stream, select | HTTP client; pipeline, `/news` |
| Historical statistics | `app/providers/db_historical_stats.py` | none | win rate, profit factor, averages | reads outcomes, for the pipeline |
| Ranking pipeline | `app/engines/ranking.py`, `universe.py` | locals of one pass | filter, score each candidate, scan, sort | all providers and engines |
| Engines | the other `app/engines/*.py` | none | one explained score each | pipeline, `/behavior` |
| Safeguards | `app/safeguards.py`, `app/models/evidence.py` | none | scan texts, check scores | pipeline |
| Read-only routes | `app/routes/history.py`, `behavior.py`, `news.py`, `health.py`, `research.py` | none | queries | tables, providers, constant texts |
| Mocks, configuration, logging, database wiring, migrations, tests | | | | |

What makes each of these correct, and what is hard about it:

- *Scheduler.* Several instances share a database; at most one may run the loop,
  somebody must take over, one bad run must not end it, and what is served must
  be what is persisted. Instances crash, sessions die at the server, commits
  have unknown outcomes, connections are pooled.
- *Webhook.* Deliveries of one event overlap, are retried and arrive in any
  order; rows, audit log and answers must agree whatever fails.
- *HTTP client.* Concurrent calls sleep inside a lock, retry and are cancelled;
  the vendor's rate must hold all the same and nobody may wait for good.
- *Pipeline.* A pass has eight kinds of await per symbol, each of which may lack
  data or raise; the result must be complete, ordered and scanned, and every
  line that compares a sample with its minimum must agree.
- *Engines and parsers.* Pure functions with many optional inputs: a missing,
  zero or extreme field must neither make a score that cannot be constructed (it
  would end the ranking of every symbol) nor move one the wrong way.
- *Serving.* Threads read two fields that the loop writes one after the other;
  events commit out of order, runs fail and change instance, and what clients
  see must still be whole runs of evidence that never gets older.
- *Quote stream.* The server refuses, drops and sends garbage, the consumer stops
  anywhere; quotes must come in order and once, and pauses grow and start again.

`PROJECT.json` lists each hazard at its line, with the property that covers it.

## 2. Modules

| Module | Stands for | Used by |
|---|---|---|
| `SingleLeader` | what `scheduler.py` promises: one leader at a time, an append-only log of runs | refined by `Scheduler` |
| `Scheduler` | the task of every instance, the lock, sessions and the pool, the cache, the persisted runs | `MCScheduler`, `SchedulerProofs` |
| `IdempotentStore` | what the webhook promises: an event is stored once, "accepted" only to who stored it, "duplicate" only when another did | refined by `Telemetry` |
| `Telemetry` | webhook handlers, the two tables, unique-key waits | `MCTelemetry`, `TelemetryProofs` |
| `HttpClient` | the calls of one client: cache, limiter lock, timers, retries, cancellation | `MCHttpClient`, `HttpClientProofs` |
| `Ranking` | one pass of `build_ranking` with filter, timeframe loop, safeguard and sort | `MCRanking`, `RankingProofs` |
| `Values` | optional values, truthiness, rounding: what parsers and engines share | `Engines`, `Parsers` |
| `Engines` | every score and confidence, and the universe filter, as operators on scaled integers | `Evidence` |
| `Parsers` | snapshot, bars, news and recorded trades, from an answer to the engines' input | `Evidence` |
| `Evidence` | what is known of one symbol from run to run, and the scores it gets | `MCEvidence`, `EvidenceProofs` |
| `Serving` | the whole path: webhook table, runs of the leading instance, the caches, `/history`, and the requests that read both | `MCServing`, `ServingProofs` |
| `QuoteStream` | the reconnecting `stream_quotes` and its consumer | `MCQuoteStream`, `QuoteStreamProofs` |
| `FoldLemmas` | no code: what a sum over a finite set is, and how sums compare | `EvidenceProofs` |

In every module an action is what the code does between two awaits, with every
state change it makes there. `PROJECT.json` maps each definition to its lines.

**Scheduler.** `task[i]` is the await the scheduler task of instance `i` is in:
`connect`, `try`, `standby` are `_try_acquire_leader_lock` and the retry sleep;
`build`, `flush`, `commit`, `sleep` are `run_ranking_once` and the interval;
`unlock` is `_release_leader_lock`; `dead` is a task that an exception ended
while its process goes on serving. `conn` is the connection the task holds,
`idle` the one its pool would hand out next. The server side (`live`, `holder`)
is external: what `pg_try_advisory_lock` does with a session. A cancelled or
dying task may leave a statement in flight that the server still executes
(`InFlight`): it lands at the instant the task stops, or never. The code commits in
another session than the lock's, so a commit could also land while a successor
already leads; one that lands after a whole run of the successor has been
committed is outside the model (there `/history` would get an older run last). The
same holds of the commits in `Telemetry` and `Serving`. The pool is modelled by the one connection the loop uses;
connections of request handlers do not touch the lock.

**Telemetry.** `at[d]` is the await of the handler of delivery `d`. The
middleware, the schema and the secret checks are alternatives of `Arrive`; the
lookup, the insert, the commit and the refresh are actions, and the insert waits
for an uncommitted equal key as Postgres does. An event is the number of its bar,
so that the order of arrival and the order of bars can differ. `Fail` covers a
statement that raises, a process that dies, and a commit executed although its
reply was lost.

**HttpClient.** `queue` is the `asyncio.Lock` (its head holds it or is next),
`wake` the timers, `expires` the TTL cache, `attempt` the retry counter. The
clock counts ticks. `sent` and `latest` are history variables. One module is one
client object. The code gives every provider object its own, and objects share
nothing: each keeps its rate, and the vendor sees the sum of them.

**Ranking.** `step` is the await of the pass. The filter may accept any subset, and
an engine may return any score or be refused by `__post_init__`; `Engines` and
`Evidence` compute the filter and the scores from the data. `texts` and `news` say
which of the texts the awaits brought have a forbidden word. `Holds` is the table
of output fields and the texts that flow into each, `ScannedFields` are the fields
that `validate_ranked_symbol` looks at; a row keeps what got out. Texts that cannot
have such a word are left out: the confirmed direction is one of three words, the
database provider reports no forecast bias, a halted symbol is filtered, and
templates and numbers are the code's own. The factory always supplies a corporate events
provider and the scheduler leaves `fetch_multi_timeframe` on, so the branches
without them are left out.

**Engines, Parsers, Evidence.** Python's floats are scaled integers: a score is
in tenths, a confidence in hundredths where the code has two digits, a ratio is
a pair. Scaling keeps the order of what is compared, which is all the properties
ask for. `Score` has the value and the confidence of a `ScoreExplanation`; the
factors' texts are left out. The weights, caps and tables are those of the code.
`Evidence` holds the answers of the vendors for one symbol, its behavioral read,
the recorded trades, the bars of each timeframe and the news. One step changes
one piece (a field of the snapshot, a closed trade, a bar, a failing timeframe,
an article), as happens between two runs. What a vendor or the database may answer
is typed (`WellTyped`): prices, volumes and counts are not negative, and what may be
missing is `None`. Most properties compare the scores of
what is known with those of evidence that differs in one piece: one field less,
one loss that was a win, a wider spread, a narrower range.

**Serving.** `Scheduler`, `Ranking` and `Telemetry` appear by what they do to each
other. `pending` and `table` are events flushed and committed, `clock` the
`received_at` the next one gets. `phase[i]` is where a run is: reading symbol by
symbol (each its own statement, so events commit in between), between the two
assignments of `RankingCache.set`, or before its commit. `cache` and `stamp` are
the two fields of the process's `RankingCache`, numbered by result so that they
can be compared. `request[t]` is a request a thread serves, and its answer:
`/statistics` reads the cache, then the time; `/rankings` and `/scanner` are its
first step only. `/history` runs on any instance and picks any page the query
allows. A row is the event it was read from.

**QuoteStream.** `at` is the await or yield of the generator, `open` whether it is
in its `async with` block, `got` and `out` what has been received and yielded.
The server may refuse at the connection or the subscription, drop, close in
order, and send messages of several events of any kind, malformed ones included. The
consumer may close the generator or be cancelled anywhere; one that abandons it at
a yield without `aclose()` just stays there, and the socket with it until Python
collects the generator: `SocketInItsBlock` says nothing of that.

## 3. Runs

| Run | Question | Result |
|---|---|---|
| `scheduler_faults` | with every fault on, who may hold the lock, and is what is served persisted? | a runner holds the lock or its session was ended; a pooled session never holds it; a served run that is over is in `/history` unless its own flush or commit raised |
| `scheduler_kept_sessions` | while no session ends under its client, is there one leader? | yes, `/history` only grows by newer runs, and nobody serves an older one than it has; `Scheduler` implements `SingleLeader` |
| `scheduler_take_over` | does somebody always lead, does the loop outlive failing runs? | yes while acquiring never raises, also when building, flushing or committing does |
| `telemetry` | do overlapping, failing, dying deliveries stay consistent? | yes: `Telemetry` implements `IdempotentStore`, audit and answers agree with the table, a retry after an answer is told "duplicate" unless it is refused or fails, all are answered |
| `http_client` | do concurrent calls keep the rate and the backoff, and end? | yes |
| `ranking` | is a returned ranking complete, stably ordered and scanned? | complete and ordered yes; the only forbidden words that escape are in factors of the News Score |
| `engines` | can every score be constructed, and does it move the right way? | yes, but for a crossed quote; nothing shows below the sample minimum, on which all four comparisons agree, blends stay between their parts, lost evidence never makes a score surer |
| `serving` | is what clients see near its time, whole, and ever newer? | yes; and an event in the table is ranked in the end if runs go on |
| `quote_stream` | does the stream recover, with growing pauses, in order and without leaks? | yes |

Where a document or a test says more than the code does, a run shows the
disagreement by a counterexample:

| Run | What is said | What happens |
|---|---|---|
| `scheduler_lost_lock` | only one ranking loop runs at a time (`README.md:199`) | the server ends the lock session of a leader (failover, partition), another instance gets the lock, and the first runs on: it never looks at its lock again (`scheduler.py:162`) |
| `scheduler_dead_standby` | standbys take over automatically (`scheduler.py:10-13`) | one exception while acquiring ends the standby's task; its process stays up and nobody leads (`scheduler.py:163`) |
| `ranking_unscanned` | every output-facing string is scanned (`README.md:120`) | factors are not: a headline after the fifth, or a publisher, is returned unscanned in a factor of the News Score |

The code and its documents also part in places that no run is spent on. The
models contain these behaviours, and their properties are stated around them:

- A run is published before it is persisted (`scheduler.py:108`), so after a
  failed commit the cache serves what `/history` never has, though
  `scheduler.py:1-4` says both are stored. `CacheInHistory` excepts the very runs
  whose own flush or commit raised (`failed` remembers them), and
  `ServedIsNewest` says that the cache is then ahead, never behind.
- Of two deliveries of one event at once the loser's `IntegrityError` is answered
  500, though sending again is called idempotent
  (`tests/api/test_telemetry.py:19`). `RetriesAreDuplicates` says what is left:
  once any delivery of an event was answered, that 500 included, one sent
  afterwards is told "duplicate" unless it is refused or fails.
- The "latest" event is the one received last (`db_behavioral_data.py:33`), not the
  one of the newest bar. `EvidenceNeverGoesBack` is about receipt.
- `confidence.py:21` says the value cannot exceed the weakest component. The blend
  of average and minimum does whenever components differ; `BlendsStayBetween`
  says what is true of it.
- A condition that never lost has no profit factor and scores as if it were zero
  (`historical.py:35`); `BetterRecordNeverHurts` excludes the last loss.
- A crossed quote makes a negative spread whose worth nothing caps
  (`structure.py:9`), and a missing one counts as the tightest.
- No news at all is given a confidence of 0.2, more than one weak item
  (`news_score.py:12`).
- Exhaustion looks at ranges only, not at the direction its description asks for
  (`multi_timeframe.py:73`).
- A key the quote server refuses never makes the stream's pauses grow: the backoff
  is reset before the server has answered (`polygon_market_data.py:99`).
- The Finnhub provider cannot be constructed: its filings method stays abstract
  (`finnhub_corporate_events.py:30`).

### Bounds, and why they are enough

- *Scheduler.* Two or three instances: an exclusion fails between two, a third
  lets a successor be succeeded. Four sessions: one for each of two tries, one
  for the successor, one spare, so that a session can be lost and replaced.
  `MaxRuns` 2 or 3 and `MaxStops` up to 2 let a run precede and follow a
  take-over. Symmetry is used in safety runs only.
- *Telemetry.* Three deliveries of two events: two race for a key while a third
  waits, retries or reorders. Each mutated guard already fails with two.
- *HttpClient.* Three calls of one key: one sleeps in the lock, one waits, one
  retries behind them. The backoff 2 is longer than the interval 1, or spacing alone
  would imply it; a retry still queues behind newer calls. One retry is enough
  for first, last and exceeded attempts; TTL 1 lets an entry expire. TLC uses `MaxLate` 0, timers fire on time; the proofs hold for
  any lateness. `MaxTime` caps only the idle clock.
- *Ranking.* Three symbols give equal scores a neighbour on each side; two
  timeframes have a first and a last; one shown headline of two stands for five
  of more.
- *Engines.* Any three changes from two baselines (a rich snapshot and a bare one):
  a property that relates two pieces of evidence needs at most one change to
  bring each to its edge and one to compare. A field takes the values its
  readers tell apart, absent and zero among them; the sample minimum 2 has a
  side with and without, the exhaustion window 2 compares two windows within
  five bars.
- *Serving.* Two instances, as a take-over has two sides; two symbols, as pages and
  rankings differ by one; three runs with one fault leave a run before and after
  it; two events give a symbol an older and a newer one, and a page of three rows
  cuts a run of two in the middle. One request at a time is enough for TLC, as
  requests do not touch each other; the proofs hold for any number.
- *QuoteStream.* Pauses 1, 2, 4 and the longest, 6, need four failures in a row, and
  a fifth lets a subscription come between. Two messages of three events have an
  event before and after a malformed one, and a message after it. A malformed
  event arrives only while a break is left, so the bound never keeps one from
  being handled.

`CHECK_DEADLOCK FALSE` is set where the system comes to rest: every bounded
start, stop and run used up, every delivery answered, every call or pass ended.

### Fairness, and why the code justifies it

- *Scheduler.* Weak fairness of `Acquire(i)`, `Run(i)`, `Release(i)`: the event
  loop resumes a ready task, sleeps and awaits end. Weak fairness of ending a
  session nobody refers to: Postgres notices a client that is gone. None on
  starting instances or on ending a session still in use.
- *Telemetry.* Weak fairness of `Step(d)`: the loop and the database answer any
  await that is not a wait for another transaction. None on failures.
- *HttpClient.* Weak fairness of `Tick`, of resuming a call that can go on, and
  of a response: httpx has a timeout. None on making or cancelling calls.
- *Ranking.* None: its loops are bounded and it retries nothing, so that a pass
  ends is not a question for a run.
- *Serving.* Weak fairness of `Lead(i)` and `Run(i)`: a standby asks again and again,
  the loop resumes and reads answer. None on events, requests and faults.
  `EventIsRanked` asks for one run more than may still fail. Fairness of `Lead`
  takes it that acquiring the lock never raises (`scheduler_dead_standby` shows what
  happens else), and a text that aborts every run of the pipeline is not among the
  failures here: these are bounded.
- *QuoteStream.* Weak fairness of connecting and subscribing (a server that has
  refused for the last time is reached), of handling a message and of ending a
  pause. None on the server's messages or on the consumer.
- *Engines.* None: there is no liveness in a pure function.

## 4. Proofs

Everything here is proved for all values of the constants, from the assumption
each module states about them.

**`SchedulerProofs`** (`SchedulerAssumption`). `IInv` is inductive. Type
correctness and the lock's uniqueness are not: that no path lets go of the lock
needs that no two places refer to the same session (`NoSharedSession`), or one
instance's unlock or pooled connection would be another's lock; that a task that
only tries does not hold the lock already (`TrialHoldsNothing`), or a refusal
would pool it; and that a runner's session holds the lock or was ended
(`LockKept`). Theorems: `TypeCorrect`, `LockSafety` (every fault allowed);
`MutualExclusion`, `Appends` and `ImplementsSingleLeader`, which further assume
`~SessionsMayBeLost`: without it `scheduler_lost_lock` refutes them. `Appends`
rests on `UnpersistedIsNewest`, that an unpersisted run is newer than `/history`.
`CacheIsPersisted` assumes nothing more: sessions may be lost, instances die, flushes
and commits fail. The property excepts the runs between their publication and their
commit and those whose own flush or commit raised, and is inductive with `IInv`.
`NeverServesStale` assumes `~SessionsMayBeLost` and needs that only the instance that
keeps the lock has a cache (`OnlyKeepersServe`) and that there is one such
(`KeeperIsUnique`).

**`TelemetryProofs`** (`TelemetryAssumption`). One row per event is inductive
only with `KeyIsExclusive` (an uncommitted key is one transaction's and not in
the table) and `RowsComeFromDeliveries`; truthful answers rest on what each
await relies on (`AwaitsAreJustified`). Theorems: `TypeCorrect`, `AtMostOneRow`,
`TruthfulAnswers`, `AuditIsComplete` (log and table agree at every moment),
`RetriesAreSafe` (from the moment an event is settled its row is there and every
lookup finds it, `FindsTheRow`), and `ImplementsIdempotentStore`, each with failures
and deaths allowed.

**`HttpClientProofs`** (`HttpAssumption`). Spacing needs that the lock's queue
holds exactly the calls that wait, each once, that only its head sleeps in it
until the interval is over (`SleeperHoldsLock`), and that the limiter remembers
the latest request (`LastIsLatest`); the backoff needs what a retry has waited or
will have (`BackoffKept`). Theorems: `TypeCorrect`, `Spaced`, `BackedOff`, for
any number of calls, keys and retries, any rate and any lateness. That `Delay(n)`
is a natural number is part of the assumption, because the provers do not know
exponentiation; TLC evaluates it.

**`RankingProofs`** (`RankingAssumption`). The sort is not computed by recursion
but characterised: the rank of a candidate counts those that beat it. `Beats` is
a strict total order, so ranks grow along it and are `n` different positions
within `1..n`; by the pigeonhole principle none is left out (`EveryRankTaken`)
and the sorted list is a permutation (`SortedByPlace`). `IInv` says that every
qualified symbol is ranked, skipped or still to do (`Accounted`), that the loop
keeps the order of the universe (`LoopInOrder`, on which stability rests), what
each await relies on (`LocalsAreKnown`), what ranked candidates may have kept from
the scan (`RankedAreScanned`), and that the result is the sorted list. `LoopOrQuiet` shows that
only three actions touch the list. Theorems: `TypeCorrect`, `Ordered`,
`Complete`, `NothingElseEscapes`, for any universe, headlines and scores. The last
rests on `ScanCovers`: every text of the output is in a scanned field, or only in a
news factor.

**`ServingProofs`** (`ServingAssumption`: finitely many symbols). Each property of
the run is inductive only with its companion. The time is near the rows because
between the assignments of `set` it is exactly one behind and otherwise equal
(`StampFollows`), and a reader is never ahead of its process (`ReadersBehind`).
Evidence never goes back because one instance leads and its run is the last that
was started (`RunsAreLed`), and because what it has ranked so far is of stored
events no older than any in the history (`RowsAreNewest`); that the query finds
a latest event at all is `LatestExists`, by well-founded induction on ages. A page
shows whole runs because the history does (`RunsComplete`): a committed run has
as many rows as symbols (`RowsOfRun`, a bijection), no later run adds to it, and a
page that leaves out a row shows nothing of an earlier run. Theorems:
`TimesShown`, `WholeRuns`, `EvidenceMovesOn`.

**`QuoteStreamProofs`** (`QuoteStreamAssumption`). `IInv` is proved inductive for any
messages, breaks and stops. Delivery in order is not inductive by itself: it needs
that the batch at hand is the last events received, all of one message, and that
nothing of it has been yielded (`BatchIsLast`);
the pauses need the failures counted since the last subscription (`PauseSoFar`),
and that the recursive `TwoTo` is a power of two at every number (`PowersOfTwo`).
Theorems: `StreamInvariant`, `PausesAreDoubled`,
`QuotesInOrder`.

**`FoldLemmas`** (nothing assumed). A sum over a finite set is a fold, a `CHOOSE` of a
recursive function, of which the library proves little. The lemmas say that the
function exists and that the sum takes any element out (`SumRecursion`,
`SumTakeOut`), by induction on finite sets stated with a set of sets instead of a
predicate (`SetInduction`), which the provers can instantiate. From these follow
what the engines need: sums of integers, of naturals and of constants, sums that
compare term by term (`SumMonotone`), weighted sums between bounds
(`WeightedSum`), least and greatest elements.

**`EvidenceProofs`** (`EnginesAssumption`, `EvidenceAssumption`, `ValuesAreTyped`: the
minimum and the window are positive, the timeframes finite, the answers typed,
`None` is no integer, pair or record). The state has one invariant, `TypeOK`; the
theorems are about the scores of every typed state, so each follows from
`TypeCorrect` and lemmas on the operators of `Engines` and `Parsers`.

- `EveryScoreConstructible`: each factor is in 0..1000, whatever is missing (lemmas
  `SpreadFactor` to `OtherFactors`, `MeasuresTyped`), the weights of a blend add up
  to 100, and a rounded average of the scale is in the scale (`RoundToScale`,
  `ThreeInScale`, `SevenInScale`). The structure score is the exception: it needs
  that spread and range are not negative, which is `~Inverted`.
- `BlendsAreAverages`: the components that are least and greatest bound the weighted
  sum, and rounding keeps the bounds (`RoundBetween`, `WeightedIs`).
- `SmallSampleIsSilent`: an outcome changes none of the trades that count
  (`OutcomeKept`), and below the minimum both users of the record read only their
  number.
- `GatesAgree`: a condition has a win rate as soon as a trade has closed
  (`RatedWhenTracked`), an open gate is worth a confidence of 0.4 at least
  (`OpenGateIsSure`) and a calibrated forecast 70 points (`CalibratedForecast`), so
  all four comparisons come down to the number of closed trades.
- `WiderIsNoBetter`, `NarrowerIsNoBetter`, `BetterIsNoWorse`, `LessIsNoSurer`: each
  factor is monotone in what changes, clamping and rounding keep the order
  (`RoundMonotone`, `RatioMonotone` for a profit factor whose two parts both move),
  and the other factors are the same. For a narrower bar this takes that the
  earlier window does not contain it and that direction, persistence and
  acceleration look at closes only (`NarrowerBars`); the trend then loses twice,
  in a factor and by the penalty (`NarrowerTrend`). For a win instead of a loss it
  takes that another loss is left, or there is no profit factor (`OutcomeBetters`).

Only model-checked: liveness (`TakeOver`, `LoopOutlivesBadRun`,
`EveryDeliveryAnswered`, `EveryCallEnds`, `EventIsRanked`,
`StreamRecovers`; the provers used do not handle fairness) and the disagreements
above, which are counterexamples. Every safety property that a passing run checks
is also a theorem. Type correctness is a conjunct of each `IInv`, and proved with
it; that of `Evidence` is `TypeCorrect`.

## 5. Not modelled

- Earnings, insider transactions and analyst revisions (`parsers.py:110-143`): the
  parsers rename fields that no engine reads. `Ranking` takes their answers and
  failures as inputs.
- `sec_edgar_filings.py` and `finnhub_corporate_events.py`: the only class that uses
  them cannot be constructed, so none of their requests is ever made.
- `factory.py`: a table from configuration to class. Mock providers: fixed data,
  except the fields only they fill (`MockChanges`). The sentiment provider has no
  caller.
- Research cards, health, configuration, logging, migrations: constant, or without
  state that matters.
- In `HttpClient`, several client objects and the connection pool of httpx. In
  `Telemetry`, the contents of an event beyond key and bar. In `Scheduler`, what
  a run contains. In `Serving`, a leader that has lost its lock session without
  knowing (it is in `Scheduler`), and clocks of instances that disagree.
- Texts (reasons, risks, summaries) except which forbidden words they may carry and
  whether they are scanned.

## 6. Plan

1. `RankingCache` seen from `Serving`: a refinement of a register that is written in
   two steps, so that every reader's guarantee follows from one theorem.
2. The composition of `Scheduler` and `Ranking` as what `Serving` abstracts.
3. Several HTTP clients over one vendor, with the sum of their rates.
