# song-bot: a verification development

TLA+ models of song-bot, a Telegram bot that answers a message with the song it
asks for: what a message is taken to ask for, the queue and worker pool, the life
of one request, the two limiters, the binaries and the database a start works
on, the start and stop of the process, and queue and requests composed. TLC
checks the models on small instances; TLAPS proves the theorems for every value
of the constants.

Source paths are relative to the repository's root.

## 1. The system

### Components

| Component | Source | State | Operations |
| --- | --- | --- | --- |
| Request handler | `internal/bot/bot.go`, `parse.go` | none of its own; the placeholder message in the chat | `handleRequest`, `handleStart`, `authorized`, `classify` |
| Telegram delivery | `internal/bot/deliver.go`, `limiter.go` | the send limiter; the placeholder message | `Searching`, `Downloading`, `Uploading`, `Deliver`, `DeliverCached`, `Fail` |
| User limiter | `internal/downloader/limiter.go` | map of token buckets, each with its last use | `allow`, `evictIdle` |
| Job queue and pool | `internal/downloader/service.go` | the channel `jobs`, the worker goroutines, the depth gauge | `Submit`, `Run`, `worker`, `evictLoop` |
| Job run | `internal/downloader/service.go` | the job's context, its song, its scratch directory | `process`, `run`, `identify`, `fetch`, `progressReporter` |
| Candidate ranking | `internal/downloader/ranker.go` | none | `bestMatch` |
| yt-dlp driver | `internal/youtube/client.go` | files in the scratch directory | `Search`, `Resolve`, `Download` |
| Metadata, cover art | `internal/youtube/metadata.go`, `cover.go` | none | normalisation, an ffmpeg call |
| Binary installation | `internal/youtube/install.go` | the managed binaries on disk | `Install`, `purgeUnusable`, `installYTDLP` |
| Track cache | `internal/storage` | the tables `tracks` and `schema_version` | `FileID`, `Save`, `Open`, `migrate` |
| Process lifecycle | `cmd/songbot/main.go`, `internal/health/server.go` | wait group, error channel, contexts, database handle | `run`, `shutdown`, `Server.Run` |
| Configuration | `internal/config` | none after the start | `Load` |
| Metrics, logging, texts | `internal/metrics`, `internal/logging`, `internal/bot/text.go` | atomic counters and one gauge | increments, `SetQueueDepth` |
| Domain types | `internal/domain` | none | records and sentinel errors |

### How they interact

Telebot calls `handleRequest` on a goroutine of its own for every update. The
handler posts a placeholder and calls `Submit`, which asks the user limiter and
then tries a non-blocking send into the channel. A worker receives the job,
derives a context with `DownloadTimeout` from the process's context and runs it:
the request is resolved to a video (with a search before that for free text),
the table is asked for a file ID, and the song is re-sent by that ID or
downloaded into a scratch directory, uploaded and recorded. On the way the
worker edits the placeholder through the delivery layer; every one of these
calls waits at the send limiter, and the wait ends with the job's context. An error comes
back up to `process`, which tells the user with a context of its own, or says
nothing if the process is shutting down. `run` in main.go starts the probe
server, installs the binaries, opens the database, starts pipeline and bot, and
waits for all of them; a signal cancels their common context.

### What is hard here

* Handlers and workers share the channel, the buckets and the gauge; the gauge
  is published in two steps (read the length, store it).
* `select` between a job and `ctx.Done()` picks either when both are ready.
* One job is a dozen calls that can each fail, time out or be cancelled, and
  three deadlines (job, apology, process) that can coincide.
* Delivering a song and recording it are two steps; two jobs can look the same
  video up before either records it; the process can die in between.
* A Telegram call can succeed and its reply be lost.
* Buckets are topped up lazily and dropped by a sweeper that looks at the last
  use alone.
* Components report into a channel that is closed behind them.
* Workers, the progress callbacks of their downloads and their apologies all
  reserve ahead at one send limiter, and may give a reservation up; an apology
  has a deadline of its own, and nothing but the throttle keeps the edits of one
  download in order.
* A start works on a volume that earlier starts left: binaries that may not run
  here, a database any number of migrations behind; and it may be cut short at any
  statement, by a signal, a time-out or a death.
* Ranking works on whatever yt-dlp returns: missing durations, negative scores,
  keywords that contain one another.

PROJECT.json lists each of these at its line, with the properties that would
catch it going wrong.

### What makes each part correct

* User limiter: nothing but time creates budget; the sweeper bounds memory and is
  invisible.
* Queue and pool: an accepted job is neither lost nor doubled nor overtaken;
  Submit always answers; the pool stops when told to and serves until then.
* Job run: a request gets the song it asked for, at most once, or none; one that fails
  or is refused is told so (one abandoned to a shutdown or lost with the process is
  not); the cache names only what was delivered; `fetch` leaves nothing on disk; the
  job always ends.
* Lifecycle: no send on a closed channel, no job without a database, no error
  lost, and the process ends when cancelled.
* Start-up: binaries that run, each migration applied once, and no volume from
  which starts fail for ever.
* Send limiter and throttle: the rate is kept, every call gets its turn, an apology
  is never refused, and a download costs few edits, in order.
* From text to song: what is followed as a link is a web address on YouTube, no web
  address with its scheme is searched for, the best playable candidate is picked, and a song is shown with title and artist.
* The whole: every acknowledged request is answered unless the process is told to
  stop, and then the pool ends and begins no further send; one that is under way may
  still post its song.

## 2. The modules

| Module | Models | Role |
| --- | --- | --- |
| `TokenBudget` | what the limiter promises | abstract specification |
| `Tokens` | the limiter as `Submit` sees it: a token a request, no clock | abstract specification, part of `JobQueue` |
| `UserLimiter` | `limiter.go`, `evictLoop` | implements `TokenBudget`, answers by `Tokens` |
| `WorkQueue` | what the pipeline promises about order | abstract specification |
| `JobQueue` | `Submit`, `worker`, `Run` | implements `WorkQueue` |
| `SongDelivery` | what a user is promised | abstract specification |
| `JobRun` | `handleRequest`, `process`, `run`, `identify`, `fetch`, `deliver.go`, the table | implements `SongDelivery` |
| `Songbot` | requests of `JobRun` in the line of `WorkQueue`, a pool that stops | composition |
| `Pipeline` | requests of `JobRun` in the channel and the goroutines of `JobQueue` | composition, implements `Songbot` |
| `Lifecycle` | `run`, `shutdown`, the components' `Run` | |
| `Install` | `install.go` | part of `Startup` |
| `Migrate` | `Open` and `migrate` of `sqlite.go` | part of `Startup` |
| `Startup` | the start of `run`, life after life | composition |
| `Outbound` | `bot/limiter.go`, `progressReporter`, the calls of `deliver.go` in line | |
| `Identify` | `parse.go`, `identify`, `ranker.go`, `metadata.go` | |
| `*Proofs` | | theorems about the module they are named after; `JobQueueProofs` also those about `Pipeline` |
| `MC*` | | instances for TLC: who sends what, symmetries |

Definitions marked "Mutant" are plausible bugs. No specification uses them;
PROJECT.json pairs each with the property that must notice it.

### UserLimiter

`buckets` is the Go map, a function over the users it has entries for. A bucket
is its `rate.Limiter` (credit and the time it was last charged) and `lastUse`.
`allow` and `evictIdle` hold the mutex from end to end, so each is one step;
`Allow` and `Refuse` are the two outcomes of the former. Time is counted in
ticks, a tick earns one unit of credit and a request costs `Interval` of them, so
that Go's floating-point tokens become integers. Time does not pass a due tick of
the sweeper: the sweeper's own delay is neglected. `spent` and `verdict` are
history. The limiter's refill rule is that of `golang.org/x/time/rate` as
`limiter.go` uses it. Its promise is stated twice: `TokenBudget` keeps the clock and knows no eviction, `Tokens`
has no clock either and counts whole requests (`Whole`); `AnswersByToken` says which step of the limiter is which of `Tokens`.

### JobQueue

`Submit` is cut at each access to shared state (budget, channel, reading the
length, storing the gauge) and the worker loop likewise, so handlers and workers
interleave wherever the code lets them. Budgets are `Tokens`,
by which the limiter answers: any users below the burst may earn one at any time. `accepted` and `started` are history.
What a worker does with a job is one busy spell.

### JobRun

`stage[j]` is the call request j is about to make and each action makes it, with all
its outcomes. A call that takes the job's context succeeds only while the context
is live and fails with the context's error once it is not; a call of the Telegram
API takes no context (telebot's do not), so it is unaffected. Sending a song is two steps: `Resend` and `Deliver` enter `send`,
which only a live context does, and `Repost` and `Upload` are the end of its wait and the upload, which may post after the
context is done. `Sending` is the two stages in between. An edit with its wait is one step: no property compares the status with the stop. `Faults` says what
may go wrong around the program: Telegram refusing a call or losing the reply to
one that succeeded (`telegram`), an upload not stored as audio (`not_audio`), a
database error (`db`), a disk error (`disk`). yt-dlp can fail at any time. `Expire` is
the job's deadline, `Shutdown` the signal, `Die` the end of the process, by
whatever cause, and the start of another: the table and the scratch directories
survive, contexts and queue do not. `inbox` is history, and so are `unheard` and `leftovers`, which note the two faults that
excuse an outcome: the apology's own edit failed, or the removal of the scratch directory did.
Which video a request resolves to is arbitrary (`Identify` looks at that), and any queued job may
be begun when a worker is free (`Songbot` adds the line). Refusals of `Submit` are arbitrary here
for the same reason.

### Songbot

The requests of `JobRun` with the state of `WorkQueue` beside them: the step that
queues a request also puts it in the line, the step that begins one takes it from the
head, and the step that ends one frees its worker. It uses the line rather than the channel, which
`Pipeline` puts in its place. `gone` counts the workers that have left
their loop; one leaves only from its `select`, whatever still waits, and a job begun after
the signal finds its context cancelled. `DieAndRestart` empties the line and refills
the pool.

### Pipeline

Every step of `JobQueue` with what it is for the request, and every step of a request with what it
is for the goroutine that makes it: `Submitted` goes through `Submit` on the handler's goroutine, `Receive` takes from
the channel and begins the job, `Process` makes the job's next call and, with the last one, brings the worker back to
its `select`. The two share `stopping`. A worker derives the job's context as it receives the job; between the
two the code only publishes the queue's length, and a signal then cancels a context or finds one to be born
cancelled, which is the same. `Restart` is a death: what the process held in memory, budgets and history included,
begins anew. To `Songbot`, the line is the channel, the running jobs are those workers hold, the ended
ones those with an answer, and `gone` counts the stopped workers.

### Lifecycle

`main` is where `run` is, `comp[c]` the goroutine of each component and `worker[w]` a
worker of the pipeline. Every step of the start-up and every component may fail.
`errs` is the channel, with its capacity (the constant `components` of main.go) kept
apart from the number of components, as in the code. `CloseDB` is the deferred
close with the deferred cancels.

### Startup, with Install and Migrate

`Install` goes through `install.go` call by call. A binary is absent, works or is broken, on
the image's path and in the cache on the volume, and a probe of one that works can still
fail (slow, or cancelled). What go-ytdlp's installer does is taken from the comments and
the use of it in `install.go`. `Migrate` goes through `migrate` statement by statement; a
transaction is a copy of the database that its commit publishes. Both share the
context and the number of faults so far; `Startup` puts `Open` after `Install` and adds
signals, deaths at any step, Kubernetes' restarts, and deployments of other releases,
newer or older, onto the same volume.

### Outbound

A tick is the time one token takes. `rate.Limiter.Wait` reserves: `credit` goes negative
and `call[c]` is how many ticks away the caller's turn is; a reservation given up is handed
back only if none was made after it, which is what the library does. `<<w, 0>>` is worker
w's own call, `<<w, i>>` the progress callbacks of its download, which wait outside the
mutex. `since`, `last` are `lastAt` and `lastPcnt` of `progressReporter`. `Apologise` has a
deadline of its own; a refused one ends in `unheard`, which must not be reachable.
The job around the calls is reduced to what decides whether it calls, gives up or fails.

### Identify

A text is what `classify` can tell of it (blank, with a space, its scheme or one further on,
whose host, whether `url.Parse` takes it), a
title is the set of noise keywords in it, and a piece of metadata is one of the strings
it can be taken from. `Consider` is one round of the loop in `bestMatch`. Search
results and answers of yt-dlp are arbitrary.

## 3. Runs

Bounds are named constants; those of the code that are configuration (pool,
queue, burst, rate) are parameters.

| Run | Instance | What it shows |
| --- | --- | --- |
| `user_limiter` | 2 users, 9 ticks of 30 min, TTL 2 h, burst 2 at 1 per hour | at the boundary `Cap = IdleTTL` eviction is invisible, costs nobody and refunds nobody; the map is bounded; every answer is that of `Tokens` |
| `job_queue` | 3 requests of 2 users, 2 workers, queue of 2, burst 1 | a first-come first-served line that neither loses nor doubles; Submit always answers |
| `job_run` | 2 requests, 2 songs and a live stream, 2 workers, all faults, 1 death | right songs, honest outcomes, no leftovers; implements `SongDelivery` |
| `songbot` | 2 requests, a song and a live stream, 1 worker, line of 1, Telegram and database faults, 1 death | no worker lost, acknowledged requests answered, no send begun after the stop |
| `pipeline` | 2 requests of a user, 1 worker, queue of 1, burst 1, 1 death, no faults but yt-dlp's | channel, budgets and goroutines do to requests what `Songbot` says |
| `lifecycle` | 2 workers, everything may fail | channel and database safe, exit code honest, process ends |
| `startup` | every image and volume, 2 attempts, 3 faults, 2 migrations, 2 further releases | working binaries, migrations once and in order, starts succeed in the end |
| `outbound` | 2 workers, 2 callbacks each, burst 2, timeout and gap of 6 ticks, 3 % steps of 5 | the rate kept, apologies heard, few edits in order, every call gets out |
| `identify` | every text, up to 3 results, durations 0 to 4, 5 sets of keywords, every metadata | only web addresses on YouTube followed, the best candidate picked, songs presentable |
| `job_queue_in_flight` | 2 requests, 1 worker, queue of 1 | finding 1 |
| `job_run_failed` | 1 request, no faults | finding 2 |
| `identify_links` | every text, 1 result | finding 3 |

Why these bounds are enough. The limiter treats users independently, so two show
what there is of interference, and nine ticks are more than two fillings of a
bucket and two time-outs. Two workers and three requests fill a queue of two, make
workers compete for its head and leave one request to be turned away by a full
queue, while a burst of one turns the second request of the same user away. Two
jobs are what a race for the cache needs; a second death adds nothing to the
first, since the only state that survives is the table, the scratch set and the
outcomes. In `songbot` one worker and a line of one are what makes requests wait
for each other and be turned away; the faults left out there end a job by a path the
others take too. The same holds of `pipeline`, whose second request finds room, no room or no token depending on where
the first one is; a pool of two takes ten times as long and is left to the theorem. In `startup` three faults are a probe, a removal and a download going
wrong in one life, or a start cut short three times; two migrations are a first and a
next one, and two deployments a step forward and one back. In `outbound` the line of two workers is
at most six long (`MaxDebt`), and gap and timeout are set to that: the tightest at which
the properties hold (the code's are 100 and 250 ticks, against a line of 9 for the default pool and of 96 for
the largest). In `identify` three
results show an improvement, a tie and a skipped entry in one loop, the durations lie on both sides of each
limit, and one keyword contains another.
Symmetry is used for interchangeable users, workers, requests of one user and playable
videos, and never with a liveness property.

### Fairness

* `UserLimiter`, `JobQueue`, `JobRun`, `Pipeline`, `Identify`: none; their properties are about safety.
* `Songbot`: a handler inside `Submit` or at its last edit, a worker with a job and a worker
  with a job to take are scheduled. Every call a job makes is bounded: by the job's
  timeout, by `notifyTimeout`, or by the timeout of telebot's HTTP client. `Leave` is strongly
  fair: with a job and `ctx.Done()` both ready Go's `select` picks at random, so a worker that
  comes back to it again and again leaves in the end. Nothing is assumed about arrivals, the
  clock, the signal or deaths.
* `Lifecycle`: goroutines are scheduled; `StopWorker` is strongly fair for the same reason.
* `Startup`: the process runs (every call of a start has a bound) and Kubernetes restarts
  what exits. Signals, deaths, faults and deployments need not happen, and are bounded: nothing starts
  on a machine that never stops failing.
* `Outbound`: time passes and a timer whose turn has come fires. Nothing is assumed of the workers.

## 4. Findings

Each is a run whose one property states what the repository says, and which TLC
refutes; PROJECT.json quotes the lines.

1. `job_queue_in_flight`: `USER_BURST` does not cap the jobs a user has in flight.
2. `job_run_failed`: a job can be reported and counted as failed after its song
   arrived.
3. `identify_links`: a text that the parser would accept as a link to YouTube is searched for: `www.youtu.be/...` is on the
   list of hosts (parse.go:20) and not among the prefixes (parse.go:55-61).

Seen on the way and not given a run:

* "A bucket discarded while full is indistinguishable from a new one" (limiter.go:10-12) holds
  only while `USER_BURST <= 2 * USER_RATE_PER_HOUR`: the assumption of the two theorems about
  eviction. The configuration (config.go:38-39) accepts more; the default (3 and 20) is well inside.
* The queue gauge (metrics.go:37) is read and stored in two steps, so it can stay wrong while nothing moves.
* "Every delivered track's Telegram file ID is stored" (README.md:41): an upload Telegram does not store as audio has no
  ID (deliver.go:56-58), and `fetch` saves it all the same, over a usable one if another job stored one in between. The
  row counts as a miss, so the song is downloaded again.
* `purgeUnusable` (install.go:159, 174) deletes a working binary whose probe was slow or cancelled; the start
  installs it again or uses the image's.
* A cached yt-dlp that does not execute is not purged as ffmpeg is; `StartsInTheEnd` excludes such volumes.
* The handler's own calls are not paced, though bot.go:16-17 speaks of every outbound call.
* "Links to anywhere other than YouTube are rejected rather than searched for" (parse.go:23-25) holds of those with
  `http://` or `https://` in front and no space in them; without a scheme, with another one or with a space they are searched for.
* A component that fails once all are started stops nobody, and its error is not logged before the signal: the bot
  may go on without its pipeline or its probe server.
* service.go says a cached song "is re-sent without touching YouTube at all", but `run` consults
  the table only after `identify`, which asks yt-dlp (`Lookup` follows `Resolve` in the model).
* ranker.go:11-12 says the heuristics "only break near-ties"; two unwanted keywords outweigh four ranks.
* Requests still in the line when the pool ends are dropped, their placeholders saying "queued".
* `installYTDLP` sleeps once more after its last attempt; `Open` leaves the handle open if `Ping` fails.

## 5. Proofs

| Theorem | States |
| --- | --- |
| `UserLimiterProofs!TypeCorrect` | `Spec => []TypeOK` |
| `UserLimiterProofs!BucketsStaySane` | `Spec => []BucketsSane` |
| `UserLimiterProofs!SweeperBoundsMemory` | `Spec => []IdleBucketsGo` |
| `UserLimiterProofs!EvictionIsNoRefund` | `Cap <= IdleTTL` implies `Spec => NoFreeTokens` |
| `UserLimiterProofs!LimiterImplementsBudget` | `Cap <= IdleTTL` implies `Spec => ImplementsBudget` |
| `UserLimiterProofs!LimiterAnswersByToken` | `Cap <= IdleTTL` implies `Spec => AnswersByToken` |
| `UserLimiterProofs!RateIsKept` | `Cap <= IdleTTL` implies: from any moment on, a user spends at most `Cap` and what the time since earns |
| `UserLimiterProofs!SilenceEarns` | who has spent nothing for `Interval` ticks has the price of a request |
| `JobQueueProofs!TypeCorrect` | `Spec => []TypeOK` |
| `JobQueueProofs!QueueIsFifo` | `Spec => []NothingLost` |
| `JobQueueProofs!NeverTwice` | `Spec => []AcceptedOnce` |
| `JobQueueProofs!WorkersApart` | `Spec => []NoSharedJob` |
| `JobQueueProofs!QueueImplementsLine` | `Spec => ImplementsWorkQueue` |
| `JobQueueProofs!PipelineImplementsSongbot` | `PSpec => ImplementsSongbot` of `Pipeline` |
| `JobQueueProofs!BotKeepsPromise` | `PSpec => ImplementsSongDelivery` of its requests |
| `JobQueueProofs!BotStops` | `PSpec => StopMeansStop` |
| `JobQueueProofs!BotLosesNoWorker` | `PSpec => []LineMatches` |
| `JobQueueProofs!BotIsHonest` | `PSpec =>` the five invariants of `JobRun` below `TypeCorrect` and `AbandonedOnlyWhenStopping` |
| `JobQueueProofs!BotGoesForward` | `PSpec => OnlyForward` |
| `JobRunProofs!TypeCorrect` | `Spec => []TypeOK` |
| `JobRunProofs!EverybodyGetsTheirSong` | `Spec => []RightSong` |
| `JobRunProofs!DeliveryIsComplete` | `Spec => []DeliveredIsDone` |
| `JobRunProofs!FailureIsTold` | `Spec => []NobodyLeftWaiting` |
| `JobRunProofs!ScratchGoes` | `Spec => []ScratchIsRemoved` |
| `JobRunProofs!NothingUnplayableMoves` | `Spec => []RefusedUntransferred` |
| `JobRunProofs!SilenceIsForShutdowns` | `Spec => AbandonedOnlyWhenStopping` |
| `JobRunProofs!NobodyGoesBack` | `Spec => OnlyForward` |
| `JobRunProofs!CodeKeepsPromise` | `Spec => ImplementsSongDelivery` |
| `SongbotProofs!RequestsAsAlone` | `SSpec => Spec` of `JobRun` |
| `SongbotProofs!PromiseSurvivesQueue` | `SSpec => ImplementsSongDelivery` |
| `SongbotProofs!StopIsFinal` | `SSpec => StopMeansStop` |
| `SongbotProofs!NoWorkerLost` | `SSpec => []LineMatches` |
| `LifecycleProofs!TypeCorrect` | `Components >= 3` implies `Spec => []TypeOK` |
| `LifecycleProofs!ChannelIsSafe` | `Components >= 3` implies `Spec => []ErrsIsSafe` |
| `LifecycleProofs!WorkersHaveDatabase` | `Spec => []DbOutlivesWorkers` |
| `LifecycleProofs!ExitIsHonest` | `Spec => []ExitTellsTheTruth` |
| `StartupProofs!MigrationsApplyOnce` | `Spec => []MigratedOnce` |
| `StartupProofs!OpenGivesMigrated` | `Spec => []OpenIsMigrated` |
| `StartupProofs!CompanionsRunAlways` | `Spec => []CompanionsRun` |
| `StartupProofs!RetriesSuffice` | `Spec => []RetriesRideOut` |
| `OutboundProofs!CallsArePaced` | `Spec => []Paced` |
| `OutboundProofs!NobodyFallsBack` | `Spec => TurnsComeNearer` |
| `OutboundProofs!LineKeepsOrder` | `Spec => NobodyCutsIn` |
| `OutboundProofs!ReportsAreFew` | `Spec => []FewReports` |
| `OutboundProofs!LineIsBounded` | `LineIsShort` implies `Spec => []TypeOK` |
| `OutboundProofs!ApologiesAreHeard` | `LineIsShort` implies `Spec => []ApologyHeard` |
| `OutboundProofs!ReportsStayInOrder` | `LineIsShort` implies `Spec => []ReportsInOrder` |
| `IdentifyProofs!LoopPicksTheBest` | `Spec => []PicksTheBest` |
| `IdentifyProofs!AskingNeverHurts` | `Spec => []AskingHelps` |
| `IdentifyProofs!SongsArePresentable` | `Spec => []Presentable` |

The assumptions are the `ASSUME`s of the modules (positive burst, interval, queue size and attempts; a
finite pool, in `Pipeline` not empty; finite sets of keywords; the markers `NoVideo`, `NoFile` and `NoRow` apart from what they are
not) and the conditions in the table: `Cap <= IdleTTL`, which `USER_BURST` may
break (section 4); for the channel that main.go's constant `components` is no smaller than the number of components;
and `LineIsShort`, that the gap between two edits of a download and the deadline of an apology are no shorter than
`MaxDebt`, three turns for each worker. In the code they are 4 s and 10 s (service.go:25-27), 100 and 250 ticks
at 25 calls a second, and the configuration allows at most 32 workers, 96 turns: it always holds.

**UserLimiter.** The inductive invariant is `TypeOK`, `BucketsSane` and a third part that
says when the next sweep is due and that no bucket was idle beyond the TTL at the last one:
`IdleBucketsGo` alone is not inductive, since it does not say how far the next
sweep is. A refusal changes only `lastUse` and so no balance; eviction is harmless because a bucket
untouched for `IdleTTL >= Cap` ticks has refilled to the cap, which is what the
user of a missing bucket has; this is where `last <= lastUse` is used. The
refinement maps a user's credit to the balance, and each action to the
budget's action of the same name or a stutter. `RateIsKept` and `SilenceEarns` speak of any two moments of a
behaviour: their constants name the clock and what the user had spent at the first, and what has been spent
since and could be spent now is shown to stay below `Cap` and the time that passed, and above the smaller of the
two. The second bound needs nothing of the TTL, since eviction can only raise a balance.
`AnswersByToken` is about whole tokens, credit divided by `Interval`: taking `Interval` takes one (`RequestIsAToken`), a
tick adds one or none (`TickEarns`), and a full bucket is worth the burst (`Worth`), so that dropping it moves nothing. So the
budgets of `JobQueue`, and of `Pipeline` with it, are what `limiter.go` gives for every setting with
`Cap <= IdleTTL`, sweeper and clock included.

**JobQueue.** `NoSharedJob` needs to know that a queued job is held by nobody and held
jobs are apart; both follow from `NothingLost` and `AcceptedOnce` once held jobs are
known to have been started (`HeldWasStarted`). `AcceptedOnce` in turn needs that a
handler that has not sent was never accepted (`NotYetAccepted`). The refinement maps the line to
the channel, the running jobs to what workers hold, and the finished ones to
the started jobs nobody holds; a worker that is free leaves room among the
running ones because the jobs held inject into the other workers. It says more than the three
invariants, so it is what the run checks.

**Pipeline.** Its invariant is that of `JobQueue` and `Matched`: the channel holds exactly the requests whose stage is
`queued`, the workers exactly those in hand. Every step but a death is a step of `JobQueue`, so the first part is
kept by the lemmas above; a death brings back an initial state. A worker at its `select` leaves room in `Songbot`'s
pool because those that hold a job and those that have left are other workers (`RoomInPool`), and the job it receives leaves the
line because no job waits twice (`HeadLeaves`). `Bot` is the instance of `SongbotProofs`
under this mapping, so the theorems about the requests, the stop and the pool become theorems about the code's own
queue: the five `Bot...` of the table.

**JobRun.** None of its invariants is inductive: `RightSong` depends on which file ID a
request holds between the lookup and the re-sending, `DeliveredIsDone` on the row that `Save` left or
`Lookup` found several steps earlier. `IInv` therefore says for each stage what a request has in its
hands: no song before it is resolved and a playable one after, an empty inbox before anything is
sent, a scratch directory exactly while fetching, a file ID only of a request that uploaded the same
song, an error only at the end. A request's part of it mentions other requests only through `Held`
(this file was uploaded for that song) and the table only through the presence of a row; neither is ever
undone (`Monotone`), because a request resolves once, before it posts anything, and rows are replaced but
never deleted. So a step is examined for its own request (`StepKeeps`) and disturbs no other
(`OthersKeep`), however many there are. The refinement maps resolving, sending, saving and ending to
the steps of the promise, a signal to `Stop`, a death to `Restart`, and hides the rest.
`OnlyForward` orders the calls by `Rank`: every call of a request, with each of its outcomes, goes up, and no other step
goes down. It is the half of `JobsSettle` that can be proved: a job makes each of its calls (progress edits apart) at most once, so if
its worker is scheduled it ends.

**Songbot.** Every step of the composition is a step of `JobRun` or a stutter, so the theorems above hold of
the whole bot. `StopMeansStop` rests on `AllCancelled`: while the process is stopping no job's context is
live, those begun after the signal included, and only a live one enters a send (`SendsNeedContext`). A job that is in
a send when the signal comes may still post: the upload takes no context, and the deployment's grace period
(k8s/bot/deployment.yaml:23-24) is there to let it finish. `LineMatches` becomes
inductive once the line is known to hold each job once (`Distinct`) and the running jobs to be finitely
many; a step moves no request but its own (`OthersStay`, from the lemmas about `JobRun`).

**Lifecycle.** The channel is safe because it holds one word of every component that is done (`Ledger`), a
component reports once, and it is closed only when all that were started have reported (`ClosedLast`). The
database outlives the workers because they run only while the pipeline does (`PipelineInside`), and the
pipeline only from after `Open` until `run` has waited for it (`StartedOnce`). The exit code is decided in one
step and nothing is said after it (`Folded`).

**Startup.** Three invariants that do not need each other. For the database: the loop has what comes
before the migration it is at (`LoopReached`), and the open transaction is exactly one migration ahead of the
database at the steps between (`OneAhead`), so a commit lengthens the prefix by one and everything
else leaves it alone, whichever release runs. For the binaries: what each step of `Install` has settled
about each companion (`CompanionsSoFar`). For the retries: every attempt before the current one lost a
download, unless the volume holds a yt-dlp that does not execute (`AttemptsCounted`).

**Outbound.** `Paced` is not inductive: it says nothing of the calls in line. `LineInv` adds that no two calls
have the same turn ahead (`TurnsApart`), that none has a later one than the credit is negative
(`TurnsCovered`), and that what has gone out, what may go out now and what is left of the burst fit the
burst (`Fits`). A tick then brings at most one call to its turn, and takes one from the
level; a reservation handed back is the last one, so the next caller cannot meet an older turn. That is `NobodyCutsIn`: by
`TurnsCovered` whoever comes next has a later turn than all in line. With `TurnsComeNearer`, that no turn
moves back and every tick brings it nearer, and `LineIsBounded` a call goes out or is given up within `MaxDebt` ticks:
the half of `CallsGoOut` that can be proved.
`WhoWaits` is needed to know that an apology finds no call of its worker still waiting.
The length of the line is harder: a reservation given up out of turn stays in the credit, and the state
does not say whose it was. `Seated(f)` places every turn still ahead in one of three seats of a worker, for
what was reserved before its present job, in the job and for its apology; `DebtInv` asks for some such `f`, which each action carries on, so there are at
most three turns a worker, `MaxDebt`. A worker never waits for a turn but its last (`WaitsLast`), so a call that goes
out finds all its worker's seats empty; what is given up stays in its seat, and `Seating` says which seats a worker in
each phase may have taken. That the job's seat is free for the next report is what `LineIsShort` gives: when the
throttle lets it through, every turn that stood before the last one is over (`ReportsApart`). The apology needs it
too: its deadline outlasts the line.
`ReportsInOrder` follows because two reports of a download never wait together.
`FewReports` holds because every report costs `Step` percent of at most `Top` (`ReportsPaid`).

**Identify.** The loop invariant of `bestMatch` says that after i - 1 rounds the pick is the best of the
first i - 1 candidates, or that none of them can be played; scores are integers, so there is one
best (`BestIsUnique`). `AskingHelps` follows from more: a longer query raises every score by the
penalties it lifts (`ScoreGains`), and lifts none more often than for the candidate that has all it
adds, so what was picked is picked again. `LinksToYouTube` is left to the run, which goes through every text there is.

**Only model-checked**: liveness (`CancelEnds`, `StartsInTheEnd`, `JobsSettle`, `AcceptedIsAnswered`, `PoolEnds`,
`CallsGoOut`) and `SubmitNeverBlocks`, an `ENABLED` property, which are out of the prover's reach. Of `JobsSettle` and
`CallsGoOut` the safety halves, `OnlyForward` and `TurnsComeNearer`, are proved; what the run adds is that the next step
is always possible and, by fairness, taken. The definitions `OnlyForward`, `TurnsComeNearer` and `NobodyCutsIn` stand in
the proof modules. The types of `UserLimiter` and `Lifecycle` are proved and not checked by a run.

## 6. Not modelled

* `cover.go` and the thumbnail: an external call whose failure means no thumbnail.
* `findOutput`: its outcome is one of `Download`'s (a file or none).
* Configuration: read once; the bounds it checks are assumptions on the constants.
* Logging, counters and wording: they read or write nothing the properties are about. The counters are one
  atomic add at the step that decides a job's outcome.
* The HTTP handlers of the probe server; that it runs and stops is in `Lifecycle`.
* `internal/domain`: records and sentinel errors.
* Whether go-ytdlp would replace a cached yt-dlp that does not execute, and whether Telegram ever withdraws a
  file ID: decided outside the repository. PROJECT.json lists the hazards this leaves.

## 7. Plan

Done: the modules of section 2, the runs of section 3, the theorems of section 5. The sweeper and the clock of
`UserLimiter` need not be put into `Pipeline`: `LimiterAnswersByToken` shows that what they do to a
request is what `Tokens`, and so the budgets there, do.
