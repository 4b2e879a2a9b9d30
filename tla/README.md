# maxpreps-broadcast in TLA+

A verification development for the Python package in `src/src/maxpreps_broadcast`:
TLA+ modules translated from its code, configurations that check them with TLC on
small instances, and proofs, checked by TLAPS, that hold for every value of the
constants. Paths below are relative to that package unless they start with `src/`.

1. [The system](#1-the-system): inventory of the components
2. [The modules](#2-the-modules): how each corresponds to the code
3. [The runs](#3-the-runs): what each shows, its bounds, its fairness
4. [The proofs](#4-the-proofs)
5. [Where code and documents part](#5-where-code-and-documents-part)
6. [What is not modelled](#6-what-is-not-modelled)
7. [The plan](#7-the-plan)

To check something: `tlc -config swr_shared.cfg MCSwrCache`, `tlapm SwrCacheProofs.tla`.

## 1. The system

A client of maxpreps.com for live broadcasts. It fetches pages politely, caches
them in three tiers, parses them into schedules, rosters and score states, writes
files for After Effects, and serves them, with a stream of score changes, from a
local service. Everything runs on one asyncio event loop per process; several
processes (the service, command lines) share one SQLite cache file and one
configuration file.

    get_scoretracker, get_team_schedule, ...       Watcher ──writes──> live.json, live.mgjson, ...
            │ (client.py)                             │ polls          (service/app.py, export/)
            ▼                                         ▼
    CachedFetcher.get  (cache/swr.py)              LiveBroker.publish ──> GET /stream (service/sse.py)
            │ miss or background refresh
            ▼
    _fetch_tiered: buildId, data route, hydration, HTML   (client.py)
            ▼
    Transport.get: robots, breaker, token bucket, semaphore, retries   (http/)

| component | state | operations | what is hard | what makes it correct |
|---|---|---|---|---|
| HTTP transport (`http/transport.py`, `retry.py`, `breaker.py`) | one breaker per host (state, failures, opening time, probe), semaphore, attempt of each call | `get`, `before_request`, `record_success`, `record_failure`, the `state` read by `/healthz` | overlapping calls admitted before a trip and answered after it; queueing between admission and sending; exits of an attempt that nobody reports | a tripped host gets one request per cooldown; the trip is at the threshold; no permit leaks; every call ends; the breaker opens again for callers |
| Cache (`cache/swr.py`, `disk.py`, `memory.py`, `snapshots.py`) | memory entries, rows and `lkg:` rows in SQLite, `_inflight` | `get`, `_fetch_and_store`, `_spawn_revalidate`, `touch` | misses that overlap, 304s that confirm a row since replaced, other processes between two commits, crashes, ttls of two callers | one refresh at a time; fresh is current; tiers agree; snapshot and row belong together; never nothing when something is stored; the last version arrives |
| SSE broker (`service/sse.py`) | condition, `_sequence`, `_latest`, `last_seen` of each generator | `publish`, `subscribe` | notify against sleep and heartbeat timeout, the lock across a `yield`, connections that end anywhere, a cancelled publish | no lost wakeup, only newer messages, news arrives, publishing ends |
| Watch mode (`service/app.py`, `models/score.py`) | `previous`, `ticks`, `last_slow`, the files, the stream | `start`, `tick`, `stop` | every await of a tick may fail, after some of its effects; the game changes under the diff | the stream follows live.json, events are real and told once, the loop goes on |
| Contests and the live board (`client.py`, `models/contest.py`) | none between calls | `get_team_schedule`, `get_scoretracker`, `get_live_and_upcoming_games` | pages of different ages merged, some missing, while the games go on | the right contest is tracked; the board is as old as it says, complete when fresh, hides nothing live |
| Schedule parsing (`parsers/json_api.py`) | none | `parse_schedule`, `synthesize_byes`, `build_score_state` | the order of sort, weeks, records and byes; rounding of weeks | records add up, byes fill exactly the free weeks |
| Tiered fetch (`client.py`, `parsers/hydration.py`) | the cached buildId | `_fetch_tiered`, `_get_build_id` | a deployment between two requests, two fetches that heal at once | a deployment costs one forced buildId and no tier; a buildId is as young as its age says |
| Politeness (`http/robots.py`, `ratelimit.py`) | robots per host, tokens | `RobotsGate.check`, `TokenBucket.acquire` | concurrent first fetches, answers cached for hours | the gate lets nothing pass that was long disallowed; rate and burst are kept |
| Settings (`config.py`, `sports.py`, `models/team.py`) | the configuration files and each process's copy | `load_settings`, `save_settings`, `set_active_sports`, `resolve_many`, `TeamRef.path`, `from_url` | two processes that load, change and save; a save that fails or is cut off; a file that is not the one asked for | the selection is valid and within its cap; what was acknowledged is in the file; a restart keeps it; every team has a page and cache entries of its own |
| Export (`export/`, `cli.py`) | the files of a directory, `sports.json`, temporary files | `atomic_write_bytes`, `_export_one`, `_write_sports_index`, `render`, the keyframes of `mgjson.py` | runs that overlap, fail or are killed between two files; a history that outgrows its cap | readers see whole files; the index names what is there; the files of a sport belong together; live.mgjson follows live.json |
| Sync facade (`sync.py`) | the loop and its thread, the client, the callers that wait | `__init__`, `_run`, `close` | close against running calls and against refreshes spawned while it drains; two timeouts | what aclose knew of is stored; close comes back; a call ends unless the loop is stopped under it |
| Service routes, command line (`service/`, `cli.py`) | none of their own | one client operation each; those that change state are in the rows above | | |

The hazards behind these columns are listed, at their lines, in `PROJECT.json`.

## 2. The modules

| module | models | abstracted |
|---|---|---|
| `HostGate` | abstract specification of a breaker: a tripped host earns one admission per cooldown | |
| `Transport` | `Transport.get` to one host, with `RetryPolicy.run` and `CircuitBreaker` | durations of backoff and tokens; the token wait is part of waiting to send |
| `SwrCache` | `CachedFetcher` for one key in several processes over one file | payloads are versions of the page at the origin |
| `PageFetch` | `_fetch_tiered` and `_get_build_id` of several fetches, each request behind `RobotsGate`, over a site that deploys | a request is sent or answered in one of five ways; URLs are the three kinds of request |
| `LiveBroker` | `LiveBroker` with its condition, its generators and its publisher | messages are their sequence numbers |
| `Watcher` | `Watcher` and `diff_score_states`, over an instance of `LiveBroker` | a game state is a contest and a score; the slow files have no content |
| `Mgjson` | `MgjsonBuilder.build` and `validate_mgjson` | numbers are whole, texts are their length, times are left out |
| `Keyframes` | `Watcher.tick` with `history` and live.mgjson, over `Watcher` and `Mgjson` | a score stands for the values its streams plot |
| `Season` | `parse_schedule`'s derived pass, `synthesize_byes`, `Schedule`'s selectors, `get_team_schedule` and `get_scoretracker` behind their fetch | days; marks for results |
| `Scoreboard` | `get_live_and_upcoming_games` with `_resolve_scope`, `_window_state`, `build_score_state`, over cached pages of several teams | hours, beside which a request takes no time |
| `Places` | comprehensions with a condition: the items of a list at some of its places | |
| `Sports` | the catalogue and its lookups, `resolve_many`, presets, `key_for_url` | names that normalize alike are one name |
| `TeamRef` | `TeamRef.path`, `query`, `for_sport`, `from_url`, `School.team_ref` | state, city and school are one segment |
| `Selection` | `load_settings`, `save_settings`, `PUT /sports/active`, `init`, `override`, `sports ...`, over `Sports` and `TeamRef` | the sections nobody here changes |
| `Export` | `export` and `render` of several processes over one directory, `atomic_write_bytes` | the content of a file is the number of the run it is from |
| `Facade` | `SyncClient`: constructor, calls, `close`, with `aclose` and the refreshes it drains | a call is what `CachedFetcher.get` answers it |

`MC<module>` gives TLC its constants; the modules named `...Proofs` hold the theorems
of one component (`TransportProofs`, `SwrCacheProofs`, `ExportProofs`) or of several that
belong together: `ClientProofs` of `PageFetch` and `Facade`, `WatcherProofs` of
`LiveBroker`, `Watcher` and `Keyframes`, `ContestProofs` of `Season` and `Scoreboard`,
`SelectionProofs` of `Sports`, `TeamRef` and `Selection`. `PlaceProofs` has the lemmas
about sets of numbers and places of a sequence that three of them cite.
`PROJECT.json` maps every definition to its lines. A comment "Mutant" marks a
definition that is not part of the model: it is the faulty variant, a plausible
slip of the code, under which the property named in `PROJECT.json` must fail.

**Steps.** A step is the code between two awaits, since nothing else of its
process can run there. It is cut further only where another process may look:
between the two SQLite commits of a store (`SwrCache`, variable `loop`, which
keeps the event loop for the task in between).

**Transport.** `pc` of a call: `attempt` (about to pass `before_request`),
`queued` (admitted, waiting for a token and a permit), `sent`, `backoff`. One
action per exit of an attempt: `Succeed`, `FailRetryably`, `FailTerminally` (a
status of 400 and above that is not retried: the breaker is told nothing), `Escape`
(an httpx error that `RetryPolicy.run` does not list: told, not translated),
`FailFast` (refused). `ReadState` is the half-opening that reading `state` causes.
Cooldowns are counted by `Tick`.

**SwrCache.** `MemoryHit`, `DiskHit`, `StaleHit`, `Offline` and `Miss` are the
branches of `get`; `ReadPrior`, `OriginAnswers`, `OriginConfirms`, `StoreRow`,
`SaveSnapshot` and `Touch` the stretches of `_fetch_and_store`; `FetchFails` and
`RevalidationFails` its errors, of the package or not, as seen by a caller and by
a background task. The environment: `Publish` (the page changes), `Tick`,
`Restart`, `Evict`. An entry carries the ttl it was stored under, which is what
`is_fresh` compares.

**PageFetch.** A fetch is a record: what it awaits, the request it is at, the buildId
it uses. `Ask` is `Transport.get` up to its first await: the gate lets a request pass,
or has to read robots.txt first, or refuses it, which is a `TerminalError` that
`_fetch_tiered` handles without an await; `Gated` therefore goes straight to the next
request that is allowed. A robots.txt is served (`ServeRobots`) and arrives later
(`StoreRobots`), or not at all (`Unreachable`); it is dated when it arrives, so of two
readings that overlap the older may be kept, as new, and `RobotsDelay` bounds how much
older it is. A homepage is served (`ServeHome`) and arrives later (`StoreBuildId`), and
two may overtake each other as well, but it is dated by the now that `_get_build_id`
read before its await (`waited`). `RefuseRoute` forces a buildId once, `LeaveTier1` is every other error of the package, `Escape` every error
that is not. `replaced`, `forbidden` and the fields `spoiled` and `late` are history.

**LiveBroker.** `pc` of a connection is where its generator is suspended; the lock
is a variable of its own because a heartbeat is yielded while it is held.
`CallPublish`, `Publish` and `AbandonPublish` are the Watcher's side.

**Watcher.** `place` is the await the task is in. What a step does before its await
(write live.json, then live.mgjson, then publish) happens in the order of the code,
each write may fail, and `GoOn` is everything after the publish up to the end of
the tick. The module's `Exports` writes live.mgjson, if it is asked for, without
saying what is in it; `Keyframes` does. `slipped` is a history variable that names the two ways in which the
stream is known to part from the file (section 5).

**Keyframes.** The steps of `Watcher`, each with what it does to `history` and
`mgjson`: `PolledInVain` and `MgjsonLost` keep a point and then fail to write one
file or the other, `ExportsBoth` writes the two, and `Elsewhere` is every other
step. `Document` is `mgjson_for_live` followed by the builder; the document must
pass `Problems`, which is `validate_mgjson`, or `write_mgjson` would raise.

**Season.** `Schedule(rows)` composes parse, sort, weeks and records in that order;
`WithByes` adds the byes and sorts again; `Choose` is the expression of
`get_scoretracker`. The state is one call and its answer over an arbitrary page.

**Scoreboard.** `Ask` resolves the scope, reads now and starts all calls, which a
cached page answers at once; `Fetched`, `LastKnownGood` and `Raises` end the
others; `Answer` is the merge, without an await. The actions `Kickoff`, `Point`,
`Report` and `CallOff` are the site's, and `changed` remembers when it last moved.

**Selection.** A process is where it is (`off`, `ready`, `saving`), its settings
and the file it was told to use. `Start` is `load_settings` with the process's
environment; `Command` is any command that changes its copy and, unless it is refused,
opens the file (`Open`), which truncates it; `Write` flushes the whole text, `WriteFails`
a part of it; `Stop` may come at any time. `PutActive` is the route of the service,
which changes its settings before it saves. `SaveFile` is where a save goes: for the
service the standard file, whatever it was started with. `acked`, `stale` and
`slipped` are history: what was last acknowledged per file, who holds an old copy,
and where an update was lost, cut or misdirected, as the code lets it happen. `Page` and
`CacheKey` compose the selection with `TeamRef` as `get_team_schedule` does; the year
that `init` saved is the team's own, which one asked for replaces in the query.
`Entries` has, for each process, the schedules it can ask for and the team, level and
year each is of. Of the environment only the school is modelled.

**Export.** A run is a list of sports still to do and, within a sport, of files still
to write; `FetchSport` has the three fetches, which fail before the first file, or
not. A write is `MakeTemp` (create, write, sync), then `Replace` or `WriteFails`. `Kill`
may come at any time and leaves the temporary file behind. `ended` is history:
which runs were over when another began.

**Facade.** `call` is where a caller's thread is, `closer` where the thread in `close`
is. `Check` and `Schedule` are the two halves of `_run`; `AnswerAtOnce`, `AnswerStale`
and `Miss` are what the coroutine meets in the cache, `RefreshEnds` a background
refresh that finds the database open or closed. `AcloseStarts` takes the list of
refreshes, `Drained` and `AcloseEnds` follow; `StopLoop` is both the end of aclose and
the ten seconds; `LoopStops` leaves whatever is queued or awaited where it is.

## 3. The runs

| run | question | bounds |
|---|---|---|
| `transport` | Does the breaker implement `HostGate`, does every get end, and is a lost probe the only way to refuse for ever? | 3 calls, 2 permits, threshold 2, cooldown 2, 1 retry, failures counted to 3, every answer |
| `swr_cold` | Over an empty cache, with overlapping misses and an offline command line that may die, are row and snapshot the same version, and does an error mean that nothing is stored? | 2 callers and an offline one, 2 refreshes, ttls 1 and 2, ages to 3, 2 versions, errors of the package only |
| `swr_warm` | In one process restarted at will over a warm cache: one refresh at a time, tiers agree, versions never go back, and does the last version arrive? | 2 callers, 2 refreshes, ttl 1, ages to 2, 3 versions |
| `swr_shared` | With a second process that may die anywhere: is fresh current, has a snapshot a row? | 2 processes with a caller and a refresh each, 3 versions |
| `page_fetch` | Is a buildId never older than its age, does a deployment cost one forced buildId, does the gate let nothing pass that was long forbidden, does every fetch end? | 2 fetches (one with tables, one conditional), 3 builds, a buildId lives one tick and rules the tick they arrive in, a robots.txt is under way for at most one, and allows all, or no data routes |
| `broker` | Does every publish end, and does news arrive? | 2 connections, 4 messages |
| `watcher` | Does the stream follow live.json and live.mgjson its history, are events real, does nobody sleep on news or get a message twice, does every tick end, do clients see live.json? | 2 games, 2 scores, 3 ticks, 1 client, a history of 2 points |
| `season` | Do records add up, are weeks and byes in order and where they belong, is the right contest tracked? | every page of up to 3 rows over 5 days and 6 marks |
| `scoreboard` | Is the board as old as it says, complete when fresh, does it hide a live game or list one twice? | 2 teams, 2 games (one neutral), 2 changes, 3 hours |
| `selection` | Is every selection in memory valid, is what was acknowledged in the file, does a restart keep it, do two schedules share a cache entry exactly when they are of one school, sport, level and year? | the program's own catalogue under a cap of 2 sports; a command line with an environment override and a service; 2 files, one unreadable, cut, or edited by hand; 5 requests; no year, a year and an ill-shaped one for `init`; 2 saves or edits |
| `export` | Are files whole, does the index name what is there, do the files of a sport belong together? | 2 sports, 2 runs, json alone, or mgjson and csv |
| `facade` | Is only a late refresh lost, does close come back, does a call end? | 3 threads, 2 keys |

**Why the bounds are enough.** Three calls are a late answer, a probe and one more
that would be a second probe; two permits make one of them queue. Two tasks of a
process and one of another are the smallest set in which a fetch overlaps another
fetch and a foreign commit falls between two of its own; three versions separate
"older than the call" from "older than the row". Ages are counted to one beyond the
largest ttl, above which nothing distinguishes them. Two connections are one that
holds the lock and one that waits; four messages let a laggard skip twice. Three
ticks are the first, a change, and one after a slip. Days 0, 3, 4, 10 and 18 lie on
both sides of the rounding of a week (3 and 4), leave whole weeks empty, and three
rows are enough for two results and a game between. Two changes of the games make a
page that is behind by a kickoff or a point. Two saves are the smallest number in which one
undoes the other, and a file can be cut by the first and saved by the second; the
requests hit each branch of the lookup (a key, a display name, one sport twice, an
unknown one, too many, both genders of one sport). Two runs of an export make every
overlap of two writers and an earlier run under a failing one, and the theorems take
any number. Three threads are a call under way, one that spawns a refresh while
`aclose` waits, and one that comes too late. A history of two points overflows on the
third tick. Where more than the bound matters the
theorems of section 4 take over.

**Fairness.** `Transport`: a call that can run is run and a sent one is answered,
because httpx bounds every request by `timeout_seconds`; `asyncio.Semaphore` wakes
its waiters in order, so one that keeps seeing permits gets one (strong fairness);
time passes. Nobody has to call. `SwrCache`: the loop runs its ready tasks in turn,
callers poll (the Watcher does), and for `LastVersionArrives` only, the network
works again and again. `LiveBroker`: `asyncio.Lock` is first come, first served;
`ClientsRead` assumes that clients read what they are sent, without which the
heartbeat of 5.3 stops the publisher. `Watcher`: the poll, the two fetches and the
sleep end, each with a result or an error; plus the broker's fairness. `PageFetch`:
every request ends, which is `EveryGetEnds` of `Transport`, and robots.txt arrives or
is given up, as its timeout of eight seconds sees to. `Facade`: threads and the loop go on, a fetch ends
(the same again), and the waits of `close` have timeouts; refreshes need not end.
`Selection` and `Export` claim safety only.

Deadlock is checked in every run but `selection`, `export` and `facade`, where the
program may be done: every process off, every run over, the loop closed. A type
invariant is an INVARIANT of no run: where a module has theorems it is proved there, as
`TypeCorrect` or under a name of its own.

`MaxTicks`, `MaxPublished`, `MaxVersion`, `MaxNews`, `MaxTime`, `MaxScore`,
`MaxFailures`, `MaxAge`, `LastBuild`, `MaxSaves` and `MaxRuns` bound what the program
counts without end; they are guards of the environment or caps of a count, named in the
CONSTANTS of each module.

## 4. The proofs

| theorem | says | argument |
|---|---|---|
| `TransportProofs!TypeCorrect`, `TripsAtThreshold`, `NoPermitLeaks` | types; closed exactly below the threshold; permits and requests on the wire add up | `IInv` adds that a call in backoff has a retry left (`BackoffHasRetries`) and that half-open implies a passed cooldown (`HalfOpenIsCooled`). It splits into calls, breaker and permits, which steps disturb one at a time; each breaker operation has a lemma |
| `TransportProofs!ImplementsGate` | `Spec => HostGate!Spec` under `GateMode`, `GateBudget` | `HalfOpenIsCooled` makes a half-opening, lazy or by a health read, invisible; admission, success and failure map to gate steps by one lemma each |
| `SwrCacheProofs!TypeCorrect`, `AtMostOneRevalidation`, `FreshRepliesAreCurrent`, `SnapshotsHaveRows` | for any processes, tasks, crashes and 304s | `IInv` adds `FetchKnows`: what a fetch was answered, or was told is unchanged, is no older than its call, and a task about to save a snapshot has stored its row |
| `SwrCacheProofs!WarmCacheNeverGoesBack`, `WarmTiersAgree` | one process over a warm cache | assumptions `Alone` and `WarmStart`; `WInv`: the row is there, callers never fetch, and the one refresh under way has read the very row that is still there |
| `SwrCacheProofs!SnapshotsMirrorRows`, `SomethingIsServed` | one process that fetches and does not die, beside any that only read offline; for the second, errors of the package only | assumption `OneWriter`; `MInv`: a task between its two commits has the event loop and the row is its answer, and otherwise row and snapshot are one version, so whoever finds no snapshot finds that nothing was stored |
| `ClientProofs!TypesAreKept`, `BuildIdsAgeHonestly`, `DeploymentsAreSurvived` | for any fetches, builds and times | `IInv` says of each fetch what it may rely on where it is (`OnItsWay`): a homepage under way was replaced no longer ago than its fetch has waited, a forced buildId is the site's unless something spoiled the fetch, and whoever asks for the page was spoiled. `GatedIsAsked` describes the gate once for all steps |
| `ClientProofs!DisallowedPathsFailClosed` | the gate lets nothing pass that was forbidden for longer than `RobotsTTL + RobotsDelay` | `OnItsWay` and `RulesAreHonest`: what a reading under way allows was not forbidden for longer than it is late, hence what the kept rules allow not for longer than they are old and `RobotsDelay` |
| `WatcherProofs!TypeCorrect`, `OnlySlipsPart`, `OnlyRealEvents` | for any contests, scores, connections | `IInv` adds what `previous` is while a tick is under way: without a slip the stream shows `previous` (or, while the slow files are refreshed, the file), and a publish under way differs from `previous` |
| `WatcherProofs!BrokerTypeCorrect`, `WakeupsAreNotLost`, `LaggardsSkipToNewest` | of `LiveBroker!Spec`, for every set of connections | `BInv` adds that nobody has seen more than was published, that a generator that opens has seen nothing, and that a publish under way has a number left |
| `WatcherProofs!KeyframesImplementWatcher`, `HistoryFollowsLive` | `KeySpec => Spec` of `Watcher`; the history is within its cap and ends with what is told | each step of `Keyframes` is one of `Watcher` with more conjuncts, so that all theorems of watch mode hold of it; `Kept` drops from the front and never the point just added |
| `WatcherProofs!BuiltIsValid` | what `MgjsonBuilder` builds of any fields and any streams with different names, `validate_mgjson` accepts | the outline is the fields, each padded as far as it is long, and behind them the streams that have samples (`Lists`); as names occur once, the last entry of a name is the only one and has the count (`CountsAreRight`) |
| `WatcherProofs!TheKeyframesFollow` | for any streams, scores and cap, and any failures: a document is on the disk before its state is told or remembered; it is valid, ends with what live.json shows and its values fit what it declares | `DInv`: the file is the document of live.json and the history (`DocumentFollowsLive`), which ends with it (`HistoryEndsWithLive`); no step but the export of both files comes to such a place. The samples are the points with a value, the newest last (`SamplesAre`); a larger number has no fewer digits (`DigitsGrow`), hence the ends of a stream's range need as many as any value between (`ValuesFit`) |
| `WatcherProofs!NobodySleeps`, `NothingTwice` | no lost wakeup, nothing repeated, in watch mode with its keyframes | from `KeySpec => Spec => LiveBroker!Spec`; the second (`WatcherDrivesTheBroker`) holds because a tick calls, ends or abandons at most one publish |
| `ContestProofs!TypeCorrect`, `TheAgeIsHonest`, `TheFreshBoardIsTheTruth` | for any teams, games, scopes and pages, and any time | `PagesAreHonest`: a page that tells a game otherwise than the site does is no younger than that game's last change; `ResultsAreHonest`: the same of what the board's calls have returned, counted from the question; `BoardIsMerged`: an answer is the merge of its results. The oldest page and the chosen line of a game exist by well-founded induction over the naturals |
| `ContestProofs!ALiveGameIsOneLine` | a live game on some page is on the board, once | under `HasIds \/ Neutral = {}`, as two pages of a neutral game without ids tell two games (section 5) |
| `ContestProofs!SeasonTypeCorrect`, `TheRecordsAddUp`, `TheWeeksAreInOrder`, `TheScorebugShowsTheGame` | for any page of any length, any days and any marks, with and without byes and results | `SeasonIInv`: between two calls nothing is kept, and an answer is what the passes make of the page (`TheAnswer`). The sort is a bijection that keeps the order of starts (`SortedItems`), hence the list has each game of the page once, with its day, mark and record (`ShowsThePage`), forward in days and weeks (`GoesForward`); a bye dated `7 * w` days after the first game rounds to week `w`, and no game of another week lies on the wrong side of it (`ByesAreWeeksApart`, `FilledIsSound`) |
| `SelectionProofs!ResolvingIsFinal` | what `resolve_many` returns are keys, which it returns unchanged | `Get` finds a key's own sport; of finitely many places one is the n-th, a bijection with `Rank`, hence `Picked` takes each item once and `Distinct` leaves nothing twice |
| `SelectionProofs!TypeCorrect`, `CoversValidSports` | for any processes, files, requests, edits and cap | `AllValid`: the selection in each process is what `resolve_many` returns for it |
| `SelectionProofs!WhatIsAcknowledgedStays` | the same | `History`: a process that is not stale knows what was acknowledged for its file (`Knowing`; a service all but its selection), a save under way will leave what it acknowledges (`SavesTheTruth`) and has the file to itself (`SavesAlone`), unless the file has slipped. `Steps` sums up the commands by what they do to the file |
| `SelectionProofs!ARestartKeepsTheSelection` | the same | `FindsItEmpty`: a service nobody overtook finds the file it truncated still empty; `KeepsItsSchool`: the environment's school is in its settings |
| `SelectionProofs!UrlsTell` | for any processes with valid selections, two schedules share a cache entry exactly when they are of one school, sport, level and year, asked or configured; a page is read back as its team, but for the year | the rows of the catalogue are compared within its four parts and across them (`SportsApart`), so that slug and gender find the key; a page is laid out as its segments (`PageIsLaid`), of which `FromUrl` finds each as the last of its class. Two equal pages are then pages of one school, key and level (`TheTeamIsShown`), and the query is the year in force (`TheYearIsAsked`) |
| `ClientProofs!FacadeTypeCorrect`, `LatecomersOnly` | only a refresh spawned while `aclose` waits is lost | `FInv` adds that what `aclose` does not wait for came late, and that the database is closed last |
| `ExportProofs!TypeCorrect`, `WholeFiles`, `IndexIsTrue`, `FilesOfASportAgree` | for any sports, formats and number of runs that overlap, fail or are killed | `IInv` says of each run that every sport it has listed has its files, from this run or from one that was not over when it began; a rename can only make a file newer in this sense. The files of a sport, a concatenation, have lemmas of their own. `AInv`, for the last: a run answers for every file that is from it, having listed its sport or stopped in the middle of it |

Assumptions are those of the constants, named in each module (`TransportAssumption`,
`SwrAssumption`, `PageFetchAssumption`, `BrokerAssumption`, `WatcherAssumption`,
`KeyframesAssumption`, `ScoreboardAssumption`, `SeasonAssumption`, `SportsAssumption`,
`SelectionAssumption`, `ExportAssumption`), which TLC evaluates; `Facade` needs none. The
inductive invariant of `Selection` was checked with TLC before it was proved, in the run's
instance and in two million states of one with a second command line and an environment
of the service.

Induction over data is beyond the provers, so what can be said of sequences of any length
is said without a recursive definition: a least element exists by well-founded induction,
the greatest of finitely many numbers is the one that the fewest exceed, and the n-th of
finitely many places is found by a bijection with `Rank` (`PlaceProofs`). On these rest
what the merge of `Scoreboard` chooses, what the sort and the passes of `Season` make of a
page, what `ResolveMany` makes of a list and what the builder makes of a history.

**Only model-checked.** Every safety property of the runs is a theorem. What is under
fairness is not (`EveryGetEnds`, `RefusesForEverOnlyIfLost`, `LastVersionArrives`,
`PublishEnds`, `NewsArrives`, `EveryTickEnds`, `ClientsSeeLive`, `EveryFetchEnds`,
`WaitsEnd`): liveness is beyond the provers, and TLC checks it on the instances of section 3.

## 5. Where code and documents part

Found while translating. The models do what the code does, and the properties say
what holds of it: where a history variable (`slipped`, `late`, ...) excepts a case, it is one
of these.

*Requests and cache*

1. **A lost probe** (`http/transport.py:126`). A half-open probe answered by a terminal
   status is reported to nobody; the breaker refuses every later call. `breaker.py`
   promises one probe after each cooldown. `RefusesForEverOnlyIfLost` checks that
   this is the only way to refuse for ever.
2. **Two ttls on one key** (`cache/swr.py:79`). The schedule and the scoretracker
   share a key; the second accepts as `cached` what the first stored for an hour.
3. **An outage is served as `stale`** (`cache/swr.py:105`). Rows are never deleted,
   so the `last_known_good` branch is reached only by a miss that overlaps another's
   store. `src/docs/RUNBOOK.md:37` gives `last_known_good` as the sign of an outage.
4. **Errors that are no `MaxPrepsError`.** httpx errors outside the six of
   `http/retry.py:79` pass `cache/swr.py:114`, which falls back only on a
   `MaxPrepsError`; that is why `swr_cold` checks `NeverNothing` without them.
5. **A robots.txt of 5xx** closes the gate for twelve hours (`http/robots.py:41`),
   not "until it recovers" (`robots.py:59`, `src/docs/ENDPOINTS.md:62`): `rules`
   expire by age alone. The twelve hours count from its arrival (`robots.py:67`), not
   from the question, as those of the buildId do; an older reading that arrives last is
   kept as new. The gate is asked once (`http/transport.py:98`): a request that has
   passed it may queue, and is sent again by the retries, without another look, so
   `NothingLongForbidden` speaks of the gate.

*Stream and files*

6. **The heartbeat holds the lock** (`service/sse.py:55`), though the docstring
   forbids exactly this: a client that does not read stops the publisher, which is
   why `PublishEnds` assumes `ClientsRead`.
7. **A new game is not published** (`service/app.py:121`). The diff of two contests is
   empty, so the stream keeps the old game. A failed slow refresh (`app.py:133`) is the
   second slip: it leaves `previous` behind, and the next tick tells the same change again.
8. **The history runs across games** (`service/app.py:110`): nothing resets it when
   the contest changes, so live.mgjson plots the old game's points into the new one.
9. **The index lists json files** (`cli.py:620`) of a sport whether or not json was
   among the formats, and is rewritten as an empty list, or with one entry, when
   every sport is dark or `--sport` names one. `IndexNamesWhatIsThere` speaks of the formats asked for.

*Contests and the board*

10. **The board's flag** (`client.py:589`). After a stale page a cached one makes the
    whole board `cached`; the properties of `Scoreboard` speak of `fresh` and of
    `fetched_at`, which are right.
11. **A final behind a live page** (`client.py:598`). A stale page that still has a
    game in progress wins over a newer one with its final.
12. **A neutral game without an id** (`client.py:596`) is listed twice, since each
    page takes its own team for the home side; `NothingLiveIsHidden` is checked with ids.
13. **`get_scoretracker` raises "schedule has no contests at all"** (`client.py:487`)
    also for contests that are all past and unfinished, or undated: `NoContest` in
    `Season`.
14. **The primary team twice.** `_league_member_refs` keeps the season name of a
    member's URL (`client.py:673`) where the primary may have none, so that
    `m.path() != primary.path()` (`client.py:652`) lets the primary in again.

*Settings*

15. **`serve --config` saves to the standard file** (`service/app.py:260`), though
    `cli._save` explains why this must not happen (`cli.py:100`) and `create_app`
    promises that "a restart keeps them" (`app.py:184`). `Misdirected` in `Selection`.
16. **A save that fails** (`app.py:259`) leaves the change in memory: "a bad request
    changes nothing" holds of names that are refused, not of a full disk.
17. **An empty file is the defaults.** A kill between truncation and flush
    (`config.py:280`) costs the whole configuration, without an error at the next start.
18. **The environment is saved** (`config.py:268`): any save writes `MAXPREPS_PRIMARY_*`
    into the file, where they outlive the environment.
19. **Removing the last sport** (`cli.py:468`) does not leave none: the empty selection
    means the primary sport.
20. **`init` keeps what it does not ask for** (`cli.py:150`): level, gender and ids of the
    school before. It saves the year as it was typed (`cli.py:155`): one that is not
    YY-YY passes, as `for_sport` and `model_copy` do not validate, and every later use
    of the team then fails (`config.py:53`, `models/team.py:71`). `HasTeam`.
21. **`from_url` has no year** (`models/team.py:132`), as `path` puts none in, though the
    module says that a reference round-trips (`team.py:4`). A sport that is not in the
    catalogue keeps the `sport_key` of football (`team.py:195`).

*Facade*

22. **A call under way at `close` waits for ever** (`sync.py:51`): the loop stops, and
    `result()` has no timeout. `WaitsEnd` excepts it.
23. **The constructor may refuse itself** (`sync.py:42`): `_run` may look before the
    thread has started its loop. `Make` has both outcomes.
24. **`default_client` is never replaced** (`sync.py:120`) once it has been closed; every
    later call of the module's functions raises.

## 6. What is not modelled

Wire decoding, time zones, HTML tables, rosters, rankings and athletes are
conversions of data without state; so are text fitting, colours, CSV and XML.
Argument parsing and printing of the command line, logging, metrics and the routes that only
wrap one client operation are left out. Of `client.py`, `resolve_school`,
`get_scoretracker_by_id`, rankings and athletes are single fetches over `SwrCache`
with a conversion behind them; the fan-out over sports gathers calls that
`Scoreboard` gathers in the same way. The refill and the burst of the token bucket are part
of the wait to send in `Transport`. `PROJECT.json` lists each with its status.

A clock that steps back, SQLite errors, and memory eviction by size other than
`Evict` are outside `SwrCache`. `Scoreboard` has no half-hour: the pregame window of
90 minutes is a constant in hours. `Selection` takes a process to be killed or to
write all it writes in one flush; `Export` has no crash of the machine, before which
the directory entry of a rename need not be on the disk. A thread of `Facade` makes
one call, and the two timeouts of `close` are choices.

## 7. The plan

1. *(done)* `Transport` over `HostGate`, `SwrCache`, `PageFetch`, `LiveBroker`,
   `Watcher` over `LiveBroker`, each with proofs; `Season` and `Scoreboard`.
2. *(done)* `Selection` over `Sports` and `TeamRef`; `Export`, `Facade` and `Keyframes`
   over `Watcher` and `Mgjson`, the last three with proofs.
3. *(done)* Proofs of `Scoreboard`, `Season` and `Selection`.
4. `TokenBucket`: rate and burst in any window, under several waiters.
5. That a `Watcher` over `SwrCache`'s promises shows no older version.
