# A TLA+ model of ptv-cli

`ptv` is a command-line client for Victorian public transport. It plans
journeys offline from a GTFS feed it downloads and compiles itself, enriches
them with GTFS Realtime, and asks the PTV v3 API for the rest. Several `ptv`
processes may run at once: commands typed by a user, updates started by hand,
and background updates that commands launch themselves. They share one data
directory and nothing else. This directory holds TLA+ specifications of the
parts where that matters, the configurations that check them with TLC, and
proofs that TLAPS checks.

Paths below are relative to the repository's root (`src/` in `PROJECT.json`).

## 1. The system

| Part | Code | State it keeps | Operations | Correct when |
|---|---|---|---|---|
| Generation manager | `internal/gtfs/generation.go` | `generations/*.sqlite`, `.staging/*`, `current.json`, `.update-lock.sqlite` | AcquireUpdate, NewStaging, Publish, Rollback, OpenCurrent | `current.json` always names a complete, durable file; a returned error means what it says; the lease comes back |
| Update command | `cmd/gtfs.go`, `internal/gtfs/download.go` | `gtfs.zip`, `.update.progress.json` | update, status, check, validate, rollback | it ingests what it downloaded and leaves nothing behind when it fails |
| Freshness | `internal/gtfs/freshness.go`, `freshness_state.go` | one row per source in `.freshness.sqlite` | CheckFreshness | a check is skipped only on evidence that is recent enough; failures back off |
| Automatic update | `internal/gtfs/autoupdate.go` | none of its own | CheckAndAutoUpdate, startUpdateWorker | a dataset that falls behind is replaced; no redundant downloads; nobody waits for a lease |
| Feed compiler | `internal/gtfs/ingest.go`, `compiler_csv.go`, `compiler_graph.go` | one SQLite transaction over a staging file | IngestGeneration, ValidateResolvedDataset | all or nothing; what compiles can be published; a generated walk undoes no prohibition |
| Store and queries | `internal/gtfs/store.go`, `timetable.go`, `query_connections.go`, `queries.go`, ... | the SQLite file, read-only once published | open, query, LoadTimetableWindow | the timetable of a window holds every run in it, on days of 23 and 25 hours too |
| Journey router | `internal/router/` | labels of one scan, in memory | PlanEarliest, PlanLatest | the journey exists in the timetable and none arrives earlier |
| Geocoder | `internal/geocode/geocode.go` | `rate-limit.timestamp`, `rate-limit.lock`, a cache of places | Lookup | one request per second over all processes |
| Realtime client | `internal/gtfsrt/` | a rate limiter per endpoint, a cache per command | GetOrFetch, Fetch | one fetch per feed; nobody waits for ever; calls are throttled; the freshest observation is the one found |
| PTV v3 client | `internal/ptvapi/` | none | signed GETs | pure |
| Credentials | `internal/credstore/`, `internal/config/` | keyring entries, environment | Save, Load, Delete | a pair of entries is from one Save |
| Planner | `cmd/plan.go`, `plan_disruptions.go`, `progress.go` | one invocation, a spinner and a freshness goroutine | check freshness on the side, resolve the ends, widen the horizon | it misses no way and returns whatever its services do |
| Departures | `cmd/next.go`, `next_gtfs.go` | one invocation | resolve, query, join realtime, print | the board is complete; an estimate is of the right run |
| Vehicles | `cmd/vehicle.go` | one invocation | look up, enrich, print | what it calls absent is absent; the position is the best one |
| Other commands | `cmd/station.go`, `disruptions.go`, `mode.go`, ... | one invocation | resolve sources, join, print | sequential |
| Static snapshot, rendering, time, version | `internal/v3static/`, `internal/render/`, ... | none | formatting | pure |

How they interact. A command that needs GTFS data (`resolveSources`,
`cmd/sources.go`) opens the generation `current.json` names, evaluates
freshness for it (a read of the row, perhaps a HEAD request, a write of the
row), and when the verdict is `changed` takes the update lease for a moment to
see that no update runs, starts `ptv gtfs update --background-worker` and
releases the lease. That worker, like an update by hand, takes the lease
without waiting, downloads the zip to a shared path, fills a staging database,
publishes it by moving a file and renaming a new `current.json` over the old,
and releases the lease on the way out. Readers take no lock: they rely on a
generation file never being changed or removed once the pointer has named it.
`ptv plan` reads the timetable of a short horizon from that file, resolves the
ends of the journey in it, runs the router in memory, and reads a wider one
while the router finds nothing; a goroutine checks freshness meanwhile and a
budget bounds what needs the network. `ptv next` queries the departures of a
stop and joins them with a realtime feed; `ptv vehicle` asks the v3 API first and
the realtime feeds after it. The other commands fetch realtime feeds through a cache
that lives as long as they do, one feed after the other; the cache and the limiter
behind it also promise to serve several goroutines at once, which a test of the
package relies on (`internal/gtfsrt/cache_test.go:14`) and no command does.

What is hard about it: processes that share files but no memory; commits made
of several file-system steps, of which any can fail and between any two of
which the process can be killed or the machine lose power; checked state that
is stale by the time it is used (the freshness row, the lease that was free);
a background worker that must win the lease its launcher may still hold; a
single-pass scan whose order of events decides whether an optimum is missed;
service days that begin at no midnight and end after the next one; goroutines
that a command must join before it returns.
`PROJECT.json` lists each such place under `hazards`, at its line.

## 2. Modules

| Module | Models | Composition |
|---|---|---|
| `DatasetPointer` | what `current.json` promises, in five actions | abstract specification |
| `GtfsGenerations` | generation manager and `gtfs update`, one action per fallible system call | implements `DatasetPointer` |
| `GtfsGenerations_proofs` | theorems about the previous one | |
| `Freshness` | CheckFreshness and its row, any number of commands | |
| `AutoUpdate` | commands, background workers, updates by hand, one lease | extends `Freshness`; a publication is one step, which is what `GtfsGenerations` justifies |
| `Journeys` | what a journey is and when it arrives at best | the reference for the next one |
| `ConnectionScan` | the router's scan, one connection at a time | extends `Journeys` |
| `ConnectionScan_proofs` | theorems about the previous one: its answers can be ridden | |
| `OptimalJourneys_proofs` | its answers are the optimum of `Journeys` | extends the previous one |
| `GeocodeThrottle` | the geocoder's rate limit over all processes | |
| `GeocodeThrottle_proofs` | theorems about the previous one | |
| `AutoUpdate_proofs` | theorems about `Freshness` and `AutoUpdate` | |
| `FeedCompiler` | the compilation of an archive, file by file, and what publication validates | |
| `TimetableWindow` | what is loaded for a query window | extends `FeedCompiler`: it queries what was compiled |
| `FeedTimetable_proofs` | theorems about the previous two: what is compiled, and its queries | |
| `NextDepartures` | `ptv next` | extends `TimetableWindow`, instantiates `RealtimeSnapshot` |
| `PlanCommand` | `ptv plan` | extends `TimetableWindow`; the router is `Journeys`, its abstract specification, instantiated for the generation asked |
| `Commands_proofs` | theorems about `ptv next` and `ptv plan` | extends both and `FeedTimetable_proofs` |
| `RealtimeSnapshot` | what a realtime message becomes, and the lookups in it | pure operators |
| `RealtimeFetch` | the invocation cache, the limiter and the request | extends `RealtimeSnapshot` |
| `VehicleLookup` | `ptv vehicle` | extends `RealtimeSnapshot` |
| `RealtimeFetch_proofs` | theorems about the previous two | |

`MC*` modules give constants their values and symmetry sets; each `.cfg` is one run.
Operators named as the *mutated form* of the one below them are single-fault
variants (`PROJECT.json`, `mutants`): with one in place of the original, the
property it is listed for must fail.

### GtfsGenerations

`pc[p]` walks a process through `newGTFSUpdateCmd`'s `RunE` and, inside it,
`GenerationManager.Publish`. One action stands for one step that can fail or be
seen by others. The download (`Download`), `NewStaging` and `IngestGeneration`;
then `PrepareForPublication`, `SyncFile`, `Install` (rename into
`generations/`), `Seal` (chmod), `SyncGenerations` (fsync of the directory),
`ReadOld` (the manifest that is replaced), `WriteManifest` (rename of a synced
temporary file over `current.json`), `SyncManifest` (fsync of the data
directory), and `ReadBack`, which decides after a failed write whether it took
effect. `Discard` is `removeUnpublishedGeneration`. `Cleanup`, `RemoveZip` and
`Release` are the deferred calls, in the order Go runs them.

Files are abstracted to where they are (`where`) and three facts a power loss
depends on: the contents were complete (`ready`), the contents were synced
(`flushed`), the directory entry was synced (`anchored`). `recoverable` is the
set of values `current.json` may have after a power loss: everything it has
been since the data directory was last synced. `layout` is the directory
`generations/` itself: `ensureLayout` makes it and syncs nothing, so in a new
installation its entry is lost with everything in it unless something syncs the data
directory before. `PowerLoss` picks any
outcome those facts allow. The data directory is itself an entry of another
directory, which nothing syncs (`ensureLayout` and the download both make it with
`MkdirAll`): `LoseDataDirectory` is a power loss that takes all of it, possible until a
power loss has left it there (`rooted`), and it starts the installation afresh. `Crash` kills one process; SQLite's lock goes with
it. `published` and `spilled` are history variables that properties speak of.

### Freshness

`row` is the persisted `FreshnessCheckState`, `my[c]` the copy a command works
on, and `Begin`, `HeadSucceeds`/`HeadFails`, `Persist` are the three moments of
`CheckFreshness`. `GiveUp` is a failed write or a kill. ETag and Last-Modified
are one validator, a version of the feed or `NoTag`. The evidence about the
local dataset (age, coverage) is a parameter of `Classify`, chosen freely.
Instants are distances to now, so time is `Tick`, which brings every deadline
nearer. `seenAge` is history: how long ago a successful HEAD returned a version.

### AutoUpdate

`cmd[c]` continues a command after its check: claim the lease, launch, release
the claim. `wpc[w]` is a process that runs `gtfs update`, by hand or in the
background with its progress file. Evidence about the dataset is no longer free:
`lapsed` holds the versions whose service coverage has ended.

### Journeys and ConnectionScan

`ConnectionScan` follows `scan` in `csa.go`: `Network` is the input, reversed in
time for `PlanLatestDepartureContext` (`reverseConnections` and its siblings);
`ScanConnection` visits one connection of the group of equal departures, in
passes (`todo`, `retry`, `progressed`) until a pass reaches nothing new;
`RelaxWalk` takes one label from the walk queue; `NextGroup` stops when the next
departure is later than the best arrival; `Finish` and `Journey` are
`reconstruct`, `appendEgress` and `flipLegs`. `Ride`, `StayOnboard` and `Board`
are the three ways a connection is reached, `Continuations` and `BoardingLabels`
choose the predecessor. Predecessor chains are kept unfolded: a label carries
its legs. `Cancel` is a context that ends.

`Journeys` says what the answer should be, without scanning: the walks from each
stop are a least set closed under walking on over one more edge (`Walks`), the rows a
passenger can ride one closed under "rides on", "stays on board" and "can change"
(`Rideable`), the latest departure is a maximum over earliest arrivals, and a
journey is judged leg by leg (`Feasible`). `MaxDuration` only bounds how far back TLC
looks for a departure when the scan found none. Only the meaning of transfer rules and of pickup and drop-off
policies is shared, so an error in `Specificity` would escape; the operators of
the scan that use it would not.

A trip is one trip instance on one service day. Legacy timetables whose
connections carry no instance are not modelled; queries that `validateInputs`
refuses are not among the inputs. The window and the expansion of rules to
stops and instances are `TimetableWindow`'s.

### GeocodeThrottle

One caller is one `throttle` call: `CreateLock` (O_EXCL), `FindStale` (Stat) and
`BreakLock` (Remove, by name), `ReadStamp`, a wait that time ends or the context
(`Cancelled`), `Record`, and `Unlock` (the deferred Remove, by name again). Ages
are capped where they stop making a difference. "Granted" is throttle's
return, not the moment the HTTP request leaves. The instants are those of one
clock that does not go back. A timestamp that is there and cannot be read leads to
`unread`: no wait. `usurped` is history: somebody has removed the lock
of a caller still at work.

### FeedCompiler

One action per file, in the order `compileInnerArchive` reads them
(`CompileLevels` ... `CompilePathways`), then `MaterializeConnections`, and after the
last feed `MaterializeTripLinks`, `GenerateProximityTransfers` and `Commit`.
`step` is where the compiler is, `tx` the rows inside the transaction, `store`
those committed. Every action either adds its rows or is `Rolled`: the transaction
is rolled back and the store left empty. What one row can have wrong by itself is
its field `ok`; what relates a row to others (unknown parents, levels, services,
times that go back, duplicate keys, kinds of stop that may not be a parent) is
spelled out as the code checks it. `ValidateResolvedDataset` restates the
queries of `state.go`, not the compiler's checks, so that the two can disagree.

### TimetableWindow

`LoadTimetableWindow` answers one query on the committed store: the service days
from as far back as a service day can reach (`WindowDates`), each day's active
services with their exceptions, instances with absolute times
(`ServiceDayAnchor` is twelve hours before noon, which is no midnight when clocks
change), continuations, the walking graph and the transfer rules, expanded and
overridden as the code does. An hour is the unit of time.

### NextDepartures and PlanCommand

`NextDepartures` follows `runNextGTFS` step by step; the two readings of the clock
are two actions, and time runs on between them. A trip update names a trip and a
start date, a v3 departure only a time and a label.

`PlanCommand` has the command itself (`planStep`), the spinner (`StopSpinner`
closes a channel and then waits), the freshness goroutine and the budget's timer.
`LoadTimetable`, `Resolve...`, `PlanJourney`, `KeepJourney` and `Widen` are the loop over
`Horizons`; `Overlay` and `DisruptionsAnswer`/`DisruptionsCutOff` the disruptions;
`Write` is the end. The router's answer is `Journeys`' reference over the window
that was loaded, which is what run `journey_scan` establishes of the scan.

Each has a specification of its own, `BoardSpec` and `PlanSpec`: an archive is
compiled and one command asks about it. The theorems are about these. Run
`commands` takes `MCCommands`' `CommandsSpec`, which chooses between the two and adds
the fairness that `PlanReturns` needs.

### RealtimeSnapshot, RealtimeFetch and VehicleLookup

`RealtimeSnapshot` judges entities by age, joins their states with the feed's and
indexes them: the last of equal trips takes the place of the first, a vehicle is
found under its label and every unit of it. `RealtimeFetch` has any number of
goroutines in `GetOrFetch`: one becomes the fetcher of a feed (`inFlight`),
the others wait for it or for their context. A bucket counts in ticks; a caller
that must wait sleeps until its token is due and counts again. `requests` is
history. `VehicleLookup` makes the calls of `ptv vehicle` one by one, each of
which may find the vehicle, not find it or fail, and then reads the feeds. In the
program a call of `RealtimeFetch` has no company; the module is the contract of the
package, and a single caller is the case in which the others stay idle.
`missed` and `read` are history.

## 3. Runs

| Run | Configuration | Checks | Expected |
|---|---|---|---|
| `gtfs_publication` | `MCGtfsGenerations.cfg` | `TypeOK`, `PointerIsSolid`, `ReaderNeverMisses`, `ReportMatchesPointer`, `IngestsOwnDownload`, `FailedUpdateLeavesNothing`, and `PointerSpec` (the refinement) | pass |
| `gtfs_lease_liveness` | `MCGtfsGenerationsLive.cfg` | `LeaseIsReleased` | pass |
| `freshness` | `MCFreshness.cfg` | `FreshnessTypeOK`, `RowIsHonest`, `CurrentWasSeen` | pass |
| `auto_update` | `MCAutoUpdate.cfg` | `TypeOK`, `NeverOlder`, `Converges` | pass |
| `auto_update_lapse` | `MCAutoUpdateLapse.cfg` | `ConvergesAfterLapse` | violation |
| `journey_scan` | `MCConnectionScan.cfg` | `ScanTypeOK`, `Optimal`, `JourneyIsFeasible`, `FailsOnlyOnBadData`, `Terminates` | pass |
| `journey_scan_gap` | `MCScanGap.cfg` | `GapsAreTolerated` | violation |
| `geocode_throttle` | `MCGeocodeThrottle.cfg` | `ThrottleTypeOK`, `PacedByTheTimestamp`, `DeadLockIsBroken` | pass |
| `feed_timetable` | `MCFeedTimetable.cfg` | `WindowTypeOK`, `CompiledIsPublishable`, `ForbiddenStaysForbidden`, `NothingRunsOutsideCoverage`, `NothingMissed`, `StayOnIsTheNextRun`, `ForbiddenStaysSeparate`, `WiderKeepsContinuations` | pass |
| `commands` | `MCCommands.cfg` | `BoardIsComplete`, `JoinIsExact`, `NoWayMissed`, `FastJourneyIsBest`, `PlanReturns` | pass |
| `plan_horizon` | `MCPlanHorizon.cfg` | `JourneyIsBest` | violation |
| `realtime` | `MCRealtime.cfg` | `SharedFetch`, `Throttled`, `BestObservation`, `AbsenceIsProven`, `EveryCallerReturns` | pass |

What the passing runs show, beyond the names:

- An update that reports success is what readers get and survives a power loss
  once the data directory itself is on the disk. In a new data directory nothing
  syncs the entry of `generations/` for its own sake, but the download of the zip
  ends with a sync of the directory it is in (the mutant `DownloadUnsynced` shows
  that nothing else would do); the entry of the data directory in its parent is synced by
  nobody, so the first power loss may take the whole installation, pointer and
  generations together: never a pointer without what it names. An update
  that fails leaves no generation file behind (`FailedUpdateLeavesNothing` does not speak of
  `gtfs.zip`, nor of the `-wal` and `-shm` files of SQLite); the lease always comes back; a dataset that falls
  behind within its coverage is replaced, and never by an older one.
- The scan finds the best journey that exists, and every journey it returns can
  be ridden.
- What the compiler commits, the publication accepts (otherwise every update would
  fail after its download). Prohibitions hold against generated walks, whatever
  level of the hierarchy they name. No run inside a window is missing from it,
  whatever day it belongs to. Staying on board leads to the next run of the
  linked trip and to no forbidden one, and a wider window keeps what a narrower
  one allowed.
- The board of `ptv next` is complete around midnight and the change of clocks, and a
  trip update is joined with the run it is about. `ptv plan` says "no journey"
  only when 36 hours hold none, although it resolved its ends in a narrower
  timetable; a journey that is over within its window is the best of the whole
  horizon, unless the router may fail on that one; it returns, spinner erased, whatever the services on the side do.
- Any number of callers of a feed share one fetch, hold the same snapshot, keep the
  limit and all return. This is what the cache and the client promise; in today's
  commands one caller at a time asks, and sends a request or two. `ptv vehicle` shows the freshest position, and does not say that a
  vehicle is absent unless every place it names was asked.

### What the violations show

Each of these states something the repository's documents say, and TLC finds a
behaviour of the code that contradicts it; `PROJECT.json` (`findings`) quotes the
sentence and names the line.

- `ConvergesAfterLapse`: once the installed dataset's coverage has ended, every
  check says *stale*, and *stale* never launches an update, because
  `UpdateAvailable` is set only together with *changed*. `Converges` is the
  positive form.
- `GapsAreTolerated`: a trip with a segment the compiler excluded makes the
  router fail the whole plan, if the trip was boarded before the gap.
- `JourneyIsBest`: any journey of the two-hour window ends the search, also a slow
  one that a later departure would overtake. `FastJourneyIsBest` is what is left:
  a journey that is over within its window is the best there is (`NarrowIsEnough`
  proves it), unless a trip of the whole horizon has a gap or rules contradict
  each other there. Then the router may refuse the whole plan, and the archive
  `HiddenGap` shows that the narrow window can hold a trip that the wide one
  interrupts: what it skips between two segments may lie outside.

### Also seen while modelling

These have no run of their own; the models contain the behaviour, or the place
is outside them.

- A throttled freshness check writes back the row it read, so a failure and its
  backoff recorded by another command meanwhile are lost
  (`internal/gtfs/freshness.go:230`). `RowIsHonest` is what survives that race.
- After an update by hand, throttled checks compare the new dataset with the
  validator of the last HEAD and launch downloads of what is installed.
- Trips that take no time and meet at one instant can hide the only journey from the
  scan (`internal/router/csa.go:339`-`345`). One runs A, B, C, D and another C, A, all at
  one instant, from C to B: the first pass boards the first trip at C, for D;
  once the other one has brought the rider to A, the segment from A to B
  lies before the one where its trip was boarded and is passed over. Here the order
  of the rows cannot be helped: `Sequenced` excludes the case, and the proof that
  answers are optimal needs it. The journeys of the real timetable take time.
- A trip that goes from A to B and back within one instant may be boarded at its
  second segment, B to A, in the first pass over that instant. The next pass meets
  the first segment, which leaves from where the rider is, rides it out of order, and
  the whole plan fails with `invalid non-contiguous trip instance`
  (`internal/router/csa.go:337`; the comment at 339 says that such an earlier segment "is
  simply unreachable"). The proof found it; `RunsForward` excludes it and the
  timetables `Looped` contain it.
- A rider may be said to stay on board before the end of the trip
  (`internal/router/csa.go:491`): `continuationState` takes the stop of the last
  segment ridden *so far*, so that a link which names no stop matches in the
  middle of the trip when the continuing one comes earlier in the order of the rows
  and departs at the instant of a segment that takes no time.
  `docs/json-contract.md:103` allows `stay_onboard` for resolved linked-trip
  continuations only. `ContinuesForward` excludes the case; the timetables `Backward`
  contain it.
- Two callers that find the geocoder's lock stale both go on: the second removes
  the lock of the first (`internal/geocode/geocode.go:269`; `docs/specs/004-runtime-geocoder-and-freshness-contracts.md:43`
  says one request per second). A timestamp that exists and cannot be read, whatever the
  reason, is taken for none, and the request is granted without a wait
  (`internal/geocode/geocode.go:276`). `PacedByTheTimestamp` excludes exactly these two.
- A station without platforms is in the index of names with no stop to go to
  (`internal/gtfs/timetable.go:198`), and an exact name is taken at its word
  (`cmd/plan.go:431`): neither names that begin like it nor the geocoder are tried, and the plan ends in
  "no journey" after every horizon has been loaded.
- On the evening before summer time starts, runs of a service day whose anchor lies
  before the local midnight of its date are not loaded
  (`internal/gtfs/query_connections.go:177`); `NothingMissed` counts a run once the
  date of its service day has begun.
- `ptv next` looks at the service days of yesterday, today and tomorrow: a run that
  leaves two days or more after the anchor of its day is out of its reach, while
  the compiler allows 72 hours (`internal/gtfs/ingest.go:26`). Its `--limit` is
  applied before cancelled runs are dropped. A v3 platform is checked for
  uniqueness in one direction only. Its case for a query outside the coverage
  (`cmd/next_gtfs.go:50`) is never reached.
- `ptv vehicle` says that a spotted vehicle is not among upcoming departures after
  it asked for those of one mode.
- `GetOrFetch` hands the cancellation of the fetching caller to those who wait with
  it (no command has such waiters).
- The progress file may show the failure of a worker that was refused over the
  progress of the one at work (`cmd/gtfs.go:112`).
- The limiter allows a full bucket and its refill, almost twice the provider's
  limit within one minute, and every command has a bucket of its own; a huge
  `Retry-After` overflows before it is capped (`internal/gtfsrt/client.go:317`).

### Bounds, and why they are enough

- `gtfs_publication`: two processes, a reader, three generations. A current, a
  retained previous and a candidate need three names, and two processes are what
  it takes to contend for the lease, to share `gtfs.zip` and to roll back what
  the other published. Any action may fail, any process be killed, and power
  lost, any number of times, and the data directory with it as long as no power loss
  has spared it. `gtfs_lease_liveness` has two generations, since it
  cannot use symmetry.
- `freshness`: two commands (the races are pairwise: one overwrites what one other
  wrote), two versions, backoff 1 then 2 of a throttle of 2, so that each
  deadline can be reached, missed and renewed.
- `auto_update`: one command that runs again and again, two worker slots (a
  background worker and an update by hand, or two workers that meet), two
  versions and one fault at any point.
- `journey_scan`: about 4,600 queries over four stops and three trips
  around the core A - B - C - D: every combination of a few times (with
  zero-duration rides and simultaneous departures), walks, single and multiple
  endpoints, passenger policies, pairs of transfer rules in both orders,
  continuations, and trips with a gap, each in both directions. `MaxDuration`
  bounds the reference's search for a latest departure, `Infinity` exceeds every
  time.
- `geocode_throttle`: three callers, one kill: a dead holder, two that break its
  lock, or a slow holder, a breaker and one who profits. An interval and a
  staleness of two ticks let a caller arrive before, at and after both.
- `feed_timetable`: about a thousand archives of one or two feeds with up to four
  stops and two trips, in families that vary one thing: the hierarchy of stops and
  its kinds, levels, transfers between every pair and level, qualified and
  contradicting ones, pathways; calendars, exceptions and services made of
  exceptions only; times before, over and beyond 24 and 72 hours, repeated trips,
  sequences and keys, links of trips with and without stops; each file spoilt,
  repeated and missing. Eleven dates, of which the seventh has 23 hours and the
  ninth 25. Windows of 2 and 36 hours in both directions start before, on and
  after them. `LastDay` bounds the dates.
- `commands`: the same calendar, two archives for the board and more than a dozen
  for the planner: a slow run before a fast one, runs over midnight and of the
  day before yesterday, a walk, a continuation, a prohibition, rules that contradict
  each other, a station without platforms, links to stay on board and to leave, a trip with a gap and one whose gap
  the narrow window does not show; ends given as stations, alike names, coordinates, places and addresses.
  Horizons of 2, 6 and 36 hours make two widenings happen. `MaxRide` bounds how long
  before its window a rider of the reference may set out, `Far` exceeds every
  time. A state runs one command.
- `realtime`: either a cache or `ptv vehicle`, which share nothing. Three callers (a fetcher, a waiter, one that comes when the first has
  gone), one feed (feeds share nothing), a bucket of two whose token takes two
  ticks, until instant `LastTick` or the end of the last sleep; every caller may be
  cancelled at any time. `ptv vehicle` with three modes and two feeds; messages
  of one or two vehicles that share a unit, current, stale, of the future or
  without a time.

`CHECK_DEADLOCK FALSE` where the model really stops: `GtfsGenerations` when its
generation identifiers are used up, `ConnectionScan` when it has an answer, the
commands when they have returned. The other runs check deadlock.

### Fairness

- `GtfsGenerations`: weak fairness of each process's steps. A started update
  consists of bounded network and disk operations and holds no lock another
  process waits for; nobody waits for the lease (`AcquireUpdate` is refused at once).
- `AutoUpdate`: weak fairness of commands, workers and time. The user runs
  commands again and again, which is the only thing that triggers an update.
  `LaunchWorker` is strongly fair because the model has few slots, the
  operating system many. `LaunchersLetGo` says that workers are not refused for
  ever by the very command that launched them: it releases its claim in the next
  statement, while the worker has a process to start. Without it the model has
  a behaviour, legal but infinitely unlikely, in which every worker loses that
  race.
- `ConnectionScan`: the loop runs (weak fairness of `Step`).
- `GeocodeThrottle`: time passes, and a caller's timers fire. Creating the lock is
  not guaranteed to any one caller (another may always be first), and no
  property asks for it.
- `PlanCommand`: the command computes (`Computes`), the spinner's goroutine runs, the
  timer of the budget fires, and what a cancelled context allows happens. Nothing
  is assumed of the freshness check, of the disruptions or of the user.
- `RealtimeFetch`: time passes and goroutines that can go on do; the client's
  request timeout ends a request that nobody answers. Nobody has to be cancelled.

## 4. Proofs

All theorems hold for any number of processes, readers, callers, generations and
versions and for all values of the constants that satisfy the named assumptions
in the modules (a marker such as `NoGen` is none of the values it marks; the
bounds are natural numbers; the backoff's first step is below its maximum, which is
no longer than the throttle, as in `freshness.go`; a full bucket holds a token and a
token takes a tick). Where the inputs are data, the assumptions say what the code that
hands them over has made sure of: `RowIsSound` what a row that is `ok` by itself holds;
`WellFormed` (`TimetablesAssumption`) the shape of a timetable, sorted as
`query_connections.go` sorts it; `Held` (`QueriesAssumption`, `RequestsAssumption`) that a
window lies within the dates of the model; `RequestsAssumption` that horizons widen, that
`Far` is no instant of the dates of the model, that coordinates are numbers and that the
marker of any trip is none of its instances; `DefaultAssumption` that the time to change
where a feed names none is a natural number;
`DaysAssumption` that a day has 23 to 25 hours; `BoardAssumption` that `ptv next` looks no
further than 21 hours ahead; `FeedsAssumption` and `PositionsAssumption` that a message is a
sequence of decoded entities. TLC evaluates each of them on the instances of the
runs.

| Theorem | Module | Property |
|---|---|---|
| `TypeCorrect` | `GtfsGenerations_proofs` | `TypeOK` |
| `PointerAlwaysSolid` | | `PointerIsSolid` |
| `ReadersNeverMiss` | | `ReaderNeverMisses` |
| `ReportsMatchPointer` | | `ReportMatchesPointer` |
| `AlwaysIngestsOwnDownload` | | `IngestsOwnDownload` |
| `FailedUpdatesLeaveNothing` | | `FailedUpdateLeavesNothing` |
| `ImplementsPointer` | | `PointerSpec` |
| `ScanIsTyped` | `ConnectionScan_proofs` | `ScanTypeOK` |
| `GivesUpForAReason` | | `FailsOnlyOnBadData` |
| `ReturnedJourneysAreFeasible` | | `JourneyIsFeasible` |
| `IInvIsInvariant` | | the invariant they rest on |
| `AllowedIsReady` | | a change that the rules allow is one the scan makes |
| `AnswersAreOptimal` | `OptimalJourneys_proofs` | `Optimal`, where `Orderly` and `Sequenced` |
| `BestStep` | | the invariant it rests on |
| `EarliestFacts` | | what `EarliestArrival` is |
| `ThrottleTypeCorrect` | `GeocodeThrottle_proofs` | `ThrottleTypeOK` |
| `GrantsArePaced` | | `PacedByTheTimestamp` |
| `FreshnessTypeCorrect` | `AutoUpdate_proofs` | `FreshnessTypeOK` |
| `RowsStayHonest` | | `RowIsHonest` |
| `CurrentOnlyOnEvidence` | | `CurrentWasSeen` |
| `AutoTypeCorrect` | | `TypeOK` |
| `UpdatesNeverGoBack` | | `NeverOlder` |
| `RowsStayHonestAround` | | `RowIsHonest`, among updates |
| `Publishable` | `FeedTimetable_proofs` | `CompiledIsPublishable` |
| `ProhibitionsHold` | | `ForbiddenStaysForbidden` |
| `StaysPublishable` | | `CompiledIsPublishable`, with queries |
| `StepRowsInv`, `WindowInvIsInvariant` | | the invariants the next six rest on |
| `WindowIsTyped` | | `WindowTypeOK` |
| `CoverageIsTrusted` | | `NothingRunsOutsideCoverage` |
| `WindowsAreComplete` | | `NothingMissed` |
| `StayingOnIsNext` | | `StayOnIsTheNextRun` |
| `ProhibitionsSeparate` | | `ForbiddenStaysSeparate` |
| `WideningLosesNothing` | | `WiderKeepsContinuations` |
| `BoardInvIsInvariant` | `Commands_proofs` | the invariant of `ptv next` |
| `BoardsAreComplete` | | `BoardIsComplete` |
| `JoinsAreExact` | | `JoinIsExact` |
| `PlanInvIsInvariant` | | the invariant of `ptv plan` |
| `GivesUpRightly` | | `NoWayMissed` |
| `FastInvIsInvariant` | | the invariant the next one rests on |
| `NarrowIsEnough` | | `FastJourneyIsBest` |
| `FetchIsShared` | `RealtimeFetch_proofs` | `SharedFetch` |
| `CallsAreThrottled` | | `Throttled` |
| `ShownVehicleIsBest` | | `BestObservation` |
| `AbsenceIsAlwaysProven` | | `AbsenceIsProven` |
| `LookupInvIsInvariant` | | the invariant they rest on |

**Publication.** None of the six invariants is inductive. `IInv` adds what they
rely on: a running process holds the lease, so only one runs (`ProcInv`,
`OnlyOneRuns`); its candidate is unpublished, and has at each step exactly the
durability that step has given it (`CandidateInv`); what was ever published is
solid for good and every name `current.json` may show after a power loss has been
published (`PublishedInv`); what is published or worked on lies in a directory that
is durable since the download (`LayoutInv`); a reader holds a published name (`ReaderInv`); every
file is published, given up or being worked on (`Accounted`). There is one lemma
per action, with one step per conjunct. The refinement uses the same invariant:
a manifest write publishes the writer's unpublished candidate
(`WritePublishes`), a rollback swaps the two names it has read under the lease
(`RollbackSwaps`), a data directory that is lost is one that `DatasetPointer` may lose
(`Lose`), and every other step stutters or settles the pointer.

**Freshness.** `RowInv` is the type invariant with `RowIsHonest`, which is inductive
because it speaks of every command's copy as well as of the row: `Persist` can
only install a copy that was honest. `CurrentOnlyOnEvidence` needs one lemma per
way to a verdict: a skipped check has a copy whose deadline has not passed, so its
validator is younger than the throttle; a HEAD is evidence itself; a failure
never classifies as current.

**Throttle.** `PaceInv` adds `WaitsCover` to the type invariant: a caller that
waits has at least as long to wait as the timestamp is short of the interval. One that
could not read the timestamp knows nothing of it, and the theorem says nothing of its grant.
It holds only while the lock is not usurped, and the type invariant carries the
reason: until then the lock file is that of the only caller at work.

**Updates.** `IInv` of `AutoUpdate_proofs` is `RowInv` with the types, with who holds the
lease at which step (`Held`), with at most one holder (`OneAtATime`), and with what
`NeverOlder` rests on: a worker that holds the lease has downloaded nothing older
than what is installed (`Ordered`). The freshness theorems are reused: every step of
a command's check is one of `Freshness`, every other leaves the row alone or
installs a dataset.

**Compiler.** `IInv` says that the tables inside the transaction would pass
`ValidateResolvedDataset` after every file, not only at the commit. Rows are only
ever added, and a row that was valid stays valid while the tables it refers to
grow (`StopStays`, `TransferStays`, ...); each file then has a lemma about the rows it
adds. The one check that a later row could undo is that a pathway touches no
station: it holds because feeds come in the order of their modes, and an identity
says which mode it is from (`PathwaysInOrder`). The generated connections, links
and walks are shown valid from the rows they are generated from.

**Prohibitions.** `WalksInv` goes beside `IInv`: an identity names one stop (`OneStopPerId`,
by the order of the modes again: a feed adds identities that no earlier one can
hold), the transfers are all the feeds' own until the walks are generated, and
afterwards none of those undoes a prohibition (`Forbids`). The step that matters is
`WalksKeep`: a rule that names a platform or its station, on either side, has the
platform among those it is expanded to (`Below`, which needs what validation says of
parents: nothing is above a station), so the pair is an explicit one and gets no
walk. Queries change no table (`QueriesOnlyRead`), so both theorems hold with them.

**Fetches.** `CacheInv`: whoever is registered as the fetcher of a feed is at work
on it, nobody else is, waiters wait for somebody who fetches or has finished, and
what was returned is what is kept. `BucketInv`, seen from each
past call: what has been taken since, and what is left, is no more than a full
bucket and what has flowed into it meanwhile (`Levels`).

**Router.** `IInv` has one layer for each thing the next relies on. `TypeInv`: the scan
keeps its books. `GroupInv`: the groups are the departures in turn. `OrderInv`: what a
trip was not ridden through is still to come, and what it was not boarded at is
retried in order; this is what `continueTrip` takes for granted, and it needs
`RunsForward`. `LinkInv`: a trip that continues the one being ridden is not passed by;
it needs `ContinuesForward` as well. `SoundInv`: the legs of every label, of every state
of a trip and of the target are a path that a passenger can take (`SoundLabel`,
`SoundState`). `FailInv`: a plan is given up only for a gap or for rules that
contradict each other. Two parts of the argument are not about steps. A latest
departure is scanned in the reversed network, so `SoundInv` speaks of `Directed(tt)`
and the legs are flipped at the end: `Reversal` and its lemmas show that a path
flipped is a path of the timetable, continuations, rules and policies included. And
the scan meets the rules in another order than the reference; where the scan does
not report a conflict, the order makes no difference to the rule that wins
(`AllowedIsReady`). `RunsForward` and `ContinuesForward` are hypotheses of the *properties*,
where TLC sees them too; section 3 says which plans they exclude.

**Optimal journeys.** The reference is made of least sets, reached by iteration. An
iteration over rows is complete after as many steps as there are rows, because each
step but the last adds one (`ReachableFacts`); for walks the same holds of
stops, since a walk that visits one twice is no shorter than one that does not
(`WalksAreWalks`). Both are proved without induction over data, from
the least step at which a claim would fail. Then the reference is
turned into the direction of the scan: a chain of rows reversed is a chain of
the reversed rows, and by a cut between what is reachable from either end, to set
out at `d` and arrive by `at` is, in the reversed network, to set out at `-at` and arrive by
`-d` (`GetsForward`, `GetsBackward`). `BestInv` has six parts: every label can be explained, by a ride
or a walk (`WitnessInv`); what was ridden can be ridden, and nothing that can be was passed over
(`RidesInv`, which needs `Sequenced`); labels hold what the rides and sources
lead to (`HeldInv`) and, once relaxed, the walks on from there (`RelaxedInv`); the target is the least
of them (`TargetLeast`); and a scan that has ended had nothing left that departs in time
(`EndInv`). The step that matters is `RideableIsOpen`: a row that can be ridden
is never set aside, although only one label per stop and context is kept and rules
compete. The first four conjuncts make the answer no later than anyone can be there
(`NobodyIsEarlier`), the explanations make it no earlier (`SomebodyIsThere`). `Sequenced` says that at one instant rows come in an
order in which they can be taken; it holds wherever connections take time. TLC checks
`Optimal` without it on timetables some of which have such connections.

**Windows.** `WindowInv` is `IInv` and `WalksInv` with `RowsInv`, which follows the calendars,
trips and stop times through the files: dates are finitely many (`Dated`), a trip is
known by its row and by its identity (`KeyedTrips`), a stop time is of a trip of its
own mode and within a service day (`TimedRows`), trips of one mode come after those
of lower ones (`Ordered`), connections and links are those of what was read, and the
coverage is that of the calendars. On a committed store, `LoadedAreRunning` says
what is loaded and `BetweenIsLoaded` that nothing between two loaded connections of
a run is left out. That no run is missed comes down to the
dates asked for: a run inside the window belongs to a date whose anchor is at most
`MaxSeconds` before it, and the midnights are in order, which is proved
by taking the least counterexample, since induction over them is not available.

**Departures.** `BoardInv`: the two readings of the clock differ by at most one midnight
(`ClockInv`), the departures found are those of `Upcoming` (`PlannedInv`), and what is
shown is what the message says of that run (`ShownInv`). Behind it: the order in
which departures are sorted is strict and total, so that sorting enumerates them all;
three service dates reach every run of the next hours; and indexing a message
keeps the last of equal trips. The attempt found that the model resolved a
platform to a wrong station; `Family` is what `next_gtfs.go` does.

**Planner.** `PlanInv`: the timetable at hand is that of the horizon the command is at,
and the answer kept is the router's over it. `NoWayMissed` then needs that a wider
window holds what a narrower one did (`WholeIsLoaded`, `WiderIsLoaded`), so that widening
is never refused for lack of coverage once it was granted.

**Horizons.** `NarrowIsEnough` compares the answers of two windows, whose rows have
other indices and whose rules come in another order. `FastInv` is `PlanInv` with what the
comparison needs of the tables and the ends: finitely many stops and transfers
(`SizedInv`, with a lemma per file of the compiler) and walks that take natural times
(`EndsInv`). Then the argument leaves the steps. A row is known by its run, and its index
is its place in the order of the runs (`RowNumbers`), which is the same order in both
windows. Runs wholly inside the narrow window are in both (`NarrowHolds`), and so
is what leads from one of them to the next: two segments adjoin if no segment
of the run is between them, and where no trip has a gap the wide window has none there either
(`AdjoinAgrees`); staying on board depends on the ends of the two trips and on their links
(`StaysAgree`); a change depends on the rules that match the two runs, which are the same rows of
the feed in other places of the file (`SameMatched`), so that the rule which wins has
the same effect unless two of them contradict each other (`SameReadiness`,
`ChangesAgree`). What can be ridden is a least set in either window, and since time does
not go back along it (`FollowsLater`), the part that has arrived within the narrow window
carries over both ways (`RidesCarry`). The two sets of arrivals agree up to its end
(`SameArrivals`); a minimum that lies there is the minimum of both (`SameAnswers`), and a
latest departure is a maximum over such minima (`SameDepartures`).

The result is for time in whole hours. On the evening before summer time starts, the hour
in which a service day has begun and its date has not is one instant of the model.
A window of minutes that ends inside that hour does not load what leaves within
it for the next service date (section 3),
while a wider one does.

**Vehicles.** `LookupInv`: every place that an absence would name has been asked and did
not have the vehicle, or is still on the list (`Looking`, `Looked`); every feed that was
read is accounted for (`FeedsRead`); the position kept is the best of those read
(`BestObservation`), from a lemma about the lookup in one indexed message.

### Only model-checked

- The liveness properties `LeaseIsReleased`, `Converges`, `DeadLockIsBroken`, `Terminates`,
  `PlanReturns` and `EveryCallerReturns`: liveness under fairness is out of the
  prover's reach here, as are `ENABLED` and induction over data.

No module uses a RECURSIVE operator.

## 5. Not modelled

`PROJECT.json` (`components`) lists every part with its status. Not modelled:

- the parsing of numbers, dates and times in CSV files, SQL as such, schema
  versions and migrations, and searches by name: conversions and lookups without
  a state of their own;
- the output of `gtfs status`, `check` and `validate`, rendering, the static snapshot
  and its generator, the version command: pure or generated;
- the HTTP of the geocoder, of the realtime feeds and of the v3 client, beyond what
  its outcomes do to their callers;
- `ptv station`, `disruptions`, `mode`, `lines`, `track` and the other commands: each asks,
  joins and prints in one sequence and keeps nothing;
- credentials: a precedence of sources, and two keyring writes in sequence of
  which the second may fail.

## 6. Plan

Done: all modules of section 2. Left, in this order:

1. `CredentialStore`: `Save`, `SaveOpenData` and `Delete` as pairs of keyring writes.
2. Schema migrations and the reading back of the ingest state.
3. The disruption and station commands, whose joins of realtime alerts with
   routes and stops `RealtimeSnapshot` already prepares.
