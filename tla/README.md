# pg_lens in TLA+

pg_lens is a terminal and web monitor for PostgreSQL.  This directory holds
TLA+ modules that model its moving parts, TLC configurations that check them on
small instances, and TLAPS proofs of what matters most for every instance.
Paths below are relative to the repository; `poller.rs` is
`crates/pg_lens_core/src/poller.rs`, other core files likewise, `app.rs` and
`main.rs` are those of `crates/pg_lens_tui/src`, `ui/` is below them, `lib.rs` is
`crates/pg_lens_web/src/lib.rs`.

Contents: [the system](#the-system), [the modules](#the-modules),
[the runs](#the-runs), [the proofs](#the-proofs),
[disagreements](#disagreements-between-code-and-documentation),
[what is not modelled](#what-is-not-modelled), [plan](#plan).

## The system

One background task, the poller, talks to PostgreSQL and owns all collected
state.  Frontends (terminal or web server) receive whole snapshots through one
`watch` channel and send requests back through small channels:

```
            snapshots: watch<Arc<DbSnapshot>>  (latest value only)
   poller ------------------------------------> terminal frontend --> recordings
     ^  \                                   \-> web server --> event streams
     |   `--> history file, growth rings, error log
     |
     +--- admin commands, definition requests  (mpsc)
     +--- database switch, server switch       (mpsc)
     +--- refresh, interval, shutdown          (watch)
```

| part | source | state it keeps | operations | correct when |
|---|---|---|---|---|
| poller | `poller.rs` | coordinates, history ring, schema/statements/io caches, shared telemetry, definition on screen, last command result, backoff | connect, poll, publish, collect, execute commands, fetch definitions, switch, back off, stop | a snapshot is about one database; nothing survives a switch but a history file of its own key; requests are taken; shutdown always ends it |
| telemetry tiers | `poller.rs` | three clocks, refresh signal, one error slot, recovery flag | tier 2 (3 s), tier 3 (30 s), slow tier (60 s), forced refresh | what is kept for a lens is its last good answer, shown from the end of the tier on, under its own age; the error slot names a real failure; refreshes are honoured |
| collections | `poller.rs`, `db.rs`, `queries.rs` | none, within a session | queries by version and extension in shared transactions, decoding | a failure takes nothing else with it; a query fits its server |
| rates | `poller.rs` (`derive_*`) | the previous reading, baselines | collect | never negative, never more than what happened, ratios within 0 and 1 |
| history | `history.rs`, `history_store.rs` | ring of points, one JSONL file per target | load, append, compact | a file holds the points of its key, in order; faults cost few of them |
| schema growth | `schema_growth.rs` | a ring of sizes per table | push, retain, show, reset | like is compared with like, in bounded memory |
| error log | `error_log.rs` | throttle per subsystem | log | every error is written or counted |
| verdicts | `blocking.rs`, `blocks.rs`, `index_advisor.rs`, `models.rs`, `xact_age.rs`, `idle_sessions.rs` | none | from a snapshot | forest and waits agree; advice is coherent; numbers hold at any width; alarms only rise |
| flight recorder | `recording.rs` | files named by start and end second, the open writer | create, append, rotate, finish, prune, list, delete | written frames are kept, in order; the active file is never pruned; names read back |
| terminal frontend | `app.rs`, `event.rs`, `ui/mod.rs` | the `App`: lenses, panels, overlays, lists with cursor and filter, screen, freeze, replay, recording, prompts | keys, ticks, snapshots | what is on screen is what the mode says; keys act on what is shown; in a replay nothing acts on the server |
| main loop | `main.rs` | channels, slots of waiting requests, psql target | drain requests, draw, start, shut down | no decision is lost, doubled or overtaken |
| start | `main.rs`, `settings.rs`, `services.rs`, `remote_config.rs` | cache of the remote list | fetch, cache, merge, choose, resolve | the named service is the one connected to; what is stale is told |
| web server | `lib.rs` | router state, streams | snapshot, stream, admin, switch, refresh, records | shutdown cannot deadlock; a stream sends the newest and the last |
| rendering of replication | `ui/macro_lens.rs`, `ui/replication*.rs` | none | draw | the worst comes first and is not cut off |
| web frontend, other rendering | `frontend/src`, `ui/` | last snapshot, views | draw | not a protocol |

What is hard here: two lanes on two connections share telemetry and wake each
other; the outer select of a session is biased and drops the futures of both
lanes at any await; switches replace the target while data, requests and files
of the old one are around; errors come one view, one transaction and one
subsystem at a time; counters are reset under the reader; live snapshots meet a
frozen or replaying display, and replace the rows under cursor, panel and
prompt; overlays, panels and editors in any combination decide who gets a key; files are rotated, pruned, compacted and deleted by several actors, any
step of which may fail; processes end between two writes.  `PROJECT.json` lists
each hazard at its line with the properties that watch it.

## The modules

| module | models | proofs |
|---|---|---|
| `SnapshotFeed` | what the poller promises its frontends (abstract) | |
| `Poller` | `run`, `session`, `fast_loop`, `telemetry_loop`, `single_conn_poll_loop`, request channels | `PollerProofs` |
| `TelemetryLane` | cadence, caches, error slot and refresh of the telemetry tiers | `BackgroundProofs` |
| `Collections` | every `collect_*`, statement by statement | `ReadingsProofs` |
| `Rates` | every `derive_*` and hit ratio, over counters that are reset | `ReadingsProofs` |
| `LockTree`, `IndexAdvisor`, `SequenceGauge`, `AgeAlarms` | verdicts over a snapshot | `ReadingsProofs` |
| `ReplicationView` | panel and lens of replication | `ReadingsProofs` |
| `PointLog` | what a history file promises its readers (abstract) | |
| `HistoryStore` | ring and file of a target | `StoresProofs` |
| `SchemaGrowth`, `ErrorLog` | growth rings, the throttle | `StoresProofs` |
| `RecordNames`, `FlightRecorder` | names of recordings; writer, pruning, deletion | `StoresProofs`, `RecorderProofs` |
| `ConnSettings`, `Startup` | the source of each field; services over many starts | `StoresProofs` |
| `TuiApp` | freeze, replay, recording, confirmation | `TerminalProofs` |
| `TuiShell`, `TuiList` | keys, lenses, overlays; one sorted and filtered list | `KeysProofs` |
| `TuiLoop` | the hand-over of what was asked to the poller | `TerminalProofs` |
| `WebServer` | streams, handlers, shutdown | `BackgroundProofs` |
| `Absent` | `None` | |
| `MC*` | constants for TLC, and compositions | |

How they fit together.  `Poller` extends `SnapshotFeed`: it has the feed's two
variables, `target` and `published`, among its own, and implements `FeedSpec` with
those (checked and proved).  `Poller`, `TelemetryLane` and `Collections` are three
views of the same loops: the first keeps WHOSE data flows where and abstracts
time to a choice, the second keeps the clocks and the outcomes of whole
collections for one server, the third has one collection at a time and what
each of its statements may come to.  `Rates`, `HistoryStore`, `SchemaGrowth` and
`ErrorLog` are what a collection is fed into.  The frontends consume the feed:
`TuiApp` (its `Live(i)` is the i-th snapshot of the channel) writes a recording as
a sequence, and `FlightRecorder` is what that sequence becomes on disk; `TuiShell`
decides which key reaches which part, `TuiList` is the list it reaches, and what
both ask for fills the slots of `TuiLoop`, whose channels are the free inputs of
`Poller`.  `WebServer` feeds the same channels.

`MCReadings`, `MCStores`, `MCTerminal` and `MCBackground` put modules side by side
that share no variable in the code: a behaviour is one of theirs, chosen by
`part`, while the others stand still.  Their state spaces add up instead of
multiplying, and the properties of each part are those of the part alone.

### Poller

| variable | in the code |
|---|---|
| `target`, `store` | the coordinates in `run`; `HistoryStore.path` |
| `published` | value of the snapshot `watch` |
| `pc`, `mode`, `tel` | the await the `run` task, and the telemetry lane, is at; number of connections |
| `local` | `history`, `schema`/`statements`/`io_stats`, `table_detail.current`, `last_admin` |
| `shared` | `SharedTelemetry` |
| `files`, `FileOf` | the history files on disk; `history_key`, which may give targets one file |
| `held` | the command a lane has received and is executing |
| `backoff`, `polledOk` | same |
| `wake` | the permit of `fast_wake: Notify` |
| `dbQ`, `serverQ`, `adminQ`, `detailQ`, `shutdown` | the channels |
| `open` | some receiver is left, so `send` succeeds |
| `fetched`, `unseen` | history variables of the properties, read by no guard |

Rows are abstracted to the target they were read from.  An action is the code
between two awaits; the futures of a session are dropped together
(`EndSession`), and `Quiet` is the biased select: lanes run only while no
control branch is ready.  Publishing is one action with everything the code does
there: push to the ring, send, append to the file, or every so often compact it.
The slow tier of the telemetry lane is three awaits (`schema`, `storing` and the
copy to the shared state): after each of the first two the code may change
`shared.last_error`, and it notifies only at the end.

### TelemetryLane

`lane` is the place in one iteration (`top`, `tier2`, `tier3`, `decide`,
`schema`, `statements`, `io`, `rest`; on one connection also `poll`), `turn` its
locals.  `schema` and `statements` are what the lane keeps (`SchemaState`,
`StatementsState`), `shown` the copy in the shared state that the lenses draw,
written by `Share` after the last await of the tier; `unshared` says that a newer
answer waits for it, or was dropped with its session.
Clocks are kept as ages, counted to the interval they are compared with and
stopped there, so that time needs no bound.  Rows are the epoch of the catalog
they were read in; `good` and `latest` record what collections really returned
and are read by properties only.

### Collections

`Plan` is the list of transactions of a collection and of the views each asks;
`session` is what was found out when the session began, `conn` the transaction;
`run` is the one in progress, with the answers so far, `failed` what went wrong and
how ("denied", "broken", "garbled", "lost"), `shown` the panels with data, `badge`
the error slot.  The server is `version`, `extension` and what the role may see,
and changes between any two statements.  `Query` is one statement: it fails the
rest of its transaction, or only itself when the code runs it in one of its own,
and `GivesUp` is the `?` after it; `EndTransaction` is the commit, whose error
some collections return and others drop; `Finish` is what the caller stores.
Views the code treats alike are represented by one.

### Rates

`counter` has the counters of one `family`, `prev` what the code remembers of the
collection before (`raw`, and a baseline for the checkpointer), `gap` the whole
seconds between, `since` and `disturbed` what really happened meanwhile.  `Collect`
is a collection followed by its `derive_*`; `ResetOf` is `pg_stat_reset` or a
restart; `NewSession` forgets what belongs to the session.  Rates are pairs, as the
code's divisions only matter by their sign and zero.

### LockTree, IndexAdvisor, SequenceGauge, AgeAlarms, ReplicationView

Each has the variable its algorithm reads (lock rows, index rows, a sequence,
transactions, slots), actions for what the server may do to it, and the
algorithm as operators.  `Trees` is `build_blocking_tree` as the set of trees by
root with the paths each walk takes, `BlockingChain` the chain of one session;
`Classify` is `classify` with its first applicable claim; `Remaining`, `UsedUp` and
`Exhaustion` are the machine arithmetic, with `Saturated` for `saturating_sub` and
`Wrapped` for the plain subtraction in a release build; `XactSeverity` and
`Headline`; `Ranked`, `Lines` and `LensOrder`, two orders of the same slots.

### HistoryStore, SchemaGrowth, ErrorLog

A history file is a sequence of points and unreadable lines, `open` when its last
line lacks a newline, so the next is glued to it; `RecordPoint(fate)` pushes on the
ring and appends in two writes, each of which may fail or be the last thing the
process does; `Compact` rewrites by rename.  `Reader` is the refinement mapping to
`PointLog`: a reader's log is what parses.  `SchemaGrowth` has the catalog, the page
the query returns (`Largest`, then partition parents), the rings by oid, and
`sizes`, what the catalog really said.  `ErrorLog` has the throttle and the lines;
`spell` counts what was reported since the message last changed.

### ConnSettings, Startup

`Resolved` fills fields from the DSN, the service, the environment and defaults in
the order of the code, while `Winner` in the property says who should win.
`Startup` has the world (published lists, network, local file, environment, URL),
the cache, and the session with the entry it uses and whether the user was
warned; `StartProgram` is a whole start, `StartCutShort` one that ends after the
cache was half written, `PickService` and `SwitchServer` what happens later.

### FlightRecorder, RecordNames

`dir` maps file names, pairs of seconds, to lines; `writer` is the
`RecordingWriter` with its `sink` present or not; `records` is `app.records` with
its active mark, which may be stale; `Settle` is `refresh_records`, that is prune
and list, and is part of every action whose code calls it.  Every file operation
may fail where the code lets it: closing, renaming (ignored), creating, writing,
deleting.  A file created or renamed takes the place of one of the same name
(`Replacing`).  `owed` has the frames that were written to a file nobody deleted and
no other replaced.  `Foreign` is a second pg_lens or the web server's DELETE.
`RecordNames` is the calendar by hand and the parsing of a name as words between
hyphens.

### TuiApp, TuiShell, TuiList, TuiLoop

`TuiApp`: `screen`, `paused`, `pending`, `replay`, `saved`, `confirming` are the
fields `snapshot`, `paused`, `pending_snapshot`, `replay_state`,
`live_mode_saved_snapshot`, `confirm`; one action per key that changes them in the
modes where it does, plus the arrival of a snapshot (which records before it shows
or parks), the playback tick and quitting; `began` and `reported` remember, for the
property, how a recording began and which failed writes were told.  `TuiShell`: `tab`, sub-views, panels,
the set of open overlays, the lists whose filter is edited, splash, replay, and
what the last key asked for; `Arms` is the order of the arms of `handle_key`,
`Handler` the order in which overlays are asked, `Drawn` the order in which `draw`
paints; `asked` may be `None` where a row, a table or another value is needed that
may not be there.  `TuiList`: `rows`, the filter with the text to go back to, `order` (the
display order), `cursor`, `panel`, `prompt` and what was `done` with which row;
`Resort` and `Clamp` are inside every action whose code calls them.  `TuiLoop`:
each kind of request has what was asked, the slot (`pending`), the channel (`queue`)
and what the poller has `taken`; a pass of the loop is one action that handles an event and then drains
every slot once, in the order of the code.

### WebServer

`stage` is "serving", "stopping" after Ctrl+C, "draining" once nothing is accepted
any more, "ended"; `stream` and `seen` are each client's stream and the version it
sent; the poller is `snapshot` and whether it still runs (`poller`); `queue` is what
waits in each channel, of `Room` places.  Handlers are one action each with their gates
(token, read-only, known database or server).  `PollerStops` is what telling the
poller inside `with_graceful_shutdown` sets off; with `Mock` nobody tells it.

## The runs

| run | instance | shows |
|---|---|---|
| `PollerSwitch` | 2 servers x 2 databases, those of a server with one history file, switches in flight, both session modes; 3.1M states | `TargetsApart`, `BackoffShrinksOnlyAfterData`, and that the poller implements the feed (`FeedSpec`) |
| `PollerCommands` | 1 target, 1 switch, 2 commands and 2 definition requests queued; 3.9M | `NoLostWake` between the lanes, `ResultSeenBeforeNextCommand` |
| `PollerLive` | 1 server x 2 databases, all reachable; 0.12M | `SessionsStop`, `SwitchesTaken`, `TargetEventuallyShown` |
| `TelemetryData` | two connections or one, every tier always due, one failing subsystem of tier 3 and both of tier 4, 2 catalog epochs, sessions that end at any await, switches; 6.8M | `NoStaleError`, `LastGoodShown` |
| `Background` | telemetry on one connection and on two, a primary, a standby and a promotion; web server with 2 clients, 1 target, every channel of one place; 0.33M | `RefreshHonouredSingle`, `SlowTierRecurs`, `RoleCaughtUp`, `LastWordSent`, `NewestArrives`, `StopEnds` |
| `Readings` | server 13 or 16, all 8 kinds of collection; counters to 2 per gap; 3 backends, 3 indexes, 3 slots, 2 transactions; 4-bit integers; 0.78M | `CollectionSound`, `ErrorsContained`, `DerivedHonest`, `ForestFaithful`, `AdviceCoherent`, `SequenceHonest`, `AlarmsSound`, `WorstFirst` |
| `Stores` | recordings of 3 snapshots of 1 or 2 lines' room, 3 seconds, files of 2, quota 2, retention 1 s; days of 131 years, 6 targets; 7 points in a ring of 3 with 2 faults; 3 tables, 1 of them a parent; 2 subsystems x 2 messages; 2 editions of the remote list; every subset of sources; 0.60M | `RecordingIntact`, `PruneKeepsNewest`, `ActiveSpared`, `NamesReadBack`, `GrowthSound`, `SpellAccounted`, `FieldsFromBest`, `ChoiceHonoured`, and that the history file implements the log of points (`KeepsPointLog`) |
| `Terminal` | recordings of 1 and 3 frames, 4 live snapshots; every key on every lens; lists of 2 rows in 6 lenses; channels of 2 and 1 places, 3 commands; 0.66M | `RecordingGapless`, `ScreenFaithful`, `KeysFollowScreen`, `ReplayActsOnNothing`, `ListSound`, `ActsOnWhatIsShown`, `HandedOver` |
| `TuiNestedReplay`, `PollerWrongServer`, `TelemetryRefreshLost`, `RecorderUnwritten` | smallest instances that fail | see [disagreements](#disagreements-between-code-and-documentation) |

Why the bounds are enough:

- Two targets that differ in the server and two that differ only in the database
  are all the relations between targets the code distinguishes; a snapshot that
  mixes three targets already mixes two.  That the databases of a server share a
  file stands for any two targets with one `history_key`; the servers' files are
  apart.  For any number of targets and any files see `SnapshotsNeverMix`.
- A queue of one makes a request wait behind a running command, a queue of two
  makes two commands follow each other without a poll between them unless the
  code forces one; longer queues repeat that.  `PollerSwitch` leaves commands out
  and `PollerCommands` leaves a second target out: their combination is
  `PollerWrongServer`.
- `BackoffMax = 3` with `BackoffInitial = 1` has a doubling, a capped doubling and
  a stay at the cap.
- Cadences 1, 2, 2 of tiers 2, 3 and 4 keep the order of 3 s, 30 s and 60 s in
  `Background`, where time matters and no subsystem fails.  In `TelemetryData`,
  which is about data, every tier is due in every iteration: what a longer cadence
  would skip is an iteration in which nothing changes.  A second epoch tells old
  rows from new ones.  One subsystem of tier 3 and both of tier 4 fail there, the
  statements in two ways: errors of one tier and of two meet in the one slot they
  share.  The theorems are about every subsystem and every way of failing.
- A recording of one frame is both first and last, one of three has a frame that
  is neither.  Four live snapshots allow one before a freeze, two behind it and
  one after.
- Three snapshots make two rotations, of which the first may fail at any of its
  steps before the second, or three recordings one after the other; two sizes make
  one snapshot due for a rotation and the next not.  Three seconds let files of one
  second meet, and with retention 1 one file grow too old while another is young.
- In `Readings`, two collections after one another have an error cleared, kept or
  replaced; two of them over three states of a server that changes under a
  statement.  Rates need a reset, growth past the old value and a missing reading,
  which work of 2 and a gap of 1 have.  Three backends make chains, forks, joins
  and cycles with a tail; three indexes make a claim rest on one that is itself
  claimed.  Four bits have every relation between a range, a difference and the
  width; `MaxAge` is past the last threshold.
- In `Stores`, a ring of 3 is full, overflows and is compacted within 7 points; with
  two faults a torn line is followed by another or by a crash.  Dates run to a day
  in 2101, past the century that is a leap year and one that is not.  One row per
  page and a floor of 2 rings make tables leave the page and rings be dropped.
- In `Terminal`, two rows are sorted, filtered and replaced under the cursor, and a
  third would only add another neighbour; a filter of two characters has a
  narrowing and a widening; three commands for two places make one wait while
  another is taken.
- Servers are symmetric in `PollerSwitch`, which has no liveness property.

Deadlock is checked in the runs of `Poller` and `TelemetryLane` (the poller's end is a stuttering action, `Terminated`).
It is not in the composed runs and in `TuiNestedReplay`: after `q` the terminal has
stopped, a web server has ended, and bounded counts are used up.

Fairness.  `Poller!Fairness` says that awaits return: sleeps elapse, queries and
connection attempts end, if only with an error, and the runtime keeps polling a
ready task, which is weak fairness of each of the task's parts (`Run`, `Connect`,
`FastLane`).  A lane of an async task is not starved because the inner select
polls both.  Strong fairness of `Connection` and `Publication` says that a
reachable, healthy server does not fail for ever; without it
`TargetEventuallyShown` has nothing to stand on, the other liveness properties
hold for the same reasons without a healthy server being needed to back off or
stop.  `TelemetryLane!LiveSpec` assumes that its loop and the polls of the other lane go on,
time passes and sessions are started again.  `WebServer!WebFairness` assumes that streams are
polled and that a poller told to stop ends, which is `SessionsStop`.  Nothing is
assumed of users, browsers, the frontends' requests or the lifetime of a session.

Every property of a passing run has a mutant, an operator next to the mapped
one in the module (`ResetKeepingTelemetry`, `NotifyForgotten`, `SettleStale`, ...): a
plausible slip of the code with which TLC finds that property violated.

## The proofs

`PollerProofs` (for any servers, databases, files, capacities, modes):

- `TypeCorrect`: `TypeOK` is inductive; one lemma per group of actions.
- `SnapshotsNeverMix`, `HistoriesStayApart`, together `TargetsStayApart`.  Nothing is
  assumed of the files: targets may share them, and what is shown is that this is
  all they ever share.  `NoMixedSnapshot` alone is not inductive: a snapshot is
  assembled from the ring, the shared telemetry and the caches, and the ring was
  loaded from a file.  The invariant is
  `OneTarget == LocalOwn /\ SharedOwn /\ FilesOwn /\ NoMixedSnapshot`: everything
  the task holds was read from `target`, the ring from targets with its file
  (`SameFile`), the open file is the target's, and every file has points of its own
  targets only.  The switch is the step that needs `FilesOwn`, since it loads the
  new target's file.
- `PollerImplementsFeed`: every step is a `Refresh`, `Degrade` or `Retarget` of the
  feed or leaves it unchanged.
- `WakesAreKept`: `NoLostWake` is inductive by itself: the lane falls asleep only by
  publishing, and the slow tier, while it may leave a change unannounced, is not
  over before it notifies.
- `ResultsAreSeen`: from `ResultShown`, the same for a lane that waits.
- `BackoffGrows`, an action property: from `PolledMeansShown` (`polled_ok` is false
  while connecting, and in a session stands for a snapshot on screen).

`BackgroundProofs`, of `TelemetryLane` (for any cadences, ways of failing, number of
epochs): `TypeCorrect`; `BadgeNeverStale` (inductive with the types); `LastGoodAlways`
from `DataInv == HoldsLastGood /\ AgeIsHonest /\ NothingCollected /\ LensesShared`,
where `NothingCollected` (a lens never collected has no rows) is what the arms for a
first failure need, and from `Waiting` (between the answer and the copy the answer
is marked as unshared), which is what makes `Share` restore `LensesShared`.  Of `WebServer`
(for any clients and channels): `LastWordAlwaysSent`, from `OverWhenSilent`, that
streams end only after the poller.

`TerminalProofs`, of `TuiApp` (for recordings of any lengths, any number of arrivals):
`TypeCorrect`; `ParkedIsNewest`, `ReplayFaithful` and `CommandsAreLive` from
`Modes`, which adds that a snapshot to return to is saved only in replays
(leaving one would otherwise not be the end of it) to the three; `FreezeHolds`, an
action property, from the same invariant, and with it `ScreenAlwaysFaithful`;
`NothingUnrecorded`, inductive with the types: the entries are the opening screen and
one for each arrival since `began` that was not reported as lost.  Of `TuiLoop` (for channels of any
capacity): `DecisionsHandedOver`: what was taken, what is in the channel and what
waits in the slot are, one after the other, the commands in the order of their
confirmation, and end with the last choice.

`KeysProofs`, of `TuiShell`: `KeysAlwaysFollow` and `ReplayNeverActs`, both from
`ShellInv`: at most one overlay or editor is open, each panel only in its lens,
and nothing in a replay that acts on the server; every key is taken through it.
Of `TuiList` (for any rows, keys, filters): `ListAlwaysSound`; that the rows shown are
the present ones that pass the filter, each once and in the order of the keys, is
had by counting for each row who is ahead of it (lemma `Places` of `DataLemmas`); `ActsAlwaysOnShown`, an action property over the same
invariant.

`ReadingsProofs`, of `Rates` (for counters, work and gaps of any size):
`RatesAlwaysHonest` from `IInv == TypeOK /\ InStep /\ CarriedSound`.  `InStep` relates
the counters shown, the reading remembered and what happened since: an
undisturbed view shows the reading and the work, a disturbed one at most the
work.  `CarriedSound` is needed because a hit ratio may be carried over from the
collection before.  Of `SequenceGauge` (for machine integers of any width and any
bounds): `SequenceAlwaysHonest`, from `Bounds` (a value handed out stays within its
sequence).  `Differences` says what saturating and wrapping make of a difference.
Of `AgeAlarms` (any sessions, any ages): `AlarmsAlwaysSound`, since the oldest
transaction stays the oldest while all of them age.  Of `IndexAdvisor` (any finite
set of indexes): `AdviceAlwaysCoherent`.  The advice leads from an index to a wider
one; if it never ended, there would be more widths in a row than indexes.  Where
it ends is an index that stays or has an equal that does (`FollowedStandsIn`).
Of `ReplicationView` (any slots, caps and replicas): `WorstAlwaysFirst`, from `RepInv`
(what is listed is each slot once, in the order of the query).  Each order has as
many ahead of a slot as its place says (`SortedIs`).  Panel and lens break ties in
different ways; if they judged differently at some place, one of them would have
more slots of a worse kind up to there than the other has room for (`FirstOfBoth`,
the pigeonhole principle).
Of `LockTree` (any finite set of sessions, any waits among them, any order of the
rows): `ForestAlwaysFaithful`.  Only the type of the rows is needed of the state; the
rest is about graphs.  What the code grows by recursion is shown to be what it ought
to be: who stands above a session is the least set with it that is closed under
blocking (`EndsAre`, since a set that grows in a finite one stops, `Saturates`), the
paths of a tree are all the paths from its root that meet nobody twice (`PathsAre`),
and so a session has a node exactly where the root stands above it (`ReachedIs`).  A
tree is added and flagged only for a session no free one stands above
(`WithTreeBelongs`); a chain that does not repeat itself is one of the paths, read
backwards (`ChainBack`).

Of `Collections` (any servers and extensions, any number of collections):
`CollectionAlwaysSound` and `ErrorsAlwaysContained`, the latter two action properties,
from `CollInv`.  Its parts are what the plan of a kind is made of (`PlanFits`: a tier
has one view to a transaction, a catalog begins with the tables and indexes), what
has come of the places already passed (`Told`: each was read or has failed of
itself, or the catalog was given up for one of its tables), when an open
transaction can be aborted (`TxFits`), and what the badge stands for (`BadgeFits`).
`TxFits` is what it turns on: "skipped" is no failure of a view's own, so none of the
views that must be accounted for may ever meet an aborted transaction.

`RecorderProofs` (for any quota, retention, sizes, seconds): `ActiveAlwaysSpared`, an
action property.  What is deleted by hand is picked from a list that may be older
than the writer's file, so the invariant has to say that the list then does not
have it: `ActiveKnown`, which rests on `NamesPast` (no open file is named after a
second to come, nor after one in which the writer's file had not begun).
`OrderAlwaysKept` is from `Order`: the files tell one `Story` (each `Rising`, closed
ones `Disjoint`, what begins later `Later`), nothing in it is yet to come, and the
writer's file is the last of it (`WritesLast`), also when a rotation could not create
it.  `RecordingAlwaysIntact` is the same for what was written and must be there: a
frame leaves `dir` only with its file, and a file leaves only by a deletion or under
another of its name.
`PruneAlwaysKeepsNewest` says what pruning keeps; since the oldest go first, all that
is kept lies within what the oldest kept file left room for.  The bytes of a set of
files are modelled as a set, each byte with its file and place, so that the
library's facts about cardinalities add them up.

`StoresProofs`, of `HistoryStore` (for any ring, points and faults): `HistoryKeepsLog`, the
refinement of `PointLog` step by step, and `HistoryKeptThroughFaults`, the same with
what faults may cost.  What a reader finds is a recursive function of the lines;
lemmas say how it grows by a line, by a part of one, and what a rewrite leaves of
it.  The invariant has what the open line at the end of the file still owes.  Of
`SchemaGrowth` (any tables, sizes, cap, lookback): `GrowthAlwaysSound`, from
`Aligned`: a ring is the last part of what was read of its table, as far back as
its capacity, the table's first reading or the last reading at which the table was
beyond the cap; the growth shown is then a difference of two readings.  Of
`ErrorLog` (any subsystems, messages, interval, restarts): `SpellsAlwaysAccounted`,
from what the lines of the present spell tell and the throttle holds back.  Of
`Startup` (any lists, names, editions): `ChoiceAlwaysHonoured`, two action properties
at once.  Of `ConnSettings`: `FieldsComeFromBest`, for everything the sources may say.
Of `RecordNames` (any day to come, any targets that are not empty): `NamesAlwaysReadBack`.
The invariant has for each day its era of 400 years, its year from March, month and
place in it (`Matches`); the calendar's step to the next day is a step of that
(`NextOf`), and each of the code's divisions gives one of the four back (`EraIs`,
`YearIs`, `MonthIs`).  The rest is about where a name's words are (`BegunWords`,
`ClosedWords`), and, for a target with the word that separates the times, where it
is cut (`CutReadBack`).

`DataLemmas` has what these need of numbers and finite sets.  The library's induction
theorems take an operator, which the provers cannot instantiate, so induction is
had in another form: `Induction` is about a SET of numbers that has 0 and the
successor of every member, and rests on the minimal element of a well-founded
order (`WFMin`).  `Recursion` and `Recurses` relate a recursive function to a sequence of
rules applied in turn, and `SameRecursion` says that two which apply the same rules
agree.  With those, the recursive functions of `HistoryStore` and `ErrorLog` are
within reach; RECURSIVE operators are not, nor is `SelectSeq`, which takes an
operator: where a property needed it, it is stated with positions.

Assumptions are those named in the modules (`FileOfType`, `BackoffType`,
`CadenceType`, `LengthsType`, `HighType`, ...), which TLC evaluates on every run; no
theorem has others.  `NoMeaning`, `NoRequest`, `NoValue`, `NoRows`, `NoRun` and a part of `AdvisorBounds` say that `None` is not one of the values it
is the absence of: what `Option` gives the code for nothing.

Only model-checked: the liveness properties (fairness and ENABLED are out of the
prover's reach).  Every invariant of the passing runs is a theorem.

## Disagreements between code and documentation

Shown by a run:

- `PollerWrongServer`: the admin channel is not drained on a server switch; a
  queued cancel or terminate runs on the new server, with the same PID number.
- `TelemetryRefreshLost`: on two connections a refresh that ends the lane's sleep
  is marked as seen by `changed()` (`poller.rs` 1489), so `has_changed` in
  `SchemaState::due` is false and nothing is collected.
- `TuiNestedReplay`: Enter on a recording inside a replay saves the recorded frame
  as the view to return to; after Esc it counts as live.
- `RecorderUnwritten`: after a rotation that could not finish or create a file,
  `bytes_written` keeps the old file's size and the sink is gone.  A snapshot small
  enough not to be due is written nowhere, is counted, and `append` returns
  `Ok(None)`, "written to current file" (`recording.rs` 664, 678): `CountedIsWritten`.
  `RecordingGapless` goes by what `append` returns.

In the models, to be seen with a property that no run checks or with other
constants:

- The switch channels are only awaited inside a session (`poller.rs` 1106, 1113).
  After a switch to a database that refuses the role, neither the backoff nor the
  connect phase listens, so not even a request to go back is taken: `PollerLive`
  with `Unreachable <- ClosedDatabase` breaks `SwitchesTaken`.
- The definition on screen lives in `shared_telemetry` on two connections and in
  `table_detail.current` on one; when a reconnect changes the number it is lost, or
  an older one comes back: `DefinitionSurvivesReconnect` in `Poller`.
- A psql opened after a database switch goes to the database before it:
  `main.rs` 1476-1482 sets the target on a server switch only, against
  `main.rs` 831-833, README.md:169-170 and `app.rs` 2017: `PsqlSameTarget` in `TuiLoop`.
- `serve --mock` never stops on Ctrl+C while a stream is open (`lib.rs` 111): there is
  no poller to tell; `StopEnds` with `Mock = TRUE`.
- Targets whose host, port and database differ only in characters other than
  letters, digits, `-` and `_` share a history file (`main.rs` 963-976 against its
  comment at 945): `HistoriesOfOneTarget` in `Poller`, at once in `PollerSwitch`.
- File names have a resolution of one second and are replaced by `rename` and
  `File::create`: two recordings, or rotations, of one second overwrite each
  other (`Replacing`; such frames are not in `owed`, so `RecordingIntact` excepts them).
- The first frame of a recording is written with `let _ =` (`app.rs` 1185), and
  "Recording started" is announced also when it failed: `StartedHasFrame` in `TuiApp`.
- A narrow index may be called redundant to a wider one that is invalid, against
  "`partner` alone could serve every query this index serves" (`models.rs` 629-631):
  `PartnerServes` in `IndexAdvisor`; or to one that is itself called unused, so that
  who follows both verdicts has neither: `AdviceOnAllSafe`.
- The names of recordings are split at the first word `to`: `prod-to-staging` is read
  back as `prod`, without times (`recording.rs` 257); `NamesReadBack` says what is
  left.  31 February is accepted.
- Statements are asked for, or not, as found when the session began, although
  `poller.rs` 333-347 says that the decision "just re-ran": `UnavailableIsCurrent` in
  `Collections`.
- The replication lens says that none of it is clipped and is clamped to the
  screen: `ClipsOpenly` in `ReplicationView`, with more senders and slots than lines.
- `DuplicateExact` indexes are "interchangeable" (`models.rs` 626-628), though the
  comparison ignores expressions and sort options:
  `DuplicatesInterchangeable` in `IndexAdvisor`.
- A broken list fetched from the network replaces the good one in the cache before
  it is parsed (`main.rs` 470-477), and the next start without a network fails even
  with a good local file, against "never blocks startup" (`main.rs` 222):
  `NeverBlocksStartup` in `Startup`.
- Keys named on the status bar do something else or nothing: `d` on Records opens the
  database picker, `b` jumps to Blocks, Enter on Macro and `w`, `c`, `K` on Idle do
  nothing: `HintsTrue` in `TuiShell`.

Met while modelling, smaller ones or ones no property states:

- README.md:774 speaks of "protecting currently recording files": a second
  instance's pruning and the web server's DELETE know nothing of this one's, and
  frames then go to an unlinked file (`Foreign`; such frames are not in `owed`).
- `poller.rs` 1358 may read the recovery flag before the fast lane's first poll, and
  after a promotion before its next one: on a standby the replication view of a
  primary is queried once per session.  `RoleCaughtUp` says that it does not last.
- A session on two connections that ends in the statements or `io_stats` query keeps
  the rows of the schema in the lane; the lens shows older ones until the next
  collection, and their age goes on (`poller.rs` 1471-1475).
- In a replay Enter and cursor moves on Schema Tables still ask the connected server
  for the definition of the recorded oid (`app.rs` 2764-2781, `main.rs` 1522-1526), and
  `+`, `-` still change the poller's interval: what `ReplayActsOnNothing` allows.
- CHANGELOG.md:42 says that a denied query is logged only; a denied schema or
  statements query lights the badge (`poller.rs` 1424, 1451).  Failures of senders
  and receiver never light it, and a transaction that cannot be begun clears it.
- Lock columns are documented as best effort (`models.rs` 429) and are read by the poll
  that ends the session when it fails.
- A live snapshot that arrives in a replay of an unfrozen frontend replaces the
  frame on screen (`app.rs` 1352) while the timeline keeps its position
  (README.md:806), hence the condition in `ReplayShowsFrame`.
- Esc shows the snapshot that was on screen when the replay was opened, even if
  newer ones arrived meanwhile.
- CHANGELOG.md:165 describes replay as "auto-looping on reaching the final frame";
  without `--loop` it stops there (`Play`).
- The database picker compares with the database on screen: B, then A before B is
  shown, ends at B (`app.rs` 2461).  A choice made from the list of one server may
  reach the next one.
- Sorting the schema lens under an open definition shows another table's name over
  it until it is asked for again; in a replay the request is made with a
  recorded oid.  The comments at `app.rs` 1643-1645 and 2957 do not hold.
- Sessions that merely wait behind a cycle are shown as deadlocked; descendants are
  counted once per path; `max - min` of a sequence wraps (`models.rs` 715), and
  a sequence with a step of more than one may have no value left and be a warning only.
- `RING_CAP` of 90 samples 5 s apart covers 7.5 minutes of the hour that growth is
  measured over when collections are forced that often.
- A history file grows without bound over starts too short to compact it, and two
  processes on one target compact through one temporary file.
- `connect_timeout=0` in a DSN counts as not given; a services file named by a flag that does
  not exist is ignored when a configuration URL is given.

## What is not modelled

- Layout, colours and wording of the panels, and the web frontend's rendering; its
  reconnecting stream is a client of `WebServer`, its scrubber works as the replay.
- Reading recordings back (a torn last line makes `load` fail for the whole file),
  gzip, snapshot bookmarks, custom recording paths.
- Two processes on one history file; two on one cache of services.
- Clipboard, the psql process itself, the three seconds `shutdown_poller` waits.
- What SQL texts mean: a query is a view that is asked, may be denied, may be
  absent in a version, and has the columns that version has.
- What PostgreSQL does with a query whose connection was aborted.
- Parsing of command line, TOML and DSN, beyond which source gives a field and
  whether the file is well formed.
- Builds, packages, the site, scripts.

## Plan

Done: the modules above.  Next, in this order:

1. The composition of `TuiApp` with `FlightRecorder`, so that `RecordingGapless` speaks
   of files.
2. Two processes on one state directory: history, cache of services, recordings.
