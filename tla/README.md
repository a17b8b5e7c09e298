# Verification of mimir_ingest

mimir_ingest is a GraphQL service that builds search indexes: a client asks for
an index (`index_type`, `data_source`, `region`), the service downloads the
data, perhaps transforms it, feeds it to Elasticsearch with one of the
`XXX2mimir` programs, and keeps the progress in a table that clients can read.
This directory holds TLA+ models of it, their TLC configurations and TLAPS
proofs. Paths such as `fsm/mod.rs` are relative to the crate's source
directory; `migrations/` and `docker/` are beside it.

## The system

| Component | State | Operations | Hard parts |
|---|---|---|---|
| Index-building machine, `fsm/mod.rs` | current state, queue of events, PUB socket | `FSM::new`, `exec` (loop), `next` (table), `run` (work) | the table and the pushes are written apart and must agree; panics; the last published state decides when others stop |
| Download and processing, `fsm/{download,osm,bano,ntfs,cosmogony}.rs` | files in the working directory | `download`, `download_*_region`, `generate_cosmogony`, `index_*_region` | cached files that are partial or stale, leftovers of earlier extractions, a crash between two file operations |
| Index service, `api/indexes.rs` | a row per index, one listener task per index | `list_indexes`, `create_index`, `update_notifications` | commit before bind, tasks racing, messages missed or meant for another |
| Database, `db/*.rs`, `migrations/` | table `indexes` | insert, update status, list | one transaction each; pool of 5; SQLite locks |
| GraphQL API, `api/gql.rs`, `api/model.rs` | one SUB socket per client subscription | query, mutation, subscription | a stream shares the endpoint with the listeners |
| Application state, `state/mod.rs` | pool, settings | start-up checks | pool limit |
| Start-up, `main.rs`, `init.rs`, `settings.rs`, `docker/entrypoint.sh` | layered settings, database file | `init`, `run` | a child process that nobody waits for; precedence of settings |
| HTTP server, `server.rs` | none | routes | none of its own |
| Errors, unused authentication code | none | none | none |

How they interact:

    client --mutation--> create_index --INSERT, COMMIT--> table indexes
                              |  \                              ^
                       FSM::new   spawn update_notifications    | UPDATE status
                     (bind PUB)         |  SUB socket           |
                              |         v                       |
                        spawn exec --[topic, id, state]--> listener of each index
                              |                        \-> GraphQL subscriptions
                              v
              files, programs, Elasticsearch

Every build binds the same endpoint, `tcp://host:port` of the settings. This is
what keeps builds from overlapping: `FSM::new` fails while another machine
holds the endpoint. Listeners do not bind; ZeroMQ connects and reconnects them
in the background to whoever publishes.

What makes each component correct:

- machine: `run` pushes only what `next` knows; a build publishes a final state
  last and only last; `Available` is said exactly if the requested data was
  imported; an error leads to `NotAvailable`;
- service: builds exclude one another; a row follows its build without gaps
  and ends with its outcome if its listener was there in time; the endpoint is
  given back; a row shows its own build (this one fails, see Findings);
- downloads: a cached file is complete unless its writing was cut short; every
  file of an extracted archive is the archive's, whatever was there before;
- database: concurrent calls look as if made one at a time; no failure loses a
  connection; a transaction that was left open with a pooled connection is
  nobody else's; nobody waits forever;
- subscriptions: a stream has no gaps, says the last word of a build, and
  contradicts the table only where a row has another build's word;
- start-up: the table is there in the end, nothing waits for a program that
  waits for it; of the layers of settings the right one wins.

The hazards of the code, each at its line, are listed in `PROJECT.json`.

## Modules

| Module | Models | Status |
|---|---|---|
| `FsmTransitions` | the pure part of the machine: states, events, `next`'s table, what `run` may push | done |
| `FSM` | one machine and the loop `exec`, with panics | done |
| `Lifecycle` | abstract specification of a build | done |
| `Ingest` | composition: requests, rows, several machines, endpoint, listeners, crashes | done |
| `WorkDir` | the working directory: cache, partial and stale files, NTFS's two downloads, what unzip leaves, crash, retry | done |
| `Table` | abstract specification of the database: calls take effect one at a time | done |
| `Store` | pool of connections, transactions (also those left open in the pool), the write lock, dropped requests, crashes; implements `Table` | done |
| `Subscriptions` | extends `Ingest` with the streams of GraphQL subscriptions on the same endpoint | done |
| `Settings` | the layers of settings, their precedence and failures | done |
| `Startup` | the entry point, `init` with the sqlite3 program, `run`'s checks, restarts | done |
| `MC...` | instances for TLC, one per module that is run | done |
| `FsmTransitionsProofs`, `FSMProofs`, `IngestProofs`, `WorkDirProofs`, `StoreProofs`, `SubscriptionsProofs`, `SettingsProofs`, `StartupProofs` | proofs | done for the theorems below |

`Ingest` composes the machines of `FSM` (by `FsmTransitions`) with the service;
`Subscriptions` composes `Ingest` with the streams. `Ingest` takes a write to
the database as one step and a list as none; that is what `Store` implementing
`Table` justifies.

What is left of the plan: every safety property of the passing runs is proved,
and liveness cannot be. A composition still worth writing: a build of `FSM`
whose download and processing stages are the steps of `WorkDir`, to relate a
row that says `Available` to the data that was indexed. An abstract
specification of the whole service (an index is asked for, built or not, and
shown as it is) could then be stated and shown to be implemented.

### FsmTransitions and FSM

`NextType` and `NextState` are the match of `FSM::next`, row by row; every pair
that is not listed goes to `Failure`. (`ResetsTo` is where the four error
states lead.) `RunEvents(s, r)` is the match of `FSM::run`: the set of events
it may push in state `s` for request `r`. Stages that call out may fail or
succeed, so the sets have an error event and, if the request is known to the
arm, a completion. Requests are pairs of strings; three nested matches in the
code look at them, and so do `Downloaders`, `Processors`, `CanIndex` and
`OsmFlags`. Times, durations and texts are dropped. A path is `raw` (the
download) or `cooked` (cosmogony's output), which is all the properties need to
tell whether the right file is indexed.

`FSM` adds `exec`: `Transition` (pop and `next`), `Publish` (serialise and
send), `Run` or `RunNothing`, and `Close` when the queue is empty. An `unwrap`
is a panic: of the serialisation or the send (`PublishPanics`), of
`elapsed()` and of `from_utf8` (`RunPanics`, which includes the case that the
program had already done the import). `Failure(String)` is a newtype variant in
an internally tagged enum, which serde cannot serialise, so from `Failure` only
`PublishPanics` is possible; the `break` in `exec` is never reached.
`published` and `es` are the surroundings: what left through the socket and
what was imported.

`Lifecycle` is what a build promises: the data gets imported or not; at the end
the build announces, once, which; or it dies silently. `FSM` implements it with
`stage` defined from the last published state, and `indexed` from `es`.

### Ingest

`phase[i]` is the progress of `create_index` for row `i`: `CreateDb` (the
committed insert), then `StartFsm` (bind and the two spawns, with no await in
between, hence one step) or `RejectCreate` (the bind fails, or the client hangs
up and the request is dropped; the row stays).
`fsm[i]` is a machine, stepped by the same operators as in `FSM`; the property
`EachBuildIsAnFSM` states that each of them takes `FSM`'s steps.
`listener[i]` and `inbox[i]` are `update_notifications` and its SUB socket:
`Subscribe`, `Update` (receive, write the row in one transaction, stop at
`NotAvailable` or `Available`) and `ListenerFails` (an error ends the task and
nobody looks at its result). `Update` is one step because the receive and the
decision to stop are invisible outside the task: only the commit is seen.
`rows[i].from` records, for the properties only, which build's message the
status came from; `fsm[i].published` and `.imported` are history too.

ZeroMQ is external and modelled by what the code relies on: `publisher` is the
build that holds the endpoint; `Join` is a subscription reaching it; a message
is queued for the listeners connected when it is sent; `ReleaseEndpoint` is the
teardown after the socket is dropped, which happens when `exec` returns and
when it panics. Queues are unbounded (a build sends at most nine messages, far
below ZeroMQ's high-water mark: `NineMessagesAtMost`), and messages already sent
to a peer are delivered (the default linger) unless the process dies.

`Crash` is the death of the process followed by a restart: rows stay; machines,
listeners and queues are gone. The rows of lost builds are never taken up
again, which is what the code does. Row ids are handed out in order and never
reused (`autoincrement`).

### WorkDir

One region's files, build after build. `disk` maps each of five files to what is
in it: a version of the server's data, whether the list of datasets has an NTFS
entry, and whether it is `whole`. `pc` is the place in the code where the build
is: `download()` (`Lookup`, `Get`, `Create`, `Write`), then, for NTFS,
`ReadCatalogue`, `ForgetCatalogue`, `download()` again for the archive, `Unzip`
and `RemoveArchive`; for cosmogony `Generate` and `Generated`; and `Index`, when
the program of the data source reads its input. `extracted` is what `unzip` has
made in the same directory, file by file: of which archive each file is, and
whether it is whole. `unzip -o` overwrites what is there and leaves the rest
(`Overwritten`); a run that fails has got any of the files out and a part of any
others; and nothing ever empties the directory, so that leftovers of an earlier
archive that the present one lacks are still there, and ntfs2mimir, which is
given the directory, reads them with the others. That is what the code does and
no property denies it: `NtfsIsWhole` and `NtfsIsFresh` speak of the files of the
archive this build has extracted (`unpacked`). Early returns are actions
(`GetFails`, `CallFails`, the second alternative of `WriteShort`) or
alternatives. `Write` and `WriteShort` are the single `write` call of
`download.rs:52`, which may take only a part of the buffer: the code returns the
count and no caller looks at it. `Crash` is the death of the process.

`foo` is the list of NTFS datasets: its URL ends in a slash, and
`get_filename_from_url` names such a file `foo`. The list has this name in
every build, hence the interest in when it goes.

Assumptions about the surroundings. Builds take turns (`AtMostOneBuild`, proved
of `Ingest`; a build that panicked has ended). The programs die with the
process, as in the container, where the service is started once and the process
tree ends together. `unzip` succeeds only on a complete archive (the directory
of a zip file is at its end), and then all its files are out. Which files an
archive has depends on its version (`Archived`). The URL of an archive, which comes from the list,
gives data at least as new as the list. The archive's file name is the same in
every build; a name that changed could only make stale archives harmless.

`started`, `unpacked`, `interrupted` and `abandoned` are history for the
properties: what the servers had when the build began, the archive it has
extracted, the files whose writing was cut short,
and those at which a build broke off (an error or a crash while it was busy
with that file).

### Table and Store

`Table` is what the rest of the service takes for granted: `Ask`, `TakeEffect`,
`Answer` or `Refuse`, and `Forsake` for callers who go away. A row is its
status; its id is its place. A refused call had no effect; a forsaken one may
have had.

`Store` is `create_db`, `update_db` and `list_indexes` as they run: `task[t]`
is a request or a listener and the place it has got to. `Acquire` takes a
connection from the pool of `state/mod.rs`, `Begin` is `BEGIN`, `Write` the
`INSERT` or the `UPDATE` in its savepoint, `Select` the query for the row just
written or for the list, `Commit` and `Return` the rest. The `?` of a statement is
`Fail`: the function returns and drops the transaction, which is rolled back in
the background (`Rollback`) before the connection is free again. `Leave` is a
client who hangs up, at which hyper drops the future of the request at its
present await; `Crash` is the death of the process.

`begin()` and `commit()` are apart from this. `commit()` consumes the
transaction and takes the connection out of it before it runs `COMMIT`, and
`begin()` makes the transaction only after `BEGIN`. So if `COMMIT` fails
(`CommitFails`), or the request is dropped while one of them is under way (two
cases of `Leave`), nothing is rolled back: the connection goes back to the pool
as it is. `stale` is the set of connections on which a transaction may then be
open, with the write lock if it has written. The pool does not look; the next
call that gets such a connection has its `BEGIN` refused, and one that waits for
the lock is refused by SQLite's busy timeout (both `GiveUp`). The transaction
ends when the pool replaces the connection (`Retire`) or the process dies.
(Where a failed `COMMIT` has ended the transaction, `Uncommitted` has that
case too.)

Of sqlx and SQLite the model takes what the code relies on. `BEGIN` is
deferred, so it takes no lock; a transaction takes the one write lock with its
first write and keeps it to its end; a reader sees what is committed; any wait
or statement may end in an error (busy, pool timeout, disk), but the `ROLLBACK`
of a dropped transaction is assumed to succeed. A commit that waits for readers
to finish is a commit that comes later. What is said of `begin()` and
`commit()` is how sqlx 0.3, the version of `Cargo.lock`, works; its source is
not a part of the repository. The savepoint of `update_db` opens
and closes inside its transaction and adds nothing to it. The order in which
the list is returned and the columns other than id and status are left out.

The refinement shows a call that writes taking effect at its commit, and a list
at its read (`TookEffect`).

### Subscriptions

`stream[c]` is the SUB socket of the client `c` of `gql.rs`'s `notifications`,
`feed[c]` its queue, `heard[c]` (history) the last message that was sent to the
client. The steps of `Ingest` are used as they are: those that do not concern
the streams in `ServiceStep`, `Publish`, `ReleaseEndpoint` and `Crash` with
what they do to the streams. `Hear` is the map of the stream, whose error cases
(two parts instead of three, no number, no status) cannot occur for what `exec`
sends. A message that was queued for a stream stays in its queue when the
publisher goes; a stream is told of every build on the endpoint, and never
ends by itself.

### Settings

`pc` is the layer that is merged next, `config` gives each key the layer its
value is from, and `input` is what the process finds: for each file whether it
is there, can be parsed and which keys it gives; the environment; the command
line. Four keys stand for all: one that only layers of files and `APP_*` give
(`debug`), one that the environment sets (`database.url`), and the two of the
command line. Values are taken to have the right type, but for the port, which
is parsed in `Settings::new`. The order of the layers is the order of the
statements. The file of the mode is required, as `settings.rs:81` has it; the
comment at line 77 calls it optional (see Findings, `settings_mode_file`). `production.toml` has no `database`, `zmq`,
`elasticsearch` or `work`, so `SETTINGS=production` starts only if `local.toml`
or `APP_*` give them: a case of `RefusedForCause`.

### Startup

`pc` is the place in `docker/entrypoint.sh`, in `init` or in `run`, which follow
one another; `sqlite3` is the program that `init_db` starts and that runs beside
them. The pipe closes when `init` ends, and the program ends after that:
`init_db` gives the handle of the child to a spawned task and returns. `sleep
1` is a step like any other: nothing about times is assumed, so `run` may begin
before the program has begun. A container that died is started again on its
files (`Restart`); the sqlite3 program dies with it. `Elasticsearch` comes and
goes as it likes. Of the working directory only the one level that
`init` makes is modelled: an absent parent is the alternative of `MakeWorkDir`
that fails.

## Runs

| Run | Instance | Shows |
|---|---|---|
| `fsm` (`MCFSM.cfg`) | 3 index types x 5 data sources: all that the code names, one unknown of each; 671 states | no wrong state/event pair; final state published last and only last; no stage announced twice; the import is the requested one and `Available` says the truth; an error state is left; implements `Lifecycle` with its liveness |
| `ingest` (`MCIngest.cfg`) | 2 indexes, builds that may fail, succeed or panic at each stage, one crash; 2.4 million states | types; no gap in a row's history; a row that shows its own build keeps doing so; a listener that stops on its build's word leaves the truth, and one that goes on does not wait for what was lost; each build is an `FSM` |
| `workdir` (`MCWorkDir.cfg`) | all four data sources that are downloaded, the servers' data replaced once, by an archive that lacks one of the old one's two files; 6.8 million states | a failed transfer leaves no file; cosmogony's input is made afresh; every file of the NTFS archive that is indexed is there, whole, and fresh unless a build broke off, over whatever was extracted before; downloads and useless lists are kept for ever |
| `store` (`MCStore.cfg`) | 3 tasks, 2 connections, 3 calls, 2 statuses; 59 thousand states | no connection is lost or handed out twice; no call goes on in a transaction left in the pool, and a lock has a call, a roll back or such a transaction behind it; implements `Table`; every call ends, with the busy timeout as the only one, and that only for a lock left in the pool |
| `streams` (`MCSubscriptions.cfg`) | 2 indexes, the first with every outcome, the other one that fails, 1 subscription; 3.6 million states | what a stream says, from build to build, without gaps, and what it waits for; what a client and a row take for the outcome is how the build each has it from ended, whether the row's word is its own build's or the other's |
| `live` (`MCSubscriptionsLive.cfg`) | one crash, and either 1 index with every outcome and 1 subscription, or 2 indexes that fail and no subscription; 67 thousand states | exclusion of builds across a crash; the endpoint is given back; the listener or client that is connected in time gets the outcome, although the endpoint is given back meanwhile |
| `settings` (`MCSettings.cfg`) | 72 sets of files, 2 modes, every environment and command line that the code tells apart; 82 thousand states | which layer wins, which database is used, what is refused |
| `startup` (`MCStartup.cfg`) | no bound, any number of starts; 374 states | nothing hangs; the table is there in the end |
| `settings_named` (`MCSettingsNamed.cfg`) | as `settings` | violated: see Findings |
| `settings_mode_file` (`MCSettingsModeFile.cfg`) | as `settings` | violated: see Findings |
| `startup_logged` (`MCStartupLogged.cfg`) | as `startup` | violated: see Findings |
| `foreign_row` (`MCIngestForeign.cfg`) | 2 indexes with an unknown data source (three states each), no crash | violated: see Findings |

Bounds. `FSM` is finite without any. In `Ingest`, `MaxIndexes` bounds the rows
and `MaxCrashes` the crashes. Two indexes are the least for all interactions
between builds: the endpoint has one holder and one contender, and a listener
that outlives its build meets the next one. `ingest` uses one request whose
build has every outcome except the processing stage, which `fsm` covers; the
endpoint does not tell stages apart. `live` needs the whole graph
of behaviours, so it has two scenarios beside each other: a second index is made
only beside a build of three states and while nobody subscribes
(`MCSecondIsAlone`). That restricts requests and clients, which have no
fairness, so no step that has to be taken is held back. In `WorkDir`, `MaxVersion` bounds how often the
servers' data is replaced; with one replacement there is old and new data, which
is all that freshness compares, and of two files in the archive one is overwritten
and one left over; the proofs hold for any number and any archives. The number
of builds is not bounded. In `Store`, `PoolSize` is smaller than the number of
tasks, so that tasks wait for the pool and for the lock at once, as more than
five would for the five of `state/mod.rs`; `MaxCalls` bounds the calls: one that
makes a row and two that contend for it. `Subscriptions` has the bounds of
`Ingest`; streams do not meet one another, so one is enough. In
`streams` the two builds can end differently, which is what it takes
for a row with the other build's word to contradict a stream. Only the first of
them may panic (`MCOnlyFirstPanics`): nothing follows the second, and the run
`live` has a single build with its panics. `Settings` and
`Startup` are finite; of `Settings` the inputs are chosen so that each layer
gives nothing, a part or everything. `CHECK_DEADLOCK FALSE` where the system
stops: builds end and requests are bounded, settings are read once. `workdir`,
`store` and `startup` are checked for deadlock (in `Store`, with its calls used
up, a crash is still possible; that no call hangs is what `EveryCallEnds` says).

Fairness. `FSM`: weak fairness of the machine's next step; `exec` is a spawned
task that nothing cancels, and the programs and downloads it waits for are
assumed to return (the code sets no limit for programs). `Ingest`: weak
fairness of each machine, of each listener task and of ZeroMQ's teardown. No
fairness of `Join`, since nothing makes a subscription arrive before the
messages, nor of requests and crashes. `Store`: weak fairness of each task's
own steps and of each rollback; none of errors and timeouts, so a wait has to
end without them. The exception is `GiveUp`, a step of the task: SQLite has a
busy timeout and refuses `BEGIN` within a transaction, so nobody waits for ever
for a lock that was left in the pool. Nothing is owed to `Retire`. `Subscriptions`: that of `Ingest`, and weak
fairness of each stream, which takes a client that reads. `Startup`: weak
fairness of the shell and of the sqlite3 program, which are processes; none of
requests, deaths, restarts or Elasticsearch (`StartsOrExits` assumes that it is
there from some time on). `WorkDir` and `Settings` have safety properties only. Fairness of every task assumes that the
async runtime has a thread for it although `run` blocks the one it is on; with
one build at a time, two threads are enough.

Each property of a passing run is broken by a mutant of the model, listed in
`PROJECT.json`; the mutant is the definition placed before the one it replaces.

## Proofs

All proofs hold for every value of the constants: any set of requests, number
of indexes, crashes, replacements of the servers' data, tasks, connections and
calls. They use the assumptions on constants that the modules declare, which
only give types, the names of the four data sources, and that the pool is not
empty.

`FSMProofs`. The safety invariants say nothing about the queue, so they are not
inductive. `IInv` adds that the queue is empty except between `run` and `next`,
where it holds the one event that `run` pushed in the present state
(`QueueInv`); that the path in a state is the product of the stage before
(`PathInv`); that the import exists from the push of `IndexingComplete` on
(`EsInv`); and that the last published state is the present one unless a new
one is about to be published, and that then the last one was not final
(`WordInv`). The lemma `TurnCases` of `FsmTransitionsProofs` lists the twelve
turns the loop can take, the transition table restricted to the pairs that
occur; each action then preserves each conjunct. `AdvanceInv` says that the
published states go through nine stages one way (`Progress` numbers them for
the properties; nothing in the code counts), from the same list of turns. From
`IInv` follow:

- `TypeCorrect`, `NeverWrong`, `LastWordIsTerminal`, `GoesOneWay`,
  `AvailableIffImported`: the five invariants of the run `fsm`;
- `Implements`: each step maps to a step of `Lifecycle` or a stutter
  (`Spec => Life!LifeSafe`).

`IngestProofs`. The types of `Ingest` include that no listener is connected
when nobody publishes. Together with `OneBuildAtATime` they are inductive: a
machine starts only when the endpoint is free, hence when none is live, and the
endpoint is freed only when its holder is not live (`IngestTypeCorrect` and
`AtMostOneBuild`). The properties of the rows need two more layers, and
`IInv == BuildsInv /\ ListenersInv` is inductive (`IngestInductive`):

- *What the builds said.* `MachineInv(m, r)` is the invariant of `FSMProofs`,
  said of the record `m` of a machine and its request `r`. (It is stated again
  because tlapm cannot cite a theorem of an instance with parameters such as
  `Build(i)`; the lemmas on the transition table are shared.) That each machine
  takes `FSM`'s steps is then `BuildsAreFSMs`; the import, which `FSM` keeps in
  `es` and `Ingest` as a flag, is recovered from the path in the state, which
  needs the invariant. `HistoryInv` ties histories and the endpoint to `phase`.
- *What the readers heard.* A reader is a listener or a stream. Its *trail* is
  the last message it took (for a listener, what its row shows) and then the
  messages in its queue. `Trail` says that each message was published by its
  build (`Said`); that each follows the one before it (`FollowedBy`): it is the
  next word of the same build, or the first of another after the former has
  ended with a terminal word or panicked (`Ended`); and that the last is either
  the latest word of the build to which the reader is connected, or its build
  has ended (`UpToDate`). What can be said of a trail depends on the builds only
  through `View`: what each has said, which do not run, which panicked, who
  holds the endpoint. So the lemmas about trails are about values, not
  variables, one for each thing that can happen: a word is published
  (`PublishTrail`), the endpoint is given back (`ReleaseTrail`), the first
  message is taken (`TakeTrail`), nobody publishes (`QuietTrail`), the reader is
  not connected (`ApartTrail`). Each action is one of these for every reader.

From it follow `HistoryWithoutGap`; `RowIsKept` (another build's word follows
only after the own build ended, and a listener stops at a terminal word, so the
build panicked); `DoneIsTruth` (a terminal word is the last of its build, and
says what was imported); `ListenersWaitForBuilds` (the safety part of
`HeardInTheEnd`: a listener with an empty queue is up to date); and two results
no run states, `RowGoesOneWay` (a row that shows its own build goes from stage
to stage one way) and `NineMessagesAtMost`. All of them hold with any number of
crashes; the run `ingest` has one.

`WorkDirProofs`. The invariants speak of the moment when a file is indexed and
say nothing about how a build got there. `WInv` adds which file each place is
about (`FlowInv`), that the file being written is the response in memory
(`WriteInv`), that after `unzip` has succeeded every file of the archive is in
the directory, whole and from that archive, whatever was there before
(`DataInv`, by `OverwrittenWhole`), and the chain
that carries freshness: the response for the list is as new as the build
(`StartInv`), a usable list on the disk at which no build broke off belongs to
the build under way (`FooInv`), so the URL is as new (`UrlInv`), so the archive
is, and then the extraction (`ZipInv`). Each action preserves `WInv` by a lemma
of its own. Results: all six properties of the run `workdir`
(`WorkDirTypeCorrect`, `NoPartialDownload`, `CosmogonyIsIndexedAfresh`,
`NtfsIsIndexedWhole`, `NtfsIsIndexedFresh`, `DownloadsAreForEver`).

`StoreProofs`. `PoolIsSound` and `OwnTransaction` say nothing of what the holder
of the lock has done, which the refinement needs. `IInv` adds `WorkInv`: the
operation of a call makes sense for the committed table (rows are never taken
away); from its write to its commit a call holds the lock, which therefore is not that
of a stale connection, and `draft` is the
effect of its operation on the committed table; what it has fetched is the row
in `draft`; and with a free lock there is no draft. A step of one call cannot
disturb another's draft, since only one holds the lock and only that one
commits. Each action preserves `IInv` by a lemma of its own (`EndKeeps` for the ways to
end a call, with a transaction left open or not; `UndoKeeps` for those to end a
transaction), and is a step of `Table` or a stutter by another (`EffectRefines` for the two ways to take
effect, `HiddenRefines` for the steps nobody sees, `EndAbstract` for the three
ways to end). Results: `StoreTypeCorrect`, `PoolKeepsItsConnections`,
`CallsKeepApart` and `StoreImplementsTable`, the last being the whole of
`ImplementsTable`, since `Table` has no liveness.

`SubscriptionsProofs`. Each step with streams is a step of `Ingest` or leaves
its variables alone (`StreamsDoNotDisturb`), so the invariant of `IngestProofs`
carries over, and with it the types of what a stream is sent
(`StreamTypeCorrect`). A stream's trail begins with what the client heard last;
`StreamIInv` adds it to the invariant of the service, and the lemmas of
`IngestProofs` keep it. Results: `StreamsHaveNoGap`, `StreamsWaitForBuilds` and
`StreamsAgree`; the last follows, for both readers, from a final status being
the last thing its build said (`LastSaid`), whichever build a row has it from.

`SettingsProofs`. `LastLayerWins` speaks of the end. `UpTo(n)` says the same
after `n` layers, and that a key without a value is in none of them; merging one
more layer leads from `n` to `n + 1` (`OneMore`). With `UrlInv` (the url comes
from the variable and nothing overrides it) it is inductive. Results:
`SettingsTypeCorrect`, `PrecedenceHolds`, `TestsAreApart`,
`NoGroundlessRefusal`, for any inputs.

`StartupProofs`. That sqlite3 runs only with settings and a working directory
needs to know what `init` has found at each of its places (`InitInv`). Result:
`StartupTypeCorrect`.

Only model-checked, because liveness under fairness is out of the prover's
reach: `ErrorStateIsLeft`, the fairness part of `ImplementsLifecycle`,
`EndpointIsReleased`, `HeardInTheEnd`, `EveryCallEnds`, `LastWordHeard`,
`StartsOrExits` and `TableInTheEnd`. Every invariant and action property of a
passing run is a theorem.

## Findings

`foreign_row`. `fsm/mod.rs:87` keeps the id "to identify the published
notifications", and `exec` sends it with each state, but the listener skips it
(`api/indexes.rs:165`, with a FIXME). A listener whose subscription arrives
after its build has ended is not told so; it stays on the endpoint, and when
another index is created it writes that build's states into its own row. An
index that is not there can thus be shown as `Available`, and the other way
round. `OwnRowIsKept` delimits the damage: it needs a listener that recorded
nothing of its own build, or a build that panicked. `StreamAndTableAgree` has
such rows in it: they show how the other build ended, and are the only ones that
can contradict a stream.

`settings_named`. `run`, `init` and `test` declare `-s, --settings` with the
help "Settings used" (`main.rs:31`, 65, 85), and `docker/entrypoint.sh`
passes it; `Settings::new` takes the mode from the environment variable
`SETTINGS` and never looks at the argument (`settings.rs:78`). `-s testing` runs
with the development settings, against the database of `DATABASE_URL`.

`settings_mode_file`. The comment on the layer of the mode says "Note that this
file is _optional_" (`settings.rs:77`), as the example of the config crate has
it; the code merges it with `required(true)` (line 81). Where it is missing
there are no settings, even if the other layers give every one of them.
`RefusedForCause` says what the code does, and counts the file as required.

`startup_logged`. `init_db` logs "Initialized database" (`db/sqlite.rs:222`)
when it has written the script into the pipe; the program that executes it is
left to a task nobody awaits, and its failure is not looked at (the FIXME at
line 218 says so). `TableInTheEnd` is what holds instead. Waiting for the
program where the handle is at hand would not do: it ends when its input ends,
which `init` holds until it ends (the mutant of `StartsOrExits`).

## Not modelled

Routes, CORS, the playground and GraphiQL of `server.rs` have no state. Error
types carry texts only. `state/argon.rs`, `state/jwt.rs`, `state/state.rs`,
`utils.rs` and `test.rs` are not reached from any entry point. Topics: the
listeners and streams subscribe to the topic of the settings, the machine
publishes under the literal `state`, and the files in the repository all say
`state`. Threads of the async runtime: a build blocks the one it is on, so
`OneBuildAtATime` bounds the blocked ones by one. Files of several regions: they
have different names, and only the directories are shared. A failure of
`create_db` leaves no row and is not an action of `Ingest`; it is one of
`Store`. That a file which was cut short, or a leftover of an earlier archive,
is indexed like any other is in `WorkDir`, without a property that denies it.
What the migration does to an existing table is its `if not exists` and no more,
so no property restates it. A client that hangs up is `Leave` in `Store` and, between the commit
and the bind, a case of `RejectCreate` in `Ingest`; after that nothing is left
to be dropped.
