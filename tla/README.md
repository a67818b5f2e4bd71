# centric-api: a TLA+ model with proofs

`centric-api` copies the records of Centric PLM's REST API into one SQLite
database, endpoint by endpoint, and derives typed tables from them. This directory
models the parts of it that are hard to get right: a fetch that pages through records
while they change, can be stopped anywhere and must never lose one; the lock that keeps
one run at a time writing, and what a run that lost it can still do; commands that fail, are
signalled or killed, and the health check that reads what they leave; the change numbers
consumers poll; the derived tables that widen their columns as the data contradicts the
spec. TLC checks each on a small instance (the `.cfg` files), and TLAPS proves the safety
properties listed below for every value of the constants. Sources are cited as `file:line` of
`src/src/centric_api/`, the documentation as `README.md:line` of the repository.

## The system

| Part | State | Operations | Interacts with |
|---|---|---|---|
| configuration (`config.py`) | none after loading | load, validate, select endpoints | constants of everything else |
| HTTP client (`client.py`) | session token, retry counter | `get_json`, login, retries with waits up to 300 s | Centric; how long a run goes without a heartbeat |
| API spec (`swagger.py`) | `meta_swagger` | refresh, parse, `endpoint_plan` | silver reads the plan |
| database (`db.py`) | the tables, `meta_info` | `connect` creates both | every command, at its start |
| runs (`fetch.py`, `run_fetch`) | `meta_runs`, `meta_run_endpoints` | take the lock, fetch each endpoint, sync each endpoint's silver, record the end, exit status | all of them |
| fetch of an endpoint (`fetch.py`) | `meta_endpoint_state`: the cursor and the pending window | open or resume a window, count, read passes, judge, look up, finish | client, bronze, lock |
| bronze (`bronze.py`) | `bronze_records`, `meta_info.change_seq` | `apply_page`, `mark_deleted`, `seen_count`, `unseen_ids` | written by fetch, read by silver and readers |
| lock (`db.py`, `RunLock`) | `meta_lock`, one row | acquire, heartbeat, release, take-over | runs, `maintain`, the `silver` command |
| silver (`silver.py`) | `meta_silver_fields`, `meta_silver_state`, `meta_unmapped_fields`, `silver_*` tables | `sync_endpoint`: merge plan, rebuild or apply changes, widen | bronze and the spec |
| readers (`read.py`, `changes` in `cli.py`) | none; a consumer keeps a number | `changes`, `change_seq`, `records` | concurrent with a fetch, on their own connection |
| maintenance (`maintenance.py`) | none | `status`, `health`, `maintain` | reads every bookkeeping table while runs write them |

Everything that is shared is in the database, and everything written to it is in a
`BEGIN IMMEDIATE` transaction (`db.py:254`). What can interleave is therefore: Centric's
own changes between two HTTP requests; other processes between two transactions; a crash,
a signal or an HTTP error between any two steps; readers between two commits.

What makes each part correct:

- fetch: the cursor never passes a record bronze does not have as Centric has it; a window
  called complete is complete; nothing is flagged deleted that was only skipped; an
  interrupted reading loses nothing; scheduled runs catch up. The same with a run that lost the lock
  still saving its window.
- bronze: no page, in any order, rolls a row back; a stamp moves exactly when a reader would
  see a difference.
- lock: one holder at a time under stated limits on time; a deposed run commits nothing
  the heartbeat guards; nobody removes another's live lock.
- runs: exit status 0 means that everything asked for is done; one signal in a stage of its work stops
  a fetch cleanly (between two stages it does not, see below); nobody works on a database that is not ready; scheduled fetches clear
  up what failures, kills and lost locks leave.
- health: a fetch that runs is not reported as dead, one that died is.
- readers: a consumer following the documented protocol misses no change but those committed
  within its round behind it (which the documentation does not say, see below).
- silver: the stored position never claims more than the tables hold; no value is stored
  under a type that does not take it; types only widen, and widening comes to an end.

## Modules

| Module | Models | Notes |
|---|---|---|
| `Bronze` | one row of `bronze_records` and the operators on pages | used by `FetchEndpoint` and `ChangeLog` |
| `FetchEndpoint` | one endpoint's fetch, Centric, two clocks | `MCFetchEndpoint`, `FetchEndpointProofs` |
| `TakeOver` | `FetchEndpoint` with a former holder of the lock that still writes | `MCTakeOver`, `TakeOverProofs` |
| `RunLock` | the lock, the processes, the client's retries | `MCRunLock`, `RunLockProofs` |
| `SingleWriter` | abstract: what the lock promises of guarded transactions | refined by `RunLock` |
| `Runs` | the commands that take the lock, over several endpoints | `RunsProofs` |
| `Health` | `health` reading while `Runs` moves | `MCHealth`, `RunsProofs` |
| `ChangeLog` | bronze of every endpoint with its stamps, one transaction a step | `ChangeLogProofs`; the writer of the two below |
| `FetchLog` | `FetchEndpoint` with the stamps and numbers it writes; refines `ChangeLog` | `FetchLogProofs` |
| `ChangeFeed` | a consumer reading while `ChangeLog` moves | `MCChangeFeed`, `ChangeFeedProofs` |
| `Silver` | the syncs of one endpoint while `ChangeLog` moves | `MCSilver`, `SilverProofs` |

An operator under a comment that begins "Mutant of" is a mistake the code could
plausibly have made, kept to show that a property would notice it; no specification uses
one, except where the comment on `ProvenAtOnce` says that `Distinct` doubles as its mutant.

### FetchEndpoint and Bronze

An action is one HTTP request with all the code does with its answer, or one transaction
of its own. The transaction that stores a page does not look at Centric, so request and
transaction are one step. `Start` is `_fetch_endpoint` up to the first request (with
`_open_window`), `Count` is `_expected_count`, `ReadPage`/`RepeatedPage`/`AtEnd` are the loop
of `_read_pass`, `EndFirstPass`/`EndLaterPass`/`SavePass` are `_read_window`,
`ConfirmUnseen`/`Lookup` are `_confirm_unseen`, `Finish` is `_finish_window`, `Reject`
is an `IntegrityError` reaching `_record_failure`, `Stop` is anything else that ends a run.
`Create`, `Edit`, `Delete`, `Tick` and `StepBack` are the environment.

A version is `[mod, rev]`: `mod` the `_modified_at`, `rev` the payload's hash. A payload
without a `_modified_at` is to be read as one of a time before all others, which is how
`compare_modified` treats it. Centric lists a window by `_modified_at`; records of one time
come in the order of their changes, a choice of ours where the server's order is unknown.
`gone`, `shifts`, `quiet`, `stops` and `stepBacks` are history: they are read by
properties and bounds, never by what the code does. `Used`/`Unused` take the smallest run id
that no row bears, since the ids are uuids and only their equality matters. `Ids` are numbers
from 1 so that the first states can be laid out in their order; nothing else depends on it.

Centric's clock runs `Lag` behind this host's, `Lag <= Overlap`, as `README.md:156-157` assumes.

### TakeOver

The run of `FetchEndpoint` goes without a heartbeat for 15 minutes, another takes the lock, and the
first goes on until its next heartbeat raises `LockError`. `RunLock` shows that it still commits
the transactions without one; of these, what the next holder reads is the pending window
(`fetch.py:337-343`, `522-523`, `819-838`). `Depose` turns the run under way into `deposed`; `Arrive`
is a run deposed at an earlier endpoint that comes to this one and opens or resumes its window;
`Answer` is the answer to its request for a page, given by Centric as it is then; `SaveWindow` and `DropWindow`
write the window. Each comes as late as it likes and while the holder and Centric go on. Of the
deposed run the model keeps its window and the ids of the page it read last, which tell whether the next one is repeated:
an empty page before the last pass may lead to another pass (what the count and the records say of it is left open,
`Again`), a repeated one drops the window, and any other is stored under a heartbeat, where the run finds out and departs.

Bounds of the abstraction: one run is deposed per behaviour, and in `fetch_takeover` no other stop is
combined with it. After a take-over the cursor may go back, when the holder's finished window is followed
by one resumed from an older save. That is harmless and only costs reading records again, so no
property forbids it.

### RunLock and SingleWriter

A process is one run: it starts under a free pid, reads the clock (`since`), and in a
separate step runs `acquire`'s transaction. From then on it sends requests, waits for their
retries, stores pages (`Commit`, with a heartbeat; `LockLost` when the row is not its own),
and writes other transactions that carry no heartbeat (`Save`, `GiveUp`). Any process
crashes at any step. `Clock(p)` is the true time plus the skew of the process's host.

Nothing in the code limits how long a live run goes without a heartbeat. The history
variable `overdue` records that some run went longer than `MaxGap`; `Mutex` holds
until then, `LockKept` and `SingleFencedWriter` always. `SingleWriter` is the abstract
specification: a writer is granted, writes, resigns; each process is granted at most once.
The refinement maps `writer` to the owner of the lock row and `log` to the owner of the last
transaction with a heartbeat.

`AnsweredOnly` stands for any answer nothing is stored of (a login, a count) and starts the
attempts of the next request afresh. Requests of this kind are unbounded in the
model and few in the code, so the model allows longer gaps than the code makes; the properties
that hold do so all the same, and the counterexample of `lock_retries` uses one login only.

### Runs

A slot of `Procs` runs one command after another. `Launch` opens the database
(`CreateTables`, `InsertVersion`: `connect` makes the tables and the rows of `meta_info` in two
transactions), `Acquire`/`Refused` are the lock. A fetch (`asked` is not empty) then goes through
`Insert` (the row of `meta_runs`), for each endpoint `BeginEndpoint`, `StorePage` and
`FinishEndpoint` or `FailEndpoint`, for each endpoint `SyncSilver`, `Close`, `Release`. `silver`,
`swagger` and `maintain` are `Upkeep` and `EndUpkeep` (`swagger` exits 1 when no spec could be fetched). `RejectLogin`
(`AuthError`), `Break` (any other exception at any point, missing credentials and SQLite errors among them) and
`LockLost` are the errors, `Interrupt` a signal, `Kill` a SIGKILL or a power cut. Where an exception takes a command is
`Raised`, read off the `with`, `try` and `except` of `run_fetch`, `_run` and `main`; a signal comes also where nothing
else raises (`Gap`): after the lock is taken and before the `with` statement has it, and between the `INSERT` of the run's row and
the `try`. `Unwound` is both. The history variable `caught` tells a first signal that comes in a stage of
the work (`Working`: opening the database, waiting for the lock, an endpoint, silver, upkeep) from one between
two of them (the lock just taken, the row just inserted, the row or the lock being cleaned up).

Abstractions: status `ok` stands for `ok` and `warn`, which exit alike; `last` is the one row of
`meta_runs` with the largest `started_at`, start times being taken as increasing; `fresh` says that
the heartbeat is not 15 minutes old, which a live run's may become at any time at the cost of
a fault (`Age`) and a dead one's does in the end (the times themselves are `RunLock`'s);
pages are any number, windows and records are `FetchEndpoint`'s. A slot used again is forgotten as
that of an earlier fetch, so that a row left running by a dead process stays so.
`meta_run_endpoints` is only ever printed.

### Health

`Select` reads the latest fetch and then the lock, each in its SELECT (`Order`; the mutant swaps
them), `Report` the endpoints; commands move between any two. The heartbeat is
compared with the time at which the check began (`aged`: it was still fresh then). `steady` and
`doomed` are history, from which the two properties are stated: that the fetch the check saw running
has been running with its lock ever since, and that one had died when the check began and
no command has taken the lock since. Without the last condition a check misses a dead fetch
whose lock a `maintain` has just taken over; one after that command reports it. A dead fetch of another host
is taken for alive until its heartbeat is 15 minutes old, as the code does, since its process cannot be asked for (`Held`).
A database without tables is a fetch never made.

### ChangeLog and ChangeFeed

`ChangeLog` stores any page of any versions, because which pages a fetch asks for is the
subject of the other module and windows overlap. `StoreLookup` is the end of a full window, where
found records and deletions take a number each in one transaction. `ChangeFeed` adds a
consumer whose SELECTs are separate steps, one per endpoint as the code makes them
(`db.py:242`, `read.py:161`), on an autocommit connection. `Orders` are the orders of its three parts:
`<<"changes", "records", "seq">>` is the order in which `Reader`'s docstrings (`read.py:5-9`, `166`), `README.md:220-226` and
`docs/deployment.md:95-96` have a consumer work, `<<"changes", "seq", "records">>` that of one that takes changes and number from the
`changes` command. One that finds nothing to redo before it has the number keeps the one it stored. The history variable `overtaken` has the records stamped while a round was past its first
query of their endpoint and not past its last of all. A page without records takes no number: the pass ends
before its transaction (`fetch.py:576`).

### FetchLog

What `ChangeLog` takes for granted of its writer is a theorem of its own. `FetchLog` is
`FetchEndpoint` from an empty database on, with `seqOf` and `changeSeq` beside it: `LoggedReadPage` takes a number for the page,
changed or not, `LoggedFinish` one for what the lookup found and one for what is flagged deleted,
each if there is any (`fetch.py:660-682`), and no other step moves them. `WritesTheLog` says that
this is `ChangeLog` with one endpoint: a page, a lookup's outcome, or nothing. So what `ChangeFeed` and `Silver` show for any
writer of that kind holds for what a fetch writes.
The module has no run: its theorem covers every instance, and its steps are those of `FetchEndpoint`, whose runs fire them all.

### Silver

Every step is a transaction of `sync_endpoint`: `MergePlan`, `CheckPlan` (a read), `Apply` (a
rebuild or an incremental rewrite), or the roll-back of one by a value that contradicts its
column (`Contradicted`) followed by the widening (`Widen`), or by an integer that no float holds or SQLite cannot store
(`Overflow`). `Crash` comes between any two. Bronze moves on between any two steps too, which is
more than one run at a time under the lock does, and covers the next one. Classes of values
are what `_coerce` tells apart, with `huge` (2^63 and up, a whole float of that size included, which an integer column
makes an integer) and `vast` (2^1024 and up). The records come by change number and id in batches of `BatchSize`, and a batch is
coerced as a whole before any of its rows is written: a contradiction in it or in one before it comes first, and the
driver's `OverflowError` only when there is none (`Reached`, `CoercedWith`). Of several contradictory values of one
record any is met first. A null is a value, so its key is listed as unmapped when the spec does not have it.

## Runs

| Run | Checks | Bounds |
|---|---|---|
| `fetch_changing` | `TypeOK`, `CursorSound`, `ProvenIsComplete`, `DeletesConfirmed`, `QuietWindowMirrors` | new and synced database, 3 records, 1 per page, 2 changes (`MaxRev` less the 3 records), 1 of them a shift, 2 passes at most, clock to 3 |
| `fetch_stopped` | `CursorSound`, `ProvenIsComplete`, `QuietWindowMirrors`, `EventuallyMirrored` | new and synced database, 2 records, 1 change, 1 shift, 1 stop, 1 clock set back, 3 passes, fairness |
| `fetch_takeover` | `TakeOverTypeOK`, `CursorSound`, `ProvenIsComplete`, `DeletesConfirmed`, `QuietWindowMirrors` | synced database, 2 records, 1 change, 1 run deposed, 2 passes, 5 run ids, Centric's clock 2 behind (elsewhere 1) |
| `fetch_agreeing_passes` | refutes `ProvenIsComplete` | 3 records, 2 changes, both shifts, 3 passes |
| `lock_runs` | `TypeOK`, `Mutex`, `LockKept`, `SingleFencedWriter` | 3 runs, 2 hosts a unit apart, 2 pids, time to 4 |
| `lock_retries` | refutes `OnlyHolderWrites` | equal clocks, only retries take time, time to 5 |
| `runs_health` | `HealthTypeOK`, `StopsCleanlyAtWork`, `ReadyBeforeUse`, `RunningNotReported`, `DeadFetchReported`, `ExitZeroIsDone`, `EventuallyHealthy` | 2 slots on 2 hosts, 2 endpoints, fetches of both or upkeep, 2 faults, 1 upkeep, fairness |
| `runs_second_signal` | refutes `SecondSignalIgnored` | the same without upkeep |
| `feed_consumers` | `TypeOK`, `MissesOnlyOvertaken`, `NeverRolledBack`, `ChangesAreStamped` | both orders, 2 endpoints of 2 records each (symmetry in both), 3 versions, 3 numbers |
| `feed_documented` | refutes `NoMissedChange` | the documented order, 2 numbers |
| `silver_sync` | `TypeOK`, `SyncedUpToSeq`, `TablesTakeTheirValues`, `FieldsOnlyWiden`, `SyncedUnlessBlocked` | 2 records, 2 fields, 4 payloads, 4 specs, 3 numbers, batches of 1, 1 crash |
| `silver_huge` | refutes `EventuallySynced` | the same with 3 payloads (none `vast`), 1 number, batches of 2 and no crash |

Why these are enough to be of interest. With one record per page every change made while a
window is open falls between two pages, and three records are the fewest for which one is
behind the position, one is at it and one is ahead. `RunawayFactor` and `RunawayPages` are
scaled to 1 so that the runaway limit can be reached; `LookupBatch = 2` makes a lookup take more than one
request. `fetch_changing` allows two passes where the code and the other fetch runs without a
take-over allow three: with a single shift a third pass always settles an incremental window, and with two
passes some windows stay unproven and must leave the cursor alone. `fetch_stopped` and `fetch_takeover`
have two records, which is enough for a stop or a take-over at the first, the middle and the last page
of each pass. There Centric's clock is two behind: the records of the synced database are then all equally
old, and older than what changes later, which keeps the run within reach; the proofs cover any number of records and a holder that is itself stopped, and one deposed run is as far as either goes. Delta and
full windows, resumed first and later passes, repeated pages and
rejected windows all occur. In `lock_runs` a unit is five minutes: `StaleAfter = 3`
is the code's 15 minutes and a wait of 1 the longest `Retry-After`; two runs share a host, so a pid
can be used again. In `runs_health` the two faults are enough for a signal in the clean-up another
began, for a kill after a failure, and for the loss of a live run's lock to another host's command followed
by a kill of that one; two endpoints are the fewest of which one fails and the other does not, or one is
synced and the other is not. In `silver_sync` each field is contradicted by a payload under some spec,
`MaxRebuilds` is scaled from 50 to 2 so that a sync can use its attempts up, and two payloads
hold integers that SQLite, or a float, has no room for. Batches of one record show that a contradiction in a
later batch does not come before the driver's error in an earlier one, batches of two that one in the same batch does.

Named bounds of the runs, none of them in the code: `MaxTime`, `MaxRev` (changes
made to Centric), `MaxShifts` (removals and moves of records in an open window; each can make the
pages skip one record), `MaxFirstShifts` (those of them during a first full fetch), `MaxStops`,
`MaxStepBacks`, `MaxSeq`, `MaxCrashes`, `MaxFaults` (failures, signals, kills, late
heartbeats), `MaxManual` (commands other than a fetch of everything). Deadlock is
checked except for the lock, where every process ends.

### Properties

- `CursorSound`: every record Centric last changed before the cursor less the overlap is
  stored as it is. This is what the whole judgement of windows is for. With two
  shifts it fails, for the reason `fetch_agreeing_passes` shows, and for a first fetch with one
  (below); the runs that pass say so by `MaxShifts` and `MaxFirstShifts`.
- `ProvenIsComplete`: a window judged complete has everything that did not change while it was read.
- `DeletesConfirmed`: a flag is only for a record Centric was without since the run began.
- `QuietWindowMirrors`: when Centric did not change, neither stops, resumptions nor take-overs cost anything.
- `EventuallyMirrored`: scheduled runs catch up once Centric is quiet.
- `Mutex`, `LockKept`, `SingleFencedWriter`: see the module.
- `ReadyBeforeUse`, `ExitZeroIsDone`, `EventuallyHealthy`: see runs above.
- `StopsCleanlyAtWork`: one signal in a stage of a command's work leaves neither the lock nor a running row.
  `SecondSignalIgnored`, what the documentation says of a second one, does not hold.
- `RunningNotReported`, `DeadFetchReported`: see health above.
- `NoMissedChange`: between rounds, any record that differs from the consumer's copy is stamped
  past the number it stored. It fails for both orders there are, and holds if no round has a commit within it.
- `MissesOnlyOvertaken`: such a record is, or it was stamped within a round, after the consumer asked for
  the changes of its endpoint and before it had the number. What is committed between rounds is never missed.
- `NeverRolledBack`, `ChangesAreStamped`: see bronze above.
- `SyncedUpToSeq`, `TablesTakeTheirValues`, `FieldsOnlyWiden`, `SyncedUnlessBlocked`: see silver above.

### Fairness

`FetchEndpoint!FairSpec` has weak fairness of `AnyStart` and `Process`: the command is
scheduled (cron and systemd timers in the repository's `examples/`), and a run that is not stopped goes on, since
every request has a timeout. Nothing is asked of Centric, the clocks or `Stop`; `MaxRev`
makes Centric quiet in the end. `AnyStart` is fair as a whole: which options a
scheduled run has is open. `Health!HealthFairSpec` has weak fairness of a scheduled fetch of everything, of each
command's own steps and of the ageing of a dead process's heartbeat; nothing is asked of failures,
signals, upkeep or the check. A page that refreshes a heartbeat that is fresh changes nothing here, so a fair
command gets to the end of its endpoint: that paging ends is the runaway limit's doing, in `FetchEndpoint`. `Silver!FairSpec` has weak fairness of the sync as a whole: every fetch ends with
one. The spec of a later sync may be any, since the specs are stored by version and
refreshed.

## What disagrees with the documentation

- `fetch_agreeing_passes`: "A pass proves the window complete when it finds no record the earlier
  passes missed" (`README.md:159`). Two passes can skip the same record, when a record in
  front of the position leaves the window in each.
- `lock_retries`: "Only one run can write to a database at a time" (`README.md:172`). A run that waits out retries
  refreshes no heartbeat, can be taken over, and still commits the transactions without one.
  `fetch_takeover` shows, and `TakeOverProofs` proves for more records and changes, that what these do to the pending
  window does no harm to the records, the cursor and the deletions.
- `runs_second_signal`: "A second signal while it stops is ignored" (`README.md:114-115`). `_request_stop` goes
  on to take SIGINT always, and any signal after a SIGINT: the second one rolls back the clean-up
  the first began, and a row is left running or a lock behind.
- `feed_documented`: "Store `change_seq()` after processing; next time, `changes(since=stored)` says whether
  anything you read has moved" (`read.py:166-167`, and so `README.md:220-226` and `docs/deployment.md:95-96`). A change committed
  between reading its record and asking for the number is covered by the number, and no later call reports
  it. A consumer that takes the number from the `changes` command ("a total of 0 means there's nothing to
  redo", `README.md:91`) has the same gap between the command's two SELECTs (`cli.py:304-305`): with `Orders` of that one
  alone TLC finds `NoMissedChange` violated too. With no commit within a round nothing is missed (`QuietRoundsMissNothing`), as for a consumer
  started when a fetch has ended.
- `silver_huge`: "if ... the data contradicts the spec, the column becomes wider"
  (`README.md:287`). An integer of 2^63 or more in an integer column raises `OverflowError` in the
  driver, which widens nothing and ends the sync and those after it in the run, as long as no other value
  of its batch or of one before widens the column. `float()` does the same to one of 2^1024 or more
  in a real column (`silver.py:436`).

Two more have no run of their own:

- Ctrl-C, SIGTERM and SIGHUP "all stop cleanly: the page being written is rolled back, the
  lock is released" (`README.md:111-113`). One signal is enough to leave the lock between the `COMMIT` of `acquire` and the
  `with` statement (`db.py:339-341`, `fetch.py:98`) or in the transaction of `release` (`db.py:335-337`), and to leave the row of
  `meta_runs` running between its `INSERT` and the `try` (`fetch.py:169-178`), in the `UPDATE` after a rejected login
  (`217-221`) or in that after an exception (`209-214`). The model takes all of these steps (`Gap`, `Raised`); `StopsCleanlyAtWork`
  leaves them out, as TLC finds it violated if `caught` is "work" wherever the first signal comes. The next fetch takes the
  lock over (`EventuallyHealthy`), and `health` reports the row.
- "If records changed while it was being read, the incremental cursor simply stays where it was"
  (`README.md:163`, of full windows) and "Nothing is ever accepted on a "close enough" count" (`168`). A first fetch whose count is
  reached is accepted although records changed while it was read (`fetch.py:500`): with
  `MaxFirstShifts = 1` TLC finds `ProvenIsComplete` and `CursorSound` violated, one record deleted and
  another created while the pages skip a third, which only a later `fetch --full` finds. The passing runs
  exclude it by `MaxFirstShifts = 0`, or begin with a synced database (`fetch_takeover`).

## Proofs

`FetchEndpointProofs`. `TypeCorrect` from the assumptions on constants and `NoneAssumption` (no value is
both a row and no row), one lemma per operator that builds a row, a page or a window.
`DeletionsAreConfirmed` needs an invariant: `MissingIsGone` says that what a run has found to be
missing is in `gone`, and that a record Centric has not is in `gone` while a run is open. Only
`Lookup` adds to `missing` and only of records not in Centric then; only `Finish` flags.

The windows whose records keep their places. A record's place in the list is its
rank, the number of listed records with a smaller change number; ranks are distinct, none is left out
(`NoRankIsMissing`, from the well-foundedness of the numbers), a page is the records of
consecutive ranks (`PageFits`, `PageReaches`), and while nothing listed is edited or deleted ranks stay:
a record that changes elsewhere comes last (`ChangesComeLast`). The invariant `Inv` has one
part per thing a resumed run relies on: the stored rows are no later than Centric's (`VersionsInv`), the
clocks and the cursor (`ClockInv`), the window under way is the one in `pending`, read further
(`OpenInv`), in a window none of whose listed records has changed, in either place, every old record of a rank below the position
is stored as it is and stamped as seen (`WindowInv`), what a lookup has asked for (`LookupInv`) and what a judgement means
(`JudgeInv`). `QuietWindowsMirror` follows for the windows during which Centric does not change.

The windows whose records change. `Inv` says nothing of a window in which a listed record was edited or
deleted (a shift), and the second invariant, `Shifted`, is about those. What bears the
window's run is stored as Centric had it when it was stamped (`SeenInv`). One shift disturbs one pass:
either the passes before had everything there was, or the pass under way has everything below its position
(`LaterInv`), so a later pass that ends without a late find leaves nothing behind. A first pass that met no changed record has
seen none but the records it counted, and what the window lists by now besides has changed since (`Counted`,
`CountInv`): as many distinct ones as were counted are all of them. What is judged complete has thus
been read (`ProvenInv`). `ProvenWindowsAreComplete` has `ProvenIsComplete`
while at most one shift has happened since the window was opened (`FewShifts`), and `CursorsAreSound`, with `FloorInv`
(what lies before a window's floor is stored), has `CursorSound` for endpoints of which that is true at all
times. Two shifts are one too many, as `fetch_agreeing_passes` shows, and a first fetch is accepted by its
count and bears none; `FirstPassesAreComplete` needs no such limit: a first pass that is
believed at once is right, whatever happened. `ProvenIsCompleteInBounds` and
`CursorSoundInBounds` state the same from the bounds the runs set.

`FetchLogProofs`. `FetchesWriteTheLog`, for `Versions = Version`, any version at all. `PlacesInv` keeps apart what a
lookup has still to ask for, has found and has missed, so that nothing is found and flagged in one
transaction; with it `PageIsStored` and `FinishIsLogged` map the two steps that store to `StorePage`,
`StoreLookup` or no step (when there was nothing to write), and `AsideStoresNothing` the others.

`TakeOverProofs`. A deposed run's steps leave the holder's memory and the records alone (`AsideFrame`) and
the holder's are those of `FetchEndpoint` but for the choice of a run id (`HolderCases`): types and
`MissingIsGone` carry over, and with them `DeletesConfirmed`. What relied on the pending window being the holder's own
does not: a window may go back to an earlier save, be gone, or be another's, and the rows it stored may bear
another run. Three invariants take the place of `Inv` and `Shifted`, each about every window kept
anywhere (`Kept`: the holder's, the pending and the deposed run's), of which there are few kinds: after a step each is one that was
kept, the next pass of one, one just opened or resumed, or one read a page further (`KeptWindows`).

`QuietWindowsInv`, for `HoldersQuietWindowsMirror`: what lies before the position of a window opened after Centric's last change is
stored, by whichever run, and all of it in a later pass (`CoverInv`). It holds because a save that comes late only moves
a position back, and what has been stored stays stored (`StepsAreSteady`). What is flagged and
whether the cursor moves depends on the holder's memory, which no other run writes: its count, what
its pass has seen and what it looked up are right (`HolderInv`), and only a record Centric has bears such a run (`StampsInv`).

`FirstsInv`, for `HoldersFirstPassesAreComplete`, adds that a window the holder opened itself bears a run no other window
of another reading bears (`NewRunIsNew`), so that its stamps are this reading's (`ReadAsItWas`) and are among what was counted as long as
no changed record was met (`CountedOnce`). A resumed one is not judged by its count, which is why nothing
need be known of where it came from.

`ClaimsInv`, for `HoldersProvenWindowsAreComplete`: `shifts` counts for the pending window only, which is not always the holder's, so
the module has a history variable of its own, `moves`, that counts for each run the records of
its windows that were edited or deleted since it opened one (`CountsMoves`). `Claim` then says of each kept window
what `WindowInv` and `LaterInv` say of the one in `FetchEndpoint`. `FewMoves` is the limit of `FewShifts` on the
holder's window. With `CursorsInv` (what lies before the floor of a kept window, and before the cursor, is stored) it gives
`HoldersCursorsAreSound`. All of these were checked as invariants on small instances first.

`RunLockProofs`. `TypeCorrect`. `ClockRead` says that a live run's `since` is not
ahead of its clock and, until a run is overdue, not more than `MaxGap` behind; `HolderOwns` says that
until then whoever believes it holds the lock is named by the row with `beat = since`. Under
`ShortGaps`, that `MaxGap` and the difference of any two clocks stay below `StaleAfter`,
nobody finds such a row stale, nor its owner dead, since a live process keeps its pid; `MutualExclusion` follows.
`LockIsKept` and `ImplementsSingleWriter` need no assumption on time: every
guarded step checks the row in its own transaction.

`RunsProofs`. What a command has done of its endpoints is read off its label: `Stage` says, for each, which are fetched,
failed, left and synced, and that an exit status of 0 comes with all of them; `Stopped` says where a fetch that had
one signal, at work, is and what its row says. Another process only takes the lock from it or begins a later fetch
(`UndisturbedStays`), so each action has one lemma about its own process. For the check, `steady` implies that the
lock it read or will read is the running fetch's, fresh when it began; `doomed` that no process holds it. `SchemaIsReady`,
`OneSignalAtWorkStopsCleanly`, `ZeroIsDone`, `RunningIsNotReported` and `DeadIsReported` hold for any
processes, hosts, endpoints, requests and number of faults.

`ChangeLogProofs` has the lemmas about the writer that the next two share: `LogInv`, no stamp is past
`changeSeq`; each write either leaves what a row shows and its stamp or changes both, the stamp past
`changeSeq` (`Stays`, `Moves`).

`ChangeFeedProofs`. `RowsNeverRollBack` and `EveryChangeIsStamped` follow from these.
`MissedAreOvertaken`, under `ChangesFirst` (the order of `Reader`'s documentation or that of the `changes` command), needs `FeedInv`: between rounds the
stored number covers the copy but for what is in `overtaken`; within one, an endpoint that was asked for changes and had
none, or was read again, is known to be out of date only in what is in `overtaken`, until the last query has made
the new number; and a commit outside a round stamps its records past every number there is. `QuietRoundsMissNothing` adds that
`overtaken` stays empty as long as nothing is committed within a round (`QuietRounds`).

`SilverProofs`. A sync loads the registry it stored, so the two agree until it ends (`SyncInv`); rows are rewritten
in place only if the tables were built by that registry; a row the sync did not see, committed after it
read the number, lies past the number it stores (`RestIsShown`, `AppliedTables`). `PositionIsTrue`,
`ColumnsTakeTheirValues` and `TypesOnlyWiden` follow, a widened type being wider for both reasons there
are to widen (`WidestIsWider`, `WidenedIsWider`).

Only model-checked: the findings above and everything with fairness (`EventuallyMirrored`, `EventuallyHealthy`, `SyncedUnlessBlocked`).
Every other property of a passing run is a theorem, with the limits on changes named above where the code needs them.

## Not modelled, and why

- `config.py`, the download and parsing in `swagger.py`, argument parsing and formatting in `cli.py`, `status`:
  sequential and pure, input or output only. The result of `endpoint_plan` is the constant `Plans`.
- The SQLite calls of `maintain` (`integrity_check`, `wal_checkpoint`, `optimize`, `VACUUM`) and the pragmas and
  errors of `connect` for a foreign or other version's database: they change nothing the model has.
- `health --max-age` and `-e`: the same reading with a limit more or fewer endpoints.
- `meta_run_endpoints`: written and printed, never read back.
- Names of silver tables and columns, and JSON rendering of values: no effect on the properties above.
- A clock set back against `ORDER BY started_at` in `meta_runs`: `Runs` takes start times as increasing, since nothing
  could be said of the reports until the clock has caught up.
- Times are integers; a clock is read where the code reads it for a decision.

## Plan

Done: the fetch, bronze, lock, change feed and silver; two runs over one endpoint (`TakeOver`); runs of several
endpoints with their failures, signals and exit status, and the health check over them; the proofs above.

What is left, in the order of its worth:

1. A second deposed run: `TakeOver` has one per behaviour.
2. Fetches of some of the endpoints in the instance of `Runs` (`Requests` allows them and the proofs cover them).
