# LiveCodeMap in TLA+

TLA+ models of LiveCodeMap's own core logic, the TLC configurations that check
them on small instances, and theorems that TLAPS checks for every value of
their constants. Everything is translated from the C++ under `src/lcm`; paths
below are relative to the repository. `PROJECT.json` says, definition by
definition, which lines a module stands for, which defect each property
detects, and which hazards of the code each property is for.

## 1. Inventory

LiveCodeMap indexes a C++ repository: each selected compile action (a *slot*
of a build *profile*) is replayed through Clang, the facts it yields are
published into a SQLite store, and queries answer from the store.

| component | state | operations | interacts with |
|---|---|---|---|
| store, write side (`store/store.cpp`) | writer lock file; `profile`, `attempt`, `slot_attempt`, `unit` and the unit-owned rows | `acquire_writer` (and recovery), `ensure_profile`, `publish`, `record_rejected`, `record_auxiliary_failure`, release | other processes through the lock and SQLite; readers through snapshots |
| store, shared rows | `file`, `file_version`, `symbol`, `relation`, `dependency`, `include_site`; `InsertCache` | `remove_unit` (prunes), `insert_unit` (interns) | inside one publication |
| store, freshness | `unit_freshness`; the plan and the two hashing passes of an inspection | `Store::inspect_freshness`, `ReadOnlyStore::inspect_freshness` | the file system, publishers, the writer lock |
| store, exclusion and public view | `excluded_file`; withheld files | `set_excluded_files`, `public_view`, `load_facts` | readers |
| store, opening | header, schema version, identity, WAL sidecars | `Store::open`, `ReadOnlyStore::open` | other processes that create the same store |
| contribution spool and codec | spool file, its name and lock, its entries; the bytes of an entry | `create`, `add`, `load`, `reclaim_orphan_spools`; `encode_contribution`, `decode_contribution` | analysis threads, publication, recovery |
| profile index (`analyzer/profile_index.cpp`) | a run's plan, captured hashes, analyses, spool | select, plan, analyse in parallel, lock, revalidate, publish | analyzer, spool, store |
| analyzer, one unit (`analyzer/pch_replay.cpp`, `clang_analyzer.cpp`, `driver_phase.hpp`) | the frozen file snapshot of a replay, captures, the process-wide driver lock | gates, the PCH ladder, capture, compare, final parse | Clang, other analyses of the process, files that change |
| analyzer, facts (`analyzer/facts_builder.cpp`, `facts.cpp`) | what the preprocessor's callbacks recorded; a `FactSet` | direct includes; the adders and `remove_contribution` | Clang |
| compile database (`compile_db.cpp`) | commands; the cached index of their files | parse, select by file | profile index |
| response files (`response_file.cpp`) | the expansion stack and the snapshots read | expand one command | the file system |
| compile context (`compile_context.cpp`) | none | normalise one command | analyzer |
| query engine, cursors, trace (`query/*.cpp`) | one snapshot per call; cursor bindings; traversal budgets | `find_code`, `trace_calls`, `file_api`, `check_freshness` | read-only store |
| MCP session, command line | initialised or not | requests | query engine |

What is hard in it, in the order of what it would cost to get wrong:

1. *Publication* (write side): several processes, each free to die anywhere,
   one advisory lock, an attempt log that must tell dead attempts from live
   ones, a replacement that deletes before it inserts, readers pinned to
   snapshots, two journal modes in which a reader does or does not block a
   commit. Correct means: a batch is visible whole or not at all; the log, the
   generation and the units always agree; a generation names one content; what
   was checked before the transaction is still true inside it.
2. *Freshness*: two hashing passes around a lock, with edits and publications
   in between and row ids that are reused. Correct means: nothing is stored
   *fresh* without having matched while the lock was held, nothing is stored
   about a unit that was learned of another, an inspection that is cut short
   leaves nothing looking fresh, and every inspection returns.
3. *Shared rows*: units share rows by key; removal prunes, insertion interns
   through a cache of row ids. Correct means: no dangling reference between any
   two statements, no orphan, and rows that decode to what was contributed.
4. *Index runs*: planning reads files and units without the lock, minutes
   before the publication that relies on them; workers race on a stop flag.
5. *Readers*: cursors bound to generations, arguments and withheld files, views
   bound to exclusions, the read-only opening beside a writer that creates or
   removes WAL sidecars. Correct means: pages joined are one result, nothing
   withheld is returned, a complete trace has reached everything.
6. *Analysis of a unit*: several front-end runs of one replay must see one state
   of each file while files change; a driver is process-wide state behind a lock
   that is released in a callback. Correct means: what is reported as proven is
   what the compiler would have read, and every analysis ends.
7. *Files read once and used many times*: the spools of dead processes, response
   files that name each other, the cached index of a database's files.
8. *Sequential algorithms with many legal orders*: the quoting of command lines,
   the correlation of directives with the preprocessor's events, fact sets from
   which units are taken again, the 150 fields of the codec.

The full hazard list, each at its source line with the properties for it, is
in `PROJECT.json`.

## 2. Plan

| order | module | subject | status |
|---|---|---|---|
| 1 | `StoreContract` | what the store promises its callers | done |
| 2 | `StorePublish` | lock, recovery, attempts, publication, snapshots; implements `StoreContract` | done |
| 2 | `StorePublishProofs` | its invariants and the refinement, for every instance | done |
| 3 | `StoreFreshness` | both inspections around edits and publications | done |
| 4 | `SharedRows` | `remove_unit` and `insert_unit` statement by statement | done |
| 5 | `ProfileIndex` | an index run: plan, workers, revalidation, publication against the contract | done |
| 5 | `ProfileIndexProofs` | the plan of a run is current from its check to its publication, for every instance | done |
| 6 | `PublicView`, `TraceCalls`, `QueryEngine` | what a reader may see, the traversal, the tools with pages and cursors | done |
| 7 | `StoreOpen`, `Spool` | creation race, read-only opening, spool ownership and reclaim | done |
| 8 | `FrozenFiles`, `UnitAnalysis` | the snapshot of a PCH replay, one analysis around it | done |
| 9 | `CompileDb`, `ResponseFiles`, `DirectIncludes`, `FactSets`, `Codec` | the stages before and after an analysis | done |
| 10 | `StorePublishProofs`, second half | recovery, the honesty of results and the log of `StorePublish` | done |
| 10 | `StoreFreshnessProofs`, `SharedRowsProofs`, `StoreFilesProofs`, `UnitAnalysisProofs` | the safety of `StoreFreshness`, of `SharedRows`, of `StoreOpen` and `Spool`, of `UnitAnalysis` | done |
| 10 | `ProfileIndexProofs`, second half | reports, successes and the contract of whole runs | done |
| 10 | `NaturalFacts` | facts on natural numbers the proofs share | done |
| 11 | `QueryProofs` | paging of the query tools, traces included, for every instance | done |

Composition: `StorePublish` refines `StoreContract`. `ProfileIndex` publishes in
one step, which is what that refinement licenses, and is itself checked to be a
client of the contract (`UsesContract`): the contract is the interface between
the two, implemented below and used above. `StoreFreshness` and `QueryEngine`
publish in one step for the same reason. `TraceCalls` extends `PublicView` and
`QueryEngine` extends both; `UnitAnalysis` extends `FrozenFiles`; `Codec`
extends `FactSets`, whose adders its reader goes through. `MCStoreFiles` and
`MCAnalysis` check several modules that share no state in one run: a behaviour
is of one part (`part`, `stage`), chosen at the start, and a property of one
part says nothing of the others.

## 3. Modules

### StoreContract

One writer at a time; while it is the writer it may create a profile or apply
one batch to a profile, raising the profile's generation by one; readers hold
committed states. No lock file, attempts, transactions, failures or deaths.

### StorePublish

State: `lock` is the lock file's owner; `db` the committed database (profile
kinds, generations, units per slot, the attempt log); `tx` the one open write
transaction with its private copy; `snap` the state a read connection is
pinned to; `pc` and `op` the local variables of `publish()` in each process;
`result` what it last returned. `mark` is a history variable: how long the log
was when the present holder had recovered.

| action | code |
|---|---|
| `Acquire`, `Recover`, `RecoverFails`, `Release` | `acquire_writer` = `try_lock_file` and `recover_interrupted`; the handle's destructor |
| `EnsureProfile`, `RecordRejected`, `RecordAuxiliaryFailure` | the operations of the same names |
| `PublishRejected`, `PublishNoOp`, `PublishRecord`, `PublishRecordFails` | `publish()` up to the durable attempt |
| `RemoveOld`, `InsertUnit`, `FinishReplacement`, `Commit` | the replacement transaction |
| `Fail`, `MarkFailed`, `MarkFailedFails` | its `catch` blocks |
| `Crash` | the process dies between any two steps |
| `OpenSnapshot`, `CloseSnapshot` | `read()` and `~ReadSnapshot` |

A transaction that only writes bookkeeping rows is one step: no other
connection sees its inside, and dying in it leaves nothing. The replacement
transaction is several steps because failures, deaths and the journal mode
bite inside it. `CanCommit` is SQLite's rule: in rollback mode a commit
excludes every reader, in WAL mode none. `install` stands for the in-memory
contributions followed by the spooled ones; a contribution is its slot, its
label and an opaque `facts`; `wellFormed` stands for the checks on a
contribution's own data.

### StoreFreshness

State: `disk`; the lock; units and verdicts as rows with SQLite's row ids
(one more than the largest, so ids are reused after a deletion); per
inspection its plan (a snapshot), what each pass hashed, and its report.
`held` is a history variable: what each file has held since the lock was
taken.

| action | code |
|---|---|
| `Load` | the snapshot and `load_inspection_plan` |
| `ProbeFirst`, `ProbeSecond` | one file of `probe_inputs` |
| `FirstPassDone`, `TakeLock`, `LockBusy`, `CheckGeneration`, `SecondPassDone`, `Persist` | the body of `Store::inspect_freshness` |
| `BudgetEnds` | every place that compares the clock with the deadline |
| `IncompleteTakesLock`, `IncompleteBusy`, `IncompletePersist` | the `incomplete` lambda |
| `ReadFirstPassDone`, `ReadCheckGeneration`, `ReadComplete`, `ReadBudgetEnds` | `ReadOnlyStore::inspect_freshness` |
| `Abort` | an exception, or the process dies |
| `Edit`, `PublisherLocks`, `Install`, `Retire`, `PublisherUnlocks` | the world around it |

`UnitVerdict` is `conclude_inspection` on one unit; reasons and guidance are
wording and left out. Hashing one file is one step: an edit in the middle of
`probe_file` gives a hash of neither content, which the model does not
distinguish from a changed one. A publication is one step, as `StorePublish`
shows it to be, and installs or retires one unit; recovery when an inspection
takes the lock only touches the attempt log and is in `StorePublish`.

### SharedRows

State: `db` and `tx`, the committed and the transaction's tables (`file`,
`version`, `symbol`, `relation`, `dependency`: row id to entry) and units (the
row ids each one's own rows hold); `cache` is `InsertCache`; `stage`, `remove`,
`install`, `touched`, `current`, `left` are where the publication is.
`pending` and `denoted` are history: what each slot was published with.

| action | code |
|---|---|
| `Begin`, `Commit`, `Rollback` | the transaction of `publish()` and its `PublicationScope` |
| `DeleteUnit`, `NothingToDelete` | `remove_unit`: the `touched_*` tables, the deletion of the unit and its cascade |
| `Prune(k)` | the k-th pruning statement, in `PruneOrder` |
| `BeginInsert`, `InsertInput`, `InsertSymbol`, `InsertLocation`, `InsertEvidence` | `insert_unit`, row by row, with `symbol_row`, `file_id`, `version_id`, `bind_location` |

`RowOf` is how every shared row is found: in the cache, else in the table,
else the next id. Unresolved sites, captures and direct includes carry a
location and use a symbol just as a symbol location does, and include sites
are shared as dependencies are; the model does not tell them apart. A
relation always has evidence (`facts.hpp:190`), so the model has none without.

### ProfileIndex

State: `disk`; the writer lock; the one profile's `kind` (absent, or whether
UHT applies), `gen` and `unit`s; and per run the locals of `index_profile`: the
request, the context `captured` before anything else, the committed state
`seen`, the files `hashed` in the present pass, the `plan`, what the workers
share (`next`, `stop`, `thrown`, `analysed`), each `worker`'s place, how a
failing run will end, and the last `report`. `held` (what each file has held
since the lock was taken) is history.

| action | code (`profile_index.cpp`) |
|---|---|
| `Start`, `Capture`, `ReadCommitted` | steps 1 to 3: the request, context inputs read once, the snapshot, the verdict on the whole selection (`Errors`) |
| `HashPlanned`, `Decide` | step 4: `FileHashes`, `change_reasons` (`Unchanged`), what to analyse and to retire |
| `CheckStop`, `Fetch` | a worker's loop: the flag, then `fetch_add`; they are two steps because they are two atomics |
| `ReadInput`, `AnalysisSucceeds`, `AnalysisFails`, `AnalysisThrows` | `analyze_one` |
| `Join` | joining the threads, rethrowing, per-slot results |
| `TakeLock`, `Busy`, `CheckPlan`, `HashLocked`, `Revalidate` | step 6 up to the publication |
| `Ensure`, `EnsureFails`, `ReturnUnchanged`, `Publish`, `ReturnCommitted`, `PublishFails` | `ensure_profile`, `publish` and its outcomes |
| `FailureTakesLock`, `FailureUnrecorded`, `CreateForFailure`, `RecordFailure`, `RecordFails` | `record_failure` |
| `Abort` | an exception nobody catches, or the process dies |

The front end is external: an analysis of a slot reads some of the files in
`Reads[slot]`, its source at least, each when it likes, and succeeds, fails or
throws whatever it read. A file that is not there is not an input, as in
`finalize_files`. The database gives each slot a command; a hash is the
identity of what it hashes. A sequential run (`jobs` at most one) is the loop
of one worker. `Errors` is the whole verdict on a request, the slots
selected twice included (`profile_index.cpp` refuses a duplicate). Unity membership, the PCH producer and role overrides are part
of the command or the settings; attempts are left to `StorePublish`, and what
a report says of them is `recorded`. `generation_after` and the wording of
messages are left out, except for the slot a failure message names (`named`).

### PublicView, TraceCalls, QueryEngine

`PublicView` is pure: what of a database is withheld when files are excluded or
gone, computed as the code computes it twice, for a whole profile
(`PublicFacts`, `load_facts(Projection::public_)`) and per symbol for the tools
(`IsPublic`). Rows are records in a set and carry their row id, and a lookup
returns them in row order (`InRowOrder`), as the statements' `ORDER BY` does;
the snapshot of a call is the rows with the paths withheld from it (`Seen`).
`TraceCalls` applies `Discover` to the candidates of each level, one after the
other, with both budgets (`Offer`, `OneLevel`, `Traversal`); its second half says
what a trace means (`MeantRecords`) over the public facts and without an order.
The loops are recursive functions over a bounded range of naturals: a closure
grows at most as often as there are symbols. `QueryEngine` has one call at a time
(`call`, its snapshot), the cursor the client may hold (`held`), the last
`reply`, the committed `store`, the files on `disk`, and the cached `names`.

| action | code |
|---|---|
| `Begin` | `Call::begin`: the snapshot, with or without a cursor, for the request it was issued for or another |
| `Answer` | `find_code`, `trace_calls`, `file_api` up to `Call::finish` or `Call::error` |
| `Publish`, `SetExcluded`, `TouchFile` | the world between two calls |

A time budget is a choice of where it ends. Names are sequences of components,
snippets and rendering are left out. `check_freshness` is `StoreFreshness`.

### StoreOpen

State: what is committed at the path, the journal mode, the WAL sidecars, who
holds the write transaction, and where each opener and reader is. Writers:
`Connect` and the three reads of `check_identity` one by one, `BeginImmediate`,
`CheckAgain` (`check_identity` inside the transaction), `CommitCreation`,
`CreationFails`, `CheckRoot`, `ChooseJournal`. Read-only openers: `CheckFile`,
`LookForFrames`, `ReadHeader`, `LookForSidecars`, `Probe`, `ConnectReadOnly`,
`Verify`. Around them openers write frames, die (leaving the
sidecars), close (the last one removes them) and come again, and a foreign program makes a database of the path first.

### Spool

State: directory entries, locks, names never used, and per process its walk
(`todo`, `looking`) and its own spool (`mine`, `data`, `end`, `entries`). A walk
of `reclaim_orphan_spools` is `StartWalk`, then `OpenLeftover`, `TryLock`,
`UnlinkLeftover` per name, `EndWalk`; `CreateSpool`, `LockSpool`, `UnlinkSpool`
are three steps because another walk comes between them; `AddEntry` and
`AddFails` (a write that ended early) keep the offset of the last whole entry.
It is the POSIX build: on Windows the file is deleted on close and there is
nothing to reclaim.

### FrozenFiles, UnitAnalysis

`FrozenFiles` is pure: `Status` and `Open` on a snapshot and the present disk,
sealed or not. `UnitAnalysis` has one record per thread: `at` follows
`analyze_translation_unit` and the rungs of `verify_pch_replay` in order, with
an action per rung or group of rungs that look at the same thing, so that an
edit (`Edit`) falls between any two.

| action | code |
|---|---|
| `Gate`, `Admit` | the checks on the command, and when a degraded one is accepted |
| `Ladder`, `ResolveWrapper`, `CheckLayout`, `CheckCreates`, `FreezeSource`, `CheckInclude` | `verify_pch_replay` |
| `TakeDriver`, `ReachAction`, `DriverFails` | `DriverPhase`: taken before the driver, released in the front-end callback or by its destructor |
| `Probe`, `LookUp`, `RunEnds` | one front-end run: an existence question, a header looked up and read, the end |
| `Finish` | the comparison of captures, the final parse's drift checks, the status |

The front end is external; what it is assumed to do is in the module's head.
The safety list of options is one condition. `WorkloadAssumption` says of the
commands of a behaviour that each header they name is looked for somewhere.

`ReplayIsThePch` compares what was read for the wrapper, from first check to
final parse. It says nothing of a header the consumer forces ahead of the
wrapper; that is `FirstForcedIsTheHeader`, which does not hold (section 5).

`ProvenPrefixCannotDrift` has a condition in its last conjunct, and the proof is
why. Once the final parse enters the wrapper it meets the texts and the missing
files of the captures. But a consumer that names the wrapper twice, as a forced
include and again, can enter it by the second name when the wrapper was gone
while the first was looked up; it has read another header in between, arrives
with other macros, and is rejected as drift. `NamedOnce` excludes that consumer
from the conjunct about acceptance only; the `analysis` run has a workload with
one (`Twice`).

### CompileDb, ResponseFiles, DirectIncludes, FactSets, Codec

- `CompileDb`: `Tokenize` is both tokenisers character by character (the
  property is about quoting); `ParseEntry` one entry; `SelectUnique` a lookup
  by file through the cached `index`, while `ChangeFile` creates, links and
  removes files and `AmendCommands` changes the list.
- `ResponseFiles`: `expand_response_files` as it recurses, with one step per
  token and per look at the disk (`Enter`, `Find`, `Measure`, `Read`), and
  `Rewrite` between any two. Limits are those of the code, scaled down.
- `DirectIncludes`: the callbacks of `PPObserver` while files are entered
  (`RangeSkipped`, `OpenGroup`, `NextBranch`, `CloseGroup`, `Include`,
  `LeaveFile`, `Abort`), then `FinalizeIncludes` as one fold over the visits.
- `FactSets`: `PublishContribution` through the adders, `RemoveContribution`.
- `Codec`: writer and reader walk a layout each, field by field, over items;
  `Damage` cuts, lengthens, alters or replaces the form, item by item: the size
  of a text, and a count of texts that memory can be reserved for, stay as they
  are, since where the next item begins would depend on single bytes.

## 4. Runs

The passing runs have between 52,000 and 1.8 million distinct states and take from
half a minute to about three minutes with two workers.
Bounds are on the data: two slots and two labels give every collision inside a
batch and between a batch and live units; three attempts give a success, a
failure or interruption on top of it, and a success after that. Generations and
row ids are bounded by the number of publications, which the guard of recording
an attempt (`MaxAttempts`) or of publishing (`MaxGen`) caps.

| run | instance | what it shows |
|---|---|---|
| `publish_batches` | 1 process, 1 reader, 2 profiles, every batch of up to two installs and one retirement in one of them, 2 attempts, rollback journal, fairness | units are the replay of the succeeded attempts; replacement is atomic; a publication ends even when a reader never closes |
| `publish_writers` | 2 processes, 1 reader, WAL, 3 attempts | recovery marks dead attempts and only those; what was validated stays valid; results agree with the log; a generation names one content, for pinned snapshots too; the store implements its contract |
| `freshness_store` | 1 Store inspection, 2 slots, 2 files, 3 publications | verdicts rest on evidence about the unit they are stored for; an incomplete inspection leaves nothing fresh |
| `freshness_ends` | a Store and a read-only inspection, a publisher, 2 publications, fairness | a Store inspection returns, whoever holds the lock; an inspection is complete only over the present units |
| `index_runs` | 2 runs, 1 slot, the database comes and goes, 2 publications, fairness | a plan made without the lock is used only while it is current; the store's contract is kept; each run returns |
| `index_edits` | 1 run at a time, 3 slots, 1 or 2 workers, 3 files edited, 3 publications | a successful run leaves units that agree with the disk under its lock, the ones it did not analyse included; a failed run reports what a sequential one would |
| `store_files` | 2 openers of different roots and 2 readers; or 2 spool processes, 3 names; or 2 slots, 3 overlapping contributions, row ids to 4 | an open store is one's own and stays so, what opening finds is kept; a spool gives back what it was given, leftovers go; references resolve after every statement, nothing orphaned, rows decode to what was published |
| `queries` | every subset of five further relations (32 graphs; 4 calls of a tool on the full one, 2 on the others), and a store of 2 states with 2 calls and 1 event | pages joined are the result; what is returned is public; a trace is complete only when it has reached everything; a continuation gets on |
| `analysis` | one of six stages, see below | an entry's arguments are its command's; a lookup is the file system's; an expansion is the one its evidence gives, of one snapshot per path when no file is written meanwhile; a refusal has a cause; a replay is the build's prefix, and cannot drift once proven; analyses end; includes, facts and bytes mean what they should |
| `enough_jobs` | 1 run, 3 slots, up to 3 workers | a violation, see below |
| `stale_results` | the store of `queries` | a violation, see below |
| `first_forced` | one consumer that forces another header ahead of the wrapper | a violation, see below |

In the shared rows of `store_files` the three contributions overlap in every
table, one has a location without a file, one a symbol whose stable id collides
with another's. Four ids per table are more than the entries any two units use,
so ids go up, are freed and come again; a publication that would need a fifth
can only roll back (`RoomFor`). Two openers of different roots are the fewest
with which one finds the other's store in place of the empty file it had looked
at; with two spool processes and three names one can walk over a leftover, over
a spool the other is creating, and over one the other also walks.

In the freshness runs the only content is the recorded one, so an edit removes
a file or restores it: a verdict depends on a probe only through "equals what
was recorded" and "equals the other probe", and both come out both ways. Three
publications are the fewest in which one unit of two is replaced under a reused
row id while an inspection holds a plan of both.

In the index runs, two contents of the database are a command changed for one
slot and a slot without a command. Two publications let a run find its plan
overtaken, three let a slot be installed, replaced, and kept while the other is
replaced. Both kinds, a valid and an invalid request and the intended empty
selection are asked for; two workers over three slots are the fewest with which
one slot fails, the next starts late and a third must not start. `MayHold`
limits what a file is ever edited to.

In `queries` the graphs vary which of five call and override relations are
there besides two that always are; the two states of the store differ by a
publication that retires a unit and renames a symbol. Page limits of one and two
cut every result. In `analysis` the stages are: entries with every argument of up to three of the
five kinds of character in either quoting, with each defect, and pairs for one
file by two spellings, under two changes of files; three response files that
name each other, are hard links or missing, under limits that each case meets,
and some of them with two rewrites, after which a path already read or recorded
as a link is referred to again; one analysis with two edits, one
with two edits whose consumer names the wrapper twice, one of every
command that differs from a good one in one thing, and two side by side; a
source of nested conditions that is entered twice with any outcomes; two units
with every result of five; sampled contributions that have each field, whole and
cut, lengthened and altered at each item.

Symmetry is used in runs without liveness only, over sets of values the
specification treats alike. Deadlock is checked except in `queries` and
`analysis` (and the two violations of the same modules), whose behaviours stop
when their bounded work is done.

*Fairness.* `StorePublish!FairSpec` has weak fairness of `Advance(p)`:
`publish()` is a straight-line call, so a process that has not died goes on.
Acquiring, publishing at all, and closing a reader get none. Weak fairness
suffices because `Fail` is always enabled inside the transaction, which is
SQLite's busy timeout turning into an exception. `StoreFreshness!FairSpec` has
weak fairness of an inspection's own steps without `Abort`, so an inspection
must end by its own code; nobody has to give the lock back. A read-only
inspection takes no lock and its steps are a finite sequence; no run asks it to
end. `ProfileIndex!FairSpec` has weak fairness of the steps of a run that has
begun, again without `Abort`: threads that exist are scheduled, an analysis
ends, and a run that polls for the lock until its wait is over takes it or
gives up. Nobody has to give the lock back, to start, or to stop editing.
`UnitSpec` (and `StageSpec`) has weak fairness of each thread's own steps: a
thread that exists is scheduled and a driver returns, in success or failure.
Weak fairness is enough for the driver lock because each analysis takes it a
bounded number of times.

## 5. Findings

Three have a run.

- `enough_jobs`: `docs/profile-index.md:107` promises that with at least as many
  jobs as planned analyses every planned slot is analysed, and
  `profile_index_tests.cpp:1692` counts on it. A worker thread that is scheduled
  only after another's failure sees the flag and returns at once, and its slot
  is `not_analyzed`.
- `stale_results`: `docs/query.md:75` says a result is `stale` when a returned
  fact is owned by a stale unit. `file_api` returns an entry's locations in
  other files with their units (`file_api.cpp:229-239`) and does not note those
  units, so the result is `success`.
- `first_forced`: the ladder compares the first forced include of the normalised
  command with the `/Yu` header, and normalisation puts that header where `/Yu`
  was written. `/Yu` ahead of two `/FI` passes although another header is forced
  before the wrapper; the replay then parses it outside the precompiled prefix.
  `docs/analyzer.md:489` and the test at `analyzer_tests.cpp:3935`, which writes
  `/Yu` last, expect a rejection.

Others are in the models, some as properties no run checks, stated beside the
others with what breaks them:

- `response_file.hpp:58-60` and `docs/analyzer.md:453-454`: repeated references
  to one path reuse one snapshot. `snapshot_for` (`response_file.cpp:226-227`)
  compares a reference with the paths that were *read*, as the file system has
  them now, and never with the recorded aliases. In `cl @r2 @r3 @r3`, `r3` a
  hard link of `r2` that is replaced between its two references, the second is
  read anew, and `r3` is in the evidence of two snapshots; in `cl @r3 @r2 @r2`,
  `r3` replaced by a link to `r2` in between, the second `@r2` is given the
  snapshot of `r3` (`RepeatsReuseOneSnapshot`; `ExpansionIsOfSnapshots` is what
  holds, of these workloads too).
- `store.hpp:239` documents `PublishOutcome::failed` as "mutation failed and was
  rolled back; failed attempt recorded". `store.cpp:1648-1653` returns it with no
  attempt when recording the attempt itself fails, and `store.cpp:1705-1709`
  leaves the attempt `in_progress` when marking it failed fails as well
  (`FailedMeansFailedAttempt`).
- `store.hpp:648-651` has a file that is not the store's refused before any
  connection that could create files; when the file is replaced between the
  probe and the connection, the sidecars are there when the identity is refused
  (`RefusedCreatesNothing`).
- `check_identity` reads the application id, the version and the schema in three
  statements; a creation that commits between them makes an opener refuse a good
  store, and the next attempt succeeds.
- `pch_replay_internal.hpp:52-56`: every existence answer given is replayed;
  a file that was found and not opened can go (`EveryAnswerIsReplayed`).
- `contribution_codec.hpp`: malformed bytes throw `StoreError`; a text table too
  long to reserve and a fact an adder refuses throw other exceptions
  (`MalformedIsAStoreError`).
- `docs/query.md:238-240`: every continuation advances; a trace whose time ends
  before it has replayed what earlier pages found does not
  (`EveryContinuationAdvances`; `ContinuationAdvances` is what holds).
- `profile_index.cpp:747` and `docs/profile-index.md:102` say that no analysis
  starts after a failure; a worker looks at the flag and fetches its index in two
  steps (`:755-756`), so one per other worker still can.
- `docs/profile-index.md:118`: any failure is recorded as a failed attempt, the
  busy outcome excepted; a run whose analysis failed and that finds the lock
  taken ends `failed` without one (`:378-381`, `FailureUnrecorded`), and its
  report says so.
- When the unit that gave an external symbol its only locations is removed while
  another still names it as a placeholder, `remove_contribution` leaves it
  `endpoint_only` and not the `external_placeholder` that the other one said
  (`Survivor`). In the instance no unit locates an external symbol, and
  `GraphIsWhatUnitsSay` holds of that.

## 6. Proofs

Eight modules hold proofs. Each theorem is of its specification and holds for
every value of the constants that satisfies the assumptions of the module:
batches are batches and contributions contributions, absent values are not
values, a file system object is of one kind, every item of a spool has a size,
the locations and evidence of a contribution are of its own symbols, two kinds
of inspector are disjoint, the headers of a command are looked for somewhere,
the rows of a store are as the schema and its writers keep them and a request is
one that the argument checks let through. `TLC` evaluates every one of them in
the runs.

Every inductive invariant named below is written as a conjunction of named
parts, none of which is inductive alone.

### Publication (`StorePublishProofs`)

- `PublicationInvariant`: the inductive invariant
  `TypeOK /\ WritersNeverCollide /\ OperationStaysAccepted /\
  LiveAttemptIsOpen /\ TransactionIsReplacement`. That the transaction is the
  committed database with a prefix of the batch applied needs the committed
  database not to move meanwhile, which needs one writer at a time; that the
  attempt is still the newest and open needs the same and that recovery runs
  only before the holder publishes; that an insert lands in an empty slot needs
  the batch still accepted.
- `PublicationIsAtomic`: the committed units change only by a commit
  (`DatabaseStep` says what each action may do to `db`), and a commit applies
  the whole batch (`CommitIsAtomic`, from `TransactionIsReplacement` at
  `next = Len(install) + 1`).
- `UnitsAreReplayInvariant`, `GenerationCountsSuccessesInvariant`: properties
  of one database state; `DatabaseStep` leaves four kinds of change (append an
  attempt, mark it failed, mark dead ones interrupted, commit), and each gets a
  lemma. A snapshot is a copy of a state that had the property.
- `GenerationNamesContentInvariant`: a generation moves exactly when units may.
- `LabelsUniqueInvariant`: no label twice in the database and in a snapshot,
  and inside the open transaction too, where a batch is half applied:
  `OperationStaysAccepted` compares each insert with the units that stay and
  with the rest of the batch.
- `StoreImplementsContract`: the refinement mapping of `StorePublish` takes
  initial states to initial states and every step to a contract step or a
  stutter: a commit to `Publish`, everything between to nothing.
- `WritersNeverCollideInvariant`, `OperationStaysAcceptedInvariant`: conjuncts
  of the invariant.
- `LogIsKept`: an action property; an attempt that ended is never rewritten.
- `RecoveryIsCompleteInvariant`: from `RecoveryInv`, that after recovery
  everything in progress is beyond `mark`. Whoever appends later is the holder,
  and `LogIsKept` keeps what recovery ended.
- `ResultIsHonestInvariant`: from `ResultInv`, that a result is held only by a
  process that is back from `publish()` and agrees with the database. The steps
  of the others change neither the generations nor the units nor a count of
  successes (`Quiet`), because only the holder's do.

### Freshness (`StoreFreshnessProofs`)

`FreshnessInv` is `TypeOK /\ LockInv /\ PlanInv /\ SecondPassInv /\
VerdictsAreOfLiveUnits`. Its core is `PlanInv`: a plan whose generation is the
profile's present one describes the profile's present rows. A publisher raises
the generation whenever it changes a row, so the check of the generation alone
makes a plan by row ids safe although ids are used again. `SecondPassInv` adds
that what the second pass has hashed was on the disk while the lock was held
and, when the inspection concludes, that this is every input of the plan.
`FreshIsWitnessedTheorem`, `StaleIsWitnessedTheorem`,
`IncompleteLeavesNothingFreshTheorem` and `CompleteMeansCurrentTheorem` are
action properties from it, one case per step that stores verdicts or reports.

### Shared rows (`SharedRowsProofs`)

`RowsInv` holds after every statement of a publication: references resolve, a
unit's own rows are of its own symbols and agree with each other on file and
version; a row without a user is one the removal touched, in a table still to
be pruned (`StillToPrune`); a cached id is of the row that has the key; each
slot is as far as the publication has come with it (`Progress`: what it is to
say, or nothing yet; `Inserting`: said so far and left together are the
contribution). The cache is the reason removal must be over before insertion
begins: an id in it must not be pruned. `ForeignKeysHoldInvariant`,
`NothingOrphanedInvariant` and `RowsDenoteContributionsInvariant` follow.

### Index runs (`ProfileIndexProofs`)

- `IndexInvariantHolds`: the inductive invariant
  `Shape /\ LockDiscipline /\ SnapshotsArePast /\ PlanIsCurrent`. `PlanIsCurrent`
  says that from the check under the lock until it publishes, what a run saw is
  what is committed. Alone it is not inductive: that nobody else publishes in
  the meantime needs `LockDiscipline` (a run past the lock's acquisition is its
  holder), and that the check, which compares only existence and generation,
  establishes equality of all the units needs `SnapshotsArePast` (a snapshot's
  generation is at most the present one, and at the present one its units are
  the present units). `Shape` is the little typing these rest on.
- `PlanIsCurrentInvariant`: its last conjunct. It is the reason a run that
  wrote nothing while planning may publish under a lock it took minutes later.
- `RunInvariantHolds`: `RunInv` adds, for each run, the plan in the order of the
  selection (`PlanInOrder`), the pool (`PoolInv`: an entry that was fetched is
  with exactly one worker, or has its outcome, or its analysis threw, and entries
  are fetched in order), that slots not planned have units that say what was
  asked for (`OthersMatch`), and that after the revalidation every input of
  every unit of the profile was on the disk under the lock (`InputsHeld`).
- `ReportIsSequentialInvariant`: entries are fetched in order and none is
  abandoned, so of the entries before the first failed one all succeeded, and
  the one named is the one a sequential run would stop at.
- `SuccessMeansCurrentTheorem`: from `InputsHeld` through the publication to the
  report; with `PlanIsCurrent`, the slots not analysed included.
- `IndexUsesContract`: each step is the contract's `Acquire`, `Release`,
  `EnsureProfile` or `Publish`, or none. With `StoreImplementsContract`, the
  interface between the two is proved from both sides.

### Opening and spools (`StoreFilesProofs`)

`OpenInv`: at most one creator, inside its transaction (`CreatorInv`); past its
check of the root an opener is at a store of its own root (`OwnFileInv`). Only
a file that is absent or empty is ever given a store, and an opener that could have written one has
looked again inside the transaction: `OpenMeansOwnInvariant` and
`FoundIsKeptTheorem`.

`SpoolInv`: `NamesInv` says whose a name and a lock are. A name leads to its
owner's spool only until the owner has unlinked it, and a walker holds a lock
only of the file it looks at; so what a walker removes has no owner. `DataInv`
says where each entry's bytes lie, below the end of the last whole entry, which
is why a write that ended early does no harm (`SpoolHoldsEntriesInvariant`).
`WalkInv` says what a walk nobody disturbed has still to visit
(`LeftoversGoInvariant`).

### One analysis (`UnitAnalysisProofs`)

`AnalysisInv` holds of every thread's record on its own (`UnitInv`), because a
thread's step changes only its own record and the driver, and an edit only the
disk. It has the shape, the `Control` of the pipeline (what the ladder
established of both commands, no capture before the ladder is climbed, no
replay before the comparison), that the texts a run entered are the snapshot's
(`TextsKept`), and the core, `RunIsTrue` and `ParseIsTrue`: *what a run was told
before the wrapper, at it and for it is what the snapshot answers now.*

It is inductive because a snapshot only grows (`Grown`): whatever it answered
once, missing files included, it answers again, whatever is on the disk; this is
also the action property `AnswersAreKept`. Two runs that ask the same things
therefore hear the same. The consumer's capture and the final parse ask the same
things once they are in the wrapper, and arrive there with the same macros if
one header alone can be it, which gives `ProvenPrefixCannotDriftInvariant`; the producer's capture
asks them as another command, and the comparison is what relates the two, which
gives `ReplayIsThePchInvariant`.

### The query tools (`QueryProofs`)

`StoresAssumption` is what the proofs take of stores and requests: symbols and
relations are finite, ids and ranks tell rows apart, the ends of a relation are
symbols, local symbols nest (`WellKept`); limits are naturals, no node budget is
zero, a query has a name in it.

- `PagesInvariant`: `QueryInv` says that a cursor held by the client, and the one
  a call came with, is for a beginning of the result its binding is about
  (`Follows`): the same request, filter and limits on the rows of its generation
  with the withheld files of its binding. A generation has one content, so a
  cursor that `Accept` lets through is for this call's own result; that the list
  of names the engine keeps is of the generation it says is part of it.
  `PageInv` is what the last page says of the result.
- `ContinuationIsFaithful` and `ContinuationProgresses` follow. For searches and
  listings the result is a sequence that only depends on the snapshot. A trace
  is run again under each call's budgets, so its page is the beginning of the
  whole only because a traversal under any budgets goes *along* one under none
  until it stops (`TraversalTogether`, candidate by candidate), and the
  one under none never stops because it runs out of symbols (`RoomForOneMore`).
- `ProjectionsAgree`: `WithheldSymbols` adds local symbols in as many rounds as
  there are symbols, which is enough (`GrowthStops`: a set that grows in every
  round inside a finite one outgrows it); local symbols nest, so among the
  symbols the two projections disagree about there would be one whose enclosing
  symbol they agree about.
- `ResultsArePublicInvariant`: each page's records are records of the whole
  result, whose sequences list exactly the sets they were ordered from
  (`OrderedElements`), of which each element is public by `ProjectionsAgree`.
- `TraceMeansReachableInvariant` compares the search with a definition that has
  none of its steps: the rings of symbols around the start in the graph of ways
  that public calls may go (`MeantRecords` in `QueryEngine`). `AllBases` is the
  least set closed under the public override relations and contains whatever
  `override_closure` collects, which in turn leaves nothing out, since its queue
  ends within as many rounds as there are symbols (`BasesFound`,
  `OverridersFound`). Hence the candidates `expand` lists for a node include
  whatever a public way from it enters, and `seal` gives a candidate exactly its
  callsites, confirmed or possible, or drops it. Under the budgets of the whole
  result, candidate by candidate and node by node, the level under way is the
  part of the ring that the nodes done so far lead to; level by level,
  `AtRing` says that what is recorded and visited are the rings so far. Records
  come in the order of their distance, so that a page that ends early has every
  record of the rings before its last.

### What the proofs rest on and what they leave to TLC

`NaturalFacts` has what several of them need: the least element of a set of
naturals, the largest of a bounded one, and that a set with zero and every
successor has them all. Induction is used only as
a statement about a *set* of naturals, from the well-foundedness of `<`; what a
recursive definition computes for every input cannot be proved with the
installed provers, whose induction theorems take an operator.

Left to TLC:

- liveness (`PublicationConcludes`, `InspectionEnds`, `RunEnds`, `AnalysesEnd`),
  which the provers cannot treat;
- `CommandsAreTheirEntries`, `LookupIsTheFilesystems`, `ExpansionIsOfSnapshots`,
  `RefusedForACauseOnly`, `WhatIsReadWasWritten`: their modules declare
  `RECURSIVE` operators (a tokeniser, an expansion, the layouts of the codec);
- `IncludesAreTrueOfTheirVisit` and `GraphIsWhatUnitsSay`, which are about folds
  over lists of any length.

`WritersNeverCollide`, `TransactionIsReplacement`, `GenerationCountsSuccesses`
and `LabelsUnique` are stated in `StorePublish` and proved; no run repeats them.

## 7. Not modelled

- The facts themselves: `facts_builder.cpp`'s translation of declarations,
  expressions and references into keys is a sequential walk of Clang's tree, one
  case per kind of node, whose correctness is agreement with Clang and not a
  protocol. Its direct includes are modelled.
- `identity.cpp`, locations, hashing, status names: conversions of text. A hash
  is the identity of what it hashes.
- `compile_context.cpp`: a table of options applied to one command.
  `UnitAnalysis` takes its result, the order of forced includes in it included.
- MCP session and command line: a line loop of one reader and one writer.
- Snippets, rendering and wording; build scripts, the SDK recipe, test tools.
- Clang and SQLite: SQLite's transactions, locks and rollback, and the operating
  system's dropping a dead process's locks, are assumed.
