# SQLiteBurrito in TLA+

A verification project for [SQLiteBurrito](../src/README.md), a C++17 wrapper around
SQLite: TLA+ modules translated from its source, TLC configurations that check them on
small instances, and theorems that TLAPS proves for every instance.

The library is small (about 1800 lines) and has no threads of its own. What is hard in
it is the order of calls: an object's flags, its native handle, the state SQLite keeps for
that handle and the state of the database file change one after the other, any call in
between can fail, other connections work on the same file, other threads destroy objects
that share native ones, and a process can die.

## 1. Inventory

Paths are relative to the repository: `src/` is the implementation,
`include/sqlite-burrito/` its headers, `test/src/` the tests.

| component | state | operations | status |
|---|---|---|---|
| `versioned_database` (`src/versioned_database.cpp`) | a connection `con_`, a prepared `update_stmt_`, the flag `update_prepared_`; in the file, a version number and the effects of the update steps | `open` (find the metadata table, read the version, run the user's callback step by step, store the version after each), destruction | modelled, but for its defaulted moves |
| `transaction` (`src/transaction.cpp`) | `con_`, `committed_`, `rolled_back_`; in SQLite, the autocommit flag, the locks and the uncommitted rows of the connection | construction (`BEGIN`), `commit`, `rollback`, destruction (`ROLLBACK`), moves | modelled |
| `statement` (`src/statement.cpp`, `statement.h`) | `stmt_`, `parameters_` (names to indices); in SQLite, the cursor, the bound values, and the last error of the *connection* | `prepare`, `step`, `execute`, `reset`, `bind`, `get`, the static `execute`, destruction, moves | modelled |
| `connection` (`src/connection.cpp`) | the native handle, `flags_` | `open` (again), destruction with five seconds of retries, `last_error`, `begin_transaction`, moves | modelled |
| `errors` (`src/errors/sqlite.cpp`) | none | an error code's condition is its low byte | modelled, as operators |
| examples (`example/errors/main.cpp`, `example/exceptions/main.cpp`) | `dummy_table`: three persistent statements and the table behind them | `prepare_statements`, `add_entry`, `select_all`, `by_row_id` | the table; `main` and its output are not |
| build, packaging, CI | none | | not modelled |

How they interact:

- A `transaction` and a `statement` hold a raw pointer to their `connection`, and the
  getters of a statement ask it for the last error. All statements of a connection share
  that error, its transaction and its locks.
- A `versioned_database` owns a connection and a statement compiled on it. It gives
  itself to the user's callback, which runs SQL on it. Opening it again replaces the
  connection's handle while the statement still belongs to the old one.
- Connections, in one process or in several, meet in the file: SQLite's locks decide who
  is refused. The library never sets a busy timeout, so a conflict is an immediate
  `SQLITE_BUSY`.

What makes each component correct:

- `versioned_database`: the stored version never claims a step the file has not seen; no
  step is run on a file that lacks an earlier one; the version does not go down, and does
  not fall far behind; `open` returns, and reaches the version when nothing goes wrong.
- `transaction`: the rows of a scope become durable together or not at all; a commit that
  reports success has stored them; a transaction does not outlive its scope without a
  report; a destructor does not throw.
- `statement`: a value bound by name reaches the parameter of that name; errors are
  reported and reads of data are not taken for errors.
- `connection`: a handle is closed once, not while it has statements, and used by nobody
  afterwards; a handle nobody owns was lost in a way that is known; destructors return.
- `errors`: each code the library names is one of the conditions it names.
- the examples: what `add_entry` added, `select_all` and `by_row_id` return; a failure is
  reported to somebody.

The hazards, that is what can go wrong in this code and a unit test would hardly reach,
are listed with their lines in `PROJECT.json`.

## 2. Modules

```
VersionedSchema  <--implements--  VersionedDatabase  <--  VersionedDatabaseProofs
                                         ^                   ^-- SoleOpenerProofs
                                         `-- MCVersionedDatabase
AtomicScopes     <--implements--  Transaction        <--  TransactionProofs
                                         ^-- MCTransaction
                                  Statement          <--  StatementProofs
                                         ^-- MCStatement
                                  Connection         <--  ConnectionProofs
                                         ^-- MCConnection
Statement, Conversions  <--extended by--  DummyTable <--  DummyTableProofs
                                         ^-- MCDummyTable  --extends-->  Errors
Conversions  <--  ConversionProofs       (DummyTableProofs rests on StatementProofs too)
```

The `MC` modules only give values to constants and define symmetry sets. Definitions
whose name ends in an underscore and a remark, such as `Commit_NotFlagged`, are plausible
bugs: they replace the definition they are named after to show that a property notices.

### VersionedDatabase

Each process has one object. A call of `open` is a sequence of steps, one per SQLite
call, because anything can happen between two of them. `pc` says what comes next.

| code | action |
|---|---|
| `open`, `con_.open` (swap the handle, close the old one or leak it if a statement keeps it busy) | `Open`, `ConnectionOpen`, `ClosedByOpen` |
| `get_file_version`: query for the metadata table; a failing step looks like an empty result | `FindTable` |
| `get_file_version`: query for the version | `ReadVersion` |
| `perform_update`: the callback, run as in the test's `update_fn` | `RunUpdate` |
| `prepare_update_statement`, which sets the flag in any case | `PrepareUpdateStatement` |
| `store_new_version`: reset, bind, execute; `++current` and the loop's condition | `StoreNewVersion` |
| `~versioned_database` | `Destroy` |
| exit or death of the process, in or outside of `open` | `EndProcess` |

The callback is the application's, so the model takes it from `test/src/versioned_database.cpp`:
a script per step, run statement by statement. It may succeed, fail before anything is
committed, or leave a transaction open or the write lock held on its handle
(`LeftBehind`). A step in `Replayable` succeeds when run again; any other (a
`CREATE TABLE`) fails. Committing a step and storing its version are different
transactions.

`VersionedSchema` is what all this implements: run a step on top of all before it; set
the version to a number all of whose steps were run.

### Transaction

Objects on connections on one file. SQLite is the environment: the locks of its rollback
journal (none, shared, reserved, pending, exclusive), the autocommit flag, and the rows a
transaction has pending. `BEGIN`, `INSERT`, `COMMIT`, `ROLLBACK` and a stepped `SELECT`
take the locks SQLite's documentation says and are refused at once on a conflict.

| code | action |
|---|---|
| constructor, three behaviours; if `BEGIN` throws there is no object | `Begin` |
| `commit`: refused when a flag is set; otherwise COMMIT, and the flag whatever it answers | `Commit` with `CommitSucceeds`, `CommitBusy`, `CommitFails` |
| `rollback`, likewise | `Rollback` |
| `~transaction`: ROLLBACK when no flag is set; an exception ends the program | `Destroy` |
| the defaulted moves; assignment forgets what its target was holding (`dropped`) | `Move`, `MoveAssign` |
| statements of the application | `Insert`, `Select`, `Reset` |
| SQLite rolls back on its own | `AutoRollback` |
| `~connection` | `Close` |

A call that is refused and changes nothing is a stuttering step. `owner` and `report` are
history: in whose scope a row was inserted, and what an object's `commit` or `rollback`
returned. `AtomicScopes` is the promise: a scope is opened, written to, and published or
discarded as a whole.

### Statement

The statements of one connection and every call of their interface. SQLite is modelled by
its answers and by the error code it leaves on the connection; a value is one of the kinds
the getters tell apart (NULL, empty, zero, a wide number whose low bits are zero, anything
else). `out` records the last call:
what SQLite answered (`answer`) and what the caller saw (`ec`). `Step` models
`step(std::error_code ec)`: a copy of the caller's code is written, so the caller never
sees it (`StepReport`). The map of parameter names is represented by the text it was
filled from, with `dangling` once the statement that owns its keys is finalized; a lookup
in a dangling map may answer anything, since it reads freed memory.

`undisturbed` is history: since a statement was stepped, only successful reads happened on
the connection. `out.filled` says how much of what a getter was to put is the column's: the
whole value, a part of it (an array or vector of values wider than a byte, when the column's
bytes do not suffice for the last one) or nothing. `out.value` says for a bind whether the
name it did not find is a name of the statement.

When a getter finds no memory (`NoMemory`), SQLite keeps the error twice: on the connection,
where the getter may look for it, and on the statement (`rc`), whose next `reset` reports it
again. `emptied` is history: a string or vector came out empty for that reason and nothing
was reported yet.

| code | action |
|---|---|
| `prepare` of a text, and of a text that does not compile or is empty | `PrepareText`, `PrepareNothing` |
| `step`, `execute`, `reset` | `Step`, `Execute`, `Reset` |
| `bind`, `bind_null` by index and by name | `BindIndex`, `BindName` |
| `get` of numbers (`narrow`: of at most 32 bits; `through`: `float`, `bool`), of strings and vectors, of arrays, of optionals | `GetNumber`, `GetText` with `ReadText`, `GetArray`, `GetOptional`; any but the numbers with `NoMemory` |
| the static `execute` | `ExecuteSql` |
| `~statement` | `Destroy` |

### Connection

Which object owns which native handle, compiled statement and map of parameter names.
Handles, compiled statements and maps are numbered and never used again, so that "closed
twice" and "used afterwards" can be seen; `undefined` then stops the model. Objects live on
several threads, and every SQLite call and every look at the clock is a step: other threads
run, and time passes, between any two of them in a destructor.

| code | action |
|---|---|
| `connection::connection` | `Construct` |
| `connection::open` that succeeds: the old handle is closed, and lost if it is busy | `OpenSucceeds` |
| `connection::open` that fails, leaving the handle SQLite returned nonetheless | `OpenFails` |
| `~connection`: it begins; `sqlite3_close`; the clock is past the deadline, or is not; a nap | `Destroy`, `Close`, `GiveUp` or `KeepTrying`, `Sleep` |
| `statement::statement`, `prepare`, `~statement` | `ConstructStatement`, `Prepare`, `DestroyStatement` |
| `fill_parameters_map`: the first bind by name allocates the map, of an unprepared object too | `FillMap` |
| `step`, `bind`, `get`, where the native objects or the map they use are gone | `Use` |
| the defaulted moves, which copy all these pointers | `MoveConnection`, `MoveStatement` |

The clock counts in units of a nap, and a nap may last longer than it was asked to. The
destructor reads the clock after `sqlite3_close` was refused, so it may give up (`GiveUp`)
whatever the clock said before: the deadline can pass between the two. Two
duties of the caller are assumed: a statement is prepared and used only while its
connection object exists, and an object is not destroyed while another thread is inside
one of its methods.

### Conversions and Errors

Pure algorithms, as operators. `Conversions` has the integers of `bind` and `get` by their
width and sign (`Stored`, `Retrieved`) and the size of a vector (`NumValues`); the widths
are constants, so that the theorems hold for all and the runs can use small ones. `Errors`
has the codes, the conditions and the mask between them; TLC evaluates its claim on every
named code (`CodesChecked`).

### DummyTable

The composition: `dummy_table` of the examples makes calls of three statements of one
connection, and each call is an action of `Statement`, with SQLite's answers now following
from the rows of the table (or being errors) and the integers from `Conversions`. A method
is a sequence of calls (`at` says where it is) that ends at the first error
(`ReturnOnEc`); the example with exceptions makes the same calls in the same order.

| code | action |
|---|---|
| `prepare_statements` | `PrepareStatements` |
| the `reset` every method begins with | `Begin` |
| `add_entry` | `AddEntry` with `Bind`, `Insert` |
| `select_all`, `by_row_id` | `SelectAll`, `ByRowId` with `NextEntry`, `GetFirst`, `GetString` |

History: `faults` counts how often SQLite failed for a statement, `unread` how often it did
so in giving the value of a column, `alarms` how often its method returned an error, `added` how often `add_entry` returned without one. The table
exists, the database is opened once, and nobody else uses it.

## 3. Runs

Deadlock checking is off everywhere: the bounds on calls, failures and rows let every
model come to an end, and a program that has ended is no deadlock.

| run | instance | shows |
|---|---|---|
| `vdb_sole_opener` | 1 process, 1 file, 3 handles, 3 steps, 4 opens, 2 failures, 1 crash | `VersionMonotone`, `LagBound` (never more than two behind), `SuccessNearlyStored`, `ExactlyOnce` when nothing fails, the inductive invariants `SoleInv` and `OnceInv` behind them, `ImplementsSchema`, `OpenReturns`, `UpgradeCompletes` |
| `vdb_two_openers` | 2 processes, 4 handles, 2 opens each, 1 failure, 1 crash | `NeverSkips`, `StepsInOrder` and the inductive invariant (types and handles included) for concurrent updates |
| `tx_atomic` | 2 connections, 3 objects, 2 rows | `ImplementsScopes`, `AllOrNothing`, `LocksReleased`, the inductive invariant |
| `tx_failures` | 2 connections, 3 objects, 2 rows, 2 failures, 1 move | `CommitIsWhole`, `LeakReported`, `OnlyFailuresTerminate`, the inductive invariant `WholeInv` of the first two |
| `stmt_prepared_once` | 2 statements, 2 texts with 2 and 3 parameters | `NamedBindsHit`, `KnownNamesFound`, `UndisturbedZero`, `NoNumberFromNowhere`, `UnreadIsReported`, the inductive invariants `IndInv` (names) and `ReportInv` (errors) |
| `con_lifetimes` | 2 connections, 2 statements, 2 handles, 2 compiled statements, 2 maps of names, a timeout of 1 nap, 1 move | `OnlyMovesHurt`, `LeaksAreKnown`, `BelongsOrLost`, `DestructorReturns`, `ClosedInTime`, the inductive invariant |
| `example_table` | 3 insertions, 2 failures per statement, 2 entries, integers of 1 to 4 bits | `EachFaultReported`, `LostOrReported`, `ListedOrPending`, `FoundOrPending`, `MethodsReturn`, the inductive invariants `TableInv` and `ResultInv` |

Why the bounds are enough. The schema is about one file, and three steps are the fewest in
which the version can lag by two and a third step can still be refused; targets below, at
and above the number of steps cover every end of the loop; two failures are what it takes
to lose an UPDATE and then fail again; four opens allow open, reopen, a new object and a
restart. A lock conflict needs two connections, never more: SQLite's rules compare pairs.
Three objects allow one to follow, or to be nested in, another on the same connection while
the third is in the way. Two texts share their names at different indices and one has a
nameless parameter, so a wrong map is told from a right one. Two handles let a connection be
opened again or fail to open, or both connections have one; two compiled statements keep two
handles busy, or let one be replaced; two maps give each statement its own; one move is
enough to share a native object; with a timeout of one nap a destructor still has a first
try, one in time and one after the deadline. Three insertions leave a rowid in the middle, two failures
let a statement fail once more while the first failure is pending; the entries have a zero
(which the getters ask about), the smallest integer of the type, a NULL and a text.

`tx_atomic` has neither failures nor moves, because with them the property is false:
when SQLite rolls a transaction back on its own (disk full), the later inserts of the
scope are committed one by one. `tx_failures` checks what is left then. It has `Nested`
FALSE: an object that is constructed after such a rollback, in the scope of another, begins
a transaction that the commit of the first one ends, and reports as its own.
`vdb_sole_opener` is about one opener, since two processes can
overwrite each other's version with a smaller one; what survives that is in
`vdb_two_openers`.

Fairness. `vdb_sole_opener` assumes that a thread inside `open` goes on (`WF` of each of its
steps): no call in it waits, since no busy timeout is set, and callbacks are assumed to
return. Nobody is obliged to call `open`. `tx_atomic` assumes that a scope that was entered
is left (`WF(Destroy)`: destructors run when scopes end) and that stepped statements are
reset or finalized (`WF(Reset)`), not that anybody commits or begins. This is an
assumption on the application. `con_lifetimes` assumes that a thread inside a destructor of
a connection goes on: nothing in it waits but a nap, which ends. Nobody has to finalize a
statement or destroy anything. `example_table` assumes that a method that was called goes on
(`Running`), and not that anybody calls one.

### What the code does not keep

Each of these runs checks one claim that a comment, the documentation or a test makes, and
TLC finds a counterexample; the details are under `findings` in `PROJECT.json`.

| run | claim | what happens |
|---|---|---|
| `vdb_lost_version` | the latest version is stored | the last UPDATE fails unnoticed and `open` succeeds |
| `vdb_reopen_elsewhere` | a database tracks its own version | opened on a second file, the object counts in the first |
| `tx_scope_exit` | auto-rollback on scope exit | after a COMMIT answered busy nobody rolls back |
| `stmt_zero` | a zero is not an error | it is, after another statement's call |
| `stmt_reprepared` | names are not ambiguous | after a second `prepare` the old statement's map is used |

Other divergences are part of the model (a definition has them, no run is about them):

- `step(std::error_code ec)` takes the code by value, so `step` never throws or stores an
  error, against its documentation (`statement.h:149`, `:156`), and `execute` always
  returns 0 instead of the number of rows (`statement.h:162`): `StepReport`,
  `RowsModified`. `vdb_lost_version` is a consequence.
- `update_prepared_` is set when `prepare` failed, against its comment
  (`versioned_database.h:78`): `PrepareUpdateStatement`.
- a failing query for the metadata table is taken for "No such table"
  (`versioned_database.cpp:78`): `FindTable`. `VersionMonotone` says why that is harmless
  in the sole-opener instance.
- a NULL read as a string or vector is empty, although a comment says it is not allowed
  (`statement.cpp:479`): `ReadText`. It is also empty, with no error, when SQLite had no
  memory to convert the value, since then the column has no bytes either
  (`statement.cpp:462`): `NoMemory` with `emptied`. What `UnreadIsReported` says is that the
  next `reset` reports this error; it reports an error that the getter did report, too.
- an array or vector of values wider than a byte takes a column whose bytes do not suffice
  for the last value, leaves the rest of that value as it was and reports success
  (`statement.h:472`, `:511`): `Fillings`.
- a number read from an object that was never prepared is 0, and an error only if the
  connection has one to offer (`statement.cpp:351`): `NoNumberFromNowhere` says when.
- a destructor that finds the deadline over does not try again: a statement finalized after
  the last refusal and before the look at the clock leaves the handle open
  (`connection.cpp:34`): `GiveUp`, and `ClosedInTime` leaves this window out.
- `execute` never reports a failure, so `add_entry` of the examples reports success for an
  entry that is lost, the next `add_entry` reports the loss and does not add its own entry
  (`LostOrReported`), and `last_insert_rowid` in between is that of an earlier entry;
  `select_all` ends at a failing step as at the last row (`ListedOrPending`).
- a moved-from transaction object ends the transaction again and may end the program:
  `Move`, which is why `OnlyFailuresTerminate` has a move among the causes, next to a
  rollback by SQLite itself.

## 4. Proofs

Everything below holds for every value of the constants that satisfies the named
assumption of the module (`ConstAssumption`: bounds are natural numbers, `None` is not an
object).

**VersionedDatabaseProofs**, for any processes, files, handles, steps, targets, failures
and crashes. Without any further hypothesis: `OpenInductive`, `TypeCorrect`. `OpenInv` says
that the connection and the compiled UPDATE of an object are on open handles of its process
(`OwnHandles`) and that what is about to be stored is the number of a known step
(`KnownStep`), on whatever files objects are opened; the runs check it as a part of `IndInv`.
When no open object is opened on another file (`~ReopenElsewhere`; with it `vdb_reopen_elsewhere` is a counterexample):
`VersionNeverSkips`, `UpdatesInOrder`, `Refinement`. `NeverSkips` is not inductive: nothing
in it says why the number about to be stored is right. `IndInv` adds `LoopOnTop`, a call in
the loop has all steps below its counter committed in *its* file, and `SameFile`, the
compiled UPDATE and the connection are on one file, so the file that was updated is the file
that is counted. Steps are never undone (`AppliedGrows`), so what one process has
established no other can take away (`UpToStable`); that is why two processes that overwrite
each other's versions still never skip a step.

**SoleOpenerProofs**, for a database with one opener (`SoleOpener`: there is one process;
two can overwrite each other's version, so none of this holds for them), any files, steps,
opens, failures and crashes, and `~ReopenElsewhere`. When the script of step 0 fails if it
is run again (`0 \notin Replayable`; it creates the metadata table without `IF NOT EXISTS`
in the tests and examples): `LagIsBounded`, `SuccessIsNearlyStored`, `VersionsNeverDrop`.
Their invariant is `SoleInv`. The counter of the loop is the stored version, or one ahead of
it after a lost UPDATE, and then the failure is on record: the statement will report it when
it is reset, or the lock that swallowed the UPDATE stops the next script (`AtVersion`,
`FailureKept`); or else it is 0 after a failed query of an up-to-date file, and the first
step fails. A transaction only survives a call that fails, and then only on a handle the
next call no longer uses (`CleanHandles`). Whether step 0 is replayable or not:
`StepsRunOnce`. While nothing fails no transaction is left behind and every UPDATE is
compiled and stored (`NothingLeft`), so the steps committed once are those below the version
and the one being counted (`AppliedOnce`), and no other was committed at all.

**TransactionProofs**, for any connections, objects and rows, nested objects included.
Without any hypothesis: `DestructorsDoNotThrow` says that the program ends in a destructor
only after SQLite failed or an object was moved, and `Atomicity` that scopes are all or
nothing until then (`Undisturbed`), whatever bounds the constants set for failures and
moves. Both are parts of `Inductive`: `IndInv` holds as long as nothing has failed or moved.
`Refinement` needs `MaxFaults = 0` and `MaxMoves = 0`, for it is about whole behaviours.
`IndInv` says that an object that would roll back is the only one of its connection
(`SoleHolder`), that this connection is in a transaction (`HoldersOpen`), and that what it
has pending are exactly the rows of that object (`PendingOwned`); the rest ties rows and
reports together. `EndStep` and `MappedEnd` treat commit, rollback and destruction alike: the
hold ends, and all pending rows are published or none. After any number of failures and
moves: `TypeCorrect`; `LeaksAreReported`, nested or not, because an object gives a report
only when its hold ends and none afterwards (`ReportsLast`); and, when no object is
constructed in the scope of another (`~Nested`), `CommitsAreWhole`. The latter needs
`OpenIsWhole`: as long as SQLite has not rolled a transaction back, its pending rows include
all rows of every object that holds it. The hypothesis is needed: after a rollback by SQLite
a second object could begin in the scope of a first one, whose commit would then end the
second transaction and report success without its own rows.

**StatementProofs**, for any statements, texts, parameters and names, when objects are
prepared once (`~Reprepare`; `stmt_reprepared` is the counterexample without it):
`NamesAreNotAmbiguous`, `NamesAreFound`. `IndInv` adds `MapFits`: a map that was filled from
a text was filled from the statement that is bound. However often objects are prepared:
`TypeCorrect`, and about the getters' errors `ZeroOfRowIsNoError`, `NoRowIsReported` (which
says exactly when a number of an unprepared object is no error) and `UnassignedIsReported`.
The first needs `ErrorOfRow`: the connection's last error is SQLITE_ROW as long as a
statement on a row is undisturbed, for every such statement at once.

**ConnectionProofs**, for any connections, statements, handles, compiled statements, maps,
timeout and number of moves: `NothingFreedTwice`, `HandlesAreOwned`, `StatementsBelong`.
`OnlyMovesHurt` needs to know who owns what: `HandlesInv` and `StatementsInv` say that as
long as nothing was moved a handle or compiled statement has one owner, which has it open,
`MapsInv` says it of the maps, and `NativesInv` that a handle with statements on it is open.
Most of the steps need only two facts, that a handle just allocated belongs to nobody and that SQLite closes no busy
one.

**ConversionProofs**, for any widths that at least double: `RoundTrip`, `ChangedInSql`,
`BytesFit`; the first two rest on three lemmas about remainders. **Errors**:
`ConditionOfExtended`, `CodesHaveConditions`.

**DummyTableProofs**, for any entries and any bounds on insertions and failures:
`TableInvariant`, `FaultsAreReported`, `LossesAreReported`. The methods' steps are
steps of `Statement` (`TableSteps`), so its invariant is inherited: that every bind of a
method succeeds (`BindOk`) follows from `MapFits`. `FaultsAreReported` counts a column that could not be read twice, once for the getter and
once for the next `reset` (`FaultCounted`). `PendingInv` says that an error is pending only
until its statement is reset, and `MethodInv` that a method reads a column
only in a row, and its integer only right after the step, which is why no zero is reported
as an error. `ListsAreWhole` and `RowsAreFound` say what the methods return. Neither is
inductive, since both are about a method that has returned: `ReadInv` says of one that runs
that the entries it has copied are the first rows, and that the entry being filled agrees,
up to the column that is read next, with the row its statement is on. An integer survives
the way through the table because it is bound and read as the same type (`IntReadBack`, a
case of `RoundTrip`).

Only model-checked: the liveness properties (`OpenReturns`, `UpgradeCompletes`,
`LocksReleased`, `DestructorReturns`, `ClosedInTime`, `MethodsReturn`), since fairness and
`ENABLED` are beyond the prover. Every invariant and every other property of the passing
runs is proved. The hypotheses of a theorem are those of the run that checks the same
property, but for the bounds.

## 5. Plan

In this order, the most important first:

1. *done* — `VersionedDatabase`, `Transaction`, `Statement` with their abstract
   specifications, runs and first proofs.
2. *done* — `Connection`: the lifetime of native objects, with failing opens, reopening, the
   destructor's retries and the defaulted moves; proofs.
3. *done* — `Conversions` and `Errors`, with proofs for all widths.
4. *done* — move assignment in `Transaction`; the getters' missing paths in `Statement`.
5. *done* — `DummyTable`, a client of `Statement` and `Conversions`; proofs.
6. *done* — proofs of all safety properties the runs check: the sole opener's
   (`SoleOpenerProofs`), whole commits and reported leaks under failures and moves, the
   errors of getters, and what `select_all` and `by_row_id` return.
7. Next: what `AtomicScopes` can promise after a rollback by SQLite or a move, and
   `Transaction` shown to implement it; the sole opener's bounds for one opener per file
   instead of one in all; how `NativesInv` of `Connection` relates to the handles that
   `VersionedDatabase` assumes.
8. A composition of `VersionedDatabase` with `Transaction`: update callbacks that use
   transaction objects, and what a failing one leaves behind.

## 6. Not modelled

Formatting of SQL texts, the contents of blobs and strings beyond their kind, floating
point values beyond zero, `sqlite3_exec`'s callback and error message, prepare and open
flags, WAL mode and shared caches (the library's defaults use neither). A bind fails in the
model only as misuse or out of range, not for lack of memory. A caller's error code is
fresh at every call: what a code from an earlier call does to a getter that leaves it alone
is listed as a hazard only. The defaulted moves of `versioned_database`
(`versioned_database.h:32`, `:38`) are left out: they move its connection and its statement
as `Connection` has it, and the flag `update_prepared_` is copied. The error categories are singletons without state. Of the
examples, `main`, the printing of entries and the update steps (those of the tests are
modelled) are left out, and a database that is opened again is a run of `Statement`, not of
`DummyTable`. Build files and packaging have no behaviour of the program.
