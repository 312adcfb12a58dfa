# A verification of schema-to-table

schema-to-table turns a JSON Schema into PostgreSQL tables and stores JSON
documents in them, as a command line tool (`internal/cli`) and as two Bento
processors, `schema_to_table_insert` and `schema_to_table_upsert`
(`pkg/processors`). This directory holds TLA+ models of it, what TLC checks about
them, and what TLAPS proves. Paths below are relative to the repository's root.

    cd tla
    tlc -workers 2 -config MCBatchUpsert.cfg MCBatchProcessor.tla
    tlapm SchemaLoaderProofs.tla

## The system

| part | source | state | operations | who it talks to |
| --- | --- | --- | --- | --- |
| schema loader | `pkg/processors/loader.go` | cache by URL, time of the last sweep, a mutex | `Load`, `sweepLocked` | HTTP servers; called by the batch processor |
| batch processor | `processor.go`, `errors.go`, `insert.go`, `upsert.go` | the connection (`sink`, `opened`, a mutex), and per batch: a transaction, the set `ensured` | `ProcessBatch`, `storeMessage`, `ensureModel`, `execStatements`, `ensureSink`, `Close` | Bento above; loader, planner and database below |
| database surface | `db.go` | a pool of connections; PostgreSQL's state | `openPGSink`, `Begin`, `TableExists`, `Exec`, `Commit`, `Rollback`, `Ping` | PostgreSQL |
| planner | `internal/normalized/model.go` | none | `Plan` | schema primitives |
| DDL, views, registry | `internal/normalized/ddl.go`, `registry.go` | none | `CreateStatements`, `ViewStatements`, `RegistryStatements` | planner |
| DML | `internal/normalized/dml.go`, `internal/schema/values.go` | none (the rows it writes) | `InsertStatements`, `UpsertStatements` | planner |
| schema primitives | `internal/schema` | none | nodes, `$ref`s, names, types, values | |
| landing mode | `internal/landing` | none (the rows it writes) | `Columns`, `CreateTable`, `Insert`, `Upsert` | called by the CLI |
| CLI | `internal/cli`, `cmd/proto` | none of its own; what its runs leave in the database | `Run`: render, `-drop`, execute statement by statement | planner, DML, landing mode, PostgreSQL |
| configuration | `spec.go`, `pkg/processors/registry.go`, `cmd/bento` | none | parse, register | Bento |

A batch goes through the parts like this. `ProcessBatch` opens one transaction;
for every message it reads the schema URL and table name from the metadata, gets
the schema from the loader (cache or HTTP), plans the model, creates it when the
root table does not exist, renders the payload into statements and executes them.
It commits at the end, or rolls back and returns an error, upon which Bento
delivers the batch again.

A run of the CLI renders all its statements from a schema and the files of a directory, for a
normalized model or for one landing table. With a DSN it then drops what is there (`-drop`) and
executes the statements one by one, without a transaction, until one fails.

### What is hard about it

* several workers run `ProcessBatch` on one database: they create the same model,
  write the same keys, and wait for each other's locks;
* a processor may die or lose its connection anywhere, also while COMMIT is under
  way, and a batch that was stored can be delivered again;
* in PostgreSQL one failed statement aborts its transaction, whatever the code
  decides to tolerate;
* the loader releases its mutex while it fetches: two fetches of one URL can
  finish in the wrong order, and a document can be replaced while it is fetched;
* the connection is opened by whichever batch comes first, under a mutex that `ProcessBatch` does
  not hold when it uses it, and `Close` can come between;
* a run of the CLI can end after any statement, and the next one meets what it left;
* a schema is a graph: definitions are shared and may be recursive, and three recursive functions walk it
  with a guard they share among their calls;
* planner, DDL and DML are written separately and must agree about names, paths,
  keys and order; an upsert is several statements whose order foreign keys
  constrain.

`PROJECT.json` lists the hazards one by one with the line where each bites.

### What makes each part correct

* loader: how old a served document can be is bounded by the ttl and one fetch;
  the cache regresses only briefly; expired entries do not pile up; every call returns.
* batch processor: a batch is stored whole in one step or not at all; success is
  only reported for a stored batch; models are whole and come with the batches that need them; no stored
  message lacks a column of its schema;
  what is stored under a key is one document; every batch is answered, and retrying
  stores it in the end; the insert processor never changes stored rows.
* connection: `sink` and `opened` agree, the sink is usable, no pool is forgotten, every call returns.
* CLI: a run that ends well has stored its documents, whatever earlier runs left; an upsert repairs;
  `-drop` makes room; what is refused is refused before anything of the document is written.
* walks over schemas: nothing is left out because it is shared, and nothing recurses without end.
* planner, DDL, DML: together they implement a store of whole documents, and the
  DDL they plan installs.

## The modules

| module | models |
| --- | --- |
| `SchemaLoader` | `loader.go`, its callers, the clock, the servers |
| `SchemaLoaderProofs` | proofs about it |
| `Postgres` | the part of PostgreSQL's READ COMMITTED transactions the processors meet; not code of the repository |
| `BatchProcessor` | `processor.go` and `db.go` on top of `Postgres`, several workers |
| `AtomicBatches` | the abstract specification of the processors: batches stored in one step |
| `BatchProcessorProofs` | proofs about `BatchProcessor`: types, models, inserts, a batch is stored in one step |
| `BatchDocumentProofs` | proofs about it: what is under a key is one document; it implements `AtomicBatches` |
| `Connection` | `ensureSink`, `Begin`, `Close` and the pools they open and close |
| `ConnectionProofs` | proofs about it |
| `Statements` | the statements made of a plan, of a rendered document and of a landing table, and what PostgreSQL does with each |
| `NormalizedPlan` | the planner, as operators on schemas |
| `NormalizedDml` | the rows and DELETEs of a document, which its statements are made of |
| `LandingTable` | the columns and values of the landing mode |
| `DocumentCells` | what a document means, defined without planner and DML |
| `DocumentStore` | the abstract specification: documents under keys |
| `DocumentStoreProofs` | what every implementation of it inherits |
| `NormalizedModel` | a normalized model in use, over `Statements` |
| `NormalizedModelProofs` | the proof that it implements `DocumentStore` |
| `CommandLine` | runs of the CLI one after the other, over `Statements` |
| `CommandLineProofs` | proofs about it |
| `SchemaWalk` | the recursion of the planner and of the landing mode over schema graphs |
| `SchemaWalkProofs` | proofs about it |
| `MCDocuments` | the schemas and documents of the runs |
| `MCRenderings` | what planner and renderers make of them |
| `MC...` | constants for TLC |

What recurses over schemas and payloads (`NormalizedPlan`, `NormalizedDml`, `LandingTable`, `DocumentCells`) is kept
apart from what changes state. `CommandLine` and `NormalizedModel` have the plans and renderings as constants, functions of schemas and
documents, of which their `ASSUME`s say only what shape they have; the `MC` modules give these constants the values the
recursive operators compute, and TLC evaluates the `ASSUME`s there. So the runs check planner, renderers and statements
together, and the proofs are about every plan and rendering of that shape.

The `MC` modules only define values for constants. Definitions under a comment "Mutation: ..." are deliberately wrong
variants of the definition that follows them. They are not used by any specification;
substituted for it, they show that a property can fail.

### SchemaLoader

A URL's document is a version number, a cache entry a version with its expiry. A call of `Load`
passes through `pc`: `lookup`, then `hit` (mutex held), or `fetch`, `received`,
`stored` (mutex held), and back to `idle`. The steps are cut where another goroutine
or the clock can come in: at the lock, at the request, at the answer, at the second
lock, and between the store and the sweep, which reads the clock again. `ttl` is chosen at the start
from `TTLs` and never changes; 0 is a loader that does not cache. `Answer`
picks the version the server has at that moment; `Fail` stands for each of the
error returns. `Tick` and `Publish` are the clock and the schema's owner. One bound
is an assumption about the world: a request and the storing of its answer take at
most `MaxFetch` together (the client's timeout, plus the scheduling of a goroutine that
can run).

### Postgres and BatchProcessor

`relations` and `versions` are the objects and the row versions of the database, each with
the transaction that made it; `txn` is `none`, `open` or `aborted`. A CREATE or INSERT of a
name or key that an uncommitted transaction holds waits for it. A DELETE works on the rows
visible when it starts and waits for those that another transaction has deleted. A
transaction in a circle of waits fails (`DeadlockVictim`).

Every statement is a step. `pc` says where a worker is in `ProcessBatch`:

| `pc` | code |
| --- | --- |
| `idle` | outside `ProcessBatch` |
| `message` | head of the loop, processor.go:109; `Plan`, `LoadFails`, or the commit |
| `ensure` | processor.go:197-207, the existence check |
| `ddl` | `execStatements`, one statement per step |
| `render` | processor.go:170-183; `ReadFails` is the error of `AsBytes` |
| `dml` | processor.go:185-190, one statement per step |
| `rollback` | an error has been returned; the deferred Rollback is due |

A message carries its table name, key, number of array items, its schema's columns, and
whether it fits (`fate`). The model of a table is three objects (tables, views, registry), a
document one root row and its child rows. Each stored row remembers the delivery it came
from, which is what lets the properties speak of whole documents. The connection is a module of
its own: a batch that cannot begin changes nothing.

`AtomicBatches` is what Bento and a reader of the database rely on: a batch is taken, and later it fails,
or is stored, or is stored with its success lost (and delivered again). Storing is one step, which replaces
what is under the keys of its messages by the rows of the last message of each key, and leaves all other keys alone; the insert
processor may do it only where its keys were free, and a message that does not fit is left out under
`per_message`, else fails its batch. `ImplementsAtomicBatches` maps the committed, undeleted row versions
to `stored`: readers see a batch at its COMMIT, at no statement before.

### Connection

A handle is a pool (`*sql.DB`): `unused`, `open` or `closed`. Each worker passes through
`ensure` (waiting for the mutex), `found` or `open` and `ping` (holding it), `begin` (the mutex is
released, `p.sink` not yet read) and `transaction`. `Close` takes the mutex and acts in two steps.
An open that fails (`OpenFails`) leaves no pool; a Ping that fails leaves one.
`BeginNil` is the panic of `p.sink.Begin` on a nil sink. It is reachable when `Close` may come at any
time; with `drained`, chosen at the start, `Close` is called once, after the last batch, which is
how Bento ends a processor. `NeverNil` and `OnePool` are about that case, the other properties about both.

### NormalizedPlan, NormalizedDml, Statements, NormalizedModel and DocumentStore

A schema is a finite tree of scalars, objects (with variants) and arrays; a name is a
sequence of words, so that two different paths cannot spell the same name by accident
of punctuation. The planner's two phases and the table order follow the code operator by operator, in `NormalizedPlan`;
so do, in `Statements`, the CREATE statements, the view columns and the registry. `NormalizedDml` walks
documents as `dml.go` does. `Statements` makes the INSERTs, DELETEs and the upsert of what it finds, in the order of the code, and
says what each does to tables with primary and foreign keys; `Execute` is a document's statements in one transaction.
`IsModel`, `IsRendering` and `IsWhole` say what is assumed of a plan, of a rendering, and of one of a whole document.

What a document means is defined a second time, without the planner: `DocumentCells` walks schema and payload
together and says in which table, row and column each leaf belongs. `ImplementsStore` is the
refinement: with the cells of the rows as `cells`, every step of `NormalizedModel` is a step of
`DocumentStore`. It takes the planner, the DML and the order of the statements to be right
together.

### CommandLine and LandingTable

`modelMode` is the flag `-model`. `Start` renders all statements of a run. It may be refused before it executes anything, in
every `-mode`: the schema, the headers, the directory or a file cannot be read, the directory has no `*.json` (which `-mode create` looks
for too), rendering fails, or the database is not reached; the database is then left alone. What is left to execute is a position: in the statements of `-drop` and the CREATEs (`run.prelude`), then in the
files (`run.file`) and the statements of the file in hand (`run.line`). `ExecNext` executes the current one by itself and
ends the run when it is refused; `CutOff` ends it anywhere, the statement under way taken effect or
not (the 30 s timeout of cli.go:140, the connection, the user). Relations have columns, keys and the relations they
use, so that `DROP ... CASCADE` takes views and foreign keys with it, and a table of another
schema is refused a column it lacks. `used` remembers the schemas of runs since the last `-drop` that
was carried through: what a run promises of documents it promises on its own model.

Three statements about schemas and documents are hypotheses of its proofs. `NamesApart`: no view of a schema has the name of
a table of another. `SchemasInstall`: on an empty database each model, and each landing table with its key,
can be created. `DocumentsAreWhole`: a document that has a key has all its arrays, at the root of its
schema, and all documents have one source; or, in the landing mode, its values are what it means. TLC evaluates them for the
schemas and documents of `cli_runs` (`SchemasAssumption`, `DocumentsAssumption` in `MCCommandLine`), and the
corresponding one for those of `model_whole`.

### SchemaWalk

The nodes of a graph are the pointers of the program after `$ref`s are resolved. One step is one edge followed:
a call (`Enter`, `PlanChildTable`), a column, an edge passed over (`Cut`, `KnownArray`), or a `Return`, which is the
deferred `delete`. With `flat` it is `walkSchema` of the landing mode (and the walk of `CollectValues`), which has no child tables; without,
`planNode` and `planChildTable`, whose items start with a guard of their own. `MaxDepth` stands for the size
of the stack. What there is to plan is defined apart from the walk, as the places that can be reached (`Places`).

## What is checked

Runs that pass:

| run | instance | what it shows |
| --- | --- | --- |
| `loader_cache` | 2 callers, 2 URLs, 2 versions, ttl 2, fetch 1, time to 4 | `CacheBounds`, `ServedFresh`, `RegressionIsRecent`, `SweptInTime` |
| `loader_calls` | 2 callers of one URL, 2 versions, ttl 0 or 1, fetch 1, time to 3, fair | `LoadReturns`, the mutex contended at lookups, hits and stores; `ServedFresh`, without a cache too |
| `connection` | 2 workers, 4 pools, 1 failed Ping, 2 Closes, fair | `SinkSound`, `NeverNil`, `OnePool`, `Released`, `CallsReturn` |
| `batch_upsert` | 2 workers, 3 batches over 2 tables, rejected messages, 1 fault, upsert, per_message, fair | `WholeDocument`, `ModelWhole`, `EnsuredSound`, `AllOrNothing`, `ImplementsAtomicBatches`, `ModelsComeWithBatches`, `EventuallyStored` |
| `batch_insert` | 4 batches, two of them with crossed keys, insert, abort, create_model off, 2 faults, fair | `InsertKeeps`, `AllOrNothing`, `ImplementsAtomicBatches`, `WholeDocument`, `ColumnsThere`, `BatchAnswered` |
| `model_whole` | all root objects of one or two properties besides the key, each a leaf, an array, an object or an array of objects; documents for the flat ones, for a nested object, for variants and for two arrays | `ImplementsStore`, `Installable` |
| `plan_graph` | every schema graph of three nodes: a root with up to two properties and a variant, a definition with up to one of each, a scalar | `GuardIsPath`, `LandingBounded`, `PlansEverything`, `Ends` |
| `cli_runs` | 3 runs, 2 of them cut off, any refused before it executes anything, 3 schemas in each of the two modes, all `-mode`s, with and without `-drop` | `StoredWhenDone`, `UpsertsRepair`, `DropMakesRoom`, `RefusedInTime` |

Runs that find what the code does against its own documentation:

| run | property | disagreement |
| --- | --- | --- |
| `batch_race` | `AlreadyExistsTolerated` | skipping "already exists" leaves the transaction aborted, so the batch is rolled back after all |
| `batch_emptied` | `WholeDocument` | two concurrent upserts of one key: children of one document stay under the root row of the other |
| `batch_names` | `CreatesOnlyAbsent` | the existence check asks for the raw name, the DDL creates its identifier |
| `model_replaced` | `Replaced` | an upsert over another document leaves the rows of an array the new payload lacks (dml.go:176) and the old header value (dml.go:67); items of an array inside an array (model.go:324), and of an array without item type (model.go:339), are stored nowhere |

Each is quoted in `PROJECT.json` with the sentence it contradicts. One counterexample of `model_replaced` shows its four
disagreements side by side. The passing runs keep
clear of these cases by their constants, not by weaker properties: table names are their own
identifiers, every payload has its arrays, no nested arrays, one header value, and the
concurrent upserts of a key have at least one item each. In `cli_runs` payloads of the model mode do so too,
while those of the landing mode, which writes one row, come from two sources and lack values.

Two observations have no run of their own. A schema that reaches itself through an array makes the planner recurse until the
stack is full, because the items start with an empty guard (model.go:339): `Ends` holds only with its premise
`ArraysEnd`. And `-drop` quotes raw names (cli.go:164), so that for a table name that is not its own identifier it drops nothing.

### Bounds

* `MaxTime` 4 is twice the ttl: an entry can be stored, expire, and be overdue for a sweep
  that was skipped. `MaxVersion` 2 suffices for a document and its successor. Two callers
  race; two URLs let one entry outlive the sweep triggered by another. In `loader_calls` one URL makes the callers meet at one
  entry, and with ttl 1 and `MaxTime` 3 it is stored, hit, swept and fetched again. The proofs of safety remove all of these.
* Two workers are enough for each conflict between two batches; `batch_upsert` has a third
  batch that starts between the others. Batches of two messages meet a rejected message
  before, or after, one that is stored. `MaxFaults` 1 or 2 allows an unknown COMMIT followed by
  the redelivery, and a crash while that runs.
* Two items in an array show the order and the number of rows; two keys show that a document
  leaves others alone.
* A pool is opened by a first batch, after a failed Ping, and after a Close: four pools, one failed Ping and two
  Closes let each follow the other. The proofs remove these bounds.
* Three runs of the CLI: one installs, one is cut off, one meets what is left; with two cut off, the `-drop` of the second
  can be. A third schema, with columns and arrays the others lack, makes left-over tables matter.
* Three nodes and one variant make each kind of sharing and each kind of cycle: through properties, variants and arrays.
  `MaxDepth` 5 exceeds the depth of every walk that ends. Depth and number of nodes are
  arbitrary in the proofs.
* `model_whole` goes two levels deep, enough for a flattened object in a flattened object, and an object in an array.

### Fairness

`loader_calls`: a goroutine that can run runs (weak fairness of `Answer \/ Fail`, `ReturnUncached`,
`Return`); an HTTP request ends, if only by the client's 30 s timeout. Taking the mutex
gets strong fairness, since `sync.Mutex` hands the lock to a starving waiter.

Batches: `SF(Step(w))`, because PostgreSQL queues the waiters of a lock and wakes them when its
holder ends, so that a statement which becomes possible again and again is not passed over for ever;
`WF` of starting each waiting batch, which is Bento's redelivery. Nothing is assumed of faults,
except that there are at most `MaxFaults`.

`connection`: strong fairness for who waits for the mutex (`sync.Mutex` again), weak fairness for every call to the
database, which returns or fails; nothing is assumed of calls of `ProcessBatch` and `Close`, or of Pings that fail.
`plan_graph`: the planner goes on computing while it can (`WF(Next)`).

`EventuallyStored` needs batches that take rows in the same order. With crossed orders two batches can
be each other's deadlock victim for ever; neither the code nor PostgreSQL excludes that, and
`batch_insert`, where they cross, checks only that each is answered.

Deadlock is checked where the system cannot stop. Batch runs may end with every batch stored, a model
with no document in `model_whole` has nothing to do, a connection runs out of pools, CLI runs are over after the
last, and a plan is done at its end; these runs switch it off.

## What is proved

TLAPS proves these for every value of the constants.

| theorem | states |
| --- | --- |
| `SchemaLoaderProofs!TypeCorrect`, `CacheBoundsHold`, `HitsAreFresh`, `RegressionsAreRecent`, `SweepsKeepUp` | the five properties of `loader_cache` |
| `BatchProcessorProofs!TypeCorrect` | `TypeOK`: statements, rows and relations are those of the messages |
| `BatchProcessorProofs!ModelsAreWhole` | `ModelWhole` |
| `BatchProcessorProofs!EnsuredIsSound` | `EnsuredSound` |
| `BatchProcessorProofs!InsertsKeep` | `InsertKeeps` |
| `BatchProcessorProofs!BatchesAreAtomic` | `AllOrNothing` |
| `BatchProcessorProofs!ModelsWithBatches` | `ModelsComeWithBatches` |
| `BatchProcessorProofs!ColumnsAreThere` | `ColumnsThere` |
| `BatchDocumentProofs!WholeDocuments` | `WholeDocument`, if every upserted payload has an item |
| `BatchDocumentProofs!BatchesAreStored` | `ImplementsAtomicBatches`, if every upserted payload has an item |
| `ConnectionProofs!TypeCorrect`, `SinkIsSound`, `SinkIsThere`, `PoolIsOne`, `PoolsAreReleased` | the safety properties of `connection` |
| `SchemaWalkProofs!TypeCorrect` | `TypeOK` of `SchemaWalk` |
| `SchemaWalkProofs!GuardsArePaths` | `GuardIsPath`, for every set of schemas |
| `SchemaWalkProofs!LandingIsBounded` | `LandingBounded`: the landing walk is no deeper than the schema has nodes |
| `SchemaWalkProofs!PlansAreWhole` | `PlansEverything`, for every set of schemas |
| `CommandLineProofs!TypeCorrect` | `TypeOK` of `CommandLine`, if `NamesApart` and `SchemasInstall` |
| `CommandLineProofs!RoomIsMade` | `DropMakesRoom`, under the same hypotheses |
| `CommandLineProofs!RunsStore` | `StoredWhenDone`, if moreover `DocumentsAreWhole` |
| `CommandLineProofs!RunsRepair` | `UpsertsRepair`, under these three |
| `CommandLineProofs!RunsRefuseInTime` | `RefusedInTime`, under these three |
| `NormalizedModelProofs!ModelStoresDocuments` | `ImplementsStore`: `NormalizedModel` implements `DocumentStore`, if `DocumentsAreWhole` |
| `DocumentStoreProofs!StoreHoldsDocuments` | what holds of anything that implements `DocumentStore`: one whole document per key, and the accepted one after its request |

**Loader.** `ServedFresh` is about a document, whose age nothing in `cache` records. The invariant `IInv` adds
what a document in a caller's hands owes to the moment its request was sent (`ReceivedCurrent`), and an
entry to the moment it was stored (`CachedCurrent`): had its server replaced it, then not before the
request was sent, hence at most `MaxFetch` before its ttl began. `Chronology` orders publications, requests and the clock.

**Batches: models.** `ModelWhole` speaks of committed relations and is not inductive: a commit makes a
transaction's own relations committed. `ModelInv` therefore says of every relation that its model's other parts are
beside it, committed or of the same transaction, unless that transaction is still creating that model or is no
longer open (`Unfinished`). While a worker creates a model, `Creating(w, k)` ties the statements left to the
parts already there. The skipped "already exists" is harmless here just because it aborts the
transaction. `EnsuredSound` is part of the same invariant; the assumption it needs, that an
identifier is its own identifier, is what `SanitizeIdent` and the truncation guarantee, and is
where a table found under its raw name is found under its identifier. A worker outside `ProcessBatch` owns no relation.

**Batches: inserts.** `InsertInv`: without upserts every DML statement is an INSERT and no row version has a
deleter; so neither commit, rollback nor any statement touches a committed version.

**Batches: atomicity.** `AllOrNothing` compares the commit with the messages of the batch, so the invariant must follow
what an open transaction has written. `StoreInv` has four parts: a batch is in one worker's hands (`RunInv`); the statements a
worker has left, and the rows its DELETE remembers, are of its current message (`LineInv`); no delivery under
way is one of the past (`FreshInv`), for a batch is delivered again only after a fault, and deliveries count
the faults; every message begun, not rejected and not
replaced by a later one of the same key has all its rows up to the statement under way, and nothing else of the batch is there
(`RowInv`). A transaction that has failed a statement cannot commit, which is why tolerated errors do no harm.

**Batches: models and their batches.** `ModelsComeWithBatches` compares a commit with the messages of its batch, so `BringInv` follows what a
worker has in hand: what it creates is of its current message (`AtWork`), what it has created is of a message of its batch (`Creations`), and
each message behind it, or already being rendered, has its table in `ensured` (`Provided`), rejected or not. At the commit `EnsuredSound`
turns `ensured` into tables that are there, and the commit makes them visible. Here it matters that `ensured` starts empty with each
transaction and that the model comes before the payload.

**Batches: columns.** `ColumnsThere` is about rows and tables of different batches. `ColumnInv` says it of every row version for what its own
transaction sees; an INSERT names all columns of its message, and is refused where one is missing; a table, once visible,
loses none. A rollback takes tables away, and with them only rows of the same transaction.

**Batches: documents.** `WholeDocument` is about all workers at once. `KeptInv` says that what is committed under a
key is one document, and that no two open transactions have written the same row: the unique key makes the
second wait at its first INSERT. `WorkInv` then says what a worker's own rows, its deletions and the
committed rows under its current key are together, after each of its statements, so that its commit leaves one document. A
DELETE works on rows seen when it started: an upsert that waited for another of the same key has not
seen its children, and only the INSERT of its first item meets them and fails. That is why `EveryArrayHasItems` is
a hypothesis: with an empty array nothing meets them, and `batch_emptied` is the counterexample. Under the insert processor it asks nothing.

**Batches: refinement.** On top of both, `PromiseInv` knows which messages a worker has rejected (`JudgeInv`), that a row's key
is that of its message (`KeyInv`), and that under insert all rows of the batch are there
(`InsertsInv`). Every step but a commit leaves the committed rows as they are. At a commit, the rows of a key the batch touched are those of the last message
of that key, by `RowInv` and `KeptInv`; where the batch has no message nothing of it is committed or deleted.

**Connection.** `IInv` says who is inside the mutex (`Guarded`) and that what its holder has seen of `opened` is still so
(`Seen`), that a pool under Ping is open and new (`Pinged`), and that with drained workers `Close` finds all of them idle
(`Quiet`). The read of `p.sink` outside the mutex is harmless only because of the last.

**Walks.** `Nested` orders the frames of the stack by the table they work for, each with its guard; with it `GuardIsPath` is
inductive: a call adds to the last guard what is not there, a return takes away what occurs once. In a landing walk all frames
are of one table, so that their nodes differ, and the pigeonhole principle bounds them.

**Plans.** `PlansEverything` compares the columns of a plan with what can be reached from the root.
`PlanInv` says that there is a set `S` of places, with the root and the places of the calls under way, of which
every edge has been followed except those the calls have still to do (`Covers`): its column is planned and the place it leads to is in `S`. When
no call is left, `S` is closed under following edges and so has all `Places`. `FrameInv` ties the `i`-th call to a place
reached by `i - 1` edges, with what the cycle guard holds as the nodes seen on the way; here `GuardIsPath` is needed:
what `Cut` passes over is exactly what the places do not follow. An array passed over as known (`KnownArray`) is in `S` because the
table of that name is registered with the same items, the premise of the property. `Places` is defined by
a recursive function, whose defining equation is proved first (`PlacesFollow`), from least counterexamples.

**Documents.** `Sound` says of every key that what is under it is one document, and of the last answer
that it still holds.

**Models as stores.** A step of `NormalizedModel` is a whole transaction, so the invariant is short (`StoreInv`): under each
key are exactly the rows of one whole document, or none. The work is in the step. `Execute` is a recursive function;
`ExecuteAll` and `ExecuteNone` unfold it, from least counterexamples, for statements that all succeed one after the other, and for
those of which one is the first to fail. Under a free key the INSERTs succeed one by one: the root row is there for
the children's foreign key, and no two children are the same (`Inserted`); under a key that is taken the first fails (`NotInserted`).
The DELETEs of an upsert leave at most the root row, whatever document was there, since each table but the root's has one
(`AllDeleted`); the root row then merges into it and sets every column of the new one (`RootUpserted`), where documents of one key
need one source; and the children go in as before (`Upserted`). Other keys keep their rows (`StaysWhole`).

**CLI: types and room.** `TypedInv` strengthens `TypeOK`: a run stands at a statement it has, relation names are unique, and
a row is of a relation that has its columns. `RoomInv` is what makes `DropMakesRoom` inductive: what `-drop` has dropped is
gone until the run creates it anew (`GoneInv`), what the run has created is there as created (`InstalledInv`), and there
is no view without the root table (`ViewInv`), so that dropping it takes all views along, those of another schema too.
A CREATE is then refused by nothing but a statement of its own run, which `SchemasInstall` excludes.

**CLI: what is stored.** `StoredWhenDone` is about the end of a run, and about whatever earlier runs left. `StoreInv` adds to the above:
tables that only one schema has used since the last `-drop` hold rows of its documents only, no two with one primary key, no
child without its root row, and no row of another schema refers to them (`CleanInv`); every child row has its parent (`ParentsInv`); a landing
table is empty until its ALTER gives it its key (`FreshInv`); and while a run executes its files, of the files done the last of each key is stored
exactly, and of the file in hand exactly the statements executed (`ProgressInv`, which `Partly` spells out for an insert, an upsert and a landing
row). `UpsertsRepair` follows: where the model is there, a DELETE of such rows is not refused, because children of children are none,
nor is the upsert of the root row or an INSERT after the DELETEs.

**CLI: refused in time.** Here only runs that were not cut off count, and an INSERT may be refused by the document of an earlier run. `FreeInv` says
that the model of a schema used alone is there whole, or not at all but for what the run has just created; `WholeInv` that every key has one
whole document or none, except that of the file in hand. A root row that is not refused thus meets a free key, and the children after it meet none
of their own keys.

Assumptions: the named `ASSUME`s of the modules (`LoaderAssumption`, `ProcessorAssumption`, `PostgresAssumption`,
`ConnectionAssumption`, `WalkAssumption`, which asks for finitely many nodes; `RunAssumption` and `ModelsAssumption`, on the shape of plans and
renderings), and `DocumentAssumption`, a hypothesis of the theorems about `DocumentStore` and an `ASSUME` of `NormalizedModel`. TLC
evaluates each in a run.

`EveryArrayHasItems`, `NamesApart`, `SchemasInstall` and `DocumentsAreWhole` are hypotheses of single theorems, said
there. They are what the passing runs choose by their constants. The code guarantees none of them: `batch_emptied` shows what happens
without the first, `model_replaced` without the last, and a schema that does not install is refused by
PostgreSQL at its first run.

Left to TLC:

* liveness (`LoadReturns`, `BatchAnswered`, `EventuallyStored`, `CallsReturn`, `Ends`), which needs fairness
  and ENABLED;
* `TypeOK` and `Installable` of `NormalizedModel`: they are about what the recursive planner and renderers compute, that a row
  fits the table it is planned for and that the DDL of a plan installs. With plans and renderings as constants they could only be assumed;
* that planner and renderers give plans and renderings of the assumed shape, and, of documents that have all their arrays, whole ones.
  They are RECURSIVE operators, which TLAPS does not take to its provers, and it would need induction over trees.
  TLC evaluates it for the schemas and documents of `model_whole` and `cli_runs`.

## What is not modelled

* metrics, logs, the reading of metadata, and the configuration and registration with Bento (`spec.go`): no state that evolves;
* text: SQL quoting and literals, type names, the sanitizing, truncation and hashing of identifiers, numbers
  through float64;
* unresolved `$ref`s, which are errors of every walk;
* schemas whose different paths spell one name, and schema properties called like a header column;
* CLI flags and printing; a run without a DSN executes nothing.

## Plan

Done: the modules above. Left, in this order, each with its own properties:

1. Identifiers: sanitizing, truncation and hash as functions on small alphabets; collisions of table, column and
   view names (names.go:28-63, db.go:66), and what `-drop` and the existence check make of them.
2. Keys and numbers: when two payloads have one key after float64 (values.go:131).
3. `CollectValues` over schema graphs, next to the walk that plans its columns.
