# Models and proofs for NRDB and StatSim

This directory is a TLA+ verification development for the StatSim repository: for
**NRDBAPI** (the C++ library all NRDB programs reach their database by), **NRDB Pro**
(the MFC desktop program on top of it), the import and processing of **StatSim Pro**
with the connection of the **StatSim API** below it, and the **service host** that keeps
programs running under Windows. It says what the code promises, checks the promises on small instances with TLC and proves the most
important ones for every instance with TLAPS.

How to run it, in this directory:

    tlc -config Session.cfg NRDBProSession     # any run of the table below
    tlapm NRDBTransProofs.tla                  # the proofs
    tlapm NRDBProSessionProofs.tla
    tlapm FTypeUpdateProofs.tla
    tlapm NRDBConnectProofs.tla
    tlapm NRDBFeaturesProofs.tla
    tlapm QueryResultProofs.tla                # about ten minutes
    tlapm StatSimProofs.tla
    tlapm ServiceHostProofs.tla

---------------------------------------------------------------------------

## 1. Inventory of the system

Paths are relative to `src/`.

| Component | State it keeps | Operations | Talks to | What is hard, what makes it correct |
|---|---|---|---|---|
| **Transactions** `NRDBAPI/NRDBAPI/BDTrans.cpp`, `MySQLDbase.cpp` | `CNRDBase::m_nTransLevel`; the driver's autocommit mode | `BDBeginTrans`, `BDCommit`, `BDRollBack`, `BDGetTransLevel` | every program; MFC `CDatabase` or the emulation over `libmysql` | Nested transactions by a counter beside a driver that has none. The outermost commit saves, a roll back at any depth abandons all; the counter has to agree with the driver. MySQL commits by itself at every table change. |
| **Connections** `BDConnect.cpp`, `BDDisconnect.cpp`, `NRDBASE.CPP` | `CInternalInfo`: `m_aDBase`, `m_nConnections`, `m_hConnectInt`, the held names `m_links`, `m_aFType` | `BDConnect`, `BDDisconnect`, look-ups of names | record sets; features and feature types | One internal connection shared by all handles, opened by the first and closed with the last; a connect that fails half way; names held after the data changed. |
| **Record sets** `NRDBASE.CPP`, `Crecordx.cpp`, `Crecordx.h`, `BDGetNext.cpp`, `BDGetEnd.cpp` | one cursor (and one extension) per handle | `BD..(BDGETINIT)`, `BDGetNext`, `BDEnd` | all retrievals | Begin, next and end are a protocol of several calls: a retrieval begun inside another, an early return that leaves one open. |
| **Features, feature types** `FeatureSet.cpp`, `FeatureTypeSet.cpp`, `NRDBPRO/DlgFType.cpp`, `DlgFeatures.cpp`, `DlgEditFeature.cpp` | table `BDFeature_Types`; a table of features for each type that is not 1:1 with its parent | `BDFeature`, `BDFeatureType` (get, add, update, delete), `BDFTypeI`, `BDFTypeParentI`, `GetChildren`; the dialogs | connections (reset of held names), ids | Stale held names; chains of parents; checks before a delete that have to find all that refers to what is deleted. |
| **Feature type tables** `BDFTypeCreate.cpp`, `NRDBPRO/DlgFTypeAttr.cpp` | one data table for each feature type, the definition of its columns | `BDFTypeCreate`, `BDFTypeUpdate`, `BDFTypeDelete`; the design dialog | transactions, attributes | Definition and table are changed by different statements that may fail one by one: they must agree again afterwards, and data of attributes that did not change must survive. |
| **Attributes** `Attribute.cpp`, `BDAttribute.cpp`, `FeatureAttr.cpp`, `BDFTypeAttr.cpp` | values, definitions | get, add, update, delete | record sets | conversion of values, dates |
| **Ids** `BDNextId.cpp` | none (reads `max(id)`) | `BDNextId` | features | read and insert are two statements |
| **Schema upgrade** `initialise.cpp` | the version row | `BDUpdate` | connect | A sequence of table changes that may stop anywhere and is repeated. |
| **Map lines codec** `Maplines.cpp` | a byte buffer | encode, decode | attributes | growth of the buffer, packing into 1, 2 or 4 bytes |
| **NRDB Pro session** `NRDBPRO/Viewmap.cpp`, `Dlg*.cpp`, `NRDBPro.cpp` | the window with the input, the edit mode, an open transaction | commands, dialogs, Undo, login, logout | transactions | The map view leaves a transaction open *between* commands so that Undo can roll it back. Everything else has to commit it first. |
| **Import** `NRDBPRO/importodbc.cpp`, `ImportFType.cpp`, `DlgImportCreate2.cpp` | cancelled?, anything imported? | import, create a feature type, save or cancel | transactions, tables, a second connection | A transaction round two modal dialogs and a loop that may throw. |
| **Query results** `NRDBPRO/Query.cpp`, `Cdate.cpp`; `BDAttribute.cpp`, `FeatureAttr.cpp` | the list of results, each with its active feature, the parent's id, a date and a flag | `InitFeatures`, `RetrieveData`, `LoadDataAll`, `UpdateDates` | features, attributes, `BDAttributeCond` | One list is sorted, searched, doubled and thinned out for type after type. Dates are compared by the database and by `DateCompare`; a row has to be shown with the rows of its own parents. |
| Maps and reports of NRDB Pro | views | display, file formats | features, attributes | read only |
| **StatSim API** `statsimapi/StatSimAPI/StatSimConn.cpp`, ... | a connection (ODBC or MySQL), the statements being built | `CreateTable`, `InsertRecords`, `ExecuteSQL`; record sets, grids, trees, pages | StatSim Pro; DAE library | Rows of several types are gathered into statements that are flushed by length and at the end: none may be lost or inserted twice, and none too long; a statement may fail. |
| **StatSim Pro** `StatSimPro/StatSimPro/StatSimPro.cpp`, `ImportAutoSelDlg.cpp`, `ImportSelPathDlg.cpp`, `LoginDlg.cpp` | `nProcBatches`, `arrayProcExist`, `arrayBatchDB`; `pGlobalConn` | login, automatic and bulk import, processing of indicators | StatSim API | Two arrays and a counter in step through aborted and repeated imports; one connection that is redirected from database to database and has to come back; indicators that count all rows. |
| **Service host** `statsimapi/StatSimAPI/StatSimSvc.h` | the process table, the service's status and flags | `ServiceMain`, the control handler, the monitor thread | the service control manager; the programs it starts | Threads that share the process table without locks: start, stop, bounce and restart race. |
| **DAE library** `statsimdaelib/statsimdaelib/` | a file and the positions of its records; a table of counts | read records by type, `tabulate`, totals and ratios | StatSim API | Offsets of records; cells, margins and total of a cross table have to agree. Planned, section 7. |
| Java programs, small tools, vendored libraries | - | - | - | not modelled, see section 6 |

Nothing in NRDBAPI, NRDB Pro or StatSim Pro runs on a thread of its own, and there are
no timers that write. Concurrency is between *calls*: handlers of one program that
interleave at modal dialogs, several handles on shared state, several programs on one
database. The service host has threads, and shares its tables between them without a
lock. Failure is a statement that throws or returns an error, a function that returns
`FALSE`, a file that is missing or cannot be read, a user who cancels, and a process
that ends at any statement. The list of places where this bites, with source lines and
the property that watches each, is under `hazards` in `PROJECT.json`.

---------------------------------------------------------------------------

## 2. The modules

| Module | Models | Abstract or composed with |
|---|---|---|
| `NestedTrans` | what a caller may rely on: a depth, what it sees, what is saved | the abstract specification |
| `NRDBTrans` | `BDTrans.cpp` over the ODBC and the MySQL driver, with the calls of `BDFTypeCreate.cpp` that touch transactions | implements `NestedTrans` |
| `NRDBTransProofs` | theorems about `NRDBTrans` | |
| `NRDBProSession` | the handlers of NRDB Pro that begin, commit, roll back, or write | EXTENDS `NRDBTrans`: each handler is a composition of its operators |
| `NRDBProSessionProofs` | theorems about `NRDBProSession` | EXTENDS `NRDBTransProofs`, whose lemmas are about the same operators |
| `FTypeUpdate` | the design dialog of a feature type and the update of its table, one pass of a loop a step | |
| `FTypeUpdateProofs` | theorems about `FTypeUpdate` | |
| `NRDBConnect` | the connections of a program and what they share | |
| `NRDBFeatures` | feature types that inherit from one another, their features and data, and the dialogs that add and delete them, for several users of one database | |
| `NRDBFeaturesProofs` | theorems about `NRDBFeatures` | |
| `MCNRDBConnect` | symmetry for TLC | EXTENDS `NRDBConnect` |
| `NRDBConnectProofs` | theorems about `NRDBConnect` | |
| `QueryResult` | how the table of a query is filled, over a chain of feature types | |
| `MCQueryResult` | queries and rows for TLC | EXTENDS `QueryResult` |
| `QueryResultProofs` | theorems about `QueryResult`: its quick sort, its binary search and the rows it shows | |
| `RecordLoad` | what an importer of records may rely on: each row at most once, in order, only while its import is on | the abstract specification |
| `StatSimInsert` | `InsertRecords` and `CreateTable` of a MySQL connection, with statements that fail | implements `RecordLoad` |
| `StatSimImport` | login, automatic and bulk import, and the processing of StatSim Pro | EXTENDS `StatSimInsert`: an import of a file is its loop |
| `StatSimProofs` | theorems about both | |
| `ServiceHost` | the service host with its threads and the programs it runs | |
| `ServiceHostProofs` | theorems about `ServiceHost` | |

### NRDBTrans

`db` is one connection: `open` (the handle is valid), `level` (`m_nTransLevel`),
`autocommit`, `table` (the database as this connection sees it) and `stored` (as
all others see it, and as it is after a crash). A database is a set of rows; which
row is which does not matter to transactions, only whether a change is still
there. `BDBeginTrans`, `BDCommit` and `BDRollBack` are *operators* from a connection
to a connection, as are the driver's `BeginTrans`, `CommitTrans`, `Rollback` and the
two kinds of statement, so that a handler with five calls is five operators applied
in the code's order. The ODBC driver is MFC's, modelled from its use (marked
external in the map); the MySQL one is `CMySQLDatabase` in `MySQLDbase.cpp`. The two
differ in three ways: `CMySQLDatabase::BeginTrans` commits what is pending; nothing
turns its autocommit mode on again; `create`, `alter` and `drop table` commit.

`Disciplined` says whether the client commits only what is open. The proofs need
it only where they say so; NRDB Pro sets it `FALSE` and has to earn it.

### NRDBProSession

`screen` is the window that has the input (the dialogs are modal) and `back` the
one to return to. `edit` is the map view's mode, `newObj`, `canSave` and `imported`
are the flags that the handlers test, `onError` what a call that fails does. Three
history variables serve the properties: `base`, the database when the last command was
begun, `broken`, that a feature type failed to be created inside an import, and `leaked`,
that an exception has left a begin without its commit or roll back (section 4). An
action is a whole handler up to its return, the modal dialog that it opens, or the
exception that ends it; actions that write choose the rows the write leaves. `Crash` may
happen anywhere.

Exceptions: a statement that fails shows a message and returns `FALSE`, or throws when the
mode is `ThrowException`; statements sent by `ExecuteSQL` throw in either mode. Where no
`TRY` block catches it, the handler ends there and MFC goes on with the window that has the
input: `AttributesThrows` (`DlgEditAttributes.cpp:888-967`), `EndEditThrows`, `ImportThrows`,
`BDFTypeDropThrows`. The mode is `ThrowException` from the choice of an import's source
to the end of the import, and after one that threw until the next that ends
(`importodbc.cpp:130`, `212`). A retrieval that throws changes no data and is left out.

### FTypeUpdate

`list` is the dialog's list box, `def` the rows of the attributes' table, `tb` the
data table with its columns, whether each holds data the user entered, and its
primary key. `BDFTypeUpdate` is the only operation whose steps are separate
(`Alter`, `Remove`, `Done`), since a failure between them is the question. `Fail` is
the way out by `FALSE` or an exception, with the roll back of `OnOK`; `Crash` the
end of the process. `DDLUndone` says whether a roll back undoes table changes (Jet)
or not (MySQL). `tidy` is history: every `OK` was pressed on an edit in which no two
attributes share a column and none changed its type and its place in one go.

### NRDBConnect

`conn`, `count` (`m_nConnections`), `int` (the database `m_hConnectInt` is open on),
the stored and pending name of one feature and one feature type for each database,
and `links`, `ftypes`, the held names. `failed` and `bypassed` are history: a connect
failed after it was counted; a change got past the reset of held names.

### NRDBFeatures

`ftypes` is the table `BDFeature_Types`: for each type its parent, whether it has many
features to one of the parent's (`m2o`), and `ref`, the type whose table of features its
data table refers to (0 when it has no data table). `features` is, for each type with
a table of features, the parent of each of its features; `data` says which features
have rows in which data table. Two kinds of inheritance make the lookups recursive: a
type with `m2o` has features of its own, a 1:1 type shares those of its parent, which
may be 1:1 itself. `BDFTypeI` climbs to the type with the features, `GetChildren` comes
down to everything that may refer to them. `blank` are the child features whose names are
blank, since `DlgFeatures` looks for children by their names. `NoParent` is the parent of a
feature whose type has none, and of one an import found no parent for, which the code
stores as 0 or -1. `ImportRecord` is one record: its feature is found or created by
`CreateFeature`, its row of data may be refused; parents created on the way are records
of their own.

`dlg[u]` is what user `u` is doing: an open dialog with what it read when it was opened
(the id it will use, the parents it offers), or a handler between two statements that no
transaction joins. So `DeleteFeature` is the checks of `DlgFeatures`, `DeleteData` and
`DeleteRow` the two statements of `BDFeature`; a type is deleted in two steps
(`DeleteType`, the check of `DlgFType`, and `BDFTypeDelete`), and added in two
(`AddType`, `OnOKAdd`). `BDFTypeDelete` keeps the order of the code: the data table is
dropped first, and if the table of features cannot be, a definition without data table
is left. The checks of a list that `DlgFeatures` has on the screen are taken to see the
database at the click. Foreign keys are those of the MySQL build; of a feature's parent
there is none, as in the code. A type without parent has `m2o` true, since nothing looks
at the flag then. Links between features and changes of name are not in it.

### QueryResult

`results` is the list `CQueryResult`, one record for each line of the table: the feature
that is active at the type being loaded, the id of its parent (`next`, which is
`m_lParentFeatureActive`), the names and rows it has for each type, the date and the
flag `met` of the type being loaded. `level` is the type `RetrieveData` is at, 1 being
the query's own. `LoadDataAll` is cut into the part before its loop, which sorts the list
and asks the database (`rows` is what is still to be read), one `GetNext` for each row,
and `RemoveUnmet`; `NextType` is the step to the parents. The rows of a type and the
parents of its features are chosen when they are read and dropped after use, so they
are any rows and parents of the small sets given. `Kept` is the loop that removes results
from the list. `SortFeature` is the code's quick
sort pass by pass, and `FindSorted` its binary search, since what they do to equal
elements and to a list in another order decides what is shown. All recursions are
functions, over a set that is bounded by the list, so that they can be reasoned about.
The rows of a feature are told apart by date and by the order they were stored in, which
is the order of what the database returns (`QueryResultAssumption`). `BDAttributeCond` is the
statement `GetDefaultSQL` puts together: a join with a subquery on padded dates. Dates
are years or full dates, with two digits for eight. `self` and `parent` are history:
where the result should be. All types are taken to have names shown, and a type with
conditions to have attributes shown.

### RecordLoad, StatSimInsert, StatSimImport

`RecordLoad` counts how often each row, known by its import and its line, is in each
table. `StatSimInsert` is `CSSMySQLconn::InsertRecords`: `batch[k]` is the statement
that is being built for type `k` (its rows, their number `nI` and its length), `lines`
where it is in the file, `flush` the type the loop at the end is at. A statement inserts
all of its rows, or those before the one that fails, which is what a table without
transactions keeps (external). `lost` and `seen` are history. `StatSimImport` EXTENDS it:
`screen` is the loop the program is in or the question it asks, `n`, `exist` and `dbs` are
`nProcBatches`, `arrayProcExist` and `arrayBatchDB`, `conn` is the database `pGlobalConn`
is open on. `Insert` is a pass of the loop of `StatSimInsert`, every other action the part
of a handler up to the next question or loop. A read beyond the end of the arrays finds
any value. `left`, `stale` and `partly` are history: processing was left by one of its early
returns; databases with rows that their indicators do not count; and the ones of those that
processing went over all the same. `ProcInd` (`StatSimElt.cpp:5829-5883`) returns 0 only
when no household is left at all. When there are fewer than in `hpq_hh` it warns and goes on,
members are not compared, and a statement that fails is forgotten, so a database that was
processed may go into `partly` instead of leaving `stale`.

### ServiceHost

`main`, `control` and `monitor` say where `ServiceMain`, the control handler and
`ProcMonitorThread` are, each step being what a thread does between two accesses to what
they share: `started`, `status`, `names` and the handles in `pProcInfo`. `handle[i]` is
null or a process that runs or has ended; `stray[i]` counts the processes of program `i`
that run without a handle, since a handle can be overwritten. `EndProcess` is two steps
with its sleep between them. The service control manager (external) sends one control
at a time. The programs end whenever they like. A program that ends with the exit code 259 is
taken by the monitor for one that runs (`STILL_ACTIVE`, lines 488-490) and is never started
again; that code is not modelled, so `EndedIsRestarted` speaks of all others.

---------------------------------------------------------------------------

## 3. The runs

The passing runs explore their whole state space, and between them they take every
action of every `Next`. Deadlock is checked in every run but `service`, whose host may
stop for good: otherwise there is always a window to close, a connection to open, a
query to make or a process to end.

| Run | Configuration | Shows |
|---|---|---|
| `trans_odbc` | 3 rows, nesting to 3, client commits what is open, ODBC | `TransTypeOK`, `LevelNeverNegative` (the assertion in `BDTrans.cpp:75`), `LevelMatchesDriver`, `AutocommitSaves`, and that the code implements `NestedTrans` |
| `session` | 2 rows, level to 3, ODBC | six properties of NRDB Pro's handlers in any order, with crashes, exceptions and cancels (90,412 states) |
| `session_assert` | as `session`, level to 2 | **violated**: `BDTrans.cpp`'s own assertion (finding 1) |
| `session_cancel` | the same, MySQL | **violated**: a cancelled import leaves nothing (finding 2) |
| `ftype_jet` | 2 names, 1 plain type, coordinates, 1 link, up to 2 attributes, roll back undoes table changes | table and definition agree after every sequence of edits, failures and crashes, and data survives an update, if edits are tidy (96,956 states) |
| `ftype_moved` | the same without links | **violated**: an update retains data (finding 3) |
| `connect` | 2 handles, 2 databases, 2 names, count to 4 | the internal connection is there while a handle is, gone with the last, and the held feature name is the stored one (153,016 states) |
| `features_one` | 1 user, 3 types, 2 features each, 1 blank name | types stay in order and keep their parents, features keep theirs, and a delete whose checks have passed can be finished (3,745,322 states) |
| `features_two` | 2 users, 2 types, 1 feature | **violated**: `ParentFeatureExists` with two programs (finding 4) |
| `query` | 3 types, 2 features each, up to 2 rows for each, every condition on dates | the rows shown are those asked for, each with the row of its own ancestors, within the limits the properties name (247,182 states) |
| `import` | 2 databases, 2 record types, 2 imports of 2 lines, 2 files, 2 batches | no record is lost or inserted twice, statements fit, the arrays of the batches stay in step, the connection comes back, processing goes over all that was imported, and an import ends (607,936 states) |
| `service` | 2 programs, each bounced up to twice | no program runs twice but for a bounce, a stop ends what the host knows of, and, with fairness, what ends is started again and a stop completes (120,901 states) |

### The properties, in words

- `LevelNeverNegative`, `CommitsMatchBegins` - every commit closes a transaction that
  is still open. The second is the first for NRDB Pro, as long as creating a feature
  type has not failed inside an import.
- `LevelMatchesDriver`, `AutocommitSaves` - callers decide by the counter whether there
  is something to commit or to undo; it tells the driver's mode, and in autocommit mode
  nothing is unsaved.
- `ImplementsNestedTrans` - every step of the code is a step of `NestedTrans` or changes
  nothing it speaks of, with `depth <- db.level`, `view <- db.table`,
  `saved <- db.stored`.
- `DialogsOutsideTrans` - the dialogs whose updates are outside any transaction are never
  used inside one, as long as no exception has left one open (`leaked`) and no feature type
  failed to be created in an import (`broken`). `DlgFType`,
  `DlgFeatures` and `DlgProjection` assert the same without those conditions.
- `UndoRestores` - where Undo is enabled it takes back the last command: nothing of it has
  been saved, and nothing before it is unsaved, unless `leaked`.
- `CancelledImportLeavesNothing`, `LogoutSavesAll` - what they say, unless `leaked`. With MySQL
  the second holds only while a transaction is open: autocommit is never switched on again,
  and `Logout` does not commit what was written outside of one.
- `TableMatchesDefinition`, `TidyUpdateRetainsData`, `UpdateRetainsData` - see
  `FTypeUpdate` and the findings.
- `InternalWhileConnected`, `InternalOnlyWhileConnected`, `FeatureNamesFresh` - the first
  has no condition at all; the second holds until a connect fails half way, the third
  until a change gets past the reset (a commit, `BDFTypeDelete`, an internal connection
  opened anew with names still held).
- `ParentOlder`, `ParentFound` - a type is younger than its parent, and its parent is
  defined. Together they are why `BDFTypeI` and `GetChildren` end, and why the assertion
  of `FeatureTypeSet.cpp:209` holds, though ids are used again after a delete and are
  taken when a dialog is opened, long before they are used.
- `ParentFeatureExists` - a feature refers to a parent that exists, unless an import stored
  none or the feature's name is blank; only the checks of the dialogs, which walk both kinds
  of inheritance, keep it.
- `DeletionCompletes` - when the data of a feature has been deleted, the delete of the
  feature itself is not refused.
- `RowsShown` - what is shown of a feature are its own rows, in the range and meeting the
  conditions; with full dates all that are asked for, each once unless another has its
  date. `Chosen` says what is asked for without reference to the statement, to padding
  or to the order rows come in.
- `ParentsJoined` - loading a parent type leaves the list as it was, in its order and with
  the rows of the types before, and gives each result the row of its own parent; exact
  for parents without two rows of one date.
- `OnAncestor` - the active feature is the ancestor and its name is shown, unless the
  parents were looked for in a list they are not sorted in or are in twice (`scrambled`);
  even then a name that is shown is that of the active feature.
- `RowsAccounted`, `StatementsFit`, `ImplementsRecordLoad` - a record that was read is in
  its table, in the statement of its type or in one that failed, and in one of them only;
  no statement is longer than the server takes, whatever row comes next; and the loop
  implements `RecordLoad`.
- `ExistingBatchHasDB`, `GlobalUnlessLeft`, `CompletedFresh` - a batch that exists has a
  database; the connection is on the global database when a command may be chosen, unless
  processing was left early; when processing says that it completed, it has gone over
  every database after its last import, so that rows which no indicator counts are only those
  it left out itself (`partly`), unless a second list of batches has come over a first.
- `ImportEnds`, `EndedIsRestarted`, `StopCompletes` - liveness, under the fairness below.
- `FewRunning` - however the threads interleave, one process of a program runs at most,
  and one more for each time it was bounced. `StopEndsAll` - when the host is gone, none
  that it knows of runs, unless one was started after the control to stop (`late`).

### Bounds, and why they are enough

- *Rows* 2 or 3. The properties compare databases for equality. Three are needed
  to tell the state before a nest, an update inside it and one after a partial commit
  apart; the proofs of section 5 cover all row sets for `NRDBTrans`.
- *MaxLevel* 3 (transactions, session) or 2 (violations). It is a guard of the free client's
  `Begin`, and in the session of `AttributesThrows`, the only handler that adds a level: with 3
  two exceptions can follow each other in one command's transaction. All other handlers leave
  the level between -1 and 1 unless one has thrown (`LevelOK`), and `SessionTypeCorrect` holds
  for every bound.
- *MaxAttrs* 2. A move, a change of type and a second attribute to suffer from it is
  the smallest edit list in which indices of the old and the new list differ.
  Coordinates are included because they have two columns.
- *Handles* 2, *Databases* 2. One handle to open the internal connection, another that
  uses it on another database. `MaxCount` 4 bounds the connects that fail, so that two
  leaks happen besides the two handles. The theorems cover any number.
- *MaxType* 3, *MaxFeature* 2, *MaxBlank* 1 (`features_one`). Three types are a chain: a 1:1
  type of a 1:1 type, and a type with many features to one of a 1:1 type, which are the cases
  in which the lookups are recursive. Of two features one can be deleted and another refer to
  one that stays, and a parent can have two children of which one has a blank name. *MaxBlank*
  is a guard of `SetFeature` only. For `features_two` a parent and a child are enough. The
  theorems cover any number.
- *Queries* (`MCQueryResult`). Three types are the fewest in which a grandparent can be
  wrong. Two features have parents in their order, against it, or share one; with rows
  that are doubled there are up to eight results, so runs of equals and both halves of
  the search occur. A feature has no row, one, two of one date, two dates of which one
  does not meet the conditions, or a year beside one of its days. Each condition is
  combined with data of the parents, ranges also with years, and the chains of three
  types with names only and with data of all types.
- *StatSimImport.cfg*: 2 databases are the global one and that of a batch; 2 types, one of
  them also what an unknown record type is taken for. With `InitLength` 4, rows of 2 or 8
  and `Room` 12 a statement is full after one long row or after several short ones, and the
  assumption `ShortRows` still holds. Two imports, lines, files and batches allow a second
  list that is shorter, longer or equal, a retry, and an import after processing. The
  theorems cover any of them.
- *ServiceHost.cfg*: 2 programs, so that loops have a first and a last pass; 2 bounces, so
  that one can overtake the other's restart. The safety theorems cover any number.
- MySQL's driver has no passing run of its own: `session_cancel` runs on it, and the theorems
  on `NRDBTrans`, `SessionTypeCorrect`, `SessionDialogs` and `SessionLogout` cover both drivers.
- Handles, databases and names are interchangeable, and `Connect.cfg` declares them
  symmetric; it checks invariants only, for which that is sound.

### Fairness

In NRDB none: each action is the choice of a user, a caller or the environment; nothing
there is scheduled by itself, retries, or waits for an answer. (`BDFTypeUpdate` and a query
end by their counted loops.)

`StatSimImport` has `WF_vars(Insert)`: the loops over lines and types go on by themselves
once an import has begun, and no user is asked within them. A file has an end; that a
failed stream never reports it is an action without fairness, and named in `ImportEnds`.

`ServiceHost` has weak fairness of each thread (`MainStep`, `HandlerStep`, `MonitorStep`):
they take no lock, so a thread that can go on is not kept from it by another, and the
system schedules all. `HostExit` is fair once the handler has reported the stop, when
`StartServiceCtrlDispatcher` returns and `main` ends. Nothing is assumed of the controls,
of the programs, or of `CreateProcess`, which may always fail: `EndedIsRestarted`
says that the monitor comes to the program and tries.

---------------------------------------------------------------------------

## 4. What the runs found

1. **A feature type that fails to be created ends the import's transaction**
   (`session_assert`). `CDlgImportCreate2::CreateFType` begins a transaction inside the
   import's. On failure it calls `BDRollBack` (`DlgImportCreate2.cpp:356`), which sets
   the level to 0 for both; the import's `BDCommit` (`importodbc.cpp:204`) then counts
   to -1, against `ASSERT(pDBase->m_nTransLevel >= 0)`. In a release build the level
   stays at -1: the next `BDBeginTrans` counts to 0 without calling the driver, so what
   follows it is in no transaction.
2. **With MySQL a cancelled import leaves data** (`session_cancel`): each table that is
   created commits what went before (`BDFTypeCreate.cpp:180`), against
   `importodbc.cpp:117`.
3. **A moved and retyped attribute drops another's column** (`ftype_moved`):
   `BDFTypeCreate.cpp:252` indexes the old list with the new list's index, against
   "thus retaining existing data" in the comment above the function.
4. **Nothing but the dialogs keeps a feature's parent** (`features_two`). The statement
   that adds the foreign key of `Parent_Feature` is formatted and never executed
   (`BDFTypeCreate.cpp:107`, under "Create reference to the parent feature"). With one program
   the checks suffice but for the two holes below, as `ParentFeaturesKept` proves; with two, one adds
   a child between the other's check and its delete.

Seen while modelling, and without a run of their own:

- An exception leaves a second transaction open. `OnOK` of the attribute dialog begins one at
  `DlgEditAttributes.cpp:888`, and `BDAttribute` (902, 915, 926) may throw; there is no `TRY`
  block, so neither the commit (963) nor the roll back (967) is reached. The dialog stays, the
  level is one higher. Each command, dialog and `Logout` commits once, against
  `ASSERT(BDGetTransLevel(BDHandle()) == 0)` (`NRDBPro.cpp:548`, `DlgFType.cpp:79`,
  `DlgFeatures.cpp:89`, `DlgProjection.cpp:130`): what the user does is then saved by none of
  them, until Undo or a failing row rolls everything back, or all is lost at the end of the
  program. An import that threw leaves `ThrowException` on (`importodbc.cpp:130`), which makes
  it likelier. `leaked` marks it.
- With MySQL autocommit is never switched on again (`MySQLDbase.cpp:388`): a statement sent
  outside of a transaction after the first one waits for a commit, and `Logout` makes none.
- An import stores features without parent: `CreateFeature` stores what `DetermineFeature`
  answers, -1 for a cancelled dialog and 0 for a skipped record or one without a name
  (`importodbc.cpp:1874`, `1889`). `NoParent` marks them.
- A child with a blank name is not seen: `DlgFeatures` strings the trimmed names of the children
  together and looks whether the result is empty (`DlgFeatures.cpp:249-267`), under "Check to
  see if the feature has children". A name of spaces is accepted by `DlgEditFeature.cpp:270`.
  `blank` marks it.
- `DlgFTypeAttr.cpp:687`: when the definition cannot be added because another program has
  taken the id, the dialog closes as if it had been.
- `BDFTypeCreate.cpp:133`: with ODBC the foreign key of a 1:1 type names its root by the
  description, which can be changed; after a change nothing can inherit 1:1 from it.
- `BDFTypeCreate.cpp:454`: a type whose data table has been dropped and whose table of
  features could not be stays defined, and can then not be deleted, since the first drop
  fails.
- `BDFTypeCreate.cpp:139`: the foreign keys of links are formatted and never appended to
  the statement, while the update drops them by name: a link can be neither deleted nor
  changed.
- Links are not looked at when a feature or a type is deleted.
- `DlgFTypeAttr.cpp:862` says "Ensure column name is unique" and does not, when an
  attribute is updated rather than added. `tidy` excludes it.
- `FeatureTypeSet.cpp:154-158` resets the held names of *features* (`m_links`) when a
  feature *type* changes; nothing ever resets `m_aFType`.
- `BDConnect.cpp:96` counts a connection before the internal one is opened and does not
  count it down when that fails. `failed` marks it.
- `BDFTypeDelete` (`BDFTypeCreate.cpp:440`) deletes features by a statement of its own
  and resets nothing. `bypassed` marks it.
- `Viewmap.cpp:4998` notes that updates from other windows should commit the map view's
  transaction first. They do not; `OtherUpdate` is such an update.

Of query results (`QueryResult`):

- `Query.cpp:1667` looks up parents with `FindSorted`, in a list that is sorted by the
  *children* (the comment at line 3731 speaks of a sorted list), and reads on from the
  match only. When parents are ordered otherwise than their children, or several children
  share one, names of parents stay blank and grandparents can be wrong. `scrambled` marks it.
- `FeatureAttr.cpp:134` groups by feature for the earliest and the latest date only. With
  all dates, rows that share a date are joined with each other and doubled.
- `Query.cpp:2651`: a copy that is made while the rows of a parent type are loaded does not
  get the children's data. Its comment says that it is added to the end of the list; it is
  inserted after the original. With all dates asked for on a parent, the last row wins.
- A date that is only a year is compared by SQL as if padded, and by `DateCompare` as it
  is: a range that ends with a year drops the days of that year, and one that begins
  within a year drops a row dated by the year.
- The rule of `UpdateDates` that keeps an earlier result is never reached for the type the
  query is on, since SQL already gives only the first or the last date.

Of StatSim (`StatSimInsert`, `StatSimImport`):

- `ImportAutoSelDlg.cpp:232` adds the batches of a second list to `nProcBatches`, while lines
  235 and 236 resize the arrays to the second list alone: the loops of processing read
  beyond the arrays, and the first list's batches are overwritten.
- `StatSimPro.cpp:1878` looks for `hpq_hh` in the global database while the households of
  batches are elsewhere, and in batch mode the global database is never processed. The
  returns at 1927 and 1984 leave `pGlobalConn` on a batch's database (`left`).
- `StatSimElt.cpp:5873`: processing that counts fewer households than were imported warns and
  goes on to "Processing has been completed."; members are not compared, and a statement that
  fails (5416-5426, 5843) is forgotten. `partly` marks these databases.
- `StatSimConn.cpp:2365` reads `while(!getline(...).eof())`: a stream that fails otherwise is
  read for ever, a last line without a newline is dropped. A record type that is not known
  goes to table 0 (2410); a short line throws (2382); a statement that fails is reported and
  forgotten (1341). A file that is imported again adds its rows again.

Of the service host (`ServiceHost`; it is part of the API and StatSim Pro does not use it):

- "terminate all processes started by this service before shutdown" (`StatSimSvc.h:389`)
  holds for the processes in the table only: one that is started by another thread after
  its turn survives (`late`), and so does one whose handle a race of bounce and restart has
  overwritten (`stray`).
- The names freed at 394 are used by the monitor thread at 492. A program whose first start
  fails is never tried again (488). `<=` at 469 lets the index reach the end of the array.
  A pause changes the status and stops nothing.

---------------------------------------------------------------------------

## 5. What is proved

TLAPS proves, from the modules' named assumptions on the constants alone:

| Theorem | For every ... | Statement |
|---|---|---|
| `TypeCorrect` | row set, driver, nesting bound | `TransSpec => []TransTypeOK` |
| `CounterMatchesDriver` | the same, and a client that may commit too often | `[]LevelMatchesDriver` |
| `NothingPendingInAutocommit` | the same | `[]AutocommitSaves` |
| `CommitAssertion` | client that commits what is open | `[]LevelNeverNegative` |
| `NestedTransactions` | row set, driver, nesting bound, and a client that commits what is open | `ImplementsNestedTrans` |
| `SessionTypeCorrect` | row set, driver, bound on the level | `[]TypeOK` of `NRDBProSession` |
| `SessionCommits` | the same | `[]CommitsMatchBegins` |
| `SessionDialogs` | the same | `[]DialogsOutsideTrans` |
| `SessionUndo` | row set, level bound, the ODBC driver | `[]UndoRestores` |
| `SessionCancel` | the same, and a driver with transactions | `CancelledImportLeavesNothing` |
| `SessionLogout` | row set, driver, level bound | `LogoutSavesAll` |
| `FTypeUpdateTypeCorrect` | names, types and number of attributes, either driver | `[]TypeOK` of `FTypeUpdate` |
| `FTypeUpdateMatches` | the same, a roll back that undoes table changes | `[]TableMatchesDefinition` |
| `FTypeUpdateRetains` | the same, either driver | `TidyUpdateRetainsData` |
| `ConnectTypeCorrect` | number of handles and databases, however many connects failed | `[]TypeOK` of `NRDBConnect` |
| `NamesFresh` | the same | `[]FeatureNamesFresh` |
| `InternalThere` | number of handles and databases, however many connects failed | `[]InternalWhileConnected` |
| `InternalGone` | the same | `[]InternalOnlyWhileConnected` |
| `OlderTheorem` | number of users, types and features | `[]ParentOlder` |
| `FeaturesTypeCorrect` | the same | `[]TypeOK` of `NRDBFeatures` |
| `FoundTheorem` | number of types and features, one user | `[]ParentFound` |
| `ParentFeaturesKept` | the same | `[]ParentFeatureExists` |
| `DeletionsComplete` | the same | `[]DeletionCompletes` |
| `QueryTypeCorrect` | number of types and features, any rows and conditions | `[]TypeOK` of `QueryResult`: the list is sorted while rows are put into it |
| `QueryOnAncestor` | the same | `[]OnAncestor` |
| `QueryRowsShown` | the same | `[]RowsShown` |
| `QueryParentsJoined` | the same | `[]ParentsJoined` |
| `Accounted` | number of databases, types, imports and lines, statements failing anywhere | `InsertSpec => []RowsAccounted` |
| `Fit` | the same, rows short enough | `InsertSpec => []StatementsFit` |
| `Loads` | the same | `InsertSpec => ImplementsRecordLoad` |
| `ImportRefinesInsert` | the same, and any lists of files | `Spec => InsertSpec`: the program does to the rows what `InsertRecords` does alone |
| `ImportAccounted` | the same | `[](RowsAccounted /\ StatementsFit)` of the program |
| `BackOnGlobal` | the same | `[]GlobalUnlessLeft` |
| `ImportTypeCorrect` | the same | `[]TypeOK` of `StatSimImport` |
| `BatchHasDB` | the same | `[]ExistingBatchHasDB` |
| `ProcessingCounts` | the same | `[]CompletedFresh` |
| `HostTypeCorrect` | number of programs and bounces | `[]TypeOK` of `ServiceHost` |
| `FewRunningTheorem` | the same | `[]FewRunning` |
| `StopEndsAllTheorem` | the same | `[]StopEndsAll` |

**The argument for transactions.** `LevelMatchesDriver` is not inductive by itself: a
commit relies on what the begins before it made of the driver's mode, and a statement
in autocommit mode on there being nothing unsaved. The invariant is

    TransInv == Sound(db) /\ db.level \in -MaxLevel..MaxLevel
                /\ (Disciplined => db.level >= 0)

where `Sound` says that the record is a connection, that autocommit mode leaves nothing
pending, that a positive level is out of autocommit mode and that, with the ODBC driver,
an open connection is out of it only at a positive level. Since handlers compose operators, the
lemmas are about operators: each driver call and each `BD` call takes a sound
connection to a sound one and changes the fields it should (`DriverSound`, `CallSound`,
`BDBeginTransFields`, ...). `StepInv` is then one step for each action. `StepRefines`
shows for each action which action of `NestedTrans` it is; `DeleteSteps` does so for the
four outcomes of `BDFTypeDelete`, five calls that amount to one step of a caller.

**The argument for NRDB Pro.** Each handler composes the operators of `NRDBTrans`, so the
lemmas above say what it does to the connection, and what is left is where the program is
when it does it:

    SessionInv == Sound(db) /\ Typed /\ LevelOK /\ PlaceOK /\ BaseKept

`LevelOK` says that the level is -1, 0 or 1, or greater if `leaked`, never negative unless
`broken`, and 0 with a driver without transactions. `PlaceOK` relates it to the window: an
import has a transaction of its own, a dialog outside of the map view has none, unless
`leaked`. `BaseKept` is `UndoRestores` in all windows. The first two hold with either driver;
the third only with ODBC, since MySQL saves at each table change, which is finding 2. `leaked`
ends with a roll back, which goes to level 0 from any depth, or with a commit that reaches it:
then all of this holds again.

**The argument for the tables of feature types.** `BDFTypeUpdate` is two loops, so the
invariant says what the table is after `i` passes: `Altered(def, old, i)` and
`Removed(def, old, i)` are its columns in each loop, and the last pass leaves those of the
definition. That it does depends on the edit: `TidyInv` carries that no two attributes
share a column, in the old list and in the new one, and that none was moved and changed in
one go; without it a pass drops a column that another has just made (finding 3). `Retained`
is the same for the data. `FailsInUpdate` says that the table before the update is whole,
which is what a roll back or a crash goes back to.

**The argument for connections.** `InternalWhileConnected` relates a set of handles to
a counter, so the invariant counts: `Cardinality(Connected) <= count`, and the internal
connection is open whenever the set is not empty. Leaks only add to the left-over, so
no failed connect can break it. `ExactInv` adds that they are equal until a connect
fails. The lemmas `OpenStep` and `CloseStep` are the two facts about cardinality. `FeatureNamesFresh`
is inductive by itself.

**The argument for feature types.** `ParentOlder` follows from what a dialog holds: the id
is the maximum plus one of the types there were when it was opened, and the parents it
offers are among those types, hence smaller. `OlderInv` is `ParentOlder` and that fact of
every open dialog, so other users may add and delete types meanwhile; the definition is
only added when nobody has taken the id. The lemmas `Greatest` and `NextIdGreater` show
that the maximum exists, by well-founded induction on the distance to the bound.
`ParentFound` needs one user: `FoundInv` adds that the parents on offer are still defined,
and that a type about to be deleted has no child.

`ParentFeatureExists` and `DeletionCompletes` compare two ways to the same type: `BDFTypeI`
and `GetChildren` climb and descend the chain of 1:1 types at each call, while `ref` was
written when the table was created. `RefOK` says step by step along the chain that they
agree, and `BDFTypeIRef` and `GetChildren121Closed` that the recursions therefore find what
the reference says; both are functions of a type whose step only uses older (or younger)
types. `RefInv` adds that the features of a type have their parents (`ParentsKept`) and what
each dialog has checked (`DialogOK`): the data about to be deleted is the last that refers to
the feature, and no feature that shows (`Shown`: its name is not blank) has it as its parent.
That part needs one user, and `features_two` shows why.

**The argument for query results.** The list is proved sorted by proving that the code's
quick sort sorts. Each recursive definition is a function; for each there is a step which says
what it does with the values for smaller arguments (`PartStep`, `SortStep`, `SearchStep`), a
lemma that some function is a fixed point of the step, by induction over the size of the
part, and by the same induction what its values are. `Parted` is the contract of
`Partition`: the elements rearranged, the pivot at its place, none greater before it and none
smaller after it. `SortedFrom` is that of `SortFeature`, `Spans` the set the binary
search runs over; `KeepsInsert` says that a copy put after its original leaves the list sorted.
For `OnAncestor` the invariant is

    AncestorInv == TypeOK /\ NamesActive(results) /\ (~scrambled => OnSelf(results)) /\ ...

and what nearly every step does to it is one relation: `Keeps(t, s)`, each result of `t`
is where one of `s` is. Only `NextType` moves results, and there the order of the list matters:
a sorted list without doubles is where the search finds each parent.

What is shown when a type is loaded is the work of three places: `BDAttributeCond` picks rows
by padded dates, `CheckConditions` looks at each of them again, and `UpdateDates` decides from
the date a result has whether a row takes its place, doubles it or is ignored. `IsAnswer` says what
the first returns, in order and how often (`BDAttributeCondIs`); `ChosenIs` that with full dates
a row is asked for just when the database returns it and it passes `CheckConditions`.
The invariant compares the list with `Taken`, the rows of each feature that were read so far and
passed:

    LoadInv == TableOK /\ Filled(results, level, Taken)
               /\ (level = 1 /\ Precise => OwnShown(results, level, Taken, data))
               /\ (level > 1 => Children(results, before, level))
               /\ (level > 1 /\ Precise /\ SingleRows => Single(...)) /\ ...

`Filled`: each result of a feature with rows taken holds one of them, its date and the flag; of
the others it is blank. `OwnShown`: on the query's own type each row taken is held, and two
results of a feature hold different rows, or one that shares its date. `Children`: no result there was
before is lost. `Single`: without two rows of one date there are no copies, nothing but this type's
row changed, and with all dates it is the last one read, which is the last in order because rows
come in order (`ReadLast`). A row is put into all results of its feature because they are next to
each other (`MatchesIs`); `Put` relates the list before and after, and each part of the invariant
has a lemma over it (`FilledPut`, `OwnShownPut`, `ChildrenPut`, `SinglePut`). At the start
`LoadInv` needs that the results hold nothing for the type, no date from the type before, and
on the query's own type one result for a feature: `BlankInv`, which is where `NextType` has to clear the
dates. At the end `Taken` is `Chosen` (`TakenAll`), and `Kept` leaves the results whose flag is set
(`KeptBoth`). The invariant of both theorems is

    ShownInv == TypeOK /\ BlankInv /\ (phase = "load" => LoadInv) /\ RowsShown /\ ParentsJoined

**The argument for imports.** `RowsAccounted` relates three places a row can be in, and a
row has to be in one of them only, so the invariant says where rows come from:

    InsertInv == InsertTypeOK /\ BatchOK /\ BatchGone /\ SeenOld /\ WaitingNew
                 /\ RowsAccounted

`SeenOld` makes the row about to be read a new one, `WaitingNew` says that a statement's
rows come after those of its type that are in the table (hence the order `RecordLoad`
promises), `BatchGone` that the loop at the end leaves no statement behind, and `BatchOK`
bounds the length before a row is added. `Fit` needs the assumption `ShortRows` on the
lengths, because the code looks at a statement's length only after a row was added; it
holds for rows up to a third of the limit. All that is done to the tables is in two
lemmas, `ExecuteFields` and `ExecuteInv`. The composition is a refinement: `Directed` says
that the files of an automatic import name batches and that the connection is on one of
the databases, so each action of the program is a step of the loop or leaves its variables
alone, and the two safety theorems carry over. `Homeward` says, for each screen, on which
database the connection is; `GlobalUnlessLeft` is its part for the screens with commands.

`LoopInv` keeps the loops within their lists: the lists are sized by the list of files the
loop runs over, and a place of it is set before it is read. `ExistingBatchHasDB`
speaks of what is in the arrays: of what processing reads beyond their end, after a second list,
nothing can be said. `CompletedFresh` needs to know, for each database with rows that no
processing went over (`Unprocessed`, which is `stale` without `partly`), that the loop is still
to come to it: `Awaited` says so in each window, before and after the file or the batch the
loop is at, as long as there was one list (`OneList`).
`FirstList` says why: `nProcBatches` only grows, while the lists are sized anew.

**The argument for the service host.** How many processes of a program run depends on three
threads that have yet to start one, so the invariant `Counted` counts tokens: the processes
that are lost, the one in the table, and each thread that is on its way to call
`CreateProcess`. Each step moves a token or loses it, and only a bounce adds one. A process
that has ended still counts until the monitor has seen it, since it will be started again.
`Stopping` says how far the loop of the stop has come; `BeforeRunning` that no control comes
before the first status, and `ControlOK` where the handler can be.

`HostInv == TypeOK /\ ControlOK /\ BeforeRunning /\ Counted /\ Stopping`.

**Assumptions.** They are the named ones of the modules: bounds are natural numbers, not
zero where the code has at least one (`MaxBatches`), the types of columns are not those of
links, the rows of a feature are finitely many and told apart by date and order, and
`ShortRows`, which only `Fit` and what follows from it use. The hypotheses of single theorems
are in the table: one user (`features_two` violates `ParentFeatureExists` with two), the ODBC
driver (`session_cancel` violates `CancelledImportLeavesNothing` with the other), a client that
commits what is open (NRDB Pro is not quite one, `session_assert`), and a roll back that undoes
table changes, without which a failure between two statements of `BDFTypeUpdate` leaves the
table as far as it got.

**Model-checked only.** Every invariant and every action property of a passing run is a
theorem, and so are the refinements. Liveness under fairness, `ImportEnds`, `EndedIsRestarted`
and `StopCompletes`, is out of the prover's reach and checked by TLC alone. The theorems of the
library that take an operator, such as those for induction over the natural numbers or for
recursive functions, cannot be instantiated by the provers at hand. The recursive functions
here are therefore reasoned about by `Induct`, induction for a set, which follows from `WFMin`,
and by showing of each function that it exists.

---------------------------------------------------------------------------

## 6. What is not modelled, and why

- *Text and values*: SQL text, conversion of values, number formats. Only the effect of a
  statement on rows and columns is kept. Dates are modelled in `QueryResult`, where padding
  and comparing them decides which rows are shown.
- *Rows with keys* in the transaction and session models: that an attribute belongs to
  a feature that still exists is not expressible there. `NRDBFeatures` has the keys,
  and no transactions: its handlers are one transaction each, or none.
- *Other programs on the same database*: in the transaction and session models `stored`
  is what they would see, but none writes. They do in `NRDBFeatures`.
- *Features from elsewhere*: copying from another NRDB database (`ImportFType.cpp`) and the
  map view's delete of the feature it has just created (`Viewmap.cpp:3523`) are not in
  `NRDBFeatures`.
- *Maps, reports, printing, file formats*: they read and keep no state that a property
  here is about. *Queries*: joins with other types, calculations, groups, the sorting of the
  finished table and its display are not in `QueryResult`.
- *StatSim*: record sets, grids, trees, HTML pages and the dialogs of their design; the
  ODBC connection; `InsertRecords` from an array, a record set or a `daedata` object
  (`StatSimConn.cpp:1956-2193`, where a last row that overflows a statement is lost); what an indicator computes, of which only the rows it was
  computed from are kept; installing and removing the service. Most of the API's lines are
  the HTML and tree classes, which put text together.
- *Java programs and small tools*: straight sequences of calls, without state.
- *Vendored libraries* and generated files: third-party code.

---------------------------------------------------------------------------

## 7. Plan

Order, most important first. Done: the transaction layer, its client, the tables of
feature types, the connections, feature types and features with their ids; the import and
the processing of StatSim; the service host; the results of queries.

1. `NRDBRecordset` - one cursor per handle. Abstract specification: each retrieval
   returns the rows of *its* query, in order, until it ends. To check: a retrieval begun
   inside another, early returns (`DlgFType.cpp:163-173`), the parent chain in
   `BDFTypeI` (`FeatureTypeSet.cpp:191-214`) which has its own retrieval in a loop.
   Bounds: 2 handles, 2 queries, 2 rows. Theorem: a handle that begins only after it
   ended is never given another's cursor.
2. `MapLinesCodec` - encode and decode as functions (`Maplines.cpp:46-259`, `412-511`),
   decode after encode checked over bounded lines that cross the 1, 2 and 4 byte limits;
   `CrossTab` - the cross tabulation of `daextab.cpp` as folds, against the counts it
   should give. One module drives both, so that they share a run.
3. `NRDBUpdate` - the upgrade at connect (`initialise.cpp:39-188`), one version a step,
   stopped anywhere and repeated. To check: a repeated upgrade ends at the schema of an
   upgrade that was not stopped.
4. Callers of `BDConnect` that take -1 for success (`NRDBPro.cpp:453-466`) and the second
   connection of `ImportFType.cpp`.
5. The rest of queries: joins (`RetrieveFeatures`), groups and statistics
   (`Query.cpp:2939-3603`), over the list `QueryResult` ends with.

There is one run for each question: where a new module answers one that an older run only
repeats, it takes its place.
