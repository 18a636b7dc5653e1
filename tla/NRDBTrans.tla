------------------------------ MODULE NRDBTrans ------------------------------
(***************************************************************************)
(* The transaction layer of NRDBAPI on one connection: the counter of      *)
(* nested transactions BDTrans.cpp keeps in CNRDBase::m_nTransLevel, the   *)
(* three driver calls it makes, and what they do to the autocommit mode    *)
(* of the two drivers the library is built for:                            *)
(*   "odbc"   CNRDBase is an MFC CDatabase (Access by the Jet driver)      *)
(*   "mysql"  CNRDBase is a CMySQLDatabase (NRDBMYSQL is defined)          *)
(*                                                                         *)
(* A database is a set of rows. The connection is one record; an operation *)
(* is an operator from the connection before to the connection after, so   *)
(* that a handler that makes several calls is their composition.           *)
(***************************************************************************)
EXTENDS Integers

CONSTANTS
    Rows,         \* what a table may hold
    Backend,      \* the driver the library is built for
    CanTransact,  \* CDatabase::CanTransact, or a MySQL client from 4.1 on
    MaxLevel,     \* bound on the nesting the client reaches
    Disciplined   \* the client commits only a transaction that is open

ASSUME NRDBTransAssumption ==
    /\ Backend \in {"odbc", "mysql"}
    /\ CanTransact \in BOOLEAN
    /\ MaxLevel \in Nat \ {0}
    /\ Disciplined \in BOOLEAN
    \* MySQLDbase.cpp: a client library older than 4.1 is not supported here
    /\ Backend = "mysql" => CanTransact

VARIABLE db

MySQL == Backend = "mysql"
Tables == SUBSET Rows

\* open         the handle is valid: GetNRDBase returns the connection
\* level        m_nTransLevel
\* autocommit   the driver saves each statement as it is executed
\* stored       the database as any other connection, or a later one, sees it
\* table        the database as this connection sees it
Connection ==
    [open : BOOLEAN, level : Int, autocommit : BOOLEAN,
     stored : Tables, table : Tables]

-----------------------------------------------------------------------------
(* The drivers *)

\* CMySQLDatabase::BeginTrans commits what is pending before it leaves
\* autocommit mode; CDatabase::BeginTrans only leaves it.
BeginTrans(s) ==
    [s EXCEPT !.autocommit = FALSE,
              !.stored = IF MySQL THEN s.table ELSE s.stored]

\* CDatabase::CommitTrans returns to autocommit mode, CMySQLDatabase's not.
CommitTrans(s) ==
    [s EXCEPT !.stored = s.table,
              !.autocommit = IF MySQL THEN s.autocommit ELSE TRUE]

Rollback(s) ==
    [s EXCEPT !.table = s.stored,
              !.autocommit = IF MySQL THEN s.autocommit ELSE TRUE]

\* An insert, update or delete statement that leaves the rows t.
ExecuteSQL(s, t) ==
    [s EXCEPT !.table = t,
              !.stored = IF s.autocommit THEN t ELSE s.stored]

\* create, alter or drop table: MySQL commits before and after it.
ExecuteDDL(s, t) ==
    IF MySQL THEN [s EXCEPT !.table = t, !.stored = t] ELSE ExecuteSQL(s, t)

-----------------------------------------------------------------------------
(* BDTrans.cpp *)

\* Mutant: a begin inside a transaction counts twice.
M_BDBeginTrans(s) ==
    IF ~s.open \/ ~CanTransact THEN s
    ELSE LET b == IF s.level = 0 THEN BeginTrans(s) ELSE s
         IN  [b EXCEPT !.level = s.level + (IF s.level = 0 THEN 1 ELSE 2)]

BDBeginTrans(s) ==
    IF ~s.open \/ ~CanTransact THEN s
    ELSE LET b == IF s.level = 0 THEN BeginTrans(s) ELSE s
         IN  [b EXCEPT !.level = s.level + 1]

\* Mutant: every commit saves, not only the outermost.
M_BDCommit(s) ==
    IF ~s.open \/ ~CanTransact THEN s
    ELSE [CommitTrans(s) EXCEPT !.level = s.level - 1]

BDCommit(s) ==
    IF ~s.open \/ ~CanTransact THEN s
    ELSE LET c == IF s.level - 1 = 0 THEN CommitTrans(s) ELSE s
         IN  [c EXCEPT !.level = s.level - 1]

\* Mutant: a roll back leaves one level, as a commit does.
M_BDRollBack(s) ==
    IF ~s.open \/ ~CanTransact THEN s
    ELSE [Rollback(s) EXCEPT !.level = s.level - 1]

BDRollBack(s) ==
    IF ~s.open \/ ~CanTransact THEN s
    ELSE [Rollback(s) EXCEPT !.level = 0]

-----------------------------------------------------------------------------
(* BDConnect and BDDisconnect, as far as transactions go. A connection that *)
(* is closed, or whose process ends, loses what it has not committed.       *)

NotConnected(t) ==
    [open |-> FALSE, level |-> 0, autocommit |-> TRUE, stored |-> t, table |-> t]

Opened(s) == [NotConnected(s.stored) EXCEPT !.open = TRUE]

\* Mutant: the end of a connection is taken for the end of its transaction.
M_Closed(s) == [s EXCEPT !.open = FALSE, !.level = 0, !.autocommit = TRUE]

Closed(s) == NotConnected(s.stored)

-----------------------------------------------------------------------------
(* BDFTypeCreate.cpp: the table of a feature type *)

\* Under MySQL the driver's BeginTrans is called directly after the tables have
\* changed, without m_nTransLevel.
RestartTrans(s) == IF MySQL THEN BeginTrans(s) ELSE s

BDFTypeCreate(s, t) == RestartTrans(ExecuteDDL(s, t))

\* Columns are dropped and added.
BDFTypeUpdate(s, t) == ExecuteDDL(s, t)

\* Mutant: BDFTypeDelete relies on the caller's transaction, but commits it.
M_BDFTypeDelete(s, t) == RestartTrans(BDCommit(ExecuteSQL(s, t)))

\* BDFTypeDelete: the rows are deleted in a transaction of their own; then,
\* if the definition goes too, the tables are dropped and the definition's
\* row is deleted outside of it; then the driver's BeginTrans, as above.
BDFTypeDelete(s, t) ==
    RestartTrans(BDCommit(ExecuteSQL(BDBeginTrans(s), t)))

BDFTypeDrop(s, dropped, t) ==
    RestartTrans(ExecuteSQL(ExecuteDDL(BDCommit(BDBeginTrans(s)), dropped), t))

\* A statement throws before the commit: bTrans is set, so roll back.
BDFTypeDeleteFails(s, t) ==
    RestartTrans(BDRollBack(ExecuteSQL(BDBeginTrans(s), t)))

\* A statement throws after it: what was dropped stays dropped.
BDFTypeDropFails(s, dropped) ==
    RestartTrans(ExecuteDDL(BDCommit(BDBeginTrans(s)), dropped))

-----------------------------------------------------------------------------
(* A program that makes any of these calls in any order *)

TransInit == \E t \in Tables : db = NotConnected(t)

Connect == ~db.open /\ db' = Opened(db)

Begin ==
    /\ db.open
    /\ db.level < MaxLevel
    /\ db' = BDBeginTrans(db)

Commit ==
    /\ db.open
    /\ IF Disciplined THEN db.level > 0 ELSE db.level > -MaxLevel
    /\ db' = BDCommit(db)

RollBack == db.open /\ db' = BDRollBack(db)

Write ==
    /\ db.open
    /\ \E t \in Tables : db' = ExecuteSQL(db, t)

CreateFType ==
    /\ db.open
    /\ \E t \in Tables : db' = BDFTypeCreate(db, t)

UpdateFType ==
    /\ db.open
    /\ \E t \in Tables : db' = BDFTypeUpdate(db, t)

DeleteFType ==
    /\ db.open
    /\ \E t, dropped \in Tables :
          db' \in {BDFTypeDelete(db, t), BDFTypeDeleteFails(db, t),
                  BDFTypeDrop(db, dropped, t), BDFTypeDropFails(db, dropped)}

Disconnect == db.open /\ db' = Closed(db)

TransNext ==
    \/ Connect \/ Disconnect
    \/ Begin \/ Commit \/ RollBack
    \/ Write \/ CreateFType \/ UpdateFType \/ DeleteFType

TransSpec == TransInit /\ [][TransNext]_db

-----------------------------------------------------------------------------
(* Properties *)

\* The connection is a connection: the type invariant of BDTrans.cpp's state.
TransTypeOK ==
    /\ db \in Connection
    /\ db.level \in -MaxLevel..MaxLevel

\* BDTrans.cpp asserts after each commit that the level is not negative. It
\* is not as long as every commit closes a transaction that is still open:
\* the roll back of an inner transaction closes the outer ones too.
LevelNeverNegative == db.level >= 0

\* A caller tests BDGetTransLevel > 0 to learn whether what it wrote can
\* still be undone. The counter tells the truth: the driver is then out of
\* autocommit mode; and by the ODBC driver it is out of it only then.
LevelMatchesDriver ==
    /\ db.level > 0 => ~db.autocommit
    /\ db.open /\ ~MySQL => (db.level > 0 <=> ~db.autocommit)

\* Nothing is left unsaved in autocommit mode, whatever sequence of begins,
\* commits, roll backs and table changes led there.
AutocommitSaves == db.autocommit => db.stored = db.table

\* Under a client that commits only what it began, BDTrans.cpp implements
\* nested transactions. With the ODBC driver an update outside a transaction
\* is saved at once and table changes can be undone; with the MySQL driver
\* neither holds, and NestedTrans says how much of the promise remains.
NT == INSTANCE NestedTrans WITH
        depth <- db.level, view <- db.table, saved <- db.stored,
        AutoSave <- ~MySQL, SchemaUndo <- ~MySQL
ImplementsNestedTrans == NT!Spec
=============================================================================
