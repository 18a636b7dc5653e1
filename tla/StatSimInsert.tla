---------------------------- MODULE StatSimInsert ----------------------------
(***************************************************************************)
(* CSSMySQLconn::InsertRecords from a file (StatSimConn.cpp): the lines of *)
(* a file are records of several types, each with a table of its own. Rows *)
(* are gathered in one INSERT statement for each type; a statement is sent *)
(* when it comes near the size the server takes, and at the end of the     *)
(* file. A statement that fails is reported to the user and forgotten.     *)
(*                                                                         *)
(* One action is a pass of the loop over the lines, or of the loop over    *)
(* the types at the end. The tables are MyISAM: there are no transactions, *)
(* and a statement that fails keeps the rows before the one that failed.   *)
(***************************************************************************)
EXTENDS Integers, FiniteSets

CONSTANTS
    Databases,   \* the databases rows may be imported into
    NTypes,      \* nTypes: the number of record types of the questionnaire
    InitLength,  \* the length of "INSERT INTO ... VALUES"
    Lengths,     \* what a row may be long
    Room,        \* bchlimit - 8
    MaxImports,  \* bound on the imports
    MaxLines,    \* bound on the lines of a file
    MaxRows      \* bound on the records in all files

ASSUME StatSimInsertAssumption ==
    /\ NTypes \in Nat \ {0}
    /\ Databases # {}
    /\ InitLength \in Nat /\ Room \in Nat /\ Lengths \subseteq Nat
    /\ MaxImports \in Nat /\ MaxLines \in Nat

\* Rows are short beside a statement, as those of the questionnaires are: no
\* field is longer than 255 characters, and Room is about a million.
ASSUME ShortRows ==
    /\ 3 * InitLength <= 2 * Room
    /\ \A l \in Lengths : 3 * l <= Room + 12

VARIABLES
    table,   \* how often each row is in each table of each database
    created, \* the databases that have the tables
    import,  \* the imports begun: names the file that is being read
    target,  \* the database it is imported into
    stage,   \* "idle", "reading", "flushing"
    stream,  \* "good", or "failed" when the file cannot be read any further
    lines,   \* nlines
    flush,   \* k, in the loop at the end
    batch,   \* for each type sSQLExecBch, its length, and nI
    lost,    \* the rows that will not be inserted any more (history)
    seen     \* the rows that were read (history)

insVars == <<table, created, import, target, stage, stream, lines, flush,
             batch, lost, seen>>

Types == 0..(NTypes - 1)
Rows == (1..MaxImports) \X (1..MaxLines)
Row == <<import, lines + 1>>

\* sSQLInit: a statement without rows
EmptyBatch == [rows |-> {}, nI |-> 0, size |-> InitLength]

\* mapType[rt]: a type that is not in the map is put there with index 0.
Index(rt) == IF rt \in Types THEN rt ELSE 0

\* A row is added to a statement, after a comma unless it is the first.
Appended(stmt, row, len) ==
    [rows |-> stmt.rows \cup {row},
     nI   |-> stmt.nI + 1,
     size |-> stmt.size + len + IF stmt.nI > 0 THEN 2 ELSE 0]

\* Mutant: the length of the statement is compared with the limit itself.
M_Full(stmt) == stmt.size > Room

Full(stmt) == 3 * stmt.size > 2 * Room

-----------------------------------------------------------------------------
(* ExecuteSQL *)

\* The rows of stmt that the server inserts: all, or those before the one that
\* fails, or none, as when the table was not created.
Inserted(stmt) ==
    {S \in {{r \in stmt.rows : r[2] < m} : m \in 1..(MaxLines + 1)} :
        target \notin created => S = {}}

ExecuteSQL(k, stmt) ==
    \E S \in Inserted(stmt) :
       /\ table' = [table EXCEPT ![target][k] =
                       [r \in Rows |-> @[r] + IF r \in S THEN 1 ELSE 0]]
       /\ lost' = [lost EXCEPT ![k] = @ \cup (stmt.rows \ S)]

-----------------------------------------------------------------------------
(* InsertRecords *)

InsertInit ==
    /\ table = [d \in Databases |-> [k \in Types |-> [r \in Rows |-> 0]]]
    /\ created = {}
    /\ import = 0
    /\ target \in Databases
    /\ stage = "idle" /\ stream = "good"
    /\ lines = 0 /\ flush = 0
    /\ batch = [k \in Types |-> EmptyBatch]
    /\ lost = [k \in Types |-> {}] /\ seen = [k \in Types |-> {}]

\* Up to the loop: CREATE TABLE IF NOT EXISTS for each type, and the beginning of
\* each statement. A failure to create them is forgotten too. It is that of all
\* types: one table that is missing is a case of INSERT statements that fail.
InsertRecords(d) ==
    /\ stage = "idle"
    /\ import < MaxImports
    /\ import' = import + 1
    /\ target' = d
    /\ created' \in {created, created \cup {d}}
    /\ batch' = [k \in Types |-> EmptyBatch]
    /\ stage' = "reading" /\ stream' = "good"
    /\ lines' = 0 /\ flush' = 0
    /\ UNCHANGED <<table, lost, seen>>

Reading == stage = "reading" /\ stream = "good" /\ lines < MaxLines
AnotherRow == Cardinality(UNION {seen[k] : k \in Types}) < MaxRows

\* A line that is empty, or has no record type.
SkipLine ==
    /\ Reading
    /\ lines' = lines + 1
    /\ UNCHANGED <<table, created, import, target, stage, stream, flush, batch,
                   lost, seen>>

\* Mutant: the row that filled the statement stays for the next one.
M_ReadRecord(rt, len) ==
    LET k == Index(rt)
        stmt == Appended(batch[k], Row, len)
    IN  /\ Reading /\ AnotherRow
        /\ lines' = lines + 1
        /\ seen' = [seen EXCEPT ![k] = @ \cup {Row}]
        /\ IF Full(stmt)
           THEN /\ ExecuteSQL(k, stmt)
                /\ batch' = [batch EXCEPT ![k] = Appended(EmptyBatch, Row, len)]
           ELSE /\ batch' = [batch EXCEPT ![k] = stmt]
                /\ UNCHANGED <<table, lost>>
        /\ UNCHANGED <<created, import, target, stage, stream, flush>>

ReadRecord(rt, len) ==
    LET k == Index(rt)
        stmt == Appended(batch[k], Row, len)
    IN  /\ Reading /\ AnotherRow
        /\ lines' = lines + 1
        /\ seen' = [seen EXCEPT ![k] = @ \cup {Row}]
        /\ IF Full(stmt)
           THEN /\ ExecuteSQL(k, stmt)
                /\ batch' = [batch EXCEPT ![k] = EmptyBatch]
           ELSE /\ batch' = [batch EXCEPT ![k] = stmt]
                /\ UNCHANGED <<table, lost>>
        /\ UNCHANGED <<created, import, target, stage, stream, flush>>

\* getline meets the end of the file. A last line without a line break is read
\* by the getline that meets it, and dropped.
EndOfFile ==
    /\ stage = "reading" /\ stream = "good"
    /\ stage' = "flushing"
    /\ UNCHANGED <<table, created, import, target, stream, lines, flush, batch,
                   lost, seen>>

\* The file cannot be opened, or not be read any further. The loop asks for
\* eof() only, which a stream that has failed does not return: it has no step
\* from here that changes anything.
StreamFails ==
    /\ stage = "reading" /\ stream = "good"
    /\ stream' = "failed"
    /\ UNCHANGED <<table, created, import, target, stage, lines, flush, batch,
                   lost, seen>>

Return == stage' = "idle" /\ lines' = 0 /\ flush' = 0

\* Mutant: the last type is left out of the loop.
M_Flush ==
    /\ stage = "flushing"
    /\ IF batch[flush].nI > 0 THEN ExecuteSQL(flush, batch[flush])
                              ELSE UNCHANGED <<table, lost>>
    /\ batch' = [batch EXCEPT ![flush] = EmptyBatch]
    /\ IF flush < NTypes - 2 THEN flush' = flush + 1 /\ UNCHANGED <<stage, lines>>
                             ELSE Return
    /\ UNCHANGED <<created, import, target, stream, seen>>

\* Mutant: a type without rows is passed over before k is counted up.
M_FlushEmpty ==
    /\ stage = "flushing"
    /\ batch[flush].nI > 0
    /\ ExecuteSQL(flush, batch[flush])
    /\ batch' = [batch EXCEPT ![flush] = EmptyBatch]
    /\ IF flush < NTypes - 1 THEN flush' = flush + 1 /\ UNCHANGED <<stage, lines>>
                             ELSE Return
    /\ UNCHANGED <<created, import, target, stream, seen>>

\* One type of the loop at the end; the buffers are gone when it returns.
Flush ==
    /\ stage = "flushing"
    /\ IF batch[flush].nI > 0 THEN ExecuteSQL(flush, batch[flush])
                              ELSE UNCHANGED <<table, lost>>
    /\ batch' = [batch EXCEPT ![flush] = EmptyBatch]
    /\ IF flush < NTypes - 1 THEN flush' = flush + 1 /\ UNCHANGED <<stage, lines>>
                             ELSE Return
    /\ UNCHANGED <<created, import, target, stream, seen>>

\* The program ends, or is ended, in the middle of an import.
Abandon ==
    /\ stage # "idle"
    /\ Return
    /\ stream' = "good"
    /\ lost' = [k \in Types |-> lost[k] \cup batch[k].rows]
    /\ batch' = [k \in Types |-> EmptyBatch]
    /\ UNCHANGED <<table, created, import, target, seen>>

InsertStep ==
    \/ SkipLine
    \/ \E rt \in 0..NTypes, len \in Lengths : ReadRecord(rt, len)
    \/ EndOfFile
    \/ Flush

InsertNext ==
    \/ \E d \in Databases : InsertRecords(d)
    \/ InsertStep
    \/ StreamFails
    \/ Abandon

InsertSpec == InsertInit /\ [][InsertNext]_insVars

-----------------------------------------------------------------------------
(* Properties *)

InsertTypeOK ==
    /\ table \in [Databases -> [Types -> [Rows -> Nat]]]
    /\ created \subseteq Databases
    /\ import \in 0..MaxImports
    /\ target \in Databases
    /\ stage \in {"idle", "reading", "flushing"}
    /\ stream \in {"good", "failed"}
    /\ lines \in 0..MaxLines
    /\ flush \in Types
    /\ batch \in [Types -> [rows : SUBSET Rows, nI : Nat, size : Nat]]
    /\ lost \in [Types -> SUBSET Rows]
    /\ seen \in [Types -> SUBSET Rows]

InTables(k) == {r \in Rows : \E d \in Databases : table[d][k][r] > 0}

\* "every new case, new clause": every record that was read is in the table of
\* its type, or waits in the statement of its type, or was in a statement that
\* failed: in exactly one of them, whatever statements fail and wherever the
\* program ends. None is forgotten when a statement is sent and begun anew.
RowsAccounted ==
    \A k \in Types :
        /\ seen[k] = InTables(k) \cup batch[k].rows \cup lost[k]
        /\ InTables(k) \cap batch[k].rows = {}
        /\ InTables(k) \cap lost[k] = {}
        /\ batch[k].rows \cap lost[k] = {}

\* No statement is longer than what the server takes, bchlimit: whatever row
\* comes next, and with ";\n" at its end. The length of a statement is only
\* looked at after a row was added to it.
StatementsFit ==
    \A k \in Types, l \in Lengths :
        Appended(batch[k], <<1, 1>>, l).size + 2 <= Room + 8

\* The import inserts each row of a file at most once, in the order of the
\* file, into the database it was started for.
RL == INSTANCE RecordLoad WITH loaded <- table, into <- target
ImplementsRecordLoad == RL!LoadSpec
=============================================================================
