---------------------------- MODULE StatSimProofs ----------------------------
(***************************************************************************)
(* Theorems about StatSimInsert and StatSimImport.                         *)
(***************************************************************************)
EXTENDS StatSimImport, SequenceTheorems, TLAPS

-----------------------------------------------------------------------------
(* The inductive invariant of InsertRecords *)

\* A statement is either as it was begun, or has rows and room for one more.
BatchOK ==
    \A k \in Types :
        /\ batch[k].nI = 0 => batch[k] = EmptyBatch
        /\ 3 * batch[k].size <= 2 * Room

\* The statements are empty when nobody gathers rows in them any more.
BatchGone ==
    /\ stage = "idle" => \A k \in Types : batch[k] = EmptyBatch
    /\ stage = "flushing" => \A k \in Types : k < flush => batch[k] = EmptyBatch
    /\ stage = "reading" => flush = 0
    /\ stage # "idle" => import > 0

\* What was read is older than what will be.
SeenOld ==
    \A k \in Types : \A r \in seen[k] :
        r[1] < import \/ (r[1] = import /\ (stage = "idle" \/ r[2] <= lines))

\* What waits is of this import, and comes after what was inserted of it.
WaitingNew ==
    \A k \in Types : \A r \in batch[k].rows :
        /\ r[1] = import
        /\ \A q \in Rows : q[1] = import /\ table[target][k][q] > 0 => q[2] < r[2]

InsertInv ==
    /\ InsertTypeOK /\ BatchOK /\ BatchGone /\ SeenOld /\ WaitingNew
    /\ RowsAccounted

\* What ExecuteSQL does to the tables, field by field.
LEMMA ExecuteFields ==
    ASSUME InsertTypeOK, NEW k \in Types, NEW stmt, stmt.rows \in SUBSET Rows,
           ExecuteSQL(k, stmt)
    PROVE  \E S \in SUBSET stmt.rows :
              /\ table' \in [Databases -> [Types -> [Rows -> Nat]]]
              /\ \A d \in Databases, j \in Types, r \in Rows :
                    table'[d][j][r] = IF d = target /\ j = k /\ r \in S
                                      THEN table[d][j][r] + 1 ELSE table[d][j][r]
              /\ lost' = [lost EXCEPT ![k] = @ \cup (stmt.rows \ S)]
  <1>1. PICK S \in Inserted(stmt) :
           /\ table' = [table EXCEPT ![target][k] =
                           [r \in Rows |-> @[r] + IF r \in S THEN 1 ELSE 0]]
           /\ lost' = [lost EXCEPT ![k] = @ \cup (stmt.rows \ S)]
    BY DEF ExecuteSQL
  <1>2. S \in SUBSET stmt.rows
    BY <1>1 DEF Inserted
  <1> DEFINE t == [r \in Rows |-> table[target][k][r] + IF r \in S THEN 1 ELSE 0]
  <1>3. t \in [Rows -> Nat]
    BY DEF InsertTypeOK
  <1>4. table' = [table EXCEPT ![target] = [table[target] EXCEPT ![k] = t]]
    BY <1>1, Zenon DEF InsertTypeOK
  <1>5. table' \in [Databases -> [Types -> [Rows -> Nat]]]
    BY <1>3, <1>4 DEF InsertTypeOK
  <1>6. ASSUME NEW d \in Databases, NEW j \in Types, NEW r \in Rows
        PROVE  table'[d][j][r] = IF d = target /\ j = k /\ r \in S
                                 THEN table[d][j][r] + 1 ELSE table[d][j][r]
    BY <1>4 DEF InsertTypeOK
  <1> QED
    BY <1>1, <1>2, <1>5, <1>6

\* The rows of k in the tables grow by what the statement inserted.
LEMMA ExecuteTables ==
    ASSUME InsertTypeOK, NEW k \in Types, NEW S \in SUBSET Rows,
           table' \in [Databases -> [Types -> [Rows -> Nat]]],
           \A d \in Databases, j \in Types, r \in Rows :
              table'[d][j][r] = IF d = target /\ j = k /\ r \in S
                                THEN table[d][j][r] + 1 ELSE table[d][j][r],
           NEW j \in Types
    PROVE  InTables(j)' = InTables(j) \cup (IF j = k THEN S ELSE {})
  <1>1. ASSUME NEW r \in Rows, NEW d \in Databases
        PROVE  table'[d][j][r] > 0 <=>
                 table[d][j][r] > 0 \/ (d = target /\ j = k /\ r \in S)
    <2>1. table[d][j][r] \in Nat
      BY DEF InsertTypeOK
    <2> QED
      BY <2>1
  <1> QED
    BY <1>1 DEF InTables, InsertTypeOK

\* The next row is none that was read.
LEMMA RowUnseen ==
    ASSUME InsertTypeOK, SeenOld, stage # "idle"
    PROVE  \A j \in Types : Row \notin seen[j]
  <1> SUFFICES ASSUME NEW j \in Types, Row \in seen[j]
               PROVE  FALSE
    OBVIOUS
  <1>1. import \in Int /\ lines \in Int
    BY DEF InsertTypeOK, StatSimInsertAssumption
  <1>2. Row[1] = import /\ Row[2] = lines + 1
    BY DEF Row
  <1>3. Row[1] < import \/ (Row[1] = import /\ Row[2] <= lines)
    BY Zenon DEF SeenOld
  <1> QED
    BY <1>1, <1>2, <1>3

\* A record that was read is of this import, and its line is counted.
LEMMA SeenRow ==
    ASSUME InsertTypeOK, SeenOld, NEW k \in Types,
           stage = "reading", stage' = stage, import' = import,
           lines' = lines + 1,
           seen' = [seen EXCEPT ![k] = @ \cup {Row}]
    PROVE  SeenOld'
  <1> SUFFICES ASSUME NEW j \in Types, NEW r \in seen'[j]
               PROVE  r[1] < import \/ (r[1] = import /\ r[2] <= lines + 1)
    BY DEF SeenOld
  <1>1. lines \in Int /\ import \in Int
    BY DEF InsertTypeOK, StatSimInsertAssumption
  <1>2. r \in seen[j] \/ r = Row
    BY DEF InsertTypeOK
  <1>3. CASE r \in seen[j]
    <2>1. r \in Rows
      BY <1>3 DEF InsertTypeOK
    <2>2. r[1] \in Int /\ r[2] \in Int
      BY <2>1, StatSimInsertAssumption DEF Rows
    <2>3. r[1] < import \/ (r[1] = import /\ r[2] <= lines)
      BY <1>3 DEF SeenOld
    <2> QED
      BY <1>1, <2>2, <2>3
  <1>4. CASE r = Row
    BY <1>1, <1>4 DEF Row
  <1> QED
    BY <1>2, <1>3, <1>4

\* A statement that is begun anew has room for rows.
LEMMA BegunAnew ==
    ASSUME InsertTypeOK, BatchOK, NEW k \in Types,
           batch' = [batch EXCEPT ![k] = EmptyBatch]
    PROVE  /\ batch' \in [Types -> [rows : SUBSET Rows, nI : Nat, size : Nat]]
           /\ BatchOK'
  <1>1. EmptyBatch \in [rows : SUBSET Rows, nI : Nat, size : Nat]
    BY StatSimInsertAssumption DEF EmptyBatch
  <1>2. \A j \in Types : batch'[j] = IF j = k THEN EmptyBatch ELSE batch[j]
    BY DEF InsertTypeOK
  <1>3. 3 * EmptyBatch.size <= 2 * Room
    BY ShortRows DEF EmptyBatch
  <1>4. BatchOK'
    BY <1>2, <1>3 DEF BatchOK
  <1> QED
    BY <1>1, <1>4 DEF InsertTypeOK

\* A statement k that is executed, with or without one more row, and begun anew,
\* keeps the invariant of the tables.
LEMMA ExecuteInv ==
    ASSUME InsertInv, NEW k \in Types, NEW stmt,
           stage # "idle",
           stmt.rows \in SUBSET Rows,
           batch[k].rows \subseteq stmt.rows,
           \A r \in stmt.rows : r \in batch[k].rows \/ r = Row,
           seen' = [seen EXCEPT ![k] = @ \cup stmt.rows],
           batch' = [batch EXCEPT ![k] = EmptyBatch],
           import' = import, target' = target,
           ExecuteSQL(k, stmt)
    PROVE  /\ table' \in [Databases -> [Types -> [Rows -> Nat]]]
           /\ lost' \in [Types -> SUBSET Rows]
           /\ WaitingNew'
           /\ RowsAccounted'
  <1> USE DEF InsertInv
  <1>1. PICK S \in SUBSET stmt.rows :
              /\ table' \in [Databases -> [Types -> [Rows -> Nat]]]
              /\ \A d \in Databases, j \in Types, r \in Rows :
                    table'[d][j][r] = IF d = target /\ j = k /\ r \in S
                                      THEN table[d][j][r] + 1 ELSE table[d][j][r]
              /\ lost' = [lost EXCEPT ![k] = @ \cup (stmt.rows \ S)]
    BY ExecuteFields
  <1>2. \A j \in Types : InTables(j)' = InTables(j) \cup (IF j = k THEN S ELSE {})
    BY <1>1, ExecuteTables
  <1>3. lost' \in [Types -> SUBSET Rows]
    BY <1>1 DEF InsertTypeOK
  <1>4. \A j \in Types : Row \notin seen[j]
    BY RowUnseen
  <1>5. RowsAccounted'
    <2> SUFFICES ASSUME NEW j \in Types
                 PROVE  /\ seen'[j] = InTables(j)' \cup batch'[j].rows \cup lost'[j]
                        /\ InTables(j)' \cap batch'[j].rows = {}
                        /\ InTables(j)' \cap lost'[j] = {}
                        /\ batch'[j].rows \cap lost'[j] = {}
      BY DEF RowsAccounted
    <2>1. /\ seen[j] = InTables(j) \cup batch[j].rows \cup lost[j]
          /\ InTables(j) \cap batch[j].rows = {}
          /\ InTables(j) \cap lost[j] = {}
          /\ batch[j].rows \cap lost[j] = {}
      BY DEF RowsAccounted
    <2>2. CASE j = k
      <3>1. /\ batch'[k].rows = {}
            /\ lost'[k] = lost[k] \cup (stmt.rows \ S)
            /\ seen'[k] = seen[k] \cup stmt.rows
            /\ InTables(k)' = InTables(k) \cup S
        BY <1>1, <1>2 DEF EmptyBatch, InsertTypeOK
      <3>2. stmt.rows \cap InTables(k) = {} /\ stmt.rows \cap lost[k] = {}
        BY <1>4, <2>1, <2>2
      <3> QED
        BY <2>1, <2>2, <3>1, <3>2
    <2>3. CASE j # k
      <3>1. /\ batch'[j] = batch[j]
            /\ lost'[j] = lost[j]
            /\ seen'[j] = seen[j]
            /\ InTables(j)' = InTables(j)
        BY <1>1, <1>2, <2>3 DEF InsertTypeOK
      <3> QED
        BY <2>1, <3>1
    <2> QED
      BY <2>2, <2>3
  <1>6. WaitingNew'
    <2> SUFFICES ASSUME NEW j \in Types, NEW r \in batch'[j].rows
                 PROVE  /\ r[1] = import
                        /\ \A q \in Rows : q[1] = import /\ table'[target][j][q] > 0
                                                 => q[2] < r[2]
      BY DEF WaitingNew
    <2>1. j # k /\ r \in batch[j].rows
      BY DEF EmptyBatch, InsertTypeOK
    <2>2. \A q \in Rows : table'[target][j][q] = table[target][j][q]
      BY <1>1, <2>1 DEF InsertTypeOK
    <2> QED
      BY <2>1, <2>2 DEF WaitingNew
  <1> QED
    BY <1>1, <1>3, <1>5, <1>6

\* A statement k that grows by a row keeps the invariant.
LEMMA GrowInv ==
    ASSUME InsertInv, NEW k \in Types, NEW len \in Lengths,
           stage = "reading", lines < MaxLines,
           ~Full(Appended(batch[k], Row, len)),
           batch' = [batch EXCEPT ![k] = Appended(batch[k], Row, len)],
           seen' = [seen EXCEPT ![k] = @ \cup {Row}],
           lines' = lines + 1,
           UNCHANGED <<table, lost, created, import, target, stage, stream, flush>>
    PROVE  InsertInv'
  <1> DEFINE stmt == Appended(batch[k], Row, len)
  <1> USE DEF InsertInv
  <1>1. Row \in Rows
    <2>1. import \in 1..MaxImports /\ lines + 1 \in 1..MaxLines
      BY StatSimInsertAssumption DEF BatchGone, InsertTypeOK
    <2> QED
      BY <2>1 DEF Row, Rows
  <1>2. /\ stmt.rows = batch[k].rows \cup {Row}
        /\ stmt.nI = batch[k].nI + 1
        /\ stmt.size = batch[k].size + len + IF batch[k].nI > 0 THEN 2 ELSE 0
    BY DEF Appended
  <1>3. stmt \in [rows : SUBSET Rows, nI : Nat, size : Nat]
    BY <1>1, StatSimInsertAssumption DEF Appended, InsertTypeOK
  <1>4. InsertTypeOK'
    BY <1>1, <1>3, StatSimInsertAssumption DEF InsertTypeOK
  <1>5. BatchOK'
    <2> SUFFICES ASSUME NEW j \in Types
                 PROVE  /\ batch'[j].nI = 0 => batch'[j] = EmptyBatch
                        /\ 3 * batch'[j].size <= 2 * Room
      BY DEF BatchOK
    <2>1. CASE j = k
      <3>1. batch'[j] = stmt
        BY <2>1 DEF InsertTypeOK
      <3>2. stmt.nI \in Nat /\ stmt.size \in Nat /\ batch[k].nI \in Nat /\ Room \in Nat
        BY <1>3, StatSimInsertAssumption DEF InsertTypeOK
      <3>3. 3 * stmt.size <= 2 * Room
        BY <3>2 DEF Full
      <3> QED
        BY <1>2, <3>1, <3>2, <3>3
    <2>2. CASE j # k
      BY <2>2 DEF BatchOK, InsertTypeOK
    <2> QED
      BY <2>1, <2>2
  <1>6. BatchGone'
    BY DEF BatchGone
  <1>7. SeenOld'
    BY SeenRow
  <1>8. \A j \in Types : Row \notin seen[j]
    BY RowUnseen
  <1>9. \A j \in Types : InTables(j)' = InTables(j)
    BY DEF InTables
  <1>10. RowsAccounted'
    <2> SUFFICES ASSUME NEW j \in Types
                 PROVE  /\ seen'[j] = InTables(j) \cup batch'[j].rows \cup lost[j]
                        /\ InTables(j) \cap batch'[j].rows = {}
                        /\ InTables(j) \cap lost[j] = {}
                        /\ batch'[j].rows \cap lost[j] = {}
      BY <1>9 DEF RowsAccounted
    <2>1. /\ seen[j] = InTables(j) \cup batch[j].rows \cup lost[j]
          /\ InTables(j) \cap batch[j].rows = {}
          /\ InTables(j) \cap lost[j] = {}
          /\ batch[j].rows \cap lost[j] = {}
      BY DEF RowsAccounted
    <2>2. CASE j = k
      <3>1. /\ batch'[j].rows = batch[j].rows \cup {Row}
            /\ seen'[j] = seen[j] \cup {Row}
        BY <1>2, <2>2 DEF InsertTypeOK
      <3> QED
        BY <1>8, <2>1, <3>1
    <2>3. CASE j # k
      <3>1. batch'[j] = batch[j] /\ seen'[j] = seen[j]
        BY <2>3 DEF InsertTypeOK
      <3> QED
        BY <2>1, <3>1
    <2> QED
      BY <2>2, <2>3
  <1>11. WaitingNew'
    <2> SUFFICES ASSUME NEW j \in Types, NEW r \in batch'[j].rows
                 PROVE  /\ r[1] = import
                        /\ \A q \in Rows : q[1] = import /\ table[target][j][q] > 0
                                                 => q[2] < r[2]
      BY DEF WaitingNew
    <2>1. CASE r \in batch[j].rows
      BY <2>1 DEF WaitingNew
    <2>2. CASE r \notin batch[j].rows
      <3>1. j = k /\ r = Row
        BY <1>2, <2>2 DEF InsertTypeOK
      <3>2. Row[1] = import /\ Row[2] = lines + 1
        BY DEF Row
      <3>3. ASSUME NEW q \in Rows, q[1] = import, table[target][j][q] > 0
            PROVE  q[2] < lines + 1
        <4>1. q \in InTables(j)
          BY <3>3 DEF InTables, InsertTypeOK
        <4>2. q \in seen[j]
          BY <4>1 DEF RowsAccounted
        <4>3. q[1] < import \/ q[2] <= lines
          BY <4>2 DEF SeenOld
        <4>4. q[2] \in Int /\ lines \in Int /\ import \in Int
          BY StatSimInsertAssumption DEF Rows, InsertTypeOK
        <4> QED
          BY <3>3, <4>3, <4>4
      <3> QED
        BY <3>1, <3>2, <3>3
    <2> QED
      BY <2>1, <2>2
  <1> QED
    BY <1>4, <1>5, <1>6, <1>7, <1>10, <1>11

LEMMA InitInv == InsertInit => InsertInv
  <1> SUFFICES ASSUME InsertInit
               PROVE  InsertInv
    OBVIOUS
  <1>1. 0 \in Types
    BY StatSimInsertAssumption DEF Types
  <1>2. EmptyBatch \in [rows : SUBSET Rows, nI : Nat, size : Nat]
    BY StatSimInsertAssumption DEF EmptyBatch
  <1>3. InsertTypeOK
    BY <1>1, <1>2, StatSimInsertAssumption DEF InsertInit, InsertTypeOK
  <1>4. \A k \in Types : batch[k] = EmptyBatch
    BY DEF InsertInit
  <1>5. BatchOK
    BY <1>4, ShortRows DEF BatchOK, EmptyBatch
  <1>6. BatchGone
    BY <1>4 DEF BatchGone, InsertInit
  <1>7. SeenOld /\ WaitingNew
    BY <1>4 DEF InsertInit, SeenOld, WaitingNew, EmptyBatch
  <1>8. ASSUME NEW k \in Types
        PROVE  InTables(k) = {} /\ batch[k].rows = {} /\ lost[k] = {} /\ seen[k] = {}
    BY <1>4 DEF InTables, InsertInit, EmptyBatch
  <1>9. RowsAccounted
    BY <1>8 DEF RowsAccounted
  <1> QED
    BY <1>3, <1>5, <1>6, <1>7, <1>9 DEF InsertInv

\* An import begins: the statements were empty, so nothing is dropped.
LEMMA InsertRecordsInv ==
    ASSUME InsertInv, NEW d \in Databases, InsertRecords(d)
    PROVE  InsertInv'
  <1> USE DEF InsertInv, InsertRecords
  <1>1. \A k \in Types : batch'[k] = EmptyBatch /\ batch'[k] = batch[k]
    BY DEF BatchGone
  <1>2. EmptyBatch \in [rows : SUBSET Rows, nI : Nat, size : Nat]
    BY StatSimInsertAssumption DEF EmptyBatch
  <1>3. import' \in 1..MaxImports /\ 0 \in Types
    BY StatSimInsertAssumption DEF InsertTypeOK, Types
  <1>4. InsertTypeOK'
    BY <1>2, <1>3, StatSimInsertAssumption DEF InsertTypeOK
  <1>5. BatchOK'
    BY <1>1, ShortRows DEF BatchOK, EmptyBatch
  <1>6. BatchGone'
    BY <1>3 DEF BatchGone
  <1>7. SeenOld'
    <2> SUFFICES ASSUME NEW k \in Types, NEW r \in seen[k]
                 PROVE  r[1] < import + 1
      BY DEF SeenOld
    <2>1. r[1] < import \/ r[1] = import
      BY DEF SeenOld
    <2>2. r \in Rows /\ import \in Int
      BY DEF InsertTypeOK
    <2>3. r[1] \in Int
      BY <2>2 DEF Rows
    <2> QED
      BY <2>1, <2>2, <2>3
  <1>8. WaitingNew'
    BY <1>1 DEF WaitingNew, EmptyBatch
  <1>9. \A k \in Types : InTables(k)' = InTables(k)
    BY DEF InTables
  <1>10. RowsAccounted'
    BY <1>1, <1>9 DEF RowsAccounted
  <1> QED
    BY <1>4, <1>5, <1>6, <1>7, <1>8, <1>10

LEMMA ReadRecordInv ==
    ASSUME InsertInv, NEW rt \in 0..NTypes, NEW len \in Lengths, ReadRecord(rt, len)
    PROVE  InsertInv'
  <1> DEFINE k == Index(rt)
  <1> DEFINE stmt == Appended(batch[k], Row, len)
  <1> USE DEF InsertInv
  <1>1. k \in Types
    BY StatSimInsertAssumption DEF Index, Types
  <1>2. /\ stage = "reading" /\ lines < MaxLines
        /\ lines' = lines + 1
        /\ seen' = [seen EXCEPT ![k] = @ \cup {Row}]
        /\ UNCHANGED <<created, import, target, stage, stream, flush>>
    BY DEF ReadRecord, Reading
  <1>3. CASE ~Full(stmt)
    <2>1. batch' = [batch EXCEPT ![k] = stmt] /\ UNCHANGED <<table, lost>>
      BY <1>3 DEF ReadRecord
    <2> QED
      BY <1>1, <1>2, <1>3, <2>1, GrowInv
  <1>4. CASE Full(stmt)
    <2>1. ExecuteSQL(k, stmt) /\ batch' = [batch EXCEPT ![k] = EmptyBatch]
      BY <1>4 DEF ReadRecord
    <2>2. stmt.rows = batch[k].rows \cup {Row}
      BY DEF Appended
    <2>3. Row \in Rows
      <3>1. import \in 1..MaxImports /\ lines + 1 \in 1..MaxLines
        BY <1>2, StatSimInsertAssumption DEF BatchGone, InsertTypeOK
      <3> QED
        BY <3>1 DEF Row, Rows
    <2>4. stmt.rows \in SUBSET Rows
      BY <1>1, <2>2, <2>3 DEF InsertTypeOK
    <2>5. seen[k] \cup {Row} = seen[k] \cup stmt.rows
      BY <1>1, <2>2 DEF RowsAccounted
    <2>6. seen' = [seen EXCEPT ![k] = @ \cup stmt.rows]
      BY <1>2, <2>5
    <2>7. /\ table' \in [Databases -> [Types -> [Rows -> Nat]]]
          /\ lost' \in [Types -> SUBSET Rows]
          /\ WaitingNew' /\ RowsAccounted'
      <3> HIDE DEF k, stmt
      <3> QED
        BY <1>1, <1>2, <2>1, <2>2, <2>4, <2>6, ExecuteInv
    <2>8. batch' \in [Types -> [rows : SUBSET Rows, nI : Nat, size : Nat]] /\ BatchOK'
      <3> HIDE DEF k
      <3> QED
        BY <1>1, <2>1, BegunAnew
    <2>9. seen' \in [Types -> SUBSET Rows]
      BY <1>2, <2>3 DEF InsertTypeOK
    <2>10. InsertTypeOK'
      BY <1>2, <2>7, <2>8, <2>9, StatSimInsertAssumption DEF InsertTypeOK
    <2>11. BatchGone'
      BY <1>2 DEF BatchGone
    <2>12. SeenOld'
      <3> HIDE DEF k
      <3> QED
        BY <1>1, <1>2, SeenRow
    <2> QED
      BY <2>7, <2>8, <2>10, <2>11, <2>12
  <1> QED
    BY <1>3, <1>4

LEMMA FlushInv ==
    ASSUME InsertInv, Flush
    PROVE  InsertInv'
  <1> USE DEF InsertInv
  <1>1. /\ stage = "flushing" /\ flush \in Types
        /\ batch' = [batch EXCEPT ![flush] = EmptyBatch]
        /\ UNCHANGED <<created, import, target, stream, seen>>
    BY DEF Flush, InsertTypeOK
  <1>2. batch' \in [Types -> [rows : SUBSET Rows, nI : Nat, size : Nat]] /\ BatchOK'
    BY <1>1, BegunAnew
  <1>3. /\ table' \in [Databases -> [Types -> [Rows -> Nat]]]
        /\ lost' \in [Types -> SUBSET Rows]
        /\ WaitingNew' /\ RowsAccounted'
    <2>1. CASE batch[flush].nI > 0
      <3> DEFINE stmt == batch[flush]
      <3>1. ExecuteSQL(flush, stmt)
        BY <2>1 DEF Flush
      <3>2. stmt.rows \in SUBSET Rows
        BY <1>1 DEF InsertTypeOK
      <3>3. seen[flush] = seen[flush] \cup stmt.rows
        BY <1>1 DEF RowsAccounted
      <3>4. seen' = [seen EXCEPT ![flush] = @ \cup stmt.rows]
        BY <1>1, <3>3 DEF InsertTypeOK
      <3>5. stage # "idle"
        BY <1>1
      <3> HIDE DEF stmt
      <3>6. batch[flush].rows \subseteq stmt.rows /\ stmt.rows \subseteq batch[flush].rows
        BY DEF stmt
      <3> QED
        BY <1>1, <3>1, <3>2, <3>4, <3>5, <3>6, ExecuteInv
    <2>2. CASE ~(batch[flush].nI > 0)
      <3>1. UNCHANGED <<table, lost>>
        BY <2>2 DEF Flush
      <3>2. batch[flush] = EmptyBatch
        <4>1. batch[flush].nI \in Nat
          BY <1>1 DEF InsertTypeOK
        <4> QED
          BY <1>1, <2>2, <4>1 DEF BatchOK
      <3>3. batch' = batch
        BY <1>1, <3>2 DEF InsertTypeOK
      <3>4. \A k \in Types : InTables(k)' = InTables(k)
        BY <3>1 DEF InTables
      <3>5. WaitingNew'
        BY <1>1, <3>1, <3>3 DEF WaitingNew
      <3>6. RowsAccounted'
        BY <1>1, <3>1, <3>3, <3>4 DEF RowsAccounted
      <3> QED
        BY <3>1, <3>5, <3>6 DEF InsertTypeOK
    <2> QED
      BY <2>1, <2>2
  <1>4. \A k \in Types : batch'[k] = IF k = flush THEN EmptyBatch ELSE batch[k]
    BY <1>1 DEF InsertTypeOK
  <1>5. CASE flush < NTypes - 1
    <2>1. flush' = flush + 1 /\ UNCHANGED <<stage, lines>>
      BY <1>5 DEF Flush
    <2>2. flush' \in Types
      BY <1>1, <1>5, <2>1, StatSimInsertAssumption DEF Types
    <2>3. InsertTypeOK'
      BY <1>1, <1>2, <1>3, <2>1, <2>2 DEF InsertTypeOK
    <2>4. BatchGone'
      <3>1. ASSUME NEW k \in Types, k < flush'
            PROVE  k < flush \/ k = flush
        BY <1>1, <2>1, <3>1, StatSimInsertAssumption DEF Types
      <3> QED
        BY <1>1, <1>4, <2>1, <3>1 DEF BatchGone
    <2>5. SeenOld'
      BY <1>1, <2>1 DEF SeenOld
    <2> QED
      BY <1>2, <1>3, <2>3, <2>4, <2>5
  <1>6. CASE ~(flush < NTypes - 1)
    <2>1. stage' = "idle" /\ lines' = 0 /\ flush' = 0
      BY <1>6 DEF Flush, Return
    <2>2. 0 \in Types /\ 0 \in 0..MaxLines
      BY StatSimInsertAssumption DEF Types
    <2>3. InsertTypeOK'
      BY <1>1, <1>2, <1>3, <2>1, <2>2 DEF InsertTypeOK
    <2>4. BatchGone'
      <3>1. ASSUME NEW k \in Types
            PROVE  k < flush \/ k = flush
        BY <1>1, <1>6, <3>1, StatSimInsertAssumption DEF Types
      <3>2. \A k \in Types : batch'[k] = EmptyBatch
        BY <1>1, <1>4, <3>1 DEF BatchGone
      <3> QED
        BY <2>1, <3>2 DEF BatchGone
    <2>5. SeenOld'
      BY <1>1, <2>1 DEF SeenOld
    <2> QED
      BY <1>2, <1>3, <2>3, <2>4, <2>5
  <1> QED
    BY <1>5, <1>6

LEMMA AbandonInv ==
    ASSUME InsertInv, Abandon
    PROVE  InsertInv'
  <1> USE DEF InsertInv, Abandon, Return
  <1>1. \A k \in Types : /\ batch'[k] = EmptyBatch
                         /\ lost'[k] = lost[k] \cup batch[k].rows
    OBVIOUS
  <1>2. EmptyBatch \in [rows : SUBSET Rows, nI : Nat, size : Nat]
    BY StatSimInsertAssumption DEF EmptyBatch
  <1>3. 0 \in Types /\ 0 \in 0..MaxLines
    BY StatSimInsertAssumption DEF Types
  <1>4. \A k \in Types : batch[k].rows \in SUBSET Rows
    BY DEF InsertTypeOK
  <1>5. InsertTypeOK'
    BY <1>2, <1>3, <1>4 DEF InsertTypeOK
  <1>6. BatchOK'
    BY <1>1, ShortRows DEF BatchOK, EmptyBatch
  <1>7. BatchGone'
    BY <1>1 DEF BatchGone
  <1>8. SeenOld'
    BY DEF SeenOld
  <1>9. WaitingNew'
    BY <1>1 DEF WaitingNew, EmptyBatch
  <1>10. ASSUME NEW k \in Types
         PROVE  InTables(k)' = InTables(k)
    BY DEF InTables
  <1>11. ASSUME NEW k \in Types
         PROVE  batch'[k].rows = {}
    BY <1>1 DEF EmptyBatch
  <1>12. RowsAccounted'
    BY <1>1, <1>10, <1>11 DEF RowsAccounted
  <1> QED
    BY <1>5, <1>6, <1>7, <1>8, <1>9, <1>12

LEMMA StepInv ==
    ASSUME InsertInv, [InsertNext]_insVars
    PROVE  InsertInv'
  <1> USE DEF InsertInv
  <1>1. ASSUME NEW d \in Databases, InsertRecords(d)
        PROVE  InsertInv'
    BY <1>1, InsertRecordsInv
  <1>2. CASE SkipLine
    <2>1. lines \in 0..MaxLines /\ lines < MaxLines /\ MaxLines \in Nat
      BY <1>2, StatSimInsertAssumption DEF SkipLine, Reading, InsertTypeOK
    <2>2. lines' \in 0..MaxLines /\ lines' = lines + 1
      BY <1>2, <2>1 DEF SkipLine
    <2>3. InsertTypeOK'
      BY <1>2, <2>2 DEF SkipLine, InsertTypeOK
    <2>4. BatchOK' /\ BatchGone' /\ WaitingNew'
      BY <1>2 DEF SkipLine, BatchOK, BatchGone, WaitingNew
    <2>5. RowsAccounted'
      BY <1>2 DEF SkipLine, RowsAccounted, InTables
    <2>6. SeenOld'
      <3> SUFFICES ASSUME NEW k \in Types, NEW r \in seen[k]
                   PROVE  r[1] < import \/ (r[1] = import /\ r[2] <= lines + 1)
        BY <1>2 DEF SkipLine, SeenOld
      <3>1. r[2] \in Int
        BY StatSimInsertAssumption DEF InsertTypeOK, Rows
      <3>2. r[1] < import \/ (r[1] = import /\ r[2] <= lines)
        BY <1>2 DEF SkipLine, Reading, SeenOld
      <3> QED
        BY <2>1, <3>1, <3>2
    <2> QED
      BY <2>3, <2>4, <2>5, <2>6
  <1>3. ASSUME NEW rt \in 0..NTypes, NEW len \in Lengths, ReadRecord(rt, len)
        PROVE  InsertInv'
    BY <1>3, ReadRecordInv
  <1>4. CASE EndOfFile
    <2>1. InsertTypeOK' /\ BatchOK' /\ WaitingNew'
      BY <1>4 DEF EndOfFile, InsertTypeOK, BatchOK, WaitingNew
    <2>2. RowsAccounted' /\ SeenOld'
      BY <1>4 DEF EndOfFile, RowsAccounted, InTables, SeenOld
    <2>3. flush = 0 /\ \A k \in Types : ~(k < 0)
      BY <1>4, StatSimInsertAssumption DEF EndOfFile, BatchGone, Types
    <2>4. BatchGone'
      BY <1>4, <2>3 DEF EndOfFile, BatchGone
    <2> QED
      BY <2>1, <2>2, <2>4
  <1>5. CASE Flush
    BY <1>5, FlushInv
  <1>6. CASE StreamFails
    <2>1. InsertTypeOK' /\ BatchOK' /\ BatchGone' /\ WaitingNew'
      BY <1>6 DEF StreamFails, InsertTypeOK, BatchOK, BatchGone, WaitingNew
    <2>2. RowsAccounted' /\ SeenOld'
      BY <1>6 DEF StreamFails, RowsAccounted, InTables, SeenOld
    <2> QED
      BY <2>1, <2>2
  <1>7. CASE Abandon
    BY <1>7, AbandonInv
  <1>8. CASE UNCHANGED insVars
    <2>1. InsertTypeOK' /\ BatchOK' /\ BatchGone' /\ WaitingNew'
      BY <1>8 DEF insVars, InsertTypeOK, BatchOK, BatchGone, WaitingNew
    <2>2. RowsAccounted' /\ SeenOld'
      BY <1>8 DEF insVars, RowsAccounted, InTables, SeenOld
    <2> QED
      BY <2>1, <2>2
  <1> QED
    BY <1>1, <1>2, <1>3, <1>4, <1>5, <1>6, <1>7, <1>8 DEF InsertNext, InsertStep

-----------------------------------------------------------------------------
(* InsertRecords on its own *)

LEMMA InsertInvariant == InsertSpec => []InsertInv
  <1>1. InsertInit => InsertInv
    BY InitInv
  <1>2. InsertInv /\ [InsertNext]_insVars => InsertInv'
    BY StepInv
  <1> QED
    BY <1>1, <1>2, PTL DEF InsertSpec

\* In every import, whatever the files, the lengths of the rows and the limits:
\* a record that was read is in its table, waits in its statement, or is known
\* to be in a statement that failed.
THEOREM Accounted == InsertSpec => []RowsAccounted
  <1>1. InsertInv => RowsAccounted
    BY DEF InsertInv
  <1> QED
    BY <1>1, InsertInvariant, PTL

\* No INSERT statement outgrows what the server takes, as long as a row is no
\* longer than a third of it.
THEOREM Fit == InsertSpec => []StatementsFit
  <1>1. InsertInv => StatementsFit
    <2> SUFFICES ASSUME InsertTypeOK, BatchOK, NEW k \in Types, NEW l \in Lengths
                 PROVE  Appended(batch[k], <<1, 1>>, l).size + 2 <= Room + 8
      BY DEF InsertInv, StatementsFit
    <2>1. 3 * batch[k].size <= 2 * Room /\ 3 * l <= Room + 12
      BY ShortRows DEF BatchOK
    <2>2. batch[k].size \in Nat /\ Room \in Nat /\ l \in Nat
      BY StatSimInsertAssumption DEF InsertTypeOK
    <2>3. Appended(batch[k], <<1, 1>>, l).size <= batch[k].size + l + 2
      <3>1. Appended(batch[k], <<1, 1>>, l).size
              = batch[k].size + l + IF batch[k].nI > 0 THEN 2 ELSE 0
        BY DEF Appended
      <3> QED
        BY <2>2, <3>1
    <2>4. Appended(batch[k], <<1, 1>>, l).size \in Int
      BY <2>2 DEF Appended
    <2> QED
      BY <2>1, <2>2, <2>3, <2>4
  <1> QED
    BY <1>1, InsertInvariant, PTL

\* What ExecuteSQL does is what RecordLoad lets arrive.
LEMMA ExecuteAdds ==
    ASSUME InsertInv, stage # "idle", NEW k \in Types, NEW stmt,
           stmt.rows \in SUBSET Rows,
           \A r \in stmt.rows : r \in batch[k].rows \/ r = Row,
           import' = import, target' = target,
           ExecuteSQL(k, stmt)
    PROVE  RL!LoadNext
  <1> USE DEF InsertInv
  <1>1. PICK S \in Inserted(stmt) :
           table' = [table EXCEPT ![target][k] =
                        [r \in Rows |-> @[r] + IF r \in S THEN 1 ELSE 0]]
    BY DEF ExecuteSQL
  <1>2. S \in SUBSET stmt.rows
    BY <1>1 DEF Inserted
  <1>3. RL!Rows = Rows
    BY DEF RL!Rows, Rows
  <1>4. ASSUME NEW r \in S
        PROVE  r[1] = import /\ RL!After(r, table[target][k])
    <2> SUFFICES /\ r[1] = import
                 /\ \A q \in Rows : q[1] = import /\ table[target][k][q] > 0
                                       => q[2] < r[2]
      BY <1>3 DEF RL!After
    <2>1. CASE r \in batch[k].rows
      BY <2>1 DEF WaitingNew
    <2>2. CASE r = Row
      <3>1. Row[1] = import /\ Row[2] = lines + 1
        BY DEF Row
      <3>2. ASSUME NEW q \in Rows, q[1] = import, table[target][k][q] > 0
            PROVE  q[2] < lines + 1
        <4>1. q \in InTables(k)
          BY <3>2 DEF InTables, InsertTypeOK
        <4>2. q \in seen[k]
          BY <4>1 DEF RowsAccounted
        <4>3. q[1] < import \/ q[2] <= lines
          BY <4>2 DEF SeenOld
        <4>4. q[2] \in Int /\ lines \in Int /\ import \in Int
          BY StatSimInsertAssumption DEF Rows, InsertTypeOK
        <4> QED
          BY <3>2, <4>3, <4>4
      <3> QED
        BY <2>2, <3>1, <3>2
    <2> QED
      BY <1>2, <2>1, <2>2
  <1>5. RL!Add(k, S)
    BY <1>1, <1>3, <1>4 DEF RL!Add
  <1>6. S \in SUBSET RL!Rows
    BY <1>2, <1>3
  <1> QED
    BY <1>5, <1>6 DEF RL!LoadNext

LEMMA StepLoads ==
    ASSUME InsertInv, [InsertNext]_insVars
    PROVE  [RL!LoadNext]_(RL!loadVars)
  <1> USE DEF InsertInv
  <1>1. ASSUME NEW d \in Databases, InsertRecords(d)
        PROVE  RL!LoadNext
    BY <1>1 DEF InsertRecords, RL!LoadNext, RL!Begin
  <1>2. CASE SkipLine \/ EndOfFile \/ StreamFails \/ Abandon \/ UNCHANGED insVars
    BY <1>2 DEF SkipLine, EndOfFile, StreamFails, Abandon, insVars, RL!loadVars
  <1>3. ASSUME NEW rt \in 0..NTypes, NEW len \in Lengths, ReadRecord(rt, len)
        PROVE  [RL!LoadNext]_(RL!loadVars)
    <2> DEFINE k == Index(rt)
    <2> DEFINE stmt == Appended(batch[k], Row, len)
    <2>1. k \in Types
      BY StatSimInsertAssumption DEF Index, Types
    <2>2. stmt.rows = batch[k].rows \cup {Row}
      BY DEF Appended
    <2>3. /\ stage = "reading" /\ lines < MaxLines
          /\ import' = import /\ target' = target
      BY <1>3 DEF ReadRecord, Reading
    <2>4. Row \in Rows
      <3>1. import \in 1..MaxImports /\ lines + 1 \in 1..MaxLines
        BY <2>3, StatSimInsertAssumption DEF BatchGone, InsertTypeOK
      <3> QED
        BY <3>1 DEF Row, Rows
    <2>5. stmt.rows \in SUBSET Rows
      BY <2>1, <2>2, <2>4 DEF InsertTypeOK
    <2>6. CASE Full(stmt)
      <3>1. ExecuteSQL(k, stmt)
        BY <1>3, <2>6 DEF ReadRecord
      <3> HIDE DEF k, stmt
      <3> QED
        BY <2>1, <2>2, <2>3, <2>5, <3>1, ExecuteAdds
    <2>7. CASE ~Full(stmt)
      BY <1>3, <2>7 DEF ReadRecord, RL!loadVars
    <2> QED
      BY <2>6, <2>7
  <1>4. ASSUME Flush
        PROVE  [RL!LoadNext]_(RL!loadVars)
    <2>1. /\ stage = "flushing" /\ flush \in Types
          /\ import' = import /\ target' = target
      BY <1>4 DEF Flush, InsertTypeOK
    <2>2. CASE batch[flush].nI > 0
      <3> DEFINE stmt == batch[flush]
      <3>1. ExecuteSQL(flush, stmt)
        BY <1>4, <2>2 DEF Flush
      <3>2. stmt.rows \in SUBSET Rows
        BY <2>1 DEF InsertTypeOK
      <3>3. stmt.rows = batch[flush].rows
        OBVIOUS
      <3> HIDE DEF stmt
      <3> QED
        BY <2>1, <3>1, <3>2, <3>3, ExecuteAdds
    <2>3. CASE ~(batch[flush].nI > 0)
      BY <1>4, <2>1, <2>3 DEF Flush, RL!loadVars
    <2> QED
      BY <2>2, <2>3
  <1> QED
    BY <1>1, <1>2, <1>3, <1>4 DEF InsertNext, InsertStep

\* The import is one RecordLoad allows: into one database, each row at most
\* once and in the order of the file.
THEOREM Loads == InsertSpec => ImplementsRecordLoad
  <1>1. InsertInit => RL!LoadInit
    BY DEF InsertInit, RL!LoadInit, RL!Rows, Rows
  <1>2. InsertInv /\ [InsertNext]_insVars => [RL!LoadNext]_(RL!loadVars)
    BY StepLoads
  <1> QED
    BY <1>1, <1>2, InsertInvariant, PTL DEF InsertSpec, ImplementsRecordLoad, RL!LoadSpec

-----------------------------------------------------------------------------
(* The import in the program *)


\* Where imports go: the files of an automatic import name batches, and
\* pGlobalConn is always on one of the databases.
Directed ==
    /\ conn \in Databases
    /\ files \in {<<>>} \cup FileLists
    /\ i \in Nat \ {0}

LEMMA FileListsSeq ==
    ASSUME NEW list \in {<<>>} \cup FileLists
    PROVE  list \in Seq(BatchDBs)
  <1>1. CASE list = <<>>
    BY <1>1
  <1>2. CASE list \in FileLists
    <2>1. PICK l \in 1..MaxFiles : list \in [1..l -> BatchDBs]
      BY <1>2, Zenon DEF FileLists
    <2>2. l \in Nat
      BY StatSimImportAssumption
    <2> QED
      BY <2>1, <2>2
  <1> QED
    BY <1>1, <1>2

LEMMA DirectedInv == Spec => []Directed
  <1>1. Init => Directed
    BY StatSimImportAssumption DEF Init, Directed
  <1>2. Directed /\ [Next]_vars => Directed'
    <2> SUFFICES ASSUME Directed, [Next]_vars
                 PROVE  Directed'
      OBVIOUS
    <2> USE StatSimImportAssumption DEF Directed, BatchDBs
    <2>1. CASE Login \/ EndProgram
      BY <2>1 DEF Login, EndProgram, ListDone
    <2>2. ASSUME NEW list \in FileLists, StartAuto(list) \/ StartBulk(list)
          PROVE  Directed'
      <3>1. files' = list /\ i' = 1 /\ conn' = conn
        BY <2>2 DEF StartAuto, StartBulk
      <3> QED
        BY <3>1
    <2>3. CASE AutoMissing \/ AutoAnswer \/ BulkMissing \/ BulkFound
      <3>1. CASE AutoMissing \/ BulkFound
        BY <3>1 DEF AutoMissing, BulkFound
      <3>2. CASE AutoAnswer
        BY <3>2 DEF AutoAnswer, ListDone
      <3>3. CASE BulkMissing
        BY <3>3 DEF BulkMissing
      <3> QED
        BY <2>3, <3>1, <3>2, <3>3
    <2>4. CASE AutoFound
      <3>1. i \in 1..Len(files) /\ files \in Seq(BatchDBs)
        <4>1. Len(files) \in Nat /\ files \in Seq(BatchDBs)
          BY FileListsSeq
        <4> QED
          BY <2>4, <4>1 DEF AutoFound
      <3>2. files[i] \in Databases
        BY <3>1
      <3> QED
        BY <2>4, <3>2 DEF AutoFound
    <2>5. CASE Insert \/ FileFails \/ ImportData \/ LastFile
      BY <2>5 DEF Insert, FileFails, ImportData, LastFile, ListDone
    <2>6. CASE ConUpElt \/ BasicBatch \/ BasicDirect \/ BasicDone \/ Select
      BY <2>6 DEF ConUpElt, BasicBatch, BasicDirect, BasicDone, Select, Redirect
    <2>7. CASE LevelBatch \/ LevelDirect \/ NextLevel \/ Completed \/ CompletedOK
      BY <2>7 DEF LevelBatch, LevelDirect, NextLevel, Completed, CompletedOK, Redirect
    <2>8. CASE UNCHANGED vars
      BY <2>8 DEF vars
    <2> QED
      BY <2>1, <2>2, <2>3, <2>4, <2>5, <2>6, <2>7, <2>8 DEF Next
  <1> QED
    BY <1>1, <1>2, PTL DEF Spec

\* Whatever the user does, and wherever the program ends, what it does with the
\* rows is what InsertRecords does on its own.
THEOREM ImportRefinesInsert == Spec => InsertSpec
  <1>1. Init => InsertInit
    BY DEF Init
  <1>2. Directed /\ [Next]_vars => [InsertNext]_insVars
    <2> SUFFICES ASSUME Directed, [Next]_vars
                 PROVE  [InsertNext]_insVars
      OBVIOUS
    <2>1. CASE EndProgram
      BY <2>1 DEF EndProgram, InsertNext
    <2>2. CASE AutoFound
      <3>1. i \in 1..Len(files) /\ files \in Seq(BatchDBs)
        <4>1. Len(files) \in Nat /\ files \in Seq(BatchDBs)
          BY FileListsSeq DEF Directed
        <4> QED
          BY <2>2, <4>1 DEF AutoFound, Directed
      <3>2. files[i] \in Databases /\ conn \in Databases
        BY <3>1 DEF BatchDBs, Directed
      <3>3. \E d \in Databases : InsertRecords(d)
        BY <2>2, <3>2 DEF AutoFound
      <3> QED
        BY <3>3 DEF InsertNext
    <2>3. CASE BulkFound
      BY <2>3 DEF BulkFound, Directed, InsertNext
    <2>4. CASE Insert
      BY <2>4 DEF Insert, InsertNext
    <2>5. CASE FileFails
      BY <2>5 DEF FileFails, InsertNext
    <2>6. CASE Login \/ AutoMissing \/ AutoAnswer \/ BulkMissing \/ ImportData \/ LastFile
      BY <2>6 DEF Login, AutoMissing, AutoAnswer, BulkMissing, ImportData, LastFile
    <2>7. ASSUME NEW list \in FileLists, StartAuto(list) \/ StartBulk(list)
          PROVE  UNCHANGED insVars
      BY <2>7 DEF StartAuto, StartBulk
    <2>8. CASE ConUpElt \/ BasicBatch \/ BasicDirect \/ BasicDone \/ Select
      BY <2>8 DEF ConUpElt, BasicBatch, BasicDirect, BasicDone, Select
    <2>9. CASE LevelBatch \/ LevelDirect \/ NextLevel \/ Completed \/ CompletedOK
      BY <2>9 DEF LevelBatch, LevelDirect, NextLevel, Completed, CompletedOK
    <2>10. CASE UNCHANGED vars
      BY <2>10 DEF vars
    <2> QED
      BY <2>1, <2>2, <2>3, <2>4, <2>5, <2>6, <2>7, <2>8, <2>9, <2>10 DEF Next
  <1> QED
    BY <1>1, <1>2, DirectedInv, PTL DEF Spec, InsertSpec

\* So no record is lost but with a statement that fails or a program that ends,
\* and every statement fits, in the composed program.
THEOREM ImportAccounted == Spec => [](RowsAccounted /\ StatementsFit)
  BY ImportRefinesInsert, Accounted, Fit, PTL

\* Where pGlobalConn is while the program is in one of its loops.
Homeward ==
    /\ screen \in {"login", "main", "files", "missing", "process", "completed"}
          => conn = Global \/ left
    /\ screen = "importing" /\ kind # "auto" => conn = Global \/ left
    /\ screen = "basic" /\ direct => conn = Global \/ left
    /\ screen \in {"select", "levels"} /\ direct => conn = Global

\* The connection is back on the global database whenever the user may choose
\* the next command, but after a processing that was left before its end.
THEOREM BackOnGlobal == Spec => []GlobalUnlessLeft
  <1>1. Init => Homeward
    BY DEF Init, Homeward
  <1>2. Homeward /\ [Next]_vars => Homeward'
    <2> SUFFICES ASSUME Homeward, [Next]_vars
                 PROVE  Homeward'
      OBVIOUS
    <2> USE DEF Homeward
    <2>1. CASE Login \/ EndProgram
      BY <2>1 DEF Login, EndProgram, ListDone
    <2>2. ASSUME NEW list \in FileLists, StartAuto(list) \/ StartBulk(list)
          PROVE  Homeward'
      BY <2>2 DEF StartAuto, StartBulk, process
    <2>3. CASE AutoMissing
      BY <2>3 DEF AutoMissing, process
    <2>4. CASE AutoAnswer
      BY <2>4 DEF AutoAnswer, process
    <2>5. CASE AutoFound
      BY <2>5 DEF AutoFound, process
    <2>6. CASE BulkMissing \/ BulkFound
      BY <2>6 DEF BulkMissing, BulkFound, process
    <2>7. CASE Insert \/ FileFails
      BY <2>7 DEF Insert, FileFails, process
    <2>8. CASE ImportData \/ LastFile
      BY <2>8 DEF ImportData, LastFile, ListDone
    <2>9. CASE ConUpElt
      BY <2>9 DEF ConUpElt
    <2>10. CASE BasicBatch
      BY <2>10 DEF BasicBatch, ProcessDone, Redirect
    <2>11. CASE BasicDirect
      BY <2>11 DEF BasicDirect, ProcessDone, Redirect
    <2>12. CASE BasicDone
      BY <2>12 DEF BasicDone
    <2>13. CASE Select
      BY <2>13 DEF Select, ProcessDone, process
    <2>14. CASE LevelBatch
      BY <2>14 DEF LevelBatch, Redirect
    <2>15. CASE LevelDirect
      BY <2>15 DEF LevelDirect, Redirect
    <2>16. CASE NextLevel
      BY <2>16 DEF NextLevel
    <2>17. CASE Completed
      BY <2>17 DEF Completed, Redirect
    <2>18. CASE CompletedOK
      BY <2>18 DEF CompletedOK, ProcessDone
    <2>19. CASE UNCHANGED vars
      BY <2>19 DEF vars, process
    <2> QED
      BY <2>1, <2>2, <2>3, <2>4, <2>5, <2>6, <2>7, <2>8, <2>9, <2>10, <2>11,
         <2>12, <2>13, <2>14, <2>15, <2>16, <2>17, <2>18, <2>19 DEF Next
  <1>3. Homeward => GlobalUnlessLeft
    BY DEF Homeward, GlobalUnlessLeft
  <1> QED
    BY <1>1, <1>2, <1>3, PTL DEF Spec

-----------------------------------------------------------------------------
(* The lists of batches *)

LEMMA Bounds ==
    /\ MaxFiles \in Nat /\ MaxBatches \in Nat /\ 1 \in 0..MaxBatches
    /\ NoDB \notin BatchDBs /\ BatchDBs \subseteq Databases /\ Global \in Databases
  BY StatSimImportAssumption DEF BatchDBs

\* A list that is begun anew has the entries it had, and no others but FALSE
\* and NULL.
Begun(r, s, l, default, T) ==
    /\ r \in Seq(T) /\ Len(r) = l
    /\ \A j \in 1..l : r[j] = IF j \in DOMAIN s THEN s[j] ELSE default

LEMMA ResizedIs ==
    ASSUME NEW T, NEW s \in Seq(T), NEW l \in Nat, NEW default \in T,
           NEW u, u = Resized(s, l, default)
    PROVE  Begun(u, s, l, default, T)
  <1>1. PICK m \in Nat : m = Len(s) /\ DOMAIN s = 1..m /\ \A j \in 1..m : s[j] \in T
    BY LenProperties
  <1>2. \A j \in 1..l : j <= Len(s) <=> j \in DOMAIN s
    <2>1. \A j \in 1..l : j <= m <=> j \in 1..m
      OBVIOUS
    <2> QED
      BY <1>1, <2>1
  <1> DEFINE r == [j \in 1..l |-> IF j \in DOMAIN s THEN s[j] ELSE default]
  <1>3. u = r
    BY <1>2 DEF Resized
  <1>4. r \in [1..l -> T]
    BY <1>1
  <1>5. \A j \in 1..l : r[j] = IF j \in DOMAIN s THEN s[j] ELSE default
    OBVIOUS
  <1> HIDE DEF r
  <1>6. r \in Seq(T) /\ Len(r) = l
    BY <1>4
  <1> QED
    BY <1>3, <1>5, <1>6 DEF Begun

\* An entry of a list is changed.
LEMMA SetIs ==
    ASSUME NEW T, NEW s \in Seq(T), NEW e \in T, NEW k \in DOMAIN s
    PROVE  /\ [s EXCEPT ![k] = e] \in Seq(T)
           /\ Len([s EXCEPT ![k] = e]) = Len(s)
           /\ DOMAIN [s EXCEPT ![k] = e] = DOMAIN s
           /\ \A j \in DOMAIN s : [s EXCEPT ![k] = e][j] = IF j = k THEN e ELSE s[j]
  <1>1. DOMAIN s = 1..Len(s)
    BY LenProperties
  <1>2. k \in 1..Len(s)
    BY <1>1
  <1> QED
    BY <1>2, ExceptSeq

\* What TypeOK says beyond InsertTypeOK
LoopTypes ==
    /\ screen \in {"login", "main", "files", "missing", "importing", "process",
                   "basic", "select", "levels", "completed"}
    /\ direct \in BOOLEAN /\ kind \in {"auto", "bulk"}
    /\ files \in {<<>>} \cup FileLists /\ i \in 1..(MaxFiles + 1)
    /\ n \in 0..MaxBatches
    /\ exist \in Seq(BOOLEAN) /\ dbs \in Seq(BatchDBs \cup {NoDB})
    /\ conn \in Databases
    /\ b \in 0..MaxBatches
    /\ redo \in BOOLEAN /\ left \in BOOLEAN
    /\ stale \subseteq Databases /\ partly \subseteq Databases

\* The loop over the files stays in its list, and so in the arrays it sized.
ListBounds ==
    /\ screen \in {"missing", "importing"} => i <= Len(files)
    /\ screen \in {"files", "missing", "importing"} /\ kind = "auto"
          => Len(exist) = Len(files)

LoopInv == LoopTypes /\ ListBounds /\ ExistingBatchHasDB

LEMMA FileListLen ==
    ASSUME NEW list \in {<<>>} \cup FileLists
    PROVE  \E l \in 0..MaxFiles :
              /\ l = Len(list) /\ DOMAIN list = 1..l
              /\ list \in FileLists => l > 0
              /\ \A k \in 1..l : list[k] \in BatchDBs
  <1>1. CASE list = <<>> /\ list \notin FileLists
    <2>1. Len(list) = 0 /\ DOMAIN list = 1..0
      BY <1>1
    <2>2. 0 \in 0..MaxFiles
      BY Bounds
    <2> QED
      BY <1>1, <2>1, <2>2
  <1>2. CASE list \in FileLists
    <2>1. PICK l \in 1..MaxFiles : list \in [1..l -> BatchDBs]
      BY <1>2, Zenon DEF FileLists
    <2>2. l \in Nat /\ l > 0 /\ l \in 0..MaxFiles
      BY Bounds
    <2>3. Len(list) = l
      BY <2>1, <2>2
    <2> QED
      BY <2>1, <2>2, <2>3
  <1> QED
    BY <1>1, <1>2

\* Where the counters of the loops go
LEMMA Counters ==
    ASSUME LoopTypes
    PROVE  /\ 1 \in 1..MaxFiles + 1 /\ 0 \in 0..MaxBatches
           /\ i <= Len(files) => i + 1 \in 1..MaxFiles + 1
           /\ i <= Len(files) => i \in DOMAIN files /\ files[i] \in BatchDBs
           /\ b < n => b + 1 \in 0..MaxBatches
           /\ i <= Len(files) /\ Len(exist) = Len(files) => i \in DOMAIN exist
           /\ Len(exist) = Len(dbs) => DOMAIN exist = DOMAIN dbs
  <1>1. PICK l \in 0..MaxFiles : /\ l = Len(files) /\ DOMAIN files = 1..l
                                /\ \A k \in 1..l : files[k] \in BatchDBs
    BY FileListLen DEF LoopTypes
  <1>2. MaxFiles \in Nat /\ MaxBatches \in Nat
    BY Bounds
  <1>3. i \in 1..MaxFiles + 1 /\ n \in 0..MaxBatches /\ b \in 0..MaxBatches
    BY DEF LoopTypes
  <1>4. i <= l => i + 1 \in 1..MaxFiles + 1 /\ i \in 1..l
    BY <1>2, <1>3
  <1>5. b < n => b + 1 \in 0..MaxBatches
    BY <1>2, <1>3
  <1>6. 1 \in 1..MaxFiles + 1 /\ 0 \in 0..MaxBatches
    BY <1>2
  <1>7. DOMAIN exist = 1..Len(exist) /\ DOMAIN dbs = 1..Len(dbs)
    BY LenProperties DEF LoopTypes
  <1>8. Len(exist) = l => 1..Len(exist) = 1..l
    OBVIOUS
  <1> QED
    BY <1>1, <1>4, <1>5, <1>6, <1>7, <1>8

LEMMA LoopInit == Init => LoopInv
  <1> SUFFICES ASSUME Init
               PROVE  LoopInv
    OBVIOUS
  <1>1. 1 \in 1..MaxFiles + 1 /\ 0 \in 0..MaxBatches /\ Global \in Databases
    BY Bounds
  <1>2. exist \in Seq(BOOLEAN) /\ dbs \in Seq(BatchDBs \cup {NoDB})
        /\ Len(exist) = Len(dbs) /\ DOMAIN exist = {}
    BY EmptySeq DEF Init
  <1> QED
    BY <1>1, <1>2 DEF Init, LoopInv, LoopTypes, ListBounds, ExistingBatchHasDB

\* SetBatch, when the program is at a file of the list
LEMMA SetBatchIs ==
    ASSUME LoopInv, screen = "files", kind = "auto", i <= Len(files),
           NEW e \in BOOLEAN, NEW d \in Databases \cup {NoDB},
           ~direct => d \in BatchDBs \cup {NoDB} /\ (e => d # NoDB),
           SetBatch(e, d)
    PROVE  /\ n' = n
           /\ exist' \in Seq(BOOLEAN) /\ dbs' \in Seq(BatchDBs \cup {NoDB})
           /\ Len(exist') = Len(exist)
           /\ ExistingBatchHasDB'
           /\ direct => exist' = exist /\ dbs' = dbs
           /\ ~direct => /\ i \in DOMAIN exist
                         /\ DOMAIN exist' = DOMAIN exist
                         /\ exist'[i] = e /\ dbs'[i] = d
                         /\ \A j \in DOMAIN exist : j # i =>
                               exist'[j] = exist[j] /\ dbs'[j] = dbs[j]
  <1>1. /\ exist \in Seq(BOOLEAN) /\ dbs \in Seq(BatchDBs \cup {NoDB})
        /\ Len(exist) = Len(dbs) /\ Len(exist) = Len(files)
        /\ \A j \in DOMAIN exist : exist[j] => dbs[j] # NoDB
    BY DEF LoopInv, LoopTypes, ListBounds, ExistingBatchHasDB
  <1>2. CASE direct
    BY <1>1, <1>2 DEF SetBatch, batches, ExistingBatchHasDB
  <1>3. CASE ~direct
    <2>1. i \in DOMAIN exist /\ DOMAIN exist = DOMAIN dbs
      BY <1>1, Counters DEF LoopInv
    <2>2. exist' = [exist EXCEPT ![i] = e] /\ dbs' = [dbs EXCEPT ![i] = d] /\ n' = n
      BY <1>3 DEF SetBatch
    <2>3. /\ exist' \in Seq(BOOLEAN) /\ Len(exist') = Len(exist)
          /\ DOMAIN exist' = DOMAIN exist
          /\ \A j \in DOMAIN exist : exist'[j] = IF j = i THEN e ELSE exist[j]
      BY <1>1, <2>1, <2>2, SetIs
    <2>4. d \in BatchDBs \cup {NoDB}
      BY <1>3
    <2>5. /\ dbs' \in Seq(BatchDBs \cup {NoDB}) /\ Len(dbs') = Len(dbs)
          /\ \A j \in DOMAIN dbs : dbs'[j] = IF j = i THEN d ELSE dbs[j]
      <3> DEFINE T == BatchDBs \cup {NoDB}
      <3>1. dbs \in Seq(T) /\ d \in T /\ i \in DOMAIN dbs
        BY <1>1, <2>1, <2>4
      <3> HIDE DEF T
      <3>2. /\ [dbs EXCEPT ![i] = d] \in Seq(T) /\ Len([dbs EXCEPT ![i] = d]) = Len(dbs)
            /\ \A j \in DOMAIN dbs : [dbs EXCEPT ![i] = d][j] = IF j = i THEN d ELSE dbs[j]
        BY <3>1, SetIs
      <3> QED
        BY <2>2, <3>2 DEF T
    <2>6. Len(exist') = Len(dbs')
      BY <1>1, <2>3, <2>5
    <2>7. \A j \in DOMAIN exist' : exist'[j] => dbs'[j] # NoDB
      BY <1>1, <1>3, <2>1, <2>3, <2>5
    <2>8. ExistingBatchHasDB'
      BY <2>6, <2>7 DEF ExistingBatchHasDB
    <2> QED
      BY <1>3, <2>1, <2>2, <2>3, <2>5, <2>8
  <1> QED
    BY <1>2, <1>3

\* The list of batches is sized for the files of an import.
LEMMA StartAutoIs ==
    ASSUME LoopInv, NEW list \in FileLists, StartAuto(list)
    PROVE  /\ n' \in 0..MaxBatches
           /\ exist' \in Seq(BOOLEAN) /\ dbs' \in Seq(BatchDBs \cup {NoDB})
           /\ Len(exist') = Len(list) /\ Len(dbs') = Len(list)
           /\ ExistingBatchHasDB'
  <1>1. PICK l \in Nat : l = Len(list) /\ l > 0
    <2>1. PICK l \in 0..MaxFiles : l = Len(list) /\ l > 0
      BY FileListLen
    <2>2. l \in Nat
      BY Bounds
    <2> QED
      BY <2>1, <2>2
  <1>2. /\ exist \in Seq(BOOLEAN) /\ dbs \in Seq(BatchDBs \cup {NoDB})
        /\ Len(exist) = Len(dbs)
        /\ \A j \in DOMAIN exist : exist[j] => dbs[j] # NoDB
        /\ DOMAIN exist = DOMAIN dbs
    BY Counters DEF LoopInv, LoopTypes, ExistingBatchHasDB
  <1>3. exist' = Resized(exist, l, FALSE) /\ dbs' = Resized(dbs, l, NoDB)
    BY <1>1 DEF StartAuto
  <1>4. /\ exist' \in Seq(BOOLEAN) /\ Len(exist') = l
        /\ \A j \in 1..l : exist'[j] = IF j \in DOMAIN exist THEN exist[j] ELSE FALSE
    <2> DEFINE T == BOOLEAN
               F == FALSE
               r == Resized(exist, l, F)
    <2>1. F \in T /\ exist \in Seq(T)
      BY <1>2
    <2> HIDE DEF T, F
    <2>2. Begun(r, exist, l, F, T)
      BY <2>1, ResizedIs
    <2> QED
      BY <1>3, <2>2 DEF T, F, Begun
  <1>5. /\ dbs' \in Seq(BatchDBs \cup {NoDB}) /\ Len(dbs') = l
        /\ \A j \in 1..l : dbs'[j] = IF j \in DOMAIN dbs THEN dbs[j] ELSE NoDB
    <2> DEFINE T == BatchDBs \cup {NoDB}
               r == Resized(dbs, l, NoDB)
    <2>1. NoDB \in T /\ dbs \in Seq(T)
      BY <1>2
    <2> HIDE DEF T
    <2>2. Begun(r, dbs, l, NoDB, T)
      BY <2>1, ResizedIs
    <2> QED
      BY <1>3, <2>2 DEF T, Begun
  <1>6. DOMAIN exist' = 1..l
    BY <1>4, LenProperties
  <1>7. ExistingBatchHasDB'
    <2>1. \A j \in 1..l : exist'[j] => dbs'[j] # NoDB
      BY <1>2, <1>4, <1>5
    <2>2. Len(exist') = Len(dbs')
      BY <1>4, <1>5
    <2> QED
      BY <1>6, <2>1, <2>2 DEF ExistingBatchHasDB
  <1>8. n' \in 0..MaxBatches
    <2>1. n + l <= MaxBatches /\ n \in 0..MaxBatches /\ MaxBatches \in Nat
      BY <1>1, Bounds DEF StartAuto, LoopInv, LoopTypes
    <2>2. n' = n \/ n' = n + l
      BY <1>1 DEF StartAuto
    <2>3. n + l \in 0..MaxBatches
      BY <2>1
    <2> QED
      BY <2>1, <2>2, <2>3
  <1> QED
    BY <1>1, <1>4, <1>5, <1>7, <1>8

\* The steps that leave the list of files and the batches as they are
LEMMA LoopSame ==
    ASSUME LoopInv, UNCHANGED <<batches, direct>>, conn' \in Databases,
           b' \in 0..MaxBatches, redo' \in BOOLEAN, left' \in BOOLEAN,
           stale' \subseteq Databases, partly' \subseteq Databases,
           \/ UNCHANGED <<screen, kind, files, i>>
           \/ /\ UNCHANGED <<kind, files, i>>
              /\ screen' \in {"main", "process", "basic", "select", "levels", "completed"}
           \/ /\ ListDone
              /\ screen' \in {"main", "process"}
    PROVE  LoopInv'
  <1>1. 1 \in 1..MaxFiles + 1
    BY Counters DEF LoopInv
  <1>2. UNCHANGED <<n, exist, dbs>>
    BY DEF batches
  <1>3. ExistingBatchHasDB'
    BY <1>2 DEF LoopInv, ExistingBatchHasDB
  <1>4. LoopTypes'
    BY <1>1, <1>2 DEF LoopInv, LoopTypes, ListDone
  <1>5. ListBounds'
    BY <1>2 DEF LoopInv, ListBounds
  <1> QED
    BY <1>3, <1>4, <1>5 DEF LoopInv

LEMMA LoginLoop ==
    ASSUME LoopInv, Login
    PROVE  LoopInv' /\ n' = Len(exist')
  <1>1. /\ dbs' = <<>> \/ dbs' \in [1..1 -> BatchDBs]
        /\ exist' = [j \in DOMAIN dbs' |-> TRUE]
        /\ n' = Len(dbs') /\ conn' = Global /\ screen' = "main" /\ direct' \in BOOLEAN
        /\ UNCHANGED <<kind, files, i, b, redo, left, stale, partly>>
    BY DEF Login, process, counts
  <1>2. CASE dbs' = <<>>
    <2>1. DOMAIN dbs' = {} /\ Len(dbs') = 0 /\ dbs' \in Seq(BatchDBs \cup {NoDB})
      BY <1>2, EmptySeq
    <2>2. exist' = <<>>
      BY <1>1, <2>1
    <2>3. exist' \in Seq(BOOLEAN) /\ Len(exist') = 0 /\ DOMAIN exist' = {}
      BY <2>2, EmptySeq
    <2>4. n' \in 0..MaxBatches /\ n' = Len(exist')
      BY <1>1, <2>1, <2>3, Counters DEF LoopInv
    <2>5. LoopTypes'
      BY <1>1, <2>1, <2>3, <2>4, Bounds DEF LoopInv, LoopTypes
    <2> QED
      BY <1>1, <2>1, <2>3, <2>4, <2>5 DEF LoopInv, ListBounds, ExistingBatchHasDB
  <1>3. CASE dbs' \in [1..1 -> BatchDBs]
    <2>1. DOMAIN dbs' = 1..1 /\ Len(dbs') = 1 /\ dbs' \in Seq(BatchDBs \cup {NoDB})
          /\ \A j \in 1..1 : dbs'[j] \in BatchDBs
      <3> DEFINE m == 1
                 T == BatchDBs \cup {NoDB}
      <3>1. m \in Nat /\ dbs' \in [1..m -> BatchDBs]
        BY <1>3
      <3>2. dbs' \in [1..m -> T] /\ DOMAIN dbs' = 1..m /\ \A j \in 1..m : dbs'[j] \in BatchDBs
        BY <3>1
      <3> HIDE DEF m, T
      <3>3. dbs' \in Seq(T) /\ Len(dbs') = m
        BY <3>1, <3>2
      <3> QED
        BY <3>2, <3>3 DEF m, T
    <2>2. exist' \in [1..1 -> BOOLEAN]
      BY <1>1, <2>1
    <2>3. exist' \in Seq(BOOLEAN) /\ Len(exist') = 1 /\ DOMAIN exist' = 1..1
      BY <2>2
    <2>4. n' \in 0..MaxBatches /\ n' = Len(exist')
      BY <1>1, <2>1, <2>3, Bounds
    <2>5. LoopTypes'
      BY <1>1, <2>1, <2>3, <2>4, Bounds DEF LoopInv, LoopTypes
    <2>6. ExistingBatchHasDB'
      BY <2>1, <2>3, Bounds DEF ExistingBatchHasDB
    <2> QED
      BY <1>1, <2>4, <2>5, <2>6 DEF LoopInv, ListBounds
  <1> QED
    BY <1>1, <1>2, <1>3

\* A file that is found, or missing, in an automatic import
LEMMA FileLoop ==
    ASSUME LoopInv, AutoMissing \/ AutoFound
    PROVE  LoopInv'
  <1>1. screen = "files" /\ kind = "auto" /\ i <= Len(files) /\ UNCHANGED <<direct, kind, files, i>>
        /\ screen' \in {"missing", "importing"} /\ UNCHANGED <<b, redo, left>>
    BY DEF AutoMissing, AutoFound, process
  <1>2. files[i] \in BatchDBs /\ files[i] \in Databases /\ files[i] # NoDB /\ conn \in Databases
    BY <1>1, Counters, Bounds DEF LoopInv, LoopTypes
  <1>3. \E e \in BOOLEAN, d \in Databases \cup {NoDB} :
           /\ ~direct => d \in BatchDBs \cup {NoDB} /\ (e => d # NoDB)
           /\ SetBatch(e, d)
    <2>1. CASE AutoMissing
      BY <2>1 DEF AutoMissing
    <2>2. CASE AutoFound
      BY <1>2, <2>2 DEF AutoFound
    <2> QED
      BY <2>1, <2>2
  <1>4. /\ n' = n /\ exist' \in Seq(BOOLEAN) /\ dbs' \in Seq(BatchDBs \cup {NoDB})
        /\ Len(exist') = Len(exist) /\ ExistingBatchHasDB'
    BY <1>1, <1>3, SetBatchIs
  <1>5. conn' \in Databases /\ stale' \subseteq Databases /\ partly' \subseteq Databases
    BY <1>2 DEF AutoMissing, AutoFound, LoopInv, LoopTypes, counts, Uncounted
  <1>6. LoopTypes'
    BY <1>1, <1>4, <1>5 DEF LoopInv, LoopTypes
  <1>7. ListBounds'
    BY <1>1, <1>4 DEF LoopInv, ListBounds
  <1> QED
    BY <1>4, <1>6, <1>7 DEF LoopInv

\* The processing: a batch that exists has a database to open.
LEMMA ProcessLoop ==
    ASSUME LoopInv,
           \/ ConUpElt \/ BasicBatch \/ BasicDirect \/ BasicDone \/ Select
           \/ LevelBatch \/ LevelDirect \/ NextLevel \/ Completed \/ CompletedOK
    PROVE  LoopInv'
  <1>1. conn \in Databases /\ b \in 0..MaxBatches /\ redo \in BOOLEAN /\ left \in BOOLEAN
        /\ stale \subseteq Databases /\ partly \subseteq Databases
        /\ direct \in BOOLEAN
    BY DEF LoopInv, LoopTypes
  <1>2. 0 \in 0..MaxBatches /\ (b < n => b + 1 \in 0..MaxBatches)
        /\ Global \in Databases /\ BatchDBs \subseteq Databases
    BY Counters, Bounds DEF LoopInv
  <1> USE DEF batches, process, counts, Redirect, ProcessDone
  <1>3. CASE ConUpElt
    BY <1>1, <1>2, <1>3, LoopSame DEF ConUpElt
  <1>4. CASE BasicBatch
    BY <1>1, <1>2, <1>4, LoopSame DEF BasicBatch, ProcInd, Uncounted, Counted, LeftOut
  <1>5. CASE BasicDirect
    BY <1>1, <1>2, <1>5, LoopSame DEF BasicDirect, ProcInd, Uncounted, Counted, LeftOut
  <1>6. CASE BasicDone \/ Select
    BY <1>1, <1>2, <1>6, LoopSame DEF BasicDone, Select
  <1>7. CASE LevelBatch
    BY <1>1, <1>2, <1>7, LoopSame DEF LevelBatch
  <1>8. CASE LevelDirect \/ NextLevel \/ Completed \/ CompletedOK
    BY <1>1, <1>2, <1>8, LoopSame DEF LevelDirect, NextLevel, Completed, CompletedOK
  <1> QED
    BY <1>3, <1>4, <1>5, <1>6, <1>7, <1>8

LEMMA LoopStep == LoopInv /\ [Next]_vars => LoopInv'
  <1> SUFFICES ASSUME LoopInv, [Next]_vars
               PROVE  LoopInv'
    OBVIOUS
  <1>0. /\ conn \in Databases /\ b \in 0..MaxBatches /\ redo \in BOOLEAN /\ left \in BOOLEAN
        /\ stale \subseteq Databases /\ partly \subseteq Databases
        /\ direct \in BOOLEAN
        /\ 0 \in 0..MaxBatches /\ 1 \in 1..MaxFiles + 1 /\ Global \in Databases
    BY Counters, Bounds DEF LoopInv, LoopTypes
  <1>1. CASE EndProgram
    <2>1. /\ screen' = "login" /\ kind' = "auto" /\ files' = <<>> /\ i' = 1
          /\ b' = 0 /\ redo' = FALSE /\ left' = FALSE
          /\ n' = 0 /\ exist' = <<>> /\ dbs' = <<>> /\ conn' = Global
          /\ stale' = {} /\ partly' = {} /\ direct' = TRUE
      BY <1>1 DEF EndProgram, ListDone, ProcessDone
    <2>2. exist' \in Seq(BOOLEAN) /\ dbs' \in Seq(BatchDBs \cup {NoDB})
          /\ Len(exist') = Len(dbs') /\ DOMAIN exist' = {}
      BY <2>1, EmptySeq
    <2>3. LoopTypes'
      BY <1>0, <2>1, <2>2 DEF LoopTypes
    <2> QED
      BY <2>1, <2>2, <2>3 DEF LoopInv, ListBounds, ExistingBatchHasDB
  <1>2. ASSUME NEW list \in FileLists, StartAuto(list)
        PROVE  LoopInv'
    <2>1. /\ n' \in 0..MaxBatches
          /\ exist' \in Seq(BOOLEAN) /\ dbs' \in Seq(BatchDBs \cup {NoDB})
          /\ Len(exist') = Len(list)
          /\ ExistingBatchHasDB'
      BY <1>2, StartAutoIs
    <2>2. /\ kind' = "auto" /\ files' = list /\ i' = 1 /\ screen' = "files"
          /\ UNCHANGED <<direct, conn, b, redo, left, stale, partly>>
      BY <1>2 DEF StartAuto, process, counts
    <2>3. LoopTypes'
      BY <1>0, <2>1, <2>2 DEF LoopTypes
    <2> QED
      BY <2>1, <2>2, <2>3 DEF LoopInv, ListBounds
  <1>3. ASSUME NEW list \in FileLists, StartBulk(list)
        PROVE  LoopInv'
    <2>1. /\ kind' = "bulk" /\ files' = list /\ i' = 1 /\ screen' = "files"
          /\ UNCHANGED <<direct, n, exist, dbs, conn, b, redo, left, stale, partly>>
      BY <1>3 DEF StartBulk, process, batches, counts
    <2>2. LoopTypes'
      BY <1>0, <2>1 DEF LoopInv, LoopTypes
    <2> QED
      BY <2>1, <2>2 DEF LoopInv, ListBounds, ExistingBatchHasDB
  <1>4. CASE AutoAnswer
    <2>1. i <= Len(files) => i + 1 \in 1..MaxFiles + 1
      BY Counters DEF LoopInv
    <2>2. /\ screen = "missing" /\ i <= Len(files) /\ UNCHANGED <<direct, n, exist, dbs, conn, b, redo, left, stale, partly>>
          /\ \/ screen' = "process" /\ kind' = "auto" /\ files' = <<>> /\ i' = 1
             \/ screen' = "files" /\ i' \in {i, i + 1} /\ UNCHANGED <<kind, files>>
      BY <1>4 DEF AutoAnswer, ListDone, process, batches, counts, LoopInv, ListBounds
    <2>3. LoopTypes'
      BY <1>0, <2>1, <2>2 DEF LoopInv, LoopTypes
    <2> QED
      BY <2>2, <2>3 DEF LoopInv, ListBounds, ExistingBatchHasDB
  <1>5. CASE AutoMissing \/ AutoFound
    BY <1>5, FileLoop
  <1>6. CASE BulkMissing \/ BulkFound
    <2>1. i <= Len(files) => i + 1 \in 1..MaxFiles + 1
      BY Counters DEF LoopInv
    <2>2. /\ kind = "bulk" /\ i <= Len(files)
          /\ UNCHANGED <<direct, kind, files, n, exist, dbs, conn, b, redo, left>>
          /\ \/ screen' = "files" /\ i' = i + 1
             \/ screen' = "importing" /\ i' = i
          /\ stale' \subseteq stale \cup {conn} /\ partly' \subseteq partly
      BY <1>6 DEF BulkMissing, BulkFound, process, batches, counts, Uncounted
    <2>3. LoopTypes'
      BY <1>0, <2>1, <2>2 DEF LoopInv, LoopTypes
    <2> QED
      BY <2>2, <2>3 DEF LoopInv, ListBounds, ExistingBatchHasDB
  <1>7. CASE Insert \/ FileFails
    BY <1>0, <1>7, LoopSame DEF Insert, FileFails, process, counts
  <1>8. CASE ImportData
    <2>1. i <= Len(files) => i + 1 \in 1..MaxFiles + 1
      BY Counters DEF LoopInv
    <2>2. /\ screen = "importing" /\ i <= Len(files) /\ conn' \in {conn, Global} /\ left' \in {left, FALSE}
          /\ screen' = "files" /\ i' = i + 1
          /\ UNCHANGED <<direct, kind, files, n, exist, dbs, b, redo, stale, partly>>
      BY <1>8 DEF ImportData, batches, counts, LoopInv, ListBounds
    <2>3. LoopTypes'
      BY <1>0, <2>1, <2>2 DEF LoopInv, LoopTypes
    <2> QED
      BY <2>2, <2>3 DEF LoopInv, ListBounds, ExistingBatchHasDB
  <1>9. CASE LastFile
    <2>1. /\ conn' \in Databases /\ left' \in BOOLEAN /\ screen' \in {"main", "process"}
          /\ ListDone /\ UNCHANGED <<direct, batches, b, redo, stale, partly>>
      BY <1>0, <1>9 DEF LastFile, counts
    <2> QED
      BY <1>0, <2>1, LoopSame
  <1>10. CASE Login
    BY <1>10, LoginLoop
  <1>11. CASE \/ ConUpElt \/ BasicBatch \/ BasicDirect \/ BasicDone \/ Select
              \/ LevelBatch \/ LevelDirect \/ NextLevel \/ Completed \/ CompletedOK
    BY <1>11, ProcessLoop
  <1>12. CASE UNCHANGED vars
    BY <1>0, <1>12, LoopSame DEF vars, process, counts
  <1> QED
    BY <1>1, <1>2, <1>3, <1>4, <1>5, <1>6, <1>7, <1>8, <1>9, <1>10, <1>11, <1>12 DEF Next

\* The loops stay within their lists, whatever lists of files follow each other.
THEOREM ImportTypeCorrect == Spec => []TypeOK
  <1>1. LoopInv /\ InsertInv => TypeOK
    BY DEF LoopInv, LoopTypes, InsertInv, TypeOK
  <1> QED
    BY <1>1, LoopInit, LoopStep, ImportRefinesInsert, InsertInvariant, PTL DEF Spec

\* Where arrayProcExist is set there is a database in arrayBatchDB for the
\* processing to open, whatever lists of files follow each other.
THEOREM BatchHasDB == Spec => []ExistingBatchHasDB
  <1>1. LoopInv => ExistingBatchHasDB
    BY DEF LoopInv
  <1> QED
    BY <1>1, LoopInit, LoopStep, PTL DEF Spec

-----------------------------------------------------------------------------
(* What is imported is counted *)

\* Batches are processed, and the list of them is the only one there was.
OneList == ~direct /\ n = Len(exist)

AutoGoing == screen \in {"files", "missing"} /\ kind = "auto"

Listed(d) == \E j \in DOMAIN exist : exist[j] /\ dbs[j] = d

\* A batch of the list whose file was imported, and which the processing has
\* still to come to
Awaited(d) ==
    \E j \in DOMAIN exist :
        /\ exist[j] /\ dbs[j] = d
        /\ AutoGoing => j < i
        /\ screen = "importing" /\ kind = "auto" => j <= i
        /\ screen = "basic" /\ redo => j > b

\* Databases with rows that no processing went over
Unprocessed == stale \ partly

LEMMA UnprocessedIs ==
    /\ UNCHANGED counts => Unprocessed' = Unprocessed
    /\ \A d : Uncounted(d) => Unprocessed' = Unprocessed \cup {d}
    /\ \A d : ProcInd(d) =>
          Unprocessed' = IF redo THEN Unprocessed \ {d} ELSE Unprocessed
  BY DEF Unprocessed, counts, Uncounted, Counted, LeftOut, ProcInd

AtLogin == screen = "login" => Unprocessed = {} /\ ~left

DirectFresh ==
    direct => /\ conn = Global /\ ~left
              /\ Unprocessed \subseteq {Global}
              /\ redo /\ screen \in {"select", "levels", "completed"} => Unprocessed = {}

\* nProcBatches only grows, the lists are sized anew.
FirstList == ~direct => Len(exist) <= n

ListFresh ==
    OneList =>
        /\ conn = Global \/ Listed(conn)
        /\ AutoGoing => conn = Global
        /\ \A d \in Unprocessed : Awaited(d)
        /\ redo /\ screen \in {"select", "levels", "completed"} => Unprocessed = {}

FreshInv == AtLogin /\ DirectFresh /\ FirstList /\ ListFresh

LEMMA Positions ==
    ASSUME LoopInv, NEW j \in DOMAIN exist
    PROVE  /\ j < i => j <= i /\ j < i + 1 /\ j # i
           /\ j <= i => j < i + 1
           /\ j > 0
           /\ j > b /\ j # b + 1 => j > b + 1
           /\ b >= n /\ n = Len(exist) => ~(j > b)
  <1>1. PICK m \in Nat : m = Len(exist) /\ DOMAIN exist = 1..m
    BY LenProperties DEF LoopInv, LoopTypes
  <1>2. i \in Int /\ b \in Int /\ n \in Int
    BY Bounds DEF LoopInv, LoopTypes
  <1>3. j \in 1..m
    BY <1>1
  <1>4. b >= n /\ n = m => ~(j > b)
    BY <1>2, <1>3
  <1>5. /\ j < i => j <= i /\ j < i + 1 /\ j # i
        /\ j <= i => j < i + 1
        /\ j > 0
        /\ j > b /\ j # b + 1 => j > b + 1
    BY <1>2, <1>3
  <1> QED
    BY <1>1, <1>4, <1>5

\* The batch the processing is at is one of the list, if there was only one.
LEMMA AtBatch ==
    ASSUME LoopInv, b < n, n = Len(exist)
    PROVE  /\ b + 1 \in DOMAIN exist
           /\ \A e : Exists(e) => e = exist[b + 1]
           /\ \A d : DB(d) => d = dbs[b + 1]
  <1>1. PICK m \in Nat : m = Len(exist) /\ DOMAIN exist = 1..m
    BY LenProperties DEF LoopInv, LoopTypes
  <1>2. b \in Nat
    BY Bounds DEF LoopInv, LoopTypes
  <1>3. b < m
    BY <1>1
  <1>4. b + 1 \in 1..m
    BY <1>2, <1>3
  <1>5. b < Len(exist) /\ b < Len(dbs)
    BY <1>1, <1>3 DEF LoopInv, ExistingBatchHasDB
  <1> QED
    BY <1>1, <1>4, <1>5 DEF Exists, DB

\* Steps that leave the lists as they are
LEMMA FreshSame ==
    ASSUME UNCHANGED <<direct, n, exist, dbs>>
    PROVE  /\ OneList' <=> OneList
           /\ FirstList => FirstList'
           /\ \A d : Listed(d)' <=> Listed(d)
           /\ \A d : (\E j \in DOMAIN exist : /\ exist[j] /\ dbs[j] = d
                                              /\ AutoGoing' => j < i'
                                              /\ screen' = "importing" /\ kind' = "auto" => j <= i'
                                              /\ screen' = "basic" /\ redo' => j > b')
                     => Awaited(d)'
  <1>1. OneList' <=> OneList
    BY DEF OneList
  <1>2. FirstList => FirstList'
    BY DEF FirstList
  <1>3. \A d : Listed(d)' <=> Listed(d)
    BY DEF Listed
  <1>4. ASSUME NEW d, NEW j \in DOMAIN exist, exist[j] /\ dbs[j] = d,
               AutoGoing' => j < i',
               screen' = "importing" /\ kind' = "auto" => j <= i',
               screen' = "basic" /\ redo' => j > b'
        PROVE  Awaited(d)'
    BY <1>4 DEF Awaited
  <1> QED
    BY <1>1, <1>2, <1>3, <1>4

LEMMA FreshLists ==
    ASSUME LoopInv, FreshInv, NEW list \in FileLists, StartAuto(list)
    PROVE  FreshInv'
  <1>1. PICK l \in Nat : l = Len(list) /\ l > 0
    <2>1. PICK l \in 0..MaxFiles : l = Len(list) /\ l > 0
      BY FileListLen
    <2>2. l \in Nat
      BY Bounds
    <2> QED
      BY <2>1, <2>2
  <1>2. /\ Len(exist') = l
        /\ screen' = "files" /\ UNCHANGED <<direct, conn, b, redo, left, Unprocessed>>
        /\ n' = IF direct THEN n ELSE n + l
    BY <1>1, StartAutoIs, UnprocessedIs DEF StartAuto, process
  <1>3. PICK m \in Nat : m = Len(exist) /\ DOMAIN exist = 1..m
    BY LenProperties DEF LoopInv, LoopTypes
  <1>4. n \in Nat
    BY Bounds DEF LoopInv, LoopTypes
  <1>5. FirstList'
    <2>1. l <= n + l
      BY <1>4
    <2> QED
      BY <1>2, <2>1 DEF FirstList
  <1>6. ASSUME OneList'
        PROVE  Unprocessed = {} /\ conn = Global
    <2>1. ~direct /\ n + l = l /\ m <= n
      BY <1>2, <1>3, <1>6 DEF OneList, FreshInv, FirstList
    <2>2. n = 0 /\ m = 0
      <3>1. n + l = l /\ m <= n
        BY <2>1
      <3> QED
        BY <1>4, <3>1
    <2>3. OneList /\ DOMAIN exist = {}
      BY <1>3, <2>1, <2>2 DEF OneList
    <2> QED
      BY <2>3 DEF FreshInv, ListFresh, Listed, Awaited
  <1>7. ListFresh'
    BY <1>2, <1>6 DEF ListFresh
  <1>8. DirectFresh' /\ AtLogin'
    BY <1>2 DEF FreshInv, DirectFresh, AtLogin
  <1> QED
    BY <1>5, <1>7, <1>8 DEF FreshInv

\* A file of an automatic import
LEMMA FreshFile ==
    ASSUME LoopInv, LoopInv', FreshInv, AutoMissing \/ AutoFound
    PROVE  FreshInv'
  <1>1. screen = "files" /\ kind = "auto" /\ i <= Len(files)
        /\ UNCHANGED <<direct, kind, files, i, b, redo, left>>
        /\ screen' \in {"missing", "importing"} /\ AutoGoing
    BY DEF AutoMissing, AutoFound, process, AutoGoing
  <1>2. files[i] \in BatchDBs /\ files[i] \in Databases /\ files[i] # NoDB /\ conn \in Databases
    BY <1>1, Counters, Bounds DEF LoopInv, LoopTypes
  <1>3. AtLogin'
    BY <1>1 DEF AtLogin
  <1>4. DirectFresh'
    BY <1>1, UnprocessedIs DEF FreshInv, DirectFresh, AutoMissing, AutoFound
  <1>5. CASE AutoMissing
    <2>1. SetBatch(FALSE, NoDB) /\ screen' = "missing" /\ UNCHANGED <<conn, Unprocessed>>
      BY <1>5, UnprocessedIs DEF AutoMissing
    <2>2. /\ n' = n /\ Len(exist') = Len(exist)
          /\ ~direct => /\ DOMAIN exist' = DOMAIN exist
                        /\ \A j \in DOMAIN exist : j # i =>
                              exist'[j] = exist[j] /\ dbs'[j] = dbs[j]
      BY <1>1, <2>1, SetBatchIs
    <2>3. FirstList'
      BY <1>1, <2>2 DEF FreshInv, FirstList
    <2>4. ASSUME OneList'
          PROVE  conn' = Global /\ \A d \in Unprocessed' : Awaited(d)'
      <3>1. OneList /\ ~direct
        BY <1>1, <2>2, <2>4 DEF OneList
      <3>2. conn' = Global
        BY <1>1, <2>1, <3>1 DEF FreshInv, ListFresh
      <3>3. ASSUME NEW d \in Unprocessed
            PROVE  Awaited(d)'
        <4>1. PICK j \in DOMAIN exist : exist[j] /\ dbs[j] = d /\ j < i
          BY <1>1, <3>1, <3>3 DEF FreshInv, ListFresh, Awaited
        <4>2. j # i
          BY <4>1, Positions
        <4>3. j \in DOMAIN exist' /\ exist'[j] /\ dbs'[j] = d /\ j < i'
          BY <1>1, <2>2, <3>1, <4>1, <4>2
        <4> QED
          BY <2>1, <4>3 DEF Awaited
      <3> QED
        BY <2>1, <3>2, <3>3
    <2>5. ListFresh'
      BY <2>1, <2>4 DEF ListFresh
    <2> QED
      BY <1>3, <1>4, <2>3, <2>5 DEF FreshInv
  <1>6. CASE AutoFound
    <2>0. PICK to : to = IF direct THEN conn ELSE files[i]
      OBVIOUS
    <2>1. SetBatch(TRUE, to) /\ screen' = "importing" /\ conn' = to /\ Unprocessed' = Unprocessed \cup {to}
      BY <1>6, <2>0, UnprocessedIs DEF AutoFound
    <2>2. TRUE \in BOOLEAN /\ to \in Databases \cup {NoDB}
          /\ (~direct => to \in BatchDBs \cup {NoDB} /\ (TRUE => to # NoDB))
      BY <1>2, <2>0
    <2>3. /\ n' = n /\ Len(exist') = Len(exist)
          /\ ~direct => /\ i \in DOMAIN exist /\ DOMAIN exist' = DOMAIN exist
                        /\ exist'[i] = TRUE /\ dbs'[i] = to
                        /\ \A j \in DOMAIN exist : j # i =>
                              exist'[j] = exist[j] /\ dbs'[j] = dbs[j]
      BY <1>1, <2>1, <2>2, SetBatchIs
    <2>4. FirstList'
      BY <1>1, <2>3 DEF FreshInv, FirstList
    <2>5. ASSUME OneList'
          PROVE  Listed(conn)' /\ \A d \in Unprocessed' : Awaited(d)'
      <3>1. OneList /\ ~direct
        BY <1>1, <2>3, <2>5 DEF OneList
      <3>2. i \in DOMAIN exist' /\ exist'[i] /\ dbs'[i] = to /\ i <= i'
        <4>1. i <= i
          BY DEF LoopInv, LoopTypes
        <4> QED
          BY <1>1, <2>3, <3>1, <4>1
      <3>3. Listed(conn)' /\ Awaited(to)'
        BY <2>1, <3>2 DEF Listed, Awaited, AutoGoing
      <3>4. ASSUME NEW d \in Unprocessed
            PROVE  Awaited(d)'
        <4>1. PICK j \in DOMAIN exist : exist[j] /\ dbs[j] = d /\ j < i
          BY <1>1, <3>1, <3>4 DEF FreshInv, ListFresh, Awaited
        <4>2. j # i /\ j <= i
          BY <4>1, Positions
        <4>3. j \in DOMAIN exist' /\ exist'[j] /\ dbs'[j] = d /\ j <= i'
          BY <1>1, <2>3, <3>1, <4>1, <4>2
        <4> QED
          BY <2>1, <4>3 DEF Awaited, AutoGoing
      <3> QED
        BY <2>1, <3>3, <3>4
    <2>6. ListFresh'
      BY <2>1, <2>5 DEF ListFresh, AutoGoing
    <2> QED
      BY <1>3, <1>4, <2>4, <2>6 DEF FreshInv
  <1> QED
    BY <1>5, <1>6

\* The other steps of an import
LEMMA FreshImport ==
    ASSUME LoopInv, FreshInv,
           \/ AutoAnswer \/ BulkMissing \/ BulkFound \/ Insert \/ FileFails
           \/ ImportData \/ LastFile \/ \E list \in FileLists : StartBulk(list)
    PROVE  FreshInv'
  <1>1. UNCHANGED <<direct, n, exist, dbs, b, redo>>
        /\ screen' \in {"main", "files", "process", "importing"} /\ left' \in {left, FALSE}
    BY DEF AutoAnswer, BulkMissing, BulkFound, Insert, FileFails, ImportData, LastFile,
           StartBulk, batches, process
  <1>2. screen' # "login"
    BY <1>1
  <1>3. AtLogin' /\ FirstList'
    BY <1>1, <1>2, FreshSame DEF AtLogin, FreshInv
  <1>4. CASE BulkFound
    <2>1. /\ kind' = "bulk" /\ kind = "bulk" /\ screen' = "importing" /\ UNCHANGED <<conn, left>>
          /\ Unprocessed' = IF ~direct /\ conn = Global THEN Unprocessed ELSE Unprocessed \cup {conn}
      BY <1>4, UnprocessedIs DEF BulkFound, process
    <2>2. DirectFresh'
      BY <1>1, <2>1 DEF FreshInv, DirectFresh
    <2>3. \A d : Listed(d) => Awaited(d)'
      BY <1>1, <2>1 DEF Listed, Awaited, AutoGoing
    <2>4. ASSUME OneList
          PROVE  \A d \in Unprocessed' : Awaited(d)'
      <3>1. ~direct
        BY <2>4 DEF OneList
      <3>2. \A d \in Unprocessed' : Listed(d)
        BY <2>1, <2>4, <3>1 DEF FreshInv, ListFresh, Listed, Awaited
      <3> QED
        BY <2>3, <3>2
    <2>5. ListFresh'
      BY <1>1, <2>1, <2>4, FreshSame DEF FreshInv, ListFresh, AutoGoing
    <2> QED
      BY <1>3, <2>2, <2>5 DEF FreshInv
  <1>5. CASE ~BulkFound
    <2>1. /\ Unprocessed' = Unprocessed /\ conn' \in {conn, Global}
          /\ screen' = "importing" => UNCHANGED <<screen, kind, i>>
          /\ AutoGoing' => /\ kind = "auto" /\ conn' \in {conn, Global}
                           /\ \/ AutoGoing /\ i' \in {i, i + 1}
                              \/ screen = "importing" /\ i' = i + 1 /\ conn' = Global
      <3> USE UnprocessedIs DEF AutoGoing, process
      <3>1. CASE AutoAnswer
        <4>1. screen = "missing" /\ UNCHANGED <<conn, Unprocessed>>
          BY <3>1 DEF AutoAnswer
        <4>2. CASE screen' = "process"
          BY <4>1, <4>2
        <4>3. CASE screen' = "files" /\ i' \in {i, i + 1} /\ kind' = kind
          BY <4>1, <4>3
        <4> QED
          BY <3>1, <4>2, <4>3 DEF AutoAnswer
      <3>2. CASE BulkMissing
        BY <3>2 DEF BulkMissing
      <3>3. CASE Insert \/ FileFails
        BY <3>3 DEF Insert, FileFails
      <3>4. CASE ImportData
        BY <3>4 DEF ImportData
      <3>5. CASE LastFile
        BY <3>5 DEF LastFile, ListDone
      <3>6. CASE \E list \in FileLists : StartBulk(list)
        BY <3>6 DEF StartBulk
      <3> QED
        BY <1>5, <3>1, <3>2, <3>3, <3>4, <3>5, <3>6
    <2>2. DirectFresh'
      BY <1>1, <2>1 DEF FreshInv, DirectFresh
    <2>3. ASSUME OneList, NEW d \in Unprocessed
          PROVE  Awaited(d)'
      <3>1. PICK j \in DOMAIN exist : /\ exist[j] /\ dbs[j] = d
                                      /\ AutoGoing => j < i
                                      /\ screen = "importing" /\ kind = "auto" => j <= i
        BY <2>3 DEF FreshInv, ListFresh, Awaited
      <3>2. (j < i => j < i + 1) /\ (j <= i => j < i + 1)
        BY Positions
      <3>3. AutoGoing' => j < i'
        BY <2>1, <3>1, <3>2
      <3>4. screen' = "importing" /\ kind' = "auto" => j <= i'
        BY <2>1, <3>1
      <3> QED
        BY <1>1, <3>1, <3>3, <3>4, FreshSame
    <2>4. ListFresh'
      BY <1>1, <2>1, <2>3, FreshSame DEF FreshInv, ListFresh
    <2> QED
      BY <1>3, <2>2, <2>4 DEF FreshInv
  <1> QED
    BY <1>4, <1>5

\* The processing of batches, one by one
LEMMA FreshBatch ==
    ASSUME LoopInv, FreshInv, BasicBatch
    PROVE  FreshInv'
  <1>1. UNCHANGED <<direct, n, exist, dbs, kind, files, i>> /\ screen = "basic"
        /\ screen' \in {"basic", "main"} /\ ~direct /\ b < n
    BY DEF BasicBatch, batches
  <1>2. AtLogin' /\ FirstList' /\ DirectFresh'
    BY <1>1, FreshSame DEF FreshInv, AtLogin, DirectFresh
  <1>3. ASSUME OneList
        PROVE  /\ conn' = Global \/ Listed(conn')
               /\ \A d \in Unprocessed' : Awaited(d)'
    <2>1. /\ b + 1 \in DOMAIN exist
          /\ \A e : Exists(e) => e = exist[b + 1]
          /\ \A d : DB(d) => d = dbs[b + 1]
      BY <1>1, <1>3, AtBatch DEF OneList
    <2>2. /\ conn = Global \/ Listed(conn)
          /\ \A d \in Unprocessed : \E j \in DOMAIN exist : exist[j] /\ dbs[j] = d /\ (redo => j > b)
      BY <1>1, <1>3 DEF FreshInv, ListFresh, Awaited
    <2>3. CASE Exists(FALSE) /\ b' = b + 1 /\ UNCHANGED <<conn, redo, left, Unprocessed, screen>>
      <3>1. ~exist[b + 1]
        BY <2>1, <2>3
      <3>2. ASSUME NEW d \in Unprocessed
            PROVE  Awaited(d)'
        <4>1. PICK j \in DOMAIN exist : exist[j] /\ dbs[j] = d /\ (redo => j > b)
          BY <2>2, <3>2
        <4>2. redo => j > b + 1
          BY <3>1, <4>1, Positions
        <4> QED
          BY <1>1, <2>3, <4>1, <4>2, FreshSame DEF AutoGoing
      <3> QED
        BY <2>2, <2>3, <3>2
    <2>4. ASSUME NEW d \in BatchDBs, Exists(TRUE), DB(d), b' = b + 1, conn' = d,
                 Unprocessed' = IF redo THEN Unprocessed \ {d} ELSE Unprocessed, UNCHANGED <<redo, screen>>
          PROVE  /\ conn' = Global \/ Listed(conn')
                 /\ \A e \in Unprocessed' : Awaited(e)'
      <3>1. exist[b + 1] /\ dbs[b + 1] = d
        BY <2>1, <2>4
      <3>2. Listed(conn')
        BY <2>1, <2>4, <3>1 DEF Listed
      <3>3. ASSUME NEW e \in Unprocessed'
            PROVE  Awaited(e)'
        <4>1. e \in Unprocessed /\ (redo => e # d)
          BY <2>4, <3>3
        <4>2. PICK j \in DOMAIN exist : exist[j] /\ dbs[j] = e /\ (redo => j > b)
          BY <2>2, <4>1
        <4>3. redo => j > b + 1
          BY <3>1, <4>1, <4>2, Positions
        <4> QED
          BY <1>1, <2>4, <4>2, <4>3, FreshSame DEF AutoGoing
      <3> QED
        BY <3>2, <3>3
    <2>5. ASSUME NEW d \in BatchDBs, Exists(TRUE), DB(d), conn' = d, screen' = "main",
                 Unprocessed' = Unprocessed \cup {d}
          PROVE  /\ conn' = Global \/ Listed(conn')
                 /\ \A e \in Unprocessed' : Awaited(e)'
      <3>1. exist[b + 1] /\ dbs[b + 1] = d
        BY <2>1, <2>5
      <3>2. Listed(conn')
        BY <2>1, <2>5, <3>1 DEF Listed
      <3>3. \A e \in Unprocessed' : Awaited(e)'
        BY <1>1, <2>1, <2>2, <2>5, <3>1, FreshSame DEF AutoGoing
      <3> QED
        BY <3>2, <3>3
    <2> QED
      BY <2>3, <2>4, <2>5, UnprocessedIs DEF BasicBatch, Redirect
  <1>4. ListFresh'
    BY <1>1, <1>3, FreshSame DEF ListFresh, AutoGoing
  <1> QED
    BY <1>2, <1>4 DEF FreshInv

LEMMA FreshProcess ==
    ASSUME LoopInv, FreshInv,
           \/ ConUpElt \/ BasicDirect \/ BasicDone \/ Select
           \/ LevelBatch \/ LevelDirect \/ NextLevel \/ Completed \/ CompletedOK
    PROVE  FreshInv'
  <1>1. UNCHANGED <<direct, n, exist, dbs, kind, files, i>>
        /\ screen' \in {"main", "basic", "select", "levels", "completed"}
    BY DEF ConUpElt, BasicDirect, BasicDone, Select, LevelBatch, LevelDirect, NextLevel,
           Completed, CompletedOK, batches
  <1>2. AtLogin' /\ FirstList'
    BY <1>1, FreshSame DEF FreshInv, AtLogin
  <1>3. DirectFresh'
    <2>1. CASE ConUpElt
      <3>1. UNCHANGED <<direct, conn, left, Unprocessed>> /\ screen' \in {"basic", "main"}
        BY <2>1, UnprocessedIs DEF ConUpElt
      <3> QED
        BY <3>1 DEF FreshInv, DirectFresh
    <2>2. CASE BasicDirect
      BY <1>1, <2>2, UnprocessedIs DEF BasicDirect, Redirect, ProcessDone, FreshInv, DirectFresh
    <2>3. CASE BasicDone \/ LevelBatch \/ NextLevel
      BY <1>1, <2>3, UnprocessedIs DEF BasicDone, LevelBatch, NextLevel, DirectFresh
    <2>4. CASE Select \/ LevelDirect
      BY <1>1, <2>4, UnprocessedIs DEF Select, LevelDirect, Redirect, ProcessDone, process, FreshInv, DirectFresh
    <2>5. CASE Completed \/ CompletedOK
      BY <1>1, <2>5, UnprocessedIs DEF Completed, CompletedOK, Redirect, ProcessDone, FreshInv, DirectFresh
    <2> QED
      BY <2>1, <2>2, <2>3, <2>4, <2>5
  <1>4. ASSUME OneList
        PROVE  /\ conn' = Global \/ Listed(conn')
               /\ \A d \in Unprocessed' : Awaited(d)'
               /\ redo' /\ screen' \in {"select", "levels", "completed"} => Unprocessed' = {}
    <2>1. ~direct /\ n = Len(exist)
      BY <1>4 DEF OneList
    <2>2. /\ conn = Global \/ Listed(conn)
          /\ \A d \in Unprocessed : \E j \in DOMAIN exist :
                exist[j] /\ dbs[j] = d /\ (screen = "basic" /\ redo => j > b)
          /\ redo /\ screen \in {"select", "levels", "completed"} => Unprocessed = {}
      BY <1>4 DEF FreshInv, ListFresh, Awaited
    <2>3. Unprocessed' = Unprocessed
      BY <2>1, UnprocessedIs DEF ConUpElt, BasicDirect, BasicDone, Select, LevelBatch, LevelDirect, NextLevel,
                  Completed, CompletedOK
    <2>4. conn' = Global \/ Listed(conn')
      <3>1. CASE LevelBatch
        <4>1. CASE conn' = conn
          BY <2>2, <4>1
        <4>2. ASSUME NEW d \in BatchDBs, Exists(TRUE), DB(d), conn' = d
              PROVE  Listed(conn')
          <5>1. b < n
            BY <3>1 DEF LevelBatch
          <5>2. b + 1 \in DOMAIN exist /\ exist[b + 1] /\ dbs[b + 1] = d
            BY <2>1, <4>2, <5>1, AtBatch
          <5> QED
            BY <4>2, <5>2 DEF Listed
        <4> QED
          BY <3>1, <4>1, <4>2 DEF LevelBatch, Redirect
      <3>2. CASE ~LevelBatch
        <4>1. conn' \in {conn, Global}
          BY <2>1, <3>2 DEF ConUpElt, BasicDirect, BasicDone, Select, LevelDirect, NextLevel,
                            Completed, CompletedOK, Redirect
        <4> QED
          BY <2>2, <4>1
      <3> QED
        BY <3>1, <3>2
    <2>5. \A d \in Unprocessed' : Awaited(d)'
      <3>1. screen' = "basic" => b' = 0
        BY DEF ConUpElt, BasicDirect, BasicDone, Select, LevelBatch, LevelDirect, NextLevel,
               Completed, CompletedOK
      <3>2. \A j \in DOMAIN exist : j > 0
        BY Positions
      <3>3. ASSUME NEW d \in Unprocessed
            PROVE  Awaited(d)'
        <4>1. PICK j \in DOMAIN exist : exist[j] /\ dbs[j] = d
          BY <2>2, <3>3
        <4> QED
          BY <1>1, <3>1, <3>2, <4>1, FreshSame DEF AutoGoing
      <3> QED
        BY <2>3, <3>3
    <2>6. ASSUME redo', screen' \in {"select", "levels", "completed"}
          PROVE  Unprocessed' = {}
      <3>1. CASE BasicDone
        <4>1. screen = "basic" /\ b >= n /\ redo
          BY <2>6, <3>1 DEF BasicDone
        <4>2. \A j \in DOMAIN exist : ~(j > b)
          BY <2>1, <4>1, Positions
        <4> QED
          BY <2>2, <2>3, <4>1, <4>2
      <3>2. CASE ~BasicDone
        <4>1. redo /\ screen \in {"select", "levels", "completed"}
          BY <2>1, <2>6, <3>2 DEF ConUpElt, BasicDirect, Select, LevelBatch, LevelDirect,
                                  NextLevel, Completed, CompletedOK, ProcessDone, process
        <4> QED
          BY <2>2, <2>3, <4>1
      <3> QED
        BY <3>1, <3>2
    <2> QED
      BY <2>4, <2>5, <2>6
  <1>5. ListFresh'
    BY <1>1, <1>4, FreshSame DEF ListFresh, AutoGoing
  <1> QED
    BY <1>2, <1>3, <1>5 DEF FreshInv

LEMMA FreshStep == LoopInv /\ FreshInv /\ [Next]_vars => FreshInv'
  <1> SUFFICES ASSUME LoopInv, FreshInv, [Next]_vars
               PROVE  FreshInv'
    OBVIOUS
  <1>1. LoopInv'
    BY LoopStep
  <1>2. CASE Login
    <2>1. /\ n' = Len(exist') /\ conn' = Global /\ screen' = "main"
          /\ UNCHANGED <<Unprocessed, left, redo, b, kind, i>> /\ screen = "login"
      BY <1>2, LoginLoop, UnprocessedIs DEF Login, process
    <2>2. Unprocessed' = {} /\ ~left'
      BY <2>1 DEF FreshInv, AtLogin
    <2>3. FirstList'
      <3>1. Len(exist') \in Nat
        BY <1>1, LenProperties DEF LoopInv, LoopTypes
      <3> QED
        BY <2>1, <3>1 DEF FirstList
    <2> QED
      BY <2>1, <2>2, <2>3 DEF FreshInv, AtLogin, DirectFresh, ListFresh, AutoGoing
  <1>3. CASE EndProgram
    <2>1. screen' = "login" /\ Unprocessed' = {} /\ left' = FALSE /\ conn' = Global /\ direct' = TRUE
      BY <1>3 DEF EndProgram, Unprocessed
    <2> QED
      BY <2>1 DEF FreshInv, AtLogin, DirectFresh, FirstList, ListFresh, OneList
  <1>4. CASE UNCHANGED vars
    BY <1>4, UnprocessedIs DEF vars, batches, process, FreshInv, AtLogin, DirectFresh, FirstList, ListFresh,
                OneList, Listed, Awaited, AutoGoing
  <1> QED
    BY <1>1, <1>2, <1>3, <1>4, FreshLists, FreshFile, FreshImport, FreshBatch, FreshProcess
    DEF Next

\* When the processing is completed, it has gone over all that was imported, of
\* every batch of the list, if there was no other list before, however many
\* files were missing, tried again or failed. Rows it does not count are those
\* it left out itself.
THEOREM ProcessingCounts == Spec => []CompletedFresh
  <1>1. Init => FreshInv
    <2> SUFFICES ASSUME Init
                 PROVE  FreshInv
      OBVIOUS
    <2> QED
      BY DEF Init, Unprocessed, FreshInv, AtLogin, DirectFresh, FirstList, ListFresh, OneList
  <1>2. FreshInv => CompletedFresh
    BY DEF FreshInv, DirectFresh, ListFresh, OneList, Unprocessed, CompletedFresh
  <1> QED
    BY <1>1, <1>2, LoopInit, LoopStep, FreshStep, PTL DEF Spec
=============================================================================
