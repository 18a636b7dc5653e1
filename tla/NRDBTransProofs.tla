--------------------------- MODULE NRDBTransProofs ---------------------------
(***************************************************************************)
(* What BDTrans.cpp guarantees for every set of rows, bound, driver and    *)
(* client: type correctness, that the level counter tells the truth about  *)
(* the driver, and, for a client that commits only what it began, that     *)
(* the layer implements nested transactions.                               *)
(***************************************************************************)
EXTENDS NRDBTrans, TLAPS

-----------------------------------------------------------------------------
(* Each call takes a connection to a connection. *)

LEMMA DriverType ==
    ASSUME NEW s \in Connection, NEW t \in Tables
    PROVE  /\ BeginTrans(s) \in Connection
           /\ CommitTrans(s) \in Connection
           /\ Rollback(s) \in Connection
           /\ ExecuteSQL(s, t) \in Connection
           /\ ExecuteDDL(s, t) \in Connection
           /\ RestartTrans(s) \in Connection
           /\ Opened(s) \in Connection
           /\ Closed(s) \in Connection
  <1>1. BeginTrans(s) \in Connection
    BY DEF Connection, BeginTrans
  <1>2. CommitTrans(s) \in Connection
    BY DEF Connection, CommitTrans, MySQL
  <1>3. Rollback(s) \in Connection
    BY DEF Connection, Rollback, MySQL
  <1>4. ExecuteSQL(s, t) \in Connection
    BY DEF Connection, ExecuteSQL
  <1>5. ExecuteDDL(s, t) \in Connection
    BY <1>4 DEF Connection, ExecuteDDL
  <1>6. RestartTrans(s) \in Connection
    BY <1>1 DEF RestartTrans
  <1>7. Closed(s) \in Connection
    BY DEF Connection, Closed, NotConnected
  <1>8. Opened(s) \in Connection
    BY <1>7 DEF Connection, Opened, Closed
  <1>9. QED
    BY <1>1, <1>2, <1>3, <1>4, <1>5, <1>6, <1>7, <1>8

LEMMA CallType ==
    ASSUME NEW s \in Connection
    PROVE  /\ BDBeginTrans(s) \in Connection
           /\ BDCommit(s) \in Connection
           /\ BDRollBack(s) \in Connection
  <1>1. BeginTrans(s) \in Connection /\ CommitTrans(s) \in Connection
          /\ Rollback(s) \in Connection
    <2>1. PICK t : t \in Tables
      BY DEF Connection
    <2>2. QED
      BY <2>1, DriverType
  <1>2. BDBeginTrans(s) \in Connection
    BY <1>1 DEF Connection, BDBeginTrans
  <1>3. BDCommit(s) \in Connection
    BY <1>1 DEF Connection, BDCommit
  <1>4. BDRollBack(s) \in Connection
    BY <1>1 DEF Connection, BDRollBack
  <1>5. QED
    BY <1>2, <1>3, <1>4

-----------------------------------------------------------------------------
(* What each call does to a connection, field by field. *)

LEMMA BeginTransFields ==
    ASSUME NEW s \in Connection
    PROVE  /\ BeginTrans(s).open = s.open
           /\ BeginTrans(s).level = s.level
           /\ ~BeginTrans(s).autocommit
           /\ BeginTrans(s).table = s.table
           /\ BeginTrans(s).stored = IF MySQL THEN s.table ELSE s.stored
  BY DEF Connection, BeginTrans

LEMMA ExecuteFields ==
    ASSUME NEW s \in Connection, NEW t \in Tables
    PROVE  /\ ExecuteSQL(s, t).open = s.open
           /\ ExecuteSQL(s, t).level = s.level
           /\ ExecuteSQL(s, t).autocommit <=> s.autocommit
           /\ ExecuteSQL(s, t).table = t
           /\ ExecuteSQL(s, t).stored = IF s.autocommit THEN t ELSE s.stored
           /\ ExecuteDDL(s, t).open = s.open
           /\ ExecuteDDL(s, t).level = s.level
           /\ ExecuteDDL(s, t).autocommit <=> s.autocommit
           /\ ExecuteDDL(s, t).table = t
           /\ ExecuteDDL(s, t).stored =
                IF MySQL \/ s.autocommit THEN t ELSE s.stored
  <1>1. /\ ExecuteSQL(s, t).open = s.open
        /\ ExecuteSQL(s, t).level = s.level
        /\ ExecuteSQL(s, t).autocommit <=> s.autocommit
        /\ ExecuteSQL(s, t).table = t
        /\ ExecuteSQL(s, t).stored = IF s.autocommit THEN t ELSE s.stored
    BY DEF Connection, ExecuteSQL
  <1>2. CASE MySQL
    BY <1>1, <1>2 DEF Connection, ExecuteDDL
  <1>3. CASE ~MySQL
    BY <1>1, <1>3 DEF ExecuteDDL
  <1>4. QED
    BY <1>2, <1>3

LEMMA BDBeginTransFields ==
    ASSUME NEW s \in Connection, s.open, CanTransact
    PROVE  /\ BDBeginTrans(s).open = s.open
           /\ BDBeginTrans(s).level = s.level + 1
           /\ BDBeginTrans(s).autocommit <=> (s.level # 0 /\ s.autocommit)
           /\ BDBeginTrans(s).table = s.table
           /\ BDBeginTrans(s).stored =
                IF MySQL /\ s.level = 0 THEN s.table ELSE s.stored
  <1>1. CASE s.level = 0
    <2>1. BDBeginTrans(s) = [BeginTrans(s) EXCEPT !.level = s.level + 1]
      BY <1>1 DEF BDBeginTrans
    <2>2. BeginTrans(s) \in Connection
      BY DriverType DEF Connection
    <2>3. QED
      BY <1>1, <2>1, <2>2, BeginTransFields DEF Connection
  <1>2. CASE s.level # 0
    <2>1. BDBeginTrans(s) = [s EXCEPT !.level = s.level + 1]
      BY <1>2 DEF BDBeginTrans
    <2>2. QED
      BY <1>2, <2>1 DEF Connection
  <1>3. QED
    BY <1>1, <1>2

LEMMA BDCommitFields ==
    ASSUME NEW s \in Connection, s.open, CanTransact
    PROVE  /\ BDCommit(s).open = s.open
           /\ BDCommit(s).level = s.level - 1
           /\ BDCommit(s).autocommit <=>
                (s.autocommit \/ (s.level = 1 /\ ~MySQL))
           /\ BDCommit(s).table = s.table
           /\ BDCommit(s).stored = IF s.level = 1 THEN s.table ELSE s.stored
  <1>1. CASE s.level = 1
    <2>1. BDCommit(s) = [CommitTrans(s) EXCEPT !.level = s.level - 1]
      BY <1>1 DEF BDCommit
    <2>2. CommitTrans(s) \in Connection
      BY DriverType DEF Connection
    <2>3. /\ CommitTrans(s).open = s.open
          /\ CommitTrans(s).autocommit <=> (s.autocommit \/ ~MySQL)
          /\ CommitTrans(s).table = s.table
          /\ CommitTrans(s).stored = s.table
      BY DEF Connection, CommitTrans
    <2>4. QED
      BY <1>1, <2>1, <2>2, <2>3 DEF Connection
  <1>2. CASE s.level # 1
    <2>1. BDCommit(s) = [s EXCEPT !.level = s.level - 1]
      BY <1>2 DEF BDCommit, Connection
    <2>2. QED
      BY <1>2, <2>1 DEF Connection
  <1>3. QED
    BY <1>1, <1>2

LEMMA BDRollBackFields ==
    ASSUME NEW s \in Connection, s.open, CanTransact
    PROVE  /\ BDRollBack(s).open = s.open
           /\ BDRollBack(s).level = 0
           /\ BDRollBack(s).autocommit <=> (s.autocommit \/ ~MySQL)
           /\ BDRollBack(s).table = s.stored
           /\ BDRollBack(s).stored = s.stored
  <1>1. BDRollBack(s) = [Rollback(s) EXCEPT !.level = 0]
    BY DEF BDRollBack
  <1>2. Rollback(s) \in Connection
    BY DriverType DEF Connection
  <1>3. /\ Rollback(s).open = s.open
        /\ Rollback(s).autocommit <=> (s.autocommit \/ ~MySQL)
        /\ Rollback(s).table = s.stored
        /\ Rollback(s).stored = s.stored
    BY DEF Connection, Rollback
  <1>4. QED
    BY <1>1, <1>2, <1>3 DEF Connection

\* Without a connection, or with a driver that has no transactions, the three
\* calls do nothing.
LEMMA NoTransactions ==
    ASSUME NEW s, ~s.open \/ ~CanTransact
    PROVE  BDBeginTrans(s) = s /\ BDCommit(s) = s /\ BDRollBack(s) = s
  BY DEF BDBeginTrans, BDCommit, BDRollBack

LEMMA ClosedFields ==
    ASSUME NEW s \in Connection
    PROVE  /\ Opened(s).open /\ ~Closed(s).open
           /\ Opened(s).level = 0 /\ Closed(s).level = 0
           /\ Opened(s).autocommit /\ Closed(s).autocommit
           /\ Opened(s).table = s.stored /\ Closed(s).table = s.stored
           /\ Opened(s).stored = s.stored /\ Closed(s).stored = s.stored
  BY DEF Connection, Opened, Closed, NotConnected

-----------------------------------------------------------------------------
(* What every call preserves: the counter agrees with the driver, and       *)
(* autocommit mode leaves nothing unsaved.                                  *)

Sound(s) ==
    /\ s \in Connection
    /\ s.level > 0 => ~s.autocommit
    /\ s.open /\ ~MySQL => (s.level > 0 <=> ~s.autocommit)
    /\ s.autocommit => s.stored = s.table

LEMMA DriverSound ==
    ASSUME NEW s, Sound(s), NEW t \in Tables
    PROVE  /\ Sound(ExecuteSQL(s, t))
           /\ Sound(ExecuteDDL(s, t))
           /\ Sound(RestartTrans(s))
           /\ Sound(Opened(s))
           /\ Sound(Closed(s))
  <1>1. s \in Connection
    BY DEF Sound
  <1>2. Sound(ExecuteSQL(s, t)) /\ Sound(ExecuteDDL(s, t))
    BY <1>1, ExecuteFields, DriverType DEF Sound
  <1>3. Sound(RestartTrans(s))
    <2>1. CASE MySQL
      BY <1>1, <2>1, BeginTransFields, DriverType DEF Sound, RestartTrans
    <2>2. CASE ~MySQL
      BY <2>2 DEF RestartTrans
    <2>3. QED
      BY <2>1, <2>2
  <1>4. Sound(Opened(s))
    <2>1. Opened(s) \in Connection
      BY <1>1, DriverType
    <2>2. QED
      BY <1>1, <2>1, ClosedFields DEF Sound
  <1>5. Sound(Closed(s))
    <2>1. Closed(s) \in Connection
      BY <1>1, DriverType
    <2>2. QED
      BY <1>1, <2>1, ClosedFields DEF Sound
  <1>6. QED
    BY <1>2, <1>3, <1>4, <1>5

LEMMA CallSound ==
    ASSUME NEW s, Sound(s)
    PROVE  /\ Sound(BDBeginTrans(s))
           /\ Sound(BDCommit(s))
           /\ Sound(BDRollBack(s))
  <1>1. s \in Connection /\ s.level \in Int
    BY DEF Sound, Connection
  <1>2. CASE ~s.open \/ ~CanTransact
    BY <1>2, NoTransactions
  <1>3. CASE s.open /\ CanTransact
    <2>1. Sound(BDBeginTrans(s))
      BY <1>1, <1>3, BDBeginTransFields, CallType DEF Sound
    <2>2. Sound(BDCommit(s))
      BY <1>1, <1>3, BDCommitFields, CallType DEF Sound
    <2>3. Sound(BDRollBack(s))
      BY <1>1, <1>3, BDRollBackFields, CallType DEF Sound
    <2>4. QED
      BY <2>1, <2>2, <2>3
  <1>4. QED
    BY <1>2, <1>3

-----------------------------------------------------------------------------
(* BDFTypeDelete in its four outcomes. It either keeps the level, and its   *)
(* effect is saved just when a plain update's would be (MySQL saves it in   *)
(* any case), or it rolls back everything that is open.                     *)

Kept(s, r) ==
    /\ r.level = s.level
    /\ MySQL => r.stored = r.table
    /\ ~MySQL => r.stored = IF s.autocommit THEN r.table ELSE s.stored

RolledBack(s, r) ==
    /\ r.level = 0
    /\ r.table = r.stored
    /\ s.level > 0 \/ (s.level = 0 /\ ~MySQL) => r.stored = s.stored

LEMMA RestartFields ==
    ASSUME NEW s \in Connection
    PROVE  /\ RestartTrans(s).open = s.open
           /\ RestartTrans(s).level = s.level
           /\ RestartTrans(s).table = s.table
           /\ RestartTrans(s).stored = IF MySQL THEN s.table ELSE s.stored
  <1>1. CASE MySQL
    BY <1>1, BeginTransFields DEF RestartTrans
  <1>2. CASE ~MySQL
    BY <1>2 DEF RestartTrans
  <1>3. QED
    BY <1>1, <1>2

LEMMA DeleteSound ==
    ASSUME NEW s, Sound(s), NEW t \in Tables, NEW dropped \in Tables
    PROVE  /\ Sound(BDFTypeDelete(s, t))
           /\ Sound(BDFTypeDeleteFails(s, t))
           /\ Sound(BDFTypeDrop(s, dropped, t))
           /\ Sound(BDFTypeDropFails(s, dropped))
  <1>1. Sound(BDBeginTrans(s))
    BY CallSound
  <1>2. Sound(BDFTypeDelete(s, t))
    BY <1>1, DriverSound, CallSound DEF BDFTypeDelete
  <1>3. Sound(BDFTypeDeleteFails(s, t))
    BY <1>1, DriverSound, CallSound DEF BDFTypeDeleteFails
  <1>4. Sound(ExecuteDDL(BDCommit(BDBeginTrans(s)), dropped))
    BY <1>1, DriverSound, CallSound
  <1>5. Sound(BDFTypeDrop(s, dropped, t))
    BY <1>4, DriverSound DEF BDFTypeDrop
  <1>6. Sound(BDFTypeDropFails(s, dropped))
    BY <1>4, DriverSound DEF BDFTypeDropFails
  <1>7. QED
    BY <1>2, <1>3, <1>5, <1>6

LEMMA DeleteSteps ==
    ASSUME NEW s, Sound(s), s.open, NEW t \in Tables, NEW dropped \in Tables,
           NEW r \in {BDFTypeDelete(s, t), BDFTypeDeleteFails(s, t),
                      BDFTypeDrop(s, dropped, t), BDFTypeDropFails(s, dropped)}
    PROVE  Kept(s, r) \/ RolledBack(s, r)
  <1> DEFINE b == BDBeginTrans(s)
             w == ExecuteSQL(b, t)
             c == BDCommit(b)
             d == ExecuteDDL(c, dropped)
  <1>1. s \in Connection /\ s.level \in Int
    BY DEF Sound, Connection
  <1>2. /\ b \in Connection /\ w \in Connection
        /\ c \in Connection /\ d \in Connection
    <2>1. b \in Connection
      BY <1>1, CallType
    <2>2. c \in Connection
      BY <2>1, CallType
    <2>3. QED
      BY <2>1, <2>2, DriverType
  <1> HIDE DEF b, c
  <1>3. /\ w.open = b.open /\ w.level = b.level
        /\ w.autocommit <=> b.autocommit
        /\ w.table = t
        /\ w.stored = IF b.autocommit THEN t ELSE b.stored
    BY <1>2, ExecuteFields
  <1>4. /\ d.level = c.level
        /\ d.autocommit <=> c.autocommit
        /\ d.table = dropped
        /\ d.stored = IF MySQL \/ c.autocommit THEN dropped ELSE c.stored
    BY <1>2, ExecuteFields
  <1> HIDE DEF w, d
  <1>5. ASSUME CanTransact
        PROVE  /\ b.open /\ b.level = s.level + 1
               /\ b.autocommit <=> (s.level # 0 /\ s.autocommit)
               /\ b.stored = IF MySQL /\ s.level = 0 THEN s.table ELSE s.stored
               /\ c.level = s.level
               /\ c.autocommit <=>
                    (b.autocommit \/ (b.level = 1 /\ ~MySQL))
               /\ c.stored = IF b.level = 1 THEN s.table ELSE b.stored
    <2>1. /\ b.open /\ b.level = s.level + 1
          /\ b.autocommit <=> (s.level # 0 /\ s.autocommit)
          /\ b.table = s.table
          /\ b.stored = IF MySQL /\ s.level = 0 THEN s.table ELSE s.stored
      BY <1>1, <1>5, BDBeginTransFields DEF b
    <2>2. /\ c.level = b.level - 1
          /\ c.autocommit <=> (b.autocommit \/ (b.level = 1 /\ ~MySQL))
          /\ c.stored = IF b.level = 1 THEN b.table ELSE b.stored
      BY <1>2, <1>5, <2>1, BDCommitFields DEF c
    <2>3. QED
      BY <1>1, <2>1, <2>2
  <1>6. ASSUME ~CanTransact
        PROVE  b = s /\ c = s
    BY <1>6, NoTransactions DEF b, c
  <1>7. CASE r = BDFTypeDelete(s, t)
    <2> DEFINE e == BDCommit(w)
    <2>1. r = RestartTrans(e) /\ e \in Connection
      BY <1>2, <1>7, CallType DEF BDFTypeDelete, b, w
    <2>2. CASE CanTransact
      <3>1. /\ e.level = w.level - 1
            /\ e.table = w.table
            /\ e.stored = IF w.level = 1 THEN w.table ELSE w.stored
        BY <1>2, <1>3, <1>5, <2>2, BDCommitFields
      <3> HIDE DEF e
      <3>2. Kept(s, r)
        BY <1>1, <1>3, <1>5, <2>1, <2>2, <3>1, RestartFields DEF Kept, Sound
      <3>3. QED
        BY <3>2
    <2>3. CASE ~CanTransact
      <3>1. e = w
        BY <2>3, NoTransactions
      <3> HIDE DEF e
      <3>2. Kept(s, r)
        BY <1>1, <1>3, <1>6, <2>1, <2>3, <3>1, RestartFields DEF Kept
      <3>3. QED
        BY <3>2
    <2>4. QED
      BY <2>2, <2>3
  <1>8. CASE r = BDFTypeDeleteFails(s, t)
    <2> DEFINE e == BDRollBack(w)
    <2>1. r = RestartTrans(e) /\ e \in Connection
      BY <1>2, <1>8, CallType DEF BDFTypeDeleteFails, b, w
    <2>2. CASE CanTransact
      <3>1. e.level = 0 /\ e.table = w.stored /\ e.stored = w.stored
        BY <1>2, <1>3, <1>5, <2>2, BDRollBackFields
      <3> HIDE DEF e
      <3>2. RolledBack(s, r)
        BY <1>1, <1>3, <1>5, <2>1, <2>2, <3>1, RestartFields
        DEF RolledBack, Sound
      <3>3. QED
        BY <3>2
    <2>3. CASE ~CanTransact
      <3>1. e = w
        BY <2>3, NoTransactions
      <3> HIDE DEF e
      <3>2. Kept(s, r)
        BY <1>1, <1>3, <1>6, <2>1, <2>3, <3>1, RestartFields DEF Kept
      <3>3. QED
        BY <3>2
    <2>4. QED
      BY <2>2, <2>3
  <1>9. CASE r = BDFTypeDrop(s, dropped, t)
    <2> DEFINE e == ExecuteSQL(d, t)
    <2>1. r = RestartTrans(e) /\ e \in Connection
      BY <1>2, <1>9, DriverType DEF BDFTypeDrop, b, c, d
    <2>2. /\ e.level = d.level
          /\ e.table = t
          /\ e.stored = IF d.autocommit THEN t ELSE d.stored
      BY <1>2, ExecuteFields
    <2> HIDE DEF e
    <2>3. Kept(s, r)
      BY <1>1, <1>4, <1>5, <1>6, <2>1, <2>2, RestartFields DEF Kept, Sound
    <2>4. QED
      BY <2>3
  <1>10. CASE r = BDFTypeDropFails(s, dropped)
    <2>1. r = RestartTrans(d)
      BY <1>10 DEF BDFTypeDropFails, b, c, d
    <2>2. Kept(s, r)
      BY <1>1, <1>2, <1>4, <1>5, <1>6, <2>1, RestartFields DEF Kept, Sound
    <2>3. QED
      BY <2>2
  <1>11. QED
    BY <1>7, <1>8, <1>9, <1>10

-----------------------------------------------------------------------------
(* The inductive invariant of a client that makes these calls in any order.  *)

TransInv ==
    /\ Sound(db)
    /\ db.level \in -MaxLevel..MaxLevel
    /\ Disciplined => db.level >= 0

LEMMA InitInv == TransInit => TransInv
  <1> SUFFICES ASSUME TransInit PROVE TransInv
    OBVIOUS
  <1>1. PICK t \in Tables : db = NotConnected(t)
    BY DEF TransInit
  <1>2. QED
    BY <1>1, NRDBTransAssumption
    DEF TransInv, Sound, Connection, NotConnected

LEMMA StepInv == TransInv /\ [TransNext]_db => TransInv'
  <1> SUFFICES ASSUME TransInv, [TransNext]_db PROVE TransInv'
    OBVIOUS
  <1> USE NRDBTransAssumption
  <1>1. /\ Sound(db) /\ db \in Connection /\ db.level \in Int
        /\ db.stored \in Tables
    BY DEF TransInv, Sound, Connection
  <1>2. CASE Connect
    <2>1. Sound(Opened(db)) /\ Opened(db).level = 0
      BY <1>1, DriverSound, ClosedFields
    <2>2. QED
      BY <1>2, <2>1 DEF TransInv, Connect
  <1>3. CASE Begin
    <2>1. Sound(BDBeginTrans(db))
      BY <1>1, CallSound
    <2>2. BDBeginTrans(db).level \in {db.level, db.level + 1}
      BY <1>1, BDBeginTransFields, NoTransactions
    <2>3. QED
      BY <1>1, <1>3, <2>1, <2>2 DEF TransInv, Begin
  <1>4. CASE Commit
    <2>1. Sound(BDCommit(db))
      BY <1>1, CallSound
    <2>2. BDCommit(db).level \in {db.level, db.level - 1}
      BY <1>1, BDCommitFields, NoTransactions
    <2>3. QED
      BY <1>1, <1>4, <2>1, <2>2 DEF TransInv, Commit
  <1>5. CASE RollBack
    <2>1. Sound(BDRollBack(db))
      BY <1>1, CallSound
    <2>2. BDRollBack(db).level \in {db.level, 0}
      BY <1>1, BDRollBackFields, NoTransactions
    <2>3. QED
      BY <1>1, <1>5, <2>1, <2>2 DEF TransInv, RollBack
  <1>6. CASE Write
    <2>1. PICK t \in Tables : db' = ExecuteSQL(db, t)
      BY <1>6 DEF Write
    <2>2. Sound(ExecuteSQL(db, t)) /\ ExecuteSQL(db, t).level = db.level
      BY <1>1, DriverSound, ExecuteFields
    <2>3. QED
      BY <2>1, <2>2 DEF TransInv
  <1>7. CASE CreateFType
    <2>1. PICK t \in Tables : db' = RestartTrans(ExecuteDDL(db, t))
      BY <1>7 DEF CreateFType, BDFTypeCreate
    <2>2. /\ Sound(ExecuteDDL(db, t)) /\ ExecuteDDL(db, t) \in Connection
          /\ ExecuteDDL(db, t).level = db.level
      BY <1>1, DriverSound, DriverType, ExecuteFields
    <2>3. Sound(RestartTrans(ExecuteDDL(db, t)))
      BY <2>2, DriverSound
    <2>4. RestartTrans(ExecuteDDL(db, t)).level = db.level
      BY <2>2, RestartFields
    <2>5. QED
      BY <2>1, <2>3, <2>4 DEF TransInv
  <1>8. CASE UpdateFType
    <2>1. PICK t \in Tables : db' = ExecuteDDL(db, t)
      BY <1>8 DEF UpdateFType, BDFTypeUpdate
    <2>2. Sound(ExecuteDDL(db, t)) /\ ExecuteDDL(db, t).level = db.level
      BY <1>1, DriverSound, ExecuteFields
    <2>3. QED
      BY <2>1, <2>2 DEF TransInv
  <1>9. CASE DeleteFType
    <2>1. PICK t \in Tables, dropped \in Tables :
            db' \in {BDFTypeDelete(db, t), BDFTypeDeleteFails(db, t),
                    BDFTypeDrop(db, dropped, t), BDFTypeDropFails(db, dropped)}
      BY <1>9 DEF DeleteFType
    <2>2. Sound(db')
      BY <1>1, <2>1, DeleteSound
    <2>3. db.open
      BY <1>9 DEF DeleteFType
    <2>4. Kept(db, db') \/ RolledBack(db, db')
      BY <1>1, <2>1, <2>3, DeleteSteps
    <2>5. QED
      BY <2>2, <2>4 DEF TransInv, Kept, RolledBack
  <1>10. CASE Disconnect
    <2>1. Sound(Closed(db)) /\ Closed(db).level = 0
      BY <1>1, DriverSound, ClosedFields
    <2>2. QED
      BY <1>10, <2>1 DEF TransInv, Disconnect
  <1>11. CASE UNCHANGED db
    BY <1>11 DEF TransInv, Sound
  <1>12. QED
    BY <1>2, <1>3, <1>4, <1>5, <1>6, <1>7, <1>8, <1>9, <1>10, <1>11
    DEF TransNext

LEMMA Invariance == TransSpec => []TransInv
  BY InitInv, StepInv, PTL DEF TransSpec

\* Whatever sequence of calls a client makes, on either driver and with or
\* without transactions, the connection stays well formed and the counter
\* within the client's own bound.
THEOREM TypeCorrect == TransSpec => []TransTypeOK
  <1>1. TransInv => TransTypeOK
    BY DEF TransInv, TransTypeOK, Sound
  <1>2. QED
    BY <1>1, Invariance, PTL

\* The counter BDGetTransLevel returns agrees with the driver's mode, for
\* every client, the one that commits more than it began included.
THEOREM CounterMatchesDriver == TransSpec => []LevelMatchesDriver
  <1>1. TransInv => LevelMatchesDriver
    BY DEF TransInv, LevelMatchesDriver, Sound
  <1>2. QED
    BY <1>1, Invariance, PTL

\* In autocommit mode the connection has nothing that is not saved.
THEOREM NothingPendingInAutocommit == TransSpec => []AutocommitSaves
  <1>1. TransInv => AutocommitSaves
    BY DEF TransInv, AutocommitSaves, Sound
  <1>2. QED
    BY <1>1, Invariance, PTL

\* The assertion of BDCommit holds for every client that commits only a
\* transaction that is open, whatever it rolls back in between.
THEOREM CommitAssertion ==
    ASSUME Disciplined
    PROVE  TransSpec => []LevelNeverNegative
  <1>1. TransInv => LevelNeverNegative
    BY DEF TransInv, LevelNeverNegative
  <1>2. QED
    BY <1>1, Invariance, PTL

-----------------------------------------------------------------------------
(* Refinement of NestedTrans                                                *)

LEMMA StepRefines ==
    ASSUME Disciplined, TransInv, [TransNext]_db
    PROVE  [NT!Next]_NT!ntVars
  <1>1. /\ Sound(db) /\ db \in Connection
        /\ db.level \in Int /\ db.level >= 0
        /\ db.stored \in Tables /\ db.table \in Tables
    BY DEF TransInv, Sound, Connection
  <1>2. CASE Connect \/ Disconnect
    <2>1. db'.level = 0 /\ db'.table = db.stored /\ db'.stored = db.stored
      BY <1>1, <1>2, ClosedFields DEF Connect, Disconnect
    <2>2. NT!Abort
      BY <2>1 DEF NT!Abort
    <2>3. QED
      BY <2>2 DEF NT!Next
  <1>3. CASE Begin
    <2>1. CASE CanTransact
      <3>1. /\ db'.level = db.level + 1
            /\ db'.table = db.table
            /\ db'.stored = IF MySQL /\ db.level = 0 THEN db.table ELSE db.stored
        BY <1>1, <1>3, <2>1, BDBeginTransFields DEF Begin
      <3>2. NT!Begin
        BY <3>1 DEF NT!Begin
      <3>3. QED
        BY <3>2 DEF NT!Next
    <2>2. CASE ~CanTransact
      BY <1>3, <2>2, NoTransactions DEF Begin, NT!ntVars
    <2>3. QED
      BY <2>1, <2>2
  <1>4. CASE Commit
    <2>1. CASE CanTransact
      <3>1. /\ db'.level = db.level - 1
            /\ db'.table = db.table
            /\ db'.stored = IF db.level = 1 THEN db.table ELSE db.stored
        BY <1>1, <1>4, <2>1, BDCommitFields DEF Commit
      <3>2. NT!Commit
        BY <1>1, <1>4, <3>1 DEF NT!Commit, Commit
      <3>3. QED
        BY <3>2 DEF NT!Next
    <2>2. CASE ~CanTransact
      BY <1>4, <2>2, NoTransactions DEF Commit, NT!ntVars
    <2>3. QED
      BY <2>1, <2>2
  <1>5. CASE RollBack
    <2>1. CASE CanTransact
      <3>1. /\ db'.level = 0
            /\ db'.table = db.stored
            /\ db'.stored = db.stored
        BY <1>1, <1>5, <2>1, BDRollBackFields DEF RollBack
      <3>2. NT!Abort
        BY <3>1 DEF NT!Abort
      <3>3. QED
        BY <3>2 DEF NT!Next
    <2>2. CASE ~CanTransact
      BY <1>5, <2>2, NoTransactions DEF RollBack, NT!ntVars
    <2>3. QED
      BY <2>1, <2>2
  <1>6. CASE Write
    <2>1. PICK t \in Tables : db' = ExecuteSQL(db, t)
      BY <1>6 DEF Write
    <2>2. /\ db'.level = db.level
          /\ db'.table = t
          /\ db'.stored = IF db.autocommit THEN t ELSE db.stored
      BY <1>1, <2>1, ExecuteFields
    <2>3. db.autocommit => db.level = 0
      BY <1>1 DEF Sound
    <2>4. ~db.autocommit /\ ~MySQL => db.level > 0
      BY <1>1, <1>6 DEF Sound, Write
    <2>5. NT!Update
      BY <2>2, <2>3, <2>4 DEF NT!Update
    <2>6. QED
      BY <2>5 DEF NT!Next
  <1>7. ASSUME NEW r, r \in Connection, db.open, db' = r, Kept(db, r)
        PROVE  NT!Next
    <2>1. r.table \in Tables
      BY <1>7 DEF Connection
    <2>2. CASE MySQL
      <3>1. NT!ChangeSchema
        BY <1>7, <2>1, <2>2 DEF NT!ChangeSchema, Kept
      <3>2. QED
        BY <3>1 DEF NT!Next
    <2>3. CASE ~MySQL
      <3>1. db.autocommit <=> db.level = 0
        BY <1>1, <1>7, <2>3 DEF Sound
      <3>2. NT!Update
        BY <1>1, <1>7, <2>1, <2>3, <3>1 DEF NT!Update, Kept
      <3>3. QED
        BY <3>2 DEF NT!Next
    <2>4. QED
      BY <2>2, <2>3
  <1>8. CASE CreateFType
    <2>1. PICK t \in Tables : db' = RestartTrans(ExecuteDDL(db, t))
      BY <1>8 DEF CreateFType, BDFTypeCreate
    <2>2. ExecuteDDL(db, t) \in Connection
      BY <1>1, DriverType
    <2>3. RestartTrans(ExecuteDDL(db, t)) \in Connection
      BY <2>2, <1>1, DriverType
    <2>4. Kept(db, RestartTrans(ExecuteDDL(db, t)))
      BY <1>1, <2>2, ExecuteFields, RestartFields DEF Kept
    <2>5. QED
      BY <1>7, <1>8, <2>1, <2>3, <2>4 DEF CreateFType
  <1>9. CASE UpdateFType
    <2>1. PICK t \in Tables : db' = ExecuteDDL(db, t)
      BY <1>9 DEF UpdateFType, BDFTypeUpdate
    <2>2. ExecuteDDL(db, t) \in Connection
      BY <1>1, DriverType
    <2>3. Kept(db, ExecuteDDL(db, t))
      BY <1>1, ExecuteFields DEF Kept
    <2>4. QED
      BY <1>7, <1>9, <2>1, <2>2, <2>3 DEF UpdateFType
  <1>10. CASE DeleteFType
    <2>1. PICK t \in Tables, dropped \in Tables :
            db' \in {BDFTypeDelete(db, t), BDFTypeDeleteFails(db, t),
                    BDFTypeDrop(db, dropped, t), BDFTypeDropFails(db, dropped)}
      BY <1>10 DEF DeleteFType
    <2>2. db.open
      BY <1>10 DEF DeleteFType
    <2>3. Sound(db') /\ db' \in Connection
      BY <1>1, <2>1, DeleteSound DEF Sound
    <2>4. CASE Kept(db, db')
      BY <1>7, <2>2, <2>3, <2>4
    <2>5. CASE RolledBack(db, db')
      <3>1. db'.stored \in Tables
        BY <2>3 DEF Connection
      <3>2. NT!Abort \/ NT!ChangeSchema
        BY <1>1, <2>5, <3>1 DEF NT!Abort, NT!ChangeSchema, RolledBack
      <3>3. QED
        BY <3>2 DEF NT!Next
    <2>6. QED
      BY <1>1, <2>1, <2>2, <2>4, <2>5, DeleteSteps
  <1>11. CASE UNCHANGED db
    BY <1>11 DEF NT!ntVars
  <1>12. QED
    BY <1>2, <1>3, <1>4, <1>5, <1>6, <1>8, <1>9, <1>10, <1>11 DEF TransNext

\* For a client that commits only a transaction that is open, BDTrans.cpp and
\* the table functions of BDFTypeCreate.cpp implement nested transactions.
THEOREM NestedTransactions ==
    ASSUME Disciplined
    PROVE  TransSpec => ImplementsNestedTrans
  <1>1. TransInit => NT!Init
    <2> SUFFICES ASSUME TransInit PROVE NT!Init
      OBVIOUS
    <2>1. PICK t \in Tables : db = NotConnected(t)
      BY DEF TransInit
    <2>2. QED
      BY <2>1 DEF NT!Init, NotConnected
  <1>2. TransInv /\ [TransNext]_db => [NT!Next]_NT!ntVars
    BY StepRefines
  <1>3. QED
    BY <1>1, <1>2, Invariance, PTL
    DEF TransSpec, ImplementsNestedTrans, NT!Spec
=============================================================================
