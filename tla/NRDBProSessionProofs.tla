------------------------- MODULE NRDBProSessionProofs -------------------------
(***************************************************************************)
(* Theorems about NRDBProSession, for any set of rows, either driver, with *)
(* or without transactions: the handlers compose the calls of BDTrans.cpp, *)
(* so their proofs compose the lemmas of NRDBTransProofs.                  *)
(***************************************************************************)
EXTENDS NRDBProSession, NRDBTransProofs

ImportScreens == {"import", "importing", "status"}

\* The dialogs that DialogsOutsideTrans speaks of, in use.
InDialog ==
    \/ screen \in {"ftypes", "ftypeattr", "features", "projection"}
    \/ screen \in {"attrs", "feature"} /\ back = "features"

Typed ==
    /\ screen \in Screens
    /\ back \in {"map", "features"}
    /\ edit \in {"none", "lines", "point"}
    /\ newObj \in BOOLEAN
    /\ canSave \in BOOLEAN
    /\ imported \in BOOLEAN
    /\ onError \in {"DisplayMessage", "ThrowException"}
    /\ base \in Tables
    /\ broken \in BOOLEAN
    /\ leaked \in BOOLEAN

\* Between two handlers one transaction is open at most, unless an exception has
\* left others. The level is -1 after the commit of an import that was rolled
\* back behind its back.
LevelOK ==
    /\ db.level \in -1..MaxLevel
    /\ ~leaked => db.level <= 1
    /\ ~CanTransact => db.level = 0
    /\ ~broken => db.level >= 0

\* Where the transaction is: an import has one of its own, as long as nothing has
\* rolled it back, and the dialogs outside of the map view have none; unless an
\* exception has left one that is still open.
PlaceOK ==
    /\ db.open <=> screen # "login"
    /\ InDialog /\ ~leaked => db.level <= 0
    /\ screen \in ImportScreens => db.level >= 0
    /\ screen \in ImportScreens /\ CanTransact /\ ~broken => db.level >= 1

\* Nothing has been saved since an open transaction was begun by a command.
BaseKept == ~MySQL /\ ~leaked /\ db.level > 0 => db.stored = base

SessionInv == Sound(db) /\ Typed /\ LevelOK /\ PlaceOK /\ BaseKept

-----------------------------------------------------------------------------
(* The calls of a handler, composed *)

\* From s to r nothing was begun or ended, and nothing saved if s was in a
\* transaction (of the ODBC driver).
Steady(s, r) ==
    /\ Sound(r)
    /\ r.open
    /\ r.level = s.level
    /\ ~MySQL /\ s.level > 0 => r.stored = s.stored

\* From s to r everything that was open has been rolled back.
Undone(s, r) ==
    /\ Sound(r)
    /\ r.open
    /\ r.level = IF CanTransact THEN 0 ELSE s.level

LEMMA StatementSteady ==
    ASSUME NEW s, Sound(s), s.open, NEW t \in Tables
    PROVE  /\ Steady(s, ExecuteSQL(s, t))
           /\ Steady(s, ExecuteDDL(s, t))
           /\ Steady(s, BDFTypeCreate(s, t))
           /\ Steady(s, BDFTypeUpdate(s, t))
  <1>1. s \in Connection
    BY DEF Sound
  <1>2. Steady(s, ExecuteSQL(s, t)) /\ Steady(s, ExecuteDDL(s, t))
    BY <1>1, DriverSound, ExecuteFields DEF Steady, Sound
  <1>3. Steady(s, BDFTypeCreate(s, t))
    <2> DEFINE d == ExecuteDDL(s, t)
    <2>1. d \in Connection /\ Sound(d) /\ Steady(s, d)
      BY <1>1, <1>2, DriverType, DriverSound
    <2> HIDE DEF d
    <2>2. Sound(RestartTrans(d))
      BY <2>1, DriverSound DEF Tables
    <2>3. Steady(s, RestartTrans(d))
      BY <2>1, <2>2, RestartFields DEF Steady
    <2> QED
      BY <2>3 DEF BDFTypeCreate, d
  <1> QED
    BY <1>2, <1>3 DEF BDFTypeUpdate

LEMMA SteadyTwice ==
    ASSUME NEW s, NEW q, NEW r, Steady(s, q), Steady(q, r)
    PROVE  Steady(s, r)
  BY DEF Steady

\* What a handler writes between its own begin and commit is steady, whether or
\* not a transaction was open before; a roll back undoes what was open, too.
LEMMA Wrapped ==
    ASSUME NEW s, Sound(s), s.open, NEW w, Steady(BDBeginTrans(s), w)
    PROVE  Steady(s, BDCommit(w)) /\ Undone(s, BDRollBack(w))
  <1> DEFINE b == BDBeginTrans(s)
  <1>1. /\ s \in Connection /\ s.level \in Int
        /\ Sound(w) /\ w \in Connection /\ w.level \in Int /\ w.open
        /\ w.level = b.level
        /\ ~MySQL /\ b.level > 0 => w.stored = b.stored
    BY DEF Sound, Connection, Steady
  <1>2. Sound(BDCommit(w)) /\ Sound(BDRollBack(w))
    BY <1>1, CallSound
  <1>3. CASE CanTransact
    <2>1. b.level = s.level + 1
          /\ b.stored = IF MySQL /\ s.level = 0 THEN s.table ELSE s.stored
      BY <1>1, <1>3, BDBeginTransFields
    <2>2. /\ BDCommit(w).open /\ BDCommit(w).level = w.level - 1
          /\ BDCommit(w).stored = IF w.level = 1 THEN w.table ELSE w.stored
          /\ BDRollBack(w).open /\ BDRollBack(w).level = 0
      BY <1>1, <1>3, BDCommitFields, BDRollBackFields
    <2>3. Undone(s, BDRollBack(w))
      BY <1>2, <1>3, <2>2 DEF Undone
    <2> HIDE DEF b
    <2>4. BDCommit(w).level = s.level
      <3>1. s.level \in Int /\ w.level = b.level
        BY <1>1
      <3>2. b.level = s.level + 1
        BY <2>1
      <3>3. BDCommit(w).level = w.level - 1
        BY <2>2
      <3> QED
        BY <3>1, <3>2, <3>3
    <2>5. ~MySQL /\ s.level > 0 => BDCommit(w).stored = s.stored
      BY <1>1, <2>1, <2>2
    <2> QED
      BY <1>2, <2>2, <2>3, <2>4, <2>5 DEF Steady
  <1>4. CASE ~CanTransact
    <2>1. b = s /\ BDCommit(w) = w /\ BDRollBack(w) = w
      BY <1>4, NoTransactions
    <2> QED
      BY <1>1, <1>2, <1>4, <2>1 DEF Steady, Undone
  <1> QED
    BY <1>3, <1>4

\* BDFTypeDelete ends as it began, or has rolled back.
LEMMA DeleteStill ==
    ASSUME NEW s, Sound(s), s.open, NEW t \in Tables, NEW dropped \in Tables,
           NEW r \in {BDFTypeDelete(s, t), BDFTypeDeleteFails(s, t),
                      BDFTypeDrop(s, dropped, t), BDFTypeDropFails(s, dropped)}
    PROVE  Sound(r) /\ r.open /\ r.level \in {0, s.level}
  <1>1. Sound(r) /\ s \in Connection
    BY DeleteSound DEF Sound
  <1>2. r.level \in {0, s.level}
    BY DeleteSteps DEF Kept, RolledBack
  <1>3. r.open
    <2>1. \A q \in Connection :
             q.open => /\ RestartTrans(q).open
                       /\ BDBeginTrans(q).open
                       /\ BDCommit(q).open
                       /\ BDRollBack(q).open
      <3> SUFFICES ASSUME NEW q \in Connection, q.open
                   PROVE  /\ RestartTrans(q).open
                          /\ BDBeginTrans(q).open
                          /\ BDCommit(q).open
                          /\ BDRollBack(q).open
        OBVIOUS
      <3>1. CASE CanTransact
        BY <3>1, RestartFields, BDBeginTransFields, BDCommitFields,
           BDRollBackFields
      <3>2. CASE ~CanTransact
        BY <3>2, RestartFields, NoTransactions
      <3> QED
        BY <3>1, <3>2
    <2>2. \A q \in Connection, u \in Tables :
             q.open => ExecuteSQL(q, u).open /\ ExecuteDDL(q, u).open
      BY ExecuteFields
    <2>3. \A q \in Connection, u \in Tables :
             /\ BDBeginTrans(q) \in Connection
             /\ BDCommit(q) \in Connection
             /\ BDRollBack(q) \in Connection
             /\ ExecuteSQL(q, u) \in Connection
             /\ ExecuteDDL(q, u) \in Connection
      BY CallType, DriverType
    <2> DEFINE b == BDBeginTrans(s)
               w == ExecuteSQL(b, t)
               d == ExecuteDDL(BDCommit(b), dropped)
               e == ExecuteSQL(d, t)
    <2>4. /\ b \in Connection /\ b.open
          /\ w \in Connection /\ w.open
          /\ d \in Connection /\ d.open
          /\ e \in Connection /\ e.open
      <3>1. b \in Connection /\ b.open
        BY <1>1, <2>1, <2>3
      <3>2. BDCommit(b) \in Connection /\ BDCommit(b).open
        BY <3>1, <2>1, <2>3
      <3> HIDE DEF b
      <3>3. w \in Connection /\ w.open /\ d \in Connection /\ d.open
        BY <3>1, <3>2, <2>2, <2>3
      <3> HIDE DEF w, d
      <3> QED
        BY <3>1, <3>3, <2>2, <2>3
    <2>6. /\ BDCommit(w) \in Connection /\ BDCommit(w).open
          /\ BDRollBack(w) \in Connection /\ BDRollBack(w).open
      <3> HIDE DEF w
      <3> QED
        BY <2>1, <2>3, <2>4
    <2>5. r \in {RestartTrans(BDCommit(w)), RestartTrans(BDRollBack(w)),
                RestartTrans(e), RestartTrans(d)}
      BY DEF BDFTypeDelete, BDFTypeDeleteFails, BDFTypeDrop, BDFTypeDropFails
    <2> HIDE DEF w, d, e
    <2> QED
      BY <2>1, <2>4, <2>6, <2>5
  <1> QED
    BY <1>1, <1>2, <1>3

-----------------------------------------------------------------------------
(* The lines that handlers share *)

LEMMA BeginSound ==
    ASSUME NEW s, Sound(s), s.open
    PROVE  Sound(BDBeginTrans(s)) /\ BDBeginTrans(s).open
  <1>1. s \in Connection /\ Sound(BDBeginTrans(s))
    BY CallSound DEF Sound
  <1>2. CASE CanTransact
    BY <1>1, <1>2, BDBeginTransFields
  <1>3. CASE ~CanTransact
    BY <1>1, <1>3, NoTransactions
  <1> QED
    BY <1>2, <1>3

\* A handler that commits what is open commits one level, and leaves nothing
\* open, or unsaved, where that was the only one.
LEMMA CommitIfOpenFields ==
    ASSUME NEW s, Sound(s), s.open, s.level \in Int,
           ~CanTransact => s.level = 0
    PROVE  /\ Sound(CommitIfOpen(s))
           /\ CommitIfOpen(s).open
           /\ CommitIfOpen(s).level = IF s.level > 0 THEN s.level - 1 ELSE s.level
           /\ CommitIfOpen(s).table = s.table
           /\ s.level = 1 => CommitIfOpen(s).stored = s.table
           /\ ~MySQL /\ s.level <= 1 => CommitIfOpen(s).stored = s.table
  <1>1. s \in Connection
    BY DEF Sound
  <1>2. CASE s.level > 0
    <2>1. CommitIfOpen(s) = BDCommit(s) /\ CanTransact
      BY <1>2 DEF CommitIfOpen
    <2> QED
      BY <1>1, <1>2, <2>1, CallSound, BDCommitFields
  <1>3. CASE ~(s.level > 0)
    BY <1>3 DEF CommitIfOpen, Sound
  <1> QED
    BY <1>2, <1>3

\* Undo is enabled: a transaction is open, in which nothing has been saved yet if
\* it is the command's own.
LEMMA EnableUndoFields ==
    ASSUME Sound(db), db.open, LevelOK
    PROVE  /\ Sound(EnableUndo)
           /\ EnableUndo.open
           /\ EnableUndo.level \in 0..MaxLevel
           /\ ~CanTransact => EnableUndo.level = 0
           /\ CanTransact /\ ~broken => EnableUndo.level >= 1
           /\ ~StillLeaked(CommitIfOpen(db)) => EnableUndo.level <= 1
           /\ ~MySQL /\ ~StillLeaked(CommitIfOpen(db)) =>
                 EnableUndo.stored = db.table
  <1> DEFINE c == CommitIfOpen(db)
  <1>1. /\ Sound(c) /\ c.open
        /\ c.level = IF db.level > 0 THEN db.level - 1 ELSE db.level
        /\ ~MySQL /\ db.level <= 1 => c.stored = db.table
    BY CommitIfOpenFields DEF LevelOK
  <1>2. c \in Connection /\ EnableUndo = BDBeginTrans(c)
    BY <1>1 DEF Sound, EnableUndo
  <1>3. /\ db.level \in -1..MaxLevel /\ MaxLevel \in Nat \ {0}
        /\ ~CanTransact => db.level = 0
        /\ ~broken => db.level >= 0
        /\ ~StillLeaked(c) => db.level <= 1
    <2> HIDE DEF c
    <2> QED
      BY <1>1, NRDBTransAssumption DEF LevelOK, StillLeaked
  <1> HIDE DEF c
  <1>4. Sound(EnableUndo)
    BY <1>1, <1>2, CallSound
  <1>5. /\ EnableUndo.open /\ EnableUndo.level \in 0..MaxLevel
        /\ ~CanTransact => EnableUndo.level = 0
        /\ CanTransact /\ ~broken => EnableUndo.level >= 1
        /\ ~StillLeaked(c) => EnableUndo.level <= 1
        /\ ~MySQL /\ ~StillLeaked(c) => EnableUndo.stored = db.table
    <2>1. CASE CanTransact
      <3>1. /\ EnableUndo.open /\ EnableUndo.level = c.level + 1
            /\ ~MySQL => EnableUndo.stored = c.stored
        BY <1>1, <1>2, <2>1, BDBeginTransFields
      <3> QED
        BY <1>1, <1>3, <2>1, <3>1
    <2>2. CASE ~CanTransact
      <3>1. EnableUndo = c
        BY <1>2, <2>2, NoTransactions
      <3> QED
        BY <1>1, <1>3, <2>2, <3>1
    <2> QED
      BY <2>1, <2>2
  <1> QED
    BY <1>4, <1>5 DEF c

-----------------------------------------------------------------------------
(* The inductive invariant. What a handler does to the connection is one of  *)
(* the above; the rest is where it leaves the user.                          *)

LEMMA SessionInit == Init => SessionInv
  <1> SUFFICES ASSUME Init
               PROVE  SessionInv
    OBVIOUS
  <1>1. PICK t \in Tables : db = NotConnected(t)
    BY DEF Init, TransInit
  <1>2. Sound(db) /\ db.level = 0 /\ ~db.open /\ db.stored = t
    BY <1>1 DEF Sound, Connection, NotConnected
  <1>3. Typed
    BY <1>2 DEF Init, Typed, Screens
  <1>4. LevelOK /\ PlaceOK /\ BaseKept
    BY <1>2, NRDBTransAssumption DEF Init, LevelOK, PlaceOK, BaseKept, InDialog,
       ImportScreens
  <1> QED
    BY <1>2, <1>3, <1>4 DEF SessionInv

\* Login, Logout and the end of the program
LEMMA ConnectionStep ==
    ASSUME SessionInv, Login \/ Logout \/ Crash
    PROVE  SessionInv'
  <1>1. Sound(db) /\ db \in Connection /\ db.stored \in Tables
    BY DEF SessionInv, Sound, Connection
  <1>2. CASE Login
    <2>1. Sound(db') /\ db'.open /\ db'.level = 0
      BY <1>1, <1>2, DriverSound, ClosedFields DEF Login
    <2>2. Typed'
      BY <1>2 DEF SessionInv, Typed, Login, Screens
    <2>3. LevelOK' /\ PlaceOK' /\ BaseKept'
      BY <1>2, <2>1, NRDBTransAssumption DEF LevelOK, PlaceOK, BaseKept, InDialog,
         Login, ImportScreens
    <2> QED
      BY <2>1, <2>2, <2>3 DEF SessionInv
  <1>3. CASE Logout \/ Crash
    <2>1. \E q : Sound(q) /\ db' = Closed(q)
      <3>1. CASE Logout
        <4>1. Sound(CommitIfOpen(db))
          BY <1>1, <3>1, CommitIfOpenFields DEF SessionInv, LevelOK, PlaceOK, Logout
        <4> QED
          BY <3>1, <4>1 DEF Logout
      <3>2. CASE Crash
        BY <1>1, <3>2 DEF Crash
      <3> QED
        BY <1>3, <3>1, <3>2
    <2>2. PICK q : Sound(q) /\ db' = Closed(q)
      BY <2>1
    <2>3. q \in Connection /\ q.stored \in Tables
      BY <2>2 DEF Sound, Connection
    <2>4. Sound(db') /\ ~db'.open /\ db'.level = 0
      BY <2>2, <2>3, DriverSound, ClosedFields
    <2>5. screen' = "login" /\ edit' = "none" /\ leaked' = FALSE
          /\ UNCHANGED <<back, newObj, canSave, imported, onError, base, broken>>
      BY <1>3 DEF Logout, Crash, import
    <2>6. Typed'
      BY <2>5 DEF SessionInv, Typed, Screens
    <2>7. LevelOK'
      BY <2>4, NRDBTransAssumption DEF LevelOK
    <2>8. PlaceOK' /\ BaseKept'
      BY <2>4, <2>5 DEF PlaceOK, BaseKept, InDialog, ImportScreens
    <2> QED
      BY <2>4, <2>6, <2>7, <2>8 DEF SessionInv
  <1> QED
    BY <1>2, <1>3

\* The commands that enable Undo
LEMMA CommandStep ==
    ASSUME SessionInv,
           \/ OnMapEditdata \/ OnMapEditfeature \/ StartEdit
           \/ OnLButtonUp \/ DropPoint \/ ImportStart
    PROVE  SessionInv'
  <1>1. Sound(db) /\ db.open /\ db.table \in Tables
    BY DEF SessionInv, Sound, Connection, PlaceOK, OnMapEditdata,
           OnMapEditfeature, StartEdit, OnLButtonUp, DropPoint, ImportStart
  <1>2. /\ Sound(EnableUndo) /\ EnableUndo.open
        /\ EnableUndo.level \in 0..MaxLevel
        /\ ~CanTransact => EnableUndo.level = 0
        /\ CanTransact /\ ~broken => EnableUndo.level >= 1
        /\ ~StillLeaked(CommitIfOpen(db)) => EnableUndo.level <= 1
        /\ ~MySQL /\ ~StillLeaked(CommitIfOpen(db)) =>
              EnableUndo.stored = db.table
    BY <1>1, EnableUndoFields DEF SessionInv
  <1>3. db' = EnableUndo \/ Steady(EnableUndo, db')
    <2>1. CASE DropPoint
      <3>1. PICK t \in Tables : db' = ExecuteSQL(EnableUndo, t)
        BY <2>1 DEF DropPoint
      <3> QED
        BY <1>2, <3>1, StatementSteady
    <2>2. CASE ~DropPoint
      BY <2>2 DEF OnMapEditdata, OnMapEditfeature, StartEdit, OnLButtonUp,
                  ImportStart
    <2> QED
      BY <2>1, <2>2
  <1>4. /\ broken' = broken /\ base' = db.table
        /\ leaked' = StillLeaked(CommitIfOpen(db))
    BY DEF OnMapEditdata, OnMapEditfeature, StartEdit, OnLButtonUp, DropPoint,
           ImportStart, CommandBegins
  <1>5. /\ Sound(db') /\ db'.open /\ db'.level \in 0..MaxLevel
        /\ ~CanTransact => db'.level = 0
        /\ CanTransact /\ ~broken => db'.level >= 1
        /\ ~leaked' => db'.level <= 1
        /\ ~MySQL /\ ~leaked' /\ db'.level > 0 => db'.stored = db.table
    BY <1>2, <1>3, <1>4 DEF Steady
  <1>6. Typed' /\ screen' # "login" /\ ~InDialog'
    BY <1>1, <1>4 DEF SessionInv, Typed, Screens, InDialog, OnMapEditdata,
       OnMapEditfeature, StartEdit, OnLButtonUp, DropPoint, ImportStart,
       StillLeaked, ui, import
  <1>7. LevelOK' /\ PlaceOK' /\ BaseKept'
    BY <1>4, <1>5, <1>6 DEF LevelOK, PlaceOK, BaseKept
  <1> QED
    BY <1>5, <1>6, <1>7 DEF SessionInv

\* The handlers that leave a transaction as they found it
LEMMA SteadyStep ==
    ASSUME SessionInv,
           \/ EndEditUpdate \/ EndEditAttrs \/ EndEditThrows \/ OtherUpdate
           \/ AttributesOK \/ AttributesCancel \/ FeatureClose
           \/ CloseDialog \/ UpdateInDialog \/ FeaturesEdit \/ FTypesEdit
           \/ FTypeAttrOK \/ FTypeAttrCancel
           \/ CreateFType2 \/ ImportOK \/ ImportRecord \/ ImportEnds \/ ImportThrows
    PROVE  SessionInv'
  <1>1. Sound(db) /\ db.open
    BY DEF SessionInv, PlaceOK, EndEditUpdate, EndEditAttrs, EndEditThrows, OtherUpdate,
       AttributesOK, AttributesCancel, FeatureClose, CloseDialog, UpdateInDialog,
       FeaturesEdit, FTypesEdit, FTypeAttrOK, FTypeAttrCancel, CreateFType2,
       ImportOK, ImportRecord, ImportEnds, ImportThrows
  <1>2. Steady(db, db)
    BY <1>1 DEF Steady
  <1>3. \A t \in Tables : Steady(db, ExecuteSQL(db, t)) /\ Steady(db, BDFTypeCreate(db, t))
    BY <1>1, StatementSteady
  <1>4. \A row, t \in Tables :
           LET written == ExecuteSQL(BDBeginTrans(db), row)
           IN  /\ Steady(db, BDCommit(written))
               /\ Steady(db, BDCommit(BDFTypeCreate(written, t)))
               /\ Steady(db, BDCommit(BDFTypeUpdate(written, t)))
    <2> SUFFICES ASSUME NEW row \in Tables, NEW t \in Tables
                 PROVE  LET written == ExecuteSQL(BDBeginTrans(db), row)
                        IN  /\ Steady(db, BDCommit(written))
                            /\ Steady(db, BDCommit(BDFTypeCreate(written, t)))
                            /\ Steady(db, BDCommit(BDFTypeUpdate(written, t)))
      OBVIOUS
    <2> DEFINE b == BDBeginTrans(db)
               written == ExecuteSQL(b, row)
    <2>1. Sound(b) /\ b.open
      BY <1>1, BeginSound
    <2> HIDE DEF b
    <2>2. Steady(b, written) /\ Sound(written) /\ written.open
      BY <2>1, StatementSteady DEF Steady
    <2> HIDE DEF written
    <2>3. /\ Steady(b, BDFTypeCreate(written, t))
          /\ Steady(b, BDFTypeUpdate(written, t))
      BY <2>2, StatementSteady, SteadyTwice
    <2>4. /\ Steady(db, BDCommit(written))
          /\ Steady(db, BDCommit(BDFTypeCreate(written, t)))
          /\ Steady(db, BDCommit(BDFTypeUpdate(written, t)))
      BY <1>1, <2>2, <2>3, Wrapped DEF b
    <2> QED
      BY <2>4 DEF b, written
  <1>5. Steady(db, db')
    <2>1. CASE EndEditUpdate \/ EndEditAttrs \/ EndEditThrows \/ OtherUpdate \/ UpdateInDialog
               \/ AttributesCancel \/ FeatureClose
      BY <1>2, <1>3, <2>1 DEF EndEditUpdate, EndEditAttrs, EndEditThrows, OtherUpdate,
         UpdateInDialog, AttributesCancel, FeatureClose, Save
    <2>2. CASE AttributesOK
      BY <1>4, <2>2 DEF AttributesOK
    <2>3. CASE FTypeAttrOK
      BY <1>4, <2>3 DEF FTypeAttrOK
    <2>4. CASE CreateFType2
      BY <1>4, <2>4 DEF CreateFType2
    <2>5. CASE ImportRecord
      BY <1>3, <2>5 DEF ImportRecord
    <2>6. CASE CloseDialog \/ FeaturesEdit \/ FTypesEdit \/ FTypeAttrCancel
               \/ ImportOK \/ ImportEnds \/ ImportThrows
      BY <1>2, <2>6 DEF CloseDialog, FeaturesEdit, FTypesEdit, FTypeAttrCancel,
         ImportOK, ImportEnds, ImportThrows
    <2> QED
      BY <2>1, <2>2, <2>3, <2>4, <2>5, <2>6
  <1>6. base' = base /\ broken' = broken /\ leaked' = leaked
    BY DEF EndEditUpdate, EndEditAttrs, EndEditThrows, OtherUpdate,
       AttributesOK, AttributesCancel, FeatureClose, CloseDialog, UpdateInDialog,
       FeaturesEdit, FTypesEdit, FTypeAttrOK, FTypeAttrCancel, CreateFType2,
       ImportOK, ImportRecord, ImportEnds, ImportThrows, history
  <1>7. /\ Typed' /\ screen' # "login"
        /\ InDialog' => InDialog
        /\ screen' \in ImportScreens => screen \in ImportScreens
    BY <1>6, ZenonT(60) DEF SessionInv, Typed, Screens, InDialog, ImportScreens, EndEditUpdate,
       EndEditAttrs, EndEditThrows, OtherUpdate,
       AttributesOK, AttributesCancel, FeatureClose, CloseDialog, UpdateInDialog,
       FeaturesEdit, FTypesEdit, FTypeAttrOK, FTypeAttrCancel, CreateFType2,
       ImportOK, ImportRecord, ImportEnds, ImportThrows, history, ui, import
  <1>8. LevelOK' /\ PlaceOK' /\ BaseKept'
    BY <1>5, <1>6, <1>7 DEF SessionInv, LevelOK, PlaceOK, BaseKept, Steady
  <1> QED
    BY <1>5, <1>7, <1>8 DEF SessionInv, Steady

\* The handlers that roll back
LEMMA UndoStep ==
    ASSUME SessionInv,
           \/ OnEditUndo \/ AttributesInvalid \/ FTypeAttrFails
           \/ CreateFType2Fails \/ StatusCancel
    PROVE  SessionInv'
  <1>1. Sound(db) /\ db.open
    BY DEF SessionInv, PlaceOK, OnEditUndo, AttributesInvalid, FTypeAttrFails,
       CreateFType2Fails, StatusCancel
  <1>2. Undone(db, BDRollBack(db))
    <2>1. db \in Connection /\ Sound(BDRollBack(db))
      BY <1>1, CallSound DEF Sound
    <2>2. CASE CanTransact
      BY <1>1, <2>1, <2>2, BDRollBackFields DEF Undone
    <2>3. CASE ~CanTransact
      BY <1>1, <2>3, NoTransactions DEF Undone
    <2> QED
      BY <2>2, <2>3
  <1>3. \A row, t \in Tables :
           LET written == ExecuteSQL(BDBeginTrans(db), row)
           IN  /\ Undone(db, BDRollBack(written))
               /\ Undone(db, BDRollBack(ExecuteDDL(written, t)))
    <2> SUFFICES ASSUME NEW row \in Tables, NEW t \in Tables
                 PROVE  LET written == ExecuteSQL(BDBeginTrans(db), row)
                        IN  /\ Undone(db, BDRollBack(written))
                            /\ Undone(db, BDRollBack(ExecuteDDL(written, t)))
      OBVIOUS
    <2> DEFINE b == BDBeginTrans(db)
               written == ExecuteSQL(b, row)
    <2>1. Sound(b) /\ b.open
      BY <1>1, BeginSound
    <2> HIDE DEF b
    <2>2. Steady(b, written) /\ Sound(written) /\ written.open
      BY <2>1, StatementSteady DEF Steady
    <2> HIDE DEF written
    <2>3. Steady(b, ExecuteDDL(written, t))
      BY <2>2, StatementSteady, SteadyTwice
    <2>4. /\ Undone(db, BDRollBack(written))
          /\ Undone(db, BDRollBack(ExecuteDDL(written, t)))
      BY <1>1, <2>2, <2>3, Wrapped DEF b
    <2> QED
      BY <2>4 DEF b, written
  <1>4. Undone(db, db')
    <2>1. CASE OnEditUndo \/ StatusCancel
      BY <1>2, <2>1 DEF OnEditUndo, StatusCancel
    <2>2. CASE AttributesInvalid
      BY <1>3, <2>2 DEF AttributesInvalid
    <2>3. CASE FTypeAttrFails \/ CreateFType2Fails
      BY <1>3, <2>3 DEF FTypeAttrFails, CreateFType2Fails
    <2> QED
      BY <2>1, <2>2, <2>3
  <1>5. db'.level = 0
    BY <1>4 DEF Undone, SessionInv, LevelOK
  <1>6. /\ Typed' /\ screen' # "login"
        /\ screen' \in ImportScreens => broken'
    BY DEF SessionInv, Typed, Screens, ImportScreens, OnEditUndo,
       AttributesInvalid, FTypeAttrFails, CreateFType2Fails, StatusCancel,
       ui, import
  <1>7. LevelOK' /\ PlaceOK' /\ BaseKept'
    BY <1>4, <1>5, <1>6, NRDBTransAssumption DEF LevelOK, PlaceOK, BaseKept, Undone
  <1> QED
    BY <1>4, <1>6, <1>7 DEF SessionInv, Undone

\* The exception leaves a level more, and says so.
LEMMA ThrowStep ==
    ASSUME SessionInv, AttributesThrows
    PROVE  SessionInv'
  <1>1. Sound(db) /\ db \in Connection /\ db.open /\ db.level < MaxLevel
    BY DEF SessionInv, Sound, PlaceOK, AttributesThrows
  <1> DEFINE b == BDBeginTrans(db)
  <1>2. Sound(b) /\ b.open
    BY <1>1, BeginSound
  <1>3. b.level = IF CanTransact THEN db.level + 1 ELSE db.level
    BY <1>1, BDBeginTransFields, NoTransactions
  <1> HIDE DEF b
  <1>4. PICK t \in Tables : db' = ExecuteSQL(b, t)
    BY DEF AttributesThrows, b
  <1>5. Sound(db') /\ db'.open /\ db'.level = b.level
    BY <1>2, <1>4, StatementSteady DEF Steady
  <1>6. /\ leaked' = (db'.level > 0)
        /\ UNCHANGED <<screen, back, edit, newObj, canSave, imported, onError,
                      base, broken>>
    BY DEF AttributesThrows, ui, import
  <1>7. Typed' /\ screen' = "attrs"
    BY <1>6 DEF SessionInv, Typed, AttributesThrows
  <1>8. LevelOK'
    BY <1>1, <1>3, <1>5, <1>6, NRDBTransAssumption DEF SessionInv, LevelOK
  <1>9. db'.level \in Int /\ (~leaked' => ~(db'.level > 0) /\ db'.level <= 0)
    BY <1>6, <1>8, NRDBTransAssumption DEF LevelOK
  <1>10. PlaceOK' /\ BaseKept'
    BY <1>5, <1>7, <1>9 DEF PlaceOK, BaseKept, ImportScreens
  <1> QED
    BY <1>5, <1>7, <1>8, <1>10 DEF SessionInv

\* The dialogs commit what the map view left open before they let the user in.
LEMMA OpenDialogStep ==
    ASSUME SessionInv, OpenDialog
    PROVE  SessionInv'
  <1>1. /\ Sound(db') /\ db'.open
        /\ db'.level = IF db.level > 0 THEN db.level - 1 ELSE db.level
    BY CommitIfOpenFields DEF SessionInv, LevelOK, PlaceOK, OpenDialog
  <1>2. /\ screen' # "login" /\ screen' \notin ImportScreens
        /\ leaked' = (leaked /\ db'.level > 0)
        /\ base' = base /\ broken' = broken
    BY DEF ImportScreens, OpenDialog, StillLeaked
  <1>3. Typed'
    BY DEF SessionInv, Typed, Screens, OpenDialog, StillLeaked, import
  <1>4. LevelOK' /\ (~leaked' => db'.level <= 0)
    <2>1. /\ db.level \in -1..MaxLevel /\ MaxLevel \in Nat \ {0}
          /\ leaked \in BOOLEAN
          /\ ~leaked => db.level <= 1
          /\ ~CanTransact => db.level = 0
          /\ ~broken => db.level >= 0
      BY NRDBTransAssumption DEF SessionInv, Typed, LevelOK
    <2>2. /\ db'.level \in -1..MaxLevel
          /\ ~leaked' => db'.level <= 0
          /\ ~CanTransact => db'.level = 0
          /\ ~broken' => db'.level >= 0
      BY <1>1, <1>2, <2>1
    <2> QED
      BY <2>2 DEF LevelOK
  <1>5. PlaceOK' /\ BaseKept'
    BY <1>1, <1>2, <1>4, NRDBTransAssumption DEF LevelOK, PlaceOK, BaseKept
  <1> QED
    BY <1>1, <1>3, <1>4, <1>5 DEF SessionInv

\* The exception at the end of BDFTypeDelete is outside of its transaction.
LEMMA DropThrowsSteady ==
    ASSUME NEW s, Sound(s), s.open, NEW dropped \in Tables
    PROVE  Steady(s, BDFTypeDropThrows(s, dropped))
  <1> DEFINE b == BDBeginTrans(s)
             c == BDCommit(b)
  <1>1. Sound(b) /\ b.open
    BY BeginSound
  <1> HIDE DEF b
  <1>2. Steady(b, b)
    BY <1>1 DEF Steady
  <1>3. Steady(s, c)
    BY <1>2, Wrapped DEF b
  <1> HIDE DEF c
  <1>4. Steady(c, ExecuteDDL(c, dropped))
    BY <1>3, StatementSteady DEF Steady
  <1> QED
    BY <1>3, <1>4, SteadyTwice DEF BDFTypeDropThrows, b, c

LEMMA FTypesDeleteStep ==
    ASSUME SessionInv, FTypesDelete
    PROVE  SessionInv'
  <1>1. Sound(db) /\ db.open /\ (~leaked => db.level <= 0)
    BY DEF SessionInv, PlaceOK, InDialog, FTypesDelete
  <1>2. PICK t \in Tables, dropped \in Tables :
           \/ db' \in {BDFTypeDelete(db, t), BDFTypeDeleteFails(db, t),
                       BDFTypeDrop(db, dropped, t), BDFTypeDropFails(db, dropped)}
           \/ db' = BDFTypeDropThrows(db, dropped)
    BY DEF FTypesDelete
  <1>3. Sound(db') /\ db'.open /\ db'.level \in {0, db.level}
    <2>1. CASE db' = BDFTypeDropThrows(db, dropped)
      BY <1>1, <2>1, DropThrowsSteady DEF Steady
    <2>2. CASE db' \in {BDFTypeDelete(db, t), BDFTypeDeleteFails(db, t),
                       BDFTypeDrop(db, dropped, t), BDFTypeDropFails(db, dropped)}
      BY <1>1, <2>2, DeleteStill, ZenonT(30)
    <2> QED
      BY <1>2, <2>1, <2>2
  <1>4. /\ UNCHANGED <<screen, back, edit, newObj, canSave, imported, onError,
                      base, broken>>
        /\ leaked' = (leaked /\ db'.level > 0)
    BY DEF FTypesDelete, StillLeaked, ui, import
  <1>5. /\ db'.level \in Int
        /\ ~leaked' => ~(db'.level > 0) /\ db'.level <= 0
    <2>1. leaked \in BOOLEAN /\ db.level \in Int
      BY NRDBTransAssumption DEF SessionInv, Typed, LevelOK
    <2> QED
      BY <1>1, <1>3, <1>4, <2>1
  <1>6. Typed'
    BY <1>4 DEF SessionInv, Typed
  <1>7. LevelOK'
    BY <1>3, <1>4, <1>5, NRDBTransAssumption DEF SessionInv, LevelOK
  <1>8. screen' = "ftypes"
    BY <1>4 DEF FTypesDelete
  <1>9. PlaceOK' /\ BaseKept'
    BY <1>3, <1>5, <1>8 DEF PlaceOK, BaseKept, ImportScreens
  <1> QED
    BY <1>3, <1>6, <1>7, <1>9 DEF SessionInv

\* The import's commit, and the compaction that may follow it
LEMMA StatusOKStep ==
    ASSUME SessionInv, StatusOK
    PROVE  SessionInv'
  <1> DEFINE c == BDCommit(db)
  <1>1. /\ Sound(db) /\ db \in Connection /\ db.open
        /\ db.level \in 0..MaxLevel /\ MaxLevel \in Nat \ {0}
        /\ ~leaked => db.level <= 1
        /\ ~CanTransact => db.level = 0
        /\ CanTransact /\ ~broken => db.level >= 1
    BY NRDBTransAssumption DEF SessionInv, Sound, LevelOK, PlaceOK, ImportScreens,
       StatusOK
  <1>2. /\ Sound(c) /\ c.open
        /\ c.level \in -1..MaxLevel
        /\ ~leaked => c.level <= 0
        /\ ~CanTransact => c.level = 0
        /\ ~broken => c.level >= 0
    <2>1. Sound(c)
      BY <1>1, CallSound
    <2>2. CASE CanTransact
      <3>1. c.open /\ c.level = db.level - 1
        BY <1>1, <2>2, BDCommitFields
      <3> HIDE DEF c
      <3> QED
        BY <1>1, <2>1, <2>2, <3>1
    <2>3. CASE ~CanTransact
      BY <1>1, <2>1, <2>3, NoTransactions
    <2> QED
      BY <2>2, <2>3
  <1>3. c \in Connection /\ c.stored \in Tables
    BY <1>2 DEF Sound, Connection
  <1> HIDE DEF c
  <1>4. /\ Sound(Opened(Closed(c))) /\ Opened(Closed(c)).open
        /\ Opened(Closed(c)).level = 0
    <2>1. Sound(Closed(c)) /\ Closed(c) \in Connection
      BY <1>2, <1>3, DriverSound DEF Sound
    <2> QED
      BY <1>3, <2>1, DriverSound, ClosedFields
  <1>5. db' = c \/ db' = Opened(Closed(c))
    BY DEF StatusOK, c
  <1>6. /\ Sound(db') /\ db'.open
        /\ db'.level \in -1..MaxLevel
        /\ ~leaked => db'.level <= 0
        /\ ~CanTransact => db'.level = 0
        /\ ~broken => db'.level >= 0
    BY <1>1, <1>2, <1>4, <1>5
  <1>7. /\ screen' = "map" /\ onError' = "DisplayMessage"
        /\ leaked' = (leaked /\ db'.level > 0)
        /\ UNCHANGED <<back, edit, newObj, canSave, imported, base, broken>>
    BY DEF StatusOK, StillLeaked
  <1>8. Typed'
    BY <1>7 DEF SessionInv, Typed, Screens
  <1>9. /\ LevelOK' /\ db'.level \in Int
        /\ ~leaked' => ~(db'.level > 0) /\ db'.level <= 0
    <2>1. db'.level \in Int /\ leaked \in BOOLEAN
      BY <1>1, <1>6 DEF SessionInv, Typed
    <2>2. ~leaked' => db'.level <= 0
      BY <1>6, <1>7, <2>1
    <2>3. LevelOK'
      BY <1>6, <1>7, <2>1, <2>2 DEF LevelOK
    <2> QED
      BY <2>1, <2>2, <2>3
  <1>10. PlaceOK' /\ BaseKept'
    BY <1>6, <1>7, <1>9 DEF PlaceOK, BaseKept, InDialog, ImportScreens
  <1> QED
    BY <1>6, <1>8, <1>9, <1>10 DEF SessionInv

LEMMA SessionInvariant == Spec => []SessionInv
  <1>1. SessionInv /\ [Next]_vars => SessionInv'
    <2>1. ASSUME SessionInv, UNCHANGED vars
          PROVE  SessionInv'
      BY <2>1 DEF SessionInv, Typed, LevelOK, PlaceOK, BaseKept, InDialog, vars
    <2> QED
      BY <2>1, ConnectionStep, CommandStep, SteadyStep, UndoStep, ThrowStep,
         OpenDialogStep, FTypesDeleteStep, StatusOKStep DEF Next
  <1> QED
    BY <1>1, SessionInit, PTL DEF Spec

-----------------------------------------------------------------------------
(* Theorems *)

\* The state of NRDB Pro is what TypeOK says: the level is bounded by nothing but
\* the bound on exceptions, since no sequence of handlers that return adds a
\* level to it.
THEOREM SessionTypeCorrect == Spec => []TypeOK
  <1>1. SessionInv => TypeOK
    BY NRDBTransAssumption DEF SessionInv, Typed, LevelOK, Sound, TypeOK, TransTypeOK
  <1> QED
    BY <1>1, SessionInvariant, PTL

\* With either driver every commit of NRDB Pro closes a transaction that is
\* open, exceptions or not, unless a feature type could not be created for an
\* import.
THEOREM SessionCommits == Spec => []CommitsMatchBegins
  <1>1. SessionInv => CommitsMatchBegins
    BY DEF SessionInv, LevelOK, CommitsMatchBegins, LevelNeverNegative
  <1> QED
    BY <1>1, SessionInvariant, PTL

\* With either driver no dialog that writes outside of transactions is used inside
\* one, unless an exception has left one open: what it writes is not taken back by
\* Undo in the map view.
THEOREM SessionDialogs == Spec => []DialogsOutsideTrans
  <1>1. SessionInv => DialogsOutsideTrans
    <2>1. SessionInv => db.level \in Int
      BY DEF SessionInv, LevelOK
    <2> QED
      BY <2>1 DEF SessionInv, LevelOK, PlaceOK, InDialog, DialogsOutsideTrans
  <1> QED
    BY <1>1, SessionInvariant, PTL

\* With the ODBC driver Undo takes back the whole of the last command, nothing of
\* which has been saved, and nothing before it, unless an exception has left a
\* transaction open. (With MySQL a table that is created saves what went before.)
THEOREM SessionUndo ==
    ASSUME ~MySQL
    PROVE  Spec => []UndoRestores
  <1>1. SessionInv => UndoRestores
    BY DEF SessionInv, BaseKept, UndoRestores
  <1> QED
    BY <1>1, SessionInvariant, PTL

\* With an ODBC driver that has transactions, an import that is cancelled in its
\* last dialog leaves the database as it was when it was begun, the feature types
\* created for it included, if its transaction was its own to the end.
THEOREM SessionCancel ==
    ASSUME ~MySQL, CanTransact
    PROVE  Spec => CancelledImportLeavesNothing
  <1>1. SessionInv /\ [Next]_vars =>
           [StatusCancel /\ ~broken /\ ~leaked => db'.table = base]_vars
    <2> SUFFICES ASSUME SessionInv, StatusCancel, ~broken, ~leaked
                 PROVE  db'.table = base
      OBVIOUS
    <2>1. db \in Connection /\ db.open /\ db.level >= 1 /\ db.level \in Int
      BY DEF SessionInv, Sound, LevelOK, PlaceOK, ImportScreens, StatusCancel
    <2>2. db.stored = base
      BY <2>1 DEF SessionInv, BaseKept
    <2>3. BDRollBack(db).table = db.stored
      BY <2>1, BDRollBackFields
    <2> QED
      BY <2>2, <2>3 DEF StatusCancel
  <1> QED
    BY <1>1, SessionInvariant, PTL DEF Spec, CancelledImportLeavesNothing

\* Logging out saves all that the user sees, with the ODBC driver, and with MySQL
\* if the map view's transaction is open, unless an exception has left a second.
THEOREM SessionLogout == Spec => LogoutSavesAll
  <1>1. SessionInv /\ [Next]_vars =>
           [ Logout /\ ~leaked /\ (MySQL => db.level > 0)
             => db'.stored = db.table ]_vars
    <2> SUFFICES ASSUME SessionInv, Logout, ~leaked, MySQL => db.level > 0
                 PROVE  db'.stored = db.table
      OBVIOUS
    <2>1. /\ Sound(db) /\ db.open /\ db.level \in Int /\ db.level <= 1
          /\ ~CanTransact => db.level = 0
      BY DEF SessionInv, LevelOK, PlaceOK, Logout
    <2>2. /\ Sound(CommitIfOpen(db))
          /\ db.level = 1 => CommitIfOpen(db).stored = db.table
          /\ ~MySQL => CommitIfOpen(db).stored = db.table
      BY <2>1, CommitIfOpenFields
    <2>3. CommitIfOpen(db).stored = db.table
      BY <2>1, <2>2
    <2>4. CommitIfOpen(db) \in Connection
      BY <2>2 DEF Sound
    <2> QED
      BY <2>3, <2>4, ClosedFields DEF Logout
  <1> QED
    BY <1>1, SessionInvariant, PTL DEF Spec, LogoutSavesAll
=============================================================================
