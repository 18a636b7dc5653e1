--------------------------- MODULE NRDBProSession ---------------------------
(***************************************************************************)
(* NRDB Pro's use of the transaction functions: the handlers of the map    *)
(* view, its dialogs and the import, with the calls each makes to          *)
(* BDBeginTrans, BDCommit and BDRollBack, on the one connection the        *)
(* program has. One action is one handler, from the message it answers to  *)
(* its return or to the modal dialog it opens.                             *)
(*                                                                         *)
(* The map view keeps a transaction open between commands, so that Undo    *)
(* can roll it back; every other part commits it first.                    *)
(*                                                                         *)
(* A statement that fails is shown and the call returns FALSE, or throws,  *)
(* as BDOnError says; one that ExecuteSQL sends throws in either mode. An  *)
(* exception that no TRY block catches ends the handler where it is, and   *)
(* MFC goes on with the window that has the input.                         *)
(***************************************************************************)
EXTENDS NRDBTrans

VARIABLES
    screen,    \* the window that has the user's input
    back,      \* where the attribute and feature dialogs return to
    edit,      \* the map view's edit mode: what EditMode(TRUE) started
    newObj,    \* the attribute dialog is for an object being added to the map
    canSave,   \* the import was not cancelled and imported something
    imported,  \* the import has written a record
    onError,   \* what a failing call does: CNRDBase::m_nOnError
    base,      \* the database when the last command began (history)
    broken,    \* since the login, creating a feature type has failed inside an
               \* import and rolled the import back (history)
    leaked     \* an exception has left a begin without its commit or roll back,
               \* and the level has not been 0 since (history)

ui == <<screen, back, edit, newObj>>
import == <<canSave, imported, onError>>
history == <<base, broken, leaked>>
vars == <<db, screen, back, edit, newObj, canSave, imported, onError,
          base, broken, leaked>>

Screens == {"login", "map", "attrs", "feature", "ftypes", "ftypeattr",
            "features", "projection", "import", "importing", "status"}

TypeOK ==
    /\ TransTypeOK
    /\ screen \in Screens
    /\ back \in {"map", "features"}
    /\ edit \in {"none", "lines", "point"}
    /\ newObj \in BOOLEAN
    /\ canSave \in BOOLEAN
    /\ imported \in BOOLEAN
    /\ onError \in {"DisplayMessage", "ThrowException"}
    /\ base \in Tables
    /\ broken \in BOOLEAN
    /\ leaked \in BOOLEAN

Init ==
    /\ TransInit
    /\ screen = "login"
    /\ back = "map"
    /\ edit = "none"
    /\ newObj = FALSE
    /\ canSave = FALSE
    /\ imported = FALSE
    /\ onError = "DisplayMessage"
    /\ base = db.stored
    /\ broken = FALSE
    /\ leaked = FALSE

-----------------------------------------------------------------------------
(* What the handlers share *)

\* Mutant: what the handlers share no longer commits.
M_CommitIfOpen(s) == s

\* if (BDGetTransLevel(BDHandle()) > 0) BDCommit(BDHandle());
CommitIfOpen(s) == IF s.level > 0 THEN BDCommit(s) ELSE s

\* Mutant: a command joins the transaction of the command before it.
M_EnableUndo == IF db.level > 0 THEN db ELSE BDBeginTrans(db)

\* "Enable undo": the lines that start every command of the map view.
EnableUndo == BDBeginTrans(CommitIfOpen(db))

\* What is leaked stays so as long as the level has not been 0: s is the
\* connection after a commit or a roll back.
StillLeaked(s) == leaked /\ s.level > 0

\* The history of a command of the map view.
CommandBegins ==
    /\ base' = db.table
    /\ leaked' = StillLeaked(CommitIfOpen(db))
    /\ UNCHANGED broken

\* One or more statements that the handler does not wrap in a transaction.
Save == \E t \in Tables : db' = ExecuteSQL(db, t)

-----------------------------------------------------------------------------
(* NRDBPro.cpp *)

Login ==
    /\ screen = "login"
    /\ db' = Opened(db)
    /\ screen' = "map"
    /\ onError' = "DisplayMessage"
    /\ broken' = FALSE
    /\ UNCHANGED <<back, edit, newObj, canSave, imported, base, leaked>>

\* Mutant: the connection is closed with the last command uncommitted.
M_Logout ==
    /\ screen = "map"
    /\ db' = Closed(db)
    /\ screen' = "login"
    /\ edit' = "none"
    /\ leaked' = FALSE
    /\ UNCHANGED <<back, newObj, import, base, broken>>

Logout ==
    /\ screen = "map"
    /\ db' = Closed(CommitIfOpen(db))
    /\ screen' = "login"
    /\ edit' = "none"
    /\ leaked' = FALSE
    /\ UNCHANGED <<back, newObj, import, base, broken>>

\* The program, or the connection, ends anywhere.
Crash ==
    /\ screen # "login"
    /\ db' = Closed(db)
    /\ screen' = "login"
    /\ edit' = "none"
    /\ leaked' = FALSE
    /\ UNCHANGED <<back, newObj, import, base, broken>>

-----------------------------------------------------------------------------
(* Viewmap.cpp *)

OnMapEditdata ==
    /\ screen = "map"
    /\ db' = EnableUndo
    /\ CommandBegins
    /\ screen' = "attrs"
    /\ back' = "map"
    /\ newObj' = FALSE
    /\ UNCHANGED <<edit, import>>

OnMapEditfeature ==
    /\ screen = "map"
    /\ db' = EnableUndo
    /\ CommandBegins
    /\ screen' = "feature"
    /\ back' = "map"
    /\ UNCHANGED <<edit, newObj, import>>

\* OnMapAddFeature and OnMapEditlines: the transaction is begun whether or
\* not the edit mode is entered.
StartEdit ==
    /\ screen = "map"
    /\ db' = EnableUndo
    /\ CommandBegins
    /\ edit' \in {edit, "lines", "point"}
    /\ UNCHANGED <<screen, back, newObj, import>>

\* OnLButtonUp, with nothing to drop: any click on the map.
OnLButtonUp ==
    /\ screen = "map"
    /\ edit # "lines"
    /\ db' = EnableUndo
    /\ CommandBegins
    /\ UNCHANGED <<ui, import>>

\* OnLButtonUp, dropping a point that was dragged: its attributes exist and
\* are saved at once.
DropPoint ==
    /\ screen = "map"
    /\ edit = "none"
    /\ \E t \in Tables : db' = ExecuteSQL(EnableUndo, t)
    /\ CommandBegins
    /\ UNCHANGED <<ui, import>>

\* EditMode(FALSE), on a right click for lines and a left one for a point:
\* UpdateMapObj updates the attributes that exist, if the user agrees.
EndEditUpdate ==
    /\ screen = "map"
    /\ edit # "none"
    /\ Save
    /\ edit' = "none"
    /\ UNCHANGED <<screen, back, newObj, import, history>>

\* EditMode(FALSE), without attributes to update: a feature is chosen, or
\* added, and the attribute dialog opens.
EndEditAttrs ==
    /\ screen = "map"
    /\ edit # "none"
    /\ Save
    /\ edit' = "none"
    /\ screen' = "attrs"
    /\ back' = "map"
    /\ newObj' \in BOOLEAN
    /\ UNCHANGED <<import, history>>

\* EditMode(FALSE), where the attributes cannot be read or updated and the call
\* throws, after a feature may have been added: the edit goes on, as that of a
\* point once the lines are gone.
EndEditThrows ==
    /\ screen = "map"
    /\ edit # "none"
    /\ onError = "ThrowException"
    /\ Save
    /\ edit' \in {edit, "point"}
    /\ UNCHANGED <<screen, back, newObj, import, history>>

\* OnEditUndo, where OnUpdateEditUndo enables it.
OnEditUndo ==
    /\ screen = "map"
    /\ db.level > 0
    /\ db' = BDRollBack(db)
    /\ leaked' = FALSE
    /\ UNCHANGED <<ui, import, base, broken>>

\* The report settings, the symbols and the dictionaries, which are reached
\* from the main window, write without any of the above.
OtherUpdate ==
    /\ screen = "map"
    /\ Save
    /\ UNCHANGED <<ui, import, history>>

-----------------------------------------------------------------------------
(* DlgEditAttributes.cpp, DlgEditFeature.cpp *)

AttributesOK ==
    /\ screen = "attrs"
    /\ \E t \in Tables : db' = BDCommit(ExecuteSQL(BDBeginTrans(db), t))
    /\ screen' = back
    /\ newObj' = FALSE
    /\ UNCHANGED <<back, edit, import, history>>

\* A row does not validate: everything is rolled back and the dialog stays.
AttributesInvalid ==
    /\ screen = "attrs"
    /\ \E t \in Tables : db' = BDRollBack(ExecuteSQL(BDBeginTrans(db), t))
    /\ leaked' = FALSE
    /\ UNCHANGED <<ui, import, base, broken>>

\* The delete of the old values throws in either mode, and the insert of a row
\* in ThrowException. There is no TRY block: neither the commit nor the roll
\* back is reached, and the dialog stays. MaxLevel bounds how often.
AttributesThrows ==
    /\ screen = "attrs"
    /\ db.level < MaxLevel
    /\ \E t \in Tables : db' = ExecuteSQL(BDBeginTrans(db), t)
    /\ leaked' = (db'.level > 0)
    /\ UNCHANGED <<ui, import, base, broken>>

\* EditMode deletes the feature it added for the object; where that throws the
\* edit mode is not left.
AttributesCancel ==
    /\ screen = "attrs"
    /\ IF newObj THEN Save /\ edit' \in {"none", "lines", "point"}
                 ELSE UNCHANGED <<db, edit>>
    /\ screen' = back
    /\ newObj' = FALSE
    /\ UNCHANGED <<back, import, history>>

FeatureClose ==
    /\ screen = "feature"
    /\ Save \/ db' = db
    /\ screen' = back
    /\ UNCHANGED <<back, edit, newObj, import, history>>

-----------------------------------------------------------------------------
(* DlgFType.cpp, DlgFeatures.cpp, DlgProjection.cpp: OnInitDialog *)

\* Mutant: the dialogs open inside the map view's transaction.
M_OpenDialog ==
    /\ screen = "map"
    /\ db' = db
    /\ screen' \in {"ftypes", "features", "projection"}
    /\ UNCHANGED <<back, edit, newObj, import, history>>

OpenDialog ==
    /\ screen = "map"
    /\ db' = CommitIfOpen(db)
    /\ screen' \in {"ftypes", "features", "projection"}
    /\ leaked' = StillLeaked(db')
    /\ UNCHANGED <<back, edit, newObj, import, base, broken>>

CloseDialog ==
    /\ screen \in {"ftypes", "features", "projection"}
    /\ screen' = "map"
    /\ UNCHANGED <<db, back, edit, newObj, import, history>>

\* DlgFeatures.OnDelete, DlgProjection: the deletes and updates run outside
\* of any transaction (the BDBeginTrans calls are commented out).
UpdateInDialog ==
    /\ screen \in {"features", "projection"}
    /\ Save
    /\ UNCHANGED <<ui, import, history>>

FeaturesEdit ==
    /\ screen = "features"
    /\ screen' \in {"attrs", "feature"}
    /\ back' = "features"
    /\ newObj' = FALSE
    /\ UNCHANGED <<db, edit, import, history>>

FTypesEdit ==
    /\ screen = "ftypes"
    /\ screen' = "ftypeattr"
    /\ UNCHANGED <<db, back, edit, newObj, import, history>>

\* BDFTypeDelete, where the definition's row is deleted outside of the TRY
\* block and that throws.
BDFTypeDropThrows(s, dropped) == ExecuteDDL(BDCommit(BDBeginTrans(s)), dropped)

\* CDlgFType::OnDelete
FTypesDelete ==
    /\ screen = "ftypes"
    /\ \E t, dropped \in Tables :
          \/ db' \in {BDFTypeDelete(db, t), BDFTypeDeleteFails(db, t),
                      BDFTypeDrop(db, dropped, t), BDFTypeDropFails(db, dropped)}
          \/ /\ onError = "ThrowException"
             /\ db' = BDFTypeDropThrows(db, dropped)
    /\ leaked' = StillLeaked(db')
    /\ UNCHANGED <<ui, import, base, broken>>

-----------------------------------------------------------------------------
(* DlgFTypeAttr.cpp, OnOK: the definition and its table, in a transaction *)

FTypeAttrOK ==
    /\ screen = "ftypeattr"
    /\ \E row, t \in Tables :
          LET written == ExecuteSQL(BDBeginTrans(db), row)
          IN  db' \in {BDCommit(BDFTypeCreate(written, t)),
                       BDCommit(BDFTypeUpdate(written, t))}
    /\ screen' = "ftypes"
    /\ UNCHANGED <<back, edit, newObj, import, history>>

\* Rolled back before the table is touched, or because a statement that
\* changes it throws; the dialog stays.
FTypeAttrFails ==
    /\ screen = "ftypeattr"
    /\ \E row, t \in Tables :
          LET written == ExecuteSQL(BDBeginTrans(db), row)
          IN  db' \in {BDRollBack(written), BDRollBack(ExecuteDDL(written, t))}
    /\ leaked' = FALSE
    /\ UNCHANGED <<ui, import, base, broken>>

FTypeAttrCancel ==
    /\ screen = "ftypeattr"
    /\ screen' = "ftypes"
    /\ UNCHANGED <<db, back, edit, newObj, import, history>>

-----------------------------------------------------------------------------
(* importodbc.cpp, CImportDB::ImportODBC *)

\* Mutant: the import's transaction is begun only when records are imported.
M_ImportStart ==
    /\ screen = "map"
    /\ db' = CommitIfOpen(db)
    /\ CommandBegins
    /\ screen' = "import"
    /\ canSave' = FALSE
    /\ imported' = FALSE
    /\ UNCHANGED <<back, edit, newObj, onError>>

ImportStart ==
    /\ screen = "map"
    /\ db' = EnableUndo
    /\ CommandBegins
    /\ screen' = "import"
    /\ canSave' = FALSE
    /\ imported' = FALSE
    /\ UNCHANGED <<back, edit, newObj, onError>>

\* CDlgImportCreate2::CreateFType, in a transaction inside the import's.
CreateFType2 ==
    /\ screen = "import"
    /\ \E row, t \in Tables :
          db' = BDCommit(BDFTypeCreate(ExecuteSQL(BDBeginTrans(db), row), t))
    /\ UNCHANGED <<ui, import, history>>

CreateFType2Fails ==
    /\ screen = "import"
    /\ \E row, t \in Tables :
          LET written == ExecuteSQL(BDBeginTrans(db), row)
          IN  db' \in {BDRollBack(written), BDRollBack(ExecuteDDL(written, t))}
    /\ broken' = TRUE
    /\ leaked' = FALSE
    /\ UNCHANGED <<ui, import, base>>

ImportOK ==
    /\ screen = "import"
    /\ screen' = "importing"
    /\ onError' = "ThrowException"
    /\ UNCHANGED <<db, back, edit, newObj, canSave, imported, history>>

\* A record of another database, or a feature type of another NRDB database
\* with its table.
ImportRecord ==
    /\ screen = "importing"
    /\ \E t \in Tables : db' \in {ExecuteSQL(db, t), BDFTypeCreate(db, t)}
    /\ imported' = TRUE
    /\ UNCHANGED <<ui, canSave, onError, history>>

\* The status dialog opens; it can save unless the import was cancelled.
ImportEnds ==
    /\ screen \in {"import", "importing"}
    /\ screen' = "status"
    /\ canSave' \in {FALSE, screen = "importing" /\ imported}
    /\ onError' = "ThrowException"
    /\ UNCHANGED <<db, back, edit, newObj, imported, history>>

\* Mutant: the exception rolls back, but the status dialog still saves.
M_ImportThrows ==
    /\ screen = "importing"
    /\ db' = BDRollBack(db)
    /\ screen' = "status"
    /\ canSave' = imported
    /\ UNCHANGED <<back, edit, newObj, imported, onError, history>>

\* The calls before the TRY blocks are not guarded: the exception leaves the
\* import with its transaction open and the mode still ThrowException.
ImportThrows ==
    /\ screen = "importing"
    /\ screen' = "map"
    /\ UNCHANGED <<db, back, edit, newObj, import, history>>

\* CompactDatabase closes and reopens the connection of a Jet database.
StatusOK ==
    /\ screen = "status"
    /\ canSave
    /\ db' \in {BDCommit(db)} \cup
               IF MySQL THEN {} ELSE {Opened(Closed(BDCommit(db)))}
    /\ screen' = "map"
    /\ onError' = "DisplayMessage"
    /\ leaked' = StillLeaked(db')
    /\ UNCHANGED <<back, edit, newObj, canSave, imported, base, broken>>

StatusCancel ==
    /\ screen = "status"
    /\ db' = BDRollBack(db)
    /\ screen' = "map"
    /\ onError' = "DisplayMessage"
    /\ leaked' = FALSE
    /\ UNCHANGED <<back, edit, newObj, canSave, imported, base, broken>>

-----------------------------------------------------------------------------
Next ==
    \/ Login \/ Logout \/ Crash
    \/ OnMapEditdata \/ OnMapEditfeature \/ StartEdit
    \/ OnLButtonUp \/ DropPoint
    \/ EndEditUpdate \/ EndEditAttrs \/ EndEditThrows
    \/ OnEditUndo \/ OtherUpdate
    \/ AttributesOK \/ AttributesInvalid \/ AttributesThrows
    \/ AttributesCancel \/ FeatureClose
    \/ OpenDialog \/ CloseDialog \/ UpdateInDialog
    \/ FeaturesEdit \/ FTypesEdit \/ FTypesDelete
    \/ FTypeAttrOK \/ FTypeAttrFails \/ FTypeAttrCancel
    \/ ImportStart \/ CreateFType2 \/ CreateFType2Fails
    \/ ImportOK \/ ImportRecord \/ ImportEnds \/ ImportThrows
    \/ StatusOK \/ StatusCancel

Spec == Init /\ [][Next]_vars

-----------------------------------------------------------------------------
(* Properties *)

\* BDTrans.cpp's assertion, for this client: every commit closes a transaction
\* that is open, over dialogs that nest, cancel, fail and throw. Unless a feature
\* type could not be created for an import: see NRDBTrans.LevelNeverNegative,
\* which the code asserts without that condition.
CommitsMatchBegins == ~broken => LevelNeverNegative

\* The dialogs whose updates run outside of any transaction are never used
\* inside one, in which Undo would take them back. Unless an exception has left
\* one: the code asserts the same without that condition.
DialogsOutsideTrans ==
    ( /\ ~broken
      /\ ~leaked
      /\ \/ screen \in {"ftypes", "ftypeattr", "features", "projection"}
         \/ screen \in {"attrs", "feature"} /\ back = "features" )
    => db.level = 0

\* The Undo command is enabled by BDGetTransLevel > 0. What it rolls back is
\* what the last command did and what came after it: nothing of that has been
\* saved, by an inner commit, a dialog or a table change, and nothing before it
\* is still unsaved. Unless an exception has left a transaction open, within
\* which a command commits and saves nothing.
UndoRestores == screen = "map" /\ db.level > 0 /\ ~leaked => db.stored = base

\* Cancelling an import, at the dialog that offers to save it, leaves the
\* database as it was when the import command was chosen, the feature types
\* created for it included (importodbc.cpp: "Start the transaction here so
\* that OnCreate can also be cancelled"). Unless the transaction is not the
\* import's own, or no longer.
CancelledImportLeavesNothing ==
    [][StatusCancel /\ ~broken /\ ~leaked => db'.table = base]_vars

\* What the user sees when logging out is what the next login shows: with the
\* ODBC driver always, with MySQL when the map view's transaction is open, for
\* there a statement outside of one waits for a commit, too. Unless an exception
\* has left a second level, of which Logout commits one.
LogoutSavesAll ==
    [][ Logout /\ ~leaked /\ (MySQL => db.level > 0)
        => db'.stored = db.table ]_vars
=============================================================================
