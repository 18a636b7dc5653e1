---------------------------- MODULE NRDBFeatures ----------------------------
(***************************************************************************)
(* Feature types that inherit from one another, their features and data,   *)
(* and the dialogs that add and delete them.                               *)
(*                                                                         *)
(* A feature type without parent, or with many features to one of its      *)
(* parent, has a table of features, each with the id of its parent         *)
(* feature. One that is 1:1 with its parent shares the features of the     *)
(* parent and has only a table of data.                                    *)
(*                                                                         *)
(* The dialogs are modal, so a user has one open; other users may have     *)
(* theirs open on the same database. What a dialog has read when it was    *)
(* opened, or a handler before it deletes, is kept in dlg[u].              *)
(***************************************************************************)
EXTENDS Integers, FiniteSets

CONSTANTS
    Users,        \* the programs that have opened the database
    MaxType,      \* bound on the ids of feature types
    MaxFeature,   \* bound on the ids of features
    MaxBlank      \* bound on the child features with blank names

ASSUME NRDBFeaturesAssumption ==
    /\ MaxType \in Nat \ {0}
    /\ MaxFeature \in Nat \ {0}
    /\ MaxBlank \in Nat

VARIABLES
    ftypes,      \* the rows of BDFeature_Types
    features,    \* the rows of the tables of features: a feature's parent
    blank,       \* the <<type, feature>> whose names are blank, of types with a parent
    data,        \* the <<type, feature>> with rows in the type's data table
    dlg          \* what each user is doing

rows == <<features, blank>>
vars == <<ftypes, features, blank, data, dlg>>

Types == 1..MaxType
Ids == 1..MaxFeature
None == -1         \* there is no such feature
NoParent == 0      \* its type has no parent, or an import stored 0 or -1

\* m2o   many features to one of the parent; never looked at without a parent,
\*       and then TRUE
\* ref   the type to whose table of features the table of data refers, 0 when
\*       there is no table of data
FType == [parent : 0..MaxType, m2o : BOOLEAN, ref : 0..MaxType]
NoType == [parent |-> None, m2o |-> FALSE, ref |-> 0]

\* t, id   the type and the feature the dialog or the handler is about
\* ps      the parents on offer, read when the dialog was opened
Ops == {"addtype", "addfeature", "editfeature", "editdata",
        "data", "features", "type", "deldata", "delfeature"}
Dialog == [op : Ops, t : Types, id : 0..MaxFeature,
           ps : (SUBSET (0..MaxType)) \cup (SUBSET (0..MaxFeature))]
Closed == [op |-> "none", t |-> 0, id |-> 0, ps |-> {}]

TypeOK ==
    /\ ftypes \in [Types -> FType \cup {NoType}]
    /\ features \in [Types \X Ids -> {None} \cup 0..MaxFeature]
    /\ blank \subseteq Types \X Ids
    /\ data \subseteq Types \X Ids
    /\ dlg \in [Users -> Dialog \cup {Closed}]

Init ==
    /\ ftypes = [t \in Types |-> NoType]
    /\ features = [tf \in Types \X Ids |-> None]
    /\ blank = {}
    /\ data = {}
    /\ dlg = [u \in Users |-> Closed]

-----------------------------------------------------------------------------
(* What the tables hold *)

Defined(ts) == {t \in Types : ts[t] # NoType}

\* It has a table of features of its own.
OwnFeatures(ts, t) == ts[t] # NoType /\ (ts[t].parent = 0 \/ ts[t].m2o)

FeaturesOf(t) == IF t = 0 THEN {} ELSE {f \in Ids : features[<<t, f>>] # None}

\* Mutant: the count, and not the maximum, of an empty table is taken.
M_BDNextIdEmpty(ids) ==
    IF ids = {} THEN 0 ELSE (CHOOSE m \in ids : \A n \in ids : n <= m) + 1

\* Mutant: the smallest id that is free.
M_BDNextId(ids) ==
    CHOOSE m \in 1..MaxType + MaxFeature :
        m \notin ids /\ \A n \in 1..m - 1 : n \in ids

BDNextId(ids) == IF ids = {} THEN 1 ELSE (CHOOSE m \in ids : \A n \in ids : n <= m) + 1

\* The type whose features lFType has, 0 when it is not found.
BDFTypeI(ts, lFType) ==
    LET up[t \in 0..MaxType] ==
            IF t = 0 \/ ts[t] = NoType THEN 0
            ELSE IF OwnFeatures(ts, t) THEN t
            ELSE up[ts[t].parent]
    IN  up[lFType]

\* The type of their parent features, 0 when there is none.
BDFTypeParentI(ts, lFType) ==
    LET i == BDFTypeI(ts, lFType)
    IN  IF i = 0 \/ ts[i].parent = 0 THEN 0 ELSE BDFTypeI(ts, ts[i].parent)

Children(ts, t) == {c \in Types : ts[c].parent = t}

\* Mutant: the types that are 1:1 with a 1:1 child are not looked at.
M_GetChildren121(ts, lFType) == {c \in Children(ts, lFType) : ~ts[c].m2o}

\* GetChildren's two lists: the types that are 1:1 with lFType, through any
\* number of 1:1 types, ...
GetChildren121(ts, lFType) ==
    LET down[t \in Types] ==
            LET kids == {c \in Children(ts, t) : ~ts[c].m2o}
            IN  kids \cup UNION {down[c] : c \in kids}
    IN  down[lFType]

\* Mutant: only the children of lFType itself.
M_GetChildren12M(ts, lFType) == {c \in Children(ts, lFType) : ts[c].m2o}

\* ... and the types with many features to one of any of these.
GetChildren12M(ts, lFType) ==
    {c \in UNION {Children(ts, t) : t \in {lFType} \cup GetChildren121(ts, lFType)} :
        ts[c].m2o}

\* The foreign key FEATURE_ID: the tables of data that refer to the features of t.
Referring(t) == {c \in Types : ftypes[c].ref = t}
ReferredTo(t, f) == \E c \in Referring(t) : <<c, f>> \in data

-----------------------------------------------------------------------------
(* The handlers *)

Show(u, op, t, id, ps) == dlg' = [dlg EXCEPT ![u] = [op |-> op, t |-> t, id |-> id, ps |-> ps]]
Close(u) == dlg' = [dlg EXCEPT ![u] = Closed]
Idle(u) == dlg[u] = Closed

\* A dialog is cancelled, or the program ends in a dialog or a handler.
Cancel(u) ==
    /\ ~Idle(u)
    /\ Close(u)
    /\ UNCHANGED <<ftypes, rows, data>>

\* DlgFTypeAttr, OnInitDialog and OnInitAdd.
AddType(u) ==
    /\ Idle(u)
    /\ BDNextId(Defined(ftypes)) <= MaxType
    /\ Show(u, "addtype", BDNextId(Defined(ftypes)), 0, {0} \cup Defined(ftypes))
    /\ UNCHANGED <<ftypes, rows, data>>

\* BDFeatureType adds the definition and BDFTypeCreate the tables. The table of
\* data refers to the table of features, which may be another type's.
CreateType(ts, t, p, m2o) ==
    LET new == [ts EXCEPT ![t] = [parent |-> p, m2o |-> m2o, ref |-> 0]]
    IN  [ts EXCEPT ![t] = [parent |-> p, m2o |-> m2o, ref |-> BDFTypeI(new, t)]]

\* DlgFTypeAttr, OnOK. An attribute of type link can have a type created for
\* its features too. When the id has been taken since, nothing is created and
\* the dialog closes; when a table cannot be created it stays.
OnOKAdd(u) ==
    /\ dlg[u].op = "addtype"
    /\ \/ /\ ftypes[dlg[u].t] # NoType
          /\ Close(u)
          /\ UNCHANGED ftypes
       \/ \E p \in dlg[u].ps, m2o \in BOOLEAN, link \in BOOLEAN :
             LET ts == CreateType(ftypes, dlg[u].t, p, m2o)
                 l == BDNextId(Defined(ts))
             IN  /\ ftypes[dlg[u].t] = NoType
                 /\ p = 0 => m2o
                 /\ IF ts[dlg[u].t].ref # 0
                    THEN /\ link => l <= MaxType
                         /\ ftypes' = IF link THEN CreateType(ts, l, 0, TRUE) ELSE ts
                         /\ Close(u)
                    ELSE UNCHANGED <<ftypes, dlg>>
    /\ UNCHANGED <<rows, data>>

\* Mutant: no check before a feature type is deleted.
M_DeleteType(u) ==
    /\ Idle(u)
    /\ \E t \in Defined(ftypes), what \in {"data", "features", "type"} :
          Show(u, what, t, 0, {})
    /\ UNCHANGED <<ftypes, rows, data>>

\* DlgFType, OnDelete: what is to be deleted, the feature type, only its
\* features or only their data, and the check that it has no child.
DeleteType(u) ==
    /\ Idle(u)
    /\ \E t \in Defined(ftypes), what \in {"data", "features", "type"} :
          /\ what # "data" => Children(ftypes, t) = {}
          /\ Show(u, what, t, 0, {})
    /\ UNCHANGED <<ftypes, rows, data>>

DropData(t) == data' = {tf \in data : tf[1] # t}
DropFeatures(t) ==
    /\ features' = [tf \in Types \X Ids |-> IF tf[1] = t THEN None ELSE features[tf]]
    /\ blank' = {tf \in blank : tf[1] # t}

\* Nothing is deleted in the transaction when one of its statements fails.
DeleteRows(t, what) ==
    IF /\ ftypes[t].ref # 0
       /\ what = "features" =>
             /\ OwnFeatures(ftypes, t)
             /\ \A f \in FeaturesOf(t) : \A c \in Referring(t) \ {t} :
                   <<c, f>> \notin data
    THEN /\ DropData(t)
         /\ IF what = "features" THEN DropFeatures(t) ELSE UNCHANGED rows
         /\ UNCHANGED ftypes
    ELSE UNCHANGED <<ftypes, rows, data>>

\* The tables are dropped after the transaction: when the table of features
\* cannot be, the table of data is gone.
DropTables(t) ==
    IF ftypes[t].ref = 0 THEN UNCHANGED <<ftypes, rows, data>>
    ELSE /\ DropData(t)
         /\ IF OwnFeatures(ftypes, t) /\ Referring(t) # {t}
            THEN /\ ftypes' = [ftypes EXCEPT ![t].ref = 0]
                 /\ UNCHANGED rows
            ELSE /\ ftypes' = [ftypes EXCEPT ![t] = NoType]
                 /\ DropFeatures(t)

BDFTypeDelete(u) ==
    /\ \/ /\ dlg[u].op \in {"data", "features"}
          /\ DeleteRows(dlg[u].t, dlg[u].op)
       \/ /\ dlg[u].op = "type"
          /\ DropTables(dlg[u].t)
    /\ Close(u)

-----------------------------------------------------------------------------
Parents(t) == FeaturesOf(BDFTypeParentI(ftypes, t))

\* DlgEditFeature, OnInitDialog: the list of parents is disabled when the type
\* has no parent.
ParentList(t) == IF ftypes[t].parent = 0 THEN {NoParent} ELSE Parents(t)

\* BDFeature adds, changes or deletes the row of feature f of t; b: its name is
\* blank, which matters only to the features that may be children.
SetFeature(t, f, p, b) ==
    /\ b => Cardinality(blank) < MaxBlank
    /\ features' = [features EXCEPT ![<<t, f>>] = p]
    /\ blank' = IF b /\ ftypes[t].parent # 0 THEN blank \cup {<<t, f>>}
                ELSE blank \ {<<t, f>>}

AddFeature(u) ==
    /\ Idle(u)
    /\ \E t \in Types :
          /\ OwnFeatures(ftypes, t)
          /\ BDNextId(FeaturesOf(t)) <= MaxFeature
          /\ Show(u, "addfeature", t, BDNextId(FeaturesOf(t)), ParentList(t))
    /\ UNCHANGED <<ftypes, rows, data>>

EditFeature(u) ==
    /\ Idle(u)
    /\ \E t \in Types :
          /\ OwnFeatures(ftypes, t)
          /\ \E f \in FeaturesOf(t) : Show(u, "editfeature", t, f, ParentList(t))
    /\ UNCHANGED <<ftypes, rows, data>>

\* DlgEditFeature, OnOK. A parent is required where the type has one; OnSelect
\* reads the list again. A name is required, but spaces will do. A feature that
\* is to be added must be new, one that is to be changed still be there; a
\* refused OK leaves the dialog open.
FeatureOK(u) ==
    /\ dlg[u].op \in {"addfeature", "editfeature"}
    /\ LET t == dlg[u].t IN
          /\ OwnFeatures(ftypes, t)
          /\ (features[<<t, dlg[u].id>>] = None) = (dlg[u].op = "addfeature")
          /\ \E p \in IF dlg[u].ps = {NoParent} THEN {NoParent}
                      ELSE dlg[u].ps \cup Parents(t), b \in BOOLEAN :
                SetFeature(t, dlg[u].id, p, b)
    /\ Close(u)
    /\ UNCHANGED <<ftypes, data>>

\* CImportTable, CreateFeature of type i for a record. DetermineFeature finds or
\* creates its parent, or answers -1 or 0 (cancelled or skipped), which is stored
\* unchecked. The name may be blank where a record that the database has refused
\* is written again with a feature of its own.
CreateFeature(i, f) ==
    \E p \in ParentList(i) \cup {NoParent}, b \in BOOLEAN : SetFeature(i, f, p, b)

\* Import of a record, in the transaction of the import: its feature is new, or
\* found, and gets a row of data unless that is refused. Parents and features of
\* links that a record creates are records of their own here, without data.
ImportRecord(u) ==
    /\ Idle(u)
    /\ \E t \in Types :
          LET i == BDFTypeI(ftypes, t)
              next == BDNextId(FeaturesOf(i))
          IN  /\ i # 0
              /\ \E f \in FeaturesOf(i) \cup {next} :
                    /\ f <= MaxFeature
                    /\ IF f = next THEN CreateFeature(i, f) ELSE UNCHANGED rows
                    /\ \/ UNCHANGED data
                       \/ /\ ftypes[t].ref = i
                          /\ data' = data \cup {<<t, f>>}
    /\ UNCHANGED <<ftypes, dlg>>

\* DlgFeatures, OnDelete of one of the selected features: the checks, of which
\* the first looks at the names of the children strung together, ...
DeleteFeature(u) ==
    /\ Idle(u)
    /\ \E t \in Types :
          /\ OwnFeatures(ftypes, t)
          /\ \E f \in FeaturesOf(t) :
                /\ \A c \in GetChildren12M(ftypes, t), g \in Ids :
                      features[<<c, g>>] = f => <<c, g>> \in blank
                /\ \A c \in GetChildren121(ftypes, t) : <<c, f>> \notin data
                /\ Show(u, "deldata", t, f, {})
    /\ UNCHANGED <<ftypes, rows, data>>

\* ... BDFeature, which deletes the data of the feature ...
DeleteData(u) ==
    /\ dlg[u].op = "deldata"
    /\ data' = data \ {<<dlg[u].t, dlg[u].id>>}
    /\ Show(u, "delfeature", dlg[u].t, dlg[u].id, {})
    /\ UNCHANGED <<ftypes, rows>>

\* ... and then the feature, unless data still refers to it.
DeleteRow(u) ==
    /\ dlg[u].op = "delfeature"
    /\ IF ReferredTo(dlg[u].t, dlg[u].id) THEN UNCHANGED rows
       ELSE SetFeature(dlg[u].t, dlg[u].id, None, FALSE)
    /\ Close(u)
    /\ UNCHANGED <<ftypes, data>>

-----------------------------------------------------------------------------
\* DlgEditAttributes: the data of a feature, for its type or one that is 1:1.
EditData(u) ==
    /\ Idle(u)
    /\ \E t \in Defined(ftypes) :
          \E f \in FeaturesOf(BDFTypeI(ftypes, t)) : Show(u, "editdata", t, f, {})
    /\ UNCHANGED <<ftypes, rows, data>>

\* OnOK deletes the rows and adds those of the grid, if any, in a transaction;
\* when a row is refused, nothing is changed and the dialog stays open.
DataOK(u) ==
    /\ dlg[u].op = "editdata"
    /\ LET t == dlg[u].t
           f == dlg[u].id
       IN  /\ ftypes[t].ref # 0
           /\ \/ data' = data \ {<<t, f>>}
              \/ /\ f \in FeaturesOf(ftypes[t].ref)
                 /\ data' = data \cup {<<t, f>>}
    /\ Close(u)
    /\ UNCHANGED <<ftypes, rows>>

Next ==
    \E u \in Users :
        \/ Cancel(u)
        \/ AddType(u) \/ OnOKAdd(u) \/ DeleteType(u) \/ BDFTypeDelete(u)
        \/ AddFeature(u) \/ EditFeature(u) \/ FeatureOK(u) \/ ImportRecord(u)
        \/ DeleteFeature(u) \/ DeleteData(u) \/ DeleteRow(u)
        \/ EditData(u) \/ DataOK(u)

Spec == Init /\ [][Next]_vars

-----------------------------------------------------------------------------
(* Properties *)

\* A type is younger than its parent, so that BDFTypeI and GetChildren, which
\* follow the parents and the children, come to an end, whoever else adds and
\* deletes types at the same time.
ParentOlder == \A t \in Types : ftypes[t] # NoType => ftypes[t].parent < t

\* "ASSERT(bFound)" (FeatureTypeSet.cpp:209): the parent of a type is defined.
ParentFound ==
    \A t \in Types : ftypes[t] # NoType /\ ftypes[t].parent # 0 =>
        ftypes[ftypes[t].parent] # NoType

\* A feature whose type has a parent refers to a feature of it, though no foreign
\* key says so, unless an import stored none, or its name is blank, so that the
\* parent could be deleted: the edits of the dialogs, the ids used again and the
\* deletions leave no other without parent.
ParentFeatureExists ==
    \A t \in Types : OwnFeatures(ftypes, t) /\ ftypes[t].parent # 0 =>
        \A f \in FeaturesOf(t) :
            features[<<t, f>>] \in Parents(t) \cup {NoParent} \/ <<t, f>> \in blank

\* When BDFeature has deleted the data of a feature the feature can be deleted:
\* the checks of OnDelete have found all that refers to it. Otherwise the data
\* would be lost and the feature stay.
DeletionCompletes ==
    \A u \in Users : dlg[u].op = "delfeature" => ~ReferredTo(dlg[u].t, dlg[u].id)
=============================================================================
