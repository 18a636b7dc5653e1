----------------------------- MODULE FTypeUpdate -----------------------------
(***************************************************************************)
(* The design of a feature type: the list of attributes the dialog         *)
(* DlgFTypeAttr edits, their definition (the rows of the table of          *)
(* attributes) and the data table BDFTypeCreate.cpp creates and alters so  *)
(* that it follows the definition.                                         *)
(*                                                                         *)
(* One pass of a loop of BDFTypeUpdate is one step, so that a statement    *)
(* can fail, or the program end, after any number of columns has changed.  *)
(***************************************************************************)
EXTENDS Integers, Sequences

CONSTANTS
    Names,       \* what an attribute, and so its column, may be called
    Types,       \* data types with one column
    Links,       \* the feature types an attribute of type link may point at
    MaxAttrs,    \* bound on the attributes of a feature type
    DDLUndone    \* BDRollBack undoes create and alter table (Jet, not MySQL)

ASSUME FTypeUpdateAssumption ==
    /\ MaxAttrs \in Nat \ {0}
    /\ DDLUndone \in BOOLEAN
    /\ "coord" \notin Types \cup Links
    /\ Types \cap Links = {}

VARIABLES
    list,     \* the attributes in the dialog's list box
    def,      \* the attributes that are defined
    tb,       \* the data table
    old,      \* pAttrOld: the definition when OK was pressed
    before,   \* the data table when OK was pressed
    pc,       \* "none" before the feature type exists
    i,        \* the loop counter of BDFTypeUpdate
    tidy      \* every OK so far was pressed on a tidy edit (history)

vars == <<list, def, tb, old, before, pc, i, tidy>>

Attr == [col : Names, type : Types \cup Links \cup {"coord"}]
AttrLists == UNION {[1..n -> Attr] : n \in 0..MaxAttrs}

\* GetNumFields: coordinates have two columns, all else has one.
Columns(a) ==
    IF a.type = "coord" THEN {<<a.col, "x">>, <<a.col, "y">>} ELSE {<<a.col, "">>}
ColumnNames == Names \X {"", "x", "y"}
AllColumns(as) == UNION {Columns(as[k]) : k \in DOMAIN as}
ColNamesOf(as) == {as[k].col : k \in DOMAIN as}
Distinct(as) == \A m, n \in DOMAIN as : as[m].col = as[n].col => m = n

\* cols   the columns, with whether they hold what the user entered
\* key    the table has its primary key
\* st     bOK, or the exception that a statement has thrown
Table == [cols : UNION {[c -> BOOLEAN] : c \in SUBSET ColumnNames},
          key : BOOLEAN, st : {"ok", "false", "thrown"}]
NoTable == [cols |-> <<>>, key |-> FALSE, st |-> "ok"]

TypeOK ==
    /\ list \in AttrLists /\ def \in AttrLists /\ old \in AttrLists
    /\ tb \in Table /\ before \in Table
    /\ pc \in {"none", "adding", "closed", "editing", "alter", "remove"}
    /\ i \in 1..MaxAttrs + 1
    /\ tidy \in BOOLEAN

Init ==
    /\ list = <<>> /\ def = <<>> /\ old = <<>>
    /\ tb = NoTable /\ before = NoTable
    /\ pc = "none"
    /\ i = 1
    /\ tidy = TRUE

-----------------------------------------------------------------------------
(* Statements. None is executed once one has thrown. *)

Holding(cs, b) == [c \in cs |-> b]

\* create table: two columns of one name are refused.
CreateTable(as) ==
    IF \A m, n \in DOMAIN as : m # n => Columns(as[m]) \cap Columns(as[n]) = {}
    THEN [cols |-> Holding(AllColumns(as), FALSE), key |-> TRUE, st |-> "ok"]
    ELSE [NoTable EXCEPT !.st = "thrown"]

AddColumns(t, a) ==
    IF t.st = "thrown" THEN t
    ELSE IF Columns(a) \cap DOMAIN t.cols # {} THEN [t EXCEPT !.st = "thrown"]
    ELSE [t EXCEPT !.cols = [c \in DOMAIN t.cols \cup Columns(a) |->
                                c \in DOMAIN t.cols /\ t.cols[c]]]

DropColumns(t, a) ==
    IF t.st = "thrown" THEN t
    ELSE IF ~(Columns(a) \subseteq DOMAIN t.cols) THEN [t EXCEPT !.st = "thrown"]
    ELSE [t EXCEPT !.cols = [c \in DOMAIN t.cols \ Columns(a) |-> t.cols[c]]]

\* alter table drop constraint, for a link: BDFTypeCreate prepares the text of
\* the foreign keys of the links but adds it to no statement, so there is none
\* and the statement always fails.
DropConstraint(t, a, failure) ==
    IF a.type \in Links /\ t.st # "thrown" THEN [t EXCEPT !.st = failure] ELSE t

DropPrimaryKey(t) == [t EXCEPT !.key = FALSE]
AddPrimaryKey(t) == [t EXCEPT !.key = TRUE]

-----------------------------------------------------------------------------
(* DlgFTypeAttr: the dialog *)

InDialog == pc \in {"adding", "editing"}

Open ==
    /\ pc \in {"none", "closed"}
    /\ pc' = IF pc = "none" THEN "adding" ELSE "editing"
    /\ list' = def
    /\ UNCHANGED <<def, tb, old, before, i, tidy>>

\* OnAdd: the column's name is made unique (CheckNameUnique).
OnAdd ==
    /\ InDialog
    /\ Len(list) < MaxAttrs
    /\ \E a \in Attr :
          /\ a.col \notin ColNamesOf(list)
          /\ list' = Append(list, a)
    /\ UNCHANGED <<def, tb, old, before, pc, i, tidy>>

OnDelete ==
    /\ InDialog
    /\ \E k \in DOMAIN list :
          list' = SubSeq(list, 1, k - 1) \o SubSeq(list, k + 1, Len(list))
    /\ UNCHANGED <<def, tb, old, before, pc, i, tidy>>

\* OnUpdate: the type, and while the feature type is being added the column's
\* name, which is not made unique here.
OnUpdate ==
    /\ InDialog
    /\ \E k \in DOMAIN list, a \in Attr :
          /\ pc = "editing" => a.col = list[k].col
          /\ list' = [list EXCEPT ![k] = a]
    /\ UNCHANGED <<def, tb, old, before, pc, i, tidy>>

\* Mutant: the attribute moved down is inserted, but not removed above.
M_OnDeltaposUpdown ==
    /\ InDialog
    /\ \E k \in 1..Len(list) - 1 :
          list' = SubSeq(list, 1, k + 1) \o <<list[k]>>
                      \o SubSeq(list, k + 2, Len(list))
    /\ UNCHANGED <<def, tb, old, before, pc, i, tidy>>

OnDeltaposUpdown ==
    /\ InDialog
    /\ \E k \in 1..Len(list) - 1 :
          list' = [list EXCEPT ![k] = list[k + 1], ![k + 1] = list[k]]
    /\ UNCHANGED <<def, tb, old, before, pc, i, tidy>>

OnCancel ==
    /\ InDialog
    /\ pc' = IF pc = "adding" /\ def = <<>> THEN "none" ELSE "closed"
    /\ list' = <<>>
    /\ UNCHANGED <<def, tb, old, before, i, tidy>>

-----------------------------------------------------------------------------
(* DlgFTypeAttr::OnOK *)

\* No two attributes share a column, and none changed both its type and its
\* place in the list.
TidyEdit(new, as) ==
    /\ Distinct(new)
    /\ \A m \in DOMAIN new, n \in DOMAIN as :
          new[m].col = as[n].col /\ new[m].type # as[n].type => m = n

\* The table cannot be created: all is rolled back and the dialog stays, but
\* MySQL has then committed the definition with the create table.
AddThrows ==
    /\ CreateTable(list).st = "thrown"
    /\ def' = IF DDLUndone THEN def ELSE list
    /\ UNCHANGED <<tb, pc, list>>

\* The definition is added, and its table created. A definition left by an
\* attempt that has thrown is refused, and the dialog then closes all the same:
\* its failure is not looked at.
OnOKAdd ==
    /\ pc = "adding"
    /\ \/ /\ def = <<>>
          /\ AddThrows
       \/ /\ \/ /\ def # <<>>
                /\ UNCHANGED <<def, tb>>
             \/ /\ def = <<>>
                /\ CreateTable(list).st = "ok"
                /\ def' = list
                /\ tb' = CreateTable(list)
          /\ pc' = "closed"
          /\ list' = <<>>
    /\ tidy' = (tidy /\ Distinct(list))
    /\ UNCHANGED <<old, before, i>>

\* The definition is replaced and BDFTypeUpdate called.
OnOKEdit ==
    /\ pc = "editing"
    /\ old' = def
    /\ before' = tb
    /\ def' = list
    /\ tb' = DropPrimaryKey(tb)
    /\ pc' = "alter"
    /\ i' = 1
    /\ tidy' = (tidy /\ TidyEdit(list, def))
    /\ UNCHANGED list

\* BDFTypeUpdate returns, or the program ends.
Leave == old' = <<>> /\ before' = NoTable /\ i' = 1

\* What a roll back, or the end of the program, leaves of the update. MySQL has
\* committed the definition with the first alter table.
Undone ==
    /\ tb' = IF DDLUndone THEN before ELSE [tb EXCEPT !.st = "ok"]
    /\ def' = IF DDLUndone THEN old ELSE def

\* BDFTypeUpdate has returned FALSE or thrown; the dialog stays.
Fail ==
    /\ tb.st # "ok"
    /\ Undone
    /\ Leave
    /\ pc' = "editing"
    /\ UNCHANGED <<list, tidy>>

-----------------------------------------------------------------------------
(* BDFTypeUpdate *)

\* The attribute of the old definition that the search for a column stops at.
Found(as, col) ==
    CHOOSE j \in DOMAIN as :
        as[j].col = col /\ \A k \in 1..j - 1 : as[k].col # col

Retyped(a) == a.col \in ColNamesOf(old) /\ old[Found(old, a.col)].type # a.type

\* Mutant: an attribute that is found is altered, its type changed or not.
M_AlterAttr(t, k, a) ==
    IF a.col \in ColNamesOf(old)
    THEN AddColumns(DropColumns(t, old[Found(old, a.col)]), a)
    ELSE AddColumns(t, a)

\* The k-th attribute of the new definition. When its type has changed the
\* columns of the k-th attribute of the old one are dropped.
AlterAttr(t, k, a) ==
    IF Retyped(a)
    THEN AddColumns(DropColumns(DropConstraint(t, old[k], "false"), old[k]), a)
    ELSE IF a.col \in ColNamesOf(old) THEN t
    ELSE AddColumns(t, a)

Alter ==
    /\ pc = "alter"
    /\ tb.st = "ok"
    /\ IF i > Len(def)
       THEN pc' = "remove" /\ i' = 1 /\ tb' = tb
       ELSE /\ Retyped(def[i]) => i <= Len(old)
            /\ tb' = AlterAttr(tb, i, def[i])
            /\ i' = i + 1
            /\ pc' = pc
    /\ UNCHANGED <<list, def, old, before, tidy>>

\* Mutant: only the first column of a removed attribute is dropped.
M_RemoveAttr(t, a) ==
    IF a.col \in ColNamesOf(def) THEN t
    ELSE [t EXCEPT !.cols = [c \in DOMAIN t.cols \ {<<a.col, "x">>, <<a.col, "">>}
                                |-> t.cols[c]]]

\* For attributes no longer used, delete them.
RemoveAttr(t, a) ==
    IF a.col \in ColNamesOf(def) THEN t
    ELSE DropColumns(DropConstraint(t, a, "thrown"), a)

Remove ==
    /\ pc = "remove"
    /\ tb.st = "ok"
    /\ i <= Len(old)
    /\ tb' = RemoveAttr(tb, old[i])
    /\ i' = i + 1
    /\ UNCHANGED <<list, def, old, before, pc, tidy>>

Done ==
    /\ pc = "remove"
    /\ tb.st = "ok"
    /\ i > Len(old)
    /\ tb' = AddPrimaryKey(tb)
    /\ Leave
    /\ list' = <<>>
    /\ pc' = "closed"
    /\ UNCHANGED <<def, tidy>>

\* The program ends while the table is altered, by itself or because it reads
\* the old definition beyond its end, and is started again.
Crash ==
    /\ pc \in {"alter", "remove"}
    /\ Undone
    /\ Leave
    /\ list' = <<>>
    /\ pc' = "closed"
    /\ UNCHANGED tidy

-----------------------------------------------------------------------------
\* The user enters data.
Enter ==
    /\ pc = "closed"
    /\ tb' = [tb EXCEPT !.cols = Holding(DOMAIN tb.cols, TRUE)]
    /\ UNCHANGED <<list, def, old, before, pc, i, tidy>>

Next ==
    \/ Open \/ OnAdd \/ OnDelete \/ OnUpdate \/ OnDeltaposUpdown \/ OnCancel
    \/ OnOKAdd \/ OnOKEdit \/ Fail
    \/ Alter \/ Remove \/ Done \/ Crash
    \/ Enter

Spec == Init /\ [][Next]_vars

-----------------------------------------------------------------------------
(* Properties *)

\* Every attribute has its columns, every column its attribute and the table
\* its key, whatever sequence of edits, failures and crashes there was. Given
\* a roll back that undoes table changes, and tidy edits.
TableMatchesDefinition ==
    tidy /\ pc \in {"closed", "editing"} =>
        DOMAIN tb.cols = AllColumns(def) /\ tb.key

RetainsData ==
    \A k \in DOMAIN old :
        (\E m \in DOMAIN def : def[m] = old[k]) =>
            \A c \in Columns(old[k]) \cap DOMAIN before.cols :
                c \in DOMAIN tb'.cols /\ tb'.cols[c] = before.cols[c]

\* An update that succeeds leaves the columns of the attributes that did not
\* change, and what was entered in them, as they were, ...
TidyUpdateRetainsData == [][Done /\ tidy => RetainsData]_vars

\* ... "only adding or deleting columns that have changed thus retaining
\* existing data" (BDFTypeCreate.cpp:188), for every edit the dialog allows
\* whose columns are unique.
UpdateRetainsData ==
    [][Done /\ Distinct(old) /\ Distinct(def) => RetainsData]_vars
=============================================================================
