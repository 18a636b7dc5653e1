---------------------------- MODULE StatSimImport ----------------------------
(***************************************************************************)
(* How StatSim Pro imports files and processes what it imported            *)
(* (StatSimPro.cpp, ImportAutoSelDlg.cpp, ImportSelPathDlg.cpp).           *)
(*                                                                         *)
(* With direct processing everything is in one database, the global one.   *)
(* Otherwise each file of an automatic import is a batch with a database   *)
(* of its own, and the processing goes through the batches. There is one   *)
(* connection, pGlobalConn, that is redirected from one to the next. The   *)
(* import of a file is StatSimInsert; an action here is the part of a      *)
(* handler between two loops, two passes, or two questions to the user.    *)
(***************************************************************************)
EXTENDS StatSimInsert, Sequences

CONSTANTS
    Global,     \* sDB
    NoDB,       \* NULL
    MaxFiles,   \* bound on the files of an import
    MaxBatches  \* bound on nProcBatches

ASSUME StatSimImportAssumption ==
    /\ Global \in Databases
    /\ NoDB \notin Databases
    /\ MaxFiles \in Nat /\ MaxBatches \in Nat \ {0}

VARIABLES
    screen,  \* the loop the program is in, or the question it asks
    direct,  \* IsDirectProc
    kind,    \* "auto" or "bulk": the import that is going on
    files,   \* its files, each by the database of the place it is from
    i,       \* the file it is at
    n,       \* nProcBatches
    exist,   \* arrayProcExist
    dbs,     \* arrayBatchDB
    conn,    \* the database pGlobalConn is open on
    b,       \* the batch the processing is at
    redo,    \* basic indicators are processed
    left,    \* the processing was left before its end (history)
    stale,   \* databases with rows that their indicators do not count, of those
             \* imported or processed in this session (history)
    partly   \* the ones of them the processing went on with: ProcInd warned of
             \* rows left out, or a statement failed (history)

batches == <<n, exist, dbs>>
process == <<b, redo, left>>
counts == <<stale, partly>>
vars == <<insVars, screen, direct, kind, files, i, batches, conn, process,
          counts>>

\* Rows of d are imported, or its indicators are emptied; all its rows are counted;
\* some are left out.
Uncounted(d) == stale' = stale \cup {d} /\ partly' = partly \ {d}
Counted(d) == stale' = stale \ {d} /\ partly' = partly \ {d}
LeftOut(d) == stale' = stale \cup {d} /\ partly' = partly \cup {d}

\* The list of files is used up, and what ConUpElt has of its own is gone.
ListDone == kind' = "auto" /\ files' = <<>> /\ i' = 1
ProcessDone == b' = 0 /\ redo' = FALSE

BatchDBs == Databases \ {Global}
FileLists == UNION {[1..l -> BatchDBs] : l \in 1..MaxFiles}

Init ==
    /\ InsertInit
    /\ screen = "login"
    /\ direct = TRUE
    /\ kind = "auto" /\ files = <<>> /\ i = 1
    /\ n = 0 /\ exist = <<>> /\ dbs = <<>>
    /\ conn = Global
    /\ b = 0 /\ redo = FALSE /\ left = FALSE
    /\ stale = {} /\ partly = {}

\* CLoginDlg::OnBnClickedOk; BuildBatchDBs takes the batches of an earlier
\* session from the table ~batchdb.
Login ==
    /\ screen = "login"
    /\ direct' \in BOOLEAN
    /\ dbs' \in IF direct' THEN {<<>>} ELSE {<<>>} \cup [1..1 -> BatchDBs]
    /\ exist' = [j \in DOMAIN dbs' |-> TRUE]
    /\ n' = Len(dbs')
    /\ conn' = Global
    /\ screen' = "main"
    /\ UNCHANGED <<insVars, kind, files, i, process, counts>>

\* The program is closed, or ends anywhere.
EndProgram ==
    /\ screen # "login"
    /\ IF stage = "idle" THEN UNCHANGED insVars ELSE Abandon
    /\ screen' = "login"
    /\ ListDone /\ ProcessDone /\ left' = FALSE
    /\ n' = 0 /\ exist' = <<>> /\ dbs' = <<>>
    /\ conn' = Global
    /\ stale' = {} /\ partly' = {} /\ direct' = TRUE

-----------------------------------------------------------------------------
(* CImportAutoSelDlg *)

Resized(s, l, default) ==
    [j \in 1..l |-> IF j <= Len(s) THEN s[j] ELSE default]

\* AutoImport up to its loop
StartAuto(list) ==
    /\ screen = "main"
    /\ n + Len(list) <= MaxBatches
    /\ kind' = "auto" /\ files' = list /\ i' = 1
    /\ n' = IF direct THEN n ELSE n + Len(list)
    /\ exist' = Resized(exist, Len(list), FALSE)
    /\ dbs' = Resized(dbs, Len(list), NoDB)
    /\ screen' = "files"
    /\ UNCHANGED <<insVars, direct, conn, process, counts>>

SetBatch(e, d) ==
    IF direct THEN UNCHANGED batches
    ELSE /\ exist' = [exist EXCEPT ![i] = e]
         /\ dbs' = [dbs EXCEPT ![i] = d]
         /\ n' = n

\* Mutant: a missing file leaves the entry of the batch as it was, but for its
\* database.
M_AutoMissing ==
    /\ screen = "files" /\ kind = "auto" /\ i <= Len(files)
    /\ IF direct THEN UNCHANGED batches
       ELSE /\ dbs' = [dbs EXCEPT ![i] = NoDB]
            /\ UNCHANGED <<n, exist>>
    /\ screen' = "missing"
    /\ UNCHANGED <<insVars, direct, kind, files, i, conn, process, counts>>

AutoMissing ==
    /\ screen = "files" /\ kind = "auto" /\ i <= Len(files)
    /\ SetBatch(FALSE, NoDB)
    /\ screen' = "missing"
    /\ UNCHANGED <<insVars, direct, kind, files, i, conn, process, counts>>

\* "What would you like to do?": abort, retry, ignore
AutoAnswer ==
    /\ screen = "missing"
    /\ \/ screen' = "process" /\ ListDone
       \/ screen' = "files" /\ i' = i /\ UNCHANGED <<kind, files>>
       \/ screen' = "files" /\ i' = i + 1 /\ UNCHANGED <<kind, files>>
    /\ UNCHANGED <<insVars, direct, batches, conn, process, counts>>

\* "redirect global database", and ImportData up to the loop over the lines
AutoFound ==
    LET to == IF direct THEN conn ELSE files[i] IN
    /\ screen = "files" /\ kind = "auto" /\ i <= Len(files)
    /\ SetBatch(TRUE, to)
    /\ conn' = to
    /\ InsertRecords(to)
    /\ Uncounted(to)
    /\ screen' = "importing"
    /\ UNCHANGED <<direct, kind, files, i, process>>

-----------------------------------------------------------------------------
(* CImportSelPathDlg and ImportBulkData *)

StartBulk(list) ==
    /\ screen = "main"
    /\ kind' = "bulk" /\ files' = list /\ i' = 1
    /\ screen' = "files"
    /\ UNCHANGED <<insVars, direct, batches, conn, process, counts>>

\* An empty path, or "Can't find"
BulkMissing ==
    /\ screen = "files" /\ kind = "bulk" /\ i <= Len(files)
    /\ i' = i + 1
    /\ UNCHANGED <<insVars, screen, direct, kind, files, batches, conn, process,
                   counts>>

BulkFound ==
    /\ screen = "files" /\ kind = "bulk" /\ i <= Len(files)
    /\ InsertRecords(conn)
    /\ IF ~direct /\ conn = Global THEN UNCHANGED counts ELSE Uncounted(conn)
    /\ screen' = "importing"
    /\ UNCHANGED <<direct, kind, files, i, batches, conn, process>>

-----------------------------------------------------------------------------
(* Both *)

Insert ==
    /\ screen = "importing"
    /\ InsertStep
    /\ UNCHANGED <<screen, direct, kind, files, i, batches, conn, process, counts>>

FileFails ==
    /\ screen = "importing"
    /\ StreamFails
    /\ UNCHANGED <<screen, direct, kind, files, i, batches, conn, process, counts>>

\* Mutant: pGlobalConn stays where the batch was imported.
M_ImportData ==
    /\ screen = "importing" /\ stage = "idle"
    /\ conn' = conn /\ left' = left
    /\ i' = i + 1
    /\ screen' = "files"
    /\ UNCHANGED <<insVars, direct, kind, files, batches, b, redo, counts>>

\* ImportData returns. The variant of the automatic import redirects the
\* connection to the global database.
ImportData ==
    /\ screen = "importing" /\ stage = "idle"
    /\ IF kind = "auto" THEN conn' = Global /\ left' = FALSE
                        ELSE UNCHANGED <<conn, left>>
    /\ i' = i + 1
    /\ screen' = "files"
    /\ UNCHANGED <<insVars, direct, kind, files, batches, b, redo, counts>>

\* The end of the loop, and "Do you want to import another set of files?"
LastFile ==
    /\ screen = "files" /\ i > Len(files)
    /\ IF kind = "auto" THEN conn' = Global /\ left' = FALSE
                        ELSE UNCHANGED <<conn, left>>
    /\ screen' \in {"main", "process"}
    /\ ListDone
    /\ UNCHANGED <<insVars, direct, batches, b, redo, counts>>

-----------------------------------------------------------------------------
(* ConUpElt *)

\* TableExists looks for hpq_hh, the table of one of the record types, in the
\* database the connection is on. Called after an import, if the user wants to
\* "start the processing", or by the menu, when the basic indicators may be left
\* as they are if they were processed before.
ConUpElt ==
    /\ screen \in {"main", "process"}
    /\ \/ /\ conn \in created
          /\ screen' = "basic"
          /\ b' = 0
          /\ redo' \in IF screen = "main" THEN BOOLEAN ELSE {TRUE}
       \/ /\ screen = "process" \/ conn \notin created
          /\ screen' = "main"
          /\ UNCHANGED <<b, redo>>
    /\ UNCHANGED <<insVars, direct, kind, files, i, batches, conn, left, counts>>

\* arrayProcExist[b] and arrayBatchDB[b]. Beyond the end of the arrays it is
\* whatever is there: any value, or one of a longer array that was there before.
Exists(e) == IF b < Len(exist) THEN e = exist[b + 1] ELSE e \in BOOLEAN
DB(d) == IF b < Len(dbs) THEN d = dbs[b + 1] ELSE d \in BatchDBs

Redirect(d) ==
    /\ conn' = d
    /\ left' = FALSE

\* The processing of the basic indicators of a database, when it goes on: only
\* an empty hh_ind ends it. With fewer households than there are in hpq_hh it
\* warns, and goes on; so it does after a statement that failed, and the
\* members' indicators are not compared with anything.
ProcInd(d) == IF redo THEN Counted(d) \/ LeftOut(d) ELSE UNCHANGED counts

\* Mutant: the loop goes one batch too far.
M_BasicBatchPast ==
    /\ screen = "basic" /\ ~direct /\ b <= n
    /\ \/ /\ Exists(FALSE)
          /\ b' = b + 1
          /\ UNCHANGED <<conn, redo, left, counts, screen>>
       \/ \E d \in BatchDBs :
          /\ Exists(TRUE) /\ DB(d)
          /\ b' = b + 1
          /\ Redirect(d)
          /\ ProcInd(d)
          /\ UNCHANGED <<redo, screen>>
       \/ \E d \in BatchDBs :
          /\ Exists(TRUE) /\ DB(d) /\ redo
          /\ conn' = d /\ left' = TRUE
          /\ ProcessDone
          /\ screen' = "main"
          /\ Uncounted(d)
    /\ UNCHANGED <<insVars, direct, kind, files, i, batches>>

\* A batch of the first loop. When the indicators of the households cannot be
\* processed the handler returns, with the connection where it is.
BasicBatch ==
    /\ screen = "basic" /\ ~direct /\ b < n
    /\ \/ /\ Exists(FALSE)
          /\ b' = b + 1
          /\ UNCHANGED <<conn, redo, left, counts, screen>>
       \/ \E d \in BatchDBs :
          /\ Exists(TRUE) /\ DB(d)
          /\ b' = b + 1
          /\ Redirect(d)
          /\ ProcInd(d)
          /\ UNCHANGED <<redo, screen>>
       \/ \E d \in BatchDBs :
          /\ Exists(TRUE) /\ DB(d) /\ redo
          /\ conn' = d /\ left' = TRUE
          /\ ProcessDone
          /\ screen' = "main"
          /\ Uncounted(d)
    /\ UNCHANGED <<insVars, direct, kind, files, i, batches>>

BasicDirect ==
    /\ screen = "basic" /\ direct
    /\ Redirect(Global)
    /\ \/ /\ ProcInd(Global)
          /\ screen' = "select"
          /\ UNCHANGED <<b, redo>>
       \/ /\ redo
          /\ Uncounted(Global)
          /\ screen' = "main"
          /\ ProcessDone
    /\ UNCHANGED <<insVars, direct, kind, files, i, batches>>

\* Mutant: the loop ends one batch early.
M_BasicDone ==
    /\ screen = "basic" /\ ~direct /\ b >= n - 1
    /\ screen' = "select" /\ b' = 0
    /\ UNCHANGED <<insVars, direct, kind, files, i, batches, conn, redo, left,
                   counts>>

BasicDone ==
    /\ screen = "basic" /\ ~direct /\ b >= n
    /\ screen' = "select" /\ b' = 0
    /\ UNCHANGED <<insVars, direct, kind, files, i, batches, conn, redo, left,
                   counts>>

\* "Select levels to process...", or "Processing cancelled"
Select ==
    /\ screen = "select"
    /\ \/ /\ screen' = "levels"
          /\ UNCHANGED process
       \/ /\ screen' = "main"
          /\ left' = ~direct
          /\ ProcessDone
    /\ UNCHANGED <<insVars, direct, kind, files, i, batches, conn, counts>>

\* A batch of the second loop, which is gone through for each level selected
LevelBatch ==
    /\ screen = "levels" /\ ~direct /\ b < n
    /\ b' = b + 1
    /\ \/ /\ Exists(FALSE)
          /\ UNCHANGED <<conn, left>>
       \/ \E d \in BatchDBs : Exists(TRUE) /\ DB(d) /\ Redirect(d)
    /\ UNCHANGED <<insVars, screen, direct, kind, files, i, batches, redo, counts>>

LevelDirect ==
    /\ screen = "levels" /\ direct
    /\ Redirect(Global)
    /\ UNCHANGED <<insVars, screen, direct, kind, files, i, batches, b, redo,
                   counts>>

NextLevel ==
    /\ screen = "levels" /\ ~direct /\ b >= n
    /\ b' = 0
    /\ UNCHANGED <<insVars, screen, direct, kind, files, i, batches, conn, redo,
                   left, counts>>

\* "Processing has been completed."
Completed ==
    /\ screen = "levels" /\ (direct \/ b \in {0, n})
    /\ Redirect(Global)
    /\ screen' = "completed"
    /\ UNCHANGED <<insVars, direct, kind, files, i, batches, b, redo, counts>>

CompletedOK ==
    /\ screen = "completed"
    /\ screen' = "main"
    /\ ProcessDone
    /\ UNCHANGED <<insVars, direct, kind, files, i, batches, conn, left, counts>>

-----------------------------------------------------------------------------
Next ==
    \/ Login \/ EndProgram
    \/ \E list \in FileLists : StartAuto(list) \/ StartBulk(list)
    \/ AutoMissing \/ AutoAnswer \/ AutoFound
    \/ BulkMissing \/ BulkFound
    \/ Insert \/ FileFails \/ ImportData \/ LastFile
    \/ ConUpElt
    \/ BasicBatch \/ BasicDirect \/ BasicDone
    \/ Select
    \/ LevelBatch \/ LevelDirect \/ NextLevel \/ Completed \/ CompletedOK

\* The loops of an import go on by themselves.
Spec == Init /\ [][Next]_vars /\ WF_vars(Insert)

-----------------------------------------------------------------------------
(* Properties *)

TypeOK ==
    /\ InsertTypeOK
    /\ screen \in {"login", "main", "files", "missing", "importing", "process",
                   "basic", "select", "levels", "completed"}
    /\ direct \in BOOLEAN /\ kind \in {"auto", "bulk"}
    /\ files \in {<<>>} \cup FileLists /\ i \in 1..(MaxFiles + 1)
    /\ n \in 0..MaxBatches
    /\ exist \in Seq(BOOLEAN) /\ dbs \in Seq(BatchDBs \cup {NoDB})
    /\ conn \in Databases
    /\ b \in 0..MaxBatches
    /\ redo \in BOOLEAN /\ left \in BOOLEAN
    /\ stale \subseteq Databases /\ partly \subseteq Databases

\* The processing opens arrayBatchDB[b] wherever arrayProcExist[b] is true: the
\* two stay in step through imports that are aborted, lists that are shorter or
\* longer than the ones before, and files that come and go between retries.
ExistingBatchHasDB ==
    /\ Len(exist) = Len(dbs)
    /\ \A j \in DOMAIN exist : exist[j] => dbs[j] # NoDB

\* "redirect global database to the global" (ImportAutoSelDlg.cpp:325): when
\* the user may choose the next command, the connection is on the global
\* database, unless the processing of batches was left before its end.
GlobalUnlessLeft == screen \in {"login", "main"} => conn = Global \/ left

\* "Processing has been completed": a database has rows that its indicators do
\* not count only if the processing went over them, and left them out with a
\* warning or after a statement that failed. No batch is skipped, and none is
\* imported again behind its processing, if the basic indicators were to be
\* processed and no list of batches was there before the last one. What is
\* imported into the global database while processing is by batch is not meant:
\* that is never processed.
CompletedFresh ==
    screen = "completed" /\ redo /\ (direct \/ n = Len(exist))
        => stale \subseteq partly

\* An import comes to its end, unless the file cannot be read any further.
ImportEnds ==
    (screen = "importing") ~> (screen # "importing" \/ stage = "idle"
                                                    \/ stream = "failed")
=============================================================================
