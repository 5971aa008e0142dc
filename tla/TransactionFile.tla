------------------------------ MODULE TransactionFile ------------------------------
(***************************************************************************)
(* MainWindow::saveTransactionFile and TransactionFile: the transactions   *)
(* of the window are written to an SQLite file, each in a database         *)
(* transaction of its own, and anything may fail.                          *)
(*                                                                         *)
(* A table is the set of the transactions that have their rows in it.      *)
(***************************************************************************)
EXTENDS Naturals, FiniteSets

CONSTANT Ids   \* ids the application gives to its transactions, from 1 on

ASSUME IdsAssumption == Ids \in Nat

\* A transaction is of this run of the application, or was in the file before.
Transactions == [ earlier : BOOLEAN, id : 1 .. Ids ]
Ours(id)     == [ earlier |-> FALSE, id |-> id ]

\* The tables, messages and headers apart for requests and responses.
Tables == {"tx", "request", "request_headers", "response", "response_headers"}
After(table) == CASE table = "tx" -> "request"
                  [] table = "request" -> "request_headers"
                  [] table = "request_headers" -> "response"
                  [] table = "response" -> "response_headers"
                  [] table = "response_headers" -> "commit"

NoRows == [ table \in Tables |-> {} ]

VARIABLES
  exists,         \* a file of that name
  disk,           \* what is committed to it
  step,           \* where saveTransactionFile is
  row, count,     \* ix + 1 and rc of its loop
  db,             \* whether db_ is open, and has its tables
  inTransaction,  \* the connection has a transaction open
  work,           \* the tables as the connection sees them
  removed,        \* history: this save began with a new file
  failures        \* history: something failed in this save

database == << db, inTransaction, work >>
fileVars == << exists, disk, step, row, count, database, removed, failures >>

Steps == {"idle", "remove", "open", "begin", "commit", "close"} \cup Tables

\* What an earlier run of the application may have left.
FileInit ==
  /\ exists \in BOOLEAN
  /\ \E old \in SUBSET { t \in Transactions : t.earlier } :
       disk = [ table \in Tables |-> IF exists THEN old ELSE {} ]
  /\ step = "idle" /\ row = 1 /\ count = 0
  /\ db = "closed" /\ inTransaction = FALSE /\ work = NoRows
  /\ removed = FALSE /\ failures = FALSE

\* The user names a file.  What is in it is not of this save.
Save ==
  /\ step = "idle"
  /\ step' = "remove"
  /\ count' \in 0 .. Ids /\ row' = 1
  /\ disk' = [ table \in Tables |-> { [ t EXCEPT !.earlier = TRUE ] : t \in disk[table] } ]
  /\ removed' = FALSE /\ failures' = FALSE
  /\ UNCHANGED << exists, database >>

\* QFile::remove; nobody looks at the result.
Remove ==
  /\ step = "remove"
  /\ step' = "open"
  /\ \/ /\ exists' = FALSE /\ disk' = NoRows /\ removed' = TRUE
        /\ UNCHANGED failures
     \/ /\ exists
        /\ failures' = TRUE /\ UNCHANGED << exists, disk, removed >>
  /\ UNCHANGED << row, count, database >>

\* TransactionFile's constructor.  A database that does not open is logged, a
\* table that is not created is not even that.
Open ==
  /\ step = "open"
  /\ step' = "begin"
  /\ \/ db' = "ready" /\ exists' = TRUE /\ UNCHANGED failures
     \/ db' = "bare" /\ exists' = TRUE /\ failures' = TRUE
     \/ db' = "failed" /\ UNCHANGED exists /\ failures' = TRUE
  /\ work' = disk
  /\ UNCHANGED << disk, row, count, inTransaction, removed >>

\* The loop of saveTransactionFile: after the last row the file goes.
NextRow == /\ row' = row + 1
           /\ step' = "begin"

DoneBeforeTheLast ==
  /\ step = "begin" /\ row >= count
  /\ step' = "close"
  /\ UNCHANGED << exists, disk, row, count, database, removed, failures >>

Done == /\ step = "begin" /\ row > count
        /\ step' = "close"
        /\ UNCHANGED << exists, disk, row, count, database, removed, failures >>

Adding == step = "begin" /\ row <= count

\* addTransaction: BEGIN.  A connection that has a transaction refuses another.
Begin ==
  /\ Adding /\ db # "failed" /\ ~inTransaction
  /\ inTransaction' = TRUE
  /\ step' = "tx"
  /\ UNCHANGED << exists, disk, row, count, db, work, removed, failures >>

BeginRetries ==
  /\ Adding
  /\ failures' = TRUE
  /\ UNCHANGED << step, row, exists, disk, count, database, removed >>

BeginFails ==
  /\ Adding
  /\ NextRow
  /\ failures' = TRUE
  /\ UNCHANGED << exists, disk, count, database, removed >>

\* The five INSERTs, of which each uses a row the one before it has made.
PrimaryKeyTaken == step = "tx" /\ \E t \in work["tx"] : t.id = row

InsertUnprotected ==
  /\ step \in Tables /\ db = "ready" /\ ~PrimaryKeyTaken
  /\ work' = [ work EXCEPT ![step] = @ \cup {Ours(row)} ]
  /\ disk' = [ disk EXCEPT ![step] = @ \cup {Ours(row)} ]
  /\ step' = After(step)
  /\ UNCHANGED << exists, row, count, db, inTransaction, removed, failures >>

InsertOrReplace ==
  /\ step \in Tables /\ db = "ready" /\ ~PrimaryKeyTaken
  /\ work' = [ work EXCEPT ![step] = {Ours(row)} ]
  /\ step' = After(step)
  /\ UNCHANGED << exists, disk, row, count, db, inTransaction, removed, failures >>

Insert ==
  /\ step \in Tables /\ db = "ready" /\ ~PrimaryKeyTaken
  /\ work' = [ work EXCEPT ![step] = @ \cup {Ours(row)} ]
  /\ step' = After(step)
  /\ UNCHANGED << exists, disk, row, count, db, inTransaction, removed, failures >>

\* One that is not prepared, not executed or returns no id: rollback().
InsertFails ==
  /\ step \in Tables
  /\ work' = disk /\ inTransaction' = FALSE
  /\ NextRow
  /\ failures' = TRUE
  /\ UNCHANGED << exists, disk, count, db, removed >>

Commit ==
  /\ step = "commit"
  /\ disk' = work /\ inTransaction' = FALSE
  /\ NextRow
  /\ UNCHANGED << exists, count, db, work, removed, failures >>

\* A commit that fails is logged.  SQLite leaves the transaction open when the
\* file is busy, and undoes it when it cannot write.
CommitFails ==
  /\ step = "commit"
  /\ \/ UNCHANGED << inTransaction, work >>
     \/ inTransaction' = FALSE /\ work' = disk
  /\ NextRow
  /\ failures' = TRUE
  /\ UNCHANGED << exists, disk, count, db, removed >>

\* ~TransactionFile; what is not committed is undone.
CloseFile ==
  /\ step = "close"
  /\ step' = "idle"
  /\ db' = "closed" /\ inTransaction' = FALSE /\ work' = NoRows
  /\ UNCHANGED << exists, disk, row, count, removed, failures >>

\* The process dies; the next one that opens the file undoes what is open.
Killed ==
  /\ step' = "idle"
  /\ db' = "closed" /\ inTransaction' = FALSE /\ work' = NoRows
  /\ failures' = (failures \/ step # "idle")
  /\ UNCHANGED << exists, disk, row, count, removed >>

Saves == \/ Remove \/ Open \/ Done \/ Begin \/ BeginFails \/ Insert \/ InsertFails
         \/ Commit \/ CommitFails \/ CloseFile

FileNext == Save \/ Saves \/ Killed
FileSpec == FileInit /\ [][FileNext]_fileVars

--------------------------------------------------------------------------------
\* Properties.

FileTypeOK ==
  /\ exists \in BOOLEAN /\ inTransaction \in BOOLEAN
  /\ removed \in BOOLEAN /\ failures \in BOOLEAN
  /\ disk \in [Tables -> SUBSET Transactions]
  /\ work \in [Tables -> SUBSET Transactions]
  /\ step \in Steps
  /\ db \in {"closed", "failed", "bare", "ready"}
  /\ row \in 1 .. (Ids + 1) /\ count \in 0 .. Ids

\* A transaction is in the file with its request, its response and the headers
\* of both, or not at all, whatever fails and whenever the process dies.
WholeTransactions == \A table \in Tables : disk[table] = disk["tx"]

\* A file that was removed holds nothing but what this save put there.
NewFileIsNew == removed => \A t \in disk["tx"] : ~t.earlier

\* A save in which nothing failed leaves every row of the window in the file.
NoFailureNoLoss ==
  step = "idle" /\ removed /\ ~failures =>
    disk["tx"] = { Ours(id) : id \in 1 .. count }

\* The file never has two transactions of one id, whoever saved them.
OneOfEachId == \A t, u \in disk["tx"] : t.id = u.id => t = u

File == INSTANCE SavedFile WITH Rows <- 1 .. Ids, rows <- { t.id : t \in disk["tx"] }

\* A transaction gets into the file as a whole and stays there, until the file
\* is removed: no failure, of this save or a later one, takes it out again.
ImplementsSavedFile == File!Spec

\* A save ends, whatever fails.
FairFileSpec == FileSpec /\ WF_fileVars(Saves)
SaveEnds == step = "remove" ~> step = "idle"

================================================================================
