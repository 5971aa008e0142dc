--------------------------- MODULE TransactionFileProofs ---------------------------
(***************************************************************************)
(* Proofs about TransactionFile: what a save leaves in the file, for any   *)
(* number of transactions and any failures.                                *)
(***************************************************************************)
EXTENDS TransactionFile, TLAPS

\* FileTypeOK in the parts that are proved apart.
TablesOK == disk \in [Tables -> SUBSET Transactions] /\ work \in [Tables -> SUBSET Transactions]
FlagsOK  == /\ exists \in BOOLEAN /\ inTransaction \in BOOLEAN
            /\ removed \in BOOLEAN /\ failures \in BOOLEAN
PlaceOK  == /\ step \in Steps
            /\ db \in {"closed", "failed", "bare", "ready"}
            /\ row \in 1 .. (Ids + 1) /\ count \in 0 .. Ids

\* The tables that have their row of the transaction under way.
Filled == CASE step = "tx"               -> {}
            [] step = "request"          -> {"tx"}
            [] step = "request_headers"  -> {"tx", "request"}
            [] step = "response"         -> {"tx", "request", "request_headers"}
            [] step = "response_headers" -> {"tx", "request", "request_headers", "response"}
            [] OTHER                     -> Tables

Inserting == step \in Tables \cup {"commit"}

\* The connection sees the file with the rows of one transaction more, and
\* that transaction is not in the file yet.  After a commit that failed it may see
\* anything, but it is then never asked to commit again.
Pending ==
  /\ step \in {"idle", "remove", "open"} => ~inTransaction
  /\ step = "begin" /\ ~inTransaction => work = disk
  /\ Inserting =>
       /\ inTransaction /\ row <= count
       /\ \A table \in Tables :
            work[table] = IF table \in Filled THEN disk[table] \cup {Ours(row)}
                                              ELSE disk[table]
       /\ step # "tx" => \A t \in disk["tx"] : t.id # row

\* Where the loop is, and what a save without a failure has in the file by then.
Progress ==
  /\ row <= count + 1
  /\ step = "open" => row = 1
  /\ step = "remove" => ~removed /\ row = 1
  /\ removed /\ ~failures /\ step # "remove" =>
       /\ disk["tx"] = { Ours(id) : id \in 1 .. (row - 1) }
       /\ step \in {"idle", "close"} => row = count + 1

FileInv == FileTypeOK /\ WholeTransactions /\ NewFileIsNew /\ OneOfEachId
           /\ Pending /\ Progress

--------------------------------------------------------------------------------

LEMMA TypeParts == FileTypeOK <=> TablesOK /\ FlagsOK /\ PlaceOK
BY DEF FileTypeOK, TablesOK, FlagsOK, PlaceOK

LEMMA OursFacts ==
  ASSUME NEW id \in 1 .. Ids
  PROVE  Ours(id) \in Transactions /\ Ours(id).id = id /\ ~Ours(id).earlier
BY DEF Ours, Transactions

LEMMA InitFileInv == FileInit => FileInv
<1> SUFFICES ASSUME FileInit PROVE FileInv
  OBVIOUS
<1> USE IdsAssumption
<1>1. PICK old \in SUBSET { t \in Transactions : t.earlier } :
        disk = [ table \in Tables |-> IF exists THEN old ELSE {} ]
  BY DEF FileInit
<1>2. FileTypeOK
  <2>1. disk \in [Tables -> SUBSET Transactions]
    BY <1>1
  <2>2. work \in [Tables -> SUBSET Transactions]
    BY DEF FileInit, NoRows
  <2>3. FlagsOK
    BY DEF FileInit, FlagsOK
  <2>4. PlaceOK
    BY DEF FileInit, PlaceOK, Steps
  <2> QED BY <2>1, <2>2, <2>3, <2>4, TypeParts DEF TablesOK
<1>3. WholeTransactions /\ NewFileIsNew
  BY <1>1 DEF FileInit, WholeTransactions, NewFileIsNew, Tables
<1>4. OneOfEachId
  BY <1>1 DEF FileInit, OneOfEachId, Tables, Transactions
<1>5. Pending /\ Progress
  BY DEF FileInit, Pending, Progress, Inserting, Tables
<1> QED BY <1>2, <1>3, <1>4, <1>5 DEF FileInv

\* What saveTransactionFile does before the loop.
LEMMA SaveKeepsFileInv == FileInv /\ Save => FileInv'
<1> SUFFICES ASSUME FileInv, Save PROVE FileInv'
  OBVIOUS
<1> USE IdsAssumption DEF FileInv, Save, database
<1> DEFINE Old(t) == [ t EXCEPT !.earlier = TRUE ]
<1>1. \A t \in Transactions : Old(t) \in Transactions /\ Old(t).id = t.id /\ Old(t).earlier
  BY DEF Transactions
<1>2. disk' = [ table \in Tables |-> { Old(t) : t \in disk[table] } ]
  OBVIOUS
<1> HIDE DEF Old
<1>3. FileTypeOK'
  <2>1. disk' \in [Tables -> SUBSET Transactions]
    BY <1>1, <1>2 DEF FileTypeOK
  <2>2. TablesOK' /\ FlagsOK'
    BY <2>1, TypeParts DEF TablesOK, FlagsOK
  <2>3. PlaceOK'
    BY TypeParts DEF PlaceOK, Steps
  <2> QED BY <2>2, <2>3 DEF FileTypeOK, TablesOK, FlagsOK, PlaceOK
<1>4. WholeTransactions' /\ NewFileIsNew'
  BY <1>2 DEF WholeTransactions, NewFileIsNew, Tables
<1>5. OneOfEachId'
  <2> SUFFICES ASSUME NEW a \in disk["tx"], NEW b \in disk["tx"], Old(a).id = Old(b).id
               PROVE  Old(a) = Old(b)
    BY <1>2 DEF OneOfEachId, Tables
  <2>1. a \in Transactions /\ b \in Transactions
    BY DEF FileTypeOK, Tables
  <2> QED BY <1>1, <2>1 DEF OneOfEachId
<1>6. Pending' /\ Progress'
  BY DEF Pending, Progress, FileTypeOK, Inserting, Tables
<1> QED BY <1>3, <1>4, <1>5, <1>6

LEMMA RemoveKeepsFileInv == FileInv /\ Remove => FileInv'
<1> SUFFICES ASSUME FileInv, Remove PROVE FileInv'
  OBVIOUS
<1> USE IdsAssumption DEF FileInv, Remove, database
<1>1. FileTypeOK'
  <2>1. TablesOK'
    BY TypeParts DEF TablesOK, NoRows
  <2>2. FlagsOK'
    BY TypeParts DEF FlagsOK
  <2>3. PlaceOK'
    BY TypeParts DEF PlaceOK, Steps
  <2> QED BY <2>1, <2>2, <2>3 DEF FileTypeOK, TablesOK, FlagsOK, PlaceOK
<1>2. WholeTransactions' /\ NewFileIsNew' /\ OneOfEachId'
  <2>1. disk' = NoRows \/ UNCHANGED << disk, removed >>
    OBVIOUS
  <2> HIDE DEF Remove
  <2> QED BY <2>1 DEF WholeTransactions, NewFileIsNew, OneOfEachId, NoRows, Tables
<1>3. Pending'
  BY DEF Pending, Inserting, Tables
<1>4. Progress'
  BY DEF Progress, NoRows, Tables, FileTypeOK
<1> QED BY <1>1, <1>2, <1>3, <1>4

\* A step that leaves the file alone only has to keep its place in the loop.
LEMMA FileUntouched ==
  ASSUME FileInv, UNCHANGED << disk, removed, count >>, FileTypeOK', Pending', Progress'
  PROVE  FileInv'
BY DEF FileInv, WholeTransactions, NewFileIsNew, OneOfEachId

LEMMA LoopKeepsFileInv ==
  FileInv /\ (Open \/ Done \/ Begin \/ BeginFails \/ CloseFile \/ Killed) => FileInv'
<1> SUFFICES ASSUME FileInv, Open \/ Done \/ Begin \/ BeginFails \/ CloseFile \/ Killed
             PROVE  FileInv'
  OBVIOUS
<1> USE IdsAssumption
<1>1. UNCHANGED << disk, removed, count >>
  BY DEF Open, Done, Begin, BeginFails, CloseFile, Killed
<1>2. FileTypeOK'
  <2> USE DEF FileInv, Open, Done, Begin, BeginFails, CloseFile, Killed, NextRow, Adding,
              database
  <2>1. TablesOK'
    BY TypeParts DEF TablesOK, NoRows
  <2>2. FlagsOK'
    BY TypeParts DEF FlagsOK
  <2>3. PlaceOK'
    BY TypeParts DEF PlaceOK, Steps, Tables
  <2> QED BY <2>1, <2>2, <2>3 DEF FileTypeOK, TablesOK, FlagsOK, PlaceOK
<1>3. Pending'
  BY DEF FileInv, Pending, Inserting, Tables, Filled, database, FileTypeOK,
         Open, Done, Begin, BeginFails, CloseFile, Killed, NextRow, Adding
<1>4. Progress'
  BY DEF FileInv, Progress, FileTypeOK, database,
         Open, Done, Begin, BeginFails, CloseFile, Killed, NextRow, Adding
<1> QED BY <1>1, <1>2, <1>3, <1>4, FileUntouched

LEMMA InsertKeepsFileInv == FileInv /\ Insert => FileInv'
<1> SUFFICES ASSUME FileInv, Insert PROVE FileInv'
  OBVIOUS
<1> USE IdsAssumption DEF FileInv, Insert
<1>1. row \in 1 .. Ids /\ Inserting
  BY DEF FileTypeOK, Pending, Inserting
<1>2. Ours(row) \in Transactions /\ Ours(row).id = row
  BY <1>1, OursFacts
<1>3. FileTypeOK'
  BY <1>2 DEF FileTypeOK, Steps, Tables, After
<1>4. work' = [ work EXCEPT ![step] = work[step] \cup {Ours(row)} ]
  OBVIOUS
<1>5. step = "tx" => \A t \in disk["tx"] : t.id # row
  BY <1>1 DEF Pending, PrimaryKeyTaken, Filled, Tables
<1>6. \A table \in Tables :
         work'[table] = IF table \in Filled' THEN disk[table] \cup {Ours(row)}
                                             ELSE disk[table]
  <2>1. \A table \in Tables : table \in Filled' <=> table \in Filled \/ table = step
    BY DEF Filled, Tables, After
  <2>2. step \notin Filled
    BY DEF Filled, Tables
  <2> HIDE DEF Insert
  <2> QED BY <1>1, <1>4, <2>1, <2>2 DEF Pending, FileTypeOK
<1>7. Pending'
  <2>1. Inserting' /\ step' \notin {"idle", "remove", "open", "begin"}
    BY DEF Inserting, Tables, After
  <2> HIDE DEF Insert
  <2>2. inTransaction' /\ row' <= count' /\ UNCHANGED << disk, row >>
    BY <1>1 DEF Insert, Pending
  <2>3. step # "tx" => \A t \in disk["tx"] : t.id # row
    BY <1>1 DEF Pending
  <2> QED BY <1>5, <1>6, <2>1, <2>2, <2>3 DEF Pending
<1>8. Progress'
  BY DEF Progress, Tables, After
<1> QED BY <1>3, <1>7, <1>8, FileUntouched

LEMMA InsertFailsKeepsFileInv == FileInv /\ InsertFails => FileInv'
<1> SUFFICES ASSUME FileInv, InsertFails PROVE FileInv'
  OBVIOUS
<1> USE IdsAssumption DEF FileInv, InsertFails, NextRow
<1>1. row \in 1 .. Ids /\ row <= count
  BY DEF FileTypeOK, Pending, Inserting
<1>2. FileTypeOK'
  <2>1. TablesOK'
    BY <1>1, TypeParts DEF TablesOK
  <2>2. FlagsOK'
    BY <1>1, TypeParts DEF FlagsOK
  <2>3. PlaceOK'
    BY <1>1, TypeParts DEF PlaceOK, Steps
  <2> QED BY <2>1, <2>2, <2>3 DEF FileTypeOK, TablesOK, FlagsOK, PlaceOK
<1>3. Pending'
  BY <1>1 DEF Pending, Inserting, Tables
<1>4. Progress'
  BY <1>1 DEF Progress, FileTypeOK
<1> QED BY <1>2, <1>3, <1>4, FileUntouched

\* What a commit adds to the file.
LEMMA CommitAdds ==
  ASSUME FileInv, Commit
  PROVE  /\ row \in 1 .. Ids /\ row <= count
         /\ \A table \in Tables : disk'[table] = disk["tx"] \cup {Ours(row)}
         /\ \A t \in disk["tx"] : t.id # row
<1> USE DEF FileInv, Commit
<1>1. Inserting /\ row \in 1 .. Ids /\ row <= count
  BY IdsAssumption DEF FileTypeOK, Pending, Inserting
<1>2. \A table \in Tables : work[table] = disk[table] \cup {Ours(row)}
  BY <1>1 DEF Pending, Filled
<1> QED BY <1>1, <1>2 DEF Pending, WholeTransactions

LEMMA CommitKeepsFileInv == FileInv /\ Commit => FileInv'
<1> SUFFICES ASSUME FileInv, Commit PROVE FileInv'
  OBVIOUS
<1> USE IdsAssumption
<1>1. /\ row \in 1 .. Ids /\ row <= count
      /\ \A table \in Tables : disk'[table] = disk["tx"] \cup {Ours(row)}
      /\ \A t \in disk["tx"] : t.id # row
  BY CommitAdds
<1>2. Ours(row) \in Transactions /\ Ours(row).id = row /\ ~Ours(row).earlier
  BY <1>1, OursFacts
<1>3. disk'["tx"] = disk["tx"] \cup {Ours(row)}
  BY <1>1 DEF Tables
<1>4. FileTypeOK'
  <2> USE DEF FileInv, Commit, NextRow
  <2>1. TablesOK'
    BY <1>1, TypeParts DEF TablesOK
  <2>2. FlagsOK'
    BY <1>1, TypeParts DEF FlagsOK
  <2>3. PlaceOK'
    BY <1>1, TypeParts DEF PlaceOK, Steps
  <2> QED BY <2>1, <2>2, <2>3 DEF FileTypeOK, TablesOK, FlagsOK, PlaceOK
<1>5. WholeTransactions' /\ NewFileIsNew' /\ OneOfEachId'
  <2>1. WholeTransactions'
    BY <1>1 DEF WholeTransactions, Tables
  <2>2. NewFileIsNew'
    BY <1>2, <1>3 DEF FileInv, Commit, NewFileIsNew
  <2>3. OneOfEachId'
    BY <1>1, <1>2, <1>3 DEF FileInv, OneOfEachId
  <2> QED BY <2>1, <2>2, <2>3
<1>6. Pending'
  BY DEF Commit, NextRow, Pending, Inserting, Tables
<1>7. Progress'
  <2> USE DEF Commit, NextRow
  <2>1. row' <= count' + 1 /\ step' \notin {"open", "remove", "idle", "close"}
    BY <1>1 DEF FileInv, FileTypeOK
  <2>2. removed' /\ ~failures' => disk'["tx"] = { Ours(id) : id \in 1 .. (row' - 1) }
    <3> SUFFICES ASSUME removed, ~failures
                 PROVE  disk["tx"] \cup {Ours(row)} = { Ours(id) : id \in 1 .. row }
      BY <1>1, <1>3
    <3>1. disk["tx"] = { Ours(id) : id \in 1 .. (row - 1) }
      BY DEF FileInv, Progress
    <3>2. 1 .. row = 1 .. (row - 1) \cup {row}
      BY <1>1
    <3> QED BY <3>1, <3>2
  <2> HIDE DEF Commit, NextRow
  <2> QED BY <2>1, <2>2 DEF Progress
<1> QED BY <1>4, <1>5, <1>6, <1>7 DEF FileInv

LEMMA CommitFailsKeepsFileInv == FileInv /\ CommitFails => FileInv'
<1> SUFFICES ASSUME FileInv, CommitFails PROVE FileInv'
  OBVIOUS
<1> USE IdsAssumption DEF FileInv, CommitFails, NextRow
<1>1. row \in 1 .. Ids /\ row <= count /\ inTransaction
  BY DEF FileTypeOK, Pending, Inserting
<1>2. FileTypeOK'
  <2>1. TablesOK'
    BY <1>1, TypeParts DEF TablesOK
  <2>2. FlagsOK'
    BY <1>1, TypeParts DEF FlagsOK
  <2>3. PlaceOK'
    BY <1>1, TypeParts DEF PlaceOK, Steps
  <2> QED BY <2>1, <2>2, <2>3 DEF FileTypeOK, TablesOK, FlagsOK, PlaceOK
<1>3. Pending'
  BY <1>1 DEF Pending, Inserting, Tables
<1>4. Progress'
  BY <1>1 DEF Progress, FileTypeOK
<1> QED BY <1>2, <1>3, <1>4, FileUntouched

LEMMA NextKeepsFileInv == FileInv /\ [FileNext]_fileVars => FileInv'
<1> SUFFICES ASSUME FileInv, [FileNext]_fileVars PROVE FileInv'
  OBVIOUS
<1>1. CASE UNCHANGED fileVars
  BY <1>1 DEF fileVars, database, FileInv, FileTypeOK, WholeTransactions, NewFileIsNew,
              OneOfEachId, Pending, Progress, Inserting, Filled
<1>2. CASE FileNext
  BY <1>2, SaveKeepsFileInv, RemoveKeepsFileInv, LoopKeepsFileInv, InsertKeepsFileInv,
     InsertFailsKeepsFileInv, CommitKeepsFileInv, CommitFailsKeepsFileInv
     DEF FileNext, Saves
<1> QED BY <1>1, <1>2

LEMMA AlwaysFileInv == FileSpec => []FileInv
BY InitFileInv, NextKeepsFileInv, PTL DEF FileSpec

--------------------------------------------------------------------------------
\* The state of a save is one that saveTransactionFile can be in, for any number
\* of rows.
THEOREM FileTypeCorrect == FileSpec => []FileTypeOK
BY AlwaysFileInv, PTL DEF FileInv

\* Whatever fails and whenever the process dies, the tables of the file agree on
\* the transactions that are in it (TransactionFile::addTransaction).
THEOREM FileIsWhole == FileSpec => []WholeTransactions
BY AlwaysFileInv, PTL DEF FileInv

\* After a successful QFile::remove nothing of the old file is in the new one.
THEOREM FileIsNew == FileSpec => []NewFileIsNew
BY AlwaysFileInv, PTL DEF FileInv

\* No two transactions of the file have one id, although the ids of every run of
\* the application begin at 1 and the old file may not have been removed.
THEOREM FileIdsUnique == FileSpec => []OneOfEachId
BY AlwaysFileInv, PTL DEF FileInv

\* If nothing failed, saveTransactionFile has written every row of the window.
THEOREM FileIsComplete == FileSpec => []NoFailureNoLoss
<1>1. FileInv => NoFailureNoLoss
  BY IdsAssumption DEF FileInv, FileTypeOK, Progress, NoFailureNoLoss
<1> QED BY <1>1, AlwaysFileInv, PTL

--------------------------------------------------------------------------------
\* The file as a whole: each step of a save is one of SavedFile, or none.

SavedIds == { t.id : t \in disk["tx"] }

LEMMA StepsOfTheFile ==
  ASSUME FileInv, [FileNext]_fileVars
  PROVE  [File!Next]_SavedIds
<1> USE DEF SavedIds
<1>1. CASE Save
  <2>1. disk'["tx"] = { [ t EXCEPT !.earlier = TRUE ] : t \in disk["tx"] }
    BY <1>1 DEF Save, Tables
  <2>2. \A t \in disk["tx"] : [ t EXCEPT !.earlier = TRUE ].id = t.id
    BY DEF FileInv, FileTypeOK, Transactions, Tables
  <2>3. SavedIds' = SavedIds
    BY <2>1, <2>2
  <2> QED BY <2>3
<1>2. CASE Remove
  <2>1. disk'["tx"] = {} \/ UNCHANGED disk
    BY <1>2 DEF Remove, NoRows, Tables
  <2> QED BY <2>1 DEF File!Next, File!Removed
<1>3. CASE Commit
  <2>1. /\ row \in 1 .. Ids
        /\ disk'["tx"] = disk["tx"] \cup {Ours(row)}
        /\ \A t \in disk["tx"] : t.id # row
    BY <1>3, CommitAdds DEF Tables
  <2>2. Ours(row).id = row
    BY <2>1, OursFacts
  <2>3. row \notin SavedIds /\ SavedIds' = SavedIds \cup {row}
    BY <2>1, <2>2
  <2> HIDE DEF SavedIds
  <2> QED BY <2>1, <2>3 DEF File!Next, File!Gains, SavedIds
<1>4. CASE UNCHANGED disk
  BY <1>4
<1> QED BY <1>1, <1>2, <1>3, <1>4
        DEF FileNext, Saves, Open, Done, Begin, BeginFails, Insert, InsertFails,
            CommitFails, CloseFile, Killed, fileVars

\* A save, with all that may fail in it, is a SavedFile: transactions get into the
\* file whole and one at a time, and leave it only when QFile::remove does.
THEOREM FileImplementsSavedFile == FileSpec => ImplementsSavedFile
<1>1. FileInv => File!Init
  BY DEF FileInv, FileTypeOK, File!Init, Transactions, Tables
<1>2. FileInv /\ [FileNext]_fileVars => [File!Next]_SavedIds
  BY StepsOfTheFile
<1>3. FileSpec => File!Init /\ [][File!Next]_SavedIds
  BY <1>1, <1>2, AlwaysFileInv, PTL DEF FileSpec
<1> QED BY <1>3, PTL DEF ImplementsSavedFile, File!Spec, SavedIds
================================================================================
