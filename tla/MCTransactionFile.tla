---------------------------- MODULE MCTransactionFile ----------------------------
EXTENDS TransactionFile
================================================================================
