--------------------------- MODULE MCTransactionModel ---------------------------
EXTENDS MCTransaction, TransactionModel
================================================================================
