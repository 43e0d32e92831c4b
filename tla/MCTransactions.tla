--------------------------- MODULE MCTransactions ---------------------------
EXTENDS Transactions
=============================================================================
