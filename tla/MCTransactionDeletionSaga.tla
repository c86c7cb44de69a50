-------------------- MODULE MCTransactionDeletionSaga --------------------
EXTENDS TransactionDeletionSaga

CONSTANTS t1, t2, f1, f2

\* links stands for the five stores that follow the receipts.
MCRefSteps == <<"links">>

\* Both transactions mention f1; f2 is the name of a receipt yet to be added.
SharedReceipt == {<<t1, f1>>, <<t2, f1>>}

\* Every receipt on record has its bytes, and no bytes are without a record but
\* those a deletion has still to unlink.
BytesMatchRecords == RecordedBytesExist /\ NoOrphanBytes

\* Only the row that was admitted is deleted, and bytes only go when the deletion
\* has reached the server.
DestroysOnlyWhatWasAdmitted == DeletesOnlyWhatWasAdmitted /\ BytesOutliveTheDeletion
==========================================================================
