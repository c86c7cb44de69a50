------------------------ MODULE MCReplacementSaga ------------------------
(* One keyed store and one that merges; the legacy record in initial        *)
(* states of its own.                                                       *)
EXTENDS ReplacementSaga
MCLegacy == {"none", "legacy_reconcile_forward", "legacy_reconcile_rollback",
             "legacy_unresolved"}

\* The imported identity is moved in the documented order, is never on two rows,
\* and a completed record stands for references that have all moved.
OrderlyMigration == IdentityBeforeReferences /\ OneOwnerOfTheIdentity /\ CompletionIsClean
=============================================================================
