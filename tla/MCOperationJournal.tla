-------------------------- MODULE MCOperationJournal --------------------------
(* Small instances of OperationJournal for TLC. *)
EXTENDS OperationJournal, TLC

\* Clients differ in nothing but their names.
MCSymmetry == Permutations(Clients)
=============================================================================
