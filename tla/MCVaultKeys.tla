----------------------------- MODULE MCVaultKeys -----------------------------
(***************************************************************************)
(* VaultKeys on a small instance.  The bounds: how many identities a run   *)
(* makes (Uuids), how many seals (Seals) and how many backups.             *)
(***************************************************************************)
EXTENDS VaultKeys, FiniteSets, TLC

CONSTANT MaxBackups

BackupBound == Cardinality(backups) <= MaxBackups

Interchangeable ==
    Permutations(Uuids) \cup Permutations(Keys) \cup Permutations(Tasks)
=============================================================================
