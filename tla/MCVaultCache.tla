---------------------------- MODULE MCVaultCache ----------------------------
(***************************************************************************)
(* VaultCache on a small instance.  One row is enough for the copy as a    *)
(* whole, since every statement touches one row and every snapshot holds   *)
(* all of them; two rows show that a change of one leaves the other be.    *)
(***************************************************************************)
EXTENDS VaultCache
=============================================================================
