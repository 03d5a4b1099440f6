---------------------------- MODULE MCTransfers ----------------------------
EXTENDS Transfers, TLC
=============================================================================
