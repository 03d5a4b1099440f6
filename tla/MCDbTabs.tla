------------------------------ MODULE MCDbTabs ------------------------------
(***************************************************************************)
(* DbTabs on a small instance: two tabs, and any two of two calls and a    *)
(* job at once, on a pool of two connections.                              *)
(***************************************************************************)
EXTENDS DbTabs, TLC
=============================================================================
