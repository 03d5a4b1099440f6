---------------------------- MODULE MCSshSessions ----------------------------
(***************************************************************************)
(* SshSessions on a small instance: two connections are a tab and its      *)
(* reconnect, or two tabs; a server says enough to overflow a backlog.     *)
(***************************************************************************)
EXTENDS SshSessions, TLC

Interchangeable == Permutations(Ids)
=============================================================================
