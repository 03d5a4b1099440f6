------------------------------ MODULE MCSharing ------------------------------
(***************************************************************************)
(* Two things that several callers share, each on a small instance of its  *)
(* own: the question for a password manager's passphrase (two operations)  *)
(* and the masters of ControlPaths (two sessions, one path that two        *)
(* servers' settings name).  A behaviour runs one of the two; the other    *)
(* stays as it begins, where nothing of its own has to happen.             *)
(***************************************************************************)
EXTENDS Passphrase, TLC

CONSTANTS Path, Server, Conn, Session, Plans

VARIABLES
    part,
    conn, masters, session, reaper

mastersVars == <<conn, masters, session, reaper>>

M == INSTANCE Masters

\* A master for one server that later sessions share; one through a jump
\* host that asks, and is kept; another server with the same ControlPath; a
\* session that wants a master of its own, kept for good.
With(to, master, persist, jump) ==
    [path |-> "cm", to |-> to, master |-> master, persist |-> persist, jump |-> jump]

MCPlans ==
    {With("web", "auto", "off", FALSE), With("web", "autoask", "timed", TRUE),
     With("mail", "auto", "timed", FALSE), With("web", "yes", "forever", FALSE)}

ASSUME PassphraseAssumption /\ M!MastersAssumption

Parts == {"passphrase", "masters"}

MCInit == part \in Parts /\ Init /\ M!Init

MCNext ==
    /\ UNCHANGED part
    /\ \/ part = "passphrase" /\ Next /\ UNCHANGED mastersVars
       \/ part = "masters" /\ M!Next /\ UNCHANGED vars

MCSpec ==
    MCInit /\ [][MCNext]_<<part, vars, mastersVars>> /\ Fairness /\ M!Fairness

SharedRightly == M!SharedRightly

TypesHold == TypeOK /\ M!TypeOK
=============================================================================
