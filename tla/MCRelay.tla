------------------------------- MODULE MCRelay -------------------------------
(***************************************************************************)
(* An SSH connection on a small instance.  Logging in on it: stored and    *)
(* typed passwords, keys of the session, of files and of an agent with     *)
(* their certificates, host keys, and Reach's own cascade.  Then what it   *)
(* carries: each end of a forwarded connection sends up to two chunks, the *)
(* terminal one, and every queue holds one message or two.  A behaviour    *)
(* runs one of the two; the other stays as it begins.                      *)
(***************************************************************************)
EXTENDS UserAuth, TLC

CONSTANTS MaxChunks, ShellChunks, Window, Buffer, Queue, Socket, Wire

VARIABLES
    part,
    form, sends, left, got, ended, told, gone, toRelay, toApp, up, down, window,
    queue, wire, hand, buffer, received

relayVars ==
    <<form, sends, left, got, ended, told, gone, toRelay, toApp, up, down, window,
      queue, wire, hand, buffer, received>>

R == INSTANCE Relay

Plain ==
    [form |-> "config", own |-> None, opens |-> FALSE, files |-> <<>>,
     certs |-> <<>>, agent |-> None, hidden |-> {}, barred |-> {}, locked |-> {},
     only |-> FALSE, stored |-> FALSE, methods |-> <<>>, hostkeys |-> 0,
     batch |-> FALSE, prompts |-> 1, add |-> "no"]

Passwords ==
    [Plain EXCEPT !.stored = TRUE, !.methods = <<"keyboard-interactive", "password">>]

\* The session's key and a locked file with a certificate; the agent holds
\* the file's key, and another one with a certificate.
Keys ==
    [Plain EXCEPT !.own = "k1", !.opens = TRUE, !.files = <<"k1", "k2">>,
                  !.certs = <<"k2">>, !.locked = {"k2"}, !.add = "ask",
                  !.agent = <<<<"k2", FALSE>>, <<"k3", FALSE>>, <<"k3", TRUE>>>>,
                  !.methods = <<"publickey", "password">>]

MCLogins ==
    {[Passwords EXCEPT !.prompts = 2],
     [Passwords EXCEPT !.prompts = 0, !.methods = <<"password", "keyboard-interactive">>],
     [Keys EXCEPT !.batch = TRUE, !.agent = <<>>, !.stored = TRUE,
                  !.methods = <<"publickey", "keyboard-interactive", "password">>],
     Keys,
     [Keys EXCEPT !.only = TRUE, !.opens = FALSE, !.prompts = 2, !.hidden = {"k2"},
                  !.barred = {<<"k3", FALSE>>}],
     [Plain EXCEPT !.files = <<"k2">>, !.hostkeys = 2,
                   !.methods = <<"gssapi-keyex", "gssapi-with-mic", "hostbased",
                                 "publickey">>],
     [Keys EXCEPT !.form = "own", !.stored = TRUE],
     [Keys EXCEPT !.form = "own", !.opens = FALSE],
     [Plain EXCEPT !.form = "own"]}

ASSUME ConnectionAssumption == UserAuthAssumption /\ R!RelayAssumption

\* Of the part that does not run, one initial state is enough.
MCInit ==
    /\ part \in {"login", "relay"} /\ Init /\ R!Init
    /\ part = "login" => form = "tunnel" /\ sends["app"] = 0 /\ sends["remote"] = 0
    /\ part = "relay" => login = [Plain EXCEPT !.form = "own"]

MCNext ==
    /\ UNCHANGED part
    /\ \/ part = "login" /\ Next /\ UNCHANGED relayVars
       \/ part = "relay" /\ R!Next /\ UNCHANGED vars

MCSpec == MCInit /\ [][MCNext]_<<part, vars, relayVars>> /\ R!Fairness

Carried == R!Carried
CarriedBothWays == R!CarriedBothWays

TypesHold == TypeOK /\ R!TypeOK
=============================================================================
