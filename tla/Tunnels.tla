------------------------------- MODULE Tunnels --------------------------------
(***************************************************************************)
(* The Tunnels panel: each tunnel's settings with their active flag, the   *)
(* manager's listeners, and the commands that start and stop them, in      *)
(* steps under different locks.                                            *)
(* Source: ipc/tunnel_commands.rs, tunnel/manager.rs.                      *)
(*                                                                         *)
(* A tunnel never asks whether its connection lives: the listener goes on  *)
(* when the connection is gone, and only tunnel_stop ends it.              *)
(***************************************************************************)
EXTENDS Naturals, FiniteSets

CONSTANTS
    Tunnel,    \* what may be created
    Port,      \* the local ports they may be given
    Caller,    \* commands that may be under way together
    None

TunnelsAssumption == None \notin Tunnel

Types == {"local", "remote", "dynamic"}

VARIABLES
    settings,   \* AppState::tunnels: port and type, None before it is created
    flag,       \* TunnelConfig::active
    running,    \* TunnelManager::active
    listens,    \* tunnels whose port is bound
    ending,     \* those whose listener was told to end
    connected,  \* their connection is in the SSH manager
    call,       \* what each caller's command is at, and of which tunnel
    overlapped  \* tunnels two commands worked on at once

vars == <<settings, flag, running, listens, ending, connected, call, overlapped>>

Idle == [at |-> "idle", of |-> None]

TypeOK ==
    /\ settings \in [Tunnel -> [port : Port, type : Types] \cup {None}]
    /\ flag \in [Tunnel -> BOOLEAN]
    /\ running \subseteq Tunnel /\ listens \subseteq Tunnel /\ ending \subseteq Tunnel
    /\ connected \in BOOLEAN
    /\ call \in [Caller -> [at : {"idle", "start", "started", "stop", "stopping", "stopped"},
                               of : Tunnel \cup {None}]]
    /\ overlapped \subseteq Tunnel

Init ==
    /\ settings = [t \in Tunnel |-> None]
    /\ flag = [t \in Tunnel |-> FALSE]
    /\ running = {} /\ listens = {} /\ ending = {}
    /\ connected = TRUE
    /\ call = [c \in Caller |-> Idle]
    /\ overlapped = {}

Go(c, at) == call' = [call EXCEPT ![c].at = at]
Begin(c, t, at) ==
    /\ call[c] = Idle
    /\ settings[t] # None
    /\ call' = [call EXCEPT ![c] = [at |-> at, of |-> t]]
    /\ overlapped' = IF \E d \in Caller : call[d].of = t THEN overlapped \cup {t}
                     ELSE overlapped
    /\ UNCHANGED <<settings, flag, running, listens, ending, connected>>
End(c) == call' = [call EXCEPT ![c] = Idle]

\* The manager's lock is held from tunnel_manager.lock() to the end of the
\* call, a stop's wait for its listener included.
ManagerFree == \A c \in Caller : call[c].at # "stopping"

-----------------------------------------------------------------------------
Create(t) ==
    /\ settings[t] = None
    /\ \E p \in Port, k \in Types :
          settings' = [settings EXCEPT ![t] = [port |-> p, type |-> k]]
    /\ flag' = [flag EXCEPT ![t] = FALSE]
    /\ UNCHANGED <<running, listens, ending, connected, call, overlapped>>

\* tunnel_start needs the connection's handle, and keeps it.
Start(c, t) == connected /\ Begin(c, t, "start")

PortTaken(t) == \E u \in listens : settings[u].port = settings[t].port

\* Already running, a remote tunnel, or a port that is taken.
Refused(t) == t \in running \/ settings[t].type = "remote" \/ PortTaken(t)

StartFails(c) ==
    /\ call[c].at = "start" /\ ManagerFree
    /\ Refused(call[c].of)
    /\ End(c)
    /\ UNCHANGED <<settings, flag, running, listens, ending, connected, overlapped>>

StartRuns(c) ==
    /\ call[c].at = "start" /\ ManagerFree
    /\ ~Refused(call[c].of)
    /\ running' = running \cup {call[c].of}
    /\ listens' = listens \cup {call[c].of}
    /\ Go(c, "started")
    /\ UNCHANGED <<settings, flag, ending, connected, overlapped>>

MarkStarted(c) ==
    /\ call[c].at = "started"
    /\ flag' = [flag EXCEPT ![call[c].of] = TRUE]
    /\ End(c)
    /\ UNCHANGED <<settings, running, listens, ending, connected, overlapped>>

Stop(c, t) == Begin(c, t, "stop")

\* A stop that drops the entry and its sender without a word.
NotTold(t) == ending
Told(t) == ending \cup ({t} \cap running)

\* The entry goes first, then its listener is told and waited for, a while.
\* One that is not running is only marked.
StopRuns(c) ==
    /\ call[c].at = "stop" /\ ManagerFree
    /\ running' = running \ {call[c].of}
    /\ ending' = Told(call[c].of)
    /\ Go(c, IF call[c].of \in running THEN "stopping" ELSE "stopped")
    /\ UNCHANGED <<settings, flag, listens, connected, overlapped>>

\* The task of a local tunnel owns the listener; a dynamic one's passes the
\* word on to a task that does.
ListenerEnds(t) ==
    /\ t \in ending
    /\ listens' = listens \ {t}
    /\ ending' = ending \ {t}
    /\ UNCHANGED <<settings, flag, running, connected, call, overlapped>>

Stopped(c) ==
    /\ call[c].at = "stopping"
    /\ Go(c, "stopped")
    /\ UNCHANGED <<settings, flag, running, listens, ending, connected, overlapped>>

MarkStopped(c) ==
    /\ call[c].at = "stopped"
    /\ flag' = [flag EXCEPT ![call[c].of] = FALSE]
    /\ End(c)
    /\ UNCHANGED <<settings, running, listens, ending, connected, overlapped>>

\* The connection is closed or lost, or made again: no tunnel hears of it.
Connection ==
    /\ connected' = ~connected
    /\ UNCHANGED <<settings, flag, running, listens, ending, call, overlapped>>

Next ==
    \/ \E t \in Tunnel : Create(t) \/ ListenerEnds(t)
    \/ \E c \in Caller, t \in Tunnel : Start(c, t) \/ Stop(c, t)
    \/ \E c \in Caller : StartFails(c) \/ StartRuns(c) \/ MarkStarted(c)
    \/ \E c \in Caller : StopRuns(c) \/ Stopped(c) \/ MarkStopped(c)
    \/ Connection

Spec == Init /\ [][Next]_vars

-----------------------------------------------------------------------------
Working(t) == \E c \in Caller : call[c].of = t

\* What listens can be stopped, or is about to end.
Stoppable == listens = running \cup ending /\ running \cap ending = {}

\* The panel is right about every tunnel no two commands worked on at once.
FlagsFollow ==
    \A t \in Tunnel : t \notin overlapped /\ ~Working(t) => (flag[t] <=> t \in running)

\* Whatever order the commands' steps come in, no port is left open behind
\* the panel's back or shared by two tunnels, and the panel shows as active
\* what runs, when the commands on it came one after another.
TunnelsStand ==
    /\ Stoppable
    /\ FlagsFollow
    /\ \A t, u \in listens : settings[t].port = settings[u].port => t = u
=============================================================================
