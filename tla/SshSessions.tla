----------------------------- MODULE SshSessions -----------------------------
(***************************************************************************)
(* SSH terminal sessions, from the connect dialog to the closed tab: the   *)
(* ssh_connect commands, the manager's connections, the task that streams  *)
(* each session, and the tabs and terminals of the window.                 *)
(* Source: ssh/client.rs, ipc/ssh_commands.rs, and in the frontend         *)
(* Terminal.svelte, SessionList.svelte, tabs.svelte.ts, +page.svelte.      *)
(*                                                                         *)
(* Connecting runs without the manager's lock, the session's task is       *)
(* spawned before the connection is registered, and the terminal that      *)
(* shows it is mounted only after that: each is a step of its own here.    *)
(* Output is counted in chunks; how a login gets there is not modelled.    *)
(***************************************************************************)
EXTENDS Naturals, Sequences

CONSTANTS
    Ids,               \* connection ids (uuid v4: each is used once)
    Dialog, Cancelled, \* who asked for a connection, other than a tab
    NoTab,
    MaxSaid,           \* chunks a server says at most
    Cap                \* BACKLOG_CAP, in chunks

ASSUME SshAssumption ==
    /\ Dialog \notin Ids /\ Cancelled \notin Ids /\ Dialog # Cancelled
    /\ MaxSaid \in Nat /\ Cap \in Nat \ {0}

\* A tab goes by the connection it was made for; a reconnect gives it another.
Tab == [open : BOOLEAN,
        conn : Ids,      \* Tab.connectionId
        term : Ids,      \* the terminal's currentConnectionId
        hears: {"nothing", "data", "exit", "asked"},  \* setupEventListeners
        down : BOOLEAN,  \* disconnected
        busy : BOOLEAN]  \* reconnecting

ASSUME NoTabAssumption == NoTab \notin Tab

Calls == {"unused", "connecting", "spawned", "registered", "failed", "returned"}
Commands == {"ready", "close"}   \* SessionCommand

VARIABLES
    call,         \* where each ssh_connect has got to
    asker,        \* who awaits it: a dialog, a cancelled one, or a tab
    connections,  \* SshManager::connections
    task,         \* ssh_session_task
    inbox,        \* its cmd_rx
    ready,        \* its flag: the terminal is listening
    backlog,      \* output held until then
    read,         \* chunks it has read from its channel
    said, ended,  \* what the server has said, and whether that was all
    tab,          \* the window's tabs and their terminals
    leaving,      \* ssh_disconnect calls on their way
    shown,        \* what a terminal has written of each connection
    flooded       \* history: connections whose backlog reached the cap

session  == <<task, inbox, ready, backlog, read>>
server   == <<said, ended>>
screen   == <<shown, flooded>>
vars     == <<call, asker, connections, session, server, tab, leaving, screen>>

TypeOK ==
    /\ call \in [Ids -> Calls]
    /\ asker \in [Ids -> Ids \cup {Dialog, Cancelled}]
    /\ connections \subseteq Ids
    /\ task \in [Ids -> {"none", "running", "over"}]
    /\ inbox \in [Ids -> Seq(Commands)]
    /\ ready \in [Ids -> BOOLEAN]
    /\ backlog \in [Ids -> Seq(Nat)]
    /\ read \in [Ids -> Nat]
    /\ said \in [Ids -> Nat]
    /\ ended \in [Ids -> BOOLEAN]
    /\ tab \in [Ids -> Tab \cup {NoTab}]
    /\ leaving \subseteq Ids
    /\ shown \in [Ids -> Seq(Nat)]
    /\ flooded \subseteq Ids

Init ==
    /\ call = [i \in Ids |-> "unused"]
    /\ asker = [i \in Ids |-> Dialog]
    /\ connections = {}
    /\ task = [i \in Ids |-> "none"]
    /\ inbox = [i \in Ids |-> <<>>]
    /\ ready = [i \in Ids |-> FALSE]
    /\ backlog = [i \in Ids |-> <<>>]
    /\ read = [i \in Ids |-> 0]
    /\ said = [i \in Ids |-> 0]
    /\ ended = [i \in Ids |-> FALSE]
    /\ tab = [i \in Ids |-> NoTab]
    /\ leaving = {}
    /\ shown = [i \in Ids |-> <<>>]
    /\ flooded = {}

-----------------------------------------------------------------------------
\* Connecting.

\* A dialog (session list, quick connect, a container's shell) asks.
AskFromDialog(i) ==
    /\ call[i] = "unused"
    /\ call' = [call EXCEPT ![i] = "connecting"]
    /\ asker' = [asker EXCEPT ![i] = Dialog]
    /\ UNCHANGED <<connections, session, server, tab, leaving, screen>>

\* cancelConnect: ssh_disconnect is sent, but what awaits the connection
\* is not stopped.
Cancel(i) ==
    /\ asker[i] = Dialog
    /\ call[i] \notin {"unused", "returned"}
    /\ asker' = [asker EXCEPT ![i] = Cancelled]
    /\ leaving' = leaving \cup {i}
    /\ UNCHANGED <<call, connections, session, server, tab, screen>>

\* connect, connect_via_jump: shaken hands, logged in, the channel open,
\* into_active_connection has spawned the session's task.
Connects(i) ==
    /\ call[i] = "connecting"
    /\ call' = [call EXCEPT ![i] = "spawned"]
    /\ task' = [task EXCEPT ![i] = "running"]
    /\ UNCHANGED <<asker, connections, inbox, ready, backlog, read, server,
                   tab, leaving, screen>>

\* Any error on the way, or the connect limit.
ConnectFails(i) ==
    /\ call[i] = "connecting"
    /\ call' = [call EXCEPT ![i] = "failed"]
    /\ UNCHANGED <<asker, connections, session, server, tab, leaving, screen>>

\* The end of ssh_connect, under the manager's lock.
Register(i) ==
    /\ call[i] = "spawned"
    /\ call' = [call EXCEPT ![i] = "registered"]
    /\ connections' = connections \cup {i}
    /\ UNCHANGED <<asker, session, server, tab, leaving, screen>>

\* What came back of ssh_connect.  A dialog opens a tab, cancelled or not;
\* a reconnecting terminal leaves the old connection's events.
NewTab(i) == [open |-> TRUE, conn |-> i, term |-> i, hears |-> "nothing",
              down |-> FALSE, busy |-> FALSE]

Connected(i) ==
    /\ call[i] = "registered"
    /\ call' = [call EXCEPT ![i] = "returned"]
    /\ tab' = IF asker[i] \in Ids
              THEN [tab EXCEPT ![asker[i]].term = i,
                               ![asker[i]].hears = "nothing"]
              ELSE [tab EXCEPT ![i] = NewTab(i)]
    /\ UNCHANGED <<asker, connections, session, server, leaving, screen>>

NotConnected(i) ==
    /\ call[i] = "failed"
    /\ call' = [call EXCEPT ![i] = "returned"]
    /\ tab' = IF asker[i] \in Ids
              THEN [tab EXCEPT ![asker[i]].busy = FALSE,
                               ![asker[i]].down = TRUE]
              ELSE tab
    /\ UNCHANGED <<asker, connections, session, server, leaving, screen>>

-----------------------------------------------------------------------------
\* The session's task.

TerminalOf(t, i) == tab[t] # NoTab /\ tab[t].open /\ tab[t].term = i

DataHeard(i) == \E t \in Ids : TerminalOf(t, i) /\ tab[t].hears # "nothing"

\* An event nobody listens to is gone.
Emit(i, chunks) ==
    shown' = [shown EXCEPT ![i] = IF DataHeard(i) THEN @ \o chunks ELSE @]

EmitExit(i) ==
    tab' = [t \in Ids |->
              IF TerminalOf(t, i) /\ tab[t].hears \in {"exit", "asked"}
              THEN [tab[t] EXCEPT !.down = TRUE] ELSE tab[t]]

\* deliver!: live once ready, else held; a full backlog is let go.
Deliver(i, n) ==
    IF ready[i]
    THEN /\ Emit(i, <<n>>)
         /\ UNCHANGED <<ready, backlog, flooded>>
    ELSE LET held == Append(backlog[i], n) IN
         IF Len(held) >= Cap
         THEN /\ ready' = [ready EXCEPT ![i] = TRUE]
              /\ backlog' = [backlog EXCEPT ![i] = <<>>]
              /\ Emit(i, held)
              /\ flooded' = flooded \cup {i}
         ELSE /\ backlog' = [backlog EXCEPT ![i] = held]
              /\ UNCHANGED <<ready, shown, flooded>>

ReadOutput(i) ==
    /\ task[i] = "running"
    /\ read[i] < said[i]
    /\ read' = [read EXCEPT ![i] = @ + 1]
    /\ Deliver(i, read[i] + 1)
    /\ UNCHANGED <<call, asker, connections, task, inbox, server, tab, leaving>>

\* Past the loop: what was held is dropped with the task.
TaskEnds(i) ==
    /\ task' = [task EXCEPT ![i] = "over"]
    /\ inbox' = [inbox EXCEPT ![i] = <<>>]
    /\ backlog' = [backlog EXCEPT ![i] = <<>>]
    /\ EmitExit(i)
    /\ UNCHANGED <<call, asker, connections, ready, read, server, leaving,
                   screen>>

\* ExitStatus, Eof, or the channel closed.
ReadEnd(i) ==
    /\ task[i] = "running"
    /\ ended[i]
    /\ read[i] = said[i]
    /\ TaskEnds(i)

FlushedNone(i) == <<>>
Flushed(i) == backlog[i]

TakeReady(i) ==
    /\ task[i] = "running"
    /\ inbox[i] # <<>>
    /\ Head(inbox[i]) = "ready"
    /\ inbox' = [inbox EXCEPT ![i] = Tail(@)]
    /\ IF ready[i]
       THEN UNCHANGED <<ready, backlog, shown>>
       ELSE /\ ready' = [ready EXCEPT ![i] = TRUE]
            /\ Emit(i, Flushed(i))
            /\ backlog' = [backlog EXCEPT ![i] = <<>>]
    /\ UNCHANGED <<call, asker, connections, task, read, server, tab, leaving,
                   flooded>>

TakeClose(i) ==
    /\ task[i] = "running"
    /\ inbox[i] # <<>>
    /\ Head(inbox[i]) = "close"
    /\ TaskEnds(i)

SendOnceReady(i, cmd) ==
    inbox' = IF task[i] = "running" /\ (ready[i] \/ cmd = "ready")
             THEN [inbox EXCEPT ![i] = Append(@, cmd)] ELSE inbox
Send(i, cmd) ==
    inbox' = IF task[i] = "running"
             THEN [inbox EXCEPT ![i] = Append(@, cmd)] ELSE inbox

\* ssh_disconnect; a connection that is not registered (yet) is not found.
Disconnect(i) ==
    /\ i \in leaving
    /\ leaving' = leaving \ {i}
    /\ connections' = connections \ {i}
    /\ IF i \in connections THEN Send(i, "close") ELSE UNCHANGED inbox
    /\ UNCHANGED <<call, asker, task, ready, backlog, read, server, tab, screen>>

-----------------------------------------------------------------------------
\* The tabs and their terminals.

\* setupEventListeners: the data listener, the exit listener, ssh_ready.
ListenData(t) ==
    /\ tab[t] # NoTab
    /\ tab[t].hears = "nothing"
    /\ tab' = [tab EXCEPT ![t].hears = "data"]
    /\ UNCHANGED <<call, asker, connections, session, server, leaving, screen>>

ListenExit(t) ==
    /\ tab[t] # NoTab
    /\ tab[t].hears = "data"
    /\ tab' = [tab EXCEPT ![t].hears = "exit"]
    /\ UNCHANGED <<call, asker, connections, session, server, leaving, screen>>

\* After a reconnect the tab takes the new connection, and the page lets go
\* of the one no tab has any more; a tab closed meanwhile is not found.
Moved(t) == tab[t].conn # tab[t].term

LeftNone(t) == {}
Left(t) == IF Moved(t) /\ tab[t].open THEN {tab[t].conn} ELSE {}

AskReady(t) ==
    /\ tab[t] # NoTab
    /\ tab[t].hears = "exit"
    /\ IF tab[t].term \in connections
       THEN Send(tab[t].term, "ready") ELSE UNCHANGED inbox
    /\ leaving' = leaving \cup Left(t)
    /\ tab' = [tab EXCEPT ![t].hears = "asked",
                          ![t].busy = @ /\ ~Moved(t),
                          ![t].conn = IF tab[t].open THEN tab[t].term ELSE @]
    /\ UNCHANGED <<call, asker, connections, task, ready, backlog, read, server,
                   screen>>

\* handleReconnect, up to its ssh_connect.
MayReconnectAnyTime(t) == ~tab[t].busy
MayReconnect(t) == tab[t].down /\ ~tab[t].busy

Reconnect(t, i) ==
    /\ tab[t] # NoTab
    /\ tab[t].open
    /\ MayReconnect(t)
    /\ call[i] = "unused"
    /\ tab' = [tab EXCEPT ![t].busy = TRUE, ![t].down = FALSE]
    /\ call' = [call EXCEPT ![i] = "connecting"]
    /\ asker' = [asker EXCEPT ![i] = t]
    /\ UNCHANGED <<connections, session, server, leaving, screen>>

\* closeTab, and the page's clean-up of connections no tab has any more.
CloseTab(t) ==
    /\ tab[t] # NoTab
    /\ tab[t].open
    /\ tab' = [tab EXCEPT ![t].open = FALSE]
    /\ leaving' = leaving \cup {tab[t].conn}
    /\ UNCHANGED <<call, asker, connections, session, server, screen>>

-----------------------------------------------------------------------------
\* The server.

Says(i) ==
    /\ task[i] = "running"
    /\ ~ended[i]
    /\ said[i] < MaxSaid
    /\ said' = [said EXCEPT ![i] = @ + 1]
    /\ UNCHANGED <<call, asker, connections, session, ended, tab, leaving, screen>>

\* The shell exits, or the connection drops.
Ends(i) ==
    /\ task[i] = "running"
    /\ ~ended[i]
    /\ ended' = [ended EXCEPT ![i] = TRUE]
    /\ UNCHANGED <<call, asker, connections, session, said, tab, leaving, screen>>

-----------------------------------------------------------------------------

Next ==
    \/ \E i \in Ids :
          \/ AskFromDialog(i) \/ Cancel(i) \/ Connects(i) \/ ConnectFails(i)
          \/ Register(i) \/ Connected(i) \/ NotConnected(i)
          \/ ReadOutput(i) \/ ReadEnd(i) \/ TakeReady(i) \/ TakeClose(i)
          \/ Disconnect(i) \/ Says(i) \/ Ends(i)
    \/ \E t \in Ids :
          \/ ListenData(t) \/ ListenExit(t) \/ AskReady(t) \/ CloseTab(t)
          \/ \E i \in Ids : Reconnect(t, i)

Spec == Init /\ [][Next]_vars

-----------------------------------------------------------------------------
\* Properties.

FirstChunks(n) == [k \in 1..n |-> k]

OpenTabs == {t \in Ids : tab[t] # NoTab /\ tab[t].open}

\* What an open tab's terminal shows of its connection is what the task has
\* read of it: from the first chunk, in order, none twice and none left out
\* (the backlog, then live), unless the backlog overflowed before.
ScreenIsOutput ==
    \A t \in OpenTabs : tab[t].term \notin flooded =>
        shown[tab[t].term] =
            IF ready[tab[t].term] THEN FirstChunks(read[tab[t].term]) ELSE <<>>

\* A tab marked as down is: its terminal's connection is over.
DownIsTrue ==
    \A t \in OpenTabs : tab[t].down => task[tab[t].term] = "over"

\* A registered connection has a tab to close it by, is on its way to one or
\* is being let go, unless its tab was closed while it reconnected.
Accounted ==
    \A i \in connections :
        \/ i \in leaving
        \/ call[i] # "returned"
        \/ \E t \in OpenTabs : i \in {tab[t].conn, tab[t].term}
        \/ asker[i] \in Ids /\ asker[i] \notin OpenTabs

\* The connection of a closed tab is let go: the ssh_disconnect is on its way,
\* or it is no longer registered and its task is told to close, or is over.
ClosedLetGo ==
    \A t \in Ids : tab[t] # NoTab /\ ~tab[t].open =>
        LET i == tab[t].conn IN
        \/ i \in leaving
        \/ /\ i \notin connections
           /\ task[i] = "over" \/ \E k \in DOMAIN inbox[i] : inbox[i][k] = "close"

\* "The session captures server output from the instant the channel opens and
\* replays it once the terminal is attached": of a session that is over, all
\* that was read is on the screen.
NothingLost ==
    \A t \in OpenTabs :
        LET i == tab[t].term IN
        tab[t].hears = "asked" /\ task[i] = "over" /\ asker[i] # Cancelled
            => shown[i] = FirstChunks(read[i])

\* "Clean up PTYs, SSH connections, and monitoring for closed tabs": no
\* registered connection is left without a tab to close it by.
NoOrphans ==
    \A i \in connections :
        \/ i \in leaving
        \/ call[i] # "returned"
        \/ \E t \in OpenTabs : i \in {tab[t].conn, tab[t].term}
=============================================================================
