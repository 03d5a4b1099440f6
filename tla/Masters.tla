------------------------------- MODULE Masters --------------------------------
(***************************************************************************)
(* ControlMaster: sessions with the same ControlPath share one connection. *)
(* Source: ssh/control.rs, ssh/client.rs (connect, shared_session).        *)
(*                                                                         *)
(* A connection lives while somebody holds its handle: a session on it, a  *)
(* session being opened on it, or, under ControlPersist, its entry.  The   *)
(* jump hosts' handles are held by sessions only.                          *)
(***************************************************************************)
EXTENDS Naturals, FiniteSets

CONSTANTS
    Path,     \* ControlPaths
    Server,   \* what a connection may log in to: user, host and port
    Conn,     \* connections, each made once
    Session,
    Plans,    \* the settings a session may come with
    None

Master == {"no", "yes", "auto", "ask", "autoask"}
Persist == {"off", "timed", "forever"}

Plan == [path : Path, to : Server, master : Master, persist : Persist, jump : BOOLEAN]
Entry == [conn : Conn, to : Server, keep : BOOLEAN, timed : BOOLEAN,
          idle : {"no", "young", "old"}, asks : BOOLEAN]

MastersAssumption == Plans \subseteq Plan /\ None \notin Conn \cup Entry

VARIABLES
    conn,     \* each connection: where it is logged in to, and whether it is open
    masters,  \* the entry of each ControlPath
    session,  \* what each session is at, with its settings and its connection
    reaper    \* it was started

vars == <<conn, masters, session, reaper>>

Off == [at |-> "off", plan |-> None, conn |-> None, shares |-> FALSE, agreed |-> FALSE]
Unmade == [to |-> None, jump |-> FALSE, asks |-> FALSE, is |-> "unmade"]

TypeOK ==
    /\ conn \in [Conn -> [to : Server, jump : BOOLEAN, asks : BOOLEAN,
                          is : {"open", "closed"}] \cup {Unmade}]
    /\ masters \in [Path -> Entry \cup {None}]
    /\ session \in [Session ->
          [at : {"off", "look", "asked", "opening", "connecting", "up"},
           plan : Plans \cup {None}, conn : Conn \cup {None},
           shares : BOOLEAN, agreed : BOOLEAN]]
    /\ reaper \in BOOLEAN

Init ==
    /\ conn = [c \in Conn |-> Unmade]
    /\ masters = [p \in Path |-> None]
    /\ session = [s \in Session |-> Off]
    /\ reaper = FALSE

May(plan) == plan.master \notin {"yes", "ask"}
Serves(plan) == plan.master # "no"
Asks(plan) == plan.master \in {"ask", "autoask"}

Holders(c) == {s \in Session : session[s].conn = c}
Keeps(c) == \E p \in Path : masters[p] # None /\ masters[p].conn = c /\ masters[p].keep

\* Weak::upgrade succeeds.
Alive(c) == Holders(c) # {} \/ Keeps(c)
JumpsAlive(c) == conn[c].jump => Holders(c) # {}

Is(s, at) == session' = [session EXCEPT ![s].at = at]

-----------------------------------------------------------------------------
\* Connecting a session: first on a master, if the settings allow one.

Begin(s) ==
    /\ session[s].at = "off"
    /\ \E plan \in Plans :
          session' = [session EXCEPT ![s] =
              [Off EXCEPT !.at = IF May(plan) THEN "look" ELSE "connecting", !.plan = plan]]
    /\ UNCHANGED <<conn, masters, reaper>>

Whatever(e, plan) == TRUE
SameTarget(e, plan) == e.to = plan.to

\* existing(): no master, or somebody else's.
FindsNone(s) ==
    LET plan == session[s].plan  e == masters[plan.path]
    IN  /\ session[s].at = "look"
        /\ ~(e # None /\ SameTarget(e, plan))
        /\ Is(s, "connecting")
        /\ UNCHANGED <<conn, masters, reaper>>

\* One whose handle, or whose jump host's, is gone leaves the list.
FindsGone(s) ==
    LET plan == session[s].plan  e == masters[plan.path]
    IN  /\ session[s].at = "look"
        /\ e # None /\ SameTarget(e, plan)
        /\ ~(Alive(e.conn) /\ JumpsAlive(e.conn))
        /\ masters' = [masters EXCEPT ![plan.path] = None]
        /\ Is(s, "connecting")
        /\ UNCHANGED <<conn, reaper>>

FindsMaster(s) ==
    LET plan == session[s].plan  e == masters[plan.path]
    IN  /\ session[s].at = "look"
        /\ e # None /\ SameTarget(e, plan)
        /\ Alive(e.conn) /\ JumpsAlive(e.conn)
        /\ masters' = [masters EXCEPT ![plan.path].idle = "no"]
        /\ session' = [session EXCEPT ![s].conn = e.conn, ![s].shares = TRUE,
                                      ![s].at = IF e.asks THEN "asked" ELSE "opening"]
        /\ UNCHANGED <<conn, reaper>>

Alone(s) == session' = [session EXCEPT ![s].at = "connecting", ![s].conn = None,
                                       ![s].shares = FALSE]

Answered(s) ==
    /\ session[s].at = "asked"
    /\ \/ session' = [session EXCEPT ![s].at = "opening", ![s].agreed = TRUE]
       \/ Alone(s)
    /\ UNCHANGED <<conn, masters, reaper>>

Opened(s) ==
    /\ session[s].at = "opening"
    /\ conn[session[s].conn].is = "open"
    /\ Is(s, "up")
    /\ UNCHANGED <<conn, masters, reaper>>

\* A master whose connection is closed, or that takes no more sessions.
NotOpened(s) ==
    /\ session[s].at = "opening"
    /\ Alone(s)
    /\ UNCHANGED <<conn, masters, reaper>>

\* register(): only when no live master is there.
Registered(plan, c) ==
    IF Serves(plan) /\ ~(masters[plan.path] # None /\ Alive(masters[plan.path].conn))
    THEN [masters EXCEPT ![plan.path] =
             [conn |-> c, to |-> plan.to, keep |-> plan.persist # "off",
              timed |-> plan.persist = "timed", idle |-> "no", asks |-> Asks(plan)]]
    ELSE masters

Connects(s, c) ==
    LET plan == session[s].plan
    IN  /\ session[s].at = "connecting" /\ conn[c].is = "unmade"
        /\ conn' = [conn EXCEPT ![c] =
               [to |-> plan.to, jump |-> plan.jump, asks |-> Asks(plan), is |-> "open"]]
        /\ masters' = Registered(plan, c)
        /\ reaper' = (reaper \/ (masters' # masters /\ plan.persist # "off"))
        /\ session' = [session EXCEPT ![s].at = "up", ![s].conn = c]

ConnectFails(s) ==
    /\ session[s].at = "connecting"
    /\ session' = [session EXCEPT ![s] = Off]
    /\ UNCHANGED <<conn, masters, reaper>>

\* The session's tab is closed, or saw its connection end.
Close(s) ==
    /\ session[s].at = "up"
    /\ session' = [session EXCEPT ![s] = Off]
    /\ UNCHANGED <<conn, masters, reaper>>

-----------------------------------------------------------------------------
\* A connection ends: the server or the network ends it, or nobody holds its
\* handle, or a jump host's.
Ends(c) ==
    /\ conn[c].is = "open"
    /\ conn' = [conn EXCEPT ![c].is = "closed"]
    /\ UNCHANGED <<masters, session, reaper>>

\* The reaper's tick.  A handle whose lock an opening session holds is not
\* looked at.
Looked(c) == \A s \in Holders(c) : session[s].at # "opening"

OnlyMaybe(e) == TRUE
OnlyHere(e) == Holders(e.conn) = {}

Reaped(e) ==
    IF e = None THEN None
    ELSE IF ~e.keep THEN (IF Holders(e.conn) # {} THEN e ELSE None)
    ELSE IF conn[e.conn].is = "closed" /\ Looked(e.conn) THEN None
    ELSE IF ~OnlyHere(e) THEN [e EXCEPT !.idle = "no"]
    ELSE IF e.idle = "old" /\ e.timed THEN None
    ELSE IF e.idle = "no" THEN [e EXCEPT !.idle = "young"]
    ELSE e

Reap ==
    /\ reaper
    /\ masters' = [p \in Path |-> Reaped(masters[p])]
    /\ UNCHANGED <<conn, session, reaper>>

\* As long as ControlPersist says has passed since.
TimePasses(p) ==
    /\ masters[p] # None /\ masters[p].idle = "young"
    /\ masters' = [masters EXCEPT ![p].idle = "old"]
    /\ UNCHANGED <<conn, session, reaper>>

Next ==
    \/ \E s \in Session : Begin(s) \/ Close(s)
    \/ \E s \in Session : FindsNone(s) \/ FindsGone(s) \/ FindsMaster(s)
    \/ \E s \in Session : Answered(s) \/ Opened(s) \/ NotOpened(s) \/ ConnectFails(s)
    \/ \E s \in Session, c \in Conn : Connects(s, c)
    \/ \E c \in Conn : Ends(c)
    \/ Reap
    \/ \E p \in Path : TimePasses(p)

\* The reaper ticks every five seconds, and time passes.  No session has to
\* be closed, and no master has to be asked for.
Fairness == WF_vars(Reap) /\ \A p \in Path : WF_vars(TimePasses(p))

Spec == Init /\ [][Next]_vars /\ Fairness

-----------------------------------------------------------------------------
\* Whatever ControlPaths collide and however slowly the user answers, a
\* session is on a connection to what it asked for.
SameServer ==
    \A s \in Session : session[s].conn # None =>
        conn[session[s].conn].to = session[s].plan.to

\* A session on the connection of a master that asks was allowed to be.
Agreed ==
    \A s \in Session :
        session[s].at = "up" /\ session[s].shares /\ conn[session[s].conn].asks
            => session[s].agreed

\* A timed master that nobody uses is closed in the end, and so is one whose
\* connection has closed.
Unneeded(e) ==
    /\ e # None /\ e.keep
    /\ Holders(e.conn) = {}
    /\ e.timed \/ conn[e.conn].is = "closed"

\* A kept master leaves its list only when no session holds its connection,
\* or the connection is closed.
LeavesUnused(p) ==
    LET e == masters[p]
    IN  e # None /\ e.keep /\ masters'[p] # e
          => \/ Holders(e.conn) = {} \/ conn[e.conn].is = "closed"
             \/ masters'[p] = [e EXCEPT !.idle = "no"]

\* Sessions share a connection only where they asked to go and where its
\* user lets them, no master is taken from under them, and one that is of
\* no more use is closed.
SharedRightly ==
    /\ [](SameServer /\ Agreed)
    /\ [][\A p \in Path : LeavesUnused(p)]_vars
    /\ \A p \in Path : []<>~Unneeded(masters[p])
=============================================================================
