------------------------------- MODULE DbTabs --------------------------------
(***************************************************************************)
(* One open database connection: the sessions its tabs run SQL on, the     *)
(* pool they are taken from, Stop, a backup or restore job, and its close, *)
(* by disconnecting or by turning Databases off.                           *)
(* Source: db/conn.rs, db/mod.rs, db/backup.rs, ipc/db_commands.rs.        *)
(*                                                                         *)
(* A tab's session is a pooled connection kept in a slot.  Whoever runs    *)
(* something on it holds it too, so it goes back to the pool when neither  *)
(* the slot nor a call holds it, and it goes back as it is, an open        *)
(* transaction included.  Turning the tool off holds the manager's lock    *)
(* until the pool has every connection back.                               *)
(* PostgreSQL and MySQL: sessions of SQL Server and SQLite are not pooled. *)
(***************************************************************************)
EXTENDS Naturals, FiniteSets

CONSTANTS
    Tabs,         \* the owners of query tabs
    Calls,        \* commands that may be under way together
    Job,          \* the task of a backup or a restore
    Connections,  \* max_connections of the pool
    Nothing,
    Together,     \* how many of them are under way at once, at most
    Statements    \* statements in a restore's script

ASSUME DbTabsAssumption ==
    /\ Job \notin Calls /\ Nothing \notin Connections
    /\ Tabs \cap {"__control__", "__job__", Nothing} = {}
    /\ {Statements, Together} \subseteq Nat

Owners == Tabs \cup {"__control__", "__job__"}
Tasks == Calls \cup {Job}

\* What a call is for, besides stopping another: a statement, or one that
\* begins a transaction, or ends the one it is in.
Statement == {"query", "transaction"}

VARIABLES
    registered, \* it is in DbManager::live
    pool,       \* "open", "closing", "closed"
    offWaits,   \* close_all waits for the pool, and holds the manager's lock
    slot,       \* LiveDb::slots: each owner's connection
    late,       \* a slot was filled after close() had emptied them
    begun,      \* who left a transaction open on a connection
    task,       \* what each call, and the job, is at
    stop,       \* the job's flag
    left,       \* statements it has still to run
    sent        \* the server has one of them

job  == <<stop, left, sent>>
vars == <<registered, pool, offWaits, slot, late, begun, task, job>>

Free == [at |-> "free", owner |-> Nothing, conn |-> Nothing,
         does |-> Nothing, kill |-> Nothing]

TypeOK ==
    /\ {registered, offWaits, late, stop, sent} \subseteq BOOLEAN
    /\ pool \in {"open", "closing", "closed"}
    /\ slot \in [Owners -> Connections \cup {Nothing}]
    /\ begun \in [Connections -> Owners \cup {Nothing}]
    /\ task \in [Tasks ->
          [at : {"free", "got", "acquire", "settle", "queue", "run", "ending"},
           owner : Owners \cup {Nothing}, conn : Connections \cup {Nothing},
           does : Statement \cup {"cancel", "backup", "restore", Nothing},
           kill : Connections \cup {Nothing}]]
    /\ left \in 0..Statements

Init ==
    /\ registered = TRUE
    /\ pool = "open"
    /\ offWaits = FALSE
    /\ slot = [o \in Owners |-> Nothing]
    /\ late = FALSE
    /\ begun = [k \in Connections |-> Nothing]
    /\ task = [c \in Tasks |-> Free]
    /\ stop = FALSE
    /\ left = 0
    /\ sent = FALSE

\* The key of a slot.
KeyOfDatabase(o) == IF o \in Tabs THEN CHOOSE t \in Tabs : TRUE ELSE o
Key(o) == o

Go(c, at) == task' = [task EXCEPT ![c].at = at]
Ends(c) == task' = [task EXCEPT ![c] = Free]

HeldByCalls == {task[c].conn : c \in Tasks}

\* A connection is held by a slot, or by a call that was given its session.
Held == {slot[o] : o \in Owners} \cup {task[c].conn : c \in Tasks}

\* What nobody holds any more goes back to the pool; to one that is being
\* closed, to be closed, which ends what was open on it.
Return(open) ==
    LET kept == IF pool' = "open" THEN Connections ELSE Held'
    IN  [k \in Connections |-> IF k \in kept THEN open[k] ELSE Nothing]

-----------------------------------------------------------------------------
\* Commands.  Each starts with the manager's lock, to look the connection up.

LockFree == ~offWaits

\* Starting one more.
May(c) ==
    /\ task[c].at = "free"
    /\ registered /\ LockFree
    /\ Cardinality({d \in Tasks : task[d].at # "free"}) < Together

\* Whose session a call runs on.
On(c) == IF task[c].does = "cancel" THEN "__control__" ELSE task[c].owner

\* session(): the slot's connection, or a new one.
Given(call, o) == IF slot[Key(o)] = Nothing THEN [call EXCEPT !.at = "acquire"]
                  ELSE [call EXCEPT !.at = "queue", !.conn = slot[Key(o)]]

\* db_execute, and the commands of the tree and the grids.
Execute(c, t, d) ==
    /\ May(c)
    /\ task' = [task EXCEPT ![c] = Given([Free EXCEPT !.owner = t, !.does = d], t)]
    /\ UNCHANGED <<registered, pool, offWaits, slot, late, begun, job>>

\* db_cancel: the server's id of the tab's session is read, and what stops it
\* goes out on the control session.
Cancel(c, t) ==
    /\ May(c)
    /\ slot[Key(t)] # Nothing
    /\ task' = [task EXCEPT ![c] =
          Given([Free EXCEPT !.owner = t, !.does = "cancel", !.kill = slot[Key(t)]],
                "__control__")]
    /\ UNCHANGED <<registered, pool, offWaits, slot, late, begun, job>>

\* db_backup, db_restore; the script is read before the flag is there.
StartJob(d) ==
    /\ May(Job)
    /\ task' = [task EXCEPT ![Job] = [Free EXCEPT !.at = "got",
                                      !.owner = "__job__", !.does = d]]
    /\ left' = Statements
    /\ UNCHANGED <<registered, pool, offWaits, slot, late, begun, stop, sent>>

\* start_job, and the task: session()
Flagged ==
    /\ task[Job].at = "got" /\ LockFree
    /\ task' = [task EXCEPT ![Job] = Given(@, "__job__")]
    /\ UNCHANGED <<registered, pool, offWaits, slot, late, begun, job>>

\* acquire(): a new connection, or one that somebody gave back.  A pool that
\* is closing gives none; one of PostgreSQL that was closed is made anew.
Acquired(c, k) ==
    /\ task[c].at = "acquire" /\ pool # "closing"
    /\ k \notin Held
    /\ pool' = "open"
    /\ task' = [task EXCEPT ![c].at = "settle", ![c].conn = k]
    /\ UNCHANGED <<registered, offWaits, slot, late, begun, job>>

\* USE, the server's id and the read-only SET are over, and the session gets
\* its slot, whatever became of the pool meanwhile: of two that create it at
\* once, the later stays.
Kept(c) ==
    /\ task[c].at = "settle"
    /\ slot' = [slot EXCEPT ![Key(On(c))] = task[c].conn]
    /\ late' = (late \/ pool = "closing")
    /\ Go(c, "queue")
    /\ UNCHANGED <<registered, pool, offWaits, job>>
    /\ begun' = Return(begun)

\* PoolClosed, or acquire_timeout with every connection taken, or a server
\* that does not answer; or USE or SET fails.  A job goes on to its end_job.
NotKept(c) ==
    /\ task[c].at \in {"acquire", "settle"}
    /\ IF c = Job
       THEN /\ task' = [task EXCEPT ![c].at = "ending", ![c].conn = Nothing]
            /\ left' = 0
       ELSE Ends(c) /\ UNCHANGED left
    /\ UNCHANGED <<registered, pool, offWaits, slot, late, stop, sent>>
    /\ begun' = Return(begun)

\* The session's mutex.
Begins(c) ==
    /\ task[c].at = "queue"
    /\ ~\E d \in Tasks : task[d].at = "run" /\ task[d].conn = task[c].conn
    /\ Go(c, "run")
    /\ UNCHANGED <<registered, pool, offWaits, slot, late, begun, job>>

\* The server waits with a statement while a transaction that is open, and
\* where nothing runs, has what it needs; of two that wait for each other
\* it ends one.
Blocked(c) ==
    \E k \in Connections : /\ begun[k] # Nothing
                           /\ ~\E d \in Tasks : task[d].at = "run" /\ task[d].conn = k

\* A statement is over.  A transaction is left open.
Finishes(c) ==
    /\ task[c].at = "run" /\ task[c].does \in Statement
    /\ task[c].does = "query" => ~Blocked(c)
    /\ Ends(c)
    /\ UNCHANGED <<registered, pool, offWaits, slot, late, job>>
    /\ begun' = Return([begun EXCEPT ![task[c].conn] =
                  IF task[c].does = "query" THEN @
                  ELSE IF @ = Nothing THEN task[c].owner ELSE Nothing])

\* A statement of the job is over, and with one that failed maybe the job.
Answered ==
    /\ sent' = FALSE
    /\ left' \in {left - 1, 0}

\* pg_cancel_backend, KILL QUERY: what runs there ends, whoever's it is.
Kills(c) ==
    /\ task[c].at = "run" /\ task[c].does = "cancel"
    /\ task' = [d \in Tasks |->
                   IF d = c \/ (task[d].at = "run" /\ task[d].conn = task[c].kill
                                  /\ task[d].does \in Statement)
                   THEN Free ELSE task[d]]
    /\ IF sent /\ task[Job].conn = task[c].kill THEN Answered ELSE UNCHANGED <<left, sent>>
    /\ UNCHANGED <<registered, pool, offWaits, slot, late, stop>>
    /\ begun' = Return(begun)

-----------------------------------------------------------------------------
\* The job.

\* backup::restore looks at the flag before each statement, dump never.
StopsJob == stop /\ task[Job].does = "restore"

More == left > 0

Sends ==
    /\ task[Job].at = "run" /\ ~sent
    /\ More /\ ~StopsJob
    /\ sent' = TRUE
    /\ UNCHANGED <<registered, pool, offWaits, slot, late, begun, task, stop, left>>

JobRuns ==
    /\ sent /\ ~Blocked(Job)
    /\ Answered
    /\ UNCHANGED <<registered, pool, offWaits, slot, late, begun, task, stop>>

JobOver ==
    /\ task[Job].at = "run" /\ ~sent
    /\ left = 0 \/ StopsJob
    /\ task' = [task EXCEPT ![Job].at = "ending", ![Job].conn = Nothing]
    /\ left' = 0
    /\ UNCHANGED <<registered, pool, offWaits, slot, late, stop, sent>>
    /\ begun' = Return(begun)

\* end_job, with no session held.
EndJob ==
    /\ task[Job].at = "ending" /\ LockFree
    /\ Ends(Job)
    /\ stop' = FALSE
    /\ UNCHANGED <<registered, pool, offWaits, slot, late, begun, left, sent>>

\* db_cancel_job
CancelJob ==
    /\ LockFree /\ task[Job].at \notin {"free", "got"}
    /\ stop' = TRUE
    /\ UNCHANGED <<registered, pool, offWaits, slot, late, begun, task, left, sent>>

-----------------------------------------------------------------------------
\* Closing.

\* db_close_session: drop_session
CloseTab(t) ==
    /\ registered /\ LockFree
    /\ slot[Key(t)] # Nothing
    /\ slot' = [slot EXCEPT ![Key(t)] = Nothing]
    /\ UNCHANGED <<registered, pool, offWaits, late, begun, task, job>>

NotCleared == slot
Cleared == [o \in Owners |-> Nothing]

\* LiveDb::close, up to waiting for the pool.
Shut ==
    /\ registered /\ LockFree
    /\ registered' = FALSE
    /\ pool' = "closing"
    /\ slot' = Cleared
    /\ UNCHANGED <<late, task, job>>
    /\ begun' = Return(begun)

\* db_disconnect waits without the lock, close_all with it.
Disconnect == Shut /\ UNCHANGED offWaits
TurnedOff == Shut /\ offWaits' = TRUE

\* The pool has every connection back.  close_all sets the flags last.
PoolClosed ==
    /\ pool = "closing" /\ Held \cap Connections = {}
    /\ pool' = "closed"
    /\ offWaits' = FALSE
    /\ stop' = IF offWaits /\ task[Job].at \notin {"free", "got"} THEN TRUE ELSE stop
    /\ UNCHANGED <<registered, slot, late, begun, task, left, sent>>

\* idle_timeout, max_lifetime: a connection nobody holds is closed.
IdleClosed(k) ==
    /\ k \notin Held /\ begun[k] # Nothing
    /\ begun' = [begun EXCEPT ![k] = Nothing]
    /\ UNCHANGED <<registered, pool, offWaits, slot, late, task, job>>

-----------------------------------------------------------------------------
\* The next step of a call, and of the job, whichever its turn is.
CallMoves(c) == Kept(c) \/ NotKept(c) \/ Begins(c) \/ Finishes(c) \/ Kills(c)

JobMoves ==
    \/ Flagged
    \/ Kept(Job) \/ NotKept(Job) \/ Begins(Job)
    \/ Sends \/ JobOver \/ EndJob

Next ==
    \/ \E c \in Calls, t \in Tabs :
          (\E d \in Statement : Execute(c, t, d)) \/ Cancel(c, t)
    \/ \E d \in {"backup", "restore"} : StartJob(d)
    \/ \E c \in Tasks, k \in Connections : Acquired(c, k)
    \/ \E c \in Calls : CallMoves(c)
    \/ JobMoves \/ JobRuns \/ CancelJob
    \/ \E t \in Tabs : CloseTab(t)
    \/ Disconnect \/ TurnedOff \/ PoolClosed
    \/ \E k \in Connections : IdleClosed(k)

\* Tasks run, servers answer what nothing keeps waiting, and a pool that has
\* its connections back is closed.  A lock that is let go again and again is
\* granted to a statement that waits for it.  Nobody has to press a button.
Fairness ==
    /\ \A c \in Calls : WF_vars(CallMoves(c))
    /\ WF_vars(JobMoves) /\ SF_vars(JobRuns)
    /\ WF_vars(PoolClosed)

Spec == Init /\ [][Next]_vars /\ Fairness

-----------------------------------------------------------------------------
\* "each query tab gets its own server session, so a BEGIN or a SET in one
\* tab stays in that tab": nothing else runs on a connection with a tab's
\* transaction open, as long as that tab keeps its session.
TabsApart ==
    \A c \in Tasks : task[c].at = "run" =>
        LET tab == begun[task[c].conn]
        IN  tab \in {Nothing, On(c)} \/ slot[tab] # task[c].conn

\* The same without the exception.
TransactionsStay ==
    \A c \in Tasks : task[c].at = "run" =>
        begun[task[c].conn] \in {Nothing, On(c)}

\* Stop ends the statement of the tab it was pressed in, and no other's,
\* unless that tab has let its session go since the press.
CancelsOwn ==
    [][\A c, d \in Tasks :
          /\ task[c].at = "run" /\ task[c].does = "cancel" /\ task'[c] = Free
          /\ c # d /\ task[d].at = "run" /\ task'[d] = Free
          => task[d].owner = task[c].owner
             \/ slot[task[c].owner] # task[c].kill]_vars

\* What the job has sent waits for a transaction somebody left open.
JobWaits == sent /\ Blocked(Job)

\* Turning Databases off comes to an end, whatever is running and whichever
\* transactions are left open, and the manager's lock is free again, unless a
\* session that was being made got its slot after the slots were emptied; and
\* so does a job, unless a transaction stays open that it waits for.
OffEnds ==
    /\ pool = "closing" ~> pool # "closing" \/ late
    /\ task[Job].at # "free" ~> task[Job].at = "free" \/ late \/ []JobWaits
=============================================================================
