------------------------------- MODULE Targets -------------------------------
(***************************************************************************)
(* The saved targets of the DevOps workspaces (container hosts, clusters,  *)
(* databases), the connections open to them, and the switch of each tool.  *)
(* Source: devops.rs, devops_store.rs, db/store.rs, container/mod.rs,      *)
(* k8s/mod.rs, ipc/container_commands.rs, ipc/k8s_commands.rs,             *)
(* ipc/db_commands.rs.                                                     *)
(*                                                                         *)
(* A command holds the vault and the store together while it reads or      *)
(* writes a saved target, and neither while it connects; opening a         *)
(* container host or a cluster then writes back, with a new time of use,   *)
(* what it had read before connecting.  The vault has no update: a save    *)
(* deletes the entry and makes it anew, and either half may fail.          *)
(***************************************************************************)
EXTENDS Naturals, FiniteSets

CONSTANTS
    Target,     \* what may be saved
    Command,    \* commands that may be under way together
    Setting,    \* what a saved entry says that anything is decided by: read_only
    Gone        \* no entry; no connection

Kinds == {"containers", "kubernetes", "databases"}

TargetsAssumption == Gone \notin Setting

Stores == {"db", "devops"}

VARIABLES
    tool,      \* which tool each target is of; never changes
    on,        \* the flag of each tool
    clearing,  \* tools whose close_all waits for the registry
    locked,    \* is_locked() of the vault manager
    loaded,    \* DevopsStore::loaded, DbConnectionStore::loaded
    memory,    \* hosts, clusters, connections
    vault,     \* the same in the internal vault
    rules, vaultRules,   \* the targets with saved log files
    live,      \* the registry: what each open connection was opened as
    log,       \* a log being followed: "none", "got" the connection, "running"
    command,   \* what each command is at, and the entry it holds
    wanted,    \* history: what the user was last told is saved
    together,  \* history: an open and a change of it were under way together,
               \* or the vault became another with the store still read
    halved,    \* history: a write of it went half way
    late       \* history: connections and logs begun after their tool was off

stored      == <<loaded, memory, vault, rules, vaultRules, halved>>
switches    == <<tool, on, clearing>>
vars        == <<switches, locked, stored, live, log, command, wanted,
                 together, late>>

Store(x) == IF tool[x] = "databases" THEN "db" ELSE "devops"

Idle == [at |-> "free"]
Held(at, x, entry) == [at |-> at, of |-> x, entry |-> entry]

TypeOK ==
    /\ tool \in [Target -> Kinds]
    /\ on \in [Kinds -> BOOLEAN]
    /\ clearing \subseteq Kinds
    /\ locked \in BOOLEAN
    /\ loaded \in [Stores -> BOOLEAN]
    /\ {memory, vault, live, wanted} \subseteq [Target -> Setting \cup {Gone}]
    /\ {rules, vaultRules} \subseteq SUBSET Target
    /\ log \in [Target -> {"none", "got", "running"}]
    /\ command \in [Command -> {Idle} \cup
          [at : {"connect", "stamp", "save"}, of : Target, entry : Setting] \cup
          [at : {"delete"}, of : Target, entry : {Gone}]]
    /\ {together, halved} \subseteq SUBSET Target
    /\ late \subseteq Target \X {"connection", "log"}

Init ==
    /\ tool \in [Target -> Kinds]
    /\ on = [t \in Kinds |-> FALSE]
    /\ clearing = {}
    /\ locked = TRUE
    /\ loaded = [s \in Stores |-> FALSE]
    /\ memory = [x \in Target |-> Gone]
    /\ vault = [x \in Target |-> Gone]
    /\ rules = {}
    /\ vaultRules = {}
    /\ live = [x \in Target |-> Gone]
    /\ log = [x \in Target |-> "none"]
    /\ command = [c \in Command |-> Idle]
    /\ wanted = [x \in Target |-> Gone]
    /\ together = {}
    /\ halved = {}
    /\ late = {}

\* devops::require
Require(t) == on[t]

\* ensure_loaded: nothing while the vault is locked, and nothing once loaded.
Loading(s) == ~loaded[s] /\ ~locked
Seen(s) == [x \in Target |-> IF Loading(s) /\ Store(x) = s THEN vault[x]
                             ELSE memory[x]]
SeenRules(s) == rules \cup IF Loading(s) /\ s = "devops" THEN vaultRules ELSE {}
Load(s) == loaded' = [loaded EXCEPT ![s] = @ \/ ~locked]

OnlyLoads(s) ==
    /\ Load(s)
    /\ memory' = Seen(s)
    /\ rules' = SeenRules(s)
    /\ UNCHANGED <<vault, vaultRules, halved>>

Go(c, at, x, entry) == command' = [command EXCEPT ![c] = Held(at, x, entry)]
Done(c) == command' = [command EXCEPT ![c] = Idle]

Under(x, stages) ==
    \E c \in Command : command[c].at \in stages /\ command[c].of = x

-----------------------------------------------------------------------------
\* The switch.

TurnOn(t) ==
    /\ ~on[t] /\ \E x \in Target : tool[x] = t
    /\ on' = [on EXCEPT ![t] = TRUE]
    /\ UNCHANGED <<tool, clearing, locked, stored, live, log, command, wanted,
                   together, late>>

\* devops_set_enabled: the flag first, then the registry under its lock.
TurnOff(t) ==
    /\ on[t]
    /\ on' = [on EXCEPT ![t] = FALSE]
    /\ clearing' = clearing \cup {t}
    /\ UNCHANGED <<tool, locked, stored, live, log, command, wanted, together, late>>

\* close_all: the connections, and the log streams that run.
LogsRunOn(t) == log
CutLogs(t) == [x \in Target |->
                  IF tool[x] = t /\ log[x] = "running" THEN "none" ELSE log[x]]

CloseAll(t) ==
    /\ t \in clearing
    /\ clearing' = clearing \ {t}
    /\ live' = [x \in Target |-> IF tool[x] = t THEN Gone ELSE live[x]]
    /\ log' = CutLogs(t)
    /\ late' = {w \in late : tool[w[1]] # t}
    /\ UNCHANGED <<tool, on, locked, stored, command, wanted, together>>

LockVault ==
    /\ locked' = ~locked
    /\ UNCHANGED <<switches, stored, live, log, command, wanted, together, late>>

\* Reach is closed, or dies, and starts again: the page turns tools on anew.
Restart ==
    /\ on' = [t \in Kinds |-> FALSE]
    /\ clearing' = {}
    /\ locked' = TRUE
    /\ loaded' = [s \in Stores |-> FALSE]
    /\ memory' = [x \in Target |-> Gone]
    /\ rules' = {}
    /\ live' = [x \in Target |-> Gone]
    /\ log' = [x \in Target |-> "none"]
    /\ command' = [c \in Command |-> Idle]
    /\ late' = {}
    /\ UNCHANGED <<tool, vault, vaultRules, halved, wanted, together>>

\* The vault becomes another.  vault_reset leaves none, and vault_import_identity
\* an empty one, which it opens (LockVault); vault_import_backup brings what the
\* copy has, and leaves it locked.  None of them tells the stores, which go on
\* showing what they had read.
Replace(brought, broughtRules) ==
    /\ \A x \in broughtRules : Store(x) = "devops" /\ brought[x] # Gone
    /\ vault' = brought
    /\ vaultRules' = broughtRules
    /\ halved' = {}
    /\ locked' = TRUE
    /\ wanted' = brought
    /\ together' = together \cup {x \in Target : loaded[Store(x)]}
    /\ UNCHANGED <<switches, loaded, memory, rules, live, log, command, late>>

-----------------------------------------------------------------------------
\* Saving and deleting.

\* ctr_hosts, k8s_clusters, db_list_connections
List(t) ==
    /\ Require(t)
    /\ OnlyLoads(IF t = "databases" THEN "db" ELSE "devops")
    /\ UNCHANGED <<switches, locked, live, log, command, wanted, together, late>>

\* Whatever starts on x: whether an open and a change of it overlap.
Meets(x, others) ==
    together' = IF Under(x, others) THEN together \cup {x} ELSE together

\* A change is over, and neither an open of x nor what one left is there.
Settles(x) ==
    together' = IF Under(x, {"connect", "stamp"})
                   \/ (tool[x] = "kubernetes" /\ live[x] # Gone)
                THEN together ELSE together \ {x}

LeftOpen(x) == live
ClosedForSave(x) ==
    IF tool[x] = "kubernetes" THEN [live EXCEPT ![x] = Gone] ELSE live

\* ctr_host_save, k8s_cluster_save, db_save_connection, up to the vault.
\* "A changed setting (read-only, route) takes effect on the next open."
Save(c, x, v) ==
    /\ command[c] = Idle /\ Require(tool[x])
    /\ live' = ClosedForSave(x)
    /\ late' = IF live'[x] = Gone THEN late \ {<<x, "connection">>} ELSE late
    /\ Meets(x, {"connect", "stamp"})
    /\ Go(c, "save", x, v)
    /\ UNCHANGED <<switches, locked, stored, log, wanted>>

\* put, save: under the vault and the store, so none comes between.  Both
\* halves; neither; or the entry is deleted, and not made again.
RememberedFirst(x, v, how) == [Seen(Store(x)) EXCEPT ![x] = v]
Remembered(x, v, how) ==
    IF how = "both" THEN [Seen(Store(x)) EXCEPT ![x] = v] ELSE Seen(Store(x))

Put(x, v, how) ==
    /\ Load(Store(x))
    /\ rules' = SeenRules(Store(x))
    /\ vault' = [vault EXCEPT ![x] = CASE how = "both" -> v
                                       [] how = "half" -> Gone
                                       [] how = "none" -> @]
    /\ memory' = Remembered(x, v, how)
    /\ halved' = CASE how = "both" -> halved \ {x}
                   [] how = "half" -> halved \cup {x}
                   [] how = "none" -> halved
    /\ UNCHANGED vaultRules

Outcomes == {"both", "half", "none"}

Saved(c, how) ==
    LET x == command[c].of  v == command[c].entry
    IN  /\ command[c].at = "save" /\ ~locked
        /\ Put(x, v, how)
        /\ IF how = "both"
           THEN wanted' = [wanted EXCEPT ![x] = v] /\ Settles(x)
           ELSE UNCHANGED <<wanted, together>>
        /\ Done(c)
        /\ UNCHANGED <<switches, locked, live, log, late>>

\* ctr_host_delete, k8s_cluster_delete, db_delete_connection: the connection
\* is closed first.
Delete(c, x) ==
    /\ command[c] = Idle /\ Require(tool[x])
    /\ live' = [live EXCEPT ![x] = Gone]
    /\ late' = late \ {<<x, "connection">>}
    /\ Meets(x, {"connect", "stamp"})
    /\ Go(c, "delete", x, Gone)
    /\ UNCHANGED <<switches, locked, stored, log, wanted>>

\* delete: the saved log files go with it, whether or not that succeeds.
Deleted(c, rulesGo) ==
    LET x == command[c].of
        s == Store(x)
        had == x \in SeenRules(s)
    IN  /\ command[c].at = "delete" /\ ~locked
        /\ Load(s)
        /\ vault' = [vault EXCEPT ![x] = Gone]
        /\ memory' = [Seen(s) EXCEPT ![x] = Gone]
        /\ rules' = SeenRules(s) \ {x}
        /\ vaultRules' = IF had /\ rulesGo THEN vaultRules \ {x} ELSE vaultRules
        /\ halved' = IF x \in vaultRules' THEN halved \cup {x} ELSE halved \ {x}
        /\ wanted' = [wanted EXCEPT ![x] = Gone]
        /\ Settles(x)
        /\ Done(c)
        /\ UNCHANGED <<switches, locked, live, log, late>>

\* The vault is locked, or refuses: nothing has changed.
Refused(c) ==
    /\ command[c].at \in {"save", "delete"}
    /\ IF locked THEN UNCHANGED stored ELSE OnlyLoads(Store(command[c].of))
    /\ Done(c)
    /\ UNCHANGED <<switches, locked, live, log, wanted, together, late>>

\* devops_log_rules_save: it asks for no switch.
SaveRules(x, some, how) ==
    /\ Store(x) = "devops" /\ ~locked
    /\ Load("devops")
    /\ memory' = Seen("devops")
    /\ UNCHANGED <<vault, halved>>
    /\ IF Seen("devops")[x] = Gone
       THEN rules' = SeenRules("devops") /\ UNCHANGED vaultRules
       ELSE LET written == IF some THEN how = "both" ELSE TRUE
                base == SeenRules("devops") \ {x}
            IN  /\ rules' = IF ~written THEN SeenRules("devops")
                            ELSE IF some THEN base \cup {x} ELSE base
                /\ vaultRules' = CASE how = "both" /\ some  -> vaultRules \cup {x}
                                   [] how = "both" /\ ~some -> vaultRules \ {x}
                                   [] how = "half"          -> vaultRules \ {x}
                                   [] how = "none"          -> vaultRules
    /\ UNCHANGED <<switches, locked, live, log, command, wanted, together, late>>

-----------------------------------------------------------------------------
\* Connecting.

Entry(x) == Seen(Store(x))[x]
StillSaved(x) == Entry(x) # Gone

\* ctr_open, k8s_open: the entry is read; what follows works on the copy.
Open(c, x) ==
    /\ command[c] = Idle /\ Require(tool[x]) /\ tool[x] # "databases"
    /\ StillSaved(x)
    /\ OnlyLoads(Store(x))
    /\ Meets(x, {"save", "delete"})
    /\ Go(c, "connect", x, Entry(x))
    /\ UNCHANGED <<switches, locked, live, log, wanted, late>>

\* db_connect: the entry is read and stamped at once; how that went is
\* not looked at.
OpenDatabase(c, x, how) ==
    /\ command[c] = Idle /\ Require(tool[x]) /\ tool[x] = "databases"
    /\ StillSaved(x)
    /\ IF locked THEN UNCHANGED stored ELSE Put(x, Entry(x), how)
    /\ Meets(x, {"save", "delete"})
    /\ Go(c, "connect", x, Entry(x))
    /\ UNCHANGED <<switches, locked, live, log, wanted, late>>

\* What begins once its tool is off and close_all has been.
Lately(x, what) ==
    IF on[tool[x]] \/ tool[x] \in clearing THEN late \ {<<x, what>>}
    ELSE late \cup {<<x, what>>}

\* insert: the connection that was open to it is replaced.
Connected(c) ==
    LET x == command[c].of
    IN  /\ command[c].at = "connect"
        /\ live' = [live EXCEPT ![x] = command[c].entry]
        /\ late' = Lately(x, "connection")
        /\ IF tool[x] = "databases" THEN Done(c)
           ELSE Go(c, "stamp", x, command[c].entry)
        /\ UNCHANGED <<switches, locked, stored, log, wanted, together>>

NotConnected(c) ==
    /\ command[c].at = "connect"
    /\ Done(c)
    /\ UNCHANGED <<switches, locked, stored, live, log, wanted, together, late>>

\* "let _ = store.save_host(ContainerHost { last_used_at: now_ms(), ..saved })"
Stamped(c, how) ==
    /\ command[c].at = "stamp"
    /\ IF locked THEN UNCHANGED stored
       ELSE Put(command[c].of, command[c].entry, how)
    /\ Done(c)
    /\ UNCHANGED <<switches, locked, live, log, wanted, together, late>>

\* ctr_close and k8s_close ask for no switch; db_disconnect does.
Close(x) ==
    /\ live[x] # Gone
    /\ tool[x] = "databases" => Require(tool[x])
    /\ live' = [live EXCEPT ![x] = Gone]
    /\ late' = late \ {<<x, "connection">>}
    /\ UNCHANGED <<switches, locked, stored, log, command, wanted, together>>

\* ctr_logs, k8s_logs: the switch and the connection, and then the stream,
\* under two locks.
GetForLog(x) ==
    /\ tool[x] # "databases" /\ Require(tool[x])
    /\ live[x] # Gone /\ log[x] = "none"
    /\ log' = [log EXCEPT ![x] = "got"]
    /\ UNCHANGED <<switches, locked, stored, live, command, wanted, together, late>>

FollowLog(x) ==
    /\ log[x] = "got"
    /\ log' = [log EXCEPT ![x] = "running"]
    /\ late' = Lately(x, "log")
    /\ UNCHANGED <<switches, locked, stored, live, command, wanted, together>>

LogEnds(x) ==
    /\ log[x] = "running"
    /\ log' = [log EXCEPT ![x] = "none"]
    /\ late' = late \ {<<x, "log">>}
    /\ UNCHANGED <<switches, locked, stored, live, command, wanted, together>>

-----------------------------------------------------------------------------
Next ==
    \/ \E t \in Kinds : TurnOn(t) \/ TurnOff(t) \/ CloseAll(t) \/ List(t)
    \/ LockVault \/ Restart
    \/ \E brought \in [Target -> Setting \cup {Gone}], broughtRules \in SUBSET Target :
          Replace(brought, broughtRules)
    \/ \E c \in Command :
          \/ \E x \in Target :
                \/ \E v \in Setting : Save(c, x, v)
                \/ Delete(c, x) \/ Open(c, x)
                \/ \E how \in Outcomes : OpenDatabase(c, x, how)
          \/ \E how \in Outcomes : Saved(c, how) \/ Stamped(c, how)
          \/ \E rulesGo \in BOOLEAN : Deleted(c, rulesGo)
          \/ Refused(c) \/ Connected(c) \/ NotConnected(c)
    \/ \E x \in Target :
          \/ \E some \in BOOLEAN, how \in Outcomes : SaveRules(x, some, how)
          \/ Close(x) \/ GetForLog(x) \/ FollowLog(x) \/ LogEnds(x)

Spec == Init /\ [][Next]_vars

-----------------------------------------------------------------------------
\* What the user was told is saved is what the store shows, now and after a
\* restart, and what a deleted target had goes with it.  What a reset or an
\* import left or brought counts as saved.
SavedIsKept ==
    \A x \in Target \ (together \cup halved) :
        /\ vault[x] = wanted[x]
        /\ loaded[Store(x)] => memory[x] = wanted[x]
        /\ x \in vaultRules => vault[x] # Gone

\* A cluster that is open is open as it is saved: one made read-only is not
\* left open to changes, and one that was deleted is not left open.
OpenAsSaved ==
    \A x \in Target \ together :
        tool[x] = "kubernetes" /\ live[x] # Gone
           /\ ~Under(x, {"save", "delete"}) => live[x] = memory[x]

\* Saved settings stay, and clusters are open under them, whatever failed on
\* the way and however often they were opened and stamped: unless a write
\* went half way, an open was under way while they were changed, or the vault
\* was reset or replaced while the store held what it had read of the old one.
SettingsKept == SavedIsKept /\ OpenAsSaved

\* A tool that is off keeps no connection open and follows no log, but for
\* one whose open was under way when it was turned off.
OffMeansOff ==
    \A x \in Target : ~on[tool[x]] /\ tool[x] \notin clearing =>
        /\ live[x] # Gone => <<x, "connection">> \in late
        /\ log[x] = "running" => <<x, "log">> \in late
=============================================================================
