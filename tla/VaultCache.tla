----------------------------- MODULE VaultCache -----------------------------
(***************************************************************************)
(* One synced vault: its rows in Turso, the sealed copy of them this       *)
(* device keeps in memory and on disk, the background refresh, and the     *)
(* writes with their retry.  Sources: vault/manager.rs, vault/cache.rs and *)
(* the refresh loop of lib.rs.                                             *)
(*                                                                         *)
(* A command holds the vault_manager mutex from its first line to its      *)
(* last, so it is one action, except a write, whose statement and answer   *)
(* travel: it is several, with `op` as the mutex.  The refresh holds the   *)
(* mutex only to choose the vault and to store what it read; its queries   *)
(* to Turso run beside everything else.                                    *)
(*                                                                         *)
(* A row is one value; ciphers and names are left out.  This device is a   *)
(* member of the vault, not its owner, so that it can be removed.          *)
(***************************************************************************)
EXTENDS Naturals, FiniteSets

CONSTANTS
    Secrets,            \* ids of rows of `secrets`
    Values,             \* what a row may hold
    Shares,             \* ids of rows of `shared_items`
    MaxLate,            \* bound: timed-out statements still on their way
    NoRow,              \* Turso or a snapshot has no such row
    NoCache,            \* VaultConnection::cache is None
    Empty,              \* the cache is there, not yet filled
    NoFile,             \* no <vault>.cache on disk
    Idle,               \* no write holds the mutex
    Resting,            \* the refresh is waiting for its next turn
    Unsure              \* this device's last write of a row settles nothing

Row      == Values \cup {NoRow}
Snapshot == [member: BOOLEAN, rows: [Secrets -> Row]]
Kinds    == {"create", "update", "delete", "share"}
Stmt     == [kind: Kinds, id: Secrets \cup Shares, v: Row]
\* "nothing": the statement ran and matched no row; "refused": it failed.
Answers  == {"sent", "done", "nothing", "refused"}
Op       == [stmt: Stmt, try: 1..2, at: Answers]
Fetch    == [at: {"asked", "member", "read"}, snap: Snapshot]
Vault    == [open: BOOLEAN, dek: BOOLEAN, cache: Snapshot \cup {Empty, NoCache}]
Mine     == [v: Row, calm: BOOLEAN]

ASSUME CacheSentinels ==
    /\ NoRow \notin Values
    /\ {NoCache, Empty, NoFile} \cap Snapshot = {}
    /\ NoCache # Empty
    /\ Idle \notin Op /\ Resting \notin Fetch /\ Unsure \notin Mine
    /\ Secrets \cap Shares = {}
    /\ MaxLate \in Nat

VARIABLES
    rows,       \* Turso: the secrets table
    member,     \* Turso: whether vault_members has this user's row
    shares,     \* Turso: the shared_items table
    late,       \* statements given up on that Turso may still run
    identity,   \* the identity and KEK are in memory
    listed,     \* the identity file lists the vault
    vault,      \* its VaultConnection: in the map, unlocked, cache
    disk,       \* its .cache file
    op,         \* the write that holds the mutex
    fetch,      \* what the refresh has read so far
    \* History, read by the properties only:
    held,       \* per row, everything Turso has held
    noop,       \* per row, updates Turso accepted without a row to update
    behind,     \* the last change of the copy was not saved
    told,       \* the refresh has brought it home that this user was removed
    mine        \* what this device last wrote in each row, if that still counts

turso   == <<rows, member, shares, late>>
device  == <<identity, listed, vault, disk>>
history == <<held, noop, behind, told, mine>>
vars    == <<turso, device, op, fetch, history>>

TypeOK ==
    /\ rows \in [Secrets -> Row]
    /\ member \in BOOLEAN
    /\ shares \subseteq Shares
    /\ late \subseteq Stmt
    /\ identity \in BOOLEAN
    /\ listed \in BOOLEAN
    /\ vault \in Vault
    /\ disk \in Snapshot \cup {NoFile}
    /\ op \in Op \cup {Idle}
    /\ fetch \in Fetch \cup {Resting}
    /\ held \in [Secrets -> SUBSET Row]
    /\ noop \in [Secrets -> SUBSET Row]
    /\ behind \in BOOLEAN
    /\ told \in BOOLEAN
    /\ mine \in [Secrets -> Mine \cup {Unsure}]

Closed == [open |-> FALSE, dek |-> FALSE, cache |-> NoCache]

\* A vault joined before, its first refresh still to come.
Init ==
    /\ rows \in [Secrets -> Row]
    /\ member = TRUE
    /\ shares = {}
    /\ late = {}
    /\ identity = FALSE
    /\ listed = TRUE
    /\ vault = Closed
    /\ disk = NoFile
    /\ op = Idle
    /\ fetch = Resting
    /\ held = [s \in Secrets |-> {rows[s]}]
    /\ noop = [s \in Secrets |-> {}]
    /\ behind = FALSE
    /\ told = FALSE
    /\ mine = [s \in Secrets |-> Unsure]

Free == op = Idle
Filled == vault.cache \in Snapshot

-----------------------------------------------------------------------------
\* Opening, unlocking, locking.

\* cache::load; a file that does not open counts as none and is removed.
FromDisk == IF disk = NoFile THEN Empty ELSE disk

\* unlock_vault_keys on vault v: from the copy when it names this user, else
\* the copy is discarded and Turso, when it answers, decides.
ReloadedIfLost(v) == IF v.cache = NoCache THEN FromDisk ELSE v.cache

\* CacheState::discard, in memory and on disk; a plausible slip keeps the file.
AfterDiscardInMemoryOnly(c) == disk
AfterDiscard(c) == IF c = Empty THEN disk ELSE NoFile

UnlockKeys(v, answers) ==
    LET c == ReloadedIfLost(v) IN
    \/ /\ v.dek
       /\ vault' = [v EXCEPT !.cache = c]
       /\ UNCHANGED disk
       /\ behind' = (behind /\ v.cache # NoCache)
    \/ /\ ~v.dek /\ c \in Snapshot /\ c.member
       /\ vault' = [v EXCEPT !.cache = c, !.dek = TRUE]
       /\ UNCHANGED disk
       /\ behind' = (behind /\ v.cache # NoCache)
    \/ /\ ~v.dek /\ ~(c \in Snapshot /\ c.member)
       /\ vault' = [v EXCEPT !.cache = Empty, !.dek = answers /\ member]
       /\ disk' = AfterDiscard(c)
       /\ behind' = (behind /\ c = Empty /\ v.cache # NoCache)

\* open_vault then unlock_vault, for a vault not in the map: without a copy
\* the header comes from Turso, or the vault stays closed.
OpenAndUnlock(answers) ==
    IF FromDisk = Empty /\ ~answers
    THEN vault' = Closed /\ UNCHANGED <<disk, behind>>
    ELSE UnlockKeys([Closed EXCEPT !.open = TRUE], answers)

\* Any way of opening the identity: the user's vaults are opened, and those
\* that stayed open get their key back.
UnlockApp(answers) ==
    /\ Free
    /\ ~identity
    /\ identity' = TRUE
    /\ IF vault.open THEN UnlockKeys(vault, answers)
       ELSE IF listed THEN OpenAndUnlock(answers)
       ELSE UNCHANGED <<vault, disk, behind>>
    /\ UNCHANGED <<turso, listed, op, fetch, held, noop, told, mine>>

\* vault_open on its own; before the identity is loaded there is no cache.
OpenVault(answers) ==
    /\ Free
    /\ listed /\ ~vault.open
    /\ (identity /\ FromDisk # Empty) \/ answers
    /\ vault' = [open |-> TRUE, dek |-> FALSE,
                 cache |-> IF identity THEN FromDisk ELSE NoCache]
    /\ behind' = FALSE
    /\ UNCHANGED <<turso, identity, listed, disk, op, fetch, held, noop, told,
                   mine>>

UnlockVault(answers) ==
    /\ Free
    /\ identity /\ vault.open
    /\ UnlockKeys(vault, answers)
    /\ UNCHANGED <<turso, identity, listed, op, fetch, held, noop, told, mine>>

LockVault ==
    /\ Free
    /\ vault' = [vault EXCEPT !.dek = FALSE]
    /\ UNCHANGED <<turso, identity, listed, disk, op, fetch, history>>

Wiped == [vault EXCEPT !.dek = FALSE, !.cache = NoCache]

LockApp ==
    /\ Free
    /\ identity
    /\ identity' = FALSE
    /\ vault' = Wiped
    /\ UNCHANGED <<turso, listed, disk, op, fetch, history>>

CloseVault ==
    /\ Free
    /\ vault.open
    /\ vault' = Closed
    /\ UNCHANGED <<turso, identity, listed, disk, op, fetch, history>>

\* accept_invite for a vault already joined, with a newer token.
AcceptAgain(answers) ==
    /\ Free
    /\ identity /\ listed
    /\ OpenAndUnlock(answers)
    /\ UNCHANGED <<turso, identity, listed, op, fetch, held, noop, told, mine>>

\* delete_vault; the identity file is saved only while the key is there, and a
\* failure of that is only logged.
DeleteVault ==
    /\ Free
    /\ listed
    /\ vault' = Closed
    /\ listed' \in {TRUE, ~identity}
    /\ disk' = NoFile
    /\ behind' = FALSE
    /\ UNCHANGED <<turso, identity, op, fetch, held, noop, told, mine>>

\* The program ends anywhere, a write half way included, and starts again.
\* The file is written beside and renamed, so it is whole.
Restart ==
    /\ identity' = FALSE
    /\ vault' = Closed
    /\ op' = Idle
    /\ fetch' = Resting
    /\ behind' = FALSE
    /\ UNCHANGED <<turso, listed, disk, held, noop, told, mine>>

-----------------------------------------------------------------------------
\* Statements and Turso.

\* What a statement does to the secrets table t.
Applied(t, stmt) ==
    CASE stmt.kind = "create" -> [t EXCEPT ![stmt.id] = stmt.v]
      [] stmt.kind = "update" /\ t[stmt.id] # NoRow
                              -> [t EXCEPT ![stmt.id] = stmt.v]
      [] stmt.kind = "delete" -> [t EXCEPT ![stmt.id] = NoRow]
      [] OTHER                -> t

AnswerTo(stmt) ==
    CASE stmt.kind = "share" /\ stmt.id \in shares -> "refused"
      [] stmt.kind = "update" /\ rows[stmt.id] = NoRow -> "nothing"
      [] OTHER -> "done"

TursoRuns(stmt) ==
    /\ rows' = Applied(rows, stmt)
    /\ held' = [s \in Secrets |-> held[s] \cup {Applied(rows, stmt)[s]}]
    /\ shares' = IF stmt.kind = "share" THEN shares \cup {stmt.id} ELSE shares

\* The statement in flight reaches Turso.
Arrives ==
    /\ op # Idle
    /\ op.at = "sent"
    /\ TursoRuns(op.stmt)
    /\ op' = [op EXCEPT !.at = AnswerTo(op.stmt)]
    /\ UNCHANGED <<member, late, device, fetch, noop, behind, told, mine>>

\* A statement the device has stopped waiting for reaches Turso after all.
ArrivesLate(stmt) ==
    /\ stmt \in late
    /\ late' = late \ {stmt}
    /\ TursoRuns(stmt)
    /\ mine' = IF stmt.kind = "share" THEN mine
               ELSE [mine EXCEPT ![stmt.id] = Unsure]
    /\ UNCHANGED <<member, device, op, fetch, noop, behind, told>>

\* Another device writes a row; the vault's owner removes or invites.
Elsewhere(s, v) ==
    /\ v # rows[s]
    /\ rows' = [rows EXCEPT ![s] = v]
    /\ held' = [held EXCEPT ![s] = @ \cup {v}]
    /\ mine' = [mine EXCEPT ![s] = Unsure]
    /\ UNCHANGED <<member, shares, late, device, op, fetch, noop, behind, told>>

OwnerRemovesOrInvites ==
    /\ member' = ~member
    /\ told' = FALSE
    /\ UNCHANGED <<rows, shares, late, device, op, fetch, held, noop, behind,
                   mine>>

-----------------------------------------------------------------------------
\* Writes.

Begin(kind, id, v) ==
    /\ Free
    /\ vault.open
    /\ op' = [stmt |-> [kind |-> kind, id |-> id, v |-> v],
              try |-> 1, at |-> "sent"]
    /\ mine' = IF kind = "share" THEN mine ELSE [mine EXCEPT ![id] = Unsure]
    /\ UNCHANGED <<turso, device, fetch, held, noop, behind, told>>

\* Creating and updating encrypt, so they need the vault's key; the others
\* run on a locked vault too.
CreateSecret(s, v) == vault.dek /\ Begin("create", s, v)
UpdateSecret(s, v) == vault.dek /\ Begin("update", s, v)
RenameSecret(s, v) == Begin("update", s, v)
DeleteSecret(s)    == Begin("delete", s, NoRow)

\* share_item: every share has an id of its own.
ShareItem(id) ==
    /\ id \notin shares
    /\ \A stmt \in late : stmt.id # id
    /\ Begin("share", id, NoRow)

\* A statement that got no answer in time, or none at all, is lost or still
\* on its way.
GivenUp(lost) ==
    /\ (op.at = "sent" /\ ~lost) => Cardinality(late) < MaxLate
    /\ late' = IF op.at = "sent" /\ ~lost THEN late \cup {op.stmt} ELSE late

\* The first run failed: once more, on a new connection.
Retry(lost) ==
    /\ op # Idle
    /\ op.try = 1
    /\ GivenUp(lost)
    /\ op' = [op EXCEPT !.try = 2, !.at = "sent"]
    /\ UNCHANGED <<rows, member, shares, device, fetch, history>>

\* CacheState::edit: the same change to the rows held here, saved or not.
\* An update of a row the copy lacks changes nothing, but saves all the same.
EditedButForDeletes(rs, stmt) ==
    IF stmt.kind = "delete" THEN rs ELSE Applied(rs, stmt)
Edited(rs, stmt) == Applied(rs, stmt)

Save(snap, ok) ==
    /\ disk' = IF ok THEN snap ELSE disk
    /\ behind' = ~ok

\* What this device may expect to read from now on: nothing, when another
\* device has written since, or when the copy did not have the row to update.
Written(stmt, ok) ==
    IF \/ rows[stmt.id] # stmt.v
       \/ /\ Filled /\ stmt.kind = "update"
          /\ vault.cache.rows[stmt.id] = NoRow
    THEN Unsure
    ELSE [v |-> stmt.v,
          calm |-> /\ fetch = Resting
                   /\ Filled => ok
                   /\ vault.cache # NoCache]

\* The second run failed too: the error goes to the caller before the copy
\* is touched.
CopyAfterErrorEdited ==
    IF Filled /\ op.stmt.kind # "share"
    THEN [vault.cache EXCEPT !.rows = Edited(@, op.stmt)] ELSE vault.cache
CopyAfterError == vault.cache

Fail(lost) ==
    /\ op # Idle
    /\ op.try = 2
    /\ GivenUp(lost)
    /\ op' = Idle
    /\ vault' = [vault EXCEPT !.cache = CopyAfterError]
    /\ UNCHANGED <<rows, member, shares, identity, listed, disk, fetch, history>>

Return(ok) ==
    /\ op # Idle
    /\ op.at \in {"done", "nothing"}
    /\ op' = Idle
    /\ IF Filled /\ op.stmt.kind # "share"
       THEN LET new == [vault.cache EXCEPT !.rows = Edited(@, op.stmt)]
            IN  /\ vault' = [vault EXCEPT !.cache = new]
                /\ Save(new, ok)
       ELSE UNCHANGED <<vault, disk, behind>>
    /\ noop' = IF op.at = "nothing"
               THEN [noop EXCEPT ![op.stmt.id] = @ \cup {op.stmt.v}] ELSE noop
    /\ mine' = IF op.stmt.kind = "share" THEN mine
               ELSE [mine EXCEPT ![op.stmt.id] = Written(op.stmt, ok)]
    /\ UNCHANGED <<turso, identity, listed, fetch, held, told>>

-----------------------------------------------------------------------------
\* The background refresh.

Blank == [member |-> FALSE, rows |-> [s \in Secrets |-> NoRow]]

StartRefresh ==
    /\ Free
    /\ fetch = Resting
    /\ vault.dek /\ vault.cache # NoCache
    /\ fetch' = [at |-> "asked", snap |-> Blank]
    /\ UNCHANGED <<turso, device, op, history>>

\* fetch_snapshot: the member row, then all the secrets, in two queries.
ReadMember ==
    /\ fetch # Resting
    /\ fetch.at = "asked"
    /\ fetch' = [at |-> "member", snap |-> [fetch.snap EXCEPT !.member = member]]
    /\ UNCHANGED <<turso, device, op, history>>

ReadSecrets ==
    /\ fetch # Resting
    /\ fetch.at = "member"
    /\ fetch' = [at |-> "read", snap |-> [fetch.snap EXCEPT !.rows = rows]]
    /\ UNCHANGED <<turso, device, op, history>>

\* An error, or no answer within twenty seconds.
FetchFails ==
    /\ fetch # Resting
    /\ fetch.at # "read"
    /\ fetch' = Resting
    /\ UNCHANGED <<turso, device, op, history>>

\* apply_snapshot and CacheState::replace: only into a cache that is there,
\* and only when it differs.  Before it, three plausible slips.
WantedAnyway(snap) == vault.cache # snap
WantedOnce(snap)   == vault.cache = Empty
WantedForRows(snap) ==
    vault.cache = Empty \/ (Filled /\ vault.cache.rows # snap.rows)
Wanted(snap) == vault.cache # NoCache /\ vault.cache # snap

ApplySnapshot(ok) ==
    /\ Free
    /\ fetch # Resting
    /\ fetch.at = "read"
    /\ fetch' = Resting
    /\ IF Wanted(fetch.snap)
       THEN /\ vault' = [vault EXCEPT !.cache = fetch.snap]
            /\ Save(fetch.snap, ok)
       ELSE UNCHANGED <<vault, disk, behind>>
    /\ told' = (told \/ (/\ ~fetch.snap.member /\ ~member
                         /\ vault.cache # NoCache /\ ~behind'))
    /\ UNCHANGED <<turso, identity, listed, op, held, noop, mine>>

-----------------------------------------------------------------------------

World ==
    \/ Arrives
    \/ \E stmt \in late : ArrivesLate(stmt)
    \/ \E s \in Secrets, v \in Row : Elsewhere(s, v)
    \/ OwnerRemovesOrInvites

Commands ==
    \/ \E answers \in BOOLEAN :
          \/ UnlockApp(answers) \/ OpenVault(answers)
          \/ UnlockVault(answers) \/ AcceptAgain(answers)
    \/ LockVault \/ LockApp \/ CloseVault \/ DeleteVault
    \/ \E s \in Secrets, v \in Values :
          CreateSecret(s, v) \/ UpdateSecret(s, v) \/ RenameSecret(s, v)
    \/ \E s \in Secrets : DeleteSecret(s)
    \/ \E id \in Shares : ShareItem(id)

Waiting ==
    \/ \E lost \in BOOLEAN : Retry(lost) \/ Fail(lost)
    \/ \E ok \in BOOLEAN : Return(ok)

Refresh ==
    \/ StartRefresh \/ ReadMember \/ ReadSecrets \/ FetchFails
    \/ \E ok \in BOOLEAN : ApplySnapshot(ok)

Next == World \/ Commands \/ Waiting \/ Refresh \/ Restart

\* A statement is waited for ten seconds at most, so its command ends.  The
\* refresh asks again every minute and the mutex is first come, first
\* served, so it gets its turn; Turso is reachable now and again.
Fairness ==
    /\ WF_vars(Waiting)
    /\ SF_vars(StartRefresh)
    /\ SF_vars(ReadMember)
    /\ SF_vars(ReadSecrets)
    /\ SF_vars(\E ok \in BOOLEAN : ApplySnapshot(ok))

Spec == Init /\ [][Next]_vars
FairSpec == Spec /\ Fairness

-----------------------------------------------------------------------------
\* Properties.

Copies == ({vault.cache, disk} \cup
           (IF fetch # Resting /\ fetch.at = "read" THEN {fetch.snap} ELSE {}))
          \cap Snapshot

\* A write that Turso refused, or that timed out twice, never shows in the
\* copy: every row in memory, on disk or on its way from the refresh is one
\* Turso held at some time, or an update Turso accepted and that found no
\* row (execute's error returns before CacheState::edit).
OnlyAccepted ==
    \A c \in Copies, s \in Secrets : c.rows[s] \in held[s] \cup noop[s]

\* Unless its last change could not be saved, the file is the copy in
\* memory, and an unfilled copy has no file behind it: closing, crashing and
\* opening again bring nothing older back (edit, replace, discard, load).
DiskMatches ==
    vault.cache # NoCache /\ ~behind =>
        disk = IF vault.cache = Empty THEN NoFile ELSE vault.cache

\* While Reach is locked nothing of the vault can be read from memory, also
\* when a refresh that began before the lock stores its answer after it.
LockedReadsNothing == ~identity => vault.cache = NoCache /\ ~vault.dek

\* A deleted vault stays gone from memory and from disk, whatever was still
\* under way when it was deleted.
GoneStaysGone ==
    ~listed => ~vault.open /\ vault.cache = NoCache /\ disk = NoFile

\* Once the saved copy has said the owner removed this user, no unlock puts
\* the vault's key in memory until the owner invites again: the stale copy
\* is discarded and Turso is asked.
RemovalKeepsOut == [][ (~vault.dek /\ vault'.dek) => ~told ]_vars

\* A write that returned while no refresh was under way, and was saved, is
\* what the list shows for as long as nobody else writes that row: through
\* refreshes, locks, crashes and restarts.
OwnWriteKept ==
    \A s \in Secrets :
        Free /\ Filled /\ mine[s] # Unsure /\ mine[s].calm
            => vault.cache.rows[s] = mine[s].v

\* A vault that stays unlocked, whose file can be written, while Turso stays
\* as it is, ends up with a copy that is what Turso holds, and keeps it: no
\* stale refresh, torn answer or failed write stays in it (refresh_caches).
TursoNow == [member |-> member, rows |-> rows]

CatchesUp ==
    (<>[](vault.dek /\ ~behind) /\ <>[][UNCHANGED <<rows, member>>]_vars)
        => <>[](vault.cache = TursoNow)

\* The copy as SealedCopy promises it: opening, saving, locking and forgetting
\* it are steps SealedCopy allows, and no other change is made to it.
Said      == [s \in Secrets |-> held[s] \cup noop[s]]
CopyRows  == IF Filled THEN vault.cache.rows ELSE NoFile
SavedRows == IF disk = NoFile THEN NoFile ELSE disk.rows

Sealed == INSTANCE SealedCopy WITH
    None <- NoFile, said <- Said, key <- identity,
    copy <- CopyRows, saved <- SavedRows

Implements == Sealed!Spec

\* What the comments say of the copy.  A write of this device shows in it
\* until somebody else writes the row: "writes go to Turso first and then to
\* the copy".
OwnWriteSeen ==
    \A s \in Secrets :
        Free /\ Filled /\ mine[s] # Unsure
            => vault.cache.rows[s] = mine[s].v
=============================================================================
