-------------------------- MODULE VaultCacheProofs --------------------------
(***************************************************************************)
(* Theorems about VaultCache, for every set of rows, values and shares and *)
(* every number of late statements: typing, the inductive invariant CInv,  *)
(* the safety properties the runs check, and that VaultCache implements    *)
(* SealedCopy.                                                             *)
(***************************************************************************)
EXTENDS VaultCache, TLAPS

-----------------------------------------------------------------------------
\* Typing.

\* Running a well-formed statement leaves the tables well typed.
LEMMA AppliedType ==
    ASSUME NEW t \in [Secrets -> Row], NEW stmt \in Stmt
    PROVE  Applied(t, stmt) \in [Secrets -> Row]
BY CacheSentinels DEF Applied, Stmt, Row, Kinds

LEMMA TursoRunsType ==
    ASSUME TypeOK, NEW stmt \in Stmt, TursoRuns(stmt),
           stmt.kind = "share" => stmt.id \in Shares
    PROVE  /\ rows' \in [Secrets -> Row]
           /\ held' \in [Secrets -> SUBSET Row]
           /\ shares' \subseteq Shares
<1>1. Applied(rows, stmt) \in [Secrets -> Row]
  BY AppliedType DEF TypeOK
<1> QED
  BY <1>1 DEF TypeOK, TursoRuns

\* What a statement in flight, or late, may be.
WellFormed(stmt) ==
    /\ (stmt.kind = "share") <=> (stmt.id \in Shares)
    /\ stmt.kind = "delete" => stmt.v = NoRow

Statements ==
    /\ op # Idle => WellFormed(op.stmt)
    /\ \A stmt \in late : WellFormed(stmt)

Typed == TypeOK /\ Statements

LEMMA TypedInit == Init => Typed
<1> SUFFICES ASSUME Init PROVE Typed
  OBVIOUS
<1> USE CacheSentinels DEF Init
<1>1. held \in [Secrets -> SUBSET Row] /\ noop \in [Secrets -> SUBSET Row]
  OBVIOUS
<1>2. vault \in Vault
  BY DEF Closed, Vault
<1> QED
  BY <1>1, <1>2 DEF Typed, TypeOK, Statements

\* Opening leaves the vault, its file and `behind` well typed.
LEMMA UnlockKeysType ==
    ASSUME TypeOK, NEW v \in Vault, NEW answers \in BOOLEAN,
           UnlockKeys(v, answers)
    PROVE  /\ vault' \in Vault
           /\ disk' \in Snapshot \cup {NoFile}
           /\ behind' \in BOOLEAN
<1>1. ReloadedIfLost(v) \in Snapshot \cup {Empty, NoCache}
  BY DEF TypeOK, Vault, ReloadedIfLost, FromDisk
<1> QED
  BY <1>1 DEF TypeOK, Vault, UnlockKeys, AfterDiscard

LEMMA OpenAndUnlockType ==
    ASSUME TypeOK, NEW answers \in BOOLEAN, OpenAndUnlock(answers)
    PROVE  /\ vault' \in Vault
           /\ disk' \in Snapshot \cup {NoFile}
           /\ behind' \in BOOLEAN
<1>1. Closed \in Vault /\ [Closed EXCEPT !.open = TRUE] \in Vault
  BY DEF Closed, Vault
<1>2. CASE FromDisk = Empty /\ ~answers
  BY <1>1, <1>2 DEF OpenAndUnlock, TypeOK
<1>3. CASE ~(FromDisk = Empty /\ ~answers)
  BY <1>1, <1>3, UnlockKeysType DEF OpenAndUnlock
<1> QED
  BY <1>2, <1>3

LEMMA TypedNext == Typed /\ [Next]_vars => Typed'
<1> SUFFICES ASSUME Typed, [Next]_vars PROVE Typed'
  OBVIOUS
<1> USE CacheSentinels DEF Typed, TypeOK
<1>1. ASSUME Arrives PROVE Typed'
  <2>1. op \in Op /\ op.stmt \in Stmt
    BY <1>1 DEF Arrives, Op
  <2>2. /\ rows' \in [Secrets -> Row] /\ held' \in [Secrets -> SUBSET Row]
        /\ shares' \subseteq Shares
    BY <1>1, <2>1, TursoRunsType DEF Arrives, Statements, WellFormed
  <2>3. op' \in Op /\ op'.stmt = op.stmt
    BY <1>1, <2>1 DEF Arrives, Op, Answers, AnswerTo
  <2> QED
    BY <1>1, <2>2, <2>3 DEF Arrives, device, Statements
<1>2. ASSUME NEW stmt \in late, ArrivesLate(stmt) PROVE Typed'
  <2>1. /\ rows' \in [Secrets -> Row] /\ held' \in [Secrets -> SUBSET Row]
        /\ shares' \subseteq Shares
    BY <1>2, TursoRunsType DEF ArrivesLate, Statements, WellFormed
  <2>2. mine' \in [Secrets -> Mine \cup {Unsure}]
    BY <1>2 DEF ArrivesLate
  <2> QED
    BY <1>2, <2>1, <2>2 DEF ArrivesLate, device, Statements
<1>3. ASSUME NEW s \in Secrets, NEW v \in Row, Elsewhere(s, v) PROVE Typed'
  BY <1>3 DEF Elsewhere, device, Statements
<1>4. ASSUME OwnerRemovesOrInvites PROVE Typed'
  BY <1>4 DEF OwnerRemovesOrInvites, device, Statements
<1>5. ASSUME NEW answers \in BOOLEAN, UnlockApp(answers) PROVE Typed'
  <2>1. vault' \in Vault /\ disk' \in Snapshot \cup {NoFile}
        /\ behind' \in BOOLEAN
    BY <1>5, UnlockKeysType, OpenAndUnlockType DEF UnlockApp
  <2> QED
    BY <1>5, <2>1 DEF UnlockApp, turso, Statements
<1>6. ASSUME NEW answers \in BOOLEAN, OpenVault(answers) PROVE Typed'
  <2>1. FromDisk \in Snapshot \cup {Empty}
    BY DEF FromDisk
  <2>2. vault' \in Vault
    BY <1>6, <2>1 DEF OpenVault, Vault
  <2> QED
    BY <1>6, <2>2 DEF OpenVault, turso, Statements
<1>7. ASSUME NEW answers \in BOOLEAN, UnlockVault(answers) PROVE Typed'
  BY <1>7, UnlockKeysType DEF UnlockVault, turso, Statements
<1>8. ASSUME NEW answers \in BOOLEAN, AcceptAgain(answers) PROVE Typed'
  BY <1>8, OpenAndUnlockType DEF AcceptAgain, turso, Statements
<1>9a. Closed \in Vault /\ Wiped \in Vault /\ [vault EXCEPT !.dek = FALSE] \in Vault
  BY DEF Closed, Wiped, Vault
<1>9b. ASSUME LockVault \/ LockApp \/ CloseVault PROVE Typed'
  BY <1>9a, <1>9b DEF LockVault, LockApp, CloseVault, turso, history, Statements
<1>9c. ASSUME DeleteVault PROVE Typed'
  BY <1>9a, <1>9c DEF DeleteVault, turso, Statements
<1>9d. ASSUME Restart PROVE Typed'
  BY <1>9a, <1>9d DEF Restart, turso, Statements
<1>10. ASSUME NEW kind \in Kinds, NEW id \in Secrets \cup Shares, NEW v \in Row,
              Begin(kind, id, v), (kind = "share") <=> (id \in Shares),
              kind = "delete" => v = NoRow
       PROVE Typed'
  <2>1. op' \in Op /\ WellFormed(op'.stmt)
    BY <1>10 DEF Begin, Op, Stmt, Answers, WellFormed
  <2>2. mine' \in [Secrets -> Mine \cup {Unsure}]
    BY <1>10 DEF Begin
  <2> QED
    <3>1. UNCHANGED <<turso, device, fetch, held, noop, behind, told>>
      BY <1>10 DEF Begin
    <3>2. TypeOK'
      BY <2>1, <2>2, <3>1 DEF turso, device
    <3>3. Statements'
      BY <2>1, <3>1 DEF turso, Statements
    <3> QED
      BY <3>2, <3>3
<1>11. ASSUME NEW s \in Secrets, NEW v \in Values,
              CreateSecret(s, v) \/ UpdateSecret(s, v) \/ RenameSecret(s, v)
       PROVE Typed'
  BY <1>10, <1>11 DEF CreateSecret, UpdateSecret, RenameSecret, Kinds, Row
<1>12. ASSUME NEW s \in Secrets, DeleteSecret(s) PROVE Typed'
  BY <1>10, <1>12 DEF DeleteSecret, Kinds, Row
<1>13. ASSUME NEW id \in Shares, ShareItem(id) PROVE Typed'
  BY <1>10, <1>13 DEF ShareItem, Kinds, Row
<1>14. ASSUME NEW lost \in BOOLEAN, Retry(lost) PROVE Typed'
  <2>1. op \in Op
    BY <1>14 DEF Retry
  <2>2. op' \in Op /\ op'.stmt = op.stmt
    <3>1. op' = [op EXCEPT !.try = 2, !.at = "sent"]
      BY <1>14 DEF Retry
    <3>2. 2 \in 1..2 /\ "sent" \in Answers
      BY DEF Answers
    <3> QED
      BY <2>1, <3>1, <3>2 DEF Op
  <2> QED
    <3>1. UNCHANGED <<rows, member, shares, device, fetch, history>>
          /\ late' \subseteq late \cup {op.stmt}
      BY <1>14 DEF Retry, GivenUp
    <3>2. op.stmt \in Stmt /\ op' # Idle
      BY <2>1, <2>2 DEF Op
    <3>3. TypeOK'
      BY <2>2, <3>1, <3>2 DEF device, history
    <3>4. Statements'
      BY <1>14, <2>2, <3>1 DEF Statements, Retry
    <3> QED
      BY <3>3, <3>4
<1>15. ASSUME NEW lost \in BOOLEAN, Fail(lost) PROVE Typed'
  BY <1>15 DEF Fail, GivenUp, CopyAfterError, Op, Vault, history, Statements
<1>16. ASSUME NEW ok \in BOOLEAN, Return(ok) PROVE Typed'
  <2>1. op \in Op /\ op.stmt \in Stmt
    BY <1>16 DEF Return, Op
  <2>2. vault' \in Vault /\ disk' \in Snapshot \cup {NoFile}
        /\ behind' \in BOOLEAN
    <3>1. CASE Filled /\ op.stmt.kind # "share"
      <4> DEFINE new == [vault.cache EXCEPT !.rows = Edited(@, op.stmt)]
      <4>1. new \in Snapshot
        BY <2>1, <3>1, AppliedType DEF Filled, Snapshot, Edited
      <4>2. vault' = [vault EXCEPT !.cache = new] /\ Save(new, ok)
        BY <1>16, <3>1 DEF Return
      <4> QED
        BY <4>1, <4>2 DEF Save, Vault
    <3>2. CASE ~(Filled /\ op.stmt.kind # "share")
      BY <1>16, <3>2 DEF Return
    <3> QED
      BY <3>1, <3>2
  <2>3. noop' \in [Secrets -> SUBSET Row]
    BY <1>16, <2>1 DEF Return, Stmt
  <2>4. mine' \in [Secrets -> Mine \cup {Unsure}]
    <3>1. Written(op.stmt, ok) \in Mine \cup {Unsure}
      BY <2>1 DEF Written, Mine, Stmt
    <3> QED
      BY <1>16, <3>1 DEF Return
  <2> QED
    <3>1. UNCHANGED <<turso, identity, listed, fetch, held, told>> /\ op' = Idle
      BY <1>16 DEF Return
    <3>2. TypeOK'
      BY <2>2, <2>3, <2>4, <3>1 DEF turso
    <3>3. Statements'
      BY <3>1 DEF turso, Statements
    <3> QED
      BY <3>2, <3>3
<1>17. ASSUME StartRefresh \/ ReadMember \/ ReadSecrets \/ FetchFails
       PROVE Typed'
  <2>1. fetch' \in Fetch \cup {Resting}
    <3>1. StartRefresh => fetch' \in Fetch
      BY DEF StartRefresh, Blank, Fetch, Snapshot, Row
    <3>2. ReadMember => fetch' \in Fetch
      BY DEF ReadMember, Fetch, Snapshot
    <3>3. ReadSecrets => fetch' \in Fetch
      BY DEF ReadSecrets, Fetch, Snapshot
    <3> QED
      BY <1>17, <3>1, <3>2, <3>3 DEF FetchFails
  <2>2. UNCHANGED <<turso, device, op, history>>
    BY <1>17 DEF StartRefresh, ReadMember, ReadSecrets, FetchFails
  <2> QED
    <3>1. TypeOK'
      BY <2>1, <2>2 DEF turso, device, history
    <3>2. Statements'
      BY <2>2 DEF turso, Statements
    <3> QED
      BY <3>1, <3>2
<1>18. ASSUME NEW ok \in BOOLEAN, ApplySnapshot(ok) PROVE Typed'
  BY <1>18 DEF ApplySnapshot, Save, Fetch, Vault, turso, Statements
<1>19. ASSUME UNCHANGED vars PROVE Typed'
  BY <1>19 DEF vars, turso, device, history, Statements
<1> QED
  BY <1>1, <1>2, <1>3, <1>4, <1>5, <1>6, <1>7, <1>8, <1>9b, <1>9c, <1>9d, <1>11, <1>12, <1>13,
     <1>14, <1>15, <1>16, <1>17, <1>18, <1>19
     DEF Next, World, Commands, Waiting, Refresh

\* Every variable of the cache keeps its type.
THEOREM CacheTypeCorrect == Spec => []TypeOK
<1>1. Spec => []Typed
  BY TypedInit, TypedNext, PTL DEF Spec
<1> QED
  BY <1>1, PTL DEF Typed

-----------------------------------------------------------------------------
\* The vault in memory and its file.

\* A vault out of the map has neither key nor cache; a key in memory means
\* the identity is there and the copy can be refreshed; an unfilled copy has
\* nothing unsaved behind it.
Shape ==
    /\ ~vault.open => ~vault.dek /\ vault.cache = NoCache
    /\ vault.dek => identity /\ vault.cache # NoCache
    /\ vault.cache = Empty => ~behind

Kept == Shape /\ DiskMatches /\ LockedReadsNothing /\ GoneStaysGone

LEMMA KeptInit == Init => Kept
BY CacheSentinels DEF Init, Kept, Shape, DiskMatches, LockedReadsNothing,
                      GoneStaysGone, Closed

\* Opening with the identity in memory keeps all of it.
LEMMA UnlockKeysKept ==
    ASSUME TypeOK, NEW v \in Vault, NEW answers \in BOOLEAN,
           UnlockKeys(v, answers), identity', listed, v.open,
           v.cache = vault.cache \/ v.cache = NoCache,
           v.dek => v.cache # NoCache,
           Kept
    PROVE  /\ vault'.open /\ vault'.cache # NoCache
           /\ vault'.cache = Empty => ~behind'
           /\ DiskMatches'
<1>1. ReloadedIfLost(v) \in Snapshot \cup {Empty}
  BY CacheSentinels DEF TypeOK, Vault, ReloadedIfLost, FromDisk
<1>2. v.cache = NoCache =>
        disk = IF ReloadedIfLost(v) = Empty THEN NoFile ELSE ReloadedIfLost(v)
  BY CacheSentinels DEF TypeOK, ReloadedIfLost, FromDisk
<1>3. v.cache # NoCache /\ ~behind =>
        disk = IF ReloadedIfLost(v) = Empty THEN NoFile ELSE ReloadedIfLost(v)
  BY DEF ReloadedIfLost, Kept, DiskMatches
<1>4. v.cache # NoCache /\ ReloadedIfLost(v) = Empty => ~behind
  BY DEF ReloadedIfLost, Kept, Shape
<1> DEFINE c == ReloadedIfLost(v)
<1>5. /\ c \in Snapshot \cup {Empty}
      /\ ~behind \/ v.cache = NoCache => disk = IF c = Empty THEN NoFile ELSE c
      /\ c = Empty => ~(behind /\ v.cache # NoCache)
      /\ c # NoCache
  BY <1>1, <1>2, <1>3, <1>4, CacheSentinels
<1>6. \/ /\ vault' = [v EXCEPT !.cache = c] /\ UNCHANGED disk
         /\ behind' = (behind /\ v.cache # NoCache)
      \/ /\ vault' = [v EXCEPT !.cache = c, !.dek = TRUE] /\ UNCHANGED disk
         /\ behind' = (behind /\ v.cache # NoCache)
      \/ /\ vault' = [v EXCEPT !.cache = Empty, !.dek = answers /\ member]
         /\ disk' = AfterDiscard(c)
         /\ behind' = (behind /\ c = Empty /\ v.cache # NoCache)
  BY DEF UnlockKeys
<1> HIDE DEF c
<1>7. CASE /\ vault'.open /\ vault'.cache = c /\ UNCHANGED disk
           /\ behind' = (behind /\ v.cache # NoCache)
  BY <1>5, <1>7 DEF DiskMatches
<1>8. CASE /\ vault'.open /\ vault'.cache = Empty /\ disk' = AfterDiscard(c)
           /\ behind' = (behind /\ c = Empty /\ v.cache # NoCache)
  BY <1>5, <1>8, CacheSentinels DEF DiskMatches, AfterDiscard
<1> QED
  BY <1>6, <1>7, <1>8 DEF Vault

LEMMA OpenAndUnlockKept ==
    ASSUME TypeOK, NEW answers \in BOOLEAN, OpenAndUnlock(answers), identity',
           listed, Kept
    PROVE  \/ /\ vault' = Closed /\ UNCHANGED <<disk, behind>>
           \/ /\ vault'.open /\ vault'.cache # NoCache
              /\ vault'.cache = Empty => ~behind'
              /\ DiskMatches'
<1> DEFINE v == [Closed EXCEPT !.open = TRUE]
<1>1. v \in Vault /\ v.open /\ v.cache = NoCache /\ ~v.dek
  BY DEF Closed, Vault
<1> HIDE DEF v
<1>2. CASE FromDisk = Empty /\ ~answers
  BY <1>2 DEF OpenAndUnlock
<1>3. CASE ~(FromDisk = Empty /\ ~answers)
  <2>1. UnlockKeys(v, answers)
    BY <1>3 DEF OpenAndUnlock, v
  <2> QED
    BY <1>1, <2>1, UnlockKeysKept
<1> QED
  BY <1>2, <1>3

\* The copy with its rows edited is no sentinel.
LEMMA EditedIsSnapshot ==
    ASSUME TypeOK, op # Idle, Filled
    PROVE  /\ [vault.cache EXCEPT !.rows = Edited(@, op.stmt)] \in Snapshot
           /\ [vault.cache EXCEPT !.rows = Edited(@, op.stmt)].member
                 = vault.cache.member
<1>1. op.stmt \in Stmt
  BY DEF TypeOK, Op
<1> QED
  BY <1>1, AppliedType DEF Filled, Snapshot, Edited

LEMMA KeptNext == Typed /\ Kept /\ [Next]_vars => Kept'
<1> SUFFICES ASSUME Typed, Kept, [Next]_vars PROVE Kept'
  OBVIOUS
<1>t. TypeOK
  BY DEF Typed
<1>0. ASSUME UNCHANGED <<identity, listed, vault, disk, behind>> PROVE Kept'
  BY <1>0 DEF Kept, Shape, DiskMatches, LockedReadsNothing, GoneStaysGone,
              Closed
<1>1. ASSUME Arrives \/ (\E stmt \in late : ArrivesLate(stmt))
             \/ (\E s \in Secrets, v \in Row : Elsewhere(s, v))
             \/ OwnerRemovesOrInvites
      PROVE Kept'
  BY <1>0, <1>1 DEF Arrives, ArrivesLate, Elsewhere, OwnerRemovesOrInvites,
                    device
\* What is left to show after a vault has been opened or left closed.
<1>2. ASSUME listed, listed', identity',
             \/ /\ vault' = Closed /\ UNCHANGED <<disk, behind>>
             \/ /\ vault'.open /\ vault'.cache # NoCache
                /\ vault'.cache = Empty => ~behind'
                /\ DiskMatches'
      PROVE Kept'
  BY <1>2, CacheSentinels DEF Kept, Shape, DiskMatches, LockedReadsNothing,
                              GoneStaysGone, Closed
<1>3. ASSUME NEW answers \in BOOLEAN, UnlockApp(answers) PROVE Kept'
  <2>1. CASE vault.open
    <3>1. listed
      BY <2>1 DEF Kept, GoneStaysGone, Closed
    <3>2. vault \in Vault /\ (vault.dek => vault.cache # NoCache)
      BY <1>t DEF TypeOK, Kept, Shape
    <3>3. UnlockKeys(vault, answers) /\ identity' /\ listed'
      BY <1>3, <2>1, <3>1 DEF UnlockApp
    <3>4. /\ vault'.open /\ vault'.cache # NoCache
          /\ vault'.cache = Empty => ~behind'
          /\ DiskMatches'
      BY <1>t, <2>1, <3>1, <3>2, <3>3, UnlockKeysKept
    <3> QED
      BY <1>2, <3>1, <3>3, <3>4
  <2>2. CASE ~vault.open /\ listed
    <3>1. OpenAndUnlock(answers) /\ identity' /\ listed'
      BY <1>3, <2>2 DEF UnlockApp
    <3> QED
      BY <1>t, <1>2, <2>2, <3>1, OpenAndUnlockKept
  <2>3. CASE ~vault.open /\ ~listed
    BY <1>3, <2>3, CacheSentinels
       DEF UnlockApp, Kept, Shape, DiskMatches, LockedReadsNothing,
           GoneStaysGone, Closed
  <2> QED
    BY <2>1, <2>2, <2>3
<1>4. ASSUME NEW answers \in BOOLEAN, OpenVault(answers) PROVE Kept'
  <2>1. disk \in Snapshot \cup {NoFile}
    BY <1>t DEF TypeOK
  <2> QED
    BY <1>4, <2>1, CacheSentinels
       DEF OpenVault, FromDisk, Kept, Shape, DiskMatches, LockedReadsNothing,
           GoneStaysGone, Closed
<1>5. ASSUME NEW answers \in BOOLEAN, UnlockVault(answers) PROVE Kept'
  <2>1. listed /\ vault.open
    BY <1>5 DEF UnlockVault, Kept, GoneStaysGone, Closed
  <2>2. vault \in Vault /\ (vault.dek => vault.cache # NoCache)
    BY <1>t DEF TypeOK, Kept, Shape
  <2>3. UnlockKeys(vault, answers) /\ identity' /\ listed'
    BY <1>5, <2>1 DEF UnlockVault
  <2>4. /\ vault'.open /\ vault'.cache # NoCache
        /\ vault'.cache = Empty => ~behind'
        /\ DiskMatches'
    BY <1>t, <2>1, <2>2, <2>3, UnlockKeysKept
  <2> QED
    BY <1>2, <2>1, <2>3, <2>4
<1>6. ASSUME NEW answers \in BOOLEAN, AcceptAgain(answers) PROVE Kept'
  BY <1>t, <1>2, <1>6, OpenAndUnlockKept DEF AcceptAgain
<1>7. ASSUME LockVault PROVE Kept'
  <2>1. /\ vault' = [vault EXCEPT !.dek = FALSE]
        /\ vault'.open = vault.open /\ vault'.cache = vault.cache /\ ~vault'.dek
        /\ UNCHANGED <<identity, listed, disk, behind>>
    BY <1>7, <1>t DEF LockVault, history, TypeOK, Vault
  <2> QED
    BY <2>1 DEF Kept, Shape, DiskMatches, LockedReadsNothing, GoneStaysGone
<1>8. ASSUME LockApp PROVE Kept'
  <2>1. /\ vault' = [vault EXCEPT !.dek = FALSE, !.cache = NoCache]
        /\ vault'.open = vault.open /\ vault'.cache = NoCache /\ ~vault'.dek
        /\ ~identity' /\ UNCHANGED <<listed, disk, behind>>
    BY <1>8, <1>t DEF LockApp, Wiped, history, TypeOK, Vault
  <2> QED
    BY <2>1, CacheSentinels
       DEF Kept, Shape, DiskMatches, LockedReadsNothing, GoneStaysGone
<1>9. ASSUME CloseVault PROVE Kept'
  BY <1>9, CacheSentinels
     DEF CloseVault, history, Kept, Shape, DiskMatches, LockedReadsNothing,
         GoneStaysGone, Closed
<1>10. ASSUME DeleteVault \/ Restart PROVE Kept'
  <2>1. vault' = Closed /\ ~behind' /\ (disk' = NoFile \/ (disk' = disk /\ listed' = listed))
    BY <1>10 DEF DeleteVault, Restart
  <2> QED
    BY <2>1, CacheSentinels
       DEF Kept, Shape, DiskMatches, LockedReadsNothing, GoneStaysGone, Closed
<1>11. ASSUME NEW kind, NEW id, NEW v, Begin(kind, id, v) PROVE Kept'
  BY <1>0, <1>11 DEF Begin, device
<1>12. ASSUME \/ \E s \in Secrets, v \in Values :
                    CreateSecret(s, v) \/ UpdateSecret(s, v) \/ RenameSecret(s, v)
              \/ \E s \in Secrets : DeleteSecret(s)
              \/ \E id \in Shares : ShareItem(id)
       PROVE Kept'
  BY <1>11, <1>12 DEF CreateSecret, UpdateSecret, RenameSecret, DeleteSecret,
                      ShareItem
<1>13. ASSUME NEW lost \in BOOLEAN, Retry(lost) PROVE Kept'
  BY <1>0, <1>13 DEF Retry, device, history
<1>14. ASSUME NEW lost \in BOOLEAN, Fail(lost) PROVE Kept'
  <2>1. vault' = vault
    BY <1>14, <1>t DEF Fail, CopyAfterError, TypeOK, Vault
  <2> QED
    BY <1>0, <1>14, <2>1 DEF Fail, history
<1>15. ASSUME NEW ok \in BOOLEAN, NEW snap \in Snapshot,
              vault.cache # NoCache, vault' = [vault EXCEPT !.cache = snap],
              Save(snap, ok), UNCHANGED <<identity, listed>>
       PROVE Kept'
  BY <1>15, <1>t, CacheSentinels
     DEF Save, TypeOK, Vault, Kept, Shape, DiskMatches, LockedReadsNothing,
         GoneStaysGone, Closed
<1>16. ASSUME NEW ok \in BOOLEAN, Return(ok) PROVE Kept'
  <2>1. CASE Filled /\ op.stmt.kind # "share"
    <3>1. [vault.cache EXCEPT !.rows = Edited(@, op.stmt)] \in Snapshot
      BY <1>t, <1>16, <2>1, EditedIsSnapshot DEF Return
    <3>2. vault.cache # NoCache
      BY <2>1, CacheSentinels DEF Filled
    <3> QED
      BY <1>15, <1>16, <2>1, <3>1, <3>2 DEF Return
  <2>2. CASE ~(Filled /\ op.stmt.kind # "share")
    BY <1>0, <1>16, <2>2 DEF Return
  <2> QED
    BY <2>1, <2>2
<1>17. ASSUME StartRefresh \/ ReadMember \/ ReadSecrets \/ FetchFails
       PROVE Kept'
  BY <1>0, <1>17 DEF StartRefresh, ReadMember, ReadSecrets, FetchFails, device,
                     history
<1>18. ASSUME NEW ok \in BOOLEAN, ApplySnapshot(ok) PROVE Kept'
  <2>1. fetch.snap \in Snapshot
    BY <1>18, <1>t DEF ApplySnapshot, TypeOK, Fetch
  <2>2. CASE Wanted(fetch.snap)
    BY <1>15, <1>18, <2>1, <2>2 DEF ApplySnapshot, Wanted
  <2>3. CASE ~Wanted(fetch.snap)
    BY <1>0, <1>18, <2>3 DEF ApplySnapshot
  <2> QED
    BY <2>2, <2>3
<1>19. ASSUME UNCHANGED vars PROVE Kept'
  BY <1>0, <1>19 DEF vars, device, history
<1> HIDE DEF Kept
<1> QED
  BY <1>1, <1>3, <1>4, <1>5, <1>6, <1>7, <1>8, <1>9, <1>10, <1>12, <1>13, <1>14,
     <1>16, <1>17, <1>18, <1>19 DEF Next, World, Commands, Waiting, Refresh

-----------------------------------------------------------------------------
\* Where the rows of the copy come from.

RowsSaid == \A s \in Secrets : rows[s] \in held[s]

\* A statement Turso has answered is one it has taken up, if it changes rows.
AnswerSaid ==
    op # Idle /\ op.stmt.kind # "share" =>
        /\ op.at = "done" => op.stmt.v \in held[op.stmt.id]
        /\ op.at = "nothing" => op.stmt.kind = "update"

Source == RowsSaid /\ AnswerSaid /\ OnlyAccepted

LEMMA SourceInit == Init => Source
BY CacheSentinels DEF Init, Source, RowsSaid, AnswerSaid, OnlyAccepted, Copies,
                      Closed

\* What Turso has held or acknowledged is never taken back.
LEMMA SaidGrows ==
    ASSUME TypeOK, [Next]_vars
    PROVE  \A s \in Secrets : held[s] \subseteq held'[s] /\ noop[s] \subseteq noop'[s]
<1> USE DEF TypeOK
<1>0. ASSUME UNCHANGED <<held, noop>>
      PROVE \A s \in Secrets : held[s] \subseteq held'[s] /\ noop[s] \subseteq noop'[s]
  BY <1>0
<1>1. ASSUME NEW stmt, TursoRuns(stmt), UNCHANGED noop
      PROVE \A s \in Secrets : held[s] \subseteq held'[s] /\ noop[s] \subseteq noop'[s]
  BY <1>1 DEF TursoRuns
<1>2. ASSUME World
      PROVE \A s \in Secrets : held[s] \subseteq held'[s] /\ noop[s] \subseteq noop'[s]
  BY <1>0, <1>1, <1>2 DEF World, Arrives, ArrivesLate, Elsewhere,
                          OwnerRemovesOrInvites
<1>3. ASSUME Commands PROVE UNCHANGED <<held, noop>>
  BY <1>3 DEF Commands, UnlockApp, OpenVault, UnlockVault, AcceptAgain, LockVault,
              LockApp, CloseVault, DeleteVault, CreateSecret, UpdateSecret,
              RenameSecret, DeleteSecret, ShareItem, Begin, history
<1>4. ASSUME Waiting
      PROVE \A s \in Secrets : held[s] \subseteq held'[s] /\ noop[s] \subseteq noop'[s]
  <2>1. ASSUME NEW lost \in BOOLEAN, Retry(lost) \/ Fail(lost)
        PROVE UNCHANGED <<held, noop>>
    BY <2>1 DEF Retry, Fail, history
  <2>2. ASSUME NEW ok \in BOOLEAN, Return(ok)
        PROVE \A s \in Secrets : held[s] \subseteq held'[s] /\ noop[s] \subseteq noop'[s]
    BY <2>2 DEF Return
  <2> QED
    BY <1>0, <1>4, <2>1, <2>2 DEF Waiting
<1>5. ASSUME Refresh \/ Restart \/ UNCHANGED vars PROVE UNCHANGED <<held, noop>>
  BY <1>5 DEF Refresh, StartRefresh, ReadMember, ReadSecrets, FetchFails,
              ApplySnapshot, Restart, vars, history
<1> QED
  BY <1>0, <1>2, <1>3, <1>4, <1>5 DEF Next

\* The rows of a copy with an answered statement's change are all said.
LEMMA EditedSaid ==
    ASSUME Typed, Source, NEW ok \in BOOLEAN, Return(ok), Filled,
           op.stmt.kind # "share", NEW s \in Secrets
    PROVE  Edited(vault.cache.rows, op.stmt)[s] \in held'[s] \cup noop'[s]
<1>1. vault.cache \in Copies /\ vault.cache.rows \in [Secrets -> Row]
  BY DEF Copies, Filled, Snapshot
<1>2. vault.cache.rows[s] \in held[s] \cup noop[s]
  BY <1>1 DEF Source, OnlyAccepted
<1>3. op.stmt \in Stmt /\ WellFormed(op.stmt) /\ op.stmt.id \in Secrets
  BY CacheSentinels
     DEF Return, Typed, TypeOK, Op, Statements, WellFormed, Stmt
<1>4. held' = held /\ noop' = IF op.at = "nothing"
               THEN [noop EXCEPT ![op.stmt.id] = @ \cup {op.stmt.v}] ELSE noop
  BY DEF Return
<1>5. op.stmt.v \in held'[op.stmt.id] \cup noop'[op.stmt.id]
  <2>1. CASE op.at = "done"
    BY <1>4, <2>1 DEF Return, Source, AnswerSaid
  <2>2. CASE op.at = "nothing"
    BY <1>3, <1>4, <2>2 DEF Typed, TypeOK
  <2> QED
    BY <2>1, <2>2 DEF Return
<1>6. vault.cache.rows[s] \in held'[s] \cup noop'[s]
  BY <1>2, <1>4 DEF Typed, TypeOK
<1>7. \/ Edited(vault.cache.rows, op.stmt) = vault.cache.rows
      \/ Edited(vault.cache.rows, op.stmt)
            = [vault.cache.rows EXCEPT ![op.stmt.id] = op.stmt.v]
  BY <1>3 DEF Edited, Applied, WellFormed
<1> QED
  BY <1>1, <1>3, <1>5, <1>6, <1>7

\* The commands that open, and those that end with less in memory.
Opens(answers) == UnlockApp(answers) \/ UnlockVault(answers)
                  \/ AcceptAgain(answers) \/ OpenVault(answers)
Closes == LockVault \/ LockApp \/ CloseVault \/ DeleteVault \/ Restart

\* Opening takes a copy up from the file or keeps the one in memory.
LEMMA UnlockKeysCopies ==
    ASSUME TypeOK, NEW v \in Vault, NEW answers \in BOOLEAN,
           UnlockKeys(v, answers), fetch' = fetch,
           v.cache = vault.cache \/ v.cache = NoCache
    PROVE  Copies' \subseteq Copies
BY CacheSentinels
   DEF UnlockKeys, ReloadedIfLost, FromDisk, AfterDiscard, Copies, Vault, TypeOK

LEMMA OpenAndUnlockCopies ==
    ASSUME TypeOK, NEW answers \in BOOLEAN, OpenAndUnlock(answers),
           fetch' = fetch
    PROVE  Copies' \subseteq Copies
<1> DEFINE v == [Closed EXCEPT !.open = TRUE]
<1>1. v \in Vault /\ v.cache = NoCache
  BY DEF Closed, Vault
<1>2. CASE FromDisk = Empty /\ ~answers
  BY <1>2, CacheSentinels DEF OpenAndUnlock, Closed, Copies
<1> HIDE DEF v
<1>3. CASE ~(FromDisk = Empty /\ ~answers)
  <2>1. UnlockKeys(v, answers)
    BY <1>3 DEF OpenAndUnlock, v
  <2> QED
    BY <1>1, <2>1, UnlockKeysCopies
<1> QED
  BY <1>2, <1>3

LEMMA OpeningCopies ==
    ASSUME TypeOK, NEW answers \in BOOLEAN, Opens(answers)
    PROVE  Copies' \subseteq Copies
<1>1. fetch' = fetch
  BY DEF Opens, UnlockApp, UnlockVault, AcceptAgain, OpenVault
<1>2. CASE UnlockVault(answers) \/ (UnlockApp(answers) /\ vault.open)
  BY <1>1, <1>2, UnlockKeysCopies DEF UnlockVault, UnlockApp, TypeOK
<1>3. CASE AcceptAgain(answers) \/ (UnlockApp(answers) /\ ~vault.open)
  BY <1>1, <1>3, OpenAndUnlockCopies DEF AcceptAgain, UnlockApp, Copies
<1>4. CASE OpenVault(answers)
  BY <1>1, <1>4, CacheSentinels DEF OpenVault, FromDisk, Copies
<1> QED
  BY <1>2, <1>3, <1>4 DEF Opens

LEMMA ClosingCopies ==
    ASSUME TypeOK, Closes
    PROVE  Copies' \subseteq Copies
BY CacheSentinels
   DEF Closes, LockVault, LockApp, CloseVault, DeleteVault, Restart, Wiped,
       Closed, Copies, TypeOK, Vault

LEMMA SourceNext == Typed /\ Source /\ [Next]_vars => Source'
<1> SUFFICES ASSUME Typed, Source, [Next]_vars PROVE Source'
  OBVIOUS
<1>t. TypeOK
  BY DEF Typed
<1>g. \A s \in Secrets : held[s] \subseteq held'[s] /\ noop[s] \subseteq noop'[s]
  BY <1>t, SaidGrows
\* A step that brings no new copy leaves every copy accepted.
<1>c. ASSUME Copies' \subseteq Copies PROVE OnlyAccepted'
  BY <1>c, <1>g DEF Source, OnlyAccepted
<1>o. ASSUME op' = op \/ op' = Idle PROVE AnswerSaid'
  <2>1. CASE op' = Idle
    BY <2>1 DEF AnswerSaid
  <2>2. CASE op' = op /\ op # Idle /\ op.stmt.kind # "share"
    <3>1. op.stmt.id \in Secrets
      BY <1>t, <2>2 DEF Typed, TypeOK, Op, Stmt, Statements, WellFormed
    <3> QED
      BY <1>g, <2>2, <3>1 DEF Source, AnswerSaid
  <2>3. CASE op' = op /\ (op = Idle \/ op.stmt.kind = "share")
    BY <2>3 DEF AnswerSaid
  <2> QED
    BY <1>o, <2>1, <2>2, <2>3
<1>r. ASSUME rows' = rows PROVE RowsSaid'
  BY <1>g, <1>r DEF Source, RowsSaid
<1>a. ASSUME NEW stmt \in Stmt, TursoRuns(stmt) PROVE RowsSaid'
  BY <1>a DEF TursoRuns, RowsSaid
<1>1. ASSUME Arrives PROVE Source'
  <2>1. op \in Op /\ op.stmt \in Stmt /\ op # Idle
    BY <1>1, <1>t DEF Arrives, TypeOK, Op
  <2>2. RowsSaid'
    BY <1>1, <1>a, <2>1 DEF Arrives
  <2>3. Copies' \subseteq Copies
    BY <1>1 DEF Arrives, device, Copies
  <2>4. AnswerSaid'
    <3>1. op'.stmt = op.stmt /\ op'.at = AnswerTo(op.stmt)
      BY <1>1, <2>1 DEF Arrives, Op
    <3>2. ASSUME op.stmt.kind # "share"
          PROVE /\ AnswerTo(op.stmt) = "done" =>
                      op.stmt.v \in held'[op.stmt.id]
                /\ AnswerTo(op.stmt) = "nothing" => op.stmt.kind = "update"
      <4>1. op.stmt.id \in Secrets /\ WellFormed(op.stmt)
        BY <2>1, <3>2 DEF Typed, Statements, WellFormed, Stmt
      <4>2. /\ held'[op.stmt.id] = held[op.stmt.id]
                   \cup {Applied(rows, op.stmt)[op.stmt.id]}
        BY <1>1, <4>1 DEF Arrives, TursoRuns
      <4>3. AnswerTo(op.stmt) = "done" =>
               Applied(rows, op.stmt)[op.stmt.id] = op.stmt.v
        BY <1>t, <2>1, <3>2, <4>1
           DEF AnswerTo, Applied, TypeOK, Stmt, Kinds, WellFormed
      <4>4. AnswerTo(op.stmt) = "nothing" => op.stmt.kind = "update"
        BY DEF AnswerTo
      <4> QED
        BY <4>2, <4>3, <4>4
    <3> QED
      BY <3>1, <3>2 DEF AnswerSaid
  <2> QED
    BY <1>c, <2>2, <2>3, <2>4 DEF Source
<1>2. ASSUME NEW stmt \in late, ArrivesLate(stmt) PROVE Source'
  <2>1. RowsSaid'
    BY <1>2, <1>a, <1>t DEF ArrivesLate, TypeOK
  <2>2. Copies' \subseteq Copies /\ op' = op
    BY <1>2 DEF ArrivesLate, device, Copies
  <2> QED
    BY <1>c, <1>o, <2>1, <2>2 DEF Source
<1>3. ASSUME NEW s \in Secrets, NEW v \in Row, Elsewhere(s, v) PROVE Source'
  <2>1. RowsSaid'
    BY <1>3, <1>t DEF Elsewhere, TypeOK, Source, RowsSaid
  <2>2. Copies' \subseteq Copies /\ op' = op
    BY <1>3 DEF Elsewhere, device, Copies
  <2> QED
    BY <1>c, <1>o, <2>1, <2>2 DEF Source
<1>4. ASSUME OwnerRemovesOrInvites PROVE Source'
  <2>1. Copies' \subseteq Copies /\ op' = op /\ rows' = rows
    BY <1>4 DEF OwnerRemovesOrInvites, device, Copies
  <2> QED
    BY <1>c, <1>o, <1>r, <2>1 DEF Source
<1>7. ASSUME NEW answers \in BOOLEAN, Opens(answers) PROVE Source'
  <2>1. op' = op /\ rows' = rows
    BY <1>7 DEF Opens, UnlockApp, UnlockVault, AcceptAgain, OpenVault, turso
  <2> QED
    BY <1>7, <1>c, <1>o, <1>r, <1>t, <2>1, OpeningCopies DEF Source
<1>8. ASSUME Closes PROVE Source'
  <2>1. rows' = rows /\ (op' = op \/ op' = Idle)
    BY <1>8 DEF Closes, LockVault, LockApp, CloseVault, DeleteVault, Restart,
                turso
  <2> QED
    BY <1>8, <1>c, <1>o, <1>r, <1>t, <2>1, ClosingCopies DEF Source
<1>9. ASSUME NEW kind, NEW id, NEW v, Begin(kind, id, v) PROVE Source'
  <2>1. rows' = rows /\ Copies' \subseteq Copies
    BY <1>9 DEF Begin, turso, device, Copies
  <2>2. AnswerSaid'
    BY <1>9 DEF Begin, AnswerSaid
  <2> QED
    BY <1>c, <1>r, <2>1, <2>2 DEF Source
<1>10. ASSUME \/ \E s \in Secrets, v \in Values :
                    CreateSecret(s, v) \/ UpdateSecret(s, v) \/ RenameSecret(s, v)
              \/ \E s \in Secrets : DeleteSecret(s)
              \/ \E id \in Shares : ShareItem(id)
       PROVE Source'
  BY <1>9, <1>10 DEF CreateSecret, UpdateSecret, RenameSecret, DeleteSecret,
                     ShareItem
<1>11. ASSUME NEW lost \in BOOLEAN, Retry(lost) PROVE Source'
  <2>1. rows' = rows /\ Copies' \subseteq Copies
    BY <1>11 DEF Retry, device, Copies
  <2>2. op \in Op /\ op' = [op EXCEPT !.try = 2, !.at = "sent"]
    BY <1>11, <1>t DEF Retry, TypeOK
  <2>3. AnswerSaid'
    BY <2>2 DEF AnswerSaid, Op
  <2> QED
    BY <1>c, <1>r, <2>1, <2>3 DEF Source
<1>12. ASSUME NEW lost \in BOOLEAN, Fail(lost) PROVE Source'
  <2>1. rows' = rows /\ op' = Idle /\ Copies' \subseteq Copies
    BY <1>12, <1>t DEF Fail, CopyAfterError, Copies, TypeOK, Vault
  <2> QED
    BY <1>c, <1>o, <1>r, <2>1 DEF Source
<1>13. ASSUME NEW ok \in BOOLEAN, Return(ok) PROVE Source'
  <2>1. rows' = rows /\ op' = Idle /\ fetch' = fetch
    BY <1>13 DEF Return, turso
  <2>2. CASE Filled /\ op.stmt.kind # "share"
    <3> DEFINE new == [vault.cache EXCEPT !.rows = Edited(@, op.stmt)]
    <3>1. vault' = [vault EXCEPT !.cache = new] /\ Save(new, ok)
      BY <1>13, <2>2 DEF Return
    <3>2. new.rows = Edited(vault.cache.rows, op.stmt)
      BY <2>2 DEF Filled, Snapshot
    <3> HIDE DEF new
    <3>3. Copies' \subseteq Copies \cup {new}
      BY <1>t, <2>1, <3>1 DEF Copies, Save, TypeOK, Vault
    <3>4. \A s \in Secrets : new.rows[s] \in held'[s] \cup noop'[s]
      BY <1>13, <2>2, <3>2, EditedSaid
    <3>5. OnlyAccepted'
      BY <1>g, <3>3, <3>4 DEF Source, OnlyAccepted
    <3> QED
      BY <1>o, <1>r, <2>1, <3>5 DEF Source
  <2>3. CASE ~(Filled /\ op.stmt.kind # "share")
    <3>1. Copies' \subseteq Copies
      BY <1>13, <2>1, <2>3 DEF Return, Copies
    <3> QED
      BY <1>c, <1>o, <1>r, <2>1, <3>1 DEF Source
  <2> QED
    BY <2>2, <2>3
<1>14. ASSUME StartRefresh \/ ReadMember \/ FetchFails PROVE Source'
  <2>1. rows' = rows /\ op' = op
    BY <1>14 DEF StartRefresh, ReadMember, FetchFails, turso
  <2>2. Copies' \subseteq Copies
    BY <1>14 DEF StartRefresh, ReadMember, FetchFails, device, Copies
  <2> QED
    BY <1>c, <1>o, <1>r, <2>1, <2>2 DEF Source
<1>15. ASSUME ReadSecrets PROVE Source'
  <2>1. rows' = rows /\ op' = op /\ UNCHANGED <<held, noop, vault, disk>>
    BY <1>15 DEF ReadSecrets, turso, device, history
  <2>2. fetch'.snap.rows = rows
    BY <1>15, <1>t DEF ReadSecrets, TypeOK, Fetch, Snapshot
  <2>3. Copies' \subseteq Copies \cup {fetch'.snap}
    BY <2>1 DEF Copies
  <2>4. OnlyAccepted'
    BY <2>1, <2>2, <2>3 DEF Source, OnlyAccepted, RowsSaid
  <2> QED
    BY <1>o, <1>r, <2>1, <2>4 DEF Source
<1>16. ASSUME NEW ok \in BOOLEAN, ApplySnapshot(ok) PROVE Source'
  <2>1. rows' = rows /\ op' = op
    BY <1>16 DEF ApplySnapshot, turso
  <2>2. fetch \in Fetch /\ fetch.snap \in Copies
    BY <1>16, <1>t DEF ApplySnapshot, TypeOK, Copies, Fetch
  <2>3. Copies' \subseteq Copies
    BY <1>16, <1>t, <2>2 DEF ApplySnapshot, Save, Copies, TypeOK, Vault
  <2> QED
    BY <1>c, <1>o, <1>r, <2>1, <2>3 DEF Source
<1>17. ASSUME UNCHANGED vars PROVE Source'
  <2>1. rows' = rows /\ op' = op /\ Copies' \subseteq Copies
    BY <1>17 DEF vars, turso, device, Copies
  <2> QED
    BY <1>c, <1>o, <1>r, <2>1 DEF Source
<1> HIDE DEF Source
<1> QED
  BY <1>1, <1>2, <1>3, <1>4, <1>7, <1>8, <1>10, <1>11, <1>12, <1>13, <1>14,
     <1>15, <1>16, <1>17 DEF Opens, Closes, Next, World, Commands, Waiting, Refresh
-----------------------------------------------------------------------------
\* What is known here of a removal.

\* Once told, every copy that could open the vault says so as well.
ToldHome ==
    told => /\ ~member
            /\ vault.cache \in Snapshot => ~vault.cache.member
            /\ disk \in Snapshot => ~disk.member
            /\ fetch # Resting /\ fetch.at # "asked" => ~fetch.snap.member

LEMMA ToldInit == Init => ToldHome
BY DEF Init, ToldHome

\* Opening moves a copy between memory and disk; it makes none.
LEMMA UnlockKeysTold ==
    ASSUME TypeOK, NEW v \in Vault, NEW answers \in BOOLEAN,
           UnlockKeys(v, answers), v.cache = vault.cache \/ v.cache = NoCache,
           ToldHome, told
    PROVE  /\ vault'.cache \in Snapshot => ~vault'.cache.member
           /\ disk' \in Snapshot => ~disk'.member
           /\ ~v.dek => ~vault'.dek
<1>1. ReloadedIfLost(v) \in Snapshot => ~ReloadedIfLost(v).member
  BY CacheSentinels DEF ReloadedIfLost, FromDisk, ToldHome, TypeOK
<1>2. disk' \in {disk, NoFile}
  BY DEF UnlockKeys, AfterDiscard
<1>3. vault'.cache \in {ReloadedIfLost(v), Empty} /\ (~v.dek => ~vault'.dek)
  BY <1>1 DEF UnlockKeys, Vault, ToldHome
<1> QED
  BY <1>1, <1>2, <1>3, CacheSentinels DEF ToldHome

LEMMA OpenAndUnlockTold ==
    ASSUME TypeOK, NEW answers \in BOOLEAN, OpenAndUnlock(answers),
           ToldHome, told
    PROVE  /\ vault'.cache \in Snapshot => ~vault'.cache.member
           /\ disk' \in Snapshot => ~disk'.member
           /\ ~vault'.dek
<1> DEFINE v == [Closed EXCEPT !.open = TRUE]
<1>1. v \in Vault /\ v.cache = NoCache /\ ~v.dek
  BY DEF Closed, Vault
<1> HIDE DEF v
<1>2. CASE FromDisk = Empty /\ ~answers
  BY <1>2, CacheSentinels DEF OpenAndUnlock, Closed, ToldHome
<1>3. CASE ~(FromDisk = Empty /\ ~answers)
  <2>1. UnlockKeys(v, answers)
    BY <1>3 DEF OpenAndUnlock, v
  <2> QED
    BY <1>1, <2>1, UnlockKeysTold
<1> QED
  BY <1>2, <1>3

\* The commands that open: none brings the key back to a removed member.
LEMMA OpeningTold ==
    ASSUME TypeOK, ToldHome, told, NEW answers \in BOOLEAN,
           \/ UnlockApp(answers) \/ OpenVault(answers)
           \/ UnlockVault(answers) \/ AcceptAgain(answers)
    PROVE  ToldHome' /\ (~vault.dek => ~vault'.dek)
<1>1. UNCHANGED <<turso, fetch, told>>
  BY DEF UnlockApp, OpenVault, UnlockVault, AcceptAgain
<1>2. /\ vault'.cache \in Snapshot => ~vault'.cache.member
      /\ disk' \in Snapshot => ~disk'.member
      /\ ~vault.dek => ~vault'.dek
  <2>1. CASE UnlockVault(answers) \/ (UnlockApp(answers) /\ vault.open)
    BY <2>1, UnlockKeysTold DEF UnlockVault, UnlockApp, TypeOK
  <2>2. CASE AcceptAgain(answers) \/ (UnlockApp(answers) /\ ~vault.open /\ listed)
    BY <2>2, OpenAndUnlockTold DEF AcceptAgain, UnlockApp
  <2>3. CASE UnlockApp(answers) /\ ~vault.open /\ ~listed
    BY <2>3 DEF UnlockApp, ToldHome
  <2>4. CASE OpenVault(answers)
    BY <2>4, CacheSentinels DEF OpenVault, FromDisk, ToldHome
  <2> QED
    BY <2>1, <2>2, <2>3, <2>4
<1> QED
  BY <1>1, <1>2 DEF ToldHome, turso

LEMMA ToldNext ==
    Typed /\ Kept /\ ToldHome /\ [Next]_vars =>
        ToldHome' /\ ((~vault.dek /\ vault'.dek) => ~told)
<1> SUFFICES ASSUME Typed, Kept, ToldHome, [Next]_vars
             PROVE  ToldHome' /\ ((~vault.dek /\ vault'.dek) => ~told)
  OBVIOUS
<1>t. TypeOK
  BY DEF Typed
<1> DEFINE Goal == ToldHome' /\ ((~vault.dek /\ vault'.dek) => ~told)
<1>0. ASSUME UNCHANGED <<member, vault, disk, fetch, told>> PROVE Goal
  BY <1>0 DEF ToldHome
<1>1. ASSUME Arrives \/ (\E stmt \in late : ArrivesLate(stmt))
             \/ (\E s \in Secrets, v \in Row : Elsewhere(s, v))
      PROVE Goal
  BY <1>0, <1>1 DEF Arrives, ArrivesLate, Elsewhere, device
<1>2. ASSUME OwnerRemovesOrInvites PROVE Goal
  BY <1>2 DEF OwnerRemovesOrInvites, ToldHome, device
<1>3. ASSUME NEW answers \in BOOLEAN,
             \/ UnlockApp(answers) \/ OpenVault(answers)
             \/ UnlockVault(answers) \/ AcceptAgain(answers)
      PROVE Goal
  <2>1. told' = told
    BY <1>3 DEF UnlockApp, OpenVault, UnlockVault, AcceptAgain
  <2>2. CASE told
    BY <1>3, <1>t, <2>2, OpeningTold
  <2>3. CASE ~told
    BY <2>1, <2>3 DEF ToldHome
  <2> QED
    BY <2>2, <2>3
<1>4. ASSUME LockVault \/ LockApp \/ CloseVault \/ DeleteVault \/ Restart
      PROVE Goal
  <2>1. UNCHANGED <<member, told>> /\ disk' \in {disk, NoFile}
        /\ (fetch' = fetch \/ fetch' = Resting)
    BY <1>4 DEF LockVault, LockApp, CloseVault, DeleteVault, Restart, turso,
                history
  <2>2. vault'.cache \in {vault.cache, NoCache} /\ ~vault'.dek
    <3>1. CASE vault' = Closed
      BY <3>1 DEF Closed
    <3>2. CASE vault' \in {[vault EXCEPT !.dek = FALSE], Wiped}
      BY <1>t, <3>2 DEF Wiped, TypeOK, Vault
    <3> QED
      BY <1>4, <3>1, <3>2 DEF LockVault, LockApp, CloseVault, DeleteVault,
                              Restart
  <2> QED
    BY <2>1, <2>2, CacheSentinels DEF ToldHome
<1>5. ASSUME NEW kind, NEW id, NEW v, Begin(kind, id, v) PROVE Goal
  BY <1>0, <1>5 DEF Begin, turso, device
<1>6. ASSUME \/ \E s \in Secrets, v \in Values :
                   CreateSecret(s, v) \/ UpdateSecret(s, v) \/ RenameSecret(s, v)
             \/ \E s \in Secrets : DeleteSecret(s)
             \/ \E id \in Shares : ShareItem(id)
      PROVE Goal
  BY <1>5, <1>6 DEF CreateSecret, UpdateSecret, RenameSecret, DeleteSecret,
                    ShareItem
<1>7. ASSUME NEW lost \in BOOLEAN, Retry(lost) PROVE Goal
  BY <1>0, <1>7 DEF Retry, device, history
<1>8. ASSUME NEW lost \in BOOLEAN, Fail(lost) PROVE Goal
  <2>1. vault' = vault
    BY <1>8, <1>t DEF Fail, CopyAfterError, TypeOK, Vault
  <2> QED
    BY <1>0, <1>8, <2>1 DEF Fail, history
<1>9. ASSUME NEW ok \in BOOLEAN, Return(ok) PROVE Goal
  <2>1. UNCHANGED <<member, fetch, told>>
    BY <1>9 DEF Return, turso
  <2>2. CASE Filled /\ op.stmt.kind # "share"
    <3> DEFINE new == [vault.cache EXCEPT !.rows = Edited(@, op.stmt)]
    <3>1. new \in Snapshot /\ new.member = vault.cache.member
      BY <1>9, <1>t, <2>2, EditedIsSnapshot DEF Return
    <3>2. vault' = [vault EXCEPT !.cache = new] /\ Save(new, ok)
      BY <1>9, <2>2 DEF Return
    <3> HIDE DEF new
    <3>3. vault'.cache = new /\ vault'.dek = vault.dek /\ disk' \in {disk, new}
      BY <1>t, <3>2 DEF Save, TypeOK, Vault
    <3> QED
      BY <2>1, <2>2, <3>1, <3>3 DEF ToldHome, Filled
  <2>3. CASE ~(Filled /\ op.stmt.kind # "share")
    BY <1>0, <1>9, <2>1, <2>3 DEF Return
  <2> QED
    BY <2>2, <2>3
<1>10. ASSUME StartRefresh \/ ReadMember \/ ReadSecrets \/ FetchFails PROVE Goal
  <2>1. UNCHANGED <<member, vault, disk, told>>
    BY <1>10 DEF StartRefresh, ReadMember, ReadSecrets, FetchFails, turso,
                 device, history
  <2>2. told /\ fetch' # Resting /\ fetch'.at # "asked" => ~fetch'.snap.member
    <3>1. StartRefresh => fetch'.at = "asked"
      BY DEF StartRefresh
    <3>2. ReadMember /\ told => ~fetch'.snap.member
      BY <1>t DEF ReadMember, ToldHome, TypeOK, Fetch, Snapshot
    <3>3. ReadSecrets /\ told => ~fetch'.snap.member
      BY <1>t DEF ReadSecrets, ToldHome, TypeOK, Fetch, Snapshot
    <3> QED
      BY <1>10, <3>1, <3>2, <3>3 DEF FetchFails
  <2> QED
    BY <2>1, <2>2 DEF ToldHome
<1>11. ASSUME NEW ok \in BOOLEAN, ApplySnapshot(ok) PROVE Goal
  <2>1. /\ fetch.snap \in Snapshot /\ fetch' = Resting /\ member' = member
        /\ fetch # Resting /\ fetch.at = "read"
        /\ told' = (told \/ (/\ ~fetch.snap.member /\ ~member
                             /\ vault.cache # NoCache /\ ~behind'))
    BY <1>11, <1>t DEF ApplySnapshot, TypeOK, Fetch, turso
  <2>2. told' => ~fetch.snap.member /\ ~member
    BY <2>1 DEF ToldHome
  <2>3. CASE Wanted(fetch.snap)
    <3>1. /\ vault'.cache = fetch.snap /\ vault'.dek = vault.dek
          /\ disk' = (IF ok THEN fetch.snap ELSE disk) /\ behind' = ~ok
      BY <1>11, <1>t, <2>3 DEF ApplySnapshot, Save, TypeOK, Vault
    <3>2. told' => disk' = fetch.snap \/ (told /\ disk' = disk)
      BY <2>1, <3>1
    <3> QED
      BY <2>1, <2>2, <3>1, <3>2 DEF ToldHome
  <2>4. CASE ~Wanted(fetch.snap)
    <3>1. UNCHANGED <<vault, disk, behind>>
      BY <1>11, <2>4 DEF ApplySnapshot
    <3>2. told' /\ ~told => vault.cache = fetch.snap /\ disk = fetch.snap
      BY <2>1, <2>4, <3>1, CacheSentinels DEF Wanted, Kept, DiskMatches
    <3> QED
      BY <2>1, <2>2, <3>1, <3>2 DEF ToldHome
  <2> QED
    BY <2>3, <2>4
<1>12. ASSUME UNCHANGED vars PROVE Goal
  BY <1>0, <1>12 DEF vars, turso, device, history
<1> HIDE DEF Goal
<1>13. Goal
  BY <1>1, <1>2, <1>3, <1>4, <1>6, <1>7, <1>8, <1>9, <1>10, <1>11, <1>12
     DEF Next, World, Commands, Waiting, Refresh
<1> QED
  BY <1>13 DEF Goal

-----------------------------------------------------------------------------
\* What this device wrote last.

\* While a row's write is under way nothing counts as written; what counts is
\* what Turso holds; and a write that returned in calm is in every copy.
Unsettled == op # Idle /\ op.stmt.kind # "share" => mine[op.stmt.id] = Unsure
Stands    == \A s \in Secrets : mine[s] # Unsure => rows[s] = mine[s].v
Shown     == \A s \in Secrets : mine[s] # Unsure /\ mine[s].calm =>
                \A c \in Copies : c.rows[s] = mine[s].v

Own == Unsettled /\ Stands /\ Shown

LEMMA OwnInit == Init => Own
BY DEF Init, Own, Unsettled, Stands, Shown

\* A statement changes no row but its own.
LEMMA AppliedElsewhere ==
    ASSUME NEW t \in [Secrets -> Row], NEW stmt \in Stmt, NEW s \in Secrets,
           stmt.kind = "share" \/ s # stmt.id
    PROVE  Applied(t, stmt)[s] = t[s]
BY DEF Applied

\* A write's change to rows that have the row it updates leaves its value.
LEMMA AppliedHere ==
    ASSUME NEW t \in [Secrets -> Row], NEW stmt \in Stmt, WellFormed(stmt),
           stmt.kind # "share",
           stmt.kind = "update" => t[stmt.id] # NoRow
    PROVE  Applied(t, stmt)[stmt.id] = stmt.v
BY DEF Applied, WellFormed, Stmt, Kinds

\* What Return writes down, if it settles the row.
LEMMA ReturnShown ==
    ASSUME Typed, Kept, Own, NEW ok \in BOOLEAN, Return(ok)
    PROVE  Shown'
<1>t. /\ TypeOK /\ op \in Op /\ op.stmt \in Stmt /\ WellFormed(op.stmt)
      /\ fetch' = fetch
  BY DEF Typed, TypeOK, Statements, Return, Op
<1>1. CASE op.stmt.kind = "share"
  <2>1. mine' = mine /\ Copies' = Copies
    BY <1>1, <1>t DEF Return, Copies
  <2> QED
    BY <2>1 DEF Own, Shown
<1>2. CASE op.stmt.kind # "share"
  <2>i. op.stmt.id \in Secrets
    BY <1>2, <1>t DEF WellFormed, Stmt
  <2>m. mine' = [mine EXCEPT ![op.stmt.id] = Written(op.stmt, ok)]
    BY <1>2 DEF Return
  <2>w. \/ Written(op.stmt, ok) = Unsure
        \/ /\ rows[op.stmt.id] = op.stmt.v
           /\ ~(/\ Filled /\ op.stmt.kind = "update"
                /\ vault.cache.rows[op.stmt.id] = NoRow)
           /\ Written(op.stmt, ok).v = op.stmt.v
           /\ Written(op.stmt, ok).calm =>
                 fetch = Resting /\ (Filled => ok) /\ vault.cache # NoCache
    BY DEF Written
  <2>3. CASE Filled
    <3> DEFINE new == [vault.cache EXCEPT !.rows = Edited(@, op.stmt)]
    <3>1. vault' = [vault EXCEPT !.cache = new] /\ Save(new, ok)
      BY <1>2, <2>3 DEF Return
    <3>2. /\ new.rows = Applied(vault.cache.rows, op.stmt)
          /\ vault.cache.rows \in [Secrets -> Row] /\ vault.cache \in Copies
      BY <2>3 DEF Filled, Snapshot, Edited, Copies
    <3> HIDE DEF new
    <3>3. Copies' \subseteq Copies \cup {new}
      BY <1>t, <3>1 DEF Copies, Save, TypeOK, Vault
    <3>4. ok /\ fetch = Resting => Copies' \subseteq {new}
      BY <1>t, <3>1 DEF Copies, Save, TypeOK, Vault
    <3>5. ASSUME NEW s \in Secrets, s # op.stmt.id, mine'[s] # Unsure,
                 mine'[s].calm, NEW c \in Copies'
          PROVE  c.rows[s] = mine'[s].v
      <4>1. mine'[s] = mine[s]
        BY <1>t, <2>m, <3>5 DEF TypeOK
      <4>2. \A d \in Copies : d.rows[s] = mine[s].v
        BY <3>5, <4>1 DEF Own, Shown
      <4>3. new.rows[s] = mine[s].v
        BY <1>t, <3>2, <3>5, <4>2, AppliedElsewhere
      <4> QED
        BY <3>3, <4>1, <4>2, <4>3
    <3>6. ASSUME mine'[op.stmt.id] # Unsure, mine'[op.stmt.id].calm,
                 NEW c \in Copies'
          PROVE  c.rows[op.stmt.id] = mine'[op.stmt.id].v
      <4>1. mine'[op.stmt.id] = Written(op.stmt, ok)
        BY <1>t, <2>i, <2>m DEF TypeOK
      <4>2. /\ op.stmt.kind = "update" => vault.cache.rows[op.stmt.id] # NoRow
            /\ mine'[op.stmt.id].v = op.stmt.v /\ ok /\ fetch = Resting
        BY <2>3, <2>w, <3>6, <4>1
      <4>3. new.rows[op.stmt.id] = op.stmt.v
        BY <1>2, <1>t, <3>2, <4>2, AppliedHere
      <4> QED
        BY <3>4, <3>6, <4>2, <4>3
    <3> QED
      BY <3>5, <3>6 DEF Shown
  <2>4. CASE ~Filled
    <3>1. Copies' = Copies
      BY <1>t, <2>4 DEF Return, Copies
    <3>2. ASSUME mine'[op.stmt.id] # Unsure, mine'[op.stmt.id].calm
          PROVE  Copies = {}
      <4>1. fetch = Resting /\ vault.cache # NoCache
        BY <1>t, <2>i, <2>m, <2>w, <3>2 DEF TypeOK
      <4>2. vault.cache = Empty
        BY <1>t, <2>4, <4>1 DEF TypeOK, Vault, Filled
      <4>3. disk = NoFile
        BY <4>1, <4>2 DEF Kept, Shape, DiskMatches
      <4> QED
        BY <4>1, <4>2, <4>3, CacheSentinels DEF Copies
    <3>3. \A s \in Secrets \ {op.stmt.id} : mine'[s] = mine[s]
      BY <1>t, <2>m DEF TypeOK
    <3> QED
      BY <3>1, <3>2, <3>3 DEF Own, Shown
  <2> QED
    BY <2>3, <2>4
<1> QED
  BY <1>1, <1>2

LEMMA OwnNext == Typed /\ Kept /\ Own /\ [Next]_vars => Own'
<1> SUFFICES ASSUME Typed, Kept, Own, [Next]_vars PROVE Own'
  OBVIOUS
<1>t. TypeOK
  BY DEF Typed
\* A step that settles no row and brings no new copy keeps what is shown.
<1>c. ASSUME \A s \in Secrets : mine'[s] \in {mine[s], Unsure},
             Copies' \subseteq Copies
      PROVE  Shown'
  BY <1>c DEF Own, Shown
<1>r. ASSUME rows' = rows, \A s \in Secrets : mine'[s] \in {mine[s], Unsure}
      PROVE  Stands'
  BY <1>r DEF Own, Stands
<1>q. ASSUME op' = op \/ op' = Idle, mine' = mine PROVE Unsettled'
  BY <1>q DEF Own, Unsettled
<1>u. ASSUME rows' = rows, op' = op \/ op' = Idle, mine' = mine,
             Copies' \subseteq Copies
      PROVE  Own'
  BY <1>u, <1>c, <1>r, <1>q DEF Own
<1>1. ASSUME Arrives PROVE Own'
  <2>1. op \in Op /\ op.stmt \in Stmt /\ op # Idle /\ mine' = mine
    BY <1>1, <1>t DEF Arrives, TypeOK, Op
  <2>2. Copies' \subseteq Copies
    BY <1>1 DEF Arrives, device, Copies
  <2>3. op' # Idle /\ op'.stmt = op.stmt
    BY <1>1, <2>1, CacheSentinels DEF Arrives, Op, Answers, AnswerTo
  <2>4. ASSUME NEW s \in Secrets, mine[s] # Unsure PROVE rows'[s] = rows[s]
    <3>1. op.stmt.kind = "share" \/ s # op.stmt.id
      BY <2>1, <2>4 DEF Own, Unsettled
    <3> QED
      BY <1>1, <1>t, <2>1, <3>1, AppliedElsewhere DEF Arrives, TursoRuns, TypeOK
  <2>5. Stands' /\ Unsettled'
    BY <2>1, <2>3, <2>4 DEF Own, Stands, Unsettled
  <2> QED
    BY <1>c, <2>1, <2>2, <2>5 DEF Own
<1>2. ASSUME NEW stmt \in late, ArrivesLate(stmt) PROVE Own'
  <2>1. stmt \in Stmt /\ op' = op /\ Copies' \subseteq Copies
    BY <1>2, <1>t DEF ArrivesLate, TypeOK, device, Copies
  <2>2. mine' = IF stmt.kind = "share" THEN mine
                ELSE [mine EXCEPT ![stmt.id] = Unsure]
    BY <1>2 DEF ArrivesLate
  <2>3. \A s \in Secrets : mine'[s] \in {mine[s], Unsure}
    BY <1>t, <2>2 DEF TypeOK
  <2>4. ASSUME NEW s \in Secrets, mine'[s] # Unsure
        PROVE  rows'[s] = rows[s] /\ mine'[s] = mine[s]
    <3>1. stmt.kind = "share" \/ s # stmt.id
      BY <1>t, <2>2, <2>4 DEF TypeOK
    <3> QED
      BY <1>2, <1>t, <2>1, <2>3, <2>4, <3>1, AppliedElsewhere
         DEF ArrivesLate, TursoRuns, TypeOK
  <2>5. Stands'
    BY <2>4 DEF Own, Stands
  <2>6. Unsettled'
    <3>1. ASSUME op # Idle, op.stmt.kind # "share"
          PROVE  op.stmt.id \in Secrets
      BY <1>t, <3>1 DEF Typed, TypeOK, Op, Stmt, Statements, WellFormed
    <3> QED
      BY <2>1, <2>3, <3>1 DEF Own, Unsettled
  <2> QED
    BY <1>c, <2>1, <2>3, <2>5, <2>6 DEF Own
<1>3. ASSUME NEW s \in Secrets, NEW v \in Row, Elsewhere(s, v) PROVE Own'
  <2>1. /\ rows' = [rows EXCEPT ![s] = v] /\ mine' = [mine EXCEPT ![s] = Unsure]
        /\ op' = op /\ Copies' \subseteq Copies
    BY <1>3 DEF Elsewhere, device, Copies
  <2>2. \A r \in Secrets : mine'[r] \in {mine[r], Unsure}
    BY <1>t, <2>1 DEF TypeOK
  <2>3. Stands'
    BY <1>t, <2>1 DEF Own, Stands, TypeOK
  <2>4. Unsettled'
    <3>1. ASSUME op # Idle, op.stmt.kind # "share"
          PROVE  op.stmt.id \in Secrets
      BY <1>t, <3>1 DEF Typed, TypeOK, Op, Stmt, Statements, WellFormed
    <3> QED
      BY <2>1, <2>2, <3>1 DEF Own, Unsettled
  <2> QED
    BY <1>c, <2>1, <2>2, <2>3, <2>4 DEF Own
<1>4. ASSUME OwnerRemovesOrInvites PROVE Own'
  BY <1>4, <1>u DEF OwnerRemovesOrInvites, device, Copies
<1>5. ASSUME NEW answers \in BOOLEAN, Opens(answers) PROVE Own'
  <2>1. op' = op /\ rows' = rows /\ mine' = mine
    BY <1>5 DEF Opens, UnlockApp, UnlockVault, AcceptAgain, OpenVault, turso
  <2> QED
    BY <1>5, <1>t, <1>u, <2>1, OpeningCopies
<1>6. ASSUME Closes PROVE Own'
  <2>1. rows' = rows /\ (op' = op \/ op' = Idle) /\ mine' = mine
    BY <1>6 DEF Closes, LockVault, LockApp, CloseVault, DeleteVault, Restart,
                turso, history
  <2> QED
    BY <1>6, <1>t, <1>u, <2>1, ClosingCopies
<1>7. ASSUME NEW kind \in Kinds, NEW id \in Secrets \cup Shares, NEW v,
             kind # "share" => id \in Secrets, Begin(kind, id, v)
      PROVE  Own'
  <2>1. /\ rows' = rows /\ Copies' \subseteq Copies
        /\ mine' = IF kind = "share" THEN mine ELSE [mine EXCEPT ![id] = Unsure]
        /\ op'.stmt.kind = kind /\ op'.stmt.id = id
    BY <1>7 DEF Begin, turso, device, Copies
  <2>2. \A s \in Secrets : mine'[s] \in {mine[s], Unsure}
    BY <1>t, <2>1 DEF TypeOK
  <2>3. Unsettled'
    BY <1>7, <1>t, <2>1 DEF Unsettled, TypeOK
  <2> QED
    BY <1>c, <1>r, <2>1, <2>2, <2>3 DEF Own
<1>8. ASSUME \/ \E s \in Secrets, v \in Values :
                   CreateSecret(s, v) \/ UpdateSecret(s, v) \/ RenameSecret(s, v)
             \/ \E s \in Secrets : DeleteSecret(s)
             \/ \E id \in Shares : ShareItem(id)
      PROVE Own'
  BY <1>7, <1>8 DEF CreateSecret, UpdateSecret, RenameSecret, DeleteSecret,
                    ShareItem, Kinds
<1>9. ASSUME NEW lost \in BOOLEAN, Retry(lost) PROVE Own'
  <2>1. rows' = rows /\ Copies' \subseteq Copies /\ mine' = mine /\ op # Idle
    BY <1>9 DEF Retry, device, history, Copies
  <2>2. op \in Op /\ op' = [op EXCEPT !.try = 2, !.at = "sent"]
    BY <1>9, <1>t DEF Retry, TypeOK
  <2>3. op'.stmt = op.stmt
    BY <2>2 DEF Op
  <2>4. Unsettled'
    BY <2>1, <2>3 DEF Own, Unsettled
  <2> QED
    BY <1>c, <1>r, <2>1, <2>4 DEF Own
<1>10. ASSUME NEW lost \in BOOLEAN, Fail(lost) PROVE Own'
  <2>1. rows' = rows /\ op' = Idle /\ mine' = mine /\ Copies' \subseteq Copies
    BY <1>10, <1>t DEF Fail, CopyAfterError, Copies, TypeOK, Vault, history
  <2> QED
    BY <1>u, <2>1
<1>11. ASSUME NEW ok \in BOOLEAN, Return(ok) PROVE Own'
  <2>1. rows' = rows /\ op' = Idle
    BY <1>11 DEF Return, turso
  <2>2. Stands'
    <3>1. \A s \in Secrets : mine'[s] = mine[s] \/
             (s = op.stmt.id /\ mine'[s] = Written(op.stmt, ok))
      BY <1>11, <1>t DEF Return, TypeOK
    <3>2. \/ Written(op.stmt, ok) = Unsure
          \/ Written(op.stmt, ok).v = rows[op.stmt.id]
      BY DEF Written
    <3> QED
      BY <2>1, <3>1, <3>2 DEF Own, Stands
  <2> QED
    BY <1>11, <2>1, <2>2, ReturnShown DEF Own, Unsettled
<1>12. ASSUME StartRefresh \/ ReadMember \/ FetchFails PROVE Own'
  <2>1. rows' = rows /\ op' = op /\ mine' = mine
    BY <1>12 DEF StartRefresh, ReadMember, FetchFails, turso, history
  <2>2. Copies' \subseteq Copies
    BY <1>12 DEF StartRefresh, ReadMember, FetchFails, device, Copies
  <2> QED
    BY <1>u, <2>1, <2>2
<1>13. ASSUME ReadSecrets PROVE Own'
  <2>1. rows' = rows /\ op' = op /\ UNCHANGED <<mine, vault, disk>>
    BY <1>13 DEF ReadSecrets, turso, device, history
  <2>2. fetch'.snap.rows = rows
    BY <1>13, <1>t DEF ReadSecrets, TypeOK, Fetch, Snapshot
  <2>3. Copies' \subseteq Copies \cup {fetch'.snap}
    BY <2>1 DEF Copies
  <2>4. Shown'
    BY <2>1, <2>2, <2>3 DEF Own, Stands, Shown
  <2> QED
    BY <1>r, <1>q, <2>1, <2>4 DEF Own
<1>14. ASSUME NEW ok \in BOOLEAN, ApplySnapshot(ok) PROVE Own'
  <2>1. rows' = rows /\ op' = op /\ mine' = mine
    BY <1>14 DEF ApplySnapshot, turso
  <2>2. fetch \in Fetch /\ fetch.snap \in Copies
    BY <1>14, <1>t DEF ApplySnapshot, TypeOK, Copies, Fetch
  <2>3. Copies' \subseteq Copies
    BY <1>14, <1>t, <2>2 DEF ApplySnapshot, Save, Copies, TypeOK, Vault
  <2> QED
    BY <1>u, <2>1, <2>3
<1>15. ASSUME UNCHANGED vars PROVE Own'
  BY <1>15, <1>u DEF vars, turso, device, history, Copies
<1> HIDE DEF Own
<1> QED
  BY <1>1, <1>2, <1>3, <1>4, <1>5, <1>6, <1>8, <1>9, <1>10, <1>11, <1>12, <1>13,
     <1>14, <1>15
     DEF Opens, Closes, Next, World, Commands, Waiting, Refresh

-----------------------------------------------------------------------------
\* The inductive invariant and what follows from it.

CInv == Typed /\ Kept /\ Source /\ ToldHome /\ Own

LEMMA AlwaysCInv == Spec => []CInv
<1>1. Init => CInv
  BY TypedInit, KeptInit, SourceInit, ToldInit, OwnInit DEF CInv
<1>2. CInv /\ [Next]_vars => CInv'
  BY TypedNext, KeptNext, SourceNext, ToldNext, OwnNext DEF CInv
<1> QED
  BY <1>1, <1>2, PTL DEF Spec

\* The file is the copy in memory, unless the last save failed.
THEOREM DiskAlwaysMatches == Spec => []DiskMatches
BY AlwaysCInv, PTL DEF CInv, Kept

\* A lock leaves nothing of the vault in memory, and none comes back.
THEOREM LockedAlwaysReadsNothing == Spec => []LockedReadsNothing
BY AlwaysCInv, PTL DEF CInv, Kept

\* No answer still under way brings a deleted vault back.
THEOREM GoneAlwaysStaysGone == Spec => []GoneStaysGone
BY AlwaysCInv, PTL DEF CInv, Kept

\* Every row of every copy is one Turso held, or a write it acknowledged.
THEOREM AlwaysOnlyAccepted == Spec => []OnlyAccepted
BY AlwaysCInv, PTL DEF CInv, Source

\* A write that returned in calm is what the copy holds until someone else
\* writes the row: refreshes, locks, crashes and restarts keep it.
THEOREM OwnWriteAlwaysKept == Spec => []OwnWriteKept
<1>1. CInv => OwnWriteKept
  BY DEF CInv, Own, Shown, OwnWriteKept, Filled, Copies
<1> QED
  BY <1>1, AlwaysCInv, PTL

\* No unlock gives the key to a member whose removal has come home.
THEOREM RemovalAlwaysKeepsOut == Spec => RemovalKeepsOut
<1>1. CInv /\ [Next]_vars => [(~vault.dek /\ vault'.dek) => ~told]_vars
  BY ToldNext DEF CInv
<1> QED
  BY <1>1, AlwaysCInv, PTL DEF Spec, RemovalKeepsOut

-----------------------------------------------------------------------------
\* VaultCache implements SealedCopy.

\* Whatever happens, the rows said only grow.
LEMMA AlwaysSays ==
    ASSUME Typed, [Next]_vars
    PROVE  Sealed!Says
<1>1. TypeOK /\ TypeOK'
  BY TypedNext DEF Typed
<1>2. \A s \in Secrets : held[s] \subseteq held'[s] /\ noop[s] \subseteq noop'[s]
  BY <1>1, SaidGrows
<1>3. Said' \in [Secrets -> SUBSET Row]
  BY <1>1 DEF Said, TypeOK
<1>4. \A s \in Secrets : Said[s] \subseteq Said'[s]
  BY <1>2 DEF Said
<1> QED
  BY <1>3, <1>4 DEF Sealed!Says

\* The three ways the copy leaves or enters memory without a change of rows.
Passes == Sealed!LetGo \/ Sealed!TakeUp \/ Sealed!Forget
Same   == UNCHANGED <<CopyRows, SavedRows, identity>>

LEMMA UnlockKeysPasses ==
    ASSUME TypeOK, Kept, NEW v \in Vault, NEW answers \in BOOLEAN,
           UnlockKeys(v, answers), identity',
           v.cache = vault.cache \/ v.cache = NoCache
    PROVE  Passes \/ Same
<1>1. \/ vault'.cache = ReloadedIfLost(v) /\ disk' = disk
      \/ vault'.cache = Empty /\ disk' = AfterDiscard(ReloadedIfLost(v))
  BY DEF UnlockKeys, Vault
<1>2. CASE v.cache = NoCache
  <2>1. /\ ReloadedIfLost(v) = FromDisk
        /\ FromDisk = Empty <=> disk = NoFile
        /\ disk # NoFile => FromDisk = disk /\ disk \in Snapshot
    BY <1>2, CacheSentinels DEF ReloadedIfLost, FromDisk, TypeOK
  <2>2. CASE vault'.cache = FromDisk /\ disk' = disk
    <3>1. CopyRows' = SavedRows /\ SavedRows' = SavedRows
      BY <2>1, <2>2, CacheSentinels DEF CopyRows, SavedRows, Filled
    <3> QED
      BY <3>1 DEF Passes, Sealed!TakeUp
  <2>3. CASE vault'.cache = Empty /\ disk' = AfterDiscard(FromDisk)
    <3>1. CopyRows' = NoFile /\ SavedRows' = NoFile
      BY <2>1, <2>3, CacheSentinels
         DEF CopyRows, SavedRows, Filled, AfterDiscard
    <3> QED
      BY <3>1 DEF Passes, Sealed!Forget
  <2> QED
    BY <1>1, <2>1, <2>2, <2>3
<1>3. CASE v.cache # NoCache
  <2>1. ReloadedIfLost(v) = vault.cache /\ identity
    BY <1>3 DEF ReloadedIfLost, Kept, LockedReadsNothing
  <2>2. identity' = identity
    BY <2>1 DEF TypeOK
  <2>3. CASE vault'.cache = vault.cache /\ disk' = disk
    BY <2>2, <2>3 DEF Same, CopyRows, SavedRows, Filled
  <2>4. CASE vault'.cache = Empty /\ disk' = AfterDiscard(vault.cache)
    <3>1. CopyRows' = NoFile
      BY <2>4, CacheSentinels DEF CopyRows, Filled
    <3>2. CASE vault.cache = Empty
      BY <2>2, <2>4, <3>1, <3>2, CacheSentinels
         DEF Same, CopyRows, SavedRows, Filled, AfterDiscard
    <3>3. CASE vault.cache # Empty
      <4>1. SavedRows' = NoFile
        BY <2>4, <3>3 DEF SavedRows, AfterDiscard
      <4> QED
        BY <2>2, <3>1, <4>1 DEF Passes, Sealed!Forget
    <3> QED
      BY <3>2, <3>3
  <2> QED
    BY <1>1, <2>1, <2>3, <2>4
<1> QED
  BY <1>2, <1>3

LEMMA OpenAndUnlockPasses ==
    ASSUME TypeOK, Kept, NEW answers \in BOOLEAN, OpenAndUnlock(answers),
           identity'
    PROVE  Passes \/ Same
<1> DEFINE v == [Closed EXCEPT !.open = TRUE]
<1>1. v \in Vault /\ v.cache = NoCache
  BY DEF Closed, Vault
<1> HIDE DEF v
<1>2. CASE FromDisk = Empty /\ ~answers
  <2>1. disk = NoFile /\ disk' = NoFile /\ vault'.cache = NoCache
    BY <1>2, CacheSentinels DEF OpenAndUnlock, FromDisk, TypeOK, Closed
  <2>2. CopyRows' = NoFile /\ SavedRows = NoFile /\ SavedRows' = NoFile
    BY <2>1, CacheSentinels DEF CopyRows, SavedRows, Filled
  <2> QED
    BY <2>2 DEF Passes, Sealed!TakeUp
<1>3. CASE ~(FromDisk = Empty /\ ~answers)
  <2>1. UnlockKeys(v, answers)
    BY <1>3 DEF OpenAndUnlock, v
  <2> QED
    BY <1>1, <2>1, UnlockKeysPasses
<1> QED
  BY <1>2, <1>3

\* A step that puts snapshot snap, its rows said, into memory and, if ok, on
\* disk is a move of the copy.
LEMMA SnapshotMoves ==
    ASSUME TypeOK, Kept, NEW snap \in Snapshot, NEW ok \in BOOLEAN,
           vault.cache # NoCache, vault' = [vault EXCEPT !.cache = snap],
           Save(snap, ok), UNCHANGED identity,
           \A s \in Secrets : snap.rows[s] \in held'[s] \cup noop'[s]
    PROVE  Sealed!Moves
<1>1. identity
  BY DEF Kept, LockedReadsNothing
<1>2. vault'.cache = snap
  BY DEF TypeOK, Vault
<1>3. CopyRows' = snap.rows /\ snap.rows \in [Secrets -> Row]
  BY <1>2 DEF CopyRows, Filled, Snapshot
<1>4. SavedRows' \in {SavedRows, snap.rows}
  BY CacheSentinels DEF Save, SavedRows
<1>5. \A s \in Secrets : CopyRows'[s] \in Said'[s]
  BY <1>3 DEF Said
<1> QED
  BY <1>1, <1>3, <1>4, <1>5 DEF Sealed!Moves, Sealed!Rows

LEMMA StepImplements ==
    CInv /\ [Next]_vars => [Sealed!Next]_Sealed!vars
<1> SUFFICES ASSUME CInv, [Next]_vars PROVE [Sealed!Next]_Sealed!vars
  OBVIOUS
<1>t. Typed /\ TypeOK /\ Kept /\ Source
  BY DEF CInv, Typed
<1>s. Sealed!Says
  BY <1>t, AlwaysSays
<1> DEFINE Goal == Sealed!Next
<1>0. ASSUME UNCHANGED <<vault, disk, identity>> PROVE Goal
  <2>1. UNCHANGED <<CopyRows, SavedRows, identity>>
    BY <1>0 DEF CopyRows, SavedRows, Filled
  <2> QED
    BY <1>s, <2>1 DEF Sealed!Next
<1>p. ASSUME Passes \/ Same, UNCHANGED <<held, noop>> PROVE Goal
  <2>1. UNCHANGED Said
    BY <1>p DEF Said
  <2> QED
    BY <1>p, <1>s, <2>1 DEF Passes, Same, Sealed!Next
<1>1. ASSUME Arrives \/ (\E stmt \in late : ArrivesLate(stmt))
             \/ (\E s \in Secrets, v \in Row : Elsewhere(s, v))
             \/ OwnerRemovesOrInvites
      PROVE Goal
  BY <1>0, <1>1 DEF Arrives, ArrivesLate, Elsewhere, OwnerRemovesOrInvites,
                    device
<1>2. ASSUME NEW answers \in BOOLEAN, UnlockApp(answers) PROVE Goal
  <2>1. Passes \/ Same
    <3>1. CASE vault.open
      BY <1>2, <1>t, <3>1, UnlockKeysPasses DEF UnlockApp, TypeOK
    <3>2. CASE ~vault.open /\ listed
      BY <1>2, <1>t, <3>2, OpenAndUnlockPasses DEF UnlockApp
    <3>3. CASE ~vault.open /\ ~listed
      <4>1. /\ vault.cache = NoCache /\ disk = NoFile
            /\ UNCHANGED <<vault, disk>> /\ identity'
        BY <1>2, <1>t, <3>3 DEF UnlockApp, Kept, GoneStaysGone
      <4>2. CopyRows' = NoFile /\ SavedRows = NoFile /\ SavedRows' = NoFile
        BY <4>1, CacheSentinels DEF CopyRows, SavedRows, Filled
      <4> QED
        BY <4>1, <4>2 DEF Passes, Sealed!TakeUp
    <3> QED
      BY <3>1, <3>2, <3>3
  <2> QED
    BY <1>2, <1>p, <2>1 DEF UnlockApp
<1>3. ASSUME NEW answers \in BOOLEAN, OpenVault(answers) PROVE Goal
  <2>1. CASE identity
    <3>1. CopyRows' = SavedRows /\ SavedRows' = SavedRows /\ identity'
      BY <1>3, <1>t, <2>1, CacheSentinels
         DEF OpenVault, FromDisk, CopyRows, SavedRows, Filled, TypeOK
    <3> QED
      BY <1>3, <1>p, <3>1 DEF OpenVault, Passes, Sealed!TakeUp
  <2>2. CASE ~identity
    <3>1. CopyRows' = NoFile /\ SavedRows' = SavedRows /\ identity' = identity
      BY <1>3, <2>2, CacheSentinels DEF OpenVault, CopyRows, SavedRows, Filled
    <3> QED
      BY <1>3, <1>p, <3>1 DEF OpenVault, Passes, Sealed!LetGo
  <2> QED
    BY <2>1, <2>2
<1>4. ASSUME NEW answers \in BOOLEAN, UnlockVault(answers) PROVE Goal
  BY <1>4, <1>p, <1>t, UnlockKeysPasses DEF UnlockVault, TypeOK
<1>5. ASSUME NEW answers \in BOOLEAN, AcceptAgain(answers) PROVE Goal
  BY <1>5, <1>p, <1>t, OpenAndUnlockPasses DEF AcceptAgain
<1>6. ASSUME LockVault PROVE Goal
  <2>1. vault'.cache = vault.cache /\ UNCHANGED <<disk, identity, held, noop>>
    BY <1>6, <1>t DEF LockVault, TypeOK, Vault, history
  <2>2. Same
    BY <2>1 DEF Same, CopyRows, SavedRows, Filled
  <2> QED
    BY <1>p, <2>1, <2>2
<1>7. ASSUME LockApp \/ CloseVault \/ Restart PROVE Goal
  <2>1. vault'.cache = NoCache
    <3>1. Wiped.cache = NoCache
      BY <1>t DEF Wiped, TypeOK, Vault
    <3>2. Closed.cache = NoCache
      BY DEF Closed
    <3> QED
      BY <1>7, <3>1, <3>2 DEF LockApp, CloseVault, Restart
  <2>2. disk' = disk /\ identity' \in {identity, FALSE}
        /\ UNCHANGED <<held, noop>>
    BY <1>7 DEF LockApp, CloseVault, Restart, history
  <2>3. CopyRows' = NoFile /\ SavedRows' = SavedRows
    BY <2>1, <2>2, CacheSentinels DEF CopyRows, SavedRows, Filled
  <2> QED
    BY <1>p, <2>2, <2>3 DEF Passes, Sealed!LetGo
<1>8. ASSUME DeleteVault PROVE Goal
  <2>1. vault'.cache = NoCache /\ disk' = NoFile
        /\ UNCHANGED <<identity, held, noop>>
    BY <1>8 DEF DeleteVault, Closed
  <2>2. CopyRows' = NoFile /\ SavedRows' = NoFile
    BY <2>1, CacheSentinels DEF CopyRows, SavedRows, Filled
  <2> QED
    BY <1>p, <2>1, <2>2 DEF Passes, Sealed!Forget
<1>9. ASSUME NEW kind, NEW id, NEW v, Begin(kind, id, v) PROVE Goal
  BY <1>0, <1>9 DEF Begin, device
<1>10. ASSUME \/ \E s \in Secrets, v \in Values :
                    CreateSecret(s, v) \/ UpdateSecret(s, v) \/ RenameSecret(s, v)
              \/ \E s \in Secrets : DeleteSecret(s)
              \/ \E id \in Shares : ShareItem(id)
       PROVE Goal
  BY <1>9, <1>10 DEF CreateSecret, UpdateSecret, RenameSecret, DeleteSecret,
                     ShareItem
<1>11. ASSUME NEW lost \in BOOLEAN, Retry(lost) PROVE Goal
  BY <1>0, <1>11 DEF Retry, device
<1>12. ASSUME NEW lost \in BOOLEAN, Fail(lost) PROVE Goal
  <2>1. vault' = vault
    BY <1>12, <1>t DEF Fail, CopyAfterError, TypeOK, Vault
  <2> QED
    BY <1>0, <1>12, <2>1 DEF Fail
<1>13. ASSUME NEW ok \in BOOLEAN, Return(ok) PROVE Goal
  <2>1. CASE Filled /\ op.stmt.kind # "share"
    <3> DEFINE new == [vault.cache EXCEPT !.rows = Edited(@, op.stmt)]
    <3>1. vault' = [vault EXCEPT !.cache = new] /\ Save(new, ok)
          /\ identity' = identity
      BY <1>13, <2>1 DEF Return
    <3>2. new \in Snapshot /\ vault.cache # NoCache
      BY <1>13, <1>t, <2>1, EditedIsSnapshot, CacheSentinels DEF Return, Filled
    <3>3. new.rows = Edited(vault.cache.rows, op.stmt)
      BY <2>1 DEF Filled, Snapshot
    <3> HIDE DEF new
    <3>4. \A s \in Secrets : new.rows[s] \in held'[s] \cup noop'[s]
      BY <1>13, <1>t, <2>1, <3>3, EditedSaid
    <3>5. Sealed!Moves
      BY <1>t, <3>1, <3>2, <3>4, SnapshotMoves
    <3> QED
      BY <1>s, <3>5 DEF Sealed!Next
  <2>2. CASE ~(Filled /\ op.stmt.kind # "share")
    BY <1>0, <1>13, <2>2 DEF Return
  <2> QED
    BY <2>1, <2>2
<1>14. ASSUME StartRefresh \/ ReadMember \/ ReadSecrets \/ FetchFails PROVE Goal
  BY <1>0, <1>14 DEF StartRefresh, ReadMember, ReadSecrets, FetchFails, device
<1>15. ASSUME NEW ok \in BOOLEAN, ApplySnapshot(ok) PROVE Goal
  <2>1. CASE Wanted(fetch.snap)
    <3>1. fetch.snap \in Snapshot /\ fetch.snap \in Copies
      BY <1>15, <1>t DEF ApplySnapshot, TypeOK, Fetch, Copies
    <3>2. UNCHANGED <<held, noop, identity>> /\ vault.cache # NoCache
          /\ vault' = [vault EXCEPT !.cache = fetch.snap]
          /\ Save(fetch.snap, ok)
      BY <1>15, <2>1 DEF ApplySnapshot, Wanted
    <3>3. \A s \in Secrets : fetch.snap.rows[s] \in held'[s] \cup noop'[s]
      BY <1>t, <3>1, <3>2 DEF Source, OnlyAccepted
    <3>4. Sealed!Moves
      BY <1>t, <3>1, <3>2, <3>3, SnapshotMoves
    <3> QED
      BY <1>s, <3>4 DEF Sealed!Next
  <2>2. CASE ~Wanted(fetch.snap)
    BY <1>0, <1>15, <2>2 DEF ApplySnapshot
  <2> QED
    BY <2>1, <2>2
<1>16. ASSUME UNCHANGED vars PROVE Goal
  BY <1>0, <1>16 DEF vars, device
<1> HIDE DEF Goal
<1>17. Goal
  BY <1>1, <1>2, <1>3, <1>4, <1>5, <1>6, <1>7, <1>8, <1>10, <1>11, <1>12, <1>13,
     <1>14, <1>15, <1>16 DEF Next, World, Commands, Waiting, Refresh
<1> QED
  BY <1>17 DEF Goal

LEMMA InitImplements == Init => Sealed!Init
<1> SUFFICES ASSUME Init PROVE Sealed!Init
  OBVIOUS
<1>1. Said \in [Secrets -> SUBSET Row]
  BY DEF Init, Said
<1>2. CopyRows = NoFile /\ SavedRows = NoFile
  BY CacheSentinels DEF Init, CopyRows, SavedRows, Filled, Closed
<1> QED
  BY <1>1, <1>2 DEF Init, Sealed!Init

\* The copy behaves as SealedCopy promises: opened from rows Turso said, kept
\* as a copy once in memory, unreadable while locked.
THEOREM AlwaysImplements == Spec => Implements
BY InitImplements, StepImplements, AlwaysCInv, PTL
   DEF Spec, Implements, Sealed!Spec
=============================================================================
