--------------------------- MODULE VaultKeysProofs ---------------------------
(***************************************************************************)
(* Theorems about VaultKeys, for every set of uuids, keys, seals, prompts  *)
(* and vaults: the type invariant first, then the inductive invariant KInv *)
(* and what follows from it.                                               *)
(***************************************************************************)
EXTENDS VaultKeys, TLAPS

\* What every action leaves well typed (lock, unlock, enrolment, reset, ...).
LEMMA TypeInit == Init => TypeOK
  BY DEF Init, TypeOK, Ways

LEMMA TypeNext == TypeOK /\ [Next]_vars => TypeOK'
<1> SUFFICES ASSUME TypeOK, [Next]_vars PROVE TypeOK'
  OBVIOUS
<1> USE SentinelsAssumption, PlatformAssumption DEF TypeOK, Ways, Passwords
<1>1. ASSUME NEW u \in Uuids, NEW k \in Keys, NEW pw \in Passwords,
             NEW ok \in BOOLEAN, NEW written \in BOOLEAN,
             NewIdentity(u, k, pw, ok, written)
      PROVE TypeOK'
  BY <1>1 DEF NewIdentity, StoreInChain, Identity, Stored
<1>2. ASSUME NEW u \in Uuids, NEW k \in Keys, NEW pw \in Passwords,
             NEW ok \in BOOLEAN, NEW written \in BOOLEAN,
             InitIdentity(u, k, pw, ok, written)
      PROVE TypeOK'
  BY <1>1, <1>2 DEF InitIdentity
<1>3. ASSUME NEW u \in Uuids, NEW k \in Keys, NEW ok \in BOOLEAN,
             NEW written \in BOOLEAN, ImportIdentity(u, k, ok, written)
      PROVE TypeOK'
  BY <1>1, <1>3 DEF ImportIdentity
<1>4. ASSUME NEW ok \in BOOLEAN, NEW opened \in BOOLEAN, Unlock(ok, opened)
      PROVE TypeOK'
  BY <1>4 DEF Unlock, OpenWithPassword, Load, StoreInChain, Readable, Stored,
              Identity, ids
<1>5a. ASSUME NEW ok \in BOOLEAN, KeychainOpens(ok)
       PROVE /\ identity' \in Identity /\ userUuid' \in Uuids
             /\ userVaults' \subseteq Vaults /\ openedBy' \in Ways
             /\ userHeld' \in BOOLEAN
             /\ chain' \subseteq Uuids /\ excused' \subseteq Uuids
  <2>1. file \in Stored
    BY <1>5a DEF KeychainOpens, Readable
  <2>2. CASE file.uuid \in chain /\ Load("keychain", file.key)
             /\ UNCHANGED <<chain, excused>>
    BY <2>1, <2>2 DEF Load, Stored, Identity
  <2>3. CASE OpenWithPassword("keychain", ok)
    BY <2>1, <2>3 DEF OpenWithPassword, Load, StoreInChain, Stored, Identity
  <2> QED
    BY <1>5a, <2>2, <2>3 DEF KeychainOpens
<1>5. ASSUME NEW ok \in BOOLEAN, AutoUnlock(ok) PROVE TypeOK'
  BY <1>5, <1>5a DEF AutoUnlock, ids
<1>6. ASSUME NEW ok \in BOOLEAN, Resume(ok) PROVE TypeOK'
  <2>1. CASE KeychainOpens(ok) /\ held' = FALSE
    BY <1>6, <1>5a, <2>1 DEF Resume, ids
  <2>2. CASE ~(KeychainOpens(ok) /\ held' = FALSE)
    BY <1>6, <2>2 DEF Resume, ids
  <2> QED
    BY <2>1, <2>2
<1>7. ASSUME Hold PROVE TypeOK'
  BY <1>7 DEF Hold, disk, ids
<1>8. ASSUME NEW pw \in Passwords, ChangePassword(pw) PROVE TypeOK'
  BY <1>8 DEF ChangePassword, Identity, Stored, memory, ids, history
<1>9. ASSUME NEW t \in Tasks, StartEnrol(t) PROVE TypeOK'
  <2>1. (IF unlock # NoUnlockers /\ unlock.uuid = identity.uuid
         THEN unlock ELSE NewUnlockers(identity)) \in Unlockers
    BY <1>9 DEF StartEnrol, EnrolAllowed, NewUnlockers, Unlockers, Identity
  <2> QED
    BY <1>9, <2>1 DEF StartEnrol, Prompt, disk, memory, ids, history
<1>10. ASSUME NEW t \in Tasks, NEW s \in Seals, NEW written \in BOOLEAN,
              FinishEnrol(t, s, written)
       PROVE TypeOK'
  <2>1. prompts[t].snap \in Unlockers
    BY <1>10 DEF FinishEnrol, Prompt
  <2>2. AddSeal(prompts[t].snap, s) \in Unlockers
    BY <2>1 DEF AddSeal, Unlockers
  <2> QED
    BY <1>10, <2>2 DEF FinishEnrol, memory, history
<1>11. ASSUME NEW t \in Tasks, StartOpen(t) PROVE TypeOK'
  BY <1>11 DEF StartOpen, Guarded, Prompt, disk, memory, ids, history
<1>12. ASSUME NEW t \in Tasks, NEW opened \in BOOLEAN, NEW deleted \in BOOLEAN,
              NEW written \in BOOLEAN, FinishOpen(t, opened, deleted, written)
       PROVE TypeOK'
  <2>1. CASE KeyBelongs(t)
    <3>1. prompts[t].snap.key \in Keys
      BY <1>12 DEF FinishOpen, Prompt, Unlockers
    <3>2. file \in Stored
      BY <2>1 DEF KeyBelongs, Readable
    <3>3. unlock' \in Unlockers \cup {NoUnlockers}
      BY <1>12, <2>1 DEF FinishOpen, Guarded, Unlockers
    <3>4. identity' \in Identity /\ userUuid' \in Uuids
          /\ userVaults' \subseteq Vaults /\ openedBy' \in Ways
      BY <1>12, <2>1, <3>1, <3>2 DEF FinishOpen, Load, Identity, Stored
    <3> QED
      BY <1>12, <2>1, <3>3, <3>4 DEF FinishOpen, Load, ids
  <2>2. CASE ~KeyBelongs(t)
    BY <1>12, <2>2 DEF FinishOpen, memory, ids
  <2> QED
    BY <2>1, <2>2
<1>13. ASSUME NEW t \in Tasks, CancelPrompt(t) PROVE TypeOK'
  BY <1>13 DEF CancelPrompt, disk, memory, ids, history
<1>14. ASSUME NEW s \in Seals, NEW ok \in BOOLEAN, NEW written \in BOOLEAN,
              RemoveMethod(s, ok, written)
       PROVE TypeOK'
  BY <1>14 DEF RemoveMethod, Guarded, Unlockers, Identity, memory, ids, history
<1>15. ASSUME NEW v \in Vaults, NEW written \in BOOLEAN,
              CreateVault(v, written)
       PROVE TypeOK'
  BY <1>15 DEF CreateVault, Readable, Stored, Identity, history
<1>16. ASSUME NEW v \in Vaults, NEW written \in BOOLEAN,
              DeleteVault(v, written)
       PROVE TypeOK'
  BY <1>16 DEF DeleteVault, Readable, Stored, Identity, ids, history
<1>17. ASSUME NEW deleted \in BOOLEAN, NEW removed \in BOOLEAN,
              Reset(deleted, removed)
       PROVE TypeOK'
  BY <1>17 DEF Reset, Readable, Stored, ids
<1>18. ASSUME ExportBackup PROVE TypeOK'
  BY <1>18 DEF ExportBackup, Readable, disk, memory, ids, history
<1>19. ASSUME NEW b \in backups, NEW removed \in BOOLEAN, NEW ok \in BOOLEAN,
              NEW written \in BOOLEAN, ImportBackup(b, removed, ok, written)
       PROVE TypeOK'
  BY <1>19 DEF ImportBackup, StoreInChain, Stored, ids
<1>20. ASSUME Restart PROVE TypeOK'
  BY <1>20 DEF Restart, MemoryLost, disk, ids
<1>21. ASSUME CrashWhileSaving PROVE TypeOK'
  BY <1>21 DEF CrashWhileSaving, MemoryLost, ids
<1>22. ASSUME NEW u \in Uuids, KeychainLoses(u) PROVE TypeOK'
  BY <1>22 DEF KeychainLoses, memory, ids
<1>23. ASSUME UNCHANGED vars PROVE TypeOK'
  BY <1>23 DEF vars, disk, memory, ids, history
<1> QED
  BY <1>2, <1>3, <1>4, <1>5, <1>6, <1>7, <1>8, <1>9, <1>10, <1>11, <1>12,
     <1>13, <1>14, <1>15, <1>16, <1>17, <1>18, <1>19, <1>20, <1>21, <1>22,
     <1>23 DEF Next

\* Every variable keeps its type through every command, crash and keychain
\* loss.
THEOREM TypeCorrect == Spec => []TypeOK
  BY TypeInit, TypeNext, PTL DEF Spec

-----------------------------------------------------------------------------
\* The inductive invariant.

\* Uuids are given out once: what a prompt, a file or a backup names was.
UuidsUsed ==
    /\ Readable => file.uuid \in usedUuids
    /\ identity # Locked => identity.uuid \in usedUuids
    /\ unlock # NoUnlockers => unlock.uuid \in usedUuids
    /\ \A t \in Tasks : prompts[t] # Idle => prompts[t].snap.uuid \in usedUuids
    /\ \A b \in backups : b.uuid \in usedUuids

\* An enrolment still waiting for its prompt began behind a password.
EnrolBehindPassword ==
    \A t \in Tasks :
        /\ prompts[t] # Idle /\ prompts[t].kind = "enrol"
        /\ Readable /\ prompts[t].snap.uuid = file.uuid
        /\ file.uuid \notin rolledBack
        => file.pw # "none"

HeldWhileLocked == userHeld => identity = Locked

KInv ==
    /\ TypeOK
    /\ KeyMatchesFile
    /\ UuidsUsed
    /\ EnrolBehindPassword
    /\ PasswordBehindDevice
    /\ NeverNeither
    /\ HeldWhileLocked
    /\ LockHolds

LEMMA KInvInit == Init => KInv
  BY TypeInit DEF Init, KInv, KeyMatchesFile, UuidsUsed, EnrolBehindPassword,
     PasswordBehindDevice, NeverNeither, HeldWhileLocked, LockHolds, Readable,
     Guarded, HasPassword

\* The key in memory follows the file.
LEMMA KeyMatchesFileNext == KInv /\ [Next]_vars => KeyMatchesFile'
<1> SUFFICES ASSUME KInv, Next PROVE KeyMatchesFile'
  BY DEF KeyMatchesFile, Readable, vars, disk, memory, KInv
<1> USE DEF KInv, KeyMatchesFile, Readable
<1>1. ASSUME NEW u \in Uuids, NEW k \in Keys, NEW pw \in Passwords,
             NEW ok \in BOOLEAN, NEW written \in BOOLEAN,
             NewIdentity(u, k, pw, ok, written)
      PROVE KeyMatchesFile'
  BY <1>1 DEF NewIdentity
<1>2. ASSUME NEW ok \in BOOLEAN, KeychainOpens(ok), file' = file
      PROVE KeyMatchesFile'
  BY <1>2 DEF KeychainOpens, OpenWithPassword, Load
<1>3. ASSUME NEW ok \in BOOLEAN, NEW opened \in BOOLEAN, Unlock(ok, opened)
      PROVE KeyMatchesFile'
  BY <1>3 DEF Unlock, OpenWithPassword, Load
<1>4. ASSUME NEW ok \in BOOLEAN, Resume(ok) PROVE KeyMatchesFile'
  BY <1>2, <1>4 DEF Resume
<1>5. ASSUME NEW t \in Tasks, NEW opened \in BOOLEAN, NEW deleted \in BOOLEAN,
             NEW written \in BOOLEAN, FinishOpen(t, opened, deleted, written)
      PROVE KeyMatchesFile'
  BY <1>5 DEF FinishOpen, Load, KeyBelongs, memory
<1>6. ASSUME \/ \E pw \in Passwords : ChangePassword(pw)
             \/ \E v \in Vaults, written \in BOOLEAN : CreateVault(v, written)
             \/ \E v \in Vaults, written \in BOOLEAN : DeleteVault(v, written)
      PROVE KeyMatchesFile'
  BY <1>6 DEF ChangePassword, CreateVault, DeleteVault, memory
<1>7. ASSUME \/ Hold \/ Restart \/ CrashWhileSaving
             \/ \E deleted, removed \in BOOLEAN : Reset(deleted, removed)
             \/ \E b \in backups, removed, ok, written \in BOOLEAN :
                   ImportBackup(b, removed, ok, written)
      PROVE KeyMatchesFile'
  BY <1>7 DEF Hold, Restart, CrashWhileSaving, MemoryLost, Reset, ImportBackup
<1>8. ASSUME UNCHANGED <<file, identity>> PROVE KeyMatchesFile'
  BY <1>8
<1>9. ASSUME \/ \E t \in Tasks : StartEnrol(t) \/ StartOpen(t) \/ CancelPrompt(t)
             \/ ExportBackup
      PROVE UNCHANGED <<file, identity>>
  BY <1>9 DEF StartEnrol, StartOpen, CancelPrompt, ExportBackup, disk, memory
<1>10. ASSUME NEW t \in Tasks, NEW s \in Seals, NEW written \in BOOLEAN,
              FinishEnrol(t, s, written)
       PROVE UNCHANGED <<file, identity>>
  BY <1>10 DEF FinishEnrol, memory
<1>11. ASSUME NEW s \in Seals, NEW ok \in BOOLEAN, NEW written \in BOOLEAN,
              RemoveMethod(s, ok, written)
       PROVE UNCHANGED <<file, identity>>
  BY <1>11 DEF RemoveMethod, memory
<1>12. ASSUME NEW u \in Uuids, KeychainLoses(u)
       PROVE UNCHANGED <<file, identity>>
  BY <1>12 DEF KeychainLoses, memory
<1>13. ASSUME \/ \E u \in Uuids, k \in Keys, pw \in Passwords,
                    ok, written \in BOOLEAN : InitIdentity(u, k, pw, ok, written)
              \/ \E u \in Uuids, k \in Keys, ok, written \in BOOLEAN :
                    ImportIdentity(u, k, ok, written)
       PROVE KeyMatchesFile'
  BY <1>1, <1>13 DEF InitIdentity, ImportIdentity, Passwords
<1>14. ASSUME NEW ok \in BOOLEAN, AutoUnlock(ok) PROVE KeyMatchesFile'
  BY <1>2, <1>14 DEF AutoUnlock
<1>15. Next
  OBVIOUS
<1> HIDE DEF KInv, KeyMatchesFile, Readable
<1> QED
  BY <1>3, <1>4, <1>5, <1>6, <1>7, <1>8, <1>9, <1>10, <1>11, <1>12, <1>13,
     <1>14, <1>15 DEF Next

\* A lock by the user stays in force: both of its parts.
LEMMA LockNext ==
    KInv /\ [Next]_vars => HeldWhileLocked' /\ LockHolds'
<1> SUFFICES ASSUME KInv, [Next]_vars PROVE HeldWhileLocked' /\ LockHolds'
  OBVIOUS
<1> DEFINE Goal == HeldWhileLocked' /\ LockHolds'
<1>0. HeldWhileLocked /\ LockHolds /\ (userHeld => identity = Locked)
  BY DEF KInv, HeldWhileLocked
<1>1. ASSUME UNCHANGED <<file, identity, held, userHeld>> PROVE Goal
  BY <1>0, <1>1 DEF HeldWhileLocked, LockHolds, HasPassword, Readable
<1>2. ASSUME userHeld' = FALSE PROVE Goal
  BY <1>2 DEF HeldWhileLocked, LockHolds
<1>3. ASSUME UNCHANGED <<identity, held, userHeld>>, identity # Locked
      PROVE Goal
  BY <1>0, <1>3 DEF HeldWhileLocked, LockHolds
<1>4. ASSUME \/ \E u \in Uuids, k \in Keys, pw \in Passwords,
                   ok, written \in BOOLEAN : InitIdentity(u, k, pw, ok, written)
             \/ \E u \in Uuids, k \in Keys, ok, written \in BOOLEAN :
                   ImportIdentity(u, k, ok, written)
      PROVE Goal
  BY <1>2, <1>4 DEF InitIdentity, ImportIdentity, NewIdentity
<1>5. ASSUME NEW ok \in BOOLEAN, NEW opened \in BOOLEAN, Unlock(ok, opened)
      PROVE Goal
  BY <1>2, <1>5 DEF Unlock, OpenWithPassword, Load
<1>6. ASSUME NEW ok \in BOOLEAN, AutoUnlock(ok) PROVE Goal
  BY <1>2, <1>6 DEF AutoUnlock, KeychainOpens, OpenWithPassword, Load
<1>7. ASSUME NEW ok \in BOOLEAN, Resume(ok) PROVE Goal
  <2>1. CASE KeychainOpens(ok)
    BY <1>2, <2>1 DEF KeychainOpens, OpenWithPassword, Load
  <2>2. CASE ~KeychainOpens(ok)
    <3>1. ~HasPassword'
      BY <1>7 DEF Resume, ResumeRefused, HasPassword, Readable
    <3>2. UNCHANGED <<identity, userHeld>>
      BY <1>7, <2>2 DEF Resume
    <3> QED
      BY <1>0, <3>1, <3>2 DEF HeldWhileLocked, LockHolds
  <2> QED
    BY <2>1, <2>2
<1>8. ASSUME Hold PROVE Goal
  BY <1>8 DEF Hold, HeldWhileLocked, LockHolds
<1>9. ASSUME \/ \E pw \in Passwords : ChangePassword(pw)
             \/ \E v \in Vaults, written \in BOOLEAN : CreateVault(v, written)
      PROVE Goal
  BY <1>3, <1>9 DEF ChangePassword, CreateVault, memory, history
<1>10. ASSUME NEW v \in Vaults, NEW written \in BOOLEAN,
              DeleteVault(v, written)
       PROVE Goal
  <2>1. CASE identity # Locked
    BY <1>3, <1>10, <2>1 DEF DeleteVault, history
  <2>2. CASE identity = Locked
    BY <1>1, <1>10, <2>2 DEF DeleteVault, history
  <2> QED
    BY <2>1, <2>2
<1>11. ASSUME \/ \E t \in Tasks : StartEnrol(t) \/ StartOpen(t) \/ CancelPrompt(t)
              \/ \E t \in Tasks, s \in Seals, written \in BOOLEAN :
                    FinishEnrol(t, s, written)
              \/ ExportBackup
       PROVE Goal
  BY <1>1, <1>11 DEF StartEnrol, StartOpen, CancelPrompt, FinishEnrol,
     ExportBackup, disk, memory, history
<1>12. ASSUME NEW t \in Tasks, NEW opened \in BOOLEAN, NEW deleted \in BOOLEAN,
              NEW written \in BOOLEAN, FinishOpen(t, opened, deleted, written)
       PROVE Goal
  BY <1>1, <1>2, <1>12 DEF FinishOpen, Load, memory
<1>13. ASSUME \/ \E s \in Seals, ok, written \in BOOLEAN :
                    RemoveMethod(s, ok, written)
              \/ \E u \in Uuids : KeychainLoses(u)
       PROVE Goal
  BY <1>1, <1>13 DEF RemoveMethod, KeychainLoses, memory, history
<1>14. ASSUME \/ Restart \/ CrashWhileSaving
              \/ \E deleted, removed \in BOOLEAN : Reset(deleted, removed)
              \/ \E b \in backups, removed, ok, written \in BOOLEAN :
                    ImportBackup(b, removed, ok, written)
       PROVE Goal
  BY <1>2, <1>14 DEF Restart, CrashWhileSaving, MemoryLost, Reset, ImportBackup
<1>15. ASSUME UNCHANGED vars PROVE Goal
  BY <1>1, <1>15 DEF vars, disk, memory, history
<1> HIDE DEF Goal
<1>16. Goal
  BY <1>4, <1>5, <1>6, <1>7, <1>8, <1>9, <1>10, <1>11, <1>12, <1>13, <1>14,
     <1>15 DEF Next
<1> QED
  BY <1>16 DEF Goal

\* A uuid given out stays given out.
LEMMA UuidsUsedNext == KInv /\ [Next]_vars => UuidsUsed'
<1> SUFFICES ASSUME KInv, [Next]_vars PROVE UuidsUsed'
  OBVIOUS
<1>0. /\ TypeOK /\ UuidsUsed
      /\ SentinelsAssumption
  BY SentinelsAssumption DEF KInv
<1>1. ASSUME UNCHANGED <<file, identity, unlock, prompts, backups, usedUuids>>
      PROVE UuidsUsed'
  BY <1>0, <1>1 DEF UuidsUsed, Readable
<1>2. ASSUME NEW u \in Uuids, NEW k \in Keys, NEW pw \in Passwords,
             NEW ok \in BOOLEAN, NEW written \in BOOLEAN,
             NewIdentity(u, k, pw, ok, written)
      PROVE UuidsUsed'
  BY <1>0, <1>2 DEF NewIdentity, UuidsUsed, Readable
<1>3. ASSUME \/ \E u \in Uuids, k \in Keys, pw \in Passwords,
                   ok, written \in BOOLEAN : InitIdentity(u, k, pw, ok, written)
             \/ \E u \in Uuids, k \in Keys, ok, written \in BOOLEAN :
                   ImportIdentity(u, k, ok, written)
      PROVE UuidsUsed'
  BY <1>2, <1>3 DEF InitIdentity, ImportIdentity, Passwords
<1>4. ASSUME Readable, NEW way, NEW k, Load(way, k),
             UNCHANGED <<file, unlock, prompts, backups, usedUuids>>
      PROVE UuidsUsed'
  BY <1>0, <1>4 DEF UuidsUsed, Readable, Load
<1>5. ASSUME NEW ok \in BOOLEAN, NEW opened \in BOOLEAN, Unlock(ok, opened)
      PROVE UuidsUsed'
  BY <1>4, <1>5 DEF Unlock, OpenWithPassword, ids
<1>6. ASSUME NEW ok \in BOOLEAN, AutoUnlock(ok) PROVE UuidsUsed'
  BY <1>4, <1>6 DEF AutoUnlock, KeychainOpens, OpenWithPassword, ids
<1>7. ASSUME NEW ok \in BOOLEAN, Resume(ok) PROVE UuidsUsed'
  BY <1>1, <1>4, <1>7 DEF Resume, KeychainOpens, OpenWithPassword, ids
<1>8. ASSUME \/ \E pw \in Passwords : ChangePassword(pw)
             \/ \E v \in Vaults, written \in BOOLEAN : CreateVault(v, written)
             \/ \E v \in Vaults, written \in BOOLEAN : DeleteVault(v, written)
      PROVE UuidsUsed'
  BY <1>0, <1>8 DEF ChangePassword, CreateVault, DeleteVault, UuidsUsed,
     Readable, memory, ids
<1>9. ASSUME NEW t \in Tasks, StartEnrol(t) PROVE UuidsUsed'
  <2>1. prompts'[t].snap.uuid \in usedUuids
    BY <1>0, <1>9 DEF StartEnrol, EnrolAllowed, NewUnlockers, UuidsUsed, TypeOK
  <2> QED
    BY <1>0, <1>9, <2>1 DEF StartEnrol, UuidsUsed, Readable, TypeOK, disk,
       memory, ids
<1>10. ASSUME NEW t \in Tasks, StartOpen(t) PROVE UuidsUsed'
  <2>1. prompts'[t].snap.uuid \in usedUuids
    BY <1>0, <1>10 DEF StartOpen, Guarded, UuidsUsed, TypeOK
  <2> QED
    BY <1>0, <1>10, <2>1 DEF StartOpen, UuidsUsed, Readable, TypeOK, disk,
       memory, ids
<1>11. ASSUME NEW t \in Tasks, NEW s \in Seals, NEW written \in BOOLEAN,
              FinishEnrol(t, s, written)
       PROVE UuidsUsed'
  <2>1. prompts[t].snap \in Unlockers
    BY <1>0, <1>11 DEF FinishEnrol, TypeOK, Prompt
  <2>2. AddSeal(prompts[t].snap, s).uuid \in usedUuids
    BY <1>0, <1>11, <2>1 DEF FinishEnrol, AddSeal, Unlockers, UuidsUsed
  <2>3. unlock' # NoUnlockers => unlock'.uuid \in usedUuids
    BY <1>0, <1>11, <2>2 DEF FinishEnrol, UuidsUsed
  <2> QED
    BY <1>0, <1>11, <2>3 DEF FinishEnrol, UuidsUsed, Readable, TypeOK, memory
<1>12. ASSUME NEW t \in Tasks, NEW opened \in BOOLEAN, NEW deleted \in BOOLEAN,
              NEW written \in BOOLEAN, FinishOpen(t, opened, deleted, written)
       PROVE UuidsUsed'
  <2>1. unlock' # NoUnlockers => unlock'.uuid \in usedUuids
    BY <1>0, <1>12 DEF FinishOpen, Guarded, UuidsUsed, TypeOK, Unlockers
  <2>2. \A p \in Tasks :
           prompts'[p] # Idle => prompts'[p].snap.uuid \in usedUuids
    BY <1>0, <1>12 DEF FinishOpen, UuidsUsed, TypeOK
  <2>3. identity' # Locked => identity'.uuid \in usedUuids
    BY <1>0, <1>12 DEF FinishOpen, KeyBelongs, Readable, Load, memory,
       UuidsUsed
  <2> QED
    BY <1>0, <1>12, <2>1, <2>2, <2>3 DEF FinishOpen, UuidsUsed, Readable, ids
<1>13. ASSUME NEW t \in Tasks, CancelPrompt(t) PROVE UuidsUsed'
  BY <1>0, <1>13 DEF CancelPrompt, UuidsUsed, Readable, TypeOK, disk, memory,
     ids
<1>14. ASSUME NEW s \in Seals, NEW ok \in BOOLEAN, NEW written \in BOOLEAN,
              RemoveMethod(s, ok, written)
       PROVE UuidsUsed'
  <2>1. unlock' # NoUnlockers => unlock'.uuid \in usedUuids
    BY <1>0, <1>14 DEF RemoveMethod, Guarded, UuidsUsed, TypeOK, Unlockers
  <2> QED
    BY <1>0, <1>14, <2>1 DEF RemoveMethod, UuidsUsed, Readable, memory, ids
<1>15. ASSUME ExportBackup PROVE UuidsUsed'
  BY <1>0, <1>15 DEF ExportBackup, UuidsUsed, Readable, disk, memory, ids
<1>16. ASSUME \/ Hold \/ Restart \/ CrashWhileSaving
              \/ \E deleted, removed \in BOOLEAN : Reset(deleted, removed)
       PROVE UuidsUsed'
  BY <1>0, <1>16 DEF Hold, Restart, CrashWhileSaving, MemoryLost, Reset,
     UuidsUsed, Readable, disk, ids
<1>17. ASSUME NEW b \in backups, NEW removed \in BOOLEAN, NEW ok \in BOOLEAN,
              NEW written \in BOOLEAN, ImportBackup(b, removed, ok, written)
       PROVE UuidsUsed'
  BY <1>0, <1>17 DEF ImportBackup, UuidsUsed, Readable, ids
<1>18. ASSUME NEW u \in Uuids, KeychainLoses(u) PROVE UuidsUsed'
  BY <1>1, <1>18 DEF KeychainLoses, memory, ids
<1>19. ASSUME UNCHANGED vars PROVE UuidsUsed'
  BY <1>1, <1>19 DEF vars, disk, memory, ids
<1> QED
  BY <1>3, <1>5, <1>6, <1>7, <1>8, <1>9, <1>10, <1>11, <1>12, <1>13, <1>14,
     <1>15, <1>16, <1>17, <1>18, <1>19 DEF Next

\* A device method, on disk or being added, has a password behind it.
LEMMA PasswordNext ==
    KInv /\ [Next]_vars => EnrolBehindPassword' /\ PasswordBehindDevice'
<1> SUFFICES ASSUME KInv, [Next]_vars
             PROVE  EnrolBehindPassword' /\ PasswordBehindDevice'
  OBVIOUS
<1> DEFINE Goal == EnrolBehindPassword' /\ PasswordBehindDevice'
<1>0. TypeOK /\ UuidsUsed /\ KeyMatchesFile /\ EnrolBehindPassword
      /\ PasswordBehindDevice
  BY DEF KInv
<1>1. ASSUME UNCHANGED <<file, unlock, prompts, rolledBack>> PROVE Goal
  BY <1>0, <1>1 DEF EnrolBehindPassword, PasswordBehindDevice, Guarded, Readable
<1>2. ASSUME Readable => file.pw # "none", UNCHANGED file,
             rolledBack' = rolledBack
      PROVE Goal
  BY <1>2 DEF EnrolBehindPassword, PasswordBehindDevice, Guarded, Readable
<1>3. ASSUME ~Readable' PROVE Goal
  BY <1>3 DEF EnrolBehindPassword, PasswordBehindDevice, Guarded
<1>4. ASSUME NEW u \in Uuids, NEW k \in Keys, NEW pw \in Passwords,
             NEW ok \in BOOLEAN, NEW written \in BOOLEAN,
             NewIdentity(u, k, pw, ok, written)
      PROVE Goal
  <2>1. CASE ~written
    BY <1>3, <1>4, <2>1 DEF NewIdentity, Readable
  <2>2. CASE written
    <3>1. file'.uuid = u /\ u \notin usedUuids
      BY <1>4, <2>2 DEF NewIdentity
    <3> QED
      BY <1>0, <1>4, <3>1 DEF NewIdentity, UuidsUsed, EnrolBehindPassword,
         PasswordBehindDevice, Guarded
  <2> QED
    BY <2>1, <2>2
<1>5. ASSUME \/ \E u \in Uuids, k \in Keys, pw \in Passwords,
                   ok, written \in BOOLEAN : InitIdentity(u, k, pw, ok, written)
             \/ \E u \in Uuids, k \in Keys, ok, written \in BOOLEAN :
                   ImportIdentity(u, k, ok, written)
      PROVE Goal
  BY <1>4, <1>5 DEF InitIdentity, ImportIdentity, Passwords
<1>6. ASSUME \/ \E ok, opened \in BOOLEAN : Unlock(ok, opened)
             \/ \E ok \in BOOLEAN : AutoUnlock(ok) \/ Resume(ok)
             \/ Hold
             \/ ExportBackup
             \/ \E u \in Uuids : KeychainLoses(u)
      PROVE Goal
  BY <1>1, <1>6 DEF Unlock, AutoUnlock, Resume, Hold, ExportBackup,
     KeychainLoses, disk, memory, history
<1>7. ASSUME NEW pw \in Passwords, ChangePassword(pw) PROVE Goal
  BY <1>0, <1>7 DEF ChangePassword, KeyMatchesFile, EnrolBehindPassword,
     PasswordBehindDevice, Guarded, Readable, memory, history
<1>8. ASSUME \/ \E v \in Vaults, written \in BOOLEAN : CreateVault(v, written)
             \/ \E v \in Vaults, written \in BOOLEAN : DeleteVault(v, written)
      PROVE Goal
  <2>1. UNCHANGED <<unlock, prompts, rolledBack>>
    BY <1>8 DEF CreateVault, DeleteVault, history
  <2>2. \/ UNCHANGED file
        \/ Readable /\ file'.uuid = file.uuid /\ file'.pw = file.pw
    BY <1>0, <1>8 DEF CreateVault, DeleteVault, KeyMatchesFile
  <2> QED
    BY <1>0, <1>1, <2>1, <2>2 DEF EnrolBehindPassword, PasswordBehindDevice,
       Guarded
<1>9. ASSUME NEW t \in Tasks, StartEnrol(t) PROVE Goal
  BY <1>2, <1>9 DEF StartEnrol, EnrolAllowed, HasPassword, disk, history
<1>10. ASSUME NEW t \in Tasks, StartOpen(t) PROVE Goal
  BY <1>0, <1>10 DEF StartOpen, EnrolBehindPassword, PasswordBehindDevice,
     Guarded, Readable, TypeOK, disk, history
<1>11. ASSUME NEW t \in Tasks, NEW s \in Seals, NEW written \in BOOLEAN,
              FinishEnrol(t, s, written)
       PROVE Goal
  <2>1. prompts[t].snap \in Unlockers
    BY <1>0, <1>11 DEF FinishEnrol, TypeOK, Prompt
  <2>2. AddSeal(prompts[t].snap, s).uuid = prompts[t].snap.uuid
    BY <2>1 DEF AddSeal, Unlockers
  <2>3. EnrolBehindPassword'
    BY <1>0, <1>11 DEF FinishEnrol, EnrolBehindPassword, Readable, TypeOK,
       history
  <2>4. CASE unlock' = unlock
    BY <1>0, <1>11, <2>3, <2>4 DEF FinishEnrol, PasswordBehindDevice, Guarded,
       Readable, history
  <2>5. CASE unlock' # unlock
    <3>1. unlock'.uuid = prompts[t].snap.uuid
      BY <1>11, <2>2, <2>5 DEF FinishEnrol
    <3>2. Readable /\ file.uuid = prompts[t].snap.uuid
            /\ file.uuid \notin rolledBack => file.pw # "none"
      BY <1>0, <1>11 DEF FinishEnrol, EnrolBehindPassword
    <3> QED
      BY <1>11, <2>3, <3>1, <3>2 DEF FinishEnrol, PasswordBehindDevice,
         Guarded, Readable, history
  <2> QED
    BY <2>4, <2>5
<1>12. ASSUME NEW t \in Tasks, NEW opened \in BOOLEAN, NEW deleted \in BOOLEAN,
              NEW written \in BOOLEAN, FinishOpen(t, opened, deleted, written)
       PROVE Goal
  <2>1. UNCHANGED <<file, rolledBack>> /\ prompts' = [prompts EXCEPT ![t] = Idle]
    BY <1>12 DEF FinishOpen
  <2>2. \/ UNCHANGED unlock
        \/ /\ unlock # NoUnlockers
           /\ unlock'.uuid = unlock.uuid /\ unlock'.seals = unlock.seals
    BY <1>0, <1>12 DEF FinishOpen, Guarded, TypeOK, Unlockers
  <2>3. EnrolBehindPassword'
    BY <1>0, <2>1 DEF EnrolBehindPassword, Readable, TypeOK
  <2>4. PasswordBehindDevice'
    BY <1>0, <2>1, <2>2 DEF PasswordBehindDevice, Guarded, Readable
  <2> QED
    BY <2>3, <2>4
<1>13. ASSUME NEW t \in Tasks, CancelPrompt(t) PROVE Goal
  BY <1>0, <1>13 DEF CancelPrompt, EnrolBehindPassword, PasswordBehindDevice,
     Guarded, Readable, TypeOK, disk, history
<1>14. ASSUME NEW s \in Seals, NEW ok \in BOOLEAN, NEW written \in BOOLEAN,
              RemoveMethod(s, ok, written)
       PROVE Goal
  <2>1. UNCHANGED <<file, prompts, rolledBack>> /\ Guarded
    BY <1>14 DEF RemoveMethod, memory, history
  <2>2. EnrolBehindPassword'
    BY <1>0, <2>1 DEF EnrolBehindPassword, Readable
  <2>3. PasswordBehindDevice'
    BY <1>0, <2>1 DEF PasswordBehindDevice, Guarded, Readable
  <2> QED
    BY <2>2, <2>3
<1>15. ASSUME Restart PROVE Goal
  BY <1>0, <1>15 DEF Restart, MemoryLost, EnrolBehindPassword,
     PasswordBehindDevice, Guarded, Readable, disk
<1>16. ASSUME CrashWhileSaving PROVE Goal
  BY <1>3, <1>16 DEF CrashWhileSaving, Readable
<1>17. ASSUME NEW deleted \in BOOLEAN, NEW removed \in BOOLEAN,
              Reset(deleted, removed)
       PROVE Goal
  BY <1>1, <1>3, <1>17 DEF Reset, Readable
<1>18. ASSUME NEW b \in backups, NEW removed \in BOOLEAN, NEW ok \in BOOLEAN,
              NEW written \in BOOLEAN, ImportBackup(b, removed, ok, written)
       PROVE Goal
  <2>1. CASE ~(file = NoFile \/ removed)
    BY <1>1, <1>18, <2>1 DEF ImportBackup
  <2>2. CASE file = NoFile \/ removed
    <3>1. file' = (IF written THEN b ELSE NoFile) /\ b.uuid \in rolledBack'
      BY <1>18, <2>2 DEF ImportBackup
    <3>2. Readable' => file'.uuid \in rolledBack'
      BY <3>1 DEF Readable
    <3> QED
      BY <3>2 DEF EnrolBehindPassword, PasswordBehindDevice, Guarded
  <2> QED
    BY <2>1, <2>2
<1>19. ASSUME UNCHANGED vars PROVE Goal
  BY <1>1, <1>19 DEF vars, disk, memory, history
<1> HIDE DEF Goal
<1>20. Goal
  BY <1>5, <1>6, <1>7, <1>8, <1>9, <1>10, <1>11, <1>12, <1>13, <1>14, <1>15,
     <1>16, <1>17, <1>18, <1>19 DEF Next
<1> QED
  BY <1>20 DEF Goal

\* Neither copy gone without the other.
LEMMA NeverNeitherNext == KInv /\ [Next]_vars => NeverNeither'
<1> SUFFICES ASSUME KInv, [Next]_vars PROVE NeverNeither'
  OBVIOUS
<1>0. TypeOK /\ KeyMatchesFile /\ NeverNeither
  BY DEF KInv
<1>1. ASSUME UNCHANGED <<file, unlock>>, chain \subseteq chain' \cup excused',
             excused \subseteq excused'
      PROVE NeverNeither'
  BY <1>0, <1>1 DEF NeverNeither, Guarded, Readable
<1>2. ASSUME ~Readable' PROVE NeverNeither'
  BY <1>2 DEF NeverNeither
<1>3. ASSUME NEW u \in Uuids, NEW k \in Keys, NEW pw \in Passwords,
             NEW ok \in BOOLEAN, NEW written \in BOOLEAN,
             NewIdentity(u, k, pw, ok, written)
      PROVE NeverNeither'
  BY <1>3 DEF NewIdentity, StoreInChain, NeverNeither, Readable
<1>4. ASSUME \/ \E u \in Uuids, k \in Keys, pw \in Passwords,
                   ok, written \in BOOLEAN : InitIdentity(u, k, pw, ok, written)
             \/ \E u \in Uuids, k \in Keys, ok, written \in BOOLEAN :
                   ImportIdentity(u, k, ok, written)
      PROVE NeverNeither'
  BY <1>3, <1>4 DEF InitIdentity, ImportIdentity, Passwords
<1>5. ASSUME \/ \E ok, opened \in BOOLEAN : Unlock(ok, opened)
             \/ \E ok \in BOOLEAN : AutoUnlock(ok) \/ Resume(ok)
      PROVE NeverNeither'
  <2>1. UNCHANGED <<file, unlock>>
    BY <1>5 DEF Unlock, AutoUnlock, Resume
  <2>2. chain \subseteq chain' /\ excused \subseteq excused'
    BY <1>5 DEF Unlock, AutoUnlock, Resume, KeychainOpens, OpenWithPassword,
       StoreInChain
  <2> QED
    BY <1>1, <2>1, <2>2
<1>6. ASSUME \/ Hold \/ Restart \/ ExportBackup
             \/ \E t \in Tasks : StartEnrol(t) \/ StartOpen(t) \/ CancelPrompt(t)
      PROVE NeverNeither'
  BY <1>1, <1>6 DEF Hold, Restart, ExportBackup, StartEnrol, StartOpen,
     CancelPrompt, disk, history
<1>7. ASSUME \/ \E pw \in Passwords : ChangePassword(pw)
             \/ \E v \in Vaults, written \in BOOLEAN : CreateVault(v, written)
             \/ \E v \in Vaults, written \in BOOLEAN : DeleteVault(v, written)
      PROVE NeverNeither'
  <2>1. UNCHANGED <<unlock, chain, excused>>
    BY <1>7 DEF ChangePassword, CreateVault, DeleteVault, history
  <2>2. UNCHANGED file \/ (Readable /\ file'.uuid = file.uuid)
    BY <1>0, <1>7 DEF ChangePassword, CreateVault, DeleteVault, KeyMatchesFile
  <2>3. Readable' => Readable
    BY <2>2 DEF Readable
  <2> QED
    BY <1>0, <2>1, <2>2, <2>3 DEF NeverNeither, Guarded
<1>8. ASSUME NEW t \in Tasks, NEW s \in Seals, NEW written \in BOOLEAN,
             FinishEnrol(t, s, written)
      PROVE NeverNeither'
  <2>1. UNCHANGED <<file, chain, excused>>
    BY <1>8 DEF FinishEnrol, history
  <2>2. CASE unlock' = unlock
    BY <1>1, <2>1, <2>2
  <2>3. CASE unlock' # unlock
    <3>1. prompts[t].snap \in Unlockers
      BY <1>0, <1>8 DEF FinishEnrol, TypeOK, Prompt
    <3>2. /\ unlock' \in Unlockers /\ s \in unlock'.seals
          /\ unlock'.uuid = prompts[t].snap.uuid
      BY <1>8, <2>3, <3>1 DEF FinishEnrol, AddSeal, Unlockers
    <3>3. Readable => file.uuid = unlock'.uuid
      BY <1>0, <1>8, <2>3, <3>2 DEF FinishEnrol, KeyMatchesFile
    <3> QED
      BY <2>1, <3>2, <3>3, SentinelsAssumption DEF NeverNeither, Guarded,
         Readable
  <2> QED
    BY <2>2, <2>3
<1>9. ASSUME NEW t \in Tasks, NEW opened \in BOOLEAN, NEW deleted \in BOOLEAN,
             NEW written \in BOOLEAN, FinishOpen(t, opened, deleted, written)
      PROVE NeverNeither'
  <2>1. CASE UNCHANGED <<unlock, chain>>
    BY <1>1, <1>9, <2>1 DEF FinishOpen
  <2>2. CASE ~UNCHANGED <<unlock, chain>>
    <3>1. Guarded /\ file' = file
      BY <1>9, <2>2 DEF FinishOpen
    <3>2. unlock' \in Unlockers /\ unlock'.uuid = unlock.uuid
          /\ unlock'.seals = unlock.seals
      BY <1>0, <1>9, <3>1 DEF FinishOpen, Guarded, TypeOK, Unlockers
    <3> QED
      BY <3>1, <3>2, SentinelsAssumption DEF NeverNeither, Guarded, Readable
  <2> QED
    BY <2>1, <2>2
<1>10. ASSUME NEW s \in Seals, NEW ok \in BOOLEAN, NEW written \in BOOLEAN,
              RemoveMethod(s, ok, written)
       PROVE NeverNeither'
  <2>1. UNCHANGED <<file, excused>> /\ Guarded /\ Readable /\ chain \subseteq chain'
    BY <1>10 DEF RemoveMethod, Guarded, history
  <2>2. CASE unlock' = unlock
    BY <1>1, <2>1, <2>2
  <2>3. CASE unlock' # unlock /\ unlock.seals = {s}
    <3>1. identity.uuid \in chain'
      BY <1>10, <2>3 DEF RemoveMethod, LastFileGone
    <3>2. identity.uuid = file.uuid
      BY <1>0, <1>10, <2>1 DEF RemoveMethod, KeyMatchesFile
    <3> QED
      BY <2>1, <3>1, <3>2 DEF NeverNeither
  <2>4. CASE unlock' # unlock /\ unlock.seals # {s}
    <3>1. unlock' = [unlock EXCEPT !.seals = @ \ {s}] /\ s \in unlock.seals
      BY <1>10, <2>4 DEF RemoveMethod
    <3>2. unlock' \in Unlockers /\ unlock'.uuid = unlock.uuid
          /\ unlock'.seals # {}
      BY <1>0, <2>1, <2>4, <3>1 DEF Guarded, TypeOK, Unlockers
    <3> QED
      BY <2>1, <3>2, SentinelsAssumption DEF NeverNeither, Guarded, Readable
  <2> QED
    BY <2>2, <2>3, <2>4
<1>11. ASSUME NEW deleted \in BOOLEAN, NEW removed \in BOOLEAN,
              Reset(deleted, removed)
       PROVE NeverNeither'
  <2>1. CASE removed
    BY <1>2, <1>11, <2>1 DEF Reset, Readable
  <2>2. CASE ~removed
    <3>1. UNCHANGED <<file, unlock>>
      BY <1>11, <2>2 DEF Reset
    <3>2. chain \subseteq chain' \cup excused' /\ excused \subseteq excused'
      BY <1>11 DEF Reset
    <3> QED
      BY <1>1, <3>1, <3>2
  <2> QED
    BY <2>1, <2>2
<1>12. ASSUME NEW b \in backups, NEW removed \in BOOLEAN, NEW ok \in BOOLEAN,
              NEW written \in BOOLEAN, ImportBackup(b, removed, ok, written)
       PROVE NeverNeither'
  <2>1. CASE UNCHANGED <<chain, excused, file>>
    BY <1>1, <1>12, <2>1 DEF ImportBackup
  <2>2. CASE StoreInChain(b.uuid, ok) /\ file' = IF written THEN b ELSE NoFile
    BY <2>2 DEF StoreInChain, NeverNeither, Readable
  <2> QED
    BY <1>12, <2>1, <2>2 DEF ImportBackup
<1>13. ASSUME CrashWhileSaving PROVE NeverNeither'
  BY <1>2, <1>13 DEF CrashWhileSaving, Readable
<1>14. ASSUME NEW u \in Uuids, KeychainLoses(u) PROVE NeverNeither'
  BY <1>1, <1>14 DEF KeychainLoses
<1>15. ASSUME UNCHANGED vars PROVE NeverNeither'
  BY <1>1, <1>15 DEF vars, disk, history
<1> QED
  BY <1>4, <1>5, <1>6, <1>7, <1>8, <1>9, <1>10, <1>11, <1>12, <1>13, <1>14,
     <1>15 DEF Next

LEMMA KInvNext == KInv /\ [Next]_vars => KInv'
<1> SUFFICES ASSUME KInv, [Next]_vars PROVE KInv'
  OBVIOUS
<1>1. TypeOK'
  BY TypeNext DEF KInv
<1>2. KeyMatchesFile' /\ UuidsUsed' /\ NeverNeither'
  BY KeyMatchesFileNext, UuidsUsedNext, NeverNeitherNext
<1>3. EnrolBehindPassword' /\ PasswordBehindDevice'
  BY PasswordNext
<1>4. HeldWhileLocked' /\ LockHolds'
  BY LockNext
<1> QED
  BY <1>1, <1>2, <1>3, <1>4 DEF KInv

LEMMA KInvAlways == Spec => []KInv
  BY KInvInit, KInvNext, PTL DEF Spec

\* Whatever runs while a prompt is up, the key in memory is the file's.
THEOREM KeyAlwaysMatchesFile == Spec => []KeyMatchesFile
<1>1. KInv => KeyMatchesFile
  BY DEF KInv
<1> QED
  BY <1>1, KInvAlways, PTL

\* A device method never becomes the only way in by itself: unlock_enrolment's
\* check survives the prompt, resets, imports and crashes.
THEOREM PasswordAlwaysBehindDevice == Spec => []PasswordBehindDevice
<1>1. KInv => PasswordBehindDevice
  BY DEF KInv
<1> QED
  BY <1>1, KInvAlways, PTL

\* remove_unlocker's "never a moment with neither", for any number of methods
\* and overlapping prompts, with every keychain and file write failing freely.
THEOREM NeverNeitherHolds == Spec => []NeverNeither
<1>1. KInv => NeverNeither
  BY DEF KInv
<1> QED
  BY <1>1, KInvAlways, PTL

\* With a master password set the user's lock is not lost to a failed unlock.
THEOREM LockAlwaysHolds == Spec => []LockHolds
<1>1. KInv => LockHolds
  BY DEF KInv
<1> QED
  BY <1>1, KInvAlways, PTL

\* One step of OnlyUserOpens.
LEMMA OnlyUserOpensStep ==
    ASSUME KInv, Next, identity = Locked, identity' # Locked,
           Guarded \/ (userHeld /\ HasPassword)
    PROVE  openedBy' \in {"password", "device"}
<1>1. Readable /\ file # NoFile
  BY DEF Guarded, HasPassword, Readable
<1>2. ~AutoRefused => ~HasPassword \/ ~userHeld
  BY DEF KInv, LockHolds, AutoRefused
<1>3. ASSUME NEW u, NEW k, NEW pw, NEW ok, NEW written,
             NewIdentity(u, k, pw, ok, written)
      PROVE FALSE
  BY <1>1, <1>3 DEF NewIdentity
<1>4. ASSUME NEW ok \in BOOLEAN, NEW opened \in BOOLEAN, Unlock(ok, opened)
      PROVE openedBy' = "password"
  BY <1>4 DEF Unlock, OpenWithPassword, Load
<1>5. ASSUME NEW ok \in BOOLEAN, AutoUnlock(ok) PROVE FALSE
  BY <1>2, <1>5 DEF AutoUnlock, AutoRefused
<1>6. ASSUME NEW ok \in BOOLEAN, Resume(ok) PROVE FALSE
  BY <1>6 DEF Resume, ResumeRefused
<1>7. ASSUME NEW t \in Tasks, NEW opened \in BOOLEAN, NEW deleted \in BOOLEAN,
             NEW written \in BOOLEAN, FinishOpen(t, opened, deleted, written)
      PROVE openedBy' = "device"
  BY <1>7 DEF FinishOpen, Load, memory
<1>8. ASSUME \/ Hold \/ Restart \/ CrashWhileSaving \/ ExportBackup
             \/ \E pw \in Passwords : ChangePassword(pw)
             \/ \E t \in Tasks : StartEnrol(t) \/ StartOpen(t) \/ CancelPrompt(t)
             \/ \E t \in Tasks, s \in Seals, written \in BOOLEAN :
                   FinishEnrol(t, s, written)
             \/ \E v \in Vaults, written \in BOOLEAN :
                   CreateVault(v, written) \/ DeleteVault(v, written)
      PROVE FALSE
  BY <1>8 DEF Hold, Restart, CrashWhileSaving, MemoryLost, ExportBackup,
     ChangePassword, StartEnrol, StartOpen, CancelPrompt, FinishEnrol,
     CreateVault, DeleteVault, disk, memory
<1>9. ASSUME \/ \E s \in Seals, ok, written \in BOOLEAN :
                   RemoveMethod(s, ok, written)
             \/ \E deleted, removed \in BOOLEAN : Reset(deleted, removed)
             \/ \E b \in backups, removed, ok, written \in BOOLEAN :
                   ImportBackup(b, removed, ok, written)
             \/ \E u \in Uuids : KeychainLoses(u)
      PROVE FALSE
  BY <1>9 DEF RemoveMethod, Reset, ImportBackup, KeychainLoses, memory
<1> QED
  BY <1>3, <1>4, <1>5, <1>6, <1>7, <1>8, <1>9
     DEF Next, InitIdentity, ImportIdentity

\* With a master password set, or a device method on, only the password or a
\* method opens a locked vault.
THEOREM OnlyUserAlwaysOpens == Spec => OnlyUserOpens
<1>1. KInv /\ [Next]_vars
      => [ /\ identity = Locked /\ identity' # Locked
           /\ Guarded \/ (userHeld /\ HasPassword)
           => openedBy' \in {"password", "device"} ]_vars
  BY OnlyUserOpensStep
<1> QED
  BY <1>1, KInvAlways, PTL DEF Spec, OnlyUserOpens
=============================================================================
