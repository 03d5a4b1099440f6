------------------------------ MODULE VaultKeys ------------------------------
(***************************************************************************)
(* The life of the vault's identity key: the identity file                 *)
(* (vault_identity.json), its copy in the OS keychain, the device unlock   *)
(* methods (vault_unlock.json), the key in memory and the user's lock.     *)
(* Source: vault/manager.rs, vault/biometric.rs, ipc/vault_commands.rs.    *)
(*                                                                         *)
(* Every manager call runs under the vault_manager mutex, so it is one     *)
(* action here.  The exceptions are the commands that show a device        *)
(* prompt: they read the unlock file, release the mutex while the prompt   *)
(* is up and come back with what they read (variable prompts).             *)
(*                                                                         *)
(* Cryptography is abstracted to who holds which key: a password, a        *)
(* keychain entry or a seal gives back the key it was made from.  A wrong  *)
(* password or a refused prompt changes nothing and is no action.          *)
(***************************************************************************)
EXTENDS Naturals

CONSTANTS
    Uuids,        \* identity uuids (uuid v4: each is given out once)
    Keys,         \* X25519 secret keys
    Seals,        \* seal ids (uuid v4 as well)
    PlatformSeals,\* those of the platform biometric: at most one is kept
    Tasks,        \* device prompts that can be up at the same time
    Vaults,       \* user-created vaults
    NoFile, TornFile,     \* identity file absent / cut short by a crash
    NoUnlockers,          \* vault_unlock.json absent
    Locked,               \* no identity and no KEK in memory
    NoUuid,               \* no user uuid in memory
    Idle                  \* a task with no prompt up

Passwords == {"none", "empty", "set"}   \* "none": sealed copy never written

Identity  == [uuid: Uuids, key: Keys]
Stored    == [uuid: Uuids, key: Keys, pw: Passwords, vaults: SUBSET Vaults]
\* The seals of one file all hold the key of the identity it names.
Unlockers == [uuid: Uuids, key: Keys, proven: BOOLEAN, seals: SUBSET Seals]
Prompt    == [kind: {"enrol", "open"}, snap: Unlockers]
Ways      == {"nothing", "new", "password", "keychain", "device"}

ASSUME SentinelsAssumption ==
    /\ NoFile \notin Stored /\ TornFile \notin Stored /\ NoFile # TornFile
    /\ NoUnlockers \notin Unlockers
    /\ Locked \notin Identity
    /\ NoUuid \notin Uuids
    /\ Idle \notin Prompt

ASSUME PlatformAssumption == PlatformSeals \subseteq Seals

VARIABLES
    file,         \* vault_identity.json
    chain,        \* the uuids whose key the OS keychain holds
    unlock,       \* vault_unlock.json
    identity,     \* the identity and KEK in memory, or Locked
    userUuid,     \* VaultManager::user_uuid, which a lock keeps
    userVaults,   \* VaultManager::user_vaults
    held,         \* VaultManager::held
    prompts,      \* what each device prompt in flight has read
    usedUuids, usedKeys, usedSeals, usedVaults,  \* random ids made so far
    backups,      \* identities inside exported backups
    \* History, read by the properties only:
    userHeld,     \* the user locked, and has not opened since
    openedBy,     \* what last put a key in memory
    excused,      \* uuids whose keychain copy the OS lost or refused
    rolledBack    \* uuids whose file a backup put back to an older state

disk    == <<file, chain, unlock>>
memory  == <<identity, userUuid, userVaults, held>>
ids     == <<usedUuids, usedKeys, usedSeals, usedVaults>>
history == <<userHeld, openedBy, excused, rolledBack>>
vars    == <<disk, memory, prompts, ids, backups, history>>

TypeOK ==
    /\ file \in Stored \cup {NoFile, TornFile}
    /\ chain \subseteq Uuids
    /\ unlock \in Unlockers \cup {NoUnlockers}
    /\ identity \in Identity \cup {Locked}
    /\ userUuid \in Uuids \cup {NoUuid}
    /\ userVaults \subseteq Vaults
    /\ held \in BOOLEAN
    /\ prompts \in [Tasks -> Prompt \cup {Idle}]
    /\ usedUuids \subseteq Uuids /\ usedKeys \subseteq Keys
    /\ usedSeals \subseteq Seals /\ usedVaults \subseteq Vaults
    /\ backups \subseteq Stored
    /\ userHeld \in BOOLEAN
    /\ openedBy \in Ways
    /\ excused \subseteq Uuids
    /\ rolledBack \subseteq Uuids

Init ==
    /\ file = NoFile
    /\ chain = {}
    /\ unlock = NoUnlockers
    /\ identity = Locked
    /\ userUuid = NoUuid
    /\ userVaults = {}
    /\ held = FALSE
    /\ prompts = [t \in Tasks |-> Idle]
    /\ usedUuids = {} /\ usedKeys = {} /\ usedSeals = {} /\ usedVaults = {}
    /\ backups = {}
    /\ userHeld = FALSE
    /\ openedBy = "nothing"
    /\ excused = {} /\ rolledBack = {}

-----------------------------------------------------------------------------
\* Reading the files.

Readable == file \notin {NoFile, TornFile}

\* unlockers(): the file's methods, when they belong to this identity.
Guarded == /\ Readable
           /\ unlock # NoUnlockers
           /\ unlock.uuid = file.uuid
           /\ unlock.seals # {}

\* has_password(): a copy sealed with the empty password is no password.
HasPassword == Readable /\ file.pw = "set"

IsHeld == held \/ (identity = Locked /\ Guarded)

\* store_key_in_keychain: the OS may refuse; an entry already there stays.
StoreInChain(u, stored) ==
    /\ chain' = IF stored THEN chain \cup {u} ELSE chain
    /\ excused' = IF stored THEN excused ELSE excused \cup {u}

\* What every way of opening puts in memory before it opens the vaults; a
\* vault that then fails to open turns the call into an error but takes
\* none of this back.
Load(way, key) ==
    /\ identity' = [uuid |-> file.uuid, key |-> key]
    /\ userUuid' = file.uuid
    /\ userVaults' = file.vaults
    /\ openedBy' = way
    /\ userHeld' = FALSE

-----------------------------------------------------------------------------
\* The identity: made, imported, opened, locked.

\* A new identity's file: the user vaults still in memory are written too.
NewIdentity(u, k, pw, stored, written) ==
    /\ file = NoFile
    /\ u \notin usedUuids
    /\ usedUuids' = usedUuids \cup {u}
    /\ usedKeys' = usedKeys \cup {k}
    /\ identity' = [uuid |-> u, key |-> k]
    /\ userUuid' = u
    /\ StoreInChain(u, stored)
    /\ file' = IF written
               THEN [uuid |-> u, key |-> k, pw |-> pw, vaults |-> userVaults]
               ELSE NoFile
    /\ openedBy' = "new"
    /\ userHeld' = FALSE
    /\ UNCHANGED <<unlock, userVaults, held, prompts, usedSeals, usedVaults,
                   backups,
                   rolledBack>>

InitIdentity(u, k, pw, stored, written) ==
    /\ pw \in {"empty", "set"}
    /\ k \notin usedKeys
    /\ NewIdentity(u, k, pw, stored, written)

\* The exported key comes back under a new uuid, with no password.
ImportIdentity(u, k, stored, written) ==
    NewIdentity(u, k, "none", stored, written)

\* unlock_with_password, without the `held` of its callers.
OpenWithPassword(way, stored) ==
    /\ Load(way, file.key)
    /\ IF Guarded THEN UNCHANGED <<chain, excused>>
                  ELSE StoreInChain(file.uuid, stored)

\* `opened` is FALSE when a vault failed to open after the key was loaded.
Unlock(stored, opened) ==
    /\ Readable
    /\ file.pw # "none"
    /\ OpenWithPassword("password", stored)
    /\ held' = (held /\ ~opened)
    /\ UNCHANGED <<file, unlock, prompts, ids, backups, rolledBack>>

\* The body of auto_unlock once it is not refused: the keychain's key, or,
\* when the keychain has lost it or cannot be reached, the empty password.
KeychainOpens(stored) ==
    /\ Readable
    /\ \/ /\ file.uuid \in chain
          /\ Load("keychain", file.key)
          /\ UNCHANGED <<chain, excused>>
       \/ /\ file.pw = "empty"
          /\ OpenWithPassword("keychain", stored)

AutoRefusedByHold == held
AutoRefused == held \/ Guarded

AutoUnlock(stored) ==
    /\ ~AutoRefused
    /\ KeychainOpens(stored)
    /\ UNCHANGED <<file, unlock, held, prompts, ids, backups, rolledBack>>

\* The unlock button.  The hold is lifted first and comes back only when
\* auto_unlock answers Ok(false); an error leaves it lifted.
ResumeRefusedByMethods == Guarded
ResumeRefused == HasPassword

Resume(stored) ==
    /\ ~ResumeRefused
    /\ \/ /\ Guarded
          /\ held' = TRUE
          /\ UNCHANGED <<identity, userUuid, userVaults, chain, excused,
                         openedBy, userHeld>>
       \/ /\ ~Guarded
          /\ held' = FALSE
          /\ KeychainOpens(stored)
       \/ /\ ~Guarded          \* no file, or the keychain answered an error
          /\ held' = FALSE
          /\ UNCHANGED <<identity, userUuid, userVaults, chain, excused,
                         openedBy, userHeld>>
    /\ UNCHANGED <<file, unlock, prompts, ids, backups, rolledBack>>

Hold ==
    /\ identity' = Locked
    /\ held' = TRUE
    /\ userHeld' = TRUE
    /\ UNCHANGED <<disk, userUuid, userVaults, prompts, ids, backups,
                   openedBy, excused, rolledBack>>

\* change_password.  The file's other fields are written from memory.
ChangePassword(pw) ==
    /\ pw \in {"empty", "set"}
    /\ identity # Locked
    /\ Readable
    /\ file' = [uuid |-> identity.uuid, key |-> identity.key, pw |-> pw,
                vaults |-> userVaults]
    /\ UNCHANGED <<chain, unlock, memory, prompts, ids, backups, history>>

-----------------------------------------------------------------------------
\* Device unlock methods.

NewUnlockers(i) == [uuid |-> i.uuid, key |-> i.key, proven |-> FALSE,
                    seals |-> {}]

EnrolWhileOpen == identity # Locked
EnrolAllowed == HasPassword /\ identity # Locked

\* unlock_enrolment, then the mutex is released and the prompt comes up.
StartEnrol(t) ==
    /\ prompts[t] = Idle
    /\ EnrolAllowed
    /\ prompts' = [prompts EXCEPT ![t] =
           [kind |-> "enrol",
            snap |-> IF unlock # NoUnlockers /\ unlock.uuid = identity.uuid
                     THEN unlock ELSE NewUnlockers(identity)]]
    /\ UNCHANGED <<disk, memory, ids, backups, history>>

AddSeal(u, s) ==
    [u EXCEPT !.seals =
        (IF s \in PlatformSeals THEN @ \ PlatformSeals ELSE @) \cup {s}]

\* The prompt made seal s: save_unlockers writes what was read before the
\* prompt, with the seal added.  A lock meanwhile, another identity or a
\* failed write drops the seal.
FinishEnrol(t, s, written) ==
    /\ prompts[t] # Idle /\ prompts[t].kind = "enrol"
    /\ s \in Seals \ usedSeals
    /\ usedSeals' = usedSeals \cup {s}
    /\ prompts' = [prompts EXCEPT ![t] = Idle]
    /\ unlock' = IF /\ identity # Locked
                    /\ identity.uuid = prompts[t].snap.uuid
                    /\ written
                 THEN AddSeal(prompts[t].snap, s) ELSE unlock
    /\ UNCHANGED <<file, chain, memory, usedUuids, usedKeys, usedVaults,
                   backups, history>>

StartOpen(t) ==
    /\ prompts[t] = Idle
    /\ Guarded
    /\ prompts' = [prompts EXCEPT ![t] = [kind |-> "open", snap |-> unlock]]
    /\ UNCHANGED <<disk, memory, ids, backups, history>>

KeyOfAny(t) == Readable
KeyBelongs(t) == Readable /\ prompts[t].snap.key = file.key

\* The method released its key: unlock_with_device.  The key must be this
\* identity's.  The first real opening removes the keychain copy and marks
\* the methods proven; either write may fail, in that order.
FinishOpen(t, opened, deleted, written) ==
    /\ prompts[t] # Idle /\ prompts[t].kind = "open"
    /\ prompts' = [prompts EXCEPT ![t] = Idle]
    /\ \/ /\ KeyBelongs(t)
          /\ Load("device", prompts[t].snap.key)
          /\ held' = (held /\ ~opened)
          /\ LET prove == opened /\ Guarded /\ ~unlock.proven /\ deleted IN
             /\ chain' = IF prove THEN chain \ {file.uuid} ELSE chain
             /\ unlock' = IF prove /\ written
                          THEN [unlock EXCEPT !.proven = TRUE] ELSE unlock
       \/ /\ ~KeyBelongs(t)
          /\ UNCHANGED <<chain, unlock, memory, userHeld, openedBy>>
    /\ UNCHANGED <<file, ids, backups, excused, rolledBack>>

CancelPrompt(t) ==
    /\ prompts[t] # Idle
    /\ prompts' = [prompts EXCEPT ![t] = Idle]
    /\ UNCHANGED <<disk, memory, ids, backups, history>>

LastFileGoneAnyway(stored, written) == written
LastFileGone(stored, written) == stored /\ written

\* remove_unlocker.  The last method: the key goes back in the keychain
\* (or nothing is removed), and only then the file goes.
RemoveMethod(s, stored, written) ==
    /\ identity # Locked
    /\ Guarded
    /\ s \in unlock.seals
    /\ IF unlock.seals = {s}
       THEN /\ chain' = IF stored THEN chain \cup {identity.uuid} ELSE chain
            /\ unlock' = IF LastFileGone(stored, written)
                         THEN NoUnlockers ELSE unlock
       ELSE /\ unlock' = IF written THEN [unlock EXCEPT !.seals = @ \ {s}]
                                    ELSE unlock
            /\ UNCHANGED chain
    /\ UNCHANGED <<file, memory, prompts, ids, backups, history>>

-----------------------------------------------------------------------------
\* User vaults, reset, backups.

\* create_vault's part in the identity file; a failed write is a warning.
CreateVault(v, written) ==
    /\ identity # Locked
    /\ v \notin usedVaults
    /\ usedVaults' = usedVaults \cup {v}
    /\ userVaults' = userVaults \cup {v}
    /\ file' = IF Readable /\ written
               THEN [uuid |-> identity.uuid, key |-> identity.key,
                     pw |-> file.pw, vaults |-> userVaults']
               ELSE file
    /\ UNCHANGED <<chain, unlock, identity, userUuid, held, prompts,
                   usedUuids, usedKeys, usedSeals, backups, history>>

\* delete_vault's part: while locked the file cannot be saved.
DeleteVault(v, written) ==
    /\ v \in userVaults
    /\ userVaults' = userVaults \ {v}
    /\ file' = IF identity # Locked /\ Readable /\ written
               THEN [uuid |-> identity.uuid, key |-> identity.key,
                     pw |-> file.pw, vaults |-> userVaults']
               ELSE file
    /\ UNCHANGED <<chain, unlock, identity, userUuid, held, prompts, ids,
                   backups, history>>

\* reset.  A keychain entry that cannot be removed is a warning; an identity
\* file that cannot be is an error, after memory was cleared.
Reset(deleted, removed) ==
    LET mine == ({userUuid} \cap Uuids)
                  \cup (IF Readable THEN {file.uuid} ELSE {}) IN
    /\ chain' = IF deleted THEN chain \ mine ELSE chain
    /\ excused' = excused \cup mine
    /\ identity' = Locked
    /\ userUuid' = NoUuid
    /\ file' = IF removed THEN NoFile ELSE file
    /\ userHeld' = FALSE
    /\ UNCHANGED <<unlock, userVaults, held, prompts, ids, backups, openedBy,
                   rolledBack>>

ExportBackup ==
    /\ identity # Locked
    /\ Readable
    /\ backups' = backups \cup {file}
    /\ UNCHANGED <<disk, memory, prompts, ids, history>>

\* import_full_backup replaces the identity file: memory is cleared, the old
\* file removed, the key stored and the new file written, any of which may
\* fail.  It leaves vault_unlock.json and `held` alone.
ImportBackup(b, removed, stored, written) ==
    /\ identity' = Locked
    /\ userUuid' = NoUuid
    /\ userVaults' = {}
    /\ userHeld' = FALSE
    /\ IF file = NoFile \/ removed
       THEN /\ StoreInChain(b.uuid, stored)
            /\ file' = IF written THEN b ELSE NoFile
            /\ rolledBack' = rolledBack \cup {b.uuid}
       ELSE UNCHANGED <<chain, excused, file, rolledBack>>
    /\ UNCHANGED <<unlock, held, prompts, ids, backups, openedBy>>

-----------------------------------------------------------------------------
\* The world.

\* Reach ends, by itself or by a crash: memory and prompts go.
MemoryLost ==
    /\ identity' = Locked
    /\ userUuid' = NoUuid
    /\ userVaults' = {}
    /\ held' = FALSE
    /\ prompts' = [t \in Tasks |-> Idle]
    /\ userHeld' = FALSE

Restart ==
    /\ MemoryLost
    /\ UNCHANGED <<disk, ids, backups, openedBy, excused, rolledBack>>

\* save_identity and import_full_backup truncate the file, then write it.
CrashWhileSaving ==
    /\ identity # Locked \/ backups # {}
    /\ MemoryLost
    /\ file' = TornFile
    /\ UNCHANGED <<chain, unlock, ids, backups, openedBy, excused, rolledBack>>

\* A reboot empties the Linux kernel keyring; its keys also expire.
KeychainLoses(u) ==
    /\ u \in chain
    /\ chain' = chain \ {u}
    /\ excused' = excused \cup {u}
    /\ UNCHANGED <<file, unlock, memory, prompts, ids, backups, userHeld,
                   openedBy, rolledBack>>

Next ==
    \/ \E u \in Uuids, k \in Keys, pw \in Passwords, ok, written \in BOOLEAN :
          InitIdentity(u, k, pw, ok, written)
    \/ \E u \in Uuids, k \in Keys, ok, written \in BOOLEAN :
          ImportIdentity(u, k, ok, written)
    \/ \E ok, opened \in BOOLEAN : Unlock(ok, opened)
    \/ \E ok \in BOOLEAN : AutoUnlock(ok)
    \/ \E ok \in BOOLEAN : Resume(ok)
    \/ Hold
    \/ \E pw \in Passwords : ChangePassword(pw)
    \/ \E t \in Tasks : StartEnrol(t)
    \/ \E t \in Tasks, s \in Seals, written \in BOOLEAN :
          FinishEnrol(t, s, written)
    \/ \E t \in Tasks : StartOpen(t)
    \/ \E t \in Tasks, opened, deleted, written \in BOOLEAN :
          FinishOpen(t, opened, deleted, written)
    \/ \E t \in Tasks : CancelPrompt(t)
    \/ \E s \in Seals, ok, written \in BOOLEAN : RemoveMethod(s, ok, written)
    \/ \E v \in Vaults, written \in BOOLEAN : CreateVault(v, written)
    \/ \E v \in Vaults, written \in BOOLEAN : DeleteVault(v, written)
    \/ \E deleted, removed \in BOOLEAN : Reset(deleted, removed)
    \/ ExportBackup
    \/ \E b \in backups, removed, ok, written \in BOOLEAN :
          ImportBackup(b, removed, ok, written)
    \/ Restart
    \/ CrashWhileSaving
    \/ \E u \in Uuids : KeychainLoses(u)

Spec == Init /\ [][Next]_vars

-----------------------------------------------------------------------------
\* Properties.

\* The key in memory is the key of the identity on disk, whatever resets,
\* imports and restores ran while a device prompt was up: everything saved
\* under it (vaults, password copy, seals) can be opened again.
KeyMatchesFile ==
    identity # Locked /\ Readable
        => identity = [uuid |-> file.uuid, key |-> file.key]

\* "There is always a way in that does not depend on the device": while a
\* device method guards an identity, a password opens it too, unless a backup
\* of that identity was restored since.
PasswordBehindDevice ==
    Guarded /\ file.uuid \notin rolledBack => file.pw # "none"

\* "There is never a moment with neither": an identity whose keychain copy
\* Reach itself removed has a device method on disk.
NeverNeither ==
    Readable /\ file.uuid \notin chain \cup excused => Guarded

\* With a master password set, a lock by the user stays in force until the
\* user opens the vault, whatever fails in between.
LockHolds == userHeld /\ HasPassword => held

\* With a master password set, only the password or a device method undoes a
\* lock by the user; and with a method on, a start-up does not open either.
OnlyUserOpens ==
    [][ /\ identity = Locked /\ identity' # Locked
        /\ Guarded \/ (userHeld /\ HasPassword)
        => openedBy' \in {"password", "device"} ]_vars

\* "Turning a method on never takes away another way in": a step that adds a
\* seal keeps every other one but the platform seal it replaces.
TurningOnKeepsOthers ==
    [][ /\ Guarded /\ unlock' # NoUnlockers
        /\ unlock'.uuid = unlock.uuid
        /\ unlock'.seals \ usedSeals # {}
        => unlock.seals \ PlatformSeals \subseteq unlock'.seals ]_vars

\* "Reset vault - delete all local data and start fresh": nothing of the old
\* identity is left in memory for the next one's file.
ResetForgets == file = NoFile /\ userUuid = NoUuid => userVaults = {}
=============================================================================
