# Reach (CoreOps): a verification of its core

Reach is a Tauri desktop application for people who run servers: a Svelte
interface (`src/src/lib`) over a Rust backend (`src/src-tauri/src`).  It keeps
credentials in an encrypted vault that can be synced through Turso, opens SSH,
SFTP, RDP, VNC, serial and local terminals, forwards ports, runs Ansible and
OpenTofu, browses databases, containers and clusters, and can share a terminal
with an AI client over MCP or with another device over WebRTC.

This directory holds TLA+ models of the parts of it whose correctness depends
on the *order* of things, the TLC configurations that check them on small
instances, and TLAPS proofs of what holds for every instance.  `PROJECT.json`
maps every definition to the lines it was translated from.

Contents: [1 The system](#1-the-system) ·
[2 The modules](#2-the-modules-and-the-code) ·
[3 The runs](#3-the-runs) · [4 The proofs](#4-the-proofs) ·
[5 What disagrees](#5-where-code-and-words-disagree) ·
[6 What is left out](#6-what-is-not-modelled) · [7 The plan](#7-the-plan)

## 1 The system

The backend's managers (vault, SSH, PTY, tunnels, plugins, MCP, ...) are values
in `AppState` (`state.rs`), each behind a tokio `Mutex` or `RwLock`.  An IPC
command locks a manager, calls it, unlocks and answers.  One manager call is
therefore atomic to every other one.  What can go wrong is what happens
*between* calls: a command that releases its lock to wait for a person, a
server or a device and comes back with what it had read; background tasks that
report through events and channels; and a process that may end between two
writes.  Paths below are relative to `src/src-tauri/src` unless they begin with
`src/`.

### Components modelled

| Component | State it keeps | Operations | What is hard | What makes it correct |
|---|---|---|---|---|
| **Vault identity and unlocking**: `vault/manager.rs`, `vault/biometric.rs`, `ipc/vault_commands.rs` | `vault_identity.json`, `vault_unlock.json`, the OS keychain, the key in memory, `held`, the list of user vaults | create, import, unlock by password, auto-unlock, resume, hold, change password, enrol, open with or remove a device method, create or delete a vault, reset, back up, restore | device prompts run outside the mutex; key, file and keychain change one after the other and each may fail; crashes cut files short | the key in memory is the file's; a lock holds; only the user opens; always a way in |
| **A vault's local copy**: `vault/manager.rs`, `vault/cache.rs`, the timer in `lib.rs` | the vault's key and rows in memory, the sealed file beside it, Turso's tables | open, unlock, lock, close, accept, delete, write a secret, share, refresh | a refresh reads Turso without the mutex; statements time out and may still arrive; a member may be removed meanwhile | nothing is shown that Turso never held; nothing is readable while locked; gone stays gone; the copy catches up |
| **MCP write gate**: `mcp/state.rs`, `session.rs`, `guard.rs`, `tools.rs`, `ipc/mcp_commands.rs` | shared sessions, what each client described and read, agents and modes, the dialog and the typing | share, unshare, start, stop, choose agent and mode, describe, read, send | two locks one after the other, mirror tasks in any order, a dialog open for minutes, a stop beside calls | what a client met in an earlier sharing never counts; nothing runs unasked unless open to it |
| **SSH terminal sessions**: `ssh/client.rs`, `ipc/ssh_commands.rs`, `Terminal.svelte`, `SessionList.svelte`, `tabs.svelte.ts`, `+page.svelte` | registered connections, one task per session with its inbox and backlog, tabs and their listeners | connect, cancel, reconnect, ready, close, tab clean-up | the task runs before anyone listens; exit, ready, cancel, close and reconnect cross | the screen is the output from its start; a tab is down only when it is; no connection is forgotten |
| **Host keys and the connect limit**: `ssh/client.rs`, `ssh/hostkeys.rs`, `ssh/hostkey_update.rs`, `ssh/knownhosts` | `known_hosts.json`, OpenSSH's files, open questions | check a key, ask, record it, update the keys a server announces, limit a connect | the file is read, a person is asked, the whole file is written back; a clock that stands still while anybody is asked | nobody is trusted whom no one vouched for; what was accepted is remembered; every connect ends |
| **Logging in**: `ssh/userauth.rs`, the cascade of `ssh/client.rs` | the identities, the methods used up, the stored password, the counts | offer keys, ask for a passphrase, send or type a password, answer questions, Kerberos, host keys | the server chooses order and repetitions; two methods share one stored password | it goes out once; nobody is asked more than the settings say |
| **ControlMaster**: `ssh/control.rs` | masters by path, weak and kept handles | find, ask, register, share, keep, reap | the reaper beside new sessions; a closed master that is still listed | a session shares only a connection to its own server, agreed to; an idle master goes |
| **Tunnels and forwarding**: `tunnel/manager.rs`, `ipc/tunnel_commands.rs`, `ssh/forwarding.rs`, `vendor/russh` | running listeners, settings with an `active` flag, a relay's two directions | create, start, stop, accept, relay, close | two locks; windows, buffers and a loop that serves all channels | the flag agrees with the listeners; what one end sent, the other gets, then the end |
| **Password managers' passphrase**: `pwmanager/unlock.rs`, `prompt.rs`, `mod.rs` | the kept passphrase with its generation, the open question | obtain, ask, join, reject, forget | several operations on threads; forgetting takes two locks | asked once for all who need it |
| **DevOps targets**: `devops.rs`, `devops_store.rs`, `db/store.rs`, `container/mod.rs`, `k8s/mod.rs` and their commands | saved hosts, clusters, databases in memory and vault; open connections; the switches | save, delete, open, log, switch off, lock, reset | no lock while it connects, then a write of what was read before | what was saved is what is used; off means off |
| **Database connections**: `db/conn.rs`, `db/mod.rs`, `db/backup.rs`, `ipc/db_commands.rs` | a pool, a session for each tab, a job | run, stop, close a tab, back up, disconnect, turn off | a session goes back to the pool when neither its tab nor a call holds it | tabs never share a session; Stop stops its own statement; off ends |
| **File transfers and archives**: `sftp/transfer.rs`, `sftp/archive.rs`, `ipc/sftp_commands.rs`, `FileExplorer.svelte` | a channel for each transfer, the file written, copies to drag out; the archive under way | upload, download, drag, cancel; compress, extract, cancel | a channel may end at any message; a cancel removes what it believes the operation made | complete means whole; failed leaves nothing; nobody else's file goes |
| **Terminals shared with another person**: `state/share.svelte.ts`, `share/peer.ts`, `ShareDialog.svelte` | the share on the screen, the peer, the output's listener; in each peer its connection, channel and time limit | start, join, paste the reply, end, cancel, turn off; frames both ways | every start, connection and frame is awaited, and a peer's callbacks do not say whose they are | nothing of one share reaches the next |
| **OpenTofu's plans**: `tofu/runner.rs`, `ipc/tofu_commands.rs`, `state/tofu.svelte.ts`, `TofuWorkspace.svelte` | runs, the saved plan of each project, the gate | plan, apply, discard, switch target or project | runs outlive the view that started them | what is applied was shown; what was discarded is not applied |

The parts meet as follows.  The identity's key opens every vault's key, so a
lock in the first component empties the second (`LockApp` and `UnlockApp` of
VaultCache stand for what VaultKeys details).  An SSH session's task mirrors its
output to the MCP state (`Emit`, `Push` of McpWrites) and takes what the gate
lets through in its inbox (`Type`).  Sessions, snippets and settings are secrets
of a vault: their writes are VaultCache's; a saved target's are the internal
vault's, which Targets keeps as `vault`.  A connect of SshSessions is, inside,
an attempt of HostTrust and then a login of UserAuth for each of its hops, and
before that a session of Masters; its connection carries the channels of Relay, which a listener of
Tunnels opens, and those of Transfers and Archives.  A database or cluster that
Targets opens through SSH uses the same relay.

### Components not modelled

| Component | State and operations | What is hard there | What would make it correct |
|---|---|---|---|
| SSH configuration, kinds of keys: `ssh/sshconf`, `keyfile.rs`, `pkcs11.rs`, `sk.rs`, `gssapi.rs` | none between calls | parsing, foreign libraries | first value wins |
| X11, tun devices, session logs: `ssh/x11.rs`, `tun.rs`, `sessionlog.rs` | a display or a device for each session | platform calls | nothing left behind |
| Ansible, tool chain: `ansible/`, `toolchain/` | one running command for each project | as OpenTofu, without a saved plan | never two runs of one project |
| Local terminals, serial, RDP, VNC: `pty/`, `serial/`, `rdp/`, `vnc/` | a thread or task for each session | as for SSH sessions | as for SSH sessions |
| What containers, clusters and monitors show: `container/`, `k8s/`, `monitoring/` | polled, parsed output | little | parsers |
| Database statements: `db/guard.rs`, `db/dialect` | none | text of many dialects | a read-only connection never writes |
| Plugins and recipes: `plugin/`, `recipe/` | installed code, hooks with a timeout | hooks of one session in the wrong order | isolation |
| Vault cryptography and transport: `crypto.rs`, `kdf.rs`, `turso_*.rs`, `deadline.rs` | none between calls | cryptography | opens exactly what it sealed (assumed here) |
| MCP server and protocol: `mcp/server.rs`, `protocol.rs`, `redact.rs` | the listener and its token | parsing | no request without the token |
| Interface, themes, logs, reports, updates, vendored crates, registry, scripts, docs | – | – | not part of the core logic |

## 2 The modules and the code

| Module | What it is |
|---|---|
| `VaultKeys` | the identity's life; `VaultKeysProofs` its theorems, `MCVaultKeys` its instances |
| `SealedCopy` | what a vault's local copy promises, without how it is kept |
| `VaultCache` | how it is kept; implements `SealedCopy`; `VaultCacheProofs`, `MCVaultCache` |
| `McpWrites`, `TerminalShare` | the MCP write gate; a terminal shared with another person; `MCMcpWrites` checks both, `TypingProofs` has their theorems |
| `SshSessions` | SSH sessions from connect to the tab's end; `SshSessionsProofs`, `MCSshSessions` |
| `HostTrust` | host keys, the questions, the connect limit; `HostTrustProofs`, `MCHostTrust` |
| `Masters`, `Passphrase` | ControlMaster, a manager's passphrase; `MCSharing` checks the two; their theorems are in `ConnectionProofs` |
| `UserAuth`, `Relay` | logging in on one hop; one forwarded connection and one terminal on a connection; `MCRelay` checks the two, `ConnectionProofs` has their theorems |
| `DbTabs` | one open database connection; `DbTabsProofs`, `MCDbTabs` |
| `Targets`, `Transfers`, `Archives`, `Tunnels`, `TofuRuns` | saved targets, files, archives, the Tunnels panel, OpenTofu's plans; `MCWork` checks the five, `MCTransfers` and `MCArchives` two by themselves; `WorkProofs` has the theorems about all five |

### VaultKeys

One action is one manager call, whole: the mutex makes it atomic.  The
exceptions are the commands that show a device prompt.  `StartEnrol` and
`StartOpen` read the unlock file and let go of the manager; `FinishEnrol` and
`FinishOpen` come back with what was read (`prompts[t].snap`), and any other
call may run in between.  Cryptography is "who holds which key": a password, a
keychain entry or a seal gives back the key it was made from.

- `file` is `vault_identity.json` (absent, readable or cut short), `unlock` is
  `vault_unlock.json`, `chain` the keychain, `identity` the key in memory,
  `held` the user's lock, `userVaults` the list in memory.
- Each write that may fail is a Boolean parameter of its action (`stored`,
  `written`, `deleted`), so that every prefix of a partly failing handler is
  a step.  `Restart` loses memory; `CrashWhileSaving` leaves a torn identity
  file, as `tokio::fs::write` in place can; `KeychainLoses` is the operating
  system dropping an entry.
- `backups` holds the identities in exported backups; `rolledBack` and
  `excused` are history that two properties read, `userHeld` and `openedBy`
  likewise.

### SealedCopy and VaultCache

`SealedCopy` says: the copy is rows Turso held or acknowledged at some time, it
is taken from the file only with the key, the file holds a copy this device had,
and a lock leaves nothing.  `VaultCache` is the code for one synced vault.

- `rows` and `member` are Turso; `late` the statements still on their way after
  a timeout; `op` the command holding the mutex and waiting for Turso, `fetch`
  the refresh, which does *not* hold it while it waits.
- A write is `Begin…`, its first run (`Arrives` in time, late or never), `Retry`
  on a new connection, `Fail` or `Return`.  Only `Return` edits the copy, and
  the file is written or not (`ok`; `behind` when not).
- `StartRefresh`, `ReadMember`, `ReadSecrets`, `ApplySnapshot` are the steps of
  `refresh_caches` and `fetch_snapshot`; the world may change between any two.
- `held`, `noop`, `mine`, `told` are history: what Turso held, updates that
  matched no row, this device's last write of a row, and that the saved copy
  has said this user was removed.

The refinement maps `said` to `held` and `noop`, `copy` to the rows in memory,
`saved` to the rows on disk and `key` to whether the identity is in memory.

### McpWrites

A request is a record that walks through `call_tool`: `Send` (parsing, and the
snapshot of the session's agent and mode), `Gate` (both locks held: the guard
and its refusals), `Decide` (locks let go; the global mode is read), `Prompt`
and `Answer`, `TakeSender`, `Type`, `Reply`.  `Describe` and `ReadOutput` are
whole calls.  `Unshare` and `Share` are two steps each, as the code takes two
locks; `Stop`, `StopGoesOn` walk through `mcp_stop`.  Output reaches the model in chunks
mirrored by tasks that run in any order (`Push`).  A command is its danger.
`met`, `fresh`, `overlapped`, `open` are history for the properties.

### TerminalShare

One machine's side, the other being what arrives.  `session`, `peer`, `listener`
are the variables of `share.svelte.ts`, of which there is one each; `rtc` holds a
`SharePeer` for every start that was ever made, because a peer that was let go
lives on until its connection, its gathering and its limit are over, and still
calls back.  `start` is where a start waits (the import of the sharing code, the
gathering), `attaching` a listener that is being installed, `opening` a frame
that is being decrypted.  `busy` is the dialog's, and another tab's dialog does
not share it (`OtherDialog`).  `Gathered` goes ten seconds after a gathering
began even if its connection was closed; `Finish` is the end of a close that
said bye.  `together` remembers that one share began before another had finished,
or ended while its listener was being installed.

### SshSessions

Each connection id goes through `connecting`, `spawned` (its task runs),
`registered`, `returned`.  `asker` is the dialog, a tab that reconnects, or a
dialog that was cancelled.  `task`, `inbox`, `ready`, `backlog`, `read` are
`ssh_session_task`; `said` and `ended` are the server; `tab` holds a tab with
the connection it is known by (`conn`), the one its terminal shows (`term`) and
how far its listeners are.  `shown` is what terminals received.  A chunk
of output is its number, so that a doubled, lost or swapped chunk is visible.
`flooded` marks the sessions whose backlog reached its cap before anyone asked.

### HostTrust

An attempt is one connect, through its hops in turn; `policy` holds the settings
it comes with (strict checking, hashed or plain files, whether keys are updated).
`Present` is the server's key, `CheckStore` and `CheckFiles` the two lookups with
all their refusals, `AskUser`, `Answer`, `Withdrawn` the question, whose oneshot
ends with the attempt that asked.  The answer's way to `known_hosts.json` is
`Answered` (the file is cut and rewritten from what was read), then `Fill` or
`FillFails`, since `fs::write` cuts first; a read between the two sees nothing.
`Tick` is one tick of `within_connect_limit`, which counts only while no question
of anybody is open.  `Announced` … `MoveLines` is `UpdateHostKeys`.  `read`,
`copy` are what was read earlier; `vouched`, `remembered`, `excused` are history.

### Masters, Tunnels, Passphrase

*Masters.*  An entry of a ControlPath holds a weak handle, and a strong one while
ControlPersist keeps it; a connection is open while somebody `Holders` holds it,
so no action closes one: `Alive` says so.  `FindsNone`, `FindsGone`, `FindsMaster`
are the outcomes of the lookup, `Alone` and `Answered` what the mode makes of
them.  `Reap` is the reaper's tick.

*Tunnels.*  A command runs in steps under different locks: `Start` reads the
settings, `StartRuns` makes the listener under the manager's lock,
`MarkStarted` sets the flag; `Stop`, `StopRuns`, `Stopped`, `MarkStopped`
likewise.  A port is taken from the listener's bind until its task has ended.

*Passphrase.*  `ReadsGeneration`, `Holds`, `Asks` or `Joins`, `Receives`,
`Rejects` are the stations of `obtain`, each under one lock; `Answer` is the
user, `Lands` the end of the question in the hub; `Forget` and `CancelAll` are
the two halves of forgetting.

### UserAuth

`login` is what the program logs in with; its `form` is `"config"` for
`authenticate`, which follows `ssh_config` settings, and `"own"` for
`cascade_authenticate`.  `Prepared` is the list of identities that `prepare`
makes: the session's key, the files that are not the same again, before each its
certificates, then the agent, which takes over a plain key that it holds and
adds what it holds besides.  `at` is where the login waits, `ToTry` the method
whose turn it is; `next` is where the list stands, `stored` whether the stored
password is still there.  The server is not modelled further: it takes or
refuses anything, names any methods next (`Remaining`), and asks in an exchange
whatever it likes.  `sent` and `asked` are history.

### Relay

One channel of a forward and one of a terminal.  `UpReads` … `UpSaysEnd` and
`DownReads` … `DownFails` are the two directions of either relay: in the form
`"tunnel"` they are one task and wait for each other (`Free`), in the form
`"forward"` two.  The session loop of `russh` takes a message from its queue
(`LoopSends`) or the wire (`LoopReceives`) and hands it to a channel's buffer; a
full buffer holds the loop (`hand`).  A chunk is a count, not a content.

### DbTabs

`slot` is the session of each tab's owner, `task` what each command is doing with
a connection.  A connection is in the pool when neither a slot nor a task holds
it (`Held`); `begun` follows it there.  `Given` is the way to a session: it
finds the tab's own, takes a free connection, makes one or waits.  A session that
is new is set up before it gets its slot: `Acquired` takes the connection, the
database, the server's id and the read-only setting follow (`settle`), and `Kept`
fills the slot, whatever became of the pool meanwhile; `late` remembers that it did
while the pool was closing.  A job sends a statement (`Sends`) and goes on when it
is `Answered`, which another's open transaction may put off (`Blocked`).  `Cancel`
takes a connection of its own to send the kill.  `TurnedOff` waits for the pool
with the manager's lock held (`LockFree`).

### Targets

A command holds vault and store together (one action) but not while it connects:
`k8s_open` and `ctr_open` read an entry, connect, and write the entry back.
`memory` is what the stores hold, `vault` what is saved, `live` the open
connections by the settings they were opened with.  A save deletes and makes
anew: `halved` remembers one that did only the first.  `Replace` is a vault that
is reset, made anew or restored, of which the stores are not told.

### Transfers and Archives

A transfer is the messages of its channel: data, end of file, status, close, in
the orders a server sends them, the connection's loss (`HearClose`,
`GoesWrong`) at any of them.  A file is the sequence of its lines, so that a cut,
mixed or removed file shows; `linked` is whether the open file is still the one
at its path.  `drag` is the explorer's cache of copies, `dropping` the upload it
waits for.

An archive operation settles on a name (`Resolve`), tells the explorer of it
(`Total`), writes (`Begins`) and ends; `Cancel` kills what it finds and one second
later `Removes` the name it was given.  `file` says who wrote what.

### TofuRuns

A plan is known by the run that made it.  `Click` is a button, `Taken` or
`Refused` the backend's answer, `Listens` the moment the view's listener stands,
`Starts` when the process reads its plan, `Ends` its end with its done event.
`view` is what the workspace shows, `Gate` whether it offers the plan.  `stray`
marks that a run outlived its view or ran on a server.

## 3 The runs

| Run | Instance | Distinct states | Shows |
|---|---|---|---|
| `keys_identity` | 2 identities and keys, a platform and a security-key seal, 1 prompt, 1 vault | 620,678 | `KeyMatchesFile`, `LockHolds`, `OnlyUserOpens` |
| `keys_prompts` | 1 identity, 2 seals, 2 prompts at once, 1 backup | 579,006 | `PasswordBehindDevice`, `NeverNeither` |
| `cache_lifecycle` | 1 row, 1 value, 1 share, 1 late statement | 1,067,060 | `DiskMatches`, `GoneStaysGone`, `RemovalKeepsOut`, `OnlyAccepted`, `OwnWriteKept`, `Implements` |
| `cache_catches_up` | 1 row, 1 value, fair | 75,064 | `CatchesUp` |
| `mcp_gate` | 1 terminal, 1 call, 1 writing agent, 2 modes, 2 dangers; 2 shares, 2 terminals | 1,168,620 | `ForgottenWithSharing`, `UnaskedOnlyIfOpen`, `GateSeesSharing`, `SharesApart` |
| `ssh_sessions` | 2 connections, 3 chunks, backlog of 3 | 2,511,234 | `ScreenIsOutput`, `DownIsTrue`, `Accounted`, `ClosedLetGo` |
| `host_trust` | a direct attempt and one through a jump host, 2 keys, limit of 2 ticks, 1 login question, fair | 463,156 | `OnlyVouched`, `Remembered`, `LinesStay`, `AttemptsEnd` |
| `db_tabs` | 2 tabs, 2 calls, 1 job, 2 pooled connections, fair | 401,335 | `TabsApart`, `CancelsOwn`, `OffEnds` |
| `sharing` | 2 operations on 1 passphrase; 2 sessions, 2 servers on 1 ControlPath; fair | 280,919 | `AskedOnce`, `SharedRightly` |
| `relay` | 9 logins, 3 keys, 2 rounds; 2 chunks each way, 1 in the terminal, window of 1, buffer of 2, fair | 265,930 | `AsksSparingly`, `Carried` |
| `work` | 1 target and 2 commands; 2 transfers of 2 lines; 2 archive operations; 2 tunnels, 2 ports, 2 commands; 2 runs in 2 projects | 1,227,054 | `SettingsKept`, `OffMeansOff`, `WholeOrNothing`, `OthersSpared`, `CancelUndoes`, `TunnelsStand`, `GateHolds`, `DiscardHolds` |
| `cancel_removes` | 2 archive operations | stops early | `RemovesOwn` is violated |

The runs `mcp_gate`, `sharing`, `relay` and `work` each put modules side by side
that do not interact: a variable `part` chooses one at the beginning, and the
others keep one initial state, so that the states add up and do not multiply.
`TypesHold` of these runs' modules is the type invariants of their parts, to be
checked in place of the properties.  `MCTransfers.cfg` checks a liveness property,
`DownloadsEnd`, that would slow the composition down.
`cache_lifecycle` checks `LockedReadsNothing` as a part of
`Implements`: a copy without a key is not one of SealedCopy's.

### The bounds, and why they are enough

- *Keys.* `Uuids`, `Keys`, `Seals` and `Vaults` are drawn once each (they are
  random in the code), so their sizes bound the creations, not the length of a
  behaviour: unlocks, locks, failures and restarts go on without end.  Two
  identities are what it takes to answer a prompt under another identity; two
  prompts to let one overwrite another.  `keys_identity` has one prompt and no
  backup, `keys_prompts` one identity, because the two hazards need different
  actors; the proofs cover both together.  `MaxBackups` bounds exported backups
  (a state constraint, `BackupBound`).  Identities, keys and prompts are
  interchangeable and no property names one, so symmetry over them is sound; no
  liveness is checked there.
- *Copy.* One row shows every race between a write and a refresh, since rows
  are independent statements; `NoRow` and one value tell an older row from a
  newer one.
  `MaxLate` bounds the statements still on their way: one is the case of a
  write that timed out, was retried, and arrives afterwards; `cache_catches_up`
  leaves it at 0 (the retry and the failure remain), the theorem about rows is
  for every number of values and every `MaxLate`.
- *MCP.* `MaxSeq` bounds the chunks mirrored in one sharing and `MaxChunks`
  those waiting; one of each is enough to be unread, to be read, and to arrive
  between a gate and a dialog.  With a second agent that may only read, the
  instance has 2.7 million states and the same results; that run is left out
  for its length.
- *Shares.* The second share is what the first one's leftovers could reach.  Four
  choices of the dialog (`MCChoices`) cover both roles, both modes, two terminals
  and none; an inbox of two holds typing and the bye after it.  A state
  constraint, `Apart`, stops where two shares overlap, since `SharesApart` says
  nothing from there on and `together` stays.  Section 5 goes on without it.
- *SSH.* Two connections are a tab and its reconnect, or two dialogs.  `MaxSaid` and
  `Cap` count chunks: with three of each, a backlog of two is replayed before a
  chunk that goes out live, and a terminal that asks late finds the backlog
  overflown.  Connections are interchangeable.  A program that has used up its
  connections and closed its tabs has nothing left to do, so these runs do not
  look for deadlock.
- *Host keys.* Two attempts on one host, one of them through another, are what an
  overlapping read, question and write needs; the settings of each are drawn
  from a few that differ in every branch of the check.  `Limit` is two ticks, so
  that a tick may be the first, the last, or stopped by a question; `MaxQuestions`
  bounds the login questions of a hop.
- *Logins.* `MCLogins` are nine that differ in every branch: either form, an own
  key that opens or does not, files that are locked, hidden or barred, certificates,
  an agent that holds a named key or others, no agent, BatchMode, one attempt and
  two (and none, which counts as one).  `MaxRounds` bounds the questions of one
  exchange, which the code does not; two are a stored password and the next question.
- *Targets.* One target, of each tool in turn, since nothing relates two of them but
  the store they are loaded with; two settings and two commands make an overlap.
  Neither is named by a property, so they are interchangeable.  The proof is for
  any number.
- *Databases.* Two tabs and two pooled connections let a session be shared,
  returned or exhausted; `Together` bounds the commands under way at once, and
  `Statements` those of a restore.
- *Shared things.* `MaxTyped`, `MaxForgets` and `MaxCalls` bound passphrases
  typed, forgettings and calls; `MaxAttempts` is the code's three, here two.
  Plans of sessions are four, one of each interesting kind (`MCPlans`).
- *Relay.* `Window`, `Buffer`, `Queue`, `Socket`, `Wire` are the sizes of the
  queues a chunk passes, all small so that each fills; `Buffer` is two because an
  end of file and a close may follow a chunk.
- *Files.* Two lines make a file that can be cut, `MaxFiles` a folder whose second
  file fails after the first; a second transfer is what removes or overwrites a
  place.  Two archive operations and two candidates for a name let the second
  meet the first's output.
- *Plans.* Two runs and two projects: one plan, one apply, and a view that has
  changed between.  (With three runs, 10,665,264 states and the same results.)

### Fairness

*`CatchesUp`.*  `FairSpec` assumes that a command that waits for
Turso ends (`WF` on `Waiting`: `bounded` gives each statement ten seconds), that
the refresh gets its turns (`SF` on `StartRefresh` and `ApplySnapshot`: the
interval in `lib.rs` ticks every minute, and tokio's mutex is first come, first
served, so a manager that is busy again and again still lets it in), and that
its reads succeed now and again (`SF` on `ReadMember` and `ReadSecrets`: Turso
is reachable at times, within the twenty seconds a snapshot may take).  Nothing
is assumed of the user or of the other devices; the property is conditional on
the vault staying unlocked and Turso staying as it is.

*`AttemptsEnd`* assumes that tasks run and that clocks go on: the connect limit's
ticks, a host-key question's two minutes, a login question's ten.  No answer of a
person or a server is assumed.

*`OffEnds`* assumes that tasks run and that a server answers (`WF` on what a call
does next, `CallMoves`, and on what a job does next, `JobMoves`, but for a statement
that another's transaction blocks); that the close of a pool returns once nothing
is taken (`WF` on `PoolClosed`); and that a job's statement is answered if it is
free to go on again and again (`SF` on `JobRuns`: a server grants a lock that is let
go of).  Nobody need press Stop.  Two ways in which the code does not end are set
aside by name: a session that got its slot after the slots were emptied (`late`),
and a job whose statement waits for a tab's open transaction for ever
(`[]JobWaits`); without either, TLC finds the behaviour.

*`AskedOnce`* assumes that tasks run and that a question ends, which its timeout
sees to; *`SharedRightly`* the reaper's five second tick and that time passes.

*`Carried`* assumes that every task is scheduled and that both ends go on reading
and writing what they have, as the property is about those; that an end closes
early may happen and need not.

*`DownloadsEnd`* assumes only the idle limit of thirty seconds, and speaks of a
download that has begun to receive: opening a channel has no limit in the code.

## 4 The proofs

TLAPS proves these for every value of the constants, from the assumptions named
in the modules: the sentinels are not ordinary values, `PlatformSeals` are seals,
`Cap` and the sizes of Relay's queues are at least one, bounds are natural numbers.
Nothing else is assumed.  In `ConnectionProofs` the assumptions of UserAuth, Masters
and Passphrase are hypotheses of the theorems; `MCRelay` and `MCSharing` assume them
of their instances, where TLC evaluates them.

| Theorem | Property |
|---|---|
| `TypeCorrect`, `KeyAlwaysMatchesFile`, `PasswordAlwaysBehindDevice`, `NeverNeitherHolds`, `LockAlwaysHolds`, `OnlyUserAlwaysOpens` | all six properties of VaultKeys that hold |
| `CacheTypeCorrect`, `DiskAlwaysMatches`, `LockedAlwaysReadsNothing`, `GoneAlwaysStaysGone`, `AlwaysOnlyAccepted`, `OwnWriteAlwaysKept`, `RemovalAlwaysKeepsOut`, `AlwaysImplements` | of VaultCache, all but `CatchesUp`, and the refinement of SealedCopy |
| `McpTypeCorrect`, `AlwaysForgotten`, `GateAlwaysSeesSharing`, `UnaskedAlwaysOpen` | all of McpWrites |
| `SharesAlwaysApart` | of TerminalShare, `SharesApart` |
| `SshTypeCorrect`, `ScreenAlwaysOutput`, `DownAlwaysTrue`, `AlwaysAccounted`, `ClosedAlwaysLetGo` | all of SshSessions that hold |
| `AlwaysSparing` | of UserAuth, `AsksSparingly` |
| `EndAlwaysLast` | of Relay, `EndIsLast`: the safety part of `Carried` |
| `AlwaysSharesRightly`, `MasterNeverTaken` | of Masters, `SameServer`, `Agreed` and `LeavesUnused`: the safety parts of `SharedRightly` |
| `AlwaysAskedOnce` | of Passphrase, `AtMostOnce`: the safety part of `AskedOnce` |
| `OnlyVouchedAlways`, `AlwaysRemembered`, `LinesAlwaysStay` | of HostTrust, all but `AttemptsEnd` |
| `TabsAlwaysApart`, `AlwaysCancelsOwn` | of DbTabs, all but `OffEnds` |
| `GateAlwaysHolds`, `DiscardAlwaysHolds` | of TofuRuns, all that hold |
| `CancelAlwaysUndoes`, `OthersAlwaysSpared` | of Archives, all that hold |
| `AlwaysWholeOrNothing` | of Transfers, the safety property |
| `TargetsTyped`, `SettingsAlwaysKept`, `OffAlwaysMeansOff` | all of Targets |
| `TunnelsAlwaysStand` | of Tunnels, `TunnelsStand` |

Each follows the same argument: an inductive invariant, that it holds at first,
that every action keeps it (one step per action), and that it implies the
property.  Why the properties are not inductive by themselves:

- `KInv` (VaultKeys) adds `UuidsUsed` (whatever a file, backup or prompt names
  was drawn before, so a new identity is never an old one),
  `EnrolBehindPassword` (an enrolment under way was begun with a password set,
  and a password is never taken away from the same identity, so its late answer
  still finds one) and `HeldWhileLocked`.
- `CInv` (VaultCache) adds `Shape` (a vault that is not open has nothing in
  memory, and an unfilled copy has nothing unsaved behind it), `Source` (rows
  Turso has now, and statements it has answered, are among those it held),
  `ToldHome` (once told of a removal, no copy in memory, on disk or on its way
  from the refresh still says "member") and `Own` (nothing counts as written
  while its statement is under way, what counts is what Turso holds, and a
  write that returned in calm is in every copy, that of the refresh included).
- `MInv` (McpWrites) adds `UnsharesApart` and `MetHere` (a client's preconditions are
  of the present sharing, and an unshare half way through has its session out
  already), and `OpenKept` (a call whose mode allows its danger is in `open`).
- `SInv` (SshSessions) adds `CallsKept`, `TabsKept`, `AskedKept` (where a call,
  its task, its tab and its asker can be at the same time), `ScreenKept`
  (what is shown, plus the backlog, is what was read, also for a tab whose
  terminal listens and has not asked) and `LetGoKept`.
- `IInv` (UserAuth) adds `Places` (a login of Reach's own is never at a place that
  asks, and one under settings never at the cascade's), `Kept` and `Counted`, which
  follow the stored password: it is still there and has not gone out, or it went
  out as an attempt of `password`, or as an answer, and the attempts made are at
  least the passwords typed and the stored one; and `Silent` (nobody asked under
  BatchMode).
- `RelayInv` (Relay) says where everything that was sent is, while nobody has closed
  early: `UpWhole` and `DownSum` add up the chunks left, in each socket, queue,
  buffer and hand, and read; `InTurn` that on the way from the wire by the session
  loop's hand to the buffer no data is behind an end of file, and that an end
  exists only once the remote end has ended.  Its lemmas count the messages in a
  queue (`TimesAppend`, `TimesTail`) and keep their order (`TailOrdered`,
  `AppendOrdered`).
- `MastersInv` adds `OnItsWay` (which connection a session has by where it is, and
  that it is one to the server of its settings), `Listed` (what an entry says of its
  connection is so, and one that counts as idle is held by nobody) and
  `OncePerPath` (a connection is in one entry only, so a session that takes it up
  clears every idle mark on it).
- `PassInv` (Passphrase) adds `Spent`: the questions an operation has caused, by where
  it is, against the rejections it met and the forgettings it has seen.
- HostTrust's adds `Vouched` (what will be written was stood for as well: the
  accepted key, what was read of the store, the copy an update works on),
  `Questions` (an answer belongs to an attempt that waits, so it is about the key of
  its present hop) and `Recall` (what an attempt read and nobody wrote since is what
  was remembered, so writing it back loses nothing).
- DbTabs' adds `Stations`, `TheJob` (what a call has got by where it is) and `Sole`: a
  connection in a slot is in no other, and whoever holds it besides runs for that
  slot's owner.  A connection that has left its slot may still be held, and gets
  into another only when it is not.  `Unshared` says that a connection that is
  being set up is in nobody else's hands, so that its late slot is its own.
- TofuRuns' adds `Ended` (a plan that is saved, shown, being discarded or discarded
  comes from a run that is over, so a new plan is none of those), `Single` (no two
  projects hold one plan) and, unless `stray`, `Alone`, `Offered`, `Rejected` and
  `Promise` (from the click to the moment the plan is read nothing replaces it).

- `ShareInv` (TerminalShare) says, as long as no two shares overlapped, that one share
  is the latest (`Latest`): every other is `Dormant`, with no connection the screen
  could reach, no listener and nothing waiting for it, and of the latest `OnScreen`,
  `Connects` and `Carries` relate where its start waits, how far its connection is,
  what the dialog shows, and who hears the terminal.  `SharesApart` alone does not
  say why a second start finds nothing of the first one left.
- `ArchivesInv` adds `WaitsOne` (the explorer waits for one operation until its
  first output), `WritesOwn` (an operation writes once, to the name it settled on),
  `CancelsOwn` (a cancel is given that name once the explorer knows it; a process
  that was killed has written) and `StaysOwn` (what was written stays, unless
  somebody found no name free or cancels what he did not write: `Disputed`).
- `TransfersInv` adds, for each place, `Untouched` (before anybody opens it nothing is
  there but what was), and for a transfer that has its place to itself `Kept` (the
  file holds what was received so far, and the file that is open is the one at its
  path); `InOrder` says what the messages of its channel have told it by where it is.
- `TargetsInv` adds `StoredAsWanted` (memory and vault hold what the user was told,
  or, after half a save, nothing) and `OpenedAsWanted` (an entry that is being opened
  is the saved one, and no save runs beside it) for targets whose commands did not
  overlap, and `UnreadIsGone`.
- `TunnelsInv` adds `CallsTyped`, `Created` and `OneAtATime` (of a tunnel whose
  commands came one after another, the stage of its command says whether it runs
  and what the panel shows).

`AlwaysImplements` shows that an initial state of VaultCache is one of
SealedCopy and that each step maps to a step of it or to a stutter.

Every invariant and action property of the runs is proved, and the parts of
`AskedOnce`, `SharedRightly` and `Carried` that speak of safety.  *Only
model-checked:* the temporal properties `CatchesUp`, `AttemptsEnd`, `OffEnds` and
`DownloadsEnd`, and what remains of those three, since liveness under fairness and
`ENABLED` are out of this prover's reach, as are induction over data and
`RECURSIVE` operators (none is used).  Counting a queue's messages needs no
induction: `Times` is a cardinality, and adding or taking one message changes it by
one.  The proofs said three things about the
models: `Tunnels`, `Archives`, `Transfers`, `TerminalShare`, `Masters` and `Passphrase`
had not said that their sentinel is none of the ordinary values, which the proofs need and the
instances had always obeyed; `Closed` of TerminalShare had two guards that
overlap, where the code's first `return` decides; and the Boolean `together` is
what `SharesApart` needs, since with two shares at once one can outlive the other.

## 5 Where code and words disagree

`cancel_removes` is a run: an archive operation that is cancelled before the
explorer has heard the name it settled on removes the plain name
(`FileExplorer.svelte:307`), which is the user's own directory or archive, against
"what the cancelled operation was making" (`ipc/sftp_commands.rs:436`).

These have configurations of their own, and short counterexamples
(`tlc -config X.cfg M`):

| Configuration | Module | Violated | What happens |
|---|---|---|---|
| `MCVaultKeysEnrol.cfg` | `MCVaultKeys` | `TurningOnKeepsOthers` | two enrolments overlap; the second writes back the methods it had read before its prompt, and the first one's seal is gone (`ipc/vault_commands.rs:375`), against "Turning a method on never takes away another way in" (`vault/biometric.rs:24`) |
| `MCVaultKeysReset.cfg` | `MCVaultKeys` | `ResetForgets` | `reset` clears every field but `user_vaults` (`vault/manager.rs:1117-1140`), and the next identity's file lists the old one's vaults with their tokens |
| `MCVaultCacheStale.cfg` | `MCVaultCache` | `OwnWriteSeen` | a refresh that read Turso before a write replaces the copy after it (`vault/manager.rs:1914`); the write is not seen until the next refresh |
| `MCSshSessionsLost.cfg` | `MCSshSessions` | `NothingLost` | a session that ends before its terminal asks takes its backlog with it (`ssh/client.rs:2795`); the change log promises that nothing is dropped (`CHANGELOG.md:358`) |
| `MCSshSessionsOrphan.cfg` | `MCSshSessions` | `NoOrphans` | a tab closed while it reconnects leaves the new connection registered for good (`Terminal.svelte:657`) |
| `MCHostTrustGone.cfg` | `MCHostTrust` | `AskedForSomeone` | a host-key question opens for an attempt that is over, and for up to two minutes stops everybody's connect limit |
| `MCRelayStalls.cfg` | `MCRelay` | `CarriedBothWays` | a tunnel whose two ends both send fills its buffer while its one task waits to write (`tunnel/manager.rs:307`), and the loop that would bring the window waits for the buffer: the whole connection stands still, the terminal with it, against "Data flows both ways until either side closes" (`tunnels.md:43`) |
| `MCDbTabsStay.cfg` | `MCDbTabs` | `TransactionsStay` | a closed tab's session returns to the pool with its transaction open, against `db/conn.rs:4`, "a `BEGIN` or a `SET` in one tab stays in that tab" |
| `MCTransfersHalf.cfg` | `MCTransfers` | `NotHalfWritten` | a drag that was given up goes on in the backend, and its end marks the copy ready that a second press is writing (`FileExplorer.svelte:174`) |
| `MCMcpWrites.cfg` with it as its one property, without `CONSTRAINT` | `MCMcpWrites` | `NothingLeftOpen` | a start that was cancelled while its code was being made becomes, or outlives, the next one's peer; a connection stands open that no share on the screen stands for, against "Once connected, or once the share ends, it is useless" (`session-sharing.md:77`) |
| the same | `MCMcpWrites` | `WaitsForReply` | the guest's limit of thirty seconds begins when its reply is made (`share/peer.ts:197`), so it runs while the reply is still being carried, against `From "answer applied" to "channel open"` (`share/peer.ts:53`) |
| `MCRelay.cfg` with it as its one property | `MCRelay` | `PromptsLimited` | a stored password that went out as an answer to `keyboard-interactive` still raises the limit of `password` by one (`ssh/userauth.rs:566`), beyond the setting `NumberOfPasswordPrompts` |
| the same | `MCRelay` | `AllOffered` | a certificate that the agent lists after its plain key replaces nothing and is dropped (`ssh/userauth.rs:275`), so it is never offered |
| the same | `MCRelay` | `NeverNeedless` | a file key's certificate still asks for the passphrase although the agent holds the key (`ssh/userauth.rs:277`) |
| the same | `MCRelay` | `BatchAsksNothing` | `AddKeysToAgent ask` asks under BatchMode too (`ssh/userauth.rs:734`), against "BatchMode refusing to ask anything" |
| `MCWork.cfg` with it as its one property | `MCWork` | `NothingElse` | a plan of one project ends in the view of another and opens its gate, against "*This is the plan that will be applied. Nothing else.*" (`opentofu.md`) |

Noticed while modelling, visible in the models, and stated by no run:

- `resume` clears `held` before `auto_unlock().await?`, and leaves it cleared on
  an error (`vault/manager.rs:1013`).
- A backup exported before a password was set, restored while a device method
  is on, leaves the device as the only way in (`vault/manager.rs:3382`);
  `PasswordBehindDevice` excuses exactly that (`rolledBack`).
- `share_item`'s plain `INSERT` goes through `execute`, whose comment asks for
  statements that are safe to run twice (`vault/manager.rs:429-432`, `:2925`):
  when only the first answer was lost, the share is made and reported as failed.
- `update_secret` does not look at how many rows it changed (`:2570`).
- The MCP gate is not asked again after the dialog (`mcp/state.rs:467`): output
  that arrived, or an unshare, while it was open does not stop the command.
- `mcp_share_session` checks that the server runs and then shares
  (`ipc/mcp_commands.rs:283`): a stop in between leaves a session shared, and
  sharing a shared session starts its sequence anew while clients keep what they
  had read (`mcp/state.rs:227`).  `GateSeesSharing` excuses both (`overlapped`).
- Output chunks are mirrored by separate tasks and may change places
  (`ssh/client.rs:2606`, `pty/manager.rs:249`).
- A connect that succeeds after its dialog was cancelled still opens a tab
  (`SessionList.svelte:1101`, `:1166`).
- *Shares.* A share that ends while its output's listener is being installed
  leaves the listener (`share.svelte.ts:349`), which hands that terminal to the
  next share's peer; a start that fails lets its peer go without closing it
  (`fail`); the old connection's id is followed after an SSH tab has reconnected
  (`streamIdOf`); `#drain` waits for ever on a channel that closes.
- *Host keys.* `known_hosts.json` is read before the question and written whole
  after it, in place (`ssh/client.rs:2282`, `:2325`): two accepted keys may become
  one, and a read in the middle of a write finds every host unknown.  A line
  appended to OpenSSH's file while `UpdateHostKeys` rewrites it is lost.  Behind
  a jump host the shell is opened outside the connect limit.
- *Logging in.* The cascade calls a key refused that was accepted as one part of
  a login (`ssh/client.rs:491`); an agent that will not sign ends the whole login
  instead of passing to the next key (`ssh/userauth.rs:527`); an exchange whose
  server keeps asking nothing goes on until the connect limit ends it (`:700`).
- *ControlMaster.* ControlPersist of a connection through a jump host lasts only
  as long as a session holds the jump's handle, whatever `ssh/control.rs:5` says;
  a closed master that somebody still holds keeps a new one from its path.
- *Tunnels.* `active` and the listener disagree when commands on one tunnel
  overlap.  The connection's end ends no listener (`tunnels.md` says it does), a
  deleted tunnel has no command in the backend, and a dynamic one, which the
  documentation says fails, works.
- *Passphrase.* An answer to a question asked before a forget may be kept after
  it, in a narrow race (`NotKeptAcross`); a slow joiner may keep a passphrase that
  the asker has already seen rejected.
- *Relay.* A relay that waits for window when the remote end closes is never
  woken.  A local application that stops reading freezes every channel.
- *Targets.* Opening a cluster while it is saved or deleted writes the old entry
  back; opening one while the tool is turned off leaves it open ("Off means off",
  `devops.rs`); the store stays in memory when the vault locks, and when it is reset
  or another identity is imported without a restart (`vault_commands.rs:465`,
  `:485`): the lists then show the old identity's targets, and opening one writes
  it, with its new time, into the new identity's vault; `devops_log_rules` never
  asks whether the tool is on.
- *Databases.* `close_all` sets the jobs' flags only when the pool is empty, and a
  backup does not look at its flag; `db_disconnect` stops no job; a session that is
  being set up while its pool closes (`db/conn.rs:260`-`307`) gets its slot after
  `close` emptied them (`:347`), and the close then waits for ever, with the manager
  held when it was `close_all`; a restore whose statement waits for a tab's open
  transaction looks at no flag until that ends (`db/backup.rs`); with every
  connection taken Stop has none to send its kill with; two calls that make one
  tab's session at once leave one of the sessions in no slot.
- *Transfers.* An upload is complete when its connection drops, is quiet for
  thirty seconds or its command is killed (`send_bytes`), and the status of the
  `: >` before it is not looked at; while it sends it has no limit, and the
  explorer starts no other.  A `stat` that says nothing makes an empty file that
  is complete.  Two downloads to one path mix.  An empty remote file cannot be
  dragged out.
- *Archives.* A cancel that finds no process stops nothing, and removes the
  output all the same; with no free name the plain one is used, although
  `archive.rs:327` calls that a refusal; an operation quiet for five minutes is
  reported as failed while its tool runs on.
- *OpenTofu.* The refusal of an apply without a plan is emitted before the view
  listens, and its `running` stays set; a plan that fails keeps the plan before
  it, which the menu's Apply then runs (`tofu_commands.rs:181`: "Apply applies
  exactly what it showed"); a remote run holds the SSH manager's lock to its end.

## 6 What is not modelled

Inside the modelled components:

- *VaultKeys:* key derivation, wrong passwords (they change nothing), the
  personal sync settings kept in the identity file, a corrupted unlock file, and
  an identity file that records no public key, whose key is taken unchecked
  (`vault/manager.rs:874`): no file this version writes is one.
- *VaultCache:* several vaults in one refresh (they are independent but for its
  order), the owner's side of membership beyond its effect on this user, retired
  connections, a cache file damaged from outside (`load` removes it), a
  `remove_file` that fails.
- *McpWrites:* the rate window, the table of patterns behind a danger, the
  token and the HTTP layer, overlapping starts and stops.  The text of a
  terminal is its sequence number and whether it ends in a prompt.
- *TerminalShare:* the sealing of frames and codes (a frame that does not verify
  fails the peer, as `Breaks` does), hello, sizes and the pane that shows the other
  terminal, back-pressure, ICE settings and the Rust commands that store them.
- *SshSessions:* the connect's inside (HostTrust's and UserAuth's, here one step
  that ends well, badly, or never), typed data, resize, escapes, login flow, notes and session logs,
  the idle timer, data after an exit status, bytes held back mid-character,
  closing the window.  The two hooks of a plugin may run in either order; no
  state here depends on it.
- *HostTrust:* a setting of its own for each hop (an attempt has one for all of
  them; `client.rs:1328`, `:1374` give each its own), keys in DNS, revoked keys and certificate authorities,
  `KnownHostsCommand`, key updates of any hop but the last, rekeying, and the
  login (UserAuth's, here one step with its questions).
- *UserAuth:* key formats, algorithms and signatures, smart cards and security
  keys, the tokens of a Kerberos exchange, the keychain of passphrases, the banner.
- *Masters, Tunnels, Passphrase:* a master's channels (`MaxSessions`), the bytes a
  listener relays (they are Relay's), the list of secrets cached beside the
  passphrase.  `Receives` compares the generation, stores and holds in one step: the
  store compares again under its own lock and what is held carries the generation,
  so a forgetting in between leaves what one just after leaves.
- *Relay:* the opening of a channel, which holds the handle's mutex until the
  server answers; keepalives and rekeying.
- *DbTabs:* what a statement says, result pages, the connections' reconnects, and
  SQL Server and SQLite, whose sessions come from no pool: Stop there ends the
  session and drops it (`db/conn.rs:330`, `:335`).
- *Targets:* the contents of an entry beyond `read_only`; unreadable entries
  (they are skipped); `ctr_open_live`; a reset or a restore that fails half way; and
  after `vault_import_identity`, which opens what it makes, `LockVault` is a step
  of its own.
- *Transfers, Archives:* Windows' own drag (`stream_file`), progress, permissions,
  uploads of overlapping folders, names other than those that clash; other
  programs changing the same directory.
- *TofuRuns:* state commands, variables, formatting, the editor of files, and
  Ansible's runner, which has no saved plan.

The components of the second table of section 1 are not modelled; `PROJECT.json`
gives the reason for each, and its hazards include the ones that wait there.
Most of the repository's lines are there: parsers and printers of what other
programs say, SQL dialects, one settings page after another, and calls to
libraries (RDP, VNC, smart cards, GSSAPI), where little depends on an order and a
unit test says more than a model.

## 7 The plan

Done, in this order: VaultKeys, SealedCopy with VaultCache, McpWrites,
SshSessions, each with its theorems; then HostTrust, Targets, DbTabs, Relay,
Tunnels, Masters, Passphrase, Transfers, Archives, TofuRuns and TerminalShare; then UserAuth with
its theorem, and those of HostTrust, DbTabs and TofuRuns; then the theorems of
Archives, Transfers, Targets, Tunnels and TerminalShare, and those of Masters,
Passphrase and Relay.

Next, most important first:

1. **SshSessions, liveness** — a closed tab's session ends, under fairness of
   the task and of the IPC answers, with no output (`MaxSaid` 0).
2. A composition of SshSessions and McpWrites: an approved command is typed into
   the session it was approved for, through a reconnect.
3. **Resolve** — `ssh_config`'s first value wins, as a fold over the file's lines
   against a reference definition.
