# Wharf: verification of the TUI client

Wharf is a terminal SSH client with an encrypted vault, account sync, team
projects, sessions that survive the TUI, port forwards, and a grant that lets a
local agent run commands over a session. This directory holds TLA+ models of its
concurrent core, their TLC configurations, and proofs checked by TLAPS. Every
definition is written from the Go source; `PROJECT.json` maps each one to its lines.

1. [Inventory](#1-inventory) · 2. [Plan](#2-plan) · 3. [VaultSync](#3-vaultsync) ·
4. [RemoteAccess](#4-remoteaccess-and-grantpromise) · 5. [The other modules](#5-the-other-modules) ·
6. [Runs](#6-runs-and-bounds) · 7. [Fairness and proofs](#7-fairness-and-proofs) ·
8. [Disagreements found](#8-where-code-and-text-disagree) ·
9. [Not modelled](#9-not-modelled) · 10. [Running it](#10-running-it)

## 1. Inventory

| Part | State | Operations | Talks to | What is hard, what makes it correct | Module |
|---|---|---|---|---|---|
| Sync engine (`internal/sync/engine.go`, `session.go`) | the session: last agreed version and fingerprint, tokens; a pending conflict; the master password; all under `Engine.mu`; the session file | `Resume Pair Attach SignOut Sync Resolve CommitAdopt ChangePassword SetPassword Close` | server (`internal/api`), vault file (`ReadBlob`), session file | passes run on goroutines, with a payload captured earlier; other devices push at any time; answers get lost; the process dies. What the session calls agreed must be what the server holds, and nothing unseen may be overwritten | `VaultSync` |
| UI sync, sign-in, lock, password (`internal/ui/update_{sync,signin,unlock,password}.go`) | open vault and engine, screen, sync indicator, conflict, modal, debounce timer, pending sign-in | keys, timers, one handler per result message | engine, vault | handlers are atomic, their commands are not: results arrive after a lock, an edit or a re-pairing | `VaultSync`, `VaultFile` |
| Remote-access holder (`internal/remoteaccess/holder.go`) | grant, epoch, generation, audit log | `Toggle Revoke Current record` | grant; UI, attach loop | `Open` runs outside the mutex, on a goroutine its caller may have abandoned | `RemoteAccess` |
| Grant server (`grant.go`, `open_unix.go`) | closed flag, context, listener, in-flight and total counters | `Open Close handle run refuse emit` | client processes, `Remote.Exec`, holder (audit events) | `Close` between the gates, the context check and the dispatch | `RemoteAccess` |
| Grant triggers (`ui/update_remoteaccess.go`, `sessd/attach.go`) | – | keys, tick, lock, session end, the in-session hotkey with its 10 s timeout | holder | the dashboard is suspended while a session is attached, the hotkey's goroutine outlives the wait | `RemoteAccess`, `AttachStream` |
| Team projects (`sync/projects.go`, `ui/update_projects.go`) | per-project version, fingerprint, data key, conflicts; the UI's documents, conflict queue, debounce timer | sync, resolve, push, create, remove and rotate | engine (same mutex), server | rotation of the data key against pushes, stale keys, 409 retries | `ProjectSync` |
| Project identity (`ui/update_projects.go`, `vault/hybrid.go`) | the key pair in the vault, the published key, the engine's key and gate | bootstrap, publish, upgrade, check, republish, reset, finalise | server's directory, vault, engine | a key published before it is saved, a swapped key, two devices that generate | `ProjectIdentity` |
| Remote exec (`sessd/exec.go`, `sshx/exec.go`) | running calls on each side | exec, output, end, cancel frames | grant, session host | cancel against registration; end against a lost connection | `SessionHost` |
| Session host, client, pool (`sessd/host.go`, `client.go`, `proto.go`) | clients, attached client, dialing client, session, exit | dial, prompt relay, attach, steal, detach, drop, adopt | SSH session, TUI processes | two clients at once, the last one leaving before the dial settles, grace period | `SessionHost` |
| Scrollback and attach loop (`sshx/ring.go`, `sshx/attach.go`, `sessd/attach.go`, `detachkey`) | ring bytes, live writer, unread keys | write, replay and go live, scan, callback | session pump, terminal | the hand-over between replay and live output; keys split over reads; a hung callback | `AttachStream` |
| SSH authentication (`sshx/dial.go`, `auth.go`, `hostkey.go`, `prompt.go`, `ui/update_session.go`) | key ring, round, prompts, known hosts, modals | dial, authenticate, prompt, cancel, remember | network, UI prompts | prompts against cancels, the server's limit of attempts, late prompts | `SshDial` |
| Port forwards (`sshx/forward.go`, `manager.go`, `ui/update_forwards.go`) | client, listener, connections, registry | start, accept, pipe, keepalive, end, close | network, event loop | four goroutines that may end it; a callback into the event loop | `Forwards` |
| Vault file (`internal/vault`) | header with two key slots, payload, lock file | create, open, recover, save, re-key, install a blob | disk | crash points, one writer, key slots that always open | `VaultFile` |
| Store, merge and forms (`internal/store`, `ui/update_forms.go`, `update_move.go`, `update_picker.go`, `hosts_merged.go`) | the documents, the open modal and what it was opened on, live sessions | CRUD, import, `Merge`, move, key sync, picker | vault, engine | documents are replaced under an open modal; names unique, bindings kept, a move loses nothing | `HostBook` |
| The rest | | parsers, key generation, probes, proxies, views, CLI | | sequential or pure I/O | – |

How they meet: every module takes the others' steps as its environment. The
passes of the personal vault are `VaultSync`'s, single steps for `ProjectIdentity`
and `HostBook`; `SshDial` stops where a session is up, `SessionHost` starts there
and leaves the bytes to `AttachStream`; `RemoteAccess` sees an exec as one call that
`SessionHost` takes apart. `PROJECT.json` lists every part with its status, and the
hazards with the line where each one bites and the property that covers it, or
why none does.

## 2. Plan

Done: `VaultSync` and `RemoteAccess` (with `GrantPromise`) and their proofs; then
`ProjectSync`, `SessionHost` (which took in the exec frames), `AttachStream`,
`SshDial`, `Forwards`, `ProjectIdentity`, `VaultFile`, `HostBook`.

Proved, for every value of the constants (section 7): every invariant and every action
property that a passing run checks. Eight proof modules hold the theorems: one for each
of `VaultSync`, `RemoteAccess`, `ProjectSync`, `SessionHost`, `AttachStream`, `SshDial`,
`VaultFile` and `HostBook`. `Forwards` is the last part of `AttachStream_proofs`,
`ProjectIdentity` the last part of `ProjectSync_proofs`, each as an instance.

Left, if the code moves: the hazards without a property, which are listed with the reason
in `PROJECT.json`, and the parts of section 9.

## 3. VaultSync

**State.** The server is the sequence of versions it accepted (`hist`) and the
account's password (`auth`): the environment, since the backend is another
repository. On disk: the vault file's payload and password (`vault`, `pw`) and
`session.enc` (`sessFile`). In the engine: `sess`, `pending`, `master`
(`cfg.Password`). In the UI: screen, indicator, conflict, modal, `signedIn`,
the armed timer, the sign-in under way (`boot`, `step`). `holder` says whose the vault
lock is: the vault of the UI, one that is being installed, or one that was dropped
without being closed; `held` is the payload the UI's vault has in memory. `cmd` holds the
commands in flight (`tea.Cmd` goroutines), each with what it captured and how
far it is.

A payload is a set of items: hosts (which `countHosts` counts) and others. A
fingerprint is the payload itself. `store.Merge` is union. Those are the only
distinctions the sync logic makes.

**Steps.** A UI handler is one action: Bubble Tea runs them one at a time. A pass
is split where it talks to the server and where it waits for `Engine.mu`:
`Begin`, `GetVault`, `Evaluate` (all verdicts of `syncLocked`), `PutAccepted` /
`PutRefused` / `AnswerLost` / `RequestFails`. A password change is `RekeyFile`
(outside the mutex), then `BeginRekey`, `RekeyAccepted` or the roll-back, or
`RekeyOffline`. Results are handled by one action per kind of message.
`AdoptRemote` and `CommitAdopt` are two actions because the handler saves the
vault and then waits for the mutex; the UI is blocked in between (`UIFree`).
`Crash` keeps disk and server only.

A sign-in is four steps of three actors: `HandleAccountFetched` (the handler that puts
the fetched account in `m.boot`), `InstallBlob` and `SaveMerged` (the goroutine, which
works on the sign-in it captured and closes the UI's vault) and `VaultInstalled` (the
handler, which attaches a new engine with whatever `m.boot` is by then). In between a
second fetch replaces the sign-in, `CancelSignIn` or a failed fetch removes it, a lock
takes the vault away. An install that finds no sign-in is a nil dereference and ends the
process (`InstalledForNone`), as does a password typed for none (`PasswordForNone`).

The session file is written after memory was changed and the write may fail: `Saved` and
`NotSaved` are the outcomes of `saveSession`, `Rotated` the save that every operation
ends with when the server rotated the refresh token. An engine whose vault file was
replaced under it seals with a key that may not be the file's any more; what it writes
then reads as signed out (`Sealed`).

A handler that needs the mutex (`Lock`, `SignOut`, `Pair`, `VaultInstalled`, `Resume`)
is enabled when the mutex is free: the wait itself changes nothing but when the
handler runs.

**Properties.**

- `AgreementIsReal` – version and fingerprint of the session, in memory and in
  the file, name what the server has at that version.
- `NoBlindOverwrite` – a push replaces only what the device agreed with, what has
  no hosts, or what the user chose to overwrite.
- `UIKnowsSession` – at rest, a device that looks signed in has a session (proved, not
  listed by a run).
- `SyncingEnds` – the syncing indicator goes out.

Memory and file may differ, and that is why `AgreementIsReal` speaks of both: after a
failed write the engine goes on from one agreement and a restart from an older one, and
neither may be a lie.

`AgreementIsReal` needs two exceptions. `pushLocked` uploads the file as it is at
push time and records the fingerprint of the payload captured before; when an
edit falls in between, the version carries newer content than its fingerprint
says. The history variable `mislabelled` collects those versions; the property is
claimed for all others. The consequence is benign for the content (the newer edit
is on the server) and costs a needless push or, if the other device moves,
a needless conflict.

The second is not benign. A sign-in that is fetched again while its blob is being
installed is attached with the version of the second fetch and the content of the first;
`crossed` collects those sessions. The device then believes that it has agreed with a
version it has never seen, and its next pass overwrites that version: the exception of
`NoBlindOverwrite`, and `AttachedAsFetched` (section 8).

Not claimed, because they do not hold: that the version a session records never
goes back (a `CommitAdopt` can be overtaken by a queued pass), and that a signed-out
device's vault is left alone (an adoption decided before the sign-out is still
written; see `handleSyncDone`, which looks only at the engine).

## 4. RemoteAccess and GrantPromise

**State.** The holder's grant, epoch and generation; one thread per call of
`Toggle`, plus thread 0 for the revocations of the UI itself; per grant the state
of its server (`open`, `flagged` = the closed flag is set, `cancelled`, `down`),
its counters and whether its deadline has passed; per client command how far
`run` is; the audit log; the hosts whose session lives and the ended-messages not
handled yet; what the UI does and which call it waits for. A grant is named by
the call that minted it.

**Steps.** One per critical section of `Holder.mu` or `Grant.mu`, and per step
between them that others can see: `Enter`, `OpenDone`/`OpenFails`,
`Publish`/`Supersede`, `Revoke`; `SetClosed`, `Cancel`, `Unlinked` for `Close`;
`Ask`, `Refuse`/`Admit`, `Dispatch`, `Start`, `Finish` for `run`. The UI waits in
its own calls; the attach loop gives up on its call (`Abandon`) and goes on.

**Abstraction.** `GrantPromise` has no goroutines: a set of requests that may
still be answered, at most one live grant, and a withdrawal that cancels both.
`KeepsPromise` maps a request to "inside or past `Open` with the captured epoch
still current". The epoch comparison in `Toggle` is what makes it true.

**Properties.** `LockedHasNoGrant`, `NoStrayGrant` (a closed or overtaken grant
is torn down), `AuditIsTrue` (rows against commands), `CountsAreHonest`
(counters against commands, and the in-flight limit), `KeepsPromise`,
`LockNeverWaits`, `RevokedCommandEnds`.

**Simplifications.** One session per host, not opened again. The calls are
numbered when the key is pressed. A gate's verdict and its audit event are one
step, and so are the final event and the decrement of the counter. `Abandon`
assumes that ten seconds suffice for the goroutine to have entered `Toggle`
(otherwise a press could be taken after a lock; the code has the same
assumption). Quitting ends the process and with it every grant.

## 5. The other modules

What each keeps, what a step is, what was abstracted. Formulas that do not hold are
in section 8.

**ProjectSync.** Per project the server's versions, each sealed under a numbered data
key, and this account's membership; the engine's `st`, `dek`, `pend` and its session
file; the UI's documents, conflict queue, active conflict, modal and debounce timer.
`SyncProjects` is split at every request: list, read, write, lost race, re-read. The
operations on one project are `PushProject`, `ResolveProject`, `RemoveMember` (rotate,
refetch, retry), `CreateProject`. A document is the set of its hosts, its fingerprint
is itself. Other members push, rotate, grant and remove. Properties:
`ProjectAgreement`, `KeysOnlyAdvance`, `NoBlindPush`. Observed and modelled as it is:
a failing list empties the screen's projects but not their documents; a lock clears
neither documents nor queue; one push generation serves all projects, so that of the
two pushes a move arms only the last fires; a nil payload is sealed as an empty
document. `LoadCachedProjects` is called by nobody.

**ProjectIdentity.** A key is its X25519 pair (a number) and the random seed of its ML-KEM
half (0 for none; every upgrade grows another). Where it is: in the vault, its file, the
newest personal payload, the other device's vault, the server's directory, the engine; and the
key one project key is sealed to. `Opens` is what unwrapping needs: the pair, and the very
seed if the key it was sealed to had one. A command is queued, served once under `Engine.mu`,
and answered. Properties: `PublishedKeyWasSaved` (as long as no write has failed);
`AccessSurvives`, with two exceptions that its comment names: a bootstrap that answers late, and
an adopted payload without the half (`DropsHalf`), which `UpgradeKeepsAccess` leaves out and
which violates it (section 8); `SwapIsNoticed`. Two equal commands in flight count as one. A pair minted here and lost
because the user takes the remote payload in a conflict, and a reset on another device,
are not modelled.

**SessionHost.** One host process, the run that spawned it, runs that adopt it. Frames
travel in order per direction; a closed connection is read to its end; the host or a run
may die at any step. Actions are the reads of one frame (`Handle...`), the goroutines of
the dial and of each exec, the watchdog, and on the client the pool, `Dial`, `Adopt`,
attach, `Exec`. Properties: `OneStream`, `AnswerFitsPrompt`, `NoStrandedHost`,
`DeadHostFreesExec`. Left out: stdin and resize frames; a client that never reads, which
could block the last write of a shutdown; the `kindError` of a refused attach, which stays
unread in `r.ctl`; an `Exec` whose `select` takes the closed channel although its answer
has arrived. Two dials on one host cannot occur: only the spawner dials.

**SshDial.** A host's recipe, its server, and per dial the goroutine of `connect`: TCP,
host key, the key ring in batches, interactive attempts, rounds. It blocks on a reply
channel; the event loop shows prompts, remembers passwords, cancels. Messages to the loop
are a set: prompts and results come from different goroutines. Properties:
`TrustComesFirst`, `HopelessOnlyWhenTried`, `AnswerableUnlessCovered`; `EscEndsDial`, that esc
rids the UI of a dial unless its server is silent for ever (`ServersTurn`); and
`EscWorksUnchanged`, which leaves that condition out and does not hold (section 8). The save of the last-seen time is an edit of `VaultSync`; a session's engine disappears on
esc because its host process is killed; a second dial is possible only once the first's
overlay is gone or covered.

**AttachStream.** The ring, the tee's lock, the live writer; per attach the loop, what it
read, what it sent, the hotkey's callbacks. Output bytes are numbered, so a screen shows
gaps and doubles. A pump's write under the lock is two steps, so is replay and going live.
Properties: `RingKeepsTheTail`, `NoGapNoDouble`, `RemoteGetsTheText`,
`LeavingSparesOthers`, `NeverWedged`. Both twins (`sshx/attach.go`, `sessd/attach.go`) are
this one loop; text that a late callback would print is left out.

**Forwards.** Per forward the SSH client, listener, `alive`, registry entry, `sync.Once` and
which of the accept loop, the waiter, the keepalive and the event loop is in or waits for
`end`; per connection its pipe; and the event loop, idle, attached or inside `Close`.
`tea.Program.Send` returns when the loop has taken the message, as in bubbletea v1.3.10
(an unbuffered channel). Properties: `NothingLeaks`, `EndIsTold`.

**VaultFile.** Inodes, the two names `vault.enc` and its `.tmp`, what the disk would show
after a power loss, the lock file, the `Vault` objects of this process, one writer on the
event loop and one on a goroutine, the gate and its commands, a second instance, and which
secrets the user has been shown. `writeFileAtomic` is five steps. A ciphertext is what
opens it. A save may start while a command is at the same vault: then both write to one
temporary file, one header and one payload, in any order. `acked` is the document last reported
saved, of whichever instance, and survives a crash; `kept` says whether the disk has it, only
the cache, or neither any more; `raced` that a save has raced a command and no restart with a
file that opens has ended that. Properties: `AlwaysOpens` and `AckedIsKept`, with the exceptions
`raced` and, for the second, a crash after a directory whose fsync failed; `OneWriter`, races
included. What the exceptions leave out are formulas of their own, which do not hold
(`RenameIsDurable`, `RekeyIsSafe`, section 8). As in the code: a failed
write of a re-key leaves the new slot in memory, so the next save re-keys; the result of a
directory's fsync is ignored; the lock is free for a moment inside `InstallBlob`. Quitting is
a lock, or a crash, and has no actions of its own.

**HostBook.** The personal document and the projects' documents as sets of hosts and keys,
the modal and what it was opened on, running commands, live sessions. A host is its id,
name, whether address and port are valid, its key, origin and whether it has a password;
the cursor may be on any row; a pass, an import, a key command or a sign-in may put another
document in place while a modal is open. A host may arrive bound to a key that is nowhere
(`Elsewhere`, `store.go:51-53`), and a vault that was an account's may start with one. The
document of the account that a sign-in merges with is an earlier state of this one or a
stranger's, with any of its entries under IDs of their own (`Reissued`): only then does `Merge`
have a binding to change. Properties: `NamesAreUnique`; `MergeKeepsBoth`, which follows each
carried-over host to the key of the name it was bound to; `BindingsResolve`, by which a stale
binding comes in with an arrival or by the picker's move and in no other way; `ActsOnShown`,
`MoveKeepsHost`, `KillsTheArmed`. As in the code: importing and key generation
open or close their modals over whatever is open; the keygen form's "also sync" is read of
the form opened last; in a picker whose sessions have all died any key, esc included, dials;
a key that the picker does not handle leaves a kill armed. Not modelled: passwords' values,
tags, users; the error shown for a failed earlier move stays when the move form is opened
again.

## 6. Runs and bounds

| Run | Question | Bounds |
|---|---|---|
| `sync` | agreement, blind overwrites, the syncing indicator | 1 host, 1 other item, 2 commands in flight, 1 foreign push, an edit or a re-key, 1 fault, 2 keys (one beside a re-key), 4 events in all where a fault counts for two; the vault starts with the host or with the other item, the account with the host and the device paired, or without a vault. A command takes the first free slot, which is all the symmetry of the slots |
| `grants` | lock, leaks, log, counters, promise | 2 hosts, limits of 1; 3 Toggles without commands or 2 with two commands; 1 lock |
| `live` | lock and end of commands when `Open` may hang | 1 host, 1 command, 2 Toggles, 1 lock, 1 session end |
| `projects` | agreements, rotations, pushes | 1 shared project and 1 to create, 1 host, 2 commands, 1 foreign step, edit, fault and key each |
| `identity` | keys saved, access kept, swaps noticed | 2 pairs minted, 1 foreign step (2 without failures and keys that cost), 1 failure (a request, an answer, the process or a write), 1 key, 1 command when a key starts another |
| `sessions` | stream, prompts, stranded host, dead host | spawner and adopter; or spawner and a command; or an old host with an adopter and a command; 2 prompts, 2 uses |
| `dials` | trust, exhaustion, answerable prompts, esc | 6 hosts and servers, 3 keys, batches of 2, 2 rounds, 2 attempts, 2 dials |
| `streams` | ring, replay, keys, leaving, wedging | ring of 2, 4 bytes in and out, chunks of 3, 2 attaches |
| `forwards` | leaks, ends | 2 forwards, 1 connection each |
| `vaultfile` | opens, keeps, one writer | 2 passwords, 2 codes, 1 host and 1 of the account, any three of a second code, 1 edit, 1 race of it with a command, 1 fault, 1 crash, 1 foreign instance |
| `hosts` | names, bindings, what a confirmation acts on | 2 names, 1 key name, 1 project, 3 ids, 2 outside events |
| `close_returns` (violation) | see section 8 | 1 forward, 1 connection |

Why these suffice. Two commands in flight give every overlapping pair, which is what the
engine's mutex and the captured payloads are about; a third would queue behind the same
mutex. One host and one other item separate "no hosts", "only other items", "same" and
"different" payloads: every test the engine makes. One push between any two steps reaches
every 409 branch. Three Toggles are the least with which a call is overtaken by a second
and the second replaced by a third, and a log of one row overflows with the second command.
Two attaches and two forwards give every pair of contenders; three keys in batches of two
need a second round, and the server's limit ends a round after a batch; a ring of two bytes
wraps with chunks shorter, as long and longer than itself. Two codes are the account's and
one of this vault. One race is every interleaving of a save with a command: the event loop
has one save at a time. Three ids allow two hosts and a key that binds one of them, or an
incoming host that collides with either.

`MCVaultSync`, `MCRemoteAccess`, `MCProjectIdentity` and `MCVaultFile` add a bound on
combinations; where liveness is checked it limits only steps without fairness. Deadlock checking is off: bounds, and a user who presses nothing, let
every model come to rest legitimately. Symmetry is used only in runs without liveness.

## 7. Fairness and proofs

Liveness is checked under fairness of what the runtime and the servers owe:

- `VaultSync`: every pass, every result's handler, the timer, `Resume`, `CommitAdopt`.
  Each request is bounded by `syncTimeout` (60 s), so it ends in an answer or a failure.
- `RemoteAccess`: a goroutine that is neither in `Open` nor in `Exec` proceeds; `Exec`
  returns once its context is over; a caller whose call has returned goes on. `Open` has no
  fairness (the scenario the epoch exists for).
- `ProjectIdentity`: requests end and messages are handled.
- `SessionHost`: the host's goroutines and each client's read what has arrived; `Exec` returns
  once its answer is there.
- `SshDial`: `SilentSpec`, the program's goroutines and the event loop. The server has no
  fairness: the handshake runs without a deadline (`sshx/dial.go:93`). `EscEndsDial` says what
  remains, under the condition that the server is not the one to move for ever.
- `AttachStream`: the attach loop, its timer, whoever holds the tee's lock; strong
  fairness for the lock's last waiter, since a `sync.Mutex` does not starve one.
- `Forwards`: the goroutines, and strong fairness of `Send`, which an event loop that
  comes back serves.

Keys, edits, shells, other devices, faults and crashes have no fairness.

**Proofs.** Eight modules, each of which extends the module of its component; `Forwards` and
`ProjectIdentity` are instanced as `F` and `I` by two of them, over variables of their own,
so their theorems read `F!Spec => []F!NothingLeaks`. In each an `IInv` says what the stages of the component rest on, `Spec => []IInv` is `Inductive` (or,
in `VaultSync_proofs`, its parts are theorems one by one) with a lemma or a named step per
action, and the properties follow from it. TLC checked the invariants on the bounds of the
component's run as well.

`RemoteAccess_proofs` proves, for any hosts, commands, limits and numbers of calls:

- `TypeCorrect`: `Spec => []TypeOK`
- `LockedSafe`: `Spec => []LockedHasNoGrant`
- `NothingLeaks`: `Spec => []NoStrayGrant`
- `Implements`: `Spec => KeepsPromise`
- `AuditHolds`: `Spec => []AuditIsTrue`
- `CountsHold`: `Spec => []CountsAreHonest`

None of these is inductive. `IInv` adds to `TypeOK` what each stage knows
(`Shapes`): a call that holds a grant to close is its only closer
(`CloserShape`); a grant whose server stands is current, or has a closer, or is about
to be published (`OwnerShape`); a captured epoch never exceeds the current one, and a
call whose epoch is still current saw the grant that is current (`EpochShape`); whoever
the UI waits for is really running (`WaitShape`); a UI that is locked, or about to be,
leaves behind only overtaken calls (`LockShape`). `LockedHasNoGrant` then follows from
the last, `NoStrayGrant` from `OwnerShape` with all calls at rest, and refinement from
`EpochShape` step by step. `Inductive` is `Spec => []IInv`; the proof has a step per
action. Assumptions: `BoundsAssumption`, `LimitsAssumption`, `HostsAssumption`, all
evaluated by the runs.

`VaultSync_proofs` proves, for any items, bounds and number of commands in flight:

- `TypeCorrect`: `Spec => [](TypeOK /\ Versions)`
- `AgreementHolds`: `Spec => []AgreementIsReal`
- `NothingOverwrittenUnseen`: `Spec => NoBlindOverwrite`
- `UIKnows`: `Spec => []UIKnowsSession`

`TypeOK` is not inductive: an adoption or a sign-in reads the history at the version
a command brought, so `Versions` says that every version the device speaks of was
accepted (`HistGrows`: versions are only appended, and the two history variables only
grow), and that an install keeps the version it was started with. `AgreementInv` adds to
`AgreementIsReal` that a session without a token names no version. What the file holds
after any step is what it held, what memory holds or nothing (`SavedFile`), which is how
failing and repeated writes enter. `PushInv` is the argument for the mutex: one pass
holds it (`OneHolder`), and a pass that has read the file knows the version it
expects to replace and its content, and keeps knowing them (`Informed`), since session and
pending version change only under the mutex; the server's compare-and-swap does the rest.
That the session of such a pass really holds the content of its version is `AgreementInv`
again, with its two exceptions.
`UIInv` says that a session that dies under the UI leaves a result that says so
until the handler takes it. Each invariant has a lemma with a step per action.
Assumptions: `NoFpAssumption`, `BoundsAssumption` and `StartAssumption`, evaluated by the runs.

`AttachStream_proofs`, for any ring capacity, chunk sizes and attaches: `TailKept`
(`RingKeepsTheTail`), `NothingLostOrDoubled` (`NoGapNoDouble`), `LeavingIsHarmless`
(`LeavingSparesOthers`) and `TextIsSent` (`RemoteGetsTheText`). The ring is the arithmetic:
`Holds` relates its start, length and slots to the bytes written; the lemmas say that the copy
at the end and the copy from the beginning keep it, for chunks shorter, as long and longer than
the ring. `LockInv` says what the pump still owes, `ScreenInv` that whoever is live or has
replayed was given everything else. For the typed bytes, `TextInv` says that a loop's buffer
is what is left of what it read, and that what it sent is the first `k` bytes without the
remote-access hotkeys, where the detach key has not come or comes next (`Progress`, `Kept`);
the lemmas follow one turn of `dispatch` for a buffer that holds neither key, one of them, or both.
"Without" is an embedding and not a filter: `f[i]` is where the `i`-th byte sent was typed.

Its last part is about `Forwards`, for any forwards and connections: `ForwardsTypeCorrect`,
`NoneLeaks` (`F!NothingLeaks`) and `ToldOnce`, that the end of a forward is told at most once and
only when its connection and listener are closed. `sync.Once` lets one goroutine into the body
of `end`; `Stages` says what that body has closed and delisted at each line, so the resources of
a forward that is not listed have been closed or are still `StartForward`'s.

`ProjectSync_proofs`, for any projects, hosts, members' steps, faults and commands in flight:
`AgreementHolds` (`ProjectAgreement`), `KeysAdvance` (`KeysOnlyAdvance`) and
`NothingReplacedUnseen` (`NoBlindPush`). The argument is that of `VaultSync`, per project:
`Commands` says that one command holds the mutex and that what it read is still so (`Backed`);
`Sounds` that memory speaks of versions the server has and holds no newer key than the newest
version's; `FileSound` the same of the session file. A push under a stale key is ruled out
because a write needs the newest version, and who knows it knows its key.

Its last part is about `ProjectIdentity`, for any number of key pairs, faults and unsaved
writes: `SavedBeforePublished` (`I!PublishedKeyWasSaved`) and `AccessIsKept` (`I!AccessSurvives`).
`IdentityInv` follows the keys and not their values: what the vault file, the newest payload
and the other device hold has been in some file, and what the engine uses, the server
publishes and a command carries has been too, as long as no write failed (`Saved`, `Right`);
only a command that the user asked for replaces a published key. `AccessSurvives` then goes step
by step: with access, whatever replaces the pair of this device keeps its X25519 half, or
was asked for, or is the late bootstrap that `Overtaken` names, or is a pulled vault that lacks
the ML-KEM seed the project key was sealed to (`DropsHalf`). Both exceptions are part of the
property: without them it is false, and without the second it is `UpgradeKeepsAccess` (section 8).

`SessionHost_proofs`, for any runs, commands and prompts: `OneReader` (`OneStream`) and
`RightAnswer` (`AnswerFitsPrompt`). Both are about the order of frames: `Turns` says that
attach frames on a connection alternate with detach frames, `Streaming` who the stream belongs
to when a steal, a detach and a drop cross; `OnePlace` that a prompt is on its way, on the
screen, answered on the way back or in the buffer, and in one of them only.

`SshDial_proofs`, for any hosts, keys, servers, batches and rounds: `TrustFirst`
(`TrustComesFirst`), `Answerable` (`AnswerableUnlessCovered`) and `TriedBeforeHopeless`
(`HopelessOnlyWhenTried`). `Trusted` follows the server's key through prompts and redials,
`Collected` ties offers, batch and offset to the key ring over the rounds, `Recorded` the event
loop's record to the dial. `TriedBeforeHopeless` has a hypothesis: every server lets more
than a batch be tried (`s.server.limit > BatchSize`). That is what `keyBatchSize` is chosen
for ("the largest batch a default server tolerates", `sshx/auth.go:134`); a stricter server ends a
round before its keys were all looked at, and then a dial moves past keys nobody judged.

`VaultFile_proofs`, for any passwords, hosts, faults, crashes and other instances:
`WritesUnderTheLock` (`OneWriter`), `NobodyIsLockedOut` (`AlwaysOpens`) and
`NothingOlderReturns` (`AckedIsKept`). `IInv` has seven parts beside the types: which command runs
under which screen (`ControlInv`); that only the handle with the lock has a key (`LiveInv`);
that the bytes on their way to the file are sealed under what the handle holds, step by step of
`writeFileAtomic` (`WriterInv`); that the names refer to complete, synced files and the
temporary name to another (`FileInv`); which document each handle keeps (`PayInv`); which
secrets the user knows of a handle that is half way through a re-key, its roll-back or an
installation (`SlotInv`); and what a command that succeeded left in the file (`DoneInv`).
`AlwaysOpens` and `AckedIsKept` need all of it: a re-key that fails leaves its new slot in memory,
so that the next save writes it, and the user must know a secret of *that* slot. The theorems
have no hypothesis on races. With one, `IInv` is false, as those two properties would be without
their exception; what is inductive is `Base /\ (raced \/ IInv)`. `Base` holds through any number
of races: the types, which screen goes with which handle (`ScreenInv`, `LiveInv`), which handle
the lock belongs to while an install closes the old one and takes it again (`GrabInv`), that the
temporary name is not the file's (`NameInv`), and `OneWriter` itself. `IInv` comes back with the restart that
ends a race: a power loss leaves nothing of the process, so the invariant has only the file to
account for, and that it opens is what `raced` waits for.

`HostBook_proofs`, for any names, key names and projects and any number of events:
`NamesStayUnique` (`NamesAreUnique`), `BindingsHold` (`BindingsResolve`), `MergeLosesNothing`
(`MergeKeepsBoth`), `ConfirmsWhatWasShown` (`ActsOnShown`), `MovesKeepHosts` (`MoveKeepsHost`) and `SecondPressKills` (`KillsTheArmed`). Names
are unique only together with IDs: `GoodHosts` says both of each document, and the lemmas say it of
each operator of the store (`Upsert`, `Delete`, `AddKey`, `RemoveKey`, `Merge`, the import's
`New` and `Another`). `Merge` needs more: what is carried over under an ID that is taken
gets a new one, its negative in the model, and that is new because a merge takes place at the
sign-in, before which every ID is positive (`BeforeSignIn`), and the account's document, whose
IDs may be negative, holds none of them both ways (`Unsigned`). `MergeLosesNothing` is the lemma
`Merging` read for bindings: the key a carried-over host is bound to in the result has the name
of the one it was bound to, since names and IDs are unique on both sides. `Fine` collects what a step owes to
all of the properties, so each action is taken apart once. `MoveKeepsHost` counts with a
cardinality, for which the invariant keeps the documents finite. That the moved host is
valid is part of the property; section 8 shows what happens to another.

Assumptions on the constants are named in the modules (`StreamAssumption`, `SessionAssumption`,
`DialAssumption`, `VaultAssumption`, `NamesAssumption`, …): bounds are natural numbers, sizes are
positive, sentinels are not members of the sets they are kept out of, a stored host is a
`Setup`. The runs evaluate all of them.

Only model-checked:

- liveness (`SyncingEnds`, `LockNeverWaits`, `RevokedCommandEnds`, `SwapIsNoticed`,
  `NoStrandedHost`, `DeadHostFreesExec`, `EscEndsDial`, `NeverWedged`, `EndIsTold`): fairness
  and `ENABLED` are beyond the prover;
- the refusals of the code's own texts (section 8): a violated property has nothing to prove;
- the type of the conflict queue of `ProjectSync` and the range of the picker's cursor and of
  `pressed` in `HostBook`: both go through `SelectSeq`, which is recursive, and an induction
  over a sequence cannot be instantiated here. No theorem needs them.

## 8. Where code and text disagree

One has a run of its own. `close_returns`: `Forward.Close` promises to be "safe to call
from any goroutine" (`sshx/forward.go:151`), but `end` notifies through
`tea.Program.Send`, which returns only when the event loop reads the message, and the
forwards overlay calls `Close` from the event loop (`ui/update_forwards.go:272`), as does
quitting (`ui/update_forms.go:827`). The loop waits for itself (`CloseReturns`).

The other disagreements are formulas in the modules without a run of their own. To see
the counterexample, put the name, as INVARIANT or PROPERTY, in place of those of the
module's configuration, with the bounds noted.

| Module | Formula | The text, and what happens instead |
|---|---|---|
| `VaultSync` | `DroppedSaveIsCovered` | "A pass is running (its result covers this save)" (`ui/update_sync.go:359`): the timer is dropped, the pass had captured its payload earlier, and the edit waits for the next save |
| | `NoSilentLoss` | "Wharf never merges silently" (`README.md:539`): an edit made while a pass is on its way is lost to the adoption the pass decided on |
| | `RekeyOverwritesKnown` | the same line: `Engine.ChangePassword` uploads without an expected version, over whatever another device has pushed |
| | `FailedRekeyInStep` | "On an online failure the local vault is rolled back … so the local and remote states never diverge" (`ui/update_password.go:97`): the answer may be what got lost |
| | `MergeKeepsLocal` | "those hosts and keys are folded into the account vault" (`ui/update_signin.go:47`): a crash between the two writes drops them |
| | `LockAbandonsSignIn` | "A sign-in caught mid-flight is abandoned" (`ui/update_unlock.go:372`): its answer arrives later and is taken |
| | `PromptCanOpen` | after a failed sign-in "there is nothing to go back to but the unlock prompt" (`ui/update_signin.go:420`): when the session cannot be stored the prompt comes up over the vault just opened (`:462`), whose lock keeps it from opening any |
| | `AttachedAsFetched` | what an install reports is "the content the device is in agreement with at boot.version" (`ui/update_signin.go:74`), but that boot is the one of the time the result is handled (`:435`), and a second fetch may have replaced the one that was installed (`:336`): the session records a version with the content of another, and what the next pass pushes overwrites that version unseen (without its exception, `NoBlindOverwrite` fails) |
| | `CancelAbandons` | `cancelSignIn` "abandons an in-flight sign-in" (`ui/update_signin.go:189`) and goes back to the dashboard: an install that is running closes the dashboard's vault, replaces its file, and its result finds no sign-in and dereferences nil |
| `RemoteAccess` | `CloseStopsStarts` (`MaxEnds = 1`) | `Exec` "hands it an already-cancelled context and the command is aborted rather than run" (`remoteaccess/grant.go:370`): the request frame is written before the context is looked at |
| `ProjectSync` | `TakenRemoteStays` | "so the next sync sees no spurious local change (critical for resolve take-remote)" (`ui/update_projects.go:685`): a push whose payload was captured before the choice puts back what was given up |
| | `MovedHostSurvives` (`Hosts = {h1, h2}`, `MaxEdits = 2`, `MaxOthers = 0`, `Slots = {c1}`) | "the host must never be in flight between them" (`README.md:573`): the personal vault is saved without the host at once, the project's document is only in memory until the debounced push |
| | `LockedScreenIsBare` | `lock` "wipes the in-memory data, and returns to the unlock screen" (`ui/update_unlock.go:347`): a late pass opens a conflict modal on it, whose answer reaches an engine that is gone |
| `SessionHost` | `ListedIsLive` | "an alive flag left set would outlive the session it describes" (`sessd/client.go:476`): an adoption enlists a remote whose connection has ended since the probe |
| | `CanceledStops` | a command left "running on a real host after the grant that authorised it was revoked" is what `sessd/exec.go:104` rules out: the cancel can overtake the registration of the command |
| | `AdoptSparesDials` | "has nothing running: retire it" (`sessd/client.go:218`): a host that is still dialing has nothing running either, and is killed |
| `SshDial` | `AuthNeverHangs` | "auth can never deadlock waiting for a modal that will never show" (`sshx/prompt.go:7`): an import that finishes replaces the prompt's modal with its own |
| | `BoundKeyIsAlone` | "that key is the only one offered" (`README.md:475`): the frame a session is dialed from has no field for the binding (nor for the agent setting), so the agent's keys come first |
| | `CancelIsObeyed` | a nil reply "means the user canceled" (`sshx/prompt.go:31`): the password prompt cancelled, keyboard-interactive asks again |
| | `BrokenSourceSinksNone` | "A source that fails does not sink the others" (`sshx/auth.go:74`): the error kept from the collection is returned in every later round, whose keys are then not offered |
| | `RememberedIsAccepted` | "after a successful login it's stored" (`README.md:486`): what is stored is the last one remembered, though a later answer logged in |
| | `EscWorksUnchanged` | a forward starts so that "esc-cancel and prompt restoration work unchanged" (`ui/update_forwards.go:149`): esc only cancels its context (`:201`), which the SSH handshake does not look at and which has no deadline (`sshx/dial.go:93`), and the overlay is up for as long as the server is silent |
| `Forwards` | `NilMeansDeliberate` | "err is nil on a deliberate Close and non-nil when a listener or connection failure ended it" (`sshx/forward.go:376`): a failed keepalive closes with nil |
| `ProjectIdentity` | `GateInStep` | the check "keeps the engine's key-distribution gate in step" (`ui/update_projects.go:274`): a verdict that arrives on a locked vault raises the warning but finds no engine, and the engine of the next unlock starts with the gate open |
| | `EveryGrantIsGated` | the gate is for "every operation that would hand a project DEK to a server-supplied key" (`sync/projects.go:97`): `RemoveMember` re-seals for all without it |
| | `GeneratesWhenNone`, `UnsavedStaysHere` | "Neither side has a key: generate one, persist it, publish it" (`ui/update_projects.go:357`): an adoption in between brought one, which is overwritten; a pair whose write failed is published at the next visit of the tab, and a crash loses it |
| | `ResetWhenNeeded` | the reset is "only offered in the needs-sync state" (`:830`): the modal stays when a pass brings the key |
| | `NoFalseAlarm` | the flag means "the key directory is lying" (`sync/engine.go:148`): two devices that generate at once raise it too |
| | `UpgradeKeepsAccess` | with the hybrid upgrade "no project loses access" (`README.md:595`): what is sealed to the upgraded key needs its random seed (`vault/hybrid.go:208`), the seed is in the personal payload, and when another device that has not seen it uploads its own, as a password change does without an expected version (`sync/engine.go:360`), a device with nothing left to push adopts that and loses the seed and the project |
| `VaultFile` | `CodeStaysValid` | "the recovery slot stays valid" (`vault/vault.go:382`): a reset whose last write fails, tried again, writes a slot whose code nobody was shown |
| | `LockedMeansOther` (`MaxFaults = 2`) | `ErrLocked` is for "another wharf process" (`vault/vault.go:55`): a failed save after an install drops the vault without closing it, and its own lock shuts the program out |
| | `MainHasVault` | "The old vault was closed before the failure" (`ui/update_signin.go:420`): esc leads to a dashboard with a closed vault |
| | `RenameIsDurable` | `writeFileAtomic` "fsyncs the directory so the rename is durable" (`vault/vault.go:348`): a directory that cannot be opened or synced is passed over (`:375`), the save is reported done, and after a power loss the older file may be found |
| | `RekeyIsSafe` | a re-key is "Always safe" (`ui/update_password.go:119`): it runs on a goroutine and `Vault` has no lock, so a result handled meanwhile (the last-seen time of a dial, `ui/update_session.go:187`) saves the same vault through the same `vault.enc.tmp`. The longer file of the one under the shorter of the other is no vault, and the re-key reports success |
| `HostBook` | `EveryMoveKeepsHost` | "the add is validated against the destination *first*" (`ui/update_forms.go:414`): the form that edits a host and moves it in one submit removes it and then drops an invalid port or an empty address |

The bounds of the `ProjectIdentity` rows: `SPECIFICATION Spec`, `MaxMints = 2`, `MaxOthers = 2`,
`MaxFaults = 0`, `MaxUnsaved = 0`, `MaxCmds = 2`; `UnsavedStaysHere` and `UpgradeKeepsAccess`
need only the configuration as it is. `CodeStaysValid`: `SPECIFICATION Spec`, `MaxFaults = 2`, `MaxCodes = 3` and no
edits, races, crashes or other instance.

Met on the way, without a formula: a generation, or a check that needs one, that comes
back on a locked vault dereferences its missing store; a crash while a vault is created or
reset leaves a recovery code nobody was shown; saving a host form whose key selector is
hidden drops a binding made on another device; the picker moves a host out of a project
with a binding that resolves to nothing.

## 9. Not modelled

Everything is in `PROJECT.json` with its reason; in short:

- `VaultSync`: a failing write of an edit or a re-key to an open vault (those are in
  `VaultFile`); what tokens contain; the first-run gate; a wrong current password.
  Other devices are over-approximated: they push anything at any time.
- `RemoteAccess`: the handshake, its semaphore and deadlines; output streams; several
  sessions of one host; the clipboard record and the overlay.
- `SessionHost`, `AttachStream`: stdin and window-size frames; `pool_windows.go`; where
  sockets live (`paths.go`).
- Views, layout, key hints: pure functions of the state, and no property is about them.
- Parsers and printers (`ssh_config`, `~/.ssh` imports, `ssh -G` output), key
  generation, probes, the egress proxy, terminal, clipboard and browser wrappers, the
  command line: sequential or pure I/O, with no interleaving; their tests reach them well.
- The server and the bubbletea, ssh and agent libraries: modelled from their use, as far as
  a property needs them.

## 10. Running it

    tlc -config VaultSync_sync.cfg MCVaultSync        # any run: <module>_<run>.cfg
    tlapm VaultSync_proofs.tla                        # any <module>_proofs; seconds to minutes
