----------------------------- MODULE VaultSync -----------------------------
(***************************************************************************)
(* Syncing one device's vault with the account vault on the server.        *)
(*                                                                         *)
(* The device is modelled in full: the UI reducer (internal/ui,            *)
(* update_sync.go, update_signin.go, update_unlock.go), whose handlers are *)
(* atomic because Bubble Tea runs them one at a time, and the engine       *)
(* passes (internal/sync/engine.go), which are commands on goroutines of   *)
(* their own, serialised by Engine.mu and interleaved with the handlers.   *)
(* A command captures the payload when the UI starts it and its result is  *)
(* a message the UI handles later.  The server is the sequence of vault    *)
(* versions it has accepted; every other device of the account is the      *)
(* environment, which may push any payload at any time.                    *)
(*                                                                         *)
(* A payload is the set of items in the vault document.  Hosts are the     *)
(* items countHosts counts; Extras are the others (SSH keys, the           *)
(* identity, settings).  A fingerprint is the payload itself (SHA-256 is   *)
(* taken to be collision free) and a pending remote is its version, since  *)
(* the content of a version never changes.                                 *)
(***************************************************************************)
EXTENDS Naturals, Sequences

CONSTANTS
  Hosts,        \* host records a vault can hold
  Extras,       \* items that are not hosts: keys, identity, settings
  Slots,        \* bound: commands in flight at once
  NoFp,         \* the empty fingerprint of a fresh pairing
  MaxPushes,    \* bound: pushes by other devices
  MaxEdits,     \* bound: local edits
  MaxFaults,    \* bound: lost requests and answers, dead sessions, failing
                \* writes, crashes
  MaxRekeys,    \* bound: master-password changes
  MaxKeys,      \* bound: manual syncs, pairings, sign-outs and locks
  StartVaults,  \* local payloads a run starts with
  StartAccounts,\* account payloads a run starts with, NoFp for no account vault
  StartPaired   \* the device was paired, and in agreement, before the run

Payload == SUBSET (Hosts \cup Extras)

Limit == [push |-> MaxPushes, edit |-> MaxEdits, fault |-> MaxFaults,
          rekey |-> MaxRekeys, key |-> MaxKeys]

ASSUME NoFpAssumption == NoFp \notin Payload
ASSUME BoundsAssumption ==
  {MaxPushes, MaxEdits, MaxFaults, MaxRekeys, MaxKeys} \subseteq Nat
ASSUME StartAssumption ==
  /\ StartVaults \subseteq Payload
  /\ StartAccounts \subseteq Payload \cup {NoFp}
  /\ StartPaired \in BOOLEAN

VARIABLES
  hist,         \* server: accepted vault versions, version i is hist[i]
  auth,         \* server: the account's master password, as its auth key
  vault,        \* the vault file's payload
  pw,           \* master password of the vault file
  sessFile,     \* session.enc, as it opens under the vault file's key
  holder,       \* who holds the vault lock: the UI's vault, one being installed
  held,         \* Vault.Payload() of the UI's vault, an installed file's aside
  unlocked,     \* the UI has a vault and an engine
  sess,         \* Engine.sess
  master,       \* Engine.cfg.Password, 0 when zeroed
  pending,      \* Engine.pending: a remote version, 0 when nil
  cmd,          \* commands in flight
  screen, syncSt, conflict, modal, signedIn,   \* UI model fields
  timer,        \* the newest push debounce timer is armed
  resuming,     \* resumeSyncCmd is in flight
  adopting,     \* version adoptRemote has saved and not yet committed, or 0
  boot,         \* UI model field: the sign-in under way
  step,         \* UI model field unlockStep, "unlock" away from the gate
  spent,        \* how much of each bound has been used
  mislabelled,  \* history: versions this device uploaded under the
                \* fingerprint of another payload
  crossed       \* history: sessions a sign-in attached with the version of one
                \* fetch and the content of another

server == <<hist, auth>>
disk   == <<vault, pw, sessFile>>
handle == <<holder, held>>
past   == <<mislabelled, crossed>>
engine == <<sess, pending, master>>
uiMain == <<screen, syncSt, conflict, modal, signedIn>>
uiJobs == <<timer, resuming, adopting, boot, step>>
vars   == <<hist, auth, vault, pw, sessFile, holder, held, unlocked, sess, master, pending,
            cmd, screen, syncSt, conflict, modal, signedIn, timer, resuming, adopting, boot,
            step, spent, mislabelled, crossed>>

-----------------------------------------------------------------------------
(* Data *)

NoHosts(p) == p \cap Hosts = {}

Version == [payload : Payload, by : {"me", "other"}, pw : Nat]
Remote(v) == hist[v].payload
Current == Len(hist)

Session == [on : BOOLEAN, ver : Nat, fp : Payload \cup {NoFp}]
SignedOut == [on |-> FALSE, ver |-> 0, fp |-> NoFp]
FreshPairing == [on |-> TRUE, ver |-> 0, fp |-> NoFp]
Agreed(v, fp) == [on |-> TRUE, ver |-> v, fp |-> fp]

Kind == {"none", "sync", "keep", "take", "rekey", "offlineRekey", "account", "install"}
Stage == {"idle", "queued", "rekeyed", "get", "got", "put", "undo", "blob", "done"}
Outcome == {"none", "ok", "pushed", "conflict", "adopt", "taken", "signedOut", "dead",
            "unverified", "err", "wrong", "rekeyed", "account", "noAccount", "installed"}
\* What a command captured or read: payload, expected or fetched version, the
\* vault file as pushed (its payload and password), the passwords of a re-key.
\* retry: a pass may fetch again, a fetched account tries the engine's
\* password; own: the vault an install is to close is still the UI's.
Command == [st : Stage, kind : Kind, pay : Payload, retry : BOOLEAN, own : BOOLEAN, ver : Nat,
            blob : Payload, blobPw : Nat, old : Nat, new : Nat, res : Outcome]

Idle == [st |-> "idle", kind |-> "none", pay |-> {}, retry |-> FALSE, own |-> FALSE, ver |-> 0,
         blob |-> {}, blobPw |-> 0, old |-> 0, new |-> 0, res |-> "none"]
Fresh(kind, pay) == [Idle EXCEPT !.st = "queued", !.kind = kind, !.pay = pay]
\* What a finished command leaves for its handler; the three kinds of pass
\* answer with the same message.
ResultOf(kind, res, v) ==
  [Idle EXCEPT !.st = "done", !.res = res, !.ver = v,
               !.kind = CASE kind \in {"keep", "take"} -> "sync"
                          [] kind = "offlineRekey" -> "rekey"
                          [] OTHER -> kind]
Done(c, res, v) ==
  IF res = "account" THEN [cmd[c] EXCEPT !.st = "done", !.res = res, !.ver = v]
                     ELSE ResultOf(cmd[c].kind, res, v)

Boot == [on : BOOLEAN, ver : Nat, merge : Payload]
NoBoot == [on |-> FALSE, ver |-> 0, merge |-> {}]
\* installAccountVaultCmd, with what it captures when it is started.
Opening(b, password) ==
  [Fresh("install", b.merge) EXCEPT !.ver = b.ver, !.blobPw = password, !.own = unlocked]

\* Every unbounded kind of step spends one of its bound.
Spend(b) == spent[b] < Limit[b] /\ spent' = [spent EXCEPT ![b] = @ + 1]

\* The account's password after the re-key that is being paid for.
NewPw == 1 + spent'["rekey"]

\* Engine.mu: a pass holds it from its first read of the session to its result.
Holds(c) == cmd[c].st \in {"get", "got", "put"}
MutexFree == \A c \in Slots : ~Holds(c)

\* commit: the bookkeeping in memory, before the file.  Mutant: it keeps the old
\* fingerprint.
CommitKeepsFp(v, fp) == sess' = Agreed(v, sess.fp)
Commit(v, fp) == sess' = Agreed(v, fp)

\* saveSession.  An engine whose vault file was replaced under it seals with a
\* key that may not be the file's: what does not open reads as signed out.
Sealed == IF holder = "ui" THEN {sess'} ELSE {sess', SignedOut}
Saved == sessFile' \in Sealed /\ UNCHANGED spent
\* persistRotation: every operation ends with a save if the token was rotated.
Rotated == sessFile' \in {sessFile} \cup Sealed
\* A save that failed, unless the token makes up for it.
NotSaved == Spend("fault") /\ Rotated

\* SignOut, and the answer that ends the session.
DropSession == sess' = SignedOut /\ sessFile' = SignedOut /\ pending' = 0 /\ UNCHANGED master

\* Vault.Save and ChangePassword work on an open vault only.
Writable == holder = "ui"

\* The UI goroutine is free: adoptRemote is not blocked in CommitAdopt.
UIFree == adopting = 0

Init ==
  /\ \E p \in StartAccounts :
       /\ hist = IF p = NoFp THEN <<>> ELSE <<[payload |-> p, by |-> "other", pw |-> 1]>>
       /\ sessFile = IF StartPaired /\ p # NoFp THEN Agreed(1, p) ELSE SignedOut
  /\ vault \in StartVaults
  /\ pw = 1 /\ auth = 1 /\ master = 0
  /\ unlocked = FALSE /\ holder = "none" /\ held = {}
  /\ sess = SignedOut
  /\ pending = 0
  /\ cmd = [c \in Slots |-> Idle]
  /\ screen = "gate" /\ syncSt = "none" /\ conflict = FALSE /\ modal = "none"
  /\ signedIn = FALSE
  /\ timer = FALSE /\ resuming = FALSE /\ adopting = 0 /\ boot = NoBoot /\ step = "unlock"
  /\ spent = [b \in DOMAIN Limit |-> 0]
  /\ mislabelled = {} /\ crossed = {}

-----------------------------------------------------------------------------
(* The rest of the account: other devices push and change the password *)

Accept(p, by, newPw) == hist' = Append(hist, [payload |-> p, by |-> by, pw |-> newPw])

OtherPush(p) ==
  /\ Spend("push")
  /\ Accept(p, "other", auth)
  /\ UNCHANGED <<auth, disk, handle, unlocked, engine, cmd, uiMain, uiJobs, past>>

OtherRekey ==
  /\ Current > 0 /\ Spend("rekey")
  /\ Accept(Remote(Current), "other", NewPw) /\ auth' = NewPw
  /\ UNCHANGED <<disk, handle, unlocked, engine, cmd, uiMain, uiJobs, past>>

-----------------------------------------------------------------------------
(* UI handlers: keys, timers *)

Launch(c, kind, pay) ==
  /\ cmd[c] = Idle
  /\ cmd' = [cmd EXCEPT ![c] = Fresh(kind, pay)]

\* A mutation of the store saved by saveVault, which arms the push timer
\* whether the vault took the write or not.
Edit(p) ==
  /\ unlocked /\ UIFree /\ screen = "main"
  /\ p # held /\ Spend("edit")
  /\ \/ Writable /\ vault' = p /\ held' = p
     \/ ~Writable /\ UNCHANGED <<vault, held>>
  /\ timer' = (timer \/ signedIn)
  /\ UNCHANGED <<server, pw, sessFile, holder, unlocked, engine, cmd, uiMain, resuming, adopting, boot, step, past>>

TimerDrops == ~unlocked \/ ~signedIn \/ syncSt \in {"syncing", "conflict"}

TimerFires ==
  /\ timer /\ UIFree
  /\ timer' = FALSE
  /\ \/ TimerDrops /\ UNCHANGED <<cmd, syncSt>>
     \/ ~TimerDrops /\ syncSt' = "syncing" /\ \E c \in Slots : Launch(c, "sync", held)
  /\ UNCHANGED <<server, disk, handle, unlocked, engine, screen, conflict, modal, signedIn, resuming, adopting, boot, step, spent, past>>

KeysReach(scr) == UIFree /\ screen = scr /\ modal = "none"

ManualSync(c) ==
  /\ KeysReach("main") /\ Spend("key") /\ unlocked /\ signedIn
  /\ \/ conflict /\ modal' = "conflict" /\ UNCHANGED <<cmd, syncSt>>
     \/ ~conflict /\ Launch(c, "sync", held) /\ syncSt' = "syncing" /\ UNCHANGED modal
  /\ UNCHANGED <<server, disk, handle, unlocked, engine, screen, conflict, signedIn, uiJobs, past>>

ResolveKey(c, choice) ==
  /\ UIFree /\ modal = "conflict"
  /\ modal' = "none" /\ conflict' = FALSE /\ syncSt' = "syncing"
  /\ Launch(c, choice, held)
  /\ UNCHANGED <<server, disk, handle, unlocked, engine, screen, signedIn, uiJobs, spent, past>>

EscModal ==
  /\ UIFree /\ modal # "none"
  /\ modal = "password" => \A c \in Slots : cmd[c].kind \notin {"rekey", "offlineRekey"}
  /\ modal' = "none"
  /\ UNCHANGED <<server, disk, handle, unlocked, engine, cmd, screen, syncSt, conflict, signedIn, uiJobs, spent, past>>

\* The user types the vault's password and a new one.
SubmitRekey(c) ==
  /\ KeysReach("main") /\ unlocked
  /\ Spend("rekey")
  /\ modal' = "password"
  /\ cmd[c] = Idle
  /\ cmd' = [cmd EXCEPT ![c] =
       [Fresh(IF signedIn THEN "rekey" ELSE "offlineRekey", held) EXCEPT !.old = pw, !.new = NewPw]]
  /\ UNCHANGED <<server, disk, handle, unlocked, engine, screen, syncSt, conflict, signedIn, uiJobs, past>>

SignOut ==
  /\ KeysReach("main") /\ Spend("key") /\ unlocked /\ signedIn /\ MutexFree
  /\ DropSession
  /\ signedIn' = FALSE /\ syncSt' = "none" /\ conflict' = FALSE
  /\ UNCHANGED <<server, vault, pw, handle, unlocked, cmd, screen, modal, uiJobs, past>>

MayPair == KeysReach("main") /\ unlocked /\ ~signedIn /\ ~resuming /\ MutexFree

\* Pair and handlePaired: the account's vault is fetched before any sync.  The
\* session file has been read long before a device code is typed.
Pair(c) ==
  /\ MayPair /\ Spend("key")
  /\ sess' = FreshPairing /\ sessFile' \in Sealed
  /\ signedIn' = TRUE /\ syncSt' = "syncing" /\ screen' = "auth"
  /\ cmd[c] = Idle /\ cmd' = [cmd EXCEPT ![c] = [Fresh("account", held) EXCEPT !.retry = TRUE]]
  /\ UNCHANGED <<server, vault, pw, handle, unlocked, master, pending, conflict, modal, uiJobs, past>>

\* Paired, and the session could not be saved: the UI shows the error, the
\* engine keeps the session.
PairUnsaved ==
  /\ MayPair /\ Spend("fault")
  /\ sess' = FreshPairing
  /\ UNCHANGED <<server, disk, handle, unlocked, master, pending, cmd, uiMain, uiJobs, past>>

-----------------------------------------------------------------------------
(* UI handlers: lock, unlock, sign-in *)

\* Engine.Close and Vault.Close: a pass still waiting for the mutex finds the
\* engine closed, a password change the vault, and an install what to close.
Closed(k) ==
  CASE k.st = "queued" /\ k.kind \in {"sync", "keep", "take"} -> ResultOf(k.kind, "signedOut", 0)
    [] k.st = "queued" /\ k.kind = "install" -> [k EXCEPT !.own = FALSE]
    [] k.st = "rekeyed" /\ k.kind = "offlineRekey" -> ResultOf(k.kind, "rekeyed", 0)
    [] k.st \in {"queued", "rekeyed", "undo"} /\ k.kind \in {"rekey", "offlineRekey"} ->
         ResultOf(k.kind, "err", 0)
    [] OTHER -> k

Lock ==
  /\ KeysReach("main") /\ Spend("key") /\ MutexFree
  /\ unlocked' = FALSE /\ held' = {} /\ holder' = IF Writable THEN "none" ELSE holder
  /\ sess' = SignedOut /\ pending' = 0 /\ master' = 0
  /\ cmd' = [c \in Slots |-> Closed(cmd[c])]
  /\ screen' = "gate" /\ syncSt' = "none" /\ conflict' = FALSE /\ signedIn' = FALSE
  /\ boot' = NoBoot /\ step' = "unlock"
  /\ UNCHANGED <<server, disk, modal, timer, resuming, adopting, past>>

\* Whoever holds the vault lock, this process included, keeps the vault shut.
Unlock ==
  /\ KeysReach("gate") /\ step = "unlock" /\ holder = "none"
  /\ ~unlocked
  /\ unlocked' = TRUE /\ holder' = "ui" /\ held' = vault
  /\ screen' = "main" /\ resuming' = TRUE /\ master' = pw
  /\ UNCHANGED <<server, disk, sess, pending, cmd, syncSt, conflict, modal, signedIn, timer, adopting, boot, step, spent, past>>

\* Engine.Resume and handleSessionResumed.
Resume ==
  /\ resuming /\ UIFree /\ MutexFree
  /\ resuming' = FALSE
  /\ \/ /\ unlocked /\ sessFile.on
        /\ sess' = sessFile /\ signedIn' = TRUE /\ syncSt' = "syncing"
        /\ \E c \in Slots : Launch(c, "sync", held)
     \/ ~(unlocked /\ sessFile.on) /\ UNCHANGED <<sess, signedIn, syncSt, cmd>>
  /\ UNCHANGED <<server, disk, handle, unlocked, pending, master, screen, conflict, modal, timer, adopting, boot, step, spent, past>>

-----------------------------------------------------------------------------
(* The sign-in of a running device: a goroutine opens and installs the account *)
(* vault, its handler attaches a new engine                                    *)

\* cancelSignIn; without a sign-in to cancel it goes to the first-run choice.
CancelSignIn ==
  /\ KeysReach("gate") /\ step = "prompt"
  /\ boot' = NoBoot
  /\ \/ boot.on /\ screen' = "main" /\ step' = "unlock" /\ syncSt' = "offline"
     \/ ~boot.on /\ step' = "choose" /\ UNCHANGED <<screen, syncSt>>
  /\ UNCHANGED <<server, disk, handle, unlocked, engine, cmd, conflict, modal, signedIn, timer, resuming, adopting, spent, past>>

\* The account's password is typed, or another one.
EnterPassword(c) ==
  /\ KeysReach("gate") /\ step = "prompt" /\ boot.on /\ cmd[c] = Idle
  /\ step' = "opening"
  /\ \E typed \in {0, hist[boot.ver].pw} : cmd' = [cmd EXCEPT ![c] = Opening(boot, typed)]
  /\ UNCHANGED <<server, disk, handle, unlocked, engine, uiMain, timer, resuming, adopting, boot, spent, past>>

ui == <<uiMain, uiJobs, unlocked, handle>>

Finish(c, res, v) == cmd' = [cmd EXCEPT ![c] = Done(c, res, v)]

\* The blob is opened; then the UI's vault is closed and the blob is written,
\* which takes the vault lock.  The session file opens under the new file's key
\* if the blob has the DEK of the vault it replaces.
InstallBlob(c) ==
  LET k == cmd[c]
      Takes == holder = "none" \/ (Writable /\ k.own) IN
  /\ k.st = "queued" /\ k.kind = "install"
  /\ \/ /\ hist[k.ver].pw = k.blobPw => ~Takes
        /\ Finish(c, IF hist[k.ver].pw # k.blobPw THEN "wrong" ELSE "err", 0)
        /\ UNCHANGED <<disk, holder, spent>>
     \/ /\ hist[k.ver].pw = k.blobPw /\ Takes /\ Spend("fault")
        /\ holder' = "none" /\ Finish(c, "err", 0) /\ UNCHANGED disk
     \/ /\ hist[k.ver].pw = k.blobPw /\ Takes
        /\ holder' = "install" /\ cmd' = [cmd EXCEPT ![c].st = "blob"]
        /\ vault' = Remote(k.ver) /\ pw' = k.blobPw /\ sessFile' \in {sessFile, SignedOut}
        /\ UNCHANGED spent
  /\ UNCHANGED <<server, held, unlocked, engine, uiMain, uiJobs, past>>

\* Save(merged); if it fails the opened vault, and its lock, are dropped.
SaveMerged(c) ==
  LET k == cmd[c] IN
  /\ k.st = "blob"
  /\ \/ vault' = vault \cup k.pay /\ Finish(c, "installed", k.ver) /\ UNCHANGED <<holder, spent>>
     \/ /\ ~(k.pay \subseteq vault) /\ Spend("fault")
        /\ holder' = "leaked" /\ Finish(c, "err", 0) /\ UNCHANGED vault
  /\ UNCHANGED <<server, pw, sessFile, held, unlocked, engine, uiMain, uiJobs, past>>

\* The garbage collector closes the lock file of a dropped vault.
LeakCollected ==
  /\ holder = "leaked" /\ holder' = "none"
  /\ UNCHANGED <<server, disk, held, unlocked, engine, cmd, uiMain, uiJobs, spent, past>>

-----------------------------------------------------------------------------
(* Engine passes: Sync, Resolve and ChangePassword under Engine.mu *)

\* pushLocked: ReadBlob reads the file as it is now, not the captured payload.
\* Mutant: the version is taken from the server once more before the push.
ReadBlobAnew(c, expected) ==
  cmd' = [cmd EXCEPT ![c].st = "put", ![c].ver = Current, ![c].blob = vault, ![c].blobPw = pw]
ReadBlob(c, expected) ==
  cmd' = [cmd EXCEPT ![c].st = "put", ![c].ver = expected, ![c].blob = vault, ![c].blobPw = pw]

Begin(c) ==
  LET k == cmd[c] IN
  /\ k.st = "queued" /\ k.kind \in {"sync", "keep", "take"} /\ MutexFree
  /\ \/ ~sess.on /\ Finish(c, "signedOut", 0) /\ UNCHANGED sessFile
     \/ /\ sess.on /\ UNCHANGED sessFile
        /\ k.kind # "sync" => pending = 0
        /\ cmd' = [cmd EXCEPT ![c].st = "get", ![c].kind = "sync", ![c].retry = TRUE]
     \/ sess.on /\ k.kind = "keep" /\ pending # 0 /\ ReadBlob(c, pending) /\ UNCHANGED sessFile
     \/ sess.on /\ k.kind = "take" /\ pending # 0 /\ Finish(c, "taken", pending)
        /\ UNCHANGED sess /\ Rotated
  /\ UNCHANGED <<server, vault, pw, engine, ui, spent, past>>

GetVault(c) ==
  /\ cmd[c].st = "get"
  /\ cmd' = [cmd EXCEPT ![c].st = "got", ![c].ver = Current]
  /\ UNCHANGED <<server, disk, engine, ui, spent, past>>

LocalChanged(c) == cmd[c].pay # sess.fp
RemoteMoved(c)  == cmd[c].ver # sess.ver
Opens(c)        == hist[cmd[c].ver].pw = master
SameContent(c)  == Remote(cmd[c].ver) = cmd[c].pay

\* The verdicts of syncLocked on a fetched remote.  An unmoved remote is never
\* opened; a moved one is compared with the captured payload.
Compared(c) == cmd[c].ver > 0 /\ RemoteMoved(c) /\ Opens(c) /\ ~SameContent(c)

NothingToDo(c) == IF cmd[c].ver = 0 THEN NoHosts(cmd[c].pay)
                                    ELSE ~LocalChanged(c) /\ ~RemoteMoved(c)
MustPush(c) ==
  \/ cmd[c].ver = 0 /\ ~NoHosts(cmd[c].pay)
  \/ cmd[c].ver > 0 /\ LocalChanged(c) /\ ~RemoteMoved(c)
  \/ /\ Compared(c) /\ LocalChanged(c)
     /\ ~NoHosts(cmd[c].pay) /\ NoHosts(Remote(cmd[c].ver))
MustAdopt(c) == Compared(c) /\ (~LocalChanged(c) \/ NoHosts(cmd[c].pay))
MustAsk(c) ==
  /\ Compared(c) /\ LocalChanged(c)
  /\ ~NoHosts(cmd[c].pay) /\ ~NoHosts(Remote(cmd[c].ver))

Evaluate(c) ==
  LET k == cmd[c] IN
  /\ k.st = "got"
  /\ \/ NothingToDo(c) /\ Finish(c, "ok", 0) /\ UNCHANGED <<engine, spent>> /\ Rotated
     \/ MustPush(c) /\ ReadBlob(c, k.ver) /\ UNCHANGED <<engine, sessFile, spent>>
     \/ /\ k.ver > 0 /\ RemoteMoved(c) /\ ~Opens(c)
        /\ Finish(c, "wrong", 0) /\ UNCHANGED <<engine, spent>> /\ Rotated
     \/ /\ k.ver > 0 /\ RemoteMoved(c) /\ Opens(c) /\ SameContent(c)
        /\ Commit(k.ver, k.pay) /\ UNCHANGED <<pending, master>>
        /\ (Saved /\ Finish(c, "ok", 0)) \/ (NotSaved /\ Finish(c, "err", 0))
     \/ MustAdopt(c) /\ Finish(c, "adopt", k.ver) /\ UNCHANGED <<engine, spent>> /\ Rotated
     \/ MustAsk(c) /\ pending' = k.ver /\ Finish(c, "conflict", 0)
                   /\ UNCHANGED <<sess, master, spent>> /\ Rotated
  /\ UNCHANGED <<server, vault, pw, ui, past>>

\* PutVault with optimistic versioning: the server compares and swaps.
PutAccepted(c) ==
  LET k == cmd[c] IN
  /\ k.st = "put" /\ k.kind # "rekey" /\ Current = k.ver
  /\ Accept(k.blob, "me", k.blobPw)
  /\ Commit(k.ver + 1, k.pay)
  /\ \/ Saved /\ Finish(c, "pushed", 0) /\ pending' = 0
     \/ NotSaved /\ Finish(c, "err", 0) /\ UNCHANGED pending
  /\ mislabelled' = IF k.blob = k.pay THEN mislabelled ELSE mislabelled \cup {k.ver + 1}
  /\ UNCHANGED <<auth, vault, pw, master, ui, crossed>>

\* A 409: a pass refetches once, a keep-local drops the conflict and starts over.
PutRefused(c) ==
  LET k == cmd[c] IN
  /\ k.st = "put" /\ k.kind # "rekey" /\ Current # k.ver
  /\ UNCHANGED sess
  /\ \/ k.kind = "sync" /\ ~k.retry /\ Finish(c, "err", 0) /\ Rotated /\ UNCHANGED pending
     \/ /\ k.kind = "sync" /\ k.retry
        /\ cmd' = [cmd EXCEPT ![c].st = "get", ![c].retry = FALSE]
        /\ UNCHANGED <<pending, sessFile>>
     \/ /\ k.kind = "keep"
        /\ cmd' = [cmd EXCEPT ![c].st = "get", ![c].kind = "sync", ![c].retry = TRUE]
        /\ pending' = 0 /\ UNCHANGED sessFile
  /\ UNCHANGED <<server, vault, pw, master, ui, spent, past>>

-----------------------------------------------------------------------------
(* changePasswordCmd: the file is re-keyed first, then the account *)

\* Vault.ChangePassword, outside the engine and its mutex.
RekeyFile(c) ==
  /\ cmd[c].st = "queued" /\ cmd[c].kind \in {"rekey", "offlineRekey"}
  /\ \/ Writable /\ pw' = cmd[c].new /\ cmd' = [cmd EXCEPT ![c].st = "rekeyed"]
     \/ ~Writable /\ Finish(c, "err", 0) /\ UNCHANGED pw
  /\ UNCHANGED <<server, vault, sessFile, engine, ui, spent, past>>

\* SetPassword: signed out, the engine only takes the new password.
RekeyOffline(c) ==
  /\ cmd[c].st = "rekeyed" /\ cmd[c].kind = "offlineRekey" /\ MutexFree
  /\ master' = cmd[c].new
  /\ Finish(c, "rekeyed", 0)
  /\ UNCHANGED <<server, disk, sess, pending, ui, spent, past>>

RollBack(c) == cmd' = [cmd EXCEPT ![c].st = "undo"]

BeginRekey(c) ==
  /\ cmd[c].st = "rekeyed" /\ cmd[c].kind = "rekey" /\ MutexFree
  /\ \/ ~sess.on /\ RollBack(c)
     \/ sess.on /\ ReadBlob(c, 0)
  /\ UNCHANGED <<server, disk, engine, ui, spent, past>>

\* The server checks the current password's key; the blob goes with no expected
\* version.  An account without a vault has no password to change.
MayRekey(c) == Current > 0 /\ auth = cmd[c].old

RekeyAccepted(c) ==
  LET k == cmd[c] IN
  /\ k.st = "put" /\ k.kind = "rekey" /\ MayRekey(c)
  /\ Accept(k.blob, "me", k.blobPw) /\ auth' = k.new
  /\ master' = k.new
  /\ Commit(Current + 1, k.pay) /\ (Saved \/ NotSaved)
  /\ Finish(c, "rekeyed", 0)
  /\ mislabelled' = IF k.blob = k.pay THEN mislabelled ELSE mislabelled \cup {Current + 1}
  /\ UNCHANGED <<vault, pw, pending, ui, crossed>>

RekeyRefused(c) ==
  /\ cmd[c].st = "put" /\ cmd[c].kind = "rekey" /\ ~MayRekey(c)
  /\ RollBack(c)
  /\ UNCHANGED <<server, disk, engine, ui, spent, past>>

\* After the engine has failed and let go of its mutex.
RekeyUndone(c) ==
  /\ cmd[c].st = "undo"
  /\ pw' = IF Writable THEN cmd[c].old ELSE pw
  /\ Finish(c, "err", 0)
  /\ UNCHANGED <<server, vault, sessFile, engine, ui, spent, past>>

-----------------------------------------------------------------------------
(* Requests that fail, and the fetch outside the engine *)

\* Offline, e-mail unverified, or the session is dead.
RequestFails(c) ==
  /\ cmd[c].st \in {"get", "put"} /\ Spend("fault")
  /\ \/ cmd[c].kind = "rekey" /\ RollBack(c) /\ UNCHANGED <<engine, sessFile>>
     \/ /\ cmd[c].kind # "rekey" /\ \E res \in {"err", "unverified"} : Finish(c, res, 0)
        /\ UNCHANGED engine /\ Rotated
     \/ cmd[c].kind # "rekey" /\ Finish(c, "dead", 0) /\ DropSession
  /\ UNCHANGED <<server, vault, pw, ui, past>>

\* The server accepted the write and its answer never came.
AnswerLost(c) ==
  LET k == cmd[c] IN
  /\ k.st = "put" /\ Spend("fault")
  /\ \/ /\ k.kind # "rekey" /\ Current = k.ver
        /\ Accept(k.blob, "me", k.blobPw) /\ UNCHANGED auth
        /\ Finish(c, "err", 0) /\ UNCHANGED sess /\ Rotated
     \/ /\ k.kind = "rekey" /\ MayRekey(c)
        /\ Accept(k.blob, "me", k.blobPw) /\ auth' = k.new
        /\ RollBack(c) /\ UNCHANGED <<sess, sessFile>>
  /\ UNCHANGED <<vault, pw, pending, master, ui, past>>

\* fetchAccountVault runs outside the engine and its mutex.
FetchAccount(c) ==
  /\ cmd[c].st = "queued" /\ cmd[c].kind = "account"
  /\ \/ Current > 0 /\ Finish(c, "account", Current) /\ UNCHANGED spent
     \/ Current = 0 /\ Finish(c, "noAccount", 0) /\ UNCHANGED spent
     \/ Spend("fault") /\ Finish(c, "err", 0)
  /\ UNCHANGED <<server, disk, engine, ui, past>>

-----------------------------------------------------------------------------
(* UI handlers: results *)

Arrived(c, kind) == UIFree /\ cmd[c].st = "done" /\ cmd[c].kind = kind
Taken(c) == cmd' = [cmd EXCEPT ![c] = Idle]

\* handleSyncDone after a lock: there is no engine, the result is stale.
DropResult(c) ==
  /\ Arrived(c, "sync") /\ ~unlocked
  /\ Taken(c)
  /\ UNCHANGED <<server, disk, engine, ui, spent, past>>

\* Mutant: a failure shows nothing.
ReportSuccess(c, st, keepsConflict) ==
  /\ Taken(c) /\ syncSt' = IF st = "offline" THEN syncSt ELSE st
  /\ conflict' = (conflict /\ keepsConflict)
  /\ UNCHANGED <<modal, signedIn>>
Report(c, st, keepsConflict) ==
  /\ Taken(c) /\ syncSt' = st
  /\ conflict' = (conflict /\ keepsConflict)
  /\ UNCHANGED <<modal, signedIn>>

SessionGone(c) ==
  /\ Taken(c) /\ signedIn' = FALSE
  /\ syncSt' = "none" /\ conflict' = FALSE /\ UNCHANGED modal

HandleSyncDone(c) ==
  LET res == cmd[c].res IN
  /\ Arrived(c, "sync") /\ unlocked
  /\ \/ res = "signedOut" /\ Report(c, "none", TRUE)
     \/ res = "dead" /\ SessionGone(c)
     \/ res = "unverified" /\ Report(c, "offline", FALSE)
     \/ res = "err" /\ Report(c, "offline", TRUE)
     \/ res = "wrong" /\ boot.on /\ Report(c, "offline", TRUE)
     \/ /\ res = "wrong" /\ ~boot.on
        /\ cmd' = [cmd EXCEPT ![c] = Fresh("account", held)]
        /\ syncSt' = "offline" /\ UNCHANGED <<conflict, modal, signedIn>>
     \/ /\ res = "conflict" /\ Taken(c)
        /\ syncSt' = "conflict" /\ conflict' = TRUE
        /\ modal' = IF modal = "none" THEN "conflict" ELSE modal
        /\ UNCHANGED signedIn
     \/ res \in {"ok", "pushed"} /\ Report(c, "synced", FALSE)
  /\ UNCHANGED <<server, disk, handle, engine, unlocked, screen, uiJobs, spent, past>>

\* adoptRemote saves the payload, then waits for the mutex in CommitAdopt.
AdoptRemote(c) ==
  /\ Arrived(c, "sync") /\ unlocked /\ cmd[c].res \in {"adopt", "taken"} /\ Writable
  /\ vault' = Remote(cmd[c].ver) /\ held' = vault' /\ adopting' = cmd[c].ver
  /\ Taken(c)
  /\ UNCHANGED <<server, pw, sessFile, holder, unlocked, engine, uiMain, timer, resuming, boot, step, spent, past>>

\* The write fails, as on a vault that an install has closed.
AdoptUnsaved(c) ==
  /\ Arrived(c, "sync") /\ unlocked /\ cmd[c].res \in {"adopt", "taken"}
  /\ (~Writable /\ UNCHANGED spent) \/ Spend("fault")
  /\ Report(c, "offline", TRUE)
  /\ UNCHANGED <<server, disk, handle, unlocked, engine, screen, uiJobs, past>>

CommitAdopt ==
  /\ adopting # 0 /\ MutexFree
  /\ adopting' = 0 /\ syncSt' = "synced" /\ conflict' = FALSE /\ UNCHANGED master
  /\ \/ sess.on /\ Commit(adopting, Remote(adopting)) /\ (Saved \/ NotSaved) /\ pending' = 0
     \/ ~sess.on /\ UNCHANGED <<sess, sessFile, pending, spent>>
  /\ UNCHANGED <<server, vault, pw, handle, unlocked, cmd, screen, modal, signedIn, timer, resuming, boot, step, past>>

HandleRekeyDone(c) ==
  /\ Arrived(c, "rekey")
  /\ Taken(c)
  /\ modal' = IF cmd[c].res = "rekeyed" THEN "none" ELSE modal
  /\ UNCHANGED <<server, disk, handle, unlocked, engine, screen, syncSt, conflict, signedIn, uiJobs, spent, past>>

\* The newest fetch is the sign-in from now on; the password the engine holds
\* is tried first after a pairing.
HandleAccountFetched(c) ==
  LET k == cmd[c] IN
  /\ Arrived(c, "account")
  /\ \/ /\ k.res = "account"
        /\ boot' = [on |-> TRUE, ver |-> k.ver, merge |-> k.pay]
        /\ screen' = "gate" /\ UNCHANGED syncSt
        /\ \/ /\ k.retry /\ unlocked /\ step' = "opening"
              /\ cmd' = [cmd EXCEPT ![c] = Opening(boot', master)]
           \/ ~(k.retry /\ unlocked) /\ step' = "prompt" /\ Taken(c)
     \/ /\ k.res \in {"noAccount", "err"} /\ Taken(c)
        /\ boot' = NoBoot /\ screen' = "main" /\ step' = "unlock" /\ syncSt' = "offline"
  /\ UNCHANGED <<server, disk, handle, unlocked, engine, conflict, modal, signedIn, timer, resuming, adopting, spent, past>>

\* handleVaultInstalled, an error: back to the password, or to the unlock prompt
\* if a lock has taken the vault away.
InstallFailed(c) ==
  /\ Arrived(c, "install") /\ cmd[c].res \in {"wrong", "err"}
  /\ Taken(c)
  /\ \/ cmd[c].res = "err" /\ ~unlocked /\ boot' = NoBoot /\ step' = "unlock"
     \/ /\ cmd[c].res = "err" => unlocked
        /\ step' = IF screen = "gate" THEN "prompt" ELSE step
        /\ UNCHANGED boot
  /\ UNCHANGED <<server, disk, handle, unlocked, engine, uiMain, timer, resuming, adopting, spent, past>>

\* handleVaultInstalled: a new engine, attached with the version of the sign-in
\* that is under way by now and the content of the blob that was installed.
Attach(c) == Commit(boot.ver, Remote(cmd[c].ver))

VaultInstalled(c) ==
  /\ Arrived(c, "install") /\ cmd[c].res = "installed" /\ boot.on /\ MutexFree
  /\ unlocked' = TRUE /\ holder' = "ui" /\ held' = vault /\ master' = pw
  /\ Attach(c) /\ pending' = 0
  /\ crossed' = IF Remote(boot.ver) = Remote(cmd[c].ver) THEN crossed ELSE crossed \cup {sess'}
  /\ boot' = NoBoot /\ step' = "unlock" /\ conflict' = FALSE
  /\ \/ /\ sessFile' = sess' /\ UNCHANGED spent
        /\ cmd' = [d \in Slots |-> IF d = c THEN Fresh("sync", vault) ELSE Closed(cmd[d])]
        /\ screen' = "main" /\ syncSt' = "syncing" /\ signedIn' = TRUE /\ resuming' = TRUE
     \/ /\ Spend("fault") /\ UNCHANGED sessFile
        /\ cmd' = [d \in Slots |-> IF d = c THEN Idle ELSE Closed(cmd[d])]
        /\ syncSt' = "none" /\ UNCHANGED <<screen, signedIn, resuming>>
  /\ UNCHANGED <<server, vault, pw, modal, timer, adopting, mislabelled>>

-----------------------------------------------------------------------------
(* The process dies; only the disk and the server keep what they hold *)

Died ==
  /\ unlocked' = FALSE /\ sess' = SignedOut /\ pending' = 0 /\ master' = 0
  /\ holder' = "none" /\ held' = {}
  /\ cmd' = [c \in Slots |-> Idle]
  /\ screen' = "gate" /\ syncSt' = "none" /\ conflict' = FALSE /\ modal' = "none"
  /\ signedIn' = FALSE
  /\ timer' = FALSE /\ resuming' = FALSE /\ adopting' = 0 /\ boot' = NoBoot /\ step' = "unlock"
  /\ UNCHANGED <<server, disk, past>>

Crash == Spend("fault") /\ Died

\* A vault is installed for a sign-in that is gone: the handler dereferences
\* nil.  So does the install that a password typed without a sign-in starts.
InstalledForNone(c) ==
  Arrived(c, "install") /\ cmd[c].res = "installed" /\ ~boot.on /\ Died /\ UNCHANGED spent
PasswordForNone ==
  KeysReach("gate") /\ step = "prompt" /\ ~boot.on /\ Died /\ UNCHANGED spent

-----------------------------------------------------------------------------

UIKeys(c) ==
  \/ ManualSync(c) \/ ResolveKey(c, "keep") \/ ResolveKey(c, "take")
  \/ SubmitRekey(c) \/ Pair(c) \/ EnterPassword(c)
PassStep(c) ==
  \/ Begin(c) \/ GetVault(c) \/ Evaluate(c) \/ PutAccepted(c) \/ PutRefused(c)
  \/ RekeyFile(c) \/ RekeyOffline(c) \/ BeginRekey(c) \/ RekeyAccepted(c)
  \/ RekeyRefused(c) \/ RekeyUndone(c) \/ FetchAccount(c)
  \/ InstallBlob(c) \/ SaveMerged(c)
ResultStep(c) ==
  \/ DropResult(c) \/ HandleSyncDone(c) \/ AdoptRemote(c) \/ AdoptUnsaved(c)
  \/ HandleRekeyDone(c) \/ HandleAccountFetched(c)
  \/ InstallFailed(c) \/ VaultInstalled(c) \/ InstalledForNone(c)
FaultStep(c) == AnswerLost(c) \/ RequestFails(c)

Next ==
  \/ \E p \in Payload : OtherPush(p) \/ Edit(p)
  \/ \E c \in Slots : UIKeys(c) \/ PassStep(c) \/ ResultStep(c) \/ FaultStep(c)
  \/ OtherRekey \/ TimerFires \/ EscModal \/ SignOut \/ PairUnsaved \/ Lock \/ Unlock
  \/ Resume \/ CancelSignIn \/ CommitAdopt \/ LeakCollected \/ Crash \/ PasswordForNone

Spec == Init /\ [][Next]_vars

\* Goroutines run, requests return within syncTimeout, Bubble Tea delivers
\* messages and timers; nobody has to press a key.
Fairness ==
  /\ \A c \in Slots : WF_vars(PassStep(c)) /\ WF_vars(ResultStep(c))
  /\ WF_vars(CommitAdopt) /\ WF_vars(TimerFires) /\ WF_vars(Resume)
FairSpec == Spec /\ Fairness

-----------------------------------------------------------------------------
(* Properties *)

TypeOK ==
  /\ hist \in Seq(Version)
  /\ vault \in Payload /\ pw \in Nat /\ auth \in Nat /\ master \in Nat
  /\ sessFile \in Session /\ sess \in Session
  /\ holder \in {"none", "ui", "install", "leaked"} /\ held \in Payload
  /\ unlocked \in BOOLEAN /\ pending \in Nat
  /\ cmd \in [Slots -> Command]
  /\ screen \in {"gate", "main", "auth"}
  /\ syncSt \in {"none", "syncing", "synced", "offline", "conflict"}
  /\ conflict \in BOOLEAN /\ modal \in {"none", "conflict", "password"}
  /\ signedIn \in BOOLEAN /\ timer \in BOOLEAN /\ resuming \in BOOLEAN
  /\ adopting \in Nat /\ boot \in Boot /\ step \in {"unlock", "prompt", "opening", "choose"}
  /\ spent \in [DOMAIN Limit -> Nat]
  /\ mislabelled \subseteq Nat /\ crossed \subseteq Session

\* What a session records of the last agreement is what the server holds at
\* that version, whatever overlapped, was lost, could not be saved or crashed
\* in between (commit, CommitAdopt, Attach), in memory and on disk.  Two kinds
\* of session are the exception: those at a version pushed under another
\* payload's fingerprint, and those a sign-in attached across two fetches.
Records(s) ==
  s.on /\ s.ver > 0 /\ s.ver \notin mislabelled /\ s \notin crossed =>
    s.ver <= Current /\ s.fp = Remote(s.ver)
AgreementIsReal == Records(sess) /\ Records(sessFile)

PushesOver(c) ==
  /\ cmd[c].st = "put" /\ cmd[c].kind # "rekey"
  /\ cmd'[c] # cmd[c] /\ hist' # hist
\* The session holds the content of the current version, or uploaded it itself.
Agrees == sess.ver = Current /\ (sess.fp = Remote(Current) \/ Current \in mislabelled)
Known(c) ==
  \/ Current = 0 \/ NoHosts(Remote(Current)) \/ Agrees
  \/ cmd[c].kind = "keep" /\ pending = Current

\* A push replaces a version of the account vault only if the device agreed
\* with its content, found it without hosts, or was told by the user to keep
\* local over it: no other device's hosts are overwritten unseen (pushLocked,
\* the 409 retries, Resolve).  The exception is a session that a sign-in
\* attached across two fetches.
NoBlindOverwrite == [][\A c \in Slots : PushesOver(c) => Known(c) \/ sess \in crossed]_vars

Quiet == UIFree /\ ~timer /\ ~resuming /\ \A c \in Slots : cmd[c] = Idle

\* With nothing in flight a device that looks signed in has a session: no dead,
\* closed or replaced session leaves a UI that reports the vault as synced and
\* never pushes again (handleSyncDone, handleSessionResumed,
\* handleVaultInstalled, lock).
UIKnowsSession == Quiet /\ unlocked /\ signedIn => sess.on

\* The syncing indicator always goes out again (or the sign-in asks for a
\* password): while it is lit every debounced push is dropped, so a stuck one
\* would stop syncing for good (startSync, handleSyncDone, handleSyncPushTimer).
SyncingEnds == syncSt = "syncing" ~> (syncSt # "syncing" \/ boot.on)

-----------------------------------------------------------------------------
(* What the documentation and the comments say, and the code does not do *)

\* update_sync.go: a save whose push timer is dropped is covered by the pass
\* that was running.
DroppedSaveIsCovered == Quiet /\ signedIn /\ syncSt = "synced" => vault = sess.fp

\* README: when both sides changed a prompt asks; nothing is adopted silently
\* over local changes (a vault without hosts aside).
AdoptsSilently == \E c \in Slots : cmd[c].res = "adopt" /\ cmd'[c] = Idle /\ adopting' # adopting
NoSilentLoss == [][AdoptsSilently /\ sess.on => vault = sess.fp \/ NoHosts(vault)]_vars

\* README: the account vault is never overwritten without a prompt when
\* another device changed it, a change of the master password included.
RekeyOverwritesKnown ==
  [][\A c \in Slots : cmd[c].kind = "rekey" /\ hist' # hist /\ cmd'[c] # cmd[c]
       => sess.ver = Current \/ NoHosts(Remote(Current))]_vars

\* update_unlock.go: a sign-in caught mid-flight by a lock is abandoned.
LockAbandonsSignIn == ~unlocked => ~boot.on

\* update_signin.go: the hosts and keys the vault had before the sign-in are
\* folded into the account vault rather than dropped.
MergeKeepsLocal ==
  [][\A c \in Slots : cmd[c].st = "blob" /\ cmd'[c] # cmd[c] => cmd[c].pay \subseteq vault']_vars

\* update_signin.go: what is attached as the content of a version is the
\* content of that version.
AttachedAsFetched ==
  sess.on /\ sess.ver > 0 /\ sess.ver \notin mislabelled => sess.fp = Remote(sess.ver)

\* update_signin.go: cancelling abandons a sign-in that is under way, and goes
\* back to the dashboard.
CancelAbandons == \A c \in Slots : Arrived(c, "install") /\ cmd[c].res = "installed" => boot.on

\* update_signin.go: the unlock prompt is where a failed sign-in ends that has
\* closed the vault; it can only open a vault that is not open.
PromptCanOpen == screen = "gate" /\ step = "unlock" => ~unlocked

\* update_password.go: after a failed online change the local vault is back on
\* the password the server has.
FailedRekeyInStep ==
  \A c \in Slots :
    cmd[c].kind = "rekey" /\ cmd[c].res = "err" /\ Current > 0 /\ hist[Current].by = "me"
      => hist[Current].pw = pw

=============================================================================
