----------------------------- MODULE VaultFile -----------------------------
(***************************************************************************)
(* The vault file and the goroutines that write it: internal/vault          *)
(* (vault.go, format.go, lock.go), the gate of ui/update_unlock.go, the      *)
(* re-key of ui/update_password.go and the sign-in of ui/update_signin.go.   *)
(*                                                                         *)
(* One instance of wharf is modelled in full, write by write.  Its event    *)
(* loop saves; a goroutine creates, re-keys, resets or installs.  A second   *)
(* instance takes the lock when it is free.  The machine may lose power      *)
(* between any two steps.  A secret is a model value, a wrapped key is the   *)
(* secret that unwraps it, and a body opens if it was sealed with the key    *)
(* and the nonce of its header.                                             *)
(***************************************************************************)
EXTENDS Naturals, FiniteSets

CONSTANTS
    Passwords,     \* master passwords the user may choose
    AccountPw,     \* the account's master password
    Hosts,         \* hosts the user may save
    AccountHosts,  \* hosts of the account's vault
    MaxCodes,      \* recovery codes a run generates
    MaxEdits,      \* edits of a run
    MaxFaults,     \* file operations that fail
    MaxCrashes,    \* power losses
    MaxRaces,      \* saves that start while a goroutine is at the vault
    MaxOthers      \* times the second instance opens the vault

ASSUME VaultAssumption ==
    \A n \in {MaxCodes, MaxEdits, MaxFaults, MaxCrashes, MaxRaces, MaxOthers} : n \in Nat

VARIABLES
    data,      \* data[i]: what inode i holds
    synced,    \* inodes whose data reached the disk
    path,      \* the inode vault.enc names, NoInode before a vault exists
    tmp,       \* the inode vault.enc.tmp names
    disk,      \* the inode vault.enc names on the disk
    lock,      \* who holds vault.lock
    handle,    \* handle[h]: a Vault object of this process
    wr,        \* wr[w]: the save the writer w is in
    job,       \* the command the goroutine runs
    ui,        \* the gate and the main screen
    knows,     \* the secrets the user holds for good
    acked,     \* the document of the last save that was reported done
    kept,      \* where it is: on the disk, in the cache, or lost with the power
    raced,     \* a save started while a command was at the vault
    budget

vars == <<data, synced, path, tmp, disk, lock, handle, wr, job, ui, knows, acked,
          kept, raced, budget>>
files == <<data, synced, path, tmp, disk>>

None    == "none"
NoInode == 0
Free    == 0           \* nobody holds the lock
Other   == 9           \* the second instance does
Garbled == "garbled"   \* a slot nothing opens
Writers == {"ui", "bg"}
Handles == {1, 2}
Inodes  == 1..6

\* Recovery codes are numbered in the order they are generated.
NoCode      == 0
AccountCode == 1

\* The account's blob, as the server holds it.
Blob == [kind |-> "vault", pw |-> AccountPw, rec |-> AccountCode, dek |-> "account",
         hosts |-> AccountHosts, sealed |-> TRUE]

Torn  == [kind |-> "torn"]      \* bytes that are no vault file
Empty == [kind |-> "empty"]     \* a file truncated to nothing
Gone  == [kind |-> "gone"]      \* no file

IsVault(c)  == c.kind = "vault"
Contents(i) == IF i = NoInode THEN Gone ELSE data[i]

\* A password or a code of k unwraps the key and the body is authentic.
Opens(c, k) == IsVault(c) /\ c.sealed /\ (c.pw \in k.pws \/ c.rec \in k.codes)

NoHandle == [pw |-> None, rec |-> NoCode, dek |-> None, key |-> None,
             nonce |-> None, pay |-> {}]
Idle  == [pc |-> "idle"]
NoJob == [kind |-> "none", pc |-> "done", pw |-> None, cur |-> None, code |-> NoCode,
          h |-> Free, old |-> Free, merge |-> {}, res |-> None]
Gate(s) == [step |-> s, vault |-> Free, doc |-> {}, boot |-> None, merge |-> {}]

Learns(pw) == knows' = [knows EXCEPT !.pws = @ \cup {pw}]
Spend(k)   == budget[k] > 0 /\ budget' = [budget EXCEPT ![k] = @ - 1]

---------------------------------------------------------------------------
(* save: re-seal under a fresh nonce and replace the file atomically. *)

Begin(w, h, pay) == [wr EXCEPT ![w] = [pc |-> "marshal", h |-> h, pay |-> pay]]

\* Mutant: the bytes are put in place before they are on the disk.
RenamesEarly(w) == wr[w].pc \in {"sync", "rename"}

RenamesSynced(w) == wr[w].pc = "rename"

\* rand.Read into the nonce of the header the vault keeps; the header's bytes.
Marshal(w) ==
    /\ wr[w].pc = "marshal"
    /\ LET v == handle[wr[w].h] IN
       wr' = [wr EXCEPT ![w] = [pc |-> "seal", h |-> wr[w].h,
                  out |-> [kind |-> "vault", pw |-> v.pw, rec |-> v.rec, dek |-> v.dek,
                           hosts |-> wr[w].pay, sealed |-> FALSE]]]
    /\ handle' = [handle EXCEPT ![wr[w].h].nonce = w]
    /\ UNCHANGED <<files, lock, job, ui, knows, acked, kept, raced, budget>>

\* The body is sealed with the key and the nonce the vault holds NOW; the
\* header that was marshalled names the ones it held then.
Matches(v, w) == v.key = v.dek /\ v.nonce = w

Seal(w) ==
    /\ wr[w].pc = "seal"
    /\ LET v == handle[wr[w].h] IN
       /\ wr' = IF v.key = None
                THEN [wr EXCEPT ![w] = [pc |-> "failed"]]
                ELSE [wr EXCEPT ![w] = [pc |-> "open", h |-> wr[w].h,
                          out |-> [wr[w].out EXCEPT !.sealed = Matches(v, w)]]]
       /\ handle' = [handle EXCEPT ![wr[w].h].nonce = IF @ = w THEN None ELSE @]
    /\ UNCHANGED <<files, lock, job, ui, knows, acked, kept, raced, budget>>

---------------------------------------------------------------------------
(* writeFileAtomic *)

Held(w) == wr[w].pc \in {"write", "sync", "rename"}
InUseInodes == {path, tmp, disk} \cup {wr[w].ino : w \in {x \in Writers : Held(x)}}
FreeInode == CHOOSE i \in Inodes \ InUseInodes :
                 \A j \in Inodes \ InUseInodes : i <= j

\* O_CREATE and O_TRUNC: whatever is at the temporary name is emptied.
TmpInode == IF tmp = NoInode THEN FreeInode ELSE tmp

OpenTmp(w) ==
    /\ wr[w].pc = "open"
    /\ LET i == TmpInode IN
       /\ tmp' = i
       /\ data' = [data EXCEPT ![i] = Empty]
       /\ synced' = synced \ {i}
       /\ wr' = [wr EXCEPT ![w] = [pc |-> "write", h |-> wr[w].h, out |-> wr[w].out,
                                   ino |-> i]]
    /\ UNCHANGED <<path, disk, lock, handle, job, ui, knows, acked, kept, raced, budget>>

\* A write starts at offset 0 of the writer's own descriptor: a shorter one
\* leaves the tail of what another writer wrote.
Overlay(old, new) ==
    IF IsVault(old) /\ Cardinality(old.hosts) > Cardinality(new.hosts) THEN Torn ELSE new

Write(w) ==
    /\ wr[w].pc = "write"
    /\ data' = [data EXCEPT ![wr[w].ino] = Overlay(@, wr[w].out)]
    /\ synced' = synced \ {wr[w].ino}
    /\ wr' = [wr EXCEPT ![w].pc = "sync"]
    /\ UNCHANGED <<path, tmp, disk, lock, handle, job, ui, knows, acked, kept, raced, budget>>

Sync(w) ==
    /\ wr[w].pc = "sync"
    /\ synced' = synced \cup {wr[w].ino}
    /\ wr' = [wr EXCEPT ![w].pc = "rename"]
    /\ UNCHANGED <<data, path, tmp, disk, lock, handle, job, ui, knows, acked, kept, raced, budget>>

\* A temporary name another writer has renamed away is an error here.
Rename(w) ==
    /\ RenamesSynced(w)
    /\ IF tmp = NoInode
       THEN /\ wr' = [wr EXCEPT ![w] = [pc |-> "failed"]]
            /\ UNCHANGED <<path, tmp>>
       ELSE /\ path' = tmp /\ tmp' = NoInode
            /\ wr' = [wr EXCEPT ![w].pc = "dir"]
    /\ UNCHANGED <<data, synced, disk, lock, handle, job, ui, knows, acked, kept, raced, budget>>

\* Inodes no name and no descriptor refers to are gone.
Reclaimed(d, live) == [i \in Inodes |-> IF i \in live THEN d[i] ELSE Gone]

\* A failing open, write, sync or rename removes the temporary file.
FileFails(w) ==
    /\ wr[w].pc \in {"open", "write", "sync", "rename"} /\ Spend("faults")
    /\ tmp' = IF wr[w].pc = "open" THEN tmp ELSE NoInode
    /\ wr' = [wr EXCEPT ![w] = [pc |-> "failed"]]
    /\ UNCHANGED <<data, synced, path, disk, lock, handle, job, ui, knows, acked, kept, raced>>

\* Mutant: a save does not refresh the payload the vault keeps.
KeepsPayload(w) == handle

\* The vault's payload follows the file.
TakesPayload(w) == [handle EXCEPT ![wr[w].h].pay = wr[w].out.hosts]

\* A re-key or a reset saves no document: it writes the slots again.
Rewraps(w) == w = "bg" /\ job.kind \in {"rekey", "reset"}

\* The result of the directory's fsync is not looked at.
SyncDir(w) ==
    /\ wr[w].pc = "dir"
    /\ \/ /\ disk' = path /\ UNCHANGED budget
          /\ kept' = IF Rewraps(w) /\ kept = "lost" THEN "lost" ELSE "disk"
       \/ /\ disk' = disk /\ Spend("faults")
          /\ kept' = IF Rewraps(w) THEN kept ELSE "cache"
    /\ LET live == {path, tmp, disk'} \cup {wr[x].ino : x \in {y \in Writers : Held(y)}} IN
       /\ data' = Reclaimed(data, live)
       /\ synced' = synced \cap live
    /\ acked' = IF Rewraps(w) THEN acked ELSE wr[w].out.hosts
    /\ handle' = TakesPayload(w)
    /\ wr' = [wr EXCEPT ![w] = [pc |-> "ok"]]
    /\ UNCHANGED <<path, tmp, lock, job, ui, knows, raced>>

Saving(w) == \/ Marshal(w) \/ Seal(w) \/ OpenTmp(w) \/ Write(w)
             \/ Sync(w) \/ Rename(w) \/ FileFails(w) \/ SyncDir(w)


Returned(w) == wr[w].pc \in {"ok", "failed"}
Rest(w)     == [wr EXCEPT ![w] = Idle]

---------------------------------------------------------------------------
(* The goroutine of a command.  Its result waits for the event loop. *)

Result(r) == job' = [job EXCEPT !.pc = "done", !.res = r]
At(k, pc) == job.kind = k /\ job.pc = pc
GoTo(pc)  == job' = [job EXCEPT !.pc = pc]
SpareHandle == CHOOSE h \in Handles : handle[h] = NoHandle /\ lock # h

\* A vault object over a file.
Unlocked(c) == [pw |-> c.pw, rec |-> c.rec, dek |-> c.dek, key |-> c.dek,
                nonce |-> None, pay |-> c.hosts]

\* Create: the lock, a fresh key under both slots, an empty payload.
CreateBegins ==
    /\ At("create", "begin")
    /\ IF lock # Free
       THEN Result("locked") /\ UNCHANGED <<lock, handle, wr>>
       ELSE LET h == SpareHandle IN
            /\ lock' = h
            /\ handle' = [handle EXCEPT ![h] =
                   Unlocked([pw |-> job.pw, rec |-> job.code, dek |-> "local", hosts |-> {}])]
            /\ wr' = Begin("bg", h, {})
            /\ job' = [job EXCEPT !.pc = "save", !.h = h]
    /\ UNCHANGED <<files, ui, knows, acked, kept, raced, budget>>

CreateEnds ==
    /\ At("create", "save") /\ Returned("bg")
    /\ wr' = Rest("bg")
    /\ IF wr["bg"].pc = "ok"
       THEN Result("ok") /\ UNCHANGED <<lock, handle>>
       ELSE /\ Result("err")
            /\ lock' = Free
            /\ handle' = [handle EXCEPT ![job.h] = NoHandle]
    /\ UNCHANGED <<files, ui, knows, acked, kept, raced, budget>>

\* Open and OpenWithRecovery: whatever fails releases the lock again.
Unwraps(c) == IF job.kind = "open" THEN c.pw = job.pw ELSE c.rec = job.code

OpenVault ==
    /\ job.kind \in {"open", "recover"} /\ job.pc = "begin"
    /\ LET c == Contents(path) IN
       \/ /\ lock # Free
          /\ Result("locked") /\ UNCHANGED <<lock, handle>>
       \/ /\ lock = Free
          /\ \/ IsVault(c) /\ ~Unwraps(c) /\ Result("wrong")
             \/ (IsVault(c) => Unwraps(c) /\ ~c.sealed) /\ Result("err")
          /\ UNCHANGED <<lock, handle>>
       \/ /\ lock = Free /\ IsVault(c) /\ c.sealed /\ Unwraps(c)
          /\ LET h == SpareHandle IN
             /\ lock' = h
             /\ handle' = [handle EXCEPT ![h] = Unlocked(c)]
             /\ job' = [job EXCEPT !.pc = "done", !.h = h, !.res = "ok"]
    /\ UNCHANGED <<files, wr, ui, knows, acked, kept, raced, budget>>

---------------------------------------------------------------------------
(* ChangePassword, the command that calls it, and the reset. *)

\* The current password is tried on the file, without the lock.
RekeyVerifies ==
    /\ At("rekey", "begin")
    /\ LET c == Contents(path) IN
       IF IsVault(c) /\ c.sealed /\ c.pw = job.cur
       THEN GoTo("salt") /\ Learns(job.pw)
       ELSE /\ Result(IF IsVault(c) /\ c.pw # job.cur THEN "wrong" ELSE "err")
            /\ UNCHANGED knows
    /\ UNCHANGED <<files, lock, handle, wr, ui, acked, kept, raced, budget>>

\* The salt and the nonce of the slot go in before the wrapped key.
RekeySalt ==
    /\ job.kind = "rekey" /\ job.pc \in {"salt", "unsalt"}
    /\ handle' = [handle EXCEPT ![job.h].pw = Garbled]
    /\ GoTo(IF job.pc = "salt" THEN "wrap" ELSE "unwrap")
    /\ UNCHANGED <<files, lock, wr, ui, knows, acked, kept, raced, budget>>

\* The payload is the one the vault keeps, not the event loop's document.
RekeyWrap ==
    /\ job.kind = "rekey" /\ job.pc \in {"wrap", "unwrap"}
    /\ handle' = [handle EXCEPT ![job.h].pw = IF job.pc = "wrap" THEN job.pw ELSE job.cur]
    /\ wr' = Begin("bg", job.h, handle[job.h].pay)
    /\ GoTo(IF job.pc = "wrap" THEN "save" ELSE "unsave")
    /\ UNCHANGED <<files, lock, ui, knows, acked, kept, raced, budget>>

\* Online, the account's refusal rolls the file back; that result is dropped.
RekeySaved ==
    /\ job.kind = "rekey" /\ job.pc \in {"save", "unsave"} /\ Returned("bg")
    /\ wr' = Rest("bg")
    /\ \/ job.pc = "save" /\ wr["bg"].pc = "failed" /\ Result("err")
       \/ job.pc = "save" /\ wr["bg"].pc = "ok" /\ Result("ok")
       \/ job.pc = "save" /\ wr["bg"].pc = "ok" /\ GoTo("unsalt")
       \/ job.pc = "unsave" /\ Result("err")
    /\ UNCHANGED <<files, lock, handle, ui, knows, acked, kept, raced, budget>>

\* resetCmd: ChangePassword, then RegenerateRecovery.
ResetBegins ==
    /\ At("reset", "begin")
    /\ handle' = [handle EXCEPT ![job.h].pw = job.pw]
    /\ wr' = Begin("bg", job.h, handle[job.h].pay)
    /\ GoTo("save")
    /\ UNCHANGED <<files, lock, ui, knows, acked, kept, raced, budget>>

Regenerates ==
    /\ At("reset", "save") /\ Returned("bg")
    /\ IF wr["bg"].pc = "failed"
       THEN Result("err") /\ wr' = Rest("bg") /\ UNCHANGED handle
       ELSE /\ handle' = [handle EXCEPT ![job.h].rec = job.code]
            /\ wr' = Begin("bg", job.h, handle[job.h].pay)
            /\ GoTo("code")
    /\ UNCHANGED <<files, lock, ui, knows, acked, kept, raced, budget>>

ResetEnds ==
    /\ At("reset", "code") /\ Returned("bg")
    /\ wr' = Rest("bg")
    /\ Result(IF wr["bg"].pc = "ok" THEN "ok" ELSE "err")
    /\ UNCHANGED <<files, lock, handle, ui, knows, acked, kept, raced, budget>>

---------------------------------------------------------------------------
(* installAccountVaultCmd: the account's blob becomes the vault file. *)

\* The password is checked on the blob while the old vault is open.
InstallChecks ==
    /\ At("install", "begin")
    /\ IF job.pw # AccountPw THEN Result("wrong")
       ELSE GoTo(IF job.old = Free THEN "take" ELSE "zero")
    /\ UNCHANGED <<files, lock, handle, wr, ui, knows, acked, kept, raced, budget>>

\* Close scrubs the key in place, then lets go of it and of the lock.
InstallZeroes ==
    /\ At("install", "zero")
    /\ handle' = [handle EXCEPT ![job.old].key = IF @ = None THEN None ELSE "zero"]
    /\ GoTo("close")
    /\ UNCHANGED <<files, lock, wr, ui, knows, acked, kept, raced, budget>>

InstallCloses ==
    /\ At("install", "close")
    /\ handle' = [handle EXCEPT ![job.old].key = None]
    /\ lock' = IF lock = job.old THEN Free ELSE lock
    /\ GoTo("take")
    /\ UNCHANGED <<files, wr, ui, knows, acked, kept, raced, budget>>

\* Mutant: the blob is written whoever holds the lock.
LockIgnored == TRUE

LockFree == lock = Free

InstallTakesLock ==
    /\ At("install", "take")
    /\ IF ~LockFree
       THEN Result("locked") /\ UNCHANGED <<lock, handle, wr>>
       ELSE LET h == SpareHandle IN
            /\ lock' = IF lock = Free THEN h ELSE lock
            /\ handle' = [handle EXCEPT ![h] = Unlocked(Blob)]
            /\ wr' = [wr EXCEPT !["bg"] = [pc |-> "open", h |-> h, out |-> Blob]]
            /\ job' = [job EXCEPT !.pc = "write", !.h = h]
    /\ UNCHANGED <<files, ui, knows, acked, kept, raced, budget>>

\* Merge: what this machine held is added; a save follows only if it adds.
Merged == AccountHosts \cup job.merge

InstallWrote ==
    /\ At("install", "write") /\ Returned("bg")
    /\ \/ /\ wr["bg"].pc = "failed"
          /\ Result("err")
          /\ lock' = Free
          /\ handle' = [handle EXCEPT ![job.h] = NoHandle]
          /\ wr' = Rest("bg")
       \/ /\ wr["bg"].pc = "ok"
          /\ IF Merged = AccountHosts
             THEN Result("ok") /\ wr' = Rest("bg")
             ELSE GoTo("merge") /\ wr' = Begin("bg", job.h, Merged)
          /\ UNCHANGED <<lock, handle>>
    /\ UNCHANGED <<files, ui, knows, acked, kept, raced, budget>>

\* A merge that cannot be saved drops the new vault without closing it.
InstallMerged ==
    /\ At("install", "merge") /\ Returned("bg")
    /\ wr' = Rest("bg")
    /\ Result(IF wr["bg"].pc = "ok" THEN "ok" ELSE "err")
    /\ UNCHANGED <<files, lock, handle, ui, knows, acked, kept, raced, budget>>

Goroutine == \/ CreateBegins \/ CreateEnds \/ OpenVault
             \/ RekeyVerifies \/ RekeySalt \/ RekeyWrap \/ RekeySaved
             \/ ResetBegins \/ Regenerates \/ ResetEnds
             \/ InstallChecks \/ InstallZeroes \/ InstallCloses \/ InstallTakesLock
             \/ InstallWrote \/ InstallMerged

---------------------------------------------------------------------------
(* The event loop: the gate, the main screen, the password modal. *)

UiFree  == wr["ui"].pc = "idle"
NextCode == AccountCode + 1 + (MaxCodes - budget.codes)

\* A command is started from a step of the gate or of the main screen.
Command(step, new) ==
    /\ UiFree /\ job = NoJob
    /\ job' = new
    /\ ui' = [ui EXCEPT !.step = step]
    /\ UNCHANGED <<files, lock, handle, wr, acked, kept, raced>>

CreateEnter(pw) ==
    /\ ui.step \in {"choose", "create"} /\ Spend("codes") /\ Learns(pw)
    /\ Command("busy", [NoJob EXCEPT !.kind = "create", !.pc = "begin", !.pw = pw,
                                     !.code = NextCode])

UnlockEnter(pw) ==
    /\ ui.step = "unlock"
    /\ Command("busy", [NoJob EXCEPT !.kind = "open", !.pc = "begin", !.pw = pw])
    /\ UNCHANGED <<knows, budget>>

RecoverEnter(code) ==
    /\ ui.step = "unlock" /\ code \in knows.codes
    /\ Command("busy", [NoJob EXCEPT !.kind = "recover", !.pc = "begin", !.code = code])
    /\ UNCHANGED <<knows, budget>>

ResetEnter(pw) ==
    /\ ui.step = "reset" /\ Spend("codes") /\ Learns(pw)
    /\ Command("busy", [NoJob EXCEPT !.kind = "reset", !.pc = "begin", !.pw = pw,
                                     !.code = NextCode, !.h = ui.vault])

RekeyEnter(cur, new) ==
    /\ ui.step = "main" /\ cur # new
    /\ Command("rekeying", [NoJob EXCEPT !.kind = "rekey", !.pc = "begin", !.pw = new,
                                         !.cur = cur, !.h = ui.vault])
    /\ UNCHANGED <<knows, budget>>

InstallEnter(pw) ==
    /\ ui.step = "password"
    /\ Command("busy", [NoJob EXCEPT !.kind = "install", !.pc = "begin", !.pw = pw,
                                     !.old = ui.vault, !.merge = ui.merge])
    /\ knows' = IF pw # AccountPw THEN knows
                ELSE [pws |-> knows.pws \cup {pw}, codes |-> knows.codes \cup {AccountCode}]
    /\ UNCHANGED budget

\* The payload to keep is the one the vault holds when the account is read.
SignIn ==
    /\ UiFree /\ job = NoJob /\ ui.step \in {"choose", "main"}
    /\ ui' = IF ui.step = "choose" THEN [ui EXCEPT !.step = "password", !.boot = "gate"]
             ELSE [ui EXCEPT !.step = "password", !.boot = "adopt",
                             !.merge = handle[ui.vault].pay]
    /\ UNCHANGED <<files, lock, handle, wr, job, knows, acked, kept, raced, budget>>

\* Esc: a sign-in from the main screen goes back there, whatever the vault is.
CancelSignIn ==
    /\ UiFree /\ ui.step = "password"
    /\ ui' = [ui EXCEPT !.step = IF ui.boot = "adopt" THEN "main" ELSE "choose",
                        !.boot = None, !.merge = {}]
    /\ UNCHANGED <<files, lock, handle, wr, job, knows, acked, kept, raced, budget>>

Dismiss ==
    /\ UiFree /\ ui.step \in {"showcode", "locked"}
    /\ ui' = [ui EXCEPT !.step = IF @ = "showcode" THEN "main" ELSE "unlock"]
    /\ UNCHANGED <<files, lock, handle, wr, job, knows, acked, kept, raced, budget>>

\* A change of the document, and the save that follows it at once.  A message
\* may bring one while a goroutine is at the vault.
HasStore == ui.step \in {"main", "rekeying", "showcode"} \/ ui.boot = "adopt"

Edit(x) ==
    /\ UiFree /\ HasStore /\ ui.step # "locking"
    /\ budget.edits > 0 /\ (job.pc = "done" \/ budget.races > 0)
    /\ budget' = [budget EXCEPT !.edits = @ - 1,
                                !.races = IF job.pc = "done" THEN @ ELSE @ - 1]
    /\ raced' = (raced \/ job.pc # "done")
    /\ LET d == IF x \in ui.doc THEN ui.doc \ {x} ELSE ui.doc \cup {x} IN
       /\ ui' = [ui EXCEPT !.doc = d]
       /\ wr' = Begin("ui", ui.vault, d)
    /\ UNCHANGED <<files, lock, handle, job, knows, acked, kept>>

\* The result of a save is ignored.
Saved ==
    /\ Returned("ui") /\ ui.step # "locking"
    /\ wr' = Rest("ui")
    /\ UNCHANGED <<files, lock, handle, job, ui, knows, acked, kept, raced, budget>>

\* lock: a last save, then the vault is closed whether it succeeded or not.
Lock ==
    /\ UiFree /\ job = NoJob /\ ui.step = "main"
    /\ ui' = [ui EXCEPT !.step = "locking"]
    /\ wr' = Begin("ui", ui.vault, ui.doc)
    /\ UNCHANGED <<files, lock, handle, job, knows, acked, kept, raced, budget>>

LockEnds ==
    /\ ui.step = "locking" /\ Returned("ui")
    /\ wr' = Rest("ui")
    /\ handle' = [handle EXCEPT ![ui.vault] = NoHandle]
    /\ lock' = IF lock = ui.vault THEN Free ELSE lock
    /\ ui' = Gate("unlock")
    /\ UNCHANGED <<files, job, knows, acked, kept, raced, budget>>

---------------------------------------------------------------------------
(* handleVaultMsg, handleChangePasswordDone, handleVaultInstalled *)

Handling(kind) == UiFree /\ job.kind = kind /\ job.pc = "done" /\ job' = NoJob
Enter(step)    == ui' = [ui EXCEPT !.step = step]
Adopt(step)    == ui' = [Gate(step) EXCEPT !.vault = job.h, !.doc = handle[job.h].pay]
Only(pw, code) == knows' = [pws |-> {pw}, codes |-> {code}]

HandleCreated ==
    /\ Handling("create")
    /\ IF job.res = "ok" THEN Adopt("showcode") /\ Only(job.pw, job.code)
                         ELSE Enter("create") /\ UNCHANGED knows
    /\ UNCHANGED <<files, lock, handle, wr, acked, kept, raced, budget>>

HandleOpened ==
    /\ Handling("open")
    /\ CASE job.res = "ok"     -> Adopt("main")
         [] job.res = "locked" -> Enter("locked")
         [] OTHER              -> Enter("unlock")
    /\ UNCHANGED <<files, lock, handle, wr, knows, acked, kept, raced, budget>>

\* The store is not opened before the password is reset.
HandleRecovered ==
    /\ Handling("recover")
    /\ CASE job.res = "ok"     -> ui' = [Gate("reset") EXCEPT !.vault = job.h]
         [] job.res = "locked" -> Enter("locked")
         [] OTHER              -> Enter("unlock")
    /\ UNCHANGED <<files, lock, handle, wr, knows, acked, kept, raced, budget>>

HandleReset ==
    /\ Handling("reset")
    /\ IF job.res = "ok" THEN Adopt("showcode") /\ Only(job.pw, job.code)
                         ELSE Enter("reset") /\ UNCHANGED knows
    /\ UNCHANGED <<files, lock, handle, wr, acked, kept, raced, budget>>

HandleRekeyed ==
    /\ Handling("rekey") /\ Enter("main")
    /\ knows' = IF job.res = "ok" THEN [knows EXCEPT !.pws = {job.pw}] ELSE knows
    /\ UNCHANGED <<files, lock, handle, wr, acked, kept, raced, budget>>

\* The vault the model points to is the old one, closed or not: only a sign-in
\* that started without one goes to the unlock prompt.
HandleInstalled ==
    /\ Handling("install")
    /\ CASE job.res = "ok" ->
              /\ Adopt("main") /\ Only(AccountPw, AccountCode)
              /\ handle' = IF job.old = Free THEN handle
                           ELSE [handle EXCEPT ![job.old] = NoHandle]
         [] job.res # "ok" /\ job.res # "wrong" /\ ui.vault = Free ->
              ui' = Gate("unlock") /\ UNCHANGED <<knows, handle>>
         [] OTHER -> Enter("password") /\ UNCHANGED <<knows, handle>>
    /\ UNCHANGED <<files, lock, wr, acked, kept, raced, budget>>

EventLoop ==
    \/ \E pw \in Passwords : CreateEnter(pw) \/ ResetEnter(pw)
    \/ \E pw \in Passwords \cup {AccountPw} : UnlockEnter(pw) \/ InstallEnter(pw)
    \/ \E cur \in Passwords \cup {AccountPw}, new \in Passwords : RekeyEnter(cur, new)
    \/ \E code \in knows.codes : RecoverEnter(code)
    \/ \E x \in Hosts : Edit(x)
    \/ SignIn \/ CancelSignIn \/ Dismiss \/ Saved \/ Lock \/ LockEnds
    \/ HandleCreated \/ HandleOpened \/ HandleRecovered \/ HandleReset
    \/ HandleRekeyed \/ HandleInstalled

---------------------------------------------------------------------------
(* The second instance, and the power. *)

OtherOpens ==
    /\ lock = Free /\ path # NoInode /\ Spend("others")
    /\ lock' = Other
    /\ UNCHANGED <<files, handle, wr, job, ui, knows, acked, kept, raced>>

\* It saves a document of its own; its save is one step here.
OtherSaves(x) ==
    /\ lock = Other /\ IsVault(Contents(path)) /\ x \notin Contents(path).hosts
    /\ LET i == FreeInode
           c == [Contents(path) EXCEPT !.hosts = @ \cup {x}]
           live == {i, tmp} \cup {wr[w].ino : w \in {y \in Writers : Held(y)}} IN
       /\ data' = Reclaimed([data EXCEPT ![i] = c], live)
       /\ synced' = (synced \cap live) \cup {i}
       /\ path' = i /\ disk' = i
       /\ acked' = c.hosts /\ kept' = "disk"
    /\ UNCHANGED <<tmp, lock, handle, wr, job, ui, knows, raced, budget>>

OtherLeaves ==
    /\ lock = Other /\ lock' = Free
    /\ UNCHANGED <<files, handle, wr, job, ui, knows, acked, kept, raced, budget>>

\* A document that is in the file and was not reported saved.
Unreported == \E w \in Writers : wr[w].pc = "dir" /\ ~ Rewraps(w)

\* The name is the old or the new one; data that was not synced is torn.  The
\* process starts again at the gate.  Who finds the old file tries the secrets
\* it had.  What was reported saved is still owed, unless the file is found with
\* a later document in it; a save that raced a command is over once the file
\* that is found opens.
Crash ==
    /\ Spend("crashes")
    /\ \E i \in {path, disk} :
         LET d == [j \in Inodes |-> IF j \in synced THEN data[j]
                                    ELSE IF data[j] = Gone THEN Gone ELSE Torn]
             live  == {i, tmp}
             later == i # NoInode /\ i = path /\ Unreported /\ IsVault(d[i]) IN
         /\ path' = i /\ disk' = i /\ tmp' = tmp
         /\ data' = Reclaimed(d, live)
         /\ synced' = live \ {NoInode}
         /\ acked' = IF later THEN d[i].hosts ELSE acked
         /\ kept' = IF ~later /\ (raced \/ kept = "lost" \/ (kept = "cache" /\ i # path))
                    THEN "lost" ELSE "disk"
         /\ ui' = Gate(IF i = NoInode THEN "choose" ELSE "unlock")
         /\ knows' = IF i = path \/ i = NoInode \/ ~IsVault(d[i]) THEN knows
                     ELSE [pws |-> knows.pws \cup {d[i].pw}, codes |-> knows.codes \cup {d[i].rec}]
         /\ raced' = (raced /\ i # NoInode /\ ~Opens(d[i], knows'))
    /\ lock' = Free
    /\ handle' = [h \in Handles |-> NoHandle]
    /\ wr' = [w \in Writers |-> Idle]
    /\ job' = NoJob

---------------------------------------------------------------------------
Init ==
    /\ data = [i \in Inodes |-> Gone]
    /\ synced = {} /\ path = NoInode /\ tmp = NoInode /\ disk = NoInode
    /\ lock = Free
    /\ handle = [h \in Handles |-> NoHandle]
    /\ wr = [w \in Writers |-> Idle]
    /\ job = NoJob
    /\ ui = Gate("choose")
    /\ knows = [pws |-> {}, codes |-> {}]
    /\ acked = {} /\ kept = "disk" /\ raced = FALSE
    /\ budget = [codes |-> MaxCodes, edits |-> MaxEdits, faults |-> MaxFaults,
                 crashes |-> MaxCrashes, races |-> MaxRaces, others |-> MaxOthers]

Next == \/ \E w \in Writers : Saving(w)
        \/ Goroutine
        \/ EventLoop
        \/ OtherOpens \/ OtherLeaves \/ Crash
        \/ \E x \in Hosts : OtherSaves(x)

Spec == Init /\ [][Next]_vars

---------------------------------------------------------------------------
(* Properties *)

\* Whatever happens, the file opens with a secret the user holds for good; and
\* whenever the power goes, the file that is found is a complete vault.  Only a
\* save that started while a command was at the vault can undo it, until a
\* restart (writeFileAtomic, ChangePassword, RegenerateRecovery, InstallBlob).
AlwaysOpens ==
    \/ raced
    \/ /\ path # NoInode => Opens(data[path], knows)
       /\ \A i \in {path, disk} \ {NoInode} : i \in synced /\ IsVault(data[i]) /\ data[i].sealed

\* The file holds the document of the last save that was reported done, of
\* whichever instance, across crashes: a re-key, a reset or a retry puts nothing
\* older back.  Two things can: a crash after a directory whose fsync failed,
\* and a save that raced a command (Save, ChangePassword, RegenerateRecovery).
AckedIsKept ==
    (path # NoInode /\ ~raced /\ kept # "lost" /\ \A w \in Writers : wr[w].pc # "dir")
        => IsVault(data[path]) /\ data[path].hosts = acked

\* Nobody replaces the file without the lock but a save whose vault an install
\* closed under it, and that one only while the install runs (acquireLock,
\* Close, InstallBlob).
OneWriter ==
    \A w \in Writers : wr[w].pc \in {"open", "write", "sync", "rename", "dir"} =>
        \/ lock = wr[w].h
        \/ /\ w = "ui" /\ job.kind = "install" /\ job.old = wr[w].h
           /\ handle[job.old].key = None

\* "... then fsyncs the directory so the rename is durable" (writeFileAtomic): a
\* document that was reported saved is not lost with the power.
RenameIsDurable ==
    (path # NoInode /\ ~raced /\ \A w \in Writers : wr[w].pc # "dir")
        => data[path].hosts = acked

\* "Re-key the local vault ... Always safe" (changePasswordCmd): a re-key that
\* succeeded leaves a file that opens, with the document of the last save.
RekeyIsSafe ==
    (job.kind = "rekey" /\ job.res = "ok" /\ UiFree)
        => Opens(Contents(path), knows) /\ Contents(path).hosts \in {acked, ui.doc}

\* "The recovery slot stays valid" (ChangePassword): a code the user holds
\* goes out of use only when a new one is shown.
CodeStaysValid ==
    (path # NoInode /\ job = NoJob /\ IsVault(data[path]))
        => data[path].rec \in knows.codes

\* "Another wharf instance is running" is true when it is said (ErrLocked).
LockedMeansOther == ui.step = "locked" => lock \in {Free, Other}

\* A screen that edits has an open vault: a sign-in that failed after the old
\* one was closed leaves "nothing to go back to but the unlock prompt"
\* (handleVaultInstalled).
MainHasVault == ui.step = "main" => handle[ui.vault].key # None

=============================================================================
