-------------------------- MODULE VaultFile_proofs --------------------------
(***************************************************************************)
(* Proofs about the vault file, for any number of saves, commands, faults,   *)
(* crashes and instances.  Base holds always, a save that races a command    *)
(* included.  Vault has no lock, so such a save can spoil the file: IInv,     *)
(* which says what the file holds, is kept only as long as none has.         *)
(***************************************************************************)
EXTENDS VaultFile, TLAPS

Secret == Passwords \cup {AccountPw, None, Garbled}
Doc    == SUBSET (Hosts \cup AccountHosts)
Dek    == {"local", "account"}

File == [kind : {"vault"}, pw : Secret, rec : Nat, dek : Dek, hosts : Doc, sealed : BOOLEAN]
Bytes == File \cup {Torn, Empty, Gone}

\* A vault object, closed or not.
Object == [pw : Secret, rec : Nat, dek : Dek, key : Dek \cup {None, "zero"},
           nonce : Writers \cup {None}, pay : Doc]

Resting   == [pc : {"idle", "ok", "failed"}]
Starting  == [pc : {"marshal"}, h : Handles, pay : Doc]
Sealing   == [pc : {"seal", "open"}, h : Handles, out : File]
Replacing == [pc : {"write", "sync", "rename", "dir"}, h : Handles, out : File, ino : Inodes]

Kinds == {"none", "create", "open", "recover", "rekey", "reset", "install"}

\* The points a command of each kind goes through before its result is there.
Points(k) ==
  CASE k = "create"  -> {"begin", "save"}
    [] k = "rekey"   -> {"begin", "salt", "wrap", "save", "unsalt", "unwrap", "unsave"}
    [] k = "reset"   -> {"begin", "save", "code"}
    [] k = "install" -> {"begin", "zero", "close", "take", "write", "merge"}
    [] k = "none"    -> {}
    [] OTHER         -> {"begin"}

\* The points at which the goroutine is in a save.
InSave == {"save", "unsave", "code", "write", "merge"}

Job == [kind : Kinds,
        pc   : {"begin", "done", "salt", "wrap", "unsalt", "unwrap", "zero", "close", "take"}
               \cup InSave,
        pw : Secret, cur : Secret, code : Nat, h : Handles \cup {Free},
        old : Handles \cup {Free}, merge : Doc, res : {None, "ok", "err", "wrong", "locked"}]

Steps == {"choose", "create", "unlock", "locked", "reset", "password", "busy", "main",
          "rekeying", "showcode", "locking"}
Screen == [step : Steps, vault : Handles \cup {Free}, doc : Doc, boot : {None, "gate", "adopt"},
           merge : Doc]

TypeOK ==
  /\ data \in [Inodes -> Bytes]
  /\ synced \subseteq Inodes
  /\ path \in Inodes \cup {NoInode} /\ tmp \in Inodes \cup {NoInode}
  /\ disk \in Inodes \cup {NoInode}
  /\ lock \in Handles \cup {Free, Other}
  /\ handle \in [Handles -> Object \cup {NoHandle}]
  /\ wr \in [Writers -> Resting \cup Starting \cup Sealing \cup Replacing]
  /\ job \in Job
  /\ ui \in Screen
  /\ knows \in [pws : SUBSET Secret, codes : SUBSET Nat]
  /\ acked \in Doc /\ kept \in {"disk", "cache", "lost"} /\ raced \in BOOLEAN
  /\ budget \in [codes : 0..MaxCodes, edits : 0..MaxEdits, faults : 0..MaxFaults,
                 crashes : 0..MaxCrashes, races : 0..MaxRaces, others : 0..MaxOthers]

---------------------------------------------------------------------------
(* The inductive invariant *)

During(k, S) == job.kind = k /\ job.pc \in S

\* The screen waits for a command exactly while there is one; a command is for
\* the vault the screen has, a save for the command's or the screen's.
ScreenInv ==
  /\ job.pc \in Points(job.kind) \cup {"done"}
  /\ job.kind = "none" => job = NoJob
  /\ job.kind # "none" <=> ui.step \in {"busy", "rekeying"}
  /\ job.kind = "rekey" <=> ui.step = "rekeying"
  /\ job.kind \in {"rekey", "reset"} => job.h = ui.vault
  /\ job.kind = "reset" => ui.vault # Free
  /\ job.kind \in {"create", "open", "recover"} => ui.vault = Free
  /\ job.kind = "install" => job.old = ui.vault
  /\ During("install", {"zero", "close"}) => job.old # Free
  /\ During("install", {"write", "merge"}) => job.h # job.old
  /\ ui.step \in {"choose", "create", "unlock", "locked"} => ui.vault = Free
  /\ ui.step \in {"main", "rekeying", "showcode", "reset", "locking"} \/ ui.boot = "adopt"
       => ui.vault # Free
  /\ ui.step = "password" \/ job.kind = "install" => ui.boot = "adopt" \/ ui.vault = Free
  /\ wr["bg"].pc = "idle" <=> job.pc \notin InSave
  /\ job.pc \in InSave => job.h # Free
  /\ wr["bg"].pc \notin {"idle", "ok", "failed"} => wr["bg"].h = job.h
  /\ wr["ui"].pc \notin {"idle", "ok", "failed"} => wr["ui"].h = ui.vault

\* The goroutine or the event loop writes, not both.
ControlInv == ScreenInv /\ (job.pc # "done" => wr["ui"] = Idle)

\* Only the handle that holds the lock has a key; every other handle but the
\* screen's is gone.
LiveInv ==
  /\ \A h \in Handles : handle[h].key # None => lock = h
  /\ \A h \in Handles : handle[h] # NoHandle => h = ui.vault \/ h = lock
  /\ \A h \in Handles : handle[h].key \in {None, handle[h].dek}
                        \/ (During("install", {"close"}) /\ h = job.old)
  /\ ui.vault # Free => handle[ui.vault] # NoHandle
  /\ job.pc \in InSave => handle[job.h] # NoHandle

\* What a save has on its way to the file.
WriterInv ==
  \A w \in Writers :
    /\ wr[w].pc = "seal" => handle[wr[w].h].nonce = w
    /\ wr[w].pc \in {"seal", "open", "write", "sync", "rename", "dir"} =>
         /\ wr[w].out.pw = handle[wr[w].h].pw /\ wr[w].out.rec = handle[wr[w].h].rec
         /\ wr[w].out.dek = handle[wr[w].h].dek
    /\ wr[w].pc \in {"open", "write", "sync", "rename", "dir"} =>
         lock = wr[w].h /\ wr[w].out.sealed /\ handle[wr[w].h].key # None
    /\ wr[w].pc \in {"write", "sync", "rename"} => wr[w].ino = tmp
    /\ wr[w].pc = "write" => data[wr[w].ino] = Empty
    /\ wr[w].pc \in {"sync", "rename", "dir"} => data[wr[w].ino] = wr[w].out
    /\ wr[w].pc = "rename" => wr[w].ino \in synced
    /\ wr[w].pc = "dir" => wr[w].ino = path

\* The names refer to complete files, and the temporary name to another one.
FileInv ==
  /\ tmp # NoInode => tmp # path /\ tmp # disk
  /\ \A i \in {path, disk} \ {NoInode} : i \in synced /\ IsVault(data[i]) /\ data[i].sealed
  /\ path # NoInode => Opens(data[path], knows)

\* What was reported saved is in the file, and on the disk unless the directory's
\* fsync failed; the payload a vault keeps is the document of the file.
Settled    == \A w \in Writers : wr[w].pc = "dir" => Rewraps(w)
Installing == During("create", {"save"}) \/ During("install", {"write"})
PayInv ==
  /\ path # NoInode /\ kept # "lost" /\ Settled => data[path].hosts = acked
  /\ disk # NoInode /\ kept = "disk" => data[disk].hosts = acked
  /\ Settled =>
       \A h \in Handles : /\ handle[h].key # None
                         /\ ~ (Installing /\ h = job.h /\ wr["bg"].pc # "ok")
                         => path # NoInode /\ handle[h].pay = data[path].hosts
  /\ job.kind \in {"rekey", "reset"} =>
       /\ wr["bg"].pc = "marshal" => wr["bg"].pay = handle[job.h].pay
       /\ wr["bg"].pc \in {"seal", "open", "write", "sync", "rename", "dir"} =>
            wr["bg"].out.hosts = handle[job.h].pay

\* What a password that is typed opens, or will.
Knows(h) == handle[h].pw \in knows.pws \/ handle[h].rec \in knows.codes
Rekeying == During("rekey", {"salt", "wrap", "save", "unsalt", "unwrap", "unsave"})
Halfway  == During("rekey", {"wrap", "unwrap"})
Chosen   == job.kind \in {"create", "reset"} \/ Rekeying
            \/ During("install", {"zero", "close", "take", "write", "merge"})

SlotInv ==
  /\ Chosen => job.pw \in knows.pws
  /\ job.kind = "install" /\ job.pw = AccountPw => job.pw \in knows.pws
  /\ During("install", {"zero", "close", "take", "write", "merge"}) => job.pw = AccountPw
  /\ job.pc \in InSave \ {"unsave"} => handle[job.h].pw = job.pw
  /\ During("rekey", {"unsave"}) => handle[job.h].pw = job.cur
  /\ Rekeying /\ handle[job.h].key # None =>
       job.cur \in knows.pws \/ handle[job.h].rec \in knows.codes
  /\ During("reset", {"code"}) => handle[job.h].rec = job.code
  /\ During("create", {"save"}) => handle[job.h].rec = job.code
  /\ \A h \in Handles : handle[h].key # None /\ ~ (Halfway /\ h = job.h) => Knows(h)
  /\ ui.vault # Free /\ ui.step # "reset" /\ job.kind # "reset" /\ handle[ui.vault].key # None
       => path # NoInode /\ data[path].rec = handle[ui.vault].rec

\* A command that succeeded left its handle open, and its secrets in the file.
Written(h) == /\ path # NoInode /\ lock = h /\ handle[h].key # None
              /\ data[path].pw = handle[h].pw /\ data[path].rec = handle[h].rec
DoneInv ==
  /\ job.pc \in InSave /\ wr["bg"].pc \in {"dir", "ok"} => Written(job.h)
  /\ job.pc = "done" /\ job.res = "ok" => 
       /\ job.h # Free /\ Written(job.h)
       /\ job.kind \in {"create", "rekey", "reset", "install"} => handle[job.h].pw = job.pw
       /\ job.kind = "install" => job.pw = AccountPw /\ job.h # job.old

\* A vault a command has made or opened holds the lock until the screen takes it.
Grabbed == \/ During("create", {"save"}) \/ During("install", {"write", "merge"})
           \/ /\ job.kind \in {"create", "open", "recover", "install"}
              /\ job.pc = "done" /\ job.res = "ok"
GrabInv == Grabbed => /\ job.h \in Handles /\ job.h # ui.vault
                      /\ lock = job.h /\ handle[job.h] # NoHandle

\* The temporary name is not the name of the vault.
NameInv == tmp # NoInode => tmp # path /\ tmp # disk

\* What holds whatever saves and commands run at the same time ...
Base == TypeOK /\ ScreenInv /\ LiveInv /\ GrabInv /\ NameInv /\ OneWriter

\* ... and what holds as long as no save has raced a command.
IInv == TypeOK /\ ControlInv /\ LiveInv /\ WriterInv /\ FileInv /\ PayInv /\ SlotInv /\ DoneInv

---------------------------------------------------------------------------
(* Shapes *)

Saves == Resting \cup Starting \cup Sealing \cup Replacing
Busy  == {"marshal", "seal", "open", "write", "sync", "rename", "dir"}

LEMMA Shapes ==
  ASSUME NEW s \in Saves
  PROVE  /\ s.pc \in Busy \cup {"idle", "ok", "failed"}
         /\ s.pc = "marshal" => s \in Starting
         /\ s.pc \in {"seal", "open"} => s \in Sealing
         /\ s.pc \in {"write", "sync", "rename", "dir"} => s \in Replacing
         /\ s.pc \in {"idle", "ok", "failed"} => s \in Resting /\ s = [pc |-> s.pc]
BY DEF Saves, Resting, Starting, Sealing, Replacing, Busy

LEMMA Numbers ==
  /\ NoInode \notin Inodes /\ Free \notin Handles /\ Other \notin Handles /\ Free # Other
  /\ NoHandle \notin Object /\ NoHandle.key = None
  /\ \A v \in Object : v.dek # None /\ v.dek # "zero"
BY DEF NoInode, Inodes, Free, Other, Handles, NoHandle, Object, Dek, None

\* A save in progress has one writer, of a handle of its own.
LEMMA Alone ==
  ASSUME TypeOK, ControlInv, NEW w \in Writers, wr[w].pc # "idle"
  PROVE  /\ \A x \in Writers \ {w} : wr[x].pc = "idle"
         /\ wr[w].pc \in Busy => /\ wr[w].h \in Handles
                                 /\ w = "bg" => wr[w].h = job.h
                                 /\ w = "ui" => wr[w].h = ui.vault
         /\ w = "ui" => job.pc = "done"
         /\ w = "bg" => job.pc \in InSave
<1>1. \A x \in Writers : wr[x] \in Saves
  BY DEF TypeOK, Saves
<1>2. wr[w].pc \in Busy => wr[w].h \in Handles
  BY <1>1, Shapes DEF Starting, Sealing, Replacing, Busy
<1>3. wr["ui"] = Idle => wr["ui"].pc = "idle"
  BY DEF Idle
<1>4. job.pc \in InSave => job.pc # "done"
  BY DEF InSave
<1> QED BY <1>2, <1>3, <1>4 DEF ControlInv, ScreenInv, Writers, Busy

LEMMA HasVault ==
  ASSUME TypeOK, ControlInv, LiveInv, NEW w \in Writers, wr[w].pc \in Busy
  PROVE  wr[w].h \in Handles /\ handle[wr[w].h] \in Object
<1>1. wr[w].pc # "idle"
  BY DEF Busy
<1>2. /\ wr[w].h \in Handles
      /\ w = "bg" => wr[w].h = job.h /\ job.pc \in InSave
      /\ w = "ui" => wr[w].h = ui.vault
  BY <1>1, Alone
<1>3. w = "bg" \/ w = "ui"
  BY DEF Writers
<1>4. handle[wr[w].h] # NoHandle
  BY <1>2, <1>3, Numbers DEF LiveInv
<1> QED BY <1>2, <1>4 DEF TypeOK

---------------------------------------------------------------------------
(* The steps of a save *)

\* A step of a save leaves the rest of the control alone.
LEMMA ControlSaving ==
  ASSUME TypeOK, ControlInv, NEW w \in Writers, wr[w].pc \in Busy, NEW t, t.pc # "idle",
         t.pc \in Busy => t.h = wr[w].h, t.pc \in Busy \cup {"ok", "failed"},
         wr' = [wr EXCEPT ![w] = t], job' = job, ui' = ui
  PROVE  ControlInv'
<1>1. /\ \A x \in Writers \ {w} : wr'[x] = wr[x]
      /\ wr'[w] = t
  BY DEF TypeOK
<1>2. w \in {"ui", "bg"} /\ wr["ui"] = Idle => wr["ui"].pc = "idle"
  BY DEF Idle, Writers
<1>3. wr[w].pc \notin {"idle", "ok", "failed"} /\ (t.pc \in Busy <=> t.pc \notin {"ok", "failed"})
  BY DEF Busy
<1>4. job.pc # "done" => wr'["ui"] = Idle
  BY <1>1, <1>2, <1>3 DEF ControlInv, ScreenInv, Writers
<1>5. /\ wr'["bg"].pc = "idle" <=> job.pc \notin InSave
      /\ wr'["bg"].pc \notin {"idle", "ok", "failed"} => wr'["bg"].h = job.h
      /\ wr'["ui"].pc \notin {"idle", "ok", "failed"} => wr'["ui"].h = ui.vault
  BY <1>1, <1>2, <1>3 DEF ControlInv, ScreenInv, Writers
<1> QED BY <1>4, <1>5 DEF ControlInv, ScreenInv, During

LEMMA MarshalStep == ASSUME IInv, NEW w \in Writers, Marshal(w) PROVE IInv'
<1>0. TypeOK /\ ControlInv /\ LiveInv /\ WriterInv /\ FileInv /\ PayInv /\ SlotInv /\ DoneInv
  BY DEF IInv
<1>1. PICK s \in Starting : s = wr[w] /\ s.pc = "marshal" /\ s.h \in Handles /\ s.pay \in Doc
  BY <1>0, Shapes DEF TypeOK, Saves, Marshal, Starting
<1>2. PICK v \in Object : v = handle[s.h]
  BY <1>0, <1>1, HasVault DEF Busy
<1>3. PICK f \in File : f = [kind |-> "vault", pw |-> v.pw, rec |-> v.rec, dek |-> v.dek,
                             hosts |-> s.pay, sealed |-> FALSE]
  BY <1>1, <1>2 DEF File, Object
<1>4. PICK t \in Sealing : t = [pc |-> "seal", h |-> s.h, out |-> f]
  BY <1>1, <1>3 DEF Sealing
<1>5. PICK u \in Object : u = [v EXCEPT !.nonce = w]
  BY <1>2 DEF Object
<1>6. /\ wr' = [wr EXCEPT ![w] = t] /\ handle' = [handle EXCEPT ![s.h] = u]
      /\ UNCHANGED <<files, lock, job, ui, knows, acked, kept, raced, budget>>
  BY <1>1, <1>2, <1>3, <1>4, <1>5 DEF Marshal
<1>7. /\ u.pw = v.pw /\ u.rec = v.rec /\ u.dek = v.dek /\ u.key = v.key /\ u.pay = v.pay
      /\ u.nonce = w
  BY <1>5 DEF Object
<1>8. /\ t.pc = "seal" /\ t.h = s.h /\ t.out = f /\ f.pw = v.pw /\ f.rec = v.rec
      /\ f.dek = v.dek /\ f.hosts = s.pay
  BY <1>3, <1>4
<1>9. TypeOK'
  BY <1>0, <1>1, <1>4, <1>5, <1>6 DEF TypeOK, files
<1>10. ControlInv'
  BY <1>0, <1>1, <1>6, <1>8, ControlSaving DEF Busy
<1>11. LiveInv'
  BY <1>0, <1>1, <1>2, <1>6, <1>7, Numbers DEF LiveInv, TypeOK, During
<1>12. WriterInv'
  BY <1>0, <1>1, <1>6, <1>7, <1>8, Alone DEF WriterInv, TypeOK, files
<1>13. FileInv'
  BY <1>0, <1>6 DEF FileInv, files
<1>14. PayInv'
  BY <1>0, <1>1, <1>2, <1>6, <1>7, <1>8 DEF PayInv, Settled, Rewraps, Installing, During, files, TypeOK
<1>15. SlotInv'
  BY <1>0, <1>1, <1>2, <1>6, <1>7 DEF SlotInv, Chosen, Rekeying, Halfway, Knows, During, files, TypeOK
<1>16. DoneInv'
  BY <1>0, <1>1, <1>2, <1>6, <1>7, <1>8 DEF DoneInv, Written, files, TypeOK
<1> QED BY <1>9, <1>10, <1>11, <1>12, <1>13, <1>14, <1>15, <1>16 DEF IInv

LEMMA SealStep == ASSUME IInv, NEW w \in Writers, Seal(w) PROVE IInv'
<1>0. TypeOK /\ ControlInv /\ LiveInv /\ WriterInv /\ FileInv /\ PayInv /\ SlotInv /\ DoneInv
  BY DEF IInv
<1>1. PICK s \in Sealing : s = wr[w] /\ s.pc = "seal" /\ s.h \in Handles /\ s.out \in File
  BY <1>0, Shapes DEF TypeOK, Saves, Seal, Sealing
<1>2. PICK v \in Object : v = handle[s.h]
  BY <1>0, <1>1, HasVault DEF Busy
<1>3. PICK u \in Object : u = [v EXCEPT !.nonce = IF @ = w THEN None ELSE @]
  BY <1>2 DEF Object
<1>4. PICK f \in File : f = [s.out EXCEPT !.sealed = Matches(v, w)]
  BY <1>1 DEF File, Matches
<1>5. PICK t \in Saves : t = IF v.key = None THEN [pc |-> "failed"]
                             ELSE [pc |-> "open", h |-> s.h, out |-> f]
  BY <1>1, <1>4 DEF Saves, Resting, Sealing
<1>6. /\ wr' = [wr EXCEPT ![w] = t] /\ handle' = [handle EXCEPT ![s.h] = u]
      /\ UNCHANGED <<files, lock, job, ui, knows, acked, kept, raced, budget>>
  BY <1>1, <1>2, <1>3, <1>4, <1>5, <1>0 DEF Seal, TypeOK
<1>7. /\ u.pw = v.pw /\ u.rec = v.rec /\ u.dek = v.dek /\ u.key = v.key /\ u.pay = v.pay
  BY <1>3 DEF Object
<1>8. /\ t.pc = "failed" \/ (t.pc = "open" /\ t.h = s.h /\ t.out = f /\ v.key # None)
      /\ f.pw = s.out.pw /\ f.rec = s.out.rec /\ f.dek = s.out.dek /\ f.hosts = s.out.hosts
      /\ f.sealed <=> v.key = v.dek /\ v.nonce = w
  BY <1>1, <1>4, <1>5 DEF Matches, File
<1>9. TypeOK'
  BY <1>0, <1>1, <1>5, <1>6 DEF TypeOK, files, Saves
<1>10. ControlInv'
  BY <1>0, <1>1, <1>6, <1>8, ControlSaving DEF Busy
<1>11. LiveInv'
  BY <1>0, <1>1, <1>2, <1>6, <1>7, Numbers DEF LiveInv, TypeOK, During
<1>12. v.key # None => lock = s.h /\ f.sealed
  <2>1. w = "bg" => ~ During("install", {"close"})
    BY <1>0, <1>1, Alone DEF InSave, During
  <2>2. w = "ui" => ~ During("install", {"close"})
    BY <1>0, <1>1, Alone DEF During
  <2>3. v.nonce = w
    BY <1>0, <1>1, <1>2 DEF WriterInv
  <2> QED BY <2>1, <2>2, <2>3, <1>0, <1>1, <1>2, <1>8 DEF LiveInv, Writers
<1>13. WriterInv'
  BY <1>0, <1>1, <1>2, <1>6, <1>7, <1>8, <1>12, Alone DEF WriterInv, TypeOK, files
<1>14. FileInv'
  BY <1>0, <1>6 DEF FileInv, files
<1>15. PayInv'
  BY <1>0, <1>1, <1>2, <1>6, <1>7, <1>8 DEF PayInv, Settled, Rewraps, Installing, During, files, TypeOK
<1>16. SlotInv'
  BY <1>0, <1>1, <1>2, <1>6, <1>7 DEF SlotInv, Chosen, Rekeying, Halfway, Knows, During, files, TypeOK
<1>17. DoneInv'
  BY <1>0, <1>1, <1>2, <1>6, <1>7, <1>8 DEF DoneInv, Written, files, TypeOK
<1> QED BY <1>9, <1>10, <1>11, <1>13, <1>14, <1>15, <1>16, <1>17 DEF IInv

\* An inode no name and no open file refers to.
LEMMA FreeInodeIs ==
  ASSUME TypeOK, ControlInv, WriterInv
  PROVE  FreeInode \in Inodes /\ FreeInode \notin {path, tmp, disk}
<1>1. PICK a \in 0..6, b \in 0..6, c \in 0..6 : a = path /\ b = tmp /\ c = disk
  BY DEF TypeOK, Inodes, NoInode
<1>2. InUseInodes \subseteq {a, b, c}
  <2> SUFFICES ASSUME NEW x \in Writers, Held(x) PROVE wr[x].ino = tmp \/ wr[x].ino = path
    BY <1>1 DEF InUseInodes
  <2> QED BY DEF Held, WriterInv
<1>3. PICK U : U = InUseInodes
  OBVIOUS
<1>4. \E i \in Inodes \ U : \A j \in Inodes \ U : i <= j
  <2>1. \E i \in 1..4 : i \notin {a, b, c}
    OBVIOUS
  <2>2. \E i \in Inodes : i \notin U
    BY <2>1, <1>2, <1>3 DEF Inodes
  <2>3. 1 \in Inodes /\ 2 \in Inodes /\ 3 \in Inodes /\ 4 \in Inodes /\ 5 \in Inodes /\ 6 \in Inodes
        /\ \A i \in Inodes : i \in {1, 2, 3, 4, 5, 6}
    BY DEF Inodes
  <2> QED BY <2>2, <2>3
<1>5. FreeInode \in Inodes \ U
  BY <1>3, <1>4 DEF FreeInode
<1>6. {path, tmp, disk} \subseteq InUseInodes
  BY DEF InUseInodes
<1> QED BY <1>3, <1>5, <1>6

LEMMA OpenTmpStep == ASSUME IInv, NEW w \in Writers, OpenTmp(w) PROVE IInv'
<1>0. TypeOK /\ ControlInv /\ LiveInv /\ WriterInv /\ FileInv /\ PayInv /\ SlotInv /\ DoneInv
  BY DEF IInv
<1>1. PICK s \in Sealing : s = wr[w] /\ s.pc = "open" /\ s.h \in Handles /\ s.out \in File
  BY <1>0, Shapes DEF TypeOK, Saves, OpenTmp, Sealing
<1>2. PICK i \in Inodes : i = TmpInode /\ i # path /\ i # disk
  BY <1>0, FreeInodeIs DEF TmpInode, FileInv, TypeOK
<1>3. PICK t \in Replacing : t = [pc |-> "write", h |-> s.h, out |-> s.out, ino |-> i]
  BY <1>1, <1>2 DEF Replacing
<1>4. /\ tmp' = i /\ data' = [data EXCEPT ![i] = Empty] /\ synced' = synced \ {i}
      /\ wr' = [wr EXCEPT ![w] = t]
      /\ UNCHANGED <<path, disk, lock, handle, job, ui, knows, acked, kept, raced, budget>>
  BY <1>1, <1>2, <1>3 DEF OpenTmp
<1>5. t.pc = "write" /\ t.h = s.h /\ t.out = s.out /\ t.ino = i
  BY <1>3
<1>6. TypeOK'
  BY <1>0, <1>1, <1>2, <1>3, <1>4 DEF TypeOK, Bytes
<1>7. ControlInv'
  BY <1>0, <1>1, <1>4, <1>5, ControlSaving DEF Busy
<1>8. LiveInv'
  BY <1>0, <1>4 DEF LiveInv, During
<1>9. data'[i] = Empty /\ (path # NoInode => data'[path] = data[path])
      /\ (disk # NoInode => data'[disk] = data[disk])
  BY <1>0, <1>2, <1>4 DEF TypeOK
<1>10. WriterInv'
  BY <1>0, <1>1, <1>4, <1>5, <1>9, Alone DEF WriterInv, TypeOK
<1>11. FileInv'
  BY <1>0, <1>2, <1>4, <1>9 DEF FileInv
<1>12. PayInv'
  BY <1>0, <1>1, <1>4, <1>5, <1>9 DEF PayInv, Settled, Rewraps, Installing, During, TypeOK
<1>13. SlotInv'
  BY <1>0, <1>4, <1>9 DEF SlotInv, Chosen, Rekeying, Halfway, Knows, During
<1>14. DoneInv'
  BY <1>0, <1>1, <1>4, <1>5, <1>9 DEF DoneInv, Written, TypeOK
<1> QED BY <1>6, <1>7, <1>8, <1>10, <1>11, <1>12, <1>13, <1>14 DEF IInv

LEMMA WriteStep == ASSUME IInv, NEW w \in Writers, Write(w) PROVE IInv'
<1>0. TypeOK /\ ControlInv /\ LiveInv /\ WriterInv /\ FileInv /\ PayInv /\ SlotInv /\ DoneInv
  BY DEF IInv
<1>1. PICK s \in Replacing : /\ s = wr[w] /\ s.pc = "write" /\ s.h \in Handles /\ s.out \in File
                             /\ s.ino \in Inodes
  BY <1>0, Shapes DEF TypeOK, Saves, Write, Replacing
<1>2. s.ino = tmp /\ data[s.ino] = Empty /\ s.ino # path /\ s.ino # disk
  BY <1>0, <1>1, Numbers DEF WriterInv, FileInv
<1>3. Overlay(data[s.ino], s.out) = s.out
  BY <1>2 DEF Overlay, IsVault, Empty
<1>4. PICK t \in Replacing : t = [s EXCEPT !.pc = "sync"]
  BY <1>1 DEF Replacing
<1>5. /\ data' = [data EXCEPT ![s.ino] = s.out] /\ synced' = synced \ {s.ino}
      /\ wr' = [wr EXCEPT ![w] = t]
      /\ UNCHANGED <<path, tmp, disk, lock, handle, job, ui, knows, acked, kept, raced, budget>>
  BY <1>0, <1>1, <1>3, <1>4 DEF Write, TypeOK
<1>6. t.pc = "sync" /\ t.h = s.h /\ t.out = s.out /\ t.ino = s.ino
  BY <1>4 DEF Replacing
<1>7. TypeOK'
  BY <1>0, <1>1, <1>4, <1>5 DEF TypeOK, Bytes
<1>8. ControlInv'
  BY <1>0, <1>1, <1>5, <1>6, ControlSaving DEF Busy
<1>9. LiveInv'
  BY <1>0, <1>5 DEF LiveInv, During
<1>10. /\ data'[s.ino] = s.out /\ (path # NoInode => data'[path] = data[path])
       /\ (disk # NoInode => data'[disk] = data[disk])
  BY <1>0, <1>1, <1>2, <1>5 DEF TypeOK
<1>11. WriterInv'
  BY <1>0, <1>1, <1>5, <1>6, <1>10, Alone DEF WriterInv, TypeOK
<1>12. FileInv'
  BY <1>0, <1>2, <1>5, <1>10 DEF FileInv
<1>13. PayInv'
  BY <1>0, <1>1, <1>5, <1>6, <1>10 DEF PayInv, Settled, Rewraps, Installing, During, TypeOK
<1>14. SlotInv'
  BY <1>0, <1>5, <1>10 DEF SlotInv, Chosen, Rekeying, Halfway, Knows, During
<1>15. DoneInv'
  BY <1>0, <1>1, <1>5, <1>6, <1>10 DEF DoneInv, Written, TypeOK
<1> QED BY <1>7, <1>8, <1>9, <1>11, <1>12, <1>13, <1>14, <1>15 DEF IInv

LEMMA SyncStep == ASSUME IInv, NEW w \in Writers, Sync(w) PROVE IInv'
<1>0. TypeOK /\ ControlInv /\ LiveInv /\ WriterInv /\ FileInv /\ PayInv /\ SlotInv /\ DoneInv
  BY DEF IInv
<1>1. PICK s \in Replacing : /\ s = wr[w] /\ s.pc = "sync" /\ s.h \in Handles /\ s.out \in File
                             /\ s.ino \in Inodes
  BY <1>0, Shapes DEF TypeOK, Saves, Sync, Replacing
<1>2. PICK t \in Replacing : t = [s EXCEPT !.pc = "rename"]
  BY <1>1 DEF Replacing
<1>3. /\ synced' = synced \cup {s.ino} /\ wr' = [wr EXCEPT ![w] = t]
      /\ UNCHANGED <<data, path, tmp, disk, lock, handle, job, ui, knows, acked, kept, raced, budget>>
  BY <1>0, <1>1, <1>2 DEF Sync, TypeOK
<1>4. t.pc = "rename" /\ t.h = s.h /\ t.out = s.out /\ t.ino = s.ino
  BY <1>2 DEF Replacing
<1>5. TypeOK'
  BY <1>0, <1>1, <1>2, <1>3 DEF TypeOK
<1>6. ControlInv'
  BY <1>0, <1>1, <1>3, <1>4, ControlSaving DEF Busy
<1>7. LiveInv'
  BY <1>0, <1>3 DEF LiveInv, During
<1>8. WriterInv'
  BY <1>0, <1>1, <1>3, <1>4, Alone DEF WriterInv, TypeOK
<1>9. FileInv'
  BY <1>0, <1>3 DEF FileInv
<1>10. PayInv'
  BY <1>0, <1>1, <1>3, <1>4 DEF PayInv, Settled, Rewraps, Installing, During, TypeOK
<1>11. SlotInv'
  BY <1>0, <1>3 DEF SlotInv, Chosen, Rekeying, Halfway, Knows, During
<1>12. DoneInv'
  BY <1>0, <1>1, <1>3, <1>4 DEF DoneInv, Written, TypeOK
<1> QED BY <1>5, <1>6, <1>7, <1>8, <1>9, <1>10, <1>11, <1>12 DEF IInv

\* The handle a save is for holds the lock, and what it writes opens.
LEMMA Replaces ==
  ASSUME IInv, NEW w \in Writers, wr[w].pc \in {"open", "write", "sync", "rename", "dir"}
  PROVE  /\ handle[wr[w].h].key # None /\ lock = wr[w].h /\ wr[w].h \in Handles
         /\ wr[w].out.pw = handle[wr[w].h].pw /\ wr[w].out.rec = handle[wr[w].h].rec
         /\ Opens(wr[w].out, knows)
<1>0. TypeOK /\ ControlInv /\ LiveInv /\ WriterInv /\ SlotInv
  BY DEF IInv
<1>1. wr[w].h \in Handles /\ wr[w].out \in File
  BY <1>0, Shapes DEF TypeOK, Saves, Sealing, Replacing
<1>2. /\ wr[w].out.pw = handle[wr[w].h].pw /\ wr[w].out.rec = handle[wr[w].h].rec
      /\ lock = wr[w].h /\ wr[w].out.sealed /\ handle[wr[w].h].key # None
  BY <1>0 DEF WriterInv
<1>3. ~ Halfway
  <2>1. wr[w].pc # "idle"
    OBVIOUS
  <2>2. job.pc = "done" \/ job.pc \in InSave
    BY <2>1, <1>0, Alone DEF Writers
  <2> QED BY <2>2 DEF Halfway, During, InSave
<1>4. Knows(wr[w].h)
  BY <1>0, <1>1, <1>2, <1>3 DEF SlotInv
<1> QED BY <1>1, <1>2, <1>4 DEF Opens, IsVault, Knows, File

LEMMA RenameStep == ASSUME IInv, NEW w \in Writers, Rename(w) PROVE IInv'
<1>0. TypeOK /\ ControlInv /\ LiveInv /\ WriterInv /\ FileInv /\ PayInv /\ SlotInv /\ DoneInv
  BY DEF IInv
<1>1. PICK s \in Replacing : /\ s = wr[w] /\ s.pc = "rename" /\ s.h \in Handles /\ s.out \in File
                             /\ s.ino \in Inodes
  BY <1>0, Shapes DEF TypeOK, Saves, Rename, RenamesSynced, Replacing
<1>2. /\ s.ino = tmp /\ tmp # NoInode /\ s.ino \in synced /\ data[tmp] = s.out
      /\ s.out.sealed /\ IsVault(s.out)
  BY <1>0, <1>1, Numbers DEF WriterInv, IsVault, File
<1>3. PICK t \in Replacing : t = [s EXCEPT !.pc = "dir"]
  BY <1>1 DEF Replacing
<1>4. /\ path' = tmp /\ tmp' = NoInode /\ wr' = [wr EXCEPT ![w] = t]
      /\ UNCHANGED <<data, synced, disk, lock, handle, job, ui, knows, acked, kept, raced, budget>>
  BY <1>0, <1>1, <1>2, <1>3 DEF Rename, TypeOK
<1>5. t.pc = "dir" /\ t.h = s.h /\ t.out = s.out /\ t.ino = s.ino
  BY <1>3 DEF Replacing
<1>6. /\ lock = s.h /\ handle[s.h].key # None /\ Opens(s.out, knows)
      /\ s.out.pw = handle[s.h].pw /\ s.out.rec = handle[s.h].rec
  BY <1>1, Replaces
<1>7. TypeOK'
  BY <1>0, <1>1, <1>2, <1>3, <1>4 DEF TypeOK
<1>8. ControlInv'
  BY <1>0, <1>1, <1>4, <1>5, ControlSaving DEF Busy
<1>9. LiveInv'
  BY <1>0, <1>4 DEF LiveInv, During
<1>10. WriterInv'
  BY <1>0, <1>1, <1>2, <1>4, <1>5, Alone DEF WriterInv, TypeOK
<1>11. FileInv'
  BY <1>0, <1>2, <1>4, <1>6 DEF FileInv
<1>12. PayInv'
  <2>1. wr'[w] = t /\ \A x \in Writers \ {w} : wr'[x].pc = "idle" /\ wr[x].pc = "idle"
    BY <1>0, <1>1, <1>4, Alone DEF TypeOK
  <2>2. Settled /\ (Settled' => Rewraps(w)) /\ (Rewraps(w)' <=> Rewraps(w))
    BY <2>1, <1>1, <1>4, <1>5 DEF Settled, Rewraps
  <2>3. disk' # NoInode /\ kept' = "disk" => data'[disk'].hosts = acked'
    BY <1>0, <1>4 DEF PayInv
  <2>4. job.kind \in {"rekey", "reset"} =>
          /\ wr'["bg"].pc = "marshal" => wr'["bg"].pay = handle[job.h].pay
          /\ wr'["bg"].pc \in {"seal", "open", "write", "sync", "rename", "dir"} =>
               wr'["bg"].out.hosts = handle[job.h].pay
    BY <2>1, <1>0, <1>1, <1>5 DEF PayInv, Writers
  <2>5. ASSUME Rewraps(w)
        PROVE  /\ path # NoInode /\ handle[s.h].pay = data[path].hosts
               /\ data[tmp].hosts = data[path].hosts /\ ~ Installing
    <3>1. w = "bg" /\ job.kind \in {"rekey", "reset"} /\ s.h = job.h
      BY <2>5, <1>0, <1>1, Alone DEF Rewraps, Busy
    <3>2. ~ Installing
      BY <3>1 DEF Installing, During
    <3>3. s.out.hosts = handle[s.h].pay
      BY <3>1, <1>0, <1>1 DEF PayInv
    <3>4. path # NoInode /\ handle[s.h].pay = data[path].hosts
      BY <3>2, <2>2, <1>0, <1>1, <1>6 DEF PayInv
    <3> QED BY <3>2, <3>3, <3>4, <1>2
  <2>6. \A h \in Handles : handle[h].key # None => h = s.h
    BY <1>0, <1>6 DEF LiveInv
  <2>7. Settled' => /\ kept' # "lost" => data'[path'].hosts = acked'
                    /\ path' # NoInode /\ handle'[s.h].pay = data'[path'].hosts
    BY <2>2, <2>5, <1>0, <1>2, <1>4 DEF PayInv
  <2> QED BY <2>3, <2>4, <2>6, <2>7, <1>4 DEF PayInv
<1>13. SlotInv'
  <2>1. ui.vault # Free /\ handle[ui.vault].key # None => ui.vault = s.h
    BY <1>0, <1>6 DEF LiveInv, TypeOK, Screen
  <2> QED BY <2>1, <1>0, <1>2, <1>4, <1>6 DEF SlotInv, Chosen, Rekeying, Halfway, Knows, During
<1>14. DoneInv'
  <2>1. job.pc \in InSave /\ w = "bg" => job.h = s.h
    BY <1>0, <1>1, Alone DEF Busy
  <2>2. w = "ui" => wr["bg"].pc = "idle"
    BY <1>0, <1>1, Alone DEF Writers
  <2>3. \A h : Written(h) => Written(h)'
    BY <1>2, <1>4, <1>6 DEF Written
  <2>4. Written(s.h)'
    BY <1>2, <1>4, <1>6 DEF Written
  <2> QED BY <2>1, <2>2, <2>3, <2>4, <1>0, <1>4 DEF DoneInv, TypeOK, Writers
<1> QED BY <1>7, <1>8, <1>9, <1>10, <1>11, <1>12, <1>13, <1>14 DEF IInv

LEMMA FileFailsStep == ASSUME IInv, NEW w \in Writers, FileFails(w) PROVE IInv'
<1>0. TypeOK /\ ControlInv /\ LiveInv /\ WriterInv /\ FileInv /\ PayInv /\ SlotInv /\ DoneInv
  BY DEF IInv
<1>1. PICK t \in Resting : t = [pc |-> "failed"]
  BY DEF Resting
<1>2. /\ wr' = [wr EXCEPT ![w] = t] /\ tmp' \in {tmp, NoInode}
      /\ UNCHANGED <<data, synced, path, disk, lock, handle, job, ui, knows, acked, kept, raced>>
      /\ wr[w].pc \in {"open", "write", "sync", "rename"}
  BY <1>1 DEF FileFails
<1>3. TypeOK'
  <2>1. budget' \in [codes : 0..MaxCodes, edits : 0..MaxEdits, faults : 0..MaxFaults,
                     crashes : 0..MaxCrashes, races : 0..MaxRaces, others : 0..MaxOthers]
    BY <1>0, VaultAssumption DEF TypeOK, FileFails, Spend
  <2> QED BY <2>1, <1>0, <1>1, <1>2 DEF TypeOK
<1>4. ControlInv'
  BY <1>0, <1>1, <1>2, ControlSaving DEF Busy
<1>5. LiveInv'
  BY <1>0, <1>2 DEF LiveInv, During
<1>6. WriterInv'
  BY <1>0, <1>1, <1>2, Alone DEF WriterInv, TypeOK
<1>7. FileInv'
  BY <1>0, <1>2 DEF FileInv
<1>8. PayInv'
  BY <1>0, <1>1, <1>2 DEF PayInv, Settled, Rewraps, Installing, During, TypeOK
<1>9. SlotInv'
  BY <1>0, <1>2 DEF SlotInv, Chosen, Rekeying, Halfway, Knows, During
<1>10. DoneInv'
  BY <1>0, <1>1, <1>2 DEF DoneInv, Written, TypeOK
<1> QED BY <1>3, <1>4, <1>5, <1>6, <1>7, <1>8, <1>9, <1>10 DEF IInv

LEMMA SyncDirStep == ASSUME IInv, NEW w \in Writers, SyncDir(w) PROVE IInv'
<1>0. TypeOK /\ ControlInv /\ LiveInv /\ WriterInv /\ FileInv /\ PayInv /\ SlotInv /\ DoneInv
  BY DEF IInv
<1>1. PICK s \in Replacing : /\ s = wr[w] /\ s.pc = "dir" /\ s.h \in Handles /\ s.out \in File
                             /\ s.ino \in Inodes
  BY <1>0, Shapes DEF TypeOK, Saves, SyncDir, Replacing
<1>2. s.ino = path /\ path \in Inodes /\ data[path] = s.out
  BY <1>0, <1>1 DEF WriterInv
<1>3. PICK v \in Object : v = handle[s.h]
  BY <1>0, <1>1, HasVault DEF Busy
<1>4. PICK u \in Object : u = [v EXCEPT !.pay = s.out.hosts]
  BY <1>1, <1>3 DEF Object, File
<1>5. PICK t \in Resting : t = [pc |-> "ok"]
  BY DEF Resting
<1>6. /\ handle' = [handle EXCEPT ![s.h] = u] /\ wr' = [wr EXCEPT ![w] = t]
      /\ acked' = (IF Rewraps(w) THEN acked ELSE s.out.hosts)
      /\ \/ disk' = path /\ kept' = (IF Rewraps(w) /\ kept = "lost" THEN "lost" ELSE "disk")
         \/ disk' = disk /\ kept' = (IF Rewraps(w) THEN kept ELSE "cache")
      /\ UNCHANGED <<path, tmp, lock, job, ui, knows, raced>>
  BY <1>0, <1>1, <1>3, <1>4, <1>5 DEF SyncDir, TakesPayload, TypeOK
<1>7. /\ u.pw = v.pw /\ u.rec = v.rec /\ u.dek = v.dek /\ u.key = v.key /\ u.nonce = v.nonce
      /\ u.pay = s.out.hosts
  BY <1>4 DEF Object
<1>8. /\ lock = s.h /\ v.key # None
  BY <1>1, <1>3, Replaces
<1>9. PICK live : /\ live = {path, tmp, disk'} \cup {wr[x].ino : x \in {y \in Writers : Held(y)}}
                  /\ data' = Reclaimed(data, live) /\ synced' = synced \cap live
  BY DEF SyncDir
<1>10. /\ \A i \in {path, tmp, disk'} \ {NoInode} :
             i \in Inodes /\ data'[i] = data[i] /\ (i \in synced' <=> i \in synced)
       /\ data' \in [Inodes -> Bytes] /\ synced' \subseteq Inodes
  BY <1>0, <1>6, <1>9 DEF TypeOK, Reclaimed, Bytes
<1>11. Rewraps(w) /\ kept # "lost" => s.out.hosts = acked
  <2> SUFFICES ASSUME Rewraps(w), kept # "lost" PROVE s.out.hosts = acked
    OBVIOUS
  <2>1. \A x \in Writers : wr[x].pc = "dir" => Rewraps(x)
    BY <1>0, <1>1, Alone
  <2> QED BY <2>1, <1>0, <1>2, Numbers DEF PayInv, Settled
<1>12. TypeOK'
  <2>1. budget' \in [codes : 0..MaxCodes, edits : 0..MaxEdits, faults : 0..MaxFaults,
                     crashes : 0..MaxCrashes, races : 0..MaxRaces, others : 0..MaxOthers]
    BY <1>0, VaultAssumption DEF TypeOK, SyncDir, Spend
  <2>2. acked' \in Doc /\ kept' \in {"disk", "cache", "lost"}
    BY <1>0, <1>1, <1>6 DEF File, TypeOK
  <2> QED BY <2>1, <2>2, <1>0, <1>1, <1>4, <1>5, <1>6, <1>10 DEF TypeOK
<1>13. ControlInv'
  BY <1>0, <1>1, <1>5, <1>6, ControlSaving DEF Busy
<1>14. LiveInv'
  BY <1>0, <1>1, <1>3, <1>6, <1>7, Numbers DEF LiveInv, TypeOK, During
<1>15. WriterInv'
  <2> SUFFICES ASSUME NEW x \in Writers PROVE wr'[x].pc \in {"idle", "ok", "failed"}
    BY DEF WriterInv
  <2>1. CASE x = w
    BY <2>1, <1>0, <1>5, <1>6 DEF TypeOK
  <2>2. CASE x # w
    BY <2>2, <1>0, <1>1, <1>6, Alone DEF TypeOK
  <2> QED BY <2>1, <2>2
<1>16. FileInv'
  BY <1>0, <1>6, <1>10 DEF FileInv
<1>17. PayInv'
  <2>1. data'[path] = s.out /\ IsVault(s.out)
    BY <1>1, <1>2, <1>10, Numbers DEF IsVault, File
  <2>2. /\ path' # NoInode /\ kept' # "lost" => data'[path'].hosts = acked'
        /\ disk' # NoInode /\ kept' = "disk" => data'[disk'].hosts = acked'
    <3>1. kept' # "lost" => acked' = s.out.hosts
      BY <1>6, <1>11
    <3>2. CASE disk' = path
      BY <3>1, <3>2, <2>1, <1>6
    <3>3. CASE disk' = disk /\ kept' = (IF Rewraps(w) THEN kept ELSE "cache")
      <4>1. disk # NoInode => data'[disk] = data[disk]
        BY <3>3, <1>10
      <4>2. kept' = "disk" => kept = "disk" /\ acked' = acked
        BY <3>3, <1>6
      <4>3. disk # NoInode /\ kept = "disk" => data[disk].hosts = acked
        BY <1>0 DEF PayInv
      <4> QED BY <3>1, <3>3, <4>1, <4>2, <4>3, <2>1, <1>6
    <3> QED BY <3>2, <3>3, <1>6
  <2>3. \A h \in Handles : handle'[h].key # None => h = s.h
    BY <1>0, <1>3, <1>6, <1>7, <1>8 DEF LiveInv, TypeOK
  <2>4. handle'[s.h].pay = data'[path'].hosts /\ path' # NoInode
    BY <1>0, <1>1, <1>2, <1>6, <1>7, <2>1, Numbers DEF TypeOK
  <2>5. wr'["bg"].pc \in {"idle", "ok", "failed"}
    BY <1>0, <1>1, <1>5, <1>6, Alone DEF TypeOK, Writers
  <2> QED BY <2>2, <2>3, <2>4, <2>5 DEF PayInv
<1>18. SlotInv'
  BY <1>0, <1>1, <1>2, <1>3, <1>6, <1>7, <1>10, Numbers
     DEF SlotInv, Chosen, Rekeying, Halfway, Knows, During, TypeOK
<1>19. DoneInv'
  <2>1. \A h \in Handles : Written(h) => Written(h)'
    BY <1>0, <1>1, <1>2, <1>3, <1>6, <1>7, <1>10 DEF Written, TypeOK
  <2>2. wr["bg"].pc = wr'["bg"].pc \/ wr["bg"].pc = "dir"
    BY <1>0, <1>1, <1>6 DEF Writers, TypeOK
  <2>3. \A h \in Handles : handle'[h].pw = handle[h].pw
    BY <1>0, <1>1, <1>3, <1>6, <1>7 DEF TypeOK
  <2>4. job.h # Free => job.h \in Handles
    BY <1>0 DEF TypeOK, Job
  <2> QED BY <2>1, <2>2, <2>3, <2>4, <1>0, <1>6 DEF DoneInv, ControlInv, ScreenInv
<1> QED BY <1>12, <1>13, <1>14, <1>15, <1>16, <1>17, <1>18, <1>19 DEF IInv

LEMMA SavingStep == ASSUME IInv, NEW w \in Writers, Saving(w) PROVE IInv'
BY MarshalStep, SealStep, OpenTmpStep, WriteStep, SyncStep, RenameStep, FileFailsStep, SyncDirStep
   DEF Saving

---------------------------------------------------------------------------
(* The steps of a command *)

\* While a command is not in a save nobody writes.
LEMMA Quiet ==
  ASSUME TypeOK, ControlInv, job.pc # "done"
  PROVE  /\ wr["ui"] = Idle
         /\ wr["bg"].pc \notin Busy => wr["bg"].pc \in {"idle", "ok", "failed"}
         /\ job.pc \notin InSave => wr["bg"] = Idle
         /\ Idle \in Resting /\ Idle.pc = "idle"
         /\ \A x \in Writers : x = "ui" \/ x = "bg"
<1>1. wr["bg"] \in Saves
  BY DEF TypeOK, Saves, Writers
<1> QED BY <1>1, Shapes DEF ControlInv, ScreenInv, Idle, Resting, Writers

LEMMA NoSave == (\A w \in Writers : wr'[w].pc \in {"idle", "ok", "failed", "marshal"}) => WriterInv'
BY DEF WriterInv

\* A command that is over: what it did is in the file if it says so.
LEMMA Finishes ==
  ASSUME IInv, NEW r \in {"ok", "err", "wrong", "locked"}, job.pc # "done",
         wr["bg"].pc \notin Busy, ~ Halfway, ~ During("install", {"close"}),
         Installing => wr["bg"].pc = "ok",
         r = "ok" => wr["bg"].pc = "ok" /\ job.pc # "unsave",
         job' = [job EXCEPT !.pc = "done", !.res = r], wr' = [wr EXCEPT !["bg"] = Idle],
         UNCHANGED <<data, synced, path, tmp, disk, lock, handle, ui, knows, acked, kept, raced, budget>>
  PROVE  IInv'
<1>0. TypeOK /\ ControlInv /\ LiveInv /\ WriterInv /\ FileInv /\ PayInv /\ SlotInv /\ DoneInv
  BY DEF IInv
<1>1. /\ job'.pc = "done" /\ job'.res = r /\ job'.kind = job.kind /\ job'.h = job.h
      /\ job'.old = job.old /\ job'.pw = job.pw /\ job'.code = job.code
  BY <1>0 DEF TypeOK, Job
<1>2. wr'["bg"] = Idle /\ wr'["ui"] = Idle /\ Idle.pc = "idle"
  BY <1>0, Quiet DEF TypeOK, Writers
<1>3. "done" \notin InSave
  BY DEF InSave
<1>4. TypeOK'
  <2>1. job' \in Job
    BY <1>0 DEF TypeOK, Job
  <2>2. wr' \in [Writers -> Saves]
    BY <1>0, Quiet DEF TypeOK, Saves
  <2> QED BY <2>1, <2>2, <1>0 DEF TypeOK, Saves
<1>5. ControlInv'
  BY <1>0, <1>1, <1>2, <1>3 DEF ControlInv, ScreenInv, During, NoJob, Points
<1>6. LiveInv'
  BY <1>0, <1>1, <1>3 DEF LiveInv, During
<1>7. WriterInv'
  BY <1>2, NoSave DEF Writers
<1>8. FileInv'
  BY <1>0 DEF FileInv
<1>9. PayInv'
  BY <1>0, <1>1, <1>2, Quiet DEF PayInv, Settled, Rewraps, Installing, During, Writers, Busy
<1>10. SlotInv'
  BY <1>0, <1>1, <1>3 DEF SlotInv, Chosen, Rekeying, Halfway, Knows, During
<1>11. DoneInv'
  <2>1. r = "ok" => job.pc \in InSave
    BY <1>0 DEF ControlInv, ScreenInv
  <2>2. r = "ok" /\ job.kind = "install" => job.pc \in {"write", "merge"}
    BY <2>1, <1>0 DEF ControlInv, ScreenInv, InSave, Points
  <2> QED BY <2>1, <2>2, <1>0, <1>1, <1>3 DEF DoneInv, SlotInv, ControlInv, ScreenInv, During, Written
<1> QED BY <1>4, <1>5, <1>6, <1>7, <1>8, <1>9, <1>10, <1>11 DEF IInv

\* A command whose first write failed lets go of the vault it made.
LEMMA Releases ==
  ASSUME IInv, Installing, wr["bg"].pc = "failed",
         job' = [job EXCEPT !.pc = "done", !.res = "err"], wr' = [wr EXCEPT !["bg"] = Idle],
         lock' = Free, handle' = [handle EXCEPT ![job.h] = NoHandle],
         UNCHANGED <<data, synced, path, tmp, disk, ui, knows, acked, kept, raced, budget>>
  PROVE  IInv'
<1>0. TypeOK /\ ControlInv /\ LiveInv /\ WriterInv /\ FileInv /\ PayInv /\ SlotInv /\ DoneInv
  BY DEF IInv
<1>1. /\ job'.pc = "done" /\ job'.res = "err" /\ job'.kind = job.kind /\ job'.h = job.h
      /\ job'.old = job.old /\ job'.pw = job.pw /\ job'.code = job.code
  BY <1>0 DEF TypeOK, Job
<1>2. job.pc # "done" /\ job.pc \in InSave /\ job.kind \in {"create", "install"}
  BY DEF Installing, During, InSave
<1>3. wr'["bg"] = Idle /\ wr'["ui"] = Idle /\ Idle.pc = "idle"
  BY <1>0, <1>2, Quiet DEF TypeOK, Writers
<1>4. "done" \notin InSave
  BY DEF InSave
<1>5. TypeOK'
  BY <1>0, <1>2, Quiet DEF TypeOK, Job
<1>6. ControlInv'
  BY <1>0, <1>1, <1>3, <1>4 DEF ControlInv, ScreenInv, During, NoJob, Points
<1>7. LiveInv'
  <2>1. job.h # ui.vault
    BY <1>0, <1>2 DEF ControlInv, ScreenInv, Installing, During
  <2>2. job.h \in Handles
    BY <1>0, <1>2 DEF ControlInv, ScreenInv, TypeOK, Job
  <2>3. lock = job.h
    BY <2>1, <2>2, <1>0, <1>2 DEF LiveInv
  <2>4. /\ \A h \in Handles \ {job.h} : handle'[h] = handle[h] /\ handle[h].key = None
        /\ handle'[job.h] = NoHandle
    BY <2>2, <2>3, <1>0 DEF LiveInv, TypeOK
  <2>5. ui.vault # Free => ui.vault \in Handles
    BY <1>0 DEF TypeOK, Screen
  <2>6. \A h \in Handles : handle'[h].key = None
    BY <2>4, Numbers
  <2>7. \A h \in Handles : handle'[h] # NoHandle => h = ui.vault
    BY <2>3, <2>4, <1>0 DEF LiveInv
  <2> QED BY <2>1, <2>4, <2>5, <2>6, <2>7, <1>0, <1>1, <1>4 DEF LiveInv
<1>8. WriterInv'
  BY <1>3, NoSave DEF Writers
<1>9. FileInv'
  BY <1>0 DEF FileInv
<1>10. \A h \in Handles : handle'[h].key # None => handle'[h] = handle[h] /\ h # job.h
  BY <1>0, Numbers DEF TypeOK
<1>11. PayInv'
  BY <1>0, <1>1, <1>2, <1>3, <1>10, Quiet DEF PayInv, Settled, Rewraps, Installing, During, Writers
<1>12. SlotInv'
  BY <1>0, <1>1, <1>2, <1>4, <1>10 DEF SlotInv, Chosen, Rekeying, Halfway, Knows, During, TypeOK, Screen
<1>13. DoneInv'
  BY <1>1, <1>4 DEF DoneInv
<1> QED BY <1>5, <1>6, <1>7, <1>8, <1>9, <1>11, <1>12, <1>13 DEF IInv

\* While nobody holds the lock only the screen may have a handle, a closed one.
LEMMA Spare ==
  ASSUME TypeOK, LiveInv, lock = Free
  PROVE  /\ SpareHandle \in Handles /\ handle[SpareHandle] = NoHandle /\ SpareHandle # ui.vault
         /\ \A h \in Handles : handle[h].key = None /\ (handle[h] # NoHandle => h = ui.vault)
<1>1. \A h \in Handles : handle[h].key = None /\ (handle[h] # NoHandle => h = ui.vault) /\ lock # h
  BY Numbers DEF LiveInv
<1>2. \E h \in Handles : handle[h] = NoHandle /\ lock # h
  BY <1>1 DEF Handles
<1>3. SpareHandle \in Handles /\ handle[SpareHandle] = NoHandle
  BY <1>2 DEF SpareHandle
<1>4. ui.vault # Free => ui.vault \in Handles /\ handle[ui.vault] # NoHandle
  BY DEF LiveInv, TypeOK, Screen
<1> QED BY <1>1, <1>3, <1>4, Numbers

LEMMA Grabs ==
  ASSUME TypeOK, LiveInv, lock = Free, NEW h \in Handles, h = SpareHandle, NEW o \in Object,
         o.key = o.dek, lock' = h, handle' = [handle EXCEPT ![h] = o]
  PROVE  /\ handle'[h] = o /\ o.key # None
         /\ \A x \in Handles \ {h} : handle'[x] = handle[x] /\ handle[x].key = None
         /\ ui' = ui /\ (job'.pc \in InSave => job'.h = h) => LiveInv'
<1>1. /\ handle[h] = NoHandle /\ h # ui.vault
      /\ \A x \in Handles : handle[x].key = None /\ (handle[x] # NoHandle => x = ui.vault)
  BY Spare
<1>2. /\ handle'[h] = o /\ \A x \in Handles \ {h} : handle'[x] = handle[x]
  BY <1>1 DEF TypeOK
<1>3. o.key # None /\ o # NoHandle
  BY Numbers DEF Object, Dek, None
<1>4. SUFFICES ASSUME ui' = ui, job'.pc \in InSave => job'.h = h PROVE LiveInv'
  BY <1>1, <1>2, <1>3
<1>5. ui.vault # Free => ui.vault \in Handles /\ handle'[ui.vault] # NoHandle
  BY <1>1, <1>2 DEF LiveInv, TypeOK, Screen
<1>6. \A x \in Handles : /\ handle'[x].key # None => lock' = x
                         /\ handle'[x] # NoHandle => x = ui'.vault \/ x = lock'
                         /\ handle'[x].key \in {None, handle'[x].dek}
  BY <1>1, <1>2, <1>4
<1>7. job'.pc \in InSave => handle'[job'.h] # NoHandle
  BY <1>2, <1>3, <1>4
<1> QED BY <1>4, <1>5, <1>6, <1>7 DEF LiveInv

LEMMA CreateBeginsStep == IInv /\ CreateBegins => IInv'
<1> SUFFICES ASSUME IInv, CreateBegins PROVE IInv'
  OBVIOUS
<1>0. TypeOK /\ ControlInv /\ LiveInv /\ WriterInv /\ FileInv /\ PayInv /\ SlotInv /\ DoneInv
  BY DEF IInv
<1>1. job.kind = "create" /\ job.pc = "begin" /\ ui.vault = Free
  BY <1>0 DEF CreateBegins, At, ControlInv, ScreenInv
<1>2. wr["ui"] = Idle /\ wr["bg"] = Idle /\ Idle.pc = "idle"
  BY <1>0, <1>1, Quiet DEF InSave
<1>3. CASE lock # Free
  <2>1. /\ job' = [job EXCEPT !.pc = "done", !.res = "locked"]
        /\ UNCHANGED <<data, synced, path, tmp, disk, lock, handle, wr, ui, knows, acked, kept, raced, budget>>
    BY <1>3 DEF CreateBegins, Result, files
  <2>2. wr' = [wr EXCEPT !["bg"] = Idle]
    BY <2>1, <1>0, <1>2 DEF TypeOK
  <2> QED BY <2>1, <2>2, <1>1, <1>2, Finishes DEF Busy, Halfway, During, Installing
<1>4. CASE lock = Free
  <2>1. PICK h : h = SpareHandle
    OBVIOUS
  <2>2. h \in Handles /\ h # ui.vault
    BY <2>1, <1>0, <1>4, Spare
  <2>3. PICK o \in Object : o = Unlocked([pw |-> job.pw, rec |-> job.code, dek |-> "local", hosts |-> {}])
    BY <1>0 DEF Object, Unlocked, TypeOK, Job, Dek, Doc
  <2>4. PICK t \in Starting : t = [pc |-> "marshal", h |-> h, pay |-> {}]
    BY <2>2 DEF Starting, Doc
  <2>5. /\ lock' = h /\ handle' = [handle EXCEPT ![h] = o] /\ wr' = [wr EXCEPT !["bg"] = t]
        /\ job' = [job EXCEPT !.pc = "save", !.h = h]
        /\ UNCHANGED <<data, synced, path, tmp, disk, ui, knows, acked, kept, raced, budget>>
    BY <2>1, <2>3, <2>4, <1>4 DEF CreateBegins, Begin, files
  <2>6. /\ job'.pc = "save" /\ job'.h = h /\ job'.kind = "create" /\ job'.pw = job.pw
        /\ job'.code = job.code
    BY <2>5, <1>0, <1>1 DEF TypeOK, Job
  <2>7. o.pw = job.pw /\ o.rec = job.code /\ o.key = o.dek
    BY <2>3 DEF Unlocked
  <2>8. wr'["bg"] = t /\ wr'["ui"] = Idle /\ t.pc = "marshal" /\ t.h = h
    BY <2>4, <2>5, <1>0, <1>2 DEF TypeOK, Writers
  <2>9. "save" \in InSave
    BY DEF InSave
  <2>10. /\ LiveInv' /\ handle'[h] = o /\ o.key # None
         /\ \A x \in Handles \ {h} : handle'[x] = handle[x] /\ handle[x].key = None
    <3>1. lock' = h /\ handle' = [handle EXCEPT ![h] = o] /\ ui' = ui
      BY <2>5
    <3>2. job'.pc \in InSave => job'.h = h
      BY <2>6
    <3>3. o.key = o.dek
      BY <2>7
    <3>4. /\ handle'[h] = o /\ o.key # None
          /\ \A x \in Handles \ {h} : handle'[x] = handle[x] /\ handle[x].key = None
          /\ ui' = ui /\ (job'.pc \in InSave => job'.h = h) => LiveInv'
      BY <2>1, <2>2, <3>1, <3>3, <1>0, <1>4, Grabs
    <3> QED BY <3>1, <3>2, <3>4
  <2>11. TypeOK'
    BY <2>2, <2>3, <2>4, <2>5, <1>0 DEF TypeOK, Job, InSave
  <2>12. ControlInv'
    BY <2>2, <2>5, <2>6, <2>8, <2>9, <1>0, <1>1, Numbers DEF ControlInv, ScreenInv, During, Points
  <2>13. WriterInv'
    BY <2>8, NoSave, <1>2 DEF Writers
  <2>14. FileInv'
    BY <2>5, <1>0 DEF FileInv
  <2>15. PayInv'
    BY <2>5, <2>6, <2>8, <2>10, <1>0, <1>2 DEF PayInv, Settled, Rewraps, Installing, During, Writers
  <2>16. SlotInv'
    BY <2>5, <2>6, <2>7, <2>10, <1>0, <1>1
       DEF SlotInv, Chosen, Rekeying, Halfway, Knows, During, InSave
  <2>17. DoneInv'
    BY <2>6, <2>8 DEF DoneInv
  <2> QED BY <2>10, <2>11, <2>12, <2>13, <2>14, <2>15, <2>16, <2>17 DEF IInv
<1> QED BY <1>3, <1>4

LEMMA CreateEndsStep == IInv /\ CreateEnds => IInv'
<1> SUFFICES ASSUME IInv, CreateEnds PROVE IInv'
  OBVIOUS
<1>1. /\ job.kind = "create" /\ job.pc = "save" /\ wr["bg"].pc \in {"ok", "failed"}
      /\ wr' = [wr EXCEPT !["bg"] = Idle]
      /\ UNCHANGED <<data, synced, path, tmp, disk, ui, knows, acked, kept, raced, budget>>
  BY DEF CreateEnds, At, Returned, Rest, files
<1>2. Installing /\ ~ Halfway /\ ~ During("install", {"close"}) /\ wr["bg"].pc \notin Busy
  BY <1>1 DEF Installing, Halfway, During, Busy
<1>3. CASE wr["bg"].pc = "ok"
  <2>1. job' = [job EXCEPT !.pc = "done", !.res = "ok"] /\ UNCHANGED <<lock, handle>>
    BY <1>3 DEF CreateEnds, Result
  <2> QED BY <2>1, <1>1, <1>2, <1>3, Finishes
<1>4. CASE wr["bg"].pc = "failed"
  <2>1. /\ job' = [job EXCEPT !.pc = "done", !.res = "err"] /\ lock' = Free
        /\ handle' = [handle EXCEPT ![job.h] = NoHandle]
    BY <1>4 DEF CreateEnds, Result
  <2> QED BY <2>1, <1>1, <1>2, <1>4, Releases
<1> QED BY <1>1, <1>3, <1>4

LEMMA OpenVaultStep == IInv /\ OpenVault => IInv'
<1> SUFFICES ASSUME IInv, OpenVault PROVE IInv'
  OBVIOUS
<1>0. TypeOK /\ ControlInv /\ LiveInv /\ WriterInv /\ FileInv /\ PayInv /\ SlotInv /\ DoneInv
  BY DEF IInv
<1>1. job.kind \in {"open", "recover"} /\ job.pc = "begin" /\ ui.vault = Free
  BY <1>0 DEF OpenVault, ControlInv, ScreenInv
<1>2. wr["ui"] = Idle /\ wr["bg"] = Idle /\ Idle.pc = "idle"
  BY <1>0, <1>1, Quiet DEF InSave
<1>3. UNCHANGED <<data, synced, path, tmp, disk, wr, ui, knows, acked, kept, raced, budget>>
  BY DEF OpenVault, files
<1>4. \/ \E r \in {"err", "wrong", "locked"} :
            job' = [job EXCEPT !.pc = "done", !.res = r] /\ UNCHANGED <<lock, handle>>
      \/ /\ lock = Free /\ IsVault(Contents(path)) /\ Contents(path).sealed
         /\ lock' = SpareHandle
         /\ handle' = [handle EXCEPT ![SpareHandle] = Unlocked(Contents(path))]
         /\ job' = [job EXCEPT !.pc = "done", !.h = SpareHandle, !.res = "ok"]
  BY DEF OpenVault, Result
<1>5. CASE \E r \in {"err", "wrong", "locked"} :
             job' = [job EXCEPT !.pc = "done", !.res = r] /\ UNCHANGED <<lock, handle>>
  <2>1. PICK r \in {"err", "wrong", "locked"} :
             job' = [job EXCEPT !.pc = "done", !.res = r] /\ UNCHANGED <<lock, handle>>
    BY <1>5
  <2>2. wr' = [wr EXCEPT !["bg"] = Idle]
    BY <1>0, <1>2, <1>3 DEF TypeOK
  <2> QED BY <2>1, <2>2, <1>1, <1>2, <1>3, Finishes DEF Busy, Halfway, During, Installing
<1>6. CASE /\ lock = Free /\ IsVault(Contents(path)) /\ Contents(path).sealed
           /\ lock' = SpareHandle
           /\ handle' = [handle EXCEPT ![SpareHandle] = Unlocked(Contents(path))]
           /\ job' = [job EXCEPT !.pc = "done", !.h = SpareHandle, !.res = "ok"]
  <2>1. PICK h \in Handles : h = SpareHandle /\ h # ui.vault
    BY <1>0, <1>6, Spare
  <2>2. PICK c \in File : c = Contents(path) /\ path # NoInode /\ c = data[path] /\ Opens(c, knows)
    <3>1. path # NoInode
      BY <1>6 DEF Contents, IsVault, Gone
    <3>2. data[path] \in Bytes /\ Contents(path) = data[path] /\ Opens(data[path], knows)
      BY <3>1, <1>0 DEF TypeOK, Contents, FileInv
    <3> QED BY <3>1, <3>2, <1>6 DEF Bytes, IsVault, Torn, Empty, Gone
  <2>3. PICK o \in Object : o = Unlocked(c)
    BY DEF Object, Unlocked, File
  <2>4. /\ lock' = h /\ handle' = [handle EXCEPT ![h] = o] /\ ui' = ui
        /\ job' = [job EXCEPT !.pc = "done", !.h = h, !.res = "ok"]
    BY <2>1, <2>2, <2>3, <1>3, <1>6
  <2>5. /\ job'.pc = "done" /\ job'.h = h /\ job'.kind = job.kind /\ job'.res = "ok"
        /\ job'.pw = job.pw /\ job'.old = job.old
    BY <2>4, <1>0 DEF TypeOK, Job
  <2>6. o.pw = c.pw /\ o.rec = c.rec /\ o.key = o.dek /\ o.pay = c.hosts
    BY <2>3 DEF Unlocked
  <2>7. "done" \notin InSave
    BY DEF InSave
  <2>8. /\ handle'[h] = o /\ o.key # None
        /\ \A x \in Handles \ {h} : handle'[x] = handle[x] /\ handle[x].key = None
        /\ ui' = ui /\ (job'.pc \in InSave => job'.h = h) => LiveInv'
    BY <2>1, <2>4, <2>6, <1>0, <1>6, Grabs
  <2>9. LiveInv'
    BY <2>4, <2>5, <2>7, <2>8
  <2>10. TypeOK'
    BY <2>1, <2>3, <2>4, <1>0, <1>3 DEF TypeOK, Job
  <2>11. ControlInv'
    BY <2>4, <2>5, <2>7, <1>0, <1>1, <1>2, <1>3 DEF ControlInv, ScreenInv, During
  <2>12. WriterInv'
    BY <1>2, <1>3, NoSave DEF Writers
  <2>13. FileInv'
    BY <1>0, <1>3 DEF FileInv
  <2>14. PayInv'
    BY <2>2, <2>5, <2>6, <2>8, <1>0, <1>1, <1>2, <1>3
       DEF PayInv, Settled, Rewraps, Installing, During, Writers
  <2>15. SlotInv'
    <3>1. Knows(h)'
      BY <2>2, <2>6, <2>8, <1>3 DEF Knows, Opens
    <3>2. ui'.vault = Free
      BY <1>1, <1>3
    <3> QED BY <3>1, <3>2, <2>5, <2>7, <2>8, <1>0, <1>1, <1>3
            DEF SlotInv, Chosen, Rekeying, Halfway, Knows, During
  <2>16. DoneInv'
    BY <2>1, <2>2, <2>4, <2>5, <2>6, <2>7, <2>8, <1>1, <1>3, Numbers DEF DoneInv, Written
  <2> QED BY <2>9, <2>10, <2>11, <2>12, <2>13, <2>14, <2>15, <2>16 DEF IInv
<1> QED BY <1>4, <1>5, <1>6

LEMMA RekeyVerifiesStep == IInv /\ RekeyVerifies => IInv'
<1> SUFFICES ASSUME IInv, RekeyVerifies PROVE IInv'
  OBVIOUS
<1>0. TypeOK /\ ControlInv /\ LiveInv /\ WriterInv /\ FileInv /\ PayInv /\ SlotInv /\ DoneInv
  BY DEF IInv
<1>1. job.kind = "rekey" /\ job.pc = "begin" /\ job.h = ui.vault /\ ui.vault # Free /\ ui.step = "rekeying"
  BY <1>0 DEF RekeyVerifies, At, ControlInv, ScreenInv
<1>2. wr["ui"] = Idle /\ wr["bg"] = Idle /\ Idle.pc = "idle"
  BY <1>0, <1>1, Quiet DEF InSave
<1>3. UNCHANGED <<data, synced, path, tmp, disk, lock, handle, wr, ui, acked, kept, raced, budget>>
  BY DEF RekeyVerifies, files
<1>4. \/ \E r \in {"err", "wrong"} :
            job' = [job EXCEPT !.pc = "done", !.res = r] /\ UNCHANGED knows
      \/ /\ IsVault(Contents(path)) /\ Contents(path).pw = job.cur
         /\ job' = [job EXCEPT !.pc = "salt"]
         /\ knows' = [knows EXCEPT !.pws = @ \cup {job.pw}]
  BY DEF RekeyVerifies, Result, GoTo, Learns
<1>5. CASE \E r \in {"err", "wrong"} :
             job' = [job EXCEPT !.pc = "done", !.res = r] /\ UNCHANGED knows
  <2>1. PICK r \in {"err", "wrong"} :
             job' = [job EXCEPT !.pc = "done", !.res = r] /\ UNCHANGED knows
    BY <1>5
  <2>2. wr' = [wr EXCEPT !["bg"] = Idle]
    BY <1>0, <1>2, <1>3 DEF TypeOK
  <2> QED BY <2>1, <2>2, <1>1, <1>2, <1>3, Finishes DEF Busy, Halfway, During, Installing
<1>6. CASE /\ IsVault(Contents(path)) /\ Contents(path).pw = job.cur
           /\ job' = [job EXCEPT !.pc = "salt"]
           /\ knows' = [knows EXCEPT !.pws = @ \cup {job.pw}]
  <2>1. path # NoInode /\ data[path].pw = job.cur /\ Opens(data[path], knows)
    BY <1>0, <1>6 DEF Contents, IsVault, Gone, FileInv
  <2>2. /\ job'.pc = "salt" /\ job'.h = job.h /\ job'.kind = "rekey"
        /\ job'.pw = job.pw /\ job'.cur = job.cur
    BY <1>0, <1>1, <1>6 DEF TypeOK, Job
  <2>3. knows.pws \subseteq knows'.pws /\ knows'.codes = knows.codes /\ job.pw \in knows'.pws
    BY <1>0, <1>6 DEF TypeOK
  <2>4. "salt" \notin InSave
    BY DEF InSave
  <2>5. TypeOK'
    BY <1>0, <1>3, <1>6 DEF TypeOK, Job
  <2>6. ControlInv'
    BY <2>2, <2>4, <1>0, <1>1, <1>2, <1>3 DEF ControlInv, ScreenInv, During, Points
  <2>7. LiveInv'
    BY <2>2, <2>4, <1>0, <1>1, <1>3 DEF LiveInv, During
  <2>8. WriterInv'
    BY <1>2, <1>3, NoSave DEF Writers
  <2>9. FileInv'
    BY <2>3, <1>0, <1>3 DEF FileInv, Opens
  <2>10. PayInv'
    BY <2>2, <1>0, <1>1, <1>2, <1>3 DEF PayInv, Settled, Rewraps, Installing, During, Writers
  <2>11. SlotInv'
    <3>1. handle[job.h].key # None => data[path].rec = handle[job.h].rec
      BY <1>0, <1>1 DEF SlotInv
    <3>2. handle[job.h].key # None => job.cur \in knows'.pws \/ handle[job.h].rec \in knows'.codes
      BY <3>1, <2>1, <2>3 DEF Opens
    <3>3. \A h : Knows(h) => Knows(h)'
      BY <2>3, <1>3 DEF Knows
    <3> QED BY <3>2, <3>3, <2>2, <2>3, <2>4, <1>0, <1>1, <1>3
            DEF SlotInv, Chosen, Rekeying, Halfway, During
  <2>12. DoneInv'
    BY <2>2, <2>4 DEF DoneInv
  <2> QED BY <2>5, <2>6, <2>7, <2>8, <2>9, <2>10, <2>11, <2>12 DEF IInv
<1> QED BY <1>4, <1>5, <1>6

LEMMA RekeySaltStep == IInv /\ RekeySalt => IInv'
<1> SUFFICES ASSUME IInv, RekeySalt PROVE IInv'
  OBVIOUS
<1>0. TypeOK /\ ControlInv /\ LiveInv /\ WriterInv /\ FileInv /\ PayInv /\ SlotInv /\ DoneInv
  BY DEF IInv
<1>1. /\ job.kind = "rekey" /\ job.pc \in {"salt", "unsalt"} /\ job.h = ui.vault
      /\ job.h \in Handles /\ ui.step = "rekeying"
  BY <1>0 DEF RekeySalt, ControlInv, ScreenInv, TypeOK, Screen
<1>2. wr["ui"] = Idle /\ wr["bg"] = Idle /\ Idle.pc = "idle"
  BY <1>0, <1>1, Quiet DEF InSave
<1>3. PICK v \in Object : v = handle[job.h]
  BY <1>0, <1>1, Numbers DEF LiveInv, TypeOK
<1>4. PICK u \in Object : u = [v EXCEPT !.pw = Garbled]
  BY <1>3 DEF Object, Secret
<1>5. PICK p \in {"wrap", "unwrap"} : job' = [job EXCEPT !.pc = p]
  BY DEF RekeySalt, GoTo
<1>6. /\ handle' = [handle EXCEPT ![job.h] = u]
      /\ UNCHANGED <<data, synced, path, tmp, disk, lock, wr, ui, knows, acked, kept, raced, budget>>
  BY <1>0, <1>1, <1>3, <1>4 DEF RekeySalt, files, TypeOK
<1>7. /\ job'.pc = p /\ job'.h = job.h /\ job'.kind = "rekey" /\ job'.pw = job.pw
      /\ job'.cur = job.cur
  BY <1>0, <1>1, <1>5 DEF TypeOK, Job
<1>8. u.rec = v.rec /\ u.dek = v.dek /\ u.key = v.key /\ u.pay = v.pay
  BY <1>4 DEF Object
<1>9. p \notin InSave
  BY DEF InSave
<1>10. TypeOK'
  BY <1>0, <1>1, <1>4, <1>5, <1>6 DEF TypeOK, Job
<1>11. ControlInv'
  BY <1>0, <1>1, <1>2, <1>6, <1>7, <1>9 DEF ControlInv, ScreenInv, During, Points
<1>12. LiveInv'
  BY <1>0, <1>1, <1>3, <1>6, <1>7, <1>8, <1>9, Numbers DEF LiveInv, During, TypeOK
<1>13. WriterInv'
  BY <1>2, <1>6, NoSave DEF Writers
<1>14. FileInv'
  BY <1>0, <1>6 DEF FileInv
<1>15. PayInv'
  BY <1>0, <1>1, <1>2, <1>3, <1>6, <1>7, <1>8
     DEF PayInv, Settled, Rewraps, Installing, During, Writers, TypeOK
<1>16. SlotInv'
  BY <1>0, <1>1, <1>3, <1>6, <1>7, <1>8, <1>9
     DEF SlotInv, Chosen, Rekeying, Halfway, Knows, During, TypeOK
<1>17. DoneInv'
  BY <1>7, <1>9 DEF DoneInv
<1> QED BY <1>10, <1>11, <1>12, <1>13, <1>14, <1>15, <1>16, <1>17 DEF IInv

\* A command that writes the slots of the screen's vault starts a save of it.
LEMMA Rewrites ==
  ASSUME IInv, job.pc # "done", job.kind \in {"rekey", "reset"}, wr["bg"].pc \notin Busy,
         NEW v \in Object, v = handle[job.h], NEW u \in Object,
         u.dek = v.dek, u.key = v.key, u.pay = v.pay, u.nonce = v.nonce,
         NEW p \in InSave, p \in Points(job.kind), job' = [job EXCEPT !.pc = p],
         u.pw = (IF p = "unsave" THEN job.cur ELSE job.pw),
         p = "unsave" => job.kind = "rekey" /\ Rekeying,
         p # "unsave" => job.pw \in knows.pws,
         p = "code" => u.rec = job.code, p # "code" => u.rec = v.rec,
         job.kind = "rekey" => Rekeying,
         handle' = [handle EXCEPT ![job.h] = u], wr' = Begin("bg", job.h, u.pay),
         UNCHANGED <<data, synced, path, tmp, disk, lock, ui, knows, acked, kept, raced, budget>>
  PROVE  IInv'
<1>0. TypeOK /\ ControlInv /\ LiveInv /\ WriterInv /\ FileInv /\ PayInv /\ SlotInv /\ DoneInv
  BY DEF IInv
<1>1. /\ job.h = ui.vault /\ ui.vault # Free /\ job.h \in Handles
      /\ job.kind = "reset" => ui.step = "busy"
      /\ job.kind = "rekey" => ui.step = "rekeying"
  BY <1>0 DEF ControlInv, ScreenInv, TypeOK, Screen
<1>2. /\ job'.pc = p /\ job'.h = job.h /\ job'.kind = job.kind /\ job'.pw = job.pw
      /\ job'.cur = job.cur /\ job'.code = job.code
  BY <1>0 DEF TypeOK, Job
<1>3. PICK t \in Starting : t = [pc |-> "marshal", h |-> job.h, pay |-> u.pay]
  BY <1>1 DEF Starting, Object
<1>4. /\ wr' = [wr EXCEPT !["bg"] = t] /\ wr'["bg"] = t /\ wr'["ui"] = Idle
      /\ Idle.pc = "idle" /\ t.pc = "marshal" /\ t.h = job.h /\ t.pay = u.pay
  BY <1>0, <1>3, Quiet DEF Begin, TypeOK, Writers
<1>5. p # "done" /\ p \notin {"wrap", "unwrap", "write"}
  BY DEF InSave, Points
<1>6. /\ handle'[job.h] = u /\ \A x \in Handles \ {job.h} : handle'[x] = handle[x]
      /\ u # NoHandle
  BY <1>0, <1>1, Numbers DEF TypeOK
<1>7. TypeOK'
  BY <1>0, <1>1, <1>3, <1>4 DEF TypeOK, Job
<1>8. ControlInv'
  BY <1>0, <1>1, <1>2, <1>4, <1>5, Numbers DEF ControlInv, ScreenInv, During
<1>9. LiveInv'
  BY <1>0, <1>1, <1>2, <1>6 DEF LiveInv, During
<1>10. WriterInv'
  BY <1>4, NoSave DEF Writers
<1>11. FileInv'
  BY <1>0 DEF FileInv
<1>12. PayInv'
  <2>1. ~ Installing /\ ~ Installing'
    BY <1>2 DEF Installing, During
  <2>2. Settled /\ Settled'
    BY <1>0, <1>4, Quiet DEF Settled, Writers, Busy
  <2> QED BY <2>1, <2>2, <1>0, <1>1, <1>2, <1>4, <1>6 DEF PayInv
<1>13. SlotInv'
  <2>1. u.key # None => u.pw \in knows.pws \/ u.rec \in knows.codes
    BY <1>0, <1>5 DEF SlotInv
  <2>2. ~ Halfway'
    BY <1>2, <1>5 DEF Halfway, During
  <2>3. \A x \in Handles : handle'[x].key # None => Knows(x)'
    <3> SUFFICES ASSUME NEW x \in Handles, handle'[x].key # None PROVE Knows(x)'
      OBVIOUS
    <3>1. CASE x = job.h
      BY <3>1, <2>1, <1>6 DEF Knows
    <3>2. CASE x # job.h
      <4>1. Knows(x)
        BY <3>2, <1>0, <1>6 DEF SlotInv, Halfway
      <4> QED BY <4>1, <3>2, <1>6 DEF Knows
    <3> QED BY <3>1, <3>2
  <2>4. job.kind = "rekey" => Rekeying' /\ (u.key # None => job.cur \in knows.pws \/ u.rec \in knows.codes)
    <3>1. job.kind = "rekey" => p \in {"save", "unsave"}
      BY DEF Points, InSave
    <3> QED BY <3>1, <1>0, <1>2 DEF SlotInv, Rekeying, During
  <2>5. Rekeying => job.pw \in knows.pws
    BY <1>0 DEF SlotInv, Chosen
  <2>6. job.kind = "rekey" /\ u.key # None => path # NoInode /\ data[path].rec = u.rec
    <3>1. job.kind = "rekey" => p # "code"
      BY DEF Points
    <3> QED BY <3>1, <1>0, <1>1 DEF SlotInv
  <2>7. job.kind = "reset" => p # "unsave"
    OBVIOUS
  <2> QED BY <2>2, <2>3, <2>4, <2>5, <2>6, <2>7, <1>0, <1>1, <1>2, <1>5, <1>6
          DEF SlotInv, Chosen, During, Rekeying
<1>14. DoneInv'
  BY <1>2, <1>4, <1>5 DEF DoneInv
<1> QED BY <1>7, <1>8, <1>9, <1>10, <1>11, <1>12, <1>13, <1>14 DEF IInv

LEMMA RekeyWrapStep == IInv /\ RekeyWrap => IInv'
<1> SUFFICES ASSUME IInv, RekeyWrap PROVE IInv'
  OBVIOUS
<1>0. TypeOK /\ ControlInv /\ LiveInv /\ SlotInv
  BY DEF IInv
<1>1. job.kind = "rekey" /\ job.pc \in {"wrap", "unwrap"} /\ job.h = ui.vault /\ job.h \in Handles
  BY <1>0 DEF RekeyWrap, ControlInv, ScreenInv, TypeOK, Screen
<1>2. PICK p \in {"save", "unsave"} : p = IF job.pc = "wrap" THEN "save" ELSE "unsave"
  OBVIOUS
<1>3. p \in InSave /\ p \in Points(job.kind) /\ p # "code"
  BY <1>1 DEF InSave, Points
<1>4. PICK v \in Object : v = handle[job.h]
  BY <1>0, <1>1, Numbers DEF LiveInv, TypeOK
<1>5. PICK u \in Object : u = [v EXCEPT !.pw = IF job.pc = "wrap" THEN job.pw ELSE job.cur]
  BY <1>0, <1>4 DEF Object, TypeOK, Job
<1>6. /\ u.rec = v.rec /\ u.dek = v.dek /\ u.key = v.key /\ u.pay = v.pay /\ u.nonce = v.nonce
      /\ u.pw = (IF p = "unsave" THEN job.cur ELSE job.pw)
  BY <1>1, <1>2, <1>4, <1>5 DEF Object
<1>7. /\ handle' = [handle EXCEPT ![job.h] = u] /\ wr' = Begin("bg", job.h, u.pay)
      /\ job' = [job EXCEPT !.pc = p]
      /\ UNCHANGED <<data, synced, path, tmp, disk, lock, ui, knows, acked, kept, raced, budget>>
  <2>1. handle' = [handle EXCEPT ![job.h] = u]
    BY <1>0, <1>1, <1>4, <1>5 DEF RekeyWrap, TypeOK
  <2>2. wr' = Begin("bg", job.h, u.pay)
    BY <1>4, <1>6 DEF RekeyWrap
  <2> QED BY <2>1, <2>2, <1>2 DEF RekeyWrap, GoTo, files
<1>8. Rekeying /\ job.pw \in knows.pws
  BY <1>0, <1>1 DEF SlotInv, Chosen, Rekeying, During
<1>9. wr["bg"].pc \notin Busy
  BY <1>0, <1>1, Quiet DEF InSave, Busy
<1> QED BY <1>1, <1>2, <1>3, <1>4, <1>6, <1>7, <1>8, <1>9, Rewrites

LEMMA RekeySavedStep == IInv /\ RekeySaved => IInv'
<1> SUFFICES ASSUME IInv, RekeySaved PROVE IInv'
  OBVIOUS
<1>0. TypeOK /\ ControlInv /\ LiveInv /\ WriterInv /\ FileInv /\ PayInv /\ SlotInv /\ DoneInv
  BY DEF IInv
<1>1. /\ job.kind = "rekey" /\ job.pc \in {"save", "unsave"} /\ wr["bg"].pc \in {"ok", "failed"}
      /\ wr' = [wr EXCEPT !["bg"] = Idle] /\ ui.step = "rekeying" /\ job.h = ui.vault
      /\ UNCHANGED <<data, synced, path, tmp, disk, lock, handle, ui, knows, acked, kept, raced, budget>>
  BY <1>0 DEF RekeySaved, Returned, Rest, files, ControlInv, ScreenInv
<1>2. ~ Installing /\ ~ Halfway /\ ~ During("install", {"close"}) /\ wr["bg"].pc \notin Busy
  BY <1>1 DEF Installing, Halfway, During, Busy
<1>3. CASE \E r \in {"ok", "err"} : /\ job' = [job EXCEPT !.pc = "done", !.res = r]
                                    /\ r = "ok" => wr["bg"].pc = "ok" /\ job.pc # "unsave"
  BY <1>1, <1>2, <1>3, Finishes
<1>4. CASE job.pc = "save" /\ job' = [job EXCEPT !.pc = "unsalt"]
  <2>1. /\ job'.pc = "unsalt" /\ job'.h = job.h /\ job'.kind = "rekey" /\ job'.pw = job.pw
        /\ job'.cur = job.cur
    BY <1>0, <1>1, <1>4 DEF TypeOK, Job
  <2>2. wr'["bg"] = Idle /\ wr'["ui"] = Idle /\ Idle.pc = "idle"
    BY <1>0, <1>1, Quiet DEF TypeOK, Writers
  <2>3. "unsalt" \notin InSave
    BY DEF InSave
  <2>4. TypeOK'
    BY <1>0, <1>1, <1>4, Quiet DEF TypeOK, Job
  <2>5. ControlInv'
    BY <2>1, <2>2, <2>3, <1>0, <1>1 DEF ControlInv, ScreenInv, During, Points
  <2>6. LiveInv'
    BY <2>1, <2>3, <1>0, <1>1 DEF LiveInv, During
  <2>7. WriterInv'
    BY <2>2, NoSave DEF Writers
  <2>8. FileInv'
    BY <1>0, <1>1 DEF FileInv
  <2>9. PayInv'
    BY <2>1, <2>2, <1>0, <1>1, <1>2, Quiet DEF PayInv, Settled, Rewraps, Installing, During, Writers
  <2>10. SlotInv'
    BY <2>1, <2>3, <1>0, <1>1, <1>2, <1>4 DEF SlotInv, Chosen, Rekeying, Halfway, Knows, During
  <2>11. DoneInv'
    BY <2>1, <2>3 DEF DoneInv
  <2> QED BY <2>4, <2>5, <2>6, <2>7, <2>8, <2>9, <2>10, <2>11 DEF IInv
<1> QED BY <1>1, <1>3, <1>4 DEF RekeySaved, Result, GoTo

LEMMA ResetBeginsStep == IInv /\ ResetBegins => IInv'
<1> SUFFICES ASSUME IInv, ResetBegins PROVE IInv'
  OBVIOUS
<1>0. TypeOK /\ ControlInv /\ LiveInv /\ SlotInv
  BY DEF IInv
<1>1. job.kind = "reset" /\ job.pc = "begin" /\ job.h = ui.vault /\ job.h \in Handles
  BY <1>0 DEF ResetBegins, At, ControlInv, ScreenInv, TypeOK, Screen
<1>2. PICK p \in {"save"} : p \in InSave /\ p \in Points(job.kind) /\ p # "code" /\ p # "unsave"
  BY <1>1 DEF InSave, Points
<1>3. PICK v \in Object : v = handle[job.h]
  BY <1>0, <1>1, Numbers DEF LiveInv, TypeOK
<1>4. PICK u \in Object : u = [v EXCEPT !.pw = job.pw]
  BY <1>0, <1>3 DEF Object, TypeOK, Job
<1>5. /\ u.rec = v.rec /\ u.dek = v.dek /\ u.key = v.key /\ u.pay = v.pay /\ u.nonce = v.nonce
      /\ u.pw = job.pw
  BY <1>3, <1>4 DEF Object
<1>6. /\ handle' = [handle EXCEPT ![job.h] = u] /\ wr' = Begin("bg", job.h, u.pay)
      /\ job' = [job EXCEPT !.pc = p]
      /\ UNCHANGED <<data, synced, path, tmp, disk, lock, ui, knows, acked, kept, raced, budget>>
  <2>1. handle' = [handle EXCEPT ![job.h] = u]
    BY <1>0, <1>1, <1>3, <1>4 DEF ResetBegins, TypeOK
  <2>2. wr' = Begin("bg", job.h, u.pay)
    BY <1>3, <1>5 DEF ResetBegins
  <2> QED BY <2>1, <2>2, <1>2 DEF ResetBegins, GoTo, files
<1>7. job.pw \in knows.pws
  BY <1>0, <1>1 DEF SlotInv, Chosen
<1>8. wr["bg"].pc \notin Busy
  BY <1>0, <1>1, Quiet DEF InSave, Busy
<1> QED BY <1>1, <1>2, <1>3, <1>5, <1>6, <1>7, <1>8, Rewrites

LEMMA RegeneratesStep == IInv /\ Regenerates => IInv'
<1> SUFFICES ASSUME IInv, Regenerates PROVE IInv'
  OBVIOUS
<1>0. TypeOK /\ ControlInv /\ LiveInv /\ SlotInv
  BY DEF IInv
<1>1. /\ job.kind = "reset" /\ job.pc = "save" /\ job.h = ui.vault /\ job.h \in Handles
      /\ wr["bg"].pc \in {"ok", "failed"} /\ wr["bg"].pc \notin Busy
      /\ UNCHANGED <<data, synced, path, tmp, disk, lock, ui, knows, acked, kept, raced, budget>>
  BY <1>0 DEF Regenerates, At, ControlInv, ScreenInv, TypeOK, Screen, Returned, Busy, files
<1>2. CASE wr["bg"].pc = "failed"
  <2>1. /\ job' = [job EXCEPT !.pc = "done", !.res = "err"] /\ wr' = [wr EXCEPT !["bg"] = Idle]
        /\ UNCHANGED handle
    BY <1>2 DEF Regenerates, Result, Rest
  <2> QED BY <2>1, <1>1, Finishes DEF Halfway, During, Installing
<1>3. CASE wr["bg"].pc = "ok"
  <2>1. PICK p \in {"code"} : p \in InSave /\ p \in Points(job.kind) /\ p = "code" /\ p # "unsave"
    BY <1>1 DEF InSave, Points
  <2>2. PICK v \in Object : v = handle[job.h]
    BY <1>0, <1>1, Numbers DEF LiveInv, TypeOK
  <2>3. PICK u \in Object : u = [v EXCEPT !.rec = job.code]
    BY <2>2, <1>0 DEF Object, TypeOK, Job
  <2>4. /\ u.rec = job.code /\ u.dek = v.dek /\ u.key = v.key /\ u.pay = v.pay
        /\ u.nonce = v.nonce /\ u.pw = v.pw
    BY <2>2, <2>3 DEF Object
  <2>5. v.pw = job.pw /\ job.pw \in knows.pws
    BY <2>2, <1>0, <1>1 DEF SlotInv, Chosen, InSave
  <2>6. /\ handle' = [handle EXCEPT ![job.h] = u] /\ wr' = Begin("bg", job.h, u.pay)
        /\ job' = [job EXCEPT !.pc = p]
    <3>1. handle' = [handle EXCEPT ![job.h] = u]
      BY <2>2, <2>3, <1>0, <1>1, <1>3 DEF Regenerates, TypeOK
    <3>2. wr' = Begin("bg", job.h, u.pay)
      BY <2>2, <2>4, <1>3 DEF Regenerates
    <3> QED BY <3>1, <3>2, <2>1, <1>3 DEF Regenerates, GoTo
  <2> QED BY <2>1, <2>2, <2>4, <2>5, <2>6, <1>1, Rewrites
<1> QED BY <1>1, <1>2, <1>3

LEMMA ResetEndsStep == IInv /\ ResetEnds => IInv'
<1> SUFFICES ASSUME IInv, ResetEnds PROVE IInv'
  OBVIOUS
<1>1. /\ job.kind = "reset" /\ job.pc = "code" /\ wr["bg"].pc \in {"ok", "failed"}
      /\ wr["bg"].pc \notin Busy /\ wr' = [wr EXCEPT !["bg"] = Idle]
      /\ UNCHANGED <<data, synced, path, tmp, disk, lock, handle, ui, knows, acked, kept, raced, budget>>
  BY DEF ResetEnds, At, Returned, Rest, files, Busy
<1>2. PICK r \in {"ok", "err"} : /\ job' = [job EXCEPT !.pc = "done", !.res = r]
                                 /\ r = "ok" => wr["bg"].pc = "ok"
  BY DEF ResetEnds, Result
<1> QED BY <1>1, <1>2, Finishes DEF Halfway, During, Installing

LEMMA InstallChecksStep == IInv /\ InstallChecks => IInv'
<1> SUFFICES ASSUME IInv, InstallChecks PROVE IInv'
  OBVIOUS
<1>0. TypeOK /\ ControlInv /\ LiveInv /\ WriterInv /\ FileInv /\ PayInv /\ SlotInv /\ DoneInv
  BY DEF IInv
<1>1. /\ job.kind = "install" /\ job.pc = "begin" /\ ui.step = "busy"
      /\ UNCHANGED <<data, synced, path, tmp, disk, lock, handle, wr, ui, knows, acked, kept, raced, budget>>
  BY <1>0 DEF InstallChecks, At, files, ControlInv, ScreenInv
<1>2. wr["ui"] = Idle /\ wr["bg"] = Idle /\ Idle.pc = "idle"
  BY <1>0, <1>1, Quiet DEF InSave
<1>3. CASE job' = [job EXCEPT !.pc = "done", !.res = "wrong"]
  <2>1. wr' = [wr EXCEPT !["bg"] = Idle]
    BY <1>0, <1>1, <1>2 DEF TypeOK
  <2> QED BY <2>1, <1>1, <1>2, <1>3, Finishes DEF Busy, Halfway, During, Installing
<1>4. CASE \E p \in {"take", "zero"} : /\ job' = [job EXCEPT !.pc = p] /\ job.pw = AccountPw
                                       /\ p = "zero" => job.old # Free
  <2>1. PICK p \in {"take", "zero"} : /\ job' = [job EXCEPT !.pc = p] /\ job.pw = AccountPw
                                      /\ p = "zero" => job.old # Free
    BY <1>4
  <2>2. /\ job'.pc = p /\ job'.h = job.h /\ job'.kind = "install" /\ job'.pw = job.pw
        /\ job'.old = job.old
    BY <2>1, <1>0, <1>1 DEF TypeOK, Job
  <2>3. p \notin InSave
    BY DEF InSave
  <2>4. TypeOK'
    BY <2>1, <1>0, <1>1 DEF TypeOK, Job
  <2>5. ControlInv'
    BY <2>1, <2>2, <2>3, <1>0, <1>1, <1>2 DEF ControlInv, ScreenInv, During, Points
  <2>6. LiveInv'
    BY <2>2, <2>3, <1>0, <1>1 DEF LiveInv, During
  <2>7. WriterInv'
    BY <1>1, <1>2, NoSave DEF Writers
  <2>8. FileInv'
    BY <1>0, <1>1 DEF FileInv
  <2>9. PayInv'
    BY <2>2, <1>0, <1>1, <1>2 DEF PayInv, Settled, Rewraps, Installing, During, Writers
  <2>10. SlotInv'
    BY <2>1, <2>2, <2>3, <1>0, <1>1 DEF SlotInv, Chosen, Rekeying, Halfway, Knows, During
  <2>11. DoneInv'
    BY <2>2, <2>3 DEF DoneInv
  <2> QED BY <2>4, <2>5, <2>6, <2>7, <2>8, <2>9, <2>10, <2>11 DEF IInv
<1>5. \/ job' = [job EXCEPT !.pc = "done", !.res = "wrong"]
      \/ job.pw = AccountPw /\ job.old = Free /\ job' = [job EXCEPT !.pc = "take"]
      \/ job.pw = AccountPw /\ job.old # Free /\ job' = [job EXCEPT !.pc = "zero"]
  BY DEF InstallChecks, Result, GoTo
<1> QED BY <1>3, <1>4, <1>5

LEMMA InstallZeroesStep == IInv /\ InstallZeroes => IInv'
<1> SUFFICES ASSUME IInv, InstallZeroes PROVE IInv'
  OBVIOUS
<1>0. TypeOK /\ ControlInv /\ LiveInv /\ WriterInv /\ FileInv /\ PayInv /\ SlotInv /\ DoneInv
  BY DEF IInv
<1>1. /\ job.kind = "install" /\ job.pc = "zero" /\ ui.step = "busy" /\ job.old = ui.vault
      /\ job.old \in Handles
      /\ UNCHANGED <<data, synced, path, tmp, disk, lock, wr, ui, knows, acked, kept, raced, budget>>
  BY <1>0 DEF InstallZeroes, At, files, ControlInv, ScreenInv, During, TypeOK, Screen
<1>2. wr["ui"] = Idle /\ wr["bg"] = Idle /\ Idle.pc = "idle"
  BY <1>0, <1>1, Quiet DEF InSave
<1>3. PICK v \in Object : v = handle[job.old]
  BY <1>0, <1>1, Numbers DEF LiveInv, TypeOK
<1>4. PICK u \in Object : u = [v EXCEPT !.key = IF @ = None THEN None ELSE "zero"]
  BY <1>3 DEF Object
<1>5. handle' = [handle EXCEPT ![job.old] = u] /\ job' = [job EXCEPT !.pc = "close"]
  BY <1>0, <1>1, <1>3, <1>4 DEF InstallZeroes, GoTo, TypeOK
<1>6. /\ job'.pc = "close" /\ job'.h = job.h /\ job'.kind = "install" /\ job'.pw = job.pw
      /\ job'.old = job.old
  BY <1>0, <1>1, <1>5 DEF TypeOK, Job
<1>7. /\ u.pw = v.pw /\ u.rec = v.rec /\ u.dek = v.dek /\ u.pay = v.pay
      /\ u.key # None => v.key # None
  BY <1>4 DEF Object
<1>8. "close" \notin InSave
  BY DEF InSave
<1>9. TypeOK'
  BY <1>0, <1>1, <1>4, <1>5 DEF TypeOK, Job
<1>10. ControlInv'
  BY <1>0, <1>1, <1>2, <1>5, <1>6, <1>8, Numbers DEF ControlInv, ScreenInv, During, Points
<1>11. LiveInv'
  BY <1>0, <1>1, <1>3, <1>5, <1>6, <1>7, <1>8, Numbers DEF LiveInv, During, TypeOK
<1>12. WriterInv'
  BY <1>1, <1>2, NoSave DEF Writers
<1>13. FileInv'
  BY <1>0, <1>1 DEF FileInv
<1>14. PayInv'
  BY <1>0, <1>1, <1>2, <1>3, <1>5, <1>6, <1>7
     DEF PayInv, Settled, Rewraps, Installing, During, Writers, TypeOK
<1>15. SlotInv'
  BY <1>0, <1>1, <1>3, <1>5, <1>6, <1>7, <1>8
     DEF SlotInv, Chosen, Rekeying, Halfway, Knows, During, TypeOK
<1>16. DoneInv'
  BY <1>6, <1>8 DEF DoneInv
<1> QED BY <1>9, <1>10, <1>11, <1>12, <1>13, <1>14, <1>15, <1>16 DEF IInv

LEMMA InstallClosesStep == IInv /\ InstallCloses => IInv'
<1> SUFFICES ASSUME IInv, InstallCloses PROVE IInv'
  OBVIOUS
<1>0. TypeOK /\ ControlInv /\ LiveInv /\ WriterInv /\ FileInv /\ PayInv /\ SlotInv /\ DoneInv
  BY DEF IInv
<1>1. /\ job.kind = "install" /\ job.pc = "close" /\ ui.step = "busy" /\ job.old = ui.vault
      /\ job.old \in Handles /\ lock' = (IF lock = job.old THEN Free ELSE lock)
      /\ UNCHANGED <<data, synced, path, tmp, disk, wr, ui, knows, acked, kept, raced, budget>>
  BY <1>0 DEF InstallCloses, At, files, ControlInv, ScreenInv, During, TypeOK, Screen
<1>2. wr["ui"] = Idle /\ wr["bg"] = Idle /\ Idle.pc = "idle"
  BY <1>0, <1>1, Quiet DEF InSave
<1>3. PICK v \in Object : v = handle[job.old]
  BY <1>0, <1>1, Numbers DEF LiveInv, TypeOK
<1>4. PICK u \in Object : u = [v EXCEPT !.key = None]
  BY <1>3 DEF Object
<1>5. handle' = [handle EXCEPT ![job.old] = u] /\ job' = [job EXCEPT !.pc = "take"]
  BY <1>0, <1>1, <1>3, <1>4 DEF InstallCloses, GoTo, TypeOK
<1>6. /\ job'.pc = "take" /\ job'.h = job.h /\ job'.kind = "install" /\ job'.pw = job.pw
      /\ job'.old = job.old
  BY <1>0, <1>1, <1>5 DEF TypeOK, Job
<1>7. /\ u.pw = v.pw /\ u.rec = v.rec /\ u.dek = v.dek /\ u.pay = v.pay /\ u.key = None
  BY <1>4 DEF Object
<1>8. "take" \notin InSave
  BY DEF InSave
<1>9. TypeOK'
  BY <1>0, <1>1, <1>4, <1>5 DEF TypeOK, Job
<1>10. ControlInv'
  BY <1>0, <1>1, <1>2, <1>5, <1>6, <1>8, Numbers DEF ControlInv, ScreenInv, During, Points
<1>11. LiveInv'
  BY <1>0, <1>1, <1>3, <1>5, <1>6, <1>7, <1>8, Numbers DEF LiveInv, During, TypeOK
<1>12. WriterInv'
  BY <1>1, <1>2, NoSave DEF Writers
<1>13. FileInv'
  BY <1>0, <1>1 DEF FileInv
<1>14. PayInv'
  BY <1>0, <1>1, <1>2, <1>3, <1>5, <1>6, <1>7
     DEF PayInv, Settled, Rewraps, Installing, During, Writers, TypeOK
<1>15. SlotInv'
  BY <1>0, <1>1, <1>3, <1>5, <1>6, <1>7, <1>8
     DEF SlotInv, Chosen, Rekeying, Halfway, Knows, During, TypeOK
<1>16. DoneInv'
  BY <1>6, <1>8 DEF DoneInv
<1> QED BY <1>9, <1>10, <1>11, <1>12, <1>13, <1>14, <1>15, <1>16 DEF IInv

LEMMA InstallTakesLockStep == IInv /\ InstallTakesLock => IInv'
<1> SUFFICES ASSUME IInv, InstallTakesLock PROVE IInv'
  OBVIOUS
<1>0. TypeOK /\ ControlInv /\ LiveInv /\ WriterInv /\ FileInv /\ PayInv /\ SlotInv /\ DoneInv
  BY DEF IInv
<1>1. /\ job.kind = "install" /\ job.pc = "take" /\ ui.step = "busy" /\ job.old = ui.vault
      /\ UNCHANGED <<data, synced, path, tmp, disk, ui, knows, acked, kept, raced, budget>>
  BY <1>0 DEF InstallTakesLock, At, files, ControlInv, ScreenInv
<1>2. wr["ui"] = Idle /\ wr["bg"] = Idle /\ Idle.pc = "idle"
  BY <1>0, <1>1, Quiet DEF InSave
<1>3. CASE lock # Free
  <2>1. /\ job' = [job EXCEPT !.pc = "done", !.res = "locked"] /\ UNCHANGED <<lock, handle, wr>>
    BY <1>3 DEF InstallTakesLock, LockFree, Result
  <2>2. wr' = [wr EXCEPT !["bg"] = Idle]
    BY <2>1, <1>0, <1>2 DEF TypeOK
  <2> QED BY <2>1, <2>2, <1>1, <1>2, Finishes DEF Busy, Halfway, During, Installing
<1>4. CASE lock = Free
  <2>1. PICK h : h = SpareHandle
    OBVIOUS
  <2>2. h \in Handles /\ h # ui.vault
    BY <2>1, <1>0, <1>4, Spare
  <2>3. Blob \in File /\ Blob.pw = AccountPw /\ Blob.sealed /\ IsVault(Blob)
    BY DEF Blob, File, Secret, Dek, Doc, AccountCode, IsVault
  <2>4. PICK o \in Object : o = Unlocked(Blob)
    BY <2>3 DEF Object, Unlocked, File
  <2>5. PICK t \in Sealing : t = [pc |-> "open", h |-> h, out |-> Blob]
    BY <2>2, <2>3 DEF Sealing
  <2>6. /\ lock' = h /\ handle' = [handle EXCEPT ![h] = o] /\ wr' = [wr EXCEPT !["bg"] = t]
        /\ job' = [job EXCEPT !.pc = "write", !.h = h]
    BY <2>1, <2>4, <2>5, <1>4 DEF InstallTakesLock, LockFree
  <2>7. /\ job'.pc = "write" /\ job'.h = h /\ job'.kind = "install" /\ job'.pw = job.pw
        /\ job'.old = job.old
    BY <2>6, <1>0, <1>1 DEF TypeOK, Job
  <2>8. o.pw = Blob.pw /\ o.rec = Blob.rec /\ o.dek = Blob.dek /\ o.key = o.dek
    BY <2>4 DEF Unlocked
  <2>9. wr'["bg"] = t /\ wr'["ui"] = Idle /\ t.pc = "open" /\ t.h = h /\ t.out = Blob
    BY <2>5, <2>6, <1>0, <1>2 DEF TypeOK, Writers
  <2>10. "write" \in InSave
    BY DEF InSave
  <2>11. /\ handle'[h] = o /\ o.key # None
         /\ \A x \in Handles \ {h} : handle'[x] = handle[x] /\ handle[x].key = None
         /\ ui' = ui /\ (job'.pc \in InSave => job'.h = h) => LiveInv'
    BY <2>1, <2>2, <2>6, <2>8, <1>0, <1>4, Grabs
  <2>12. LiveInv'
    BY <2>7, <2>11, <1>1
  <2>13. TypeOK'
    BY <2>2, <2>4, <2>5, <2>6, <1>0, <1>1 DEF TypeOK, Job, InSave
  <2>14. ControlInv'
    BY <2>2, <2>6, <2>7, <2>9, <2>10, <1>0, <1>1, Numbers DEF ControlInv, ScreenInv, During, Points
  <2>15. WriterInv'
    BY <2>2, <2>3, <2>6, <2>8, <2>9, <2>11, <1>2 DEF WriterInv, Writers
  <2>16. FileInv'
    BY <1>0, <1>1 DEF FileInv
  <2>17. PayInv'
    BY <2>6, <2>7, <2>9, <2>11, <1>0, <1>1, <1>2 DEF PayInv, Settled, Rewraps, Installing, During, Writers
  <2>18. SlotInv'
    BY <2>2, <2>3, <2>6, <2>7, <2>8, <2>11, <1>0, <1>1
       DEF SlotInv, Chosen, Rekeying, Halfway, Knows, During, InSave, TypeOK, Screen
  <2>19. DoneInv'
    BY <2>7, <2>9 DEF DoneInv
  <2> QED BY <2>12, <2>13, <2>14, <2>15, <2>16, <2>17, <2>18, <2>19 DEF IInv
<1> QED BY <1>3, <1>4

LEMMA InstallWroteStep == IInv /\ InstallWrote => IInv'
<1> SUFFICES ASSUME IInv, InstallWrote PROVE IInv'
  OBVIOUS
<1>0. TypeOK /\ ControlInv /\ LiveInv /\ WriterInv /\ FileInv /\ PayInv /\ SlotInv /\ DoneInv
  BY DEF IInv
<1>1. /\ job.kind = "install" /\ job.pc = "write" /\ wr["bg"].pc \in {"ok", "failed"}
      /\ ui.step = "busy" /\ job.old = ui.vault /\ wr["bg"].pc \notin Busy
      /\ UNCHANGED <<data, synced, path, tmp, disk, ui, knows, acked, kept, raced, budget>>
  BY <1>0 DEF InstallWrote, At, Returned, files, ControlInv, ScreenInv, Busy
<1>2. Installing /\ ~ Halfway /\ ~ During("install", {"close"})
  BY <1>1 DEF Installing, Halfway, During
<1>3. CASE wr["bg"].pc = "failed"
  <2>1. /\ job' = [job EXCEPT !.pc = "done", !.res = "err"] /\ lock' = Free
        /\ handle' = [handle EXCEPT ![job.h] = NoHandle] /\ wr' = [wr EXCEPT !["bg"] = Idle]
    BY <1>3 DEF InstallWrote, Result, Rest
  <2> QED BY <2>1, <1>1, <1>2, <1>3, Releases
<1>4. CASE /\ wr["bg"].pc = "ok" /\ UNCHANGED <<lock, handle>>
           /\ job' = [job EXCEPT !.pc = "done", !.res = "ok"] /\ wr' = [wr EXCEPT !["bg"] = Idle]
  BY <1>1, <1>2, <1>4, Finishes
<1>5. CASE /\ wr["bg"].pc = "ok" /\ UNCHANGED <<lock, handle>>
           /\ job' = [job EXCEPT !.pc = "merge"] /\ wr' = Begin("bg", job.h, Merged)
  <2>1. Merged \in Doc /\ job.h \in Handles
    BY <1>0, <1>1 DEF Merged, Doc, TypeOK, Job, ControlInv, ScreenInv, InSave
  <2>2. PICK t \in Starting : t = [pc |-> "marshal", h |-> job.h, pay |-> Merged]
    BY <2>1 DEF Starting
  <2>3. wr' = [wr EXCEPT !["bg"] = t]
    BY <2>2, <1>5 DEF Begin
  <2>4. /\ job'.pc = "merge" /\ job'.h = job.h /\ job'.kind = "install" /\ job'.pw = job.pw
        /\ job'.old = job.old
    BY <1>0, <1>1, <1>5 DEF TypeOK, Job
  <2>5. wr'["bg"] = t /\ wr'["ui"] = Idle /\ Idle.pc = "idle" /\ t.pc = "marshal" /\ t.h = job.h
    BY <2>2, <2>3, <1>0, <1>1, Quiet DEF TypeOK, Writers
  <2>6. "merge" \in InSave /\ "write" \in InSave
    BY DEF InSave
  <2>7. TypeOK'
    <3>1. job' \in Job
      BY <2>6, <1>0, <1>5 DEF TypeOK, Job
    <3>2. wr' \in [Writers -> Saves]
      BY <2>2, <2>3, <1>0 DEF TypeOK, Saves
    <3> QED BY <3>1, <3>2, <1>0, <1>1, <1>5 DEF TypeOK, Saves
  <2>8. ControlInv'
    BY <2>4, <2>5, <2>6, <1>0, <1>1 DEF ControlInv, ScreenInv, During, Points
  <2>9. LiveInv'
    BY <2>4, <2>6, <1>0, <1>1, <1>5 DEF LiveInv, During
  <2>10. WriterInv'
    BY <2>5, NoSave DEF Writers
  <2>11. FileInv'
    BY <1>0, <1>1 DEF FileInv
  <2>12. PayInv'
    BY <2>4, <2>5, <1>0, <1>1, <1>5, Quiet DEF PayInv, Settled, Rewraps, Installing, During, Writers
  <2>13. SlotInv'
    BY <2>4, <2>6, <1>0, <1>1, <1>5 DEF SlotInv, Chosen, Rekeying, Halfway, Knows, During
  <2>14. DoneInv'
    BY <2>4, <2>5 DEF DoneInv
  <2> QED BY <2>7, <2>8, <2>9, <2>10, <2>11, <2>12, <2>13, <2>14 DEF IInv
<1> QED BY <1>1, <1>3, <1>4, <1>5 DEF InstallWrote, Result, GoTo, Rest

LEMMA InstallMergedStep == IInv /\ InstallMerged => IInv'
<1> SUFFICES ASSUME IInv, InstallMerged PROVE IInv'
  OBVIOUS
<1>1. /\ job.kind = "install" /\ job.pc = "merge" /\ wr["bg"].pc \in {"ok", "failed"}
      /\ wr["bg"].pc \notin Busy /\ wr' = [wr EXCEPT !["bg"] = Idle]
      /\ UNCHANGED <<data, synced, path, tmp, disk, lock, handle, ui, knows, acked, kept, raced, budget>>
  BY DEF InstallMerged, At, Returned, Rest, files, Busy
<1>2. PICK r \in {"ok", "err"} : /\ job' = [job EXCEPT !.pc = "done", !.res = r]
                                 /\ r = "ok" => wr["bg"].pc = "ok"
  BY DEF InstallMerged, Result
<1> QED BY <1>1, <1>2, Finishes DEF Halfway, During, Installing

LEMMA GoroutineStep == IInv /\ Goroutine => IInv'
BY CreateBeginsStep, CreateEndsStep, OpenVaultStep, RekeyVerifiesStep, RekeySaltStep,
   RekeyWrapStep, RekeySavedStep, ResetBeginsStep, RegeneratesStep, ResetEndsStep,
   InstallChecksStep, InstallZeroesStep, InstallClosesStep, InstallTakesLockStep,
   InstallWroteStep, InstallMergedStep DEF Goroutine

---------------------------------------------------------------------------
(* The steps of the event loop *)

Budget == [codes : 0..MaxCodes, edits : 0..MaxEdits, faults : 0..MaxFaults,
           crashes : 0..MaxCrashes, races : 0..MaxRaces, others : 0..MaxOthers]

LEMMA NoJobIs ==
  /\ NoJob \in Job /\ NoJob.kind = "none" /\ NoJob.pc = "done" /\ NoJob.res = None
  /\ NoJob.res # "ok" /\ NoJob.pc \notin InSave
BY DEF NoJob, Job, Kinds, InSave, Secret, Doc, None, NoCode

\* Nobody writes while a result waits and the event loop is not in a save.
LEMMA Still ==
  ASSUME TypeOK, ControlInv, UiFree, job.pc = "done"
  PROVE  /\ wr["ui"] = Idle /\ wr["bg"] = Idle /\ Idle.pc = "idle"
         /\ \A x \in Writers : wr[x] = Idle
<1>1. wr["ui"] \in Saves /\ wr["bg"] \in Saves
  BY DEF TypeOK, Saves, Writers
<1>2. wr["ui"].pc = "idle" /\ wr["bg"].pc = "idle"
  BY DEF UiFree, ControlInv, ScreenInv, InSave
<1> QED BY <1>1, <1>2, Shapes DEF Idle, Writers

\* A command starts from a step that waits for none.
LEMMA Starts ==
  ASSUME IInv, UiFree, job = NoJob, NEW j \in Job, j.pc = "begin", j.kind # "none", job' = j,
         ui' = [ui EXCEPT !.step = IF j.kind = "rekey" THEN "rekeying" ELSE "busy"],
         j.kind \in {"rekey", "reset"} => j.h = ui.vault /\ ui.vault # Free,
         j.kind \in {"create", "open", "recover"} => ui.vault = Free,
         j.kind = "install" => j.old = ui.vault /\ ui.step = "password",
         ui.step = "reset" => j.kind = "reset",
         j.kind \in {"create", "reset"} \/ (j.kind = "install" /\ j.pw = AccountPw) =>
           j.pw \in knows'.pws,
         knows' \in [pws : SUBSET Secret, codes : SUBSET Nat],
         knows.pws \subseteq knows'.pws, knows.codes \subseteq knows'.codes, budget' \in Budget,
         UNCHANGED <<data, synced, path, tmp, disk, lock, handle, wr, acked, kept, raced>>
  PROVE  IInv'
<1>0. TypeOK /\ ControlInv /\ LiveInv /\ WriterInv /\ FileInv /\ PayInv /\ SlotInv /\ DoneInv
  BY DEF IInv
<1>1. job.kind = "none" /\ job.pc = "done" /\ "begin" \notin InSave
  BY NoJobIs DEF InSave
<1>2. wr["ui"] = Idle /\ wr["bg"] = Idle /\ Idle.pc = "idle"
  BY <1>0, <1>1, Still
<1>3. /\ ui'.step = (IF j.kind = "rekey" THEN "rekeying" ELSE "busy") /\ ui'.vault = ui.vault
      /\ ui'.boot = ui.boot
  BY <1>0 DEF TypeOK, Screen
<1>4. TypeOK'
  <2>1. ui' \in Screen
    BY <1>0 DEF TypeOK, Screen, Steps
  <2> QED BY <2>1, <1>0 DEF TypeOK, Budget
<1>5. ControlInv'
  <2>1. j.pc \in Points(j.kind)
    BY DEF Points, Job, Kinds
  <2> QED BY <2>1, <1>0, <1>1, <1>2, <1>3 DEF ControlInv, ScreenInv, During
<1>6. LiveInv'
  BY <1>0, <1>1, <1>3 DEF LiveInv, During
<1>7. WriterInv'
  BY <1>2, NoSave DEF Writers
<1>8. FileInv'
  BY <1>0 DEF FileInv, Opens
<1>9. PayInv'
  BY <1>0, <1>1, <1>2 DEF PayInv, Settled, Rewraps, Installing, During, Writers
<1>10. SlotInv'
  <2>1. \A h : Knows(h) => Knows(h)'
    BY DEF Knows
  <2> QED BY <2>1, <1>0, <1>1, <1>3 DEF SlotInv, Chosen, Rekeying, Halfway, During, NoJob
<1>11. DoneInv'
  BY <1>1 DEF DoneInv
<1> QED BY <1>4, <1>5, <1>6, <1>7, <1>8, <1>9, <1>10, <1>11 DEF IInv

\* The event loop takes a result, or moves between the screens without one.
LEMMA Settles ==
  ASSUME IInv, UiFree, job.pc = "done", job' = NoJob, NEW s \in Screen, ui' = s,
         s.step \notin {"busy", "rekeying"},
         s.step \in {"choose", "create", "unlock", "locked"} => s.vault = Free,
         s.step \in {"main", "showcode", "reset", "locking"} \/ s.boot = "adopt" => s.vault # Free,
         s.step = "password" => s.boot = "adopt" \/ s.vault = Free,
         handle' \in [Handles -> Object \cup {NoHandle}],
         \A h \in Handles : handle'[h].key # None => handle'[h] = handle[h],
         \A h \in Handles : handle'[h] # NoHandle => h = s.vault \/ h = lock,
         s.vault # Free => handle'[s.vault] # NoHandle,
         knows' \in [pws : SUBSET Secret, codes : SUBSET Nat],
         path # NoInode => Opens(data[path], knows'),
         \A h \in Handles : handle'[h].key # None => Knows(h)',
         s.vault # Free /\ s.step # "reset" /\ handle'[s.vault].key # None =>
           path # NoInode /\ data[path].rec = handle'[s.vault].rec,
         UNCHANGED <<data, synced, path, tmp, disk, lock, wr, acked, kept, raced, budget>>
  PROVE  IInv'
<1>0. TypeOK /\ ControlInv /\ LiveInv /\ WriterInv /\ FileInv /\ PayInv /\ SlotInv /\ DoneInv
  BY DEF IInv
<1>1. wr["ui"] = Idle /\ wr["bg"] = Idle /\ Idle.pc = "idle"
  BY <1>0, Still
<1>2. TypeOK'
  BY <1>0, NoJobIs DEF TypeOK
<1>3. ControlInv'
  <2>1. s.step # "rekeying" /\ s.step # "busy"
    OBVIOUS
  <2> QED BY <2>1, <1>0, <1>1, NoJobIs DEF ControlInv, ScreenInv, During
<1>4. LiveInv'
  BY <1>0, NoJobIs DEF LiveInv, During
<1>5. WriterInv'
  BY <1>1, NoSave DEF Writers
<1>6. FileInv'
  BY <1>0 DEF FileInv
<1>7. PayInv'
  BY <1>0, <1>1, NoJobIs DEF PayInv, Settled, Rewraps, Installing, During, Writers
<1>8. SlotInv'
  BY NoJobIs DEF SlotInv, Chosen, Rekeying, Halfway, During
<1>9. DoneInv'
  BY NoJobIs DEF DoneInv
<1> QED BY <1>2, <1>3, <1>4, <1>5, <1>6, <1>7, <1>8, <1>9 DEF IInv

LEMMA Learning ==
  ASSUME TypeOK, NEW p \in Secret, Learns(p)
  PROVE  /\ knows' \in [pws : SUBSET Secret, codes : SUBSET Nat] /\ p \in knows'.pws
         /\ knows.pws \subseteq knows'.pws /\ knows.codes \subseteq knows'.codes
BY DEF TypeOK, Learns

LEMMA CodeIs ==
  ASSUME TypeOK, Spend("codes")
  PROVE  NextCode \in Nat /\ budget' \in Budget
<1>1. PICK n \in 0..MaxCodes : n = budget.codes /\ n > 0
  BY DEF TypeOK, Spend
<1>2. NextCode \in Nat
  BY <1>1, VaultAssumption DEF NextCode, AccountCode
<1>3. budget' = [budget EXCEPT !.codes = n - 1]
  BY <1>1 DEF Spend, TypeOK
<1>4. n - 1 \in 0..MaxCodes
  BY <1>1, VaultAssumption
<1> QED BY <1>2, <1>3, <1>4 DEF TypeOK, Budget

LEMMA Commanded ==
  ASSUME NEW step, NEW j, Command(step, j)
  PROVE  /\ UiFree /\ job = NoJob /\ job' = j /\ ui' = [ui EXCEPT !.step = step]
         /\ UNCHANGED <<data, synced, path, tmp, disk, lock, handle, wr, acked, kept, raced>>
BY DEF Command, files

LEMMA CreateEnterStep == ASSUME IInv, NEW pw \in Passwords, CreateEnter(pw) PROVE IInv'
<1>0. TypeOK /\ ControlInv /\ pw \in Secret /\ ui.step \in {"choose", "create"}
  BY DEF IInv, Secret, CreateEnter
<1>1. /\ knows' \in [pws : SUBSET Secret, codes : SUBSET Nat] /\ pw \in knows'.pws
      /\ knows.pws \subseteq knows'.pws /\ knows.codes \subseteq knows'.codes
  BY <1>0, Learning DEF CreateEnter
<1>2. NextCode \in Nat /\ budget' \in Budget
  BY <1>0, CodeIs DEF CreateEnter
<1>3. PICK j \in Job : j = [NoJob EXCEPT !.kind = "create", !.pc = "begin", !.pw = pw, !.code = NextCode]
  <2>2. [NoJob EXCEPT !.kind = "create", !.pc = "begin", !.pw = pw, !.code = NextCode] \in Job
    BY <1>0, <1>2, NoJobIs DEF Job, Kinds
  <2> QED BY <2>2
<1>4. j.kind = "create" /\ j.pc = "begin" /\ j.pw = pw
  BY <1>3 DEF NoJob
<1>5. Command("busy", j)
  BY <1>3 DEF CreateEnter
<1>6. ui.vault = Free
  BY <1>0 DEF ControlInv, ScreenInv
<1> QED BY <1>0, <1>1, <1>2, <1>4, <1>5, <1>6, Commanded, Starts

LEMMA UnlockEnterStep ==
  ASSUME IInv, NEW pw \in Passwords \cup {AccountPw}, UnlockEnter(pw) PROVE IInv'
<1>0. TypeOK /\ ControlInv /\ pw \in Secret /\ ui.step = "unlock" /\ UNCHANGED <<knows, budget>>
  BY DEF IInv, Secret, UnlockEnter
<1>1. PICK j \in Job : j = [NoJob EXCEPT !.kind = "open", !.pc = "begin", !.pw = pw]
  BY <1>0, NoJobIs DEF Job, Kinds
<1>2. j.kind = "open" /\ j.pc = "begin"
  BY <1>1 DEF NoJob
<1>3. Command("busy", j)
  BY <1>1 DEF UnlockEnter
<1>4. ui.vault = Free
  BY <1>0 DEF ControlInv, ScreenInv
<1>5. knows' \in [pws : SUBSET Secret, codes : SUBSET Nat] /\ budget' \in Budget
  BY <1>0 DEF TypeOK, Budget
<1> QED BY <1>0, <1>2, <1>3, <1>4, <1>5, Commanded, Starts

LEMMA RecoverEnterStep == ASSUME IInv, NEW code \in knows.codes, RecoverEnter(code) PROVE IInv'
<1>0. TypeOK /\ ControlInv /\ ui.step = "unlock" /\ UNCHANGED <<knows, budget>>
  BY DEF IInv, RecoverEnter
<1>1. PICK j \in Job : j = [NoJob EXCEPT !.kind = "recover", !.pc = "begin", !.code = code]
  <2>1. code \in Nat
    BY <1>0 DEF TypeOK
  <2> QED BY <2>1, NoJobIs DEF Job, Kinds
<1>2. j.kind = "recover" /\ j.pc = "begin"
  BY <1>1 DEF NoJob
<1>3. Command("busy", j)
  BY <1>1 DEF RecoverEnter
<1>4. ui.vault = Free
  BY <1>0 DEF ControlInv, ScreenInv
<1>5. knows' \in [pws : SUBSET Secret, codes : SUBSET Nat] /\ budget' \in Budget
  BY <1>0 DEF TypeOK, Budget
<1> QED BY <1>0, <1>2, <1>3, <1>4, <1>5, Commanded, Starts

LEMMA ResetEnterStep == ASSUME IInv, NEW pw \in Passwords, ResetEnter(pw) PROVE IInv'
<1>0. TypeOK /\ ControlInv /\ pw \in Secret /\ ui.step = "reset"
  BY DEF IInv, Secret, ResetEnter
<1>1. /\ knows' \in [pws : SUBSET Secret, codes : SUBSET Nat] /\ pw \in knows'.pws
      /\ knows.pws \subseteq knows'.pws /\ knows.codes \subseteq knows'.codes
  BY <1>0, Learning DEF ResetEnter
<1>2. NextCode \in Nat /\ budget' \in Budget
  BY <1>0, CodeIs DEF ResetEnter
<1>3. PICK j \in Job : j = [NoJob EXCEPT !.kind = "reset", !.pc = "begin", !.pw = pw,
                                        !.code = NextCode, !.h = ui.vault]
  <2>1. ui.vault \in Handles \cup {Free}
    BY <1>0 DEF TypeOK, Screen
  <2>2. [NoJob EXCEPT !.kind = "reset", !.pc = "begin", !.pw = pw,
           !.code = NextCode, !.h = ui.vault] \in Job
    BY <2>1, <1>0, <1>2, NoJobIs DEF Job, Kinds
  <2> QED BY <2>2
<1>4. j.kind = "reset" /\ j.pc = "begin" /\ j.pw = pw /\ j.h = ui.vault
  BY <1>3 DEF NoJob
<1>5. Command("busy", j)
  BY <1>3 DEF ResetEnter
<1>6. ui.vault # Free
  BY <1>0 DEF ControlInv, ScreenInv
<1> QED BY <1>0, <1>1, <1>2, <1>4, <1>5, <1>6, Commanded, Starts

LEMMA RekeyEnterStep ==
  ASSUME IInv, NEW cur \in Passwords \cup {AccountPw}, NEW new \in Passwords, RekeyEnter(cur, new)
  PROVE  IInv'
<1>0. /\ TypeOK /\ ControlInv /\ cur \in Secret /\ new \in Secret /\ ui.step = "main"
      /\ UNCHANGED <<knows, budget>>
  BY DEF IInv, Secret, RekeyEnter
<1>1. PICK j \in Job : j = [NoJob EXCEPT !.kind = "rekey", !.pc = "begin", !.pw = new,
                                        !.cur = cur, !.h = ui.vault]
  <2>1. ui.vault \in Handles \cup {Free}
    BY <1>0 DEF TypeOK, Screen
  <2>2. [NoJob EXCEPT !.kind = "rekey", !.pc = "begin", !.pw = new,
           !.cur = cur, !.h = ui.vault] \in Job
    BY <2>1, <1>0, NoJobIs DEF Job, Kinds
  <2> QED BY <2>2
<1>2. j.kind = "rekey" /\ j.pc = "begin" /\ j.h = ui.vault
  BY <1>1 DEF NoJob
<1>3. Command("rekeying", j)
  BY <1>1 DEF RekeyEnter
<1>4. ui.vault # Free
  BY <1>0 DEF ControlInv, ScreenInv
<1>5. knows' \in [pws : SUBSET Secret, codes : SUBSET Nat] /\ budget' \in Budget
  BY <1>0 DEF TypeOK, Budget
<1> QED BY <1>0, <1>2, <1>3, <1>4, <1>5, Commanded, Starts

LEMMA InstallEnterStep ==
  ASSUME IInv, NEW pw \in Passwords \cup {AccountPw}, InstallEnter(pw) PROVE IInv'
<1>0. TypeOK /\ ControlInv /\ pw \in Secret /\ ui.step = "password" /\ UNCHANGED budget
  BY DEF IInv, Secret, InstallEnter
<1>1. PICK j \in Job : j = [NoJob EXCEPT !.kind = "install", !.pc = "begin", !.pw = pw,
                                        !.old = ui.vault, !.merge = ui.merge]
  <2>1. ui.vault \in Handles \cup {Free} /\ ui.merge \in Doc
    BY <1>0 DEF TypeOK, Screen
  <2>2. [NoJob EXCEPT !.kind = "install", !.pc = "begin", !.pw = pw,
           !.old = ui.vault, !.merge = ui.merge] \in Job
    BY <2>1, <1>0, NoJobIs DEF Job, Kinds
  <2> QED BY <2>2
<1>2. j.kind = "install" /\ j.pc = "begin" /\ j.pw = pw /\ j.old = ui.vault
  BY <1>1 DEF NoJob
<1>3. Command("busy", j)
  BY <1>1 DEF InstallEnter
<1>4. /\ knows' \in [pws : SUBSET Secret, codes : SUBSET Nat]
      /\ knows.pws \subseteq knows'.pws /\ knows.codes \subseteq knows'.codes
      /\ pw = AccountPw => pw \in knows'.pws
  BY <1>0 DEF InstallEnter, TypeOK, AccountCode
<1>5. budget' \in Budget
  BY <1>0 DEF TypeOK, Budget
<1> QED BY <1>0, <1>2, <1>3, <1>4, <1>5, Commanded, Starts

\* The screen keeps the vault it has.
LEMMA Moves ==
  ASSUME IInv, UiFree, job.pc = "done", job' = NoJob, NEW s \in Screen, ui' = s,
         s.vault = ui.vault, s.step = "reset" \/ (ui.step # "reset" /\ job.kind # "reset"),
         s.step \notin {"busy", "rekeying"},
         s.step \in {"choose", "create", "unlock", "locked"} => s.vault = Free,
         s.step \in {"main", "showcode", "reset", "locking"} \/ s.boot = "adopt" => s.vault # Free,
         s.step = "password" => s.boot = "adopt" \/ s.vault = Free,
         UNCHANGED <<data, synced, path, tmp, disk, lock, handle, wr, knows, acked, kept, raced, budget>>
  PROVE  IInv'
<1>0. TypeOK /\ ControlInv /\ LiveInv /\ FileInv /\ SlotInv
  BY DEF IInv
<1>1. \A h \in Handles : handle'[h].key # None => Knows(h)'
  <2>1. ~ Halfway
    BY DEF Halfway, During
  <2> QED BY <2>1, <1>0 DEF SlotInv, Knows
<1>2. /\ handle' \in [Handles -> Object \cup {NoHandle}]
      /\ \A h \in Handles : handle'[h].key # None => handle'[h] = handle[h]
      /\ \A h \in Handles : handle'[h] # NoHandle => h = s.vault \/ h = lock
      /\ s.vault # Free => handle'[s.vault] # NoHandle
      /\ knows' \in [pws : SUBSET Secret, codes : SUBSET Nat]
      /\ path # NoInode => Opens(data[path], knows')
      /\ s.vault # Free /\ s.step # "reset" /\ handle'[s.vault].key # None =>
           path # NoInode /\ data[path].rec = handle'[s.vault].rec
  BY <1>0 DEF TypeOK, LiveInv, FileInv, SlotInv
<1> QED BY <1>1, <1>2, Settles

LEMMA StillUi ==
  ASSUME IInv, ui.step \notin {"busy", "rekeying"}
  PROVE  job = NoJob /\ job.pc = "done" /\ job.kind # "reset" /\ TypeOK /\ ControlInv
<1>1. job = NoJob /\ TypeOK /\ ControlInv
  BY DEF IInv, ControlInv, ScreenInv
<1> QED BY <1>1, NoJobIs

LEMMA SignInStep == IInv /\ SignIn => IInv'
<1> SUFFICES ASSUME IInv, SignIn PROVE IInv'
  OBVIOUS
<1>0. ui.step \in {"choose", "main"} /\ ui.step # "reset"
  BY DEF SignIn
<1>1. job = NoJob /\ job.pc = "done" /\ job.kind # "reset" /\ TypeOK /\ ControlInv /\ ui \in Screen
  BY <1>0, StillUi DEF TypeOK
<1>2. /\ UNCHANGED <<data, synced, path, tmp, disk, lock, handle, wr, knows, acked, kept, raced, budget>>
      /\ UiFree /\ job' = NoJob
  BY <1>1 DEF SignIn, files
<1>3. CASE ui.step = "choose"
  <2>1. ui' = [ui EXCEPT !.step = "password", !.boot = "gate"]
    BY <1>3 DEF SignIn
  <2>2. PICK s \in Screen : /\ ui' = s /\ s.step = "password" /\ s.vault = ui.vault
                            /\ s.boot = "gate"
    <3>1. ui' \in Screen
      BY <2>1, <1>1 DEF Screen, Steps
    <3>2. ui'.step = "password" /\ ui'.vault = ui.vault /\ ui'.boot = "gate"
      BY <2>1, <1>1 DEF Screen
    <3> QED BY <3>1, <3>2
  <2>3. s.vault = Free
    BY <2>2, <1>1, <1>3 DEF ControlInv, ScreenInv
  <2> QED BY <2>2, <2>3, <1>0, <1>1, <1>2, Moves
<1>4. CASE ui.step = "main"
  <2>1. PICK v : v = handle[ui.vault].pay
    OBVIOUS
  <2>2. ui.vault \in Handles /\ ui.vault # Free
    BY <1>1, <1>4 DEF ControlInv, ScreenInv, Screen
  <2>3. v \in Doc
    BY <2>1, <2>2, <1>1 DEF TypeOK, Object, NoHandle, Doc
  <2>4. ui' = [ui EXCEPT !.step = "password", !.boot = "adopt", !.merge = v]
    BY <2>1, <1>4 DEF SignIn
  <2>5. PICK s \in Screen : /\ ui' = s /\ s.step = "password" /\ s.vault = ui.vault
                            /\ s.boot = "adopt"
    <3>1. ui' \in Screen
      BY <2>3, <2>4, <1>1 DEF Screen, Steps
    <3>2. ui'.step = "password" /\ ui'.vault = ui.vault /\ ui'.boot = "adopt"
      BY <2>4, <1>1 DEF Screen
    <3> QED BY <3>1, <3>2
  <2> QED BY <2>2, <2>5, <1>0, <1>1, <1>2, Moves
<1> QED BY <1>0, <1>3, <1>4

LEMMA CancelSignInStep == IInv /\ CancelSignIn => IInv'
<1> SUFFICES ASSUME IInv, CancelSignIn PROVE IInv'
  OBVIOUS
<1>0. ui.step = "password"
  BY DEF CancelSignIn
<1>1. job = NoJob /\ job.pc = "done" /\ job.kind # "reset" /\ TypeOK /\ ControlInv /\ ui \in Screen
  BY <1>0, StillUi DEF TypeOK
<1>2. /\ UNCHANGED <<data, synced, path, tmp, disk, lock, handle, wr, knows, acked, kept, raced, budget>>
      /\ UiFree /\ job' = NoJob
  BY <1>1 DEF CancelSignIn, files
<1>3. PICK p \in Steps : p = (IF ui.boot = "adopt" THEN "main" ELSE "choose")
  BY DEF Steps
<1>4. ui' = [ui EXCEPT !.step = p, !.boot = None, !.merge = {}]
  BY <1>3 DEF CancelSignIn
<1>5. PICK s \in Screen : ui' = s /\ s.step = p /\ s.vault = ui.vault /\ s.boot = None
  <2>1. ui' \in Screen
    BY <1>1, <1>4 DEF Screen, Doc
  <2>2. ui'.step = p /\ ui'.vault = ui.vault /\ ui'.boot = None
    BY <1>1, <1>4 DEF Screen
  <2> QED BY <2>1, <2>2
<1>6. /\ s.step \notin {"busy", "rekeying", "password", "reset"} /\ s.boot # "adopt"
      /\ s.step \in {"choose", "create", "unlock", "locked"} => s.vault = Free
      /\ s.step \in {"main", "showcode", "reset", "locking"} => s.vault # Free
  BY <1>0, <1>1, <1>3, <1>5 DEF ControlInv, ScreenInv, None
<1> QED BY <1>0, <1>1, <1>2, <1>5, <1>6, Moves

LEMMA DismissStep == IInv /\ Dismiss => IInv'
<1> SUFFICES ASSUME IInv, Dismiss PROVE IInv'
  OBVIOUS
<1>0. ui.step \in {"showcode", "locked"}
  BY DEF Dismiss
<1>1. job = NoJob /\ job.pc = "done" /\ job.kind # "reset" /\ TypeOK /\ ControlInv /\ ui \in Screen
  BY <1>0, StillUi DEF TypeOK
<1>2. /\ UNCHANGED <<data, synced, path, tmp, disk, lock, handle, wr, knows, acked, kept, raced, budget>>
      /\ UiFree /\ job' = NoJob
  BY <1>1 DEF Dismiss, files
<1>3. PICK s \in Screen : /\ ui' = s /\ s.vault = ui.vault /\ s.boot = ui.boot
                          /\ s.step = IF ui.step = "showcode" THEN "main" ELSE "unlock"
  BY <1>1 DEF Dismiss, Screen, Steps
<1> QED BY <1>0, <1>1, <1>2, <1>3, Moves DEF ControlInv, ScreenInv

\* The result is there, and the step only changes.
LEMMA Entered ==
  ASSUME IInv, NEW kind, Handling(kind), kind # "none", NEW p \in Steps, Enter(p),
         p \notin {"busy", "rekeying"}, p = "reset" \/ kind # "reset",
         p \in {"choose", "create", "unlock", "locked"} => ui.vault = Free,
         p \in {"main", "showcode", "reset", "locking"} => ui.vault # Free,
         p = "password" => kind = "install",
         UNCHANGED <<data, synced, path, tmp, disk, lock, handle, wr, knows, acked, kept, raced, budget>>
  PROVE  IInv'
<1>0. TypeOK /\ ControlInv /\ ui \in Screen
  BY DEF IInv, TypeOK
<1>1. UiFree /\ job.kind = kind /\ job.pc = "done" /\ job' = NoJob
  BY DEF Handling
<1>2. ui' = [ui EXCEPT !.step = p]
  BY DEF Enter
<1>3. PICK s \in Screen : ui' = s /\ s.step = p /\ s.vault = ui.vault /\ s.boot = ui.boot
  <2>1. ui' \in Screen
    BY <1>0, <1>2 DEF Screen
  <2>2. ui'.step = p /\ ui'.vault = ui.vault /\ ui'.boot = ui.boot
    BY <1>0, <1>2 DEF Screen
  <2> QED BY <2>1, <2>2
<1>4. /\ ui.step \in {"busy", "rekeying"} /\ (s.boot = "adopt" => s.vault # Free)
      /\ s.step = "password" => s.boot = "adopt" \/ s.vault = Free
  BY <1>0, <1>1, <1>3 DEF ControlInv, ScreenInv
<1> QED BY <1>1, <1>3, <1>4, Moves

LEMMA Known ==
  ASSUME NEW p, NEW c, Only(p, c), p \in Secret, c \in Nat
  PROVE  /\ knows' \in [pws : SUBSET Secret, codes : SUBSET Nat] /\ p \in knows'.pws
BY DEF Only

\* The result is there, and the screen takes the vault it brought.
Takes(p) == ui' \in Screen /\ ui'.step = p /\ ui'.vault = job.h /\ ui'.boot = None

LEMMA Taken ==
  ASSUME NEW p \in Steps, NEW d \in Doc, job.h \in Handles,
         ui' = [Gate(p) EXCEPT !.vault = job.h, !.doc = d]
  PROVE  Takes(p)
<1>1. Gate(p) \in Screen /\ Gate(p).step = p /\ Gate(p).boot = None
  BY DEF Gate, Screen, Steps, Doc, None
<1>2. ui' \in Screen
  BY <1>1 DEF Screen
<1>3. ui'.step = p /\ ui'.vault = job.h /\ ui'.boot = None
  BY <1>1 DEF Screen
<1> QED BY <1>2, <1>3 DEF Takes

LEMMA Adopted ==
  ASSUME IInv, NEW kind, Handling(kind), kind # "none", kind # "rekey", job.res = "ok",
         NEW p \in {"main", "showcode", "reset"}, Takes(p),
         knows' = knows \/ (/\ kind \in {"create", "reset", "install"} /\ job.pw \in knows'.pws
                            /\ knows' \in [pws : SUBSET Secret, codes : SUBSET Nat]),
         IF kind = "install" /\ job.old # Free
           THEN handle' = [handle EXCEPT ![job.old] = NoHandle] ELSE handle' = handle,
         UNCHANGED <<data, synced, path, tmp, disk, lock, wr, acked, kept, raced, budget>>
  PROVE  IInv'
<1>0. TypeOK /\ ControlInv /\ LiveInv /\ FileInv /\ SlotInv /\ DoneInv
  BY DEF IInv
<1>1. UiFree /\ job.kind = kind /\ job.pc = "done" /\ job' = NoJob
  BY DEF Handling
<1>2. PICK h \in Handles : h = job.h /\ h # Free
  BY <1>0, <1>1 DEF DoneInv, TypeOK, Job
<1>3. /\ path # NoInode /\ lock = h /\ handle[h].key # None
      /\ data[path].pw = handle[h].pw /\ data[path].rec = handle[h].rec
  BY <1>0, <1>1, <1>2 DEF DoneInv, Written
<1>4. handle'[h] = handle[h] /\ handle[h] # NoHandle
  BY <1>0, <1>1, <1>2, <1>3, Numbers DEF DoneInv, TypeOK
<1>5. \A x \in Handles : handle'[x] = handle[x] \/ handle'[x] = NoHandle
  BY <1>0 DEF TypeOK
<1>6. handle' \in [Handles -> Object \cup {NoHandle}]
  BY <1>0 DEF TypeOK
<1>7. \A x \in Handles : handle'[x].key # None => x = h /\ handle'[x] = handle[x]
  BY <1>0, <1>3, <1>5, Numbers DEF LiveInv
<1>8. \A x \in Handles : handle'[x] # NoHandle => x = h
  <2>1. kind \in {"create", "open", "recover"} => ui.vault = Free
    BY <1>0, <1>1 DEF ControlInv, ScreenInv
  <2>2. kind = "reset" => ui.vault = h
    BY <1>0, <1>1, <1>2 DEF ControlInv, ScreenInv
  <2>3. kind = "install" => job.old = ui.vault
    BY <1>0, <1>1 DEF ControlInv, ScreenInv
  <2>4. kind \in {"create", "open", "recover", "reset", "install"}
    BY <1>0, <1>1 DEF TypeOK, Job, Kinds
  <2>5. \A x \in Handles : handle'[x] # NoHandle => handle[x] # NoHandle /\ (x = ui.vault \/ x = h)
    BY <1>0, <1>3, <1>5 DEF LiveInv
  <2>6. kind = "install" /\ job.old # Free => handle'[job.old] = NoHandle
    BY <2>3, <1>0 DEF TypeOK, Screen
  <2> QED BY <2>1, <2>2, <2>3, <2>4, <2>5, <2>6, Numbers
<1>9. Knows(h)' /\ Opens(data[path], knows')
  <2>1. Knows(h) /\ Opens(data[path], knows)
    <3>1. ~ Halfway
      BY <1>1 DEF Halfway, During
    <3> QED BY <3>1, <1>0, <1>3 DEF SlotInv, FileInv
  <2>2. CASE knows' = knows
    BY <2>1, <2>2, <1>4 DEF Knows
  <2>3. CASE kind \in {"create", "reset", "install"} /\ job.pw \in knows'.pws
    <3>1. handle[h].pw = job.pw
      BY <2>3, <1>0, <1>1, <1>2 DEF DoneInv
    <3> QED BY <3>1, <2>1, <2>3, <1>3, <1>4 DEF Knows, Opens
  <2> QED BY <2>2, <2>3
<1>10. PICK s \in Screen : ui' = s /\ s.step = p /\ s.vault = h /\ s.boot = None
  BY <1>2 DEF Takes
<1>11. knows' \in [pws : SUBSET Secret, codes : SUBSET Nat]
  BY <1>0 DEF TypeOK
<1>12. /\ s.step \notin {"busy", "rekeying", "choose", "create", "unlock", "locked", "password"}
       /\ s.boot # "adopt" /\ s.vault # Free
  BY <1>2, <1>10 DEF None
<1>13. \A x \in Handles : handle'[x].key # None => Knows(x)'
  BY <1>7, <1>9
<1>14. s.vault # Free /\ s.step # "reset" /\ handle'[s.vault].key # None =>
         path # NoInode /\ data[path].rec = handle'[s.vault].rec
  BY <1>3, <1>4, <1>10
<1>15. /\ \A x \in Handles : handle'[x].key # None => handle'[x] = handle[x]
       /\ \A x \in Handles : handle'[x] # NoHandle => x = s.vault \/ x = lock
       /\ s.vault # Free => handle'[s.vault] # NoHandle
  BY <1>4, <1>7, <1>8, <1>10
<1> QED BY <1>1, <1>6, <1>9, <1>10, <1>11, <1>12, <1>13, <1>14, <1>15, Settles

LEMMA DocOf ==
  ASSUME IInv, job.pc = "done", job.res = "ok"
  PROVE  /\ job.h \in Handles /\ handle[job.h].pay \in Doc /\ job.pw \in Secret /\ job.code \in Nat
         /\ \A p \in {"main", "showcode"} : Adopt(p) => Takes(p)
<1>1. TypeOK /\ DoneInv
  BY DEF IInv
<1>2. job.h \in Handles /\ job.pw \in Secret /\ job.code \in Nat
  BY <1>1 DEF TypeOK, DoneInv, Job
<1>3. PICK d : d = handle[job.h].pay
  OBVIOUS
<1>4. d \in Doc
  BY <1>1, <1>2, <1>3 DEF TypeOK, Object, NoHandle, Doc
<1>5. ASSUME NEW p \in {"main", "showcode"}, Adopt(p) PROVE Takes(p)
  <2>1. ui' = [Gate(p) EXCEPT !.vault = job.h, !.doc = d]
    BY <1>3, <1>5 DEF Adopt
  <2>2. p \in Steps
    BY DEF Steps
  <2> QED BY <2>1, <2>2, <1>2, <1>4, Taken
<1> QED BY <1>2, <1>3, <1>4, <1>5

LEMMA HandleCreatedStep == IInv /\ HandleCreated => IInv'
<1> SUFFICES ASSUME IInv, HandleCreated PROVE IInv'
  OBVIOUS
<1>0. /\ Handling("create") /\ job.pc = "done" /\ ui.vault = Free
      /\ UNCHANGED <<data, synced, path, tmp, disk, lock, handle, wr, acked, kept, raced, budget>>
  BY DEF HandleCreated, files, Handling, IInv, ControlInv, ScreenInv
<1>1. CASE job.res = "ok"
  <2>1. Only(job.pw, job.code) /\ Takes("showcode")
    BY <1>0, <1>1, DocOf DEF HandleCreated
  <2>2. job.pw \in knows'.pws /\ knows' \in [pws : SUBSET Secret, codes : SUBSET Nat]
    BY <2>1, <1>0, <1>1, DocOf, Known
  <2> QED BY <2>1, <2>2, <1>0, <1>1, Adopted
<1>2. CASE job.res # "ok"
  <2>1. Enter("create") /\ knows' = knows /\ "create" \in Steps
    BY <1>2 DEF HandleCreated, Steps
  <2> QED BY <2>1, <1>0, Entered
<1> QED BY <1>1, <1>2

LEMMA HandleOpenedStep == IInv /\ HandleOpened => IInv'
<1> SUFFICES ASSUME IInv, HandleOpened PROVE IInv'
  OBVIOUS
<1>0. /\ Handling("open") /\ job.pc = "done" /\ ui.vault = Free
      /\ UNCHANGED <<data, synced, path, tmp, disk, lock, handle, wr, knows, acked, kept, raced, budget>>
  BY DEF HandleOpened, files, Handling, IInv, ControlInv, ScreenInv
<1>1. CASE job.res = "ok"
  <2>1. Takes("main")
    BY <1>0, <1>1, DocOf DEF HandleOpened
  <2> QED BY <2>1, <1>0, <1>1, Adopted
<1>2. CASE job.res # "ok"
  <2>1. PICK p \in {"locked", "unlock"} : Enter(p) /\ p \in Steps
    BY <1>2 DEF HandleOpened, Steps
  <2> QED BY <2>1, <1>0, Entered
<1> QED BY <1>1, <1>2

LEMMA HandleRecoveredStep == IInv /\ HandleRecovered => IInv'
<1> SUFFICES ASSUME IInv, HandleRecovered PROVE IInv'
  OBVIOUS
<1>0. /\ Handling("recover") /\ job.pc = "done" /\ ui.vault = Free
      /\ UNCHANGED <<data, synced, path, tmp, disk, lock, handle, wr, knows, acked, kept, raced, budget>>
  BY DEF HandleRecovered, files, Handling, IInv, ControlInv, ScreenInv
<1>1. CASE job.res = "ok"
  <2>1. ui' = [Gate("reset") EXCEPT !.vault = job.h]
    BY <1>1 DEF HandleRecovered
  <2>2. Gate("reset") \in Screen /\ Gate("reset").step = "reset" /\ Gate("reset").boot = None
    BY DEF Gate, Screen, Steps, Doc, None
  <2>3. Takes("reset")
    BY <2>1, <2>2, <1>0, <1>1, DocOf DEF Takes, Screen
  <2> QED BY <2>3, <1>0, <1>1, Adopted
<1>2. CASE job.res # "ok"
  <2>1. PICK p \in {"locked", "unlock"} : Enter(p) /\ p \in Steps
    BY <1>2 DEF HandleRecovered, Steps
  <2> QED BY <2>1, <1>0, Entered
<1> QED BY <1>1, <1>2

LEMMA HandleResetStep == IInv /\ HandleReset => IInv'
<1> SUFFICES ASSUME IInv, HandleReset PROVE IInv'
  OBVIOUS
<1>0. /\ Handling("reset") /\ job.pc = "done" /\ ui.vault # Free
      /\ UNCHANGED <<data, synced, path, tmp, disk, lock, handle, wr, acked, kept, raced, budget>>
  BY DEF HandleReset, files, Handling, IInv, ControlInv, ScreenInv
<1>1. CASE job.res = "ok"
  <2>1. Only(job.pw, job.code) /\ Takes("showcode")
    BY <1>0, <1>1, DocOf DEF HandleReset
  <2>2. job.pw \in knows'.pws /\ knows' \in [pws : SUBSET Secret, codes : SUBSET Nat]
    BY <2>1, <1>0, <1>1, DocOf, Known
  <2> QED BY <2>1, <2>2, <1>0, <1>1, Adopted
<1>2. CASE job.res # "ok"
  <2>1. Enter("reset") /\ knows' = knows /\ "reset" \in Steps
    BY <1>2 DEF HandleReset, Steps
  <2> QED BY <2>1, <1>0, Entered
<1> QED BY <1>1, <1>2

LEMMA HandleRekeyedStep == IInv /\ HandleRekeyed => IInv'
<1> SUFFICES ASSUME IInv, HandleRekeyed PROVE IInv'
  OBVIOUS
<1>0. TypeOK /\ ControlInv /\ LiveInv /\ FileInv /\ SlotInv /\ DoneInv
  BY DEF IInv
<1>1. /\ Handling("rekey") /\ UiFree /\ job.pc = "done" /\ job.kind = "rekey" /\ job' = NoJob
      /\ ui.vault # Free /\ job.h = ui.vault /\ Enter("main")
      /\ UNCHANGED <<data, synced, path, tmp, disk, lock, handle, wr, acked, kept, raced, budget>>
  BY <1>0 DEF HandleRekeyed, files, Handling, ControlInv, ScreenInv
<1>2. CASE job.res = "ok"
  <2>1. PICK h \in Handles : h = job.h
    BY <1>0, <1>1 DEF TypeOK, Screen
  <2>2. /\ path # NoInode /\ lock = h /\ data[path].pw = handle[h].pw
        /\ data[path].rec = handle[h].rec /\ handle[h].pw = job.pw
    BY <2>1, <1>0, <1>1, <1>2 DEF DoneInv, Written
  <2>3. job.pw \in Secret /\ knows' = [knows EXCEPT !.pws = {job.pw}]
    BY <1>0, <1>2 DEF HandleRekeyed, TypeOK, Job
  <2>4. job.pw \in knows'.pws /\ knows' \in [pws : SUBSET Secret, codes : SUBSET Nat]
    BY <2>3, <1>0 DEF TypeOK
  <2>5. Opens(data[path], knows')
    BY <2>2, <2>4, <1>0 DEF FileInv, Opens
  <2>6. \A x \in Handles : handle'[x].key # None => Knows(x)'
    <3> SUFFICES ASSUME NEW x \in Handles, handle'[x].key # None PROVE Knows(x)'
      OBVIOUS
    <3>1. x = h
      BY <2>2, <1>0, <1>1 DEF LiveInv
    <3> QED BY <3>1, <2>2, <2>4, <1>1 DEF Knows
  <2>7. PICK s \in Screen : ui' = s /\ s.step = "main" /\ s.vault = ui.vault /\ s.boot = ui.boot
    <3>1. ui' \in Screen
      BY <1>0, <1>1 DEF Enter, TypeOK, Screen, Steps
    <3>2. ui'.step = "main" /\ ui'.vault = ui.vault /\ ui'.boot = ui.boot
      BY <1>0, <1>1 DEF Enter, TypeOK, Screen
    <3> QED BY <3>1, <3>2
  <2>8. /\ handle' \in [Handles -> Object \cup {NoHandle}]
        /\ \A x \in Handles : handle'[x].key # None => handle'[x] = handle[x]
        /\ \A x \in Handles : handle'[x] # NoHandle => x = s.vault \/ x = lock
        /\ s.vault # Free /\ handle'[s.vault] # NoHandle
        /\ data[path].rec = handle'[s.vault].rec
    BY <2>1, <2>2, <2>7, <1>0, <1>1 DEF TypeOK, LiveInv
  <2> QED BY <2>2, <2>4, <2>5, <2>6, <2>7, <2>8, <1>1, Settles
<1>3. CASE job.res # "ok"
  <2>1. knows' = knows /\ "main" \in Steps
    BY <1>3 DEF HandleRekeyed, Steps
  <2> QED BY <2>1, <1>1, Entered
<1> QED BY <1>2, <1>3

LEMMA HandleInstalledStep == IInv /\ HandleInstalled => IInv'
<1> SUFFICES ASSUME IInv, HandleInstalled PROVE IInv'
  OBVIOUS
<1>0. /\ Handling("install") /\ UiFree /\ job.pc = "done" /\ job.kind = "install" /\ job' = NoJob
      /\ UNCHANGED <<data, synced, path, tmp, disk, lock, wr, acked, kept, raced, budget>>
  BY DEF HandleInstalled, files, Handling
<1>1. CASE job.res = "ok"
  <2>1. /\ Only(AccountPw, AccountCode) /\ Takes("main")
        /\ handle' = IF job.old = Free THEN handle ELSE [handle EXCEPT ![job.old] = NoHandle]
    BY <1>0, <1>1, DocOf DEF HandleInstalled
  <2>2. job.pw = AccountPw
    BY <1>0, <1>1 DEF IInv, DoneInv
  <2>3. job.pw \in knows'.pws /\ knows' \in [pws : SUBSET Secret, codes : SUBSET Nat]
    BY <2>1, <2>2, Known DEF Secret, AccountCode
  <2> QED BY <2>1, <2>3, <1>0, <1>1, Adopted
<1>2. CASE job.res # "ok" /\ job.res # "wrong" /\ ui.vault = Free
  <2>1. ui' = Gate("unlock") /\ UNCHANGED <<knows, handle>>
    BY <1>2 DEF HandleInstalled
  <2>2. PICK s \in Screen : /\ ui' = s /\ s.step = "unlock" /\ s.vault = Free
                            /\ s.boot = None /\ s.boot # "adopt"
    BY <2>1 DEF Gate, Screen, Steps, Doc, None
  <2>3. ui.step # "reset"
    BY <1>0 DEF IInv, ControlInv, ScreenInv
  <2> QED BY <2>1, <2>2, <2>3, <1>0, <1>2, Moves
<1>3. CASE job.res = "wrong" \/ (job.res # "ok" /\ ui.vault # Free)
  <2>1. Enter("password") /\ UNCHANGED <<knows, handle>> /\ "password" \in Steps
    BY <1>3 DEF HandleInstalled, Steps
  <2> QED BY <2>1, <1>0, Entered
<1> QED BY <1>1, <1>2, <1>3

\* The event loop begins a save of the vault the screen has.
LEMMA UiBegins ==
  ASSUME IInv, UiFree, job.pc = "done", NEW s \in Screen, ui' = s, ui.vault # Free,
         s.vault = ui.vault, s.boot = ui.boot,
         s.step = ui.step \/ (ui.step = "main" /\ s.step = "locking"),
         NEW d \in Doc, wr' = Begin("ui", ui.vault, d), budget' \in Budget,
         UNCHANGED <<data, synced, path, tmp, disk, lock, handle, job, knows, acked, kept, raced>>
  PROVE  IInv'
<1>0. TypeOK /\ ControlInv /\ LiveInv /\ WriterInv /\ FileInv /\ PayInv /\ SlotInv /\ DoneInv
  BY DEF IInv
<1>1. wr["bg"] = Idle /\ Idle.pc = "idle" /\ ui.vault \in Handles
  BY <1>0, Still DEF TypeOK, Screen
<1>2. PICK t \in Starting : t = [pc |-> "marshal", h |-> ui.vault, pay |-> d]
  BY <1>1 DEF Starting
<1>3. /\ wr' = [wr EXCEPT !["ui"] = t] /\ wr'["ui"] = t /\ wr'["bg"] = Idle
      /\ t.pc = "marshal" /\ t.h = ui.vault
  BY <1>0, <1>1, <1>2 DEF Begin, TypeOK, Writers
<1>4. TypeOK'
  BY <1>0, <1>2, <1>3 DEF TypeOK, Budget
<1>5. ControlInv'
  BY <1>0, <1>1, <1>3 DEF ControlInv, ScreenInv, During
<1>6. LiveInv'
  BY <1>0 DEF LiveInv, During
<1>7. WriterInv'
  BY <1>1, <1>3, NoSave DEF Writers
<1>8. FileInv'
  BY <1>0 DEF FileInv
<1>9. PayInv'
  <2>1. Settled /\ Settled'
    BY <1>0, <1>1, <1>3, Still DEF Settled, Writers, UiFree
  <2> QED BY <2>1, <1>0, <1>1, <1>3 DEF PayInv, Installing, During
<1>10. SlotInv'
  BY <1>0 DEF SlotInv, Chosen, Rekeying, Halfway, Knows, During
<1>11. DoneInv'
  BY <1>0, <1>1, <1>3 DEF DoneInv, Written
<1> QED BY <1>4, <1>5, <1>6, <1>7, <1>8, <1>9, <1>10, <1>11 DEF IInv

LEMMA EditStep == ASSUME IInv, NEW x \in Hosts, Edit(x), job.pc = "done" PROVE IInv'
<1>0. TypeOK /\ ControlInv /\ ui \in Screen
  BY DEF IInv, TypeOK
<1>1. /\ UiFree /\ HasStore /\ ui.step # "locking"
      /\ UNCHANGED <<data, synced, path, tmp, disk, lock, handle, job, knows, acked, kept, raced>>
  <2>1. raced' = raced
    BY DEF IInv, TypeOK, Edit
  <2> QED BY <2>1 DEF Edit, files
<1>2. job.pc = "done"
  OBVIOUS
<1>3. ui.vault # Free
  BY <1>0, <1>1 DEF ControlInv, ScreenInv, HasStore
<1>4. PICK d \in Doc : /\ d = IF x \in ui.doc THEN ui.doc \ {x} ELSE ui.doc \cup {x}
  BY <1>0 DEF Screen, Doc
<1>5. ui' = [ui EXCEPT !.doc = d] /\ wr' = Begin("ui", ui.vault, d)
  BY <1>4 DEF Edit
<1>6. PICK s \in Screen : ui' = s /\ s.vault = ui.vault /\ s.boot = ui.boot /\ s.step = ui.step
  <2>1. ui' \in Screen
    BY <1>0, <1>5 DEF Screen
  <2>2. ui'.vault = ui.vault /\ ui'.boot = ui.boot /\ ui'.step = ui.step
    BY <1>0, <1>5 DEF Screen
  <2> QED BY <2>1, <2>2
<1>7. budget' \in Budget
  <2>1. PICK n \in 0..MaxEdits : n = budget.edits /\ n > 0
    BY <1>0 DEF TypeOK, Edit
  <2>2. n - 1 \in 0..MaxEdits
    BY <2>1, VaultAssumption
  <2>3. budget' = [budget EXCEPT !.edits = n - 1]
    BY <2>1, <1>0, <1>2 DEF Edit, TypeOK
  <2> QED BY <2>2, <2>3, <1>0 DEF TypeOK, Budget
<1> QED BY <1>1, <1>2, <1>3, <1>4, <1>5, <1>6, <1>7, UiBegins

LEMMA LockStep == IInv /\ Lock => IInv'
<1> SUFFICES ASSUME IInv, Lock PROVE IInv'
  OBVIOUS
<1>0. TypeOK /\ ControlInv /\ ui \in Screen
  BY DEF IInv, TypeOK
<1>1. /\ UiFree /\ ui.step = "main" /\ job.pc = "done" /\ ui.vault # Free
      /\ UNCHANGED <<data, synced, path, tmp, disk, lock, handle, job, knows, acked, kept, raced>>
  BY <1>0, NoJobIs DEF Lock, files, ControlInv, ScreenInv
<1>2. PICK d \in Doc : d = ui.doc
  BY <1>0 DEF Screen
<1>3. wr' = Begin("ui", ui.vault, d)
  BY <1>2 DEF Lock
<1>4. PICK s \in Screen : ui' = s /\ s.vault = ui.vault /\ s.boot = ui.boot /\ s.step = "locking"
  BY <1>0 DEF Lock, Screen, Steps
<1>5. budget' \in Budget
  BY <1>0 DEF TypeOK, Budget, Lock
<1> QED BY <1>1, <1>3, <1>4, <1>5, UiBegins

\* The event loop is between two saves: the other invariants do not notice.
LEMMA Rested ==
  ASSUME TypeOK, ControlInv, wr["ui"].pc \in {"ok", "failed"}, wr' = Rest("ui")
  PROVE  /\ wr' \in [Writers -> Saves] /\ wr'["ui"] = Idle /\ wr'["bg"] = Idle /\ wr["bg"] = Idle
         /\ Idle.pc = "idle" /\ job.pc = "done"
<1>1. Idle \in Saves /\ Idle.pc = "idle"
  BY DEF Idle, Saves, Resting
<1>2. job.pc = "done" /\ wr["bg"].pc = "idle"
  BY <1>1 DEF ControlInv, ScreenInv, InSave
<1>3. wr["bg"] = Idle
  BY <1>2, Shapes DEF TypeOK, Saves, Writers, Idle
<1> QED BY <1>1, <1>2, <1>3 DEF TypeOK, Saves, Writers, Rest

LEMMA SavedStep == IInv /\ Saved => IInv'
<1> SUFFICES ASSUME IInv, Saved PROVE IInv'
  OBVIOUS
<1>0. TypeOK /\ ControlInv /\ LiveInv /\ WriterInv /\ FileInv /\ PayInv /\ SlotInv /\ DoneInv
  BY DEF IInv
<1>1. /\ wr["ui"].pc \in {"ok", "failed"} /\ wr' = Rest("ui")
      /\ UNCHANGED <<data, synced, path, tmp, disk, lock, handle, job, ui, knows, acked, kept, raced, budget>>
  BY DEF Saved, Returned, files
<1>2. /\ wr' \in [Writers -> Saves] /\ wr'["ui"] = Idle /\ wr'["bg"] = Idle /\ wr["bg"] = Idle
      /\ Idle.pc = "idle" /\ job.pc = "done"
  BY <1>0, <1>1, Rested
<1>3. TypeOK'
  BY <1>0, <1>1, <1>2 DEF TypeOK, Saves
<1>4. ControlInv'
  BY <1>0, <1>1, <1>2 DEF ControlInv, ScreenInv, During
<1>5. LiveInv'
  BY <1>0, <1>1 DEF LiveInv, During
<1>6. WriterInv'
  BY <1>2, NoSave DEF Writers
<1>7. FileInv'
  BY <1>0, <1>1 DEF FileInv
<1>8. PayInv'
  <2>1. Settled /\ Settled'
    BY <1>0, <1>1, <1>2 DEF Settled, Writers
  <2> QED BY <2>1, <1>0, <1>1, <1>2 DEF PayInv, Installing, During
<1>9. SlotInv'
  BY <1>0, <1>1 DEF SlotInv, Chosen, Rekeying, Halfway, Knows, During
<1>10. DoneInv'
  BY <1>0, <1>1, <1>2 DEF DoneInv, Written
<1> QED BY <1>3, <1>4, <1>5, <1>6, <1>7, <1>8, <1>9, <1>10 DEF IInv

LEMMA LockEndsStep == IInv /\ LockEnds => IInv'
<1> SUFFICES ASSUME IInv, LockEnds PROVE IInv'
  OBVIOUS
<1>0. TypeOK /\ ControlInv /\ LiveInv /\ WriterInv /\ FileInv /\ PayInv /\ SlotInv /\ DoneInv
  BY DEF IInv
<1>1. /\ wr["ui"].pc \in {"ok", "failed"} /\ wr' = Rest("ui") /\ ui.step = "locking"
      /\ job = NoJob /\ ui' = Gate("unlock")
      /\ handle' = [handle EXCEPT ![ui.vault] = NoHandle]
      /\ lock' = (IF lock = ui.vault THEN Free ELSE lock)
      /\ UNCHANGED <<data, synced, path, tmp, disk, job, knows, acked, kept, raced, budget>>
  BY <1>0 DEF LockEnds, Returned, files, ControlInv, ScreenInv
<1>2. /\ wr' \in [Writers -> Saves] /\ wr'["ui"] = Idle /\ wr'["bg"] = Idle
      /\ Idle.pc = "idle" /\ job.pc = "done" /\ job.kind = "none" /\ job.res # "ok"
  BY <1>0, <1>1, Rested, NoJobIs
<1>3. PICK s \in Screen : /\ ui' = s /\ s.step = "unlock" /\ s.vault = Free /\ s.boot = None
                          /\ s.boot # "adopt"
  BY <1>1 DEF Gate, Screen, Steps, Doc, None
<1>4. ui.vault \in Handles
  BY <1>0, <1>1 DEF ControlInv, ScreenInv, TypeOK, Screen
<1>5. /\ handle'[ui.vault] = NoHandle
      /\ \A x \in Handles \ {ui.vault} : handle'[x] = handle[x]
  BY <1>0, <1>1, <1>4 DEF TypeOK
<1>6. \A x \in Handles : handle'[x] # NoHandle => handle'[x] = handle[x] /\ x # ui.vault
  BY <1>5
<1>7. \A x \in Handles : handle'[x].key # None => handle'[x] = handle[x] /\ x # ui.vault
  BY <1>6, Numbers
<1>8. TypeOK'
  BY <1>0, <1>1, <1>2, <1>3 DEF TypeOK, Saves
<1>9. ControlInv'
  BY <1>0, <1>1, <1>2, <1>3, NoJobIs DEF ControlInv, ScreenInv, During
<1>10. LiveInv'
  <2>1. job.pc \notin InSave
    BY <1>1, NoJobIs
  <2>2. \A x \in Handles : handle'[x].key \in {None, handle'[x].dek}
    <3> SUFFICES ASSUME NEW x \in Handles, handle'[x].key # None
                 PROVE  handle'[x].key = handle'[x].dek
      OBVIOUS
    <3>1. handle[x].key \in {None, handle[x].dek}
      BY <1>0, <1>2 DEF LiveInv, During
    <3> QED BY <3>1, <1>7
  <2> QED BY <2>1, <2>2, <1>0, <1>1, <1>3, <1>6, <1>7 DEF LiveInv
<1>11. WriterInv'
  BY <1>2, NoSave DEF Writers
<1>12. FileInv'
  BY <1>0, <1>1 DEF FileInv
<1>13. PayInv'
  <2>1. Settled /\ Settled'
    BY <1>0, <1>1, <1>2, Rested DEF Settled, Writers
  <2> QED BY <2>1, <1>0, <1>1, <1>2, <1>7 DEF PayInv, Installing, During
<1>14. SlotInv'
  BY <1>0, <1>1, <1>2, <1>3, <1>7, NoJobIs DEF SlotInv, Chosen, Rekeying, Halfway, Knows, During
<1>15. DoneInv'
  BY <1>1, <1>2, NoJobIs DEF DoneInv
<1> QED BY <1>8, <1>9, <1>10, <1>11, <1>12, <1>13, <1>14, <1>15 DEF IInv

LEMMA EventLoopStep ==
  ASSUME IInv, EventLoop, \A x \in Hosts : Edit(x) => job.pc = "done" PROVE IInv'
BY CreateEnterStep, ResetEnterStep, UnlockEnterStep, InstallEnterStep, RekeyEnterStep,
   RecoverEnterStep, EditStep, SignInStep, CancelSignInStep, DismissStep, SavedStep, LockStep,
   LockEndsStep, HandleCreatedStep, HandleOpenedStep, HandleRecoveredStep, HandleResetStep,
   HandleRekeyedStep, HandleInstalledStep DEF EventLoop

---------------------------------------------------------------------------
(* The second instance, and the power *)

\* Whoever takes the lock from nobody, or gives back another's, changes nothing.
LEMMA LockMoves ==
  ASSUME IInv, NEW l \in {Free, Other}, lock \in {Free, Other}, lock' = l, budget' \in Budget,
         UNCHANGED <<data, synced, path, tmp, disk, handle, wr, job, ui, knows, acked, kept, raced>>
  PROVE  IInv'
<1>0. TypeOK /\ ControlInv /\ LiveInv /\ WriterInv /\ FileInv /\ PayInv /\ SlotInv /\ DoneInv
  BY DEF IInv
<1>1. \A h \in Handles : handle[h].key = None /\ lock # h /\ l # h
  BY <1>0, Numbers DEF LiveInv
<1>2. TypeOK'
  BY <1>0 DEF TypeOK, Budget
<1>3. ControlInv'
  BY <1>0 DEF ControlInv, ScreenInv, During
<1>4. LiveInv'
  BY <1>0, <1>1 DEF LiveInv, During
<1>5. WriterInv'
  BY <1>0, <1>1, Replaces DEF WriterInv
<1>6. FileInv'
  BY <1>0 DEF FileInv
<1>7. PayInv'
  BY <1>0, <1>1 DEF PayInv, Settled, Rewraps, Installing, During
<1>8. SlotInv'
  BY <1>0, <1>1 DEF SlotInv, Chosen, Rekeying, Halfway, Knows, During
<1>9. DoneInv'
  <2>1. job.h # Free => job.h \in Handles
    BY <1>0 DEF TypeOK, Job
  <2>2. job.pc \in InSave => job.h # Free
    BY <1>0 DEF ControlInv, ScreenInv
  <2> QED BY <2>1, <2>2, <1>0, <1>1 DEF DoneInv, Written
<1> QED BY <1>2, <1>3, <1>4, <1>5, <1>6, <1>7, <1>8, <1>9 DEF IInv

LEMMA OtherOpensStep == IInv /\ OtherOpens => IInv'
<1> SUFFICES ASSUME IInv, OtherOpens PROVE IInv'
  OBVIOUS
<1>1. /\ lock = Free /\ lock' = Other
      /\ UNCHANGED <<data, synced, path, tmp, disk, handle, wr, job, ui, knows, acked, kept, raced>>
  BY DEF OtherOpens, files
<1>2. budget' \in Budget
  BY VaultAssumption DEF IInv, TypeOK, OtherOpens, Spend, Budget
<1> QED BY <1>1, <1>2, LockMoves

LEMMA OtherLeavesStep == IInv /\ OtherLeaves => IInv'
<1> SUFFICES ASSUME IInv, OtherLeaves PROVE IInv'
  OBVIOUS
<1>1. /\ lock = Other /\ lock' = Free
      /\ UNCHANGED <<data, synced, path, tmp, disk, handle, wr, job, ui, knows, acked, kept, raced, budget>>
  BY DEF OtherLeaves, files
<1>2. budget' \in Budget
  BY <1>1 DEF IInv, TypeOK, Budget
<1> QED BY <1>1, <1>2, LockMoves

LEMMA OtherSavesStep == ASSUME IInv, NEW x \in Hosts, OtherSaves(x) PROVE IInv'
<1>0. TypeOK /\ ControlInv /\ LiveInv /\ WriterInv /\ FileInv /\ PayInv /\ SlotInv /\ DoneInv
  BY DEF IInv
<1>1. /\ lock = Other /\ IsVault(Contents(path))
      /\ UNCHANGED <<tmp, lock, handle, wr, job, ui, knows, raced, budget>>
  BY DEF OtherSaves
<1>2. \A h \in Handles : handle[h].key = None /\ lock # h
  BY <1>0, <1>1, Numbers DEF LiveInv
<1>3. \A w \in Writers : wr[w].pc \notin {"open", "write", "sync", "rename", "dir"}
  BY <1>2, Replaces
<1>4. path # NoInode /\ path \in Inodes /\ Contents(path) = data[path] /\ data[path] \in File
  <2>1. path # NoInode
    BY <1>1 DEF Contents, IsVault, Gone
  <2> QED BY <2>1, <1>0, <1>1 DEF Contents, TypeOK, Bytes, IsVault, Torn, Empty, Gone
<1>5. PICK i \in Inodes : i = FreeInode /\ i # path /\ i # tmp /\ i # disk
  BY <1>0, FreeInodeIs
<1>6. PICK c : c = [data[path] EXCEPT !.hosts = @ \cup {x}]
  OBVIOUS
<1>61. /\ c.kind = data[path].kind /\ c.pw = data[path].pw /\ c.rec = data[path].rec
       /\ c.sealed = data[path].sealed /\ c.hosts = data[path].hosts \cup {x}
  BY <1>4, <1>6 DEF File
<1>62. c \in File
  BY <1>4, <1>6 DEF File, Doc
<1>63. IsVault(c)
  BY <1>1, <1>4, <1>61 DEF IsVault
<1>7. PICK live : /\ live = {i, tmp} \cup {wr[w].ino : w \in {y \in Writers : Held(y)}}
                  /\ data' = Reclaimed([data EXCEPT ![i] = c], live)
                  /\ synced' = (synced \cap live) \cup {i}
                  /\ path' = i /\ disk' = i /\ acked' = c.hosts /\ kept' = "disk"
  BY <1>4, <1>5, <1>6, <1>62 DEF OtherSaves
<1>8. data'[i] = c /\ data' \in [Inodes -> Bytes] /\ i \in synced'
  BY <1>0, <1>5, <1>7, <1>62 DEF TypeOK, Reclaimed, Bytes
<1>9. TypeOK'
  BY <1>0, <1>1, <1>5, <1>62, <1>7, <1>8 DEF TypeOK, File
<1>10. ControlInv'
  BY <1>0, <1>1 DEF ControlInv, ScreenInv, During
<1>11. LiveInv'
  BY <1>0, <1>1 DEF LiveInv, During
<1>12. WriterInv'
  BY <1>0, <1>1, <1>3 DEF WriterInv
<1>13. FileInv'
  <2>1. tmp' # NoInode => tmp' # path' /\ tmp' # disk'
    BY <1>1, <1>5, <1>7
  <2>2. Opens(data[path], knows) /\ data[path].sealed
    BY <1>0, <1>4 DEF FileInv
  <2>3. c.sealed /\ Opens(c, knows)
    BY <2>2, <1>61, <1>63 DEF Opens
  <2> QED BY <2>1, <2>3, <1>1, <1>7, <1>8, <1>63 DEF FileInv
<1>14. PayInv'
  <2>1. /\ path' # NoInode /\ data'[path'].hosts = acked'
        /\ disk' # NoInode => data'[disk'].hosts = acked'
    BY <1>5, <1>7, <1>8, Numbers
  <2> QED BY <2>1, <1>0, <1>1, <1>2 DEF PayInv, Installing, During
<1>15. SlotInv'
  <2>1. ui.vault # Free => ui.vault \in Handles
    BY <1>0 DEF TypeOK, Screen
  <2> QED BY <2>1, <1>0, <1>1, <1>2 DEF SlotInv, Chosen, Rekeying, Halfway, Knows, During
<1>16. DoneInv'
  <2>1. job.h # Free => job.h \in Handles
    BY <1>0 DEF TypeOK, Job
  <2>2. job.pc \in InSave => job.h # Free
    BY <1>0 DEF ControlInv, ScreenInv
  <2> QED BY <2>1, <2>2, <1>0, <1>1, <1>2 DEF DoneInv, Written
<1> QED BY <1>9, <1>10, <1>11, <1>12, <1>13, <1>14, <1>15, <1>16 DEF IInv

\* After a power loss nothing runs; what is found is whole, or a save raced a command.
LEMMA CrashStep == ASSUME Base, raced \/ IInv, Crash PROVE Base' /\ (raced' \/ IInv')
<1> DEFINE Later(d, i) == i # NoInode /\ i = path /\ Unreported /\ IsVault(d[i])
<1>0. TypeOK /\ NameInv /\ (~raced => FileInv /\ PayInv)
  BY DEF Base, IInv
<1>1. PICK d : d = [j \in Inodes |-> IF j \in synced THEN data[j]
                                     ELSE IF data[j] = Gone THEN Gone ELSE Torn]
  OBVIOUS
<1>2. PICK i \in {path, disk} :
        /\ path' = i /\ disk' = i /\ tmp' = tmp
        /\ data' = Reclaimed(d, {i, tmp}) /\ synced' = {i, tmp} \ {NoInode}
        /\ acked' = (IF Later(d, i) THEN d[i].hosts ELSE acked)
        /\ kept' = (IF ~Later(d, i) /\ (raced \/ kept = "lost" \/ (kept = "cache" /\ i # path))
                    THEN "lost" ELSE "disk")
        /\ ui' = Gate(IF i = NoInode THEN "choose" ELSE "unlock")
        /\ knows' = (IF i = path \/ i = NoInode \/ ~IsVault(d[i]) THEN knows
                     ELSE [pws |-> knows.pws \cup {d[i].pw}, codes |-> knows.codes \cup {d[i].rec}])
        /\ raced' = (raced /\ i # NoInode /\ ~Opens(d[i], knows'))
  BY <1>1, Zenon DEF Crash
<1>3. /\ lock' = Free /\ handle' = [h \in Handles |-> NoHandle]
      /\ wr' = [w \in Writers |-> Idle] /\ job' = NoJob
  BY DEF Crash
<1>4. d \in [Inodes -> Bytes] /\ data' \in [Inodes -> Bytes]
  BY <1>0, <1>1, <1>2 DEF TypeOK, Bytes, Reclaimed
<1>5. i # NoInode => /\ i \in Inodes /\ data'[i] = d[i] /\ d[i] \in Bytes
                     /\ IsVault(d[i]) => d[i] \in File
  BY <1>0, <1>2, <1>4 DEF TypeOK, Reclaimed, Bytes, IsVault, Torn, Empty, Gone
<1>6. \A h \in Handles : handle'[h] = NoHandle /\ handle'[h].key = None
  BY <1>3, Numbers
<1>7. /\ wr'["ui"] = Idle /\ wr'["bg"] = Idle /\ Idle.pc = "idle" /\ Idle \in Saves
      /\ \A w \in Writers : wr'[w].pc = "idle"
  BY <1>3 DEF Writers, Idle, Saves, Resting
<1>8. PICK s \in Screen : /\ ui' = s /\ s.step \in {"choose", "unlock"} /\ s.vault = Free
                          /\ s.boot = None /\ s.boot # "adopt"
  BY <1>2 DEF Gate, Screen, Steps, Doc, None
<1>9. TypeOK'
  <2>1. knows' \in [pws : SUBSET Secret, codes : SUBSET Nat]
    BY <1>0, <1>2, <1>5 DEF TypeOK, File
  <2>2. acked' \in Doc /\ kept' \in {"disk", "cache", "lost"} /\ raced' \in BOOLEAN
    BY <1>0, <1>2, <1>5 DEF TypeOK, File
  <2>3. budget' \in Budget
    BY <1>0, VaultAssumption DEF TypeOK, Crash, Spend, Budget
  <2>4. wr' \in [Writers -> Saves] /\ handle' \in [Handles -> Object \cup {NoHandle}] /\ job' \in Job
    BY <1>3, <1>7, NoJobIs
  <2>5. /\ path' \in Inodes \cup {NoInode} /\ tmp' \in Inodes \cup {NoInode}
        /\ disk' \in Inodes \cup {NoInode} /\ synced' \subseteq Inodes /\ lock' = Free
    BY <1>0, <1>2, <1>3 DEF TypeOK
  <2> QED BY <2>1, <2>2, <2>3, <2>4, <2>5, <1>4, <1>8 DEF TypeOK, Saves, Budget
<1>10. ControlInv'
  BY <1>3, <1>7, <1>8, NoJobIs DEF ControlInv, ScreenInv, During
<1>11. LiveInv'
  BY <1>3, <1>6, <1>8, NoJobIs DEF LiveInv
<1>12. WriterInv'
  BY <1>7, NoSave DEF Writers
<1>13. NameInv'
  BY <1>0, <1>2 DEF NameInv
<1>14. Base'
  BY <1>3, <1>7, <1>9, <1>10, <1>11, <1>13, NoJobIs DEF Base, ControlInv, GrabInv, Grabbed, During, OneWriter
<1>15. ASSUME ~raced' PROVE IInv'
  <2>1. ~raced /\ i # NoInode => i \in synced /\ d[i] = data[i] /\ IsVault(d[i]) /\ d[i].sealed
    BY <1>0, <1>1, <1>2, <1>5 DEF FileInv
  <2>2. i # NoInode => Opens(d[i], knows')
    <3>1. CASE raced
      BY <3>1, <1>2, <1>15
    <3>2. CASE ~raced /\ i = path /\ i # NoInode
      BY <3>2, <2>1, <1>0, <1>2 DEF FileInv
    <3>3. CASE ~raced /\ i # path /\ i # NoInode
      <4>1. d[i].pw \in knows'.pws
        BY <3>3, <2>1, <1>2
      <4> QED BY <4>1, <3>3, <2>1 DEF Opens
    <3> QED BY <3>1, <3>2, <3>3
  <2>3. i # NoInode => IsVault(d[i]) /\ d[i].sealed
    BY <2>2 DEF Opens
  <2>4. FileInv'
    BY <2>2, <2>3, <1>2, <1>5, <1>13 DEF FileInv, NameInv
  <2>5. i # NoInode /\ kept' # "lost" => d[i].hosts = acked'
    <3>1. CASE Later(d, i)
      BY <3>1, <1>2
    <3>2. CASE ~Later(d, i) /\ i # NoInode /\ kept' # "lost"
      <4>1. ~raced /\ kept # "lost" /\ (kept = "cache" => i = path) /\ acked' = acked
        BY <3>2, <1>2
      <4>2. CASE i = path
        <5>1. Settled
          BY <4>2, <3>2, <2>3 DEF Settled, Unreported
        <5> QED BY <5>1, <4>1, <4>2, <3>2, <2>1, <1>0 DEF PayInv
      <4>3. CASE i # path
        BY <4>1, <4>3, <3>2, <2>1, <1>0, <1>2 DEF PayInv, TypeOK
      <4> QED BY <4>2, <4>3
    <3> QED BY <3>1, <3>2
  <2>6. PayInv'
    BY <2>5, <1>2, <1>3, <1>5, <1>6, NoJobIs DEF PayInv
  <2>7. SlotInv'
    BY <1>3, <1>6, <1>8, NoJobIs DEF SlotInv, Chosen, Rekeying, Halfway, During
  <2>8. DoneInv'
    BY <1>3, NoJobIs DEF DoneInv
  <2> QED BY <2>4, <2>6, <2>7, <2>8, <1>9, <1>10, <1>11, <1>12 DEF IInv
<1> QED BY <1>14, <1>15

---------------------------------------------------------------------------
(* What holds always: the steps of a save *)

Writing == {"open", "write", "sync", "rename", "dir"}

\* A step that leaves the lock and the key of a vault object as they are.
Alike(h) == /\ handle'[h].key = handle[h].key /\ handle'[h].dek = handle[h].dek
            /\ handle'[h] = NoHandle <=> handle[h] = NoHandle

LEMMA Rewritten ==
  ASSUME TypeOK, NEW g \in Handles, handle[g] \in Object, NEW u \in Object,
         u.key = handle[g].key, u.dek = handle[g].dek, handle' = [handle EXCEPT ![g] = u]
  PROVE  /\ handle' \in [Handles -> Object \cup {NoHandle}]
         /\ \A h \in Handles : Alike(h)
<1>1. u # NoHandle /\ handle[g] # NoHandle
  BY Numbers
<1> QED BY <1>1 DEF TypeOK, Alike

\* A save in progress is of a vault object that is there.
LEMMA SavesAVault ==
  ASSUME Base, NEW w \in Writers, wr[w].pc \in Busy
  PROVE  /\ wr[w].h \in Handles /\ handle[wr[w].h] \in Object
         /\ w = "bg" => wr[w].h = job.h /\ job.pc \in InSave
         /\ w = "ui" => wr[w].h = ui.vault
<1>0. TypeOK /\ ScreenInv /\ LiveInv /\ wr[w] \in Saves
  BY DEF Base, TypeOK, Saves
<1>1. wr[w].h \in Handles /\ wr[w].pc \notin {"idle", "ok", "failed"}
  BY <1>0, Shapes DEF Starting, Sealing, Replacing, Busy
<1>2. /\ w = "bg" => wr[w].h = job.h /\ job.pc \in InSave
      /\ w = "ui" => wr[w].h = ui.vault
  BY <1>0, <1>1 DEF ScreenInv
<1>3. handle[wr[w].h] # NoHandle
  BY <1>0, <1>1, <1>2, Numbers DEF LiveInv, Writers
<1> QED BY <1>0, <1>1, <1>2, <1>3 DEF TypeOK

LEMMA SaveMoves ==
  ASSUME Base, NEW w \in Writers, wr[w].pc \in Busy, NEW t \in Saves, t.pc # "idle",
         t.pc \in Busy => t.h = wr[w].h,
         t.pc \in Writing => wr[w].pc \in Writing \/ handle[wr[w].h].key # None,
         wr' = [wr EXCEPT ![w] = t], \A h \in Handles : Alike(h),
         TypeOK', NameInv', UNCHANGED <<lock, job, ui>>
  PROVE  Base'
<1>0. TypeOK /\ ScreenInv /\ LiveInv /\ GrabInv /\ OneWriter
  BY DEF Base
<1>1. /\ wr'[w] = t /\ \A x \in Writers \ {w} : wr'[x] = wr[x]
      /\ wr[w].pc \notin {"idle", "ok", "failed"}
      /\ t.pc \notin {"idle", "ok", "failed"} => t.pc \in Busy
  BY <1>0, Shapes DEF TypeOK, Busy
<1>2. ScreenInv'
  <2>1. /\ wr'["bg"].pc = "idle" <=> job.pc \notin InSave
        /\ wr'["bg"].pc \notin {"idle", "ok", "failed"} => wr'["bg"].h = job.h
        /\ wr'["ui"].pc \notin {"idle", "ok", "failed"} => wr'["ui"].h = ui.vault
    BY <1>0, <1>1 DEF ScreenInv, Writers
  <2> QED BY <2>1, <1>0 DEF ScreenInv, During
<1>3. LiveInv'
  <2>1. ui.vault # Free => ui.vault \in Handles
    BY <1>0 DEF TypeOK, Screen
  <2>2. job.pc \in InSave => job.h \in Handles
    BY <1>0 DEF TypeOK, Job, ScreenInv
  <2> QED BY <2>1, <2>2, <1>0 DEF LiveInv, Alike, During
<1>4. GrabInv'
  BY <1>0 DEF GrabInv, Grabbed, During, Alike
<1>5. OneWriter'
  <2> SUFFICES ASSUME NEW x \in Writers, wr'[x].pc \in Writing
               PROVE  \/ lock = wr'[x].h
                      \/ /\ x = "ui" /\ job.kind = "install" /\ job.old = wr'[x].h
                         /\ handle'[job.old].key = None
    BY DEF OneWriter, Writing
  <2>1. CASE wr[x].pc \in Writing
    <3>1. wr'[x].h = wr[x].h /\ wr[x].h \in Handles
      BY <2>1, <1>1, SavesAVault DEF Writing, Busy
    <3> QED BY <2>1, <3>1, <1>0 DEF OneWriter, Writing, Alike
  <2>2. CASE wr[x].pc \notin Writing
    <3>1. x = w
      BY <2>2, <1>1
    <3>2. handle[wr[w].h].key # None /\ wr[w].h \in Handles /\ wr'[x].h = wr[w].h
      BY <3>1, <2>2, <1>1, SavesAVault DEF Writing, Busy
    <3> QED BY <3>1, <3>2, <1>0 DEF LiveInv
  <2> QED BY <2>1, <2>2
<1> QED BY <1>2, <1>3, <1>4, <1>5 DEF Base

LEMMA FreeAlways ==
  ASSUME TypeOK
  PROVE  FreeInode \in Inodes /\ FreeInode \notin {path, tmp, disk}
<1>1. PICK a : a = wr["ui"].ino
  OBVIOUS
<1>2. PICK b : b = wr["bg"].ino
  OBVIOUS
<1>3. InUseInodes \subseteq {path, tmp, disk, a, b}
  BY <1>1, <1>2 DEF InUseInodes, Writers
<1>4. PICK U : U = InUseInodes
  OBVIOUS
<1>5. \E i \in Inodes \ U : \A j \in Inodes \ U : i <= j
  <2>1. PICK p, q, r : p = path /\ q = tmp /\ r = disk
    OBVIOUS
  <2>2. \E i \in {1, 2, 3, 4, 5, 6} : i \notin {p, q, r, a, b}
    OBVIOUS
  <2>3. Inodes = {1, 2, 3, 4, 5, 6}
    BY DEF Inodes
  <2>4. \E i \in {1, 2, 3, 4, 5, 6} : i \notin U
    BY <2>1, <2>2, <1>3, <1>4
  <2>5. \E i \in {1, 2, 3, 4, 5, 6} : i \notin U /\ \A j \in {1, 2, 3, 4, 5, 6} : j \notin U => i <= j
    BY <2>4
  <2> QED BY <2>3, <2>5
<1>6. FreeInode \in Inodes \ U
  BY <1>4, <1>5 DEF FreeInode
<1>7. {path, tmp, disk} \subseteq InUseInodes
  BY DEF InUseInodes
<1> QED BY <1>4, <1>6, <1>7

LEMMA MarshalKeeps == ASSUME Base, NEW w \in Writers, Marshal(w) PROVE Base'
<1>0. TypeOK /\ NameInv
  BY DEF Base
<1>1. PICK s \in Starting : s = wr[w] /\ s.pc = "marshal" /\ s.h \in Handles /\ s.pay \in Doc
  BY <1>0, Shapes DEF TypeOK, Saves, Marshal, Starting
<1>2. PICK v \in Object : v = handle[s.h]
  BY <1>1, SavesAVault DEF Busy
<1>3. PICK t \in Sealing :
        t = [pc |-> "seal", h |-> s.h,
             out |-> [kind |-> "vault", pw |-> v.pw, rec |-> v.rec, dek |-> v.dek,
                      hosts |-> s.pay, sealed |-> FALSE]]
  BY <1>1, <1>2 DEF Sealing, File, Object
<1>4. PICK u \in Object : u = [v EXCEPT !.nonce = w]
  BY <1>2 DEF Object
<1>5. /\ wr' = [wr EXCEPT ![w] = t] /\ handle' = [handle EXCEPT ![s.h] = u]
      /\ UNCHANGED <<data, synced, path, tmp, disk, lock, job, ui, knows, acked, kept, raced, budget>>
  BY <1>1, <1>2, <1>3, <1>4 DEF Marshal, files
<1>6. u.dek = v.dek /\ u.key = v.key /\ t.pc = "seal" /\ t.h = s.h /\ t \in Saves
  BY <1>3, <1>4 DEF Object, Saves
<1>7. /\ handle' \in [Handles -> Object \cup {NoHandle}]
      /\ \A h \in Handles : Alike(h)
  BY <1>0, <1>1, <1>2, <1>5, <1>6, Rewritten
<1>8. TypeOK' /\ NameInv'
  BY <1>0, <1>3, <1>5, <1>7 DEF TypeOK, NameInv
<1> QED BY <1>1, <1>5, <1>6, <1>7, <1>8, SaveMoves DEF Busy, Writing

LEMMA SealKeeps == ASSUME Base, NEW w \in Writers, Seal(w) PROVE Base'
<1>0. TypeOK /\ NameInv
  BY DEF Base
<1>1. PICK s \in Sealing : s = wr[w] /\ s.pc = "seal" /\ s.h \in Handles /\ s.out \in File
  BY <1>0, Shapes DEF TypeOK, Saves, Seal, Sealing
<1>2. PICK v \in Object : v = handle[s.h]
  BY <1>1, SavesAVault DEF Busy
<1>3. PICK u \in Object : u = [v EXCEPT !.nonce = IF @ = w THEN None ELSE @]
  BY <1>2 DEF Object
<1>4. PICK f \in File : f = [s.out EXCEPT !.sealed = Matches(v, w)]
  BY <1>1 DEF File, Matches
<1>5. PICK t \in Saves : t = IF v.key = None THEN [pc |-> "failed"]
                             ELSE [pc |-> "open", h |-> s.h, out |-> f]
  BY <1>1, <1>4 DEF Saves, Resting, Sealing
<1>6. /\ wr' = [wr EXCEPT ![w] = t] /\ handle' = [handle EXCEPT ![s.h] = u]
      /\ UNCHANGED <<data, synced, path, tmp, disk, lock, job, ui, knows, acked, kept, raced, budget>>
  BY <1>1, <1>2, <1>3, <1>4, <1>5, <1>0 DEF Seal, TypeOK, files
<1>7. u.dek = v.dek /\ u.key = v.key
  BY <1>3 DEF Object
<1>8. t.pc = "failed" \/ (t.pc = "open" /\ t.h = s.h /\ v.key # None)
  BY <1>5
<1>9. /\ handle' \in [Handles -> Object \cup {NoHandle}]
      /\ \A h \in Handles : Alike(h)
  BY <1>0, <1>1, <1>2, <1>6, <1>7, Rewritten
<1>10. TypeOK' /\ NameInv'
  BY <1>0, <1>6, <1>9 DEF TypeOK, Saves, NameInv
<1> QED BY <1>1, <1>2, <1>6, <1>8, <1>9, <1>10, SaveMoves DEF Busy, Writing

\* The steps on the files leave the vault objects alone.
LEMMA FileMoves ==
  ASSUME Base, NEW w \in Writers, wr[w].pc \in Writing, NEW t \in Saves, t.pc # "idle",
         t.pc \in Busy => t.h = wr[w].h, wr' = [wr EXCEPT ![w] = t],
         TypeOK', NameInv', UNCHANGED <<lock, handle, job, ui>>
  PROVE  Base'
<1>1. wr[w].pc \in Busy /\ \A h \in Handles : Alike(h)
  BY DEF Writing, Busy, Alike
<1> QED BY <1>1, SaveMoves

LEMMA OpenTmpKeeps == ASSUME Base, NEW w \in Writers, OpenTmp(w) PROVE Base'
<1>0. TypeOK /\ NameInv
  BY DEF Base
<1>1. PICK s \in Sealing : s = wr[w] /\ s.pc = "open" /\ s.h \in Handles /\ s.out \in File
  BY <1>0, Shapes DEF TypeOK, Saves, OpenTmp, Sealing
<1>2. PICK i \in Inodes : i = TmpInode /\ i # path /\ i # disk
  BY <1>0, FreeAlways DEF TmpInode, NameInv, TypeOK
<1>3. PICK t \in Replacing : t = [pc |-> "write", h |-> s.h, out |-> s.out, ino |-> i]
  BY <1>1, <1>2 DEF Replacing
<1>4. /\ tmp' = i /\ data' = [data EXCEPT ![i] = Empty] /\ synced' = synced \ {i}
      /\ wr' = [wr EXCEPT ![w] = t]
      /\ UNCHANGED <<path, disk, lock, handle, job, ui, knows, acked, kept, raced, budget>>
  BY <1>1, <1>2, <1>3 DEF OpenTmp
<1>5. TypeOK' /\ NameInv'
  BY <1>0, <1>2, <1>3, <1>4 DEF TypeOK, Bytes, NameInv
<1> QED BY <1>1, <1>3, <1>4, <1>5, FileMoves DEF Writing, Saves

LEMMA WriteKeeps == ASSUME Base, NEW w \in Writers, Write(w) PROVE Base'
<1>0. TypeOK /\ NameInv
  BY DEF Base
<1>1. PICK s \in Replacing : /\ s = wr[w] /\ s.pc = "write" /\ s.h \in Handles /\ s.out \in File
                             /\ s.ino \in Inodes
  BY <1>0, Shapes DEF TypeOK, Saves, Write, Replacing
<1>2. PICK c \in Bytes : c = Overlay(data[s.ino], s.out)
  BY <1>1 DEF Overlay, Bytes
<1>3. PICK t \in Replacing : t = [s EXCEPT !.pc = "sync"]
  BY <1>1 DEF Replacing
<1>4. /\ data' = [data EXCEPT ![s.ino] = c] /\ synced' = synced \ {s.ino}
      /\ wr' = [wr EXCEPT ![w] = t]
      /\ UNCHANGED <<path, tmp, disk, lock, handle, job, ui, knows, acked, kept, raced, budget>>
  BY <1>0, <1>1, <1>2, <1>3 DEF Write, TypeOK
<1>5. t.pc = "sync" /\ t.h = s.h
  BY <1>3 DEF Replacing
<1>6. TypeOK' /\ NameInv'
  BY <1>0, <1>2, <1>3, <1>4 DEF TypeOK, NameInv
<1> QED BY <1>1, <1>4, <1>5, <1>6, FileMoves DEF Writing, Saves

LEMMA SyncKeeps == ASSUME Base, NEW w \in Writers, Sync(w) PROVE Base'
<1>0. TypeOK /\ NameInv
  BY DEF Base
<1>1. PICK s \in Replacing : s = wr[w] /\ s.pc = "sync" /\ s.ino \in Inodes
  BY <1>0, Shapes DEF TypeOK, Saves, Sync, Replacing
<1>2. PICK t \in Replacing : t = [s EXCEPT !.pc = "rename"]
  BY <1>1 DEF Replacing
<1>3. /\ synced' = synced \cup {s.ino} /\ wr' = [wr EXCEPT ![w] = t]
      /\ UNCHANGED <<data, path, tmp, disk, lock, handle, job, ui, knows, acked, kept, raced, budget>>
  BY <1>0, <1>1, <1>2 DEF Sync, TypeOK
<1>4. t.pc = "rename" /\ t.h = s.h
  BY <1>2 DEF Replacing
<1>5. TypeOK' /\ NameInv'
  BY <1>0, <1>1, <1>2, <1>3 DEF TypeOK, NameInv
<1> QED BY <1>1, <1>3, <1>4, <1>5, FileMoves DEF Writing, Saves

LEMMA RenameKeeps == ASSUME Base, NEW w \in Writers, Rename(w) PROVE Base'
<1>0. TypeOK /\ NameInv
  BY DEF Base
<1>1. PICK s \in Replacing : s = wr[w] /\ s.pc = "rename"
  BY <1>0, Shapes DEF TypeOK, Saves, Rename, RenamesSynced
<1>2. PICK t \in Saves : /\ t.pc \in {"failed", "dir"} /\ (t.pc = "dir" => t.h = s.h)
                         /\ t = IF tmp = NoInode THEN [pc |-> "failed"] ELSE [s EXCEPT !.pc = "dir"]
  <2>1. [s EXCEPT !.pc = "dir"] \in Replacing /\ [pc |-> "failed"] \in Resting
    BY <1>1 DEF Replacing, Resting
  <2>2. [s EXCEPT !.pc = "dir"].pc = "dir" /\ [s EXCEPT !.pc = "dir"].h = s.h
    BY <1>1 DEF Replacing
  <2> QED BY <2>1, <2>2 DEF Saves
<1>3. /\ wr' = [wr EXCEPT ![w] = t]
      /\ UNCHANGED <<data, synced, disk, lock, handle, job, ui, knows, acked, kept, raced, budget>>
  BY <1>0, <1>1, <1>2 DEF Rename, TypeOK
<1>4. \/ path' = path /\ tmp' = tmp
      \/ path' = tmp /\ tmp' = NoInode
  BY DEF Rename
<1>5. TypeOK' /\ NameInv'
  BY <1>0, <1>2, <1>3, <1>4 DEF TypeOK, NameInv, Saves
<1> QED BY <1>1, <1>2, <1>3, <1>5, FileMoves DEF Writing, Busy

LEMMA FileFailsKeeps == ASSUME Base, NEW w \in Writers, FileFails(w) PROVE Base'
<1>0. TypeOK /\ NameInv
  BY DEF Base
<1>1. PICK t \in Resting : t = [pc |-> "failed"]
  BY DEF Resting
<1>2. /\ wr' = [wr EXCEPT ![w] = t] /\ tmp' \in {tmp, NoInode}
      /\ UNCHANGED <<data, synced, path, disk, lock, handle, job, ui, knows, acked, kept, raced>>
      /\ wr[w].pc \in {"open", "write", "sync", "rename"}
  BY <1>1 DEF FileFails
<1>3. budget' \in Budget
  BY <1>0, VaultAssumption DEF TypeOK, FileFails, Spend, Budget
<1>4. TypeOK' /\ NameInv'
  BY <1>0, <1>1, <1>2, <1>3 DEF TypeOK, NameInv, Budget
<1> QED BY <1>1, <1>2, <1>4, FileMoves DEF Writing, Busy, Saves

LEMMA SyncDirKeeps == ASSUME Base, NEW w \in Writers, SyncDir(w) PROVE Base'
<1>0. TypeOK /\ NameInv
  BY DEF Base
<1>1. PICK s \in Replacing : s = wr[w] /\ s.pc = "dir" /\ s.h \in Handles /\ s.out \in File
  BY <1>0, Shapes DEF TypeOK, Saves, SyncDir, Replacing
<1>2. PICK v \in Object : v = handle[s.h]
  BY <1>1, SavesAVault DEF Busy
<1>3. PICK u \in Object : u = [v EXCEPT !.pay = s.out.hosts]
  BY <1>1, <1>2 DEF Object, File
<1>4. PICK t \in Resting : t = [pc |-> "ok"]
  BY DEF Resting
<1>5. /\ handle' = [handle EXCEPT ![s.h] = u] /\ wr' = [wr EXCEPT ![w] = t]
      /\ acked' \in {acked, s.out.hosts} /\ kept' \in {"disk", "lost", "cache", kept}
      /\ disk' \in {path, disk}
      /\ UNCHANGED <<path, tmp, lock, job, ui, knows, raced>>
  BY <1>0, <1>1, <1>2, <1>3, <1>4 DEF SyncDir, TakesPayload, TypeOK
<1>6. u.dek = v.dek /\ u.key = v.key
  BY <1>3 DEF Object
<1>7. PICK live : data' = Reclaimed(data, live) /\ synced' = synced \cap live
  BY DEF SyncDir
<1>8. data' \in [Inodes -> Bytes] /\ synced' \subseteq Inodes
  BY <1>0, <1>7 DEF TypeOK, Reclaimed, Bytes
<1>9. budget' \in Budget
  BY <1>0, VaultAssumption DEF TypeOK, SyncDir, Spend, Budget
<1>10. /\ handle' \in [Handles -> Object \cup {NoHandle}]
       /\ \A h \in Handles : Alike(h)
  BY <1>0, <1>1, <1>2, <1>5, <1>6, Rewritten
<1>11. acked' \in Doc /\ kept' \in {"disk", "cache", "lost"}
  BY <1>0, <1>1, <1>5 DEF TypeOK, File
<1>12. TypeOK' /\ NameInv'
  BY <1>0, <1>4, <1>5, <1>8, <1>9, <1>10, <1>11 DEF TypeOK, NameInv, Budget
<1> QED BY <1>1, <1>4, <1>5, <1>10, <1>12, SaveMoves DEF Busy, Writing, Saves

LEMMA SavingKeeps == ASSUME Base, NEW w \in Writers, Saving(w) PROVE Base'
BY MarshalKeeps, SealKeeps, OpenTmpKeeps, WriteKeeps, SyncKeeps, RenameKeeps, FileFailsKeeps,
   SyncDirKeeps DEF Saving

---------------------------------------------------------------------------
(* What holds always: the steps of a command *)

Results == {None, "ok", "err", "wrong", "locked"}

\* The types, the names and the screen do not depend on what the vault is.
LEMMA CommandMoves ==
  ASSUME Base, job.pc # "done", job' \in Job, job'.kind = job.kind, job'.old = job.old,
         job'.pc \in Points(job.kind) \cup {"done"},
         job.kind \in {"rekey", "reset"} => job'.h = job.h,
         job'.pc \in {"zero", "close"} => job.old # Free,
         job'.pc \in {"write", "merge"} => job'.h # job.old,
         job'.pc \in InSave => job'.h # Free,
         wr' \in [Writers -> Saves], wr'["ui"] = wr["ui"],
         wr'["bg"].pc = "idle" <=> job'.pc \notin InSave,
         wr'["bg"].pc \notin {"idle", "ok", "failed"} => wr'["bg"].h = job'.h,
         lock' \in Handles \cup {Free, Other}, handle' \in [Handles -> Object \cup {NoHandle}],
         knows' \in [pws : SUBSET Secret, codes : SUBSET Nat],
         UNCHANGED <<data, synced, path, tmp, disk, ui, acked, kept, raced, budget>>
  PROVE  TypeOK' /\ NameInv' /\ ScreenInv'
<1>0. TypeOK /\ NameInv /\ ScreenInv
  BY DEF Base
<1>1. TypeOK' /\ NameInv'
  BY <1>0 DEF TypeOK, NameInv, Saves
<1>2. job.kind # "none"
  BY <1>0, NoJobIs DEF ScreenInv
<1>3. ScreenInv'
  BY <1>0, <1>2 DEF ScreenInv, During
<1> QED BY <1>1, <1>3

\* A command goes on with the vault it has, whose key it leaves alone.
LEMMA Continues ==
  ASSUME Base, job.pc \notin {"done", "close"}, NEW p \in (Points(job.kind) \cup {"done"}) \ {"close"},
         NEW r \in Results, job' = [job EXCEPT !.pc = p, !.res = r], p = "zero" => job.old # Free,
         (\/ p \in {"write", "merge"} \/ (p = "save" /\ job.kind = "create")
          \/ (p = "done" /\ r = "ok" /\ job.kind \notin {"rekey", "reset"})) => Grabbed,
         NEW d \in Doc,
         p \in InSave => wr' = Begin("bg", job.h, d),
         p \notin InSave => wr' = [wr EXCEPT !["bg"] = Idle],
         handle' \in [Handles -> Object \cup {NoHandle}], \A h \in Handles : Alike(h),
         knows' \in [pws : SUBSET Secret, codes : SUBSET Nat],
         UNCHANGED <<data, synced, path, tmp, disk, lock, ui, acked, kept, raced, budget>>
  PROVE  Base'
<1>0. TypeOK /\ ScreenInv /\ LiveInv /\ GrabInv /\ OneWriter
  BY DEF Base
<1>1. PICK j \in Job : /\ j = [job EXCEPT !.pc = p, !.res = r]
                       /\ j.kind = job.kind /\ j.pc = p /\ j.res = r /\ j.h = job.h /\ j.old = job.old
  <2>1. p \in {"begin", "done", "salt", "wrap", "unsalt", "unwrap", "zero", "close", "take"} \cup InSave
    BY <1>0 DEF Points, InSave, TypeOK, Job, Kinds
  <2>2. [job EXCEPT !.pc = p, !.res = r] \in Job
    BY <2>1, <1>0 DEF TypeOK, Job, Results
  <2> QED BY <2>2, <1>0 DEF TypeOK, Job
<1>2. p \in InSave => job.h \in Handles /\ handle[job.h] # NoHandle
  <2>1. CASE job.kind \in {"rekey", "reset"}
    <3>1. job.h = ui.vault /\ ui.vault # Free
      BY <2>1, <1>0 DEF ScreenInv
    <3> QED BY <3>1, <1>0 DEF LiveInv, TypeOK, Screen
  <2>2. CASE job.kind \notin {"rekey", "reset"} /\ p \in InSave
    <3>1. Grabbed
      BY <2>2, <1>0 DEF Points, InSave, TypeOK, Job, Kinds
    <3> QED BY <3>1, <1>0 DEF GrabInv
  <2> QED BY <2>1, <2>2
<1>3. PICK t \in Saves : /\ t = IF p \in InSave THEN [pc |-> "marshal", h |-> job.h, pay |-> d] ELSE Idle
                         /\ t.pc \in {"idle", "marshal"} /\ (t.pc = "idle" <=> p \notin InSave)
                         /\ (t.pc # "idle" => t.h = job.h)
  <2>1. CASE p \in InSave
    <3>1. [pc |-> "marshal", h |-> job.h, pay |-> d] \in Starting
      BY <2>1, <1>2 DEF Starting
    <3> QED BY <3>1, <2>1 DEF Saves
  <2>2. CASE p \notin InSave
    <3>1. Idle \in Saves /\ Idle.pc = "idle"
      BY DEF Saves, Resting, Idle
    <3> QED BY <3>1, <2>2
  <2> QED BY <2>1, <2>2
<1>4. /\ p \in {"write", "merge"} => job.h # job.old
      /\ job.kind = "install" => job.old = ui.vault
  <2>1. p \in {"write", "merge"} => job.kind = "install"
    BY <1>0 DEF Points, TypeOK, Job, Kinds
  <2>2. job.kind = "install" => job.old = ui.vault
    BY <1>0 DEF ScreenInv
  <2> QED BY <2>1, <2>2, <1>0 DEF GrabInv
<1>5. p \in {"zero", "close"} => job.old # Free
  OBVIOUS
<1>6. /\ TypeOK' /\ NameInv' /\ ScreenInv'
      /\ wr'["bg"] = t /\ wr'["ui"] = wr["ui"]
  <2>1. j.pc \in InSave => j.h # Free
    BY <1>1, <1>2, Numbers
  <2>2. lock' \in Handles \cup {Free, Other}
    BY <1>0 DEF TypeOK
  <2>3. job' = j /\ wr'["bg"] = t /\ wr'["ui"] = wr["ui"] /\ wr' \in [Writers -> Saves]
    <3>1. wr' = [wr EXCEPT !["bg"] = t]
      BY <1>3 DEF Begin
    <3> QED BY <3>1, <1>0, <1>1, <1>3 DEF TypeOK, Writers, Saves
  <2>4. j.pc \in Points(job.kind) \cup {"done"}
    BY <1>1
  <2>5. t.pc \notin {"idle", "ok", "failed"} => t.h = j.h
    BY <1>1, <1>3
  <2>6. t.pc = "idle" <=> j.pc \notin InSave
    BY <1>1, <1>3
  <2>7. /\ j.pc \in {"zero", "close"} => j.old # Free
        /\ j.pc \in {"write", "merge"} => j.h # j.old
        /\ j.kind = job.kind /\ j.old = job.old /\ j.h = job.h
    BY <1>1, <1>4, <1>5
  <2> QED BY <2>1, <2>2, <2>3, <2>4, <2>5, <2>6, <2>7, CommandMoves
<1>7. LiveInv'
  <2>1. ui.vault # Free => ui.vault \in Handles
    BY <1>0 DEF TypeOK, Screen
  <2> QED BY <2>1, <1>0, <1>1, <1>2 DEF LiveInv, Alike, During
<1>8. GrabInv'
  <2>1. Grabbed' => Grabbed
    BY <1>1 DEF Grabbed, During
  <2> QED BY <2>1, <1>0, <1>1 DEF GrabInv, Alike
<1>9. OneWriter'
  <2>1. wr["ui"].pc \in Writing => wr["ui"].h \in Handles
    BY SavesAVault DEF Writing, Busy, Writers
  <2>2. OneWriter => (wr["ui"].pc \in Writing => 
           \/ lock = wr["ui"].h
           \/ /\ job.kind = "install" /\ job.old = wr["ui"].h
              /\ handle[job.old].key = None)
    BY DEF OneWriter, Writing, Writers
  <2>3. wr["ui"].pc \in Writing => 
           \/ lock' = wr'["ui"].h
           \/ /\ job'.kind = "install" /\ job'.old = wr'["ui"].h
              /\ handle'[job'.old].key = None
    BY <2>1, <2>2, <1>0, <1>1, <1>6 DEF Alike
  <2> QED BY <2>3, <1>3, <1>6 DEF OneWriter, Writing, Writers
<1> QED BY <1>6, <1>7, <1>8, <1>9 DEF Base

\* A command takes the free lock for a new vault.
LEMMA Grabbing ==
  ASSUME Base, lock = Free, job.pc # "done",
         job.kind \in {"create", "open", "recover", "install"},
         NEW h, h = SpareHandle, NEW o \in Object, o.key = o.dek,
         NEW p \in {"save", "write", "done"}, p \in Points(job.kind) \cup {"done"},
         NEW r \in Results,
         NEW t \in Saves, t.pc = "idle" <=> p \notin InSave, t.pc \in {"idle", "marshal", "open"},
         t.pc # "idle" => t.h = h,
         lock' = h, handle' = [handle EXCEPT ![h] = o],
         job' = [job EXCEPT !.pc = p, !.h = h, !.res = r], wr' = [wr EXCEPT !["bg"] = t],
         UNCHANGED <<data, synced, path, tmp, disk, ui, knows, acked, kept, raced, budget>>
  PROVE  Base'
<1>0. TypeOK /\ ScreenInv /\ LiveInv /\ OneWriter
  BY DEF Base
<1>1. h \in Handles /\ h # ui.vault
  BY <1>0, Spare
<1>2. PICK j \in Job : /\ job' = j /\ j.kind = job.kind /\ j.pc = p /\ j.h = h /\ j.old = job.old
  <2>1. PICK P : P = {"begin", "done", "salt", "wrap", "unsalt", "unwrap", "zero", "close", "take"}
                     \cup InSave
    OBVIOUS
  <2>2. p \in P
    BY <2>1 DEF InSave
  <2>3. job' \in Job
    BY <2>1, <2>2, <1>0, <1>1 DEF TypeOK, Job, Results
  <2> QED BY <2>3, <1>0 DEF TypeOK, Job
<1>3. /\ handle'[h] = o /\ o.key # None
      /\ \A x \in Handles \ {h} : handle'[x] = handle[x] /\ handle[x].key = None
      /\ LiveInv'
  BY <1>0, <1>1, <1>2, Grabs
<1>4. job.kind = "install" => job.old = ui.vault
  BY <1>0 DEF ScreenInv
<1>5. p = "write" => job.kind = "install"
  BY DEF Points
<1>6. /\ TypeOK' /\ NameInv' /\ ScreenInv'
      /\ wr'["bg"] = t /\ wr'["ui"] = wr["ui"]
  <2>1. lock' \in Handles \cup {Free, Other} /\ handle' \in [Handles -> Object \cup {NoHandle}]
    BY <1>0, <1>1 DEF TypeOK
  <2>2. knows' \in [pws : SUBSET Secret, codes : SUBSET Nat]
    BY <1>0 DEF TypeOK
  <2>3. j.pc \in {"write", "merge"} => j.h # j.old
    BY <1>1, <1>2, <1>4, <1>5
  <2>4. j.pc \notin {"zero", "close"} /\ j.h # Free
    BY <1>1, <1>2, Numbers
  <2>5. t.pc \notin {"idle", "ok", "failed"} => t.h = j.h
    BY <1>2
  <2>6. t.pc = "idle" <=> j.pc \notin InSave
    BY <1>2
  <2>7. j.pc \in Points(job.kind) \cup {"done"}
    BY <1>2
  <2>8. /\ j.kind = job.kind /\ j.old = job.old /\ job.kind \notin {"rekey", "reset"}
        /\ wr'["bg"] = t /\ wr'["ui"] = wr["ui"] /\ wr' \in [Writers -> Saves]
    BY <1>0, <1>2 DEF TypeOK, Writers, Saves
  <2> QED BY <2>1, <2>2, <2>3, <2>4, <2>5, <2>6, <2>7, <2>8, <1>2, CommandMoves
<1>7. GrabInv'
  <2>1. handle'[h] # NoHandle
    BY <1>3, Numbers
  <2> QED BY <2>1, <1>1, <1>2 DEF GrabInv
<1>8. OneWriter'
  <2>1. wr["ui"].pc \in Writing => wr["ui"].h \in Handles /\ wr["ui"].h = ui.vault
    BY SavesAVault DEF Writing, Busy, Writers
  <2>2. wr["ui"].pc \in Writing =>
           job.kind = "install" /\ job.old = wr["ui"].h /\ handle[job.old].key = None
    BY <2>1, <1>0, Numbers DEF OneWriter, Writing, Writers
  <2>3. wr["ui"].pc \in Writing => handle'[job.old].key = None
    BY <2>1, <2>2, <1>1, <1>3
  <2> QED BY <2>2, <2>3, <1>2, <1>6 DEF OneWriter, Writing, Writers
<1> QED BY <1>3, <1>6, <1>7, <1>8 DEF Base

LEMMA BgIdle ==
  ASSUME Base, job.pc \notin InSave
  PROVE  wr["bg"] = Idle /\ wr = [wr EXCEPT !["bg"] = Idle]
<1>1. wr["bg"] \in Saves /\ wr["bg"].pc = "idle"
  BY DEF Base, TypeOK, ScreenInv, Saves, Writers
<1>2. wr["bg"] = Idle
  BY <1>1, Shapes DEF Idle
<1> QED BY <1>2 DEF Base, TypeOK

\* A command is over, with the vault it had.
LEMMA Ends ==
  ASSUME Base, job.pc \notin {"done", "close"}, NEW r \in Results,
         r = "ok" /\ job.kind \notin {"rekey", "reset"} => Grabbed,
         job' = [job EXCEPT !.pc = "done", !.res = r], wr' = [wr EXCEPT !["bg"] = Idle],
         UNCHANGED <<data, synced, path, tmp, disk, lock, handle, ui, knows, acked, kept, raced, budget>>
  PROVE  Base'
<1>1. /\ handle' \in [Handles -> Object \cup {NoHandle}] /\ \A h \in Handles : Alike(h)
      /\ knows' \in [pws : SUBSET Secret, codes : SUBSET Nat]
  BY DEF Base, TypeOK, Alike
<1>2. PICK p : p = "done"
  OBVIOUS
<1>3. p \in (Points(job.kind) \cup {"done"}) \ {"close"} /\ p \notin InSave /\ {} \in Doc
  BY <1>2 DEF InSave, Doc
<1>4. p # "zero" /\ p \notin {"write", "merge", "save"} /\ job' = [job EXCEPT !.pc = p, !.res = r]
  BY <1>2
<1> QED BY <1>1, <1>2, <1>3, <1>4, Continues

\* A command goes on; none of its vault changes, and it saves nothing yet.
LEMMA GoesOn ==
  ASSUME Base, job.pc \notin {"done", "close"} \cup InSave,
         NEW p \in Points(job.kind), p \notin {"close"} \cup InSave,
         job' = [job EXCEPT !.pc = p], p = "zero" => job.old # Free,
         handle' \in [Handles -> Object \cup {NoHandle}], \A h \in Handles : Alike(h),
         knows' \in [pws : SUBSET Secret, codes : SUBSET Nat],
         UNCHANGED <<data, synced, path, tmp, disk, lock, wr, ui, acked, kept, raced, budget>>
  PROVE  Base'
<1>1. PICK r \in Results : job' = [job EXCEPT !.pc = p, !.res = r]
  <2>1. job.res \in Results /\ job' = [job EXCEPT !.pc = p, !.res = job.res]
    BY DEF Base, TypeOK, Job, Results
  <2> QED BY <2>1
<1>2. wr' = [wr EXCEPT !["bg"] = Idle] /\ {} \in Doc
  BY BgIdle DEF Doc
<1>3. p \notin {"write", "merge", "save", "done"}
  <2>1. \A k \in Kinds : "done" \notin Points(k)
    BY DEF Points, Kinds
  <2> QED BY <2>1 DEF InSave, Base, TypeOK, Job
<1> QED BY <1>1, <1>2, <1>3, Continues

\* A command writes the slots of its vault and saves it.
LEMMA Resaves ==
  ASSUME Base, job.pc # "done", job.kind \in {"rekey", "reset"},
         NEW p \in {"save", "unsave", "code"}, p \in Points(job.kind), job' = [job EXCEPT !.pc = p],
         handle' \in [Handles -> Object \cup {NoHandle}], \A h \in Handles : Alike(h),
         NEW d \in Doc, wr' = Begin("bg", job.h, d),
         UNCHANGED <<data, synced, path, tmp, disk, lock, ui, knows, acked, kept, raced, budget>>
  PROVE  Base'
<1>1. PICK r \in Results : job' = [job EXCEPT !.pc = p, !.res = r]
  <2>1. job.res \in Results /\ job' = [job EXCEPT !.pc = p, !.res = job.res]
    BY DEF Base, TypeOK, Job, Results
  <2> QED BY <2>1
<1>2. job.pc # "close" /\ p \in InSave /\ p \notin {"close", "zero", "write", "merge", "done"}
  BY DEF Base, ScreenInv, Points, InSave
<1>3. knows' \in [pws : SUBSET Secret, codes : SUBSET Nat]
  BY DEF Base, TypeOK
<1> QED BY <1>1, <1>2, <1>3, Continues

\* A command whose first write failed lets go of the vault it made.
LEMMA LetsGo ==
  ASSUME Base, Grabbed, job.pc # "done",
         job' = [job EXCEPT !.pc = "done", !.res = "err"], wr' = [wr EXCEPT !["bg"] = Idle],
         lock' = Free, handle' = [handle EXCEPT ![job.h] = NoHandle],
         UNCHANGED <<data, synced, path, tmp, disk, ui, knows, acked, kept, raced, budget>>
  PROVE  Base'
<1>0. TypeOK /\ ScreenInv /\ LiveInv /\ GrabInv /\ OneWriter
  BY DEF Base
<1>1. PICK g \in Handles : g = job.h /\ g # ui.vault /\ lock = g
  BY <1>0 DEF GrabInv
<1>2. /\ job' \in Job /\ job'.kind = job.kind /\ job'.pc = "done" /\ job'.res = "err"
      /\ job'.h = job.h /\ job'.old = job.old /\ job.kind \in {"create", "install"}
  BY <1>0 DEF TypeOK, Job, Grabbed, During
<1>3. /\ wr' \in [Writers -> Saves] /\ wr'["ui"] = wr["ui"] /\ wr'["bg"].pc = "idle"
  BY <1>0 DEF TypeOK, Writers, Saves, Idle, Resting
<1>4. /\ handle' \in [Handles -> Object \cup {NoHandle}] /\ handle'[g] = NoHandle
      /\ \A x \in Handles \ {g} : handle'[x] = handle[x] /\ handle[x].key = None
  BY <1>0, <1>1 DEF TypeOK, LiveInv
<1>5. "done" \notin InSave
  BY DEF InSave
<1>6. TypeOK' /\ NameInv' /\ ScreenInv'
  <2>1. knows' \in [pws : SUBSET Secret, codes : SUBSET Nat]
    BY <1>0 DEF TypeOK
  <2> QED BY <2>1, <1>2, <1>3, <1>4, <1>5, CommandMoves
<1>7. LiveInv'
  <2>1. ui.vault # Free => ui.vault \in Handles /\ handle'[ui.vault] # NoHandle
    BY <1>0, <1>1, <1>4 DEF LiveInv, TypeOK, Screen
  <2>2. \A x \in Handles : handle'[x].key = None /\ (handle'[x] # NoHandle => x = ui.vault)
    BY <1>0, <1>1, <1>4, Numbers DEF LiveInv
  <2> QED BY <2>1, <2>2, <1>2, <1>5 DEF LiveInv
<1>8. GrabInv'
  BY <1>2 DEF GrabInv, Grabbed, During
<1>9. OneWriter'
  <2>1. wr["ui"].pc \in Writing => wr["ui"].h \in Handles /\ wr["ui"].h = ui.vault
    BY SavesAVault DEF Writing, Busy, Writers
  <2>2. wr["ui"].pc \in Writing =>
           job.kind = "install" /\ job.old = wr["ui"].h /\ handle[job.old].key = None
    BY <2>1, <1>0, <1>1 DEF OneWriter, Writing, Writers
  <2> QED BY <2>1, <2>2, <1>1, <1>2, <1>3, <1>4 DEF OneWriter, Writing, Writers
<1> QED BY <1>6, <1>7, <1>8, <1>9 DEF Base

LEMMA CreateBeginsKeeps == Base /\ CreateBegins => Base'
<1> SUFFICES ASSUME Base, CreateBegins PROVE Base'
  OBVIOUS
<1>0. TypeOK /\ LiveInv /\ job.kind = "create" /\ job.pc = "begin" /\ job.pc \notin InSave
  BY DEF Base, CreateBegins, At, InSave
<1>1. CASE lock # Free
  <2>1. /\ job' = [job EXCEPT !.pc = "done", !.res = "locked"] /\ wr' = [wr EXCEPT !["bg"] = Idle]
        /\ UNCHANGED <<data, synced, path, tmp, disk, lock, handle, ui, knows, acked, kept, raced, budget>>
    BY <1>0, <1>1, BgIdle DEF CreateBegins, Result, files
  <2> QED BY <2>1, <1>0, Ends DEF Results
<1>2. CASE lock = Free
  <2>1. PICK h \in Handles : h = SpareHandle
    BY <1>0, <1>2, Spare
  <2>2. PICK o \in Object : o = Unlocked([pw |-> job.pw, rec |-> job.code, dek |-> "local", hosts |-> {}])
    BY <1>0 DEF Object, Unlocked, TypeOK, Job, Dek, Doc
  <2>3. PICK t \in Starting : t = [pc |-> "marshal", h |-> h, pay |-> {}]
    BY <2>1 DEF Starting, Doc
  <2>4. /\ lock' = h /\ handle' = [handle EXCEPT ![h] = o] /\ wr' = [wr EXCEPT !["bg"] = t]
        /\ job' = [job EXCEPT !.pc = "save", !.h = h]
        /\ UNCHANGED <<data, synced, path, tmp, disk, ui, knows, acked, kept, raced, budget>>
    BY <2>1, <2>2, <2>3, <1>2 DEF CreateBegins, Begin, files
  <2>5. PICK r \in Results : job' = [job EXCEPT !.pc = "save", !.h = h, !.res = r]
    <3>1. job.res \in Results /\ job' = [job EXCEPT !.pc = "save", !.h = h, !.res = job.res]
      BY <2>4, <1>0 DEF TypeOK, Job, Results
    <3> QED BY <3>1
  <2>6. o.key = o.dek /\ t \in Saves /\ t.pc = "marshal" /\ t.h = h
    BY <2>2, <2>3 DEF Unlocked, Saves
  <2>7. "save" \in InSave /\ "save" \in Points(job.kind)
    BY <1>0 DEF InSave, Points
  <2> QED BY <2>1, <2>4, <2>5, <2>6, <2>7, <1>0, <1>2, Grabbing
<1> QED BY <1>1, <1>2

LEMMA CreateEndsKeeps == Base /\ CreateEnds => Base'
<1> SUFFICES ASSUME Base, CreateEnds PROVE Base'
  OBVIOUS
<1>1. /\ job.kind = "create" /\ job.pc = "save" /\ wr["bg"].pc \in {"ok", "failed"} /\ Grabbed
      /\ wr' = [wr EXCEPT !["bg"] = Idle]
      /\ UNCHANGED <<data, synced, path, tmp, disk, ui, knows, acked, kept, raced, budget>>
  BY DEF CreateEnds, At, Returned, Rest, files, Grabbed, During
<1>2. CASE wr["bg"].pc = "ok"
  BY <1>1, <1>2, Ends DEF CreateEnds, Result, Results
<1>3. CASE wr["bg"].pc = "failed"
  <2>1. /\ job' = [job EXCEPT !.pc = "done", !.res = "err"] /\ lock' = Free
        /\ handle' = [handle EXCEPT ![job.h] = NoHandle]
    BY <1>3 DEF CreateEnds, Result
  <2> QED BY <2>1, <1>1, LetsGo
<1> QED BY <1>1, <1>2, <1>3

LEMMA OpenVaultKeeps == Base /\ OpenVault => Base'
<1> SUFFICES ASSUME Base, OpenVault PROVE Base'
  OBVIOUS
<1>0. TypeOK /\ LiveInv /\ job.kind \in {"open", "recover"} /\ job.pc = "begin" /\ job.pc \notin InSave
  BY DEF Base, OpenVault, InSave
<1>1. /\ UNCHANGED <<data, synced, path, tmp, disk, ui, knows, acked, kept, raced, budget>>
      /\ wr' = [wr EXCEPT !["bg"] = Idle]
  BY <1>0, BgIdle DEF OpenVault, files
<1>2. \/ \E r \in {"err", "wrong", "locked"} :
            job' = [job EXCEPT !.pc = "done", !.res = r] /\ UNCHANGED <<lock, handle>>
      \/ /\ lock = Free /\ IsVault(Contents(path)) /\ Contents(path).sealed
         /\ lock' = SpareHandle
         /\ handle' = [handle EXCEPT ![SpareHandle] = Unlocked(Contents(path))]
         /\ job' = [job EXCEPT !.pc = "done", !.h = SpareHandle, !.res = "ok"]
  BY DEF OpenVault, Result
<1>3. CASE \E r \in {"err", "wrong", "locked"} :
             job' = [job EXCEPT !.pc = "done", !.res = r] /\ UNCHANGED <<lock, handle>>
  BY <1>0, <1>1, <1>3, Ends DEF Results
<1>4. CASE /\ lock = Free /\ IsVault(Contents(path)) /\ Contents(path).sealed
           /\ lock' = SpareHandle
           /\ handle' = [handle EXCEPT ![SpareHandle] = Unlocked(Contents(path))]
           /\ job' = [job EXCEPT !.pc = "done", !.h = SpareHandle, !.res = "ok"]
  <2>1. PICK h \in Handles : h = SpareHandle
    BY <1>0, <1>4, Spare
  <2>2. PICK c \in File : c = Contents(path)
    BY <1>0, <1>4 DEF Contents, IsVault, Gone, TypeOK, Bytes, Torn, Empty
  <2>3. PICK o \in Object : o = Unlocked(c)
    BY DEF Object, Unlocked, File
  <2>4. /\ lock' = h /\ handle' = [handle EXCEPT ![h] = o]
        /\ job' = [job EXCEPT !.pc = "done", !.h = h, !.res = "ok"]
    BY <2>1, <2>2, <2>3, <1>4
  <2>5. o.key = o.dek
    BY <2>3 DEF Unlocked
  <2>6. PICK t \in Saves : t = Idle
    BY DEF Saves, Resting, Idle
  <2>7. PICK p \in {"save", "write", "done"} : p = "done" /\ p \notin InSave
    BY DEF InSave
  <2>8. PICK r \in Results : r = "ok"
    BY DEF Results
  <2>9. /\ job' = [job EXCEPT !.pc = p, !.h = h, !.res = r] /\ wr' = [wr EXCEPT !["bg"] = t]
        /\ p \in Points(job.kind) \cup {"done"} /\ job.pc # "done"
    BY <2>4, <2>6, <2>7, <2>8, <1>0, <1>1
  <2>10. t.pc = "idle" /\ job.kind \in {"create", "open", "recover", "install"}
    BY <2>6, <1>0 DEF Idle
  <2>11. lock = Free /\ lock' = h /\ handle' = [handle EXCEPT ![h] = o]
    BY <2>4, <1>4
  <2> QED BY <2>1, <2>5, <2>7, <2>9, <2>10, <2>11, <1>1, Grabbing
<1> QED BY <1>2, <1>3, <1>4

LEMMA RekeyVerifiesKeeps == Base /\ RekeyVerifies => Base'
<1> SUFFICES ASSUME Base, RekeyVerifies PROVE Base'
  OBVIOUS
<1>0. TypeOK /\ job.kind = "rekey" /\ job.pc = "begin" /\ job.pc \notin InSave
  BY DEF Base, RekeyVerifies, At, InSave
<1>1. UNCHANGED <<data, synced, path, tmp, disk, lock, handle, wr, ui, acked, kept, raced, budget>>
  BY DEF RekeyVerifies, files
<1>2. CASE \E r \in {"err", "wrong"} :
             job' = [job EXCEPT !.pc = "done", !.res = r] /\ UNCHANGED knows
  <2>1. wr' = [wr EXCEPT !["bg"] = Idle]
    BY <1>0, <1>1, BgIdle
  <2> QED BY <2>1, <1>0, <1>1, <1>2, Ends DEF Results
<1>3. CASE job' = [job EXCEPT !.pc = "salt"] /\ Learns(job.pw)
  <2>1. /\ handle' \in [Handles -> Object \cup {NoHandle}] /\ \A h \in Handles : Alike(h)
        /\ knows' \in [pws : SUBSET Secret, codes : SUBSET Nat]
    BY <1>0, <1>1, <1>3 DEF TypeOK, Alike, Learns, Job
  <2>2. "salt" \in Points(job.kind) /\ "salt" \notin {"close"} \cup InSave
    BY <1>0 DEF Points, InSave
  <2> QED BY <2>1, <2>2, <1>0, <1>1, <1>3, GoesOn
<1> QED BY <1>2, <1>3 DEF RekeyVerifies, Result, GoTo

\* The vault of a re-key or a reset is the screen's.
LEMMA HasTheScreens ==
  ASSUME Base, job.kind \in {"rekey", "reset"}
  PROVE  job.h \in Handles /\ handle[job.h] \in Object /\ handle[job.h].pay \in Doc
<1>1. job.h = ui.vault /\ ui.vault # Free
  BY DEF Base, ScreenInv
<1>2. job.h \in Handles /\ handle[job.h] \in Object
  BY <1>1 DEF Base, LiveInv, TypeOK, Screen
<1> QED BY <1>2 DEF Object

LEMMA RekeySaltKeeps == Base /\ RekeySalt => Base'
<1> SUFFICES ASSUME Base, RekeySalt PROVE Base'
  OBVIOUS
<1>0. TypeOK /\ job.kind = "rekey" /\ job.pc \in {"salt", "unsalt"} /\ job.pc \notin InSave
  BY DEF Base, RekeySalt, InSave
<1>1. PICK v \in Object : v = handle[job.h] /\ job.h \in Handles
  BY <1>0, HasTheScreens
<1>2. PICK u \in Object : u = [v EXCEPT !.pw = Garbled]
  BY DEF Object, Secret
<1>3. u.key = v.key /\ u.dek = v.dek
  BY <1>2 DEF Object
<1>4. PICK p \in {"wrap", "unwrap"} : job' = [job EXCEPT !.pc = p]
  BY DEF RekeySalt, GoTo
<1>5. /\ handle' = [handle EXCEPT ![job.h] = u]
      /\ UNCHANGED <<data, synced, path, tmp, disk, lock, wr, ui, knows, acked, kept, raced, budget>>
  BY <1>0, <1>1, <1>2 DEF RekeySalt, files, TypeOK
<1>6. /\ handle' \in [Handles -> Object \cup {NoHandle}] /\ \A h \in Handles : Alike(h)
      /\ knows' \in [pws : SUBSET Secret, codes : SUBSET Nat]
  BY <1>0, <1>1, <1>3, <1>5, Rewritten DEF TypeOK
<1>7. p \in Points(job.kind) /\ p \notin {"close"} \cup InSave /\ p # "zero"
  BY <1>0 DEF Points, InSave
<1> QED BY <1>0, <1>4, <1>5, <1>6, <1>7, GoesOn

LEMMA RekeyWrapKeeps == Base /\ RekeyWrap => Base'
<1> SUFFICES ASSUME Base, RekeyWrap PROVE Base'
  OBVIOUS
<1>0. TypeOK /\ job.kind = "rekey" /\ job.pc \in {"wrap", "unwrap"}
  BY DEF Base, RekeyWrap
<1>1. PICK v \in Object : v = handle[job.h] /\ job.h \in Handles /\ v.pay \in Doc
  BY <1>0, HasTheScreens
<1>2. PICK u \in Object : u = [v EXCEPT !.pw = IF job.pc = "wrap" THEN job.pw ELSE job.cur]
  BY <1>0 DEF Object, TypeOK, Job
<1>3. u.key = v.key /\ u.dek = v.dek
  BY <1>2 DEF Object
<1>4. PICK p \in {"save", "unsave"} : job' = [job EXCEPT !.pc = p]
  BY DEF RekeyWrap, GoTo
<1>5. /\ handle' = [handle EXCEPT ![job.h] = u] /\ wr' = Begin("bg", job.h, v.pay)
      /\ UNCHANGED <<data, synced, path, tmp, disk, lock, ui, knows, acked, kept, raced, budget>>
  BY <1>0, <1>1, <1>2 DEF RekeyWrap, files, TypeOK
<1>6. handle' \in [Handles -> Object \cup {NoHandle}] /\ \A h \in Handles : Alike(h)
  BY <1>0, <1>1, <1>3, <1>5, Rewritten
<1>7. p \in {"save", "unsave", "code"} /\ p \in Points(job.kind)
  BY <1>0 DEF Points
<1> QED BY <1>0, <1>1, <1>4, <1>5, <1>6, <1>7, Resaves

LEMMA RekeySavedKeeps == Base /\ RekeySaved => Base'
<1> SUFFICES ASSUME Base, RekeySaved PROVE Base'
  OBVIOUS
<1>1. /\ job.kind = "rekey" /\ job.pc \in {"save", "unsave"} /\ wr' = [wr EXCEPT !["bg"] = Idle]
      /\ UNCHANGED <<data, synced, path, tmp, disk, lock, handle, ui, knows, acked, kept, raced, budget>>
  BY DEF RekeySaved, Rest, files
<1>2. CASE \E r \in {"ok", "err"} : job' = [job EXCEPT !.pc = "done", !.res = r]
  BY <1>1, <1>2, Ends DEF Results
<1>3. CASE job' = [job EXCEPT !.pc = "unsalt"]
  <2>1. /\ handle' \in [Handles -> Object \cup {NoHandle}] /\ \A h \in Handles : Alike(h)
        /\ knows' \in [pws : SUBSET Secret, codes : SUBSET Nat] /\ {} \in Doc
    BY <1>1 DEF Base, TypeOK, Alike, Doc
  <2>2. PICK r \in Results : job' = [job EXCEPT !.pc = "unsalt", !.res = r]
    <3>1. job.res \in Results /\ job' = [job EXCEPT !.pc = "unsalt", !.res = job.res]
      BY <1>3 DEF Base, TypeOK, Job, Results
    <3> QED BY <3>1
  <2>3. PICK p \in {"unsalt"} : p \in Points(job.kind) /\ p \notin InSave
    BY <1>1 DEF Points, InSave
  <2>4. p \notin {"close", "zero", "write", "merge", "save", "done"} /\ job.pc \notin {"done", "close"}
    BY <1>1
  <2> QED BY <2>1, <2>2, <2>3, <2>4, <1>1, Continues
<1> QED BY <1>2, <1>3 DEF RekeySaved, Result, GoTo

LEMMA ResetBeginsKeeps == Base /\ ResetBegins => Base'
<1> SUFFICES ASSUME Base, ResetBegins PROVE Base'
  OBVIOUS
<1>0. TypeOK /\ job.kind = "reset" /\ job.pc = "begin"
  BY DEF Base, ResetBegins, At
<1>1. PICK v \in Object : v = handle[job.h] /\ job.h \in Handles /\ v.pay \in Doc
  BY <1>0, HasTheScreens
<1>2. PICK u \in Object : u = [v EXCEPT !.pw = job.pw]
  BY <1>0 DEF Object, TypeOK, Job
<1>3. u.key = v.key /\ u.dek = v.dek
  BY <1>2 DEF Object
<1>4. /\ handle' = [handle EXCEPT ![job.h] = u] /\ wr' = Begin("bg", job.h, v.pay)
      /\ job' = [job EXCEPT !.pc = "save"]
      /\ UNCHANGED <<data, synced, path, tmp, disk, lock, ui, knows, acked, kept, raced, budget>>
  BY <1>0, <1>1, <1>2 DEF ResetBegins, GoTo, files, TypeOK
<1>5. handle' \in [Handles -> Object \cup {NoHandle}] /\ \A h \in Handles : Alike(h)
  BY <1>0, <1>1, <1>3, <1>4, Rewritten
<1>6. "save" \in Points(job.kind)
  BY <1>0 DEF Points
<1> QED BY <1>0, <1>1, <1>4, <1>5, <1>6, Resaves

LEMMA RegeneratesKeeps == Base /\ Regenerates => Base'
<1> SUFFICES ASSUME Base, Regenerates PROVE Base'
  OBVIOUS
<1>0. /\ TypeOK /\ job.kind = "reset" /\ job.pc = "save"
      /\ UNCHANGED <<data, synced, path, tmp, disk, lock, ui, knows, acked, kept, raced, budget>>
  BY DEF Base, Regenerates, At, files
<1>1. CASE wr["bg"].pc = "failed"
  BY <1>0, <1>1, Ends DEF Regenerates, Result, Rest, Results
<1>2. CASE wr["bg"].pc # "failed"
  <2>1. PICK v \in Object : v = handle[job.h] /\ job.h \in Handles /\ v.pay \in Doc
    BY <1>0, HasTheScreens
  <2>2. PICK u \in Object : u = [v EXCEPT !.rec = job.code]
    BY <1>0 DEF Object, TypeOK, Job
  <2>3. u.key = v.key /\ u.dek = v.dek
    BY <2>2 DEF Object
  <2>4. /\ handle' = [handle EXCEPT ![job.h] = u] /\ wr' = Begin("bg", job.h, v.pay)
        /\ job' = [job EXCEPT !.pc = "code"]
    BY <1>0, <1>2, <2>1, <2>2 DEF Regenerates, GoTo, TypeOK
  <2>5. handle' \in [Handles -> Object \cup {NoHandle}] /\ \A h \in Handles : Alike(h)
    BY <1>0, <2>1, <2>3, <2>4, Rewritten
  <2>6. "code" \in Points(job.kind)
    BY <1>0 DEF Points
  <2> QED BY <1>0, <2>1, <2>4, <2>5, <2>6, Resaves
<1> QED BY <1>1, <1>2

LEMMA ResetEndsKeeps == Base /\ ResetEnds => Base'
<1> SUFFICES ASSUME Base, ResetEnds PROVE Base'
  OBVIOUS
<1>1. /\ job.kind = "reset" /\ job.pc = "code" /\ wr' = [wr EXCEPT !["bg"] = Idle]
      /\ UNCHANGED <<data, synced, path, tmp, disk, lock, handle, ui, knows, acked, kept, raced, budget>>
  BY DEF ResetEnds, At, Rest, files
<1>2. PICK r \in {"ok", "err"} : job' = [job EXCEPT !.pc = "done", !.res = r]
  BY DEF ResetEnds, Result
<1> QED BY <1>1, <1>2, Ends DEF Results

LEMMA InstallChecksKeeps == Base /\ InstallChecks => Base'
<1> SUFFICES ASSUME Base, InstallChecks PROVE Base'
  OBVIOUS
<1>0. /\ TypeOK /\ job.kind = "install" /\ job.pc = "begin" /\ job.pc \notin {"done", "close"} \cup InSave
      /\ UNCHANGED <<data, synced, path, tmp, disk, lock, handle, wr, ui, knows, acked, kept, raced, budget>>
  BY DEF Base, InstallChecks, At, InSave, files
<1>1. CASE job' = [job EXCEPT !.pc = "done", !.res = "wrong"]
  <2>1. wr' = [wr EXCEPT !["bg"] = Idle]
    BY <1>0, BgIdle
  <2> QED BY <2>1, <1>0, <1>1, Ends DEF Results
<1>2. CASE \E p \in {"take", "zero"} : job' = [job EXCEPT !.pc = p] /\ (p = "zero" => job.old # Free)
  <2>1. PICK p \in {"take", "zero"} : job' = [job EXCEPT !.pc = p] /\ (p = "zero" => job.old # Free)
    BY <1>2
  <2>2. p \in Points(job.kind) /\ p \notin {"close"} \cup InSave
    BY <1>0 DEF Points, InSave
  <2>3. /\ handle' \in [Handles -> Object \cup {NoHandle}] /\ \A h \in Handles : Alike(h)
        /\ knows' \in [pws : SUBSET Secret, codes : SUBSET Nat]
    BY <1>0 DEF TypeOK, Alike
  <2> QED BY <2>1, <2>2, <2>3, <1>0, GoesOn
<1> QED BY <1>1, <1>2 DEF InstallChecks, Result, GoTo

LEMMA InstallZeroesKeeps == Base /\ InstallZeroes => Base'
<1> SUFFICES ASSUME Base, InstallZeroes PROVE Base'
  OBVIOUS
<1>0. /\ TypeOK /\ ScreenInv /\ LiveInv /\ OneWriter /\ job.kind = "install" /\ job.pc = "zero"
      /\ UNCHANGED <<data, synced, path, tmp, disk, lock, wr, ui, knows, acked, kept, raced, budget>>
  BY DEF Base, InstallZeroes, At, files
<1>1. job.old = ui.vault /\ job.old \in Handles /\ handle[job.old] \in Object
  <2>1. job.old = ui.vault /\ ui.vault # Free
    BY <1>0 DEF ScreenInv, During
  <2> QED BY <2>1, <1>0 DEF LiveInv, TypeOK, Screen
<1>2. PICK v \in Object : v = handle[job.old]
  BY <1>1
<1>3. PICK u \in Object : u = [v EXCEPT !.key = IF @ = None THEN None ELSE "zero"]
  BY DEF Object
<1>4. u.dek = v.dek /\ (u.key = None <=> v.key = None) /\ u # NoHandle /\ v # NoHandle
  BY <1>3, Numbers DEF Object, None
<1>5. /\ handle' = [handle EXCEPT ![job.old] = u]
      /\ handle'[job.old] = u /\ \A x \in Handles \ {job.old} : handle'[x] = handle[x]
      /\ handle' \in [Handles -> Object \cup {NoHandle}]
  BY <1>0, <1>1, <1>2, <1>3 DEF InstallZeroes, TypeOK
<1>6. /\ job' \in Job /\ job'.kind = "install" /\ job'.pc = "close" /\ job'.old = job.old
      /\ job'.h = job.h
  BY <1>0 DEF InstallZeroes, GoTo, TypeOK, Job
<1>7. "close" \in Points("install") /\ "close" \notin InSave /\ "zero" \notin InSave
  BY DEF Points, InSave
<1>8. TypeOK' /\ NameInv' /\ ScreenInv'
  <2>1. wr' \in [Writers -> Saves] /\ wr'["ui"] = wr["ui"] /\ wr'["bg"].pc = "idle"
    BY <1>0, <1>7 DEF TypeOK, ScreenInv, Saves
  <2>2. lock' \in Handles \cup {Free, Other} /\ knows' \in [pws : SUBSET Secret, codes : SUBSET Nat]
    BY <1>0 DEF TypeOK
  <2> QED BY <2>1, <2>2, <1>0, <1>1, <1>5, <1>6, <1>7, Numbers, CommandMoves
<1>9. LiveInv'
  BY <1>0, <1>1, <1>2, <1>4, <1>5, <1>6, <1>7 DEF LiveInv, During
<1>10. GrabInv'
  BY <1>6 DEF GrabInv, Grabbed, During
<1>11. OneWriter'
  BY <1>0, <1>1, <1>2, <1>4, <1>5, <1>6 DEF OneWriter
<1> QED BY <1>8, <1>9, <1>10, <1>11 DEF Base

LEMMA InstallClosesKeeps == Base /\ InstallCloses => Base'
<1> SUFFICES ASSUME Base, InstallCloses PROVE Base'
  OBVIOUS
<1>0. /\ TypeOK /\ ScreenInv /\ LiveInv /\ OneWriter /\ job.kind = "install" /\ job.pc = "close"
      /\ lock' = (IF lock = job.old THEN Free ELSE lock)
      /\ UNCHANGED <<data, synced, path, tmp, disk, wr, ui, knows, acked, kept, raced, budget>>
  BY DEF Base, InstallCloses, At, files
<1>1. job.old = ui.vault /\ job.old \in Handles /\ handle[job.old] \in Object
  <2>1. job.old = ui.vault /\ ui.vault # Free
    BY <1>0 DEF ScreenInv, During
  <2> QED BY <2>1, <1>0 DEF LiveInv, TypeOK, Screen
<1>2. PICK v \in Object : v = handle[job.old]
  BY <1>1
<1>3. PICK u \in Object : u = [v EXCEPT !.key = None]
  BY DEF Object
<1>4. u.key = None /\ u # NoHandle
  BY <1>3, Numbers DEF Object
<1>5. /\ handle' = [handle EXCEPT ![job.old] = u]
      /\ handle'[job.old] = u /\ \A x \in Handles \ {job.old} : handle'[x] = handle[x]
      /\ handle' \in [Handles -> Object \cup {NoHandle}]
  BY <1>0, <1>1, <1>2, <1>3 DEF InstallCloses, TypeOK
<1>6. /\ job' \in Job /\ job'.kind = "install" /\ job'.pc = "take" /\ job'.old = job.old
      /\ job'.h = job.h
  BY <1>0 DEF InstallCloses, GoTo, TypeOK, Job
<1>7. "take" \in Points("install") /\ "take" \notin InSave /\ "close" \notin InSave
  BY DEF Points, InSave
<1>8. TypeOK' /\ NameInv' /\ ScreenInv' /\ wr["bg"].pc = "idle"
  <2>1. wr' \in [Writers -> Saves] /\ wr'["ui"] = wr["ui"] /\ wr["bg"].pc = "idle" /\ wr'["bg"].pc = "idle"
    BY <1>0, <1>7 DEF TypeOK, ScreenInv, Saves
  <2>2. lock' \in Handles \cup {Free, Other} /\ knows' \in [pws : SUBSET Secret, codes : SUBSET Nat]
    BY <1>0 DEF TypeOK
  <2> QED BY <2>1, <2>2, <1>0, <1>1, <1>5, <1>6, <1>7, CommandMoves
<1>9. LiveInv'
  <2>1. \A x \in Handles : /\ handle'[x].key # None => lock' = x
                           /\ handle'[x] # NoHandle => x = ui.vault \/ x = lock'
                           /\ handle'[x].key \in {None, handle'[x].dek}
    BY <1>0, <1>1, <1>4, <1>5 DEF LiveInv, During
  <2>2. ui' = ui /\ handle'[ui.vault] # NoHandle /\ job'.pc \notin InSave
    BY <1>0, <1>1, <1>4, <1>5, <1>6, <1>7
  <2> QED BY <2>1, <2>2 DEF LiveInv
<1>10. GrabInv'
  BY <1>6 DEF GrabInv, Grabbed, During
<1>11. OneWriter'
  <2>1. wr["ui"].pc \in Writing => wr["ui"].h = ui.vault
    BY SavesAVault DEF Writing, Busy, Writers
  <2> QED BY <2>1, <1>0, <1>1, <1>4, <1>5, <1>6, <1>8 DEF OneWriter, Writing, Writers
<1> QED BY <1>8, <1>9, <1>10, <1>11 DEF Base

LEMMA InstallTakesLockKeeps == Base /\ InstallTakesLock => Base'
<1> SUFFICES ASSUME Base, InstallTakesLock PROVE Base'
  OBVIOUS
<1>0. /\ TypeOK /\ LiveInv /\ job.kind = "install" /\ job.pc = "take"
      /\ job.pc \notin {"done", "close"} \cup InSave
      /\ UNCHANGED <<data, synced, path, tmp, disk, ui, knows, acked, kept, raced, budget>>
  BY DEF Base, InstallTakesLock, At, InSave, files
<1>1. CASE lock # Free
  <2>1. /\ job' = [job EXCEPT !.pc = "done", !.res = "locked"] /\ wr' = [wr EXCEPT !["bg"] = Idle]
        /\ UNCHANGED <<lock, handle>>
    BY <1>0, <1>1, BgIdle DEF InstallTakesLock, Result, LockFree
  <2> QED BY <2>1, <1>0, Ends DEF Results
<1>2. CASE lock = Free
  <2>1. PICK h \in Handles : h = SpareHandle
    BY <1>0, <1>2, Spare
  <2>2. Blob \in File
    BY DEF Blob, File, Secret, Dek, Doc, AccountCode
  <2>3. PICK o \in Object : o = Unlocked(Blob)
    BY <2>2 DEF Object, Unlocked, File
  <2>4. o.key = o.dek
    BY <2>3 DEF Unlocked
  <2>5. PICK t \in Sealing : t = [pc |-> "open", h |-> h, out |-> Blob]
    BY <2>1, <2>2 DEF Sealing
  <2>6. t \in Saves /\ t.pc = "open" /\ t.h = h
    BY <2>5 DEF Saves
  <2>7. /\ lock' = h /\ handle' = [handle EXCEPT ![h] = o] /\ wr' = [wr EXCEPT !["bg"] = t]
        /\ job' = [job EXCEPT !.pc = "write", !.h = h]
    BY <2>1, <2>3, <2>5, <1>2 DEF InstallTakesLock, LockFree
  <2>8. PICK p \in {"save", "write", "done"} : p = "write" /\ p \in InSave /\ p \in Points(job.kind)
    BY <1>0 DEF InSave, Points
  <2>9. PICK r \in Results : job' = [job EXCEPT !.pc = p, !.h = h, !.res = r]
    <3>1. job.res \in Results /\ job' = [job EXCEPT !.pc = p, !.h = h, !.res = job.res]
      BY <2>7, <2>8, <1>0 DEF TypeOK, Job, Results
    <3> QED BY <3>1
  <2>10. /\ job.pc # "done" /\ job.kind \in {"create", "open", "recover", "install"}
         /\ t.pc = "idle" <=> p \notin InSave
    BY <2>6, <2>8, <1>0
  <2> QED BY <2>1, <2>4, <2>6, <2>7, <2>8, <2>9, <2>10, <1>0, <1>2, Grabbing
<1> QED BY <1>1, <1>2

LEMMA InstallWroteKeeps == Base /\ InstallWrote => Base'
<1> SUFFICES ASSUME Base, InstallWrote PROVE Base'
  OBVIOUS
<1>0. /\ TypeOK /\ job.kind = "install" /\ job.pc = "write" /\ job.pc \notin {"done", "close"} /\ Grabbed
      /\ UNCHANGED <<data, synced, path, tmp, disk, ui, knows, acked, kept, raced, budget>>
  BY DEF Base, InstallWrote, At, files, Grabbed, During
<1>1. CASE wr["bg"].pc = "failed"
  BY <1>0, <1>1, LetsGo DEF InstallWrote, Result, Rest
<1>2. CASE /\ job' = [job EXCEPT !.pc = "done", !.res = "ok"] /\ wr' = [wr EXCEPT !["bg"] = Idle]
           /\ UNCHANGED <<lock, handle>>
  BY <1>0, <1>2, Ends DEF Results
<1>3. CASE /\ job' = [job EXCEPT !.pc = "merge"] /\ wr' = Begin("bg", job.h, Merged)
           /\ UNCHANGED <<lock, handle>>
  <2>1. Merged \in Doc
    BY <1>0 DEF Merged, TypeOK, Job, Doc
  <2>2. /\ handle' \in [Handles -> Object \cup {NoHandle}] /\ \A h \in Handles : Alike(h)
        /\ knows' \in [pws : SUBSET Secret, codes : SUBSET Nat]
    BY <1>0, <1>3 DEF TypeOK, Alike
  <2>3. PICK r \in Results : job' = [job EXCEPT !.pc = "merge", !.res = r]
    <3>1. job.res \in Results /\ job' = [job EXCEPT !.pc = "merge", !.res = job.res]
      BY <1>0, <1>3 DEF TypeOK, Job, Results
    <3> QED BY <3>1
  <2>4. PICK p \in {"merge"} : p \in Points(job.kind) /\ p \in InSave
    BY <1>0 DEF Points, InSave
  <2>5. p \notin {"close", "zero"}
    OBVIOUS
  <2> QED BY <2>1, <2>2, <2>3, <2>4, <2>5, <1>0, <1>3, Continues
<1> QED BY <1>1, <1>2, <1>3 DEF InstallWrote, Result, GoTo, Rest

LEMMA InstallMergedKeeps == Base /\ InstallMerged => Base'
<1> SUFFICES ASSUME Base, InstallMerged PROVE Base'
  OBVIOUS
<1>1. /\ job.kind = "install" /\ job.pc = "merge" /\ wr' = [wr EXCEPT !["bg"] = Idle] /\ Grabbed
      /\ UNCHANGED <<data, synced, path, tmp, disk, lock, handle, ui, knows, acked, kept, raced, budget>>
  BY DEF InstallMerged, At, Rest, files, Grabbed, During
<1>2. PICK r \in {"ok", "err"} : job' = [job EXCEPT !.pc = "done", !.res = r]
  BY DEF InstallMerged, Result
<1> QED BY <1>1, <1>2, Ends DEF Results

LEMMA GoroutineKeeps == Base /\ Goroutine => Base'
BY CreateBeginsKeeps, CreateEndsKeeps, OpenVaultKeeps, RekeyVerifiesKeeps, RekeySaltKeeps,
   RekeyWrapKeeps, RekeySavedKeeps, ResetBeginsKeeps, RegeneratesKeeps, ResetEndsKeeps,
   InstallChecksKeeps, InstallZeroesKeeps, InstallClosesKeeps, InstallTakesLockKeeps,
   InstallWroteKeeps, InstallMergedKeeps DEF Goroutine

---------------------------------------------------------------------------
(* What holds always: the event loop *)

\* Nobody writes while a result waits and the event loop is not in a save.
LEMMA AtRest ==
  ASSUME Base, UiFree, job.pc = "done"
  PROVE  /\ wr["ui"] = Idle /\ wr["bg"] = Idle /\ Idle.pc = "idle"
         /\ \A w \in Writers : wr[w] = Idle
<1>1. wr["ui"] \in Saves /\ wr["ui"].pc = "idle"
  BY DEF Base, TypeOK, Saves, Writers, UiFree
<1>2. wr["ui"] = Idle /\ Idle.pc = "idle"
  BY <1>1, Shapes DEF Idle
<1>3. wr["bg"] = Idle
  BY BgIdle DEF InSave
<1> QED BY <1>2, <1>3 DEF Writers

\* A command starts from a step that waits for none.
LEMMA Asks ==
  ASSUME Base, UiFree, job = NoJob, NEW j \in Job, j.pc = "begin", j.kind # "none", job' = j,
         ui' = [ui EXCEPT !.step = IF j.kind = "rekey" THEN "rekeying" ELSE "busy"],
         j.kind \in {"rekey", "reset"} => j.h = ui.vault /\ ui.vault # Free,
         j.kind \in {"create", "open", "recover"} => ui.vault = Free,
         j.kind = "install" => j.old = ui.vault /\ ui.step = "password",
         knows' \in [pws : SUBSET Secret, codes : SUBSET Nat], budget' \in Budget,
         UNCHANGED <<data, synced, path, tmp, disk, lock, handle, wr, acked, kept, raced>>
  PROVE  Base'
<1>0. TypeOK /\ ScreenInv /\ LiveInv /\ NameInv
  BY DEF Base
<1>1. job.kind = "none" /\ job.pc = "done" /\ "begin" \notin InSave
  BY NoJobIs DEF InSave
<1>2. wr["ui"] = Idle /\ wr["bg"] = Idle /\ Idle.pc = "idle"
  BY <1>1, AtRest
<1>3. /\ ui'.step = (IF j.kind = "rekey" THEN "rekeying" ELSE "busy") /\ ui'.vault = ui.vault
      /\ ui'.boot = ui.boot
  BY <1>0 DEF TypeOK, Screen
<1>4. TypeOK' /\ NameInv'
  <2>1. ui' \in Screen
    BY <1>0 DEF TypeOK, Screen, Steps
  <2> QED BY <2>1, <1>0 DEF TypeOK, Budget, NameInv
<1>5. ScreenInv'
  <2>1. j.pc \in Points(j.kind)
    BY DEF Points, Job, Kinds
  <2> QED BY <2>1, <1>0, <1>1, <1>2, <1>3 DEF ScreenInv, During
<1>6. LiveInv'
  BY <1>0, <1>1, <1>3 DEF LiveInv, During
<1>7. GrabInv' /\ OneWriter'
  BY <1>2 DEF GrabInv, Grabbed, During, OneWriter, Writers
<1> QED BY <1>4, <1>5, <1>6, <1>7 DEF Base

\* The event loop takes a result, or moves between the screens without one.
LEMMA Turns ==
  ASSUME Base, UiFree, job.pc = "done", job' = NoJob, NEW s \in Screen, ui' = s,
         s.step \notin {"busy", "rekeying"},
         s.step \in {"choose", "create", "unlock", "locked"} => s.vault = Free,
         s.step \in {"main", "showcode", "reset", "locking"} \/ s.boot = "adopt" => s.vault # Free,
         s.step = "password" => s.boot = "adopt" \/ s.vault = Free,
         handle' \in [Handles -> Object \cup {NoHandle}],
         \A h \in Handles : handle'[h] = handle[h] \/ handle'[h] = NoHandle,
         \A h \in Handles : handle'[h] # NoHandle => h = s.vault \/ h = lock,
         s.vault # Free => handle'[s.vault] # NoHandle,
         knows' \in [pws : SUBSET Secret, codes : SUBSET Nat],
         UNCHANGED <<data, synced, path, tmp, disk, lock, wr, acked, kept, raced, budget>>
  PROVE  Base'
<1>0. TypeOK /\ ScreenInv /\ LiveInv /\ NameInv
  BY DEF Base
<1>1. wr["ui"] = Idle /\ wr["bg"] = Idle /\ Idle.pc = "idle"
  BY AtRest
<1>2. TypeOK' /\ NameInv'
  BY <1>0, NoJobIs DEF TypeOK, NameInv
<1>3. ScreenInv'
  <2>1. s.step # "rekeying" /\ s.step # "busy"
    OBVIOUS
  <2> QED BY <2>1, <1>0, <1>1, NoJobIs DEF ScreenInv, During
<1>4. LiveInv'
  <2>1. \A h \in Handles : handle'[h].key # None => handle'[h] = handle[h]
    BY Numbers
  <2>2. \A h \in Handles : handle'[h].key \in {None, handle'[h].dek}
    BY <2>1, <1>0 DEF LiveInv, During
  <2> QED BY <2>1, <2>2, <1>0, NoJobIs DEF LiveInv, During
<1>5. GrabInv' /\ OneWriter'
  BY <1>1, NoJobIs DEF GrabInv, Grabbed, During, OneWriter, Writers
<1> QED BY <1>2, <1>3, <1>4, <1>5 DEF Base

\* The screen keeps the vault it has.
LEMMA TurnsTo ==
  ASSUME Base, UiFree, job.pc = "done", job' = NoJob, NEW s \in Screen, ui' = s,
         s.vault = ui.vault, s.step \notin {"busy", "rekeying"},
         s.step \in {"choose", "create", "unlock", "locked"} => s.vault = Free,
         s.step \in {"main", "showcode", "reset", "locking"} \/ s.boot = "adopt" => s.vault # Free,
         s.step = "password" => s.boot = "adopt" \/ s.vault = Free,
         handle' = handle,
         knows' \in [pws : SUBSET Secret, codes : SUBSET Nat],
         UNCHANGED <<data, synced, path, tmp, disk, lock, wr, acked, kept, raced, budget>>
  PROVE  Base'
<1>1. /\ handle' \in [Handles -> Object \cup {NoHandle}]
      /\ \A h \in Handles : handle'[h] = handle[h] \/ handle'[h] = NoHandle
      /\ \A h \in Handles : handle'[h] # NoHandle => h = s.vault \/ h = lock
      /\ s.vault # Free => handle'[s.vault] # NoHandle
  BY DEF Base, TypeOK, LiveInv
<1> QED BY <1>1, Turns

LEMMA NoCommand ==
  ASSUME Base, ui.step \notin {"busy", "rekeying"}
  PROVE  /\ job = NoJob /\ job.pc = "done" /\ job.res # "ok" /\ TypeOK /\ ScreenInv /\ ui \in Screen
         /\ knows \in [pws : SUBSET Secret, codes : SUBSET Nat]
<1>1. job = NoJob /\ TypeOK /\ ScreenInv
  BY DEF Base, ScreenInv
<1> QED BY <1>1, NoJobIs DEF TypeOK

LEMMA CreateEnterKeeps == ASSUME Base, NEW pw \in Passwords, CreateEnter(pw) PROVE Base'
<1>0. TypeOK /\ ScreenInv /\ pw \in Secret /\ ui.step \in {"choose", "create"}
  BY DEF Base, Secret, CreateEnter
<1>1. /\ knows' \in [pws : SUBSET Secret, codes : SUBSET Nat] /\ pw \in knows'.pws
      /\ knows.pws \subseteq knows'.pws /\ knows.codes \subseteq knows'.codes
  BY <1>0, Learning DEF CreateEnter
<1>2. NextCode \in Nat /\ budget' \in Budget
  BY <1>0, CodeIs DEF CreateEnter
<1>3. PICK j \in Job : j = [NoJob EXCEPT !.kind = "create", !.pc = "begin", !.pw = pw, !.code = NextCode]
  <2>2. [NoJob EXCEPT !.kind = "create", !.pc = "begin", !.pw = pw, !.code = NextCode] \in Job
    BY <1>0, <1>2, NoJobIs DEF Job, Kinds
  <2> QED BY <2>2
<1>4. j.kind = "create" /\ j.pc = "begin" /\ j.pw = pw
  BY <1>3 DEF NoJob
<1>5. Command("busy", j)
  BY <1>3 DEF CreateEnter
<1>6. ui.vault = Free
  BY <1>0 DEF ScreenInv
<1> QED BY <1>0, <1>1, <1>2, <1>4, <1>5, <1>6, Commanded, Asks

LEMMA UnlockEnterKeeps ==
  ASSUME Base, NEW pw \in Passwords \cup {AccountPw}, UnlockEnter(pw) PROVE Base'
<1>0. TypeOK /\ ScreenInv /\ pw \in Secret /\ ui.step = "unlock" /\ UNCHANGED <<knows, budget>>
  BY DEF Base, Secret, UnlockEnter
<1>1. PICK j \in Job : j = [NoJob EXCEPT !.kind = "open", !.pc = "begin", !.pw = pw]
  BY <1>0, NoJobIs DEF Job, Kinds
<1>2. j.kind = "open" /\ j.pc = "begin"
  BY <1>1 DEF NoJob
<1>3. Command("busy", j)
  BY <1>1 DEF UnlockEnter
<1>4. ui.vault = Free
  BY <1>0 DEF ScreenInv
<1>5. knows' \in [pws : SUBSET Secret, codes : SUBSET Nat] /\ budget' \in Budget
  BY <1>0 DEF TypeOK, Budget
<1> QED BY <1>0, <1>2, <1>3, <1>4, <1>5, Commanded, Asks

LEMMA RecoverEnterKeeps == ASSUME Base, NEW code \in knows.codes, RecoverEnter(code) PROVE Base'
<1>0. TypeOK /\ ScreenInv /\ ui.step = "unlock" /\ UNCHANGED <<knows, budget>>
  BY DEF Base, RecoverEnter
<1>1. PICK j \in Job : j = [NoJob EXCEPT !.kind = "recover", !.pc = "begin", !.code = code]
  <2>1. code \in Nat
    BY <1>0 DEF TypeOK
  <2> QED BY <2>1, NoJobIs DEF Job, Kinds
<1>2. j.kind = "recover" /\ j.pc = "begin"
  BY <1>1 DEF NoJob
<1>3. Command("busy", j)
  BY <1>1 DEF RecoverEnter
<1>4. ui.vault = Free
  BY <1>0 DEF ScreenInv
<1>5. knows' \in [pws : SUBSET Secret, codes : SUBSET Nat] /\ budget' \in Budget
  BY <1>0 DEF TypeOK, Budget
<1> QED BY <1>0, <1>2, <1>3, <1>4, <1>5, Commanded, Asks

LEMMA ResetEnterKeeps == ASSUME Base, NEW pw \in Passwords, ResetEnter(pw) PROVE Base'
<1>0. TypeOK /\ ScreenInv /\ pw \in Secret /\ ui.step = "reset"
  BY DEF Base, Secret, ResetEnter
<1>1. /\ knows' \in [pws : SUBSET Secret, codes : SUBSET Nat] /\ pw \in knows'.pws
      /\ knows.pws \subseteq knows'.pws /\ knows.codes \subseteq knows'.codes
  BY <1>0, Learning DEF ResetEnter
<1>2. NextCode \in Nat /\ budget' \in Budget
  BY <1>0, CodeIs DEF ResetEnter
<1>3. PICK j \in Job : j = [NoJob EXCEPT !.kind = "reset", !.pc = "begin", !.pw = pw,
                                        !.code = NextCode, !.h = ui.vault]
  <2>1. ui.vault \in Handles \cup {Free}
    BY <1>0 DEF TypeOK, Screen
  <2>2. [NoJob EXCEPT !.kind = "reset", !.pc = "begin", !.pw = pw,
           !.code = NextCode, !.h = ui.vault] \in Job
    BY <2>1, <1>0, <1>2, NoJobIs DEF Job, Kinds
  <2> QED BY <2>2
<1>4. j.kind = "reset" /\ j.pc = "begin" /\ j.pw = pw /\ j.h = ui.vault
  BY <1>3 DEF NoJob
<1>5. Command("busy", j)
  BY <1>3 DEF ResetEnter
<1>6. ui.vault # Free
  BY <1>0 DEF ScreenInv
<1> QED BY <1>0, <1>1, <1>2, <1>4, <1>5, <1>6, Commanded, Asks

LEMMA RekeyEnterKeeps ==
  ASSUME Base, NEW cur \in Passwords \cup {AccountPw}, NEW new \in Passwords, RekeyEnter(cur, new)
  PROVE  Base'
<1>0. /\ TypeOK /\ ScreenInv /\ cur \in Secret /\ new \in Secret /\ ui.step = "main"
      /\ UNCHANGED <<knows, budget>>
  BY DEF Base, Secret, RekeyEnter
<1>1. PICK j \in Job : j = [NoJob EXCEPT !.kind = "rekey", !.pc = "begin", !.pw = new,
                                        !.cur = cur, !.h = ui.vault]
  <2>1. ui.vault \in Handles \cup {Free}
    BY <1>0 DEF TypeOK, Screen
  <2>2. [NoJob EXCEPT !.kind = "rekey", !.pc = "begin", !.pw = new,
           !.cur = cur, !.h = ui.vault] \in Job
    BY <2>1, <1>0, NoJobIs DEF Job, Kinds
  <2> QED BY <2>2
<1>2. j.kind = "rekey" /\ j.pc = "begin" /\ j.h = ui.vault
  BY <1>1 DEF NoJob
<1>3. Command("rekeying", j)
  BY <1>1 DEF RekeyEnter
<1>4. ui.vault # Free
  BY <1>0 DEF ScreenInv
<1>5. knows' \in [pws : SUBSET Secret, codes : SUBSET Nat] /\ budget' \in Budget
  BY <1>0 DEF TypeOK, Budget
<1> QED BY <1>0, <1>2, <1>3, <1>4, <1>5, Commanded, Asks

LEMMA InstallEnterKeeps ==
  ASSUME Base, NEW pw \in Passwords \cup {AccountPw}, InstallEnter(pw) PROVE Base'
<1>0. TypeOK /\ ScreenInv /\ pw \in Secret /\ ui.step = "password" /\ UNCHANGED budget
  BY DEF Base, Secret, InstallEnter
<1>1. PICK j \in Job : j = [NoJob EXCEPT !.kind = "install", !.pc = "begin", !.pw = pw,
                                        !.old = ui.vault, !.merge = ui.merge]
  <2>1. ui.vault \in Handles \cup {Free} /\ ui.merge \in Doc
    BY <1>0 DEF TypeOK, Screen
  <2>2. [NoJob EXCEPT !.kind = "install", !.pc = "begin", !.pw = pw,
           !.old = ui.vault, !.merge = ui.merge] \in Job
    BY <2>1, <1>0, NoJobIs DEF Job, Kinds
  <2> QED BY <2>2
<1>2. j.kind = "install" /\ j.pc = "begin" /\ j.pw = pw /\ j.old = ui.vault
  BY <1>1 DEF NoJob
<1>3. Command("busy", j)
  BY <1>1 DEF InstallEnter
<1>4. /\ knows' \in [pws : SUBSET Secret, codes : SUBSET Nat]
      /\ knows.pws \subseteq knows'.pws /\ knows.codes \subseteq knows'.codes
      /\ pw = AccountPw => pw \in knows'.pws
  BY <1>0 DEF InstallEnter, TypeOK, AccountCode
<1>5. budget' \in Budget
  BY <1>0 DEF TypeOK, Budget
<1> QED BY <1>0, <1>2, <1>3, <1>4, <1>5, Commanded, Asks

LEMMA SignInKeeps == Base /\ SignIn => Base'
<1> SUFFICES ASSUME Base, SignIn PROVE Base'
  OBVIOUS
<1>0. ui.step \in {"choose", "main"} /\ ui.step # "reset"
  BY DEF SignIn
<1>1. /\ job = NoJob /\ job.pc = "done" /\ TypeOK /\ ScreenInv /\ ui \in Screen
      /\ knows \in [pws : SUBSET Secret, codes : SUBSET Nat]
  BY <1>0, NoCommand DEF TypeOK
<1>2. /\ UNCHANGED <<data, synced, path, tmp, disk, lock, handle, wr, knows, acked, kept, raced, budget>>
      /\ UiFree /\ job' = NoJob
  BY <1>1 DEF SignIn, files
<1>3. CASE ui.step = "choose"
  <2>1. ui' = [ui EXCEPT !.step = "password", !.boot = "gate"]
    BY <1>3 DEF SignIn
  <2>2. PICK s \in Screen : /\ ui' = s /\ s.step = "password" /\ s.vault = ui.vault
                            /\ s.boot = "gate"
    <3>1. ui' \in Screen
      BY <2>1, <1>1 DEF Screen, Steps
    <3>2. ui'.step = "password" /\ ui'.vault = ui.vault /\ ui'.boot = "gate"
      BY <2>1, <1>1 DEF Screen
    <3> QED BY <3>1, <3>2
  <2>3. s.vault = Free
    BY <2>2, <1>1, <1>3 DEF ScreenInv
  <2> QED BY <2>2, <2>3, <1>0, <1>1, <1>2, TurnsTo
<1>4. CASE ui.step = "main"
  <2>1. PICK v : v = handle[ui.vault].pay
    OBVIOUS
  <2>2. ui.vault \in Handles /\ ui.vault # Free
    BY <1>1, <1>4 DEF ScreenInv, Screen
  <2>3. v \in Doc
    BY <2>1, <2>2, <1>1 DEF TypeOK, Object, NoHandle, Doc
  <2>4. ui' = [ui EXCEPT !.step = "password", !.boot = "adopt", !.merge = v]
    BY <2>1, <1>4 DEF SignIn
  <2>5. PICK s \in Screen : /\ ui' = s /\ s.step = "password" /\ s.vault = ui.vault
                            /\ s.boot = "adopt"
    <3>1. ui' \in Screen
      BY <2>3, <2>4, <1>1 DEF Screen, Steps
    <3>2. ui'.step = "password" /\ ui'.vault = ui.vault /\ ui'.boot = "adopt"
      BY <2>4, <1>1 DEF Screen
    <3> QED BY <3>1, <3>2
  <2> QED BY <2>2, <2>5, <1>0, <1>1, <1>2, TurnsTo
<1> QED BY <1>0, <1>3, <1>4

LEMMA CancelSignInKeeps == Base /\ CancelSignIn => Base'
<1> SUFFICES ASSUME Base, CancelSignIn PROVE Base'
  OBVIOUS
<1>0. ui.step = "password"
  BY DEF CancelSignIn
<1>1. /\ job = NoJob /\ job.pc = "done" /\ TypeOK /\ ScreenInv /\ ui \in Screen
      /\ knows \in [pws : SUBSET Secret, codes : SUBSET Nat]
  BY <1>0, NoCommand DEF TypeOK
<1>2. /\ UNCHANGED <<data, synced, path, tmp, disk, lock, handle, wr, knows, acked, kept, raced, budget>>
      /\ UiFree /\ job' = NoJob
  BY <1>1 DEF CancelSignIn, files
<1>3. PICK p \in Steps : p = (IF ui.boot = "adopt" THEN "main" ELSE "choose")
  BY DEF Steps
<1>4. ui' = [ui EXCEPT !.step = p, !.boot = None, !.merge = {}]
  BY <1>3 DEF CancelSignIn
<1>5. PICK s \in Screen : ui' = s /\ s.step = p /\ s.vault = ui.vault /\ s.boot = None
  <2>1. ui' \in Screen
    BY <1>1, <1>4 DEF Screen, Doc
  <2>2. ui'.step = p /\ ui'.vault = ui.vault /\ ui'.boot = None
    BY <1>1, <1>4 DEF Screen
  <2> QED BY <2>1, <2>2
<1>6. /\ s.step \notin {"busy", "rekeying", "password", "reset"} /\ s.boot # "adopt"
      /\ s.step \in {"choose", "create", "unlock", "locked"} => s.vault = Free
      /\ s.step \in {"main", "showcode", "reset", "locking"} => s.vault # Free
  BY <1>0, <1>1, <1>3, <1>5 DEF ScreenInv, None
<1> QED BY <1>0, <1>1, <1>2, <1>5, <1>6, TurnsTo

LEMMA DismissKeeps == Base /\ Dismiss => Base'
<1> SUFFICES ASSUME Base, Dismiss PROVE Base'
  OBVIOUS
<1>0. ui.step \in {"showcode", "locked"}
  BY DEF Dismiss
<1>1. /\ job = NoJob /\ job.pc = "done" /\ TypeOK /\ ScreenInv /\ ui \in Screen
      /\ knows \in [pws : SUBSET Secret, codes : SUBSET Nat]
  BY <1>0, NoCommand DEF TypeOK
<1>2. /\ UNCHANGED <<data, synced, path, tmp, disk, lock, handle, wr, knows, acked, kept, raced, budget>>
      /\ UiFree /\ job' = NoJob
  BY <1>1 DEF Dismiss, files
<1>3. PICK s \in Screen : /\ ui' = s /\ s.vault = ui.vault /\ s.boot = ui.boot
                          /\ s.step = IF ui.step = "showcode" THEN "main" ELSE "unlock"
  BY <1>1 DEF Dismiss, Screen, Steps
<1> QED BY <1>0, <1>1, <1>2, <1>3, TurnsTo DEF ScreenInv

\* A command that succeeded left the vault the screen takes.
LEMMA LeftAVault ==
  ASSUME Base, job.pc = "done", job.res = "ok", job.kind \notin {"none", "rekey"}
  PROVE  /\ job.h \in Handles /\ handle[job.h] # NoHandle /\ handle[job.h].pay \in Doc
         /\ job.pw \in Secret /\ job.code \in Nat
         /\ job.kind = "reset" => job.h = ui.vault
         /\ job.kind # "reset" => lock = job.h /\ job.h # ui.vault
         /\ \A p \in {"main", "showcode"} : Adopt(p) => Takes(p)
<1>1. TypeOK /\ ScreenInv /\ LiveInv /\ GrabInv
  BY DEF Base
<1>2. job.h \in Handles /\ handle[job.h] \in Object
  <2>1. CASE job.kind = "reset"
    BY <2>1, HasTheScreens
  <2>2. CASE job.kind # "reset"
    <3>1. Grabbed
      BY <2>2, <1>1 DEF Grabbed, TypeOK, Job, Kinds
    <3> QED BY <3>1, <1>1 DEF GrabInv, TypeOK
  <2> QED BY <2>1, <2>2
<1>3. /\ job.kind = "reset" => job.h = ui.vault
      /\ job.kind # "reset" => lock = job.h /\ job.h # ui.vault
  <2>1. job.kind # "reset" => Grabbed
    BY <1>1 DEF Grabbed, TypeOK, Job, Kinds
  <2> QED BY <2>1, <1>1 DEF GrabInv, ScreenInv
<1>4. job.pw \in Secret /\ job.code \in Nat
  BY <1>1 DEF TypeOK, Job
<1>5. PICK d \in Doc : d = handle[job.h].pay
  BY <1>2 DEF Object
<1>6. ASSUME NEW p \in {"main", "showcode"}, Adopt(p) PROVE Takes(p)
  <2>1. ui' = [Gate(p) EXCEPT !.vault = job.h, !.doc = d]
    BY <1>5, <1>6 DEF Adopt
  <2>2. p \in Steps
    BY DEF Steps
  <2> QED BY <2>1, <2>2, <1>2, Taken
<1> QED BY <1>2, <1>3, <1>4, <1>5, <1>6, Numbers

LEMMA AdoptsVault ==
  ASSUME Base, NEW kind, Handling(kind), kind \notin {"none", "rekey"}, job.res = "ok",
         NEW p \in {"main", "showcode", "reset"}, Takes(p),
         knows' \in [pws : SUBSET Secret, codes : SUBSET Nat],
         IF kind = "install" /\ job.old # Free
           THEN handle' = [handle EXCEPT ![job.old] = NoHandle] ELSE handle' = handle,
         UNCHANGED <<data, synced, path, tmp, disk, lock, wr, acked, kept, raced, budget>>
  PROVE  Base'
<1>0. TypeOK /\ ScreenInv /\ LiveInv
  BY DEF Base
<1>1. UiFree /\ job.kind = kind /\ job.pc = "done" /\ job' = NoJob
  BY DEF Handling
<1>2. PICK h \in Handles : /\ h = job.h /\ h # Free /\ handle[h] # NoHandle
                           /\ kind = "reset" => h = ui.vault
                           /\ kind # "reset" => h # ui.vault
  BY <1>1, LeftAVault, Numbers
<1>3. /\ kind = "install" => job.old = ui.vault
      /\ kind \in {"create", "open", "recover"} => ui.vault = Free
      /\ kind \in {"create", "open", "recover", "reset", "install"}
      /\ job.old \in Handles \cup {Free}
  BY <1>0, <1>1 DEF ScreenInv, TypeOK, Job, Kinds
<1>4. /\ handle' \in [Handles -> Object \cup {NoHandle}]
      /\ \A x \in Handles : handle'[x] = handle[x] \/ handle'[x] = NoHandle
      /\ kind = "install" /\ job.old # Free => handle'[job.old] = NoHandle
      /\ handle'[h] = handle[h]
  BY <1>0, <1>2, <1>3 DEF TypeOK
<1>5. \A x \in Handles : handle'[x] # NoHandle => x = h \/ x = lock
  <2>1. \A x \in Handles : handle'[x] # NoHandle => handle[x] # NoHandle /\ (x = ui.vault \/ x = lock)
    BY <1>0, <1>4 DEF LiveInv
  <2> QED BY <2>1, <1>2, <1>3, <1>4, Numbers
<1>6. PICK s \in Screen : ui' = s /\ s.step = p /\ s.vault = h /\ s.boot = None
  BY <1>2 DEF Takes
<1>7. /\ s.step \notin {"busy", "rekeying", "choose", "create", "unlock", "locked", "password"}
      /\ s.boot # "adopt" /\ s.vault # Free
  BY <1>2, <1>6 DEF None
<1> QED BY <1>1, <1>2, <1>4, <1>5, <1>6, <1>7, Turns

\* The result is there, and the step only changes.
LEMMA EntersStep ==
  ASSUME Base, NEW kind, Handling(kind), kind # "none", NEW p \in Steps, Enter(p),
         p \notin {"busy", "rekeying"},
         p \in {"choose", "create", "unlock", "locked"} => ui.vault = Free,
         p \in {"main", "showcode", "reset", "locking"} => ui.vault # Free,
         p = "password" => kind = "install",
         knows' \in [pws : SUBSET Secret, codes : SUBSET Nat],
         UNCHANGED <<data, synced, path, tmp, disk, lock, handle, wr, acked, kept, raced, budget>>
  PROVE  Base'
<1>0. TypeOK /\ ScreenInv /\ ui \in Screen
  BY DEF Base, TypeOK
<1>1. UiFree /\ job.kind = kind /\ job.pc = "done" /\ job' = NoJob
  BY DEF Handling
<1>2. ui' = [ui EXCEPT !.step = p]
  BY DEF Enter
<1>3. PICK s \in Screen : ui' = s /\ s.step = p /\ s.vault = ui.vault /\ s.boot = ui.boot
  <2>1. ui' \in Screen
    BY <1>0, <1>2 DEF Screen
  <2>2. ui'.step = p /\ ui'.vault = ui.vault /\ ui'.boot = ui.boot
    BY <1>0, <1>2 DEF Screen
  <2> QED BY <2>1, <2>2
<1>4. /\ s.boot = "adopt" => s.vault # Free
      /\ s.step = "password" => s.boot = "adopt" \/ s.vault = Free
  BY <1>0, <1>1, <1>3 DEF ScreenInv
<1> QED BY <1>1, <1>3, <1>4, TurnsTo

LEMMA HandleCreatedKeeps == Base /\ HandleCreated => Base'
<1> SUFFICES ASSUME Base, HandleCreated PROVE Base'
  OBVIOUS
<1>0. /\ Handling("create") /\ job.pc = "done" /\ job.kind = "create" /\ ui.vault = Free
      /\ UNCHANGED <<data, synced, path, tmp, disk, lock, handle, wr, acked, kept, raced, budget>>
      /\ knows \in [pws : SUBSET Secret, codes : SUBSET Nat]
  BY DEF HandleCreated, files, Handling, Base, ScreenInv, TypeOK
<1>1. CASE job.res = "ok"
  <2>1. Only(job.pw, job.code) /\ Takes("showcode") /\ job.pw \in Secret /\ job.code \in Nat
    BY <1>0, <1>1, LeftAVault DEF HandleCreated
  <2>2. knows' \in [pws : SUBSET Secret, codes : SUBSET Nat]
    BY <2>1, Known
  <2> QED BY <2>1, <2>2, <1>0, <1>1, AdoptsVault
<1>2. CASE job.res # "ok"
  <2>1. Enter("create") /\ knows' = knows /\ "create" \in Steps
    BY <1>2 DEF HandleCreated, Steps
  <2> QED BY <2>1, <1>0, EntersStep
<1> QED BY <1>1, <1>2

LEMMA HandleOpenedKeeps == Base /\ HandleOpened => Base'
<1> SUFFICES ASSUME Base, HandleOpened PROVE Base'
  OBVIOUS
<1>0. /\ Handling("open") /\ job.pc = "done" /\ job.kind = "open" /\ ui.vault = Free
      /\ UNCHANGED <<data, synced, path, tmp, disk, lock, handle, wr, knows, acked, kept, raced, budget>>
      /\ knows' \in [pws : SUBSET Secret, codes : SUBSET Nat]
  BY DEF HandleOpened, files, Handling, Base, ScreenInv, TypeOK
<1>1. CASE job.res = "ok"
  <2>1. Takes("main")
    BY <1>0, <1>1, LeftAVault DEF HandleOpened
  <2> QED BY <2>1, <1>0, <1>1, AdoptsVault
<1>2. CASE job.res # "ok"
  <2>1. PICK p \in {"locked", "unlock"} : Enter(p) /\ p \in Steps
    BY <1>2 DEF HandleOpened, Steps
  <2> QED BY <2>1, <1>0, EntersStep
<1> QED BY <1>1, <1>2

LEMMA HandleRecoveredKeeps == Base /\ HandleRecovered => Base'
<1> SUFFICES ASSUME Base, HandleRecovered PROVE Base'
  OBVIOUS
<1>0. /\ Handling("recover") /\ job.pc = "done" /\ job.kind = "recover" /\ ui.vault = Free
      /\ UNCHANGED <<data, synced, path, tmp, disk, lock, handle, wr, knows, acked, kept, raced, budget>>
      /\ knows' \in [pws : SUBSET Secret, codes : SUBSET Nat]
  BY DEF HandleRecovered, files, Handling, Base, ScreenInv, TypeOK
<1>1. CASE job.res = "ok"
  <2>1. ui' = [Gate("reset") EXCEPT !.vault = job.h]
    BY <1>1 DEF HandleRecovered
  <2>2. Gate("reset") \in Screen /\ Gate("reset").step = "reset" /\ Gate("reset").boot = None
    BY DEF Gate, Screen, Steps, Doc, None
  <2>3. Takes("reset")
    BY <2>1, <2>2, <1>0, <1>1, LeftAVault DEF Takes, Screen
  <2> QED BY <2>3, <1>0, <1>1, AdoptsVault
<1>2. CASE job.res # "ok"
  <2>1. PICK p \in {"locked", "unlock"} : Enter(p) /\ p \in Steps
    BY <1>2 DEF HandleRecovered, Steps
  <2> QED BY <2>1, <1>0, EntersStep
<1> QED BY <1>1, <1>2

LEMMA HandleResetKeeps == Base /\ HandleReset => Base'
<1> SUFFICES ASSUME Base, HandleReset PROVE Base'
  OBVIOUS
<1>0. /\ Handling("reset") /\ job.pc = "done" /\ job.kind = "reset" /\ ui.vault # Free
      /\ UNCHANGED <<data, synced, path, tmp, disk, lock, handle, wr, acked, kept, raced, budget>>
      /\ knows \in [pws : SUBSET Secret, codes : SUBSET Nat]
  BY DEF HandleReset, files, Handling, Base, ScreenInv, TypeOK
<1>1. CASE job.res = "ok"
  <2>1. Only(job.pw, job.code) /\ Takes("showcode") /\ job.pw \in Secret /\ job.code \in Nat
    BY <1>0, <1>1, LeftAVault DEF HandleReset
  <2>2. knows' \in [pws : SUBSET Secret, codes : SUBSET Nat]
    BY <2>1, Known
  <2> QED BY <2>1, <2>2, <1>0, <1>1, AdoptsVault
<1>2. CASE job.res # "ok"
  <2>1. Enter("reset") /\ knows' = knows /\ "reset" \in Steps
    BY <1>2 DEF HandleReset, Steps
  <2> QED BY <2>1, <1>0, EntersStep
<1> QED BY <1>1, <1>2

LEMMA HandleRekeyedKeeps == Base /\ HandleRekeyed => Base'
<1> SUFFICES ASSUME Base, HandleRekeyed PROVE Base'
  OBVIOUS
<1>1. /\ Handling("rekey") /\ job.pc = "done" /\ job.kind = "rekey" /\ ui.vault # Free
      /\ Enter("main") /\ "main" \in Steps
      /\ UNCHANGED <<data, synced, path, tmp, disk, lock, handle, wr, acked, kept, raced, budget>>
  BY DEF HandleRekeyed, files, Handling, Base, ScreenInv, Steps
<1>2. job.pw \in Secret /\ knows \in [pws : SUBSET Secret, codes : SUBSET Nat]
  BY DEF Base, TypeOK, Job
<1>3. knows' \in [pws : SUBSET Secret, codes : SUBSET Nat]
  BY <1>2 DEF HandleRekeyed
<1> QED BY <1>1, <1>3, EntersStep

LEMMA HandleInstalledKeeps == Base /\ HandleInstalled => Base'
<1> SUFFICES ASSUME Base, HandleInstalled PROVE Base'
  OBVIOUS
<1>0. /\ Handling("install") /\ UiFree /\ job.pc = "done" /\ job.kind = "install" /\ job' = NoJob
      /\ UNCHANGED <<data, synced, path, tmp, disk, lock, wr, acked, kept, raced, budget>>
      /\ knows \in [pws : SUBSET Secret, codes : SUBSET Nat]
  BY DEF HandleInstalled, files, Handling, Base, TypeOK
<1>1. CASE job.res = "ok"
  <2>1. /\ Only(AccountPw, AccountCode) /\ Takes("main")
        /\ handle' = IF job.old = Free THEN handle ELSE [handle EXCEPT ![job.old] = NoHandle]
    BY <1>0, <1>1, LeftAVault DEF HandleInstalled
  <2>2. knows' \in [pws : SUBSET Secret, codes : SUBSET Nat]
    BY <2>1, Known DEF Secret, AccountCode
  <2> QED BY <2>1, <2>2, <1>0, <1>1, AdoptsVault
<1>2. CASE job.res # "ok" /\ job.res # "wrong" /\ ui.vault = Free
  <2>1. ui' = Gate("unlock") /\ UNCHANGED <<knows, handle>>
    BY <1>2 DEF HandleInstalled
  <2>2. PICK s \in Screen : /\ ui' = s /\ s.step = "unlock" /\ s.vault = Free
                            /\ s.boot = None /\ s.boot # "adopt"
    BY <2>1 DEF Gate, Screen, Steps, Doc, None
  <2> QED BY <2>1, <2>2, <1>0, <1>2, TurnsTo
<1>3. CASE job.res = "wrong" \/ (job.res # "ok" /\ ui.vault # Free)
  <2>1. Enter("password") /\ UNCHANGED <<knows, handle>> /\ "password" \in Steps
    BY <1>3 DEF HandleInstalled, Steps
  <2> QED BY <2>1, <1>0, EntersStep
<1> QED BY <1>1, <1>2, <1>3

\* The event loop begins a save of the vault the screen has, whoever else writes.
LEMMA UiSaves ==
  ASSUME Base, UiFree, NEW s \in Screen, ui' = s, ui.vault # Free,
         s.vault = ui.vault, s.boot = ui.boot,
         s.step = ui.step \/ (ui.step = "main" /\ s.step = "locking"),
         NEW d \in Doc, wr' = Begin("ui", ui.vault, d), budget' \in Budget, raced' \in BOOLEAN,
         UNCHANGED <<data, synced, path, tmp, disk, lock, handle, job, knows, acked, kept>>
  PROVE  Base'
<1>0. TypeOK /\ ScreenInv /\ LiveInv /\ GrabInv /\ NameInv /\ OneWriter /\ ui.vault \in Handles
  BY DEF Base, TypeOK, Screen
<1>1. PICK t \in Starting : t = [pc |-> "marshal", h |-> ui.vault, pay |-> d]
  BY <1>0 DEF Starting
<1>2. /\ wr' = [wr EXCEPT !["ui"] = t] /\ wr'["ui"] = t /\ wr'["bg"] = wr["bg"]
      /\ t.pc = "marshal" /\ t.h = ui.vault /\ t \in Saves
  BY <1>0, <1>1 DEF Begin, TypeOK, Writers, Saves
<1>3. TypeOK' /\ NameInv'
  BY <1>0, <1>2 DEF TypeOK, Budget, Saves, NameInv
<1>4. ScreenInv'
  BY <1>0, <1>2 DEF ScreenInv, During
<1>5. LiveInv'
  BY <1>0 DEF LiveInv, During
<1>6. GrabInv'
  BY <1>0 DEF GrabInv, Grabbed, During
<1>7. OneWriter'
  BY <1>0, <1>2 DEF OneWriter, Writers
<1> QED BY <1>3, <1>4, <1>5, <1>6, <1>7 DEF Base

LEMMA EditKeeps == ASSUME Base, NEW x \in Hosts, Edit(x) PROVE Base'
<1>0. TypeOK /\ ScreenInv /\ ui \in Screen
  BY DEF Base, TypeOK
<1>1. /\ UiFree /\ HasStore
      /\ UNCHANGED <<data, synced, path, tmp, disk, lock, handle, job, knows, acked, kept>>
  BY DEF Edit, files
<1>2. raced' \in BOOLEAN
  BY <1>0 DEF Edit, TypeOK
<1>3. ui.vault # Free
  BY <1>0, <1>1 DEF ScreenInv, HasStore
<1>4. PICK d \in Doc : /\ d = IF x \in ui.doc THEN ui.doc \ {x} ELSE ui.doc \cup {x}
  BY <1>0 DEF Screen, Doc
<1>5. ui' = [ui EXCEPT !.doc = d] /\ wr' = Begin("ui", ui.vault, d)
  BY <1>4 DEF Edit
<1>6. PICK s \in Screen : ui' = s /\ s.vault = ui.vault /\ s.boot = ui.boot /\ s.step = ui.step
  <2>1. ui' \in Screen
    BY <1>0, <1>5 DEF Screen
  <2>2. ui'.vault = ui.vault /\ ui'.boot = ui.boot /\ ui'.step = ui.step
    BY <1>0, <1>5 DEF Screen
  <2> QED BY <2>1, <2>2
<1>7. budget' \in Budget
  <2>1. PICK n \in 0..MaxEdits, r \in 0..MaxRaces :
          n = budget.edits /\ n > 0 /\ r = budget.races /\ (job.pc = "done" \/ r > 0)
    BY <1>0 DEF TypeOK, Edit
  <2>2. n - 1 \in 0..MaxEdits /\ (r > 0 => r - 1 \in 0..MaxRaces)
    BY <2>1, VaultAssumption
  <2>3. PICK q \in 0..MaxRaces : q = IF job.pc = "done" THEN r ELSE r - 1
    BY <2>1, <2>2
  <2>4. budget' = [budget EXCEPT !.edits = n - 1, !.races = q]
    BY <2>1, <2>3, <1>0 DEF Edit, TypeOK
  <2> QED BY <2>2, <2>4, <1>0 DEF TypeOK, Budget
<1> QED BY <1>1, <1>2, <1>3, <1>4, <1>5, <1>6, <1>7, UiSaves

LEMMA LockKeeps == Base /\ Lock => Base'
<1> SUFFICES ASSUME Base, Lock PROVE Base'
  OBVIOUS
<1>0. TypeOK /\ ScreenInv /\ ui \in Screen
  BY DEF Base, TypeOK
<1>1. /\ UiFree /\ ui.step = "main" /\ ui.vault # Free
      /\ UNCHANGED <<data, synced, path, tmp, disk, lock, handle, job, knows, acked, kept, raced>>
  BY <1>0 DEF Lock, files, ScreenInv
<1>2. PICK d \in Doc : d = ui.doc
  BY <1>0 DEF Screen
<1>3. wr' = Begin("ui", ui.vault, d)
  BY <1>2 DEF Lock
<1>4. PICK s \in Screen : ui' = s /\ s.vault = ui.vault /\ s.boot = ui.boot /\ s.step = "locking"
  BY <1>0 DEF Lock, Screen, Steps
<1>5. budget' \in Budget /\ raced' \in BOOLEAN
  BY <1>0, <1>1 DEF TypeOK, Budget, Lock
<1> QED BY <1>1, <1>3, <1>4, <1>5, UiSaves

LEMMA SavedKeeps == Base /\ Saved => Base'
<1> SUFFICES ASSUME Base, Saved PROVE Base'
  OBVIOUS
<1>0. TypeOK /\ ScreenInv /\ LiveInv /\ GrabInv /\ NameInv /\ OneWriter
  BY DEF Base
<1>1. /\ wr' = [wr EXCEPT !["ui"] = Idle]
      /\ UNCHANGED <<data, synced, path, tmp, disk, lock, handle, job, ui, knows, acked, kept, raced, budget>>
  BY DEF Saved, Rest, files
<1>2. /\ wr'["ui"] = Idle /\ wr'["bg"] = wr["bg"] /\ Idle.pc = "idle" /\ Idle \in Saves
      /\ wr' \in [Writers -> Saves]
  BY <1>0, <1>1 DEF Idle, Saves, Resting, Writers, TypeOK
<1>3. TypeOK' /\ NameInv'
  BY <1>0, <1>1, <1>2 DEF TypeOK, Saves, NameInv
<1>4. ScreenInv'
  BY <1>0, <1>1, <1>2 DEF ScreenInv, During
<1>5. LiveInv'
  BY <1>0, <1>1 DEF LiveInv, During
<1>6. GrabInv'
  BY <1>0, <1>1 DEF GrabInv, Grabbed, During
<1>7. OneWriter'
  BY <1>0, <1>1, <1>2 DEF OneWriter, Writers
<1> QED BY <1>3, <1>4, <1>5, <1>6, <1>7 DEF Base

LEMMA LockEndsKeeps == Base /\ LockEnds => Base'
<1> SUFFICES ASSUME Base, LockEnds PROVE Base'
  OBVIOUS
<1>0. TypeOK /\ ScreenInv /\ LiveInv /\ NameInv
  BY DEF Base
<1>1. /\ wr' = [wr EXCEPT !["ui"] = Idle] /\ ui.step = "locking"
      /\ job = NoJob /\ ui' = Gate("unlock")
      /\ handle' = [handle EXCEPT ![ui.vault] = NoHandle]
      /\ lock' = (IF lock = ui.vault THEN Free ELSE lock)
      /\ UNCHANGED <<data, synced, path, tmp, disk, job, knows, acked, kept, raced, budget>>
  BY <1>0 DEF LockEnds, Rest, files, ScreenInv
<1>2. job.pc = "done" /\ job.kind = "none" /\ job.res # "ok" /\ job.pc \notin InSave
  BY <1>1, NoJobIs
<1>3. /\ wr' \in [Writers -> Saves] /\ wr'["ui"] = Idle /\ wr'["bg"] = Idle /\ Idle.pc = "idle"
  <2>1. Idle \in Saves /\ Idle.pc = "idle"
    BY DEF Idle, Saves, Resting
  <2> QED BY <2>1, <1>0, <1>1, <1>2, BgIdle DEF TypeOK, Saves, Writers
<1>4. PICK s \in Screen : /\ ui' = s /\ s.step = "unlock" /\ s.vault = Free /\ s.boot = None
                          /\ s.boot # "adopt"
  BY <1>1 DEF Gate, Screen, Steps, Doc, None
<1>5. ui.vault \in Handles
  BY <1>0, <1>1 DEF ScreenInv, TypeOK, Screen
<1>6. /\ handle'[ui.vault] = NoHandle
      /\ \A x \in Handles \ {ui.vault} : handle'[x] = handle[x]
  BY <1>0, <1>1, <1>5 DEF TypeOK
<1>7. TypeOK' /\ NameInv'
  BY <1>0, <1>1, <1>3, <1>4 DEF TypeOK, Saves, NameInv
<1>8. ScreenInv'
  BY <1>1, <1>2, <1>3, <1>4, NoJobIs DEF ScreenInv, During
<1>9. LiveInv'
  <2>1. \A x \in Handles : /\ handle'[x].key # None => handle'[x] = handle[x] /\ x # ui.vault
                           /\ handle'[x] # NoHandle => handle'[x] = handle[x] /\ x # ui.vault
    BY <1>6, Numbers
  <2>2. \A x \in Handles : handle'[x].key \in {None, handle'[x].dek}
    BY <2>1, <1>0, <1>2 DEF LiveInv, During
  <2> QED BY <2>1, <2>2, <1>0, <1>1, <1>2, <1>4 DEF LiveInv
<1>10. GrabInv' /\ OneWriter'
  BY <1>1, <1>2, <1>3 DEF GrabInv, Grabbed, During, OneWriter, Writers
<1> QED BY <1>7, <1>8, <1>9, <1>10 DEF Base

LEMMA EventLoopKeeps == Base /\ EventLoop => Base'
BY CreateEnterKeeps, ResetEnterKeeps, UnlockEnterKeeps, InstallEnterKeeps, RekeyEnterKeeps,
   RecoverEnterKeeps, EditKeeps, SignInKeeps, CancelSignInKeeps, DismissKeeps, SavedKeeps,
   LockKeeps, LockEndsKeeps, HandleCreatedKeeps, HandleOpenedKeeps, HandleRecoveredKeeps,
   HandleResetKeeps, HandleRekeyedKeeps, HandleInstalledKeeps DEF EventLoop

---------------------------------------------------------------------------
(* What holds always: the second instance *)

\* Whoever takes the lock from nobody, or gives back another's, changes nothing.
LEMMA LockPasses ==
  ASSUME Base, NEW l \in {Free, Other}, lock \in {Free, Other}, lock' = l, budget' \in Budget,
         UNCHANGED <<data, synced, path, tmp, disk, handle, wr, job, ui, knows, acked, kept, raced>>
  PROVE  Base'
<1>0. TypeOK /\ ScreenInv /\ LiveInv /\ GrabInv /\ NameInv /\ OneWriter
  BY DEF Base
<1>1. \A h \in Handles : handle[h].key = None /\ lock # h /\ l # h
  BY <1>0, Numbers DEF LiveInv
<1>2. TypeOK' /\ NameInv'
  BY <1>0 DEF TypeOK, Budget, NameInv
<1>3. ScreenInv'
  BY <1>0 DEF ScreenInv, During
<1>4. LiveInv'
  BY <1>0, <1>1 DEF LiveInv, During
<1>5. GrabInv'
  BY <1>0, <1>1 DEF GrabInv, Grabbed, During
<1>6. OneWriter'
  <2>1. \A w \in Writers : wr[w].pc \in Writing => wr[w].h \in Handles
    BY SavesAVault DEF Writing, Busy
  <2> QED BY <2>1, <1>0, <1>1 DEF OneWriter, Writing
<1> QED BY <1>2, <1>3, <1>4, <1>5, <1>6 DEF Base

LEMMA OtherOpensKeeps == Base /\ OtherOpens => Base'
<1> SUFFICES ASSUME Base, OtherOpens PROVE Base'
  OBVIOUS
<1>1. /\ lock = Free /\ lock' = Other
      /\ UNCHANGED <<data, synced, path, tmp, disk, handle, wr, job, ui, knows, acked, kept, raced>>
  BY DEF OtherOpens, files
<1>2. budget' \in Budget
  BY VaultAssumption DEF Base, TypeOK, OtherOpens, Spend, Budget
<1> QED BY <1>1, <1>2, LockPasses

LEMMA OtherLeavesKeeps == Base /\ OtherLeaves => Base'
<1> SUFFICES ASSUME Base, OtherLeaves PROVE Base'
  OBVIOUS
<1>1. /\ lock = Other /\ lock' = Free
      /\ UNCHANGED <<data, synced, path, tmp, disk, handle, wr, job, ui, knows, acked, kept, raced, budget>>
  BY DEF OtherLeaves, files
<1>2. budget' \in Budget
  BY <1>1 DEF Base, TypeOK, Budget
<1> QED BY <1>1, <1>2, LockPasses

LEMMA OtherSavesKeeps == ASSUME Base, NEW x \in Hosts, OtherSaves(x) PROVE Base'
<1>0. TypeOK /\ ScreenInv /\ LiveInv /\ GrabInv /\ OneWriter
  BY DEF Base
<1>1. /\ lock = Other /\ IsVault(Contents(path))
      /\ UNCHANGED <<tmp, lock, handle, wr, job, ui, knows, raced, budget>>
  BY DEF OtherSaves
<1>2. Contents(path) \in File
  BY <1>0, <1>1 DEF Contents, TypeOK, Bytes, IsVault, Torn, Empty, Gone
<1>3. PICK i \in Inodes : i = FreeInode /\ i # tmp
  BY <1>0, FreeAlways
<1>4. PICK c \in File : c = [Contents(path) EXCEPT !.hosts = @ \cup {x}]
  BY <1>2 DEF File, Doc
<1>5. PICK live : /\ data' = Reclaimed([data EXCEPT ![i] = c], live)
                  /\ synced' = (synced \cap live) \cup {i}
                  /\ path' = i /\ disk' = i /\ acked' = c.hosts /\ kept' = "disk"
  BY <1>3, <1>4 DEF OtherSaves
<1>6. data' \in [Inodes -> Bytes]
  BY <1>0, <1>3, <1>4, <1>5 DEF TypeOK, Reclaimed, Bytes
<1>7. TypeOK' /\ NameInv'
  BY <1>0, <1>1, <1>3, <1>4, <1>5, <1>6 DEF TypeOK, File, NameInv
<1>8. ScreenInv' /\ LiveInv' /\ GrabInv' /\ OneWriter'
  BY <1>0, <1>1 DEF ScreenInv, LiveInv, GrabInv, Grabbed, During, OneWriter
<1> QED BY <1>7, <1>8 DEF Base

LEMMA BaseStep == ASSUME Base, [Next]_vars, ~ Crash PROVE Base'
<1>1. CASE UNCHANGED vars
  BY <1>1 DEF Base, TypeOK, ScreenInv, LiveInv, GrabInv, Grabbed, During, NameInv, OneWriter, vars
<1>2. CASE Next
  BY <1>2, SavingKeeps, GoroutineKeeps, EventLoopKeeps, OtherOpensKeeps, OtherLeavesKeeps,
     OtherSavesKeeps DEF Next
<1> QED BY <1>1, <1>2

---------------------------------------------------------------------------
(* The theorems *)

LEMMA AtTheStart == Init => Base /\ IInv
<1> SUFFICES ASSUME Init PROVE Base /\ IInv
  OBVIOUS
<1>1. /\ wr["ui"] = Idle /\ wr["bg"] = Idle /\ Idle.pc = "idle" /\ Idle \in Saves
      /\ \A w \in Writers : wr[w] = Idle
  BY DEF Init, Writers, Idle, Saves, Resting
<1>2. \A h \in Handles : handle[h] = NoHandle /\ handle[h].key = None
  BY Numbers DEF Init
<1>3. ui \in Screen /\ ui.step = "choose" /\ ui.vault = Free /\ ui.boot = None /\ ui.boot # "adopt"
  BY DEF Init, Gate, Screen, Steps, Doc, None
<1>4. TypeOK
  <2>1. budget \in Budget
    <3>1. /\ MaxCodes \in 0..MaxCodes /\ MaxEdits \in 0..MaxEdits /\ MaxFaults \in 0..MaxFaults
          /\ MaxCrashes \in 0..MaxCrashes /\ MaxOthers \in 0..MaxOthers /\ MaxRaces \in 0..MaxRaces
      BY VaultAssumption
    <3> QED BY <3>1 DEF Init, Budget
  <2>2. wr \in [Writers -> Saves] /\ handle \in [Handles -> Object \cup {NoHandle}] /\ job \in Job
    BY <1>1, NoJobIs DEF Init
  <2>3. /\ data \in [Inodes -> Bytes] /\ synced \subseteq Inodes /\ path = NoInode
        /\ tmp = NoInode /\ disk = NoInode /\ lock = Free
        /\ knows \in [pws : SUBSET Secret, codes : SUBSET Nat] /\ acked \in Doc
        /\ kept \in {"disk", "cache", "lost"} /\ raced \in BOOLEAN
    BY DEF Init, Bytes, Doc
  <2> QED BY <2>1, <2>2, <2>3, <1>3 DEF TypeOK, Saves, Budget
<1>5. ControlInv
  BY <1>1, <1>3, NoJobIs DEF ControlInv, ScreenInv, During, Init
<1>6. LiveInv
  BY <1>2, <1>3, NoJobIs DEF LiveInv, Init
<1>7. WriterInv
  BY <1>1 DEF WriterInv
<1>8. FileInv
  BY DEF FileInv, Init
<1>9. PayInv
  BY <1>2, NoJobIs DEF PayInv, Settled, Rewraps, Init
<1>10. SlotInv
  BY <1>2, <1>3, NoJobIs DEF SlotInv, Chosen, Rekeying, Halfway, During, Init
<1>11. DoneInv
  BY NoJobIs DEF DoneInv, Init
<1>12. GrabInv /\ NameInv /\ OneWriter
  BY <1>1, NoJobIs DEF GrabInv, Grabbed, During, NameInv, OneWriter, Init
<1> QED BY <1>4, <1>5, <1>6, <1>7, <1>8, <1>9, <1>10, <1>11, <1>12 DEF IInv, Base, ControlInv

LEMMA StutterStep == IInv /\ UNCHANGED vars => IInv'
<1> SUFFICES ASSUME IInv, UNCHANGED vars PROVE IInv'
  OBVIOUS
<1>0. TypeOK /\ ControlInv /\ LiveInv /\ WriterInv /\ FileInv /\ PayInv /\ SlotInv /\ DoneInv
  BY DEF IInv
<1>1. TypeOK'
  BY <1>0 DEF TypeOK, vars
<1>2. ControlInv'
  BY <1>0 DEF ControlInv, ScreenInv, During, vars
<1>3. LiveInv'
  BY <1>0 DEF LiveInv, During, vars
<1>4. WriterInv'
  BY <1>0 DEF WriterInv, vars
<1>5. FileInv'
  BY <1>0 DEF FileInv, vars
<1>6. PayInv'
  BY <1>0 DEF PayInv, Settled, Rewraps, Installing, During, vars
<1>7. SlotInv'
  BY <1>0 DEF SlotInv, Chosen, Rekeying, Halfway, Knows, During, vars
<1>8. DoneInv'
  BY <1>0 DEF DoneInv, Written, vars
<1> QED BY <1>1, <1>2, <1>3, <1>4, <1>5, <1>6, <1>7, <1>8 DEF IInv

\* A save that has raced a command is forgotten after a power loss only.
LEMMA Remembers == [Next]_vars /\ raced => raced' \/ Crash
<1> SUFFICES ASSUME [Next]_vars, raced, ~ Crash PROVE raced'
  OBVIOUS
<1>1. ASSUME NEW w \in Writers, Saving(w) PROVE raced'
  BY <1>1 DEF Saving, Marshal, Seal, OpenTmp, Write, Sync, Rename, FileFails, SyncDir
<1>2. CASE Goroutine
  BY <1>2 DEF Goroutine, CreateBegins, CreateEnds, OpenVault, RekeyVerifies, RekeySalt, RekeyWrap,
     RekeySaved, ResetBegins, Regenerates, ResetEnds, InstallChecks, InstallZeroes,
     InstallCloses, InstallTakesLock, InstallWrote, InstallMerged
<1>3. CASE EventLoop
  BY <1>3 DEF EventLoop, Command, CreateEnter, ResetEnter, UnlockEnter, InstallEnter, RekeyEnter,
     RecoverEnter, Edit, SignIn, CancelSignIn, Dismiss, Saved, Lock, LockEnds, HandleCreated,
     HandleOpened, HandleRecovered, HandleReset, HandleRekeyed, HandleInstalled
<1>4. CASE OtherOpens \/ OtherLeaves \/ \E x \in Hosts : OtherSaves(x)
  BY <1>4 DEF OtherOpens, OtherLeaves, OtherSaves
<1>5. CASE UNCHANGED vars
  BY <1>5 DEF vars
<1> QED BY <1>1, <1>2, <1>3, <1>4, <1>5 DEF Next

\* Each step keeps what holds always, and the rest unless a save races a command.
LEMMA NextStep == ASSUME Base, raced \/ IInv, [Next]_vars PROVE Base' /\ (raced' \/ IInv')
<1>1. CASE Crash
  BY <1>1, CrashStep
<1>2. CASE ~ Crash /\ raced
  BY <1>2, Remembers, BaseStep
<1>3. CASE ~ Crash /\ IInv
  <2>1. ASSUME NEW x \in Hosts, Edit(x), job.pc # "done" PROVE raced'
    BY <2>1 DEF Edit
  <2>2. raced' \/ IInv'
    BY <2>1, <1>3, SavingStep, GoroutineStep, EditStep, EventLoopStep, OtherOpensStep,
       OtherLeavesStep, OtherSavesStep, StutterStep DEF Next
  <2> QED BY <2>2, <1>3, BaseStep
<1> QED BY <1>1, <1>2, <1>3

\* Whatever is created, saved, re-keyed, reset, installed, cut off or taken over by
\* another instance, in whatever order, the control, the locks and the names stay
\* consistent; and so does what the file, the disk and the slots hold, until a save
\* starts while a command is at the vault (Save, ChangePassword, InstallBlob).
THEOREM Inductive == Spec => [](Base /\ (raced \/ IInv))
<1>1. Init => Base /\ (raced \/ IInv)
  BY AtTheStart
<1>2. Base /\ (raced \/ IInv) /\ [Next]_vars => Base' /\ (raced' \/ IInv')
  BY NextStep
<1> QED BY <1>1, <1>2, PTL DEF Spec

\* The variables of the vault file, its writers and the gate keep their types.
THEOREM TypeCorrect == Spec => []TypeOK
<1>1. Base => TypeOK
  BY DEF Base
<1> QED BY <1>1, Inductive, PTL

\* Nobody replaces the file without the lock, whatever saves run next to a command,
\* but a save whose vault an install closed under it, and that one only while the
\* install runs (acquireLock, Close, InstallBlob).
THEOREM WritesUnderTheLock == Spec => []OneWriter
<1>1. Base => OneWriter
  BY DEF Base
<1> QED BY <1>1, Inductive, PTL

\* Whenever the power goes, the file that is found is complete, and a secret the user
\* holds for good opens it, unless a save raced a command since the last restart
\* (writeFileAtomic, ChangePassword, RegenerateRecovery, InstallBlob).
THEOREM NobodyIsLockedOut == Spec => []AlwaysOpens
<1>1. raced \/ IInv => AlwaysOpens
  BY DEF IInv, FileInv, AlwaysOpens
<1> QED BY <1>1, Inductive, PTL

\* The file holds what was last reported saved, unless a save raced a command or the
\* power went after a directory whose fsync failed: otherwise no re-key, reset,
\* installation or retry puts an older document in its place (Save, ChangePassword,
\* RegenerateRecovery).
THEOREM NothingOlderReturns == Spec => []AckedIsKept
<1>1. raced \/ IInv => AckedIsKept
  <2> SUFFICES ASSUME IInv, path # NoInode, kept # "lost", \A w \in Writers : wr[w].pc # "dir"
               PROVE  IsVault(data[path]) /\ data[path].hosts = acked
    BY DEF AckedIsKept
  <2>1. Settled
    BY DEF Settled
  <2>2. path \in {path, disk} \ {NoInode}
    OBVIOUS
  <2> QED BY <2>1, <2>2 DEF IInv, FileInv, PayInv
<1> QED BY <1>1, Inductive, PTL

=============================================================================
