-------------------------- MODULE VaultSync_proofs --------------------------
(***************************************************************************)
(* Proofs about VaultSync: its types, that a recorded agreement is real,   *)
(* that no push overwrites a version unseen, and that the UI knows of its  *)
(* session.                                                                *)
(***************************************************************************)
EXTENDS VaultSync, SequenceTheorems, TLAPS

\* Every version a command, a pending conflict, an adoption or a sign-in speaks
\* of is one the server has accepted; only passes and password changes are at
\* the server, and only an install has a blob open.
Speaks(k, n) ==
  /\ k.res # "none" => k.st = "done"
  /\ k.st \in {"get", "got", "put"} => k.kind \in {"sync", "keep", "rekey"}
  /\ k.st = "blob" => k.kind = "install"
  /\ k.st = "got" => k.ver <= n
  /\ k.kind = "install" /\ k.res \in {"none", "installed"} => k.ver \in 1..n
  /\ k.res \in {"adopt", "taken", "account"} => k.ver \in 1..n
Versions ==
  /\ pending <= Current /\ adopting <= Current
  /\ boot.on => boot.ver \in 1..Current
  /\ \A c \in Slots : Speaks(cmd[c], Current)

-----------------------------------------------------------------------------
(* Types *)

\* What the commands are made of.
LEMMA CommandTypes ==
  /\ Idle \in Command
  /\ \A kind \in Kind, pay \in Payload : Fresh(kind, pay) \in Command
  /\ \A kind \in Kind, res \in Outcome, v \in Nat : ResultOf(kind, res, v) \in Command
<1>1. Idle \in Command
  BY DEF Idle, Command, Stage, Kind, Outcome, Payload
<1>2. ASSUME NEW kind \in Kind, NEW pay \in Payload PROVE Fresh(kind, pay) \in Command
  BY <1>1 DEF Fresh, Command, Stage
<1>3. ASSUME NEW kind \in Kind, NEW res \in Outcome, NEW v \in Nat
      PROVE  ResultOf(kind, res, v) \in Command
  <2>1. (CASE kind \in {"keep", "take"} -> "sync"
           [] kind = "offlineRekey" -> "rekey"
           [] OTHER -> kind) \in Kind
    BY DEF Kind
  <2> QED BY <1>1, <2>1 DEF ResultOf, Command, Stage
<1> QED BY <1>1, <1>2, <1>3

\* A finished command is a command (Result).
LEMMA FinishType ==
  ASSUME TypeOK, NEW c \in Slots, NEW res \in Outcome, NEW v \in Nat, Finish(c, res, v)
  PROVE  cmd' \in [Slots -> Command]
<1>1. cmd[c] \in Command /\ cmd[c].kind \in Kind
  BY DEF TypeOK, Command
<1>2. ResultOf(cmd[c].kind, res, v) \in Command
  BY <1>1, CommandTypes
<1>3. [cmd[c] EXCEPT !.st = "done", !.res = res, !.ver = v] \in Command
  BY <1>1 DEF Command, Stage
<1>4. Done(c, res, v) \in Command
  BY <1>2, <1>3 DEF Done
<1> QED BY <1>4 DEF Finish, TypeOK

\* Spending keeps the counts counts.
LEMMA SpendType ==
  ASSUME TypeOK, NEW b \in DOMAIN Limit, Spend(b)
  PROVE  spent' \in [DOMAIN Limit -> Nat]
BY DEF Spend, TypeOK

\* The sessions an operation can leave.
LEMMA SessionTypes ==
  /\ SignedOut \in Session /\ FreshPairing \in Session
  /\ \A v \in Nat, fp \in Payload \cup {NoFp} : Agreed(v, fp) \in Session
BY DEF SignedOut, FreshPairing, Agreed, Session

\* Whatever was saved is the session the engine has, or had saved before, or
\* one that does not open (saveSession, persistRotation).
LEMMA SavedFile ==
  ASSUME Saved \/ NotSaved \/ Rotated \/ sessFile' \in Sealed
  PROVE  sessFile' \in {sessFile, sess', SignedOut}
BY DEF Saved, NotSaved, Rotated, Sealed

\* A save, or one that failed, keeps the file a session and the counts counts.
LEMMA SavedType ==
  ASSUME TypeOK, Saved \/ NotSaved, sess' \in Session
  PROVE  sessFile' \in Session /\ spent' \in [DOMAIN Limit -> Nat]
<1>1. sessFile' \in Session
  BY SavedFile, SessionTypes DEF TypeOK
<1>2. spent' \in [DOMAIN Limit -> Nat]
  BY SpendType DEF Saved, NotSaved, Limit, TypeOK
<1> QED BY <1>1, <1>2

\* Appending a version keeps the history a sequence of versions.
LEMMA AcceptType ==
  ASSUME TypeOK, NEW p \in Payload, NEW by \in {"me", "other"}, NEW newPw \in Nat,
         Accept(p, by, newPw)
  PROVE  hist' \in Seq(Version)
<1>1. [payload |-> p, by |-> by, pw |-> newPw] \in Version
  BY DEF Version
<1> QED BY <1>1 DEF Accept, TypeOK

\* What the server holds is a payload under a password.
LEMMA RemoteType ==
  ASSUME TypeOK, NEW v \in 1..Current
  PROVE  hist[v] \in Version /\ Remote(v) \in Payload /\ hist[v].pw \in Nat
<1>1. hist \in Seq(Version) /\ v \in 1..Len(hist)
  BY DEF TypeOK, Current
<1>2. hist[v] \in Version
  BY <1>1, ElementOfSeq
<1> QED BY <1>2 DEF Remote, Version

\* The start is well typed (Init).
LEMMA TypeInit == Init => TypeOK
<1> SUFFICES ASSUME Init PROVE TypeOK
  OBVIOUS
<1>1. PICK p \in StartAccounts :
        /\ hist = IF p = NoFp THEN <<>> ELSE <<[payload |-> p, by |-> "other", pw |-> 1]>>
        /\ sessFile = IF StartPaired /\ p # NoFp THEN Agreed(1, p) ELSE SignedOut
  BY DEF Init
<1>2. p \in Payload \cup {NoFp}
  BY StartAssumption
<1>3. hist \in Seq(Version)
  <2>1. CASE p = NoFp
    BY <1>1, <2>1
  <2>2. CASE p # NoFp
    <3>1. [payload |-> p, by |-> "other", pw |-> 1] \in Version
      BY <1>2, <2>2 DEF Version
    <3> QED BY <1>1, <2>2, <3>1
  <2> QED BY <2>1, <2>2
<1>4. sessFile \in Session
  BY <1>1, <1>2, SessionTypes
<1>5. cmd \in [Slots -> Command]
  BY CommandTypes DEF Init
<1>6. crossed \subseteq Session
  BY DEF Init
<1> QED BY <1>3, <1>4, <1>5, <1>6, SessionTypes, StartAssumption
        DEF Init, TypeOK, Boot, NoBoot, Payload

\* The environment: other devices.
LEMMA TypeOthers ==
  ASSUME TypeOK, Versions, (\E p \in Payload : OtherPush(p)) \/ OtherRekey
  PROVE  TypeOK'
<1>1. ASSUME NEW p \in Payload, OtherPush(p) PROVE TypeOK'
  <2>1. hist' \in Seq(Version)
    BY <1>1, AcceptType DEF OtherPush, TypeOK
  <2>2. spent' \in [DOMAIN Limit -> Nat]
    BY <1>1, SpendType DEF OtherPush, Limit
  <2> QED BY <1>1, <2>1, <2>2 DEF OtherPush, TypeOK, disk, handle, engine, uiMain, uiJobs, past
<1>2. CASE OtherRekey
  <2>1. spent' \in [DOMAIN Limit -> Nat]
    BY <1>2, SpendType DEF OtherRekey, Limit
  <2>2. NewPw \in Nat
    BY <2>1 DEF NewPw, Limit
  <2>3. Current \in 1..Current
    BY <1>2 DEF OtherRekey, Current, TypeOK
  <2>4. hist' \in Seq(Version)
    BY <1>2, <2>2, <2>3, RemoteType, AcceptType DEF OtherRekey
  <2> QED BY <1>2, <2>1, <2>2, <2>4 DEF OtherRekey, TypeOK, disk, handle, engine, uiMain, uiJobs, past
<1> QED BY <1>1, <1>2

\* A command is started, or taken off.
LEMMA LaunchType ==
  ASSUME TypeOK, NEW c \in Slots, NEW kind \in Kind, NEW pay \in Payload, Launch(c, kind, pay)
  PROVE  cmd' \in [Slots -> Command]
BY CommandTypes DEF Launch, TypeOK

\* Taking a finished command off leaves an idle slot (Taken).
LEMMA TakenType ==
  ASSUME TypeOK, NEW c \in Slots, Taken(c)
  PROVE  cmd' \in [Slots -> Command]
BY CommandTypes DEF Taken, TypeOK

\* Closing the engine answers the passes that wait for it (Engine.Close).
LEMMA ClosedType ==
  ASSUME TypeOK, NEW c \in Slots
  PROVE  Closed(cmd[c]) \in Command
<1>1. cmd[c] \in Command /\ cmd[c].kind \in Kind
  BY DEF TypeOK, Command
<1>2. "signedOut" \in Outcome /\ "rekeyed" \in Outcome /\ "err" \in Outcome
  BY DEF Outcome
<1>3. [cmd[c] EXCEPT !.own = FALSE] \in Command
  BY <1>1 DEF Command
<1>4. \A res \in {"signedOut", "rekeyed", "err"} : ResultOf(cmd[c].kind, res, 0) \in Command
  BY <1>1, <1>2, CommandTypes
<1> QED BY <1>1, <1>3, <1>4 DEF Closed

\* The password is tried in a goroutine (installAccountVaultCmd).
LEMMA OpeningType ==
  ASSUME TypeOK, NEW b \in Boot, NEW password \in Nat
  PROVE  Opening(b, password) \in Command
<1>1. b.merge \in Payload /\ b.ver \in Nat /\ "install" \in Kind /\ unlocked \in BOOLEAN
  BY DEF Boot, Kind, TypeOK
<1>2. Fresh("install", b.merge) \in Command
  BY <1>1, CommandTypes
<1> QED BY <1>1, <1>2 DEF Opening, Command

\* Keys and timers.
LEMMA TypeKeys ==
  ASSUME TypeOK, Versions,
         \/ \E p \in Payload : Edit(p)
         \/ TimerFires \/ EscModal \/ SignOut \/ PairUnsaved
         \/ \E c \in Slots : \/ ManualSync(c) \/ ResolveKey(c, "keep") \/ ResolveKey(c, "take")
                             \/ SubmitRekey(c) \/ Pair(c)
  PROVE  TypeOK'
<1> USE DEF server, disk, handle, engine, uiMain, uiJobs, past
<1>1. ASSUME NEW p \in Payload, Edit(p) PROVE TypeOK'
  <2>1. spent' \in [DOMAIN Limit -> Nat]
    BY <1>1, SpendType DEF Edit, Limit
  <2> QED BY <1>1, <2>1 DEF Edit, TypeOK
<1>2. CASE TimerFires
  <2>1. cmd' \in [Slots -> Command] /\ syncSt' \in {"none", "syncing", "synced", "offline", "conflict"}
    <3>1. "sync" \in Kind /\ held \in Payload
      BY DEF Kind, TypeOK
    <3> QED BY <1>2, <3>1, LaunchType DEF TimerFires, TypeOK
  <2> QED BY <1>2, <2>1 DEF TimerFires, TypeOK
<1>3. ASSUME NEW c \in Slots, ManualSync(c) PROVE TypeOK'
  <2>1. cmd' \in [Slots -> Command]
    <3>1. "sync" \in Kind /\ held \in Payload
      BY DEF Kind, TypeOK
    <3> QED BY <1>3, <3>1, LaunchType DEF ManualSync, TypeOK
  <2>2. spent' \in [DOMAIN Limit -> Nat]
    BY <1>3, SpendType DEF ManualSync, Limit
  <2> QED BY <1>3, <2>1, <2>2 DEF ManualSync, TypeOK
<1>4. ASSUME NEW c \in Slots, NEW choice \in {"keep", "take"}, ResolveKey(c, choice) PROVE TypeOK'
  <2>1. choice \in Kind /\ held \in Payload
    BY DEF Kind, TypeOK
  <2>2. cmd' \in [Slots -> Command]
    BY <1>4, <2>1, LaunchType DEF ResolveKey
  <2> QED BY <1>4, <2>2 DEF ResolveKey, TypeOK
<1>5. CASE EscModal
  BY <1>5 DEF EscModal, TypeOK
<1>6. ASSUME NEW c \in Slots, SubmitRekey(c) PROVE TypeOK'
  <2>1. spent' \in [DOMAIN Limit -> Nat]
    BY <1>6, SpendType DEF SubmitRekey, Limit
  <2>2. NewPw \in Nat /\ pw \in Nat
    BY <2>1 DEF NewPw, Limit, TypeOK
  <2>3. (IF signedIn THEN "rekey" ELSE "offlineRekey") \in Kind /\ held \in Payload
    BY DEF Kind, TypeOK
  <2>4. Fresh(IF signedIn THEN "rekey" ELSE "offlineRekey", held) \in Command
    BY <2>3, CommandTypes
  <2>5. [Fresh(IF signedIn THEN "rekey" ELSE "offlineRekey", held) EXCEPT !.old = pw, !.new = NewPw]
          \in Command
    BY <2>2, <2>4 DEF Command
  <2>6. cmd' \in [Slots -> Command]
    BY <1>6, <2>5 DEF SubmitRekey, TypeOK
  <2> QED BY <1>6, <2>1, <2>6 DEF SubmitRekey, TypeOK
<1>7. CASE SignOut
  <2>1. spent' \in [DOMAIN Limit -> Nat]
    BY <1>7, SpendType DEF SignOut, Limit
  <2> QED BY <1>7, <2>1, SessionTypes DEF SignOut, DropSession, TypeOK
<1>8. ASSUME NEW c \in Slots, Pair(c) PROVE TypeOK'
  <2>1. Fresh("account", held) \in Command
    BY CommandTypes DEF Kind, TypeOK
  <2>2. cmd' \in [Slots -> Command]
    BY <1>8, <2>1 DEF Pair, TypeOK, Command
  <2>3. spent' \in [DOMAIN Limit -> Nat]
    BY <1>8, SpendType DEF Pair, Limit
  <2>4. sess' \in Session /\ sessFile' \in Session
    BY <1>8, SavedFile, SessionTypes DEF Pair, TypeOK
  <2> QED BY <1>8, <2>2, <2>3, <2>4 DEF Pair, TypeOK
<1>9. CASE PairUnsaved
  <2>1. spent' \in [DOMAIN Limit -> Nat]
    BY <1>9, SpendType DEF PairUnsaved, Limit
  <2> QED BY <1>9, <2>1, SessionTypes DEF PairUnsaved, TypeOK
<1> QED BY <1>1, <1>2, <1>3, <1>4, <1>5, <1>6, <1>7, <1>8, <1>9

\* Lock, unlock, and the death of the process.
LEMMA TypeGate ==
  ASSUME TypeOK, Versions, Lock \/ Unlock \/ Resume \/ Crash \/ (Died /\ UNCHANGED spent)
  PROVE  TypeOK'
<1> USE DEF server, disk, handle, engine, uiMain, uiJobs, past
<1>a. NoBoot \in Boot /\ {} \in Payload
  BY DEF NoBoot, Boot, Payload
<1>1. CASE Lock
  <2>1. cmd' \in [Slots -> Command]
    BY <1>1, ClosedType DEF Lock
  <2>2. spent' \in [DOMAIN Limit -> Nat]
    BY <1>1, SpendType DEF Lock, Limit
  <2> QED BY <1>1, <1>a, <2>1, <2>2, SessionTypes DEF Lock, TypeOK
<1>2. CASE Unlock
  BY <1>2 DEF Unlock, TypeOK
<1>3. CASE Resume
  <2>1. "sync" \in Kind /\ held \in Payload
    BY DEF Kind, TypeOK
  <2>2. cmd' \in [Slots -> Command]
    BY <1>3, <2>1, LaunchType DEF Resume, TypeOK
  <2>3. /\ sess' \in Session /\ signedIn' \in BOOLEAN
        /\ syncSt' \in {"none", "syncing", "synced", "offline", "conflict"}
    BY <1>3 DEF Resume, TypeOK
  <2> QED BY <1>3, <2>2, <2>3 DEF Resume, TypeOK
<1>4. CASE Crash \/ (Died /\ UNCHANGED spent)
  <2>1. spent' \in [DOMAIN Limit -> Nat]
    BY <1>4, SpendType DEF Crash, Limit, TypeOK
  <2>2. Died
    BY <1>4 DEF Crash
  <2>3. cmd' \in [Slots -> Command] /\ sess' \in Session /\ boot' \in Boot /\ held' \in Payload
    BY <1>a, <2>2, CommandTypes, SessionTypes DEF Died
  <2>4. /\ UNCHANGED <<hist, auth, vault, pw, sessFile, mislabelled, crossed>>
        /\ unlocked' = FALSE /\ pending' = 0 /\ master' = 0 /\ holder' = "none"
        /\ screen' = "gate" /\ syncSt' = "none" /\ conflict' = FALSE /\ modal' = "none"
        /\ signedIn' = FALSE /\ timer' = FALSE /\ resuming' = FALSE /\ adopting' = 0
        /\ step' = "unlock"
    <3>1. UNCHANGED <<server, disk, past>>
      BY <2>2, <1>4 DEF Crash, Died
    <3> QED BY <2>2, <3>1 DEF Died
  <2> QED BY <2>1, <2>3, <2>4 DEF TypeOK
<1> QED BY <1>1, <1>2, <1>3, <1>4

\* The keys and the goroutine of a sign-in.
LEMMA TypeSignIn ==
  ASSUME TypeOK, Versions,
         \/ CancelSignIn \/ LeakCollected
         \/ \E c \in Slots : EnterPassword(c) \/ InstallBlob(c) \/ SaveMerged(c)
  PROVE  TypeOK'
<1> USE DEF server, disk, handle, engine, uiMain, uiJobs, ui, past
<1>a. NoBoot \in Boot /\ {} \in Payload /\ 0 \in Nat
  BY DEF NoBoot, Boot, Payload
<1>b. "wrong" \in Outcome /\ "err" \in Outcome /\ "installed" \in Outcome
  BY DEF Outcome
<1>c. \A c \in Slots : /\ cmd[c] \in Command /\ cmd[c].ver \in Nat /\ cmd[c].pay \in Payload
                        /\ cmd[c].blobPw \in Nat
  BY DEF TypeOK, Command
<1>1. CASE CancelSignIn
  BY <1>1, <1>a DEF CancelSignIn, TypeOK
<1>2. CASE LeakCollected
  BY <1>2 DEF LeakCollected, TypeOK
<1>3. ASSUME NEW c \in Slots, EnterPassword(c) PROVE TypeOK'
  <2>1. boot \in Boot /\ hist[boot.ver].pw \in Nat
    BY <1>3, RemoteType DEF EnterPassword, Versions, TypeOK
  <2>2. cmd' \in [Slots -> Command]
    BY <1>3, <1>a, <2>1, OpeningType DEF EnterPassword, TypeOK
  <2> QED BY <1>3, <2>2 DEF EnterPassword, TypeOK
<1>4. ASSUME NEW c \in Slots, InstallBlob(c) PROVE TypeOK'
  <2>1. Remote(cmd[c].ver) \in Payload
    <3>1. cmd[c].ver \in 1..Current
      BY <1>4 DEF InstallBlob, Versions, Speaks, Command, TypeOK
    <3> QED BY <3>1, RemoteType
  <2>2. cmd' \in [Slots -> Command]
    <3>1. [cmd[c] EXCEPT !.st = "blob"] \in Command
      BY <1>c DEF Command, Stage
    <3>2. CASE cmd' = [cmd EXCEPT ![c].st = "blob"]
      BY <3>1, <3>2 DEF TypeOK
    <3>3. CASE Finish(c, "wrong", 0) \/ Finish(c, "err", 0)
      BY <1>a, <1>b, <3>3, FinishType
    <3> QED BY <1>4, <3>2, <3>3 DEF InstallBlob
  <2>3. spent' \in [DOMAIN Limit -> Nat]
    BY <1>4, SpendType DEF InstallBlob, Limit, TypeOK
  <2>4. vault' \in Payload /\ pw' \in Nat /\ sessFile' \in Session
    BY <1>4, <1>c, <2>1, SessionTypes DEF InstallBlob, TypeOK
  <2>5. holder' \in {"none", "ui", "install", "leaked"}
    BY <1>4 DEF InstallBlob, TypeOK
  <2> QED BY <1>4, <2>2, <2>3, <2>4, <2>5 DEF InstallBlob, TypeOK
<1>5. ASSUME NEW c \in Slots, SaveMerged(c) PROVE TypeOK'
  <2>1. cmd' \in [Slots -> Command]
    BY <1>5, <1>a, <1>b, <1>c, FinishType DEF SaveMerged
  <2>2. spent' \in [DOMAIN Limit -> Nat]
    BY <1>5, SpendType DEF SaveMerged, Limit, TypeOK
  <2>3. vault' \in Payload
    BY <1>5, <1>c DEF SaveMerged, TypeOK, Payload
  <2> QED BY <1>5, <2>1, <2>2, <2>3 DEF SaveMerged, TypeOK
<1> QED BY <1>1, <1>2, <1>3, <1>4, <1>5

\* An engine pass reads the file, or goes back to fetching (pushLocked).
LEMMA ReadBlobType ==
  ASSUME TypeOK, NEW c \in Slots, NEW expected \in Nat, ReadBlob(c, expected)
  PROVE  cmd' \in [Slots -> Command]
<1>1. cmd[c] \in Command
  BY DEF TypeOK
<1>2. [cmd[c] EXCEPT !.st = "put", !.ver = expected, !.blob = vault, !.blobPw = pw] \in Command
  BY <1>1 DEF Command, Stage, Kind, TypeOK
<1>3. cmd' = [cmd EXCEPT ![c] = [cmd[c] EXCEPT !.st = "put", !.ver = expected, !.blob = vault, !.blobPw = pw]]
  BY DEF ReadBlob
<1> QED BY <1>2, <1>3 DEF TypeOK

\* Going back to fetching changes only the stage, the kind and the retry.
LEMMA FetchType ==
  ASSUME TypeOK, NEW c \in Slots, NEW retry \in BOOLEAN,
         \/ cmd' = [cmd EXCEPT ![c].st = "get", ![c].retry = retry]
         \/ cmd' = [cmd EXCEPT ![c].st = "get", ![c].kind = "sync", ![c].retry = retry]
  PROVE  cmd' \in [Slots -> Command]
<1>1. cmd[c] \in Command
  BY DEF TypeOK
<1>2. /\ [cmd[c] EXCEPT !.st = "get", !.retry = retry] \in Command
      /\ [cmd[c] EXCEPT !.st = "get", !.kind = "sync", !.retry = retry] \in Command
  BY <1>1 DEF Command, Stage, Kind
<1>3. \/ cmd' = [cmd EXCEPT ![c] = [cmd[c] EXCEPT !.st = "get", !.retry = retry]]
      \/ cmd' = [cmd EXCEPT ![c] = [cmd[c] EXCEPT !.st = "get", !.kind = "sync", !.retry = retry]]
  OBVIOUS
<1> QED BY <1>2, <1>3 DEF TypeOK

\* So does rolling back a password change.
LEMMA RollBackType ==
  ASSUME TypeOK, NEW c \in Slots, RollBack(c)
  PROVE  cmd' \in [Slots -> Command]
<1>1. cmd[c] \in Command
  BY DEF TypeOK
<1>2. [cmd[c] EXCEPT !.st = "undo"] \in Command
  BY <1>1 DEF Command, Stage, Kind, TypeOK
<1>3. cmd' = [cmd EXCEPT ![c] = [cmd[c] EXCEPT !.st = "undo"]]
  BY DEF RollBack
<1> QED BY <1>2, <1>3 DEF TypeOK

\* The engine passes.
LEMMA TypePass ==
  ASSUME TypeOK, Versions, NEW c \in Slots,
         \/ Begin(c) \/ GetVault(c) \/ Evaluate(c) \/ PutAccepted(c) \/ PutRefused(c)
         \/ RequestFails(c) \/ AnswerLost(c) \/ FetchAccount(c)
  PROVE  TypeOK'
<1> USE DEF server, disk, handle, engine, uiMain, uiJobs, ui, past
<1>a. /\ cmd[c] \in Command /\ cmd[c].ver \in Nat /\ cmd[c].pay \in Payload
      /\ cmd[c].blob \in Payload /\ cmd[c].blobPw \in Nat /\ cmd[c].new \in Nat
  BY DEF TypeOK, Command
<1>b. Current \in Nat
  BY DEF Current, TypeOK
<1>c. \A res \in {"none", "ok", "pushed", "conflict", "adopt", "taken", "signedOut", "dead",
                  "unverified", "err", "wrong", "rekeyed", "account", "noAccount", "installed"} :
        res \in Outcome
  BY DEF Outcome
<1>d. pending \in Nat /\ 0 \in Nat
  BY DEF TypeOK
<1>1. CASE Begin(c)
  <2>1. cmd' \in [Slots -> Command]
    <3>1. CASE Finish(c, "signedOut", 0)
      BY <3>1, <1>c, <1>d, FinishType
    <3>2. CASE cmd' = [cmd EXCEPT ![c].st = "get", ![c].kind = "sync", ![c].retry = TRUE]
      BY <3>2, FetchType
    <3>3. CASE ReadBlob(c, pending)
      BY <3>3, <1>d, ReadBlobType
    <3>4. CASE Finish(c, "taken", pending)
      BY <3>4, <1>c, <1>d, FinishType
    <3> QED BY <1>1, <3>1, <3>2, <3>3, <3>4 DEF Begin
  <2>2. sessFile' \in Session
    BY <1>1, SavedFile, SessionTypes DEF Begin, TypeOK
  <2> QED BY <1>1, <2>1, <2>2 DEF Begin, TypeOK
<1>2. CASE GetVault(c)
  <2>1. cmd' \in [Slots -> Command]
    <3>1. [cmd[c] EXCEPT !.st = "got", !.ver = Current] \in Command
      BY <1>a, <1>b DEF Command, Stage
    <3>2. cmd' = [cmd EXCEPT ![c] = [cmd[c] EXCEPT !.st = "got", !.ver = Current]]
      BY <1>2 DEF GetVault
    <3> QED BY <3>1, <3>2 DEF TypeOK
  <2> QED BY <1>2, <2>1 DEF GetVault, TypeOK
<1>3. CASE Evaluate(c)
  <2>1. cmd' \in [Slots -> Command]
    <3>1. CASE \/ Finish(c, "ok", 0) \/ Finish(c, "wrong", 0) \/ Finish(c, "conflict", 0)
               \/ Finish(c, "err", 0)
      BY <3>1, <1>c, <1>d, FinishType
    <3>2. CASE ReadBlob(c, cmd[c].ver)
      BY <3>2, <1>a, ReadBlobType
    <3>3. CASE Finish(c, "adopt", cmd[c].ver)
      BY <3>3, <1>a, <1>c, FinishType
    <3> QED BY <1>3, <3>1, <3>2, <3>3 DEF Evaluate
  <2>2. sess' \in Session
    BY <1>3, <1>a, SessionTypes DEF Evaluate, Commit, TypeOK
  <2>3. pending' \in Nat /\ master' \in Nat
    BY <1>3, <1>a DEF Evaluate, TypeOK
  <2>4. sessFile' \in Session
    <3>1. sessFile' = sessFile \/ Saved \/ NotSaved \/ Rotated
      BY <1>3 DEF Evaluate
    <3> QED BY <2>2, <3>1, SavedFile, SessionTypes DEF TypeOK
  <2>5. spent' \in [DOMAIN Limit -> Nat]
    <3>1. UNCHANGED spent \/ Saved \/ NotSaved
      BY <1>3 DEF Evaluate
    <3> QED BY <2>2, <3>1, SavedType DEF TypeOK
  <2> QED BY <1>3, <2>1, <2>2, <2>3, <2>4, <2>5 DEF Evaluate, TypeOK
<1>4. CASE PutAccepted(c)
  <2>1. cmd' \in [Slots -> Command]
    BY <1>4, <1>c, <1>d, FinishType DEF PutAccepted
  <2>2. sess' \in Session
    BY <1>4, <1>a, SessionTypes DEF PutAccepted, Commit
  <2>5. sessFile' \in Session /\ spent' \in [DOMAIN Limit -> Nat]
    BY <1>4, <2>2, SavedType DEF PutAccepted
  <2>3. hist' \in Seq(Version)
    BY <1>4, <1>a, AcceptType DEF PutAccepted
  <2>4. mislabelled' \subseteq Nat
    <3>1. cmd[c].ver + 1 \in Nat
      BY <1>a
    <3>2. mislabelled' \subseteq mislabelled \cup {cmd[c].ver + 1}
      BY <1>4 DEF PutAccepted
    <3> QED BY <3>1, <3>2 DEF TypeOK
  <2> QED BY <1>4, <2>1, <2>2, <2>3, <2>4, <2>5 DEF PutAccepted, TypeOK
<1>5. CASE PutRefused(c)
  <2>1. cmd' \in [Slots -> Command]
    <3>1. CASE Finish(c, "err", 0)
      BY <3>1, <1>c, <1>d, FinishType
    <3>2. CASE \/ cmd' = [cmd EXCEPT ![c].st = "get", ![c].retry = FALSE]
               \/ cmd' = [cmd EXCEPT ![c].st = "get", ![c].kind = "sync", ![c].retry = TRUE]
      BY <3>2, FetchType
    <3> QED BY <1>5, <3>1, <3>2 DEF PutRefused
  <2>2. sessFile' \in Session
    BY <1>5, SavedFile, SessionTypes DEF PutRefused, TypeOK
  <2> QED BY <1>5, <2>1, <2>2 DEF PutRefused, TypeOK
<1>6. CASE RequestFails(c)
  <2>1. cmd' \in [Slots -> Command]
    <3>1. CASE RollBack(c)
      BY <3>1, RollBackType
    <3>2. ASSUME NEW res \in {"err", "unverified", "dead"}, Finish(c, res, 0)
          PROVE  cmd' \in [Slots -> Command]
      BY <3>2, <1>c, <1>d, FinishType
    <3> QED BY <1>6, <3>1, <3>2 DEF RequestFails
  <2>2. spent' \in [DOMAIN Limit -> Nat]
    BY <1>6, SpendType DEF RequestFails, Limit
  <2>3. sess' \in Session /\ sessFile' \in Session /\ pending' \in Nat /\ master' \in Nat
    BY <1>6, SavedFile, SessionTypes DEF RequestFails, DropSession, TypeOK
  <2> QED BY <1>6, <2>1, <2>2, <2>3 DEF RequestFails, TypeOK
<1>7. CASE AnswerLost(c)
  <2>1. cmd' \in [Slots -> Command]
    BY <1>7, <1>c, <1>d, FinishType, RollBackType DEF AnswerLost
  <2>2. spent' \in [DOMAIN Limit -> Nat]
    BY <1>7, SpendType DEF AnswerLost, Limit
  <2>3. hist' \in Seq(Version)
    BY <1>7, <1>a, AcceptType DEF AnswerLost
  <2>4. auth' \in Nat
    BY <1>7, <1>a DEF AnswerLost, TypeOK
  <2>5. sessFile' \in Session
    BY <1>7, SavedFile, SessionTypes DEF AnswerLost, TypeOK
  <2> QED BY <1>7, <2>1, <2>2, <2>3, <2>4, <2>5 DEF AnswerLost, TypeOK
<1>8. CASE FetchAccount(c)
  <2>1. cmd' \in [Slots -> Command]
    BY <1>8, <1>b, <1>c, <1>d, FinishType DEF FetchAccount
  <2>2. spent' \in [DOMAIN Limit -> Nat]
    BY <1>8, SpendType DEF FetchAccount, Limit, TypeOK
  <2> QED BY <1>8, <2>1, <2>2 DEF FetchAccount, TypeOK
<1> QED BY <1>1, <1>2, <1>3, <1>4, <1>5, <1>6, <1>7, <1>8

\* The change of the master password.
LEMMA TypeRekey ==
  ASSUME TypeOK, Versions, NEW c \in Slots,
         \/ RekeyFile(c) \/ RekeyOffline(c) \/ BeginRekey(c) \/ RekeyAccepted(c)
         \/ RekeyRefused(c) \/ RekeyUndone(c)
  PROVE  TypeOK'
<1> USE DEF server, disk, handle, engine, uiMain, uiJobs, ui, past
<1>a. /\ cmd[c] \in Command /\ cmd[c].pay \in Payload /\ cmd[c].old \in Nat
      /\ cmd[c].blob \in Payload /\ cmd[c].blobPw \in Nat /\ cmd[c].new \in Nat
  BY DEF TypeOK, Command
<1>b. Current \in Nat /\ 0 \in Nat /\ Current + 1 \in Nat
  BY DEF Current, TypeOK
<1>c. "err" \in Outcome /\ "rekeyed" \in Outcome
  BY DEF Outcome
<1>1. CASE RekeyFile(c)
  <2>1. cmd' \in [Slots -> Command]
    <3>1. [cmd[c] EXCEPT !.st = "rekeyed"] \in Command
      BY <1>a DEF Command, Stage
    <3>2. CASE cmd' = [cmd EXCEPT ![c].st = "rekeyed"]
      BY <3>1, <3>2 DEF TypeOK
    <3>3. CASE Finish(c, "err", 0)
      BY <1>b, <1>c, <3>3, FinishType
    <3> QED BY <1>1, <3>2, <3>3 DEF RekeyFile
  <2> QED BY <1>1, <1>a, <2>1 DEF RekeyFile, TypeOK
<1>2. CASE RekeyOffline(c)
  <2>1. cmd' \in [Slots -> Command]
    BY <1>2, <1>b, <1>c, FinishType DEF RekeyOffline
  <2> QED BY <1>2, <1>a, <2>1 DEF RekeyOffline, TypeOK
<1>3. CASE BeginRekey(c)
  <2>1. cmd' \in [Slots -> Command]
    BY <1>3, <1>b, RollBackType, ReadBlobType DEF BeginRekey
  <2> QED BY <1>3, <2>1 DEF BeginRekey, TypeOK
<1>4. CASE RekeyAccepted(c)
  <2>1. cmd' \in [Slots -> Command]
    BY <1>4, <1>b, <1>c, FinishType DEF RekeyAccepted
  <2>2. sess' \in Session
    BY <1>4, <1>a, <1>b, SessionTypes DEF RekeyAccepted, Commit
  <2>5. sessFile' \in Session /\ spent' \in [DOMAIN Limit -> Nat]
    BY <1>4, <2>2, SavedType DEF RekeyAccepted
  <2>3. hist' \in Seq(Version)
    BY <1>4, <1>a, AcceptType DEF RekeyAccepted
  <2>4. mislabelled' \subseteq Nat
    BY <1>4, <1>b DEF RekeyAccepted, TypeOK
  <2> QED BY <1>4, <1>a, <2>1, <2>2, <2>3, <2>4, <2>5 DEF RekeyAccepted, TypeOK
<1>5. CASE RekeyRefused(c)
  <2>1. cmd' \in [Slots -> Command]
    BY <1>5, RollBackType DEF RekeyRefused
  <2> QED BY <1>5, <2>1 DEF RekeyRefused, TypeOK
<1>6. CASE RekeyUndone(c)
  <2>1. cmd' \in [Slots -> Command]
    BY <1>6, <1>b, <1>c, FinishType DEF RekeyUndone
  <2> QED BY <1>6, <1>a, <2>1 DEF RekeyUndone, TypeOK
<1> QED BY <1>1, <1>2, <1>3, <1>4, <1>5, <1>6

\* The handlers of results, and adoptRemote's second half.
LEMMA TypeResults ==
  ASSUME TypeOK, Versions,
         (\E c \in Slots : ResultStep(c)) \/ CommitAdopt
  PROVE  TypeOK'
<1> USE DEF server, disk, handle, engine, uiMain, uiJobs, ui, past
<1>a. \A c \in Slots : cmd[c] \in Command /\ cmd[c].pay \in Payload /\ cmd[c].ver \in Nat
  BY DEF TypeOK, Command
<1>1. ASSUME NEW c \in Slots, DropResult(c) PROVE TypeOK'
  <2>1. cmd' \in [Slots -> Command]
    BY <1>1, TakenType DEF DropResult
  <2> QED BY <1>1, <2>1 DEF DropResult, TypeOK
<1>2. ASSUME NEW c \in Slots, HandleSyncDone(c) PROVE TypeOK'
  <2>1. cmd' \in [Slots -> Command]
    <3>1. CASE Taken(c)
      BY <3>1, TakenType
    <3>2. CASE cmd' = [cmd EXCEPT ![c] = Fresh("account", held)]
      <4>1. "account" \in Kind /\ held \in Payload
        BY DEF Kind, TypeOK
      <4> QED BY <3>2, <4>1, CommandTypes DEF TypeOK
    <3> QED BY <1>2, <3>1, <3>2 DEF HandleSyncDone, Report, SessionGone
  <2>2. /\ syncSt' \in {"none", "syncing", "synced", "offline", "conflict"}
        /\ conflict' \in BOOLEAN /\ modal' \in {"none", "conflict", "password"}
        /\ signedIn' \in BOOLEAN
    BY <1>2 DEF HandleSyncDone, Report, SessionGone, TypeOK
  <2> QED BY <1>2, <2>1, <2>2 DEF HandleSyncDone, TypeOK
<1>3. ASSUME NEW c \in Slots, AdoptRemote(c) PROVE TypeOK'
  <2>1. cmd' \in [Slots -> Command]
    BY <1>3, TakenType DEF AdoptRemote
  <2>2. Remote(cmd[c].ver) \in Payload
    BY <1>3, RemoteType DEF AdoptRemote, Versions, Speaks
  <2> QED BY <1>3, <1>a, <2>1, <2>2 DEF AdoptRemote, TypeOK
<1>7. ASSUME NEW c \in Slots, AdoptUnsaved(c) PROVE TypeOK'
  <2>1. cmd' \in [Slots -> Command]
    BY <1>7, TakenType DEF AdoptUnsaved, Report
  <2>2. spent' \in [DOMAIN Limit -> Nat]
    BY <1>7, SpendType DEF AdoptUnsaved, Limit, TypeOK
  <2> QED BY <1>7, <2>1, <2>2 DEF AdoptUnsaved, Report, TypeOK
<1>4. ASSUME NEW c \in Slots, HandleRekeyDone(c) PROVE TypeOK'
  <2>1. cmd' \in [Slots -> Command]
    BY <1>4, TakenType DEF HandleRekeyDone
  <2> QED BY <1>4, <2>1 DEF HandleRekeyDone, TypeOK
<1>5. ASSUME NEW c \in Slots, HandleAccountFetched(c) PROVE TypeOK'
  <2>1. boot' \in Boot
    <3>1. NoBoot \in Boot
      BY DEF NoBoot, Boot, Payload
    <3>2. [on |-> TRUE, ver |-> cmd[c].ver, merge |-> cmd[c].pay] \in Boot
      BY <1>a DEF Boot
    <3> QED BY <1>5, <3>1, <3>2 DEF HandleAccountFetched
  <2>2. cmd' \in [Slots -> Command]
    <3>1. CASE Taken(c)
      BY <3>1, TakenType
    <3>2. CASE cmd' = [cmd EXCEPT ![c] = Opening(boot', master)]
      <4>1. Opening(boot', master) \in Command
        BY <2>1, OpeningType DEF TypeOK
      <4> QED BY <3>2, <4>1 DEF TypeOK
    <3> QED BY <1>5, <3>1, <3>2 DEF HandleAccountFetched
  <2>3. /\ screen' \in {"gate", "main", "auth"}
        /\ syncSt' \in {"none", "syncing", "synced", "offline", "conflict"}
        /\ step' \in {"unlock", "prompt", "opening", "choose"}
    BY <1>5 DEF HandleAccountFetched, TypeOK
  <2> QED BY <1>5, <2>1, <2>2, <2>3 DEF HandleAccountFetched, TypeOK
<1>8. ASSUME NEW c \in Slots, InstallFailed(c) PROVE TypeOK'
  <2>1. cmd' \in [Slots -> Command]
    BY <1>8, TakenType DEF InstallFailed
  <2>2. NoBoot \in Boot
    BY DEF NoBoot, Boot, Payload
  <2> QED BY <1>8, <2>1, <2>2 DEF InstallFailed, TypeOK
<1>9. ASSUME NEW c \in Slots, VaultInstalled(c) PROVE TypeOK'
  <2>1. boot.ver \in 1..Current /\ cmd[c].ver \in 1..Current
    BY <1>9 DEF VaultInstalled, Arrived, Versions, Speaks
  <2>2. sess' \in Session
    BY <1>9, <1>a, <2>1, RemoteType, SessionTypes DEF VaultInstalled, Attach, Commit, TypeOK, Boot
  <2>3. cmd' \in [Slots -> Command]
    <3>1. "sync" \in Kind /\ vault \in Payload
      BY DEF Kind, TypeOK
    <3> QED BY <1>9, <3>1, ClosedType, CommandTypes DEF VaultInstalled
  <2>4. spent' \in [DOMAIN Limit -> Nat]
    BY <1>9, SpendType DEF VaultInstalled, Limit, TypeOK
  <2>5. NoBoot \in Boot
    BY DEF NoBoot, Boot, Payload
  <2>6. sessFile' \in Session /\ crossed' \subseteq Session
    BY <1>9, <2>2 DEF VaultInstalled, TypeOK
  <2> QED BY <1>9, <2>2, <2>3, <2>4, <2>5, <2>6 DEF VaultInstalled, TypeOK
<1>10. ASSUME NEW c \in Slots, InstalledForNone(c) PROVE TypeOK'
  BY <1>10, TypeGate DEF InstalledForNone
<1>6. CASE CommitAdopt
  <2>1. adopting \in 1..Current
    BY <1>6 DEF CommitAdopt, Versions, TypeOK, Current
  <2>2. Remote(adopting) \in Payload /\ adopting \in Nat
    BY <2>1, RemoteType DEF TypeOK
  <2>3. sess' \in Session
    BY <1>6, <2>2, SessionTypes DEF CommitAdopt, Commit, TypeOK
  <2>5. sessFile' \in Session /\ spent' \in [DOMAIN Limit -> Nat]
    BY <1>6, <2>3, SavedType DEF CommitAdopt, TypeOK
  <2>4. pending' \in Nat
    BY <1>6 DEF CommitAdopt, TypeOK
  <2>6. /\ UNCHANGED <<hist, auth, vault, pw, holder, held, unlocked, cmd, screen, modal, signedIn,
                       timer, resuming, boot, step, mislabelled, crossed, master>>
        /\ adopting' = 0 /\ syncSt' = "synced" /\ conflict' = FALSE
    BY <1>6 DEF CommitAdopt
  <2> QED BY <2>3, <2>4, <2>5, <2>6 DEF TypeOK
<1> QED BY <1>1, <1>2, <1>3, <1>4, <1>5, <1>6, <1>7, <1>8, <1>9, <1>10 DEF ResultStep

\* Every step keeps the types.
LEMMA TypeStep == TypeOK /\ Versions /\ [Next]_vars => TypeOK'
<1> SUFFICES ASSUME TypeOK, Versions, [Next]_vars PROVE TypeOK'
  OBVIOUS
<1>1. CASE UNCHANGED vars
  BY <1>1 DEF vars, TypeOK
<1>2. CASE (\E p \in Payload : OtherPush(p)) \/ OtherRekey
  BY <1>2, TypeOthers
<1>3. CASE (\E p \in Payload : Edit(p)) \/ TimerFires \/ EscModal \/ SignOut \/ PairUnsaved
  BY <1>3, TypeKeys
<1>4. CASE Lock \/ Unlock \/ Resume \/ Crash \/ PasswordForNone
  BY <1>4, TypeGate DEF PasswordForNone
<1>10. CASE CancelSignIn \/ LeakCollected
  BY <1>10, TypeSignIn
<1>5. CASE CommitAdopt
  BY <1>5, TypeResults
<1>6. ASSUME NEW c \in Slots, UIKeys(c) PROVE TypeOK'
  BY <1>6, TypeKeys, TypeSignIn DEF UIKeys
<1>7. ASSUME NEW c \in Slots, PassStep(c) PROVE TypeOK'
  BY <1>7, TypePass, TypeRekey, TypeSignIn DEF PassStep
<1>8. ASSUME NEW c \in Slots, ResultStep(c) PROVE TypeOK'
  BY <1>8, TypeResults
<1>9. ASSUME NEW c \in Slots, FaultStep(c) PROVE TypeOK'
  BY <1>9, TypePass DEF FaultStep
<1> QED BY <1>1, <1>2, <1>3, <1>4, <1>5, <1>6, <1>7, <1>8, <1>9, <1>10 DEF Next

-----------------------------------------------------------------------------
(* The server's history, and the versions the device speaks of *)

\* A push adds one version and leaves the accepted ones alone.
LEMMA AcceptGrows ==
  ASSUME TypeOK, NEW p, NEW by, NEW newPw, Accept(p, by, newPw)
  PROVE  /\ Current' = Current + 1 /\ Current \in Nat
         /\ hist'[Current + 1] = [payload |-> p, by |-> by, pw |-> newPw]
         /\ \A v \in 1..Current : hist'[v] = hist[v]
<1>1. hist \in Seq(Version) /\ hist' = Append(hist, [payload |-> p, by |-> by, pw |-> newPw])
  BY DEF TypeOK, Accept
<1>2. hist \in Seq(Version \cup {[payload |-> p, by |-> by, pw |-> newPw]})
  BY <1>1
<1> QED BY <1>1, <1>2, AppendProperties DEF Current

\* Accepted versions stay what they are, whatever happens (optimistic
\* versioning: a version is never written twice), and the past is not forgotten.
Grows ==
  /\ Current \in Nat /\ Current' \in Nat /\ Current <= Current'
  /\ \A v \in 1..Current : hist'[v] = hist[v]
  /\ mislabelled \subseteq mislabelled' /\ crossed \subseteq crossed'

\* Every step appends at most one version.
LEMMA HistGrows == TypeOK /\ [Next]_vars => Grows
<1> SUFFICES ASSUME TypeOK, [Next]_vars PROVE Grows
  OBVIOUS
<1>1. /\ \/ hist' = hist
         \/ \E p, by, newPw : Accept(p, by, newPw)
      /\ mislabelled \subseteq mislabelled' /\ crossed \subseteq crossed'
  <2> DEFINE H == /\ \/ hist' = hist
                     \/ \E p, by, newPw : Accept(p, by, newPw)
                  /\ mislabelled \subseteq mislabelled' /\ crossed \subseteq crossed'
  <2> USE DEF server, ui, past
  <2>1. CASE UNCHANGED vars
    BY <2>1 DEF vars
  <2>2. CASE (\E p \in Payload : OtherPush(p)) \/ OtherRekey
    BY <2>2 DEF OtherPush, OtherRekey
  <2>3. CASE \/ \E p \in Payload : Edit(p)
             \/ TimerFires \/ EscModal \/ SignOut \/ PairUnsaved \/ LeakCollected
    BY <2>3 DEF Edit, TimerFires, EscModal, SignOut, PairUnsaved, LeakCollected
  <2>4. CASE \/ Lock \/ Unlock \/ Resume \/ CancelSignIn \/ Crash \/ PasswordForNone
             \/ CommitAdopt
    BY <2>4 DEF Lock, Unlock, Resume, CancelSignIn, Crash, PasswordForNone, Died, CommitAdopt
  <2>5. ASSUME NEW c \in Slots, UIKeys(c) PROVE H
    BY <2>5 DEF UIKeys, ManualSync, ResolveKey, SubmitRekey, Pair, EnterPassword
  <2>6. ASSUME NEW c \in Slots, PassStep(c) PROVE H
    <3>1. CASE PutAccepted(c) \/ RekeyAccepted(c)
      BY <3>1 DEF PutAccepted, RekeyAccepted
    <3>2. CASE ~(PutAccepted(c) \/ RekeyAccepted(c))
      BY <2>6, <3>2 DEF PassStep, Begin, GetVault, Evaluate, PutRefused, RekeyFile, RekeyOffline,
                        BeginRekey, RekeyRefused, RekeyUndone, FetchAccount, InstallBlob, SaveMerged
    <3> QED BY <3>1, <3>2
  <2>7. ASSUME NEW c \in Slots, ResultStep(c) PROVE H
    BY <2>7 DEF ResultStep, DropResult, HandleSyncDone, AdoptRemote, AdoptUnsaved, HandleRekeyDone,
                HandleAccountFetched, InstallFailed, VaultInstalled, InstalledForNone, Died
  <2>8. ASSUME NEW c \in Slots, FaultStep(c) PROVE H
    BY <2>8 DEF FaultStep, AnswerLost, RequestFails
  <2> QED BY <2>1, <2>2, <2>3, <2>4, <2>5, <2>6, <2>7, <2>8 DEF Next
<1>2. Current \in Nat
  BY DEF TypeOK, Current
<1>3. CASE hist' = hist
  BY <1>1, <1>2, <1>3 DEF Grows, Current
<1>4. ASSUME NEW p, NEW by, NEW newPw, Accept(p, by, newPw) PROVE Grows
  <2>1. /\ Current' = Current + 1 /\ Current \in Nat
        /\ \A v \in 1..Current : hist'[v] = hist[v]
    BY <1>4, AcceptGrows
  <2> QED BY <1>1, <2>1 DEF Grows
<1> QED BY <1>1, <1>3, <1>4

\* One command changes, the others still speak of accepted versions.
LEMMA OneSpeaks ==
  ASSUME TypeOK, Versions, Grows, NEW c \in Slots, NEW k,
         cmd' = [cmd EXCEPT ![c] = k], Speaks(k, Current')
  PROVE  \A d \in Slots : Speaks(cmd'[d], Current')
<1> TAKE d \in Slots
<1>1. cmd[d] \in Command /\ Speaks(cmd[d], Current)
  BY DEF TypeOK, Versions
<1>2. CASE d = c
  BY <1>2 DEF TypeOK
<1>3. CASE d # c
  <2>1. cmd'[d] = cmd[d]
    BY <1>3 DEF TypeOK
  <2>2. Speaks(cmd[d], Current')
    BY <1>1 DEF Speaks, Command, Grows
  <2> QED BY <2>1, <2>2
<1> QED BY <1>2, <1>3

\* A result names an accepted version, or none.
LEMMA FinishSpeaks ==
  ASSUME TypeOK, Versions, Grows, NEW c \in Slots, NEW res, NEW v, Finish(c, res, v),
         res # "none", res \in {"adopt", "taken", "account", "installed"} => v \in 1..Current'
  PROVE  \A d \in Slots : Speaks(cmd'[d], Current')
<1>1. cmd[c] \in Command
  BY DEF TypeOK
<1>2. Done(c, res, v).st = "done" /\ Done(c, res, v).res = res /\ Done(c, res, v).ver = v
  BY <1>1 DEF Done, ResultOf, Idle, Command
<1>3. Speaks(Done(c, res, v), Current')
  BY <1>2 DEF Speaks
<1>4. cmd' = [cmd EXCEPT ![c] = Done(c, res, v)]
  BY DEF Finish
<1> QED BY <1>3, <1>4, OneSpeaks

\* A command that is not answered yet names no version as its result; only an
\* install names the one it was started with.
LEMMA UnansweredSpeaks ==
  ASSUME TypeOK, Versions, Grows, NEW c \in Slots, cmd[c].st # "done", NEW k \in Command,
         cmd' = [cmd EXCEPT ![c] = k], k.res = cmd[c].res, k.st \notin {"got", "blob"},
         k.st \in {"get", "put"} => k.kind \in {"sync", "keep", "rekey"},
         k.kind = "install" => cmd[c].kind = "install" /\ k.ver = cmd[c].ver
  PROVE  \A d \in Slots : Speaks(cmd'[d], Current')
<1>1. cmd[c].res = "none" /\ Speaks(cmd[c], Current)
  BY DEF Versions, Speaks
<1>2. Speaks(k, Current')
  BY <1>1 DEF Speaks, Grows, Command
<1> QED BY <1>2, OneSpeaks

\* The moves of a pass and of a password change between its requests.
LEMMA PassSpeaks ==
  ASSUME TypeOK, Versions, Grows, NEW c \in Slots, cmd[c].st # "done", NEW v \in Nat,
         NEW retry \in BOOLEAN,
         \/ RollBack(c) \/ cmd' = [cmd EXCEPT ![c].st = "rekeyed"]
         \/ cmd' = [cmd EXCEPT ![c].st = "get", ![c].kind = "sync", ![c].retry = retry]
         \/ /\ cmd[c].kind \in {"sync", "keep", "rekey"}
            /\ ReadBlob(c, v) \/ cmd' = [cmd EXCEPT ![c].st = "get", ![c].retry = retry]
  PROVE  \A d \in Slots : Speaks(cmd'[d], Current')
<1> DEFINE Good(k) ==
      /\ k \in Command /\ k.res = cmd[c].res /\ k.st \notin {"got", "blob"}
      /\ k.st \in {"get", "put"} => k.kind \in {"sync", "keep", "rekey"}
      /\ k.kind = "install" => cmd[c].kind = "install" /\ k.ver = cmd[c].ver
<1>1. cmd[c] \in Command /\ vault \in Payload /\ pw \in Nat
  BY DEF TypeOK
<1>2. \A st \in {"undo", "rekeyed"} : Good([cmd[c] EXCEPT !.st = st])
  BY <1>1 DEF Command, Stage
<1>3. Good([cmd[c] EXCEPT !.st = "get", !.kind = "sync", !.retry = retry])
  BY <1>1 DEF Command, Stage, Kind
<1>4. ASSUME cmd[c].kind \in {"sync", "keep", "rekey"}
      PROVE  /\ Good([cmd[c] EXCEPT !.st = "put", !.ver = v, !.blob = vault, !.blobPw = pw])
             /\ Good([cmd[c] EXCEPT !.st = "get", !.retry = retry])
  BY <1>1, <1>4 DEF Command, Stage
<1>5. \E k : cmd' = [cmd EXCEPT ![c] = k] /\ Good(k)
  <2>1. CASE RollBack(c) \/ cmd' = [cmd EXCEPT ![c].st = "rekeyed"]
    <3>1. PICK st \in {"undo", "rekeyed"} : cmd' = [cmd EXCEPT ![c] = [cmd[c] EXCEPT !.st = st]]
      BY <2>1 DEF RollBack
    <3> HIDE DEF Good
    <3> QED BY <3>1, <1>2
  <2>2. CASE cmd' = [cmd EXCEPT ![c].st = "get", ![c].kind = "sync", ![c].retry = retry]
    <3> HIDE DEF Good
    <3> QED BY <2>2, <1>3
  <2>3. CASE /\ cmd[c].kind \in {"sync", "keep", "rekey"}
             /\ ReadBlob(c, v) \/ cmd' = [cmd EXCEPT ![c].st = "get", ![c].retry = retry]
    <3>1. CASE ReadBlob(c, v)
      <4>1. cmd' = [cmd EXCEPT ![c] =
                      [cmd[c] EXCEPT !.st = "put", !.ver = v, !.blob = vault, !.blobPw = pw]]
        BY <3>1 DEF ReadBlob
      <4> HIDE DEF Good
      <4> QED BY <2>3, <4>1, <1>4
    <3>2. CASE cmd' = [cmd EXCEPT ![c].st = "get", ![c].retry = retry]
      <4>1. cmd' = [cmd EXCEPT ![c] = [cmd[c] EXCEPT !.st = "get", !.retry = retry]]
        BY <3>2
      <4> HIDE DEF Good
      <4> QED BY <2>3, <4>1, <1>4
    <3> QED BY <2>3, <3>1, <3>2
  <2> QED BY <2>1, <2>2, <2>3
<1> QED BY <1>5, UnansweredSpeaks

\* A handler takes a command off or starts one, which names no version yet.
LEMMA FreshSpeaks ==
  ASSUME TypeOK, Versions, Grows, NEW c \in Slots, NEW kind, kind # "install", NEW pay,
         Launch(c, kind, pay) \/ Taken(c) \/ cmd' = [cmd EXCEPT ![c] = Fresh(kind, pay)]
  PROVE  \A d \in Slots : Speaks(cmd'[d], Current')
<1>1. Speaks(Idle, Current') /\ Speaks(Fresh(kind, pay), Current')
  BY DEF Speaks, Idle, Fresh
<1> QED BY <1>1, OneSpeaks DEF Launch, Taken

\* An install speaks of the version it was started with.
LEMMA OpeningSpeaks ==
  ASSUME TypeOK, Versions, Grows, NEW c \in Slots, NEW b \in Boot, b.ver \in 1..Current,
         NEW password, cmd' = [cmd EXCEPT ![c] = Opening(b, password)]
  PROVE  \A d \in Slots : Speaks(cmd'[d], Current')
<1>1. Opening(b, password).st = "queued" /\ Opening(b, password).res = "none"
      /\ Opening(b, password).ver = b.ver
  BY DEF Opening, Fresh, Idle
<1>2. b.ver \in 1..Current'
  BY DEF Grows
<1>3. Speaks(Opening(b, password), Current')
  BY <1>1, <1>2 DEF Speaks
<1> QED BY <1>3, OneSpeaks

\* What a lock or a new engine leaves of a command speaks as before.
LEMMA ClosedSpeaks ==
  ASSUME TypeOK, Versions, Grows, NEW d \in Slots
  PROVE  Speaks(Closed(cmd[d]), Current')
<1>1. cmd[d] \in Command /\ Speaks(cmd[d], Current) /\ Speaks(cmd[d], Current')
  BY DEF TypeOK, Versions, Speaks, Command, Grows
<1>2. \A kind, res : res \in {"signedOut", "rekeyed", "err"} => Speaks(ResultOf(kind, res, 0), Current')
  BY DEF ResultOf, Idle, Speaks
<1>3. CASE Closed(cmd[d]) = [cmd[d] EXCEPT !.own = FALSE]
  BY <1>1, <1>3 DEF Speaks, Command
<1> QED BY <1>1, <1>2, <1>3 DEF Closed

\* The goroutine of a sign-in speaks of the version it was started with.
LEMMA InstallSpeaks ==
  ASSUME TypeOK, Versions, Grows, NEW c \in Slots, InstallBlob(c) \/ SaveMerged(c)
  PROVE  \A d \in Slots : Speaks(cmd'[d], Current')
<1>1. cmd[c] \in Command /\ cmd[c].kind = "install" /\ cmd[c].ver \in 1..Current
      /\ cmd[c].res = "none"
  BY DEF TypeOK, Versions, Speaks, InstallBlob, SaveMerged
<1>2. cmd[c].ver \in 1..Current'
  BY <1>1 DEF Grows
<1>3. CASE Finish(c, "wrong", 0) \/ Finish(c, "err", 0) \/ Finish(c, "installed", cmd[c].ver)
  BY <1>2, <1>3, FinishSpeaks
<1>4. CASE cmd' = [cmd EXCEPT ![c].st = "blob"]
  <2>1. Speaks([cmd[c] EXCEPT !.st = "blob"], Current')
    BY <1>1, <1>2 DEF Speaks, Command
  <2> QED BY <1>4, <2>1, OneSpeaks
<1> QED BY <1>3, <1>4 DEF InstallBlob, SaveMerged

\* The commands speak of accepted versions after every step.
LEMMA CommandsSpeak ==
  ASSUME TypeOK, Versions, Grows, [Next]_vars
  PROVE  \A d \in Slots : Speaks(cmd'[d], Current')
<1> DEFINE G == \A d \in Slots : Speaks(cmd'[d], Current')
<1> USE DEF ui, engine, disk, server
<1>a. \A d \in Slots : cmd[d] \in Command /\ Speaks(cmd[d], Current) /\ Speaks(cmd[d], Current')
  BY DEF TypeOK, Versions, Speaks, Command, Grows
<1>b. \A d \in Slots : Speaks(Closed(cmd[d]), Current')
  BY ClosedSpeaks
<1>c. pending \in Nat /\ 0 \in Nat /\ pending <= Current /\ \A d \in Slots : cmd[d].ver \in Nat
  BY <1>a DEF TypeOK, Versions, Command
<1>d. \A kind, pay : Speaks(Idle, Current') /\ (kind # "install" => Speaks(Fresh(kind, pay), Current'))
  BY DEF Speaks, Idle, Fresh
<1>1. CASE cmd' = cmd
  BY <1>a, <1>1
<1>2. CASE TimerFires \/ Resume
  BY <1>1, <1>2, FreshSpeaks DEF TimerFires, Resume
<1>3. CASE Lock
  BY <1>3, <1>b DEF Lock
<1>4. CASE Died
  BY <1>4, <1>d DEF Died
<1>5. ASSUME NEW c \in Slots, UIKeys(c) PROVE G
  <2>1. CASE ManualSync(c)
    BY <1>1, <2>1, FreshSpeaks DEF ManualSync
  <2>2. CASE ResolveKey(c, "keep") \/ ResolveKey(c, "take")
    BY <2>2, FreshSpeaks DEF ResolveKey
  <2>3. CASE SubmitRekey(c)
    <3> DEFINE f == Fresh(IF signedIn THEN "rekey" ELSE "offlineRekey", held)
    <3>1. cmd' = [cmd EXCEPT ![c] = [f EXCEPT !.old = pw, !.new = NewPw]]
      BY <2>3 DEF SubmitRekey
    <3>2. Speaks([f EXCEPT !.old = pw, !.new = NewPw], Current')
      BY DEF Speaks, Fresh, Idle
    <3> QED BY <3>1, <3>2, OneSpeaks
  <2>4. CASE Pair(c)
    <3>1. Speaks([Fresh("account", held) EXCEPT !.retry = TRUE], Current')
      BY DEF Speaks, Fresh, Idle
    <3> QED BY <2>4, <3>1, OneSpeaks DEF Pair
  <2>5. CASE EnterPassword(c)
    <3>1. boot \in Boot /\ boot.ver \in 1..Current
      BY <2>5 DEF EnterPassword, Versions, TypeOK
    <3> QED BY <2>5, <3>1, OpeningSpeaks DEF EnterPassword
  <2> QED BY <1>5, <2>1, <2>2, <2>3, <2>4, <2>5 DEF UIKeys
<1>6. ASSUME NEW c \in Slots, PassStep(c) PROVE G
  <2>1. CASE Begin(c)
    <3>1. pending # 0 => pending \in 1..Current'
      BY <1>c DEF Grows
    <3>2. cmd[c].st # "done"
      BY <2>1 DEF Begin
    <3>3. CASE Finish(c, "signedOut", 0)
      BY <3>3, FinishSpeaks
    <3>4. CASE Finish(c, "taken", pending) /\ pending # 0
      BY <3>1, <3>4, FinishSpeaks
    <3>5. CASE \/ cmd' = [cmd EXCEPT ![c].st = "get", ![c].kind = "sync", ![c].retry = TRUE]
               \/ cmd[c].kind = "keep" /\ ReadBlob(c, pending)
      BY <1>c, <3>2, <3>5, PassSpeaks
    <3> QED BY <2>1, <3>3, <3>4, <3>5 DEF Begin
  <2>2. CASE GetVault(c)
    <3> DEFINE k == [cmd[c] EXCEPT !.st = "got", !.ver = Current]
    <3>1. cmd' = [cmd EXCEPT ![c] = k]
      BY <2>2 DEF GetVault
    <3>2. k.st = "got" /\ k.ver = Current /\ k.res = "none" /\ k.kind \in {"sync", "keep", "rekey"}
      BY <1>a, <2>2 DEF GetVault, Speaks, Command
    <3>3. Speaks(k, Current')
      BY <3>2 DEF Speaks, Grows
    <3> QED BY <3>1, <3>3, OneSpeaks
  <2>3. CASE Evaluate(c)
    <3>1. cmd[c].ver > 0 => cmd[c].ver \in 1..Current'
      BY <1>a, <1>c, <2>3 DEF Evaluate, Speaks, Grows
    <3>2. cmd[c].st # "done" /\ cmd[c].kind \in {"sync", "keep", "rekey"}
      BY <1>a, <2>3 DEF Evaluate, Speaks
    <3>3. CASE \/ Finish(c, "ok", 0) \/ Finish(c, "wrong", 0) \/ Finish(c, "conflict", 0)
               \/ Finish(c, "err", 0)
      BY <3>3, FinishSpeaks
    <3>4. CASE Finish(c, "adopt", cmd[c].ver) /\ cmd[c].ver > 0
      BY <3>1, <3>4, FinishSpeaks
    <3>5. CASE ReadBlob(c, cmd[c].ver)
      BY <1>c, <3>2, <3>5, PassSpeaks
    <3> QED BY <2>3, <3>3, <3>4, <3>5 DEF Evaluate, MustAdopt, Compared
  <2>4. CASE PutAccepted(c)
    BY <2>4, FinishSpeaks DEF PutAccepted
  <2>5. CASE PutRefused(c)
    <3>1. cmd[c].st # "done"
      BY <2>5 DEF PutRefused
    <3>2. CASE Finish(c, "err", 0)
      BY <3>2, FinishSpeaks
    <3>3. CASE \/ /\ cmd[c].kind = "sync"
                  /\ cmd' = [cmd EXCEPT ![c].st = "get", ![c].retry = FALSE]
               \/ cmd' = [cmd EXCEPT ![c].st = "get", ![c].kind = "sync", ![c].retry = TRUE]
      BY <1>c, <3>1, <3>3, PassSpeaks
    <3> QED BY <2>5, <3>2, <3>3 DEF PutRefused
  <2>6. CASE RekeyFile(c)
    <3>1. CASE Finish(c, "err", 0)
      BY <3>1, FinishSpeaks
    <3>2. CASE cmd[c].st # "done" /\ cmd' = [cmd EXCEPT ![c].st = "rekeyed"]
      BY <1>c, <3>2, PassSpeaks
    <3> QED BY <2>6, <3>1, <3>2 DEF RekeyFile
  <2>7. CASE RekeyOffline(c) \/ RekeyAccepted(c) \/ RekeyUndone(c)
    BY <2>7, FinishSpeaks DEF RekeyOffline, RekeyAccepted, RekeyUndone
  <2>8. CASE BeginRekey(c)
    BY <1>c, <2>8, PassSpeaks DEF BeginRekey
  <2>9. CASE RekeyRefused(c)
    BY <1>c, <2>9, PassSpeaks DEF RekeyRefused
  <2>10. CASE FetchAccount(c)
    <3>1. Current > 0 => Current \in 1..Current'
      BY DEF Grows
    <3>2. \/ Finish(c, "account", Current) /\ Current > 0
          \/ Finish(c, "noAccount", 0) \/ Finish(c, "err", 0)
      BY <2>10 DEF FetchAccount
    <3> QED BY <3>1, <3>2, FinishSpeaks
  <2>11. CASE InstallBlob(c) \/ SaveMerged(c)
    BY <2>11, InstallSpeaks
  <2> QED BY <1>6, <2>1, <2>2, <2>3, <2>4, <2>5, <2>6, <2>7, <2>8, <2>9, <2>10, <2>11 DEF PassStep
<1>7. ASSUME NEW c \in Slots, ResultStep(c) PROVE G
  <2>1. CASE Taken(c) \/ cmd' = [cmd EXCEPT ![c] = Fresh("account", held)]
    BY <2>1, FreshSpeaks
  <2>2. CASE HandleAccountFetched(c) /\ cmd' = [cmd EXCEPT ![c] = Opening(boot', master)]
             /\ cmd[c].res = "account"
    <3>1. cmd[c].ver \in 1..Current /\ cmd[c].ver \in Nat /\ cmd[c].pay \in Payload
      BY <1>a, <2>2 DEF Speaks, Command
    <3>2. boot' = [on |-> TRUE, ver |-> cmd[c].ver, merge |-> cmd[c].pay]
      BY <2>2 DEF HandleAccountFetched
    <3>3. boot' \in Boot /\ boot'.ver \in 1..Current
      BY <3>1, <3>2 DEF Boot
    <3> QED BY <2>2, <3>3, OpeningSpeaks
  <2>3. CASE VaultInstalled(c)
    BY <2>3, <1>b, <1>d DEF VaultInstalled
  <2>4. CASE InstalledForNone(c)
    BY <2>4, <1>4 DEF InstalledForNone
  <2> QED BY <1>7, <2>1, <2>2, <2>3, <2>4
          DEF ResultStep, DropResult, HandleSyncDone, Report, SessionGone, AdoptRemote, AdoptUnsaved,
              HandleRekeyDone, HandleAccountFetched, InstallFailed
<1>8. ASSUME NEW c \in Slots, FaultStep(c) PROVE G
  <2>1. cmd[c].st # "done"
    BY <1>8 DEF FaultStep, AnswerLost, RequestFails
  <2>2. CASE RollBack(c)
    BY <1>c, <2>1, <2>2, PassSpeaks
  <2>3. ASSUME NEW res \in {"err", "unverified", "dead"}, Finish(c, res, 0) PROVE G
    BY <2>3, FinishSpeaks
  <2> QED BY <1>8, <2>2, <2>3 DEF FaultStep, AnswerLost, RequestFails
<1>9. ASSUME NEW p \in Payload, OtherPush(p) \/ Edit(p) PROVE G
  BY <1>1, <1>9 DEF OtherPush, Edit
<1>10. CASE \/ UNCHANGED vars \/ OtherRekey \/ EscModal \/ SignOut \/ PairUnsaved \/ Unlock
            \/ CancelSignIn \/ CommitAdopt \/ LeakCollected
  BY <1>1, <1>10 DEF vars, OtherRekey, EscModal, SignOut, PairUnsaved, Unlock, CancelSignIn,
                     CommitAdopt, LeakCollected
<1> QED BY <1>2, <1>3, <1>4, <1>5, <1>6, <1>7, <1>8, <1>9, <1>10 DEF Next, Crash, PasswordForNone

\* At the start nothing is spoken of.
LEMMA VersionsInit == Init => Versions
<1> SUFFICES ASSUME Init PROVE Versions
  OBVIOUS
<1>1. Current \in Nat
  BY TypeInit DEF TypeOK, Current
<1>2. Speaks(Idle, Current)
  BY DEF Speaks, Idle
<1> QED BY <1>1, <1>2 DEF Init, Versions, NoBoot

\* Every step leaves the device speaking of accepted versions only.
LEMMA VersionsStep == TypeOK /\ Versions /\ [Next]_vars => Versions'
<1> SUFFICES ASSUME TypeOK, Versions, [Next]_vars PROVE Versions'
  OBVIOUS
<1> USE DEF ui, uiJobs, engine, disk, server
<1>a. Grows
  BY HistGrows
<1>b. /\ pending \in Nat /\ adopting \in Nat /\ pending <= Current /\ adopting <= Current
      /\ boot \in Boot /\ (boot.on => boot.ver \in 1..Current)
      /\ \A c \in Slots : cmd[c] \in Command /\ Speaks(cmd[c], Current)
  BY DEF TypeOK, Versions
<1>1. \A c \in Slots : Speaks(cmd'[c], Current')
  BY <1>a, CommandsSpeak
<1>2. /\ \/ pending' \in {pending, 0}
         \/ \E c \in Slots : cmd[c].st = "got" /\ pending' = cmd[c].ver
      /\ \/ adopting' \in {adopting, 0}
         \/ \E c \in Slots : cmd[c].res \in {"adopt", "taken"} /\ adopting' = cmd[c].ver
      /\ \/ boot' \in {boot, NoBoot}
         \/ \E c \in Slots : cmd[c].res = "account" /\ boot'.ver = cmd[c].ver
  <2>1. CASE UNCHANGED vars
    BY <2>1 DEF vars
  <2>2. CASE (\E p \in Payload : OtherPush(p) \/ Edit(p)) \/ OtherRekey
    BY <2>2 DEF OtherPush, Edit, OtherRekey
  <2>3. CASE \/ TimerFires \/ EscModal \/ SignOut \/ PairUnsaved \/ Lock \/ Unlock \/ Resume
             \/ CancelSignIn \/ CommitAdopt \/ LeakCollected \/ Died
    BY <2>3 DEF TimerFires, EscModal, SignOut, DropSession, PairUnsaved, Lock, Unlock, Resume,
                CancelSignIn, CommitAdopt, LeakCollected, Died
  <2>4. ASSUME NEW c \in Slots, UIKeys(c)
        PROVE  pending' = pending /\ adopting' = adopting /\ boot' = boot
    BY <2>4 DEF UIKeys, ManualSync, ResolveKey, SubmitRekey, Pair, EnterPassword
  <2>5. ASSUME NEW c \in Slots, PassStep(c)
        PROVE  /\ \/ pending' \in {pending, 0}
                  \/ cmd[c].st = "got" /\ pending' = cmd[c].ver
               /\ adopting' = adopting /\ boot' = boot
    <3>1. CASE Evaluate(c) \/ PutAccepted(c) \/ PutRefused(c)
      BY <3>1 DEF Evaluate, PutAccepted, PutRefused
    <3>2. CASE Begin(c) \/ GetVault(c) \/ FetchAccount(c) \/ InstallBlob(c) \/ SaveMerged(c)
      BY <3>2 DEF Begin, GetVault, FetchAccount, InstallBlob, SaveMerged
    <3>3. CASE \/ RekeyFile(c) \/ RekeyOffline(c) \/ BeginRekey(c) \/ RekeyAccepted(c)
               \/ RekeyRefused(c) \/ RekeyUndone(c)
      BY <3>3 DEF RekeyFile, RekeyOffline, BeginRekey, RekeyAccepted, RekeyRefused, RekeyUndone
    <3> QED BY <2>5, <3>1, <3>2, <3>3 DEF PassStep
  <2>6. ASSUME NEW c \in Slots, ResultStep(c)
        PROVE  /\ pending' \in {pending, 0}
               /\ \/ adopting' \in {adopting, 0}
                  \/ cmd[c].res \in {"adopt", "taken"} /\ adopting' = cmd[c].ver
               /\ \/ boot' \in {boot, NoBoot}
                  \/ cmd[c].res = "account" /\ boot'.ver = cmd[c].ver
    <3>1. CASE DropResult(c) \/ HandleSyncDone(c) \/ HandleRekeyDone(c)
      BY <3>1 DEF DropResult, HandleSyncDone, HandleRekeyDone
    <3>2. CASE AdoptRemote(c) \/ AdoptUnsaved(c)
      BY <3>2 DEF AdoptRemote, AdoptUnsaved
    <3>3. CASE HandleAccountFetched(c)
      BY <3>3 DEF HandleAccountFetched
    <3>4. CASE InstallFailed(c) \/ VaultInstalled(c) \/ InstalledForNone(c)
      BY <3>4 DEF InstallFailed, VaultInstalled, InstalledForNone, Died
    <3> QED BY <2>6, <3>1, <3>2, <3>3, <3>4 DEF ResultStep
  <2>7. ASSUME NEW c \in Slots, FaultStep(c)
        PROVE  pending' \in {pending, 0} /\ adopting' = adopting /\ boot' = boot
    BY <2>7 DEF FaultStep, AnswerLost, RequestFails, DropSession
  <2> QED BY <2>1, <2>2, <2>3, <2>4, <2>5, <2>6, <2>7 DEF Next, Crash, PasswordForNone
<1>3. pending' <= Current'
  BY <1>a, <1>b, <1>2 DEF Grows, Speaks, Command
<1>4. adopting' <= Current'
  BY <1>a, <1>b, <1>2 DEF Grows, Speaks, Command
<1>5. boot'.on => boot'.ver \in 1..Current'
  BY <1>a, <1>b, <1>2 DEF Grows, Speaks, Command, NoBoot
<1> QED BY <1>1, <1>3, <1>4, <1>5 DEF Versions

\* The state of the device and of the server is always well typed: in
\* particular everything adopted, installed or committed is a payload the
\* server accepted at that version, for any number of versions and commands.
THEOREM TypeCorrect == Spec => [](TypeOK /\ Versions)
<1>1. Init => TypeOK /\ Versions
  BY TypeInit, VersionsInit
<1>2. TypeOK /\ Versions /\ [Next]_vars => TypeOK' /\ Versions'
  BY TypeStep, VersionsStep
<1> QED BY <1>1, <1>2, PTL DEF Spec

-----------------------------------------------------------------------------
(* A recorded agreement is what the server holds *)

\* A session without a token names no version.
Blank(s) == ~s.on => s.ver = 0
AgreementInv == AgreementIsReal /\ Blank(sess) /\ Blank(sessFile)

\* A device that starts paired starts from the account's first version.
LEMMA AgreementInit == Init => AgreementInv
<1> SUFFICES ASSUME Init PROVE AgreementInv
  OBVIOUS
<1>1. PICK p \in StartAccounts :
        /\ hist = IF p = NoFp THEN <<>> ELSE <<[payload |-> p, by |-> "other", pw |-> 1]>>
        /\ sessFile = IF StartPaired /\ p # NoFp THEN Agreed(1, p) ELSE SignedOut
  BY DEF Init
<1>2. sess = SignedOut
  BY DEF Init
<1>3. Records(SignedOut) /\ Blank(SignedOut)
  BY DEF Records, SignedOut, Blank
<1>4. CASE StartPaired /\ p # NoFp
  <2>1. hist = <<[payload |-> p, by |-> "other", pw |-> 1]>> /\ sessFile = Agreed(1, p)
    BY <1>1, <1>4
  <2>2. Len(hist) = 1 /\ hist[1].payload = p
    BY <2>1
  <2>3. Records(sessFile) /\ Blank(sessFile)
    BY <2>1, <2>2 DEF Records, Blank, Agreed, Current, Remote
  <2> QED BY <1>2, <1>3, <2>3 DEF AgreementInv, AgreementIsReal
<1>5. CASE ~(StartPaired /\ p # NoFp)
  BY <1>1, <1>2, <1>3, <1>5 DEF AgreementInv, AgreementIsReal
<1> QED BY <1>4, <1>5

\* Every step keeps the records true: a version's content never changes, each
\* commit records a version under the payload it compared or pushed, and a
\* sign-in that attaches across two fetches is marked.
LEMMA AgreementStep == TypeOK /\ Versions /\ AgreementInv /\ [Next]_vars => AgreementInv'
<1> SUFFICES ASSUME TypeOK, Versions, AgreementInv, [Next]_vars PROVE AgreementInv'
  OBVIOUS
<1> USE DEF ui, uiJobs, engine, disk, server
<1> DEFINE R(s) == /\ Blank(s)
                   /\ s.on /\ s.ver > 0 /\ s.ver \notin mislabelled' /\ s \notin crossed' =>
                        s.ver <= Current' /\ s.fp = hist'[s.ver].payload
           Real(s) == \E v \in 1..Current : s = Agreed(v, Remote(v))
           Kept == {sess, sessFile, SignedOut, FreshPairing}
<1>a. Grows /\ sess \in Session /\ sessFile \in Session
  BY HistGrows DEF TypeOK
<1>b. ASSUME NEW s, s \in Kept \/ Real(s) PROVE R(s)
  <2>1. CASE s \in {sess, sessFile}
    <3>1. Records(s) /\ Blank(s) /\ s \in Session
      BY <1>a, <2>1 DEF AgreementInv, AgreementIsReal
    <3> QED BY <1>a, <1>b, <3>1 DEF Records, Blank, Grows, Remote, Session
  <2>2. CASE s \in {SignedOut, FreshPairing}
    BY <2>2 DEF SignedOut, FreshPairing, Blank
  <2>3. CASE Real(s)
    BY <1>a, <2>3 DEF Agreed, Grows, Remote, Blank
  <2> QED BY <1>b, <2>1, <2>2, <2>3
<1>c. R(sess') /\ R(sessFile') => AgreementInv'
  BY DEF AgreementInv, AgreementIsReal, Records, Blank, Remote, Current
<1>d. ASSUME sess' \in Kept \/ Real(sess'), sessFile' \in Kept \cup {sess'} PROVE AgreementInv'
  BY <1>b, <1>c, <1>d
<1>f. Saved \/ NotSaved \/ Rotated \/ sessFile' \in Sealed => sessFile' \in Kept \cup {sess'}
  BY SavedFile
<1>e. ASSUME NEW c \in Slots, Accept(cmd[c].blob, "me", cmd[c].blobPw),
             Commit(Current + 1, cmd[c].pay), Saved \/ NotSaved,
             mislabelled' = IF cmd[c].blob = cmd[c].pay THEN mislabelled
                            ELSE mislabelled \cup {Current + 1}
      PROVE  AgreementInv'
  <2>1. hist'[Current + 1].payload = cmd[c].blob /\ Current' = Current + 1 /\ Current \in Nat
    <3>1. /\ hist'[Current + 1] = [payload |-> cmd[c].blob, by |-> "me", pw |-> cmd[c].blobPw]
          /\ Current' = Current + 1 /\ Current \in Nat
      BY <1>e, AcceptGrows
    <3> QED BY <3>1
  <2>2. R(Agreed(Current + 1, cmd[c].pay))
    BY <1>e, <2>1 DEF Agreed, Blank
  <2>3. sess' = Agreed(Current + 1, cmd[c].pay)
    BY <1>e DEF Commit
  <2>4. R(sess') /\ R(sessFile')
    <3> HIDE DEF R
    <3> QED BY <1>b, <1>e, <1>f, <2>2, <2>3
  <2> QED BY <1>c, <2>4
<1>1. CASE \/ UNCHANGED vars \/ (\E p \in Payload : OtherPush(p) \/ Edit(p)) \/ OtherRekey
           \/ EscModal \/ CancelSignIn \/ TimerFires \/ Unlock \/ SignOut \/ PairUnsaved
           \/ Lock \/ Resume \/ LeakCollected
  BY <1>1, <1>d DEF vars, OtherPush, Edit, OtherRekey, EscModal, CancelSignIn, TimerFires, Unlock,
                    SignOut, DropSession, PairUnsaved, Lock, Resume, LeakCollected
<1>2. CASE CommitAdopt
  <2>1. adopting \in 1..Current
    BY <1>2, <1>a DEF CommitAdopt, Versions, TypeOK, Grows
  <2>2. CASE UNCHANGED <<sess, sessFile>>
    BY <1>d, <2>2
  <2>3. CASE Commit(adopting, Remote(adopting)) /\ (Saved \/ NotSaved)
    <3>1. Real(sess')
      BY <2>1, <2>3 DEF Commit
    <3> QED BY <1>d, <1>f, <2>3, <3>1
  <2> QED BY <1>2, <2>2, <2>3 DEF CommitAdopt
<1>3. CASE Died
  BY <1>3, <1>d DEF Died
<1>4. ASSUME NEW c \in Slots, UIKeys(c) PROVE AgreementInv'
  <2>1. CASE Pair(c)
    BY <2>1, <1>d, <1>f DEF Pair
  <2>2. CASE ~Pair(c)
    BY <1>4, <2>2, <1>d DEF UIKeys, ManualSync, ResolveKey, SubmitRekey, EnterPassword
  <2> QED BY <2>1, <2>2
<1>5. ASSUME NEW c \in Slots, PassStep(c) PROVE AgreementInv'
  <2>1. CASE \/ GetVault(c) \/ RekeyFile(c) \/ RekeyOffline(c)
             \/ BeginRekey(c) \/ RekeyRefused(c) \/ RekeyUndone(c) \/ FetchAccount(c)
    BY <2>1, <1>d DEF GetVault, RekeyFile, RekeyOffline, BeginRekey, RekeyRefused, RekeyUndone,
                      FetchAccount
  <2>2. CASE Begin(c) \/ PutRefused(c)
    BY <2>2, <1>d, <1>f DEF Begin, PutRefused
  <2>3. CASE Evaluate(c)
    <3>1. CASE sess' = sess /\ (Rotated \/ sessFile' = sessFile)
      BY <1>d, <1>f, <3>1
    <3>2. CASE cmd[c].ver > 0 /\ SameContent(c) /\ Commit(cmd[c].ver, cmd[c].pay) /\ (Saved \/ NotSaved)
      <4>1. cmd[c].ver \in 1..Current
        BY <1>a, <2>3, <3>2 DEF Evaluate, Versions, Speaks, TypeOK, Command, Grows
      <4>2. Real(sess')
        BY <3>2, <4>1 DEF Commit, SameContent
      <4> QED BY <1>d, <1>f, <3>2, <4>2
    <3> QED BY <2>3, <3>1, <3>2 DEF Evaluate
  <2>4. CASE PutAccepted(c)
    BY <2>4, <1>e DEF PutAccepted
  <2>5. CASE RekeyAccepted(c)
    BY <2>5, <1>e DEF RekeyAccepted
  <2>6. CASE InstallBlob(c) \/ SaveMerged(c)
    BY <2>6, <1>d DEF InstallBlob, SaveMerged
  <2> QED BY <1>5, <2>1, <2>2, <2>3, <2>4, <2>5, <2>6 DEF PassStep
<1>6. ASSUME NEW c \in Slots, ResultStep(c) PROVE AgreementInv'
  <2>1. CASE VaultInstalled(c)
    <3>1. /\ boot.ver \in 1..Current /\ sess' = Agreed(boot.ver, Remote(cmd[c].ver))
          /\ sessFile' \in {sess', sessFile}
      BY <2>1 DEF VaultInstalled, Attach, Commit, Versions
    <3>2. CASE Remote(boot.ver) = Remote(cmd[c].ver)
      <4>1. Real(sess')
        BY <3>1, <3>2
      <4> QED BY <1>d, <3>1, <4>1
    <3>3. CASE Remote(boot.ver) # Remote(cmd[c].ver)
      <4>1. sess' \in crossed'
        BY <2>1, <3>3 DEF VaultInstalled
      <4>2. R(sess')
        BY <3>1, <4>1 DEF Agreed, Blank
      <4>3. R(sess') /\ R(sessFile')
        <5> HIDE DEF R
        <5> QED BY <1>b, <3>1, <4>2
      <4> QED BY <1>c, <4>3
    <3> QED BY <3>2, <3>3
  <2>2. CASE InstalledForNone(c)
    BY <2>2, <1>3 DEF InstalledForNone
  <2>3. CASE ~VaultInstalled(c) /\ ~InstalledForNone(c)
    BY <1>6, <2>3, <1>d DEF ResultStep, DropResult, HandleSyncDone, AdoptRemote, AdoptUnsaved,
                            HandleRekeyDone, HandleAccountFetched, InstallFailed
  <2> QED BY <2>1, <2>2, <2>3
<1>7. ASSUME NEW c \in Slots, FaultStep(c) PROVE AgreementInv'
  BY <1>7, <1>d, <1>f DEF FaultStep, AnswerLost, RequestFails, DropSession
<1> QED BY <1>1, <1>2, <1>3, <1>4, <1>5, <1>6, <1>7 DEF Next, Crash, PasswordForNone

\* Whatever overlapped, was lost, could not be saved or crashed, for any
\* payloads and any number of commands, what a session in memory or on disk
\* records of the last agreement is what the server holds at that version, but
\* for the versions this device pushed under another payload's fingerprint and
\* the sessions a sign-in attached across two fetches.
THEOREM AgreementHolds == Spec => []AgreementIsReal
<1>1. Init => TypeOK /\ Versions /\ AgreementInv
  BY TypeInit, VersionsInit, AgreementInit
<1>2. TypeOK /\ Versions /\ AgreementInv /\ [Next]_vars
        => TypeOK' /\ Versions' /\ AgreementInv'
  BY TypeStep, VersionsStep, AgreementStep
<1>3. AgreementInv => AgreementIsReal
  BY DEF AgreementInv
<1> QED BY <1>1, <1>2, <1>3, PTL DEF Spec

-----------------------------------------------------------------------------
(* No push overwrites a version unseen *)

\* One pass at a time holds Engine.mu, and the one that waits for its push
\* to be accepted knows the version it expects to replace.
OneHolder == \A c, d \in Slots : Holds(c) /\ Holds(d) => c = d
Informed(k) ==
  k.st = "put" /\ k.kind # "rekey" =>
    \/ k.ver = 0
    \/ /\ k.ver \in 1..Current
       /\ \/ /\ sess.ver = k.ver
             /\ sess.fp = Remote(k.ver) \/ k.ver \in mislabelled \/ sess \in crossed
          \/ NoHosts(Remote(k.ver))
          \/ k.kind = "keep" /\ pending = k.ver
PushInv == OneHolder /\ \A c \in Slots : Informed(cmd[c])

\* At the start nothing holds the mutex.
LEMMA PushInit == Init => PushInv
BY DEF Init, PushInv, OneHolder, Holds, Informed, Idle

\* No command starts to hold the mutex and none reads the file, and the engine
\* stands still or no push is out.
Quiescent ==
  /\ \A c \in Slots : cmd'[c].st \in {"get", "got", "put"} =>
                        Holds(c) /\ (cmd'[c] = cmd[c] \/ cmd'[c].st # "put")
  /\ \/ sess' = sess /\ pending' = pending
     \/ \A c \in Slots : cmd'[c].st # "put"

\* Such a step cannot make a waiting push uninformed.
LEMMA QuiescentKeeps == PushInv /\ Grows /\ Quiescent => PushInv'
<1> SUFFICES ASSUME PushInv, Grows, Quiescent PROVE PushInv'
  OBVIOUS
<1>1. OneHolder'
  BY DEF PushInv, OneHolder, Quiescent, Holds
<1>2. ASSUME NEW c \in Slots PROVE Informed(cmd[c])'
  BY DEF PushInv, Quiescent, Informed, Grows, Remote, NoHosts
<1> QED BY <1>1, <1>2 DEF PushInv

\* A command that is not a pass, or finishes, leaves the engine alone.
LEMMA OneQuiescent ==
  ASSUME TypeOK, NEW c \in Slots, NEW k, cmd' = [cmd EXCEPT ![c] = k],
         k.st \notin {"get", "got", "put"},
         \/ sess' = sess /\ pending' = pending
         \/ PushInv /\ (Holds(c) \/ MutexFree)
  PROVE  Quiescent
<1>1. \A d \in Slots : d # c => cmd'[d] = cmd[d]
  BY DEF TypeOK
<1>2. cmd'[c] = k
  BY DEF TypeOK
<1> QED BY <1>1, <1>2 DEF Quiescent, PushInv, OneHolder, MutexFree, Holds

\* The same for what handlers and finished commands write.
LEMMA FinishQuiescent ==
  ASSUME TypeOK, NEW c \in Slots,
         \/ \E res, v : Finish(c, res, v)
         \/ \E kind, pay : Launch(c, kind, pay) \/ cmd' = [cmd EXCEPT ![c] = Fresh(kind, pay)]
         \/ Taken(c)
         \/ \E st \in {"rekeyed", "undo"} : cmd' = [cmd EXCEPT ![c].st = st],
         \/ sess' = sess /\ pending' = pending
         \/ PushInv /\ (Holds(c) \/ MutexFree)
  PROVE  Quiescent
<1>1. CASE \E res, v : Finish(c, res, v)
  <2>1. PICK res, v : cmd' = [cmd EXCEPT ![c] = Done(c, res, v)]
    BY <1>1 DEF Finish
  <2>2. Done(c, res, v).st = "done"
    BY DEF Done, ResultOf, Idle
  <2> QED BY <2>1, <2>2, OneQuiescent
<1>2. CASE \E kind, pay : Launch(c, kind, pay) \/ cmd' = [cmd EXCEPT ![c] = Fresh(kind, pay)]
  <2>1. PICK kind, pay : cmd' = [cmd EXCEPT ![c] = Fresh(kind, pay)]
    BY <1>2 DEF Launch
  <2>2. Fresh(kind, pay).st = "queued"
    BY DEF Fresh, Idle
  <2> QED BY <2>1, <2>2, OneQuiescent
<1>3. CASE Taken(c)
  BY <1>3, OneQuiescent DEF Taken, Idle
<1>4. ASSUME NEW st \in {"rekeyed", "undo"}, cmd' = [cmd EXCEPT ![c].st = st] PROVE Quiescent
  <2>1. [cmd[c] EXCEPT !.st = st].st = st /\ cmd' = [cmd EXCEPT ![c] = [cmd[c] EXCEPT !.st = st]]
    BY <1>4 DEF TypeOK, Command
  <2> QED BY <2>1, OneQuiescent
<1> QED BY <1>1, <1>2, <1>3, <1>4

\* A pass takes the mutex or moves on under it, and reads the file only with
\* the knowledge its push needs.
LEMMA PassKeeps ==
  ASSUME TypeOK, PushInv, Grows, NEW c \in Slots, NEW k \in Command, cmd' = [cmd EXCEPT ![c] = k],
         MutexFree \/ Holds(c),
         k.st # "put" \/ (sess' = sess /\ pending' = pending /\ Informed(k) /\ hist' = hist)
  PROVE  PushInv'
<1>1. cmd'[c] = k /\ \A d \in Slots : d # c => cmd'[d] = cmd[d]
  BY DEF TypeOK
<1>2. \A d \in Slots : d # c => ~Holds(d)
  BY DEF PushInv, OneHolder, MutexFree
<1>3. OneHolder'
  BY <1>1, <1>2 DEF OneHolder, Holds
<1>4. ASSUME NEW d \in Slots PROVE Informed(cmd[d])'
  <2>1. CASE d # c
    BY <1>1, <1>2, <2>1 DEF Informed, Holds
  <2>2. CASE d = c
    BY <1>1, <2>2 DEF Informed, Remote, Current, Grows
  <2> QED BY <2>1, <2>2
<1> QED BY <1>3, <1>4 DEF PushInv

\* Going back to fetch, or with the file read, a command is still a command.
LEMMA PassCommands ==
  ASSUME TypeOK, NEW c \in Slots, NEW v \in Nat, NEW retry \in BOOLEAN
  PROVE  /\ [cmd[c] EXCEPT !.st = "put", !.ver = v, !.blob = vault, !.blobPw = pw] \in Command
         /\ [cmd[c] EXCEPT !.st = "get", !.retry = retry] \in Command
         /\ [cmd[c] EXCEPT !.st = "get", !.kind = "sync", !.retry = retry] \in Command
         /\ [cmd[c] EXCEPT !.st = "got", !.ver = v] \in Command
<1>1. cmd[c] \in Command /\ vault \in Payload /\ pw \in Nat
  BY DEF TypeOK
<1> QED BY <1>1 DEF Command, Stage, Kind

\* A pass that fetches, or fetches again, waits for no push.
LEMMA FetchKeeps ==
  ASSUME TypeOK, PushInv, Grows, NEW c \in Slots, NEW retry \in BOOLEAN, MutexFree \/ Holds(c),
         \/ cmd' = [cmd EXCEPT ![c].st = "get", ![c].retry = retry]
         \/ cmd' = [cmd EXCEPT ![c].st = "get", ![c].kind = "sync", ![c].retry = retry]
         \/ cmd' = [cmd EXCEPT ![c].st = "got", ![c].ver = Current]
  PROVE  PushInv'
<1> DEFINE Moved == {[cmd[c] EXCEPT !.st = "get", !.retry = retry],
                     [cmd[c] EXCEPT !.st = "get", !.kind = "sync", !.retry = retry],
                     [cmd[c] EXCEPT !.st = "got", !.ver = Current]}
<1>1. cmd[c] \in Command /\ Current \in Nat
  BY DEF TypeOK, Grows
<1>2. \A k \in Moved : k \in Command
  <2>1. /\ [cmd[c] EXCEPT !.st = "get", !.retry = retry] \in Command
        /\ [cmd[c] EXCEPT !.st = "get", !.kind = "sync", !.retry = retry] \in Command
    BY PassCommands, 0 \in Nat
  <2>2. [cmd[c] EXCEPT !.st = "got", !.ver = Current] \in Command
    BY <1>1, PassCommands, TRUE \in BOOLEAN
  <2> QED BY <2>1, <2>2
<1>3. \A k \in Moved : k.st # "put"
  BY <1>1 DEF Command
<1>4. \E k \in Moved : cmd' = [cmd EXCEPT ![c] = k]
  OBVIOUS
<1> QED BY <1>2, <1>3, <1>4, PassKeeps

\* The file is read only under an expectation the device may push over.
LEMMA ReadKeeps ==
  ASSUME TypeOK, PushInv, Grows, NEW c \in Slots, NEW v \in Nat, MutexFree \/ Holds(c),
         ReadBlob(c, v), sess' = sess, pending' = pending, hist' = hist,
         \/ cmd[c].kind = "rekey" \/ v = 0
         \/ /\ v \in 1..Current
            /\ \/ /\ sess.ver = v
                  /\ sess.fp = Remote(v) \/ v \in mislabelled \/ sess \in crossed
               \/ NoHosts(Remote(v))
               \/ cmd[c].kind = "keep" /\ pending = v
  PROVE  PushInv'
<1> DEFINE k == [cmd[c] EXCEPT !.st = "put", !.ver = v, !.blob = vault, !.blobPw = pw]
<1>1. cmd[c] \in Command
  BY DEF TypeOK
<1>2. k \in Command
  BY PassCommands
<1>3. k.kind = cmd[c].kind /\ k.ver = v
  BY <1>1 DEF Command
<1>4. Informed(k)
  BY <1>3 DEF Informed
<1>5. cmd' = [cmd EXCEPT ![c] = k]
  BY DEF ReadBlob
<1> HIDE DEF k
<1> QED BY <1>2, <1>4, <1>5, PassKeeps

\* Every step leaves one holder, and waiting pushes informed.
LEMMA PushStep == TypeOK /\ Versions /\ AgreementInv /\ PushInv /\ [Next]_vars => PushInv'
<1> SUFFICES ASSUME TypeOK, Versions, AgreementInv, PushInv, [Next]_vars PROVE PushInv'
  OBVIOUS
<1> USE DEF ui, engine, disk, server
<1>a. Grows
  BY HistGrows
<1>b. Quiescent => PushInv'
  BY <1>a, QuiescentKeeps
<1>c. ASSUME cmd' = cmd, (sess' = sess /\ pending' = pending) \/ MutexFree PROVE PushInv'
  BY <1>b, <1>c DEF Quiescent, MutexFree, Holds
<1>d. ASSUME NEW c \in Slots PROVE Closed(cmd[c]).st \in {"get", "got", "put"} => Holds(c)
  <2>1. \A res : ResultOf(cmd[c].kind, res, 0).st = "done"
    BY DEF ResultOf, Idle
  <2>2. [cmd[c] EXCEPT !.own = FALSE].st = cmd[c].st
    BY DEF TypeOK, Command
  <2> QED BY <2>1, <2>2 DEF Closed, Holds
<1>g. \A b, password : Opening(b, password).st = "queued"
  BY DEF Opening, Fresh, Idle
<1>1. CASE \/ UNCHANGED vars \/ (\E p \in Payload : OtherPush(p) \/ Edit(p)) \/ OtherRekey
           \/ EscModal \/ CancelSignIn \/ Unlock \/ SignOut \/ PairUnsaved \/ CommitAdopt
           \/ LeakCollected
  BY <1>1, <1>c DEF vars, OtherPush, Edit, OtherRekey, EscModal, CancelSignIn, Unlock, SignOut,
                    PairUnsaved, MayPair, CommitAdopt, LeakCollected
<1>2. CASE Lock
  <2>1. MutexFree /\ \A c \in Slots : cmd'[c] = Closed(cmd[c])
    BY <1>2 DEF Lock
  <2>2. Quiescent
    BY <1>d, <2>1 DEF Quiescent, MutexFree
  <2> QED BY <1>b, <2>2
<1>3. CASE Died
  <2>1. \A c \in Slots : cmd'[c].st = "idle"
    BY <1>3 DEF Died, Idle
  <2> QED BY <1>b, <2>1 DEF Quiescent
<1>4. CASE TimerFires
  BY <1>4, <1>b, <1>c, FinishQuiescent DEF TimerFires
<1>5. CASE Resume
  BY <1>5, <1>b, <1>c, FinishQuiescent DEF Resume
<1>6. ASSUME NEW c \in Slots, UIKeys(c) PROVE PushInv'
  <2>1. CASE ManualSync(c)
    BY <2>1, <1>b, <1>c, FinishQuiescent DEF ManualSync
  <2>2. CASE ResolveKey(c, "keep") \/ ResolveKey(c, "take")
    BY <2>2, <1>b, FinishQuiescent DEF ResolveKey
  <2>3. CASE SubmitRekey(c)
    <3> DEFINE k == [Fresh(IF signedIn THEN "rekey" ELSE "offlineRekey", held)
                       EXCEPT !.old = pw, !.new = NewPw]
    <3>1. cmd' = [cmd EXCEPT ![c] = k] /\ sess' = sess /\ pending' = pending
      BY <2>3 DEF SubmitRekey
    <3>2. k.st = "queued"
      BY DEF Fresh, Idle
    <3> HIDE DEF k
    <3> QED BY <1>b, <3>1, <3>2, OneQuiescent
  <2>4. CASE Pair(c)
    <3> DEFINE k == [Fresh("account", held) EXCEPT !.retry = TRUE]
    <3>1. MutexFree /\ cmd' = [cmd EXCEPT ![c] = k]
      BY <2>4 DEF Pair, MayPair
    <3>2. k.st = "queued"
      BY DEF Fresh, Idle
    <3> HIDE DEF k
    <3> QED BY <1>b, <3>1, <3>2, OneQuiescent
  <2>5. CASE EnterPassword(c)
    <3>1. PICK typed : cmd' = [cmd EXCEPT ![c] = Opening(boot, typed)]
      BY <2>5 DEF EnterPassword
    <3>2. sess' = sess /\ pending' = pending
      BY <2>5 DEF EnterPassword
    <3> QED BY <1>b, <1>g, <3>1, <3>2, OneQuiescent
  <2> QED BY <1>6, <2>1, <2>2, <2>3, <2>4, <2>5 DEF UIKeys
<1>7. ASSUME NEW c \in Slots, PassStep(c) PROVE PushInv'
  <2>a. cmd[c].ver \in Nat /\ pending \in Nat /\ pending <= Current
    BY DEF TypeOK, Command, Versions
  <2>b. ASSUME NEW res, NEW v, Finish(c, res, v),
               (sess' = sess /\ pending' = pending) \/ Holds(c)
        PROVE  PushInv'
    BY <1>b, <2>b, FinishQuiescent
  <2>1. CASE Begin(c)
    <3>1. MutexFree /\ sess' = sess /\ pending' = pending /\ hist' = hist
      BY <2>1 DEF Begin
    <3>2. CASE Finish(c, "signedOut", 0) \/ Finish(c, "taken", pending)
      BY <2>b, <3>1, <3>2
    <3>3. CASE cmd' = [cmd EXCEPT ![c].st = "get", ![c].kind = "sync", ![c].retry = TRUE]
      BY <1>a, <3>1, <3>3, FetchKeeps
    <3>4. CASE cmd[c].kind = "keep" /\ ReadBlob(c, pending)
      BY <1>a, <2>a, <3>1, <3>4, ReadKeeps
    <3> QED BY <2>1, <3>2, <3>3, <3>4 DEF Begin
  <2>2. CASE GetVault(c)
    <3>1. Holds(c) /\ cmd' = [cmd EXCEPT ![c].st = "got", ![c].ver = Current]
      BY <2>2 DEF GetVault, Holds
    <3> QED BY <1>a, <3>1, FetchKeeps
  <2>3. CASE Evaluate(c)
    <3>1. Holds(c)
      BY <2>3 DEF Evaluate, Holds
    <3>2. CASE \E res, v : Finish(c, res, v)
      BY <2>b, <3>1, <3>2
    <3>3. CASE MustPush(c) /\ ReadBlob(c, cmd[c].ver) /\ UNCHANGED <<engine, sessFile>>
      <4>1. cmd[c].ver = 0 \/ cmd[c].ver \in 1..Current
        BY <1>a, <2>a, <2>3 DEF Evaluate, Versions, Speaks, Grows
      <4>2. cmd[c].ver = 0 \/ sess.ver = cmd[c].ver \/ NoHosts(Remote(cmd[c].ver))
        BY <2>a, <3>3 DEF MustPush, RemoteMoved, Compared
      <4>3. ASSUME sess.ver = cmd[c].ver, cmd[c].ver > 0
            PROVE  sess.fp = Remote(cmd[c].ver) \/ cmd[c].ver \in mislabelled \/ sess \in crossed
        BY <4>3 DEF AgreementInv, AgreementIsReal, Records, Blank
      <4>4. sess' = sess /\ pending' = pending /\ hist' = hist
        BY <2>3, <3>3 DEF Evaluate
      <4> QED BY <1>a, <2>a, <3>1, <3>3, <4>1, <4>2, <4>3, <4>4, ReadKeeps
    <3> QED BY <2>3, <3>2, <3>3 DEF Evaluate
  <2>4. CASE PutAccepted(c) \/ RekeyAccepted(c)
    <3>1. Holds(c) /\ \E res, v : Finish(c, res, v)
      BY <2>4 DEF PutAccepted, RekeyAccepted, Holds
    <3> QED BY <2>b, <3>1
  <2>5. CASE PutRefused(c)
    <3>1. Holds(c)
      BY <2>5 DEF PutRefused, Holds
    <3>2. CASE Finish(c, "err", 0)
      BY <2>b, <3>1, <3>2
    <3>3. CASE \/ cmd' = [cmd EXCEPT ![c].st = "get", ![c].retry = FALSE]
               \/ cmd' = [cmd EXCEPT ![c].st = "get", ![c].kind = "sync", ![c].retry = TRUE]
      BY <1>a, <3>1, <3>3, FetchKeeps
    <3> QED BY <2>5, <3>2, <3>3 DEF PutRefused
  <2>6. CASE RekeyFile(c)
    BY <2>6, <1>b, FinishQuiescent DEF RekeyFile
  <2>7. CASE RekeyOffline(c) \/ RekeyUndone(c) \/ FetchAccount(c)
    <3>1. sess' = sess /\ pending' = pending /\ \E res, v : Finish(c, res, v)
      BY <2>7 DEF RekeyOffline, RekeyUndone, FetchAccount
    <3> QED BY <2>b, <3>1
  <2>8. CASE BeginRekey(c)
    <3>1. MutexFree /\ sess' = sess /\ pending' = pending /\ hist' = hist /\ cmd[c].kind = "rekey"
      BY <2>8 DEF BeginRekey
    <3>2. CASE RollBack(c)
      BY <3>1, <3>2, <1>b, FinishQuiescent DEF RollBack
    <3>3. CASE ReadBlob(c, 0)
      BY <1>a, <3>1, <3>3, ReadKeeps
    <3> QED BY <2>8, <3>2, <3>3 DEF BeginRekey
  <2>9. CASE RekeyRefused(c)
    BY <2>9, <1>b, FinishQuiescent DEF RekeyRefused, RollBack
  <2>10. CASE InstallBlob(c) \/ SaveMerged(c)
    <3>1. sess' = sess /\ pending' = pending
      BY <2>10 DEF InstallBlob, SaveMerged
    <3>2. CASE \E res, v : Finish(c, res, v)
      BY <2>b, <3>1, <3>2
    <3>3. CASE cmd' = [cmd EXCEPT ![c].st = "blob"]
      <4>1. [cmd[c] EXCEPT !.st = "blob"].st = "blob"
            /\ cmd' = [cmd EXCEPT ![c] = [cmd[c] EXCEPT !.st = "blob"]]
        BY <3>3 DEF TypeOK, Command
      <4> QED BY <1>b, <3>1, <4>1, OneQuiescent
    <3> QED BY <2>10, <3>2, <3>3 DEF InstallBlob, SaveMerged
  <2> QED BY <1>7, <2>1, <2>2, <2>3, <2>4, <2>5, <2>6, <2>7, <2>8, <2>9, <2>10 DEF PassStep
<1>8. ASSUME NEW c \in Slots, ResultStep(c) PROVE PushInv'
  <2>1. CASE VaultInstalled(c)
    <3>1. /\ MutexFree
          /\ \E f : /\ f.st \notin {"get", "got", "put"}
                    /\ cmd' = [d \in Slots |-> IF d = c THEN f ELSE Closed(cmd[d])]
      <4>1. Fresh("sync", vault).st = "queued" /\ Idle.st = "idle"
        BY DEF Fresh, Idle
      <4> QED BY <2>1, <4>1 DEF VaultInstalled
    <3>2. \A d \in Slots : cmd'[d].st \notin {"get", "got", "put"}
      BY <1>d, <3>1 DEF MutexFree
    <3> QED BY <1>b, <3>2 DEF Quiescent
  <2>2. CASE InstalledForNone(c)
    BY <2>2, <1>3 DEF InstalledForNone
  <2>3. CASE ~VaultInstalled(c) /\ ~InstalledForNone(c)
    <3>1. sess' = sess /\ pending' = pending
      BY <1>8, <2>3 DEF ResultStep, DropResult, HandleSyncDone, AdoptRemote, AdoptUnsaved,
                        HandleRekeyDone, HandleAccountFetched, InstallFailed
    <3>2. CASE Taken(c) \/ cmd' = [cmd EXCEPT ![c] = Fresh("account", held)]
      BY <1>b, <3>1, <3>2, FinishQuiescent
    <3>3. CASE cmd' = [cmd EXCEPT ![c] = Opening(boot', master)]
      BY <1>b, <1>g, <3>1, <3>3, OneQuiescent
    <3> QED BY <1>8, <2>3, <3>2, <3>3
            DEF ResultStep, DropResult, HandleSyncDone, Report, SessionGone, AdoptRemote,
                AdoptUnsaved, HandleRekeyDone, HandleAccountFetched, InstallFailed
  <2> QED BY <2>1, <2>2, <2>3
<1>9. ASSUME NEW c \in Slots, FaultStep(c) PROVE PushInv'
  <2>1. Holds(c)
    BY <1>9 DEF FaultStep, AnswerLost, RequestFails, Holds
  <2>2. (\E res, v : Finish(c, res, v)) \/ cmd' = [cmd EXCEPT ![c].st = "undo"]
    BY <1>9 DEF FaultStep, AnswerLost, RequestFails, RollBack
  <2> QED BY <1>b, <2>1, <2>2, FinishQuiescent
<1> QED BY <1>1, <1>2, <1>3, <1>4, <1>5, <1>6, <1>7, <1>8, <1>9 DEF Next, Crash, PasswordForNone

\* A push that the server accepts expected the version it replaces.
LEMMA PushesKnown ==
  ASSUME TypeOK, PushInv, [Next]_vars, NEW c \in Slots, PushesOver(c)
  PROVE  Known(c) \/ sess \in crossed
<1> USE DEF ui, engine, disk, server
<1>1. cmd[c].st = "put" /\ cmd[c].kind # "rekey" /\ cmd'[c] # cmd[c] /\ hist' # hist
  BY DEF PushesOver
<1> DEFINE K == Known(c) \/ sess \in crossed
<1>2. cmd[c].ver = Current => K
  BY <1>1 DEF PushInv, Informed, Known, Agrees
<1>3. CASE \/ UNCHANGED vars \/ (\E p \in Payload : OtherPush(p) \/ Edit(p)) \/ OtherRekey
           \/ EscModal \/ CancelSignIn \/ Unlock \/ SignOut \/ PairUnsaved \/ CommitAdopt
           \/ LeakCollected \/ Lock \/ Died \/ TimerFires \/ Resume
  BY <1>1, <1>3 DEF vars, OtherPush, Edit, OtherRekey, EscModal, CancelSignIn, Unlock, SignOut,
                    PairUnsaved, CommitAdopt, LeakCollected, Lock, Died, TimerFires, Resume
<1>4. ASSUME NEW d \in Slots, UIKeys(d) \/ ResultStep(d) PROVE K
  BY <1>1, <1>4 DEF UIKeys, ManualSync, ResolveKey, SubmitRekey, Pair, EnterPassword,
                    ResultStep, DropResult, HandleSyncDone, AdoptRemote, AdoptUnsaved,
                    HandleRekeyDone, HandleAccountFetched, InstallFailed, VaultInstalled,
                    InstalledForNone, Died
<1>5. ASSUME NEW d \in Slots, PassStep(d) \/ FaultStep(d) PROVE K
  <2>1. PutAccepted(d) \/ RekeyAccepted(d) \/ AnswerLost(d)
    BY <1>1, <1>5 DEF PassStep, FaultStep, Begin, GetVault, Evaluate, PutRefused, RekeyFile,
                      RekeyOffline, BeginRekey, RekeyRefused, RekeyUndone, FetchAccount,
                      InstallBlob, SaveMerged, RequestFails
  <2>2. (\E res, v : Finish(d, res, v)) \/ RollBack(d)
    BY <2>1 DEF PutAccepted, RekeyAccepted, AnswerLost
  <2>3. c = d
    BY <1>1, <2>2 DEF Finish, RollBack, TypeOK
  <2>4. cmd[c].ver = Current
    BY <1>1, <2>1, <2>3 DEF PutAccepted, RekeyAccepted, AnswerLost
  <2> QED BY <1>2, <2>4
<1> QED BY <1>3, <1>4, <1>5 DEF Next, Crash, PasswordForNone

\* However passes, keys, sign-ins, retries, lost answers and other devices'
\* pushes interleave, a push replaces only a version the device agreed with, one
\* without hosts, or the one the user chose to keep local over, unless its
\* session is one a sign-in attached across two fetches.
THEOREM NothingOverwrittenUnseen == Spec => NoBlindOverwrite
<1>1. Init => TypeOK /\ Versions /\ AgreementInv /\ PushInv
  BY TypeInit, VersionsInit, AgreementInit, PushInit
<1>2. TypeOK /\ Versions /\ AgreementInv /\ PushInv /\ [Next]_vars
        => TypeOK' /\ Versions' /\ AgreementInv' /\ PushInv'
  BY TypeStep, VersionsStep, AgreementStep, PushStep
<1>3. TypeOK /\ PushInv /\ [Next]_vars
        => [\A c \in Slots : PushesOver(c) => Known(c) \/ sess \in crossed]_vars
  BY PushesKnown
<1> QED BY <1>1, <1>2, <1>3, PTL DEF Spec, NoBlindOverwrite

-----------------------------------------------------------------------------
(* The UI knows when the session is gone *)

\* A session that died under the UI has left a result that says so; a locked
\* UI is signed out.
DeathNotice(k) == k.st = "done" /\ k.kind = "sync" /\ k.res = "dead"
UIInv ==
  /\ ~unlocked => ~signedIn
  /\ signedIn /\ ~sess.on => \E c \in Slots : DeathNotice(cmd[c])

\* A device starts locked and signed out.
LEMMA UIInit == Init => UIInv
BY DEF Init, UIInv

\* A death notice stays until the handler that signs the UI out takes it, and a
\* session only dies with one.
LEMMA UIStep == TypeOK /\ Versions /\ UIInv /\ [Next]_vars => UIInv'
<1> SUFFICES ASSUME TypeOK, Versions, UIInv, [Next]_vars PROVE UIInv'
  OBVIOUS
<1> USE DEF ui, uiMain, uiJobs, engine, disk, server
<1> DEFINE Noted == \A d \in Slots : DeathNotice(cmd[d]) => DeathNotice(cmd'[d])
<1>b. FreshPairing.on /\ \A v, fp : Agreed(v, fp).on
  BY DEF FreshPairing, Agreed
<1>c. ASSUME signedIn' = signedIn, unlocked' = unlocked, Noted, sess' = sess \/ sess'.on PROVE UIInv'
  BY <1>c DEF UIInv
<1>d. ASSUME ~signedIn' PROVE UIInv'
  BY <1>d DEF UIInv
<1>e. ASSUME sess'.on, unlocked' PROVE UIInv'
  BY <1>e DEF UIInv
<1>n. ASSUME NEW c \in Slots, NEW k, cmd' = [cmd EXCEPT ![c] = k], ~DeathNotice(cmd[c])
      PROVE  Noted
  BY <1>n DEF TypeOK
<1>u. ASSUME NEW c \in Slots, cmd[c].st # "done", NEW k, cmd' = [cmd EXCEPT ![c] = k] PROVE Noted
  BY <1>n, <1>u DEF DeathNotice
<1>1. ASSUME \/ UNCHANGED vars \/ (\E p \in Payload : OtherPush(p) \/ Edit(p)) \/ OtherRekey
             \/ EscModal \/ CancelSignIn \/ PairUnsaved \/ LeakCollected
      PROVE  UIInv'
  BY <1>1, <1>b, <1>c DEF vars, OtherPush, Edit, OtherRekey, EscModal, CancelSignIn, PairUnsaved,
                          LeakCollected
<1>2. ASSUME Lock \/ SignOut \/ Died PROVE UIInv'
  BY <1>2, <1>d DEF Lock, SignOut, Died
<1>3. ASSUME Unlock PROVE UIInv'
  BY <1>3, <1>d DEF Unlock, UIInv
<1>4. ASSUME CommitAdopt PROVE UIInv'
  BY <1>4, <1>b, <1>c DEF CommitAdopt, Commit
<1>l. ASSUME NEW c \in Slots, NEW kind, NEW pay, Launch(c, kind, pay) PROVE Noted
  BY <1>l, <1>n DEF Launch, Idle, DeathNotice
<1>5. ASSUME TimerFires PROVE UIInv'
  BY <1>5, <1>c, <1>l DEF TimerFires
<1>6. ASSUME Resume PROVE UIInv'
  BY <1>6, <1>c, <1>e DEF Resume
<1>7. ASSUME NEW c \in Slots, UIKeys(c) PROVE UIInv'
  <2>1. CASE ManualSync(c)
    BY <2>1, <1>c, <1>l DEF ManualSync
  <2>2. CASE ResolveKey(c, "keep") \/ ResolveKey(c, "take")
    BY <2>2, <1>c, <1>l DEF ResolveKey
  <2>3. CASE SubmitRekey(c)
    <3>1. PICK k : cmd' = [cmd EXCEPT ![c] = k]
      BY <2>3 DEF SubmitRekey
    <3>2. cmd[c].st = "idle"
      BY <2>3 DEF SubmitRekey, Idle
    <3>3. Noted
      BY <3>1, <3>2, <1>u
    <3> QED BY <2>3, <3>3, <1>c DEF SubmitRekey
  <2>4. CASE Pair(c)
    BY <2>4, <1>b, <1>e DEF Pair, MayPair
  <2>5. CASE EnterPassword(c)
    <3>1. (\E k : cmd' = [cmd EXCEPT ![c] = k]) /\ cmd[c] = Idle
      BY <2>5 DEF EnterPassword
    <3>2. Noted
      BY <3>1, <1>n DEF Idle, DeathNotice
    <3> QED BY <2>5, <3>2, <1>c DEF EnterPassword
  <2> QED BY <1>7, <2>1, <2>2, <2>3, <2>4, <2>5 DEF UIKeys
<1>8. ASSUME NEW c \in Slots, PassStep(c) PROVE UIInv'
  <2>1. cmd[c].st # "done" /\ signedIn' = signedIn /\ unlocked' = unlocked
    BY <1>8 DEF PassStep, Begin, GetVault, Evaluate, PutAccepted, PutRefused, RekeyFile,
                RekeyOffline, BeginRekey, RekeyAccepted, RekeyRefused, RekeyUndone, FetchAccount,
                InstallBlob, SaveMerged
  <2>2. \A d \in Slots : d # c => cmd'[d] = cmd[d]
    BY <1>8 DEF TypeOK, PassStep, Begin, GetVault, Evaluate, PutAccepted, PutRefused, RekeyFile,
                RekeyOffline, BeginRekey, RekeyAccepted, RekeyRefused, RekeyUndone, FetchAccount,
                InstallBlob, SaveMerged, Finish, ReadBlob, RollBack
  <2>3. sess' = sess \/ sess'.on
    BY <1>8, <1>b DEF PassStep, Begin, GetVault, Evaluate, PutAccepted, PutRefused, RekeyFile,
                RekeyOffline, BeginRekey, RekeyAccepted, RekeyRefused, RekeyUndone, FetchAccount,
                InstallBlob, SaveMerged, Commit
  <2>4. Noted
    BY <2>1, <2>2 DEF DeathNotice
  <2> QED BY <1>c, <2>1, <2>3, <2>4
<1>9. ASSUME NEW c \in Slots, ResultStep(c) PROVE UIInv'
  <2>1. CASE DropResult(c)
    BY <2>1, <1>d DEF DropResult, UIInv
  <2>2. CASE AdoptRemote(c) \/ AdoptUnsaved(c) \/ HandleRekeyDone(c) \/ HandleAccountFetched(c)
             \/ InstallFailed(c)
    <3>1. ~DeathNotice(cmd[c]) /\ \E k : cmd' = [cmd EXCEPT ![c] = k]
      BY <2>2 DEF AdoptRemote, AdoptUnsaved, Report, HandleRekeyDone, HandleAccountFetched,
                  InstallFailed, Arrived, Taken, DeathNotice
    <3>2. Noted
      BY <3>1, <1>n
    <3> QED BY <2>2, <3>2, <1>c DEF AdoptRemote, AdoptUnsaved, Report, HandleRekeyDone,
                                    HandleAccountFetched, InstallFailed
  <2>3. CASE HandleSyncDone(c) /\ cmd[c].res = "dead"
    BY <2>3, <1>d DEF HandleSyncDone, SessionGone, Report
  <2>4. CASE HandleSyncDone(c) /\ cmd[c].res # "dead"
    <3>1. Taken(c) \/ cmd' = [cmd EXCEPT ![c] = Fresh("account", held)]
      BY <2>4 DEF HandleSyncDone, Report, SessionGone
    <3>2. Noted
      BY <2>4, <3>1, <1>n DEF Taken, DeathNotice
    <3> QED BY <2>4, <3>2, <1>c DEF HandleSyncDone, Report
  <2>5. CASE VaultInstalled(c)
    BY <2>5, <1>b, <1>e DEF VaultInstalled, Attach, Commit
  <2>6. CASE InstalledForNone(c)
    BY <2>6, <1>2 DEF InstalledForNone
  <2> QED BY <1>9, <2>1, <2>2, <2>3, <2>4, <2>5, <2>6 DEF ResultStep
<1>10. ASSUME NEW c \in Slots, FaultStep(c) PROVE UIInv'
  <2>1. cmd[c].st \in {"get", "put"} /\ signedIn' = signedIn /\ unlocked' = unlocked
    BY <1>10 DEF FaultStep, AnswerLost, RequestFails
  <2>2. \A d \in Slots : d # c => cmd'[d] = cmd[d]
    BY <1>10 DEF TypeOK, FaultStep, AnswerLost, RequestFails, Finish, RollBack
  <2>3. Noted
    BY <2>1, <2>2 DEF DeathNotice
  <2>4. CASE sess' = sess
    BY <1>c, <2>1, <2>3, <2>4
  <2>5. CASE cmd[c].kind # "rekey" /\ Finish(c, "dead", 0)
    <3>1. cmd[c].kind \in {"sync", "keep"}
      BY <2>1, <2>5 DEF Versions, Speaks
    <3>2. DeathNotice(Done(c, "dead", 0))
      BY <3>1 DEF Done, ResultOf, Idle, DeathNotice
    <3>3. DeathNotice(cmd'[c])
      BY <2>5, <3>2 DEF Finish, TypeOK
    <3> QED BY <2>1, <3>3 DEF UIInv
  <2> QED BY <1>10, <2>4, <2>5 DEF FaultStep, AnswerLost, RequestFails
<1> QED BY <1>1, <1>2, <1>3, <1>4, <1>5, <1>6, <1>7, <1>8, <1>9, <1>10 DEF Next, Crash, PasswordForNone

\* With nothing in flight, a device that looks signed in has a session, however
\* sessions died, were closed, replaced or resumed under it.
THEOREM UIKnows == Spec => []UIKnowsSession
<1>1. Init => TypeOK /\ Versions /\ UIInv
  BY TypeInit, VersionsInit, UIInit
<1>2. TypeOK /\ Versions /\ UIInv /\ [Next]_vars => TypeOK' /\ Versions' /\ UIInv'
  BY TypeStep, VersionsStep, UIStep
<1>3. UIInv => UIKnowsSession
  BY DEF UIInv, UIKnowsSession, Quiet, DeathNotice, Idle
<1> QED BY <1>1, <1>2, <1>3, PTL DEF Spec
=============================================================================
