-------------------------- MODULE ProjectIdentity --------------------------
(***************************************************************************)
(* The account's key pair for team projects: how a device comes by it,      *)
(* publishes it, grows its ML-KEM half, resets it, and notices that the     *)
(* server hands out another key (ui/update_projects.go), and what the       *)
(* engine does with it (sync/projects.go).                                  *)
(*                                                                         *)
(* A key is its X25519 pair, a number, and the random seed of its ML-KEM    *)
(* half, 0 for a key without one; a DEK sealed to a key that has a half     *)
(* opens with that very half only.  It lives in the personal vault, which   *)
(* another device shares through the server; the passes of that vault are   *)
(* VaultSync's, and here each is one step.  A command runs on a goroutine   *)
(* of its own, calls the server once under Engine.mu, and answers with a    *)
(* message.  Two equal commands in flight count as one.                     *)
(***************************************************************************)
EXTENDS Integers, FiniteSets

CONSTANTS
    MaxMints,    \* bound: key pairs made, here or elsewhere
    MaxOthers,   \* bound: steps of the other device, the admins and the server
    MaxFaults,   \* bound: failed requests, lost answers and crashes
    MaxUnsaved,  \* bound: failed writes of the vault file
    MaxKeys,     \* bound: locks, removals of a member, confirmed republishes
    MaxCmds      \* bound: commands in flight when a key may start another

ASSUME IdentityAssumption == {MaxMints, MaxOthers, MaxFaults, MaxUnsaved, MaxKeys, MaxCmds} \subseteq Nat

VARIABLES
    pub,      \* server: the published key of the account
    wrap,     \* server: the key the project's DEK is sealed to for us, NoKey for none
    remote,   \* server: the key in the newest personal payload
    other,    \* the key in the vault of the other device
    vid,      \* m.st.Identity()
    saved,    \* the key in the vault file
    dirty,    \* the personal payload has changes the server has not seen
    behind,   \* the server has a payload this device has not seen
    eng,      \* the engine: [on, key, gate, dek]
    ui,       \* [open, ready, booting, needsSync, mismatch, modal]
    cmds,     \* commands in flight
    ever,     \* history: keys some vault file has held
    asked,    \* history: a key was given up on purpose, by the user or elsewhere
    granted,  \* history: ways a DEK was handed out while the user was being warned
    spent

server  == <<pub, wrap, remote, other>>
local   == <<vid, saved, dirty, behind>>
history == <<ever, asked, granted>>
vars    == <<pub, wrap, remote, other, vid, saved, dirty, behind, eng, ui, cmds, ever,
             asked, granted, spent>>

Key(x, seed) == [x |-> x, seed |-> seed]
NoKey   == Key(0, 0)
Foreign == Key(-1, 0)      \* nobody on this account holds it

\* UnwrapProjectDEK: a DEK sealed to w opens with k.  A key that has grown its ML-KEM
\* half opens what was sealed before; what is sealed to the half needs that seed.
Opens(k, w) == w.x = k.x /\ w.seed \in {0, k.seed}

NoEngine == [on |-> FALSE, key |-> NoKey, gate |-> FALSE, dek |-> FALSE]
FreshUi  == [open |-> FALSE, ready |-> FALSE, booting |-> FALSE, needsSync |-> FALSE,
             mismatch |-> FALSE, modal |-> "none"]

Cmd(kind, key) == [kind |-> kind, key |-> key, st |-> "queued", old |-> FALSE]
Answer(c, res) == [c EXCEPT !.st = res]
Publishes == {"new", "rotate", "upgrade"}

Limit == [mint |-> MaxMints, other |-> MaxOthers, fault |-> MaxFaults, unsaved |-> MaxUnsaved,
          key |-> MaxKeys]
Spend(b) == spent[b] < Limit[b] /\ spent' = [spent EXCEPT ![b] = @ + 1]
Minted == Key(spent.mint + 2, 1)

\* NewMLKEMSeed: no two upgrades of a pair are the same key.
Grown(x) == Key(x, 1 + Cardinality({k \in ever : k.x = x}))

---------------------------------------------------------------------------
(* The other device, the admins and the server *)

OtherGenerates ==
    /\ other = NoKey /\ pub = NoKey /\ spent.mint < MaxMints
    /\ spent' = [spent EXCEPT !.mint = @ + 1]
    /\ other' = Minted /\ pub' = Minted /\ ever' = ever \union {Minted}
    /\ UNCHANGED <<wrap, remote, local, eng, ui, cmds, asked, granted>>

OtherPushes ==
    /\ other # NoKey /\ Spend("other")
    /\ remote' = other /\ behind' = TRUE
    /\ asked' = (asked \/ remote.x \notin {0, other.x})
    /\ UNCHANGED <<pub, wrap, other, vid, saved, dirty, eng, ui, cmds, ever, granted>>

OtherPulls ==
    /\ remote # NoKey /\ remote # other /\ Spend("other")
    /\ other' = remote
    /\ UNCHANGED <<pub, wrap, remote, local, eng, ui, cmds, history>>

OtherUpgrades ==
    /\ other.x > 0 /\ other.seed = 0 /\ pub = other /\ Spend("other")
    /\ other' = Grown(other.x) /\ pub' = Grown(other.x)
    /\ ever' = ever \union {Grown(other.x)}
    /\ UNCHANGED <<wrap, remote, local, eng, ui, cmds, asked, granted>>

\* The server hands out a key that is not the account's.
Swap ==
    /\ pub # NoKey /\ Spend("other")
    /\ pub' = Foreign
    /\ UNCHANGED <<wrap, remote, other, local, eng, ui, cmds, history>>

AdminGrants ==
    /\ wrap = NoKey /\ pub # NoKey /\ Spend("other")
    /\ wrap' = pub
    /\ asked' = (asked \/ pub = Foreign)
    /\ UNCHANGED <<pub, remote, other, local, eng, ui, cmds, ever, granted>>

---------------------------------------------------------------------------
(* The engine *)

\* A fault is a request that fails, or one whose answer is lost after it acted.
Answers(c, ok) ==
    \/ cmds' = (cmds \ {c}) \union {Answer(c, ok)} /\ UNCHANGED spent
    \/ cmds' = (cmds \ {c}) \union {Answer(c, "err")} /\ Spend("fault")

\* A failed request; or an engine that was closed meanwhile.
Fails(c) ==
    /\ c.st = "queued"
    /\ cmds' = (cmds \ {c}) \union {Answer(c, "err")}
    /\ IF c.old THEN UNCHANGED spent ELSE Spend("fault")
    /\ UNCHANGED <<server, local, eng, ui, history>>

Runs(c, kinds) == c.st = "queued" /\ ~c.old /\ eng.on /\ c.kind \in kinds

\* PublishIdentity; a 409 counts as success.  An upgrade is valid only for a key without
\* the half, whose X25519 key the new one embeds; what a refusal answers is the server's.
Publish(c) ==
    /\ Runs(c, Publishes \union {"republish"})
    /\ CASE c.kind = "new" ->
              pub' = (IF pub = NoKey THEN c.key ELSE pub) /\ UNCHANGED wrap /\ Answers(c, "ok")
         [] c.kind = "upgrade" ->
              /\ \/ pub = Key(c.key.x, 0) /\ pub' = c.key /\ Answers(c, "ok")
                 \/ /\ pub # Key(c.key.x, 0) /\ UNCHANGED pub
                    /\ \E res \in {"ok", "err"} : Answers(c, res)
              /\ UNCHANGED wrap
         [] OTHER -> pub' = c.key /\ wrap' = NoKey /\ Answers(c, "ok")
    /\ UNCHANGED <<remote, other, local, eng, ui, history>>

\* ServerProfile, for the check and for the bootstrap.
Check(c) ==
    /\ Runs(c, {"check"})
    /\ Answers(c, IF pub \in {NoKey, c.key} THEN "same" ELSE "differs")
    /\ UNCHANGED <<server, local, eng, ui, history>>

Boot(c) ==
    /\ Runs(c, {"boot"})
    /\ Answers(c, IF pub = NoKey THEN "generate" ELSE "needSync")
    /\ UNCHANGED <<server, local, eng, ui, history>>

\* A pass opens the project when the DEK is sealed to the engine's key.
Pass(c) ==
    /\ Runs(c, {"pass"})
    /\ eng' = [eng EXCEPT !.dek = eng.key # NoKey /\ Opens(eng.key, wrap)]
    /\ Answers(c, IF eng.key = NoKey THEN "noIdentity" ELSE "ok")
    /\ UNCHANGED <<server, local, ui, history>>

Hands(how) == granted' = IF ui.mismatch THEN granted \union {how} ELSE granted

Finalize(c) ==
    /\ Runs(c, {"finalize"})
    /\ IF eng.key # NoKey /\ ~eng.gate /\ eng.dek THEN Hands("finalize") ELSE UNCHANGED granted
    /\ Answers(c, "ok")
    /\ UNCHANGED <<server, local, eng, ui, ever, asked>>

\* RemoveMember seals a new DEK to the keys the server lists, ours included.
Remove(c) ==
    /\ Runs(c, {"remove"})
    /\ IF eng.dek
       THEN wrap' = pub /\ Hands("remove") /\ asked' = TRUE
       ELSE UNCHANGED <<wrap, granted, asked>>
    /\ Answers(c, "ok")
    /\ UNCHANGED <<pub, remote, other, local, eng, ui, ever>>

---------------------------------------------------------------------------
(* What the handlers share *)

Handled(c, more) == cmds' = (cmds \ {c}) \union more

EngineHas(k) == [eng EXCEPT !.key = k]

\* ensureIdentity
NeedsBoot == ~ui.ready /\ ~ui.booting /\ eng.on
Ensure(c, more) ==
    IF vid # NoKey
    THEN /\ eng' = EngineHas(vid) /\ ui' = [ui EXCEPT !.ready = TRUE]
         /\ Handled(c, more \union {Cmd("new", vid), Cmd("check", vid)})
    ELSE /\ ui' = [ui EXCEPT !.booting = TRUE] /\ UNCHANGED eng
         /\ Handled(c, more \union {Cmd("boot", NoKey)})

Died ==
    /\ ui' = FreshUi /\ eng' = NoEngine /\ cmds' = {} /\ vid' = saved
    /\ UNCHANGED <<server, saved, dirty, behind, history>>

---------------------------------------------------------------------------
(* Messages *)

\* Mutant: the upgrade mints a whole new key pair.
UpgradeAnew == Key(MaxMints + 5, 1)

Upgraded == Grown(vid.x)

\* handleIdentityChecked, with the upgrade it may start.
HandleChecked(c) ==
    LET differs == c.st = "differs"
        gated   == IF eng.on THEN [eng EXCEPT !.gate = differs] ELSE eng
        needs   == ~differs /\ ui.open /\ vid # NoKey /\ vid.seed = 0
    IN  /\ c.kind = "check" /\ c.st \in {"same", "differs"}
        /\ ui' = [ui EXCEPT !.mismatch = differs]
        /\ \/ /\ ~needs /\ eng' = gated /\ Handled(c, {}) /\ UNCHANGED <<local, ever, spent>>
           \/ /\ needs /\ Spend("unsaved") /\ eng' = gated /\ Handled(c, {})
              /\ UNCHANGED <<local, ever>>
           \/ /\ needs
              /\ eng' = [gated EXCEPT !.key = Upgraded]
              /\ vid' = Upgraded /\ saved' = Upgraded /\ dirty' = TRUE
              /\ ever' = ever \union {Upgraded}
              /\ Handled(c, {Cmd("upgrade", Upgraded)})
              /\ UNCHANGED <<behind, spent>>
        /\ UNCHANGED <<server, asked, granted>>

\* handleIdentityReady: a publish or the bootstrap is over.
Ready(c) == c.kind \in Publishes \union {"boot"} /\ c.st # "queued"

HandleReady(c) ==
    /\ Ready(c) /\ c.st \in {"ok", "err"}
    /\ ui' = IF c.st = "err" THEN [ui EXCEPT !.booting = FALSE]
             ELSE [ui EXCEPT !.booting = FALSE, !.ready = TRUE, !.needsSync = FALSE]
    /\ Handled(c, IF c.st = "ok" /\ eng.on THEN {Cmd("pass", NoKey)} ELSE {})
    /\ UNCHANGED <<server, local, eng, history, spent>>

HandleNeedSync(c) ==
    /\ Ready(c) /\ c.st = "needSync"
    /\ ui' = [ui EXCEPT !.booting = FALSE, !.needsSync = TRUE]
    /\ Handled(c, {})
    /\ UNCHANGED <<server, local, eng, history, spent>>

\* A new key pair goes into the vault, and only when that worked to the engine
\* and to the server.  Mutant: it goes out whether the write worked or not.
NotSaved(k) == saved
SavedFirst(k) == k

Mint(c, kind, u) ==
    /\ spent.mint < MaxMints
    /\ vid' = Minted
    /\ \/ /\ spent' = [spent EXCEPT !.mint = @ + 1]
          /\ saved' = SavedFirst(Minted) /\ ever' = ever \union {saved'}
          /\ dirty' = TRUE
          /\ eng' = EngineHas(Minted)
          /\ ui' = [u EXCEPT !.ready = TRUE, !.needsSync = FALSE]
          /\ Handled(c, {Cmd(kind, Minted)})
       \/ /\ spent.unsaved < MaxUnsaved
          /\ spent' = [spent EXCEPT !.mint = @ + 1, !.unsaved = @ + 1]
          /\ ui' = u /\ Handled(c, {})
          /\ UNCHANGED <<saved, ever, dirty, eng>>
    /\ UNCHANGED behind

\* Neither side has a key.  On a locked vault there is no store to put it in,
\* and the program panics.
HandleGenerate(c) ==
    /\ Ready(c) /\ c.st = "generate"
    /\ IF ui.open
       THEN Mint(c, "new", [ui EXCEPT !.booting = FALSE]) /\ UNCHANGED <<server, asked, granted>>
       ELSE Died /\ UNCHANGED spent

HandleRepublished(c) ==
    /\ c.kind = "republish" /\ c.st \in {"ok", "err"}
    /\ Handled(c, IF c.st = "err" \/ ~eng.on THEN {}
                  ELSE {Cmd("pass", NoKey)} \union
                       (IF vid = NoKey THEN {} ELSE {Cmd("check", vid)}))
    /\ UNCHANGED <<server, local, eng, ui, history, spent>>

\* handleProjectsSynced: the unattended grants follow every good pass.
HandlePass(c) ==
    /\ c.kind = "pass" /\ c.st \in {"ok", "err", "noIdentity"}
    /\ IF c.st = "noIdentity" /\ NeedsBoot
       THEN Ensure(c, {})
       ELSE /\ Handled(c, IF c.st = "ok" /\ eng.on THEN {Cmd("finalize", NoKey)} ELSE {})
            /\ UNCHANGED <<eng, ui>>
    /\ UNCHANGED <<server, local, history, spent>>

\* An answer nobody acts on.
HandleRest(c) ==
    /\ \/ c.kind = "finalize" /\ c.st \in {"ok", "err"}
       \/ c.kind = "check" /\ c.st = "err"
    /\ Handled(c, {})
    /\ UNCHANGED <<server, local, eng, ui, history, spent>>

\* handleProjectOp starts a pass unless it failed.
HandleRemoved(c) ==
    /\ c.kind = "remove" /\ c.st \in {"ok", "err"}
    /\ Handled(c, IF c.st = "ok" /\ eng.on THEN {Cmd("pass", NoKey)} ELSE {})
    /\ UNCHANGED <<server, local, eng, ui, history, spent>>

---------------------------------------------------------------------------
(* Keys *)

Idle == ui.open /\ ui.modal = "none" /\ Cardinality(cmds) < MaxCmds
NoCmd == Cmd("none", NoKey)

\* Mutant: the key is checked on the first visit only.
RevisitUnchecked == {Cmd("pass", NoKey)}

Revisit == {Cmd("pass", NoKey)} \union (IF vid = NoKey THEN {} ELSE {Cmd("check", vid)})

EnterProjectsTab ==
    /\ Idle
    /\ IF NeedsBoot THEN Ensure(NoCmd, {})
       ELSE Handled(NoCmd, Revisit) /\ UNCHANGED <<eng, ui>>
    /\ UNCHANGED <<server, local, history, spent>>

RemoveMember ==
    /\ Idle
    /\ Spend("key")
    /\ Handled(NoCmd, {Cmd("remove", NoKey)})
    /\ UNCHANGED <<server, local, eng, ui, history>>

OpenModal ==
    /\ Idle
    /\ \/ ui.needsSync /\ ui' = [ui EXCEPT !.modal = "reset"]
       \/ ui.mismatch /\ ui' = [ui EXCEPT !.modal = "republish"]
    /\ UNCHANGED <<server, local, eng, cmds, history, spent>>

CloseModal ==
    /\ ui.modal # "none" /\ ui' = [ui EXCEPT !.modal = "none"]
    /\ UNCHANGED <<server, local, eng, cmds, history, spent>>

ConfirmReset ==
    /\ ui.modal = "reset"
    /\ Mint(NoCmd, "rotate", [ui EXCEPT !.modal = "none"])
    /\ asked' = TRUE
    /\ UNCHANGED <<server, granted>>

ConfirmRepublish ==
    /\ ui.modal = "republish"
    /\ ui' = [ui EXCEPT !.modal = "none"]
    /\ Handled(NoCmd, IF vid = NoKey THEN {} ELSE {Cmd("republish", vid)})
    /\ asked' = TRUE /\ Spend("key")
    /\ UNCHANGED <<server, local, eng, ever, granted>>

---------------------------------------------------------------------------
(* The personal vault *)

\* Any other save of the vault writes the key it holds in memory.
Save ==
    /\ ui.open /\ vid # saved
    /\ saved' = vid /\ dirty' = TRUE /\ ever' = ever \union {vid}
    /\ UNCHANGED <<server, vid, behind, eng, ui, cmds, asked, granted, spent>>

\* adoptRemote: the engine gets a key that came with the payload.
Adopt ==
    /\ ui.open /\ behind
    /\ vid' = remote /\ saved' = remote /\ dirty' = FALSE /\ behind' = FALSE
    /\ IF remote = NoKey THEN UNCHANGED <<eng, ui>>
       ELSE eng' = EngineHas(remote) /\ ui' = [ui EXCEPT !.ready = TRUE]
    /\ asked' = (asked \/ vid.x \notin {0, remote.x})
    /\ UNCHANGED <<server, cmds, ever, granted, spent>>

\* A push, or a conflict that is settled for this device.
PushPersonal ==
    /\ ui.open /\ dirty
    /\ remote' = saved /\ dirty' = FALSE /\ behind' = FALSE
    /\ UNCHANGED <<pub, wrap, other, vid, saved, eng, ui, cmds, history, spent>>

\* lock saves and closes the engine; what its goroutines still ask fails.
Lock ==
    /\ ui.open /\ Spend("key")
    /\ saved' = vid /\ ever' = ever \union {vid}
    /\ eng' = NoEngine
    /\ ui' = [ui EXCEPT !.open = FALSE, !.modal = "none"]
    /\ cmds' = {IF c.st = "queued" THEN [c EXCEPT !.old = TRUE] ELSE c : c \in cmds}
    /\ UNCHANGED <<server, vid, dirty, behind, asked, granted>>

\* initSync: a new engine, with the key of the vault.  The session resumes, and
\* bootstrapProjects starts a pass.
Unlock ==
    /\ ~ui.open
    /\ vid' = saved
    /\ eng' = [NoEngine EXCEPT !.on = TRUE, !.key = saved]
    /\ ui' = [ui EXCEPT !.open = TRUE, !.ready = @ \/ saved # NoKey]
    /\ Handled(NoCmd, IF ui'.ready THEN {Cmd("pass", NoKey)} ELSE {})
    /\ UNCHANGED <<server, saved, dirty, behind, history, spent>>

Crash == ui.open /\ Spend("fault") /\ Died

---------------------------------------------------------------------------

\* A new account; one whose key another device made; one with its key here too.
Init ==
    /\ \E h \in {0, 1} : \E have \in {"none", "there", "here"} :
          LET k == IF have = "none" THEN NoKey ELSE Key(1, h)
          IN  /\ pub = k /\ other = k
              /\ wrap \in {NoKey, Key(k.x, 0), k}
              /\ remote \in IF have = "there" THEN {NoKey, k} ELSE {k}
              /\ saved = IF have = "here" THEN k ELSE NoKey
              /\ behind = (saved # remote)
              /\ ever = {k, NoKey}
    /\ vid = saved /\ dirty = FALSE
    /\ eng = NoEngine /\ ui = FreshUi /\ cmds = {}
    /\ asked = FALSE /\ granted = {}
    /\ spent = [b \in DOMAIN Limit |-> 0]

Elsewhere ==
    \/ OtherGenerates \/ OtherPushes \/ OtherPulls \/ OtherUpgrades \/ Swap \/ AdminGrants
Engine(c) ==
    \/ Publish(c) \/ Check(c) \/ Boot(c) \/ Pass(c) \/ Finalize(c) \/ Remove(c) \/ Fails(c)
Message(c) ==
    \/ HandleChecked(c) \/ HandleReady(c) \/ HandleNeedSync(c) \/ HandleGenerate(c)
    \/ HandleRepublished(c) \/ HandlePass(c) \/ HandleRest(c) \/ HandleRemoved(c)
Keys ==
    \/ EnterProjectsTab \/ RemoveMember \/ OpenModal \/ CloseModal \/ ConfirmReset
    \/ ConfirmRepublish \/ Save \/ Adopt \/ PushPersonal \/ Lock \/ Unlock \/ Crash

Next == Elsewhere \/ Keys \/ \E c \in cmds : Engine(c) \/ Message(c)

Spec == Init /\ [][Next]_vars

\* Requests end, by an answer or by their timeout, and messages are handled.
Served == \E c \in cmds : c.st = "queued" /\ Engine(c)
Answered == \E c \in cmds : Message(c)
FairSpec == Spec /\ WF_vars(Served) /\ WF_vars(Answered)

---------------------------------------------------------------------------
(* Properties *)

\* handleIdentityReady, upgradeIdentityToHybrid, resetIdentityConfirmKey: a key is in
\* a vault file before it is anywhere else, so that no crash leaves a published key,
\* and DEKs sealed to it, that nobody can open; as long as no write of the file fails.
Kept == ever \union {NoKey, Foreign}
PublishedKeyWasSaved == spent.unsaved = 0 => {pub, eng.key} \subseteq Kept

\* upgradeIdentityToHybrid, adoptRemote, resetIdentityConfirmKey: whatever is upgraded,
\* lost, retried or locked, an account whose DEK this vault and its file open keeps it
\* until the pair is given up on purpose.  Two steps are known to break it: a bootstrap
\* that answers late (GeneratesWhenNone, below), and the adoption of a payload without the
\* ML-KEM half to which the DEK is sealed (UpgradeKeepsAccess, below).
Overtaken == \E c \in cmds : c.st = "generate"
DropsHalf == Adopt /\ wrap.seed \notin {0, remote.seed}
HasAccess == wrap.x > 0 /\ Opens(vid, wrap) /\ Opens(saved, wrap)
AccessSurvives ==
    [][~asked' /\ ~Overtaken /\ ~DropsHalf /\ HasAccess => wrap' = wrap /\ HasAccess']_vars

\* identityCheckCmd: a key that was swapped for good is noticed by a user who keeps
\* coming back to the projects tab.
SwapIsNoticed ==
    <>[](pub = Foreign /\ ui.open /\ vid # NoKey) /\ []<><<EnterProjectsTab>>_vars
        => <>[](ui.mismatch)

---------------------------------------------------------------------------
(* What the texts say and the code does not do; see README, section 8 *)

\* README: with the upgrade "Nothing is re-granted and no project loses access", not even
\* when the server has seen it and this device has nothing left to push.
UpgradeKeepsAccess ==
    [][~asked' /\ ~Overtaken /\ ~dirty /\ HasAccess => HasAccess']_vars

\* handleIdentityChecked "keeps the engine's key-distribution gate in step with" the
\* verdict: while the warning stands, no pass hands out a DEK unattended.
GateInStep == "finalize" \notin granted

\* SetIdentityMismatch "gates every operation that would hand a project DEK to a
\* server-supplied key".
EveryGrantIsGated == granted = {}

\* "generate one, persist it, publish it": in that order even when the write fails.
UnsavedStaysHere == pub \in Kept

\* "Neither side has a key: generate one, persist it, publish it."
GeneratesWhenNone ==
    [][(\E c \in cmds : c.st = "generate" /\ Mint(c, "new", [ui EXCEPT !.booting = FALSE]))
         => vid = NoKey]_vars

\* "R": "only offered in the needs-sync state".
ResetWhenNeeded == ui.modal = "reset" => vid = NoKey

\* identityMismatch is for a server that publishes a foreign key: alone on its
\* account, a device is not warned of itself.
NoFalseAlarm == spent.other = 0 => ~ui.mismatch
=============================================================================
