---------------------------- MODULE ProjectSync ----------------------------
(***************************************************************************)
(* Team projects on one device: the engine's passes and single-project     *)
(* operations (internal/sync/projects.go), and the reducer's handlers,     *)
(* keys and debounce timer around them (internal/ui/update_projects.go).   *)
(*                                                                         *)
(* A project is a shared document that the server keeps as a sequence of   *)
(* versions, each sealed under a project key (DEK) that a rotation         *)
(* replaces; a DEK is its number.  Other members push, rotate, grant and   *)
(* remove at any time.  A document is the set of the hosts it holds, and   *)
(* a fingerprint is the document itself.                                   *)
(*                                                                         *)
(* Commands run on goroutines of their own and serialise on Engine.mu; a   *)
(* command captures the documents when the UI starts it, and its result    *)
(* is a message that the UI handles later.                                 *)
(***************************************************************************)
EXTENDS Naturals, Sequences, FiniteSets, SequencesExt

CONSTANTS
  Projects, Hosts,
  NoDoc,        \* no document: a nil payload, and the empty fingerprint
  None,         \* no project: no timer, no open conflict
  Personal,     \* the personal vault, as one end of a move
  Slots,        \* bound: commands in flight at once
  MaxOthers,    \* bound: steps of other members, per kind
  MaxEdits,     \* bound: edits and moves of this user
  MaxFaults,    \* bound: failed requests, lost answers and dead sessions
  MaxKeys,      \* bound: manual passes, removals, locks and sign-outs
  Start         \* documents a run starts with, NoDoc for a project still to create

Doc  == SUBSET Hosts
Docs == Doc \cup {NoDoc}
Limit == [other |-> MaxOthers, edit |-> MaxEdits, fault |-> MaxFaults, key |-> MaxKeys]

ASSUME NamesAssumption == NoDoc \notin Doc /\ None \notin Projects /\ Personal \notin Projects
ASSUME BoundsAssumption == {MaxOthers, MaxEdits, MaxFaults, MaxKeys} \subseteq Nat
ASSUME StartAssumption == Start \in [Projects -> Docs]

VARIABLES
  hist,      \* server: versions of each project
  member,    \* server: what it holds for this account, see Membership
  on,        \* Engine.sess is not nil
  st,        \* Engine.sess.Projects
  dek,       \* Engine.projectDEKs, 0 for none
  pend,      \* Engine.pendingProjects: a version, 0 for none
  file,      \* the session file's projects, or NoFile
  cmd,       \* commands in flight
  signedIn, docs, items, queue, active, modal,   \* UI model fields
  timer,     \* what the newest debounce timer will push, None when it has fired
  personal,  \* hosts of the personal vault
  moved,     \* history: hosts moved between documents and not deleted by the user
  gaveUp,    \* history: per project, the document given up for the remote one
  spent

server == <<hist, member>>
engine == <<on, st, dek, pend, file>>
ui     == <<signedIn, docs, items, queue, active, modal, timer, personal>>
past   == <<moved, gaveUp>>
vars   == <<hist, member, on, st, dek, pend, file, cmd, signedIn, docs, items,
            queue, active, modal, timer, personal, moved, gaveUp, spent>>

-----------------------------------------------------------------------------
(* Data *)

Version == [doc : Doc, dek : Nat, by : {"me", "other"}]
Newest(p) == Len(hist[p])
Exists(p) == hist[p] # <<>>
Epoch(p) == hist[p][Newest(p)].dek

\* The wrapped DEK the server has for this account: none yet (or nulled by a
\* rotation), one this identity cannot open, or one of the current epoch.
Membership == {"none", "awaiting", "foreign", "keyed"}

State == [in : BOOLEAN, ver : Nat, fp : Docs]
Unknown == [in |-> FALSE, ver |-> 0, fp |-> NoDoc]
Agreed(v, fp) == [in |-> TRUE, ver |-> v, fp |-> fp]
Fresh == [p \in Projects |-> Unknown]
NoFile == [p \in {} |-> Unknown]
Zeros == [p \in Projects |-> 0]
NoDocs == [p \in Projects |-> NoDoc]

Stage == {"idle", "queued", "list", "put", "refetch", "reget", "retry", "done"}
Kind == {"none", "pass", "push", "keep", "take", "rotate", "create"}
Outcome == {"none", "ok", "err", "dead", "signedOut", "removed", "conflict", "empty"}
\* local: payloads captured by the UI; todo, await: what the list still has to
\* visit, and says awaits a key; ver: the version read; seen, open: the views;
\* found: conflicts in list order; gone: vanished projects.
Command == [st : Stage, kind : Kind, id : Projects \cup {None}, local : [Projects -> Docs],
            todo : SUBSET Projects, await : SUBSET Projects, ver : Nat, self : BOOLEAN,
            seen : SUBSET Projects, open : [Projects -> Docs], found : Seq(Projects),
            gone : SUBSET Projects, res : Outcome]
Idle == [st |-> "idle", kind |-> "none", id |-> None, local |-> NoDocs, todo |-> {},
         await |-> {}, ver |-> 0, self |-> FALSE, seen |-> {}, open |-> NoDocs,
         found |-> <<>>, gone |-> {}, res |-> "none"]
Queued(kind, id, local) == [Idle EXCEPT !.st = "queued", !.kind = kind, !.id = id, !.local = local]
Only(p, d) == [NoDocs EXCEPT ![p] = d]

Spend(b) == spent[b] < Limit[b] /\ spent' = [spent EXCEPT ![b] = @ + 1]

\* Engine.mu
Running == {"list", "put", "refetch", "reget", "retry"}
MutexFree == \A c \in Slots : cmd[c].st \notin Running
Locks(c) == cmd[c].st = "queued" /\ MutexFree

Init ==
  /\ hist = [p \in Projects |-> IF Start[p] = NoDoc THEN <<>>
                               ELSE <<[doc |-> Start[p], dek |-> 1, by |-> "other"]>>]
  /\ member \in [Projects -> {"none", "keyed"}]
  /\ \A p \in Projects : Start[p] = NoDoc => member[p] = "none"
  /\ on = TRUE /\ st = Fresh /\ dek = Zeros /\ pend = Zeros /\ file = Fresh
  /\ \E c \in Slots : cmd = [d \in Slots |-> IF d = c THEN Queued("pass", None, NoDocs) ELSE Idle]
  /\ signedIn = TRUE /\ docs = NoDocs /\ items = [p \in Projects |-> "none"]
  /\ queue = <<>> /\ active = None /\ modal = "none" /\ timer = None
  /\ personal \in {{}, Hosts}
  /\ moved = {} /\ gaveUp = NoDocs
  /\ spent = [b \in DOMAIN Limit |-> 0]

-----------------------------------------------------------------------------
(* Other members, through the server *)

OtherPush(p, d) ==
  /\ member[p] # "none" /\ d # hist[p][Newest(p)].doc
  /\ Spend("other")
  /\ hist' = [hist EXCEPT ![p] = Append(@, [doc |-> d, dek |-> Epoch(p), by |-> "other"])]
  /\ UNCHANGED <<member, engine, cmd, ui, past>>

\* Another admin rotates: with this account among the recipients, without it,
\* or to remove it.
OtherRotate(p, m) ==
  LET top == hist[p][Newest(p)] IN
  /\ member[p] # "none" /\ m \in {"none", "awaiting", "keyed"}
  /\ m = "keyed" => member[p] = "keyed"
  /\ Spend("other")
  /\ hist' = [hist EXCEPT ![p] = Append(hist[p], [top EXCEPT !.dek = @ + 1, !.by = "other"])]
  /\ member' = [member EXCEPT ![p] = m]
  /\ UNCHANGED <<engine, cmd, ui, past>>

\* An invitation accepted and a key granted, under this identity or another.
OtherGrant(p, m) ==
  /\ Exists(p) /\ <<member[p], m>> \in {<<"none", "awaiting">>, <<"awaiting", "keyed">>, <<"awaiting", "foreign">>}
  /\ Spend("other")
  /\ member' = [member EXCEPT ![p] = m]
  /\ UNCHANGED <<hist, engine, cmd, ui, past>>

Accept(p, d, e, m) ==
  /\ hist' = [hist EXCEPT ![p] = Append(@, [doc |-> d, dek |-> e, by |-> "me"])]
  /\ member' = [member EXCEPT ![p] = m]

-----------------------------------------------------------------------------
(* Results *)

Finish(c, r) == cmd' = [cmd EXCEPT ![c] = r]
OpDone(c, res, d) ==
  LET k == cmd[c].kind IN
  Finish(c, [Idle EXCEPT !.st = "done", !.kind = k, !.id = cmd[c].id, !.res = res,
                         !.open = IF d = NoDoc THEN NoDocs ELSE Only(cmd[c].id, d)])
PassDone(c, res) ==
  Finish(c, [cmd[c] EXCEPT !.st = "done", !.res = res, !.local = NoDocs, !.todo = {},
                           !.await = {}, !.ver = 0, !.id = None])

\* commit: agreement on one project.  Mutant: the fingerprint of what was there.
CommitVersionOnly(p, v, d) == st' = [st EXCEPT ![p] = Agreed(v, @.fp)]
Commit(p, v, d) == st' = [st EXCEPT ![p] = Agreed(v, d)]
Save == file' = IF on' THEN st' ELSE NoFile

\* deadLocked: the session is gone, the DEKs stay.
DeadLocked(c) ==
  /\ Spend("fault")
  /\ on' = FALSE /\ st' = Fresh /\ pend' = Zeros /\ file' = NoFile
  /\ Finish(c, [Idle EXCEPT !.st = "done", !.kind = "pass", !.res = "dead"])
  /\ UNCHANGED <<hist, member, dek, ui, past>>

DropProjects(gone) ==
  /\ st' = [p \in Projects |-> IF p \in gone THEN Unknown ELSE st[p]]
  /\ dek' = [p \in Projects |-> IF p \in gone THEN 0 ELSE dek[p]]
  /\ pend' = [p \in Projects |-> IF p \in gone THEN 0 ELSE pend[p]]

-----------------------------------------------------------------------------
(* Engine.SyncProjects: list, then per project a read and, when only the     *)
(* local side changed, a write, a lost race and one more read.               *)

PassSignedOut(c) ==
  /\ Locks(c) /\ cmd[c].kind = "pass" /\ ~on
  /\ PassDone(c, "signedOut")
  /\ UNCHANGED <<server, engine, ui, past, spent>>

ListProjects(c) ==
  /\ Locks(c) /\ cmd[c].kind = "pass" /\ on
  /\ \/ DeadLocked(c)
     \/ /\ Spend("fault") /\ PassDone(c, "err")
        /\ UNCHANGED <<server, engine, ui, past>>
     \/ LET live == {p \in Projects : member[p] # "none"}
            gone == {p \in Projects \ live : st[p].in}
        IN /\ DropProjects(gone)
           /\ Finish(c, [cmd[c] EXCEPT !.st = "list", !.todo = live, !.gone = gone,
                         !.await = {p \in live : member[p] = "awaiting"}])
           /\ UNCHANGED <<server, on, file, ui, past, spent>>

\* One project leaves the list with the view d, NoDoc when it awaits a key.
View(c, p, d) == [cmd[c] EXCEPT !.st = "list", !.todo = @ \ {p}, !.seen = @ \cup {p},
                                !.open[p] = d, !.ver = 0, !.id = None]
Conflicting(c, p) == [View(c, p, cmd[c].local[p]) EXCEPT !.found = Append(@, p)]

MarkAwaiting(c, p) ==
  /\ dek' = [dek EXCEPT ![p] = 0]
  /\ st' = [st EXCEPT ![p].in = TRUE]
  /\ Finish(c, View(c, p, NoDoc))
  /\ UNCHANGED pend

LocalChanged(c, p) == cmd[c].local[p] # NoDoc /\ cmd[c].local[p] # st[p].fp
\* Mutant: the push does not ask whether the remote moved.
RemoteNeverMoved(p) == FALSE
RemoteMoved(p) == Newest(p) # st[p].ver

ReadProject(c, p) ==
  LET remote == hist[p][Newest(p)] IN
  /\ dek' = [dek EXCEPT ![p] = remote.dek]
  /\ \/ /\ LocalChanged(c, p) /\ ~RemoteMoved(p)
        /\ Finish(c, [cmd[c] EXCEPT !.st = "put", !.id = p, !.ver = Newest(p)])
        /\ UNCHANGED <<st, pend>>
     \/ /\ LocalChanged(c, p) => RemoteMoved(p) /\ cmd[c].local[p] = remote.doc
        /\ Commit(p, Newest(p), remote.doc)
        /\ Finish(c, View(c, p, remote.doc))
        /\ UNCHANGED pend
     \/ /\ LocalChanged(c, p) /\ RemoteMoved(p) /\ cmd[c].local[p] # remote.doc
        /\ st' = [st EXCEPT ![p].in = TRUE]
        /\ pend' = [pend EXCEPT ![p] = Newest(p)]
        /\ Finish(c, Conflicting(c, p))

VisitProject(c, p) ==
  /\ cmd[c].st = "list" /\ p \in cmd[c].todo
  /\ \/ /\ p \in cmd[c].await \/ member[p] \in {"awaiting", "foreign"}
        /\ MarkAwaiting(c, p)
        /\ UNCHANGED <<server, on, file, ui, past, spent>>
     \/ /\ p \notin cmd[c].await /\ member[p] = "none"
        /\ DropProjects({p})
        /\ Finish(c, [cmd[c] EXCEPT !.todo = @ \ {p}, !.gone = @ \cup {p}])
        /\ UNCHANGED <<server, on, file, ui, past, spent>>
     \/ /\ p \notin cmd[c].await /\ member[p] = "keyed"
        /\ ReadProject(c, p)
        /\ UNCHANGED <<server, on, file, ui, past, spent>>
     \/ /\ p \notin cmd[c].await
        /\ \/ DeadLocked(c)
           \/ /\ Spend("fault")
              /\ Finish(c, [cmd[c] EXCEPT !.todo = @ \ {p}])
              /\ UNCHANGED <<server, engine, ui, past>>

\* The write of a pass; the answer may be lost after the server has applied it.
PassPut(c) ==
  LET p == cmd[c].id  d == cmd[c].local[p] IN
  /\ cmd[c].st = "put"
  /\ \/ /\ member[p] # "none" /\ Newest(p) = cmd[c].ver
        /\ Accept(p, d, dek[p], member[p])
        /\ \/ Commit(p, Newest(p) + 1, d) /\ UNCHANGED spent
           \/ Spend("fault") /\ st' = [st EXCEPT ![p].in = TRUE]
        /\ Finish(c, View(c, p, d))
        /\ UNCHANGED <<on, dek, pend, file, ui, past>>
     \/ /\ member[p] # "none" /\ Newest(p) # cmd[c].ver
        /\ Finish(c, [cmd[c] EXCEPT !.st = "refetch"])
        /\ UNCHANGED <<server, engine, ui, past, spent>>
     \/ /\ member[p] = "none"
        /\ st' = [st EXCEPT ![p].in = TRUE]
        /\ Finish(c, View(c, p, d))
        /\ UNCHANGED <<server, on, dek, pend, file, ui, past, spent>>
     \/ DeadLocked(c)

\* refetchProjectConflict: opened with the DEK of the first read, so a version
\* of a later epoch is left for the next pass.  Mutant: any version opens.
OpensAnything(p) == TRUE
OpensWithOldKey(p) == Epoch(p) = dek[p]
Refetch(c) ==
  LET p == cmd[c].id  d == cmd[c].local[p] IN
  /\ cmd[c].st = "refetch"
  /\ \/ /\ \/ Spend("fault")
           \/ (member[p] \in {"none", "awaiting"} \/ ~OpensWithOldKey(p)) /\ UNCHANGED spent
        /\ st' = [st EXCEPT ![p].in = TRUE]
        /\ Finish(c, View(c, p, d))
        /\ UNCHANGED pend
     \/ /\ member[p] \in {"keyed", "foreign"} /\ OpensWithOldKey(p)
        /\ IF hist[p][Newest(p)].doc = d
             THEN Commit(p, Newest(p), d) /\ Finish(c, View(c, p, d)) /\ UNCHANGED pend
             ELSE /\ st' = [st EXCEPT ![p].in = TRUE]
                  /\ pend' = [pend EXCEPT ![p] = Newest(p)]
                  /\ Finish(c, Conflicting(c, p))
        /\ UNCHANGED spent
  /\ UNCHANGED <<server, on, dek, file, ui, past>>

EndPass(c) ==
  /\ cmd[c].st = "list" /\ cmd[c].todo = {}
  /\ PassDone(c, "ok")
  /\ UNCHANGED <<on, st, dek, pend>> /\ Save
  /\ UNCHANGED <<server, ui, past, spent>>

-----------------------------------------------------------------------------
(* Single-project operations *)

OpSignedOut(c) ==
  /\ Locks(c) /\ cmd[c].kind # "pass" /\ ~on
  /\ OpDone(c, "signedOut", NoDoc)
  /\ UNCHANGED <<server, engine, ui, past, spent>>

\* ErrNoProjectKey, or a failed request that changed nothing.
OpFails(c) ==
  /\ Locks(c) /\ cmd[c].kind \in {"push", "keep", "rotate"} /\ on
  /\ cmd[c].kind = "keep" => pend[cmd[c].id] # 0
  /\ \/ cmd[c].kind # "rotate" /\ dek[cmd[c].id] = 0 /\ UNCHANGED spent
     \/ Spend("fault")
  /\ OpDone(c, "err", NoDoc)
  /\ UNCHANGED <<server, engine, ui, past>>

\* The server took the write: the engine commits, unless the answer is lost.
Applied(c, p, d, e) ==
  \/ /\ Commit(p, Newest(p) + 1, d)
     /\ dek' = [dek EXCEPT ![p] = e]
     /\ pend' = IF cmd[c].kind = "keep" THEN [pend EXCEPT ![p] = 0] ELSE pend
     /\ OpDone(c, "ok", d)
     /\ UNCHANGED <<on, spent>> /\ Save
  \/ Spend("fault") /\ OpDone(c, "err", NoDoc) /\ UNCHANGED engine

Expected(p) == st[p].ver
PushProject(c) ==
  LET p == cmd[c].id  d == cmd[c].local[p] IN
  /\ Locks(c) /\ cmd[c].kind = "push" /\ on /\ dek[p] # 0
  /\ \/ /\ member[p] # "none" /\ Newest(p) = Expected(p)
        /\ Accept(p, d, dek[p], member[p]) /\ Applied(c, p, d, dek[p])
     \/ /\ member[p] # "none" /\ Newest(p) # Expected(p)
        /\ OpDone(c, "conflict", NoDoc)
        /\ UNCHANGED <<server, engine, spent>>
     \/ /\ member[p] = "none"
        /\ DropProjects({p})
        /\ OpDone(c, "removed", NoDoc)
        /\ UNCHANGED <<server, on, file, spent>>
  /\ UNCHANGED <<ui, past>>

\* ResolveProject of a conflict that is no longer pending.
ResolveEvaporated(c) ==
  /\ Locks(c) /\ cmd[c].kind \in {"keep", "take"} /\ on /\ pend[cmd[c].id] = 0
  /\ OpDone(c, "empty", NoDoc)
  /\ UNCHANGED <<server, engine, ui, past, spent>>

TakeRemote(c) ==
  LET p == cmd[c].id IN
  /\ Locks(c) /\ cmd[c].kind = "take" /\ on /\ pend[p] # 0
  /\ Commit(p, pend[p], hist[p][pend[p]].doc)
  /\ pend' = [pend EXCEPT ![p] = 0]
  /\ OpDone(c, "ok", hist[p][pend[p]].doc)
  /\ UNCHANGED <<on, dek>> /\ Save
  /\ gaveUp' = [gaveUp EXCEPT ![p] = cmd[c].local[p]]
  /\ UNCHANGED <<server, ui, moved, spent>>

\* A nil payload seals as the empty document.
Sealed(d) == IF d = NoDoc THEN {} ELSE d
KeepLocal(c) ==
  LET p == cmd[c].id  d == cmd[c].local[p] IN
  /\ Locks(c) /\ cmd[c].kind = "keep" /\ on /\ pend[p] # 0 /\ dek[p] # 0
  /\ \/ /\ member[p] # "none" /\ Newest(p) = pend[p]
        /\ Accept(p, Sealed(d), dek[p], member[p]) /\ Applied(c, p, Sealed(d), dek[p])
     \/ /\ member[p] # "none" /\ Newest(p) # pend[p]
        /\ pend' = [pend EXCEPT ![p] = 0]
        /\ OpDone(c, "conflict", NoDoc)
        /\ UNCHANGED <<server, on, st, dek, file, spent>>
     \/ /\ member[p] = "none"
        /\ OpDone(c, "err", NoDoc)
        /\ UNCHANGED <<server, engine, spent>>
  /\ UNCHANGED <<ui, past>>

\* RemoveMember: a fresh DEK, and after a lost race one retry with the payload
\* the server has.  The wraps are those of the detail the UI had, so the caller
\* stays keyed only when it was listed there.
Rekeyed(c) == IF cmd[c].self THEN "keyed" ELSE "awaiting"
RemoveMember(c) ==
  LET p == cmd[c].id  d == cmd[c].local[p] IN
  /\ Locks(c) /\ cmd[c].kind = "rotate" /\ on
  /\ \/ /\ member[p] # "none" /\ Newest(p) = st[p].ver
        /\ Accept(p, d, Epoch(p) + 1, Rekeyed(c)) /\ Applied(c, p, d, Epoch(p) + 1)
     \/ /\ member[p] # "none" /\ Newest(p) # st[p].ver
        /\ Finish(c, [cmd[c] EXCEPT !.st = "reget"])
        /\ UNCHANGED <<server, engine, spent>>
     \/ /\ member[p] = "none"
        /\ OpDone(c, "err", NoDoc)
        /\ UNCHANGED <<server, engine, spent>>
  /\ UNCHANGED <<ui, past>>

RetryFresh(c) == LET p == cmd[c].id IN
  [cmd[c] EXCEPT !.st = "retry", !.ver = Newest(p), !.local[p] = hist[p][Newest(p)].doc]
RemoveReget(c) ==
  /\ cmd[c].st = "reget"
  /\ \/ member[cmd[c].id] = "keyed" /\ Finish(c, RetryFresh(c)) /\ UNCHANGED spent
     \/ /\ member[cmd[c].id] = "keyed" => Spend("fault")
        /\ member[cmd[c].id] # "keyed" => UNCHANGED spent
        /\ OpDone(c, "conflict", NoDoc)
  /\ UNCHANGED <<server, engine, ui, past>>

RemoveRetry(c) ==
  LET p == cmd[c].id  d == cmd[c].local[p] IN
  /\ cmd[c].st = "retry"
  /\ \/ /\ member[p] # "none" /\ Newest(p) = cmd[c].ver
        /\ Accept(p, d, Epoch(p) + 1, Rekeyed(c)) /\ Applied(c, p, d, Epoch(p) + 1)
     \/ /\ member[p] # "none" /\ Newest(p) # cmd[c].ver
        /\ OpDone(c, "conflict", NoDoc) /\ UNCHANGED <<server, engine, spent>>
     \/ /\ member[p] = "none"
        /\ OpDone(c, "err", NoDoc) /\ UNCHANGED <<server, engine, spent>>
  /\ UNCHANGED <<ui, past>>

\* CreateProject: an empty document under a fresh DEK.
CreateProject(c) ==
  LET p == cmd[c].id IN
  /\ Locks(c) /\ cmd[c].kind = "create" /\ on
  /\ \/ /\ Accept(p, {}, 1, "keyed") /\ Applied(c, p, {}, 1)
     \/ Spend("fault") /\ OpDone(c, "err", NoDoc) /\ UNCHANGED <<server, engine>>
  /\ UNCHANGED <<ui, past>>

-----------------------------------------------------------------------------
(* The reducer: results *)

Ready(c) == cmd[c].st = "done"
\* Every handler that asks for a pass reuses the slot of the result.
StartPass(c) == Finish(c, IF signedIn THEN Queued("pass", None, docs') ELSE Idle)

\* maybeOpenProjectConflict
MaybeOpen ==
  IF queue' # <<>> /\ modal = "none"
    THEN active' = Head(queue') /\ modal' = "conflict"
    ELSE UNCHANGED <<active, modal>>

\* A conflict is queued once.
NewConflict(p) == p # active /\ p \notin ToSet(queue)

ProjectsSynced(c) ==
  /\ Ready(c) /\ cmd[c].kind = "pass" /\ cmd[c].res \in {"ok", "err"}
  /\ docs' = [p \in Projects |-> IF cmd[c].open[p] # NoDoc THEN cmd[c].open[p]
                                 ELSE IF p \in cmd[c].gone THEN NoDoc ELSE docs[p]]
  /\ items' = [p \in Projects |-> CASE p \notin cmd[c].seen -> "none"
                                    [] cmd[c].open[p] = NoDoc -> "awaiting"
                                    [] OTHER -> "keyed"]
  /\ queue' = queue \o SelectSeq(cmd[c].found, NewConflict)
  /\ MaybeOpen
  /\ Finish(c, Idle)
  /\ UNCHANGED <<server, engine, signedIn, timer, personal, past, spent>>

\* Model.signOut and Engine.SignOut: the DEKs and the pending conflicts stay.
ForgetSession == on' = FALSE /\ st' = Fresh /\ file' = NoFile /\ signedIn' = FALSE
SessionOver(c) ==
  /\ Ready(c) /\ cmd[c].kind = "pass" /\ cmd[c].res \in {"dead", "signedOut"}
  /\ IF cmd[c].res = "dead" THEN MutexFree /\ ForgetSession ELSE UNCHANGED <<on, st, file, signedIn>>
  /\ Finish(c, Idle)
  /\ UNCHANGED <<server, dek, pend, docs, items, queue, active, modal, timer, personal, past, spent>>

ProjectOpDone(c) ==
  /\ Ready(c) /\ cmd[c].kind \notin {"pass", "create"}
  /\ docs' = IF cmd[c].res = "ok" THEN [docs EXCEPT ![cmd[c].id] = cmd[c].open[cmd[c].id]] ELSE docs
  /\ IF cmd[c].res \in {"err", "signedOut"} THEN Finish(c, Idle) ELSE StartPass(c)
  /\ UNCHANGED <<server, engine, signedIn, items, queue, active, modal, timer, personal, past, spent>>

\* handleProjectCreated closes whatever modal is open when it lands.
ProjectCreated(c) ==
  /\ Ready(c) /\ cmd[c].kind = "create"
  /\ IF cmd[c].res = "ok"
       THEN /\ docs' = [docs EXCEPT ![cmd[c].id] = {}] /\ modal' = "none"
            /\ StartPass(c)
       ELSE Finish(c, Idle) /\ UNCHANGED <<docs, modal>>
  /\ UNCHANGED <<server, engine, signedIn, items, queue, active, timer, personal, past, spent>>

-----------------------------------------------------------------------------
(* The reducer: keys and timers *)

Free(c) == cmd[c].st = "idle"
\* The vault is open: paired, or with no session to resume.
Unlocked == signedIn \/ on \/ file = NoFile

\* scheduleProjectPush and schedulePush share one generation: arming one timer
\* supersedes whichever was armed before.
Arm(p) == timer' = p

EditProject(p, d) ==
  /\ signedIn /\ modal = "none" /\ items[p] = "keyed" /\ docs[p] # NoDoc /\ d # docs[p]
  /\ Spend("edit")
  /\ docs' = [docs EXCEPT ![p] = d]
  /\ moved' = moved \ (docs[p] \ d)
  /\ gaveUp' = [gaveUp EXCEPT ![p] = NoDoc]
  /\ Arm(p)
  /\ UNCHANGED <<server, engine, cmd, signedIn, items, queue, active, modal, personal>>

\* moveHostTo: destinationAccepts, then remove from the source and add to the
\* target, each arming its own push.
Holds(p) == IF p = Personal THEN personal ELSE IF docs[p] = NoDoc THEN {} ELSE docs[p]
MoveHost(h, from, to) ==
  /\ signedIn /\ modal = "none" /\ from # to /\ h \in Holds(from) \ Holds(to)
  /\ {from, to} \ {Personal} \subseteq {p \in Projects : items[p] = "keyed" /\ docs[p] # NoDoc}
  /\ Spend("edit")
  /\ personal' = IF from = Personal THEN personal \ {h}
                 ELSE IF to = Personal THEN personal \cup {h} ELSE personal
  /\ docs' = [p \in Projects |-> CASE p = from -> docs[p] \ {h} [] p = to -> docs[p] \cup {h}
                                   [] OTHER -> docs[p]]
  /\ moved' = moved \cup {h}
  /\ gaveUp' = [p \in Projects |-> IF p \in {from, to} THEN NoDoc ELSE gaveUp[p]]
  /\ Arm(to)
  /\ UNCHANGED <<server, engine, cmd, signedIn, items, queue, active, modal>>

PushTimerFires(c) ==
  /\ timer # None /\ timer' = None
  /\ IF timer # Personal /\ signedIn /\ docs[timer] # NoDoc
       THEN Free(c) /\ Finish(c, Queued("push", timer, Only(timer, docs[timer])))
       ELSE UNCHANGED cmd
  /\ UNCHANGED <<server, engine, signedIn, docs, items, queue, active, modal, personal, past, spent>>

\* Entering the projects tab, and every other resync a user can ask for.
EnterProjectsTab(c) ==
  /\ signedIn /\ modal = "none" /\ Free(c) /\ Spend("key")
  /\ Finish(c, Queued("pass", None, docs))
  /\ UNCHANGED <<server, engine, ui, past>>

\* removeMemberConfirmKey
ConfirmRemove(c, p, self) ==
  /\ signedIn /\ modal = "none" /\ items[p] = "keyed" /\ docs[p] # NoDoc /\ Free(c) /\ Spend("key")
  /\ Finish(c, [Queued("rotate", p, Only(p, docs[p])) EXCEPT !.self = self])
  /\ UNCHANGED <<server, engine, ui, past>>

\* projectConflictKey: l and r pop the queue and settle, esc leaves it queued.
PopConflict == queue' = (IF queue = <<>> THEN queue ELSE Tail(queue)) /\ active' = None
ChooseSide(c, keep) ==
  /\ modal = "conflict" /\ active \in Projects /\ Unlocked /\ Free(c)
  /\ modal' = "none" /\ PopConflict
  /\ Finish(c, Queued(IF keep THEN "keep" ELSE "take", active, Only(active, docs[active])))
  /\ UNCHANGED <<server, engine, signedIn, docs, items, timer, personal, past, spent>>

\* The program ends and is started again: the session file is all that is left,
\* documents that were not pushed included.
Restarted ==
  /\ on' = FALSE /\ st' = Fresh /\ dek' = Zeros /\ pend' = Zeros
  /\ cmd' = [c \in Slots |-> Idle]
  /\ signedIn' = FALSE /\ docs' = NoDocs /\ items' = [p \in Projects |-> "none"]
  /\ queue' = <<>> /\ active' = None /\ modal' = "none" /\ timer' = None
  /\ UNCHANGED <<server, file, personal, past>>
Crash == Spend("fault") /\ Restarted

\* A modal takes every key, on the unlock screen too, and there the command has
\* no engine to call: the program panics.
ChooseLocked == modal = "conflict" /\ active \in Projects /\ ~Unlocked /\ Restarted /\ UNCHANGED spent

DecideLater ==
  /\ modal = "conflict" /\ modal' = "none" /\ active' = None
  /\ UNCHANGED <<server, engine, cmd, signedIn, docs, items, queue, timer, personal, past, spent>>

\* createProjectKey: the form stays open until the answer, or is left with esc.
SubmitCreate(c, p) ==
  /\ signedIn /\ modal = "none" /\ Free(c) /\ Spend("key")
  /\ ~Exists(p) /\ \A d \in Slots : cmd[d].id # p
  /\ modal' = "create"
  /\ Finish(c, Queued("create", p, NoDocs))
  /\ UNCHANGED <<server, engine, signedIn, docs, items, queue, active, timer, personal, past>>

LeaveCreate ==
  /\ modal = "create" /\ modal' = "none"
  /\ UNCHANGED <<server, engine, cmd, signedIn, docs, items, queue, active, timer, personal, past, spent>>

\* lock waits for the pass that holds the mutex; the next unlock resumes from
\* the file with a new engine.  A command still queued finds the old engine
\* closed, and its answer changes nothing.  The documents stay in the model.
Lock ==
  /\ signedIn /\ MutexFree /\ Spend("key")
  /\ on' = FALSE /\ st' = Fresh /\ dek' = Zeros /\ pend' = Zeros
  /\ signedIn' = FALSE /\ modal' = "none"
  /\ cmd' = [c \in Slots |-> IF cmd[c].st = "queued" THEN Idle ELSE cmd[c]]
  /\ UNCHANGED <<server, file, docs, items, queue, active, timer, personal, past>>

Resume(c) ==
  /\ ~signedIn /\ ~on /\ file # NoFile /\ Free(c)
  /\ on' = TRUE /\ st' = file /\ signedIn' = TRUE
  /\ Finish(c, Queued("pass", None, docs))
  /\ UNCHANGED <<server, dek, pend, file, docs, items, queue, active, modal, timer, personal, past, spent>>

SignOut ==
  /\ signedIn /\ modal = "none" /\ MutexFree /\ Spend("key")
  /\ ForgetSession
  /\ UNCHANGED <<server, dek, pend, cmd, docs, items, queue, active, modal, timer, personal, past>>

PairAgain ==
  /\ ~signedIn /\ ~on /\ file = NoFile
  /\ on' = TRUE /\ st' = Fresh /\ file' = Fresh /\ signedIn' = TRUE
  /\ UNCHANGED <<server, dek, pend, cmd, docs, items, queue, active, modal, timer, personal, past, spent>>

-----------------------------------------------------------------------------
Members ==
  \E p \in Projects :
    \/ \E d \in Doc : OtherPush(p, d)
    \/ \E m \in Membership : OtherRotate(p, m) \/ OtherGrant(p, m)
Engine ==
  \E c \in Slots :
    \/ PassSignedOut(c) \/ ListProjects(c) \/ PassPut(c) \/ Refetch(c) \/ EndPass(c)
    \/ \E p \in Projects : VisitProject(c, p)
    \/ OpSignedOut(c) \/ OpFails(c) \/ PushProject(c) \/ ResolveEvaporated(c) \/ TakeRemote(c)
    \/ KeepLocal(c) \/ CreateProject(c) \/ RemoveMember(c) \/ RemoveReget(c) \/ RemoveRetry(c)
Handlers == \E c \in Slots : ProjectsSynced(c) \/ SessionOver(c) \/ ProjectOpDone(c) \/ ProjectCreated(c)
Keys ==
  \/ \E p \in Projects, d \in Doc : EditProject(p, d)
  \/ \E h \in Hosts : \E from, to \in Projects \cup {Personal} : MoveHost(h, from, to)
  \/ Crash \/ ChooseLocked \/ DecideLater \/ LeaveCreate \/ Lock \/ SignOut \/ PairAgain
  \/ \E c \in Slots :
       \/ PushTimerFires(c) \/ EnterProjectsTab(c) \/ Resume(c)
       \/ \E p \in Projects : SubmitCreate(c, p) \/ \E self \in BOOLEAN : ConfirmRemove(c, p, self)
       \/ \E keep \in BOOLEAN : ChooseSide(c, keep)

Next == Members \/ Engine \/ Handlers \/ Keys
Spec == Init /\ [][Next]_vars

-----------------------------------------------------------------------------
(* Properties *)

\* The values of every variable (Engine, Model and server state).  True of the run's
\* instance, though no run lists it.
TypeOK ==
  /\ hist \in [Projects -> Seq(Version)] /\ member \in [Projects -> Membership]
  /\ on \in BOOLEAN /\ st \in [Projects -> State]
  /\ dek \in [Projects -> Nat] /\ pend \in [Projects -> Nat]
  /\ file = NoFile \/ file \in [Projects -> State]
  /\ cmd \in [Slots -> Command]
  /\ signedIn \in BOOLEAN /\ docs \in [Projects -> Docs]
  /\ items \in [Projects -> {"none", "awaiting", "keyed"}]
  /\ queue \in Seq(Projects) /\ active \in Projects \cup {None}
  /\ modal \in {"none", "conflict", "create"}
  /\ timer \in Projects \cup {Personal, None}
  /\ personal \subseteq Hosts /\ moved \subseteq Hosts /\ gaveUp \in [Projects -> Docs]
  /\ spent \in [DOMAIN Limit -> Nat]

\* What the device believes it agreed on is a version the server has, with
\* that content: in memory and in the session file, whatever failed, was lost
\* or was retried (ProjectSyncState, LastSyncedVersion and -Fingerprint).
TrueOf(s) == \A p \in DOMAIN s :
  s[p].ver # 0 => s[p].ver \in 1..Newest(p) /\ s[p].fp = hist[p][s[p].ver].doc
ProjectAgreement == TrueOf(st) /\ TrueOf(file)

\* A rotation is never undone: no version is sealed under an older project key
\* than its predecessor, although pushes, resolutions and retries seal with
\* whatever DEK the engine holds (PutProjectVault, RotateProject).
KeysOnlyAdvance == \A p \in Projects : \A i \in 1..Newest(p) - 1 :
  hist[p][i].dek <= hist[p][i + 1].dek

\* The device never replaces a version it has neither agreed on nor reported
\* as a conflict, unless it writes the same document back (RemoveMember).
MyPush(p) == Len(hist'[p]) > Newest(p) /\ hist'[p][Newest(p) + 1].by = "me"
NoBlindPush == [][\A p \in Projects : MyPush(p) /\ Exists(p) =>
  \/ Newest(p) \in {st[p].ver, pend[p]}
  \/ hist'[p][Newest(p) + 1].doc = hist[p][Newest(p)].doc]_vars

\* handleProjectOp adopts the committed payload "so the next sync sees no
\* spurious local change (critical for resolve take-remote)": the document
\* given up for the remote one is not pushed without an edit.
TakenRemoteStays == [][\A p \in Projects :
  MyPush(p) /\ gaveUp[p] # NoDoc /\ hist[p][Newest(p)].doc # gaveUp[p]
    => hist'[p][Newest(p) + 1].doc # gaveUp[p]]_vars

\* lock "wipes the in-memory data, and returns to the unlock screen": no conflict
\* is on the screen, or in a key's reach, while the vault is locked.
LockedScreenIsBare == ~Unlocked => modal = "none"

\* README: "the host must never be in flight between them": a moved host is in
\* the personal vault, in a document, in a payload on its way, or was uploaded.
MovedHostSurvives == \A h \in moved :
  \/ h \in personal
  \/ \E p \in Projects : \/ h \in Holds(p)
                          \/ \E i \in 1..Newest(p) : h \in hist[p][i].doc
                          \/ \E c \in Slots : cmd[c].local[p] # NoDoc /\ h \in cmd[c].local[p]
=============================================================================
