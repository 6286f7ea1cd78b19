------------------------------ MODULE HostBook ------------------------------
(***************************************************************************)
(* The hosts and keys a user works on: the documents (store/store.go,        *)
(* merge.go, project.go) and the tabs that edit them (ui/update_forms.go,    *)
(* update_move.go, update_picker.go, hosts_merged.go, keys_merged.go).       *)
(*                                                                         *)
(* A modal remembers what it was opened on.  While it is open, or a command  *)
(* of the user runs, a pass may put another document in place: passes are    *)
(* VaultSync's and ProjectSync's, and here each is one step.  A host is its  *)
(* ID, its name, whether address and port are valid, the vault key it is     *)
(* bound to, its origin and whether it has a saved password.  The cursor is  *)
(* free, so a key that acts on the selected row acts on any row.             *)
(***************************************************************************)
EXTENDS Integers, Sequences, FiniteSets

CONSTANTS
    Names,        \* names of hosts
    KeyNames,     \* names of vault keys
    Projects,     \* projects of the account
    MaxIds,       \* bound: IDs in use at a time
    MaxEvents     \* bound: arrivals, the sign-in, imports, key commands, sessions

ASSUME BookAssumption ==
    {MaxIds, MaxEvents} \subseteq Nat /\ "me" \notin Projects

VARIABLES
    me,        \* the personal document: [hosts, keys]
    proj,      \* proj[p]: [hosts, here, listed] (projectDocs, realProjects)
    modal,     \* the open modal and what it was opened on
    kgSync,    \* the keygen form's "also sync to the vault"
    jobs,      \* commands whose message is still to come
    sessions,  \* live sessions, oldest first: [id, host]
    account,   \* the vault is an account's: passes arrive
    spent,     \* events so far
    pressed,   \* history: the session the last x was pressed on, if it did not kill
    killed     \* history: live sessions the user closed

docs == <<me, proj>>
live == <<sessions, killed, account>>
vars == <<me, proj, modal, kgSync, jobs, sessions, account, spent, pressed, killed>>

None == "none"
NoId == 0
Elsewhere == MaxIds + 1   \* the ID of a key no document here holds
Docs == {"me"} \cup Projects
NoModal == [kind |-> "none"]
Modal(kind, doc, id, key) ==
    [kind |-> kind, doc |-> doc, to |-> doc, id |-> id, key |-> key]

Event == spent < MaxEvents /\ spent' = spent + 1

HostsOf(d) == IF d = "me" THEN me.hosts ELSE proj[d].hosts
Here(d) == d = "me" \/ proj[d].here
With(d, hs) ==
    IF d = "me" THEN me' = [me EXCEPT !.hosts = hs] /\ UNCHANGED proj
    ELSE proj' = [proj EXCEPT ![d].hosts = hs] /\ UNCHANGED me

\* writableProjects and mergedHosts: the rows and the targets the user sees.
Writable == {p \in Projects : proj[p].listed}
Visible  == {"me"} \cup {p \in Writable : proj[p].here}

---------------------------------------------------------------------------
(* The store *)

Host(id, name, ok, key, src) ==
    [id |-> id, name |-> name, ok |-> ok, key |-> key, src |-> src]
Ids(xs) == {x.id : x \in xs}

\* validateHostIn
Valid(hs, h, exclude) == h.ok /\ \A o \in hs : o.id = exclude \/ o.name # h.name

\* newID: 64 random bits, an ID in use nowhere.
Remembered == {modal[f] : f \in (DOMAIN modal) \cap {"id", "key", "host"}}
Used ==
    Ids(me.hosts) \cup Ids(me.keys) \cup {h.key : h \in me.hosts} \cup Remembered
    \cup {sessions[i].host : i \in DOMAIN sessions}
    \cup UNION {Ids(proj[p].hosts) \cup {h.key : h \in proj[p].hosts} : p \in Projects}
Unused == {i \in 1..MaxIds : {i, -i} \cap Used = {}}
Room(n) == Cardinality(Unused) >= n
New == CHOOSE i \in Unused : \A j \in Unused : i <= j
Another == CHOOSE i \in Unused \ {New} : \A j \in Unused \ {New} : i <= j

Update(hs, h) == {IF o.id = h.id THEN h ELSE o : o \in hs}
Delete(hs, id) == {h \in hs : h.id # id}

\* indexByNameIn.  Mutant: names are compared with their case.
NeverNamed(hs, name) == {}
Named(hs, name) == {h \in hs : h.name = name}

\* RemoveKey.  Mutant: the hosts keep their binding.
KeyForgotten(d, id) == [d EXCEPT !.keys = Delete(@, id)]
RemoveKey(d, id) ==
    [hosts |-> {IF h.key = id THEN [h EXCEPT !.key = NoId] ELSE h : h \in d.hosts},
     keys  |-> Delete(d.keys, id)]

AddKey(d, name, id) ==
    IF Named(d.keys, name) # {} THEN d
    ELSE [d EXCEPT !.keys = @ \cup {[id |-> id, name |-> name]}]

\* upsertImported: what a host that was imported before keeps.
Kept(h, in) == [in EXCEPT !.id = h.id, !.key = IF @ = NoId THEN h.key ELSE @]
Upsert(hs, in, id) ==
    LET same == Named(hs, in.name) IN
    IF same = {} THEN hs \cup {[in EXCEPT !.id = id]}
    ELSE {IF h \in same /\ h.src # "manual" THEN Kept(h, in) ELSE h : h \in hs}

\* Merge: base wins; what has a free name is carried over, under a new ID if its
\* own is taken.  One merge happens in a run, and no document that takes part in it
\* holds an ID with its negative, so that -id is new where id is taken.  Mutant: a
\* binding that names a key of the result is taken as it is.
Renumbered(id, xs) == IF id \in Ids(xs) THEN -id ELSE id
MergedKeyId(base, k) ==
    IF Named(base.keys, k.name) # {} THEN (CHOOSE b \in Named(base.keys, k.name) : TRUE).id
    ELSE Renumbered(k.id, base.keys)
ReboundById(base, local, key, ks) == IF key \in Ids(ks) THEN key ELSE NoId
Rebound(base, local, key, ks) ==
    IF key \in Ids(local.keys) THEN MergedKeyId(base, CHOOSE k \in local.keys : k.id = key)
    ELSE IF key \in Ids(ks) THEN key ELSE NoId
Merge(base, local) ==
    LET newKeys  == {k \in local.keys : Named(base.keys, k.name) = {}}
        newHosts == {h \in local.hosts : Named(base.hosts, h.name) = {}}
        ks == base.keys \cup {[k EXCEPT !.id = MergedKeyId(base, k)] : k \in newKeys}
    IN  [keys  |-> ks,
         hosts |-> base.hosts \cup
                   {[h EXCEPT !.id = Renumbered(@, base.hosts),
                              !.key = Rebound(base, local, @, ks)] : h \in newHosts}]

---------------------------------------------------------------------------
(* What arrives from elsewhere *)

\* A document after one change of another device or member.  A host of the vault may
\* arrive bound to a key the vault does not hold (store.go:51-53).
FreeNames(hs) == {n \in Names : Named(hs, n) = {}}
Renamed(hs, h, n) == Update(hs, [h EXCEPT !.name = n])
Gained(hs, n, k)  == hs \cup {Host(New, n, TRUE, k, "manual")}
ChangedHosts(hs, ks) ==
    {Delete(hs, h.id) : h \in hs}
    \cup {Renamed(hs, h, n) : h \in hs, n \in FreeNames(hs)}
    \cup {Gained(hs, n, k) : n \in FreeNames(hs), k \in ks}
Changed(d) ==
    {[d EXCEPT !.hosts = hs] : hs \in ChangedHosts(d.hosts, Ids(d.keys) \cup {NoId, Elsewhere})} \cup
    {RemoveKey(d, k.id) : k \in d.keys} \cup
    {AddKey(d, n, New) : n \in KeyNames}

AdoptRemote ==
    /\ account /\ Event /\ Room(1)
    /\ me' \in Changed(me)
    /\ UNCHANGED <<proj, modal, kgSync, jobs, live, pressed>>

\* handleProjectsSynced: a new payload, no key for it, a project that is gone, and
\* a list that could not be had.  A member's keys are in no vault but their own.
ProjectsSynced(p) ==
    /\ account /\ Event /\ Room(2)
    /\ \/ \E hs \in ChangedHosts(proj[p].hosts, {NoId, Another}) :
             proj' = [proj EXCEPT ![p] = [hosts |-> hs, here |-> TRUE, listed |-> TRUE]]
       \/ proj' = [proj EXCEPT ![p].listed = FALSE]
       \/ proj' = [proj EXCEPT ![p] = [hosts |-> {}, here |-> FALSE, listed |-> FALSE]]
    /\ UNCHANGED <<me, modal, kgSync, jobs, live, pressed>>

\* The document of the account a vault joins: an earlier state of it has been here, or
\* none has.  What was entered on both sides has an ID of its own on each, and there
\* a host is bound to the key as it is known there.
Reissued(d, S) ==
    [hosts |-> {[h EXCEPT !.id  = IF @ \in S THEN -@ ELSE @,
                          !.key = IF @ \in S \cap Ids(d.keys) THEN -@ ELSE @] : h \in d.hosts},
     keys  |-> {[k EXCEPT !.id = IF @ \in S THEN -@ ELSE @] : k \in d.keys}]
EmptyDoc == [hosts |-> {}, keys |-> {}]
AccountDocs ==
    UNION {{Reissued(d, S) : S \in SUBSET (Ids(d.hosts) \cup Ids(d.keys))} :
              d \in Changed(me) \cup Changed(EmptyDoc)}

\* installAccountVaultCmd: the account's document, and what this machine had.
SignIn ==
    /\ modal = NoModal /\ Event /\ Room(1) /\ ~account /\ account' = TRUE
    /\ \E theirs \in AccountDocs : me' = Merge(theirs, me)
    /\ UNCHANGED <<proj, modal, kgSync, jobs, sessions, killed, pressed>>

---------------------------------------------------------------------------
(* The hosts tab *)

Opens(m) ==
    /\ modal = NoModal /\ modal' = m
    /\ UNCHANGED <<docs, kgSync, jobs, live, spent, pressed>>

\* What every modal's escape does.
Closes ==
    /\ modal' = NoModal
    /\ UNCHANGED <<docs, kgSync, jobs, live, spent, pressed>>
Esc == modal.kind \in {"form", "delete", "move", "unsync", "source", "summary", "error", "keygen"}
       /\ Closes

OpenForm ==
    \/ Opens(Modal("form", "me", NoId, NoId))
    \/ \E d \in Visible : \E h \in HostsOf(d) :
          Opens(Modal("form", d, h.id, h.key))

OpenDelete == \E d \in Visible : \E h \in HostsOf(d) :
    Opens(Modal("delete", d, h.id, NoId))

OpenMove == \E d \in Visible : \E h \in HostsOf(d) :
    Writable # {} /\ Opens(Modal("move", d, h.id, NoId))

\* boundKeyID: a selection that names no key of the vault is none.
BoundKeyId(key) == IF key \in Ids(me.keys) THEN key ELSE NoId

\* The key the form holds: the one it was opened with, or one picked since.
FormKeys == {BoundKeyId(modal.key)} \cup
            IF me.keys = {} THEN {} ELSE {NoId} \cup Ids(me.keys)

\* cycleProject: the form keeps the project that was chosen, listed or not by the time
\* it is saved; while none is writable the choice is hidden, and not read.
CycleProject ==
    /\ modal.kind = "form" /\ Writable # {}
    /\ \E d \in {"me"} \cup Writable : modal' = [modal EXCEPT !.to = d]
    /\ UNCHANGED <<docs, kgSync, jobs, live, spent, pressed>>
Targets == IF Writable = {} THEN {modal.doc} ELSE {modal.to}

\* A write that worked closes the modal; one that did not says why.
Writes(d, hs) == With(d, hs) /\ modal' = NoModal
Refused == UNCHANGED <<docs, modal>>

SubmitAdd(d, h) ==
    /\ modal.id = NoId
    /\ IF Here(d) /\ Valid(HostsOf(d), h, NoId)
       THEN Room(1) /\ Writes(d, HostsOf(d) \cup {[h EXCEPT !.id = New]})
       ELSE Refused

\* updateHostInPlace: in a project a host's origin is the form's.
SubmitUpdate(d, h) ==
    /\ modal.id # NoId /\ d = modal.doc
    /\ LET was == {o \in HostsOf(d) : o.id = modal.id}
           src == IF d = "me" /\ was # {} THEN (CHOOSE o \in was : TRUE).src ELSE "manual"
           new == [h EXCEPT !.id = modal.id, !.src = src]
       IN  IF Here(d) /\ was # {} /\ Valid(HostsOf(d), new, modal.id)
           THEN Writes(d, Update(HostsOf(d), new)) ELSE Refused
   

\* destinationAccepts: the name is free there.  Mutant: whatever it holds.
AcceptsAll(d, h) == Here(d)
Accepts(d, h) == Here(d) /\ Named(HostsOf(d), h.name) = {}

\* moveHostTo: removed from the source, then added to the destination, which may
\* refuse it after all.
MovesHost(source, target, h) ==
    IF ~Accepts(target, h) \/ ~Here(source) \/ h.id \notin Ids(HostsOf(source))
    THEN Refused
    ELSE Room(1) /\
         LET left == [x \in {source} |-> Delete(HostsOf(source), h.id)]
             took == Valid(HostsOf(target), h, NoId)
             new  == HostsOf(target) \cup (IF took THEN {[h EXCEPT !.id = New]} ELSE {})
             hs(d) == IF d = source THEN left[d] ELSE IF d = target THEN new ELSE HostsOf(d)
         IN  /\ me' = [me EXCEPT !.hosts = hs("me")]
             /\ proj' = [p \in Projects |-> [proj[p] EXCEPT !.hosts = hs(p)]]
             /\ modal' = IF took THEN NoModal ELSE modal

SubmitMove(d, h) ==
    /\ modal.id # NoId /\ d # modal.doc
    /\ LET was == {o \in HostsOf(modal.doc) : o.id = modal.id}
           src == IF modal.doc = "me" /\ was # {} THEN (CHOOSE o \in was : TRUE).src ELSE "manual"
       IN  MovesHost(modal.doc, d, [h EXCEPT !.id = modal.id, !.src = src])

Typed == {Host(NoId, n, ok, k, "manual") :
            n \in Names, ok \in BOOLEAN, k \in FormKeys}

SubmitHostForm ==
    /\ modal.kind = "form"
    /\ \E d \in Targets : \E h \in Typed : SubmitAdd(d, h) \/ SubmitUpdate(d, h) \/ SubmitMove(d, h)
    /\ UNCHANGED <<kgSync, jobs, live, spent, pressed>>

\* Mutant: the confirmation deletes the row the cursor is on by now.
RowNow(d, id) == IF HostsOf(d) = {} THEN id ELSE (CHOOSE h \in HostsOf(d) : TRUE).id
Captured(d, id) == id

DeleteConfirm ==
    /\ modal.kind = "delete"
    /\ With(modal.doc, Delete(HostsOf(modal.doc), Captured(modal.doc, modal.id)))
    /\ modal' = NoModal
    /\ UNCHANGED <<kgSync, jobs, live, spent, pressed>>

\* moveProjectKey: the host is read again, and the modal closes if it is gone.
MoveConfirm ==
    /\ modal.kind = "move"
    /\ \E d \in {"me"} \cup Writable :
         LET was == {h \in HostsOf(modal.doc) : Here(modal.doc) /\ h.id = modal.id} IN
         IF d = modal.doc \/ was = {} THEN modal' = NoModal /\ UNCHANGED docs
         ELSE MovesHost(modal.doc, d, CHOOSE h \in was : TRUE)
    /\ UNCHANGED <<kgSync, jobs, live, spent, pressed>>

---------------------------------------------------------------------------
(* Imports *)

Job(kind, name) == [kind |-> kind, name |-> name]
Starts(job) == Event /\ jobs' = jobs \cup {job}
Ends(job) == job \in jobs /\ jobs' = jobs \ {job}

OpenImportSource == Opens([kind |-> "source"])

\* importSourceKey: ssh_config or a Termius profile.
ChooseSource ==
    /\ modal.kind = "source" /\ modal' = NoModal
    /\ \E from \in {"ssh_config", "termius"} : Starts(Job(from, None))
    /\ UNCHANGED <<docs, kgSync, live, pressed>>

\* What an import brings: a host, and of Termius the name of its key as well, with
\* or without that key.  Ports are taken as they are written.
Incoming(from) ==
    {[host |-> Host(NoId, n, ok, NoId, "imported"), key |-> k, brings |-> b] :
        n \in Names, ok \in BOOLEAN, b \in {FALSE, from = "termius"},
        k \in {None} \cup (IF from = "termius" THEN KeyNames ELSE {})}

\* handleImportDone opens its modal over whatever is open.
ImportDone ==
    /\ \E from \in {"ssh_config", "termius"} :
          /\ Ends(Job(from, None))
          /\ \/ \E in \in Incoming(from) : modal' = [kind |-> "summary", in |-> in]
             \/ from = "ssh_config" /\ UNCHANGED modal
             \/ from = "termius" /\ modal' = [kind |-> "error"]
    /\ UNCHANGED <<docs, kgSync, live, spent, pressed>>

\* importSummaryKey: keys first, so that the hosts can be bound to them.
ImportConfirm ==
    /\ modal.kind = "summary" /\ modal' = NoModal /\ Room(2)
    /\ LET in    == modal.in
           keyed == IF in.key # None /\ in.brings THEN AddKey(me, in.key, New) ELSE me
           bound == Named(keyed.keys, in.key)
           key   == IF bound = {} THEN NoId ELSE (CHOOSE k \in bound : TRUE).id
       IN  me' = [keyed EXCEPT !.hosts = Upsert(@, [in.host EXCEPT !.key = key], Another)]
    /\ UNCHANGED <<proj, kgSync, jobs, live, spent, pressed>>

---------------------------------------------------------------------------
(* The keys tab *)

SyncSelectedKey ==
    /\ modal = NoModal
    /\ \E n \in KeyNames : Named(me.keys, n) = {} /\ Starts(Job("sync", n))
    /\ UNCHANGED <<docs, modal, kgSync, live, pressed>>

\* A key that went into the vault meanwhile is refused.
KeySynced ==
    /\ \E n \in KeyNames : Ends(Job("sync", n)) /\ Room(1) /\ me' = AddKey(me, n, New)
    /\ UNCHANGED <<proj, modal, kgSync, live, spent, pressed>>

OpenUnsync == \E k \in me.keys : Opens(Modal("unsync", "keys", k.id, NoId))

UnsyncConfirm ==
    /\ modal.kind = "unsync" /\ modal' = NoModal
    /\ me' = IF modal.id \in Ids(me.keys) THEN RemoveKey(me, modal.id) ELSE me
    /\ UNCHANGED <<proj, kgSync, jobs, live, spent, pressed>>

OpenKeygen ==
    /\ modal = NoModal /\ modal' = [kind |-> "keygen"] /\ kgSync' = FALSE
    /\ UNCHANGED <<docs, jobs, live, spent, pressed>>

KeygenKey ==
    /\ modal.kind = "keygen"
    /\ \/ kgSync' = ~kgSync /\ UNCHANGED <<jobs, spent>>
       \/ \E n \in KeyNames : Starts(Job("generate", n)) /\ UNCHANGED kgSync
    /\ UNCHANGED <<docs, modal, live, pressed>>

\* handleKeyGenerated closes, or opens its form over, whatever is open; the toggle
\* it reads is the one of the form that was opened last.
KeyGenerated ==
    /\ \E n \in KeyNames :
         /\ Job("generate", n) \in jobs
         /\ LET rest == jobs \ {Job("generate", n)} IN
            \/ /\ modal' = [kind |-> "keygen"] /\ jobs' = rest /\ UNCHANGED kgSync
            \/ /\ modal' = NoModal /\ kgSync' = FALSE
               /\ jobs' = IF kgSync THEN rest \cup {Job("sync", n)} ELSE rest
    /\ UNCHANGED <<docs, live, spent, pressed>>

---------------------------------------------------------------------------
(* Connecting and the session picker *)

ForHost(host) ==
    IF host = NoId THEN sessions ELSE SelectSeq(sessions, LAMBDA s : s.host = host)

Picker(host) == [kind |-> "picker", host |-> host, idx |-> 1, kill |-> NoId]
Dialing(host) == [kind |-> "connecting", host |-> host]

\* startConnect
Connect ==
    /\ modal = NoModal
    /\ \E d \in Visible : \E h \in HostsOf(d) :
         modal' = IF ForHost(h.id) = <<>> THEN Dialing(h.id) ELSE Picker(h.id)
    /\ pressed' = NoId
    /\ UNCHANGED <<docs, kgSync, jobs, live, spent>>

OpenAllSessions ==
    /\ modal = NoModal /\ sessions # <<>> /\ modal' = Picker(NoId) /\ pressed' = NoId
    /\ UNCHANGED <<docs, kgSync, jobs, live, spent>>

\* The dial is SshDial's; a session starts, or not.
DialDone ==
    /\ modal.kind = "connecting" /\ modal' = NoModal
    /\ \/ /\ Event
          /\ sessions' = Append(sessions, [id |-> spent', host |-> modal.host])
       \/ UNCHANGED <<sessions, spent>>
    /\ UNCHANGED <<docs, kgSync, jobs, account, pressed, killed>>

SessionEnds ==
    /\ \E i \in 1..Len(sessions) :
         /\ sessions' = SubSeq(sessions, 1, i - 1) \o SubSeq(sessions, i + 1, Len(sessions))
         /\ killed' = killed \ {sessions[i].id}
    /\ UNCHANGED <<docs, modal, kgSync, jobs, account, spent, pressed>>

Listed == ForHost(modal.host)
Rows == Len(Listed) + (IF modal.host = NoId THEN 0 ELSE 1)
PickerKey == modal.kind = "picker" /\ UNCHANGED <<docs, kgSync, jobs, sessions, account, spent>>
Leaves == modal' = IF modal.host = NoId THEN NoModal ELSE Dialing(modal.host)

\* Every session died while the picker was open: any key, esc too, dials or closes.
PickerEmpty ==
    /\ PickerKey /\ Listed = <<>> /\ Leaves
    /\ pressed' = NoId /\ UNCHANGED killed

PickerEsc ==
    /\ PickerKey /\ Listed # <<>> /\ modal' = NoModal
    /\ pressed' = NoId /\ UNCHANGED killed

\* Arrows and digits.
PickerMove ==
    /\ PickerKey /\ Listed # <<>>
    /\ \E i \in 1..Rows : modal' = [modal EXCEPT !.idx = i, !.kill = NoId]
    /\ pressed' = NoId /\ UNCHANGED killed

\* A session is attached, the new row or n dials.
PickerEnter ==
    /\ PickerKey /\ Listed # <<>>
    /\ \/ modal.idx <= Len(Listed) /\ modal' = NoModal
       \/ modal.host # NoId /\ modal' = Dialing(modal.host)
    /\ pressed' = NoId /\ UNCHANGED killed

\* The first x arms the session; the second closes it.  Mutant: it arms the row.
MarkRow(i) == i
Mark(i) == Listed[i].id

PickerX ==
    /\ PickerKey /\ modal.idx <= Len(Listed)
    /\ IF modal.kill # Mark(modal.idx)
       THEN /\ modal' = [modal EXCEPT !.kill = Mark(modal.idx)]
            /\ pressed' = Listed[modal.idx].id /\ UNCHANGED killed
       ELSE /\ killed' = killed \cup {Listed[modal.idx].id} /\ pressed' = NoId
            /\ modal' = IF Len(Listed) <= 1 /\ modal.host = NoId THEN NoModal
                        ELSE [modal EXCEPT !.kill = NoId,
                                           !.idx = IF @ < Len(Listed) THEN @
                                                   ELSE IF Len(Listed) > 1 THEN Len(Listed) - 1 ELSE 1]

---------------------------------------------------------------------------

\* A vault that was an account's may hold a host whose key went with another document.
Stray(n) == [EmptyDoc EXCEPT !.hosts = {Host(1, n, TRUE, Elsewhere, "manual")}]

Init ==
    /\ account \in BOOLEAN
    /\ me \in {EmptyDoc} \cup {Stray(n) : n \in Names}
    /\ proj = [p \in Projects |-> [hosts |-> {}, here |-> account, listed |-> account]]
    /\ modal = NoModal /\ kgSync = FALSE /\ jobs = {}
    /\ sessions = <<>> 
    /\ spent = 0
    /\ pressed = NoId /\ killed = {}

Arrives == AdoptRemote \/ (\E p \in Projects : ProjectsSynced(p)) \/ SignIn
HostKeys ==
    \/ OpenForm \/ OpenDelete \/ OpenMove \/ Esc \/ CycleProject
    \/ SubmitHostForm \/ DeleteConfirm \/ MoveConfirm
Imports == OpenImportSource \/ ChooseSource \/ ImportDone \/ ImportConfirm
KeyKeys ==
    \/ SyncSelectedKey \/ KeySynced \/ OpenUnsync \/ UnsyncConfirm
    \/ OpenKeygen \/ KeygenKey \/ KeyGenerated
Sessions ==
    \/ Connect \/ OpenAllSessions \/ DialDone \/ SessionEnds
    \/ PickerEmpty \/ PickerEsc \/ PickerMove \/ PickerEnter \/ PickerX

Next == Arrives \/ HostKeys \/ Imports \/ KeyKeys \/ Sessions
Spec == Init /\ [][Next]_vars

---------------------------------------------------------------------------
(* Properties *)

\* Names are what the user and the imports know a host by: no sequence of forms,
\* imports, moves, arrivals and merges leaves two hosts, or keys, of one document
\* with the same (validateHostIn, upsertImported, Merge).
Unique(xs) == \A x, y \in xs : x.name = y.name => x = y
NamesAreUnique ==
    Unique(me.hosts) /\ Unique(me.keys) /\ \A p \in Projects : Unique(proj[p].hosts)

\* RemoveKey, boundKeyID, bindImportedHosts and Merge leave no host of the vault bound
\* to a key the vault does not hold.  Such a binding comes in one of two ways: as it
\* arrives, of a key that was never here, and by the picker, from a project.
Stale == {h.key : h \in me.hosts} \ ({NoId} \cup Ids(me.keys))
Arriving == IF spent' # spent THEN {Elsewhere} ELSE {}
FromProject == modal.kind = "move" /\ modal.doc # "me" /\ modal' = NoModal
BindingsResolve == [][Stale' \subseteq Stale \cup Arriving \/ FromProject]_vars

\* merge.go:20-38: what the account has is as it was, and each host of this machine
\* whose name is free is in the result bound to the key of the name it was bound to,
\* whichever side's that is and whatever IDs the two sides gave their keys.
BoundTo(d, h) == {k.name : k \in {x \in d.keys : x.id = h.key}}
Carried(m, h) ==
    \E c \in Named(m.hosts, h.name) :
        /\ h.key = NoId => c.key = NoId
        /\ BoundTo(me, h) # {} => BoundTo(m, c) = BoundTo(me, h)
KeepsBoth(theirs, m) ==
    /\ theirs.hosts \subseteq m.hosts /\ theirs.keys \subseteq m.keys
    /\ \A h \in me.hosts : Named(theirs.hosts, h.name) = {} => Carried(m, h)
MergeKeepsBoth ==
    ~account /\ Room(1) => \A theirs \in AccountDocs : KeepsBoth(theirs, Merge(theirs, me))

\* Whatever arrived since it was opened, a confirmation takes away or renames the
\* host, and the key, it was opened on, or none (delID, formEditID, mvHostID).
Lost(d) == {<<d, h.id>> : h \in {x \in HostsOf(d) :
               \A y \in (IF d = "me" THEN me'.hosts ELSE proj'[d].hosts) :
                   y.id # x.id \/ y.name # x.name}}
LostKeys == {<<"keys", k.id>> : k \in {x \in me.keys : x \notin me'.keys}}
Shown == IF modal.kind \in {"form", "delete", "move", "unsync"} THEN {<<modal.doc, modal.id>>} ELSE {}
ActsOnShown ==
    [][modal' # modal => (UNION {Lost(d) : d \in Docs}) \cup LostKeys \subseteq Shown]_vars

\* README: "the host must never be in flight between them".  A move of a host that is
\* valid neither loses nor doubles it (moveHostTo, destinationAccepts).
Count == Cardinality(me.hosts) + Cardinality(UNION {{p} \X proj[p].hosts : p \in Projects})
ValidMove ==
    \/ MoveConfirm /\ \A h \in HostsOf(modal.doc) : h.id = modal.id => h.ok
    \/ modal.kind = "form" /\ \E d \in Targets : \E h \in Typed : h.ok /\ SubmitMove(d, h)
MoveKeepsHost == [][docs' # docs /\ ValidMove => Count' = Count]_vars

\* moveHostTo: "the add is validated against the destination *first*".  Only the name
\* is: a host whose address or port the destination refuses is lost.  (No run: it
\* does not hold.)
AnyMove ==
    \/ MoveConfirm
    \/ modal.kind = "form" /\ \E d \in Targets : \E h \in Typed : SubmitMove(d, h)
EveryMoveKeepsHost == [][docs' # docs /\ spent' = spent /\ AnyMove => Count' = Count]_vars

\* "Two presses to kill": a session is closed by a second x on that same session, the
\* cursor not having moved, whatever ended under it meanwhile.
KillsTheArmed == [][killed' \subseteq killed \cup {pressed}]_vars
=============================================================================
