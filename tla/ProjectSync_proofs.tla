------------------------- MODULE ProjectSync_proofs -------------------------
(***************************************************************************)
(* Proofs about ProjectSync: what the device believes it agreed on is      *)
(* always a version the server has, no write seals a document under an     *)
(* older project key, and no write replaces a version that the device has  *)
(* neither agreed on nor reported as a conflict.  The last part is about   *)
(* ProjectIdentity, the key pair those project keys are sealed to.         *)
(***************************************************************************)
EXTENDS ProjectSync, SequenceTheorems, FiniteSetTheorems, TLAPS

-----------------------------------------------------------------------------
(* Histories of one project *)

Ordered(h) == \A i, j \in 1..Len(h) : i <= j => h[i].dek <= h[j].dek
Extends(g, h) == Len(h) <= Len(g) /\ \A i \in 1..Len(h) : g[i] = h[i]

\* What a device holds of a project whose history is h: the state s it agreed on,
\* the project key e, and the version n of a conflict.  The key opens both versions.
Sound(s, e, n, h) ==
  /\ s \in State /\ e \in Nat /\ n \in 0..Len(h)
  /\ s.ver # 0 => s.ver \in 1..Len(h) /\ s.fp = h[s.ver].doc
  /\ e # 0 /\ s.ver # 0 => h[s.ver].dek <= e
  /\ e # 0 /\ n # 0 => h[n].dek <= e

LEMMA VersionAt ==
  ASSUME NEW h \in Seq(Version), NEW i \in 1..Len(h)
  PROVE  h[i] \in Version /\ h[i].doc \in Doc /\ h[i].dek \in Nat
<1>1. h[i] \in Version
  BY ElementOfSeq
<1> QED BY <1>1 DEF Version

\* A version behind a history under a key that is not older keeps it ordered.
LEMMA AppendVersion ==
  ASSUME NEW h \in Seq(Version), Ordered(h), NEW v \in Version,
         h # <<>> => h[Len(h)].dek <= v.dek
  PROVE  /\ Append(h, v) \in Seq(Version) /\ Append(h, v) # <<>> /\ Ordered(Append(h, v))
         /\ Extends(Append(h, v), h)
         /\ Len(Append(h, v)) = Len(h) + 1 /\ Append(h, v)[Len(h) + 1] = v
<1>1. PICK n \in Nat : n = Len(h)
  BY LenProperties
<1>2. PICK g \in Seq(Version) :
        /\ g = Append(h, v) /\ Len(g) = n + 1 /\ g[n + 1] = v
        /\ \A i \in 1..n : g[i] = h[i]
  <2>1. Append(h, v) \in Seq(Version) /\ Len(Append(h, v)) = n + 1
        /\ Append(h, v)[n + 1] = v /\ \A i \in 1..n : Append(h, v)[i] = h[i]
    BY <1>1, AppendProperties
  <2> QED BY <2>1
<1>3. Ordered(g)
  <2> SUFFICES ASSUME NEW i \in 1..(n + 1), NEW j \in 1..(n + 1), i <= j
               PROVE  g[i].dek <= g[j].dek
    BY <1>2 DEF Ordered
  <2>1. v.dek \in Nat /\ \A k \in 1..n : h[k].dek \in Nat
    BY <1>1, VersionAt DEF Version
  <2>2. CASE j <= n
    BY <2>2, <1>1, <1>2 DEF Ordered
  <2>3. CASE j = n + 1 /\ i = n + 1
    BY <2>1, <2>3, <1>2
  <2>4. CASE j = n + 1 /\ i <= n
    <3>1. h # <<>> /\ i \in 1..n /\ n \in 1..n
      BY <2>4, <1>1, EmptySeq
    <3>2. h[i].dek <= h[n].dek
      BY <3>1, <1>1 DEF Ordered
    <3>3. h[n].dek <= v.dek
      BY <3>1, <1>1
    <3>4. h[i].dek <= v.dek
      BY <3>1, <3>2, <3>3, <2>1
    <3>5. g[i] = h[i] /\ g[j] = v
      BY <3>1, <2>4, <1>2
    <3> QED BY <3>4, <3>5
  <2> QED BY <2>2, <2>3, <2>4
<1>4. g # <<>>
  BY <1>1, <1>2, EmptySeq
<1> QED BY <1>1, <1>2, <1>3, <1>4 DEF Extends

LEMMA SoundGrows ==
  ASSUME NEW s, NEW e, NEW n, NEW h \in Seq(Version), NEW g \in Seq(Version),
         Sound(s, e, n, h), Extends(g, h)
  PROVE  Sound(s, e, n, g)
<1>1. Len(h) \in Nat /\ Len(g) \in Nat /\ Len(h) <= Len(g)
  BY LenProperties DEF Extends
<1>2. s.ver # 0 => s.ver \in 1..Len(g) /\ g[s.ver] = h[s.ver]
  BY <1>1 DEF Sound, Extends
<1>3. n # 0 => n \in 1..Len(h) /\ g[n] = h[n]
  BY <1>1 DEF Sound, Extends
<1> QED BY <1>1, <1>2, <1>3 DEF Sound

\* The device reads the newest version: its key opens every version, and the version
\* becomes what was agreed on, or the conflict, or neither (syncOneProject).
LEMMA SoundRead ==
  ASSUME NEW s, NEW e, NEW n, NEW h \in Seq(Version), Ordered(h), h # <<>>, Sound(s, e, n, h)
  PROVE  LET top == h[Len(h)] IN
         /\ Sound(s, top.dek, n, h)
         /\ Sound(Agreed(Len(h), top.doc), top.dek, n, h)
         /\ Sound([s EXCEPT !.in = TRUE], top.dek, Len(h), h)
<1>1. PICK l \in Nat : l = Len(h) /\ l \in 1..l
  BY LenProperties, EmptySeq
<1>2. h[l] \in Version /\ h[l].doc \in Doc /\ h[l].dek \in Nat
  BY <1>1, VersionAt
<1>3. \A i \in 1..l : h[i].dek <= h[l].dek
  BY <1>1 DEF Ordered
<1>4. h[l].dek <= h[l].dek
  BY <1>2
<1>5. s \in State /\ n \in 0..l /\ (n # 0 => n \in 1..l)
      /\ (s.ver # 0 => s.ver \in 1..l /\ s.fp = h[s.ver].doc)
  BY <1>1 DEF Sound
<1>6. Sound(s, h[l].dek, n, h)
  BY <1>1, <1>2, <1>3, <1>5 DEF Sound
<1>7. Sound(Agreed(l, h[l].doc), h[l].dek, n, h)
  <2>1. Agreed(l, h[l].doc) \in State /\ Agreed(l, h[l].doc).ver = l
        /\ Agreed(l, h[l].doc).fp = h[l].doc
    BY <1>1, <1>2 DEF Agreed, State, Docs
  <2> QED BY <2>1, <1>1, <1>2, <1>3, <1>4, <1>5 DEF Sound
<1>8. Sound([s EXCEPT !.in = TRUE], h[l].dek, l, h)
  <2>1. [s EXCEPT !.in = TRUE] \in State /\ [s EXCEPT !.in = TRUE].ver = s.ver
        /\ [s EXCEPT !.in = TRUE].fp = s.fp
    BY <1>5 DEF State
  <2> QED BY <2>1, <1>1, <1>2, <1>3, <1>4, <1>5 DEF Sound
<1> QED BY <1>1, <1>6, <1>7, <1>8

\* What the device may forget: the key, the conflict, all of it (dropProject, markAwaiting),
\* or only that it was not a member.
LEMMA SoundForgets ==
  ASSUME NEW s, NEW e, NEW n, NEW h \in Seq(Version), Sound(s, e, n, h)
  PROVE  /\ Sound([s EXCEPT !.in = TRUE], e, n, h) /\ Sound([s EXCEPT !.in = TRUE], 0, n, h)
         /\ Sound(s, e, 0, h) /\ Sound(s, 0, 0, h) /\ Sound(Unknown, 0, 0, h)
         /\ Sound(Unknown, e, n, h)
<1>1. Len(h) \in Nat
  BY LenProperties
<1>2. [s EXCEPT !.in = TRUE] \in State /\ [s EXCEPT !.in = TRUE].ver = s.ver
      /\ [s EXCEPT !.in = TRUE].fp = s.fp
  BY DEF Sound, State
<1>3. Unknown \in State /\ Unknown.ver = 0
  BY DEF Unknown, State, Docs
<1> QED BY <1>1, <1>2, <1>3 DEF Sound

\* The remote side of a conflict is taken (ResolveProject).
LEMMA SoundTake ==
  ASSUME NEW s, NEW e, NEW n, NEW h \in Seq(Version), Sound(s, e, n, h), n # 0
  PROVE  n \in 1..Len(h) /\ Sound(Agreed(n, h[n].doc), e, 0, h)
<1>1. Len(h) \in Nat /\ n \in 1..Len(h)
  BY LenProperties DEF Sound
<1>2. h[n].doc \in Doc
  BY <1>1, VersionAt
<1>3. Agreed(n, h[n].doc) \in State /\ Agreed(n, h[n].doc).ver = n
      /\ Agreed(n, h[n].doc).fp = h[n].doc
  BY <1>1, <1>2 DEF Agreed, State, Docs
<1> QED BY <1>1, <1>3 DEF Sound

-----------------------------------------------------------------------------
(* The invariant *)

\* What every variable that the properties rest on may hold.  The UI's queue is left
\* out: SelectSeq is recursive.
Typed ==
  /\ hist \in [Projects -> Seq(Version)] /\ member \in [Projects -> Membership]
  /\ on \in BOOLEAN /\ st \in [Projects -> State]
  /\ dek \in [Projects -> Nat] /\ pend \in [Projects -> Nat]
  /\ file = NoFile \/ file \in [Projects -> State]
  /\ cmd \in [Slots -> Command]
  /\ docs \in [Projects -> Docs] /\ timer \in Projects \cup {Personal, None}

\* What a command is about: its project, and a document to write.
Shape(k) ==
  /\ k.kind \in {"push", "keep", "take", "rotate", "create"} => k.id \in Projects
  /\ k.st \in {"queued", "reget"} /\ k.kind \in {"push", "rotate"} => k.local[k.id] \in Doc
  /\ k.st \in {"put", "refetch"} => k.kind = "pass" /\ k.id \in Projects /\ k.local[k.id] \in Doc
  /\ k.st = "list" => k.kind = "pass"
  /\ k.st \in {"reget", "retry"} => k.kind = "rotate"

\* What a command read is still so: nothing moves under the holder of the mutex but
\* the server's history, which grows; and a project to create is still to create.
Creating(k) == k.st = "queued" /\ k.kind = "create"
Backed(k) ==
  /\ k.st \in Running => on
  /\ k.st = "put" => /\ k.ver \in 1..Newest(k.id) /\ k.ver = st[k.id].ver
                     /\ hist[k.id][k.ver].dek = dek[k.id]
  /\ k.st = "retry" => k.ver \in 1..Newest(k.id) /\ k.local[k.id] = hist[k.id][k.ver].doc
  /\ Creating(k) => ~Exists(k.id)
Commands ==
  /\ \A c \in Slots : Shape(cmd[c]) /\ Backed(cmd[c])
  /\ \A c, d \in Slots : cmd[c].st \in Running /\ cmd[d].st \in Running => c = d
  /\ \A c, d \in Slots : Creating(cmd[c]) /\ Creating(cmd[d]) /\ cmd[c].id = cmd[d].id => c = d

Histories == \A p \in Projects : Ordered(hist[p]) /\ (member[p] # "none" => Exists(p))
Sounds == \A p \in Projects : Sound(st[p], dek[p], pend[p], hist[p])
FileSound ==
  file # NoFile => /\ \A p \in Projects : Sound(file[p], 0, 0, hist[p])
                   /\ ~on => \A p \in Projects : dek[p] = 0

IInv == Typed /\ Commands /\ Histories /\ Sounds /\ FileSound

-----------------------------------------------------------------------------
(* Commands and results *)

LEMMA DocTypes ==
  /\ NoDocs \in [Projects -> Docs]
  /\ \A p, d : d \in Docs => Only(p, d) \in [Projects -> Docs]
  /\ \A p, d : p \in Projects => Only(p, d)[p] = d
BY DEF NoDocs, Only, Docs

LEMMA IdleIs == Idle \in Command /\ Shape(Idle) /\ Idle.st = "idle" /\ Idle.kind = "none"
<1>1. <<>> \in Seq(Projects)
  BY EmptySeq
<1> QED BY <1>1, DocTypes DEF Idle, Command, Stage, Kind, Outcome, Shape

LEMMA QueuedIs ==
  ASSUME NEW kind \in Kind, NEW id \in Projects \cup {None}, NEW local \in [Projects -> Docs]
  PROVE  /\ Queued(kind, id, local) \in Command /\ Queued(kind, id, local).st = "queued"
         /\ Queued(kind, id, local).kind = kind /\ Queued(kind, id, local).id = id
         /\ Queued(kind, id, local).local = local
<1>1. "queued" \in Stage
  BY DEF Stage
<1>2. Queued(kind, id, local) = [Idle EXCEPT !.st = "queued", !.kind = kind, !.id = id, !.local = local]
  BY DEF Queued
<1> QED BY <1>1, <1>2, IdleIs DEF Command

\* The command of slot c becomes k.
Becomes(c, k) == k \in Command /\ Shape(k) /\ cmd' = [cmd EXCEPT ![c] = k]

\* A pass asked for, whatever the documents are.
LEMMA PassIs ==
  ASSUME NEW local \in [Projects -> Docs]
  PROVE  /\ Queued("pass", None, local) \in Command /\ Shape(Queued("pass", None, local))
         /\ Queued("pass", None, local).st = "queued" /\ Queued("pass", None, local).kind = "pass"
<1>1. "pass" \in Kind
  BY DEF Kind
<1>2. /\ Queued("pass", None, local) \in Command /\ Queued("pass", None, local).st = "queued"
      /\ Queued("pass", None, local).kind = "pass"
  BY <1>1, QueuedIs
<1> QED BY <1>2 DEF Shape

\* The result of an operation on one project.
LEMMA OpDoneIs ==
  ASSUME Typed, Commands, NEW c \in Slots, NEW res \in Outcome, NEW d \in Docs, OpDone(c, res, d)
  PROVE  \E k : Becomes(c, k) /\ k.st = "done"
<1>0. cmd[c] \in Command /\ Shape(cmd[c]) /\ cmd[c].kind \in Kind
      /\ cmd[c].id \in Projects \cup {None}
  BY DEF Typed, Commands, Command
<1>1. PICK open \in [Projects -> Docs] : open = IF d = NoDoc THEN NoDocs ELSE Only(cmd[c].id, d)
  <2>1. (IF d = NoDoc THEN NoDocs ELSE Only(cmd[c].id, d)) \in [Projects -> Docs]
    BY DocTypes
  <2> QED BY <2>1
<1>2. PICK k : k = [Idle EXCEPT !.st = "done", !.kind = cmd[c].kind, !.id = cmd[c].id, !.res = res,
                                !.open = open]
  OBVIOUS
<1>3. k \in Command /\ k.st = "done" /\ k.kind = cmd[c].kind /\ k.id = cmd[c].id
  <2>1. "done" \in Stage
    BY DEF Stage
  <2> QED BY <2>1, <1>0, <1>1, <1>2, IdleIs DEF Command
<1>4. Shape(k)
  BY <1>0, <1>3 DEF Shape
<1>5. cmd' = [cmd EXCEPT ![c] = k]
  BY <1>1, <1>2 DEF OpDone, Finish
<1> QED BY <1>3, <1>4, <1>5 DEF Becomes

\* The result of a pass.
LEMMA PassDoneIs ==
  ASSUME Typed, Commands, NEW c \in Slots, NEW res \in Outcome, PassDone(c, res), cmd[c].kind = "pass"
  PROVE  \E k : Becomes(c, k) /\ k.st = "done"
<1>0. cmd[c] \in Command
  BY DEF Typed
<1>1. PICK k : k = [cmd[c] EXCEPT !.st = "done", !.res = res, !.local = NoDocs, !.todo = {},
                                  !.await = {}, !.ver = 0, !.id = None]
  OBVIOUS
<1>2. k \in Command /\ k.st = "done" /\ k.kind = "pass"
  <2>1. "done" \in Stage
    BY DEF Stage
  <2> QED BY <2>1, <1>0, <1>1, DocTypes DEF Command
<1>3. Shape(k)
  BY <1>2 DEF Shape
<1> QED BY <1>1, <1>2, <1>3 DEF Becomes, PassDone, Finish

\* A project leaves the list of a pass with a view, as a conflict or not.
LEMMA ViewIs ==
  ASSUME Typed, NEW c \in Slots, NEW p \in Projects, NEW d \in Docs, cmd[c].kind = "pass"
  PROVE  /\ View(c, p, d) \in Command /\ Shape(View(c, p, d)) /\ View(c, p, d).st = "list"
<1>0. cmd[c] \in Command
  BY DEF Typed
<1>1. PICK open \in [Projects -> Docs] : open = [cmd[c].open EXCEPT ![p] = d]
  BY <1>0 DEF Command
<1>2. PICK seen \in SUBSET Projects, todo \in SUBSET Projects :
        seen = cmd[c].seen \cup {p} /\ todo = cmd[c].todo \ {p}
  <2>1. cmd[c].seen \cup {p} \in SUBSET Projects /\ cmd[c].todo \ {p} \in SUBSET Projects
    BY <1>0 DEF Command
  <2> QED BY <2>1
<1>3. View(c, p, d) = [cmd[c] EXCEPT !.st = "list", !.todo = todo, !.seen = seen, !.open = open,
                                     !.ver = 0, !.id = None]
  BY <1>0, <1>1, <1>2 DEF View, Command
<1>4. "list" \in Stage
  BY DEF Stage
<1>5. View(c, p, d) \in Command /\ View(c, p, d).st = "list" /\ View(c, p, d).kind = "pass"
  <2>1. PICK k : k = [cmd[c] EXCEPT !.st = "list", !.todo = todo, !.seen = seen, !.open = open,
                                    !.ver = 0, !.id = None]
    OBVIOUS
  <2>2. k \in Command
    BY <2>1, <1>0, <1>4 DEF Command
  <2>3. k.st = "list" /\ k.kind = "pass"
    BY <2>1, <1>0 DEF Command
  <2> QED BY <2>1, <2>2, <2>3, <1>3
<1> QED BY <1>5 DEF Shape

LEMMA ConflictIs ==
  ASSUME Typed, NEW c \in Slots, NEW p \in Projects, cmd[c].kind = "pass"
  PROVE  /\ Conflicting(c, p) \in Command /\ Shape(Conflicting(c, p))
         /\ Conflicting(c, p).st = "list"
<1>1. cmd[c].local[p] \in Docs
  BY DEF Typed, Command
<1>2. PICK v \in Command : v = View(c, p, cmd[c].local[p]) /\ v.st = "list" /\ Shape(v)
  BY <1>1, ViewIs
<1>3. PICK found \in Seq(Projects) : found = Append(v.found, p)
  <2>1. v.found \in Seq(Projects)
    BY <1>2 DEF Command
  <2> QED BY <2>1, AppendProperties
<1>4. PICK k : k = [v EXCEPT !.found = found]
  OBVIOUS
<1>5. k = Conflicting(c, p)
  BY <1>2, <1>3, <1>4 DEF Conflicting, Command
<1>6. k \in Command /\ k.st = v.st /\ k.kind = v.kind /\ k.id = v.id /\ k.local = v.local
  BY <1>3, <1>4 DEF Command
<1>7. Shape(k)
  BY <1>2, <1>6 DEF Shape
<1> QED BY <1>2, <1>5, <1>6, <1>7

-----------------------------------------------------------------------------
(* Kinds of step *)

Still == UNCHANGED <<hist, member, on, st, dek, pend, file>>
UITyped == docs \in [Projects -> Docs] /\ timer \in Projects \cup {Personal, None}

LEMMA BecomesOne ==
  ASSUME Typed, NEW c \in Slots, NEW k, Becomes(c, k)
  PROVE  /\ cmd' \in [Slots -> Command] /\ cmd'[c] = k
         /\ \A d \in Slots : d # c => cmd'[d] = cmd[d]
BY DEF Typed, Becomes

\* One command becomes another, and the rest are as backed as before.
LEMMA CommandsKept ==
  ASSUME Typed, Commands, NEW c \in Slots, NEW k, Becomes(c, k), Backed(k)', ~ Creating(k),
         \A d \in Slots : d # c => Backed(cmd[d])',
         k.st \in Running => \A d \in Slots : d # c => cmd[d].st \notin Running
  PROVE  Commands'
<1>1. /\ cmd'[c] = k /\ Shape(k)
      /\ \A d \in Slots : d # c => cmd'[d] = cmd[d]
  BY BecomesOne DEF Becomes
<1>2. ASSUME NEW d \in Slots PROVE Shape(cmd'[d]) /\ Backed(cmd[d])'
  <2>1. CASE d = c
    BY <1>1, <2>1 DEF Backed, Creating
  <2>2. CASE d # c
    BY <1>1, <2>2 DEF Commands
  <2> QED BY <2>1, <2>2
<1>3. ASSUME NEW d \in Slots, NEW e \in Slots, cmd'[d].st \in Running, cmd'[e].st \in Running
      PROVE  d = e
  BY <1>1, <1>3 DEF Commands
<1>4. ASSUME NEW d \in Slots, NEW e \in Slots, Creating(cmd'[d]), Creating(cmd'[e]),
             cmd'[d].id = cmd'[e].id
      PROVE  d = e
  BY <1>1, <1>4 DEF Commands
<1> QED BY <1>2, <1>3, <1>4 DEF Commands, Creating

\* A step that leaves the server and the engine alone and starts, answers or drops
\* one command.
LEMMA QuietStep ==
  ASSUME IInv, NEW c \in Slots, NEW k, Becomes(c, k), k.st \in {"idle", "queued", "done"},
         ~ Creating(k), Still, UITyped'
  PROVE  IInv'
<1>1. Typed'
  BY BecomesOne DEF IInv, Typed, Still, UITyped
<1>2. Backed(k)'
  BY DEF Backed, Running, Creating
<1>3. ASSUME NEW d \in Slots, d # c PROVE Backed(cmd[d])'
  <2>1. cmd'[d] = cmd[d] /\ Backed(cmd[d])
    BY <1>3, BecomesOne DEF IInv, Commands
  <2> QED BY <2>1 DEF Still, Backed, Newest, Exists, Creating
<1>4. Commands'
  BY <1>2, <1>3, CommandsKept DEF IInv, Running
<1> QED BY <1>1, <1>4 DEF IInv, Still, Histories, Sounds, FileSound, Exists

\* One that leaves the commands alone too.
LEMMA IdleStep ==
  ASSUME IInv, Still, cmd' = cmd, UITyped'
  PROVE  IInv'
BY DEF IInv, Still, UITyped, Typed, Commands, Backed, Newest, Exists, Histories, Sounds, FileSound,
       Creating

\* Nobody else holds the mutex.
Alone(c) == on /\ \A d \in Slots : d # c => cmd[d].st \notin Running

LEMMA LocksAlone ==
  ASSUME NEW c \in Slots, Locks(c), on
  PROVE  Alone(c)
BY DEF Locks, MutexFree, Alone

LEMMA RunsAlone ==
  ASSUME IInv, NEW c \in Slots, cmd[c].st \in Running
  PROVE  Alone(c)
BY DEF IInv, Commands, Backed, Alone

\* A step of the command that holds the mutex: the server's histories grow at most,
\* and a project that had none is one this command was to create.
LEMMA HolderStep ==
  ASSUME IInv, NEW c \in Slots, Alone(c), NEW k, Becomes(c, k), k.st # "queued", Backed(k)',
         on' = on, file' = file \/ file' = st', UNCHANGED <<docs, timer>>,
         hist' \in [Projects -> Seq(Version)], member' \in [Projects -> Membership],
         st' \in [Projects -> State], dek' \in [Projects -> Nat], pend' \in [Projects -> Nat],
         Histories', Sounds',
         \A p \in Projects : /\ Extends(hist'[p], hist[p])
                             /\ ~Exists(p) /\ hist'[p] # hist[p] => Creating(cmd[c]) /\ cmd[c].id = p
  PROVE  IInv'
<1>1. Typed'
  BY BecomesOne DEF IInv, Typed, Alone
<1>2. ASSUME NEW d \in Slots, d # c PROVE Backed(cmd[d])'
  <2>1. cmd'[d] = cmd[d] /\ Backed(cmd[d]) /\ Shape(cmd[d]) /\ cmd[d].st \notin Running
    BY <1>2, BecomesOne DEF IInv, Commands, Alone
  <2>2. Creating(cmd[d]) => cmd[d].id \in Projects /\ ~ Exists(cmd[d].id)
    BY <2>1 DEF Shape, Backed, Creating
  <2>3. Creating(cmd[d]) => ~ (Creating(cmd[c]) /\ cmd[c].id = cmd[d].id)
    BY <1>2 DEF IInv, Commands
  <2>4. Creating(cmd[d]) => hist'[cmd[d].id] = hist[cmd[d].id]
    BY <2>2, <2>3
  <2>5. Creating(cmd[d]) => ~ (hist'[cmd[d].id] # <<>>)
    BY <2>2, <2>4 DEF Exists
  <2> QED BY <2>1, <2>5 DEF Backed, Running, Exists, Creating
<1>3. Commands'
  BY <1>2, CommandsKept DEF IInv, Alone, Creating
<1>4. FileSound'
  <2>1. on'
    BY DEF Alone
  <2>2. CASE file' = st'
    <3>1. ASSUME NEW p \in Projects PROVE Sound(st'[p], 0, 0, hist'[p])
      BY SoundForgets DEF Sounds
    <3> QED BY <2>1, <2>2, <3>1 DEF FileSound
  <2>3. CASE file' = file
    <3>1. ASSUME file # NoFile, NEW p \in Projects PROVE Sound(file[p], 0, 0, hist'[p])
      <4>1. Sound(file[p], 0, 0, hist[p])
        BY <3>1 DEF IInv, FileSound
      <4> QED BY <4>1, SoundGrows DEF IInv, Typed
    <3> QED BY <2>1, <2>3, <3>1 DEF FileSound
  <2> QED BY <2>2, <2>3
<1> QED BY <1>1, <1>3, <1>4 DEF IInv

\* A step of the holder of the mutex that leaves the server alone.
LEMMA HistoriesStill ==
  ASSUME IInv, hist' = hist, member' = member
  PROVE  /\ hist' \in [Projects -> Seq(Version)] /\ member' \in [Projects -> Membership]
         /\ Histories'
         /\ \A p \in Projects : Extends(hist'[p], hist[p])
<1>1. \A p \in Projects : Len(hist[p]) \in Nat
  BY LenProperties DEF IInv, Typed
<1>2. \A p \in Projects : Extends(hist'[p], hist[p])
  BY <1>1 DEF Extends
<1> QED BY <1>2 DEF IInv, Typed, Histories, Exists

LEMMA EngineStep ==
  ASSUME IInv, NEW c \in Slots, Alone(c), NEW k, Becomes(c, k), k.st # "queued", Backed(k)',
         UNCHANGED <<hist, member, on, docs, timer>>, file' = file \/ file' = st',
         st' \in [Projects -> State], dek' \in [Projects -> Nat], pend' \in [Projects -> Nat],
         Sounds'
  PROVE  IInv'
BY HistoriesStill, HolderStep

-----------------------------------------------------------------------------
(* The start and the other members *)

LEMMA InitInv == Init => IInv
<1> SUFFICES ASSUME Init PROVE IInv
  OBVIOUS
<1>1. PICK c \in Slots : cmd = [d \in Slots |-> IF d = c THEN Queued("pass", None, NoDocs) ELSE Idle]
  BY DEF Init
<1>2. \A d \in Slots : /\ cmd[d] \in Command /\ Shape(cmd[d]) /\ cmd[d].st \notin Running
                       /\ ~ Creating(cmd[d]) /\ cmd[d].st \notin {"put", "retry"}
  <2>1. PICK q \in Command : q = Queued("pass", None, NoDocs) /\ Shape(q) /\ q.st = "queued"
                             /\ q.kind = "pass"
    BY DocTypes, PassIs
  <2> QED BY <1>1, <2>1, IdleIs DEF Running, Creating
<1>3. \A p \in Projects : /\ hist[p] \in Seq(Version) /\ Ordered(hist[p])
                          /\ member[p] # "none" => hist[p] # <<>>
  <2> SUFFICES ASSUME NEW p \in Projects
               PROVE  /\ hist[p] \in Seq(Version) /\ Ordered(hist[p])
                      /\ member[p] # "none" => hist[p] # <<>>
    OBVIOUS
  <2>1. CASE Start[p] = NoDoc
    <3>1. hist[p] = <<>> /\ member[p] = "none"
      BY <2>1 DEF Init
    <3> QED BY <3>1, EmptySeq DEF Ordered
  <2>2. CASE Start[p] # NoDoc
    <3>1. PICK v \in Version : v = [doc |-> Start[p], dek |-> 1, by |-> "other"]
      <4>1. Start[p] \in Doc
        BY <2>2, StartAssumption DEF Docs
      <4> QED BY <4>1 DEF Version
    <3>2. hist[p] = <<v>>
      BY <2>2, <3>1 DEF Init
    <3>3. <<v>> \in Seq(Version) /\ Len(<<v>>) = 1 /\ <<v>>[1] = v /\ <<v>> # <<>>
      BY <3>1
    <3>4. Ordered(<<v>>)
      BY <3>1, <3>3 DEF Ordered, Version
    <3> QED BY <3>2, <3>3, <3>4
  <2> QED BY <2>1, <2>2
<1>4. \A p \in Projects : Sound(Unknown, 0, 0, hist[p])
  BY <1>3, LenProperties DEF Sound, Unknown, State, Docs
<1>5. Unknown \in State
  BY DEF Unknown, State, Docs
<1>6. hist \in [Projects -> Seq(Version)]
  <2>1. hist = [p \in Projects |-> hist[p]]
    BY DEF Init
  <2> QED BY <2>1, <1>3
<1>7. Typed
  BY <1>1, <1>2, <1>5, <1>6, DocTypes DEF Init, Typed, Membership, Fresh, Zeros
<1>8. Commands
  BY <1>2 DEF Commands, Backed
<1>9. Histories
  BY <1>3 DEF Histories, Exists
<1>10. Sounds /\ FileSound
  BY <1>4 DEF Init, Sounds, FileSound, Fresh, Zeros
<1> QED BY <1>7, <1>8, <1>9, <1>10 DEF IInv

\* The server's histories grow and nothing of the device changes.
LEMMA ServerStep ==
  ASSUME IInv, UNCHANGED <<on, st, dek, pend, file, cmd, docs, timer>>,
         hist' \in [Projects -> Seq(Version)], member' \in [Projects -> Membership], Histories',
         \A p \in Projects : Extends(hist'[p], hist[p]) /\ (~Exists(p) => hist'[p] = hist[p])
  PROVE  IInv'
<1>1. Typed'
  BY DEF IInv, Typed
<1>2. Sounds'
  BY SoundGrows DEF IInv, Typed, Sounds
<1>3. FileSound'
  <2>1. ASSUME file # NoFile, NEW p \in Projects PROVE Sound(file[p], 0, 0, hist'[p])
    <3>1. Sound(file[p], 0, 0, hist[p])
      BY <2>1 DEF IInv, FileSound
    <3> QED BY <3>1, SoundGrows DEF IInv, Typed
  <2> QED BY <2>1 DEF IInv, FileSound
<1>4. ASSUME NEW d \in Slots PROVE Backed(cmd[d])'
  <2>0. cmd[d] \in Command /\ Backed(cmd[d]) /\ Shape(cmd[d]) /\ cmd'[d] = cmd[d]
    BY DEF IInv, Typed, Commands
  <2>1. ASSUME cmd[d].id \in Projects, cmd[d].ver \in 1..Newest(cmd[d].id)
        PROVE  /\ cmd[d].ver \in 1..Len(hist'[cmd[d].id])
               /\ hist'[cmd[d].id][cmd[d].ver] = hist[cmd[d].id][cmd[d].ver]
    <3>1. Extends(hist'[cmd[d].id], hist[cmd[d].id])
      BY <2>1
    <3>2. Len(hist'[cmd[d].id]) \in Nat /\ Len(hist[cmd[d].id]) \in Nat
      BY <2>1, LenProperties DEF IInv, Typed
    <3> QED BY <2>1, <3>1, <3>2 DEF Extends, Newest
  <2>2. cmd[d].st \in {"put", "retry"} => cmd[d].id \in Projects
    BY <2>0 DEF Shape
  <2>3. Creating(cmd[d]) => hist'[cmd[d].id] = hist[cmd[d].id] /\ ~Exists(cmd[d].id)
    BY <2>0 DEF Shape, Creating, Backed
  <2>4. cmd'[d].st = "put" => /\ cmd'[d].ver \in 1..Len(hist'[cmd'[d].id])
                              /\ cmd'[d].ver = st'[cmd'[d].id].ver
                              /\ hist'[cmd'[d].id][cmd'[d].ver].dek = dek'[cmd'[d].id]
    BY <2>0, <2>1, <2>2 DEF Backed
  <2>5. cmd'[d].st = "retry" => /\ cmd'[d].ver \in 1..Len(hist'[cmd'[d].id])
                                /\ cmd'[d].local[cmd'[d].id] = hist'[cmd'[d].id][cmd'[d].ver].doc
    BY <2>0, <2>1, <2>2 DEF Backed
  <2>6. Creating(cmd'[d]) => hist'[cmd'[d].id] = <<>>
    BY <2>0, <2>3 DEF Exists
  <2>7. cmd'[d].st \in Running => on'
    BY <2>0 DEF Backed
  <2> QED BY <2>4, <2>5, <2>6, <2>7 DEF Backed, Newest, Exists, Creating
<1>5. Commands'
  BY <1>4 DEF IInv, Commands, Creating
<1> QED BY <1>1, <1>2, <1>3, <1>5 DEF IInv

\* One project gets one more version.
LEMMA OneMore ==
  ASSUME IInv, NEW p \in Projects, NEW v \in Version, Exists(p) => Epoch(p) <= v.dek,
         hist' = [hist EXCEPT ![p] = Append(@, v)]
  PROVE  /\ hist' \in [Projects -> Seq(Version)] /\ hist'[p] = Append(hist[p], v)
         /\ \A q \in Projects : Ordered(hist'[q]) /\ Extends(hist'[q], hist[q])
                                /\ (q # p => hist'[q] = hist[q])
         /\ Len(hist'[p]) = Newest(p) + 1 /\ hist'[p][Newest(p) + 1] = v /\ hist'[p] # <<>>
<1>1. hist[p] \in Seq(Version) /\ Ordered(hist[p]) /\ hist \in [Projects -> Seq(Version)]
  BY DEF IInv, Typed, Histories
<1>2. hist[p] # <<>> => hist[p][Len(hist[p])].dek <= v.dek
  BY DEF Exists, Epoch, Newest
<1>3. PICK h \in Seq(Version) :
        /\ h = Append(hist[p], v) /\ h # <<>> /\ Ordered(h) /\ Extends(h, hist[p])
        /\ Len(h) = Len(hist[p]) + 1 /\ h[Len(hist[p]) + 1] = v
  BY <1>1, <1>2, AppendVersion
<1>4. hist' \in [Projects -> Seq(Version)] /\ hist'[p] = h
      /\ \A q \in Projects : q # p => hist'[q] = hist[q]
  BY <1>1, <1>3
<1>5. \A q \in Projects : Extends(hist[q], hist[q]) /\ Ordered(hist[q])
  BY LenProperties DEF IInv, Typed, Histories, Extends
<1>6. ASSUME NEW q \in Projects PROVE Ordered(hist'[q]) /\ Extends(hist'[q], hist[q])
  BY <1>3, <1>4, <1>5
<1> QED BY <1>3, <1>4, <1>6 DEF Newest

\* The newest version of a project that has one.
LEMMA TopIs ==
  ASSUME IInv, NEW p \in Projects, Exists(p)
  PROVE  /\ hist[p] \in Seq(Version) /\ Newest(p) \in Nat \ {0}
         /\ hist[p][Newest(p)] \in Version /\ Epoch(p) \in Nat /\ Epoch(p) = hist[p][Newest(p)].dek
         /\ Sound(st[p], Epoch(p), pend[p], hist[p])
<1>1. hist[p] \in Seq(Version) /\ Ordered(hist[p]) /\ hist[p] # <<>>
      /\ Sound(st[p], dek[p], pend[p], hist[p])
  BY DEF IInv, Typed, Histories, Sounds, Exists
<1>2. Len(hist[p]) \in Nat \ {0}
  BY <1>1, EmptySeq
<1>3. hist[p][Len(hist[p])] \in Version /\ hist[p][Len(hist[p])].dek \in Nat
  BY <1>1, <1>2, VersionAt
<1>4. Sound(st[p], hist[p][Len(hist[p])].dek, pend[p], hist[p])
  BY <1>1, SoundRead
<1> QED BY <1>1, <1>2, <1>3, <1>4 DEF Newest, Epoch

LEMMA OthersStep == IInv /\ Members => IInv'
<1> SUFFICES ASSUME IInv, NEW p \in Projects,
                    \/ \E d \in Doc : OtherPush(p, d)
                    \/ \E m \in Membership : OtherRotate(p, m) \/ OtherGrant(p, m)
             PROVE  IInv'
  BY DEF Members
<1>0. UNCHANGED <<on, st, dek, pend, file, cmd, docs, timer>>
  BY DEF OtherPush, OtherRotate, OtherGrant, engine, ui
<1>1. ASSUME NEW d \in Doc, OtherPush(p, d) PROVE IInv'
  <2>1. Exists(p) /\ member' = member
    BY <1>1 DEF OtherPush, IInv, Histories
  <2>2. PICK v \in Version : v = [doc |-> d, dek |-> Epoch(p), by |-> "other"]
    BY <2>1, TopIs DEF Version
  <2>3. hist' = [hist EXCEPT ![p] = Append(@, v)] /\ Epoch(p) <= v.dek
    BY <1>1, <2>1, <2>2, TopIs DEF OtherPush
  <2>4. Histories'
    BY <2>1, <2>3, OneMore DEF Histories, IInv, Exists
  <2> QED BY <1>0, <2>1, <2>3, <2>4, OneMore, ServerStep DEF IInv, Typed
<1>2. ASSUME NEW m \in Membership, OtherRotate(p, m) PROVE IInv'
  <2>1. Exists(p) /\ member' = [member EXCEPT ![p] = m]
    BY <1>2 DEF OtherRotate, IInv, Histories
  <2>0. PICK top : top = hist[p][Newest(p)] /\ top \in Version /\ top.dek = Epoch(p)
    BY <2>1, TopIs
  <2>2. PICK v : v = [top EXCEPT !.dek = top.dek + 1, !.by = "other"]
    OBVIOUS
  <2>6. v \in Version /\ v.dek = Epoch(p) + 1 /\ Epoch(p) <= v.dek
    <3>1. top.dek \in Nat /\ top.doc \in Doc
      BY <2>0 DEF Version
    <3>2. v = [doc |-> top.doc, dek |-> top.dek + 1, by |-> "other"]
      BY <2>0, <2>2 DEF Version
    <3>3. v \in Version
      BY <3>1, <3>2 DEF Version
    <3> QED BY <3>1, <3>2, <3>3, <2>0
  <2>3. hist' = [hist EXCEPT ![p] = Append(hist[p], v)]
    BY <1>2, <2>0, <2>2 DEF OtherRotate
  <2>4. Histories'
    BY <2>1, <2>3, <2>6, OneMore DEF Histories, IInv, Typed, Exists
  <2>5. member' \in [Projects -> Membership]
    BY <2>1 DEF IInv, Typed
  <2> QED BY <1>0, <2>1, <2>3, <2>4, <2>5, <2>6, OneMore, ServerStep
<1>3. ASSUME NEW m \in Membership, OtherGrant(p, m) PROVE IInv'
  <2>1. Exists(p) /\ member' = [member EXCEPT ![p] = m] /\ hist' = hist
    BY <1>3 DEF OtherGrant
  <2>2. Histories' /\ member' \in [Projects -> Membership]
    BY <2>1 DEF Histories, IInv, Typed, Exists
  <2>3. \A q \in Projects : Extends(hist'[q], hist[q])
    BY <2>1, LenProperties DEF IInv, Typed, Extends
  <2> QED BY <1>0, <2>1, <2>2, <2>3, ServerStep DEF IInv, Typed
<1> QED BY <1>1, <1>2, <1>3

-----------------------------------------------------------------------------
(* Steps that leave the server and the engine alone *)

LEMMA AnswerStep ==
  ASSUME IInv, NEW c \in Slots, Still, UNCHANGED <<docs, timer>>,
         \E res \in Outcome : \/ OpDone(c, res, NoDoc)
                              \/ cmd[c].kind = "pass" /\ PassDone(c, res)
  PROVE  IInv'
<1>1. PICK k : Becomes(c, k) /\ k.st = "done"
  BY OpDoneIs, PassDoneIs DEF IInv, Docs
<1>2. UITyped'
  BY DEF IInv, Typed, UITyped
<1> QED BY <1>1, <1>2, QuietStep DEF Creating

\* An operation that ends without touching the server or the engine.
LEMMA AnswersStep ==
  ASSUME IInv, NEW c \in Slots, OpSignedOut(c) \/ OpFails(c) \/ ResolveEvaporated(c) \/ PassSignedOut(c)
  PROVE  IInv'
<1>1. {"signedOut", "err", "empty"} \subseteq Outcome
  BY DEF Outcome
<1>2. Still /\ UNCHANGED <<docs, timer>>
  BY DEF OpSignedOut, OpFails, ResolveEvaporated, PassSignedOut, Still, server, engine, ui
<1>3. \E res \in Outcome : \/ OpDone(c, res, NoDoc)
                           \/ cmd[c].kind = "pass" /\ PassDone(c, res)
  BY <1>1 DEF OpSignedOut, OpFails, ResolveEvaporated, PassSignedOut
<1> QED BY <1>2, <1>3, AnswerStep

\* A slot is freed, or a pass or nothing is started in it.
LEMMA RestartStep ==
  ASSUME IInv, NEW c \in Slots, Still, UITyped', StartPass(c) \/ Finish(c, Idle)
  PROVE  IInv'
<1>1. PICK k : /\ k \in {Queued("pass", None, docs'), Idle} /\ Finish(c, k)
  BY DEF StartPass
<1>2. k \in Command /\ Shape(k) /\ k.st \in {"idle", "queued"} /\ k.kind \in {"none", "pass"}
  BY <1>1, PassIs, IdleIs DEF UITyped
<1> QED BY <1>1, <1>2, QuietStep DEF Becomes, Finish, Creating

LEMMA HandlersStep ==
  ASSUME IInv, NEW c \in Slots, ProjectsSynced(c) \/ ProjectOpDone(c) \/ ProjectCreated(c)
  PROVE  IInv'
<1>1. Still /\ timer' = timer /\ (StartPass(c) \/ Finish(c, Idle))
  BY DEF ProjectsSynced, ProjectOpDone, ProjectCreated, Still, server, engine
<1>2. docs \in [Projects -> Docs] /\ cmd[c].open \in [Projects -> Docs]
      /\ timer \in Projects \cup {Personal, None}
  BY DEF IInv, Typed, Command
<1>3. docs' \in [Projects -> Docs]
  <2>1. CASE ProjectsSynced(c)
    BY <2>1, <1>2 DEF ProjectsSynced, Docs
  <2>2. CASE ProjectOpDone(c)
    <3>1. cmd[c].id \in Projects => cmd[c].open[cmd[c].id] \in Docs
      BY <1>2
    <3> QED BY <2>2, <3>1, <1>2 DEF ProjectOpDone
  <2>3. CASE ProjectCreated(c)
    <3>1. {} \in Docs
      BY DEF Docs, Doc
    <3> QED BY <2>3, <3>1, <1>2 DEF ProjectCreated
  <2> QED BY <2>1, <2>2, <2>3
<1> QED BY <1>1, <1>2, <1>3, RestartStep DEF UITyped

\* A command is queued by a key or by the timer.
LEMMA QueueStep ==
  ASSUME IInv, NEW c \in Slots, Still, UITyped', NEW k \in Command, k.st = "queued",
         k.kind \in {"push", "keep", "take", "rotate"}, k.id \in Projects,
         k.kind \in {"push", "rotate"} => k.local[k.id] \in Doc, Finish(c, k)
  PROVE  IInv'
<1>1. Shape(k)
  BY DEF Shape
<1> QED BY <1>1, QuietStep DEF Becomes, Finish, Creating

LEMMA KeysStep ==
  ASSUME IInv,
         \/ \E p \in Projects, d \in Doc : EditProject(p, d)
         \/ \E h \in Hosts : \E from, to \in Projects \cup {Personal} : MoveHost(h, from, to)
         \/ DecideLater \/ LeaveCreate
         \/ \E c \in Slots : \/ PushTimerFires(c) \/ EnterProjectsTab(c)
                             \/ \E p \in Projects, self \in BOOLEAN : ConfirmRemove(c, p, self)
                             \/ \E keep \in BOOLEAN : ChooseSide(c, keep)
  PROVE  IInv'
<1>0. docs \in [Projects -> Docs] /\ timer \in Projects \cup {Personal, None}
  BY DEF IInv, Typed
<1>k. {"push", "keep", "take", "rotate", "pass"} \subseteq Kind
  BY DEF Kind
<1>1. ASSUME NEW p \in Projects, NEW d \in Doc, EditProject(p, d) PROVE IInv'
  <2>1. Still /\ cmd' = cmd
    BY <1>1 DEF EditProject, Still, server, engine
  <2>2. UITyped'
    BY <1>0, <1>1 DEF EditProject, Arm, UITyped, Docs
  <2> QED BY <2>1, <2>2, IdleStep
<1>2. ASSUME NEW h \in Hosts, NEW from \in Projects \cup {Personal}, NEW to \in Projects \cup {Personal},
             MoveHost(h, from, to)
      PROVE  IInv'
  <2>1. Still /\ cmd' = cmd
    BY <1>2 DEF MoveHost, Still, server, engine
  <2>2. docs' = [p \in Projects |-> CASE p = from -> docs[p] \ {h} [] p = to -> docs[p] \cup {h}
                                     [] OTHER -> docs[p]]
        /\ timer' = to
    BY <1>2 DEF MoveHost, Arm
  <2>3. ASSUME NEW p \in Projects, p \in {from, to} PROVE docs[p] \in Doc
    <3>1. p # Personal
      BY NamesAssumption
    <3>2. docs[p] # NoDoc
      BY <1>2, <2>3, <3>1 DEF MoveHost
    <3> QED BY <1>0, <3>2 DEF Docs
  <2>4. docs' \in [Projects -> Docs]
    <3> SUFFICES ASSUME NEW p \in Projects PROVE docs'[p] \in Docs
      BY <2>2
    <3>1. CASE p = from
      BY <2>2, <2>3, <3>1 DEF Docs, Doc
    <3>2. CASE p # from /\ p = to
      BY <2>2, <2>3, <3>2 DEF Docs, Doc
    <3>3. CASE p # from /\ p # to
      BY <2>2, <3>3, <1>0
    <3> QED BY <3>1, <3>2, <3>3
  <2> QED BY <2>1, <2>2, <2>4, IdleStep DEF UITyped
<1>3. CASE DecideLater \/ LeaveCreate
  <2>1. Still /\ cmd' = cmd /\ UNCHANGED <<docs, timer>>
    BY <1>3 DEF DecideLater, LeaveCreate, Still, server, engine
  <2> QED BY <2>1, <1>0, IdleStep DEF UITyped
<1>4. ASSUME NEW c \in Slots, PushTimerFires(c) PROVE IInv'
  <2>1. Still /\ docs' = docs /\ timer' = None
    BY <1>4 DEF PushTimerFires, Still, server, engine
  <2>2. UITyped'
    BY <2>1, <1>0 DEF UITyped
  <2>3. CASE timer # Personal /\ signedIn /\ docs[timer] # NoDoc
    <3>1. timer \in Projects /\ docs[timer] \in Doc
      BY <1>0, <1>4, <2>3 DEF PushTimerFires, Docs
    <3>2. Only(timer, docs[timer]) \in [Projects -> Docs] /\ Only(timer, docs[timer])[timer] \in Doc
      BY <3>1, DocTypes DEF Docs
    <3>3. PICK k : k = Queued("push", timer, Only(timer, docs[timer]))
      OBVIOUS
    <3>4. k \in Command /\ k.st = "queued" /\ k.kind = "push" /\ k.id = timer
          /\ k.local = Only(timer, docs[timer])
      BY <3>1, <3>2, <3>3, <1>k, QueuedIs
    <3>5. Finish(c, k)
      BY <1>4, <2>3, <3>3 DEF PushTimerFires
    <3> QED BY <2>1, <2>2, <3>1, <3>2, <3>4, <3>5, QueueStep
  <2>4. CASE ~ (timer # Personal /\ signedIn /\ docs[timer] # NoDoc)
    BY <1>4, <2>1, <2>2, <2>4, IdleStep DEF PushTimerFires
  <2> QED BY <2>3, <2>4
<1>5. ASSUME NEW c \in Slots, EnterProjectsTab(c) PROVE IInv'
  <2>1. Still /\ UNCHANGED <<docs, timer>>
    BY <1>5 DEF EnterProjectsTab, Still, server, engine, ui
  <2>2. UITyped'
    BY <2>1, <1>0 DEF UITyped
  <2>3. PICK k : k = Queued("pass", None, docs) /\ Becomes(c, k) /\ k.st = "queued" /\ k.kind = "pass"
    BY <1>5, <1>0, PassIs DEF EnterProjectsTab, Becomes, Finish
  <2> QED BY <2>1, <2>2, <2>3, QuietStep DEF Creating
<1>6. ASSUME NEW c \in Slots, NEW p \in Projects, NEW self \in BOOLEAN, ConfirmRemove(c, p, self)
      PROVE  IInv'
  <2>1. Still /\ UNCHANGED <<docs, timer>>
    BY <1>6 DEF ConfirmRemove, Still, server, engine, ui
  <2>2. UITyped'
    BY <2>1, <1>0 DEF UITyped
  <2>3. docs[p] \in Doc
    BY <1>0, <1>6 DEF ConfirmRemove, Docs
  <2>4. Only(p, docs[p]) \in [Projects -> Docs] /\ Only(p, docs[p])[p] \in Doc
    BY <2>3, DocTypes DEF Docs
  <2>5. PICK q \in Command : q = Queued("rotate", p, Only(p, docs[p])) /\ q.st = "queued"
                             /\ q.kind = "rotate" /\ q.id = p /\ q.local = Only(p, docs[p])
    BY <2>4, <1>k, QueuedIs
  <2>6. PICK k : k = [q EXCEPT !.self = self]
    OBVIOUS
  <2>7. k \in Command /\ k.st = "queued" /\ k.kind = "rotate" /\ k.id = p /\ k.local = q.local
    BY <2>5, <2>6 DEF Command
  <2>8. Finish(c, k)
    BY <1>6, <2>5, <2>6 DEF ConfirmRemove
  <2> QED BY <2>1, <2>2, <2>4, <2>5, <2>7, <2>8, QueueStep
<1>7. ASSUME NEW c \in Slots, NEW keep \in BOOLEAN, ChooseSide(c, keep) PROVE IInv'
  <2>1. Still /\ UNCHANGED <<docs, timer>>
    BY <1>7 DEF ChooseSide, Still, server, engine
  <2>2. UITyped'
    BY <2>1, <1>0 DEF UITyped
  <2>3. PICK kind \in {"keep", "take"} : kind = IF keep THEN "keep" ELSE "take"
    OBVIOUS
  <2>4. active \in Projects /\ docs[active] \in Docs
    BY <1>0, <1>7 DEF ChooseSide
  <2>5. PICK k : k = Queued(kind, active, Only(active, docs[active])) /\ Finish(c, k)
    BY <1>7, <2>3 DEF ChooseSide
  <2>6. k \in Command /\ k.st = "queued" /\ k.kind = kind /\ k.id = active
    BY <2>3, <2>4, <2>5, <1>k, DocTypes, QueuedIs
  <2> QED BY <2>1, <2>2, <2>3, <2>4, <2>5, <2>6, QueueStep
<1> QED BY <1>1, <1>2, <1>3, <1>4, <1>5, <1>6, <1>7

\* A project to create is asked for once, and only while it is not there.
LEMMA CreateKeyStep ==
  ASSUME IInv, NEW c \in Slots, NEW p \in Projects, SubmitCreate(c, p)
  PROVE  IInv'
<1>1. Still /\ UNCHANGED <<docs, timer>> /\ ~Exists(p) /\ \A d \in Slots : cmd[d].id # p
  BY DEF SubmitCreate, Still, server, engine
<1>2. PICK k : k = Queued("create", p, NoDocs) /\ Finish(c, k)
  BY DEF SubmitCreate
<1>3. "create" \in Kind
  BY DEF Kind
<1>4. k \in Command /\ k.st = "queued" /\ k.kind = "create" /\ k.id = p
  BY <1>2, <1>3, QueuedIs, DocTypes
<1>5. Shape(k) /\ Becomes(c, k)
  BY <1>2, <1>4 DEF Shape, Becomes, Finish
<1>6. cmd'[c] = k /\ \A d \in Slots : d # c => cmd'[d] = cmd[d]
  BY <1>5, BecomesOne DEF IInv
<1>7. Typed'
  BY <1>1, <1>5, BecomesOne DEF IInv, Typed, Still
<1>8. ASSUME NEW d \in Slots PROVE Shape(cmd'[d]) /\ Backed(cmd[d])'
  <2>1. CASE d = c
    BY <2>1, <1>1, <1>4, <1>5, <1>6 DEF Backed, Running, Still, Exists
  <2>2. CASE d # c
    <3>1. cmd'[d] = cmd[d] /\ Shape(cmd[d]) /\ Backed(cmd[d])
      BY <2>2, <1>6 DEF IInv, Commands
    <3> QED BY <3>1, <1>1 DEF Backed, Still, Newest, Exists, Creating
  <2> QED BY <2>1, <2>2
<1>9. ASSUME NEW d \in Slots, NEW e \in Slots, cmd'[d].st \in Running, cmd'[e].st \in Running
      PROVE  d = e
  BY <1>4, <1>6, <1>9 DEF IInv, Commands, Running
<1>10. ASSUME NEW d \in Slots, NEW e \in Slots, Creating(cmd'[d]), Creating(cmd'[e]),
              cmd'[d].id = cmd'[e].id
       PROVE  d = e
  BY <1>1, <1>4, <1>6, <1>10 DEF IInv, Commands
<1>11. Commands'
  BY <1>8, <1>9, <1>10 DEF Commands, Creating
<1> QED BY <1>1, <1>7, <1>11 DEF IInv, Still, Histories, Sounds, FileSound, Exists

-----------------------------------------------------------------------------
(* Sessions that end and begin *)

LEMMA FreshTypes ==
  Fresh \in [Projects -> State] /\ Zeros \in [Projects -> Nat]
BY DEF Fresh, Zeros, Unknown, State, Docs

LEMMA Forgotten ==
  ASSUME IInv, NEW p \in Projects
  PROVE  /\ Sound(Unknown, 0, 0, hist[p]) /\ Sound(Unknown, dek[p], 0, hist[p])
         /\ Sound(Unknown, dek[p], pend[p], hist[p])
<1>1. hist[p] \in Seq(Version) /\ Sound(st[p], dek[p], pend[p], hist[p])
  BY DEF IInv, Typed, Sounds
<1>2. Sound(st[p], dek[p], 0, hist[p])
  BY <1>1, SoundForgets
<1> QED BY <1>1, <1>2, SoundForgets

\* Nobody holds the mutex when it is over, and no project is created by it.
LEMMA SessionStep ==
  ASSUME IInv, UNCHANGED <<hist, member>>, on' \in BOOLEAN,
         st' \in [Projects -> State], dek' \in [Projects -> Nat], pend' \in [Projects -> Nat],
         file' = NoFile \/ file' \in [Projects -> State], Sounds', FileSound', UITyped',
         cmd' \in [Slots -> Command],
         \A d \in Slots : /\ Shape(cmd'[d]) /\ cmd'[d].st \notin Running
                          /\ Creating(cmd'[d]) => cmd'[d] = cmd[d]
  PROVE  IInv'
<1>1. Typed'
  BY DEF IInv, Typed, UITyped
<1>2. Commands'
  BY DEF IInv, Commands, Backed, Running, Creating, Exists
<1> QED BY <1>1, <1>2 DEF IInv, Histories, Exists

LEMMA NoneRuns ==
  ASSUME IInv, MutexFree \/ ~on
  PROVE  \A d \in Slots : cmd[d] \in Command /\ Shape(cmd[d]) /\ cmd[d].st \notin Running
BY DEF IInv, Typed, Commands, Backed, MutexFree

\* The server says that the session is dead, to the command that holds the mutex.
LEMMA DeadStep ==
  ASSUME IInv, NEW c \in Slots, Alone(c), DeadLocked(c)
  PROVE  IInv'
<1>1. PICK k : k = [Idle EXCEPT !.st = "done", !.kind = "pass", !.res = "dead"] /\ Finish(c, k)
  BY DEF DeadLocked
<1>2. k \in Command /\ k.st = "done" /\ k.kind = "pass"
  BY <1>1, IdleIs DEF Command, Stage, Kind, Outcome
<1>3. Becomes(c, k)
  BY <1>1, <1>2 DEF Becomes, Finish, Shape
<1>4. /\ cmd' \in [Slots -> Command]
      /\ \A d \in Slots : /\ Shape(cmd'[d]) /\ cmd'[d].st \notin Running
                          /\ Creating(cmd'[d]) => cmd'[d] = cmd[d]
  BY <1>2, <1>3, BecomesOne DEF IInv, Commands, Becomes, Alone, Running, Creating
<1>5. /\ on' = FALSE /\ st' = Fresh /\ pend' = Zeros /\ file' = NoFile
      /\ UNCHANGED <<hist, member, dek, docs, timer>>
  BY DEF DeadLocked, ui
<1>6. Sounds'
  BY <1>5, Forgotten DEF Sounds, Fresh, Zeros
<1>7. FileSound' /\ UITyped'
  BY <1>5 DEF FileSound, UITyped, IInv, Typed
<1> QED BY <1>4, <1>5, <1>6, <1>7, FreshTypes, SessionStep DEF IInv, Typed

LEMMA OffStep ==
  ASSUME IInv, SignOut \/ Lock \/ Restarted \/ \E c \in Slots : SessionOver(c)
  PROVE  IInv'
<1>0. docs \in [Projects -> Docs] /\ timer \in Projects \cup {Personal, None}
      /\ dek \in [Projects -> Nat] /\ pend \in [Projects -> Nat] /\ cmd \in [Slots -> Command]
      /\ (file = NoFile \/ file \in [Projects -> State])
  BY DEF IInv, Typed
<1>a. ASSUME ForgetSession, UNCHANGED <<hist, member, dek, pend, docs, timer>>,
             cmd' \in [Slots -> Command],
             \A d \in Slots : /\ Shape(cmd'[d]) /\ cmd'[d].st \notin Running
                              /\ Creating(cmd'[d]) => cmd'[d] = cmd[d]
      PROVE  IInv'
  <2>1. on' = FALSE /\ st' = Fresh /\ file' = NoFile
    BY <1>a DEF ForgetSession
  <2>2. Sounds'
    BY <1>a, <2>1, Forgotten DEF Sounds, Fresh
  <2>3. FileSound' /\ UITyped'
    BY <1>0, <1>a, <2>1 DEF FileSound, UITyped
  <2> QED BY <1>0, <1>a, <2>1, <2>2, <2>3, FreshTypes, SessionStep
<1>b. ASSUME on' = FALSE, st' = Fresh, dek' = Zeros, pend' = Zeros, UITyped',
             UNCHANGED <<hist, member, file>>, cmd' \in [Slots -> Command],
             \A d \in Slots : /\ Shape(cmd'[d]) /\ cmd'[d].st \notin Running
                              /\ Creating(cmd'[d]) => cmd'[d] = cmd[d]
      PROVE  IInv'
  <2>1. Sounds'
    BY <1>b, Forgotten DEF Sounds, Fresh, Zeros
  <2>2. FileSound'
    BY <1>b DEF IInv, FileSound, Zeros
  <2> QED BY <1>0, <1>b, <2>1, <2>2, FreshTypes, SessionStep
<1>1. CASE SignOut
  <2>1. ForgetSession /\ MutexFree /\ UNCHANGED <<hist, member, dek, pend, cmd, docs, timer>>
    BY <1>1 DEF SignOut, server
  <2> QED BY <1>0, <2>1, <1>a, NoneRuns
<1>2. CASE Lock
  <2>1. /\ on' = FALSE /\ st' = Fresh /\ dek' = Zeros /\ pend' = Zeros /\ MutexFree
        /\ cmd' = [c \in Slots |-> IF cmd[c].st = "queued" THEN Idle ELSE cmd[c]]
        /\ UNCHANGED <<hist, member, file, docs, timer>>
    BY <1>2 DEF Lock, server
  <2>2. /\ cmd' \in [Slots -> Command]
        /\ \A d \in Slots : /\ Shape(cmd'[d]) /\ cmd'[d].st \notin Running
                            /\ Creating(cmd'[d]) => cmd'[d] = cmd[d]
    BY <2>1, NoneRuns, IdleIs DEF Running, Creating
  <2>3. UITyped'
    BY <1>0, <2>1 DEF UITyped
  <2> QED BY <2>1, <2>2, <2>3, <1>b
<1>3. CASE Restarted
  <2>1. /\ on' = FALSE /\ st' = Fresh /\ dek' = Zeros /\ pend' = Zeros
        /\ cmd' = [c \in Slots |-> Idle] /\ docs' = NoDocs /\ timer' = None
        /\ UNCHANGED <<hist, member, file>>
    BY <1>3 DEF Restarted, server
  <2>2. /\ cmd' \in [Slots -> Command]
        /\ \A d \in Slots : /\ Shape(cmd'[d]) /\ cmd'[d].st \notin Running
                            /\ Creating(cmd'[d]) => cmd'[d] = cmd[d]
    BY <2>1, IdleIs DEF Running, Creating
  <2>3. UITyped'
    BY <2>1, DocTypes DEF UITyped
  <2> QED BY <2>1, <2>2, <2>3, <1>b
<1>4. ASSUME NEW c \in Slots, SessionOver(c) PROVE IInv'
  <2>1. Finish(c, Idle) /\ UNCHANGED <<hist, member, dek, pend, docs, timer>>
    BY <1>4 DEF SessionOver, server
  <2>2. Becomes(c, Idle)
    BY <2>1, IdleIs DEF Becomes, Finish
  <2>3. CASE cmd[c].res = "dead"
    <3>1. MutexFree /\ ForgetSession
      BY <1>4, <2>3 DEF SessionOver
    <3>2. /\ cmd' \in [Slots -> Command]
          /\ \A d \in Slots : /\ Shape(cmd'[d]) /\ cmd'[d].st \notin Running
                              /\ Creating(cmd'[d]) => cmd'[d] = cmd[d]
      BY <2>2, <3>1, BecomesOne, NoneRuns, IdleIs DEF IInv, Running, Creating
    <3> QED BY <2>1, <3>1, <3>2, <1>a
  <2>4. CASE cmd[c].res # "dead"
    <3>1. Still /\ UITyped'
      BY <1>0, <1>4, <2>1, <2>4 DEF SessionOver, Still, UITyped
    <3> QED BY <2>1, <3>1, RestartStep
  <2> QED BY <2>3, <2>4
<1> QED BY <1>1, <1>2, <1>3, <1>4

LEMMA OnStep ==
  ASSUME IInv, PairAgain \/ \E c \in Slots : Resume(c)
  PROVE  IInv'
<1>0. docs \in [Projects -> Docs] /\ timer \in Projects \cup {Personal, None}
      /\ dek \in [Projects -> Nat] /\ pend \in [Projects -> Nat] /\ cmd \in [Slots -> Command]
      /\ (file = NoFile \/ file \in [Projects -> State])
  BY DEF IInv, Typed
<1>1. CASE PairAgain
  <2>1. /\ ~on /\ on' = TRUE /\ st' = Fresh /\ file' = Fresh
        /\ UNCHANGED <<hist, member, dek, pend, cmd, docs, timer>>
    BY <1>1 DEF PairAgain, server
  <2>2. Sounds' /\ FileSound' /\ UITyped'
    BY <1>0, <2>1, Forgotten DEF Sounds, FileSound, Fresh, UITyped
  <2> QED BY <1>0, <2>1, <2>2, NoneRuns, FreshTypes, SessionStep
<1>2. ASSUME NEW c \in Slots, Resume(c) PROVE IInv'
  <2>1. /\ ~on /\ file # NoFile /\ on' = TRUE /\ st' = file
        /\ Finish(c, Queued("pass", None, docs))
        /\ UNCHANGED <<hist, member, dek, pend, file, docs, timer>>
    BY <1>2 DEF Resume, server
  <2>2. PICK k : Becomes(c, k) /\ k.st = "queued" /\ k.kind = "pass"
    BY <1>0, <2>1, PassIs DEF Becomes, Finish
  <2>3. /\ cmd' \in [Slots -> Command]
        /\ \A d \in Slots : /\ Shape(cmd'[d]) /\ cmd'[d].st \notin Running
                            /\ Creating(cmd'[d]) => cmd'[d] = cmd[d]
    BY <2>1, <2>2, BecomesOne, NoneRuns DEF IInv, Becomes, Running, Creating
  <2>4. ASSUME NEW p \in Projects PROVE Sound(file[p], dek[p], pend[p], hist[p])
    <3>1. Sound(file[p], 0, 0, hist[p]) /\ dek[p] = 0 /\ Sound(st[p], dek[p], pend[p], hist[p])
      BY <2>1 DEF IInv, FileSound, Sounds
    <3> QED BY <3>1 DEF Sound
  <2>5. Sounds' /\ UITyped'
    BY <1>0, <2>1, <2>4 DEF Sounds, UITyped
  <2>6. FileSound'
    BY <2>1 DEF IInv, FileSound
  <2> QED BY <1>0, <2>1, <2>3, <2>5, <2>6, SessionStep
<1> QED BY <1>1, <1>2

-----------------------------------------------------------------------------
(* Steps of the command that holds the mutex *)

LEMMA PlainIsBacked ==
  ASSUME NEW k, k.st \in {"list", "done", "refetch", "reget"}, on'
  PROVE  Backed(k)'
BY DEF Backed, Creating

LEMMA SelfUpdate ==
  ASSUME IInv, NEW p \in Projects
  PROVE  /\ [st EXCEPT ![p] = st[p]] = st /\ [dek EXCEPT ![p] = dek[p]] = dek
         /\ [pend EXCEPT ![p] = pend[p]] = pend
BY DEF IInv, Typed

\* What the engine knows of one project changes, and the server does not.
LEMMA PointStep ==
  ASSUME IInv, NEW c \in Slots, Alone(c), NEW k, Becomes(c, k), k.st # "queued", Backed(k)',
         UNCHANGED <<hist, member, on, docs, timer>>, file' = file \/ file' = st',
         NEW p \in Projects, NEW s, NEW e, NEW n, Sound(s, e, n, hist[p]),
         st' = [st EXCEPT ![p] = s], dek' = [dek EXCEPT ![p] = e], pend' = [pend EXCEPT ![p] = n]
  PROVE  IInv'
<1>1. s \in State /\ e \in Nat /\ n \in Nat
  BY LenProperties DEF Sound, IInv, Typed
<1>2. st' \in [Projects -> State] /\ dek' \in [Projects -> Nat] /\ pend' \in [Projects -> Nat]
  BY <1>1 DEF IInv, Typed
<1>3. ASSUME NEW q \in Projects PROVE Sound(st'[q], dek'[q], pend'[q], hist'[q])
  <2>1. CASE q = p
    <3>1. st'[q] = s /\ dek'[q] = e /\ pend'[q] = n
      BY <2>1 DEF IInv, Typed
    <3> QED BY <2>1, <3>1
  <2>2. CASE q # p
    <3>1. st'[q] = st[q] /\ dek'[q] = dek[q] /\ pend'[q] = pend[q]
      BY <2>2 DEF IInv, Typed
    <3> QED BY <3>1 DEF IInv, Sounds
  <2> QED BY <2>1, <2>2
<1> QED BY <1>2, <1>3, EngineStep DEF Sounds

\* Some projects are dropped, and their conflicts and keys with them.
LEMMA DropStep ==
  ASSUME IInv, NEW c \in Slots, Alone(c), NEW k, Becomes(c, k), k.st # "queued", Backed(k)',
         UNCHANGED <<hist, member, on, file, docs, timer>>, NEW gone, DropProjects(gone)
  PROVE  IInv'
<1>1. Unknown \in State
  BY FreshTypes DEF Unknown, State, Docs
<1>2. st' \in [Projects -> State] /\ dek' \in [Projects -> Nat] /\ pend' \in [Projects -> Nat]
  BY <1>1 DEF IInv, Typed, DropProjects
<1>3. ASSUME NEW q \in Projects PROVE Sound(st'[q], dek'[q], pend'[q], hist'[q])
  <2>1. CASE q \in gone
    BY <2>1, Forgotten DEF DropProjects
  <2>2. CASE q \notin gone
    BY <2>2 DEF DropProjects, IInv, Sounds
  <2> QED BY <2>1, <2>2
<1> QED BY <1>2, <1>3, EngineStep DEF Sounds

\* What a write leaves true of the device: all it knew, and that it agreed on it.
LEMMA AcceptSound ==
  ASSUME IInv, NEW p \in Projects, NEW v \in Version, Exists(p) => Epoch(p) <= v.dek,
         hist' = [hist EXCEPT ![p] = Append(@, v)]
  PROVE  /\ Sound(st[p], dek[p], pend[p], hist'[p])
         /\ Sound([st[p] EXCEPT !.in = TRUE], dek[p], pend[p], hist'[p])
         /\ Sound(Agreed(Newest(p) + 1, v.doc), v.dek, pend[p], hist'[p])
         /\ Sound(Agreed(Newest(p) + 1, v.doc), v.dek, 0, hist'[p])
<1>1. PICK h \in Seq(Version) :
        /\ h = hist'[p] /\ Ordered(h) /\ Extends(h, hist[p]) /\ h # <<>>
        /\ Len(h) = Newest(p) + 1 /\ h[Len(h)] = v
  <2>1. hist'[p] \in Seq(Version)
    BY OneMore
  <2> QED BY <2>1, OneMore
<1>2. Sound(st[p], dek[p], pend[p], hist[p]) /\ hist[p] \in Seq(Version)
  BY DEF IInv, Typed, Sounds
<1>3. Sound(st[p], dek[p], pend[p], h)
  BY <1>1, <1>2, SoundGrows
<1>4. Sound([st[p] EXCEPT !.in = TRUE], dek[p], pend[p], h)
  BY <1>3, SoundForgets
<1>5. Sound(Agreed(Newest(p) + 1, v.doc), v.dek, pend[p], h)
  BY <1>1, <1>3, SoundRead
<1>6. Sound(Agreed(Newest(p) + 1, v.doc), v.dek, 0, h)
  BY <1>5, SoundForgets
<1> QED BY <1>1, <1>3, <1>4, <1>5, <1>6

\* A write of the holder of the mutex.
LEMMA AcceptStep ==
  ASSUME IInv, NEW c \in Slots, Alone(c), NEW k, Becomes(c, k), k.st = "done" \/ k.st = "list",
         UNCHANGED <<on, docs, timer>>, file' = file \/ file' = st',
         NEW p \in Projects, NEW v \in Version, NEW m \in Membership,
         Exists(p) => Epoch(p) <= v.dek,
         ~Exists(p) => Creating(cmd[c]) /\ cmd[c].id = p,
         hist' = [hist EXCEPT ![p] = Append(@, v)], member' = [member EXCEPT ![p] = m],
         NEW s, NEW e, NEW n, Sound(s, e, n, hist'[p]),
         st' = [st EXCEPT ![p] = s], dek' = [dek EXCEPT ![p] = e], pend' = [pend EXCEPT ![p] = n]
  PROVE  IInv'
<1>1. /\ hist' \in [Projects -> Seq(Version)] /\ hist'[p] # <<>>
      /\ \A q \in Projects : Ordered(hist'[q]) /\ Extends(hist'[q], hist[q])
                             /\ (q # p => hist'[q] = hist[q])
  BY OneMore
<1>2. s \in State /\ e \in Nat /\ n \in Nat
  BY <1>1, LenProperties DEF Sound
<1>3. st' \in [Projects -> State] /\ dek' \in [Projects -> Nat] /\ pend' \in [Projects -> Nat]
      /\ member' \in [Projects -> Membership]
  BY <1>2 DEF IInv, Typed
<1>4. ASSUME NEW q \in Projects PROVE Sound(st'[q], dek'[q], pend'[q], hist'[q])
  <2>1. CASE q = p
    <3>1. st'[q] = s /\ dek'[q] = e /\ pend'[q] = n
      BY <2>1 DEF IInv, Typed
    <3> QED BY <2>1, <3>1
  <2>2. CASE q # p
    <3>1. st'[q] = st[q] /\ dek'[q] = dek[q] /\ pend'[q] = pend[q]
      BY <2>2 DEF IInv, Typed
    <3> QED BY <3>1, <2>2, <1>1 DEF IInv, Sounds
  <2> QED BY <2>1, <2>2
<1>5. Histories'
  <2> SUFFICES ASSUME NEW q \in Projects
               PROVE  Ordered(hist'[q]) /\ (member'[q] # "none" => hist'[q] # <<>>)
    BY DEF Histories, Exists
  <2>1. q # p => member'[q] = member[q]
    BY DEF IInv, Typed
  <2> QED BY <2>1, <1>1 DEF IInv, Histories, Exists
<1>6. Backed(k)'
  BY PlainIsBacked DEF Alone
<1> QED BY <1>1, <1>3, <1>4, <1>5, <1>6, HolderStep DEF Sounds

-----------------------------------------------------------------------------
(* A pass (SyncProjects, syncOneProject, refetchProjectConflict) *)

LEMMA InIs ==
  ASSUME NEW p \in Projects
  PROVE  [st EXCEPT ![p].in = TRUE] = [st EXCEPT ![p] = [st[p] EXCEPT !.in = TRUE]]
OBVIOUS

\* A pass goes on without the project, or to the next step about it.
LEMMA PassGoesOn ==
  ASSUME Typed, NEW c \in Slots, cmd[c].kind = "pass",
         NEW stage \in {"list", "put", "refetch"},
         NEW todo \in SUBSET Projects, NEW await \in SUBSET Projects, NEW gone \in SUBSET Projects,
         NEW id \in Projects \cup {None}, NEW ver \in Nat,
         stage # "list" => id \in Projects /\ cmd[c].local[id] \in Doc
  PROVE  LET k == [cmd[c] EXCEPT !.st = stage, !.todo = todo, !.await = await, !.gone = gone,
                                 !.id = id, !.ver = ver]
         IN  k \in Command /\ Shape(k) /\ k.st = stage /\ k.id = id /\ k.ver = ver
             /\ k.local = cmd[c].local
<1>0. cmd[c] \in Command
  BY DEF Typed
<1>1. PICK k : k = [cmd[c] EXCEPT !.st = stage, !.todo = todo, !.await = await, !.gone = gone,
                                  !.id = id, !.ver = ver]
  OBVIOUS
<1>2. k \in Command /\ k.st = stage /\ k.id = id /\ k.ver = ver /\ k.local = cmd[c].local
      /\ k.kind = "pass"
  <2>1. stage \in Stage
    BY DEF Stage
  <2> QED BY <1>0, <1>1, <2>1 DEF Command
<1>3. Shape(k)
  BY <1>2 DEF Shape
<1> QED BY <1>1, <1>2, <1>3

LEMMA ListStep ==
  ASSUME IInv, NEW c \in Slots, ListProjects(c)
  PROVE  IInv'
<1>0. Alone(c) /\ cmd[c].kind = "pass" /\ cmd[c] \in Command
  BY LocksAlone DEF ListProjects, IInv, Typed
<1>1. CASE DeadLocked(c)
  BY <1>0, <1>1, DeadStep
<1>2. CASE Spend("fault") /\ PassDone(c, "err") /\ UNCHANGED <<server, engine, ui, past>>
  <2>1. Still /\ UNCHANGED <<docs, timer>> /\ "err" \in Outcome
    BY <1>2 DEF Still, server, engine, ui, Outcome
  <2> QED BY <1>0, <1>2, <2>1, AnswerStep
<1>3. ASSUME NEW live, live = {p \in Projects : member[p] # "none"},
             NEW gone, gone = {p \in Projects \ live : st[p].in}, DropProjects(gone),
             Finish(c, [cmd[c] EXCEPT !.st = "list", !.todo = live, !.gone = gone,
                         !.await = {p \in live : member[p] = "awaiting"}]),
             UNCHANGED <<server, on, file, ui, past, spent>>
      PROVE  IInv'
  <2>1. PICK await \in SUBSET Projects : await = {p \in live : member[p] = "awaiting"}
    BY <1>3
  <2>2. live \in SUBSET Projects /\ gone \in SUBSET Projects
    BY <1>3
  <2>3. PICK k : k = [cmd[c] EXCEPT !.st = "list", !.todo = live, !.gone = gone, !.await = await]
    OBVIOUS
  <2>4. k \in Command /\ k.st = "list" /\ k.kind = "pass"
    BY <1>0, <2>1, <2>2, <2>3 DEF Command, Stage
  <2>5. Becomes(c, k)
    BY <1>3, <2>1, <2>3, <2>4 DEF Becomes, Finish, Shape
  <2>6. Backed(k)'
    BY <1>0, <1>3, <2>4, PlainIsBacked DEF Alone
  <2>7. UNCHANGED <<hist, member, on, file, docs, timer>>
    BY <1>3 DEF server, ui
  <2> QED BY <1>0, <1>3, <2>4, <2>5, <2>6, <2>7, DropStep
<1> QED BY <1>1, <1>2, <1>3 DEF ListProjects

\* One project of the list: it leaves it with a view, or is written next.
LEMMA ViewStep ==
  ASSUME IInv, NEW c \in Slots, cmd[c].st \in Running, cmd[c].kind = "pass", NEW p \in Projects,
         NEW d \in Docs,
         Finish(c, View(c, p, d)) \/ (d = cmd[c].local[p] /\ Finish(c, Conflicting(c, p))),
         UNCHANGED <<hist, member, on, file, docs, timer>>,
         NEW s, NEW e, NEW n, Sound(s, e, n, hist[p]),
         st' = [st EXCEPT ![p] = s], dek' = [dek EXCEPT ![p] = e], pend' = [pend EXCEPT ![p] = n]
  PROVE  IInv'
<1>1. Alone(c)
  BY RunsAlone
<1>2. PICK k : Becomes(c, k) /\ k.st = "list"
  BY ViewIs, ConflictIs DEF IInv, Becomes, Finish
<1>3. Backed(k)'
  BY <1>1, <1>2, PlainIsBacked DEF Alone
<1> QED BY <1>1, <1>2, <1>3, PointStep

LEMMA VisitStep ==
  ASSUME IInv, NEW c \in Slots, NEW p \in Projects, VisitProject(c, p)
  PROVE  IInv'
<1>0. /\ cmd[c].st = "list" /\ cmd[c].kind = "pass" /\ cmd[c] \in Command /\ p \in cmd[c].todo
      /\ hist[p] \in Seq(Version) /\ Ordered(hist[p]) /\ (member[p] # "none" => Exists(p))
      /\ Sound(st[p], dek[p], pend[p], hist[p])
  BY DEF VisitProject, IInv, Typed, Commands, Shape, Histories, Sounds
<1>a. cmd[c].st \in Running /\ Alone(c) /\ on
  BY <1>0, RunsAlone DEF Running, Alone
<1>b. NoDoc \in Docs /\ cmd[c].local[p] \in Docs /\ cmd[c].todo \ {p} \in SUBSET Projects
      /\ cmd[c].gone \cup {p} \in SUBSET Projects
  BY <1>0 DEF Docs, Command
<1>1. CASE MarkAwaiting(c, p) /\ UNCHANGED <<server, on, file, ui, past, spent>>
  <2>1. Sound([st[p] EXCEPT !.in = TRUE], 0, pend[p], hist[p])
    BY <1>0, SoundForgets
  <2>2. /\ st' = [st EXCEPT ![p] = [st[p] EXCEPT !.in = TRUE]] /\ dek' = [dek EXCEPT ![p] = 0]
        /\ pend' = [pend EXCEPT ![p] = pend[p]] /\ Finish(c, View(c, p, NoDoc))
    BY <1>1, InIs, SelfUpdate DEF MarkAwaiting
  <2>3. UNCHANGED <<hist, member, on, file, docs, timer>>
    BY <1>1 DEF server, ui
  <2> QED BY <1>0, <1>a, <1>b, <2>1, <2>2, <2>3, ViewStep
<1>2. CASE DropProjects({p}) /\ Finish(c, [cmd[c] EXCEPT !.todo = @ \ {p}, !.gone = @ \cup {p}])
           /\ UNCHANGED <<server, on, file, ui, past, spent>>
  <2>1. PICK k : k = [cmd[c] EXCEPT !.todo = @ \ {p}, !.gone = @ \cup {p}] /\ Finish(c, k)
    BY <1>2
  <2>2. k \in Command /\ k.st = "list" /\ k.kind = "pass"
    BY <1>0, <1>b, <2>1 DEF Command
  <2>5. on' = on
    BY <1>2
  <2>3. Becomes(c, k)
    BY <2>1, <2>2 DEF Becomes, Finish, Shape
  <2>6. Backed(k)'
    BY <1>a, <2>2, <2>5, PlainIsBacked
  <2>4. UNCHANGED <<hist, member, on, file, docs, timer>>
    BY <1>2 DEF server, ui
  <2> QED BY <1>2, <1>a, <2>2, <2>3, <2>4, <2>6, DropStep
<1>3. CASE member[p] = "keyed" /\ ReadProject(c, p) /\ UNCHANGED <<server, on, file, ui, past, spent>>
  <2>0. UNCHANGED <<hist, member, on, file, docs, timer>> /\ Exists(p)
    BY <1>0, <1>3 DEF server, ui
  <2>1. PICK top \in Version : top = hist[p][Newest(p)] /\ top.dek = Epoch(p)
    BY <2>0, TopIs
  <2>2. top.doc \in Doc /\ top.dek \in Nat /\ Newest(p) \in Nat \ {0}
    BY <2>0, <2>1, TopIs DEF Version
  <2>3. /\ Sound(st[p], top.dek, pend[p], hist[p])
        /\ Sound(Agreed(Newest(p), top.doc), top.dek, pend[p], hist[p])
        /\ Sound([st[p] EXCEPT !.in = TRUE], top.dek, Newest(p), hist[p])
    BY <1>0, <2>0, <2>1, SoundRead DEF Newest, Exists
  <2>4. dek' = [dek EXCEPT ![p] = top.dek]
    BY <1>3, <2>1 DEF ReadProject
  <2>5. CASE LocalChanged(c, p) /\ ~RemoteMoved(p) /\ UNCHANGED <<st, pend>>
             /\ Finish(c, [cmd[c] EXCEPT !.st = "put", !.id = p, !.ver = Newest(p)])
    <3>1. PICK k : k = [cmd[c] EXCEPT !.st = "put", !.id = p, !.ver = Newest(p)]
      OBVIOUS
    <3>2. cmd[c].local[p] \in Doc /\ st[p].ver = Newest(p)
      BY <1>b, <2>5 DEF LocalChanged, RemoteMoved, Docs
    <3>3. k \in Command /\ k.st = "put" /\ k.kind = "pass" /\ k.id = p /\ k.ver = Newest(p)
          /\ k.local = cmd[c].local
      BY <1>0, <2>2, <3>1 DEF Command, Stage
    <3>4. Becomes(c, k)
      BY <2>5, <3>1, <3>2, <3>3 DEF Becomes, Finish, Shape
    <3>5. dek'[p] = top.dek /\ st'[p] = st[p] /\ hist'[p] = hist[p]
      BY <2>0, <2>4, <2>5 DEF IInv, Typed
    <3>6. Len(hist'[p]) = Newest(p) /\ Newest(p) \in 1..Newest(p) /\ hist'[p][Newest(p)] = top
      BY <2>1, <2>2, <3>5 DEF Newest
    <3>7. Backed(k)'
      BY <1>a, <2>0, <3>2, <3>3, <3>5, <3>6 DEF Backed, Creating, Running, Newest
    <3>8. st' = [st EXCEPT ![p] = st[p]] /\ pend' = [pend EXCEPT ![p] = pend[p]]
      BY <2>5, SelfUpdate
    <3> QED BY <1>a, <2>0, <2>3, <2>4, <3>3, <3>4, <3>7, <3>8, PointStep
  <2>6. CASE Commit(p, Newest(p), top.doc) /\ Finish(c, View(c, p, top.doc)) /\ UNCHANGED pend
    <3>1. st' = [st EXCEPT ![p] = Agreed(Newest(p), top.doc)] /\ pend' = [pend EXCEPT ![p] = pend[p]]
      BY <2>6, SelfUpdate DEF Commit
    <3>2. top.doc \in Docs
      BY <2>2 DEF Docs
    <3> QED BY <1>0, <1>a, <2>0, <2>3, <2>4, <2>6, <3>1, <3>2, ViewStep
  <2>7. CASE st' = [st EXCEPT ![p].in = TRUE] /\ pend' = [pend EXCEPT ![p] = Newest(p)]
             /\ Finish(c, Conflicting(c, p))
    <3>1. st' = [st EXCEPT ![p] = [st[p] EXCEPT !.in = TRUE]]
      BY <2>7, InIs
    <3> QED BY <1>0, <1>a, <1>b, <2>0, <2>3, <2>4, <2>7, <3>1, ViewStep
  <2> QED BY <1>3, <2>1, <2>5, <2>6, <2>7 DEF ReadProject
<1>4. CASE DeadLocked(c)
  BY <1>a, <1>4, DeadStep
<1>5. CASE Finish(c, [cmd[c] EXCEPT !.todo = @ \ {p}]) /\ UNCHANGED <<server, engine, ui, past>>
  <2>1. PICK k : k = [cmd[c] EXCEPT !.todo = @ \ {p}] /\ Finish(c, k)
    BY <1>5
  <2>2. k \in Command /\ k.st = "list" /\ k.kind = "pass"
    BY <1>0, <1>b, <2>1 DEF Command
  <2>3. UNCHANGED <<hist, member, on, st, dek, pend, file, docs, timer>>
    BY <1>5 DEF server, engine, ui
  <2>4. Becomes(c, k)
    BY <2>1, <2>2 DEF Becomes, Finish, Shape
  <2>6. Backed(k)'
    BY <1>a, <2>2, <2>3, PlainIsBacked
  <2>5. st' \in [Projects -> State] /\ dek' \in [Projects -> Nat] /\ pend' \in [Projects -> Nat]
        /\ Sounds'
    BY <2>3 DEF IInv, Typed, Sounds
  <2> QED BY <1>a, <2>2, <2>3, <2>4, <2>5, <2>6, EngineStep
<1> QED BY <1>1, <1>2, <1>3, <1>4, <1>5 DEF VisitProject
LEMMA PutStep ==
  ASSUME IInv, NEW c \in Slots, PassPut(c)
  PROVE  IInv'
<1>0. /\ cmd[c].st = "put" /\ cmd[c].kind = "pass" /\ cmd[c] \in Command /\ Shape(cmd[c])
      /\ Backed(cmd[c])
  BY DEF PassPut, IInv, Typed, Commands, Shape
<1>1. PICK p \in Projects, d \in Docs : p = cmd[c].id /\ d = cmd[c].local[p] /\ d \in Doc
  BY <1>0 DEF Shape, Docs
<1>2. /\ cmd[c].st \in Running /\ Alone(c) /\ hist[p] \in Seq(Version)
      /\ Sound(st[p], dek[p], pend[p], hist[p]) /\ (member[p] # "none" => Exists(p))
  BY <1>0, RunsAlone DEF Running, IInv, Typed, Histories, Sounds
<1>3. Sound([st[p] EXCEPT !.in = TRUE], dek[p], pend[p], hist[p])
  BY <1>2, SoundForgets
<1>4. dek = [dek EXCEPT ![p] = dek[p]] /\ pend = [pend EXCEPT ![p] = pend[p]]
  BY SelfUpdate
<1>a. CASE member[p] # "none" /\ Newest(p) = cmd[c].ver /\ Accept(p, d, dek[p], member[p])
           /\ ((Commit(p, Newest(p) + 1, d) /\ UNCHANGED spent)
               \/ (Spend("fault") /\ st' = [st EXCEPT ![p].in = TRUE]))
           /\ Finish(c, View(c, p, d)) /\ UNCHANGED <<on, dek, pend, file, ui, past>>
  <2>1. Exists(p) /\ Epoch(p) = dek[p] /\ dek[p] \in Nat
    BY <1>0, <1>1, <1>2, <1>a DEF Backed, Epoch, Sound
  <2>2. PICK v \in Version : v = [doc |-> d, dek |-> dek[p], by |-> "me"]
    BY <1>1, <2>1 DEF Version
  <2>3. v.doc = d /\ v.dek = dek[p] /\ Epoch(p) <= v.dek
    BY <2>1, <2>2
  <2>4. hist' = [hist EXCEPT ![p] = Append(@, v)] /\ member' = [member EXCEPT ![p] = member[p]]
    BY <1>a, <2>2 DEF Accept
  <2>5. member[p] \in Membership
    BY DEF IInv, Typed
  <2>6. PICK s : st' = [st EXCEPT ![p] = s] /\ Sound(s, dek[p], pend[p], hist'[p])
    <3>1. /\ Sound([st[p] EXCEPT !.in = TRUE], dek[p], pend[p], hist'[p])
          /\ Sound(Agreed(Newest(p) + 1, d), dek[p], pend[p], hist'[p])
      BY <2>3, <2>4, AcceptSound
    <3>2. CASE Commit(p, Newest(p) + 1, d)
      BY <3>1, <3>2 DEF Commit
    <3>3. CASE st' = [st EXCEPT ![p].in = TRUE]
      BY <3>1, <3>3, InIs
    <3> QED BY <1>a, <3>2, <3>3
  <2>7. PICK k : Becomes(c, k) /\ k.st = "list"
    BY <1>0, <1>a, ViewIs DEF IInv, Becomes, Finish
  <2>8. UNCHANGED <<on, docs, timer>> /\ file' = file /\ dek' = [dek EXCEPT ![p] = dek[p]]
        /\ pend' = [pend EXCEPT ![p] = pend[p]]
    BY <1>4, <1>a DEF ui
  <2> QED BY <1>2, <2>1, <2>3, <2>4, <2>5, <2>6, <2>7, <2>8, AcceptStep
<1>b. CASE Finish(c, [cmd[c] EXCEPT !.st = "refetch"]) /\ UNCHANGED <<server, engine, ui, past, spent>>
  <2>1. PICK k : k = [cmd[c] EXCEPT !.st = "refetch"] /\ Finish(c, k)
    BY <1>b
  <2>2. k \in Command /\ k.st = "refetch" /\ k.kind = "pass" /\ k.id = p /\ k.local[p] \in Doc
    BY <1>0, <1>1, <2>1 DEF Command, Stage
  <2>3. Becomes(c, k)
    BY <2>1, <2>2 DEF Becomes, Finish, Shape
  <2>4. UNCHANGED <<hist, member, on, st, dek, pend, file, docs, timer>>
    BY <1>b DEF server, engine, ui
  <2>5. Backed(k)'
    BY <1>2, <2>2, <2>4, PlainIsBacked DEF Alone
  <2>6. st' \in [Projects -> State] /\ dek' \in [Projects -> Nat] /\ pend' \in [Projects -> Nat]
        /\ Sounds'
    BY <2>4 DEF IInv, Typed, Sounds
  <2> QED BY <1>2, <2>2, <2>3, <2>4, <2>5, <2>6, EngineStep
<1>c. CASE st' = [st EXCEPT ![p].in = TRUE] /\ Finish(c, View(c, p, d))
           /\ UNCHANGED <<server, on, dek, pend, file, ui, past, spent>>
  <2>1. /\ UNCHANGED <<hist, member, on, file, docs, timer>>
        /\ st' = [st EXCEPT ![p] = [st[p] EXCEPT !.in = TRUE]]
        /\ dek' = [dek EXCEPT ![p] = dek[p]] /\ pend' = [pend EXCEPT ![p] = pend[p]]
        /\ Finish(c, View(c, p, d))
    BY <1>c, <1>4, InIs DEF server, ui
  <2> QED BY <1>0, <1>2, <1>3, <2>1, ViewStep
<1>d. CASE DeadLocked(c)
  BY <1>2, <1>d, DeadStep
<1> QED BY <1>1, <1>a, <1>b, <1>c, <1>d DEF PassPut

LEMMA RefetchStep ==
  ASSUME IInv, NEW c \in Slots, Refetch(c)
  PROVE  IInv'
<1>0. /\ cmd[c].st = "refetch" /\ cmd[c].kind = "pass" /\ cmd[c] \in Command /\ Shape(cmd[c])
  BY DEF Refetch, IInv, Typed, Commands, Shape
<1>1. PICK p \in Projects, d \in Docs : p = cmd[c].id /\ d = cmd[c].local[p]
  BY <1>0 DEF Shape, Docs
<1>2. /\ cmd[c].st \in Running /\ hist[p] \in Seq(Version) /\ Ordered(hist[p])
      /\ Sound(st[p], dek[p], pend[p], hist[p]) /\ (member[p] # "none" => Exists(p))
  BY <1>0 DEF Running, IInv, Typed, Histories, Sounds
<1>3. Sound([st[p] EXCEPT !.in = TRUE], dek[p], pend[p], hist[p])
  BY <1>2, SoundForgets
<1>4. /\ UNCHANGED <<hist, member, on, file, docs, timer>>
      /\ dek' = [dek EXCEPT ![p] = dek[p]]
  BY SelfUpdate DEF Refetch, server, ui
<1>5. pend = [pend EXCEPT ![p] = pend[p]]
  BY SelfUpdate
<1>a. CASE st' = [st EXCEPT ![p].in = TRUE] /\ Finish(c, View(c, p, d)) /\ UNCHANGED pend
  <2>1. st' = [st EXCEPT ![p] = [st[p] EXCEPT !.in = TRUE]] /\ pend' = [pend EXCEPT ![p] = pend[p]]
        /\ Finish(c, View(c, p, d))
    BY <1>a, <1>5, InIs
  <2> QED BY <1>0, <1>2, <1>3, <1>4, <2>1, ViewStep
<1>b. CASE member[p] \in {"keyed", "foreign"} /\ OpensWithOldKey(p)
  <2>1. Exists(p) /\ Epoch(p) = dek[p]
    BY <1>2, <1>b DEF OpensWithOldKey
  <2>2. PICK top : top = hist[p][Newest(p)] /\ top.dek = dek[p]
    BY <2>1, TopIs
  <2>3. /\ Sound(Agreed(Newest(p), top.doc), dek[p], pend[p], hist[p])
        /\ Sound([st[p] EXCEPT !.in = TRUE], dek[p], Newest(p), hist[p])
    BY <1>2, <2>1, <2>2, SoundRead DEF Newest, Exists
  <2>4. CASE top.doc = d /\ Commit(p, Newest(p), d) /\ Finish(c, View(c, p, d)) /\ UNCHANGED pend
    <3>1. st' = [st EXCEPT ![p] = Agreed(Newest(p), top.doc)] /\ pend' = [pend EXCEPT ![p] = pend[p]]
      BY <2>4, <1>5 DEF Commit
    <3> QED BY <1>0, <1>2, <1>4, <2>3, <2>4, <3>1, ViewStep
  <2>5. CASE st' = [st EXCEPT ![p].in = TRUE] /\ pend' = [pend EXCEPT ![p] = Newest(p)]
             /\ Finish(c, Conflicting(c, p))
    <3>1. st' = [st EXCEPT ![p] = [st[p] EXCEPT !.in = TRUE]]
      BY <2>5, InIs
    <3> QED BY <1>0, <1>1, <1>2, <1>4, <2>3, <2>5, <3>1, ViewStep
  <2>6. \/ st' = [st EXCEPT ![p].in = TRUE] /\ Finish(c, View(c, p, d)) /\ UNCHANGED pend
        \/ IF top.doc = d
             THEN Commit(p, Newest(p), d) /\ Finish(c, View(c, p, d)) /\ UNCHANGED pend
             ELSE /\ st' = [st EXCEPT ![p].in = TRUE]
                  /\ pend' = [pend EXCEPT ![p] = Newest(p)]
                  /\ Finish(c, Conflicting(c, p))
    BY <1>1, <2>2 DEF Refetch
  <2> QED BY <1>a, <2>4, <2>5, <2>6
<1> QED BY <1>1, <1>a, <1>b DEF Refetch

LEMMA EndStep ==
  ASSUME IInv, NEW c \in Slots, EndPass(c)
  PROVE  IInv'
<1>0. cmd[c].st = "list" /\ cmd[c].kind = "pass" /\ Alone(c)
  BY RunsAlone DEF EndPass, IInv, Commands, Shape, Running
<1>1. PICK k : Becomes(c, k) /\ k.st = "done"
  BY <1>0, PassDoneIs DEF EndPass, IInv, Outcome
<1>2. UNCHANGED <<hist, member, on, st, dek, pend, docs, timer>> /\ on /\ Save
  BY <1>0 DEF EndPass, server, ui, Alone
<1>3. file' = st'
  BY <1>2 DEF Save
<1>4. Backed(k)'
  BY <1>1, <1>2, PlainIsBacked
<1>5. st' \in [Projects -> State] /\ dek' \in [Projects -> Nat] /\ pend' \in [Projects -> Nat]
      /\ Sounds'
  BY <1>2 DEF IInv, Typed, Sounds
<1> QED BY <1>0, <1>1, <1>2, <1>3, <1>4, <1>5, EngineStep

-----------------------------------------------------------------------------
(* Operations on one project *)

\* An operation that writes: its command, and what it is about.
LEMMA OpIs ==
  ASSUME IInv, NEW c \in Slots,
         \/ Locks(c) /\ on /\ cmd[c].kind \in {"push", "keep", "take", "rotate", "create"}
         \/ cmd[c].st \in {"reget", "retry"}
  PROVE  /\ Alone(c) /\ cmd[c] \in Command /\ Shape(cmd[c]) /\ Backed(cmd[c])
         /\ cmd[c].id \in Projects /\ cmd[c].local[cmd[c].id] \in Docs
<1>1. cmd[c] \in Command /\ Shape(cmd[c]) /\ Backed(cmd[c])
  BY DEF IInv, Typed, Commands
<1>2. Alone(c)
  BY LocksAlone, RunsAlone DEF Running
<1>3. cmd[c].id \in Projects
  BY <1>1 DEF Shape
<1>4. cmd[c].local[cmd[c].id] \in Docs
  BY <1>1, <1>3 DEF Command
<1> QED BY <1>1, <1>2, <1>3, <1>4

\* What one project looks like to an operation.
LEMMA ProjectIs ==
  ASSUME IInv, NEW p \in Projects
  PROVE  /\ hist[p] \in Seq(Version) /\ Ordered(hist[p]) /\ (member[p] # "none" => Exists(p))
         /\ Sound(st[p], dek[p], pend[p], hist[p]) /\ member[p] \in Membership
         /\ st \in [Projects -> State] /\ dek \in [Projects -> Nat] /\ pend \in [Projects -> Nat]
         /\ Sounds
BY DEF IInv, Typed, Histories, Sounds

\* An operation that ends with a result while the engine stays as it is.
LEMMA OpAnswers ==
  ASSUME IInv, NEW c \in Slots, NEW res \in Outcome, OpDone(c, res, NoDoc), UNCHANGED <<server, engine, ui>>
  PROVE  IInv'
<1>1. Still /\ UNCHANGED <<docs, timer>>
  BY DEF Still, server, engine, ui
<1> QED BY <1>1, AnswerStep

\* The server took the write of an operation, whether the answer arrives or not.
LEMMA AppliedStep ==
  ASSUME IInv, NEW c \in Slots, Alone(c), UNCHANGED ui, NEW p \in Projects, p = cmd[c].id,
         NEW d \in Doc, NEW e \in Nat, NEW m \in Membership,
         Exists(p) => Epoch(p) <= e, ~Exists(p) => Creating(cmd[c]),
         Accept(p, d, e, m), Applied(c, p, d, e)
  PROVE  IInv'
<1>1. PICK v \in Version : v = [doc |-> d, dek |-> e, by |-> "me"]
  BY DEF Version
<1>2. v.doc = d /\ v.dek = e
  BY <1>1
<1>3. hist' = [hist EXCEPT ![p] = Append(@, v)] /\ member' = [member EXCEPT ![p] = m]
  BY <1>1 DEF Accept
<1>4. /\ Sound(st[p], dek[p], pend[p], hist'[p])
      /\ Sound(Agreed(Newest(p) + 1, d), e, pend[p], hist'[p])
      /\ Sound(Agreed(Newest(p) + 1, d), e, 0, hist'[p])
  BY <1>2, <1>3, AcceptSound
<1>5. UNCHANGED <<docs, timer>>
  BY DEF ui
<1>6. /\ st = [st EXCEPT ![p] = st[p]] /\ dek = [dek EXCEPT ![p] = dek[p]]
      /\ pend = [pend EXCEPT ![p] = pend[p]]
  BY SelfUpdate
<1>7. {"ok", "err"} \subseteq Outcome /\ d \in Docs /\ NoDoc \in Docs
  BY DEF Outcome, Docs
<1>a. CASE /\ Commit(p, Newest(p) + 1, d) /\ dek' = [dek EXCEPT ![p] = e]
           /\ pend' = IF cmd[c].kind = "keep" THEN [pend EXCEPT ![p] = 0] ELSE pend
           /\ OpDone(c, "ok", d) /\ UNCHANGED <<on, spent>> /\ Save
  <2>1. PICK k : Becomes(c, k) /\ k.st = "done"
    BY <1>7, <1>a, OpDoneIs DEF IInv
  <2>2. file' = st' /\ on' = on /\ st' = [st EXCEPT ![p] = Agreed(Newest(p) + 1, d)]
    BY <1>a DEF Save, Alone, Commit
  <2>3. PICK n : pend' = [pend EXCEPT ![p] = n] /\ Sound(Agreed(Newest(p) + 1, d), e, n, hist'[p])
    BY <1>4, <1>6, <1>a
  <2> QED BY <1>2, <1>3, <1>5, <1>a, <2>1, <2>2, <2>3, AcceptStep
<1>b. CASE OpDone(c, "err", NoDoc) /\ UNCHANGED engine
  <2>1. PICK k : Becomes(c, k) /\ k.st = "done"
    BY <1>7, <1>b, OpDoneIs DEF IInv
  <2>2. /\ on' = on /\ file' = file /\ st' = [st EXCEPT ![p] = st[p]]
        /\ dek' = [dek EXCEPT ![p] = dek[p]] /\ pend' = [pend EXCEPT ![p] = pend[p]]
    BY <1>b, <1>6 DEF engine
  <2> QED BY <1>2, <1>3, <1>4, <1>5, <2>1, <2>2, AcceptStep
<1> QED BY <1>a, <1>b DEF Applied

LEMMA PushStep ==
  ASSUME IInv, NEW c \in Slots, PushProject(c)
  PROVE  IInv'
<1>0. /\ Alone(c) /\ cmd[c] \in Command /\ Shape(cmd[c]) /\ cmd[c].st = "queued" /\ cmd[c].kind = "push"
      /\ UNCHANGED <<ui, past>>
  BY OpIs DEF PushProject, Locks
<1>1. PICK p \in Projects, d \in Doc : p = cmd[c].id /\ d = cmd[c].local[p] /\ dek[p] # 0
  BY <1>0 DEF Shape, PushProject
<1>2. {"conflict", "removed"} \subseteq Outcome /\ NoDoc \in Docs
  BY DEF Outcome, Docs
<1>a. CASE member[p] # "none" /\ Newest(p) = Expected(p) /\ Accept(p, d, dek[p], member[p])
           /\ Applied(c, p, d, dek[p])
  <2>1. Exists(p) /\ Newest(p) = st[p].ver /\ Newest(p) # 0 /\ dek[p] \in Nat /\ member[p] \in Membership
    BY <1>a, ProjectIs, TopIs DEF Expected
  <2>2. Epoch(p) <= dek[p]
    BY <1>1, <2>1, ProjectIs DEF Sound, Epoch
  <2> QED BY <1>0, <1>1, <1>a, <2>1, <2>2, AppliedStep
<1>b. CASE OpDone(c, "conflict", NoDoc) /\ UNCHANGED <<server, engine, spent>>
  BY <1>0, <1>2, <1>b, OpAnswers
<1>c. CASE DropProjects({p}) /\ OpDone(c, "removed", NoDoc) /\ UNCHANGED <<server, on, file, spent>>
  <2>1. PICK k : Becomes(c, k) /\ k.st = "done"
    BY <1>2, <1>c, OpDoneIs DEF IInv
  <2>2. UNCHANGED <<hist, member, on, file, docs, timer>>
    BY <1>0, <1>c DEF server, ui
  <2>3. Backed(k)'
    BY <1>0, <2>1, <2>2, PlainIsBacked DEF Alone
  <2> QED BY <1>0, <1>c, <2>1, <2>2, <2>3, DropStep
<1> QED BY <1>1, <1>a, <1>b, <1>c DEF PushProject

LEMMA TakeStep ==
  ASSUME IInv, NEW c \in Slots, TakeRemote(c)
  PROVE  IInv'
<1>0. Alone(c) /\ cmd[c].id \in Projects
  BY OpIs DEF TakeRemote
<1>a. PICK p \in Projects : p = cmd[c].id
  BY <1>0
<1>1. PICK n : p = cmd[c].id /\ n = pend[p] /\ n # 0
  BY <1>a DEF TakeRemote
<1>2. n \in 1..Len(hist[p]) /\ Sound(Agreed(n, hist[p][n].doc), dek[p], 0, hist[p])
  BY <1>1, ProjectIs, SoundTake
<1>3. hist[p][n].doc \in Docs /\ "ok" \in Outcome
  BY <1>2, ProjectIs, VersionAt DEF Docs, Outcome
<1>4. /\ st' = [st EXCEPT ![p] = Agreed(n, hist[p][n].doc)] /\ pend' = [pend EXCEPT ![p] = 0]
      /\ OpDone(c, "ok", hist[p][n].doc) /\ UNCHANGED <<on, dek>> /\ Save
      /\ UNCHANGED <<hist, member, docs, timer>>
  BY <1>1 DEF TakeRemote, Commit, server, ui
<1>5. dek' = [dek EXCEPT ![p] = dek[p]] /\ file' = st' /\ on'
  BY <1>0, <1>4, SelfUpdate DEF Save, Alone
<1>6. PICK k : Becomes(c, k) /\ k.st = "done"
  BY <1>3, <1>4, OpDoneIs DEF IInv
<1>7. Backed(k)'
  BY <1>5, <1>6, PlainIsBacked
<1> QED BY <1>0, <1>2, <1>4, <1>5, <1>6, <1>7, PointStep

LEMMA KeepStep ==
  ASSUME IInv, NEW c \in Slots, KeepLocal(c)
  PROVE  IInv'
<1>0. /\ Alone(c) /\ cmd[c] \in Command /\ Shape(cmd[c]) /\ cmd[c].kind = "keep"
      /\ cmd[c].id \in Projects /\ cmd[c].local[cmd[c].id] \in Docs /\ UNCHANGED <<ui, past>>
  BY OpIs DEF KeepLocal
<1>1. PICK p \in Projects, d \in Doc : p = cmd[c].id /\ d = Sealed(cmd[c].local[p])
                                       /\ dek[p] # 0 /\ pend[p] # 0
  BY <1>0 DEF KeepLocal, Sealed, Docs, Doc
<1>2. {"conflict", "err"} \subseteq Outcome /\ NoDoc \in Docs
  BY DEF Outcome, Docs
<1>a. CASE member[p] # "none" /\ Newest(p) = pend[p] /\ Accept(p, d, dek[p], member[p])
           /\ Applied(c, p, d, dek[p])
  <2>1. Exists(p) /\ dek[p] \in Nat /\ member[p] \in Membership
    BY <1>a, ProjectIs
  <2>2. Epoch(p) <= dek[p]
    BY <1>1, <1>a, ProjectIs DEF Sound, Epoch
  <2> QED BY <1>0, <1>1, <1>a, <2>1, <2>2, AppliedStep
<1>b. CASE pend' = [pend EXCEPT ![p] = 0] /\ OpDone(c, "conflict", NoDoc)
           /\ UNCHANGED <<server, on, st, dek, file, spent>>
  <2>1. PICK k : Becomes(c, k) /\ k.st = "done"
    BY <1>2, <1>b, OpDoneIs DEF IInv
  <2>2. UNCHANGED <<hist, member, on, file, docs, timer>>
        /\ st' = [st EXCEPT ![p] = st[p]] /\ dek' = [dek EXCEPT ![p] = dek[p]]
    BY <1>0, <1>b, SelfUpdate DEF server, ui
  <2>3. Backed(k)'
    BY <1>0, <2>1, <2>2, PlainIsBacked DEF Alone
  <2>4. Sound(st[p], dek[p], 0, hist[p])
    BY ProjectIs, SoundForgets
  <2> QED BY <1>0, <1>b, <2>1, <2>2, <2>3, <2>4, PointStep
<1>c. CASE OpDone(c, "err", NoDoc) /\ UNCHANGED <<server, engine, spent>>
  BY <1>0, <1>2, <1>c, OpAnswers
<1> QED BY <1>1, <1>a, <1>b, <1>c DEF KeepLocal

LEMMA RotateStep ==
  ASSUME IInv, NEW c \in Slots, RemoveMember(c) \/ RemoveReget(c) \/ RemoveRetry(c)
  PROVE  IInv'
<1>0. /\ Alone(c) /\ cmd[c] \in Command /\ Shape(cmd[c]) /\ Backed(cmd[c])
      /\ cmd[c].id \in Projects /\ cmd[c].kind = "rotate" /\ UNCHANGED <<ui, past>>
  <2>1. \/ Locks(c) /\ on /\ cmd[c].kind = "rotate" /\ cmd[c].st = "queued"
        \/ cmd[c].st \in {"reget", "retry"}
    BY DEF RemoveMember, RemoveReget, RemoveRetry, Locks
  <2>2. cmd[c].kind = "rotate"
    BY <2>1 DEF IInv, Commands, Shape
  <2> QED BY <2>1, <2>2, OpIs DEF RemoveMember, RemoveReget, RemoveRetry
<1>1. PICK p \in Projects : p = cmd[c].id
  BY <1>0
<1>2. {"conflict", "err"} \subseteq Outcome /\ Rekeyed(c) \in Membership
  BY DEF Outcome, Rekeyed, Membership
<1>3. ASSUME NEW d \in Doc, member[p] # "none", Accept(p, d, Epoch(p) + 1, Rekeyed(c)),
             Applied(c, p, d, Epoch(p) + 1)
      PROVE  IInv'
  <2>1. Exists(p) /\ Epoch(p) \in Nat
    BY <1>3, ProjectIs, TopIs
  <2>2. PICK e \in Nat : e = Epoch(p) + 1 /\ Epoch(p) <= e
    BY <2>1
  <2> QED BY <1>0, <1>1, <1>2, <1>3, <2>1, <2>2, AppliedStep
<1>4. ASSUME NEW k, Finish(c, k), k \in Command, Shape(k), k.st \in {"reget", "retry"}, Backed(k)',
             UNCHANGED <<server, engine>>
      PROVE  IInv'
  <2>1. UNCHANGED <<hist, member, on, st, dek, pend, file, docs, timer>>
    BY <1>0, <1>4 DEF server, engine, ui
  <2>2. st' \in [Projects -> State] /\ dek' \in [Projects -> Nat] /\ pend' \in [Projects -> Nat]
        /\ Sounds'
    BY <2>1 DEF IInv, Typed, Sounds
  <2>3. Becomes(c, k) /\ k.st # "queued"
    BY <1>4 DEF Becomes, Finish
  <2> QED BY <1>0, <1>4, <2>1, <2>2, <2>3, EngineStep
<1>5. ASSUME NEW res \in Outcome, OpDone(c, res, NoDoc), UNCHANGED <<server, engine>> PROVE IInv'
  BY <1>0, <1>5, OpAnswers
<1>a. CASE RemoveMember(c)
  <2>0. PICK d \in Doc : d = cmd[c].local[p]
    BY <1>0, <1>1, <1>a DEF RemoveMember, Locks, Shape
  <2>1. CASE Finish(c, [cmd[c] EXCEPT !.st = "reget"]) /\ UNCHANGED <<server, engine, spent>>
    <3>1. PICK k : k = [cmd[c] EXCEPT !.st = "reget"] /\ Finish(c, k)
      BY <2>1
    <3>2. k \in Command /\ k.st = "reget" /\ k.kind = "rotate" /\ k.id = p /\ k.local = cmd[c].local
      BY <1>0, <1>1, <3>1 DEF Command, Stage
    <3>3. Shape(k)
      BY <2>0, <3>2 DEF Shape
    <3>4. on'
      BY <1>0, <2>1 DEF Alone, engine
    <3>5. Backed(k)'
      BY <3>2, <3>4, PlainIsBacked
    <3> QED BY <2>1, <3>1, <3>2, <3>3, <3>5, <1>4
  <2>2. \/ /\ member[p] # "none" /\ Accept(p, d, Epoch(p) + 1, Rekeyed(c))
           /\ Applied(c, p, d, Epoch(p) + 1)
        \/ Finish(c, [cmd[c] EXCEPT !.st = "reget"]) /\ UNCHANGED <<server, engine, spent>>
        \/ OpDone(c, "err", NoDoc) /\ UNCHANGED <<server, engine, spent>>
    BY <1>1, <1>a, <2>0 DEF RemoveMember
  <2> QED BY <1>2, <1>3, <1>5, <2>1, <2>2
<1>b. CASE RemoveReget(c)
  <2>0. UNCHANGED <<server, engine>>
    BY <1>b DEF RemoveReget
  <2>1. CASE member[p] = "keyed" /\ Finish(c, RetryFresh(c))
    <3>1. Exists(p)
      BY <2>1, ProjectIs
    <3>2. PICK top \in Version : top = hist[p][Newest(p)] /\ Newest(p) \in Nat \ {0}
      BY <3>1, TopIs
    <3>3. PICK local \in [Projects -> Docs] :
            local = [cmd[c].local EXCEPT ![p] = top.doc] /\ local[p] = top.doc /\ top.doc \in Doc
      <4>1. top.doc \in Doc /\ top.doc \in Docs
        BY DEF Version, Docs
      <4>2. cmd[c].local \in [Projects -> Docs]
        BY <1>0 DEF Command
      <4>3. [cmd[c].local EXCEPT ![p] = top.doc] \in [Projects -> Docs]
            /\ [cmd[c].local EXCEPT ![p] = top.doc][p] = top.doc
        BY <4>1, <4>2
      <4> QED BY <4>1, <4>3
    <3>4. PICK k : k = [cmd[c] EXCEPT !.st = "retry", !.ver = Newest(p), !.local = local]
      OBVIOUS
    <3>5. k = RetryFresh(c)
      BY <1>0, <1>1, <3>2, <3>3, <3>4 DEF RetryFresh, Command
    <3>6. k \in Command /\ k.st = "retry" /\ k.kind = "rotate" /\ k.id = p /\ k.ver = Newest(p)
          /\ k.local = local
      BY <1>0, <1>1, <3>2, <3>3, <3>4 DEF Command, Stage
    <3>7. Shape(k)
      BY <3>6 DEF Shape
    <3>8. on' /\ hist' = hist
      BY <1>0, <2>0 DEF Alone, engine, server
    <3>9. Backed(k)'
      BY <3>2, <3>3, <3>6, <3>8 DEF Backed, Creating, Newest
    <3> QED BY <2>0, <2>1, <3>5, <3>6, <3>7, <3>9, <1>4
  <2> QED BY <1>1, <1>2, <1>5, <1>b, <2>0, <2>1 DEF RemoveReget
<1>c. CASE RemoveRetry(c)
  <2>0. PICK d \in Doc : d = cmd[c].local[p]
    <3>1. cmd[c].ver \in 1..Newest(p) /\ cmd[c].local[p] = hist[p][cmd[c].ver].doc
      BY <1>0, <1>1, <1>c DEF RemoveRetry, Backed
    <3> QED BY <3>1, ProjectIs, VersionAt DEF Newest
  <2>2. \/ /\ member[p] # "none" /\ Accept(p, d, Epoch(p) + 1, Rekeyed(c))
           /\ Applied(c, p, d, Epoch(p) + 1)
        \/ OpDone(c, "conflict", NoDoc) /\ UNCHANGED <<server, engine, spent>>
        \/ OpDone(c, "err", NoDoc) /\ UNCHANGED <<server, engine, spent>>
    BY <1>1, <1>c, <2>0 DEF RemoveRetry
  <2> QED BY <1>2, <1>3, <1>5, <2>2
<1> QED BY <1>a, <1>b, <1>c

LEMMA CreateStep ==
  ASSUME IInv, NEW c \in Slots, CreateProject(c)
  PROVE  IInv'
<1>0. /\ Alone(c) /\ cmd[c].id \in Projects /\ Creating(cmd[c]) /\ Backed(cmd[c])
      /\ UNCHANGED <<ui, past>>
  BY OpIs DEF CreateProject, Locks, Creating
<1>1. PICK p \in Projects : p = cmd[c].id /\ ~Exists(p)
  BY <1>0 DEF Backed
<1>2. {} \in Doc /\ 1 \in Nat /\ "keyed" \in Membership /\ "err" \in Outcome
  BY DEF Doc, Membership, Outcome
<1>a. CASE Accept(p, {}, 1, "keyed") /\ Applied(c, p, {}, 1)
  BY <1>0, <1>1, <1>2, <1>a, AppliedStep
<1>b. CASE OpDone(c, "err", NoDoc) /\ UNCHANGED <<server, engine>>
  BY <1>0, <1>2, <1>b, OpAnswers
<1> QED BY <1>1, <1>a, <1>b DEF CreateProject

-----------------------------------------------------------------------------
(* The theorems *)

LEMMA StepInv == IInv /\ [Next]_vars => IInv'
<1> SUFFICES ASSUME IInv, [Next]_vars PROVE IInv'
  OBVIOUS
<1>1. CASE UNCHANGED vars
  <2>1. Still /\ cmd' = cmd /\ UNCHANGED <<docs, timer>>
    BY <1>1 DEF vars, Still
  <2> QED BY <2>1, IdleStep DEF UITyped, IInv, Typed
<1>2. CASE Members
  BY <1>2, OthersStep
<1>3. CASE Engine
  BY <1>3, AnswersStep, ListStep, PutStep, RefetchStep, EndStep, VisitStep, PushStep, TakeStep, KeepStep,
     CreateStep, RotateStep DEF Engine
<1>4. CASE Handlers
  BY <1>4, HandlersStep, OffStep DEF Handlers
<1>5. CASE Keys
  <2>1. CASE \/ \E p \in Projects, d \in Doc : EditProject(p, d)
             \/ \E h \in Hosts : \E from, to \in Projects \cup {Personal} : MoveHost(h, from, to)
             \/ DecideLater \/ LeaveCreate
             \/ \E c \in Slots : \/ PushTimerFires(c) \/ EnterProjectsTab(c)
                                 \/ \E p \in Projects, self \in BOOLEAN : ConfirmRemove(c, p, self)
                                 \/ \E keep \in BOOLEAN : ChooseSide(c, keep)
    BY <2>1, KeysStep
  <2>2. CASE Crash \/ ChooseLocked \/ Lock \/ SignOut
    BY <2>2, OffStep DEF Crash, ChooseLocked
  <2>3. CASE PairAgain \/ \E c \in Slots : Resume(c)
    BY <2>3, OnStep
  <2>4. CASE \E c \in Slots, p \in Projects : SubmitCreate(c, p)
    BY <2>4, CreateKeyStep
  <2> QED BY <1>5, <2>1, <2>2, <2>3, <2>4 DEF Keys
<1> QED BY <1>1, <1>2, <1>3, <1>4, <1>5 DEF Next

\* Every reachable state satisfies the inductive invariant: what is typed, what each
\* command in flight rests on, ordered histories, and a device that knows only what
\* the server has (Engine.mu and sess.Projects, projectDEKs, pendingProjects).
THEOREM Inductive == Spec => []IInv
<1> QED BY InitInv, StepInv, PTL DEF Spec

\* What the device believes it agreed on, in memory and in the session file, is a
\* version of the server with that content (ProjectSyncState).
THEOREM AgreementHolds == Spec => []ProjectAgreement
<1>1. IInv => ProjectAgreement
  <2> SUFFICES ASSUME IInv PROVE ProjectAgreement
    OBVIOUS
  <2>1. TrueOf(st)
    BY DEF IInv, Typed, Sounds, Sound, TrueOf, Newest
  <2>2. CASE file = NoFile
    <3>1. DOMAIN file = {}
      BY <2>2 DEF NoFile
    <3> QED BY <2>1, <3>1 DEF TrueOf, ProjectAgreement
  <2>3. CASE file # NoFile
    <3>1. DOMAIN file = Projects
      BY <2>3 DEF IInv, Typed
    <3>2. \A p \in Projects : Sound(file[p], 0, 0, hist[p])
      BY <2>3 DEF IInv, FileSound
    <3>3. TrueOf(file)
      BY <3>1, <3>2 DEF Sound, TrueOf, Newest
    <3> QED BY <2>1, <3>3 DEF ProjectAgreement
  <2> QED BY <2>2, <2>3
<1> QED BY <1>1, Inductive, PTL

\* No version is sealed under an older project key than one before it, by this device
\* or another (PutProjectVault, RotateProject).
THEOREM KeysAdvance == Spec => []KeysOnlyAdvance
<1>1. IInv => KeysOnlyAdvance
  <2> SUFFICES ASSUME IInv, NEW p \in Projects, NEW i \in 1..Newest(p) - 1
               PROVE  hist[p][i].dek <= hist[p][i + 1].dek
    BY DEF KeysOnlyAdvance
  <2>1. Ordered(hist[p]) /\ Len(hist[p]) \in Nat
    BY ProjectIs, LenProperties
  <2>2. i \in 1..Len(hist[p]) /\ i + 1 \in 1..Len(hist[p]) /\ i <= i + 1
    BY <2>1 DEF Newest
  <2> QED BY <2>1, <2>2 DEF Ordered
<1> QED BY <1>1, Inductive, PTL

\* Whose version a step adds, and of which project.
LEMMA WhoWrote ==
  ASSUME IInv, NEW p \in Projects, NEW q \in Projects, NEW v,
         hist' = [hist EXCEPT ![q] = Append(hist[q], v)], MyPush(p)
  PROVE  p = q /\ v.by = "me" /\ hist'[p][Newest(p) + 1] = v
<1>1. hist[p] \in Seq(Version) /\ hist \in [Projects -> Seq(Version)]
  BY ProjectIs DEF IInv, Typed
<1>2. Len(hist[p]) \in Nat
  BY <1>1, LenProperties
<1>3. CASE p # q
  <2>1. hist'[p] = hist[p]
    BY <1>1, <1>3
  <2> QED BY <1>2, <2>1 DEF MyPush, Newest
<1>4. CASE p = q
  <2>1. hist'[p] = Append(hist[p], v)
    BY <1>1, <1>4
  <2>2. PICK S : S = Version \cup {v}
    OBVIOUS
  <2>3. hist[p] \in Seq(S) /\ v \in S
    <3>1. \A i \in 1..Len(hist[p]) : hist[p][i] \in S
      BY <1>1, <2>2, ElementOfSeq
    <3> QED BY <1>1, <2>2, <3>1
  <2>4. hist'[p][Newest(p) + 1] = v
    BY <2>1, <2>3, AppendProperties DEF Newest
  <2> QED BY <1>4, <2>4 DEF MyPush
<1> QED BY <1>3, <1>4

LEMMA NobodyWrote ==
  ASSUME IInv, hist' = hist, NEW p \in Projects
  PROVE  ~ MyPush(p)
<1>1. Len(hist[p]) \in Nat
  BY ProjectIs, LenProperties
<1> QED BY <1>1 DEF MyPush, Newest

\* What a write of this device replaces: nothing, a version it agreed on or reported as
\* a conflict, or the same document.
Seen(p) == \/ Newest(p) \in {st[p].ver, pend[p]}
           \/ hist'[p][Newest(p) + 1].doc = hist[p][Newest(p)].doc

LEMMA AcceptWrote ==
  ASSUME IInv, NEW p \in Projects, NEW q \in Projects, NEW d, NEW e, NEW m, Accept(q, d, e, m), MyPush(p)
  PROVE  p = q /\ hist'[p][Newest(p) + 1].doc = d
<1>1. PICK v : v = [doc |-> d, dek |-> e, by |-> "me"]
  OBVIOUS
<1>2. hist' = [hist EXCEPT ![q] = Append(hist[q], v)]
  BY <1>1 DEF Accept
<1>3. v.doc = d
  BY <1>1
<1> QED BY <1>2, <1>3, WhoWrote

LEMMA PushIsSeen ==
  ASSUME IInv, [Next]_vars, NEW p \in Projects, MyPush(p), Exists(p)
  PROVE  Seen(p)
<1>1. CASE UNCHANGED vars
  BY <1>1, NobodyWrote DEF vars
<1>2. CASE Members
  <2>1. PICK q \in Projects : \/ \E d \in Doc : OtherPush(q, d)
                              \/ \E m \in Membership : OtherRotate(q, m) \/ OtherGrant(q, m)
    BY <1>2 DEF Members
  <2>2. ASSUME NEW d \in Doc, OtherPush(q, d) PROVE FALSE
    <3>1. PICK v : v = [doc |-> d, dek |-> Epoch(q), by |-> "other"]
      OBVIOUS
    <3>2. hist' = [hist EXCEPT ![q] = Append(hist[q], v)]
      BY <2>2, <3>1 DEF OtherPush
    <3>3. v.by = "other"
      BY <3>1
    <3> QED BY <3>2, <3>3, WhoWrote
  <2>3. ASSUME NEW m \in Membership, OtherRotate(q, m) PROVE FALSE
    <3>0. Exists(q)
      BY <2>3, ProjectIs DEF OtherRotate
    <3>1. PICK top \in Version : top = hist[q][Newest(q)]
      BY <3>0, TopIs
    <3>2. PICK v : v = [top EXCEPT !.dek = top.dek + 1, !.by = "other"]
      OBVIOUS
    <3>3. v.by = "other"
      BY <3>2 DEF Version
    <3>4. hist' = [hist EXCEPT ![q] = Append(hist[q], v)]
      BY <2>3, <3>1, <3>2 DEF OtherRotate
    <3> QED BY <3>3, <3>4, WhoWrote
  <2>4. ASSUME NEW m \in Membership, OtherGrant(q, m) PROVE FALSE
    BY <2>4, NobodyWrote DEF OtherGrant
  <2> QED BY <2>1, <2>2, <2>3, <2>4
<1>3. CASE hist' = hist
  BY <1>3, NobodyWrote
<1>4. ASSUME NEW c \in Slots, PassPut(c), hist' # hist PROVE Seen(p)
  <2>0. cmd[c].st = "put" /\ cmd[c].id \in Projects /\ Backed(cmd[c])
    BY <1>4 DEF PassPut, IInv, Commands, Shape
  <2>1. Newest(cmd[c].id) = cmd[c].ver
        /\ Accept(cmd[c].id, cmd[c].local[cmd[c].id], dek[cmd[c].id], member[cmd[c].id])
    BY <1>4 DEF PassPut, DeadLocked, server
  <2>2. p = cmd[c].id
    BY <2>0, <2>1, AcceptWrote
  <2> QED BY <2>0, <2>1, <2>2 DEF Backed, Seen
<1>5. ASSUME NEW c \in Slots, PushProject(c), hist' # hist PROVE Seen(p)
  <2>0. cmd[c].id \in Projects
    BY <1>5, OpIs DEF PushProject
  <2>1. Newest(cmd[c].id) = st[cmd[c].id].ver
        /\ Accept(cmd[c].id, cmd[c].local[cmd[c].id], dek[cmd[c].id], member[cmd[c].id])
    BY <1>5 DEF PushProject, Expected, server
  <2>2. p = cmd[c].id
    BY <2>0, <2>1, AcceptWrote
  <2> QED BY <2>1, <2>2 DEF Seen
<1>6. ASSUME NEW c \in Slots, KeepLocal(c), hist' # hist PROVE Seen(p)
  <2>0. cmd[c].id \in Projects
    BY <1>6, OpIs DEF KeepLocal
  <2>1. Newest(cmd[c].id) = pend[cmd[c].id]
        /\ Accept(cmd[c].id, Sealed(cmd[c].local[cmd[c].id]), dek[cmd[c].id], member[cmd[c].id])
    BY <1>6 DEF KeepLocal, server
  <2>2. p = cmd[c].id
    BY <2>0, <2>1, AcceptWrote
  <2> QED BY <2>1, <2>2 DEF Seen
<1>7. ASSUME NEW c \in Slots, RemoveMember(c), hist' # hist PROVE Seen(p)
  <2>0. cmd[c].id \in Projects
    BY <1>7, OpIs DEF RemoveMember
  <2>1. Newest(cmd[c].id) = st[cmd[c].id].ver
        /\ Accept(cmd[c].id, cmd[c].local[cmd[c].id], Epoch(cmd[c].id) + 1, Rekeyed(c))
    BY <1>7 DEF RemoveMember, server
  <2>2. p = cmd[c].id
    BY <2>0, <2>1, AcceptWrote
  <2> QED BY <2>1, <2>2 DEF Seen
<1>8. ASSUME NEW c \in Slots, RemoveRetry(c), hist' # hist PROVE Seen(p)
  <2>0. cmd[c].id \in Projects /\ Backed(cmd[c]) /\ cmd[c].st = "retry"
    BY <1>8, OpIs DEF RemoveRetry
  <2>1. Newest(cmd[c].id) = cmd[c].ver
        /\ Accept(cmd[c].id, cmd[c].local[cmd[c].id], Epoch(cmd[c].id) + 1, Rekeyed(c))
    BY <1>8 DEF RemoveRetry, server
  <2>2. p = cmd[c].id /\ hist'[p][Newest(p) + 1].doc = cmd[c].local[cmd[c].id]
    BY <2>0, <2>1, AcceptWrote
  <2> QED BY <2>0, <2>1, <2>2 DEF Backed, Seen
<1>9. ASSUME NEW c \in Slots, CreateProject(c), hist' # hist PROVE Seen(p)
  <2>0. cmd[c].id \in Projects /\ ~Exists(cmd[c].id)
    BY <1>9, OpIs DEF CreateProject, Locks, Backed, Creating
  <2>1. Accept(cmd[c].id, {}, 1, "keyed")
    BY <1>9 DEF CreateProject, server
  <2>2. p = cmd[c].id
    BY <2>0, <2>1, AcceptWrote
  <2> QED BY <2>0, <2>2
<1>10. CASE Engine
  <2> SUFFICES ASSUME NEW c \in Slots,
                \/ PassSignedOut(c) \/ ListProjects(c) \/ Refetch(c) \/ EndPass(c)
                \/ \E q \in Projects : VisitProject(c, q)
                \/ OpSignedOut(c) \/ OpFails(c) \/ ResolveEvaporated(c) \/ TakeRemote(c) \/ RemoveReget(c)
               PROVE  hist' = hist
    BY <1>3, <1>4, <1>5, <1>6, <1>7, <1>8, <1>9, <1>10 DEF Engine
  <2>1. CASE PassSignedOut(c) \/ OpSignedOut(c) \/ OpFails(c) \/ ResolveEvaporated(c) \/ TakeRemote(c)
             \/ RemoveReget(c) \/ Refetch(c) \/ EndPass(c)
    BY <2>1 DEF PassSignedOut, OpSignedOut, OpFails, ResolveEvaporated, TakeRemote, RemoveReget,
                Refetch, EndPass, server
  <2>2. CASE ListProjects(c)
    BY <2>2 DEF ListProjects, DeadLocked, server
  <2>3. ASSUME NEW q \in Projects, VisitProject(c, q) PROVE hist' = hist
    BY <2>3 DEF VisitProject, DeadLocked, server
  <2> QED BY <2>1, <2>2, <2>3
<1>11. CASE Handlers
  <2>1. hist' = hist
    BY <1>11 DEF Handlers, ProjectsSynced, SessionOver, ProjectOpDone, ProjectCreated, server
  <2> QED BY <2>1, <1>3
<1>12. CASE Keys
  <2>1. hist' = hist
    BY <1>12 DEF Keys, EditProject, MoveHost, Crash, ChooseLocked, Restarted, DecideLater, LeaveCreate, Lock,
         SignOut, PairAgain, PushTimerFires, EnterProjectsTab, Resume, SubmitCreate, ConfirmRemove,
         ChooseSide, server
  <2> QED BY <2>1, <1>3
<1> QED BY <1>1, <1>2, <1>10, <1>11, <1>12 DEF Next

\* A write of this device over a version that is there replaces one it agreed on or
\* reported as a conflict, or writes the same document back (the expected version
\* of PushProject, ResolveProject, RemoveMember and of a pass's write).
THEOREM NothingReplacedUnseen == Spec => NoBlindPush
<1>1. IInv /\ [Next]_vars =>
        [\A p \in Projects : MyPush(p) /\ Exists(p) =>
           \/ Newest(p) \in {st[p].ver, pend[p]}
           \/ hist'[p][Newest(p) + 1].doc = hist[p][Newest(p)].doc]_vars
  BY PushIsSeen DEF Seen
<1> QED BY <1>1, Inductive, PTL DEF Spec, NoBlindPush

-----------------------------------------------------------------------------
(* The identity of the account (I, the module ProjectIdentity over         *)
(* variables of its own, the other half of update_projects.go): no key is  *)
(* used before it is in a vault file, and an account keeps its access.     *)

CONSTANTS MaxMints, MaxUnsaved, MaxCmds
VARIABLES pub, wrap, remote, other, vid, saved, dirty, behind, eng, cmds, ever, asked, granted,
          flags, budget

I == INSTANCE ProjectIdentity WITH ui <- flags, spent <- budget

KeyPair == [x : Int, seed : Nat]
Kinds   == {"new", "rotate", "upgrade", "republish", "check", "boot", "pass", "finalize", "remove"}
Results == {"queued", "ok", "err", "same", "differs", "generate", "needSync", "noIdentity"}
Request == [kind : Kinds, key : KeyPair, st : Results, old : BOOLEAN]
Budgets == {"mint", "other", "fault", "unsaved", "key"}

\* The keys some vault file has held, no key, and the one nobody on the account has.
Trail == ever \cup {I!NoKey, I!Foreign}

\* A command gives up the published key only when the user asked for it, and carries
\* a key that was saved, as long as no write of the file failed.
Right(d) ==
  /\ d \in Request
  /\ d.kind \in {"rotate", "republish"} => asked
  /\ budget.unsaved = 0 => d.key \in Trail

IdentityTyped ==
  /\ budget \in [Budgets -> Nat] /\ asked \in BOOLEAN
  /\ pub \in KeyPair /\ remote \in KeyPair /\ other \in KeyPair /\ vid \in KeyPair
  /\ saved \in KeyPair
  /\ eng \in [on : BOOLEAN, key : KeyPair, gate : BOOLEAN, dek : BOOLEAN]

\* What the vault file, the payload on the server and the other device hold was in a
\* file; what this device uses and publishes too, unless a write of its file failed.
Saved ==
  /\ IsFiniteSet(ever)
  /\ saved \in Trail /\ remote \in Trail /\ other \in Trail
  /\ budget.unsaved = 0 => pub \in Trail /\ eng.key \in Trail /\ vid \in Trail

IdentityInv == IdentityTyped /\ Saved /\ \A d \in cmds : Right(d)

\* Time only goes on.
Later ==
  /\ budget' \in [Budgets -> Nat] /\ (budget'.unsaved = 0 => budget.unsaved = 0)
  /\ ever \subseteq ever' /\ asked' \in BOOLEAN /\ (asked => asked')

LEMMA KeysAre ==
  /\ I!NoKey \in KeyPair /\ I!Foreign \in KeyPair /\ I!NoKey \in Trail /\ I!Foreign \in Trail
  /\ I!NoKey.x = 0 /\ I!Foreign.x = -1
BY DEF I!NoKey, I!Foreign, I!Key, KeyPair, Trail

\* The trail stays finite, so that there is always another seed.
LEMMA TrailGrows ==
  ASSUME Saved, NEW k
  PROVE  IsFiniteSet(ever \cup {k})
BY FS_AddElement DEF Saved

LEMMA GrownIs ==
  ASSUME Saved, NEW x \in Int
  PROVE  I!Grown(x) \in KeyPair /\ I!Grown(x).x = x
<1>1. PICK same : same = {k \in ever : k.x = x}
  OBVIOUS
<1>2. IsFiniteSet(same)
  BY <1>1, FS_Subset DEF Saved
<1>3. PICK n \in Nat : n = Cardinality(same)
  BY <1>2, FS_CardinalityType
<1>4. I!Grown(x) = [x |-> x, seed |-> 1 + n]
  <2>1. I!Grown(x) = I!Key(x, 1 + Cardinality(same))
    BY <1>1, Zenon DEF I!Grown, I!Cardinality, Cardinality
  <2> QED BY <1>3, <2>1 DEF I!Key
<1> QED BY <1>3, <1>4 DEF KeyPair

LEMMA SpendIs ==
  ASSUME budget \in [Budgets -> Nat], NEW b \in Budgets, I!Spend(b)
  PROVE  budget' \in [Budgets -> Nat] /\ (budget'.unsaved = 0 => budget.unsaved = 0)
BY DEF I!Spend, Budgets

LEMMA Onward ==
  ASSUME IdentityInv, Later, NEW more, cmds' \subseteq cmds \cup more,
         \A d \in more : Right(d)'
  PROVE  \A d \in cmds' : Right(d)'
<1> SUFFICES ASSUME NEW d \in cmds' PROVE Right(d)'
  OBVIOUS
<1>1. CASE d \in more
  BY <1>1
<1>2. CASE d \in cmds
  BY <1>2 DEF IdentityInv, Right, Later, Trail
<1> QED BY <1>1, <1>2

\* An answer is the command with its result.
LEMMA AnswerIs ==
  ASSUME IdentityInv, Later, NEW c \in cmds, NEW res \in Results
  PROVE  /\ Right(I!Answer(c, res))' /\ Right([c EXCEPT !.old = TRUE])'
<1>1. Right(c)
  BY DEF IdentityInv
<1>2. Right(c)'
  BY <1>1 DEF Right, Later, Trail
<1>3. PICK d : d = I!Answer(c, res)
  OBVIOUS
<1>4. d \in Request /\ d.kind = c.kind /\ d.key = c.key
  BY <1>1, <1>3 DEF I!Answer, Right, Request
<1>5. PICK e : e = [c EXCEPT !.old = TRUE]
  OBVIOUS
<1>6. e \in Request /\ e.kind = c.kind /\ e.key = c.key
  BY <1>1, <1>5 DEF Right, Request
<1>7. Right(d)' /\ Right(e)'
  BY <1>2, <1>4, <1>6 DEF Right
<1> QED BY <1>3, <1>5, <1>7

\* A new command.
LEMMA CommandIs ==
  ASSUME NEW kind \in Kinds, NEW k \in KeyPair
  PROVE  /\ I!Cmd(kind, k) \in Request /\ I!Cmd(kind, k).kind = kind /\ I!Cmd(kind, k).key = k
BY DEF I!Cmd, Request, Results

\* A step that changes no key and no command but by an answer.
LEMMA Answered ==
  ASSUME IdentityInv, NEW c \in cmds, NEW res \in Results, I!Answers(c, res),
         UNCHANGED <<ever, asked>>
  PROVE  Later /\ \A d \in cmds' : Right(d)'
<1>1. Later
  <2>1. budget' = budget \/ I!Spend("fault")
    BY DEF I!Answers
  <2>2. budget' \in [Budgets -> Nat] /\ (budget'.unsaved = 0 => budget.unsaved = 0)
    BY <2>1, SpendIs DEF IdentityInv, IdentityTyped, Budgets
  <2> QED BY <2>2 DEF Later, IdentityInv, IdentityTyped
<1>2. \E r \in {res, "err"} : cmds' = (cmds \ {c}) \cup {I!Answer(c, r)}
  BY DEF I!Answers
<1>3. PICK r \in {res, "err"} : cmds' = (cmds \ {c}) \cup {I!Answer(c, r)}
  BY <1>2
<1>4. r \in Results
  BY <1>3 DEF Results
<1>5. Right(I!Answer(c, r))'
  BY <1>1, <1>4, AnswerIs
<1> QED BY <1>1, <1>3, <1>5, Onward

LEMMA Stays ==
  ASSUME IdentityInv, budget' \in [Budgets -> Nat], budget'.unsaved = 0 => budget.unsaved = 0,
         UNCHANGED <<ever, asked>>
  PROVE  Later
BY DEF Later, IdentityInv, IdentityTyped

LEMMA MintedIs ==
  IdentityInv => I!Minted \in KeyPair /\ budget.mint + 1 \in Nat
BY DEF IdentityInv, IdentityTyped, I!Minted, I!Key, KeyPair, Budgets

LEMMA Unmoved ==
  ASSUME IdentityInv, Later, IdentityTyped', Saved', cmds' = cmds
  PROVE  IdentityInv'
<1>1. PICK more : more = {}
  OBVIOUS
<1>2. \A d \in cmds' : Right(d)'
  BY <1>1, Onward
<1> QED BY <1>2 DEF IdentityInv

\* The other device, the admins and the server.
LEMMA ElsewhereKeeps == IdentityInv /\ I!Elsewhere => IdentityInv'
<1> SUFFICES ASSUME IdentityInv, I!Elsewhere PROVE IdentityInv'
  OBVIOUS
<1>0. IdentityTyped /\ Saved /\ cmds' = cmds /\ vid' = vid /\ saved' = saved /\ eng' = eng
  BY DEF IdentityInv, I!Elsewhere, I!OtherGenerates, I!OtherPushes, I!OtherPulls, I!OtherUpgrades,
         I!Swap, I!AdminGrants, I!local
<1>1. CASE I!OtherGenerates
  <2>1. /\ other' = I!Minted /\ pub' = I!Minted /\ ever' = ever \cup {I!Minted}
        /\ remote' = remote /\ asked' = asked /\ budget' = [budget EXCEPT !.mint = @ + 1]
    BY <1>1 DEF I!OtherGenerates
  <2>2. budget' \in [Budgets -> Nat] /\ budget'.unsaved = budget.unsaved
    BY <1>0, <2>1 DEF IdentityTyped, Budgets
  <2>3. IdentityTyped'
    BY <1>0, <2>1, <2>2, MintedIs DEF IdentityTyped
  <2>4. Saved' /\ Later
    BY <1>0, <2>1, <2>2, TrailGrows DEF Saved, Later, Trail, IdentityTyped
  <2> QED BY <1>0, <2>3, <2>4, Unmoved
<1>2. ASSUME I!Spend("other") PROVE budget' \in [Budgets -> Nat] /\ (budget'.unsaved = 0 => budget.unsaved = 0)
  BY <1>0, <1>2, SpendIs DEF IdentityTyped, Budgets
<1>3. CASE I!OtherPushes
  <2>1. /\ remote' = other /\ I!Spend("other") /\ ever' = ever /\ pub' = pub /\ other' = other
        /\ asked' = (asked \/ remote.x \notin {0, other.x})
    BY <1>3 DEF I!OtherPushes
  <2>2. IdentityTyped' /\ Later
    BY <1>0, <1>2, <2>1 DEF IdentityTyped, Later
  <2>3. Saved'
    BY <1>0, <1>2, <2>1 DEF Saved, Trail
  <2> QED BY <1>0, <2>2, <2>3, Unmoved
<1>4. CASE I!OtherPulls
  <2>1. other' = remote /\ I!Spend("other") /\ UNCHANGED <<ever, asked, pub, remote>>
    BY <1>4 DEF I!OtherPulls, I!history
  <2>2. IdentityTyped' /\ Later
    BY <1>0, <1>2, <2>1 DEF IdentityTyped, Later
  <2>3. Saved'
    BY <1>0, <1>2, <2>1 DEF Saved, Trail
  <2> QED BY <1>0, <2>2, <2>3, Unmoved
<1>5. CASE I!OtherUpgrades
  <2>1. PICK k : k = I!Grown(other.x)
    OBVIOUS
  <2>2. /\ other' = k /\ pub' = k /\ ever' = ever \cup {k} /\ I!Spend("other")
        /\ remote' = remote /\ asked' = asked
    BY <1>5, <2>1 DEF I!OtherUpgrades
  <2>3. k \in KeyPair
    BY <1>0, <2>1, GrownIs DEF IdentityTyped, KeyPair
  <2>4. IdentityTyped' /\ Later
    BY <1>0, <1>2, <2>2, <2>3 DEF IdentityTyped, Later
  <2>5. Saved'
    BY <1>0, <1>2, <2>2, TrailGrows DEF Saved, Trail
  <2> QED BY <1>0, <2>4, <2>5, Unmoved
<1>6. CASE I!Swap
  <2>1. pub' = I!Foreign /\ I!Spend("other") /\ UNCHANGED <<ever, asked, other, remote>>
    BY <1>6 DEF I!Swap, I!history
  <2>2. IdentityTyped' /\ Later
    BY <1>0, <1>2, <2>1, KeysAre DEF IdentityTyped, Later
  <2>3. Saved'
    BY <1>0, <1>2, <2>1 DEF Saved, Trail
  <2> QED BY <1>0, <2>2, <2>3, Unmoved
<1>7. CASE I!AdminGrants
  <2>1. /\ I!Spend("other") /\ UNCHANGED <<ever, pub, other, remote>>
        /\ asked' = (asked \/ pub = I!Foreign)
    BY <1>7 DEF I!AdminGrants
  <2>2. IdentityTyped' /\ Later
    BY <1>0, <1>2, <2>1 DEF IdentityTyped, Later
  <2>3. Saved'
    BY <1>0, <1>2, <2>1 DEF Saved, Trail
  <2> QED BY <1>0, <2>2, <2>3, Unmoved
<1> QED BY <1>1, <1>3, <1>4, <1>5, <1>6, <1>7 DEF I!Elsewhere

\* The engine answers a command, and sends the server no key but the command's.
LEMMA EngineKeeps ==
  ASSUME IdentityInv, NEW c \in cmds, I!Engine(c)
  PROVE  IdentityInv'
<1>0. IdentityTyped /\ Saved /\ Right(c)
  BY DEF IdentityInv
<1>1. CASE I!Remove(c)
  <2>1. /\ I!Answers(c, "ok") /\ UNCHANGED <<pub, remote, other, vid, saved, eng, ever>>
        /\ asked' = asked \/ asked' = TRUE
    BY <1>1 DEF I!Remove, I!local
  <2>2. /\ budget' \in [Budgets -> Nat] /\ (budget'.unsaved = 0 => budget.unsaved = 0)
        /\ \E r \in {"ok", "err"} : cmds' = (cmds \ {c}) \cup {I!Answer(c, r)}
    BY <1>0, <2>1, SpendIs DEF I!Answers, IdentityTyped, Budgets
  <2>3. Later /\ IdentityTyped'
    <3>1. asked' \in BOOLEAN /\ (asked => asked')
      <4>1. CASE asked' = asked
        BY <1>0, <4>1 DEF IdentityTyped
      <4>2. CASE asked' = TRUE
        BY <4>2
      <4> QED BY <2>1, <4>1, <4>2
    <3> QED BY <1>0, <2>1, <2>2, <3>1 DEF Later, IdentityTyped
  <2>4. PICK r \in {"ok", "err"} : cmds' = (cmds \ {c}) \cup {I!Answer(c, r)}
    BY <2>2
  <2>5. r \in Results
    BY DEF Results
  <2>6. Right(I!Answer(c, r))'
    BY <2>3, <2>5, AnswerIs
  <2>7. Saved'
    BY <1>0, <2>1, <2>2 DEF Saved, Trail
  <2> QED BY <2>3, <2>4, <2>6, <2>7, Onward DEF IdentityInv
<1>2. CASE \/ I!Publish(c) \/ I!Check(c) \/ I!Boot(c) \/ I!Pass(c) \/ I!Finalize(c) \/ I!Fails(c)
  <2>1. /\ UNCHANGED <<remote, other, vid, saved, ever, asked>>
        /\ pub' = pub \/ pub' = c.key
        /\ eng' = eng \/ eng' = [eng EXCEPT !.dek = (eng.key # I!NoKey /\ I!Opens(eng.key, wrap))]
    BY <1>2 DEF I!Publish, I!Check, I!Boot, I!Pass, I!Finalize, I!Fails, I!local, I!history,
                I!server
  <2>2. \/ \E r \in Results : I!Answers(c, r)
        \/ I!Fails(c)
    BY <1>2 DEF I!Publish, I!Check, I!Boot, I!Pass, I!Finalize, Results
  <2>3. Later /\ \A d \in cmds' : Right(d)'
    <3>1. ASSUME NEW r \in Results, I!Answers(c, r) PROVE Later /\ \A d \in cmds' : Right(d)'
      BY <2>1, <3>1, Answered
    <3>2. ASSUME I!Fails(c) PROVE Later /\ \A d \in cmds' : Right(d)'
      <4>1. /\ budget' = budget \/ I!Spend("fault")
            /\ cmds' = (cmds \ {c}) \cup {I!Answer(c, "err")}
        BY <3>2 DEF I!Fails
      <4>2. budget' \in [Budgets -> Nat] /\ (budget'.unsaved = 0 => budget.unsaved = 0)
        BY <1>0, <4>1, SpendIs DEF IdentityTyped, Budgets
      <4>3. Later
        BY <2>1, <4>2, Stays
      <4>4. Right(I!Answer(c, "err"))'
        BY <4>3, AnswerIs DEF Results
      <4> QED BY <4>1, <4>3, <4>4, Onward
    <3> QED BY <2>2, <3>1, <3>2
  <2>4. IdentityTyped'
    BY <1>0, <2>1, <2>3 DEF IdentityTyped, Later, Right, Request
  <2>5. Saved'
    <3>1. eng'.key = eng.key
      BY <1>0, <2>1 DEF IdentityTyped
    <3> QED BY <1>0, <2>1, <2>3, <3>1 DEF Saved, Trail, Later, Right
  <2> QED BY <2>3, <2>4, <2>5 DEF IdentityInv
<1> QED BY <1>1, <1>2 DEF I!Engine

\* Commands that carry no key, or the key of the vault.
Plain == {I!Cmd(k, I!NoKey) : k \in {"pass", "finalize", "remove", "boot"}}
         \cup {I!Cmd(k, vid) : k \in {"check", "new"}}

LEMMA PlainRight ==
  ASSUME IdentityInv, Later, NEW d \in Plain
  PROVE  Right(d)'
<1>1. PICK k \in {"pass", "finalize", "remove", "boot", "check", "new"}, key \in {I!NoKey, vid} :
        d = I!Cmd(k, key)
  BY DEF Plain
<1>2. key \in KeyPair /\ (budget.unsaved = 0 => key \in Trail)
  BY KeysAre DEF IdentityInv, IdentityTyped, Saved
<1>3. d \in Request /\ d.kind = k /\ d.key = key
  BY <1>1, <1>2, CommandIs DEF Kinds
<1> QED BY <1>2, <1>3 DEF Right, Later, Trail

LEMMA Settled ==
  ASSUME IdentityInv, Later, IdentityTyped', Saved', NEW more, cmds' \subseteq cmds \cup more,
         \A d \in more : Right(d)'
  PROVE  IdentityInv'
<1>1. \A d \in cmds' : Right(d)'
  BY Onward
<1> QED BY <1>1 DEF IdentityInv

LEMMA SettledBy ==
  ASSUME IdentityInv, Later, IdentityTyped', Saved', NEW d, cmds' \subseteq cmds \cup {d}, Right(d)'
  PROVE  IdentityInv'
<1>1. PICK more : more = {d}
  OBVIOUS
<1>2. cmds' \subseteq cmds \cup more /\ \A e \in more : Right(e)'
  BY <1>1
<1> QED BY <1>2, Settled

LEMMA SettledNone ==
  ASSUME IdentityInv, Later, IdentityTyped', Saved', cmds' \subseteq cmds
  PROVE  IdentityInv'
<1>1. PICK more : more = {}
  OBVIOUS
<1>2. cmds' \subseteq cmds \cup more /\ \A e \in more : Right(e)'
  BY <1>1
<1> QED BY <1>2, Settled

\* Nothing but plain commands is new.
LEMMA Quiet ==
  ASSUME IdentityInv, UNCHANGED <<pub, remote, other, vid, saved, ever, asked>>,
         budget' \in [Budgets -> Nat], budget'.unsaved = 0 => budget.unsaved = 0,
         eng' \in {eng, I!EngineHas(vid)}, cmds' \subseteq cmds \cup Plain
  PROVE  IdentityInv'
<1>1. Later
  BY Stays
<1>2. IdentityTyped'
  BY DEF IdentityInv, IdentityTyped, I!EngineHas
<1>3. eng'.key \in {eng.key, vid}
  BY DEF IdentityInv, IdentityTyped, I!EngineHas
<1>4. Saved'
  BY <1>3 DEF IdentityInv, Saved, Trail
<1> QED BY <1>1, <1>2, <1>4, PlainRight, Settled

LEMMA MintKeeps ==
  ASSUME IdentityInv, NEW c, NEW kind \in Kinds, NEW u, I!Mint(c, kind, u),
         UNCHANGED <<pub, remote, other>>, asked' \in BOOLEAN, asked => asked',
         kind \in {"rotate", "republish"} => asked'
  PROVE  IdentityInv'
<1>0. IdentityTyped /\ Saved
  BY DEF IdentityInv
<1>1. PICK k : k = I!Minted
  OBVIOUS
<1>2. k \in KeyPair
  BY <1>1, MintedIs
<1>3. CASE /\ budget' = [budget EXCEPT !.mint = @ + 1]
           /\ vid' = k /\ saved' = k /\ ever' = ever \cup {k} /\ eng' = I!EngineHas(k)
           /\ I!Handled(c, {I!Cmd(kind, k)})
  <2>1. budget' \in [Budgets -> Nat] /\ budget'.unsaved = budget.unsaved
    BY <1>0, <1>3 DEF IdentityTyped, Budgets
  <2>2. Later
    BY <1>3, <2>1 DEF Later
  <2>3. IdentityTyped' /\ eng'.key = k
    BY <1>0, <1>2, <1>3, <2>1 DEF IdentityTyped, I!EngineHas
  <2>4. Saved'
    BY <1>0, <1>3, <2>1, <2>3, TrailGrows DEF Saved, Trail
  <2>5. PICK d : d = I!Cmd(kind, k)
    OBVIOUS
  <2>6. Right(d)'
    BY <1>2, <1>3, <2>5, CommandIs DEF Right, Trail
  <2>7. cmds' \subseteq cmds \cup {d}
    BY <1>3, <2>5 DEF I!Handled
  <2> QED BY <2>2, <2>3, <2>4, <2>6, <2>7, SettledBy
<1>4. CASE /\ budget' = [budget EXCEPT !.mint = @ + 1, !.unsaved = @ + 1]
           /\ vid' = k /\ I!Handled(c, {}) /\ UNCHANGED <<saved, ever, eng>>
  <2>1. budget' \in [Budgets -> Nat] /\ budget'.unsaved # 0
    <3>1. PICK mid : mid = [budget EXCEPT !.mint = @ + 1]
      OBVIOUS
    <3>2. mid \in [Budgets -> Nat]
      BY <1>0, <3>1 DEF IdentityTyped, Budgets
    <3>3. budget' = [mid EXCEPT !.unsaved = @ + 1]
      <4>1. /\ budget' = [budget EXCEPT !.mint = @ + 1, !.unsaved = @ + 1]
            /\ budget \in [Budgets -> Nat]
        BY <1>0, <1>4 DEF IdentityTyped
      <4>2. mid.unsaved = budget.unsaved
        BY <3>1, <4>1 DEF Budgets
      <4> QED BY <3>1, <4>1, <4>2
    <3> QED BY <3>2, <3>3 DEF Budgets
  <2>2. Later /\ IdentityTyped'
    BY <1>0, <1>2, <1>4, <2>1 DEF Later, IdentityTyped
  <2>3. Saved'
    BY <1>0, <1>4, <2>1 DEF Saved, Trail
  <2>4. cmds' \subseteq cmds
    BY <1>4 DEF I!Handled
  <2> QED BY <2>2, <2>3, <2>4, SettledNone
<1>5. vid' = k
  BY <1>1 DEF I!Mint
<1> QED BY <1>1, <1>3, <1>4, <1>5 DEF I!Mint, I!SavedFirst

LEMMA DiedKeeps ==
  ASSUME IdentityInv, I!Died, budget' \in [Budgets -> Nat], budget'.unsaved = 0 => budget.unsaved = 0
  PROVE  IdentityInv'
<1>1. /\ eng' = I!NoEngine /\ cmds' = {} /\ vid' = saved
      /\ UNCHANGED <<pub, remote, other, saved, ever, asked>>
  BY DEF I!Died, I!server, I!history
<1>2. Later
  BY <1>1, Stays
<1>3. IdentityTyped' /\ eng'.key = I!NoKey
  BY <1>1, KeysAre DEF IdentityInv, IdentityTyped, I!NoEngine
<1>4. Saved'
  BY <1>1, <1>2, <1>3 DEF IdentityInv, Saved, Trail
<1> QED BY <1>1, <1>3, <1>4 DEF IdentityInv

\* What the handlers do with an answer.
LEMMA MessageKeeps ==
  ASSUME IdentityInv, NEW c \in cmds, I!Message(c)
  PROVE  IdentityInv'
<1>0. IdentityTyped /\ Saved /\ Right(c) /\ budget \in [Budgets -> Nat]
  BY DEF IdentityInv, IdentityTyped
<1>1. CASE \/ I!HandleReady(c) \/ I!HandleNeedSync(c) \/ I!HandleRepublished(c) \/ I!HandlePass(c)
           \/ I!HandleRest(c) \/ I!HandleRemoved(c)
  <2>1. /\ UNCHANGED <<pub, remote, other, vid, saved, ever, asked, budget>>
        /\ eng' \in {eng, I!EngineHas(vid)}
    BY <1>1 DEF I!HandleReady, I!HandleNeedSync, I!HandleRepublished, I!HandlePass, I!HandleRest,
                I!HandleRemoved, I!Ensure, I!server, I!local, I!history
  <2>2. cmds' \subseteq cmds \cup Plain
    <3>1. {} \subseteq Plain /\ {I!Cmd("pass", I!NoKey)} \subseteq Plain
          /\ {I!Cmd("finalize", I!NoKey)} \subseteq Plain /\ {I!Cmd("boot", I!NoKey)} \subseteq Plain
          /\ {I!Cmd("check", vid)} \subseteq Plain /\ {I!Cmd("new", vid), I!Cmd("check", vid)} \subseteq Plain
      BY DEF Plain
    <3>2. \E more \in SUBSET Plain : I!Handled(c, more)
      <4>1. CASE I!HandleReady(c)
        BY <3>1, <4>1 DEF I!HandleReady
      <4>2. CASE I!HandleNeedSync(c) \/ I!HandleRest(c)
        BY <3>1, <4>2 DEF I!HandleNeedSync, I!HandleRest
      <4>3. CASE I!HandleRepublished(c)
        BY <3>1, <4>3 DEF I!HandleRepublished
      <4>4. CASE I!HandlePass(c)
        BY <3>1, <4>4 DEF I!HandlePass, I!Ensure
      <4>5. CASE I!HandleRemoved(c)
        BY <3>1, <4>5 DEF I!HandleRemoved
      <4> QED BY <1>1, <4>1, <4>2, <4>3, <4>4, <4>5
    <3> QED BY <3>2 DEF I!Handled
  <2> QED BY <1>0, <2>1, <2>2, Quiet
<1>2. CASE I!HandleGenerate(c)
  <2>1. CASE flags.open
    <3>1. /\ \E u : I!Mint(c, "new", u)
          /\ UNCHANGED <<pub, remote, other, asked>>
      BY <1>2, <2>1 DEF I!HandleGenerate, I!server
    <3>2. asked' \in BOOLEAN /\ (asked => asked')
      BY <1>0, <3>1 DEF IdentityTyped
    <3> QED BY <3>1, <3>2, MintKeeps DEF Kinds
  <2>2. CASE ~ flags.open
    <3>1. I!Died /\ budget' = budget
      BY <1>2, <2>2 DEF I!HandleGenerate
    <3> QED BY <1>0, <3>1, DiedKeeps
  <2> QED BY <2>1, <2>2
<1>3. CASE I!HandleChecked(c)
  <2>1. PICK gated \in [on : BOOLEAN, key : KeyPair, gate : BOOLEAN, dek : BOOLEAN] :
          /\ gated = IF eng.on THEN [eng EXCEPT !.gate = (c.st = "differs")] ELSE eng
          /\ gated.key = eng.key
    <3>1. eng \in [on : BOOLEAN, key : KeyPair, gate : BOOLEAN, dek : BOOLEAN]
      BY <1>0 DEF IdentityTyped
    <3>2. PICK g : g = [eng EXCEPT !.gate = (c.st = "differs")]
      OBVIOUS
    <3>3. g \in [on : BOOLEAN, key : KeyPair, gate : BOOLEAN, dek : BOOLEAN] /\ g.key = eng.key
      BY <3>1, <3>2
    <3> QED BY <3>1, <3>2, <3>3
  <2>2. UNCHANGED <<pub, remote, other, asked>>
    BY <1>3 DEF I!HandleChecked, I!server
  <2>3. CASE /\ eng' = gated /\ I!Handled(c, {}) /\ UNCHANGED <<vid, saved, ever>>
             /\ budget' = budget \/ I!Spend("unsaved")
    <3>1. budget' \in [Budgets -> Nat] /\ (budget'.unsaved = 0 => budget.unsaved = 0)
      BY <1>0, <2>3, SpendIs DEF Budgets
    <3>2. Later
      BY <2>2, <2>3, <3>1, Stays
    <3>3. IdentityTyped' /\ eng'.key = eng.key
      BY <1>0, <2>1, <2>2, <2>3, <3>1 DEF IdentityTyped
    <3>4. Saved'
      BY <1>0, <2>2, <2>3, <3>1, <3>3 DEF Saved, Trail
    <3>5. cmds' \subseteq cmds
      BY <2>3 DEF I!Handled
    <3> QED BY <3>2, <3>3, <3>4, <3>5, SettledNone
  <2>4. CASE /\ eng' = [gated EXCEPT !.key = I!Upgraded]
             /\ vid' = I!Upgraded /\ saved' = I!Upgraded /\ ever' = ever \cup {I!Upgraded}
             /\ I!Handled(c, {I!Cmd("upgrade", I!Upgraded)}) /\ budget' = budget
    <3>1. PICK k \in KeyPair : k = I!Upgraded
      BY <1>0, GrownIs DEF I!Upgraded, IdentityTyped, KeyPair
    <3>2. Later
      BY <1>0, <2>2, <2>4 DEF Later, IdentityTyped
    <3>3. IdentityTyped' /\ eng'.key = k
      BY <1>0, <2>1, <2>2, <2>4, <3>1 DEF IdentityTyped
    <3>4. Saved'
      BY <1>0, <2>2, <2>4, <3>1, <3>3, TrailGrows DEF Saved, Trail
    <3>5. PICK d : d = I!Cmd("upgrade", k)
      OBVIOUS
    <3>6. d \in Request /\ d.kind = "upgrade" /\ d.key = k
      BY <3>1, <3>5, CommandIs DEF Kinds
    <3>7. Right(d)'
      BY <2>4, <3>1, <3>6 DEF Right, Trail
    <3>8. cmds' \subseteq cmds \cup {d}
      BY <2>4, <3>1, <3>5 DEF I!Handled
    <3> QED BY <3>2, <3>3, <3>4, <3>7, <3>8, SettledBy
  <2> QED BY <1>3, <2>1, <2>3, <2>4 DEF I!HandleChecked, I!local
<1> QED BY <1>1, <1>2, <1>3 DEF I!Message

\* The keys of the user, and the passes of the personal vault.
LEMMA KeysKeep == IdentityInv /\ I!Keys => IdentityInv'
<1> SUFFICES ASSUME IdentityInv, I!Keys PROVE IdentityInv'
  OBVIOUS
<1>0. IdentityTyped /\ Saved /\ budget \in [Budgets -> Nat] /\ asked \in BOOLEAN
  BY DEF IdentityInv, IdentityTyped
<1>1. CASE I!EnterProjectsTab \/ I!OpenModal \/ I!CloseModal \/ I!RemoveMember
  <2>1. /\ UNCHANGED <<pub, remote, other, vid, saved, ever, asked>>
        /\ eng' \in {eng, I!EngineHas(vid)}
        /\ budget' = budget \/ I!Spend("key")
    BY <1>1 DEF I!EnterProjectsTab, I!OpenModal, I!CloseModal, I!RemoveMember, I!Ensure, I!server,
                I!local, I!history
  <2>2. budget' \in [Budgets -> Nat] /\ (budget'.unsaved = 0 => budget.unsaved = 0)
    BY <1>0, <2>1, SpendIs DEF Budgets
  <2>3. cmds' \subseteq cmds \cup Plain
    <3>1. CASE I!EnterProjectsTab
      <4>1. \E more \in SUBSET Plain : I!Handled(I!NoCmd, more)
        BY <3>1 DEF I!EnterProjectsTab, I!Ensure, I!Revisit, Plain
      <4> QED BY <4>1 DEF I!Handled
    <3>2. CASE I!RemoveMember
      BY <3>2 DEF I!RemoveMember, I!Handled, Plain
    <3>3. CASE I!OpenModal \/ I!CloseModal
      BY <3>3 DEF I!OpenModal, I!CloseModal
    <3> QED BY <1>1, <3>1, <3>2, <3>3
  <2> QED BY <2>1, <2>2, <2>3, Quiet
<1>2. CASE I!ConfirmReset
  <2>1. (\E u : I!Mint(I!NoCmd, "rotate", u)) /\ asked' = TRUE /\ UNCHANGED <<pub, remote, other>>
    BY <1>2 DEF I!ConfirmReset, I!server
  <2> QED BY <2>1, MintKeeps DEF Kinds
<1>3. CASE I!ConfirmRepublish
  <2>1. /\ I!Handled(I!NoCmd, IF vid = I!NoKey THEN {} ELSE {I!Cmd("republish", vid)})
        /\ asked' = TRUE /\ I!Spend("key")
        /\ UNCHANGED <<pub, remote, other, vid, saved, eng, ever>>
    BY <1>3 DEF I!ConfirmRepublish, I!server, I!local
  <2>2. budget' \in [Budgets -> Nat] /\ (budget'.unsaved = 0 => budget.unsaved = 0)
    BY <1>0, <2>1, SpendIs DEF Budgets
  <2>3. Later /\ IdentityTyped'
    BY <1>0, <2>1, <2>2 DEF Later, IdentityTyped
  <2>4. Saved'
    BY <1>0, <2>1, <2>2 DEF Saved, Trail
  <2>5. PICK d : d = I!Cmd("republish", vid)
    OBVIOUS
  <2>6. d \in Request /\ d.key = vid
    BY <1>0, <2>5, CommandIs DEF Kinds, IdentityTyped
  <2>7. Right(d)'
    BY <1>0, <2>1, <2>2, <2>6 DEF Right, Saved, Trail
  <2>8. cmds' \subseteq cmds \cup {d}
    BY <2>1, <2>5 DEF I!Handled
  <2> QED BY <2>3, <2>4, <2>7, <2>8, SettledBy
<1>4. CASE I!Save
  <2>1. /\ saved' = vid /\ ever' = ever \cup {vid}
        /\ UNCHANGED <<pub, remote, other, vid, eng, cmds, asked, budget>>
    BY <1>4 DEF I!Save, I!server
  <2>2. Later /\ IdentityTyped'
    BY <1>0, <2>1 DEF Later, IdentityTyped
  <2>3. Saved'
    BY <1>0, <2>1, TrailGrows DEF Saved, Trail
  <2> QED BY <2>1, <2>2, <2>3, Unmoved
<1>5. CASE I!Adopt
  <2>1. /\ vid' = remote /\ saved' = remote /\ eng' \in {eng, I!EngineHas(remote)}
        /\ asked' = (asked \/ vid.x \notin {0, remote.x})
        /\ UNCHANGED <<pub, remote, other, cmds, ever, budget>>
    BY <1>5 DEF I!Adopt, I!server
  <2>2. Later
    BY <1>0, <2>1 DEF Later
  <2>3. IdentityTyped' /\ eng'.key \in {eng.key, remote}
    BY <1>0, <2>1, <2>2 DEF IdentityTyped, I!EngineHas, Later
  <2>4. Saved'
    BY <1>0, <2>1, <2>3 DEF Saved, Trail
  <2> QED BY <2>1, <2>2, <2>3, <2>4, Unmoved
<1>6. CASE I!PushPersonal
  <2>1. remote' = saved /\ UNCHANGED <<pub, other, vid, saved, eng, cmds, ever, asked, budget>>
    BY <1>6 DEF I!PushPersonal, I!history
  <2>2. Later /\ IdentityTyped'
    BY <1>0, <2>1 DEF Later, IdentityTyped
  <2>3. Saved'
    BY <1>0, <2>1 DEF Saved, Trail
  <2> QED BY <2>1, <2>2, <2>3, Unmoved
<1>7. CASE I!Lock
  <2>1. /\ saved' = vid /\ ever' = ever \cup {vid} /\ eng' = I!NoEngine /\ I!Spend("key")
        /\ UNCHANGED <<pub, remote, other, vid, asked>>
        /\ cmds' = {IF e.st = "queued" THEN [e EXCEPT !.old = TRUE] ELSE e : e \in cmds}
    BY <1>7 DEF I!Lock, I!server
  <2>2. budget' \in [Budgets -> Nat] /\ (budget'.unsaved = 0 => budget.unsaved = 0)
    BY <1>0, <2>1, SpendIs DEF Budgets
  <2>3. Later
    BY <1>0, <2>1, <2>2 DEF Later
  <2>4. IdentityTyped' /\ eng'.key = I!NoKey
    BY <1>0, <2>1, <2>2, KeysAre DEF IdentityTyped, I!NoEngine
  <2>5. Saved'
    BY <1>0, <2>1, <2>2, <2>4, TrailGrows DEF Saved, Trail
  <2>6. PICK more : more = {[e EXCEPT !.old = TRUE] : e \in cmds}
    OBVIOUS
  <2>7. \A d \in more : Right(d)'
    BY <2>3, <2>6, AnswerIs DEF Results
  <2>8. cmds' \subseteq cmds \cup more
    BY <2>1, <2>6
  <2> QED BY <2>3, <2>4, <2>5, <2>7, <2>8, Settled
<1>8. CASE I!Unlock
  <2>1. /\ vid' = saved /\ eng' = [I!NoEngine EXCEPT !.on = TRUE, !.key = saved]
        /\ UNCHANGED <<pub, remote, other, saved, ever, asked, budget>>
        /\ cmds' \subseteq cmds \cup {I!Cmd("pass", I!NoKey)}
    BY <1>8 DEF I!Unlock, I!server, I!history, I!Handled
  <2>2. Later
    BY <1>0, <2>1, Stays
  <2>3. eng' = [on |-> TRUE, key |-> saved, gate |-> FALSE, dek |-> FALSE]
    BY <2>1 DEF I!NoEngine
  <2>4. IdentityTyped' /\ eng'.key = saved
    <3>1. /\ eng' \in [on : BOOLEAN, key : KeyPair, gate : BOOLEAN, dek : BOOLEAN]
          /\ eng'.key = saved
      BY <1>0, <2>3 DEF IdentityTyped
    <3>2. budget' \in [Budgets -> Nat] /\ asked' \in BOOLEAN
      BY <1>0, <2>1
    <3> QED BY <1>0, <2>1, <3>1, <3>2 DEF IdentityTyped
  <2>5. Saved'
    BY <1>0, <2>1, <2>4 DEF Saved, Trail
  <2>6. I!Cmd("pass", I!NoKey) \in Plain
    BY DEF Plain
  <2>7. Right(I!Cmd("pass", I!NoKey))'
    BY <2>2, <2>6, PlainRight
  <2> QED BY <2>1, <2>2, <2>4, <2>5, <2>7, SettledBy
<1>9. CASE I!Crash
  <2>1. I!Died /\ I!Spend("fault")
    BY <1>9 DEF I!Crash
  <2>2. budget' \in [Budgets -> Nat] /\ (budget'.unsaved = 0 => budget.unsaved = 0)
    BY <1>0, <2>1, SpendIs DEF Budgets
  <2> QED BY <2>1, <2>2, DiedKeeps
<1> QED BY <1>1, <1>2, <1>3, <1>4, <1>5, <1>6, <1>7, <1>8, <1>9 DEF I!Keys

LEMMA IdentityInit == I!Init => IdentityInv
<1> SUFFICES ASSUME I!Init PROVE IdentityInv
  OBVIOUS
<1>1. PICK h \in {0, 1}, have \in {"none", "there", "here"} :
        LET k == IF have = "none" THEN I!NoKey ELSE I!Key(1, h)
        IN  /\ pub = k /\ other = k
            /\ remote \in IF have = "there" THEN {I!NoKey, k} ELSE {k}
            /\ saved = IF have = "here" THEN k ELSE I!NoKey
            /\ ever = {k, I!NoKey}
  BY DEF I!Init
<1>2. PICK k : k = IF have = "none" THEN I!NoKey ELSE I!Key(1, h)
  OBVIOUS
<1>3. k \in KeyPair
  BY <1>2, KeysAre DEF KeyPair, I!Key
<1>4. pub = k /\ other = k /\ remote \in {I!NoKey, k} /\ saved \in {I!NoKey, k} /\ ever = {k, I!NoKey}
  BY <1>1, <1>2
<1>5. vid = saved /\ eng = I!NoEngine /\ cmds = {} /\ asked = FALSE /\ budget = [b \in DOMAIN I!Limit |-> 0]
  BY DEF I!Init
<1>6. budget \in [Budgets -> Nat]
  BY <1>5 DEF I!Limit, Budgets
<1>7. eng \in [on : BOOLEAN, key : KeyPair, gate : BOOLEAN, dek : BOOLEAN] /\ eng.key = I!NoKey
  BY <1>5, KeysAre DEF I!NoEngine
<1>8. IdentityTyped
  BY <1>3, <1>4, <1>5, <1>6, <1>7, KeysAre DEF IdentityTyped
<1>9. Saved
  <2>1. IsFiniteSet(ever)
    <3>1. IsFiniteSet({} \cup {k}) /\ {} \cup {k} = {k}
      BY FS_EmptySet, FS_AddElement
    <3>2. IsFiniteSet({k} \cup {I!NoKey}) /\ {k} \cup {I!NoKey} = {k, I!NoKey}
      BY <3>1, FS_AddElement
    <3> QED BY <1>4, <3>2
  <2> QED BY <1>4, <1>5, <1>7, <2>1 DEF Saved, Trail
<1> QED BY <1>5, <1>8, <1>9 DEF IdentityInv

LEMMA IdentityStep == IdentityInv /\ [I!Next]_I!vars => IdentityInv'
<1> SUFFICES ASSUME IdentityInv, [I!Next]_I!vars PROVE IdentityInv'
  OBVIOUS
<1>1. CASE UNCHANGED I!vars
  BY <1>1 DEF I!vars, IdentityInv, IdentityTyped, Saved, Trail, Right
<1>2. CASE I!Next
  BY <1>2, ElsewhereKeeps, EngineKeeps, MessageKeeps, KeysKeep DEF I!Next
<1> QED BY <1>1, <1>2

\* Every reachable state satisfies the inductive invariant: the keys this device, the
\* server and the other device hold, and the commands in flight, against the keys that
\* some vault file has held.
THEOREM IdentityInductive == I!Spec => []IdentityInv
<1> QED BY IdentityInit, IdentityStep, PTL DEF I!Spec

\* A key is in a vault file before the engine uses it or the server publishes it, as long
\* as no write of the file fails (handleIdentityReady, upgradeIdentityToHybrid).
THEOREM SavedBeforePublished == I!Spec => []I!PublishedKeyWasSaved
<1>1. IdentityInv => I!PublishedKeyWasSaved
  BY DEF IdentityInv, Saved, Trail, I!PublishedKeyWasSaved, I!Kept
<1> QED BY <1>1, IdentityInductive, PTL

\* The steps that leave an account without its access: one somebody asked for, the
\* bootstrap that answers late, and the adoption of a vault without the half.
LEMMA AccessKept ==
  ASSUME IdentityInv, [I!Next]_I!vars, ~asked', ~I!Overtaken, ~I!DropsHalf, I!HasAccess
  PROVE  wrap' = wrap /\ I!HasAccess'
<1> SUFFICES wrap' = wrap /\ I!Opens(vid', wrap) /\ I!Opens(saved', wrap)
  BY DEF I!HasAccess, I!Opens
<1>0. wrap.x > 0 /\ I!Opens(vid, wrap) /\ I!Opens(saved, wrap) /\ vid.x = wrap.x
  BY DEF I!HasAccess, I!Opens
<1>a. wrap # I!NoKey
  BY <1>0, KeysAre
<1>1. CASE UNCHANGED I!vars
  BY <1>0, <1>1 DEF I!vars
<1>2. CASE I!Elsewhere
  <2>1. UNCHANGED <<vid, saved>>
    BY <1>2 DEF I!Elsewhere, I!OtherGenerates, I!OtherPushes, I!OtherPulls, I!OtherUpgrades,
                I!Swap, I!AdminGrants, I!local
  <2>2. wrap' = wrap
    <3>1. ~ I!AdminGrants
      BY <1>a DEF I!AdminGrants
    <3> QED BY <1>2, <3>1 DEF I!Elsewhere, I!OtherGenerates, I!OtherPushes, I!OtherPulls,
                              I!OtherUpgrades, I!Swap
  <2> QED BY <1>0, <2>1, <2>2
<1>3. ASSUME NEW c \in cmds, I!Engine(c) PROVE wrap' = wrap /\ UNCHANGED <<vid, saved>>
  <2>1. UNCHANGED <<vid, saved>>
    BY <1>3 DEF I!Engine, I!Publish, I!Check, I!Boot, I!Pass, I!Finalize, I!Remove, I!Fails, I!local
  <2>2. CASE I!Publish(c)
    <3>1. c.kind \in {"new", "rotate", "upgrade", "republish"} /\ ~asked
      BY <2>2 DEF I!Publish, I!Runs, I!Publishes, I!history
    <3>2. c.kind \notin {"rotate", "republish"}
      BY <3>1 DEF IdentityInv, Right
    <3>3. c.kind = "new" \/ c.kind = "upgrade"
      BY <3>1, <3>2
    <3>4. wrap' = wrap
      <4>1. CASE c.kind = "new"
        BY <2>2, <4>1 DEF I!Publish
      <4>2. CASE c.kind = "upgrade"
        BY <2>2, <4>2 DEF I!Publish
      <4> QED BY <3>3, <4>1, <4>2
    <3> QED BY <2>1, <3>4
  <2>3. CASE I!Remove(c)
    BY <2>1, <2>3 DEF I!Remove
  <2>4. CASE I!Check(c) \/ I!Boot(c) \/ I!Pass(c) \/ I!Finalize(c) \/ I!Fails(c)
    BY <2>1, <2>4 DEF I!Check, I!Boot, I!Pass, I!Finalize, I!Fails, I!server
  <2> QED BY <1>3, <2>2, <2>3, <2>4 DEF I!Engine
<1>4. ASSUME NEW c \in cmds, I!Message(c)
      PROVE  wrap' = wrap /\ I!Opens(vid', wrap) /\ I!Opens(saved', wrap)
  <2>1. ~ I!HandleGenerate(c)
    BY DEF I!HandleGenerate, I!Overtaken
  <2>2. CASE I!HandleChecked(c)
    <3>1. wrap' = wrap
      BY <2>2 DEF I!HandleChecked, I!server
    <3>2. \/ UNCHANGED <<vid, saved>>
          \/ vid.seed = 0 /\ vid' = I!Upgraded /\ saved' = I!Upgraded
      BY <2>2 DEF I!HandleChecked, I!local
    <3>3. CASE UNCHANGED <<vid, saved>>
      BY <1>0, <3>1, <3>3
    <3>4. CASE vid.seed = 0 /\ vid' = I!Upgraded /\ saved' = I!Upgraded
      <4>1. I!Upgraded.x = vid.x
        BY GrownIs DEF I!Upgraded, IdentityInv, IdentityTyped, KeyPair
      <4>2. wrap.seed = 0
        BY <1>0, <3>4 DEF I!Opens
      <4> QED BY <1>0, <3>1, <3>4, <4>1, <4>2 DEF I!Opens
    <3> QED BY <3>2, <3>3, <3>4
  <2>3. CASE \/ I!HandleReady(c) \/ I!HandleNeedSync(c) \/ I!HandleRepublished(c) \/ I!HandlePass(c)
             \/ I!HandleRest(c) \/ I!HandleRemoved(c)
    BY <1>0, <2>3 DEF I!HandleReady, I!HandleNeedSync, I!HandleRepublished, I!HandlePass,
                      I!HandleRest, I!HandleRemoved, I!server, I!local
  <2> QED BY <1>4, <2>1, <2>2, <2>3 DEF I!Message
<1>5. CASE I!Keys
  <2>1. ~ I!ConfirmReset /\ ~ I!ConfirmRepublish
    BY DEF I!ConfirmReset, I!ConfirmRepublish
  <2>2. CASE I!EnterProjectsTab \/ I!RemoveMember \/ I!OpenModal \/ I!CloseModal
    BY <1>0, <2>2 DEF I!EnterProjectsTab, I!RemoveMember, I!OpenModal, I!CloseModal, I!server, I!local
  <2>3. CASE I!Save \/ I!PushPersonal \/ I!Lock \/ I!Unlock \/ I!Crash
    <3>1. wrap' = wrap
      BY <2>3 DEF I!Save, I!PushPersonal, I!Lock, I!Unlock, I!Crash, I!Died, I!server
    <3>2. vid' \in {vid, saved} /\ saved' \in {vid, saved}
      BY <2>3 DEF I!Save, I!PushPersonal, I!Lock, I!Unlock, I!Crash, I!Died
    <3> QED BY <1>0, <3>1, <3>2
  <2>4. CASE I!Adopt
    <3>1. wrap' = wrap /\ vid' = remote /\ saved' = remote
      BY <2>4 DEF I!Adopt, I!server
    <3>2. asked' = (asked \/ vid.x \notin {0, remote.x})
      BY <2>4 DEF I!Adopt
    <3>3. vid.x \in {0, remote.x}
      BY <3>2
    <3>4. remote.x = wrap.x
      BY <1>0, <3>3
    <3>5. wrap.seed \in {0, remote.seed}
      BY <2>4 DEF I!DropsHalf
    <3> QED BY <3>1, <3>4, <3>5 DEF I!Opens
  <2> QED BY <1>5, <2>1, <2>2, <2>3, <2>4 DEF I!Keys
<1> QED BY <1>0, <1>1, <1>2, <1>3, <1>4, <1>5 DEF I!Next

\* Whatever is upgraded, lost, retried or locked, an account that can open its project
\* keeps it until somebody gives the pair up; but for a bootstrap that answers late, and
\* the adoption of a vault without the ML-KEM half that the project key is sealed to.
THEOREM AccessIsKept == I!Spec => I!AccessSurvives
<1>1. IdentityInv /\ [I!Next]_I!vars =>
        [~asked' /\ ~I!Overtaken /\ ~I!DropsHalf /\ I!HasAccess => wrap' = wrap /\ I!HasAccess']_I!vars
  BY AccessKept
<1> QED BY <1>1, IdentityInductive, PTL DEF I!Spec, I!AccessSurvives

=============================================================================
