--------------------------- MODULE HostBook_proofs ---------------------------
(***************************************************************************)
(* Proofs about HostBook: whatever arrives while a modal is open, names    *)
(* and IDs stay unique, a confirmation acts on what it was opened on, no     *)
(* step but an arrival or the picker's move leaves a binding to no key, a    *)
(* merge keeps both sides, a move keeps its host, and a kill is of the       *)
(* session that was armed.                                                  *)
(***************************************************************************)
EXTENDS HostBook, FiniteSetTheorems, WellFoundedInduction, TLAPS

\* A host of a document has an ID; one that a form or an import brings has none yet.
HostRec == [id : Int \ {NoId}, name : Names, ok : BOOLEAN, key : Int,
            src : {"manual", "imported"}]
Draft   == [id : {NoId}, name : Names, ok : BOOLEAN, key : Int,
            src : {"manual", "imported"}]
KeyRec  == [id : Int, name : KeyNames]

\* A list of hosts of one document: no two share an ID or a name.
UniqueIds(xs) == \A x, y \in xs : x.id = y.id => x = y
GoodHosts(hs) == hs \subseteq HostRec /\ IsFiniteSet(hs) /\ Unique(hs) /\ UniqueIds(hs)
GoodVault(d) ==
  /\ d \in [hosts : SUBSET HostRec, keys : SUBSET KeyRec]
  /\ GoodHosts(d.hosts) /\ Unique(d.keys) /\ UniqueIds(d.keys)

\* Before the merge IDs are positive; the account's may be negative, but not both ways.
Positive(d) == \A x \in d.hosts \cup d.keys : x.id > 0
Unsigned(xs) == \A x \in xs : x.id \in Int /\ -x.id \notin Ids(xs)

Shared(pr) == UNION {{p} \X pr[p].hosts : p \in Projects}
GoodProjects(pr) ==
  /\ pr \in [Projects -> [hosts : SUBSET HostRec, here : BOOLEAN, listed : BOOLEAN]]
  /\ \A p \in Projects : GoodHosts(pr[p].hosts)
  /\ IsFiniteSet(Shared(pr))

\* What an open modal remembers, by its kind.
OnHost == {"form", "delete", "move"}
Brought == [host : Draft, key : KeyNames \cup {None}, brings : BOOLEAN]
GoodModal(m) ==
  /\ m.kind \in OnHost \cup {"none", "unsync", "source", "summary", "error", "keygen",
                             "picker", "connecting"}
  /\ m.kind \in OnHost => m \in [kind : OnHost, doc : Docs, to : Docs, id : Int, key : Int]
  /\ m.kind = "unsync" => m \in [kind : {"unsync"}, doc : {"keys"}, to : {"keys"}, id : Int, key : Int]
  /\ m.kind = "summary" => m \in [kind : {"summary"}, in : Brought]
  /\ m.kind = "picker" =>
        m = [kind |-> "picker", host |-> m.host, idx |-> m.idx, kill |-> m.kill]
  /\ m.kind \in {"picker", "connecting"} => m.host \in Int
  /\ m.kind = "none" => m = NoModal

Commands == [kind : {"ssh_config", "termius", "sync", "generate"}, name : KeyNames \cup {None}]

TypeOK ==
  /\ GoodVault(me) /\ GoodProjects(proj) /\ GoodModal(modal)
  /\ kgSync \in BOOLEAN /\ jobs \subseteq Commands
  /\ sessions \in Seq([id : Nat, host : Int])
  /\ account \in BOOLEAN /\ spent \in Nat

\* Until the vault is an account's there are no projects, and no ID was renumbered.
BeforeSignIn ==
  ~account => /\ Positive(me)
              /\ \A p \in Projects : ~proj[p].here /\ ~proj[p].listed /\ proj[p].hosts = {}

Armed == modal.kind = "picker" => modal.kill = pressed

IInv == TypeOK /\ BeforeSignIn /\ Armed

-----------------------------------------------------------------------------
(* Fresh IDs *)

LEMMA UnusedFinite == IsFiniteSet(Unused) /\ Unused \subseteq 1..MaxIds /\ MaxIds \in Nat
<1>1. MaxIds \in Nat
  BY BookAssumption
<1>2. IsFiniteSet(1..MaxIds)
  BY <1>1, FS_Interval
<1>3. Unused \subseteq 1..MaxIds
  BY DEF Unused
<1> QED BY <1>1, <1>2, <1>3, FS_Subset

\* A non-empty set of naturals has the least element its CHOOSE asks for.
Less == {ss \in Nat \X Nat : ss[1] < ss[2]}
LEMMA LeastIsIn ==
  ASSUME NEW S \in SUBSET Nat, S # {}
  PROVE  (CHOOSE i \in S : \A j \in S : i <= j) \in S
<1>1. IsWellFoundedOn(Less, Nat)
  BY NatLessThanWellFounded DEF Less, OpToRel
<1>2. PICK x \in S : \A y \in S : ~ (<<y, x>> \in Less)
  BY <1>1, WFMin
<1>3. ASSUME NEW y \in S PROVE x <= y
  <2>1. x \in Nat /\ y \in Nat /\ <<y, x>> \notin Less
    BY <1>2
  <2> QED BY <2>1 DEF Less
<1> QED BY <1>3

\* newID: an ID of no host, no key, no modal and no session.
LEMMA NewIsUnused ==
  ASSUME Room(1)
  PROVE  New \in Unused
<1>1. Unused # {}
  BY FS_EmptySet, UnusedFinite DEF Room
<1>2. Unused \in SUBSET Nat
  BY UnusedFinite
<1> QED BY <1>1, <1>2, LeastIsIn DEF New

LEMMA AnotherIsUnused ==
  ASSUME Room(2)
  PROVE  New \in Unused /\ Another \in Unused /\ Another # New
<1>1. Cardinality(Unused) \in Nat
  BY UnusedFinite, FS_CardinalityType
<1>2. Room(1)
  BY <1>1 DEF Room
<1>3. New \in Unused
  BY <1>2, NewIsUnused
<1>4. IsFiniteSet(Unused \ {New}) /\ Cardinality(Unused \ {New}) >= 1
  BY <1>1, <1>3, UnusedFinite, FS_RemoveElement DEF Room
<1>5. Unused \ {New} # {}
  BY <1>4, FS_EmptySet
<1>0. Unused \subseteq Nat
  BY UnusedFinite
<1>6. Unused \ {New} \in SUBSET Nat
  BY <1>0
<1>7. Another \in Unused \ {New}
  BY <1>5, <1>6, LeastIsIn DEF Another
<1> QED BY <1>3, <1>7

\* An unused ID is positive, and neither it nor its negative is a host's or a key's.
LEMMA UnusedIsFree ==
  ASSUME NEW i \in Unused
  PROVE  /\ i \in Int /\ i > 0
         /\ i \notin Ids(me.hosts) /\ i \notin Ids(me.keys)
         /\ \A p \in Projects : i \notin Ids(proj[p].hosts)
<1>1. i \in 1..MaxIds /\ i \notin Used
  BY DEF Unused
<1>2. /\ Ids(me.hosts) \cup Ids(me.keys) \subseteq Used
      /\ \A p \in Projects : Ids(proj[p].hosts) \subseteq Used
  BY DEF Used
<1> QED BY <1>1, <1>2, UnusedFinite

-----------------------------------------------------------------------------
(* Lists of hosts *)

LEMMA ImageFinite ==
  ASSUME NEW S, IsFiniteSet(S), NEW f, DOMAIN f = S
  PROVE  IsFiniteSet({f[x] : x \in S})
<1>1. PICK T : T = {f[x] : x \in S}
  OBVIOUS
<1>2. PICK g \in [S -> T] : \A x \in S : g[x] = f[x]
  <2>1. [x \in S |-> f[x]] \in [S -> T]
    BY <1>1
  <2> QED BY <2>1
<1>3. g \in Surjection(S, T)
  BY <1>1, <1>2 DEF Surjection
<1> QED BY <1>1, <1>3, FS_Surjection

LEMMA NoHosts == GoodHosts({})
BY FS_EmptySet DEF GoodHosts, Unique, UniqueIds

LEMMA FewerHosts ==
  ASSUME NEW hs, GoodHosts(hs), NEW fewer \in SUBSET hs
  PROVE  GoodHosts(fewer)
<1>1. IsFiniteSet(fewer)
  BY FS_Subset DEF GoodHosts
<1> QED BY <1>1 DEF GoodHosts, Unique, UniqueIds

\* Delete
LEMMA DeletedHosts ==
  ASSUME NEW hs, GoodHosts(hs), NEW id
  PROVE  GoodHosts(Delete(hs, id))
BY FewerHosts DEF Delete

\* addHostTo, of a host whose ID and name are free
LEMMA AddedHost ==
  ASSUME NEW hs, GoodHosts(hs), NEW h \in HostRec, h.id \notin Ids(hs), Named(hs, h.name) = {}
  PROVE  GoodHosts(hs \cup {h})
<1>1. IsFiniteSet(hs \cup {h})
  BY FS_AddElement DEF GoodHosts
<1>2. \A o \in hs : o.id # h.id /\ o.name # h.name
  BY DEF Ids, Named
<1> QED BY <1>1, <1>2 DEF GoodHosts, Unique, UniqueIds

\* A host for a host, with its ID and its name: what RemoveKey and an import do.
LEMMA SameHosts ==
  ASSUME NEW hs, GoodHosts(hs), NEW f, DOMAIN f = hs,
         \A h \in hs : f[h] \in HostRec /\ f[h].id = h.id /\ f[h].name = h.name
  PROVE  GoodHosts({f[h] : h \in hs})
<1>1. PICK new : new = {f[h] : h \in hs}
  OBVIOUS
<1>2. IsFiniteSet(new)
  BY <1>1, ImageFinite DEF GoodHosts
<1>3. new \subseteq HostRec
  BY <1>1
<1>4. Unique(new) /\ UniqueIds(new)
  <2>1. ASSUME NEW x \in new, NEW y \in new, x.id = y.id \/ x.name = y.name
        PROVE  x = y
    <3>1. PICK a \in hs : x = f[a]
      BY <1>1
    <3>2. PICK b \in hs : y = f[b]
      BY <1>1
    <3>3. a = b
      BY <2>1, <3>1, <3>2 DEF GoodHosts, Unique, UniqueIds
    <3> QED BY <3>1, <3>2, <3>3
  <2> QED BY <2>1 DEF Unique, UniqueIds
<1> QED BY <1>1, <1>2, <1>3, <1>4 DEF GoodHosts

\* updateHostInPlace, to a name no other host has
LEMMA UpdatedHost ==
  ASSUME NEW hs, GoodHosts(hs), NEW h \in HostRec,
         \A o \in hs : o.id = h.id \/ o.name # h.name
  PROVE  GoodHosts(Update(hs, h))
<1>1. Update(hs, h) \subseteq {o \in hs : o.id # h.id} \cup {h}
  BY DEF Update
<1>2. PICK rest : rest = {o \in hs : o.id # h.id}
  OBVIOUS
<1>3. GoodHosts(rest)
  BY <1>2, FewerHosts
<1>4. GoodHosts(rest \cup {h})
  BY <1>2, <1>3, AddedHost DEF Ids, Named
<1> QED BY <1>1, <1>2, <1>4, FewerHosts

-----------------------------------------------------------------------------
(* The personal document *)

\* Bindings to a key that is not there.
Loose(d) == {h.key : h \in d.hosts} \ ({NoId} \cup Ids(d.keys))

\* What an arrival, and what a step of the user may make of the document.
Grown(d, e, S) ==
  GoodVault(e) /\ (Positive(d) => Positive(e)) /\ Loose(e) \subseteq Loose(d) \cup S
Sound(d, e) == Grown(d, e, {})

LEMMA VaultFields ==
  ASSUME NEW d, GoodVault(d)
  PROVE  /\ d = [hosts |-> d.hosts, keys |-> d.keys]
         /\ d.hosts \subseteq HostRec /\ d.keys \subseteq KeyRec
         /\ GoodHosts(d.hosts) /\ Unique(d.keys) /\ UniqueIds(d.keys)
BY DEF GoodVault

LEMMA VaultOf ==
  ASSUME NEW hs, GoodHosts(hs), NEW ks \in SUBSET KeyRec, Unique(ks), UniqueIds(ks)
  PROVE  GoodVault([hosts |-> hs, keys |-> ks])
BY DEF GoodVault, GoodHosts

\* A step that changes the hosts alone: a host that is new is bound to a key of the
\* vault, to none, or to one of S.
LEMMA HostsGrow ==
  ASSUME NEW d, GoodVault(d), NEW hs, GoodHosts(hs), NEW S,
         \A h \in hs : \/ h.key \in {NoId} \cup Ids(d.keys) \cup S
                       \/ \E o \in d.hosts : o.id = h.id /\ o.key = h.key,
         \A h \in hs : h.id > 0 \/ h.id \in Ids(d.hosts)
  PROVE  Grown(d, [d EXCEPT !.hosts = hs], S)
<1>1. PICK e : e = [d EXCEPT !.hosts = hs]
  OBVIOUS
<1>2. e = [hosts |-> hs, keys |-> d.keys]
  BY <1>1, VaultFields
<1>3. e.hosts = hs /\ e.keys = d.keys
  BY <1>2
<1>4. GoodVault(e)
  BY <1>2, VaultFields, VaultOf
<1>5. Positive(d) => Positive(e)
  BY <1>3 DEF Positive, Ids
<1>6. Loose(e) \subseteq Loose(d) \cup S
  <2> SUFFICES ASSUME NEW h \in hs, h.key \notin {NoId} \cup Ids(d.keys), h.key \notin S
               PROVE  \E o \in d.hosts : o.key = h.key
    BY <1>3 DEF Loose
  <2> QED OBVIOUS
<1> QED BY <1>1, <1>4, <1>5, <1>6 DEF Grown

LEMMA HostsChange ==
  ASSUME NEW d, GoodVault(d), NEW hs, GoodHosts(hs),
         \A h \in hs : \/ h.key \in {NoId} \cup Ids(d.keys)
                       \/ \E o \in d.hosts : o.id = h.id /\ o.key = h.key,
         \A h \in hs : h.id > 0 \/ h.id \in Ids(d.hosts)
  PROVE  Sound(d, [d EXCEPT !.hosts = hs])
<1>1. PICK S : S = {}
  OBVIOUS
<1>2. Grown(d, [d EXCEPT !.hosts = hs], S)
  BY <1>1, HostsGrow
<1> QED BY <1>1, <1>2 DEF Sound

\* RemoveKey
LEMMA KeyRemoved ==
  ASSUME NEW d, GoodVault(d), NEW id \in Int
  PROVE  /\ Sound(d, RemoveKey(d, id))
         /\ \A h \in d.hosts : \E o \in RemoveKey(d, id).hosts : o.id = h.id /\ o.name = h.name
<1>0. /\ GoodHosts(d.hosts) /\ d.hosts \subseteq HostRec /\ d.keys \subseteq KeyRec
      /\ Unique(d.keys) /\ UniqueIds(d.keys)
  BY VaultFields
<1>1. PICK f : f = [h \in d.hosts |-> IF h.key = id THEN [h EXCEPT !.key = NoId] ELSE h]
  OBVIOUS
<1>2. ASSUME NEW h \in d.hosts
      PROVE  /\ f[h] = IF h.key = id THEN [h EXCEPT !.key = NoId] ELSE h
             /\ f[h] \in HostRec /\ f[h].id = h.id /\ f[h].name = h.name
             /\ f[h].key = IF h.key = id THEN NoId ELSE h.key
  <2>1. h \in HostRec
    BY <1>0
  <2>2. f[h] = IF h.key = id THEN [h EXCEPT !.key = NoId] ELSE h
    BY <1>1
  <2>3. [h EXCEPT !.key = NoId] \in HostRec
    BY <2>1 DEF HostRec, NoId
  <2>4. /\ [h EXCEPT !.key = NoId].id = h.id /\ [h EXCEPT !.key = NoId].name = h.name
        /\ [h EXCEPT !.key = NoId].key = NoId
    BY <2>1 DEF HostRec
  <2> QED BY <2>1, <2>2, <2>3, <2>4
<1>3. PICK hs : hs = {f[h] : h \in d.hosts}
  OBVIOUS
<1>4. DOMAIN f = d.hosts
  BY <1>1
<1>5. GoodHosts(hs)
  <2>1. \A h \in d.hosts : f[h] \in HostRec /\ f[h].id = h.id /\ f[h].name = h.name
    BY <1>2
  <2>2. PICK was : was = d.hosts
    OBVIOUS
  <2>3. GoodHosts({f[h] : h \in was})
    BY <1>0, <1>4, <2>1, <2>2, SameHosts
  <2> QED BY <1>3, <2>2, <2>3
<1>6. PICK ks : ks = Delete(d.keys, id)
  OBVIOUS
<1>7. ks = {k \in d.keys : k.id # id} /\ ks \subseteq KeyRec /\ Unique(ks) /\ UniqueIds(ks)
  BY <1>0, <1>6 DEF Delete, Unique, UniqueIds
<1>8. PICK e : e = [hosts |-> hs, keys |-> ks]
  OBVIOUS
<1>9. {IF h.key = id THEN [h EXCEPT !.key = NoId] ELSE h : h \in d.hosts} = hs
  <2>1. \A h \in d.hosts : f[h] = IF h.key = id THEN [h EXCEPT !.key = NoId] ELSE h
    BY <1>2
  <2>2. ASSUME NEW x
        PROVE  x \in {IF h.key = id THEN [h EXCEPT !.key = NoId] ELSE h : h \in d.hosts}
                 <=> \E h \in d.hosts : x = f[h]
    <3>1. x \in {IF h.key = id THEN [h EXCEPT !.key = NoId] ELSE h : h \in d.hosts}
            <=> \E h \in d.hosts : x = IF h.key = id THEN [h EXCEPT !.key = NoId] ELSE h
      OBVIOUS
    <3> QED BY <2>1, <3>1, Zenon
  <2>3. \A x : x \in hs <=> \E h \in d.hosts : x = f[h]
    BY <1>3
  <2> QED BY <2>2, <2>3, Zenon
<1>10. RemoveKey(d, id) = e
  BY <1>6, <1>8, <1>9 DEF RemoveKey
<1>11. e.hosts = hs /\ e.keys = ks
  BY <1>8
<1>12. GoodVault(e)
  BY <1>5, <1>7, <1>8, VaultOf
<1>13. Positive(d) => Positive(e)
  <2> SUFFICES ASSUME Positive(d), NEW x \in hs \cup ks PROVE x.id > 0
    BY <1>11 DEF Positive
  <2>1. CASE x \in ks
    BY <2>1, <1>7 DEF Positive
  <2>2. CASE x \in hs
    <3>1. PICK h \in d.hosts : x = f[h]
      BY <1>3, <2>2
    <3> QED BY <3>1, <1>2 DEF Positive
  <2> QED BY <2>1, <2>2
<1>14. Loose(e) \subseteq Loose(d)
  <2> SUFFICES ASSUME NEW x \in hs, x.key \notin {NoId} \cup Ids(ks)
               PROVE  x.key \in Loose(d)
    BY <1>11 DEF Loose
  <2>1. PICK h \in d.hosts : x = f[h]
    BY <1>3
  <2>2. h.key # id /\ x.key = h.key
    BY <1>2, <2>1
  <2>3. h.key \notin Ids(d.keys)
    BY <2>2, <1>7 DEF Ids
  <2> QED BY <2>2, <2>3 DEF Loose
<1>15. ASSUME NEW h \in d.hosts PROVE \E o \in e.hosts : o.id = h.id /\ o.name = h.name
  BY <1>2, <1>3, <1>11
<1> QED BY <1>10, <1>12, <1>13, <1>14, <1>15 DEF Sound, Grown

\* AddKey, under an ID that is new
LEMMA KeyAdded ==
  ASSUME NEW d, GoodVault(d), NEW name \in KeyNames, NEW id \in Int, id > 0,
         id \notin Ids(d.keys)
  PROVE  /\ Sound(d, AddKey(d, name, id)) /\ AddKey(d, name, id).hosts = d.hosts
         /\ d.keys \subseteq AddKey(d, name, id).keys
         /\ Named(AddKey(d, name, id).keys, name) # {}
<1>1. CASE Named(d.keys, name) # {}
  BY <1>1 DEF AddKey, Sound, Grown
<1>2. CASE Named(d.keys, name) = {}
  <2>1. PICK k : k = [id |-> id, name |-> name]
    OBVIOUS
  <2>2. k \in KeyRec /\ k.id = id /\ k.name = name
    BY <2>1 DEF KeyRec
  <2>3. PICK ks : ks = d.keys \cup {k}
    OBVIOUS
  <2>4. ks \subseteq KeyRec /\ Unique(ks) /\ UniqueIds(ks)
    <3>1. \A o \in d.keys : o.id # k.id /\ o.name # k.name
      BY <1>2, <2>2 DEF Ids, Named
    <3> QED BY <2>2, <2>3, <3>1, VaultFields DEF Unique, UniqueIds
  <2>5. PICK e : e = [hosts |-> d.hosts, keys |-> ks]
    OBVIOUS
  <2>6. AddKey(d, name, id) = e
    <3>1. AddKey(d, name, id) = [d EXCEPT !.keys = @ \cup {k}]
      BY <1>2, <2>1 DEF AddKey
    <3> QED BY <2>3, <2>5, <3>1, VaultFields
  <2>7. e.hosts = d.hosts /\ e.keys = ks
    BY <2>5
  <2>8. GoodVault(e)
    BY <2>4, <2>5, VaultFields, VaultOf
  <2>9. Positive(d) => Positive(e)
    BY <2>2, <2>3, <2>7 DEF Positive
  <2>10. Loose(e) \subseteq Loose(d)
    BY <2>3, <2>7 DEF Loose, Ids
  <2>11. Named(e.keys, name) # {}
    BY <2>2, <2>3, <2>7 DEF Named
  <2> QED BY <2>3, <2>6, <2>7, <2>8, <2>9, <2>10, <2>11 DEF Sound, Grown
<1> QED BY <1>1, <1>2

\* One change of a list of hosts by another device or member.
LEMMA ListChanges ==
  ASSUME NEW was, GoodHosts(was), Room(1), New \notin Ids(was), NEW ks \in SUBSET Int,
         NEW hs \in ChangedHosts(was, ks)
  PROVE  /\ GoodHosts(hs)
         /\ \A h \in hs : \/ h.key \in ks
                          \/ \E o \in was : o.id = h.id /\ o.key = h.key
         /\ \A h \in hs : h.id > 0 \/ h.id \in Ids(was)
<1>0. New \in Int /\ New > 0
  BY NewIsUnused, UnusedIsFree
<1>1. CASE \E h \in was : hs = Delete(was, h.id)
  <2>1. GoodHosts(hs)
    BY <1>1, DeletedHosts
  <2>2. hs \subseteq was
    BY <1>1 DEF Delete
  <2> QED BY <2>1, <2>2 DEF Ids
<1>2. CASE \E h \in was, n \in FreeNames(was) : hs = Renamed(was, h, n)
  <2>1. PICK h \in was, n \in FreeNames(was) : hs = Renamed(was, h, n)
    BY <1>2
  <2>2. PICK r : r = [h EXCEPT !.name = n]
    OBVIOUS
  <2>3. h \in HostRec /\ n \in Names /\ Named(was, n) = {}
    BY DEF GoodHosts, FreeNames
  <2>4. r \in HostRec /\ r.id = h.id /\ r.key = h.key /\ r.name = n
    BY <2>2, <2>3 DEF HostRec
  <2>5. \A o \in was : o.name # r.name
    BY <2>3, <2>4 DEF Named
  <2>6. hs = Update(was, r)
    BY <2>1, <2>2 DEF Renamed
  <2>7. GoodHosts(hs)
    BY <2>4, <2>5, <2>6, UpdatedHost
  <2>8. \A x \in hs : x \in was \/ x = r
    BY <2>6 DEF Update
  <2> QED BY <2>4, <2>7, <2>8 DEF Ids
<1>3. CASE \E n \in FreeNames(was), k \in ks : hs = Gained(was, n, k)
  <2>1. PICK n \in FreeNames(was), k \in ks : hs = Gained(was, n, k)
    BY <1>3
  <2>2. PICK r : r = Host(New, n, TRUE, k, "manual")
    OBVIOUS
  <2>3. n \in Names /\ Named(was, n) = {} /\ k \in Int
    BY DEF FreeNames
  <2>4. r \in HostRec /\ r.id = New /\ r.key = k /\ r.name = n
    BY <1>0, <2>2, <2>3 DEF Host, HostRec, NoId
  <2>5. hs = was \cup {r}
    BY <2>1, <2>2 DEF Gained
  <2>6. GoodHosts(hs)
    BY <2>3, <2>4, <2>5, AddedHost
  <2> QED BY <1>0, <2>4, <2>5, <2>6 DEF Ids
<1>4. \/ \E h \in was : hs = Delete(was, h.id)
      \/ \E h \in was, n \in FreeNames(was) : hs = Renamed(was, h, n)
      \/ \E n \in FreeNames(was), k \in ks : hs = Gained(was, n, k)
  BY DEF ChangedHosts
<1> QED BY <1>1, <1>2, <1>3, <1>4

\* One change of the personal document by another device.
LEMMA VaultChanges ==
  ASSUME NEW d, GoodVault(d), Room(1), New \notin Ids(d.hosts), New \notin Ids(d.keys),
         NEW e \in Changed(d)
  PROVE  Grown(d, e, {Elsewhere})
<1>0. /\ New \in Int /\ New > 0 /\ GoodHosts(d.hosts) /\ d.keys \subseteq KeyRec
      /\ Elsewhere \in Int
  BY NewIsUnused, UnusedIsFree, VaultFields, BookAssumption DEF Elsewhere
<1>1. CASE \E hs \in ChangedHosts(d.hosts, Ids(d.keys) \cup {NoId, Elsewhere}) :
             e = [d EXCEPT !.hosts = hs]
  <2>1. PICK ks \in SUBSET Int : ks = Ids(d.keys) \cup {NoId, Elsewhere}
    <3>1. \A k \in d.keys : k.id \in Int
      BY <1>0 DEF KeyRec
    <3>2. Ids(d.keys) \cup {NoId, Elsewhere} \subseteq Int
      BY <1>0, <3>1 DEF Ids, NoId
    <3> QED BY <3>2
  <2>2. PICK hs \in ChangedHosts(d.hosts, ks) : e = [d EXCEPT !.hosts = hs]
    BY <1>1, <2>1
  <2>3. PICK was : was = d.hosts
    OBVIOUS
  <2>4. /\ GoodHosts(hs)
        /\ \A h \in hs : \/ h.key \in ks
                         \/ \E o \in was : o.id = h.id /\ o.key = h.key
        /\ \A h \in hs : h.id > 0 \/ h.id \in Ids(was)
    BY <1>0, <2>2, <2>3, ListChanges
  <2>5. PICK S : S = {Elsewhere}
    OBVIOUS
  <2>6. \A h \in hs : \/ h.key \in {NoId} \cup Ids(d.keys) \cup S
                      \/ \E o \in d.hosts : o.id = h.id /\ o.key = h.key
    BY <2>1, <2>3, <2>4, <2>5
  <2>7. Grown(d, [d EXCEPT !.hosts = hs], S)
    BY <2>3, <2>4, <2>6, HostsGrow
  <2> QED BY <2>2, <2>5, <2>7
<1>2. CASE \E k \in d.keys : e = RemoveKey(d, k.id)
  <2>1. PICK k \in d.keys : e = RemoveKey(d, k.id)
    BY <1>2
  <2>2. k.id \in Int
    BY <1>0 DEF KeyRec
  <2> QED BY <2>1, <2>2, KeyRemoved DEF Sound, Grown
<1>3. CASE \E n \in KeyNames : e = AddKey(d, n, New)
  BY <1>0, <1>3, KeyAdded DEF Sound, Grown
<1> QED BY <1>1, <1>2, <1>3 DEF Changed

-----------------------------------------------------------------------------
(* Merge *)

\* An ID that is taken in base is replaced by one that is not, and two IDs by two.
LEMMA Renumbering ==
  ASSUME NEW xs, Unsigned(xs),
         NEW i \in Int, i > 0, NEW j \in Int, j > 0
  PROVE  /\ Renumbered(i, xs) \in Int
         /\ Renumbered(i, xs) \notin Ids(xs)
         /\ Renumbered(i, xs) = Renumbered(j, xs) => i = j
<1>1. -i \in Int /\ -i < 0 /\ -j \in Int /\ -j < 0
  OBVIOUS
<1>2. i \in Ids(xs) => -i \notin Ids(xs)
  BY DEF Ids, Unsigned
<1>3. -i = -j => i = j
  OBVIOUS
<1>4. Renumbered(i, xs) = IF i \in Ids(xs) THEN -i ELSE i
  BY DEF Renumbered
<1>5. Renumbered(j, xs) = IF j \in Ids(xs) THEN -j ELSE j
  BY DEF Renumbered
<1>6. -i # j /\ -j # i
  BY <1>1
<1> QED BY <1>1, <1>2, <1>3, <1>4, <1>5, <1>6

\* What is carried over from the local keys or hosts has a free name, its old one,
\* and an ID of its own: together with base it is as unique as base was.
LEMMA CarriedOver ==
  ASSUME NEW base, NEW fresh, Unique(base), UniqueIds(base), Unique(fresh), UniqueIds(fresh),
         Unsigned(base), \A x \in fresh : x.id \in Int /\ x.id > 0,
         \A x \in base : \A y \in fresh : x.name # y.name,
         NEW g, \A x \in fresh : g[x].name = x.name /\ g[x].id = Renumbered(x.id, base),
         NEW all, all = base \cup {g[x] : x \in fresh}
  PROVE  Unique(all) /\ UniqueIds(all)
<1>1. ASSUME NEW x \in fresh, NEW y \in fresh
      PROVE  /\ g[x].id \notin Ids(base)
             /\ g[x].id = g[y].id => x = y
             /\ g[x].name = g[y].name => x = y
  <2>1. /\ Renumbered(x.id, base) \notin Ids(base)
        /\ Renumbered(x.id, base) = Renumbered(y.id, base) => x.id = y.id
    BY Renumbering
  <2> QED BY <2>1 DEF Unique, UniqueIds
<1>2. ASSUME NEW x \in fresh, NEW y \in base PROVE g[x].id # y.id /\ g[x].name # y.name
  BY <1>1 DEF Ids
<1>3. ASSUME NEW u \in all, NEW v \in all, u.id = v.id \/ u.name = v.name
      PROVE  u = v
  <2>1. CASE u \in base /\ v \in base
    BY <1>3, <2>1 DEF Unique, UniqueIds
  <2>2. CASE u \in base /\ v \notin base
    <3>1. PICK y \in fresh : v = g[y]
      BY <2>2
    <3> QED BY <1>2, <1>3, <2>2, <3>1
  <2>3. CASE u \notin base /\ v \in base
    <3>1. PICK y \in fresh : u = g[y]
      BY <2>3
    <3> QED BY <1>2, <1>3, <2>3, <3>1
  <2>4. CASE u \notin base /\ v \notin base
    <3>1. PICK x \in fresh : u = g[x]
      BY <2>4
    <3>2. PICK y \in fresh : v = g[y]
      BY <2>4
    <3> QED BY <1>1, <1>3, <3>1, <3>2
  <2> QED BY <2>1, <2>2, <2>3, <2>4
<1> QED BY <1>3 DEF Unique, UniqueIds

\* Base wins, and what has a free name is carried over: names and IDs stay unique, and
\* no host is bound to a key the result does not hold, but one of base that was already.
\* Base is as it was, and what is carried over is bound by name as it was.
LEMMA Merging ==
  ASSUME NEW base, GoodVault(base), Unsigned(base.hosts), Unsigned(base.keys),
         NEW local, GoodVault(local), Positive(local)
  PROVE  /\ GoodVault(Merge(base, local)) /\ Loose(Merge(base, local)) \subseteq Loose(base)
         /\ base.hosts \subseteq Merge(base, local).hosts
         /\ base.keys \subseteq Merge(base, local).keys
         /\ \A h \in local.hosts : Named(base.hosts, h.name) = {} =>
               \E c \in Named(Merge(base, local).hosts, h.name) :
                  /\ h.key = NoId => c.key = NoId
                  /\ BoundTo(local, h) # {} => BoundTo(Merge(base, local), c) = BoundTo(local, h)
<1>0. /\ GoodHosts(base.hosts) /\ base.hosts \subseteq HostRec /\ base.keys \subseteq KeyRec
      /\ Unique(base.keys) /\ UniqueIds(base.keys)
      /\ GoodHosts(local.hosts) /\ local.hosts \subseteq HostRec /\ local.keys \subseteq KeyRec
      /\ Unique(local.keys) /\ UniqueIds(local.keys)
  BY VaultFields
<1>1. PICK newKeys \in SUBSET local.keys :
        newKeys = {k \in local.keys : Named(base.keys, k.name) = {}}
  OBVIOUS
<1>2. PICK newHosts \in SUBSET local.hosts :
        newHosts = {h \in local.hosts : Named(base.hosts, h.name) = {}}
  OBVIOUS
<1>3. PICK ks : ks = base.keys \cup {[k EXCEPT !.id = MergedKeyId(base, k)] : k \in newKeys}
  OBVIOUS
<1>4. PICK hs : hs = base.hosts \cup
                  {[h EXCEPT !.id = Renumbered(@, base.hosts),
                             !.key = Rebound(base, local, @, ks)] : h \in newHosts}
  OBVIOUS
<1>5. Merge(base, local) = [keys |-> ks, hosts |-> hs]
  BY <1>1, <1>2, <1>3, <1>4, Zenon DEF Merge
<1>6. PICK f : f = [k \in newKeys |-> [k EXCEPT !.id = MergedKeyId(base, k)]]
  OBVIOUS
<1>7. ASSUME NEW k \in newKeys
      PROVE  /\ f[k] = [k EXCEPT !.id = MergedKeyId(base, k)]
             /\ f[k] \in KeyRec /\ f[k].name = k.name
             /\ f[k].id = Renumbered(k.id, base.keys)
             /\ MergedKeyId(base, k) = f[k].id
  <2>1. k \in KeyRec /\ Named(base.keys, k.name) = {}
    BY <1>0, <1>1
  <2>2. MergedKeyId(base, k) = Renumbered(k.id, base.keys)
    BY <2>1 DEF MergedKeyId
  <2>3. k.id \in Int
    BY <2>1 DEF KeyRec
  <2>4. Renumbered(k.id, base.keys) \in Int
    BY <2>3 DEF Renumbered
  <2>5. f[k] = [k EXCEPT !.id = MergedKeyId(base, k)]
    BY <1>6
  <2>6. f[k] = [k EXCEPT !.id = Renumbered(k.id, base.keys)]
    BY <2>2, <2>5
  <2>7. f[k] \in KeyRec /\ f[k].name = k.name /\ f[k].id = Renumbered(k.id, base.keys)
    BY <2>1, <2>4, <2>6 DEF KeyRec
  <2> QED BY <2>2, <2>5, <2>7
<1>8. ks = base.keys \cup {f[k] : k \in newKeys}
  <2>1. \A k \in newKeys : f[k] = [k EXCEPT !.id = MergedKeyId(base, k)]
    BY <1>7
  <2>2. ASSUME NEW x
        PROVE  x \in {[k EXCEPT !.id = MergedKeyId(base, k)] : k \in newKeys}
                 <=> \E k \in newKeys : x = f[k]
    <3>1. x \in {[k EXCEPT !.id = MergedKeyId(base, k)] : k \in newKeys}
            <=> \E k \in newKeys : x = [k EXCEPT !.id = MergedKeyId(base, k)]
      OBVIOUS
    <3> QED BY <2>1, <3>1, Zenon
  <2>3. {[k EXCEPT !.id = MergedKeyId(base, k)] : k \in newKeys} = {f[k] : k \in newKeys}
    BY <2>2, Zenon
  <2> QED BY <1>3, <2>3
<1>9. ks \subseteq KeyRec /\ Unique(ks) /\ UniqueIds(ks)
  <2>1. Unique(newKeys) /\ UniqueIds(newKeys)
    BY <1>0, <1>1 DEF Unique, UniqueIds
  <2>2. \A x \in newKeys : x.id \in Int /\ x.id > 0
    BY <1>0, <1>1 DEF KeyRec, Positive
  <2>3. \A x \in base.keys : \A y \in newKeys : x.name # y.name
    BY <1>1 DEF Named
  <2>4. \A x \in newKeys : f[x].name = x.name /\ f[x].id = Renumbered(x.id, base.keys)
    BY <1>7
  <2>5. PICK was : was = base.keys
    OBVIOUS
  <2>6. Unique(ks) /\ UniqueIds(ks)
    <3>1. Unique(was) /\ UniqueIds(was) /\ ks = was \cup {f[k] : k \in newKeys}
      BY <1>0, <1>8, <2>5
    <3>2. \A x \in newKeys : f[x].name = x.name /\ f[x].id = Renumbered(x.id, was)
      BY <2>4, <2>5
    <3>3. Unsigned(was) /\ \A x \in newKeys : x.id \in Int /\ x.id > 0
      BY <2>2, <2>5
    <3>4. \A x \in was : \A y \in newKeys : x.name # y.name
      BY <2>3, <2>5
    <3> QED BY <2>1, <3>1, <3>2, <3>3, <3>4, CarriedOver
  <2>7. ks \subseteq KeyRec
    BY <1>0, <1>7, <1>8
  <2> QED BY <2>6, <2>7
<1>10. Ids(base.keys) \subseteq Ids(ks) /\ Ids(ks) \subseteq Int
  BY <1>8, <1>9 DEF Ids, KeyRec
<1>11. ASSUME NEW key \in Int
       PROVE  Rebound(base, local, key, ks) \in {NoId} \cup Ids(ks)
  <2>1. CASE key \in Ids(local.keys)
    <3>1. PICK k : k = CHOOSE x \in local.keys : x.id = key
      OBVIOUS
    <3>2. k \in local.keys
      BY <2>1, <3>1 DEF Ids
    <3>3. Rebound(base, local, key, ks) = MergedKeyId(base, k)
      BY <2>1, <3>1 DEF Rebound
    <3>4. CASE Named(base.keys, k.name) # {}
      <4>1. PICK b : b = CHOOSE x \in Named(base.keys, k.name) : TRUE
        OBVIOUS
      <4>2. b \in Named(base.keys, k.name)
        BY <3>4, <4>1
      <4>3. b \in base.keys
        BY <4>2 DEF Named
      <4>4. MergedKeyId(base, k) = b.id
        BY <3>4, <4>1 DEF MergedKeyId
      <4> QED BY <1>10, <3>3, <4>3, <4>4 DEF Ids
    <3>5. CASE Named(base.keys, k.name) = {}
      <4>1. k \in newKeys
        BY <1>1, <3>2, <3>5
      <4>2. f[k] \in ks /\ MergedKeyId(base, k) = f[k].id
        BY <1>7, <1>8, <4>1
      <4> QED BY <3>3, <4>2 DEF Ids
    <3> QED BY <3>4, <3>5
  <2>2. CASE key \notin Ids(local.keys)
    BY <2>2 DEF Rebound
  <2> QED BY <2>1, <2>2
<1>12. PICK g : g = [h \in newHosts |-> [h EXCEPT !.id = Renumbered(@, base.hosts),
                                                   !.key = Rebound(base, local, @, ks)]]
  OBVIOUS
<1>13. ASSUME NEW h \in newHosts
       PROVE  /\ g[h] = [h EXCEPT !.id = Renumbered(@, base.hosts),
                                  !.key = Rebound(base, local, @, ks)]
              /\ g[h] \in HostRec /\ g[h].name = h.name
              /\ g[h].id = Renumbered(h.id, base.hosts)
              /\ g[h].key \in {NoId} \cup Ids(ks) /\ g[h].key = Rebound(base, local, h.key, ks)
  <2>1. h \in HostRec
    BY <1>0, <1>2
  <2>2. h.id \in Int /\ h.key \in Int
    BY <2>1 DEF HostRec
  <2>3. PICK id \in Int \ {NoId} : id = Renumbered(h.id, base.hosts)
    BY <2>1, <2>2 DEF Renumbered, HostRec, NoId
  <2>4. PICK key \in {NoId} \cup Ids(ks) : key = Rebound(base, local, h.key, ks)
    BY <1>11, <2>2
  <2>5. key \in Int
    BY <1>10 DEF NoId
  <2>6. g[h] = [h EXCEPT !.id = Renumbered(@, base.hosts), !.key = Rebound(base, local, @, ks)]
    BY <1>12
  <2>7. g[h] = [h EXCEPT !.id = id, !.key = key]
    BY <2>1, <2>3, <2>4, <2>6 DEF HostRec
  <2>8. g[h] \in HostRec
    BY <2>1, <2>5, <2>7 DEF HostRec
  <2>9. g[h].name = h.name /\ g[h].id = id /\ g[h].key = key
    BY <2>1, <2>7 DEF HostRec
  <2> QED BY <2>3, <2>4, <2>6, <2>8, <2>9
<1>20. ASSUME NEW k \in local.keys
       PROVE  \E x \in ks : x.id = Rebound(base, local, k.id, ks) /\ x.name = k.name
  <2>1. k.id \in Ids(local.keys)
    BY DEF Ids
  <2>2. k = CHOOSE x \in local.keys : x.id = k.id
    BY <1>0 DEF UniqueIds
  <2>3. Rebound(base, local, k.id, ks) = MergedKeyId(base, k)
    BY <2>1, <2>2 DEF Rebound
  <2>4. CASE Named(base.keys, k.name) # {}
    <3>1. PICK b : b = CHOOSE x \in Named(base.keys, k.name) : TRUE
      OBVIOUS
    <3>2. b \in Named(base.keys, k.name)
      BY <2>4, <3>1
    <3>3. b \in ks /\ b.name = k.name
      BY <1>8, <3>2 DEF Named
    <3>4. MergedKeyId(base, k) = b.id
      BY <2>4, <3>1 DEF MergedKeyId
    <3> QED BY <2>3, <3>3, <3>4
  <2>5. CASE Named(base.keys, k.name) = {}
    <3>1. k \in newKeys
      BY <1>1, <2>5
    <3>2. f[k] \in ks /\ f[k].name = k.name /\ f[k].id = MergedKeyId(base, k)
      BY <1>7, <1>8, <3>1
    <3> QED BY <2>3, <3>2
  <2> QED BY <2>4, <2>5
<1>14. hs = base.hosts \cup {g[h] : h \in newHosts}
  <2>1. \A h \in newHosts : g[h] = [h EXCEPT !.id = Renumbered(@, base.hosts),
                                             !.key = Rebound(base, local, @, ks)]
    BY <1>13
  <2>2. ASSUME NEW x
        PROVE  x \in {[h EXCEPT !.id = Renumbered(@, base.hosts),
                                !.key = Rebound(base, local, @, ks)] : h \in newHosts}
                 <=> \E h \in newHosts : x = g[h]
    <3>1. x \in {[h EXCEPT !.id = Renumbered(@, base.hosts),
                           !.key = Rebound(base, local, @, ks)] : h \in newHosts}
            <=> \E h \in newHosts : x = [h EXCEPT !.id = Renumbered(@, base.hosts),
                                                  !.key = Rebound(base, local, @, ks)]
      OBVIOUS
    <3> QED BY <2>1, <3>1, Zenon
  <2>3. {[h EXCEPT !.id = Renumbered(@, base.hosts),
                   !.key = Rebound(base, local, @, ks)] : h \in newHosts}
          = {g[h] : h \in newHosts}
    BY <2>2, Zenon
  <2> QED BY <1>4, <2>3
<1>15. GoodHosts(hs)
  <2>1. GoodHosts(newHosts)
    BY <1>0, FewerHosts
  <2>2. \A x \in newHosts : x.id \in Int /\ x.id > 0
    BY <1>0, <1>2 DEF HostRec, Positive
  <2>3. \A x \in base.hosts : \A y \in newHosts : x.name # y.name
    BY <1>2 DEF Named
  <2>4. PICK was : was = base.hosts
    OBVIOUS
  <2>5. PICK new : new = {g[h] : h \in newHosts}
    OBVIOUS
  <2>6. Unique(hs) /\ UniqueIds(hs)
    <3>1. /\ Unique(was) /\ UniqueIds(was) /\ hs = was \cup {g[h] : h \in newHosts}
          /\ Unique(newHosts) /\ UniqueIds(newHosts)
      BY <1>0, <1>14, <2>1, <2>4 DEF GoodHosts
    <3>2. \A x \in newHosts : g[x].name = x.name /\ g[x].id = Renumbered(x.id, was)
      BY <1>13, <2>4
    <3>3. Unsigned(was) /\ \A x \in newHosts : x.id \in Int /\ x.id > 0
      BY <2>2, <2>4
    <3>4. \A x \in was : \A y \in newHosts : x.name # y.name
      BY <2>3, <2>4
    <3> QED BY <3>1, <3>2, <3>3, <3>4, CarriedOver
  <2>7. IsFiniteSet(new)
    <3>1. DOMAIN g = newHosts
      BY <1>12
    <3> QED BY <2>1, <2>5, <3>1, ImageFinite DEF GoodHosts
  <2>8. IsFiniteSet(was \cup new)
    BY <1>0, <2>4, <2>7, FS_Union DEF GoodHosts
  <2>9. hs = was \cup new
    BY <1>14, <2>4, <2>5
  <2>10. hs \subseteq HostRec
    <3>1. \A h \in newHosts : g[h] \in HostRec
      BY <1>13
    <3> QED BY <1>0, <1>14, <3>1
  <2> QED BY <2>6, <2>8, <2>9, <2>10 DEF GoodHosts
<1>16. PICK e : e = [hosts |-> hs, keys |-> ks]
  OBVIOUS
<1>17. Merge(base, local) = e /\ e.hosts = hs /\ e.keys = ks
  BY <1>5, <1>16
<1>18. GoodVault(e)
  BY <1>9, <1>15, <1>16, VaultOf
<1>19. Loose(e) \subseteq Loose(base)
  <2> SUFFICES ASSUME NEW x \in hs, x.key \notin {NoId} \cup Ids(ks)
               PROVE  x.key \in Loose(base)
    BY <1>17 DEF Loose
  <2>1. x \in base.hosts
    BY <1>13, <1>14
  <2>2. x.key \notin {NoId} \cup Ids(base.keys)
    BY <1>10
  <2> QED BY <2>1, <2>2 DEF Loose
<1>21. ASSUME NEW h \in local.hosts, Named(base.hosts, h.name) = {}
       PROVE  \E c \in Named(e.hosts, h.name) :
                  /\ h.key = NoId => c.key = NoId
                  /\ BoundTo(local, h) # {} => BoundTo(e, c) = BoundTo(local, h)
  <2>1. h \in newHosts
    BY <1>2, <1>21
  <2>2. PICK c : c = g[h]
    OBVIOUS
  <2>3. c \in hs /\ c.name = h.name /\ c.key = Rebound(base, local, h.key, ks)
    BY <1>13, <1>14, <2>1, <2>2
  <2>4. c \in Named(e.hosts, h.name)
    BY <1>17, <2>3 DEF Named
  <2>5. ASSUME h.key = NoId PROVE c.key = NoId
    <3>1. NoId \notin Ids(local.keys)
      BY DEF Ids, Positive, NoId
    <3> QED BY <2>3, <2>5, <3>1 DEF Rebound
  <2>6. ASSUME BoundTo(local, h) # {} PROVE BoundTo(e, c) = BoundTo(local, h)
    <3>1. PICK k \in local.keys : k.id = h.key
      BY <2>6 DEF BoundTo
    <3>2. PICK x \in ks : x.id = c.key /\ x.name = k.name
      BY <1>20, <2>3, <3>1
    <3>3. BoundTo(local, h) = {k.name}
      BY <1>0, <3>1 DEF BoundTo, UniqueIds
    <3>4. BoundTo(e, c) = {x.name}
      BY <1>9, <1>17, <3>2 DEF BoundTo, UniqueIds
    <3> QED BY <3>2, <3>3, <3>4
  <2> QED BY <2>4, <2>5, <2>6
<1>22. base.hosts \subseteq e.hosts /\ base.keys \subseteq e.keys
  BY <1>3, <1>4, <1>17
<1> QED BY <1>17, <1>18, <1>19, <1>21, <1>22

\* The account's copy of a document under other IDs.
LEMMA Reissuing ==
  ASSUME NEW d, GoodVault(d), Positive(d), NEW S
  PROVE  LET e == Reissued(d, S) IN
         /\ GoodVault(e) /\ Unsigned(e.hosts) /\ Unsigned(e.keys) /\ Loose(e) \subseteq Loose(d)
<1>0. /\ GoodHosts(d.hosts) /\ d.hosts \subseteq HostRec /\ d.keys \subseteq KeyRec
      /\ Unique(d.keys) /\ UniqueIds(d.keys)
  BY VaultFields
<1>1. PICK f : f = [h \in d.hosts |->
                      [h EXCEPT !.id  = IF @ \in S THEN -@ ELSE @,
                                !.key = IF @ \in S \cap Ids(d.keys) THEN -@ ELSE @]]
  OBVIOUS
<1>2. PICK g : g = [k \in d.keys |-> [k EXCEPT !.id = IF @ \in S THEN -@ ELSE @]]
  OBVIOUS
<1>3. PICK hs : hs = {f[h] : h \in d.hosts}
  OBVIOUS
<1>4. PICK ks : ks = {g[k] : k \in d.keys}
  OBVIOUS
<1>5. PICK e : e = [hosts |-> hs, keys |-> ks]
  OBVIOUS
<1>6. Reissued(d, S) = e
  <2>1. ASSUME NEW x
        PROVE  x \in {[h EXCEPT !.id  = IF @ \in S THEN -@ ELSE @,
                               !.key = IF @ \in S \cap Ids(d.keys) THEN -@ ELSE @] : h \in d.hosts}
                 <=> \E h \in d.hosts : x = f[h]
    BY <1>1
  <2>2. ASSUME NEW x
        PROVE  x \in {[k EXCEPT !.id = IF @ \in S THEN -@ ELSE @] : k \in d.keys}
                 <=> \E k \in d.keys : x = g[k]
    BY <1>2
  <2>3. hs = {[h EXCEPT !.id  = IF @ \in S THEN -@ ELSE @,
                        !.key = IF @ \in S \cap Ids(d.keys) THEN -@ ELSE @] : h \in d.hosts}
    BY <1>3, <2>1, Zenon
  <2>4. ks = {[k EXCEPT !.id = IF @ \in S THEN -@ ELSE @] : k \in d.keys}
    BY <1>4, <2>2, Zenon
  <2> QED BY <1>5, <2>3, <2>4, Zenon DEF Reissued
<1>7. ASSUME NEW h \in d.hosts
      PROVE  /\ f[h] \in HostRec /\ f[h].name = h.name
             /\ f[h].id = IF h.id \in S THEN -h.id ELSE h.id
             /\ f[h].key = IF h.key \in S \cap Ids(d.keys) THEN -h.key ELSE h.key
             /\ h.id \in Int /\ h.id > 0
  <2>1. h \in HostRec /\ h.id > 0
    BY <1>0 DEF Positive
  <2>2. PICK id \in Int \ {NoId} : id = IF h.id \in S THEN -h.id ELSE h.id
    BY <2>1 DEF HostRec, NoId
  <2>3. PICK key \in Int : key = IF h.key \in S \cap Ids(d.keys) THEN -h.key ELSE h.key
    BY <2>1 DEF HostRec
  <2>4. f[h] = [h EXCEPT !.id = id, !.key = key]
    BY <1>1, <2>1, <2>2, <2>3 DEF HostRec
  <2>5. f[h] \in HostRec /\ f[h].name = h.name /\ f[h].id = id /\ f[h].key = key
    BY <2>1, <2>4 DEF HostRec
  <2> QED BY <2>1, <2>2, <2>3, <2>5 DEF HostRec
<1>8. ASSUME NEW k \in d.keys
      PROVE  /\ g[k] \in KeyRec /\ g[k].name = k.name
             /\ g[k].id = IF k.id \in S THEN -k.id ELSE k.id
             /\ k.id \in Int /\ k.id > 0
  <2>1. k \in KeyRec /\ k.id > 0
    BY <1>0 DEF Positive
  <2>2. PICK id \in Int : id = IF k.id \in S THEN -k.id ELSE k.id
    BY <2>1 DEF KeyRec
  <2>3. g[k] = [k EXCEPT !.id = id]
    BY <1>2, <2>1, <2>2 DEF KeyRec
  <2>4. g[k] \in KeyRec /\ g[k].name = k.name /\ g[k].id = id
    BY <2>1, <2>3 DEF KeyRec
  <2> QED BY <2>1, <2>2, <2>4 DEF KeyRec
<1>9. GoodHosts(hs)
  <2>1. IsFiniteSet(hs)
    <3>1. DOMAIN f = d.hosts
      BY <1>1
    <3>2. PICK was : was = d.hosts
      OBVIOUS
    <3>3. IsFiniteSet({f[h] : h \in was})
      BY <1>0, <3>1, <3>2, ImageFinite DEF GoodHosts
    <3> QED BY <1>3, <3>2, <3>3
  <2>2. ASSUME NEW x \in hs, NEW y \in hs, x.id = y.id \/ x.name = y.name PROVE x = y
    <3>1. PICK a \in d.hosts : x = f[a]
      BY <1>3
    <3>2. PICK b \in d.hosts : y = f[b]
      BY <1>3
    <3>3. a.id = b.id \/ a.name = b.name
      BY <1>7, <2>2, <3>1, <3>2
    <3>4. a = b
      BY <1>0, <3>3 DEF GoodHosts, Unique, UniqueIds
    <3> QED BY <3>1, <3>2, <3>4
  <2>3. hs \subseteq HostRec
    BY <1>3, <1>7
  <2> QED BY <2>1, <2>2, <2>3 DEF GoodHosts, Unique, UniqueIds
<1>10. ks \subseteq KeyRec /\ Unique(ks) /\ UniqueIds(ks)
  <2>1. ASSUME NEW x \in ks, NEW y \in ks, x.id = y.id \/ x.name = y.name PROVE x = y
    <3>1. PICK a \in d.keys : x = g[a]
      BY <1>4
    <3>2. PICK b \in d.keys : y = g[b]
      BY <1>4
    <3>3. a.id = b.id \/ a.name = b.name
      BY <1>8, <2>1, <3>1, <3>2
    <3>4. a = b
      BY <1>0, <3>3 DEF Unique, UniqueIds
    <3> QED BY <3>1, <3>2, <3>4
  <2>2. ks \subseteq KeyRec
    BY <1>4, <1>8
  <2> QED BY <2>1, <2>2 DEF Unique, UniqueIds
<1>11. GoodVault(e)
  BY <1>5, <1>9, <1>10, VaultOf
<1>12. Unsigned(hs)
  <2> SUFFICES ASSUME NEW x \in hs, NEW y \in hs, y.id = -x.id PROVE FALSE
    BY <1>3, <1>7 DEF Unsigned, Ids
  <2>1. PICK a \in d.hosts : x = f[a]
    BY <1>3
  <2>2. PICK b \in d.hosts : y = f[b]
    BY <1>3
  <2>3. a.id = b.id
    BY <1>7, <2>1, <2>2
  <2>4. a = b
    BY <1>0, <2>3 DEF GoodHosts, UniqueIds
  <2> QED BY <1>7, <2>1, <2>2, <2>4
<1>13. Unsigned(ks)
  <2> SUFFICES ASSUME NEW x \in ks, NEW y \in ks, y.id = -x.id PROVE FALSE
    BY <1>4, <1>8 DEF Unsigned, Ids
  <2>1. PICK a \in d.keys : x = g[a]
    BY <1>4
  <2>2. PICK b \in d.keys : y = g[b]
    BY <1>4
  <2>3. a.id = b.id
    BY <1>8, <2>1, <2>2
  <2>4. a = b
    BY <1>0, <2>3 DEF UniqueIds
  <2> QED BY <1>8, <2>1, <2>2, <2>4
<1>14. Loose(e) \subseteq Loose(d)
  <2> SUFFICES ASSUME NEW x \in hs, x.key \notin {NoId} \cup Ids(ks)
               PROVE  x.key \in Loose(d)
    BY <1>5 DEF Loose
  <2>1. PICK h \in d.hosts : x = f[h]
    BY <1>3
  <2>2. h.key \notin Ids(d.keys)
    <3> SUFFICES ASSUME NEW k \in d.keys, k.id = h.key PROVE FALSE
      BY DEF Ids
    <3>1. g[k] \in ks /\ g[k].id = x.key
      BY <1>4, <1>7, <1>8, <2>1 DEF Ids
    <3> QED BY <3>1 DEF Ids
  <2>3. x.key = h.key
    BY <1>7, <2>1, <2>2
  <2> QED BY <2>2, <2>3 DEF Loose
<1>15. e.hosts = hs /\ e.keys = ks
  BY <1>5
<1> QED BY <1>6, <1>11, <1>12, <1>13, <1>14, <1>15

LEMMA EmptyGood == GoodVault(EmptyDoc) /\ Positive(EmptyDoc) /\ Loose(EmptyDoc) = {}
<1>1. EmptyDoc.hosts = {} /\ EmptyDoc.keys = {}
  BY DEF EmptyDoc
<1>2. Unique({}) /\ UniqueIds({})
  BY DEF Unique, UniqueIds
<1>3. GoodVault(EmptyDoc)
  BY <1>2, NoHosts, VaultOf DEF EmptyDoc
<1> QED BY <1>1, <1>3 DEF Positive, Loose

\* The account's document is one a merge can start from.
LEMMA AccountDocsGood ==
  ASSUME GoodVault(me), Positive(me), Room(1), NEW theirs \in AccountDocs
  PROVE  /\ GoodVault(theirs) /\ Unsigned(theirs.hosts) /\ Unsigned(theirs.keys)
         /\ Loose(theirs) \subseteq Loose(me) \cup {Elsewhere}
<1>1. PICK d \in Changed(me) \cup Changed(EmptyDoc) : \E S : theirs = Reissued(d, S)
  BY DEF AccountDocs
<1>2. PICK S : theirs = Reissued(d, S)
  BY <1>1
<1>3. GoodVault(d) /\ Positive(d) /\ Loose(d) \subseteq Loose(me) \cup {Elsewhere}
  <2>1. CASE d \in Changed(me)
    <3>1. New \notin Ids(me.hosts) /\ New \notin Ids(me.keys)
      BY NewIsUnused, UnusedIsFree
    <3>2. Grown(me, d, {Elsewhere})
      BY <2>1, <3>1, VaultChanges
    <3> QED BY <3>2 DEF Grown
  <2>2. CASE d \in Changed(EmptyDoc)
    <3>1. New \notin Ids(EmptyDoc.hosts) /\ New \notin Ids(EmptyDoc.keys)
      BY DEF EmptyDoc, Ids
    <3>2. Grown(EmptyDoc, d, {Elsewhere})
      BY <2>2, <3>1, EmptyGood, VaultChanges
    <3> QED BY <3>2, EmptyGood DEF Grown
  <2> QED BY <2>1, <2>2
<1> QED BY <1>2, <1>3, Reissuing

-----------------------------------------------------------------------------
(* Imports and documents *)

\* upsertImported: a host that is new, or one of an earlier import brought up to date
\* under the ID and the name it had.
LEMMA Upserting ==
  ASSUME NEW was, GoodHosts(was), NEW in \in Draft, NEW id \in Int, id > 0,
         id \notin Ids(was), NEW hs, hs = Upsert(was, in, id)
  PROVE  /\ GoodHosts(hs)
         /\ \A h \in hs : \/ h.key = in.key
                          \/ \E o \in was : o.id = h.id /\ o.key = h.key
         /\ \A h \in hs : h.id > 0 \/ h.id \in Ids(was)
         /\ \A h \in was : \E o \in hs : o.id = h.id /\ o.name = h.name
<1>1. PICK same : same = Named(was, in.name)
  OBVIOUS
<1>2. CASE same = {}
  <2>1. PICK r : r = [in EXCEPT !.id = id]
    OBVIOUS
  <2>2. r \in HostRec /\ r.id = id /\ r.name = in.name /\ r.key = in.key
    BY <2>1 DEF HostRec, Draft, NoId
  <2>3. hs = was \cup {r}
    BY <1>1, <1>2, <2>1 DEF Upsert
  <2>4. GoodHosts(hs)
    <3>1. r.id \notin Ids(was) /\ Named(was, r.name) = {}
      BY <1>1, <1>2, <2>2
    <3> QED BY <2>2, <2>3, <3>1, AddedHost
  <2>5. ASSUME NEW h \in hs
        PROVE  /\ h.key = in.key \/ \E o \in was : o.id = h.id /\ o.key = h.key
               /\ h.id > 0 \/ h.id \in Ids(was)
    <3>1. CASE h \in was
      BY <3>1 DEF Ids
    <3>2. CASE h = r
      BY <2>2, <3>2
    <3> QED BY <2>3, <3>1, <3>2
  <2>6. \A h \in was : h \in hs
    BY <2>3
  <2> QED BY <2>4, <2>5, <2>6
<1>3. CASE same # {}
  <2>1. PICK f : f = [h \in was |-> IF h \in same /\ h.src # "manual" THEN Kept(h, in) ELSE h]
    OBVIOUS
  <2>2. ASSUME NEW h \in was
        PROVE  /\ f[h] = IF h \in same /\ h.src # "manual" THEN Kept(h, in) ELSE h
               /\ f[h] \in HostRec /\ f[h].id = h.id /\ f[h].name = h.name
               /\ f[h].key \in {in.key, h.key}
    <3>1. h \in HostRec
      BY DEF GoodHosts
    <3>2. PICK key \in {in.key, h.key} : key = IF in.key = NoId THEN h.key ELSE in.key
      OBVIOUS
    <3>3. h.id \in Int \ {NoId} /\ key \in Int
      BY <3>1, <3>2 DEF HostRec, Draft
    <3>4. Kept(h, in) = [in EXCEPT !.id = h.id, !.key = key]
      BY <3>2 DEF Kept, Draft
    <3>5. Kept(h, in) \in HostRec
      BY <3>3, <3>4 DEF HostRec, Draft
    <3>6. Kept(h, in).id = h.id /\ Kept(h, in).name = in.name /\ Kept(h, in).key = key
      BY <3>4 DEF Draft
    <3>7. h \in same => h.name = in.name
      BY <1>1 DEF Named
    <3>8. f[h] = IF h \in same /\ h.src # "manual" THEN Kept(h, in) ELSE h
      BY <2>1
    <3> QED BY <3>1, <3>2, <3>5, <3>6, <3>7, <3>8
  <2>3. hs = {f[h] : h \in was}
    <3>1. hs = {IF h \in same /\ h.src # "manual" THEN Kept(h, in) ELSE h : h \in was}
      BY <1>1, <1>3 DEF Upsert
    <3>2. \A h \in was : f[h] = IF h \in same /\ h.src # "manual" THEN Kept(h, in) ELSE h
      BY <2>2
    <3>3. ASSUME NEW x PROVE x \in hs <=> \E h \in was : x = f[h]
      <4>1. x \in hs <=> \E h \in was :
              x = IF h \in same /\ h.src # "manual" THEN Kept(h, in) ELSE h
        BY <3>1
      <4> QED BY <3>2, <4>1, Zenon
    <3> QED BY <3>3, Zenon
  <2>4. GoodHosts(hs)
    <3>1. DOMAIN f = was
      BY <2>1
    <3>2. \A h \in was : f[h] \in HostRec /\ f[h].id = h.id /\ f[h].name = h.name
      BY <2>2
    <3> QED BY <2>3, <3>1, <3>2, SameHosts
  <2>5. ASSUME NEW x \in hs
        PROVE  /\ x.key = in.key \/ \E o \in was : o.id = x.id /\ o.key = x.key
               /\ x.id \in Ids(was)
    <3>1. PICK h \in was : x = f[h]
      BY <2>3
    <3> QED BY <2>2, <3>1 DEF Ids
  <2>6. ASSUME NEW h \in was PROVE \E o \in hs : o.id = h.id /\ o.name = h.name
    BY <2>2, <2>3
  <2> QED BY <2>4, <2>5, <2>6
<1> QED BY <1>2, <1>3

LEMMA PairsFinite ==
  ASSUME NEW p, NEW hs, IsFiniteSet(hs)
  PROVE  IsFiniteSet({p} \X hs)
<1>1. PICK f : f = [h \in hs |-> <<p, h>>]
  OBVIOUS
<1>2. DOMAIN f = hs /\ \A h \in hs : f[h] = <<p, h>>
  BY <1>1
<1>3. IsFiniteSet({f[h] : h \in hs})
  BY <1>2, ImageFinite
<1>4. {p} \X hs = {f[h] : h \in hs}
  BY <1>2
<1> QED BY <1>3, <1>4

\* The documents when their lists of hosts are those of hs.
Given(hs, m, pr) ==
  /\ m = [me EXCEPT !.hosts = hs["me"]]
  /\ pr = [p \in Projects |-> [proj[p] EXCEPT !.hosts = hs[p]]]

\* One document, or two, are given another list of hosts.
LEMMA DocsChange ==
  ASSUME GoodVault(me), GoodProjects(proj), NEW s \in Docs, NEW t \in Docs, NEW hs,
         \A d \in Docs : GoodHosts(hs[d]),
         \A d \in Docs \ {s, t} : hs[d] = HostsOf(d),
         NEW m, NEW pr, Given(hs, m, pr)
  PROVE  /\ GoodVault(m) /\ GoodProjects(pr)
         /\ m.hosts = hs["me"] /\ m.keys = me.keys
         /\ \A p \in Projects : /\ pr[p].hosts = hs[p]
                                /\ pr[p].here = proj[p].here /\ pr[p].listed = proj[p].listed
<1>0. "me" \in Docs /\ Projects \subseteq Docs /\ "me" \notin Projects
  BY BookAssumption DEF Docs
<1>1. m = [hosts |-> hs["me"], keys |-> me.keys]
  BY VaultFields DEF Given
<1>2. GoodVault(m) /\ m.hosts = hs["me"] /\ m.keys = me.keys
  BY <1>0, <1>1, VaultFields, VaultOf
<1>3. ASSUME NEW p \in Projects
      PROVE  /\ pr[p] \in [hosts : SUBSET HostRec, here : BOOLEAN, listed : BOOLEAN]
             /\ pr[p].hosts = hs[p] /\ GoodHosts(hs[p])
             /\ pr[p].here = proj[p].here /\ pr[p].listed = proj[p].listed
  <2>1. proj[p] \in [hosts : SUBSET HostRec, here : BOOLEAN, listed : BOOLEAN]
    BY DEF GoodProjects
  <2>2. GoodHosts(hs[p])
    BY <1>0
  <2>3. hs[p] \in SUBSET HostRec
    BY <2>2 DEF GoodHosts
  <2>4. pr[p] = [proj[p] EXCEPT !.hosts = hs[p]]
    BY DEF Given
  <2> QED BY <2>1, <2>2, <2>3, <2>4
<1>4. pr \in [Projects -> [hosts : SUBSET HostRec, here : BOOLEAN, listed : BOOLEAN]]
  BY <1>3 DEF Given
<1>5. IsFiniteSet(Shared(pr))
  <2>1. IsFiniteSet({s} \X hs[s]) /\ IsFiniteSet({t} \X hs[t])
    BY PairsFinite DEF GoodHosts
  <2>2. IsFiniteSet(Shared(proj))
    BY DEF GoodProjects
  <2>3. IsFiniteSet(Shared(proj) \cup ({s} \X hs[s]))
    BY <2>1, <2>2, FS_Union
  <2>4. IsFiniteSet((Shared(proj) \cup ({s} \X hs[s])) \cup ({t} \X hs[t]))
    BY <2>1, <2>3, FS_Union
  <2>5. ASSUME NEW x \in Shared(pr)
        PROVE  x \in (Shared(proj) \cup ({s} \X hs[s])) \cup ({t} \X hs[t])
    <3>1. PICK p \in Projects : x \in {p} \X pr[p].hosts
      BY DEF Shared
    <3>2. x \in {p} \X hs[p]
      BY <1>3, <3>1
    <3>3. CASE p = s \/ p = t
      BY <3>2, <3>3
    <3>4. CASE p # s /\ p # t
      <4>1. hs[p] = proj[p].hosts
        BY <1>0, <3>4 DEF HostsOf
      <4> QED BY <3>2, <4>1 DEF Shared
    <3> QED BY <3>3, <3>4
  <2> QED BY <2>4, <2>5, FS_Subset
<1> QED BY <1>2, <1>3, <1>4, <1>5 DEF GoodProjects

-----------------------------------------------------------------------------
(* What a step does *)

\* The invariant again, and what the action properties say of the step.
Fine ==
  /\ IInv'
  /\ Stale' \subseteq Stale \cup Arriving \/ FromProject
  /\ modal' # modal => (UNION {Lost(d) : d \in Docs}) \cup LostKeys \subseteq Shown
  /\ killed' \subseteq killed \cup {pressed}

LEMMA StaleIsLoose == Stale = Loose(me) /\ Stale' = Loose(me')
BY DEF Stale, Loose

\* A host of d that is there after the step under its ID and its name is not lost.
LEMMA NothingLost ==
  ASSUME \A d \in Docs : \A x \in HostsOf(d) :
            \/ \E y \in (IF d = "me" THEN me'.hosts ELSE proj'[d].hosts) :
                  y.id = x.id /\ y.name = x.name
            \/ <<d, x.id>> \in Shown,
         LostKeys \subseteq Shown
  PROVE  (UNION {Lost(d) : d \in Docs}) \cup LostKeys \subseteq Shown
<1>1. ASSUME NEW d \in Docs, NEW z \in Lost(d) PROVE z \in Shown
  <2>1. PICK x \in HostsOf(d) :
          /\ z = <<d, x.id>>
          /\ \A y \in (IF d = "me" THEN me'.hosts ELSE proj'[d].hosts) :
               y.id # x.id \/ y.name # x.name
    BY DEF Lost
  <2> QED BY <2>1
<1>2. ASSUME NEW z \in UNION {Lost(d) : d \in Docs} PROVE z \in Shown
  <2>1. PICK d \in Docs : z \in Lost(d)
    OBVIOUS
  <2> QED BY <1>1, <2>1
<1> QED BY <1>2

\* A step that leaves the documents alone.
LEMMA QuietStep ==
  ASSUME IInv, UNCHANGED <<docs, account>>, GoodModal(modal'), Armed',
         kgSync' \in BOOLEAN, jobs' \subseteq Commands,
         sessions' \in Seq([id : Nat, host : Int]), spent' \in Nat,
         killed' \subseteq killed \cup {pressed}
  PROVE  Fine
<1>1. me' = me /\ proj' = proj /\ account' = account
  BY DEF docs
<1>2. IInv'
  BY <1>1 DEF IInv, TypeOK, BeforeSignIn
<1>3. Stale' = Stale
  BY <1>1 DEF Stale
<1>4. (UNION {Lost(d) : d \in Docs}) \cup LostKeys \subseteq Shown
  <2>1. LostKeys = {}
    BY <1>1 DEF LostKeys
  <2>2. \A d \in Docs : \A x \in HostsOf(d) :
           x \in (IF d = "me" THEN me'.hosts ELSE proj'[d].hosts)
    BY <1>1 DEF HostsOf
  <2> QED BY <2>1, <2>2, NothingLost
<1> QED BY <1>2, <1>3, <1>4 DEF Fine

\* A step of the user that gives one document, or two, another list of hosts.
LEMMA HostsStep ==
  ASSUME IInv, UNCHANGED <<kgSync, jobs, live, spent, pressed>>,
         modal' = modal \/ modal' = NoModal,
         NEW s \in Docs, NEW t \in Docs, NEW hs,
         \A d \in Docs : GoodHosts(hs[d]),
         \A d \in Docs \ {s, t} : hs[d] = HostsOf(d),
         Given(hs, me', proj'),
         \A p \in Projects : ~Here(p) => hs[p] = {} \/ account,
         \A h \in hs["me"] : h.id > 0 \/ h.id \in Ids(me.hosts),
         \/ FromProject
         \/ \A h \in hs["me"] : \/ h.key \in {NoId} \cup Ids(me.keys)
                                \/ \E o \in me.hosts : o.id = h.id /\ o.key = h.key,
         \A d \in Docs : \A x \in HostsOf(d) :
            \/ \E y \in hs[d] : y.id = x.id /\ y.name = x.name
            \/ <<d, x.id>> \in Shown
  PROVE  Fine
<1>1. GoodVault(me) /\ GoodProjects(proj)
  BY DEF IInv, TypeOK
<1>2. /\ GoodVault(me') /\ GoodProjects(proj')
      /\ me'.hosts = hs["me"] /\ me'.keys = me.keys
      /\ \A p \in Projects : /\ proj'[p].hosts = hs[p]
                             /\ proj'[p].here = proj[p].here /\ proj'[p].listed = proj[p].listed
  BY <1>1, DocsChange
<1>3. GoodModal(modal') /\ Armed'
  BY DEF IInv, TypeOK, Armed, NoModal, GoodModal, OnHost
<1>4. BeforeSignIn'
  <2> SUFFICES ASSUME ~account
               PROVE  /\ Positive(me')
                      /\ \A p \in Projects :
                           ~proj'[p].here /\ ~proj'[p].listed /\ proj'[p].hosts = {}
    BY DEF BeforeSignIn, live
  <2>1. Positive(me) /\ \A p \in Projects : ~proj[p].here /\ ~proj[p].listed
    BY DEF IInv, BeforeSignIn
  <2>2. Positive(me')
    BY <1>2, <2>1 DEF Positive, Ids
  <2>3. ASSUME NEW p \in Projects
        PROVE  ~proj'[p].here /\ ~proj'[p].listed /\ proj'[p].hosts = {}
    <3>1. ~Here(p)
      BY <2>1, BookAssumption DEF Here
    <3> QED BY <1>2, <2>1, <3>1
  <2> QED BY <2>2, <2>3
<1>5. IInv'
  BY <1>2, <1>3, <1>4 DEF IInv, TypeOK, live
<1>6. Stale' \subseteq Stale \cup Arriving \/ FromProject
  <2>1. CASE FromProject
    BY <2>1
  <2>2. CASE \A h \in hs["me"] : \/ h.key \in {NoId} \cup Ids(me.keys)
                                 \/ \E o \in me.hosts : o.id = h.id /\ o.key = h.key
    <3>1. Loose(me') \subseteq Loose(me)
      BY <1>2, <2>2 DEF Loose
    <3> QED BY <3>1, StaleIsLoose
  <2> QED BY <2>1, <2>2
<1>7. (UNION {Lost(d) : d \in Docs}) \cup LostKeys \subseteq Shown
  <2>1. LostKeys = {}
    BY <1>2 DEF LostKeys
  <2>2. \A d \in Docs : hs[d] = IF d = "me" THEN me'.hosts ELSE proj'[d].hosts
    BY <1>2 DEF Docs
  <2> QED BY <2>1, <2>2, NothingLost
<1> QED BY <1>5, <1>6, <1>7 DEF Fine, live

\* A step that changes the personal document alone.
LEMMA VaultStep ==
  ASSUME IInv, UNCHANGED <<proj, kgSync, live, pressed>>,
         jobs' \subseteq Commands, spent' \in Nat,
         modal' = modal \/ modal' = NoModal,
         Sound(me, me') \/ (spent' # spent /\ Grown(me, me', {Elsewhere})),
         modal' # modal =>
            /\ \A h \in me.hosts : \E o \in me'.hosts : o.id = h.id /\ o.name = h.name
            /\ LostKeys \subseteq Shown
  PROVE  Fine
<1>1. GoodModal(modal') /\ Armed'
  BY DEF IInv, TypeOK, Armed, NoModal, GoodModal, OnHost
<1>2. IInv'
  BY <1>1 DEF IInv, TypeOK, BeforeSignIn, Sound, Grown, live
<1>3. Stale' \subseteq Stale \cup Arriving
  BY StaleIsLoose DEF Sound, Grown, Arriving
<1>4. ASSUME modal' # modal
      PROVE  (UNION {Lost(d) : d \in Docs}) \cup LostKeys \subseteq Shown
  <2>1. ASSUME NEW d \in Docs, NEW x \in HostsOf(d)
        PROVE  \E y \in (IF d = "me" THEN me'.hosts ELSE proj'[d].hosts) :
                  y.id = x.id /\ y.name = x.name
    BY <1>4 DEF HostsOf
  <2> QED BY <1>4, <2>1, NothingLost
<1> QED BY <1>2, <1>3, <1>4 DEF Fine, live

LEMMA AdoptRemoteFine ==
  ASSUME IInv, AdoptRemote
  PROVE  Fine
<1>1. spent' # spent /\ Grown(me, me', {Elsewhere})
  <2>1. GoodVault(me) /\ Room(1) /\ me' \in Changed(me) /\ spent' = spent + 1 /\ spent \in Nat
    BY DEF AdoptRemote, Event, IInv, TypeOK
  <2>2. New \notin Ids(me.hosts) /\ New \notin Ids(me.keys)
    BY <2>1, NewIsUnused, UnusedIsFree
  <2> QED BY <2>1, <2>2, VaultChanges
<1> QED BY <1>1, VaultStep DEF AdoptRemote, Event, IInv, TypeOK

LEMMA SignInFine ==
  ASSUME IInv, SignIn
  PROVE  Fine
<1>1. PICK theirs \in AccountDocs : me' = Merge(theirs, me)
  BY DEF SignIn
<1>2. /\ Room(1) /\ ~account /\ account' /\ GoodVault(me) /\ Positive(me)
      /\ spent' = spent + 1 /\ spent \in Nat
  BY DEF SignIn, Event, IInv, TypeOK, BeforeSignIn
<1>3. /\ GoodVault(theirs) /\ Unsigned(theirs.hosts) /\ Unsigned(theirs.keys)
      /\ Loose(theirs) \subseteq Loose(me) \cup {Elsewhere}
  BY <1>2, AccountDocsGood
<1>4. GoodVault(me') /\ Loose(me') \subseteq Loose(theirs)
  BY <1>1, <1>2, <1>3, Merging
<1>5. Stale' \subseteq Stale \cup Arriving
  BY <1>2, <1>3, <1>4, StaleIsLoose DEF Arriving
<1>6. IInv'
  BY <1>2, <1>4 DEF SignIn, Event, IInv, TypeOK, BeforeSignIn, Armed
<1> QED BY <1>5, <1>6 DEF Fine, SignIn

\* A step that gives one project another document.
LEMMA ProjectStep ==
  ASSUME IInv, account, UNCHANGED <<me, modal, kgSync, jobs, live, pressed>>, spent' \in Nat,
         NEW p \in Projects,
         NEW r \in [hosts : SUBSET HostRec, here : BOOLEAN, listed : BOOLEAN],
         GoodHosts(r.hosts), proj' = [proj EXCEPT ![p] = r]
  PROVE  Fine
<1>1. GoodProjects(proj)
  BY DEF IInv, TypeOK
<1>2. /\ proj' \in [Projects -> [hosts : SUBSET HostRec, here : BOOLEAN, listed : BOOLEAN]]
      /\ proj'[p] = r /\ \A q \in Projects \ {p} : proj'[q] = proj[q]
  BY <1>1 DEF GoodProjects
<1>3. IsFiniteSet(Shared(proj'))
  <2>1. IsFiniteSet({p} \X r.hosts)
    BY PairsFinite DEF GoodHosts
  <2>2. IsFiniteSet(Shared(proj) \cup ({p} \X r.hosts))
    BY <1>1, <2>1, FS_Union DEF GoodProjects
  <2>3. ASSUME NEW x \in Shared(proj') PROVE x \in Shared(proj) \cup ({p} \X r.hosts)
    <3>1. PICK q \in Projects : x \in {q} \X proj'[q].hosts
      BY DEF Shared
    <3>2. CASE q = p
      BY <1>2, <3>1, <3>2
    <3>3. CASE q # p
      BY <1>2, <3>1, <3>3 DEF Shared
    <3> QED BY <3>2, <3>3
  <2> QED BY <2>2, <2>3, FS_Subset
<1>4. GoodProjects(proj')
  BY <1>1, <1>2, <1>3 DEF GoodProjects
<1>5. IInv'
  BY <1>4 DEF IInv, TypeOK, BeforeSignIn, Armed, live
<1>6. Stale' = Stale
  BY DEF Stale
<1> QED BY <1>5, <1>6 DEF Fine, live

LEMMA ProjectsSyncedFine ==
  ASSUME IInv, NEW p \in Projects, ProjectsSynced(p)
  PROVE  Fine
<1>0. /\ account /\ Room(2) /\ Room(1) /\ spent' \in Nat
      /\ UNCHANGED <<me, modal, kgSync, jobs, live, pressed>>
  <2>1. Room(2) => Room(1)
    BY UnusedFinite, FS_CardinalityType DEF Room
  <2> QED BY <2>1 DEF ProjectsSynced, Event, IInv, TypeOK
<1>1. /\ proj[p] \in [hosts : SUBSET HostRec, here : BOOLEAN, listed : BOOLEAN]
      /\ GoodHosts(proj[p].hosts)
  BY DEF IInv, TypeOK, GoodProjects
<1>2. CASE \E hs \in ChangedHosts(proj[p].hosts, {NoId, Another}) :
             proj' = [proj EXCEPT ![p] = [hosts |-> hs, here |-> TRUE, listed |-> TRUE]]
  <2>1. PICK was : was = proj[p].hosts
    OBVIOUS
  <2>2. PICK ks \in SUBSET Int : ks = {NoId, Another}
    <3>1. Another \in Int
      BY <1>0, AnotherIsUnused, UnusedIsFree
    <3>2. {NoId, Another} \subseteq Int
      BY <3>1 DEF NoId
    <3> QED BY <3>2
  <2>3. PICK hs \in ChangedHosts(was, ks) :
          proj' = [proj EXCEPT ![p] = [hosts |-> hs, here |-> TRUE, listed |-> TRUE]]
    BY <1>2, <2>1, <2>2
  <2>4. New \notin Ids(was) /\ GoodHosts(was)
    BY <1>0, <1>1, <2>1, NewIsUnused, UnusedIsFree
  <2>5. GoodHosts(hs)
    BY <1>0, <2>4, ListChanges
  <2>6. PICK r : r = [hosts |-> hs, here |-> TRUE, listed |-> TRUE]
    OBVIOUS
  <2>7. r \in [hosts : SUBSET HostRec, here : BOOLEAN, listed : BOOLEAN] /\ r.hosts = hs
    BY <2>5, <2>6 DEF GoodHosts
  <2> QED BY <1>0, <2>3, <2>5, <2>6, <2>7, ProjectStep
<1>3. CASE proj' = [proj EXCEPT ![p].listed = FALSE]
  <2>1. PICK r : r = [proj[p] EXCEPT !.listed = FALSE]
    OBVIOUS
  <2>2. /\ r \in [hosts : SUBSET HostRec, here : BOOLEAN, listed : BOOLEAN]
        /\ r.hosts = proj[p].hosts
    BY <1>1, <2>1
  <2>3. proj' = [proj EXCEPT ![p] = r]
    BY <1>3, <2>1 DEF IInv, TypeOK, GoodProjects
  <2> QED BY <1>0, <1>1, <2>2, <2>3, ProjectStep
<1>4. CASE proj' = [proj EXCEPT ![p] = [hosts |-> {}, here |-> FALSE, listed |-> FALSE]]
  <2>1. PICK r : r = [hosts |-> {}, here |-> FALSE, listed |-> FALSE]
    OBVIOUS
  <2>2. r \in [hosts : SUBSET HostRec, here : BOOLEAN, listed : BOOLEAN] /\ r.hosts = {}
    BY <2>1
  <2> QED BY <1>0, <1>4, <2>1, <2>2, NoHosts, ProjectStep
<1> QED BY <1>2, <1>3, <1>4 DEF ProjectsSynced

-----------------------------------------------------------------------------
(* The hosts tab *)

LEMMA HostsTyped ==
  ASSUME IInv, NEW d \in Docs
  PROVE  GoodHosts(HostsOf(d)) /\ HostsOf(d) \subseteq HostRec
<1>1. GoodVault(me) /\ GoodProjects(proj)
  BY DEF IInv, TypeOK
<1>2. GoodHosts(HostsOf(d))
  BY <1>1, VaultFields DEF HostsOf, GoodProjects, Docs
<1> QED BY <1>2 DEF GoodHosts

\* Another modal, or none, and nothing else.
LEMMA ModalStep ==
  ASSUME IInv, GoodModal(modal'), modal'.kind # "picker",
         UNCHANGED <<docs, kgSync, jobs, live, spent>>
  PROVE  Fine
<1>1. Armed'
  BY DEF Armed
<1>2. /\ account' = account /\ kgSync' \in BOOLEAN /\ jobs' \subseteq Commands
      /\ sessions' \in Seq([id : Nat, host : Int]) /\ spent' \in Nat
      /\ killed' \subseteq killed \cup {pressed}
  BY DEF IInv, TypeOK, live
<1> QED BY <1>1, <1>2, QuietStep

LEMMA NoModalGood == GoodModal(NoModal) /\ NoModal.kind = "none"
BY DEF GoodModal, NoModal, OnHost

LEMMA HostModalGood ==
  ASSUME NEW kind \in OnHost, NEW d \in Docs, NEW id \in Int, NEW key \in Int
  PROVE  GoodModal(Modal(kind, d, id, key)) /\ Modal(kind, d, id, key).kind # "picker"
<1>1. PICK m : m = Modal(kind, d, id, key)
  OBVIOUS
<1>2. m \in [kind : OnHost, doc : Docs, to : Docs, id : Int, key : Int]
  BY <1>1 DEF Modal
<1>3. m.kind = kind
  BY <1>1 DEF Modal
<1> QED BY <1>1, <1>2, <1>3 DEF GoodModal, OnHost

LEMMA OpenHostModalFine ==
  ASSUME IInv, OpenForm \/ OpenDelete \/ OpenMove
  PROVE  Fine
<1>1. Visible \subseteq Docs /\ "me" \in Docs /\ NoId \in Int
  BY DEF Visible, Writable, Docs, NoId
<1>2. PICK kind \in OnHost, d \in Docs, id \in Int, key \in Int :
        Opens(Modal(kind, d, id, key))
  <2>1. CASE OpenForm
    <3>1. CASE Opens(Modal("form", "me", NoId, NoId))
      BY <1>1, <3>1 DEF OnHost
    <3>2. CASE \E d \in Visible : \E h \in HostsOf(d) : Opens(Modal("form", d, h.id, h.key))
      <4>1. PICK d \in Docs : \E h \in HostsOf(d) : Opens(Modal("form", d, h.id, h.key))
        BY <1>1, <3>2
      <4>2. PICK h \in HostRec : Opens(Modal("form", d, h.id, h.key))
        BY <4>1, HostsTyped
      <4>3. h.id \in Int /\ h.key \in Int
        BY DEF HostRec
      <4> QED BY <4>2, <4>3 DEF OnHost
    <3> QED BY <2>1, <3>1, <3>2 DEF OpenForm
  <2>2. CASE OpenDelete
    <3>1. PICK d \in Docs : \E h \in HostsOf(d) : Opens(Modal("delete", d, h.id, NoId))
      BY <1>1, <2>2 DEF OpenDelete
    <3>2. PICK h \in HostRec : Opens(Modal("delete", d, h.id, NoId))
      BY <3>1, HostsTyped
    <3>3. h.id \in Int
      BY DEF HostRec
    <3> QED BY <1>1, <3>2, <3>3 DEF OnHost
  <2>3. CASE OpenMove
    <3>1. PICK d \in Docs : \E h \in HostsOf(d) : Opens(Modal("move", d, h.id, NoId))
      BY <1>1, <2>3 DEF OpenMove
    <3>2. PICK h \in HostRec : Opens(Modal("move", d, h.id, NoId))
      BY <3>1, HostsTyped
    <3>3. h.id \in Int
      BY DEF HostRec
    <3> QED BY <1>1, <3>2, <3>3 DEF OnHost
  <2> QED BY <2>1, <2>2, <2>3
<1>3. GoodModal(modal') /\ modal'.kind # "picker"
  BY <1>2, HostModalGood DEF Opens
<1> QED BY <1>2, <1>3, ModalStep DEF Opens

LEMMA CycleProjectFine ==
  ASSUME IInv, CycleProject
  PROVE  Fine
<1>1. PICK d \in Docs : modal' = [modal EXCEPT !.to = d]
  BY DEF CycleProject, Writable, Docs
<1>2. modal \in [kind : OnHost, doc : Docs, to : Docs, id : Int, key : Int] /\ modal.kind = "form"
  BY DEF CycleProject, IInv, TypeOK, GoodModal, OnHost
<1>3. /\ modal' \in [kind : OnHost, doc : Docs, to : Docs, id : Int, key : Int]
      /\ modal'.kind = "form"
  BY <1>1, <1>2
<1>4. GoodModal(modal') /\ modal'.kind # "picker"
  BY <1>3 DEF GoodModal, OnHost
<1> QED BY <1>4, ModalStep DEF CycleProject

LEMMA EscFine ==
  ASSUME IInv, Esc
  PROVE  Fine
BY NoModalGood, ModalStep DEF Esc, Closes

\* With: one document is given another list of hosts.
LEMMA WithIsGiven ==
  ASSUME IInv, NEW d \in Docs, NEW new, With(d, new)
  PROVE  Given([e \in Docs |-> IF e = d THEN new ELSE HostsOf(e)], me', proj')
<1>1. PICK hs : hs = [e \in Docs |-> IF e = d THEN new ELSE HostsOf(e)]
  OBVIOUS
<1>2. \A e \in Docs : hs[e] = IF e = d THEN new ELSE HostsOf(e)
  BY <1>1
<1>3. GoodVault(me) /\ GoodProjects(proj)
  BY DEF IInv, TypeOK
<1>4. me' = [me EXCEPT !.hosts = hs["me"]]
  <2>1. hs["me"] = IF d = "me" THEN new ELSE me.hosts
    BY <1>2 DEF Docs, HostsOf
  <2>2. CASE d = "me"
    BY <2>1, <2>2 DEF With
  <2>3. CASE d # "me"
    <3>1. me' = me /\ hs["me"] = me.hosts
      BY <2>1, <2>3 DEF With
    <3> QED BY <1>3, <3>1, VaultFields
  <2> QED BY <2>2, <2>3
<1>5. proj' = [p \in Projects |-> [proj[p] EXCEPT !.hosts = hs[p]]]
  <2>1. ASSUME NEW p \in Projects
        PROVE  /\ hs[p] = IF p = d THEN new ELSE proj[p].hosts
               /\ proj[p] \in [hosts : SUBSET HostRec, here : BOOLEAN, listed : BOOLEAN]
    BY <1>2, <1>3, BookAssumption DEF Docs, HostsOf, GoodProjects
  <2>2. DOMAIN proj = Projects /\ proj = [p \in Projects |-> proj[p]]
    BY <1>3 DEF GoodProjects
  <2>3. CASE d = "me"
    <3>1. proj' = proj
      BY <2>3 DEF With
    <3>2. \A p \in Projects : hs[p] = proj[p].hosts
      BY <2>1, <2>3, BookAssumption
    <3>3. ASSUME NEW p \in Projects PROVE proj[p] = [proj[p] EXCEPT !.hosts = hs[p]]
      BY <2>1, <3>2
    <3> QED BY <2>2, <3>1, <3>3
  <2>4. CASE d # "me"
    <3>1. proj' = [proj EXCEPT ![d].hosts = new] /\ d \in Projects
      BY <2>4 DEF With, Docs
    <3>2. ASSUME NEW p \in Projects PROVE proj'[p] = [proj[p] EXCEPT !.hosts = hs[p]]
      <4>1. CASE p = d
        BY <2>1, <2>2, <3>1, <4>1
      <4>2. CASE p # d
        BY <2>1, <2>2, <3>1, <4>2
      <4> QED BY <4>1, <4>2
    <3>3. proj' = [p \in Projects |-> proj'[p]]
      BY <2>2, <3>1
    <3> QED BY <3>2, <3>3
  <2> QED BY <2>3, <2>4
<1> QED BY <1>1, <1>4, <1>5 DEF Given

\* A step that gives one document another list of hosts.
LEMMA OneDocStep ==
  ASSUME IInv, UNCHANGED <<kgSync, jobs, live, spent, pressed>>,
         modal' = modal \/ modal' = NoModal,
         NEW d \in Docs, NEW new, GoodHosts(new), With(d, new),
         Here(d) \/ new \subseteq HostsOf(d),
         \A h \in new : h.id > 0 \/ h.id \in Ids(HostsOf(d)),
         \A h \in new : \/ h.key \in {NoId} \cup Ids(me.keys)
                        \/ \E o \in HostsOf(d) : o.id = h.id /\ o.key = h.key,
         \A x \in HostsOf(d) : \/ \E y \in new : y.id = x.id /\ y.name = x.name
                               \/ <<d, x.id>> \in Shown
  PROVE  Fine
<1>1. PICK hs : hs = [e \in Docs |-> IF e = d THEN new ELSE HostsOf(e)]
  OBVIOUS
<1>2. Given(hs, me', proj')
  BY <1>1, WithIsGiven
<1>3. \A e \in Docs : hs[e] = IF e = d THEN new ELSE HostsOf(e)
  BY <1>1
<1>4. \A e \in Docs : GoodHosts(hs[e])
  BY <1>3, HostsTyped
<1>5. \A e \in Docs \ {d, d} : hs[e] = HostsOf(e)
  BY <1>3
<1>6. \A p \in Projects : ~Here(p) => hs[p] = {} \/ account
  <2> SUFFICES ASSUME NEW p \in Projects, ~Here(p), ~account PROVE hs[p] = {}
    OBVIOUS
  <2>1. HostsOf(p) = {} /\ p \in Docs
    BY BookAssumption DEF IInv, BeforeSignIn, HostsOf, Docs
  <2> QED BY <1>3, <2>1
<1>7. "me" \in Docs /\ HostsOf("me") = me.hosts
  BY DEF Docs, HostsOf
<1>8. \A h \in hs["me"] : h.id > 0 \/ h.id \in Ids(me.hosts)
  BY <1>3, <1>7 DEF Ids
<1>9. \A h \in hs["me"] : \/ h.key \in {NoId} \cup Ids(me.keys)
                          \/ \E o \in me.hosts : o.id = h.id /\ o.key = h.key
  BY <1>3, <1>7
<1>10. \A e \in Docs : \A x \in HostsOf(e) :
         \/ \E y \in hs[e] : y.id = x.id /\ y.name = x.name
         \/ <<e, x.id>> \in Shown
  BY <1>3
<1> QED BY <1>2, <1>4, <1>5, <1>6, <1>8, <1>9, <1>10, HostsStep

\* What an open form, deletion or move remembers.
LEMMA Remembers ==
  ASSUME IInv, modal.kind \in OnHost
  PROVE  /\ modal.doc \in Docs /\ modal.to \in Docs /\ modal.id \in Int /\ modal.key \in Int
         /\ Shown = {<<modal.doc, modal.id>>}
<1>1. modal \in [kind : OnHost, doc : Docs, to : Docs, id : Int, key : Int]
  BY DEF IInv, TypeOK, GoodModal
<1> QED BY <1>1 DEF Shown, OnHost

LEMMA DeleteConfirmFine ==
  ASSUME IInv, DeleteConfirm
  PROVE  Fine
<1>1. /\ modal.doc \in Docs /\ Shown = {<<modal.doc, modal.id>>}
      /\ With(modal.doc, Delete(HostsOf(modal.doc), modal.id))
  BY Remembers DEF DeleteConfirm, Captured, OnHost
<1>2. PICK d \in Docs : d = modal.doc
  BY <1>1
<1>3. PICK new : new = Delete(HostsOf(d), modal.id)
  OBVIOUS
<1>4. GoodHosts(new) /\ With(d, new)
  BY <1>1, <1>2, <1>3, HostsTyped, DeletedHosts
<1>5. new = {h \in HostsOf(d) : h.id # modal.id}
  BY <1>3 DEF Delete
<1>6. /\ new \subseteq HostsOf(d)
      /\ \A h \in new : h.id \in Ids(HostsOf(d))
      /\ \A h \in new : \E o \in HostsOf(d) : o.id = h.id /\ o.key = h.key
      /\ \A x \in HostsOf(d) : \/ \E y \in new : y.id = x.id /\ y.name = x.name
                               \/ <<d, x.id>> \in Shown
  BY <1>1, <1>2, <1>5 DEF Ids
<1>7. modal' = NoModal /\ UNCHANGED <<kgSync, jobs, live, spent, pressed>>
  BY DEF DeleteConfirm
<1> QED BY <1>4, <1>6, <1>7, OneDocStep

\* What the form can hold.
LEMMA TypedHosts ==
  ASSUME NEW h \in Typed
  PROVE  h \in [id : {NoId}, name : Names, ok : BOOLEAN, key : {NoId} \cup Ids(me.keys),
                src : {"manual"}]
<1>1. FormKeys \subseteq {NoId} \cup Ids(me.keys)
  BY DEF FormKeys, BoundKeyId
<1>2. PICK n \in Names, ok \in BOOLEAN, k \in FormKeys : h = Host(NoId, n, ok, k, "manual")
  BY DEF Typed
<1> QED BY <1>1, <1>2 DEF Host

LEMMA SubmitAddFine ==
  ASSUME IInv, modal.kind = "form", NEW d \in Docs, NEW h \in Typed, SubmitAdd(d, h),
         UNCHANGED <<kgSync, jobs, live, spent, pressed>>
  PROVE  Fine
<1>1. CASE Here(d) /\ Valid(HostsOf(d), h, NoId)
  <2>1. PICK new : new = HostsOf(d) \cup {[h EXCEPT !.id = New]}
    OBVIOUS
  <2>2. Room(1) /\ With(d, new) /\ modal' = NoModal
    BY <1>1, <2>1 DEF SubmitAdd, Writes
  <2>3. New \in Int /\ New > 0 /\ New \notin Ids(HostsOf(d))
    BY <2>2, NewIsUnused, UnusedIsFree DEF HostsOf, Docs
  <2>4. PICK r : r = [h EXCEPT !.id = New]
    OBVIOUS
  <2>5. Ids(me.keys) \subseteq Int
    BY VaultFields DEF IInv, TypeOK, KeyRec, Ids
  <2>6. h \in [id : {NoId}, name : Names, ok : BOOLEAN, key : {NoId} \cup Ids(me.keys),
               src : {"manual"}]
    BY TypedHosts
  <2>7. r \in HostRec
    BY <2>3, <2>4, <2>5, <2>6 DEF HostRec, NoId
  <2>8. r.id = New /\ r.name = h.name /\ r.key \in {NoId} \cup Ids(me.keys)
    BY <2>4, <2>6
  <2>9. Named(HostsOf(d), r.name) = {}
    <3>1. \A o \in HostsOf(d) : o.id # NoId
      BY HostsTyped DEF HostRec
    <3> QED BY <1>1, <2>8, <3>1 DEF Valid, Named
  <2>10. GoodHosts(new)
    BY <2>1, <2>3, <2>4, <2>7, <2>8, <2>9, HostsTyped, AddedHost
  <2>11. /\ \A x \in new : x.id > 0 \/ x.id \in Ids(HostsOf(d))
         /\ \A x \in new : \/ x.key \in {NoId} \cup Ids(me.keys)
                           \/ \E o \in HostsOf(d) : o.id = x.id /\ o.key = x.key
         /\ \A x \in HostsOf(d) : \E y \in new : y.id = x.id /\ y.name = x.name
    BY <2>1, <2>3, <2>4, <2>8 DEF Ids
  <2> QED BY <1>1, <2>2, <2>10, <2>11, OneDocStep
<1>2. CASE ~(Here(d) /\ Valid(HostsOf(d), h, NoId))
  <2>1. UNCHANGED <<docs, modal>>
    BY <1>2 DEF SubmitAdd, Refused
  <2>2. GoodModal(modal') /\ modal'.kind # "picker"
    BY <2>1 DEF IInv, TypeOK
  <2> QED BY <2>1, <2>2, ModalStep
<1> QED BY <1>1, <1>2

\* The origin of the host a form or a move was opened on.
Origin(d, was) == IF d = "me" /\ was # {} THEN (CHOOSE o \in was : TRUE).src ELSE "manual"
LEMMA OriginIs ==
  ASSUME NEW d, NEW was \in SUBSET HostRec
  PROVE  Origin(d, was) \in {"manual", "imported"}
<1>1. CASE d = "me" /\ was # {}
  <2>1. PICK o : o = CHOOSE x \in was : TRUE
    OBVIOUS
  <2>2. o \in HostRec
    BY <1>1, <2>1
  <2> QED BY <1>1, <2>1, <2>2 DEF Origin, HostRec
<1> QED BY <1>1 DEF Origin

\* A typed host under the ID, and with the origin, of the one the form was opened on.
As(h, id, src) == [h EXCEPT !.id = id, !.src = src]
LEMMA Retyped ==
  ASSUME IInv, NEW h \in Typed, NEW id \in Int, NEW src \in {"manual", "imported"},
         NEW new, new = As(h, id, src)
  PROVE  /\ id # NoId => new \in HostRec
         /\ new.id = id /\ new.name = h.name /\ new.ok = h.ok
         /\ new.key \in {NoId} \cup Ids(me.keys)
<1>1. new = [h EXCEPT !.id = id, !.src = src]
  BY DEF As
<1>2. h \in [id : {NoId}, name : Names, ok : BOOLEAN, key : {NoId} \cup Ids(me.keys),
             src : {"manual"}]
  BY TypedHosts
<1>3. Ids(me.keys) \subseteq Int
  BY VaultFields DEF IInv, TypeOK, KeyRec, Ids
<1>4. id # NoId => new \in HostRec
  <2>1. h \in Draft
    BY <1>2, <1>3 DEF Draft, NoId
  <2> QED BY <1>1, <2>1 DEF HostRec, Draft
<1>5. /\ new.id = id /\ new.name = h.name /\ new.ok = h.ok
      /\ new.key \in {NoId} \cup Ids(me.keys)
  BY <1>1, <1>2
<1> QED BY <1>1, <1>4, <1>5

LEMMA SubmitUpdateFine ==
  ASSUME IInv, modal.kind = "form", NEW d \in Docs, NEW h \in Typed, SubmitUpdate(d, h),
         UNCHANGED <<kgSync, jobs, live, spent, pressed>>
  PROVE  Fine
<1>0. d = modal.doc /\ modal.id \in Int \ {NoId} /\ Shown = {<<modal.doc, modal.id>>}
  BY Remembers DEF SubmitUpdate, OnHost
<1>1. PICK was : was = {o \in HostsOf(d) : o.id = modal.id}
  OBVIOUS
<1>2. PICK src : src = Origin(d, was)
  OBVIOUS
<1>3. src \in {"manual", "imported"}
  <2>1. was \in SUBSET HostRec
    BY <1>1, HostsTyped
  <2> QED BY <1>2, <2>1, OriginIs
<1>4. PICK r : r = [h EXCEPT !.id = modal.id, !.src = src]
  OBVIOUS
<1>5. /\ r \in HostRec /\ r.id = modal.id /\ r.name = h.name
      /\ r.key \in {NoId} \cup Ids(me.keys)
  <2>1. PICK id \in Int : id = modal.id /\ id # NoId
    BY <1>0
  <2>2. r = As(h, id, src)
    BY <1>4, <2>1 DEF As
  <2>3. /\ r \in HostRec /\ r.id = id /\ r.name = h.name
        /\ r.key \in {NoId} \cup Ids(me.keys)
    BY <1>3, <2>1, <2>2, Retyped
  <2> QED BY <2>1, <2>3
<1>6. \/ /\ Here(d) /\ was # {} /\ Valid(HostsOf(d), r, modal.id)
         /\ Writes(d, Update(HostsOf(d), r))
      \/ Refused
  BY <1>1, <1>2, <1>4 DEF SubmitUpdate, Origin
<1>7. CASE Refused
  <2>1. GoodModal(modal') /\ modal'.kind # "picker" /\ UNCHANGED docs
    BY <1>7 DEF Refused, IInv, TypeOK
  <2> QED BY <2>1, ModalStep
<1>8. CASE /\ Here(d) /\ was # {} /\ Valid(HostsOf(d), r, modal.id)
           /\ Writes(d, Update(HostsOf(d), r))
  <2>1. PICK new : new = Update(HostsOf(d), r)
    OBVIOUS
  <2>2. With(d, new) /\ modal' = NoModal
    BY <1>8, <2>1 DEF Writes
  <2>3. \A o \in HostsOf(d) : o.id = r.id \/ o.name # r.name
    BY <1>5, <1>8 DEF Valid
  <2>4. GoodHosts(new)
    BY <1>5, <2>1, <2>3, HostsTyped, UpdatedHost
  <2>5. \A x \in new : x = r \/ (x \in HostsOf(d) /\ x.id # r.id)
    BY <2>1 DEF Update
  <2>6. \A x \in HostsOf(d) : x.id # r.id => x \in new
    BY <2>1 DEF Update
  <2>7. r.id \in Ids(HostsOf(d))
    BY <1>1, <1>5, <1>8 DEF Ids
  <2>8. /\ \A x \in new : x.id > 0 \/ x.id \in Ids(HostsOf(d))
        /\ \A x \in new : \/ x.key \in {NoId} \cup Ids(me.keys)
                          \/ \E o \in HostsOf(d) : o.id = x.id /\ o.key = x.key
    BY <1>5, <2>5, <2>7 DEF Ids
  <2>9. \A x \in HostsOf(d) : \/ \E y \in new : y.id = x.id /\ y.name = x.name
                              \/ <<d, x.id>> \in Shown
    BY <1>0, <1>5, <2>6
  <2> QED BY <1>8, <2>2, <2>4, <2>8, <2>9, OneDocStep
<1> QED BY <1>6, <1>7, <1>8

-----------------------------------------------------------------------------
(* A move *)

\* The lists of hosts after a move of h that went through: it is gone from the source,
\* and the destination has it, under a new ID, unless its address was refused.
Moved(hs, source, target, h) ==
  /\ Here(source) /\ Here(target) /\ h.id \in Ids(HostsOf(source))
  /\ Named(HostsOf(target), h.name) = {} /\ New \in Unused
  /\ hs[source] = Delete(HostsOf(source), h.id)
  /\ hs[target] = HostsOf(target) \cup (IF h.ok THEN {[h EXCEPT !.id = New]} ELSE {})
  /\ \A d \in Docs \ {source, target} : hs[d] = HostsOf(d)

LEMMA MoveIs ==
  ASSUME IInv, NEW source \in Docs, NEW target \in Docs, source # target,
         NEW h \in HostRec, MovesHost(source, target, h)
  PROVE  \/ UNCHANGED <<docs, modal>>
         \/ \E hs : /\ Moved(hs, source, target, h) /\ Given(hs, me', proj')
                    /\ modal' = IF h.ok THEN NoModal ELSE modal
<1>1. CASE ~Accepts(target, h) \/ ~Here(source) \/ h.id \notin Ids(HostsOf(source))
  BY <1>1 DEF MovesHost, Refused
<1>2. CASE Accepts(target, h) /\ Here(source) /\ h.id \in Ids(HostsOf(source))
  <2>1. PICK left : left = Delete(HostsOf(source), h.id)
    OBVIOUS
  <2>2. PICK new : new = HostsOf(target) \cup
                           (IF Valid(HostsOf(target), h, NoId) THEN {[h EXCEPT !.id = New]} ELSE {})
    OBVIOUS
  <2>3. PICK hs : hs = [d \in Docs |-> IF d = source THEN left
                                       ELSE IF d = target THEN new ELSE HostsOf(d)]
    OBVIOUS
  <2>4. \A d \in Docs : hs[d] = IF d = source THEN left
                                ELSE IF d = target THEN new ELSE HostsOf(d)
    BY <2>3
  <2>5. "me" \in Docs /\ Projects \subseteq Docs
    BY DEF Docs
  <2>6. Room(1) /\ modal' = IF Valid(HostsOf(target), h, NoId) THEN NoModal ELSE modal
    BY <1>2 DEF MovesHost
  <2>7. me' = [me EXCEPT !.hosts = hs["me"]]
    <3>1. me' = [me EXCEPT !.hosts = IF "me" = source THEN left
                                     ELSE IF "me" = target THEN new ELSE HostsOf("me")]
      BY <1>2, <2>1, <2>2 DEF MovesHost
    <3>2. hs["me"] = IF "me" = source THEN left
                     ELSE IF "me" = target THEN new ELSE HostsOf("me")
      BY <2>4, <2>5
    <3> QED BY <3>1, <3>2
  <2>8. proj' = [p \in Projects |-> [proj[p] EXCEPT !.hosts = hs[p]]]
    <3>1. proj' = [p \in Projects |-> [proj[p] EXCEPT !.hosts =
                     IF p = source THEN left ELSE IF p = target THEN new ELSE HostsOf(p)]]
      BY <1>2, <2>1, <2>2 DEF MovesHost
    <3>2. \A p \in Projects : hs[p] = IF p = source THEN left
                                      ELSE IF p = target THEN new ELSE HostsOf(p)
      BY <2>4, <2>5
    <3> QED BY <3>1, <3>2
  <2>9. Named(HostsOf(target), h.name) = {} /\ Here(target)
    BY <1>2 DEF Accepts
  <2>10. Valid(HostsOf(target), h, NoId) = h.ok
    <3>1. h.ok \in BOOLEAN
      BY DEF HostRec
    <3>2. \A o \in HostsOf(target) : o.name # h.name
      BY <2>9 DEF Named
    <3> QED BY <3>1, <3>2 DEF Valid
  <2>11. New \in Unused
    BY <2>6, NewIsUnused
  <2>12. Moved(hs, source, target, h)
    BY <1>2, <2>1, <2>2, <2>4, <2>9, <2>10, <2>11 DEF Moved
  <2> QED BY <2>6, <2>7, <2>8, <2>10, <2>12 DEF Given
<1> QED BY <1>1, <1>2

\* Every move the form or the move modal makes keeps the invariant and loses the host
\* it was opened on, or none.
LEMMA MoveFine ==
  ASSUME IInv, NEW source \in Docs, NEW target \in Docs, source # target,
         NEW h \in HostRec, MovesHost(source, target, h), <<source, h.id>> \in Shown,
         h.key \in {NoId} \cup Ids(me.keys) \/ modal.kind = "move",
         UNCHANGED <<kgSync, jobs, live, spent, pressed>>
  PROVE  Fine
<1>1. CASE UNCHANGED <<docs, modal>>
  <2>1. GoodModal(modal') /\ modal'.kind # "picker"
    BY <1>1 DEF IInv, TypeOK, Shown
  <2> QED BY <1>1, <2>1, ModalStep
<1>2. ASSUME NEW hs, Moved(hs, source, target, h), Given(hs, me', proj'),
             modal' = IF h.ok THEN NoModal ELSE modal
      PROVE  Fine
  <2>1. PICK new : new = HostsOf(target) \cup (IF h.ok THEN {[h EXCEPT !.id = New]} ELSE {})
    OBVIOUS
  <2>2. PICK left : left = Delete(HostsOf(source), h.id)
    OBVIOUS
  <2>3. PICK r : r = [h EXCEPT !.id = New]
    OBVIOUS
  <2>4. New \in Unused /\ New \in Int /\ New > 0 /\ New \notin Ids(HostsOf(target))
    BY <1>2, UnusedIsFree DEF Moved, HostsOf, Docs
  <2>5. r \in HostRec /\ r.id = New /\ r.name = h.name /\ r.key = h.key
    BY <2>3, <2>4 DEF HostRec, NoId
  <2>6. /\ hs[source] = left /\ hs[target] = new /\ Here(source) /\ Here(target)
        /\ Named(HostsOf(target), r.name) = {}
        /\ \A d \in Docs \ {source, target} : hs[d] = HostsOf(d)
    BY <1>2, <2>1, <2>2, <2>5 DEF Moved
  <2>7. GoodHosts(left) /\ \A x \in HostsOf(source) : x.id # h.id => x \in left
    BY <2>2, HostsTyped, DeletedHosts DEF Delete
  <2>8. left \subseteq HostsOf(source)
    BY <2>2 DEF Delete
  <2>9. GoodHosts(new)
    <3>1. GoodHosts(HostsOf(target))
      BY HostsTyped
    <3>2. GoodHosts(HostsOf(target) \cup {r})
      BY <2>4, <2>5, <2>6, <3>1, AddedHost
    <3> QED BY <2>1, <2>3, <3>1, <3>2
  <2>10. \A x \in new : x \in HostsOf(target) \/ (h.ok /\ x = r)
    BY <2>1, <2>3
  <2>11. ASSUME NEW d \in Docs
         PROVE  /\ d = source \/ d = target \/ hs[d] = HostsOf(d)
                /\ GoodHosts(hs[d])
                /\ \A x \in HostsOf(d) : \/ \E y \in hs[d] : y.id = x.id /\ y.name = x.name
                                         \/ <<d, x.id>> \in Shown
    <3>1. CASE d = source
      BY <2>6, <2>7, <3>1
    <3>2. CASE d = target
      BY <2>1, <2>6, <2>9, <3>2
    <3>3. CASE d # source /\ d # target
      BY <2>6, <3>3, HostsTyped
    <3> QED BY <3>1, <3>2, <3>3
  <2>12. \A p \in Projects : ~Here(p) => hs[p] = {} \/ account
    <3> SUFFICES ASSUME NEW p \in Projects, ~Here(p), ~account PROVE hs[p] = {}
      OBVIOUS
    <3>1. HostsOf(p) = {} /\ p \in Docs /\ p # source /\ p # target
      BY <2>6, BookAssumption DEF IInv, BeforeSignIn, HostsOf, Docs
    <3> QED BY <2>11, <3>1
  <2>13. HostsOf("me") = me.hosts /\ "me" \in Docs
    BY DEF HostsOf, Docs
  <2>14. \A x \in hs["me"] : x.id > 0 \/ x.id \in Ids(me.hosts)
    <3> SUFFICES ASSUME NEW x \in hs["me"] PROVE x.id > 0 \/ x \in me.hosts
      BY DEF Ids
    <3>1. CASE "me" = target
      BY <2>4, <2>5, <2>6, <2>10, <2>13, <3>1
    <3>2. CASE "me" # target
      BY <2>6, <2>8, <2>11, <2>13, <3>2
    <3> QED BY <3>1, <3>2
  <2>15. \/ FromProject
         \/ \A x \in hs["me"] : \/ x.key \in {NoId} \cup Ids(me.keys)
                                \/ \E o \in me.hosts : o.id = x.id /\ o.key = x.key
    <3>1. CASE "me" # target
      BY <2>6, <2>8, <2>11, <2>13, <3>1
    <3>2. CASE "me" = target /\ (h.key \in {NoId} \cup Ids(me.keys) \/ ~h.ok)
      BY <2>5, <2>6, <2>10, <2>13, <3>2
    <3>3. CASE "me" = target /\ modal.kind = "move" /\ h.ok
      <4>1. modal.doc = source /\ modal' = NoModal
        BY <1>2, <3>3, Remembers DEF OnHost
      <4> QED BY <3>3, <4>1 DEF FromProject
    <3> QED BY <3>1, <3>2, <3>3
  <2>16. modal' = modal \/ modal' = NoModal
    BY <1>2
  <2>17. /\ \A d \in Docs : GoodHosts(hs[d])
         /\ \A d \in Docs \ {source, target} : hs[d] = HostsOf(d)
         /\ \A d \in Docs : \A x \in HostsOf(d) :
               \/ \E y \in hs[d] : y.id = x.id /\ y.name = x.name
               \/ <<d, x.id>> \in Shown
    BY <2>6, <2>11
  <2> QED BY <1>2, <2>12, <2>14, <2>15, <2>16, <2>17, HostsStep
<1> QED BY <1>1, <1>2, MoveIs

LEMMA SubmitMoveFine ==
  ASSUME IInv, modal.kind = "form", NEW d \in Docs, NEW h \in Typed, SubmitMove(d, h),
         UNCHANGED <<kgSync, jobs, live, spent, pressed>>
  PROVE  Fine
<1>1. /\ d # modal.doc /\ modal.id \in Int \ {NoId} /\ modal.doc \in Docs
      /\ Shown = {<<modal.doc, modal.id>>}
  BY Remembers DEF SubmitMove, OnHost
<1>2. PICK source \in Docs : source = modal.doc /\ source # d
  BY <1>1
<1>3. PICK was : was = {o \in HostsOf(source) : o.id = modal.id}
  OBVIOUS
<1>4. PICK src : src = Origin(source, was)
  OBVIOUS
<1>5. src \in {"manual", "imported"}
  <2>1. was \in SUBSET HostRec
    BY <1>3, HostsTyped
  <2> QED BY <1>4, <2>1, OriginIs
<1>6. PICK id \in Int : id = modal.id /\ id # NoId
  BY <1>1
<1>7. PICK r : r = As(h, id, src)
  OBVIOUS
<1>8. r \in HostRec /\ r.id = id /\ r.key \in {NoId} \cup Ids(me.keys)
  BY <1>5, <1>6, <1>7, Retyped
<1>9. MovesHost(source, d, r)
  BY <1>2, <1>3, <1>4, <1>6, <1>7 DEF SubmitMove, Origin, As
<1>10. <<source, r.id>> \in Shown
  BY <1>1, <1>2, <1>6, <1>8
<1> QED BY <1>2, <1>8, <1>9, <1>10, MoveFine

LEMMA SubmitHostFormFine ==
  ASSUME IInv, SubmitHostForm
  PROVE  Fine
<1>1. modal.kind = "form" /\ UNCHANGED <<kgSync, jobs, live, spent, pressed>>
  BY DEF SubmitHostForm
<1>2. Targets \subseteq Docs
  BY <1>1, Remembers DEF Targets, Writable, Docs, OnHost
<1>3. PICK d \in Docs, h \in Typed : SubmitAdd(d, h) \/ SubmitUpdate(d, h) \/ SubmitMove(d, h)
  BY <1>2 DEF SubmitHostForm
<1> QED BY <1>1, <1>3, SubmitAddFine, SubmitUpdateFine, SubmitMoveFine

\* The host the move modal is on, if it is still there.
LEMMA HostOfMove ==
  ASSUME IInv, modal.kind = "move",
         NEW was, was = {h \in HostsOf(modal.doc) : Here(modal.doc) /\ h.id = modal.id},
         was # {}, NEW h, h = CHOOSE x \in was : TRUE
  PROVE  h \in HostRec /\ h.id = modal.id /\ h \in HostsOf(modal.doc)
<1>1. h \in was
  OBVIOUS
<1>2. HostsOf(modal.doc) \subseteq HostRec
  BY Remembers, HostsTyped DEF OnHost
<1> QED BY <1>1, <1>2

LEMMA MoveConfirmFine ==
  ASSUME IInv, MoveConfirm
  PROVE  Fine
<1>1. /\ modal.kind = "move" /\ UNCHANGED <<kgSync, jobs, live, spent, pressed>>
      /\ modal.doc \in Docs /\ Shown = {<<modal.doc, modal.id>>}
  BY Remembers DEF MoveConfirm, OnHost
<1>2. PICK was : was = {h \in HostsOf(modal.doc) : Here(modal.doc) /\ h.id = modal.id}
  OBVIOUS
<1>3. PICK h : h = CHOOSE x \in was : TRUE
  OBVIOUS
<1>4. PICK d \in Docs : IF d = modal.doc \/ was = {} THEN modal' = NoModal /\ UNCHANGED docs
                        ELSE MovesHost(modal.doc, d, h)
  BY <1>2, <1>3 DEF MoveConfirm, Writable, Docs
<1>5. CASE d = modal.doc \/ was = {}
  BY <1>1, <1>4, <1>5, NoModalGood, ModalStep
<1>6. CASE ~(d = modal.doc \/ was = {})
  <2>1. h \in HostRec /\ h.id = modal.id
    BY <1>1, <1>2, <1>3, <1>6, HostOfMove
  <2>2. MovesHost(modal.doc, d, h) /\ modal.doc # d /\ <<modal.doc, h.id>> \in Shown
    BY <1>1, <1>4, <1>6, <2>1
  <2> QED BY <1>1, <2>1, <2>2, MoveFine
<1> QED BY <1>5, <1>6

-----------------------------------------------------------------------------
(* Imports and keys *)

LEMMA ImportsFine ==
  ASSUME IInv, OpenImportSource \/ ChooseSource \/ ImportDone
  PROVE  Fine
<1>0. /\ jobs \subseteq Commands /\ spent \in Nat /\ kgSync \in BOOLEAN
      /\ sessions \in Seq([id : Nat, host : Int]) /\ GoodModal(modal) /\ Armed
  BY DEF IInv, TypeOK
<1>1. CASE OpenImportSource
  <2>1. modal' = [kind |-> "source"] /\ UNCHANGED <<docs, kgSync, jobs, live, spent>>
    BY <1>1 DEF OpenImportSource, Opens
  <2>2. GoodModal(modal') /\ modal'.kind # "picker"
    BY <2>1 DEF GoodModal, OnHost
  <2> QED BY <2>1, <2>2, ModalStep
<1>2. CASE ChooseSource
  <2>1. /\ modal' = NoModal /\ spent' = spent + 1 /\ UNCHANGED <<docs, kgSync, live, pressed>>
        /\ \E from \in {"ssh_config", "termius"} : jobs' = jobs \cup {Job(from, None)}
    BY <1>2 DEF ChooseSource, Starts, Event
  <2>2. jobs' \subseteq Commands /\ spent' \in Nat
    BY <1>0, <2>1 DEF Job, Commands
  <2>3. GoodModal(modal') /\ Armed'
    BY <2>1, NoModalGood DEF Armed
  <2> QED BY <1>0, <2>1, <2>2, <2>3, QuietStep DEF live
<1>3. CASE ImportDone
  <2>1. UNCHANGED <<docs, kgSync, live, spent, pressed>> /\ jobs' \subseteq jobs
    BY <1>3 DEF ImportDone, Ends
  <2>2. \/ \E from \in {"ssh_config", "termius"} : \E in \in Incoming(from) :
             modal' = [kind |-> "summary", in |-> in]
        \/ modal' = modal
        \/ modal' = [kind |-> "error"]
    BY <1>3 DEF ImportDone
  <2>3. GoodModal(modal') /\ Armed'
    <3>1. CASE modal' = modal
      BY <1>0, <2>1, <3>1 DEF Armed
    <3>2. CASE modal' = [kind |-> "error"]
      BY <3>2 DEF GoodModal, Armed, OnHost
    <3>3. CASE \E from \in {"ssh_config", "termius"} : \E in \in Incoming(from) :
                 modal' = [kind |-> "summary", in |-> in]
      <4>0. PICK from \in {"ssh_config", "termius"} :
              \E in \in Incoming(from) : modal' = [kind |-> "summary", in |-> in]
        BY <3>3
      <4>1. PICK in \in Incoming(from) : modal' = [kind |-> "summary", in |-> in]
        BY <4>0
      <4>2. in \in Brought
        <5>1. PICK n \in Names, ok \in BOOLEAN, b \in BOOLEAN, k \in KeyNames \cup {None} :
                in = [host |-> Host(NoId, n, ok, NoId, "imported"), key |-> k, brings |-> b]
          <6>1. PICK n \in Names, ok \in BOOLEAN, b \in {FALSE, from = "termius"},
                     k \in {None} \cup (IF from = "termius" THEN KeyNames ELSE {}) :
                  in = [host |-> Host(NoId, n, ok, NoId, "imported"), key |-> k, brings |-> b]
            BY DEF Incoming
          <6>2. k \in KeyNames \cup {None} /\ b \in BOOLEAN
            OBVIOUS
          <6> QED BY <6>1, <6>2
        <5>2. Host(NoId, n, ok, NoId, "imported") \in Draft
          BY DEF Host, Draft, NoId
        <5> QED BY <5>1, <5>2 DEF Brought
      <4>3. modal' \in [kind : {"summary"}, in : Brought] /\ modal'.kind = "summary"
        BY <4>1, <4>2
      <4> QED BY <4>3 DEF GoodModal, Armed, OnHost
    <3> QED BY <2>2, <3>1, <3>2, <3>3
  <2>4. /\ UNCHANGED <<docs, account>> /\ kgSync' \in BOOLEAN /\ jobs' \subseteq Commands
        /\ sessions' \in Seq([id : Nat, host : Int]) /\ spent' \in Nat
        /\ killed' \subseteq killed \cup {pressed}
    BY <1>0, <2>1 DEF live
  <2> QED BY <2>3, <2>4, QuietStep
<1> QED BY <1>1, <1>2, <1>3

LEMMA SoundSteps ==
  ASSUME NEW d, NEW e, NEW f, Sound(d, e), Sound(e, f)
  PROVE  Sound(d, f)
BY DEF Sound, Grown

\* importSummaryKey
LEMMA ImportConfirmFine ==
  ASSUME IInv, ImportConfirm
  PROVE  Fine
<1>1. /\ modal.kind = "summary" /\ modal' = NoModal /\ Room(2)
      /\ UNCHANGED <<proj, kgSync, jobs, live, spent, pressed>>
  BY DEF ImportConfirm
<1>2. PICK in \in Brought : in = modal.in
  BY <1>1 DEF IInv, TypeOK, GoodModal
<1>3. in.host \in Draft /\ in.key \in KeyNames \cup {None}
  BY DEF Brought
<1>4. /\ New \in Int /\ New > 0 /\ New \notin Ids(me.keys)
      /\ Another \in Int /\ Another > 0 /\ Another \notin Ids(me.hosts)
  BY <1>1, AnotherIsUnused, UnusedIsFree
<1>5. GoodVault(me) /\ GoodHosts(me.hosts)
  BY VaultFields DEF IInv, TypeOK
<1>6. PICK keyed : keyed = IF in.key # None /\ in.brings THEN AddKey(me, in.key, New) ELSE me
  OBVIOUS
<1>7. Sound(me, keyed) /\ keyed.hosts = me.hosts /\ me.keys \subseteq keyed.keys /\ GoodVault(keyed)
  <2>1. CASE in.key # None /\ in.brings
    BY <1>3, <1>4, <1>5, <1>6, <2>1, KeyAdded DEF Sound, Grown
  <2>2. CASE ~(in.key # None /\ in.brings)
    BY <1>5, <1>6, <2>2 DEF Sound, Grown
  <2> QED BY <2>1, <2>2
<1>8. PICK bound : bound = Named(keyed.keys, in.key)
  OBVIOUS
<1>9. PICK key : key = IF bound = {} THEN NoId ELSE (CHOOSE k \in bound : TRUE).id
  OBVIOUS
<1>10. key \in {NoId} \cup Ids(keyed.keys) /\ key \in Int
  <2>1. CASE bound = {}
    BY <1>9, <2>1 DEF NoId
  <2>2. CASE bound # {}
    <3>1. PICK k : k = CHOOSE x \in bound : TRUE
      OBVIOUS
    <3>2. k \in bound /\ key = k.id
      BY <1>9, <2>2, <3>1
    <3>3. k \in keyed.keys /\ keyed.keys \subseteq KeyRec
      BY <1>7, <1>8, <3>2, VaultFields DEF Named
    <3> QED BY <3>2, <3>3 DEF Ids, KeyRec
  <2> QED BY <2>1, <2>2
<1>11. PICK host : host = [in.host EXCEPT !.key = key]
  OBVIOUS
<1>12. host \in Draft /\ host.key = key
  BY <1>3, <1>10, <1>11 DEF Draft
<1>13. PICK hs : hs = Upsert(me.hosts, host, Another)
  OBVIOUS
<1>14. PICK was : was = me.hosts
  OBVIOUS
<1>15. /\ GoodHosts(hs)
       /\ \A h \in hs : \/ h.key = host.key
                        \/ \E o \in was : o.id = h.id /\ o.key = h.key
       /\ \A h \in hs : h.id > 0 \/ h.id \in Ids(was)
       /\ \A h \in was : \E o \in hs : o.id = h.id /\ o.name = h.name
  BY <1>4, <1>5, <1>12, <1>13, <1>14, Upserting
<1>16. me' = [keyed EXCEPT !.hosts = hs]
  BY <1>2, <1>6, <1>7, <1>8, <1>9, <1>11, <1>13 DEF ImportConfirm
<1>17. Sound(keyed, me')
  <2>1. \A h \in hs : \/ h.key \in {NoId} \cup Ids(keyed.keys)
                      \/ \E o \in keyed.hosts : o.id = h.id /\ o.key = h.key
    BY <1>7, <1>10, <1>12, <1>14, <1>15
  <2>2. \A h \in hs : h.id > 0 \/ h.id \in Ids(keyed.hosts)
    BY <1>7, <1>14, <1>15
  <2> QED BY <1>7, <1>15, <1>16, <2>1, <2>2, HostsChange
<1>18. Sound(me, me')
  BY <1>7, <1>17, SoundSteps
<1>19. me'.hosts = hs /\ me'.keys = keyed.keys
  BY <1>7, <1>16, VaultFields
<1>20. /\ \A h \in me.hosts : \E o \in me'.hosts : o.id = h.id /\ o.name = h.name
       /\ LostKeys \subseteq Shown
  BY <1>7, <1>14, <1>15, <1>19 DEF LostKeys
<1> QED BY <1>1, <1>18, <1>20, VaultStep DEF IInv, TypeOK

LEMMA KeySyncedFine ==
  ASSUME IInv, KeySynced
  PROVE  Fine
<1>1. PICK n \in KeyNames : Ends(Job("sync", n)) /\ Room(1) /\ me' = AddKey(me, n, New)
  BY DEF KeySynced
<1>2. New \in Int /\ New > 0 /\ New \notin Ids(me.keys)
  BY <1>1, NewIsUnused, UnusedIsFree
<1>3. Sound(me, me')
  BY <1>1, <1>2, KeyAdded DEF IInv, TypeOK
<1>4. /\ UNCHANGED <<proj, modal, kgSync, live, spent, pressed>>
      /\ jobs' \subseteq Commands /\ spent' \in Nat
  BY <1>1 DEF KeySynced, Ends, IInv, TypeOK
<1> QED BY <1>3, <1>4, VaultStep

LEMMA UnsyncConfirmFine ==
  ASSUME IInv, UnsyncConfirm
  PROVE  Fine
<1>1. /\ modal.kind = "unsync" /\ modal' = NoModal
      /\ UNCHANGED <<proj, kgSync, jobs, live, spent, pressed>>
      /\ me' = IF modal.id \in Ids(me.keys) THEN RemoveKey(me, modal.id) ELSE me
  BY DEF UnsyncConfirm
<1>2. modal.id \in Int /\ Shown = {<<"keys", modal.id>>}
  BY <1>1 DEF IInv, TypeOK, GoodModal, Shown
<1>3. GoodVault(me) /\ jobs' \subseteq Commands /\ spent' \in Nat
  BY <1>1 DEF IInv, TypeOK
<1>4. CASE modal.id \in Ids(me.keys)
  <2>1. me' = RemoveKey(me, modal.id)
    BY <1>1, <1>4
  <2>2. /\ Sound(me, me')
        /\ \A h \in me.hosts : \E o \in me'.hosts : o.id = h.id /\ o.name = h.name
    BY <1>2, <1>3, <2>1, KeyRemoved
  <2>3. me'.keys = {k \in me.keys : k.id # modal.id}
    BY <2>1 DEF RemoveKey, Delete
  <2>4. LostKeys \subseteq Shown
    BY <1>2, <2>3 DEF LostKeys
  <2> QED BY <1>1, <1>3, <2>2, <2>4, VaultStep
<1>5. CASE modal.id \notin Ids(me.keys)
  BY <1>1, <1>5, NoModalGood, ModalStep DEF docs
<1> QED BY <1>4, <1>5

\* The types of what the keys tab and the picker leave alone.
LEMMA Typing ==
  ASSUME IInv
  PROVE  /\ GoodModal(modal) /\ Armed /\ kgSync \in BOOLEAN /\ jobs \subseteq Commands
         /\ sessions \in Seq([id : Nat, host : Int]) /\ spent \in Nat
BY DEF IInv, TypeOK

LEMMA PlainModalGood ==
  ASSUME NEW kind \in {"source", "error", "keygen"}, NEW m, m = [kind |-> kind]
  PROVE  GoodModal(m) /\ m.kind = kind
BY DEF GoodModal, OnHost

LEMMA KeyKeysFine ==
  ASSUME IInv, SyncSelectedKey \/ OpenUnsync \/ OpenKeygen \/ KeygenKey \/ KeyGenerated
  PROVE  Fine
<1>1. CASE SyncSelectedKey
  <2>1. /\ UNCHANGED <<docs, modal, kgSync, live, pressed>> /\ spent' = spent + 1
        /\ \E n \in KeyNames : jobs' = jobs \cup {Job("sync", n)}
    BY <1>1 DEF SyncSelectedKey, Starts, Event
  <2>2. jobs' \subseteq Commands /\ spent' \in Nat
    BY <2>1, Typing DEF Job, Commands
  <2>3. GoodModal(modal') /\ Armed'
    BY <2>1, Typing DEF Armed
  <2> QED BY <2>1, <2>2, <2>3, Typing, QuietStep DEF live
<1>2. CASE OpenUnsync
  <2>1. PICK k \in me.keys : Opens(Modal("unsync", "keys", k.id, NoId))
    BY <1>2 DEF OpenUnsync
  <2>2. k.id \in Int
    BY VaultFields DEF IInv, TypeOK, KeyRec
  <2>3. modal' = [kind |-> "unsync", doc |-> "keys", to |-> "keys", id |-> k.id, key |-> NoId]
    BY <2>1 DEF Opens, Modal
  <2>4. /\ modal' \in [kind : {"unsync"}, doc : {"keys"}, to : {"keys"}, id : Int, key : Int]
        /\ modal'.kind = "unsync"
    BY <2>2, <2>3 DEF NoId
  <2>5. GoodModal(modal') /\ modal'.kind # "picker"
    BY <2>4 DEF GoodModal, OnHost
  <2> QED BY <2>1, <2>5, ModalStep DEF Opens
<1>3. CASE OpenKeygen
  <2>1. modal' = [kind |-> "keygen"] /\ kgSync' = FALSE /\ UNCHANGED <<docs, jobs, live, spent>>
    BY <1>3 DEF OpenKeygen
  <2>2. GoodModal(modal') /\ Armed'
    BY <2>1, PlainModalGood DEF Armed
  <2> QED BY <2>1, <2>2, Typing, QuietStep DEF live
<1>4. CASE KeygenKey
  <2>1. UNCHANGED <<docs, modal, live, pressed>> /\ modal.kind = "keygen"
    BY <1>4 DEF KeygenKey
  <2>2. kgSync' \in BOOLEAN /\ jobs' \subseteq Commands /\ spent' \in Nat
    <3>1. CASE kgSync' = ~kgSync /\ UNCHANGED <<jobs, spent>>
      BY <3>1, Typing
    <3>2. CASE \E n \in KeyNames : Starts(Job("generate", n)) /\ UNCHANGED kgSync
      BY <3>2, Typing DEF Starts, Event, Job, Commands
    <3> QED BY <1>4, <3>1, <3>2 DEF KeygenKey
  <2>3. GoodModal(modal') /\ Armed'
    BY <2>1, Typing DEF Armed
  <2> QED BY <2>1, <2>2, <2>3, Typing, QuietStep DEF live
<1>5. CASE KeyGenerated
  <2>1. PICK n \in KeyNames :
          \/ /\ modal' = [kind |-> "keygen"] /\ jobs' = jobs \ {Job("generate", n)}
             /\ UNCHANGED kgSync
          \/ /\ modal' = NoModal /\ kgSync' = FALSE
             /\ jobs' = IF kgSync THEN (jobs \ {Job("generate", n)}) \cup {Job("sync", n)}
                        ELSE jobs \ {Job("generate", n)}
    BY <1>5 DEF KeyGenerated
  <2>2. Job("sync", n) \in Commands
    BY DEF Job, Commands
  <2>3. jobs' \subseteq Commands /\ kgSync' \in BOOLEAN
    BY <2>1, <2>2, Typing
  <2>4. GoodModal(modal') /\ Armed'
    BY <2>1, NoModalGood, PlainModalGood DEF Armed
  <2>5. UNCHANGED <<docs, live, spent, pressed>>
    BY <1>5 DEF KeyGenerated
  <2> QED BY <2>3, <2>4, <2>5, Typing, QuietStep DEF live
<1> QED BY <1>1, <1>2, <1>3, <1>4, <1>5

-----------------------------------------------------------------------------
(* Sessions and the picker *)

LEMMA DialingGood ==
  ASSUME NEW host \in Int
  PROVE  GoodModal(Dialing(host)) /\ Dialing(host).kind = "connecting"
BY DEF Dialing, GoodModal, OnHost

LEMMA PickerGood ==
  ASSUME NEW host \in Int, NEW i, NEW kill, NEW m,
         m = [kind |-> "picker", host |-> host, idx |-> i, kill |-> kill]
  PROVE  GoodModal(m) /\ m.kind = "picker" /\ m.kill = kill
BY DEF GoodModal, OnHost

LEMMA ConnectFine ==
  ASSUME IInv, Connect \/ OpenAllSessions
  PROVE  Fine
<1>1. /\ UNCHANGED <<docs, kgSync, jobs, live, spent>> /\ pressed' = NoId
      /\ \E host \in Int : modal' = Dialing(host) \/ modal' = Picker(host)
  <2>1. CASE Connect
    <3>1. PICK d \in Visible : \E h \in HostsOf(d) :
            modal' = IF ForHost(h.id) = <<>> THEN Dialing(h.id) ELSE Picker(h.id)
      BY <2>1 DEF Connect
    <3>2. d \in Docs
      BY DEF Visible, Writable, Docs
    <3>3. PICK h \in HostRec :
            modal' = IF ForHost(h.id) = <<>> THEN Dialing(h.id) ELSE Picker(h.id)
      BY <3>1, <3>2, HostsTyped
    <3>4. h.id \in Int
      BY DEF HostRec
    <3> QED BY <2>1, <3>3, <3>4 DEF Connect
  <2>2. CASE OpenAllSessions
    BY <2>2 DEF OpenAllSessions, NoId
  <2> QED BY <2>1, <2>2
<1>2. PICK host \in Int : modal' = Dialing(host) \/ modal' = Picker(host)
  BY <1>1
<1>3. GoodModal(modal') /\ Armed'
  <2>1. CASE modal' = Dialing(host)
    BY <2>1, DialingGood DEF Armed
  <2>2. CASE modal' = Picker(host)
    <3>1. modal' = [kind |-> "picker", host |-> host, idx |-> 1, kill |-> NoId]
      BY <2>2 DEF Picker
    <3>2. GoodModal(modal') /\ modal'.kill = NoId
      BY <3>1, PickerGood
    <3> QED BY <1>1, <3>2 DEF Armed
  <2> QED BY <1>2, <2>1, <2>2
<1> QED BY <1>1, <1>3, Typing, QuietStep DEF live

LEMMA SessionsFine ==
  ASSUME IInv, DialDone \/ SessionEnds
  PROVE  Fine
<1>1. CASE DialDone
  <2>1. modal.kind = "connecting" /\ modal' = NoModal
    BY <1>1 DEF DialDone
  <2>2. modal.host \in Int
    BY <2>1, Typing DEF GoodModal
  <2>3. spent' \in Nat /\ sessions' \in Seq([id : Nat, host : Int])
    <3>1. CASE UNCHANGED <<sessions, spent>>
      BY <3>1, Typing
    <3>2. CASE Event /\ sessions' = Append(sessions, [id |-> spent', host |-> modal.host])
      <4>1. spent' \in Nat
        BY <3>2, Typing DEF Event
      <4>2. [id |-> spent', host |-> modal.host] \in [id : Nat, host : Int]
        BY <2>2, <4>1
      <4> QED BY <3>2, <4>1, <4>2, Typing
    <3> QED BY <1>1, <3>1, <3>2 DEF DialDone
  <2>4. UNCHANGED <<docs, kgSync, jobs, account, pressed, killed>>
    BY <1>1 DEF DialDone
  <2>5. GoodModal(modal') /\ Armed'
    BY <2>1, NoModalGood DEF Armed
  <2> QED BY <2>3, <2>4, <2>5, Typing, QuietStep
<1>2. CASE SessionEnds
  <2>1. PICK i \in 1..Len(sessions) :
          /\ sessions' = SubSeq(sessions, 1, i - 1) \o SubSeq(sessions, i + 1, Len(sessions))
          /\ killed' = killed \ {sessions[i].id}
    BY <1>2 DEF SessionEnds
  <2>2. UNCHANGED <<docs, modal, kgSync, jobs, account, spent, pressed>>
    BY <1>2 DEF SessionEnds
  <2>3. sessions' \in Seq([id : Nat, host : Int])
    <3>1. PICK S : S = [id : Nat, host : Int]
      OBVIOUS
    <3>2. sessions \in Seq(S) /\ Len(sessions) \in Nat
      BY <3>1, Typing
    <3>3. SubSeq(sessions, 1, i - 1) \in Seq(S) /\ SubSeq(sessions, i + 1, Len(sessions)) \in Seq(S)
      BY <3>2
    <3> QED BY <2>1, <3>1, <3>3
  <2>4. GoodModal(modal') /\ Armed'
    BY <2>2, Typing DEF Armed
  <2> QED BY <2>1, <2>2, <2>3, <2>4, Typing, QuietStep
<1> QED BY <1>1, <1>2

\* The picker acts on the sessions it lists, and closes none but by a second x.
LEMMA PickerFine ==
  ASSUME IInv, PickerEmpty \/ PickerEsc \/ PickerMove \/ PickerEnter \/ PickerX
  PROVE  Fine
<1>1. /\ modal.kind = "picker" /\ UNCHANGED <<docs, kgSync, jobs, sessions, account, spent>>
  BY DEF PickerEmpty, PickerEsc, PickerMove, PickerEnter, PickerX, PickerKey
<1>10. PICK host \in Int :
         \E j, k : modal = [kind |-> "picker", host |-> host, idx |-> j, kill |-> k]
  <2>1. /\ modal = [kind |-> "picker", host |-> modal.host, idx |-> modal.idx, kill |-> modal.kill]
        /\ modal.host \in Int
    BY <1>1, Typing DEF GoodModal
  <2> QED BY <2>1
<1>2. PICK i, kill : modal = [kind |-> "picker", host |-> host, idx |-> i, kill |-> kill]
  BY <1>10
<1>3. modal.host = host /\ modal.idx = i /\ modal.kill = kill /\ pressed = kill
  <2>1. modal.host = host /\ modal.idx = i /\ modal.kill = kill
    BY <1>2
  <2> QED BY <1>1, <2>1, Typing DEF Armed
<1>4. /\ GoodModal(modal') /\ Armed' /\ killed' \subseteq killed \cup {pressed}
  <2>1. CASE /\ killed' = killed
             /\ modal' = NoModal \/ modal' = Dialing(host)
    BY <2>1, NoModalGood, DialingGood DEF Armed
  <2>2. CASE /\ killed' = killed
             /\ \E j, k : /\ modal' = [kind |-> "picker", host |-> host, idx |-> j, kill |-> k]
                          /\ pressed' = k
    <3>1. PICK j, k : /\ modal' = [kind |-> "picker", host |-> host, idx |-> j, kill |-> k]
                      /\ pressed' = k
      BY <2>2
    <3>2. GoodModal(modal') /\ modal'.kill = k
      BY <3>1, PickerGood
    <3> QED BY <2>2, <3>1, <3>2 DEF Armed
  <2>3. CASE PickerEmpty \/ PickerEsc \/ PickerEnter
    <3>1. killed' = killed /\ (modal' = NoModal \/ modal' = Dialing(host))
      BY <1>3, <2>3 DEF PickerEmpty, PickerEsc, PickerEnter, Leaves
    <3> QED BY <2>1, <3>1
  <2>4. CASE PickerMove
    <3>1. PICK j : modal' = [modal EXCEPT !.idx = j, !.kill = NoId]
      BY <2>4 DEF PickerMove
    <3>2. modal' = [kind |-> "picker", host |-> host, idx |-> j, kill |-> NoId]
      BY <1>2, <3>1
    <3>3. killed' = killed /\ pressed' = NoId
      BY <2>4 DEF PickerMove
    <3> QED BY <2>2, <3>2, <3>3
  <2>5. CASE PickerX
    <3>1. PICK row : row = Listed[i].id
      OBVIOUS
    <3>2. CASE kill # row
      <4>1. modal' = [modal EXCEPT !.kill = row] /\ pressed' = row /\ killed' = killed
        BY <1>3, <2>5, <3>1, <3>2 DEF PickerX, Mark
      <4>2. modal' = [kind |-> "picker", host |-> host, idx |-> i, kill |-> row]
        BY <1>2, <4>1
      <4> QED BY <2>2, <4>1, <4>2
    <3>3. CASE kill = row
      <4>1. /\ killed' = killed \cup {row} /\ pressed' = NoId
            /\ \/ modal' = NoModal
               \/ \E j : modal' = [modal EXCEPT !.kill = NoId, !.idx = j]
        BY <1>3, <2>5, <3>1, <3>3 DEF PickerX, Mark
      <4>2. killed' \subseteq killed \cup {pressed}
        BY <1>3, <3>3, <4>1
      <4>3. CASE modal' = NoModal
        BY <4>2, <4>3, NoModalGood DEF Armed
      <4>4. CASE \E j : modal' = [modal EXCEPT !.kill = NoId, !.idx = j]
        <5>1. PICK j : modal' = [modal EXCEPT !.kill = NoId, !.idx = j]
          BY <4>4
        <5>2. modal' = [kind |-> "picker", host |-> host, idx |-> j, kill |-> NoId]
          BY <1>2, <5>1
        <5>3. GoodModal(modal') /\ modal'.kill = NoId
          BY <5>2, PickerGood
        <5> QED BY <4>1, <4>2, <5>3 DEF Armed
      <4> QED BY <4>1, <4>3, <4>4
    <3> QED BY <3>2, <3>3
  <2> QED BY <2>3, <2>4, <2>5
<1> QED BY <1>1, <1>4, Typing, QuietStep

-----------------------------------------------------------------------------
(* A move keeps its host *)

\* What is in a project, by what its hosts are.
LEMMA SharedIs ==
  ASSUME NEW pr, NEW x
  PROVE  x \in Shared(pr) <=> \E p \in Projects : \E h \in pr[p].hosts : x = <<p, h>>
BY DEF Shared

\* The hosts of all documents are as many as before.
LEMMA MoveCounts ==
  ASSUME IInv, NEW source \in Docs, NEW target \in Docs, source # target,
         NEW h \in HostRec, h.ok, NEW hs, Moved(hs, source, target, h), Given(hs, me', proj'),
         \A d \in Docs : GoodHosts(hs[d])
  PROVE  Count' = Count
<1>1. PICK o \in HostsOf(source) : o.id = h.id
  BY DEF Moved, Ids
<1>2. PICK r : r = [h EXCEPT !.id = New]
  OBVIOUS
<1>3. r.id = New /\ New \notin Ids(HostsOf(target))
  BY <1>2, UnusedIsFree DEF Moved, HostsOf, Docs, HostRec
<1>4. r \notin HostsOf(target)
  BY <1>3 DEF Ids
<1>5. hs[source] = HostsOf(source) \ {o}
  <2>1. UniqueIds(HostsOf(source))
    BY HostsTyped DEF GoodHosts
  <2> QED BY <1>1, <2>1 DEF Moved, Delete, UniqueIds
<1>6. /\ hs[target] = HostsOf(target) \cup {r}
      /\ \A d \in Docs \ {source, target} : hs[d] = HostsOf(d)
  BY <1>2 DEF Moved
<1>7. GoodVault(me) /\ GoodProjects(proj)
  BY DEF IInv, TypeOK
<1>8. /\ me'.hosts = hs["me"]
      /\ \A p \in Projects : proj'[p].hosts = hs[p]
  BY <1>6, <1>7, DocsChange
<1>9. /\ "me" \in Docs /\ HostsOf("me") = me.hosts
      /\ \A p \in Projects : p \in Docs /\ p # "me" /\ HostsOf(p) = proj[p].hosts
  BY BookAssumption DEF HostsOf, Docs
<1>10. PICK A : A = Shared(proj)
  OBVIOUS
<1>11. PICK B : B = Shared(proj')
  OBVIOUS
<1>12. PICK M : M = me.hosts
  OBVIOUS
<1>13. PICK N : N = me'.hosts
  OBVIOUS
<1>14. Count = Cardinality(M) + Cardinality(A) /\ Count' = Cardinality(N) + Cardinality(B)
  BY <1>10, <1>11, <1>12, <1>13 DEF Count, Shared
<1>15. /\ IsFiniteSet(M) /\ Cardinality(M) \in Nat
       /\ IsFiniteSet(A) /\ Cardinality(A) \in Nat
  BY <1>7, <1>10, <1>12, FS_CardinalityType DEF GoodVault, GoodHosts, GoodProjects
<1>16. \A x : x \in A <=> \E p \in Projects : \E y \in proj[p].hosts : x = <<p, y>>
  BY <1>10, SharedIs
<1>17. \A x : x \in B <=> \E p \in Projects : \E y \in hs[p] : x = <<p, y>>
  BY <1>8, <1>11, SharedIs
<1>18. CASE source = "me"
  <2>1. o \in M /\ N = M \ {o}
    BY <1>1, <1>5, <1>8, <1>9, <1>12, <1>13, <1>18
  <2>2. Cardinality(N) = Cardinality(M) - 1
    BY <1>15, <2>1, FS_RemoveElement
  <2>3. target \in Projects
    BY <1>18 DEF Docs
  <2>4. <<target, r>> \notin A
    BY <1>4, <1>9, <1>16, <2>3
  <2>5. \A p \in Projects : hs[p] = IF p = target THEN proj[p].hosts \cup {r} ELSE proj[p].hosts
    BY <1>6, <1>9, <1>18
  <2>6. B = A \cup {<<target, r>>}
    <3>1. ASSUME NEW x PROVE x \in B <=> x \in A \/ x = <<target, r>>
      BY <1>16, <1>17, <2>3, <2>5
    <3> QED BY <3>1
  <2>7. Cardinality(B) = Cardinality(A) + 1
    BY <1>15, <2>4, <2>6, FS_AddElement
  <2> QED BY <1>14, <1>15, <2>2, <2>7
<1>19. CASE target = "me"
  <2>1. r \notin M /\ N = M \cup {r}
    BY <1>4, <1>6, <1>8, <1>9, <1>12, <1>13, <1>19
  <2>2. Cardinality(N) = Cardinality(M) + 1
    BY <1>15, <2>1, FS_AddElement
  <2>3. source \in Projects
    BY <1>19 DEF Docs
  <2>4. <<source, o>> \in A
    BY <1>1, <1>9, <1>16, <2>3
  <2>5. \A p \in Projects : hs[p] = IF p = source THEN proj[p].hosts \ {o} ELSE proj[p].hosts
    BY <1>5, <1>6, <1>9, <1>19
  <2>6. B = A \ {<<source, o>>}
    <3>1. ASSUME NEW x \in B PROVE x \in A /\ x # <<source, o>>
      <4>0. PICK p \in Projects : \E z \in hs[p] : x = <<p, z>>
        BY <1>17
      <4>1. PICK y \in hs[p] : x = <<p, y>>
        BY <4>0
      <4>2. y \in proj[p].hosts /\ ~(p = source /\ y = o)
        BY <2>5
      <4> QED BY <1>16, <4>1, <4>2
    <3>2. ASSUME NEW x \in A, x # <<source, o>> PROVE x \in B
      <4>0. PICK p \in Projects : \E z \in proj[p].hosts : x = <<p, z>>
        BY <1>16
      <4>1. PICK y \in proj[p].hosts : x = <<p, y>>
        BY <4>0
      <4>2. y \in hs[p]
        BY <2>5, <3>2, <4>1
      <4> QED BY <1>17, <4>1, <4>2
    <3> QED BY <3>1, <3>2
  <2>7. Cardinality(B) = Cardinality(A) - 1
    BY <1>15, <2>4, <2>6, FS_RemoveElement
  <2> QED BY <1>14, <1>15, <2>2, <2>7
<1>20. CASE source # "me" /\ target # "me"
  <2>1. source \in Projects /\ target \in Projects
    BY <1>20 DEF Docs
  <2>2. N = M
    BY <1>6, <1>8, <1>9, <1>12, <1>13, <1>20
  <2>3. PICK C : C = A \ {<<source, o>>}
    OBVIOUS
  <2>4. <<source, o>> \in A /\ <<target, r>> \notin C
    BY <1>1, <1>4, <1>9, <1>16, <2>1, <2>3
  <2>5. \A p \in Projects : hs[p] = IF p = source THEN proj[p].hosts \ {o}
                                    ELSE IF p = target THEN proj[p].hosts \cup {r}
                                    ELSE proj[p].hosts
    BY <1>5, <1>6, <1>9
  <2>6. B = C \cup {<<target, r>>}
    <3>1. ASSUME NEW x \in B PROVE x \in C \cup {<<target, r>>}
      <4>0. PICK p \in Projects : \E z \in hs[p] : x = <<p, z>>
        BY <1>17
      <4>1. PICK y \in hs[p] : x = <<p, y>>
        BY <4>0
      <4>2. CASE p = target /\ y = r
        BY <4>1, <4>2
      <4>3. CASE ~(p = target /\ y = r)
        <5>1. y \in proj[p].hosts /\ ~(p = source /\ y = o)
          BY <2>5, <4>3
        <5> QED BY <1>16, <2>3, <4>1, <5>1
      <4> QED BY <4>2, <4>3
    <3>2. ASSUME NEW x \in C PROVE x \in B
      <4>0. PICK p \in Projects : \E z \in proj[p].hosts : x = <<p, z>>
        BY <1>16, <2>3
      <4>1. PICK y \in proj[p].hosts : x = <<p, y>>
        BY <4>0
      <4>2. y \in hs[p]
        BY <2>3, <2>5, <4>1
      <4> QED BY <1>17, <4>1, <4>2
    <3>3. <<target, r>> \in B
      <4>1. r \in hs[target]
        BY <1>6
      <4> QED BY <1>17, <2>1, <4>1
    <3> QED BY <3>1, <3>2, <3>3
  <2>7. IsFiniteSet(C) /\ Cardinality(C) = Cardinality(A) - 1
    BY <1>15, <2>3, <2>4, FS_RemoveElement
  <2>8. Cardinality(B) = Cardinality(C) + 1
    BY <2>4, <2>6, <2>7, FS_AddElement
  <2> QED BY <1>14, <1>15, <2>2, <2>7, <2>8
<1> QED BY <1>18, <1>19, <1>20

\* A move that changes anything takes its host, which is valid, from one list to another.
LEMMA ValidMoveKeeps ==
  ASSUME IInv, docs' # docs, ValidMove
  PROVE  Count' = Count
<1>1. PICK source \in Docs, target \in Docs, h \in HostRec :
        source # target /\ h.ok /\ MovesHost(source, target, h)
  <2>1. CASE MoveConfirm /\ \A h \in HostsOf(modal.doc) : h.id = modal.id => h.ok
    <3>1. modal.kind = "move" /\ modal.doc \in Docs
      BY <2>1, Remembers DEF MoveConfirm, OnHost
    <3>2. PICK was : was = {h \in HostsOf(modal.doc) : Here(modal.doc) /\ h.id = modal.id}
      OBVIOUS
    <3>3. PICK h : h = CHOOSE x \in was : TRUE
      OBVIOUS
    <3>4. PICK d \in Docs : IF d = modal.doc \/ was = {} THEN modal' = NoModal /\ UNCHANGED docs
                            ELSE MovesHost(modal.doc, d, h)
      BY <2>1, <3>2, <3>3 DEF MoveConfirm, Writable, Docs
    <3>5. d # modal.doc /\ was # {} /\ MovesHost(modal.doc, d, h)
      BY <3>4
    <3>6. h \in HostRec /\ h.id = modal.id /\ h \in HostsOf(modal.doc)
      BY <3>1, <3>2, <3>3, <3>5, HostOfMove
    <3>7. h.ok
      BY <2>1, <3>6
    <3> QED BY <3>1, <3>5, <3>6, <3>7
  <2>2. CASE modal.kind = "form" /\ \E d \in Targets : \E h \in Typed : h.ok /\ SubmitMove(d, h)
    <3>1. modal.doc \in Docs /\ modal.to \in Docs /\ modal.id \in Int
      BY <2>2, Remembers DEF OnHost
    <3>2. Targets \subseteq Docs
      BY <3>1 DEF Targets, Writable, Docs
    <3>3. PICK d \in Docs, h \in Typed : h.ok /\ SubmitMove(d, h)
      BY <2>2, <3>2
    <3>4. PICK was : was = {o \in HostsOf(modal.doc) : o.id = modal.id}
      OBVIOUS
    <3>5. PICK src : src = Origin(modal.doc, was)
      OBVIOUS
    <3>6. src \in {"manual", "imported"}
      <4>1. was \in SUBSET HostRec
        BY <3>1, <3>4, HostsTyped
      <4> QED BY <3>5, <4>1, OriginIs
    <3>7. PICK id \in Int : id = modal.id
      BY <3>1
    <3>8. PICK r : r = As(h, id, src)
      OBVIOUS
    <3>9. id # NoId /\ d # modal.doc /\ MovesHost(modal.doc, d, r)
      BY <3>3, <3>4, <3>5, <3>7, <3>8 DEF SubmitMove, Origin, As
    <3>10. r \in HostRec /\ r.ok = h.ok
      BY <3>6, <3>8, <3>9, Retyped
    <3> QED BY <3>1, <3>3, <3>9, <3>10
  <2> QED BY <2>1, <2>2 DEF ValidMove
<1>2. PICK hs : Moved(hs, source, target, h) /\ Given(hs, me', proj')
  BY <1>1, MoveIs
<1>3. \A d \in Docs : GoodHosts(hs[d])
  <2>1. GoodHosts(hs[source])
    BY <1>2, HostsTyped, DeletedHosts DEF Moved
  <2>2. GoodHosts(hs[target])
    <3>1. PICK r : r = [h EXCEPT !.id = New]
      OBVIOUS
    <3>2. New \in Int /\ New > 0 /\ New \notin Ids(HostsOf(target))
      BY <1>2, UnusedIsFree DEF Moved, HostsOf, Docs
    <3>3. r \in HostRec /\ r.id = New /\ r.name = h.name
      BY <3>1, <3>2 DEF HostRec, NoId
    <3>4. Named(HostsOf(target), r.name) = {} /\ hs[target] = HostsOf(target) \cup {r}
      BY <1>1, <1>2, <3>1, <3>3 DEF Moved
    <3> QED BY <3>2, <3>3, <3>4, HostsTyped, AddedHost
  <2>3. ASSUME NEW d \in Docs \ {source, target} PROVE GoodHosts(hs[d])
    BY <1>2, HostsTyped DEF Moved
  <2> QED BY <2>1, <2>2, <2>3
<1> QED BY <1>1, <1>2, <1>3, MoveCounts

-----------------------------------------------------------------------------
(* Theorems *)

LEMMA InitInv == Init => IInv
<1> SUFFICES ASSUME Init PROVE IInv
  OBVIOUS
<1>1. GoodVault(me) /\ Positive(me)
  <2>1. CASE me = EmptyDoc
    BY <2>1, EmptyGood
  <2>2. CASE \E n \in Names : me = Stray(n)
    <3>1. PICK n \in Names : me = Stray(n)
      BY <2>2
    <3>2. PICK h : h = Host(1, n, TRUE, Elsewhere, "manual")
      OBVIOUS
    <3>3. h \in HostRec /\ h.id = 1
      BY <3>2, BookAssumption DEF Host, HostRec, NoId, Elsewhere
    <3>4. Ids({}) = {} /\ Named({}, h.name) = {}
      BY DEF Ids, Named
    <3>5. GoodHosts({} \cup {h})
      BY <3>3, <3>4, NoHosts, AddedHost
    <3>6. me = [hosts |-> {h}, keys |-> {}]
      BY <3>1, <3>2 DEF Stray, EmptyDoc
    <3>7. Unique({}) /\ UniqueIds({})
      BY DEF Unique, UniqueIds
    <3>8. PICK hs : hs = {h}
      OBVIOUS
    <3>9. GoodHosts(hs)
      BY <3>5, <3>8
    <3>10. GoodVault(me)
      BY <3>6, <3>7, <3>8, <3>9, VaultOf
    <3> QED BY <3>3, <3>6, <3>10 DEF Positive
  <2> QED BY <2>1, <2>2 DEF Init
<1>2. \A p \in Projects : proj[p] = [hosts |-> {}, here |-> account, listed |-> account]
  BY DEF Init
<1>3. proj \in [Projects -> [hosts : SUBSET HostRec, here : BOOLEAN, listed : BOOLEAN]]
  BY DEF Init
<1>4. Shared(proj) = {}
  BY <1>2, SharedIs
<1>5. GoodProjects(proj)
  BY <1>2, <1>3, <1>4, NoHosts, FS_EmptySet DEF GoodProjects
<1>6. GoodModal(modal) /\ Armed
  BY NoModalGood DEF Init, Armed
<1>7. BeforeSignIn
  BY <1>1, <1>2 DEF Init, BeforeSignIn
<1>8. /\ kgSync \in BOOLEAN /\ jobs \subseteq Commands /\ account \in BOOLEAN /\ spent \in Nat
      /\ sessions \in Seq([id : Nat, host : Int])
  <2>1. kgSync = FALSE /\ jobs = {} /\ account \in BOOLEAN /\ spent = 0 /\ sessions = <<>>
    BY DEF Init
  <2>2. PICK S : S = [id : Nat, host : Int]
    OBVIOUS
  <2>3. sessions \in Seq(S)
    BY <2>1
  <2> QED BY <2>1, <2>2, <2>3
<1> QED BY <1>1, <1>5, <1>6, <1>7, <1>8 DEF IInv, TypeOK

LEMMA StepFine ==
  ASSUME IInv, [Next]_vars
  PROVE  Fine
<1>1. CASE UNCHANGED vars
  <2>1. UNCHANGED <<docs, account>> /\ GoodModal(modal') /\ Armed'
    BY <1>1, Typing DEF vars, docs, Armed
  <2> QED BY <1>1, <2>1, Typing, QuietStep DEF vars
<1>2. CASE Arrives
  BY <1>2, AdoptRemoteFine, ProjectsSyncedFine, SignInFine DEF Arrives
<1>3. CASE HostKeys
  BY <1>3, OpenHostModalFine, EscFine, CycleProjectFine, SubmitHostFormFine, DeleteConfirmFine,
     MoveConfirmFine
     DEF HostKeys
<1>4. CASE Imports
  BY <1>4, ImportsFine, ImportConfirmFine DEF Imports
<1>5. CASE KeyKeys
  BY <1>5, KeyKeysFine, KeySyncedFine, UnsyncConfirmFine DEF KeyKeys
<1>6. CASE Sessions
  BY <1>6, ConnectFine, SessionsFine, PickerFine DEF Sessions
<1> QED BY <1>1, <1>2, <1>3, <1>4, <1>5, <1>6 DEF Next

\* Every reachable state satisfies the inductive invariant: typed documents and modals,
\* IDs that name one host or one key of a document, and, until the sign-in, no project.
THEOREM Inductive == Spec => []IInv
<1>1. IInv /\ [Next]_vars => IInv'
  BY StepFine DEF Fine
<1> QED BY <1>1, InitInv, PTL DEF Spec

\* No sequence of forms, imports, moves, arrivals and merges leaves two hosts, or two
\* keys, of one document with the same name (validateHostIn, upsertImported, Merge).
THEOREM NamesStayUnique == Spec => []NamesAreUnique
<1>1. IInv => NamesAreUnique
  BY DEF IInv, TypeOK, GoodVault, GoodProjects, GoodHosts, NamesAreUnique
<1> QED BY <1>1, Inductive, PTL

\* Every step takes a binding from what the vault holds, leaves one that was stale, or
\* brings one with another device's document; but for the picker's move of a project's
\* host (RemoveKey, boundKeyID, bindImportedHosts, Merge).
THEOREM BindingsHold == Spec => BindingsResolve
<1>1. IInv /\ [Next]_vars => [Stale' \subseteq Stale \cup Arriving \/ FromProject]_vars
  BY StepFine DEF Fine
<1> QED BY <1>1, Inductive, PTL DEF Spec, BindingsResolve

\* Whatever document the account has when a used vault joins it, the merge leaves it as
\* it was and binds what it carries over to the key of the same name (Merge).
THEOREM MergeLosesNothing == Spec => []MergeKeepsBoth
<1>1. IInv => MergeKeepsBoth
  <2> SUFFICES ASSUME IInv, ~account, Room(1), NEW theirs \in AccountDocs
               PROVE  KeepsBoth(theirs, Merge(theirs, me))
    BY DEF MergeKeepsBoth
  <2>1. GoodVault(me) /\ Positive(me)
    BY DEF IInv, TypeOK, BeforeSignIn
  <2>2. GoodVault(theirs) /\ Unsigned(theirs.hosts) /\ Unsigned(theirs.keys)
    BY <2>1, AccountDocsGood
  <2>3. PICK m : m = Merge(theirs, me)
    OBVIOUS
  <2>4. /\ theirs.hosts \subseteq m.hosts /\ theirs.keys \subseteq m.keys
        /\ \A h \in me.hosts : Named(theirs.hosts, h.name) = {} =>
              \E c \in Named(m.hosts, h.name) :
                 /\ h.key = NoId => c.key = NoId
                 /\ BoundTo(me, h) # {} => BoundTo(m, c) = BoundTo(me, h)
    BY <2>1, <2>2, <2>3, Merging
  <2> QED BY <2>3, <2>4 DEF KeepsBoth, Carried
<1> QED BY <1>1, Inductive, PTL

\* Whatever arrived while a modal was open, what its confirmation takes away or renames
\* is what it was opened on (delID, formEditID, mvHostID).
THEOREM ConfirmsWhatWasShown == Spec => ActsOnShown
<1>1. IInv /\ [Next]_vars =>
        [modal' # modal => (UNION {Lost(d) : d \in Docs}) \cup LostKeys \subseteq Shown]_vars
  BY StepFine DEF Fine
<1> QED BY <1>1, Inductive, PTL DEF Spec, ActsOnShown

\* A move of a valid host neither loses it nor leaves it in two documents (moveHostTo).
THEOREM MovesKeepHosts == Spec => MoveKeepsHost
<1>1. IInv => [docs' # docs /\ ValidMove => Count' = Count]_vars
  BY ValidMoveKeeps
<1> QED BY <1>1, Inductive, PTL DEF Spec, MoveKeepsHost

\* The session a second x closes is the one the first was pressed on, whatever ended
\* in between (pickerKey).
THEOREM SecondPressKills == Spec => KillsTheArmed
<1>1. IInv /\ [Next]_vars => [killed' \subseteq killed \cup {pressed}]_vars
  BY StepFine DEF Fine
<1> QED BY <1>1, Inductive, PTL DEF Spec, KillsTheArmed
=============================================================================
