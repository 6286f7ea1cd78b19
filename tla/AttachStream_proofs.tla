------------------------- MODULE AttachStream_proofs -------------------------
(***************************************************************************)
(* Proofs about AttachStream: the scrollback ring keeps the tail of the    *)
(* output for every capacity and every way the output falls into chunks,   *)
(* a terminal is given the output from its replay on without a gap and     *)
(* without a byte twice, and the remote is sent the typed text.  The last  *)
(* part is about Forwards, the port forwards of the same package.          *)
(***************************************************************************)
EXTENDS AttachStream, SequenceTheorems, WellFoundedInduction, TLAPS

-----------------------------------------------------------------------------
(* The ring *)

\* The physical slot of a position that may lie one lap ahead.
Wrap(x) == IF x < Cap THEN x ELSE x - Cap

\* r holds the last bytes of an output of n bytes, oldest first from its start.
Holds(r, n) ==
  /\ r.data \in [0..(Cap - 1) -> Int] /\ r.start \in 0..(Cap - 1)
  /\ r.len = Smaller(n, Cap)
  /\ \A j \in 0..(r.len - 1) : r.data[Wrap(r.start + j)] = n - r.len + j + 1

\* p is the output behind the first n bytes, m bytes of it.
Chunk(p, n, m) == p = [i \in 1..m |-> n + i] /\ Len(p) = m

LEMMA ModWrap == ASSUME NEW x \in Nat, x < 2 * Cap PROVE x % Cap = Wrap(x)
<1>1. CASE x < Cap
  <2>1. x % Cap = x
    BY <1>1, StreamAssumption
  <2> QED BY <2>1, <1>1 DEF Wrap
<1>2. CASE x >= Cap
  <2>1. x % Cap = x - Cap
    BY <1>2, StreamAssumption
  <2> QED BY <2>1, <1>2, StreamAssumption DEF Wrap
<1> QED BY <1>1, <1>2, StreamAssumption

\* A chunk shorter than the ring goes behind what is there, past the physical end
\* if need be, over the oldest bytes when there is no room (ringBuffer.Write).
LEMMA ShortWriteHolds ==
  ASSUME NEW r, NEW n \in Nat, NEW m \in Nat, 1 <= m, m < Cap, Holds(r, n),
         NEW p, Chunk(p, n, m)
  PROVE  Holds(RingWrite(r, p), n + m)
<1>0. Cap \in Nat /\ Cap > 0
  BY StreamAssumption
<1>1. PICK s \in Nat, l \in Nat :
        /\ s = r.start /\ l = r.len /\ s < Cap /\ l <= Cap /\ l <= n
        /\ (l = n \/ l = Cap)
  BY <1>0 DEF Holds, Smaller
<1>2. PICK pos \in Nat : pos = (s + l) % Cap /\ pos = Wrap(s + l) /\ pos < Cap
  <2>1. s + l \in Nat /\ s + l < 2 * Cap
    BY <1>0, <1>1
  <2>2. (s + l) % Cap = Wrap(s + l)
    BY <2>1, ModWrap
  <2> QED BY <2>1, <2>2, <1>0 DEF Wrap
<1>3. PICK over \in Nat : over = IF l + m > Cap THEN l + m - Cap ELSE 0
  <2>1. (IF l + m > Cap THEN l + m - Cap ELSE 0) \in Nat
    BY <1>0
  <2> QED BY <2>1
<1>4. over <= m /\ over <= l /\ l + m - over = Smaller(l + m, Cap)
  BY <1>0, <1>1, <1>3 DEF Smaller
<1>5. PICK w : w = RingWrite(r, p)
  OBVIOUS
<1>6. /\ w.data = Copied(r.data, pos, p)
      /\ w.start = Wrap(s + over)
      /\ w.len = l + m - over
  <2>1. w = [data  |-> Copied(r.data, pos, p),
             start |-> IF l + m > Cap THEN (s + (l + m - Cap)) % Cap ELSE s,
             len   |-> Smaller(l + m, Cap)]
    BY <1>0, <1>1, <1>2, <1>5 DEF RingWrite, Chunk
  <2>2. CASE l + m > Cap
    <3>1. l + m - Cap = over /\ s + over \in Nat /\ s + over < 2 * Cap
      BY <2>2, <1>0, <1>1, <1>3, <1>4
    <3>2. (s + over) % Cap = Wrap(s + over)
      BY <3>1, ModWrap
    <3> QED BY <2>1, <2>2, <3>1, <3>2, <1>4
  <2>3. CASE ~ (l + m > Cap)
    <3>1. over = 0 /\ Wrap(s + over) = s
      BY <2>3, <1>0, <1>1, <1>3 DEF Wrap
    <3> QED BY <2>1, <2>3, <3>1, <1>4
  <2> QED BY <2>2, <2>3, <1>0, <1>1
<1>7. w.start \in 0..(Cap - 1)
  BY <1>0, <1>1, <1>4, <1>6 DEF Wrap
<1>8. w.len = Smaller(n + m, Cap) /\ w.len \in Nat
  BY <1>0, <1>1, <1>3, <1>4, <1>6 DEF Smaller
<1>9. \A i \in 0..(Cap - 1) :
        /\ i >= pos /\ i < pos + m => w.data[i] = n + (i - pos + 1)
        /\ i < pos /\ i < pos + m - Cap => w.data[i] = n + (i - pos + Cap + 1)
        /\ ~ (i >= pos /\ i < pos + m) /\ ~ (i < pos /\ i < pos + m - Cap) => w.data[i] = r.data[i]
  <2> SUFFICES ASSUME NEW i \in 0..(Cap - 1)
               PROVE  /\ i >= pos /\ i < pos + m => w.data[i] = n + (i - pos + 1)
                      /\ i < pos /\ i < pos + m - Cap => w.data[i] = n + (i - pos + Cap + 1)
                      /\ ~ (i >= pos /\ i < pos + m) /\ ~ (i < pos /\ i < pos + m - Cap)
                            => w.data[i] = r.data[i]
    OBVIOUS
  <2>0. w.data[i] = CASE i >= pos /\ i < pos + m -> p[i - pos + 1]
                      [] i < pos /\ i < pos + m - Cap -> p[i - pos + Cap + 1]
                      [] OTHER -> r.data[i]
    BY <1>6 DEF Copied, Chunk
  <2>1. ASSUME i >= pos, i < pos + m PROVE w.data[i] = n + (i - pos + 1)
    <3>1. i - pos + 1 \in 1..m
      BY <2>1, <1>0, <1>2
    <3>2. w.data[i] = p[i - pos + 1]
      BY <2>0, <2>1, <1>0, <1>2
    <3> QED BY <3>1, <3>2 DEF Chunk
  <2>2. ASSUME i < pos, i < pos + m - Cap PROVE w.data[i] = n + (i - pos + Cap + 1)
    <3>1. i - pos + Cap + 1 \in 1..m
      BY <2>2, <1>0, <1>2
    <3>2. w.data[i] = p[i - pos + Cap + 1]
      BY <2>0, <2>2, <1>0, <1>2
    <3> QED BY <3>1, <3>2 DEF Chunk
  <2>3. ASSUME ~ (i >= pos /\ i < pos + m), ~ (i < pos /\ i < pos + m - Cap) PROVE w.data[i] = r.data[i]
    BY <2>0, <2>3
  <2> QED BY <2>1, <2>2, <2>3
<1>10. w.data \in [0..(Cap - 1) -> Int]
  <2>1. w.data = [i \in 0..(Cap - 1) |-> w.data[i]]
    BY <1>6 DEF Copied
  <2>2. ASSUME NEW i \in 0..(Cap - 1) PROVE w.data[i] \in Int
    <3>1. r.data[i] \in Int
      BY DEF Holds
    <3>2. n + (i - pos + 1) \in Int /\ n + (i - pos + Cap + 1) \in Int
      BY <1>0, <1>2
    <3> QED BY <3>1, <3>2, <1>9
  <2> QED BY <2>1, <2>2
<1>11. ASSUME NEW j \in 0..(w.len - 1) PROVE w.data[Wrap(w.start + j)] = n + m - w.len + j + 1
  <2>1. PICK k \in Nat : k = over + j
    BY <1>8
  <2>2. k < l + m /\ k < over + Cap /\ j = k - over
    BY <2>1, <1>0, <1>1, <1>3, <1>4, <1>6
  <2>3. PICK i \in 0..(Cap - 1) : i = Wrap(w.start + j) /\ (i = s + k \/ i = s + k - Cap \/ i = s + k - 2 * Cap)
    <3>1. CASE s + over < Cap
      BY <2>1, <2>2, <3>1, <1>0, <1>1, <1>4, <1>6, <1>8 DEF Wrap
    <3>2. CASE s + over >= Cap
      BY <2>1, <2>2, <3>2, <1>0, <1>1, <1>4, <1>6, <1>8 DEF Wrap
    <3> QED BY <3>1, <3>2, <1>0, <1>1
  <2>4. CASE k < l
    <3>1. i = Wrap(s + k)
      BY <2>3, <2>4, <1>0, <1>1 DEF Wrap
    <3>2. r.data[i] = n - l + k + 1
      <4>1. k \in 0..(r.len - 1)
        BY <2>1, <2>4, <1>1
      <4> QED BY <3>1, <4>1, <1>1 DEF Holds
    <3>3. ~ (i >= pos /\ i < pos + m) /\ ~ (i < pos /\ i < pos + m - Cap)
      <4>1. over <= k
        BY <2>1, <1>0
      <4>2. CASE s + k < Cap
        BY <4>1, <4>2, <1>0, <1>1, <1>2, <1>3, <3>1, <2>4 DEF Wrap
      <4>3. CASE s + k >= Cap
        BY <4>1, <4>3, <1>0, <1>1, <1>2, <1>3, <3>1, <2>4 DEF Wrap
      <4> QED BY <4>2, <4>3, <1>0
    <3>4. w.data[i] = r.data[i]
      BY <3>3, <1>9
    <3> QED BY <3>2, <3>4, <2>1, <2>2, <2>3, <1>0, <1>1, <1>6, <1>8
  <2>5. CASE k >= l
    <3>1. CASE i >= pos
      <4>1. i - pos = k - l
        <5>1. i = s + k => i - pos = k - l
          BY <1>0, <1>1, <1>2, <2>2, <2>5, <3>1 DEF Wrap
        <5>2. i = s + k - Cap => i - pos = k - l
          BY <1>0, <1>1, <1>2, <2>2, <2>5, <3>1 DEF Wrap
        <5>3. i = s + k - 2 * Cap => i - pos = k - l
          BY <1>0, <1>1, <1>2, <2>2, <2>5, <3>1 DEF Wrap
        <5> QED BY <5>1, <5>2, <5>3, <2>3
      <4>2. w.data[i] = n + (i - pos + 1)
        BY <4>1, <3>1, <2>1, <2>2, <2>5, <1>0, <1>1, <1>2, <1>9
      <4> QED BY <4>1, <4>2, <2>1, <2>2, <2>3, <1>0, <1>1, <1>6, <1>8
    <3>2. CASE i < pos
      <4>1. i - pos + Cap = k - l
        <5>1. i = s + k => i - pos + Cap = k - l
          BY <1>0, <1>1, <1>2, <2>2, <2>5, <3>2 DEF Wrap
        <5>2. i = s + k - Cap => i - pos + Cap = k - l
          BY <1>0, <1>1, <1>2, <2>2, <2>5, <3>2 DEF Wrap
        <5>3. i = s + k - 2 * Cap => i - pos + Cap = k - l
          BY <1>0, <1>1, <1>2, <2>2, <2>5, <3>2 DEF Wrap
        <5> QED BY <5>1, <5>2, <5>3, <2>3
      <4>2. w.data[i] = n + (i - pos + Cap + 1)
        BY <4>1, <3>2, <2>1, <2>2, <2>5, <1>0, <1>1, <1>2, <1>9
      <4> QED BY <4>1, <4>2, <2>1, <2>2, <2>3, <1>0, <1>1, <1>6, <1>8
    <3> QED BY <3>1, <3>2, <1>2, <2>3
  <2> QED BY <2>4, <2>5, <2>1, <1>1
<1> QED BY <1>5, <1>7, <1>8, <1>10, <1>11 DEF Holds

\* A chunk as long as the ring or longer leaves its own tail.
LEMMA LongWriteHolds ==
  ASSUME NEW r, NEW n \in Nat, NEW m \in Nat, m >= Cap,
         NEW p, Chunk(p, n, m)
  PROVE  Holds(RingWrite(r, p), n + m)
<1>0. Cap \in Nat /\ Cap > 0
  BY StreamAssumption
<1>1. PICK w : w = RingWrite(r, p)
  OBVIOUS
<1>2. w = [data |-> [i \in 0..(Cap - 1) |-> p[m - Cap + i + 1]], start |-> 0, len |-> Cap]
  BY <1>0, <1>1 DEF RingWrite, Chunk
<1>3. ASSUME NEW i \in 0..(Cap - 1) PROVE w.data[i] = n + m - Cap + i + 1 /\ w.data[i] \in Int
  <2>1. m - Cap + i + 1 \in 1..m
    BY <1>0
  <2>2. w.data[i] = p[m - Cap + i + 1]
    BY <1>2
  <2> QED BY <2>1, <2>2, <1>0 DEF Chunk
<1>4. w.data \in [0..(Cap - 1) -> Int]
  <2>1. w.data = [i \in 0..(Cap - 1) |-> w.data[i]]
    BY <1>2
  <2> QED BY <2>1, <1>3
<1>5. w.start = 0 /\ w.len = Cap /\ w.len = Smaller(n + m, Cap)
  BY <1>0, <1>2 DEF Smaller
<1>6. ASSUME NEW j \in 0..(w.len - 1) PROVE w.data[Wrap(w.start + j)] = n + m - w.len + j + 1
  BY <1>0, <1>3, <1>5 DEF Wrap
<1> QED BY <1>0, <1>1, <1>4, <1>5, <1>6 DEF Holds

\* What the ring holds is what Snapshot reads back, in write order.
LEMMA SnapshotReads ==
  ASSUME NEW r, NEW n \in Nat, Holds(r, n)
  PROVE  Snapshot(r) = [i \in 1..Smaller(n, Cap) |-> n - Smaller(n, Cap) + i]
<1> USE StreamAssumption
<1>1. /\ Cap \in Nat /\ Cap > 0 /\ r.start \in Nat /\ r.start < Cap
      /\ r.len \in Nat /\ r.len <= Cap /\ r.len = Smaller(n, Cap)
  BY DEF Holds, Smaller
<1>2. ASSUME NEW i \in 1..r.len
      PROVE  (IF i <= Cap - r.start THEN r.data[r.start + i - 1] ELSE r.data[i - (Cap - r.start) - 1])
               = n - r.len + i
  <2>1. i - 1 \in 0..(r.len - 1) /\ r.start + (i - 1) = r.start + i - 1
    BY <1>1
  <2>2. r.data[Wrap(r.start + (i - 1))] = n - r.len + (i - 1) + 1
    BY <2>1 DEF Holds
  <2>3. CASE i <= Cap - r.start
    BY <2>1, <2>2, <2>3, <1>1 DEF Wrap
  <2>4. CASE i > Cap - r.start
    <3>1. Wrap(r.start + (i - 1)) = i - (Cap - r.start) - 1
      BY <2>4, <1>1 DEF Wrap
    <3> QED BY <2>2, <2>4, <3>1, <1>1
  <2> QED BY <2>3, <2>4, <1>1
<1> QED BY <1>1, <1>2 DEF Snapshot

-----------------------------------------------------------------------------
(* The screens *)

\* The loop of an attach.
LoopType == [pc : {"idle", "attaching", "replayed", "reading", "firing", "leaving", "off"},
             detach : Bytes, buf : Seq(Bytes), remote : Bytes \union {NoByte}]

TypeOK ==
  /\ emitted \in Nat
  /\ lock \in {Nobody, Pump} \union Attaches /\ live \in {Nobody} \union Attaches
  /\ screen \in [Attaches -> Seq(Int)] /\ chunk \in Seq(Int)
  /\ att \in [Attaches -> LoopType]
  /\ typed \in [Attaches -> Seq(Bytes)] /\ sent \in [Attaches -> Seq(Bytes)]
  /\ calls \in [Attaches -> Nat]

\* What a pump still owes is the end of the output, and nobody else holds the lock
\* but an attach that has replayed and not gone live.
Owes(p, n) == Len(p) <= n /\ \A i \in 1..Len(p) : p[i] = n - Len(p) + i
LockInv ==
  /\ IF lock = Pump THEN chunk # <<>> /\ Owes(chunk, emitted) ELSE chunk = <<>>
  /\ \A a \in Attaches : att[a].pc = "replayed" <=> lock = a

\* The terminal was given the last byte a live writer was given.
Caught(s, n) == IF s = <<>> THEN n = 0 ELSE s[Len(s)] = n
Gapless(s)   == \A i \in 1..(Len(s) - 1) : s[i + 1] = s[i] + 1

ScreenInv ==
  \A a \in Attaches :
    /\ Gapless(screen[a])
    /\ live = a \/ att[a].pc = "replayed" => Caught(screen[a], emitted - Len(chunk))

IInv == TypeOK /\ Holds(ring, emitted) /\ LockInv /\ ScreenInv

LEMMA IdsDistinct == Nobody \notin Attaches /\ Pump \notin Attaches /\ Nobody # Pump
BY StreamAssumption DEF Attaches, Nobody, Pump

Less == {ss \in Nat \X Nat : ss[1] < ss[2]}

\* The first position of a byte is that of no other byte before it.
LEMMA FirstIs ==
  ASSUME NEW s \in Seq(Bytes), NEW b, NEW x, x = IndexByte(s, b)
  PROVE  /\ x \in 0..Len(s) /\ Len(s) \in Nat
         /\ x = 0 => \A i \in 1..Len(s) : s[i] # b
         /\ x > 0 => s[x] = b /\ \A i \in 1..(x - 1) : s[i] # b
<1>0. Len(s) \in Nat
  BY LenProperties
<1>1. PICK at \in SUBSET (1..Len(s)) : at = {i \in 1..Len(s) : s[i] = b}
  OBVIOUS
<1>2. x = IF at = {} THEN 0 ELSE CHOOSE i \in at : \A j \in at : i <= j
  BY <1>1 DEF IndexByte
<1>3. CASE at # {}
  <2>1. IsWellFoundedOn(Less, Nat)
    BY NatLessThanWellFounded DEF Less, OpToRel
  <2>2. at \subseteq Nat
    BY <1>0
  <2>3. PICK y \in at : \A z \in at : ~ (<<z, y>> \in Less)
    BY <2>1, <2>2, <1>3, WFMin
  <2>4. ASSUME NEW z \in at PROVE y <= z
    <3>1. y \in Nat /\ z \in Nat /\ <<z, y>> \notin Less
      BY <2>2, <2>3
    <3> QED BY <3>1 DEF Less
  <2>5. PICK c : c = CHOOSE i \in at : \A j \in at : i <= j
    OBVIOUS
  <2>6. c \in at /\ \A j \in at : c <= j
    BY <2>4, <2>5
  <2>7. x = c
    BY <1>2, <1>3, <2>5
  <2>8. ASSUME NEW i \in 1..(x - 1) PROVE s[i] # b
    <3>1. i \in 1..Len(s) /\ ~ (x <= i)
      BY <1>0, <2>6, <2>7
    <3> QED BY <1>1, <2>6, <2>7, <3>1
  <2> QED BY <1>0, <1>1, <2>6, <2>7, <2>8
<1>4. CASE at = {}
  BY <1>0, <1>1, <1>2, <1>4
<1> QED BY <1>3, <1>4

\* The first byte a loop acts on, which is not beyond its buffer (scan).
LEMMA ScanRange ==
  ASSUME NEW l \in LoopType
  PROVE  Scan(l).at \in 0..Len(l.buf)
<1>1. l.buf \in Seq(Bytes)
  BY DEF LoopType
<1>2. Len(l.buf) \in Nat
  BY <1>1, LenProperties
<1>3. IndexByte(l.buf, l.detach) \in 0..Len(l.buf) /\ IndexByte(l.buf, l.remote) \in 0..Len(l.buf)
  BY <1>1, FirstIs
<1> QED BY <1>2, <1>3 DEF Scan

LEMMA InitInv == Init => IInv
<1> SUFFICES ASSUME Init PROVE IInv
  OBVIOUS
<1>1. TypeOK
  BY EmptySeq, StreamAssumption
     DEF Init, TypeOK, LoopType, AttachWith, Bytes, NoByte, Attaches, Nobody, Pump
<1>2. Holds(ring, emitted)
  BY StreamAssumption DEF Init, Holds, EmptyRing, Smaller
<1>3. LockInv
  BY IdsDistinct DEF Init, LockInv, AttachWith, Nobody
<1>4. ScreenInv
  BY IdsDistinct, EmptySeq DEF Init, ScreenInv, Gapless, Caught, AttachWith
<1> QED BY <1>1, <1>2, <1>3, <1>4 DEF IInv

\* What a snapshot gives a terminal: consecutive bytes up to the last one.
LEMMA ReplayCatches ==
  ASSUME NEW r, NEW n \in Nat, Holds(r, n)
  PROVE  /\ Snapshot(r) \in Seq(Int) /\ Gapless(Snapshot(r)) /\ Caught(Snapshot(r), n)
<1>0. Cap \in Nat /\ Cap > 0
  BY StreamAssumption
<1>1. PICK m \in Nat : m = Smaller(n, Cap) /\ m <= n /\ (n > 0 => m > 0)
  BY <1>0 DEF Smaller
<1>2. PICK s : s = Snapshot(r)
  OBVIOUS
<1>3. s = [i \in 1..m |-> n - m + i]
  BY <1>1, <1>2, SnapshotReads
<1>4. s \in [1..m -> Int]
  BY <1>1, <1>3
<1>5. s \in Seq(Int) /\ Len(s) = m
  BY <1>4
<1>6. Gapless(s)
  BY <1>1, <1>3, <1>5 DEF Gapless
<1>7. Caught(s, n)
  <2>1. CASE s = <<>>
    BY <2>1, <1>1, <1>5, EmptySeq DEF Caught
  <2>2. CASE s # <<>>
    <3>1. m > 0
      BY <2>2, <1>5, EmptySeq
    <3> QED BY <2>2, <3>1, <1>1, <1>3, <1>5 DEF Caught
  <2> QED BY <2>1, <2>2
<1> QED BY <1>2, <1>5, <1>6, <1>7

\* A live writer that has all but the chunk is caught up by it (tee.Write).
LEMMA MirrorCatches ==
  ASSUME NEW s \in Seq(Int), NEW p \in Seq(Int), NEW n \in Nat, p # <<>>, Owes(p, n),
         Gapless(s), Caught(s, n - Len(p))
  PROVE  s \o p \in Seq(Int) /\ Gapless(s \o p) /\ Caught(s \o p, n)
<1>1. PICK l \in Nat, k \in Nat : l = Len(s) /\ k = Len(p) /\ k > 0 /\ k <= n
  BY LenProperties, EmptySeq DEF Owes
<1>2. PICK t \in Seq(Int) : t = s \o p
  BY ConcatProperties
<1>3. Len(t) = l + k /\ \A i \in 1..(l + k) : t[i] = IF i <= l THEN s[i] ELSE p[i - l]
  BY <1>1, <1>2, ConcatProperties
<1>4. \A i \in 1..k : p[i] = n - k + i
  BY <1>1 DEF Owes
<1>5. l > 0 => s[l] = n - k
  <2>1. l > 0 => s # <<>>
    BY <1>1, EmptySeq
  <2> QED BY <2>1, <1>1 DEF Caught
<1>6. t[l + k] = n /\ t # <<>>
  <2>1. PICK j \in 1..(l + k) : j = l + k
    BY <1>1
  <2>2. ~ (j <= l) /\ j - l = k
    BY <2>1, <1>1
  <2>3. t[j] = p[j - l]
    BY <2>2, <1>3, Zenon
  <2>4. k \in 1..k /\ n - k + k = n
    BY <1>1
  <2>5. p[k] = n
    BY <2>4, <1>4
  <2>6. t # <<>>
    BY <1>1, <1>3, EmptySeq
  <2> QED BY <2>1, <2>2, <2>3, <2>5, <2>6
<1>7. Gapless(t)
  <2> SUFFICES ASSUME NEW i \in 1..(l + k - 1) PROVE t[i + 1] = t[i] + 1
    BY <1>3 DEF Gapless
  <2>0. i \in 1..(l + k) /\ i + 1 \in 1..(l + k)
    BY <1>1
  <2>1. CASE i + 1 <= l
    <3>1. t[i] = s[i] /\ t[i + 1] = s[i + 1]
      BY <2>0, <2>1, <1>1, <1>3
    <3>2. i \in 1..(l - 1)
      BY <2>1, <1>1
    <3> QED BY <3>1, <3>2, <1>1 DEF Gapless
  <2>2. CASE i = l
    <3>1. t[i] = n - k
      BY <2>0, <2>2, <1>1, <1>3, <1>5
    <3>2. t[i + 1] = p[1]
      <4>1. PICK j \in 1..(l + k) : j = i + 1
        BY <2>0
      <4>2. j - l = 1 /\ ~ (j <= l)
        BY <4>1, <2>2, <1>1
      <4>3. t[j] = p[j - l]
        BY <4>2, <1>3, Zenon
      <4> QED BY <4>1, <4>2, <4>3
    <3> QED BY <3>1, <3>2, <1>1, <1>4
  <2>3. CASE i > l
    <3>1. t[i] = p[i - l] /\ t[i + 1] = p[i + 1 - l]
      <4>1. PICK j \in 1..(l + k) : j = i + 1
        BY <2>0
      <4>2. ~ (i <= l) /\ ~ (j <= l)
        BY <4>1, <2>3, <1>1
      <4>3. t[j] = p[j - l]
        BY <4>2, <1>3, Zenon
      <4>4. t[i] = p[i - l]
        BY <4>2, <2>0, <1>3, Zenon
      <4> QED BY <4>1, <4>3, <4>4
    <3>2. i - l \in 1..k /\ i + 1 - l \in 1..k
      BY <2>3, <1>1
    <3>3. p[i - l] = n - k + (i - l) /\ p[i + 1 - l] = n - k + (i + 1 - l)
      BY <3>2, <1>4
    <3> QED BY <3>1, <3>3, <1>1
  <2> QED BY <2>1, <2>2, <2>3, <1>1
<1> QED BY <1>1, <1>2, <1>3, <1>6, <1>7 DEF Caught

\* Steps of the output.

LEMMA RecordStep == IInv /\ Record => IInv'
<1> SUFFICES ASSUME IInv, Record PROVE IInv'
  OBVIOUS
<1>1. PICK n \in 1..MaxChunk : /\ ring' = RingWrite(ring, [i \in 1..n |-> emitted + i])
                               /\ chunk' = [i \in 1..n |-> emitted + i]
                               /\ emitted' = emitted + n
  BY DEF Record
<1>2. /\ emitted \in Nat /\ n \in Nat /\ n >= 1 /\ Cap \in Nat
      /\ lock = Nobody /\ lock' = Pump /\ chunk = <<>>
      /\ live' = live /\ screen' = screen /\ att' = att /\ inputs' = inputs
  BY StreamAssumption, IdsDistinct DEF Record, IInv, TypeOK, LockInv
<1>3. chunk' \in Seq(Int) /\ Len(chunk') = n /\ chunk' # <<>>
  <2>1. chunk' \in [1..n -> Int]
    BY <1>1, <1>2
  <2> QED BY <2>1, <1>2, EmptySeq
<1>4. Chunk(chunk', emitted, n)
  BY <1>1, <1>3 DEF Chunk
<1>5. Holds(ring', emitted')
  <2>1. ring' = RingWrite(ring, chunk') /\ Holds(ring, emitted)
    BY <1>1 DEF IInv
  <2>2. CASE n < Cap
    BY <2>1, <2>2, <1>1, <1>2, <1>4, ShortWriteHolds
  <2>3. CASE n >= Cap
    BY <2>1, <2>3, <1>1, <1>2, <1>4, LongWriteHolds
  <2> QED BY <2>2, <2>3, <1>2
<1>6. TypeOK'
  BY <1>1, <1>2, <1>3 DEF IInv, TypeOK, inputs
<1>7. LockInv'
  <2>1. Owes(chunk', emitted')
    BY <1>1, <1>2, <1>3 DEF Owes
  <2>2. \A a \in Attaches : att[a].pc # "replayed"
    BY <1>2, IdsDistinct DEF IInv, LockInv
  <2> QED BY <2>1, <2>2, <1>2, <1>3, IdsDistinct DEF LockInv
<1>8. ScreenInv'
  <2>1. Len(chunk) = 0 /\ emitted' - Len(chunk') = emitted - Len(chunk)
    BY <1>1, <1>2, <1>3, EmptySeq
  <2> QED BY <2>1, <1>2 DEF IInv, ScreenInv
<1> QED BY <1>5, <1>6, <1>7, <1>8 DEF IInv

LEMMA MirrorStep == IInv /\ Mirror => IInv'
<1> SUFFICES ASSUME IInv, Mirror PROVE IInv'
  OBVIOUS
<1>1. /\ emitted \in Nat /\ lock = Pump /\ lock' = Nobody /\ chunk' = <<>>
      /\ chunk \in Seq(Int) /\ chunk # <<>> /\ Owes(chunk, emitted)
      /\ ring' = ring /\ emitted' = emitted /\ att' = att /\ inputs' = inputs
  BY DEF Mirror, IInv, TypeOK, LockInv
<1>2. \A a \in Attaches : att[a].pc # "replayed"
  BY <1>1, IdsDistinct DEF IInv, LockInv
<1>3. LockInv'
  BY <1>1, <1>2, IdsDistinct DEF LockInv
<1>4. Len(chunk') = 0 /\ emitted' - Len(chunk') = emitted
  BY <1>1, EmptySeq
<1>5. CASE live # Nobody /\ screen' = [screen EXCEPT ![live] = @ \o chunk] /\ UNCHANGED live
  <2>1. live \in Attaches /\ screen[live] \in Seq(Int) /\ Gapless(screen[live])
        /\ Caught(screen[live], emitted - Len(chunk))
    BY <1>5 DEF IInv, TypeOK, ScreenInv
  <2>2. /\ screen[live] \o chunk \in Seq(Int) /\ Gapless(screen[live] \o chunk)
        /\ Caught(screen[live] \o chunk, emitted)
    BY <2>1, <1>1, MirrorCatches
  <2>3. screen' \in [Attaches -> Seq(Int)] /\ screen'[live] = screen[live] \o chunk
        /\ \A a \in Attaches : a # live => screen'[a] = screen[a]
    BY <1>5, <2>1, <2>2 DEF IInv, TypeOK
  <2>4. TypeOK'
    BY <1>1, <1>5, <2>3, EmptySeq DEF IInv, TypeOK, inputs
  <2>5. ScreenInv'
    <3> SUFFICES ASSUME NEW a \in Attaches
                 PROVE  /\ Gapless(screen'[a])
                        /\ live' = a \/ att'[a].pc = "replayed"
                             => Caught(screen'[a], emitted' - Len(chunk'))
      BY DEF ScreenInv
    <3>1. CASE a = live
      BY <3>1, <1>4, <2>2, <2>3
    <3>2. CASE a # live
      BY <3>2, <1>1, <1>2, <1>5, <2>3 DEF IInv, ScreenInv
    <3> QED BY <3>1, <3>2
  <2> QED BY <1>1, <1>3, <2>4, <2>5 DEF IInv
<1>6. CASE live' = Nobody /\ UNCHANGED screen
  <2>1. TypeOK'
    BY <1>1, <1>6, EmptySeq DEF IInv, TypeOK, inputs
  <2>2. ScreenInv'
    BY <1>1, <1>2, <1>6, IdsDistinct DEF IInv, ScreenInv
  <2> QED BY <1>1, <1>3, <2>1, <2>2 DEF IInv
<1> QED BY <1>5, <1>6 DEF Mirror

LEMMA ReplayStep == ASSUME IInv, NEW a \in Attaches, Replay(a) PROVE IInv'
<1>1. /\ emitted \in Nat /\ lock = Nobody /\ lock' = a /\ chunk = <<>> /\ a # Pump
      /\ ring' = ring /\ emitted' = emitted /\ live' = live /\ chunk' = chunk /\ inputs' = inputs
      /\ att \in [Attaches -> LoopType] /\ att[a].pc = "attaching"
      /\ screen' = [screen EXCEPT ![a] = Snapshot(ring)]
      /\ att' = [att EXCEPT ![a].pc = "replayed"]
  BY IdsDistinct DEF Replay, Locked, IInv, TypeOK, LockInv
<1>2. Snapshot(ring) \in Seq(Int) /\ Gapless(Snapshot(ring)) /\ Caught(Snapshot(ring), emitted)
  BY <1>1, ReplayCatches DEF IInv
<1>3. /\ att' \in [Attaches -> LoopType] /\ att'[a].pc = "replayed"
      /\ \A b \in Attaches : b # a => att'[b] = att[b]
  BY <1>1 DEF LoopType
<1>4. /\ screen' \in [Attaches -> Seq(Int)] /\ screen'[a] = Snapshot(ring)
      /\ \A b \in Attaches : b # a => screen'[b] = screen[b]
  BY <1>1, <1>2 DEF IInv, TypeOK
<1>5. TypeOK'
  BY <1>1, <1>3, <1>4 DEF IInv, TypeOK, inputs
<1>6. \A b \in Attaches : att[b].pc # "replayed"
  BY <1>1, IdsDistinct DEF IInv, LockInv
<1>7. LockInv'
  BY <1>1, <1>3, <1>6 DEF LockInv
<1>8. ScreenInv'
  <2>1. Len(chunk') = 0 /\ emitted' - Len(chunk') = emitted /\ emitted - Len(chunk) = emitted
    BY <1>1, EmptySeq
  <2> SUFFICES ASSUME NEW b \in Attaches
               PROVE  /\ Gapless(screen'[b])
                      /\ live' = b \/ att'[b].pc = "replayed"
                           => Caught(screen'[b], emitted' - Len(chunk'))
    BY DEF ScreenInv
  <2>2. CASE b = a
    BY <2>1, <2>2, <1>2, <1>4
  <2>3. CASE b # a
    BY <2>1, <2>3, <1>1, <1>3, <1>4, <1>6 DEF IInv, ScreenInv
  <2> QED BY <2>2, <2>3
<1> QED BY <1>1, <1>5, <1>7, <1>8 DEF IInv

LEMMA GoLiveStep == ASSUME IInv, NEW a \in Attaches, GoLive(a) PROVE IInv'
<1>1. /\ att \in [Attaches -> LoopType] /\ att[a].pc = "replayed" /\ lock = a /\ lock' = Nobody
      /\ chunk = <<>> /\ chunk' = chunk /\ ring' = ring /\ emitted' = emitted
      /\ screen' = screen /\ inputs' = inputs
  BY IdsDistinct DEF GoLive, IInv, TypeOK, LockInv
<1>2. \A b \in Attaches : b # a => att[b].pc # "replayed"
  BY <1>1 DEF IInv, LockInv
<1>3. /\ att' \in [Attaches -> LoopType] /\ att'[a].pc \in {"reading", "off"}
      /\ \A b \in Attaches : b # a => att'[b] = att[b]
  BY <1>1 DEF GoLive, LoopType
<1>4. live' \in {live, a}
  BY DEF GoLive
<1>5. TypeOK'
  BY <1>1, <1>3, <1>4 DEF IInv, TypeOK, inputs
<1>6. LockInv'
  BY <1>1, <1>2, <1>3, IdsDistinct DEF LockInv
<1>7. ScreenInv'
  BY <1>1, <1>2, <1>3, <1>4 DEF IInv, ScreenInv
<1> QED BY <1>1, <1>5, <1>6, <1>7 DEF IInv

LEMMA UnsetLiveStep == ASSUME IInv, NEW a \in Attaches, UnsetLive(a) PROVE IInv'
<1>1. /\ att \in [Attaches -> LoopType] /\ att[a].pc = "leaving" /\ lock = Nobody /\ lock' = lock
      /\ chunk' = chunk /\ ring' = ring /\ emitted' = emitted
      /\ screen' = screen /\ inputs' = inputs /\ live' \in {live, Nobody}
      /\ att' = [att EXCEPT ![a].pc = "off"]
  BY DEF UnsetLive, Cleared, IInv, TypeOK
<1>2. /\ att' \in [Attaches -> LoopType] /\ att'[a].pc = "off"
      /\ \A b \in Attaches : b # a => att'[b] = att[b]
  BY <1>1 DEF LoopType
<1>3. TypeOK'
  BY <1>1, <1>2 DEF IInv, TypeOK, inputs
<1>4. LockInv'
  BY <1>1, <1>2, IdsDistinct DEF IInv, LockInv
<1>5. ScreenInv'
  BY <1>1, <1>2, IdsDistinct DEF IInv, ScreenInv
<1> QED BY <1>1, <1>3, <1>4, <1>5 DEF IInv

\* Steps of the input: the loop goes on, and no screen changes.

LEMMA LoopMoves ==
  ASSUME IInv, NEW a \in Attaches, UNCHANGED outputs, TypeOK',
         \A b \in Attaches : att'[b].pc = "replayed" <=> att[b].pc = "replayed"
  PROVE  IInv'
<1>1. LockInv'
  BY DEF IInv, LockInv, outputs
<1>2. ScreenInv'
  BY DEF IInv, ScreenInv, outputs
<1> QED BY <1>1, <1>2 DEF IInv, outputs

LEMMA RunStep == ASSUME IInv, NEW a \in Attaches, Run(a) PROVE IInv'
<1>1. PICK remote \in {"h", "d", NoByte} : att' = [att EXCEPT ![a] = AttachWith("d", remote)]
  BY DEF Run
<1>2. AttachWith("d", remote) \in LoopType /\ AttachWith("d", remote).pc = "attaching"
  BY EmptySeq DEF AttachWith, LoopType, Bytes, NoByte
<1>3. att[a].pc = "idle" /\ UNCHANGED <<outputs, inputs>>
  BY DEF Run
<1>4. TypeOK'
  BY <1>1, <1>2, <1>3 DEF IInv, TypeOK, outputs, inputs
<1>5. \A b \in Attaches : att'[b].pc = "replayed" <=> att[b].pc = "replayed"
  BY <1>1, <1>2, <1>3 DEF IInv, TypeOK
<1> QED BY <1>3, <1>4, <1>5, LoopMoves

LEMMA ReadStep == ASSUME IInv, NEW a \in Attaches, Read(a) PROVE IInv'
<1>0. PICK n \in 1..MaxChunk : \E c \in [1..n -> Bytes] :
        typed' = [typed EXCEPT ![a] = @ \o c] /\ att' = [att EXCEPT ![a].buf = c]
  BY DEF Read
<1>1. PICK c \in [1..n -> Bytes] :
        typed' = [typed EXCEPT ![a] = @ \o c] /\ att' = [att EXCEPT ![a].buf = c]
  BY <1>0
<1>2. c \in Seq(Bytes) /\ typed[a] \o c \in Seq(Bytes)
  <2>1. n \in Nat /\ typed[a] \in Seq(Bytes)
    BY StreamAssumption DEF IInv, TypeOK
  <2>2. c \in Seq(Bytes)
    BY <2>1
  <2> QED BY <2>1, <2>2, ConcatProperties
<1>3. UNCHANGED <<outputs, sent, calls>>
  BY DEF Read
<1>4. att' \in [Attaches -> LoopType] /\ \A b \in Attaches : att'[b].pc = att[b].pc
  BY <1>1, <1>2 DEF IInv, TypeOK, LoopType
<1>5. typed' \in [Attaches -> Seq(Bytes)]
  BY <1>1, <1>2 DEF IInv, TypeOK
<1>6. TypeOK'
  BY <1>3, <1>4, <1>5 DEF IInv, TypeOK, outputs
<1> QED BY <1>3, <1>4, <1>6, LoopMoves

LEMMA DispatchStep == ASSUME IInv, NEW a \in Attaches, Dispatch(a) PROVE IInv'
<1>1. /\ att[a] \in LoopType /\ att[a].buf \in Seq(Bytes) /\ sent[a] \in Seq(Bytes)
      /\ att \in [Attaches -> LoopType] /\ sent \in [Attaches -> Seq(Bytes)]
      /\ att[a].pc = "reading" /\ UNCHANGED <<outputs, typed>>
  BY DEF IInv, TypeOK, LoopType, Dispatch
<1>2. PICK at \in 0..Len(att[a].buf) : at = Scan(att[a]).at
  BY <1>1, ScanRange
<1>3. Len(att[a].buf) \in Nat /\ \A i \in 1..Len(att[a].buf) : att[a].buf[i] \in Bytes
  BY <1>1, LenProperties
<1>4. PICK run \in Seq(Bytes) :
        run = IF Scan(att[a]).at = 0 THEN att[a].buf ELSE SubSeq(att[a].buf, 1, Scan(att[a]).at - 1)
  <2>1. \A i \in 1..(at - 1) : att[a].buf[i] \in Bytes
    BY <1>2, <1>3
  <2>2. SubSeq(att[a].buf, 1, at - 1) \in Seq(Bytes)
    BY <1>2, <1>3, <2>1, SubSeqProperties
  <2> QED BY <1>1, <1>2, <2>2
<1>5. PICK rest \in Seq(Bytes) :
        rest = IF Scan(att[a]).at = 0 THEN <<>>
               ELSE SubSeq(att[a].buf, Scan(att[a]).at + 1, Len(att[a].buf))
  <2>1. \A i \in (at + 1)..Len(att[a].buf) : att[a].buf[i] \in Bytes
    BY <1>2, <1>3
  <2>2. SubSeq(att[a].buf, at + 1, Len(att[a].buf)) \in Seq(Bytes)
    BY <1>2, <1>3, <2>1, SubSeqProperties
  <2> QED BY <1>2, <2>2, EmptySeq
<1>6. sent[a] \o run \in Seq(Bytes)
  BY <1>1, ConcatProperties
<1>7. /\ sent' \in {sent, [sent EXCEPT ![a] = @ \o run]}
      /\ calls' \in {calls, [calls EXCEPT ![a] = @ + 1]}
      /\ \E pc \in {"reading", "leaving", "firing"}, buf \in {att[a].buf, rest} :
            att' = [att EXCEPT ![a].pc = pc, ![a].buf = buf]
  <2>1. CASE att' = [att EXCEPT ![a].pc = "leaving"] /\ UNCHANGED <<sent, calls>>
    <3>1. att' = [att EXCEPT ![a].pc = "leaving", ![a].buf = att[a].buf]
      BY <1>1, <2>1 DEF LoopType
    <3> QED BY <2>1, <3>1
  <2>2. CASE /\ sent' = [sent EXCEPT ![a] = @ \o run]
             /\ att' = [att EXCEPT ![a].pc = "firing", ![a].buf = rest]
             /\ calls' = [calls EXCEPT ![a] = @ + 1]
    BY <2>2
  <2>3. CASE /\ sent' = [sent EXCEPT ![a] = @ \o run]
             /\ att' = [att EXCEPT ![a].pc = IF Scan(att[a]).at > 0 THEN "leaving" ELSE @,
                                   ![a].buf = rest]
             /\ UNCHANGED calls
    <3>1. CASE Scan(att[a]).at > 0
      BY <2>3, <3>1
    <3>2. CASE ~ (Scan(att[a]).at > 0)
      <4>1. att' = [att EXCEPT ![a].pc = "reading", ![a].buf = rest]
        BY <2>3, <3>2, <1>1
      <4> QED BY <2>3, <4>1
    <3> QED BY <3>1, <3>2
  <2> QED BY <2>1, <2>2, <2>3, <1>4, <1>5 DEF Dispatch
<1>8. att' \in [Attaches -> LoopType]
      /\ \A b \in Attaches : att'[b].pc = "replayed" <=> att[b].pc = "replayed"
  <2>1. PICK pc \in {"reading", "leaving", "firing"}, buf \in Seq(Bytes) :
          att' = [att EXCEPT ![a].pc = pc, ![a].buf = buf]
    BY <1>1, <1>7
  <2> QED BY <1>1, <2>1 DEF LoopType
<1>9. sent' \in [Attaches -> Seq(Bytes)] /\ calls' \in [Attaches -> Nat]
  <2>1. sent' \in [Attaches -> Seq(Bytes)]
    BY <1>1, <1>6, <1>7
  <2>2. calls \in [Attaches -> Nat]
    BY DEF IInv, TypeOK
  <2>3. [calls EXCEPT ![a] = @ + 1] \in [Attaches -> Nat]
    BY <2>2
  <2> QED BY <2>1, <2>2, <2>3, <1>7
<1>10. TypeOK'
  BY <1>1, <1>8, <1>9 DEF IInv, TypeOK, outputs
<1> QED BY <1>1, <1>8, <1>10, LoopMoves

LEMMA CallStep ==
  ASSUME IInv, NEW a \in Attaches,
         ReadEnds(a) \/ CallReturns(a) \/ CallTimesOut(a) \/ CallReturnsLate(a)
  PROVE  IInv'
<1>1. /\ att \in [Attaches -> LoopType] /\ calls \in [Attaches -> Nat]
      /\ UNCHANGED <<outputs, typed, sent>>
  BY DEF IInv, TypeOK, ReadEnds, CallReturns, CallTimesOut, CallReturnsLate, inputs
<1>2. calls' \in [Attaches -> Nat]
  <2>1. calls' = calls \/ (calls[a] > 0 /\ calls' = [calls EXCEPT ![a] = @ - 1])
    <3>1. Waits(a) >= 0 /\ Waits(a) \in Nat /\ calls[a] \in Nat
      BY <1>1 DEF Waits
    <3> QED BY <1>1, <3>1 DEF ReadEnds, CallReturns, CallTimesOut, CallReturnsLate, inputs
  <2> QED BY <1>1, <2>1
<1>3. att' \in [Attaches -> LoopType]
      /\ \A b \in Attaches : att'[b].pc = "replayed" <=> att[b].pc = "replayed"
  <2>1. \/ att' = att
        \/ /\ att[a].pc # "replayed"
           /\ \/ att' = [att EXCEPT ![a].pc = "leaving"]
              \/ att' = [att EXCEPT ![a].pc = "reading"]
    BY <1>1 DEF ReadEnds, CallReturns, CallTimesOut, CallReturnsLate, Returns
  <2> QED BY <1>1, <2>1 DEF LoopType
<1>4. TypeOK'
  BY <1>1, <1>2, <1>3 DEF IInv, TypeOK, outputs
<1> QED BY <1>1, <1>3, <1>4, LoopMoves

LEMMA StepInv == IInv /\ [Next]_vars => IInv'
<1> SUFFICES ASSUME IInv, [Next]_vars PROVE IInv'
  OBVIOUS
<1>1. CASE UNCHANGED vars
  BY <1>1 DEF vars, IInv, TypeOK, LockInv, ScreenInv
<1>2. CASE Record
  BY <1>2, RecordStep
<1>3. CASE Mirror
  BY <1>3, MirrorStep
<1>4. ASSUME NEW a \in Attaches,
             \/ Run(a) \/ Replay(a) \/ GoLive(a) \/ Read(a) \/ ReadEnds(a)
             \/ UnsetLive(a) \/ Loop(a) \/ CallReturns(a) \/ CallReturnsLate(a)
      PROVE  IInv'
  BY <1>4, RunStep, ReplayStep, GoLiveStep, ReadStep, UnsetLiveStep, DispatchStep, CallStep DEF Loop
<1> QED BY <1>1, <1>2, <1>3, <1>4 DEF Next

\* Every reachable state satisfies the inductive invariant: the ring against the output
\* written so far, and what every stage of an attach says of its place in the stream.
THEOREM Inductive == Spec => []IInv
<1> QED BY InitInv, StepInv, PTL DEF Spec

-----------------------------------------------------------------------------
(* Theorems *)

\* Every variable of the stream and of the attach loops keeps its type.
THEOREM TypeCorrect == Spec => []TypeOK
<1>1. IInv => TypeOK
  BY DEF IInv
<1> QED BY <1>1, Inductive, PTL

\* ringBuffer.Write and Snapshot: whatever the capacity and however the output falls
\* into chunks, a snapshot is the last ringSize bytes of it, in order.
THEOREM TailKept == Spec => []RingKeepsTheTail
<1>1. IInv => RingKeepsTheTail
  BY SnapshotReads DEF IInv, TypeOK, RingKeepsTheTail
<1> QED BY <1>1, Inductive, PTL

\* goLive and tee.Write: every terminal is shown consecutive bytes of the output, and
\* the live one has all of it but what the pump that holds the lock is about to give it.
THEOREM NothingLostOrDoubled == Spec => []NoGapNoDouble
<1>1. IInv => NoGapNoDouble
  <2> SUFFICES ASSUME IInv, NEW a \in Attaches
               PROVE  /\ \A i \in 1..(Len(screen[a]) - 1) : screen[a][i + 1] = screen[a][i] + 1
                      /\ live = a => IF screen[a] = <<>> THEN emitted = Owed
                                     ELSE screen[a][Len(screen[a])] = emitted - Owed
    BY DEF NoGapNoDouble
  <2>1. emitted \in Nat /\ Len(chunk) \in Nat
    BY LenProperties DEF IInv, TypeOK
  <2>2. Gapless(screen[a]) /\ (live = a => Caught(screen[a], emitted - Len(chunk)))
    BY DEF IInv, ScreenInv
  <2> QED BY <2>1, <2>2 DEF Gapless, Caught, Owed
<1> QED BY <1>1, Inductive, PTL

\* unsetLive: only a failed write of a pump, or the attach itself as it leaves, ends a
\* terminal's turn as the live writer without another one's.
THEOREM LeavingIsHarmless == Spec => LeavingSparesOthers
<1>1. IInv /\ [Next]_vars =>
        \A a \in Attaches : live = a /\ live' = Nobody => lock = Pump \/ att[a].pc = "leaving"
  <2> SUFFICES ASSUME IInv, [Next]_vars, NEW a \in Attaches, live = a, live' = Nobody
               PROVE  lock = Pump \/ att[a].pc = "leaving"
    OBVIOUS
  <2>1. a # Nobody /\ \A b \in Attaches : b # Nobody
    BY IdsDistinct
  <2>2. CASE Mirror
    BY <2>2 DEF Mirror
  <2>3. CASE Record \/ UNCHANGED vars
    BY <2>1, <2>3 DEF Record, vars
  <2>4. ASSUME NEW b \in Attaches, UnsetLive(b) PROVE att[a].pc = "leaving"
    BY <2>1, <2>4 DEF UnsetLive, Cleared
  <2>5. ASSUME NEW b \in Attaches, \/ Run(b) \/ Replay(b) \/ GoLive(b) \/ Read(b) \/ ReadEnds(b)
                                   \/ Loop(b) \/ CallReturns(b) \/ CallReturnsLate(b)
        PROVE  FALSE
    <3>1. live' = live \/ live' = b
      BY <2>5 DEF Run, Replay, GoLive, Read, ReadEnds, Loop, Dispatch, CallTimesOut, CallReturns,
                  CallReturnsLate, outputs
    <3> QED BY <3>1, <2>1
  <2> QED BY <2>2, <2>3, <2>4, <2>5 DEF Next
<1> QED BY <1>1, Inductive, PTL DEF Spec, LeavingSparesOthers

-----------------------------------------------------------------------------
(* The typed bytes: what the loop of an attach has read, has left in its   *)
(* buffer, and has sent.                                                   *)

\* t is the first k bytes of s without the bytes b.
Kept(t, s, k, b) ==
  \E f \in [1..Len(t) -> 1..k] :
    /\ \A i \in 1..Len(t) : t[i] = s[f[i]] /\ \A j \in 1..(i - 1) : f[j] < f[i]
    /\ \A m \in 1..k : s[m] # b <=> \E i \in 1..Len(t) : f[i] = m

\* A loop that read s from its terminal has its buffer left of it, has found the detach
\* key only when it leaves, and has sent t, what came before that key but the hotkeys.
Progress(l, s, t, n, k) ==
  /\ n = Len(s) - Len(l.buf) /\ \A i \in 1..Len(l.buf) : l.buf[i] = s[n + i]
  /\ (\A i \in 1..k : s[i] # l.detach) /\ (k < n => s[k + 1] = l.detach)
  /\ k < n => l.pc \in {"leaving", "off"}
  /\ Kept(t, s, k, l.remote)
Follows(l, s, t) ==
  /\ l.detach \in Bytes /\ l.detach # l.remote
  /\ l.pc = "idle" => s = <<>> /\ t = <<>> /\ l.buf = <<>>
  /\ \E n \in Nat : \E k \in 0..n : Progress(l, s, t, n, k)
TextInv == \A a \in Attaches : Follows(att[a], typed[a], sent[a])

\* One more byte is left out.
LEMMA KeptSkips ==
  ASSUME NEW t \in Seq(Bytes), NEW s, NEW k \in Nat, NEW b, Kept(t, s, k, b), s[k + 1] = b
  PROVE  Kept(t, s, k + 1, b)
<1>0. Len(t) \in Nat
  BY LenProperties
<1>1. PICK f \in [1..Len(t) -> 1..k] :
        /\ \A i \in 1..Len(t) : t[i] = s[f[i]] /\ \A j \in 1..(i - 1) : f[j] < f[i]
        /\ \A m \in 1..k : s[m] # b <=> \E i \in 1..Len(t) : f[i] = m
  BY DEF Kept
<1>2. f \in [1..Len(t) -> 1..(k + 1)]
  BY <1>1
<1>3. ASSUME NEW m \in 1..(k + 1) PROVE s[m] # b <=> \E i \in 1..Len(t) : f[i] = m
  <2>1. CASE m = k + 1
    BY <1>1, <2>1
  <2>2. CASE m \in 1..k
    BY <1>1, <2>2
  <2> QED BY <2>1, <2>2
<1> QED BY <1>1, <1>2, <1>3 DEF Kept

\* A run without the byte is sent whole.
LEMMA KeptGrows ==
  ASSUME NEW t \in Seq(Bytes), NEW s, NEW k \in Nat, NEW b, Kept(t, s, k, b),
         NEW r \in Seq(Bytes), \A i \in 1..Len(r) : s[k + i] = r[i] /\ r[i] # b
  PROVE  Kept(t \o r, s, k + Len(r), b)
<1>0. /\ Len(t) \in Nat /\ Len(r) \in Nat /\ t \o r \in Seq(Bytes) /\ Len(t \o r) = Len(t) + Len(r)
      /\ \A i \in 1..Len(t) : (t \o r)[i] = t[i]
      /\ \A i \in 1..Len(r) : (t \o r)[Len(t) + i] = r[i]
  BY LenProperties, ConcatProperties
<1>1. PICK f \in [1..Len(t) -> 1..k] :
        /\ \A i \in 1..Len(t) : t[i] = s[f[i]] /\ \A j \in 1..(i - 1) : f[j] < f[i]
        /\ \A m \in 1..k : s[m] # b <=> \E i \in 1..Len(t) : f[i] = m
  BY DEF Kept
<1>2. PICK p \in Nat, q \in Nat : p = Len(t) /\ q = Len(r)
  BY <1>0
<1>3. PICK u : u = t \o r
  OBVIOUS
<1>4. PICK g : g = [i \in 1..(p + q) |-> IF i <= p THEN f[i] ELSE k + (i - p)]
  OBVIOUS
<1>5. /\ \A i \in 1..p : g[i] = f[i] /\ g[i] \in 1..k
      /\ \A i \in (p + 1)..(p + q) : g[i] = k + (i - p)
  <2>1. ASSUME NEW i \in 1..p PROVE g[i] = f[i] /\ g[i] \in 1..k
    <3>1. i \in 1..(p + q) /\ i <= p
      BY <1>2
    <3>2. f[i] \in 1..k
      BY <1>1, <1>2
    <3> QED BY <1>4, <3>1, <3>2
  <2>2. ASSUME NEW i \in (p + 1)..(p + q) PROVE g[i] = k + (i - p)
    <3>1. i \in 1..(p + q) /\ ~ (i <= p)
      BY <1>2
    <3> QED BY <1>4, <3>1
  <2> QED BY <2>1, <2>2
<1>6. g \in [1..(p + q) -> 1..(k + q)]
  <2>1. ASSUME NEW i \in 1..(p + q) PROVE g[i] \in 1..(k + q)
    <3>1. CASE i \in 1..p
      BY <1>5, <3>1
    <3>2. CASE i \in (p + 1)..(p + q)
      BY <1>5, <3>2
    <3> QED BY <3>1, <3>2
  <2> QED BY <1>4, <2>1
<1>7. ASSUME NEW i \in 1..(p + q) PROVE u[i] = s[g[i]] /\ \A j \in 1..(i - 1) : g[j] < g[i]
  <2>1. CASE i \in 1..p
    <3>1. g[i] = f[i] /\ \A j \in 1..(i - 1) : g[j] = f[j] /\ f[j] < f[i]
      BY <1>1, <1>2, <1>5, <2>1
    <3> QED BY <1>0, <1>1, <1>2, <1>3, <2>1, <3>1
  <2>2. CASE i \in (p + 1)..(p + q)
    <3>1. PICK e \in 1..q : i = p + e
      <4>1. i - p \in 1..q /\ i = p + (i - p)
        BY <2>2
      <4> QED BY <4>1
    <3>2. u[i] = r[e] /\ s[k + e] = r[e] /\ g[i] = k + e
      <4>1. u[i] = r[e]
        BY <1>0, <1>2, <1>3, <3>1
      <4>2. s[k + e] = r[e]
        BY <1>2, <3>1
      <4>3. g[i] = k + e
        BY <1>5, <2>2, <3>1
      <4> QED BY <4>1, <4>2, <4>3
    <3>3. ASSUME NEW j \in 1..(i - 1) PROVE g[j] < g[i]
      <4>1. CASE j \in 1..p
        BY <1>5, <3>2, <4>1
      <4>2. CASE j \in (p + 1)..(i - 1)
        <5>1. g[j] = k + (j - p)
          BY <1>5, <4>2
        <5> QED BY <3>1, <3>2, <4>2, <5>1
      <4> QED BY <4>1, <4>2
    <3> QED BY <3>2, <3>3
  <2> QED BY <2>1, <2>2
<1>8. ASSUME NEW m \in 1..(k + q) PROVE s[m] # b <=> \E i \in 1..(p + q) : g[i] = m
  <2>1. CASE m \in 1..k
    <3>1. (\E i \in 1..(p + q) : g[i] = m) <=> (\E i \in 1..p : f[i] = m)
      <4>1. ASSUME NEW i \in 1..(p + q), g[i] = m PROVE i \in 1..p
        <5>1. CASE i \in (p + 1)..(p + q)
          BY <1>5, <2>1, <4>1, <5>1
        <5> QED BY <5>1
      <4>2. \A i \in 1..p : i \in 1..(p + q)
        OBVIOUS
      <4> QED BY <1>5, <4>1, <4>2
    <3> QED BY <1>1, <1>2, <2>1, <3>1
  <2>2. CASE m \in (k + 1)..(k + q)
    <3>1. PICK e \in 1..q : m = k + e
      <4>1. m - k \in 1..q /\ m = k + (m - k)
        BY <2>2
      <4> QED BY <4>1
    <3>2. s[m] # b
      BY <1>2, <3>1
    <3>3. p + e \in 1..(p + q) /\ g[p + e] = m
      BY <1>5, <3>1
    <3> QED BY <3>2, <3>3
  <2> QED BY <2>1, <2>2
<1>9. Len(u) = p + q /\ Len(r) = q
  BY <1>0, <1>2, <1>3
<1>10. Kept(u, s, k + q, b)
  <2>1. g \in [1..Len(u) -> 1..(k + q)]
    BY <1>6, <1>9
  <2>2. \A i \in 1..Len(u) : u[i] = s[g[i]] /\ \A j \in 1..(i - 1) : g[j] < g[i]
    BY <1>7, <1>9
  <2>3. \A m \in 1..(k + q) : s[m] # b <=> \E i \in 1..Len(u) : g[i] = m
    BY <1>8, <1>9
  <2> QED BY <2>1, <2>2, <2>3 DEF Kept
<1> QED BY <1>3, <1>9, <1>10

\* What comes after the first k bytes does not matter.
LEMMA KeptLater ==
  ASSUME NEW t \in Seq(Bytes), NEW s, NEW z, NEW k \in Nat, NEW b, Kept(t, s, k, b),
         \A i \in 1..k : z[i] = s[i]
  PROVE  Kept(t, z, k, b)
<1>1. PICK f \in [1..Len(t) -> 1..k] :
        /\ \A i \in 1..Len(t) : t[i] = s[f[i]] /\ \A j \in 1..(i - 1) : f[j] < f[i]
        /\ \A m \in 1..k : s[m] # b <=> \E i \in 1..Len(t) : f[i] = m
  BY DEF Kept
<1>2. \A i \in 1..Len(t) : t[i] = z[f[i]]
  BY <1>1
<1>3. \A m \in 1..k : z[m] # b <=> \E i \in 1..Len(t) : f[i] = m
  BY <1>1
<1> QED BY <1>1, <1>2, <1>3 DEF Kept

\* Of nothing, nothing is sent.
LEMMA NothingKept == ASSUME NEW s, NEW b PROVE Kept(<<>>, s, 0, b)
<1>1. Len(<<>>) = 0 /\ 1..0 = {}
  OBVIOUS
<1>2. PICK f : f = [i \in 1..0 |-> 0]
  OBVIOUS
<1>3. f \in [1..Len(<<>>) -> 1..0]
  BY <1>1, <1>2
<1>4. \A i \in 1..Len(<<>>) : <<>>[i] = s[f[i]] /\ \A j \in 1..(i - 1) : f[j] < f[i]
  BY <1>1
<1>5. \A m \in 1..0 : s[m] # b <=> \E i \in 1..Len(<<>>) : f[i] = m
  BY <1>1
<1> QED BY <1>3, <1>4, <1>5 DEF Kept

LEMMA TextInit == Init => TextInv
<1> SUFFICES ASSUME Init, NEW a \in Attaches PROVE Follows(att[a], typed[a], sent[a])
  BY DEF TextInv
<1>1. /\ att[a] = [AttachWith("d", NoByte) EXCEPT !.pc = "idle"]
      /\ typed[a] = <<>> /\ sent[a] = <<>>
  BY DEF Init
<1>2. /\ att[a].pc = "idle" /\ att[a].buf = <<>> /\ att[a].detach = "d" /\ att[a].remote = NoByte
  BY <1>1 DEF AttachWith, NoByte
<1>3. Kept(<<>>, <<>>, 0, NoByte)
  BY NothingKept
<1>4. Progress(att[a], typed[a], sent[a], 0, 0)
  BY <1>1, <1>2, <1>3 DEF Progress
<1> QED BY <1>1, <1>2, <1>4 DEF Follows, Bytes, NoByte

\* A loop that only moves on, or another one, has read and sent what it had.
LEMMA TextStays ==
  ASSUME TypeOK, TextInv, NEW a \in Attaches, UNCHANGED <<typed, sent>>,
         NEW pc, att' = [att EXCEPT ![a].pc = pc], pc # "idle",
         att[a].pc \in {"leaving", "off"} => pc \in {"leaving", "off"}
  PROVE  TextInv'
<1> SUFFICES ASSUME NEW b \in Attaches PROVE Follows(att'[b], typed[b], sent[b])
  BY DEF TextInv
<1>1. Follows(att[b], typed[b], sent[b]) /\ att \in [Attaches -> LoopType]
  BY DEF TextInv, TypeOK
<1>2. CASE b # a
  BY <1>1, <1>2
<1>3. CASE b = a
  <2>1. PICK l : l = att'[a]
    OBVIOUS
  <2>2. /\ l.pc = pc /\ l.buf = att[a].buf /\ l.detach = att[a].detach
        /\ l.remote = att[a].remote
    BY <1>1, <2>1 DEF LoopType
  <2>3. PICK n \in Nat : \E k \in 0..n : Progress(att[a], typed[a], sent[a], n, k)
    BY <1>1, <1>3 DEF Follows
  <2>4. PICK k \in 0..n : Progress(att[a], typed[a], sent[a], n, k)
    BY <2>3
  <2>5. Progress(l, typed[a], sent[a], n, k)
    BY <2>2, <2>4 DEF Progress
  <2> QED BY <1>1, <1>3, <2>1, <2>2, <2>5 DEF Follows
<1> QED BY <1>2, <1>3

LEMMA TextRun == ASSUME TypeOK, TextInv, NEW a \in Attaches, Run(a) PROVE TextInv'
<1> SUFFICES ASSUME NEW b \in Attaches PROVE Follows(att'[b], typed[b], sent[b])
  BY DEF TextInv, Run, inputs
<1>1. Follows(att[b], typed[b], sent[b]) /\ att \in [Attaches -> LoopType]
  BY DEF TextInv, TypeOK
<1>2. PICK remote \in {"h", "d", NoByte} : att' = [att EXCEPT ![a] = AttachWith("d", remote)]
  BY DEF Run
<1>3. CASE b # a
  BY <1>1, <1>2, <1>3
<1>4. CASE b = a
  <2>1. att[a].pc = "idle"
    BY DEF Run
  <2>2. typed[a] = <<>> /\ sent[a] = <<>> /\ Len(<<>>) = 0
    BY <1>1, <1>4, <2>1 DEF Follows
  <2>3. PICK l : l = att'[a]
    OBVIOUS
  <2>4. /\ l.pc = "attaching" /\ l.buf = <<>> /\ l.detach = "d" /\ l.detach # l.remote
    BY <1>1, <1>2, <2>3 DEF AttachWith, NoByte
  <2>5. Kept(<<>>, <<>>, 0, l.remote)
    BY NothingKept
  <2>6. Progress(l, <<>>, <<>>, 0, 0)
    BY <2>2, <2>4, <2>5 DEF Progress
  <2>7. Follows(l, <<>>, <<>>)
    BY <2>4, <2>6 DEF Follows, Bytes
  <2> QED BY <1>4, <2>2, <2>3, <2>7
<1> QED BY <1>3, <1>4

LEMMA TextRead == ASSUME TypeOK, TextInv, NEW a \in Attaches, Read(a) PROVE TextInv'
<1>0. PICK n \in 1..MaxChunk : \E c \in [1..n -> Bytes] :
        typed' = [typed EXCEPT ![a] = @ \o c] /\ att' = [att EXCEPT ![a].buf = c]
  BY DEF Read
<1>1. PICK c \in [1..n -> Bytes] :
        typed' = [typed EXCEPT ![a] = @ \o c] /\ att' = [att EXCEPT ![a].buf = c]
  BY <1>0
<1>2. /\ att \in [Attaches -> LoopType] /\ typed \in [Attaches -> Seq(Bytes)]
      /\ sent[a] \in Seq(Bytes)
      /\ att[a].pc = "reading" /\ att[a].buf = <<>> /\ sent' = sent
  BY DEF TypeOK, Read
<1>3. c \in Seq(Bytes)
  <2>1. n \in Nat
    BY StreamAssumption
  <2> QED BY <2>1
<1> SUFFICES ASSUME NEW b \in Attaches PROVE Follows(att'[b], typed'[b], sent[b])
  BY <1>2 DEF TextInv
<1>4. Follows(att[b], typed[b], sent[b])
  BY DEF TextInv
<1>5. CASE b # a
  BY <1>1, <1>2, <1>4, <1>5
<1>6. CASE b = a
  <2>1. PICK l, s : l = att'[a] /\ s = typed[a]
    OBVIOUS
  <2>2. /\ l.pc = "reading" /\ l.buf = c /\ l.detach = att[a].detach /\ l.remote = att[a].remote
        /\ typed'[a] = s \o c
    BY <1>1, <1>2, <2>1 DEF LoopType
  <2>3. PICK m \in Nat : \E k \in 0..m : Progress(att[a], s, sent[a], m, k)
    BY <1>4, <1>6, <2>1 DEF Follows
  <2>4. PICK k \in 0..m : Progress(att[a], s, sent[a], m, k)
    BY <2>3
  <2>5. /\ s \in Seq(Bytes) /\ Len(s) \in Nat /\ Len(c) \in Nat
        /\ Len(s \o c) = Len(s) + Len(c)
        /\ \A i \in 1..Len(s) : (s \o c)[i] = s[i]
        /\ \A i \in 1..Len(c) : (s \o c)[Len(s) + i] = c[i]
    BY <1>2, <1>3, <2>1, LenProperties, ConcatProperties
  <2>6. m = Len(s) /\ k = m
    BY <1>2, <2>4, <2>5 DEF Progress
  <2>7. PICK z : z = s \o c
    OBVIOUS
  <2>8. Kept(sent[a], z, k, l.remote)
    <3>1. Kept(sent[a], s, k, l.remote)
      BY <2>2, <2>4 DEF Progress
    <3>2. \A i \in 1..k : z[i] = s[i]
      BY <2>5, <2>6, <2>7
    <3>3. sent[a] \in Seq(Bytes) /\ k \in Nat
      BY <1>2
    <3> QED BY <3>1, <3>2, <3>3, KeptLater
  <2>9. Progress(l, z, sent[a], m, k)
    <3>1. \A i \in 1..k : z[i] # l.detach
      BY <2>2, <2>4, <2>5, <2>6, <2>7 DEF Progress
    <3>2. m = Len(z) - Len(l.buf) /\ \A i \in 1..Len(l.buf) : l.buf[i] = z[m + i]
      BY <2>2, <2>5, <2>6, <2>7
    <3>3. ~ (k < m)
      BY <2>6
    <3> QED BY <2>8, <3>1, <3>2, <3>3 DEF Progress
  <2>10. Follows(l, z, sent[a])
    BY <1>4, <1>6, <2>2, <2>9 DEF Follows
  <2> QED BY <1>6, <2>1, <2>2, <2>7, <2>10
<1> QED BY <1>5, <1>6

\* How much of the buffer one turn sends: all of it, or what is before the byte it acts on.
Sends(l) == IF Scan(l).at = 0 THEN Len(l.buf) ELSE Scan(l).at - 1

\* A turn of dispatch sends neither key, and acts on the byte it stops at (scan).
LEMMA ScanIs ==
  ASSUME NEW l \in LoopType
  PROVE  /\ Scan(l).at \in 0..Len(l.buf) /\ Sends(l) \in 0..Len(l.buf)
         /\ \A i \in 1..Sends(l) : l.buf[i] # l.detach /\ l.buf[i] # l.remote
         /\ Scan(l).at > 0 => l.buf[Scan(l).at] = IF Scan(l).isDetach THEN l.detach ELSE l.remote
         /\ Scan(l).isDetach \in BOOLEAN
<1>1. l.buf \in Seq(Bytes) /\ Len(l.buf) \in Nat /\ \A i \in 1..Len(l.buf) : l.buf[i] \in Bytes
  BY LenProperties DEF LoopType
<1>2. PICK d : d = IndexByte(l.buf, l.detach)
  OBVIOUS
<1>3. PICK x : x = IndexByte(l.buf, l.remote)
  OBVIOUS
<1>4. PICK h : h = IF l.remote = NoByte THEN 0 ELSE x
  OBVIOUS
<1>5. /\ d \in 0..Len(l.buf)
      /\ d = 0 => \A i \in 1..Len(l.buf) : l.buf[i] # l.detach
      /\ d > 0 => l.buf[d] = l.detach /\ \A i \in 1..(d - 1) : l.buf[i] # l.detach
  BY <1>1, <1>2, FirstIs
<1>6. /\ h \in 0..Len(l.buf)
      /\ h = 0 => \A i \in 1..Len(l.buf) : l.buf[i] # l.remote
      /\ h > 0 => l.buf[h] = l.remote /\ \A i \in 1..(h - 1) : l.buf[i] # l.remote
  <2>1. CASE l.remote = NoByte
    <3>1. \A i \in 1..Len(l.buf) : l.buf[i] # l.remote
      BY <1>1, <2>1 DEF Bytes, NoByte
    <3> QED BY <1>1, <1>4, <2>1, <3>1
  <2>2. CASE l.remote # NoByte
    <3>1. h = x
      BY <1>4, <2>2
    <3> QED BY <1>1, <1>3, <3>1, FirstIs
  <2> QED BY <2>1, <2>2
<1>7. Scan(l) = IF h = 0 \/ (d > 0 /\ d <= h) THEN [at |-> d, isDetach |-> TRUE]
                                             ELSE [at |-> h, isDetach |-> FALSE]
  BY <1>2, <1>3, <1>4 DEF Scan
<1>8. CASE h = 0 \/ (d > 0 /\ d <= h)
  <2>1. Scan(l).at = d /\ Scan(l).isDetach
    BY <1>7, <1>8
  <2>2. Sends(l) = IF d = 0 THEN Len(l.buf) ELSE d - 1
    BY <2>1 DEF Sends
  <2> QED BY <1>1, <1>5, <1>6, <1>8, <2>1, <2>2
<1>9. CASE ~ (h = 0 \/ (d > 0 /\ d <= h))
  <2>1. Scan(l).at = h /\ ~ Scan(l).isDetach /\ Scan(l).isDetach \in BOOLEAN
    BY <1>7, <1>9
  <2>2. Sends(l) = h - 1 /\ h > 0 /\ (d = 0 \/ h < d)
    BY <1>5, <1>6, <1>9, <2>1 DEF Sends
  <2> QED BY <1>1, <1>5, <1>6, <2>1, <2>2
<1> QED BY <1>8, <1>9

\* The first n bytes of a sequence of bytes, and the rest.
LEMMA Cut ==
  ASSUME NEW s \in Seq(Bytes), NEW n \in 0..Len(s)
  PROVE  /\ Len(s) \in Nat
         /\ SubSeq(s, 1, n) \in Seq(Bytes) /\ Len(SubSeq(s, 1, n)) = n
         /\ \A i \in 1..n : SubSeq(s, 1, n)[i] = s[i]
         /\ SubSeq(s, n + 1, Len(s)) \in Seq(Bytes) /\ Len(SubSeq(s, n + 1, Len(s))) = Len(s) - n
         /\ \A i \in 1..(Len(s) - n) : SubSeq(s, n + 1, Len(s))[i] = s[n + i]
<1>1. Len(s) \in Nat /\ \A i \in 1..Len(s) : s[i] \in Bytes
  BY LenProperties
<1>2. \A i \in 1..n : s[i] \in Bytes
  BY <1>1
<1>3. \A i \in (n + 1)..Len(s) : s[i] \in Bytes
  BY <1>1
<1>4. /\ SubSeq(s, 1, n) \in Seq(Bytes) /\ Len(SubSeq(s, 1, n)) = n
      /\ \A i \in 1..n : SubSeq(s, 1, n)[i] = s[i]
  BY <1>1, <1>2, SubSeqProperties
<1>5. /\ SubSeq(s, n + 1, Len(s)) \in Seq(Bytes)
      /\ Len(SubSeq(s, n + 1, Len(s))) = Len(s) - n
      /\ \A i \in 1..(Len(s) - n) : SubSeq(s, n + 1, Len(s))[i] = s[n + i]
  BY <1>1, <1>3, SubSeqProperties
<1> QED BY <1>1, <1>4, <1>5

\* The loop after a turn that sent its run: what is left of the buffer, and where it goes.
Turned(l, m, rest) ==
  /\ m.buf = rest /\ m.detach = l.detach /\ m.remote = l.remote
  /\ m.pc = IF Scan(l).at = 0 THEN "reading" ELSE IF Scan(l).isDetach THEN "leaving" ELSE "firing"

LEMMA FollowsBy ==
  ASSUME NEW m, NEW s, NEW t, NEW n \in Nat, NEW k \in 0..n, Progress(m, s, t, n, k),
         m.detach \in Bytes, m.detach # m.remote, m.pc # "idle"
  PROVE  Follows(m, s, t)
BY DEF Follows

LEMMA TurnKeeps ==
  ASSUME NEW l \in LoopType, l.pc = "reading", NEW m \in LoopType, NEW s \in Seq(Bytes),
         NEW t \in Seq(Bytes), Follows(l, s, t), NEW run, NEW rest,
         run = SubSeq(l.buf, 1, Sends(l)),
         rest = SubSeq(l.buf, (IF Scan(l).at = 0 THEN Len(l.buf) ELSE Scan(l).at) + 1, Len(l.buf)),
         Turned(l, m, rest)
  PROVE  Follows(m, s, t \o run)
<1>1. PICK n \in Nat : \E k \in 0..n : Progress(l, s, t, n, k)
  BY DEF Follows
<1>2. PICK k \in 0..n : Progress(l, s, t, n, k)
  BY <1>1
<1>3. k = n
  BY <1>2 DEF Progress
<1>4. PICK buf \in Seq(Bytes) : buf = l.buf /\ Len(buf) \in Nat /\ Len(s) \in Nat
  BY LenProperties DEF LoopType
<1>5. PICK at \in 0..Len(buf), q \in 0..Len(buf) :
        at = Scan(l).at /\ q = Sends(l) /\ q = IF at = 0 THEN Len(buf) ELSE at - 1
  BY <1>4, ScanIs DEF Sends
<1>6. PICK c \in 0..Len(buf) : c = (IF at = 0 THEN Len(buf) ELSE at) /\ q <= c
  BY <1>4, <1>5
<1>7. /\ run \in Seq(Bytes) /\ Len(run) = q /\ \A i \in 1..q : run[i] = buf[i]
  <2>1. run = SubSeq(buf, 1, q)
    BY <1>4, <1>5
  <2>2. /\ SubSeq(buf, 1, q) \in Seq(Bytes) /\ Len(SubSeq(buf, 1, q)) = q
        /\ \A i \in 1..q : SubSeq(buf, 1, q)[i] = buf[i]
    BY Cut
  <2> QED BY <2>1, <2>2
<1>8. Len(rest) = Len(buf) - c /\ \A i \in 1..(Len(buf) - c) : rest[i] = buf[c + i]
  <2>1. rest = SubSeq(buf, c + 1, Len(buf))
    BY <1>4, <1>5, <1>6
  <2>2. /\ Len(SubSeq(buf, c + 1, Len(buf))) = Len(buf) - c
        /\ \A i \in 1..(Len(buf) - c) : SubSeq(buf, c + 1, Len(buf))[i] = buf[c + i]
    BY Cut
  <2> QED BY <2>1, <2>2
<1>9. /\ n = Len(s) - Len(buf) /\ \A i \in 1..Len(buf) : buf[i] = s[n + i]
      /\ \A i \in 1..n : s[i] # l.detach
      /\ Kept(t, s, n, l.remote)
  BY <1>2, <1>3, <1>4 DEF Progress
<1>10. \A i \in 1..q : buf[i] # l.detach /\ buf[i] # l.remote
  BY <1>4, <1>5, ScanIs
<1>11. Kept(t \o run, s, n + q, l.remote)
  <2>1. \A i \in 1..Len(run) : s[n + i] = run[i] /\ run[i] # l.remote
    <3>1. ASSUME NEW i \in 1..q PROVE s[n + i] = run[i] /\ run[i] # l.remote
      <4>1. i \in 1..Len(buf)
        BY <1>4
      <4> QED BY <1>7, <1>9, <1>10, <4>1
    <3> QED BY <1>7, <3>1
  <2>2. Kept(t \o run, s, n + Len(run), l.remote)
    BY <1>7, <1>9, <2>1, KeptGrows
  <2> QED BY <1>7, <2>2
<1>12. \A i \in 1..(n + q) : s[i] # l.detach
  <2> SUFFICES ASSUME NEW i \in 1..(n + q), i > n PROVE s[i] # l.detach
    BY <1>9
  <2>1. PICK j \in 1..q : i = n + j
    <3>1. i - n \in 1..q /\ i = n + (i - n)
      BY <1>4
    <3> QED BY <3>1
  <2>2. j \in 1..Len(buf)
    BY <1>4
  <2> QED BY <1>9, <1>10, <2>1, <2>2
<1>13. PICK nn \in Nat : nn = n + c
  BY <1>4
<1>14. nn = Len(s) - Len(m.buf) /\ \A i \in 1..Len(m.buf) : m.buf[i] = s[nn + i]
  <2>1. m.buf = rest /\ Len(m.buf) = Len(buf) - c
    BY <1>8 DEF Turned
  <2>2. ASSUME NEW i \in 1..(Len(buf) - c) PROVE rest[i] = s[nn + i]
    <3>1. c + i \in 1..Len(buf) /\ n + (c + i) = nn + i
      BY <1>4, <1>13
    <3> QED BY <1>8, <1>9, <3>1
  <2>3. nn = Len(s) - (Len(buf) - c)
    BY <1>4, <1>9, <1>13
  <2> QED BY <2>1, <2>2, <2>3
<1>15. l.detach \in Bytes /\ l.detach # l.remote /\ m.detach = l.detach /\ m.remote = l.remote
  BY DEF Follows, Turned
<1>16. m.pc # "idle"
  BY DEF Turned
<1>17. t \o run \in Seq(Bytes)
  BY <1>7, ConcatProperties
<1>18. CASE at = 0
  <2>1. nn = n + q
    BY <1>5, <1>6, <1>13, <1>18
  <2>2. Progress(m, s, t \o run, nn, nn)
    <3>1. ~ (nn < nn) /\ (\A i \in 1..nn : s[i] # m.detach) /\ Kept(t \o run, s, nn, m.remote)
      BY <1>11, <1>12, <1>15, <2>1
    <3> QED BY <1>14, <3>1 DEF Progress
  <2>3. nn \in 0..nn /\ m.detach \in Bytes /\ m.detach # m.remote
    BY <1>15
  <2> QED BY <1>16, <2>2, <2>3, FollowsBy
<1>19. CASE at > 0
  <2>1. nn = (n + q) + 1 /\ q + 1 = at /\ s[(n + q) + 1] = buf[at]
    <3>1. q = at - 1 /\ c = at /\ at \in 1..Len(buf)
      BY <1>4, <1>5, <1>6, <1>19
    <3>2. nn = (n + q) + 1 /\ q + 1 = at /\ n + at = (n + q) + 1
      BY <1>4, <1>13, <3>1
    <3> QED BY <1>9, <3>1, <3>2
  <2>2. PICK kk \in 0..nn : kk = n + q /\ kk + 1 = nn /\ kk \in Nat
    BY <1>4, <2>1
  <2>3. buf[at] = IF Scan(l).isDetach THEN l.detach ELSE l.remote
    BY <1>4, <1>5, <1>19, ScanIs
  <2>4. CASE Scan(l).isDetach
    <3>1. m.pc = "leaving"
      BY <1>5, <1>19, <2>4 DEF Turned
    <3>2. s[kk + 1] = m.detach
      BY <1>15, <2>1, <2>2, <2>3, <2>4
    <3>3. Progress(m, s, t \o run, nn, kk)
      BY <1>11, <1>12, <1>14, <1>15, <2>2, <3>1, <3>2 DEF Progress
    <3>4. m.detach \in Bytes /\ m.detach # m.remote
      BY <1>15
    <3> QED BY <1>16, <3>3, <3>4, FollowsBy
  <2>5. CASE ~ Scan(l).isDetach
    <3>1. s[kk + 1] = l.remote
      BY <2>1, <2>2, <2>3, <2>5
    <3>2. Kept(t \o run, s, kk + 1, l.remote)
      BY <1>11, <1>17, <2>2, <3>1, KeptSkips
    <3>3. \A i \in 1..nn : s[i] # m.detach
      <4> SUFFICES ASSUME NEW i \in 1..nn PROVE s[i] # l.detach
        BY <1>15
      <4>1. CASE i = kk + 1
        BY <1>15, <3>1, <4>1
      <4>2. CASE i # kk + 1
        <5>1. i \in 1..(n + q)
          BY <2>2, <4>2
        <5> QED BY <1>12, <5>1
      <4> QED BY <4>1, <4>2
    <3>4. Progress(m, s, t \o run, nn, nn)
      <4>1. ~ (nn < nn) /\ Kept(t \o run, s, nn, m.remote)
        BY <1>15, <2>2, <3>2
      <4> QED BY <1>14, <3>3, <4>1 DEF Progress
    <3>5. nn \in 0..nn /\ m.detach \in Bytes /\ m.detach # m.remote
      BY <1>15
    <3> QED BY <1>16, <3>4, <3>5, FollowsBy
  <2> QED BY <2>4, <2>5
<1> QED BY <1>5, <1>18, <1>19

LEMMA TextDispatch == ASSUME TypeOK, TextInv, NEW a \in Attaches, Dispatch(a) PROVE TextInv'
<1>1. /\ att \in [Attaches -> LoopType] /\ sent \in [Attaches -> Seq(Bytes)]
      /\ typed \in [Attaches -> Seq(Bytes)] /\ att[a].pc = "reading" /\ typed' = typed
  BY DEF TypeOK, Dispatch
<1>2. PICK l \in LoopType : l = att[a]
  BY <1>1
<1>3. l.buf \in Seq(Bytes) /\ Len(l.buf) \in Nat /\ l.buf = SubSeq(l.buf, 1, Len(l.buf))
  <2>1. l.buf \in Seq(Bytes)
    BY DEF LoopType
  <2>2. Len(l.buf) \in Nat /\ Len(l.buf) \in 0..Len(l.buf)
    BY <2>1, LenProperties
  <2>3. /\ SubSeq(l.buf, 1, Len(l.buf)) \in Seq(Bytes)
        /\ Len(SubSeq(l.buf, 1, Len(l.buf))) = Len(l.buf)
        /\ \A i \in 1..Len(l.buf) : SubSeq(l.buf, 1, Len(l.buf))[i] = l.buf[i]
    BY <2>1, <2>2, Cut
  <2> QED BY <2>1, <2>2, <2>3, SeqEqual
<1>4. PICK run : run = SubSeq(l.buf, 1, Sends(l))
  OBVIOUS
<1>5. PICK rest : rest = SubSeq(l.buf, (IF Scan(l).at = 0 THEN Len(l.buf) ELSE Scan(l).at) + 1, Len(l.buf))
  OBVIOUS
<1>6. Scan(l).at \in 0..Len(l.buf) /\ Scan(l).isDetach \in BOOLEAN
  BY ScanIs
<1>7. run = IF Scan(l).at = 0 THEN l.buf ELSE SubSeq(l.buf, 1, Scan(l).at - 1)
  BY <1>3, <1>4 DEF Sends
<1>8. rest \in Seq(Bytes) /\ rest = IF Scan(l).at = 0 THEN <<>> ELSE SubSeq(l.buf, Scan(l).at + 1, Len(l.buf))
  <2>1. PICK c \in 0..Len(l.buf) : c = IF Scan(l).at = 0 THEN Len(l.buf) ELSE Scan(l).at
    BY <1>3, <1>6
  <2>2. rest \in Seq(Bytes) /\ Len(rest) = Len(l.buf) - c
    BY <1>3, <1>5, <2>1, Cut
  <2>3. CASE Scan(l).at = 0
    <3>1. Len(rest) = 0
      BY <1>3, <2>1, <2>2, <2>3
    <3> QED BY <2>2, <2>3, <3>1, EmptySeq
  <2>4. CASE Scan(l).at # 0
    BY <1>5, <2>2, <2>4
  <2> QED BY <2>3, <2>4
<1>9. CASE att' = [att EXCEPT ![a].pc = "leaving"] /\ sent' = sent
  BY <1>1, <1>9, TextStays
<1>10. CASE /\ sent' = [sent EXCEPT ![a] = @ \o run]
            /\ att' = [att EXCEPT ![a].pc = IF Scan(l).at = 0 THEN "reading"
                                           ELSE IF Scan(l).isDetach THEN "leaving" ELSE "firing",
                                  ![a].buf = rest]
  <2> SUFFICES ASSUME NEW b \in Attaches PROVE Follows(att'[b], typed[b], sent'[b])
    BY <1>1 DEF TextInv
  <2>1. Follows(att[b], typed[b], sent[b])
    BY DEF TextInv
  <2>2. CASE b # a
    BY <1>1, <1>10, <2>1, <2>2
  <2>3. CASE b = a
    <3>1. PICK m : m = att'[a]
      OBVIOUS
    <3>2. Turned(l, m, rest) /\ m \in LoopType
      BY <1>1, <1>2, <1>6, <1>8, <1>10, <3>1 DEF Turned, LoopType
    <3>3. sent'[a] = sent[a] \o run /\ sent[a] \in Seq(Bytes) /\ typed[a] \in Seq(Bytes)
      BY <1>1, <1>10
    <3>4. Follows(m, typed[a], sent[a] \o run)
      BY <1>1, <1>2, <1>4, <1>5, <2>1, <2>3, <3>2, <3>3, TurnKeeps
    <3> QED BY <2>3, <3>1, <3>3, <3>4
  <2> QED BY <2>2, <2>3
<1>11. \/ att' = [att EXCEPT ![a].pc = "leaving"] /\ sent' = sent
       \/ /\ sent' = [sent EXCEPT ![a] = @ \o run]
          /\ IF Scan(l).at > 0 /\ ~Scan(l).isDetach
             THEN att' = [att EXCEPT ![a].pc = "firing", ![a].buf = rest]
             ELSE att' = [att EXCEPT ![a].pc = IF Scan(l).at > 0 THEN "leaving" ELSE @, ![a].buf = rest]
  BY <1>2, <1>7, <1>8 DEF Dispatch
<1>12. CASE /\ sent' = [sent EXCEPT ![a] = @ \o run]
            /\ IF Scan(l).at > 0 /\ ~Scan(l).isDetach
               THEN att' = [att EXCEPT ![a].pc = "firing", ![a].buf = rest]
               ELSE att' = [att EXCEPT ![a].pc = IF Scan(l).at > 0 THEN "leaving" ELSE @, ![a].buf = rest]
  <2>1. CASE Scan(l).at = 0
    <3>1. att' = [att EXCEPT ![a].pc = "reading", ![a].buf = rest]
      <4>1. ~ (Scan(l).at > 0)
        BY <2>1
      <4>2. att' = [att EXCEPT ![a].pc = IF Scan(l).at > 0 THEN "leaving" ELSE att[a].pc,
                               ![a].buf = rest]
        BY <1>12, <4>1
      <4> QED BY <1>1, <4>1, <4>2
    <3> QED BY <1>10, <1>12, <2>1, <3>1
  <2>2. CASE Scan(l).at > 0
    <3>1. CASE Scan(l).isDetach
      BY <1>10, <1>12, <2>2, <3>1
    <3>2. CASE ~ Scan(l).isDetach
      BY <1>10, <1>12, <2>2, <3>2
    <3> QED BY <3>1, <3>2
  <2> QED BY <1>3, <1>6, <2>1, <2>2
<1> QED BY <1>9, <1>11, <1>12

LEMMA TextStep == IInv /\ TextInv /\ [Next]_vars => TextInv'
<1> SUFFICES ASSUME IInv, TextInv, [Next]_vars PROVE TextInv'
  OBVIOUS
<1>0. TypeOK /\ att \in [Attaches -> LoopType]
  BY DEF IInv, TypeOK
<1>1. CASE UNCHANGED <<att, typed, sent>>
  BY <1>1 DEF TextInv
<1>2. ASSUME NEW a \in Attaches,
             Replay(a) \/ GoLive(a) \/ UnsetLive(a) \/ ReadEnds(a) \/ CallTimesOut(a) \/ CallReturns(a)
      PROVE  TextInv'
  <2>1. UNCHANGED <<typed, sent>>
    BY <1>2 DEF Replay, GoLive, UnsetLive, ReadEnds, CallTimesOut, CallReturns, inputs
  <2>2. \E pc : /\ att' = [att EXCEPT ![a].pc = pc] /\ pc # "idle"
                /\ att[a].pc \in {"leaving", "off"} => pc \in {"leaving", "off"}
    BY <1>2 DEF Replay, GoLive, UnsetLive, ReadEnds, CallTimesOut, CallReturns, Returns
  <2> QED BY <1>0, <2>1, <2>2, TextStays
<1>3. ASSUME NEW a \in Attaches, Run(a) \/ Read(a) \/ Dispatch(a) PROVE TextInv'
  BY <1>0, <1>3, TextRun, TextRead, TextDispatch
<1>4. ASSUME NEW a \in Attaches, CallReturnsLate(a) PROVE TextInv'
  BY <1>1, <1>4 DEF CallReturnsLate
<1>5. CASE Record \/ Mirror \/ UNCHANGED vars
  BY <1>1, <1>5 DEF Record, Mirror, inputs, vars
<1> QED BY <1>2, <1>3, <1>4, <1>5 DEF Next, Loop

\* dispatch: whatever reads the typed bytes arrived in, and whatever the callbacks of the
\* hotkey do, the remote is sent what was typed before the detach key but the hotkeys.
THEOREM TextIsSent == Spec => []RemoteGetsTheText
<1>1. Init => TextInv
  BY TextInit
<1>2. IInv /\ TextInv /\ [Next]_vars => TextInv'
  BY TextStep
<1>3. IInv /\ TextInv => RemoteGetsTheText
  <2> SUFFICES ASSUME IInv, TextInv, NEW a \in Attaches
               PROVE  Without(sent[a], Before(Consumed(a), att[a].detach), att[a].remote)
    BY DEF RemoteGetsTheText
  <2>1. /\ att[a] \in LoopType /\ typed[a] \in Seq(Bytes) /\ sent[a] \in Seq(Bytes)
        /\ Follows(att[a], typed[a], sent[a])
    BY DEF IInv, TypeOK, TextInv
  <2>2. PICK l, s, t : l = att[a] /\ s = typed[a] /\ t = sent[a]
    OBVIOUS
  <2>3. PICK n \in Nat : \E k \in 0..n : Progress(l, s, t, n, k)
    BY <2>1, <2>2 DEF Follows
  <2>4. PICK k \in 0..n : Progress(l, s, t, n, k)
    BY <2>3
  <2>5. Len(s) \in Nat /\ Len(l.buf) \in Nat
    BY <2>1, <2>2, LenProperties DEF LoopType
  <2>6. n \in 0..Len(s) /\ n = Len(s) - Len(l.buf)
    BY <2>4, <2>5 DEF Progress
  <2>7. PICK c \in Seq(Bytes) : c = SubSeq(s, 1, n) /\ Len(c) = n /\ \A i \in 1..n : c[i] = s[i]
    <3>1. s \in Seq(Bytes)
      BY <2>1, <2>2
    <3>2. /\ SubSeq(s, 1, n) \in Seq(Bytes) /\ Len(SubSeq(s, 1, n)) = n
          /\ \A i \in 1..n : SubSeq(s, 1, n)[i] = s[i]
      BY <2>6, <3>1, Cut
    <3> QED BY <3>2
  <2>8. PICK x : x = IndexByte(c, l.detach)
    OBVIOUS
  <2>9. /\ x \in 0..n
        /\ x = 0 => \A i \in 1..n : c[i] # l.detach
        /\ x > 0 => c[x] = l.detach /\ \A i \in 1..(x - 1) : c[i] # l.detach
    <3>1. /\ x \in 0..Len(c)
          /\ x = 0 => \A i \in 1..Len(c) : c[i] # l.detach
          /\ x > 0 => c[x] = l.detach /\ \A i \in 1..(x - 1) : c[i] # l.detach
      BY <2>8, FirstIs
    <3> QED BY <2>7, <3>1
  <2>10. PICK b \in Seq(Bytes) : b = Before(c, l.detach) /\ Len(b) = k /\ \A i \in 1..k : b[i] = s[i]
    <3>1. (\A i \in 1..k : s[i] # l.detach) /\ (k < n => s[k + 1] = l.detach)
      BY <2>4 DEF Progress
    <3>2. CASE x = 0
      <4>1. k = n
        <5>1. k < n => k + 1 \in 1..n
          OBVIOUS
        <5> QED BY <2>7, <2>9, <3>1, <3>2, <5>1
      <4>2. Before(c, l.detach) = c
        BY <2>8, <3>2 DEF Before
      <4> QED BY <2>7, <4>1, <4>2
    <3>3. CASE x > 0
      <4>1. x = k + 1
        <5>1. x \in 1..n
          BY <2>9, <3>3
        <5>2. ~ (x <= k)
          BY <2>7, <2>9, <3>1, <3>3, <5>1
        <5>3. ~ (k + 1 <= x - 1)
          <6>1. k + 1 <= x - 1 => k < n /\ k + 1 \in 1..n /\ k + 1 \in 1..(x - 1)
            BY <5>1
          <6> QED BY <2>7, <2>9, <3>1, <3>3, <6>1
        <5> QED BY <5>1, <5>2, <5>3
      <4>2. Before(c, l.detach) = SubSeq(c, 1, k)
        BY <2>8, <3>3, <4>1 DEF Before
      <4>3. k \in 0..Len(c)
        BY <2>7
      <4>4. /\ SubSeq(c, 1, k) \in Seq(Bytes) /\ Len(SubSeq(c, 1, k)) = k
            /\ \A i \in 1..k : SubSeq(c, 1, k)[i] = c[i]
        BY <4>3, Cut
      <4> QED BY <2>7, <4>2, <4>4
    <3> QED BY <2>9, <3>2, <3>3
  <2>11. Kept(t, b, k, l.remote)
    <3>1. Kept(t, s, k, l.remote)
      BY <2>4 DEF Progress
    <3>2. t \in Seq(Bytes) /\ k \in Nat /\ \A i \in 1..k : b[i] = s[i]
      BY <2>1, <2>2, <2>10
    <3> QED BY <3>1, <3>2, KeptLater
  <2>12. Without(t, b, l.remote)
    BY <2>10, <2>11 DEF Kept, Without
  <2>13. b = Before(Consumed(a), att[a].detach)
    BY <2>2, <2>6, <2>7, <2>10 DEF Consumed
  <2> QED BY <2>2, <2>12, <2>13
<1> QED BY <1>1, <1>2, <1>3, InitInv, StepInv, PTL DEF Spec

-----------------------------------------------------------------------------
(* Forwards (F, over variables of its own): its types, that no connection  *)
(* or listener is open that the user cannot see, and that an end is told   *)
(* once, of a forward that is gone.                                        *)

CONSTANTS Fwds, Conns
VARIABLES fwd, conn, pipes, ui, told

F == INSTANCE Forwards

Forward ==
  [pc : {"none", "connected", "failed", "listening", "running"},
   client : BOOLEAN, ln : BOOLEAN, alive : BOOLEAN, listed : BOOLEAN,
   broken : BOOLEAN, asked : BOOLEAN,
   once : F!Enders \cup {F!Nobody}, at : {F!Nobody, "tear", "remove", "notify", "over"},
   reason : {F!Failure, F!Clean}, ended : SUBSET F!Enders]

UiLoop == [pc : {"idle", "closing", "quitting", "attached", "gone"},
         on : Fwds \cup {CHOOSE f \in Fwds : TRUE}, todo : SUBSET Fwds]

ForwardsTyped ==
  /\ fwd \in [Fwds -> Forward]
  /\ ui \in UiLoop
  /\ told \in [Fwds -> SUBSET {F!Failure, F!Clean}]

\* How far the body of end is says what is still open, still listed and told.
\* StartForward owns what it opened until the forward is registered; from then on
\* the entry stays until the one goroutine in end has closed both.
Stages(r) ==
  /\ r.pc \in {"none", "failed"} => ~r.client
  /\ r.pc \in {"none", "connected", "failed"} => ~r.ln
  /\ r.pc # "running" => r.at = F!Nobody /\ ~r.listed
  /\ r.pc = "running" /\ r.at \in {F!Nobody, "tear", "remove"} => r.listed
  /\ r.at \in {"remove", "notify", "over"} => ~r.client /\ ~r.ln
  /\ r.at \in {"notify", "over"} => ~r.listed
  /\ r.at = F!Nobody <=> r.once = F!Nobody

Reported(r, reasons) ==
  IF r.at = "over" THEN reasons \subseteq {r.reason} ELSE reasons = {}

ForwardsInv == ForwardsTyped /\ \A f \in Fwds : Stages(fwd[f]) /\ Reported(fwd[f], told[f])

\* A step that replaces one forward's record with one that is as it should be,
\* and reports nothing, keeps the invariant.
LEMMA OneForward ==
  ASSUME ForwardsInv, NEW f \in Fwds, NEW r \in Forward, F!Update(f, r), Stages(r),
         Reported(r, told[f]), UNCHANGED told,
         ui' \in UiLoop
  PROVE  ForwardsInv'
<1>1. ForwardsTyped'
  BY DEF ForwardsInv, ForwardsTyped, F!Update
<1>2. fwd'[f] = r /\ \A g \in Fwds \ {f} : fwd'[g] = fwd[g]
  BY DEF ForwardsInv, ForwardsTyped, F!Update
<1> QED BY <1>1, <1>2 DEF ForwardsInv

LEMMA ForwardsInit == F!Init => ForwardsInv
BY DEF F!Init, ForwardsInv, ForwardsTyped, Forward, F!NewForward, Stages, Reported, F!Enders, F!Nobody, F!Failure, F!Clean, UiLoop

LEMMA ForwardsStep == ForwardsInv /\ [F!Next]_F!vars => ForwardsInv'
<1> SUFFICES ASSUME ForwardsInv, [F!Next]_F!vars PROVE ForwardsInv'
  OBVIOUS
<1>a. ASSUME NEW f \in Fwds
      PROVE  /\ fwd[f] \in Forward /\ Stages(fwd[f]) /\ Reported(fwd[f], told[f])
             /\ ui \in UiLoop
  BY DEF ForwardsInv, ForwardsTyped
<1>0. CASE UNCHANGED F!vars
  BY <1>0 DEF F!vars, ForwardsInv, ForwardsTyped
<1>b. CASE UNCHANGED <<fwd, told>> /\ ui' \in UiLoop
  BY <1>b DEF ForwardsInv, ForwardsTyped
<1>1. ASSUME NEW f \in Fwds, F!Connected(f) \/ F!ForwardListen(f) \/ F!Start(f) \/ F!Breaks(f) PROVE ForwardsInv'
  <2>1. PICK r : /\ F!Update(f, r) /\ UNCHANGED <<ui, told>>
                 /\ r \in Forward /\ Stages(r) /\ r.at = fwd[f].at /\ r.reason = fwd[f].reason
    <3>1. CASE F!Connected(f)
      <4> DEFINE r == [fwd[f] EXCEPT !.pc = "connected", !.client = TRUE]
      <4>1. r \in Forward /\ Stages(r) /\ r.at = fwd[f].at /\ r.reason = fwd[f].reason
        BY <3>1, <1>a DEF F!Connected, Forward, Stages, F!Nobody
      <4> QED BY <3>1, <4>1 DEF F!Connected
    <3>2. CASE F!ForwardListen(f)
      <4> DEFINE r1 == [fwd[f] EXCEPT !.pc = "listening", !.ln = TRUE]
                 r2 == F!ListenFails(f)
      <4>1. \A r \in {r1, r2} : r \in Forward /\ r.at = fwd[f].at /\ r.reason = fwd[f].reason
        BY <3>2, <1>a DEF F!ForwardListen, F!ListenFails, Forward
      <4>2. Stages(r1)
        BY <3>2, <1>a DEF F!ForwardListen, Forward, Stages, F!Nobody
      <4>3. Stages(r2)
        <5>1. /\ r2.pc = "failed" /\ r2.at = F!Nobody /\ r2.once = F!Nobody
              /\ ~r2.client /\ ~r2.ln /\ ~r2.listed
          BY <3>2, <1>a DEF F!ForwardListen, F!ListenFails, Forward, Stages
        <5> QED BY <5>1 DEF Stages, F!Nobody
      <4> QED BY <3>2, <4>1, <4>2, <4>3 DEF F!ForwardListen
    <3>3. CASE F!Start(f)
      <4>1. /\ F!Registered(f) \in Forward /\ Stages(F!Registered(f))
            /\ F!Registered(f).at = fwd[f].at /\ F!Registered(f).reason = fwd[f].reason
        BY <3>3, <1>a DEF F!Start, F!Registered, Forward, Stages, F!Nobody
      <4> QED BY <3>3, <4>1 DEF F!Start
    <3>4. CASE F!Breaks(f)
      <4> DEFINE r1 == [fwd[f] EXCEPT !.client = FALSE, !.broken = TRUE]
                 r2 == [fwd[f] EXCEPT !.ln = FALSE, !.broken = TRUE]
      <4>1. \A r \in {r1, r2} : r \in Forward /\ r.at = fwd[f].at /\ r.reason = fwd[f].reason
        BY <1>a DEF Forward
      <4>2. Stages(r1) /\ Stages(r2)
        BY <1>a DEF Forward, Stages
      <4> QED BY <3>4, <4>1, <4>2 DEF F!Breaks
    <3> QED BY <1>1, <3>1, <3>2, <3>3, <3>4
  <2>2. Reported(r, told[f])
    BY <2>1, <1>a DEF Reported
  <2> QED BY <2>1, <2>2, <1>a, OneForward
<1>2. ASSUME NEW f \in Fwds, NEW e \in F!Enders, F!EnterEnd(f, e) PROVE ForwardsInv'
  <2> DEFINE r == [fwd[f] EXCEPT !.once = e, !.reason = F!Brings(e), !.alive = FALSE, !.at = "tear"]
  <2>1. fwd[f].at = F!Nobody /\ fwd[f].pc = "running"
    BY <1>2, <1>a DEF F!EnterEnd, F!OnceFree, F!Calls, Stages
  <2>a. e # F!Nobody /\ F!Brings(e) \in {F!Failure, F!Clean} /\ fwd[f].listed
    BY <2>1, <1>a DEF F!Enders, F!Nobody, F!Brings, Stages
  <2>b. /\ r \in Forward /\ r.at = "tear" /\ r.once = e /\ r.pc = "running" /\ r.listed
    BY <2>1, <2>a, <1>a DEF Forward
  <2>2. r \in Forward /\ Stages(r) /\ r.at = "tear"
    BY <2>a, <2>b DEF Stages, F!Nobody
  <2>3. Reported(r, told[f])
    <3>1. told[f] = {}
      BY <2>1, <1>a DEF Reported, F!Nobody
    <3> QED BY <2>2, <3>1 DEF Reported
  <2> QED BY <1>2, <1>a, <2>2, <2>3, OneForward DEF F!EnterEnd
<1>3. ASSUME NEW f \in Fwds, F!TearDown(f) PROVE ForwardsInv'
  <2> DEFINE r == [fwd[f] EXCEPT !.ln = FALSE, !.client = FALSE, !.at = "remove"]
  <2>1. r \in Forward /\ Stages(r) /\ Reported(r, told[f])
    BY <1>3, <1>a DEF F!TearDown, Forward, Stages, Reported, F!Nobody
  <2> QED BY <1>3, <1>a, <2>1, OneForward DEF F!TearDown
<1>4. ASSUME NEW f \in Fwds, F!RemoveForward(f) PROVE ForwardsInv'
  <2>1. F!Unlisted(f) \in Forward /\ Stages(F!Unlisted(f)) /\ Reported(F!Unlisted(f), told[f])
    BY <1>4, <1>a DEF F!RemoveForward, F!Unlisted, Forward, Stages, Reported, F!Nobody
  <2> QED BY <1>4, <1>a, <2>1, OneForward DEF F!RemoveForward
<1>5. ASSUME NEW f \in Fwds, F!Notify(f) PROVE ForwardsInv'
  <2> DEFINE r == [fwd[f] EXCEPT !.at = "over"]
  <2>1. r \in Forward /\ Stages(r) /\ r.at = "over" /\ r.reason = fwd[f].reason
    BY <1>5, <1>a DEF F!Notify, Forward, Stages, F!Nobody
  <2>2. fwd[f].reason \in {F!Failure, F!Clean} /\ told[f] = {}
    BY <1>5, <1>a DEF F!Notify, Forward, Reported
  <2>3. /\ fwd' \in [Fwds -> Forward] /\ fwd'[f] = r /\ \A g \in Fwds \ {f} : fwd'[g] = fwd[g]
    BY <1>5, <2>1 DEF F!Notify, F!Update, ForwardsInv, ForwardsTyped
  <2>4. /\ told' \in [Fwds -> SUBSET {F!Failure, F!Clean}]
        /\ told'[f] \subseteq {fwd[f].reason} /\ \A g \in Fwds \ {f} : told'[g] = told[g]
    BY <1>5, <2>2 DEF F!Notify, ForwardsInv, ForwardsTyped
  <2>5. Reported(fwd'[f], told'[f])
    BY <2>1, <2>3, <2>4 DEF Reported
  <2> QED BY <1>5, <2>1, <2>3, <2>4, <2>5 DEF F!Notify, ForwardsInv, ForwardsTyped
<1>6. ASSUME NEW f \in Fwds, NEW e \in F!Enders, F!LeaveEnd(f, e) PROVE ForwardsInv'
  <2> DEFINE r == [fwd[f] EXCEPT !.ended = @ \union {e}]
  <2>1. r \in Forward /\ Stages(r) /\ Reported(r, told[f])
    BY <1>6, <1>a DEF Forward, Stages, Reported
  <2>2. ui' \in UiLoop
    BY <1>6, <1>a DEF F!LeaveEnd, UiLoop
  <2> QED BY <1>6, <2>1, <2>2, OneForward DEF F!LeaveEnd
<1>7. ASSUME NEW f \in Fwds, NEW c \in Conns, F!Accept(f, c) \/ F!Handle(f, c) \/ F!EndOfStream(f, c)
      PROVE  ForwardsInv'
  BY <1>7, <1>a, <1>b DEF F!Accept, F!Handle, F!EndOfStream
<1>c. ASSUME NEW f \in Fwds, F!Update(f, [fwd[f] EXCEPT !.asked = TRUE]), UNCHANGED told,
             ui' \in UiLoop
      PROVE  ForwardsInv'
  <2> DEFINE r == [fwd[f] EXCEPT !.asked = TRUE]
  <2>1. r \in Forward /\ Stages(r) /\ Reported(r, told[f])
    BY <1>a DEF Forward, Stages, Reported
  <2> QED BY <1>c, <2>1, OneForward
<1>8. CASE F!ForwardsKey
  <2>1. PICK f \in F!Listed :
          /\ ui' = [pc |-> "closing", on |-> f, todo |-> {}]
          /\ F!Update(f, [fwd[f] EXCEPT !.asked = TRUE]) /\ UNCHANGED told
    BY <1>8 DEF F!ForwardsKey
  <2>2. f \in Fwds /\ ui' \in UiLoop
    BY <2>1 DEF F!Listed, UiLoop
  <2> QED BY <2>1, <2>2, <1>c
<1>9. CASE F!DoQuit \/ F!Attach \/ F!Detached
  <2>1. ui' \in UiLoop
    BY <1>9 DEF F!DoQuit, F!Attach, F!Detached, UiLoop, F!Listed, ForwardsInv, ForwardsTyped
  <2> QED BY <1>9, <2>1, <1>b DEF F!DoQuit, F!Attach, F!Detached
<1>10. CASE F!CloseAll
  <2>1. CASE ui.todo = {}
    <3>1. ui' \in UiLoop
      BY <1>10, <2>1 DEF F!CloseAll, UiLoop, ForwardsInv, ForwardsTyped
    <3> QED BY <1>10, <2>1, <3>1, <1>b DEF F!CloseAll
  <2>2. CASE ui.todo # {}
    <3>1. PICK f \in ui.todo :
            /\ ui' = [pc |-> "closing", on |-> f, todo |-> ui.todo \ {f}]
            /\ F!Update(f, [fwd[f] EXCEPT !.asked = TRUE]) /\ UNCHANGED told
      BY <1>10, <2>2 DEF F!CloseAll
    <3>2. f \in Fwds /\ ui' \in UiLoop
      BY <3>1 DEF ForwardsInv, ForwardsTyped, UiLoop
    <3> QED BY <3>1, <3>2, <1>c
  <2> QED BY <2>1, <2>2
<1> QED
  BY <1>0, <1>1, <1>2, <1>3, <1>4, <1>5, <1>6, <1>7, <1>8, <1>9, <1>10 DEF F!Next, F!End

\* Every reachable state satisfies the inductive invariant: what every stage of a start,
\* of an accept loop and of an end says of the resources of its forward.
THEOREM ForwardsInductive == F!Spec => []ForwardsInv
<1> QED BY ForwardsInit, ForwardsStep, PTL DEF F!Spec

\* Every record of a forward and of the event loop keeps its type.
THEOREM ForwardsTypeCorrect == F!Spec => []ForwardsTyped
<1>1. ForwardsInv => ForwardsTyped
  BY DEF ForwardsInv
<1> QED BY <1>1, ForwardsInductive, PTL

\* However many goroutines reach end and whichever step of StartForward fails, an
\* open SSH connection or listener is still being started or can be seen and closed.
THEOREM NoneLeaks == F!Spec => []F!NothingLeaks
<1>1. ForwardsInv => F!NothingLeaks
  <2> SUFFICES ASSUME ForwardsInv, NEW f \in Fwds, fwd[f].client \/ fwd[f].ln
               PROVE  fwd[f].pc \in {"connected", "listening"} \/ fwd[f].listed
    BY DEF F!NothingLeaks
  <2>1. fwd[f] \in Forward /\ Stages(fwd[f])
    BY DEF ForwardsInv, ForwardsTyped
  <2> QED BY <2>1 DEF Forward, Stages
<1> QED BY <1>1, ForwardsInductive, PTL

\* The event loop hears of an end once, with one reason, and only when the forward has
\* left the list with its connection and its listener closed (end).
ToldOfTheGone ==
  \A f \in Fwds : /\ \A r, s \in told[f] : r = s
                  /\ told[f] # {} => ~fwd[f].listed /\ ~fwd[f].client /\ ~fwd[f].ln
THEOREM ToldOnce == F!Spec => []ToldOfTheGone
<1>1. ForwardsInv => ToldOfTheGone
  <2> SUFFICES ASSUME ForwardsInv, NEW f \in Fwds
               PROVE  /\ \A r, s \in told[f] : r = s
                      /\ told[f] # {} => ~fwd[f].listed /\ ~fwd[f].client /\ ~fwd[f].ln
    BY DEF ToldOfTheGone
  <2>1. fwd[f] \in Forward /\ Stages(fwd[f]) /\ Reported(fwd[f], told[f])
    BY DEF ForwardsInv, ForwardsTyped
  <2> QED BY <2>1 DEF Stages, Reported
<1> QED BY <1>1, ForwardsInductive, PTL
=============================================================================
