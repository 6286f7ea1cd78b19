------------------------- MODULE SessionHost_proofs -------------------------
(***************************************************************************)
(* Proofs about SessionHost: the output of a session has one reader, and   *)
(* the right one, whatever the order of attaches, detaches, drops and      *)
(* deaths; and a reply handed to the auth chain answers the prompt that    *)
(* is outstanding.                                                         *)
(***************************************************************************)
EXTENDS SessionHost, SequenceTheorems, TLAPS

-----------------------------------------------------------------------------
(* Types *)

Reply == [n : 0..MaxPrompts, ok : BOOLEAN]
Result == [id : Execs, got : Execs \union {None}]

\* What travels to the host, and what travels back.
UpFrame == [kind : {"reply"}, arg : Reply] \union [kind : {"exec", "cancel"}, arg : Execs]
           \union [kind : {"dial", "info", "attach", "detach", "kill"}, arg : {0}]
DownFrame == [kind : {"execEnd"}, arg : Result] \union [kind : {"infook"}, arg : BOOLEAN]
             \union [kind : {"prompt"}, arg : 1..MaxPrompts]
             \union [kind : {"dialok", "error", "ended"}, arg : {0}]

HostTypes ==
  /\ proto \in 1..3 /\ hp \in {"serve", "ended", "done"} /\ sock \in BOOLEAN
  /\ shell \in {"none", "live", "over"} /\ sess \in BOOLEAN
  /\ dialConn \in {Spawner, None}
  /\ dialPc \in {"none", "start", "auth", "asking", "made", "kept", "failed", "over"}
  /\ asked \in 0..MaxPrompts /\ replies \in Reply \union {None}
  /\ conns \subseteq Clients /\ closed \subseteq Clients
  /\ attached \in Clients \union {None} /\ live \in Clients \union {None}
  /\ hpc \in [Clients -> {"read", "golive", "unset", "dropped", "droppedEarly", "droppedLast", "gone"}]
  /\ execs \in [Execs -> {"none", "spawned", "running", "stopping", "over"}]
RunTypes ==
  /\ pc \in [Clients -> {"off", "spawned", "dialing", "probing", "dialled", "listed", "attached",
                         "killing", "failed", "gone"}]
  /\ open \subseteq Clients /\ served \subseteq Clients
  /\ alive \subseteq Clients /\ ended \subseteq Clients /\ pool \subseteq Clients
  /\ prompt \in 0..MaxPrompts /\ uses \in 0..MaxUses
  /\ calls \in [Execs -> [by : Clients \union {None}, got : Execs \union {None},
                          st : {"none", "waiting", "answered", "returned", "lost", "canceled"}]]
WireTypes ==
  /\ up \in [Clients -> Seq(UpFrame)]
  /\ down \in [Clients -> Seq(DownFrame)] /\ ctl \in [Clients -> Seq(DownFrame)]
TypeOK == HostTypes /\ RunTypes /\ WireTypes

-----------------------------------------------------------------------------
(* The stream *)

\* In the first n frames of s every attach is undone by a detach; so is the attach
\* that came before them, if the client is attached.
Settled(s, on, n) ==
  \A i \in 0..n : (IF i = 0 THEN on ELSE s[i].kind = "attach") =>
    \E k \in i + 1..n : s[k].kind = "detach"
\* No attach is on its way behind another that nothing undoes.
Alternates(s, on) == \A j \in 1..Len(s) : s[j].kind = "attach" => Settled(s, on, j - 1)

\* The protocol of a run: it attaches again only after it has detached.
Turns(c) ==
  /\ Alternates(up[c], attached = c)
  /\ c \in open \intersect served /\ pc[c] \notin {"attached", "gone"} =>
       Settled(up[c], attached = c, Len(up[c]))

\* The client that streams: its read loop is attaching it or reading; nobody is
\* attached without a session, and no writer is installed before it.
Streaming ==
  /\ attached # None \/ live # None => sess
  /\ attached # None => attached \in conns /\ hpc[attached] \in {"read", "golive"}
  /\ \A c \in Clients : hpc[c] = "golive" => attached = c /\ live # c
  /\ \A c \in conns \union open \union served : pc[c] \notin {"off", "spawned"}

StreamInv == Streaming /\ OneStream /\ \A c \in Clients : Turns(c)

-----------------------------------------------------------------------------
(* The prompts *)

Value(f) == IF f.kind = "reply" THEN f.arg.n ELSE f.arg
Has(s, kind) == \E i \in 1..Len(s) : s[i].kind = kind
\* At most one frame of the kind is in s, and it carries n.
OnlyOne(s, kind, n) == \A i, j \in 1..Len(s) :
  s[i].kind = kind /\ s[j].kind = kind => i = j /\ Value(s[i]) = n

Prompted == Has(down[Spawner], "prompt")
Replied == Has(up[Spawner], "reply")

\* A prompt is in one place: on its way to the spawner, on its screen, answered on the
\* way back, or in the buffer; and nowhere while the auth chain goes on without one.
OnePrompt ==
  /\ OnlyOne(down[Spawner], "prompt", asked) /\ OnlyOne(up[Spawner], "reply", asked)
  /\ prompt # 0 => prompt = asked
  /\ replies # None => replies.n = asked
  /\ \A c \in Adopters : ~Has(down[c], "prompt") /\ ~Has(up[c], "reply")
Unasked == {"none", "start", "auth", "made", "kept"}
OnePlace ==
  /\ dialPc \in Unasked =>
       ~Prompted /\ ~Replied /\ prompt = 0 /\ replies = None
  /\ replies # None => ~Prompted /\ ~Replied /\ prompt = 0
  /\ Replied => ~Prompted /\ prompt = 0
  /\ prompt # 0 => ~Prompted
\* The host is asked to dial once, by the first frame of the spawner.
OneDial ==
  /\ \A c \in Clients : \A i \in 1..Len(up[c]) :
       up[c][i].kind = "dial" => i = 1 /\ c = Spawner /\ dialPc = "none"
  /\ pc[Spawner] \in {"off", "spawned"} /\ hp # "done" => dialPc = "none"

PromptInv == OnePrompt /\ OnePlace /\ OneDial

IInv == TypeOK /\ StreamInv /\ PromptInv

-----------------------------------------------------------------------------
(* Frames on a wire *)

Grows(t, s, f) == Len(t) = Len(s) + 1 /\ t[Len(s) + 1] = f /\ \A i \in 1..Len(s) : t[i] = s[i]
Shrinks(t, s) == Len(s) = Len(t) + 1 /\ \A i \in 1..Len(t) : t[i] = s[i + 1]

LEMMA AppendGrows ==
  ASSUME NEW S, NEW s \in Seq(S), NEW f \in S
  PROVE  Append(s, f) \in Seq(S) /\ Len(s) \in Nat /\ Grows(Append(s, f), s, f)
BY AppendProperties, LenProperties DEF Grows

LEMMA TailShrinks ==
  ASSUME NEW S, NEW s \in Seq(S), s # <<>>
  PROVE  /\ Tail(s) \in Seq(S) /\ Len(Tail(s)) \in Nat /\ Shrinks(Tail(s), s)
         /\ Head(s) \in S /\ Head(s) = s[1] /\ 1 \in 1..Len(s)
<1>1. PICK n \in Nat : n = Len(s) /\ n # 0
  BY EmptySeq
<1>2. PICK t \in Seq(S) : t = Tail(s) /\ Len(t) = n - 1 /\ \A i \in 1..Len(t) : t[i] = s[i + 1]
  BY <1>1, HeadTailProperties
<1>3. Len(t) \in Nat /\ n = Len(t) + 1
  BY <1>1, <1>2
<1>4. Head(s) \in S
  BY HeadTailProperties
<1>5. Head(s) = s[1]
  OBVIOUS
<1> QED BY <1>1, <1>2, <1>3, <1>4, <1>5 DEF Shrinks

LEMMA SettledGrows ==
  ASSUME NEW s, NEW t, NEW f, NEW on \in BOOLEAN, Len(s) \in Nat, Grows(t, s, f)
  PROVE  /\ \A n \in 0..Len(s) : Settled(s, on, n) => Settled(t, on, n)
         /\ Settled(s, on, Len(s)) /\ f.kind # "attach" => Settled(t, on, Len(t))
         /\ f.kind = "detach" => Settled(t, on, Len(t))
         /\ Alternates(s, on) /\ (f.kind = "attach" => Settled(s, on, Len(s))) => Alternates(t, on)
<1>1. PICK l \in Nat : l = Len(s) /\ Len(t) = l + 1 /\ t[l + 1] = f /\ \A i \in 1..l : t[i] = s[i]
  BY DEF Grows
<1>2. ASSUME NEW n \in 0..l, Settled(s, on, n) PROVE Settled(t, on, n)
  <2> SUFFICES ASSUME NEW i \in 0..n, IF i = 0 THEN on ELSE t[i].kind = "attach"
               PROVE  \E k \in i + 1..n : t[k].kind = "detach"
    BY DEF Settled
  <2>1. IF i = 0 THEN on ELSE s[i].kind = "attach"
    BY <1>1
  <2>2. PICK k \in i + 1..n : s[k].kind = "detach"
    BY <1>2, <2>1 DEF Settled
  <2>3. k \in 1..l
    BY <2>2
  <2> QED BY <1>1, <2>2, <2>3
<1>3. ASSUME Settled(s, on, l), f.kind # "attach" PROVE Settled(t, on, l + 1)
  <2> SUFFICES ASSUME NEW i \in 0..l + 1, IF i = 0 THEN on ELSE t[i].kind = "attach"
               PROVE  \E k \in i + 1..l + 1 : t[k].kind = "detach"
    BY DEF Settled
  <2>1. i \in 0..l
    BY <1>1, <1>3
  <2>2. IF i = 0 THEN on ELSE s[i].kind = "attach"
    BY <1>1, <2>1
  <2>3. PICK k \in i + 1..l : s[k].kind = "detach"
    BY <1>3, <2>1, <2>2 DEF Settled
  <2>4. k \in 1..l /\ k \in i + 1..l + 1
    BY <2>1, <2>3
  <2> QED BY <1>1, <2>3, <2>4
<1>4. ASSUME f.kind = "detach" PROVE Settled(t, on, l + 1)
  <2> SUFFICES ASSUME NEW i \in 0..l + 1, IF i = 0 THEN on ELSE t[i].kind = "attach"
               PROVE  \E k \in i + 1..l + 1 : t[k].kind = "detach"
    BY DEF Settled
  <2>1. i \in 0..l
    BY <1>1, <1>4
  <2>2. l + 1 \in i + 1..l + 1
    BY <2>1
  <2> QED BY <1>1, <1>4, <2>2
<1>5. ASSUME Alternates(s, on), f.kind = "attach" => Settled(s, on, l) PROVE Alternates(t, on)
  <2> SUFFICES ASSUME NEW j \in 1..l + 1, t[j].kind = "attach" PROVE Settled(t, on, j - 1)
    BY <1>1 DEF Alternates
  <2>1. j - 1 \in 0..l
    OBVIOUS
  <2>2. CASE j = l + 1
    <3>1. Settled(s, on, j - 1)
      BY <1>1, <1>5, <2>2
    <3> QED BY <1>2, <2>1, <3>1
  <2>3. CASE j \in 1..l
    <3>1. Settled(s, on, j - 1)
      BY <1>1, <1>5, <2>3 DEF Alternates
    <3> QED BY <1>2, <2>1, <3>1
  <2> QED BY <2>2, <2>3
<1> QED BY <1>1, <1>2, <1>3, <1>4, <1>5

LEMMA SettledShrinks ==
  ASSUME NEW s, NEW t, NEW on \in BOOLEAN, NEW on2 \in BOOLEAN, Len(t) \in Nat, Shrinks(t, s),
         on2 => (on /\ s[1].kind # "detach") \/ s[1].kind = "attach"
  PROVE  /\ \A n \in 0..Len(t) : Settled(s, on, n + 1) => Settled(t, on2, n)
         /\ Alternates(s, on) => Alternates(t, on2)
<1>1. PICK l \in Nat : l = Len(t) /\ Len(s) = l + 1 /\ \A i \in 1..l : t[i] = s[i + 1]
  BY DEF Shrinks
<1>2. ASSUME NEW n \in 0..l, Settled(s, on, n + 1) PROVE Settled(t, on2, n)
  <2> SUFFICES ASSUME NEW i \in 0..n, IF i = 0 THEN on2 ELSE t[i].kind = "attach"
               PROVE  \E k \in i + 1..n : t[k].kind = "detach"
    BY DEF Settled
  <2>1. \E j \in {i, i + 1} : /\ IF j = 0 THEN on ELSE s[j].kind = "attach"
                              /\ j = 0 => s[1].kind # "detach"
    BY <1>1
  <2>2. PICK j \in {i, i + 1} : /\ IF j = 0 THEN on ELSE s[j].kind = "attach"
                                /\ j = 0 => s[1].kind # "detach"
                                /\ j = i => i = 0
    <3>1. CASE i = 0
      BY <2>1, <3>1
    <3>2. CASE i # 0
      <4>1. s[i + 1].kind = "attach"
        BY <1>1, <3>2
      <4> QED BY <3>2, <4>1
    <3> QED BY <3>1, <3>2
  <2>3. j \in 0..n + 1
    BY <2>2
  <2>4. PICK m \in j + 1..n + 1 : s[m].kind = "detach"
    BY <1>2, <2>2, <2>3 DEF Settled
  <2>5. m # 1 \/ j # 0
    BY <2>2, <2>4
  <2>6. PICK k \in i + 1..n : m = k + 1
    <3>1. m - 1 \in i + 1..n /\ m = (m - 1) + 1
      BY <2>2, <2>3, <2>4, <2>5
    <3> QED BY <3>1
  <2>7. k \in 1..l
    BY <2>6
  <2> QED BY <1>1, <2>4, <2>6, <2>7
<1>3. ASSUME Alternates(s, on) PROVE Alternates(t, on2)
  <2> SUFFICES ASSUME NEW j \in 1..l, t[j].kind = "attach" PROVE Settled(t, on2, j - 1)
    BY <1>1 DEF Alternates
  <2>1. s[j + 1].kind = "attach" /\ j + 1 \in 1..l + 1 /\ (j + 1) - 1 = (j - 1) + 1 /\ j - 1 \in 0..l
    BY <1>1
  <2>2. Settled(s, on, (j + 1) - 1)
    BY <1>1, <1>3, <2>1 DEF Alternates
  <2>3. Settled(s, on, (j - 1) + 1)
    BY <2>1, <2>2
  <2> QED BY <1>2, <2>1, <2>3
<1> QED BY <1>1, <1>2, <1>3

LEMMA SettledWeakens ==
  ASSUME NEW s, NEW on \in BOOLEAN, NEW on2 \in BOOLEAN, on2 => on
  PROVE  /\ \A n : Settled(s, on, n) => Settled(s, on2, n)
         /\ Alternates(s, on) => Alternates(s, on2)
BY DEF Settled, Alternates

LEMMA EmptySettled ==
  ASSUME NEW s, Len(s) = 0
  PROVE  Settled(s, FALSE, 0) /\ Alternates(s, FALSE)
BY DEF Settled, Alternates

\* t has no more frames of a kind than s.
Fewer(t, s, kind) == (Has(t, kind) => Has(s, kind)) /\ \A n : OnlyOne(s, kind, n) => OnlyOne(t, kind, n)

LEMMA FewerGrows ==
  ASSUME NEW s, NEW t, NEW f, NEW kind, Len(s) \in Nat, Grows(t, s, f)
  PROVE  /\ f.kind # kind => Fewer(t, s, kind)
         /\ ~Has(s, kind) => OnlyOne(t, kind, Value(f))
<1>1. PICK l \in Nat : l = Len(s) /\ Len(t) = l + 1 /\ t[l + 1] = f /\ \A i \in 1..l : t[i] = s[i]
  BY DEF Grows
<1>2. ASSUME f.kind # kind PROVE Fewer(t, s, kind)
  <2>1. \A i \in 1..l + 1 : t[i].kind = kind => i \in 1..l /\ t[i] = s[i]
    BY <1>1, <1>2
  <2> QED BY <1>1, <2>1 DEF Fewer, Has, OnlyOne
<1>3. ASSUME ~Has(s, kind) PROVE OnlyOne(t, kind, Value(f))
  <2>1. \A i \in 1..l + 1 : t[i].kind = kind => i = l + 1
    BY <1>1, <1>3 DEF Has
  <2> QED BY <1>1, <2>1 DEF OnlyOne
<1> QED BY <1>2, <1>3

LEMMA FewerShrinks ==
  ASSUME NEW s, NEW t, NEW kind, Len(t) \in Nat, Shrinks(t, s)
  PROVE  /\ Fewer(t, s, kind)
         /\ \A n : OnlyOne(s, kind, n) /\ s[1].kind = kind => Value(s[1]) = n /\ ~Has(t, kind)
<1>1. PICK l \in Nat : l = Len(t) /\ Len(s) = l + 1 /\ \A i \in 1..l : t[i] = s[i + 1]
  BY DEF Shrinks
<1>2. \A i \in 1..l : i + 1 \in 1..l + 1 /\ i + 1 # 1
  OBVIOUS
<1>3. Has(t, kind) => Has(s, kind)
  BY <1>1, <1>2 DEF Has
<1>4. ASSUME NEW n, OnlyOne(s, kind, n) PROVE OnlyOne(t, kind, n)
  <2> SUFFICES ASSUME NEW i \in 1..l, NEW j \in 1..l, t[i].kind = kind, t[j].kind = kind
               PROVE  i = j /\ Value(t[i]) = n
    BY <1>1 DEF OnlyOne
  <2>1. s[i + 1].kind = kind /\ s[j + 1].kind = kind /\ t[i] = s[i + 1]
    BY <1>1
  <2>2. i + 1 = j + 1 /\ Value(s[i + 1]) = n
    BY <1>1, <1>2, <1>4, <2>1 DEF OnlyOne
  <2> QED BY <2>1, <2>2
<1>5. ASSUME NEW n, OnlyOne(s, kind, n), s[1].kind = kind PROVE Value(s[1]) = n /\ ~Has(t, kind)
  <2>1. 1 \in 1..l + 1
    OBVIOUS
  <2>2. \A j \in 1..l + 1 : s[j].kind = kind => j = 1
    BY <1>1, <1>5, <2>1 DEF OnlyOne
  <2>3. Value(s[1]) = n
    BY <1>1, <1>5, <2>1 DEF OnlyOne
  <2>4. ~Has(t, kind)
    BY <1>1, <1>2, <2>2 DEF Has
  <2> QED BY <2>3, <2>4
<1> QED BY <1>3, <1>4, <1>5 DEF Fewer

LEMMA FewerIsPartial ==
  ASSUME NEW s, NEW t, NEW u, NEW kind
  PROVE  /\ Fewer(s, s, kind)
         /\ Fewer(t, s, kind) /\ Fewer(u, t, kind) => Fewer(u, s, kind)
         /\ Len(t) = 0 => Fewer(t, s, kind) /\ ~Has(t, kind)
<1>1. Fewer(s, s, kind) /\ (Fewer(t, s, kind) /\ Fewer(u, t, kind) => Fewer(u, s, kind))
  BY DEF Fewer
<1>2. Len(t) = 0 => Fewer(t, s, kind) /\ ~Has(t, kind)
  BY DEF Fewer, Has, OnlyOne
<1> QED BY <1>1, <1>2

LEMMA FrameIs == \A k, a : Frame(k, a).kind = k /\ Frame(k, a).arg = a
BY DEF Frame

LEMMA UpFrames ==
  /\ \A f \in UpFrame : /\ f.kind = "reply" => f.arg \in Reply
                        /\ f.kind \in {"exec", "cancel"} => f.arg \in Execs
  /\ \A k \in {"dial", "info", "attach", "detach", "kill"} : Frame(k, 0) \in UpFrame
  /\ \A e \in Execs : Frame("exec", e) \in UpFrame /\ Frame("cancel", e) \in UpFrame
  /\ \A r \in Reply : Frame("reply", r) \in UpFrame
BY DEF UpFrame, Frame

LEMMA DownFrames ==
  /\ \A f \in DownFrame : /\ f.kind = "prompt" => f.arg \in 1..MaxPrompts
                          /\ f.kind = "execEnd" => f.arg \in Result
                          /\ f.kind = "infook" => f.arg \in BOOLEAN
  /\ \A k \in {"dialok", "error", "ended"} : Frame(k, 0) \in DownFrame
  /\ \A b \in BOOLEAN : Frame("infook", b) \in DownFrame
  /\ \A n \in 1..MaxPrompts : Frame("prompt", n) \in DownFrame
  /\ \A e \in Execs, g \in Execs \union {None} : Frame("execEnd", [id |-> e, got |-> g]) \in DownFrame
BY DEF DownFrame, Frame, Result

\* A write of the host on one connection.
LEMMA SentIs ==
  ASSUME TypeOK, NEW c, NEW f \in DownFrame
  PROVE  /\ Sent(c, f) \in [Clients -> Seq(DownFrame)]
         /\ \A b \in Clients : \/ Sent(c, f)[b] = down[b]
                               \/ Len(down[b]) \in Nat /\ Grows(Sent(c, f)[b], down[b], f)
<1>1. \A b \in Clients : Append(down[b], f) \in Seq(DownFrame) /\ Len(down[b]) \in Nat
                         /\ Grows(Append(down[b], f), down[b], f)
  BY AppendGrows DEF TypeOK, WireTypes
<1>2. CASE c \in served \intersect open
  <2>1. c \in Clients /\ Sent(c, f) = [down EXCEPT ![c] = Append(down[c], f)]
    BY <1>2 DEF Sent, TypeOK, RunTypes
  <2> QED BY <1>1, <2>1 DEF TypeOK, WireTypes
<1>3. CASE c \notin served \intersect open
  BY <1>3 DEF Sent, TypeOK, WireTypes
<1> QED BY <1>2, <1>3

\* A write of a run on its connection.
LEMMA AsksIs ==
  ASSUME TypeOK, NEW c, NEW f \in UpFrame
  PROVE  /\ Asks(c, f) \in [Clients -> Seq(UpFrame)]
         /\ \A b \in Clients : /\ Len(up[b]) \in Nat
                               /\ b # c \/ c \notin open \intersect served => Asks(c, f)[b] = up[b]
                               /\ b = c /\ c \in open \intersect served => Grows(Asks(c, f)[b], up[b], f)
<1>1. \A b \in Clients : Append(up[b], f) \in Seq(UpFrame) /\ Len(up[b]) \in Nat
                         /\ Grows(Append(up[b], f), up[b], f)
  BY AppendGrows DEF TypeOK, WireTypes
<1>2. CASE c \in open \intersect served
  <2>1. c \in Clients /\ Asks(c, f) = [up EXCEPT ![c] = Append(up[c], f)]
    BY <1>2 DEF Asks, TypeOK, RunTypes
  <2> QED BY <1>1, <1>2, <2>1 DEF TypeOK, WireTypes
<1>3. CASE c \notin open \intersect served
  BY <1>1, <1>3 DEF Asks, TypeOK, WireTypes
<1> QED BY <1>2, <1>3

\* The host is told once that the session is over.
LEMMA ShutDownIs ==
  ASSUME TypeOK, ShutDown
  PROVE  /\ hp' \in {"serve", "ended", "done"} /\ (hp' = "done" <=> hp = "done")
         /\ down' \in [Clients -> Seq(DownFrame)]
         /\ \A b \in Clients : \/ down'[b] = down[b]
                               \/ Len(down[b]) \in Nat /\ Grows(down'[b], down[b], Frame("ended", 0))
<1>1. \A b \in Clients : Append(down[b], Frame("ended", 0)) \in Seq(DownFrame) /\ Len(down[b]) \in Nat
                         /\ Grows(Append(down[b], Frame("ended", 0)), down[b], Frame("ended", 0))
  BY DownFrames, AppendGrows DEF TypeOK, WireTypes
<1>2. CASE hp = "serve"
  <2>1. hp' = "ended" /\ down' = [c \in Clients |->
                       IF c \in conns \intersect served \intersect open
                       THEN Append(down[c], Frame("ended", 0)) ELSE down[c]]
    BY <1>2 DEF ShutDown
  <2> QED BY <1>1, <1>2, <2>1 DEF TypeOK, WireTypes
<1>3. CASE hp # "serve"
  BY <1>3 DEF ShutDown, TypeOK, HostTypes, WireTypes
<1> QED BY <1>2, <1>3

\* The read loop of a connection takes the first frame off it.
LEMMA ReadsIs ==
  ASSUME TypeOK, NEW c \in Clients, NEW kind, Reads(c, kind)
  PROVE  /\ up' \in [Clients -> Seq(UpFrame)] /\ Len(up'[c]) \in Nat /\ Shrinks(up'[c], up[c])
         /\ \A b \in Clients : b # c => up'[b] = up[b]
         /\ Head(up[c]) \in UpFrame /\ Head(up[c]) = up[c][1] /\ up[c][1].kind = kind /\ 1 \in 1..Len(up[c])
         /\ hp # "done" /\ c \in conns \intersect served /\ hpc[c] = "read"
<1>1. up \in [Clients -> Seq(UpFrame)] /\ up[c] \in Seq(UpFrame) /\ up[c] # <<>> /\ Head(up[c]).kind = kind
      /\ up' = [up EXCEPT ![c] = Tail(up[c])]
  BY DEF Reads, TypeOK, WireTypes
<1>2. /\ Tail(up[c]) \in Seq(UpFrame) /\ Len(Tail(up[c])) \in Nat /\ Shrinks(Tail(up[c]), up[c])
      /\ Head(up[c]) \in UpFrame /\ Head(up[c]) = up[c][1] /\ 1 \in 1..Len(up[c])
  BY <1>1, TailShrinks
<1>3. up' \in [Clients -> Seq(UpFrame)] /\ up'[c] = Tail(up[c]) /\ \A b \in Clients : b # c => up'[b] = up[b]
  BY <1>1, <1>2
<1> QED BY <1>1, <1>2, <1>3 DEF Reads

\* The read loop of a run takes the first frame off the socket.
LEMMA ReceivesIs ==
  ASSUME TypeOK, NEW c \in Clients, NEW kinds, Receives(c, kinds)
  PROVE  /\ down' \in [Clients -> Seq(DownFrame)] /\ Len(down'[c]) \in Nat /\ Shrinks(down'[c], down[c])
         /\ \A b \in Clients : b # c => down'[b] = down[b]
         /\ Head(down[c]) \in DownFrame /\ Head(down[c]) = down[c][1] /\ down[c][1].kind \in kinds
         /\ 1 \in 1..Len(down[c])
<1>1. /\ down \in [Clients -> Seq(DownFrame)] /\ down[c] \in Seq(DownFrame) /\ down[c] # <<>>
      /\ Head(down[c]).kind \in kinds /\ down' = [down EXCEPT ![c] = Tail(down[c])]
  BY DEF Receives, TypeOK, WireTypes
<1>2. /\ Tail(down[c]) \in Seq(DownFrame) /\ Len(Tail(down[c])) \in Nat /\ Shrinks(Tail(down[c]), down[c])
      /\ Head(down[c]) \in DownFrame /\ Head(down[c]) = down[c][1] /\ 1 \in 1..Len(down[c])
  BY <1>1, TailShrinks
<1>3. down' \in [Clients -> Seq(DownFrame)] /\ down'[c] = Tail(down[c])
      /\ \A b \in Clients : b # c => down'[b] = down[b]
  BY <1>1, <1>2
<1> QED BY <1>1, <1>2, <1>3

-----------------------------------------------------------------------------
(* Type correctness *)

LEMMA CallIs ==
  ASSUME TypeOK, NEW e \in Execs
  PROVE  /\ calls[e] \in [by : Clients \union {None}, got : Execs \union {None},
                          st : {"none", "waiting", "answered", "returned", "lost", "canceled"}]
         /\ By(e) \in Clients \union {None}
BY DEF TypeOK, RunTypes, By

LEMMA InitTypes == (\E old \in BOOLEAN : \E absent, idle : Start(old, absent, idle, MaxUses)) => TypeOK
<1> SUFFICES ASSUME NEW old \in BOOLEAN, NEW absent, NEW idle, Start(old, absent, idle, MaxUses)
             PROVE  TypeOK
  OBVIOUS
<1>1. HostTypes
  BY SessionAssumption DEF Start, HostTypes
<1>2. NoCall \in [by : Clients \union {None}, got : Execs \union {None},
                  st : {"none", "waiting", "answered", "returned", "lost", "canceled"}]
      /\ [NoCall EXCEPT !.st = "lost"] \in [by : Clients \union {None}, got : Execs \union {None},
                  st : {"none", "waiting", "answered", "returned", "lost", "canceled"}]
  BY DEF NoCall
<1>3. RunTypes
  BY <1>2, SessionAssumption DEF Start, RunTypes
<1>4. WireTypes
  <2>1. <<>> \in Seq(UpFrame) /\ <<>> \in Seq(DownFrame)
    BY EmptySeq
  <2> QED BY <2>1 DEF Start, WireTypes
<1> QED BY <1>1, <1>3, <1>4 DEF TypeOK

LEMMA GoneTypes ==
  ASSUME TypeOK, Exit \/ Crash
  PROVE  TypeOK'
<1>1. ProcessGone /\ sock' \in {sock, FALSE}
  BY DEF Exit, Crash
<1>2. HostTypes'
  BY <1>1 DEF ProcessGone, TypeOK, HostTypes
<1>3. RunTypes'
  BY <1>1 DEF ProcessGone, TypeOK, RunTypes, remoteVars, userVars
<1>4. WireTypes'
  <2>1. <<>> \in Seq(UpFrame)
    BY EmptySeq
  <2> QED BY <1>1, <2>1 DEF ProcessGone, TypeOK, WireTypes, remoteVars
<1> QED BY <1>2, <1>3, <1>4 DEF TypeOK

\* Steps of the host process that write on the connections at most.
LEMMA HostWrites ==
  ASSUME TypeOK, HostTypes', down' \in [Clients -> Seq(DownFrame)], up' \in [Clients -> Seq(UpFrame)],
         served' \subseteq served, UNCHANGED <<remoteVars, userVars>>
  PROVE  TypeOK'
BY DEF TypeOK, RunTypes, WireTypes, remoteVars, userVars

LEMMA HostStays ==
  ASSUME TypeOK
  PROVE  up \in [Clients -> Seq(UpFrame)] /\ down \in [Clients -> Seq(DownFrame)]
         /\ hp \in {"serve", "ended", "done"}
BY DEF TypeOK, HostTypes, WireTypes

LEMMA DialTypes ==
  ASSUME TypeOK, Watchdog \/ SessionEnded \/ ShellEnds \/ DialStart \/ AskPrompt \/ TakeReply \/ DialOrphaned
                 \/ AuthReturns \/ DialFailed \/ DialKept \/ DialInstalled \/ LiveFails
  PROVE  TypeOK'
<1>1. UNCHANGED <<up, served, remoteVars, userVars>>
  BY DEF Watchdog, SessionEnded, ShellEnds, DialStart, AskPrompt, TakeReply, DialOrphaned, AuthReturns,
         DialFailed, DialKept, DialInstalled, LiveFails
<1>2. CASE Watchdog \/ SessionEnded
  <2>1. ShutDown /\ UNCHANGED <<proto, sock, shell, sess, dialVars, connVars, execs>>
    BY <1>2 DEF Watchdog, SessionEnded
  <2>2. HostTypes'
    BY <2>1, ShutDownIs DEF TypeOK, HostTypes, dialVars, connVars
  <2> QED BY <1>1, <2>1, <2>2, ShutDownIs, HostStays, HostWrites
<1>3. CASE ShellEnds \/ DialStart \/ TakeReply \/ DialOrphaned \/ AuthReturns \/ LiveFails
  <2>1. HostTypes' /\ down' = down
    BY <1>3 DEF ShellEnds, DialStart, TakeReply, DialOrphaned, AuthReturns, LiveFails, TypeOK, HostTypes,
                procVars, dialVars, connVars
  <2> QED BY <1>1, <2>1, HostStays, HostWrites
<1>4. CASE AskPrompt
  <2>1. HostTypes'
    BY <1>4, SessionAssumption DEF AskPrompt, TypeOK, HostTypes, procVars, connVars
  <2>2. asked + 1 \in 1..MaxPrompts
    BY <1>4, SessionAssumption DEF AskPrompt, TypeOK, HostTypes
  <2>3. down' \in [Clients -> Seq(DownFrame)]
    BY <1>4, <2>2, DownFrames, SentIs, HostStays DEF AskPrompt
  <2> QED BY <1>1, <2>1, <2>3, HostStays, HostWrites
<1>5. CASE DialFailed
  <2>1. HostTypes'
    BY <1>5 DEF DialFailed, TypeOK, HostTypes, connVars
  <2>2. PICK told \in [Clients -> Seq(DownFrame)] : told = Sent(Spawner, Frame("error", 0))
    BY DownFrames, SentIs
  <2>3. \A c \in Clients : Append(told[c], Frame("ended", 0)) \in Seq(DownFrame)
    BY DownFrames, AppendGrows
  <2>4. down' \in [Clients -> Seq(DownFrame)]
    BY <1>5, <2>2, <2>3 DEF DialFailed
  <2> QED BY <1>1, <2>1, <2>4, HostStays, HostWrites
<1>6. CASE DialKept
  <2>1. ShutDown \/ UNCHANGED <<hp, down>>
    BY <1>6 DEF DialKept
  <2>2. HostTypes'
    BY <1>6, <2>1, ShutDownIs DEF DialKept, TypeOK, HostTypes, connVars
  <2> QED BY <1>1, <2>1, <2>2, ShutDownIs, HostStays, HostWrites
<1>7. CASE DialInstalled
  <2>1. HostTypes'
    BY <1>7 DEF DialInstalled, TypeOK, HostTypes, connVars
  <2>2. down' \in [Clients -> Seq(DownFrame)]
    BY <1>7, DownFrames, SentIs DEF DialInstalled
  <2> QED BY <1>1, <2>1, <2>2, HostStays, HostWrites
<1> QED BY <1>2, <1>3, <1>4, <1>5, <1>6, <1>7

LEMMA ExecTypes ==
  ASSUME TypeOK, NEW e \in Execs, ExecStart(e) \/ ExecEnds(e) \/ ExecOrphaned(e)
  PROVE  TypeOK'
<1>1. UNCHANGED <<up, served, remoteVars, userVars>> /\ HostTypes'
  BY DEF ExecStart, ExecEnds, ExecOrphaned, TypeOK, HostTypes, procVars, dialVars, connVars
<1>2. down' \in [Clients -> Seq(DownFrame)]
  <2>1. PICK g \in Execs \union {None} :
          down' = down \/ down' = Sent(By(e), Frame("execEnd", [id |-> e, got |-> g]))
    BY DEF ExecStart, ExecEnds, ExecOrphaned
  <2> QED BY <2>1, DownFrames, SentIs, HostStays
<1> QED BY <1>1, <1>2, HostStays, HostWrites

LEMMA HandleTypes ==
  ASSUME TypeOK, NEW c \in Clients,
         \/ HandleInfo(c) \/ HandleDial(c) \/ HandleReply(c) \/ HandleExec(c) \/ HandleCancel(c)
         \/ HandleAttach(c) \/ HandleDetach(c) \/ HandleKill(c)
  PROVE  TypeOK'
<1>1. /\ Reads(c, Head(up[c]).kind)
      /\ (HandleReply(c) => Head(up[c]).kind = "reply") /\ (HandleExec(c) => Head(up[c]).kind = "exec")
      /\ (HandleCancel(c) => Head(up[c]).kind = "cancel")
  BY DEF HandleInfo, HandleDial, HandleReply, HandleExec, HandleCancel, HandleAttach, HandleDetach, HandleKill,
         Reads
<1>2. up' \in [Clients -> Seq(UpFrame)] /\ Head(up[c]) \in UpFrame
  BY <1>1, ReadsIs
<1>3. UNCHANGED <<served, remoteVars, userVars>>
  BY DEF HandleInfo, HandleDial, HandleReply, HandleExec, HandleCancel, HandleAttach, HandleDetach, HandleKill
<1>4. CASE HandleInfo(c) \/ HandleDial(c) \/ HandleDetach(c) \/ HandleAttach(c)
  <2>1. HostTypes'
    BY <1>4 DEF HandleInfo, HandleDial, HandleDetach, HandleAttach, TypeOK, HostTypes, procVars, dialVars,
                connVars
  <2>2. (sess /\ shell = "live") \in BOOLEAN
    BY DEF TypeOK, HostTypes
  <2>3. PICK f \in DownFrame : f = Frame("infook", sess /\ shell = "live")
    BY <2>2, DownFrames
  <2>4. PICK g \in DownFrame : g = Frame("error", 0)
    BY DownFrames
  <2>5. down' = down \/ down' = Sent(c, f) \/ down' = Sent(c, g)
    BY <1>4, <2>3, <2>4 DEF HandleInfo, HandleDial, HandleDetach, HandleAttach
  <2>6. down' \in [Clients -> Seq(DownFrame)]
    BY <2>5, SentIs, HostStays
  <2> QED BY <1>2, <1>3, <2>1, <2>6, HostWrites
<1>5. CASE HandleReply(c) \/ HandleExec(c) \/ HandleCancel(c)
  <2>1. /\ HandleReply(c) => Head(up[c]).arg \in Reply
        /\ HandleExec(c) \/ HandleCancel(c) => Head(up[c]).arg \in Execs
    BY <1>1, <1>2, UpFrames
  <2>2. down' = down
    BY <1>5 DEF HandleReply, HandleExec, HandleCancel
  <2>3. HostTypes'
    BY <1>5, <2>1 DEF HandleReply, HandleExec, HandleCancel, Canceled, TypeOK, HostTypes, procVars,
                      dialVars, connVars
  <2> QED BY <1>2, <1>3, <2>2, <2>3, HostStays, HostWrites
<1>6. CASE HandleKill(c)
  <2>1. ShutDown \/ UNCHANGED <<hp, down>>
    BY <1>6 DEF HandleKill
  <2>2. HostTypes'
    BY <1>6, <2>1, ShutDownIs DEF HandleKill, TypeOK, HostTypes, dialVars, connVars
  <2> QED BY <1>2, <1>3, <2>1, <2>2, ShutDownIs, HostStays, HostWrites
<1> QED BY <1>4, <1>5, <1>6

LEMMA LoopTypes ==
  ASSUME TypeOK, NEW c \in Clients, GoLive(c) \/ UnsetLive(c) \/ Drop(c) \/ Dropped(c)
  PROVE  TypeOK'
<1>1. UNCHANGED <<up, remoteVars, userVars>> /\ served' \subseteq served
  BY DEF GoLive, UnsetLive, Drop, Dropped
<1>2. CASE GoLive(c) \/ UnsetLive(c) \/ Drop(c)
  <2>1. HostTypes' /\ down' = down
    BY <1>2 DEF GoLive, UnsetLive, Drop, LiveWithout, TypeOK, HostTypes, procVars, dialVars
  <2> QED BY <1>1, <2>1, HostStays, HostWrites
<1>3. CASE Dropped(c)
  <2>1. ShutDown \/ UNCHANGED <<hp, down>>
    BY <1>3 DEF Dropped
  <2>2. HostTypes'
    BY <1>3, <2>1, ShutDownIs DEF Dropped, LiveWithout, TypeOK, HostTypes, dialVars
  <2> QED BY <1>1, <2>1, <2>2, ShutDownIs, HostStays, HostWrites
<1> QED BY <1>2, <1>3

\* Steps of a run, which write on its own connection at most.
LEMMA RunStays ==
  ASSUME TypeOK
  PROVE  up \in [Clients -> Seq(UpFrame)] /\ down \in [Clients -> Seq(DownFrame)]
         /\ ctl \in [Clients -> Seq(DownFrame)]
BY DEF TypeOK, WireTypes

LEMMA RunWrites ==
  ASSUME TypeOK, UNCHANGED <<proto, hp, shell, sess, dialVars, closed, attached, live, hpc, execs>>,
         sock' \in BOOLEAN, conns' \subseteq Clients, RunTypes', WireTypes'
  PROVE  TypeOK'
BY DEF TypeOK, HostTypes, dialVars

LEMMA CloseTypes ==
  ASSUME TypeOK, NEW c \in Clients,
         CloseConn(c) \/ (Finish(c) /\ open' = open) \/ UNCHANGED <<open, alive, ended, pool>>
  PROVE  open' \subseteq Clients /\ alive' \subseteq Clients /\ ended' \subseteq Clients /\ pool' \subseteq Clients
BY DEF CloseConn, Finish, TypeOK, RunTypes

LEMMA ConnectTypes ==
  ASSUME TypeOK, NEW c \in Clients,
         \/ Connect(c) \/ ConnectFails(c) \/ DialAnswered(c) \/ DialAbandoned(c) \/ Probed(c) \/ ProbeFails(c)
         \/ Enlist(c)
  PROVE  TypeOK'
<1>0. sock \in BOOLEAN /\ conns \subseteq Clients
  BY DEF TypeOK, HostTypes
<1>1. CASE Connect(c)
  <2>1. RunTypes' /\ conns' \subseteq Clients
    BY <1>0, <1>1 DEF Connect, Goes, TypeOK, RunTypes, userVars
  <2>2. PICK f \in UpFrame : f = Frame(IF c = Spawner THEN "dial" ELSE "info", 0)
    BY UpFrames
  <2>3. <<f>> \in Seq(UpFrame)
    OBVIOUS
  <2>4. WireTypes'
    BY <1>1, <2>2, <2>3, RunStays DEF Connect, WireTypes
  <2> QED BY <1>0, <1>1, <2>1, <2>4, RunWrites DEF Connect, procVars
<1>2. CASE ConnectFails(c) \/ DialAbandoned(c) \/ ProbeFails(c) \/ Enlist(c)
  <2>0. /\ open' \subseteq Clients /\ alive' \subseteq Clients /\ ended' \subseteq Clients
        /\ pool' \subseteq Clients
    <3>1. CASE Enlist(c)
      BY <3>1 DEF Enlist, TypeOK, RunTypes
    <3>2. CASE ~Enlist(c)
      <4>1. CloseConn(c) \/ UNCHANGED <<open, alive, ended, pool>>
        BY <1>2, <3>2 DEF ConnectFails, DialAbandoned, ProbeFails
      <4> QED BY <4>1, CloseTypes
    <3> QED BY <3>1, <3>2
  <2>1. RunTypes'
    <3>1. UNCHANGED <<served, userVars>> /\ (Goes(c, "failed") \/ Goes(c, "listed"))
      BY <1>2 DEF ConnectFails, DialAbandoned, ProbeFails, Enlist
    <3> QED BY <2>0, <3>1 DEF Goes, TypeOK, RunTypes, userVars
  <2>2. WireTypes'
    BY <1>2, RunStays DEF ConnectFails, DialAbandoned, ProbeFails, Enlist, WireTypes
  <2>3. UNCHANGED <<proto, hp, shell, sess, dialVars, connVars, execs>> /\ sock' \in {sock, FALSE}
    BY <1>2 DEF ConnectFails, DialAbandoned, ProbeFails, Enlist, procVars
  <2> QED BY <1>0, <2>1, <2>2, <2>3, RunWrites DEF connVars
<1>3. CASE DialAnswered(c) \/ Probed(c)
  <2>1. Tail(ctl[c]) \in Seq(DownFrame) /\ ctl' = [ctl EXCEPT ![c] = Tail(ctl[c])]
    BY <1>3, RunStays, TailShrinks DEF DialAnswered, Probed
  <2>2. RunTypes'
    <3>1. CloseConn(c) \/ UNCHANGED <<open, alive, ended, pool>>
      BY <1>3 DEF DialAnswered, Probed
    <3>2. UNCHANGED <<served, userVars>> /\ (Goes(c, "failed") \/ Goes(c, "dialled"))
      BY <1>3 DEF DialAnswered, Probed
    <3>3. /\ open' \subseteq Clients /\ alive' \subseteq Clients /\ ended' \subseteq Clients
          /\ pool' \subseteq Clients
      BY <3>1, CloseTypes
    <3> QED BY <3>2, <3>3 DEF Goes, TypeOK, RunTypes, userVars
  <2>3. up' \in [Clients -> Seq(UpFrame)]
    BY <1>3, UpFrames, AsksIs, RunStays DEF DialAnswered, Probed, RetireFrame
  <2>4. WireTypes'
    BY <1>3, <2>1, <2>3, RunStays DEF DialAnswered, Probed, WireTypes
  <2>5. sock' \in BOOLEAN
    BY <1>0, <1>3 DEF DialAnswered, Probed, procVars
  <2>6. UNCHANGED <<proto, hp, shell, sess, dialVars, connVars, execs>>
    BY <1>3 DEF DialAnswered, Probed, procVars
  <2> QED BY <1>0, <2>2, <2>4, <2>5, <2>6, RunWrites DEF connVars
<1> QED BY <1>1, <1>2, <1>3

LEMMA ReadTypes ==
  ASSUME TypeOK, NEW c \in Clients,
         ReadCtl(c) \/ ReadPrompt(c) \/ ReadExecEnd(c) \/ ReadEnded(c) \/ ReadFails(c)
  PROVE  TypeOK'
<1>0. sock \in BOOLEAN /\ conns \subseteq Clients
  BY DEF TypeOK, HostTypes
<1>1. UNCHANGED <<procVars, dialVars, connVars, execs, up, served>>
  BY DEF ReadCtl, ReadPrompt, ReadExecEnd, ReadEnded, ReadFails
<1>2. CASE ReadFails(c)
  <2>0. /\ open' \subseteq Clients /\ alive' \subseteq Clients /\ ended' \subseteq Clients
        /\ pool' \subseteq Clients
    <3>1. Finish(c) /\ open' = open
      BY <1>2 DEF ReadFails
    <3> QED BY <3>1, CloseTypes
  <2>1. RunTypes' /\ WireTypes'
    BY <1>2, <2>0, RunStays DEF ReadFails, TypeOK, RunTypes, WireTypes, userVars
  <2> QED BY <1>0, <1>1, <2>1, RunWrites DEF procVars, connVars
<1>3. CASE ReadCtl(c) \/ ReadPrompt(c) \/ ReadExecEnd(c) \/ ReadEnded(c)
  <2>1. Receives(c, {"dialok", "infook", "error"}) \/ Receives(c, {"prompt"}) \/ Receives(c, {"execEnd"})
        \/ Receives(c, {"ended"})
    BY <1>3 DEF ReadCtl, ReadPrompt, ReadExecEnd, ReadEnded
  <2>2. down' \in [Clients -> Seq(DownFrame)] /\ Head(down[c]) \in DownFrame
    BY <2>1, ReceivesIs
  <2>3. /\ ReadPrompt(c) => Head(down[c]).arg \in 1..MaxPrompts
        /\ ReadExecEnd(c) => Head(down[c]).arg \in Result
    BY <2>2, DownFrames DEF ReadPrompt, ReadExecEnd, Receives
  <2>4. ctl' \in [Clients -> Seq(DownFrame)]
    <3>1. Append(ctl[c], Head(down[c])) \in Seq(DownFrame)
      BY <2>2, RunStays, AppendGrows
    <3> QED BY <1>3, <3>1, RunStays DEF ReadCtl, ReadPrompt, ReadExecEnd, ReadEnded, remoteVars
  <2>5. calls' \in [Execs -> [by : Clients \union {None}, got : Execs \union {None},
                          st : {"none", "waiting", "answered", "returned", "lost", "canceled"}]]
    <3>0. calls \in [Execs -> [by : Clients \union {None}, got : Execs \union {None},
                          st : {"none", "waiting", "answered", "returned", "lost", "canceled"}]]
      BY DEF TypeOK, RunTypes
    <3>1. CASE ReadExecEnd(c)
      <4>1. PICK end \in Result : end = Head(down[c]).arg /\ calls' = Answered(end)
        BY <2>3, <3>1 DEF ReadExecEnd
      <4>2. PICK call : call = calls[end.id]
        OBVIOUS
      <4>3. end.id \in Execs /\ end.got \in Execs \union {None}
            /\ call \in [by : Clients \union {None}, got : Execs \union {None},
                          st : {"none", "waiting", "answered", "returned", "lost", "canceled"}]
        BY <3>0, <4>2 DEF Result
      <4>4. [call EXCEPT !.st = "answered", !.got = end.got]
              \in [by : Clients \union {None}, got : Execs \union {None},
                   st : {"none", "waiting", "answered", "returned", "lost", "canceled"}]
        BY <4>3
      <4> QED BY <3>0, <4>1, <4>2, <4>3, <4>4 DEF Answered
    <3>2. CASE ~ ReadExecEnd(c)
      BY <1>3, <3>0, <3>2 DEF ReadCtl, ReadPrompt, ReadEnded, userVars
    <3> QED BY <3>1, <3>2
  <2>6. prompt' \in 0..MaxPrompts /\ uses' \in 0..MaxUses /\ UNCHANGED pc
    BY <1>3, <2>3, SessionAssumption
       DEF ReadCtl, ReadPrompt, ReadExecEnd, ReadEnded, TypeOK, RunTypes, userVars, remoteVars
  <2>7. open' \subseteq Clients /\ alive' \subseteq Clients /\ ended' \subseteq Clients /\ pool' \subseteq Clients
    <3>1. CloseConn(c) \/ UNCHANGED <<open, alive, ended, pool>>
      BY <1>3 DEF ReadCtl, ReadPrompt, ReadExecEnd, ReadEnded, remoteVars
    <3> QED BY <3>1, CloseTypes
  <2>8. RunTypes' /\ WireTypes'
    BY <1>1, <2>2, <2>4, <2>5, <2>6, <2>7 DEF TypeOK, RunTypes, WireTypes
  <2> QED BY <1>0, <1>1, <2>8, RunWrites DEF procVars, connVars
<1> QED BY <1>2, <1>3

LEMMA UserTypes ==
  ASSUME TypeOK, NEW c \in Clients,
         \/ \E ok \in BOOLEAN : AnswerPrompt(c, ok)
         \/ Attach(c) \/ Detach(c) \/ Kill(c) \/ Killed(c) \/ Quit(c) \/ \E e \in Execs : Exec(c, e)
  PROVE  TypeOK'
<1>0. sock \in BOOLEAN /\ conns \subseteq Clients
      /\ calls \in [Execs -> [by : Clients \union {None}, got : Execs \union {None},
                          st : {"none", "waiting", "answered", "returned", "lost", "canceled"}]]
  BY DEF TypeOK, HostTypes, RunTypes
<1>1. UNCHANGED <<procVars, dialVars, connVars, execs, served>>
  BY DEF AnswerPrompt, Attach, Detach, Kill, Killed, Quit, Exec
<1>2. up' \in [Clients -> Seq(UpFrame)]
  <2>1. ASSUME NEW ok \in BOOLEAN, AnswerPrompt(c, ok) PROVE up' \in [Clients -> Seq(UpFrame)]
    <3>1. [n |-> prompt, ok |-> ok] \in Reply
      BY <2>1 DEF TypeOK, RunTypes, Reply
    <3> QED BY <2>1, <3>1, UpFrames, AsksIs DEF AnswerPrompt
  <2>2. CASE Attach(c) \/ Detach(c) \/ Kill(c) \/ Killed(c) \/ Quit(c) \/ \E e \in Execs : Exec(c, e)
    <3>1. \/ up' = up
          \/ \E k \in {"attach", "detach", "kill"} : up' = Asks(c, Frame(k, 0))
          \/ \E e \in Execs : up' = Asks(c, Frame("exec", e))
      BY <2>2 DEF Attach, Detach, Kill, Killed, Quit, Exec
    <3>2. CASE up' = up
      BY <3>2, RunStays
    <3>3. ASSUME NEW k \in {"attach", "detach", "kill"}, up' = Asks(c, Frame(k, 0))
          PROVE  up' \in [Clients -> Seq(UpFrame)]
      BY <3>3, UpFrames, AsksIs
    <3>4. ASSUME NEW e \in Execs, up' = Asks(c, Frame("exec", e)) PROVE up' \in [Clients -> Seq(UpFrame)]
      BY <3>4, UpFrames, AsksIs
    <3> QED BY <3>1, <3>2, <3>3, <3>4
  <2> QED BY <2>1, <2>2
<1>3. down' \in [Clients -> Seq(DownFrame)] /\ ctl' \in [Clients -> Seq(DownFrame)]
  <2>1. <<>> \in Seq(DownFrame)
    BY EmptySeq
  <2>2. CASE Quit(c)
    BY <2>1, <2>2, RunStays DEF Quit
  <2>3. CASE ~Quit(c)
    BY <2>3, RunStays DEF AnswerPrompt, Attach, Detach, Kill, Killed, Exec, remoteVars
  <2> QED BY <2>2, <2>3
<1>4. RunTypes'
  <2>1. CASE Attach(c) \/ Detach(c) \/ Kill(c) \/ \E ok \in BOOLEAN : AnswerPrompt(c, ok)
    <3>1. UNCHANGED <<open, served, alive, ended, pool, calls>> /\ prompt' \in {0, prompt}
      BY <2>1 DEF Attach, Detach, Kill, AnswerPrompt, userVars, remoteVars
    <3>2. pc' = pc \/ Goes(c, "listed") \/ Goes(c, "attached") \/ Goes(c, "killing")
      BY <2>1 DEF Attach, Detach, Kill, AnswerPrompt, remoteVars
    <3>3. uses' \in 0..MaxUses
      <4>1. uses' = uses \/ (uses > 0 /\ uses' = uses - 1)
        BY <2>1 DEF Attach, Detach, Kill, AnswerPrompt, userVars
      <4> QED BY <4>1, SessionAssumption DEF TypeOK, RunTypes
    <3>4. pc' \in [Clients -> {"off", "spawned", "dialing", "probing", "dialled", "listed", "attached",
                         "killing", "failed", "gone"}]
      BY <3>2 DEF Goes, TypeOK, RunTypes
    <3> QED BY <3>1, <3>3, <3>4, SessionAssumption DEF TypeOK, RunTypes
  <2>2. CASE Killed(c)
    <3>1. CloseConn(c) \/ UNCHANGED <<open, alive, ended, pool>>
      BY <2>2 DEF Killed
    <3>2. /\ open' \subseteq Clients /\ alive' \subseteq Clients /\ ended' \subseteq Clients
          /\ pool' \subseteq Clients
      BY <3>1, CloseTypes
    <3> QED BY <2>2, <3>2 DEF Killed, Goes, TypeOK, RunTypes, userVars
  <2>3. CASE Quit(c)
    <3>1. calls' \in [Execs -> [by : Clients \union {None}, got : Execs \union {None},
                          st : {"none", "waiting", "answered", "returned", "lost", "canceled"}]]
      BY <1>0, <2>3 DEF Quit
    <3>2. UNCHANGED <<served, uses>> /\ prompt' \in {0, prompt} /\ pc' = [pc EXCEPT ![c] = "gone"]
          /\ open' = open \ {c} /\ alive' = alive \ {c} /\ ended' = ended \union {c} /\ pool' = pool \ {c}
      BY <2>3 DEF Quit, Goes
    <3> QED BY <3>1, <3>2, SessionAssumption DEF TypeOK, RunTypes
  <2>4. ASSUME NEW e \in Execs, Exec(c, e) PROVE RunTypes'
    <3>1. calls' \in [Execs -> [by : Clients \union {None}, got : Execs \union {None},
                          st : {"none", "waiting", "answered", "returned", "lost", "canceled"}]]
      BY <1>0, <2>4 DEF Exec
    <3>2. uses' \in 0..MaxUses
      BY <2>4, SessionAssumption DEF Exec, TypeOK, RunTypes
    <3> QED BY <2>4, <3>1, <3>2 DEF Exec, TypeOK, RunTypes, remoteVars
  <2> QED BY <2>1, <2>2, <2>3, <2>4
<1> QED BY <1>0, <1>1, <1>2, <1>3, <1>4, RunWrites DEF WireTypes, procVars, connVars

LEMMA CallTypes ==
  ASSUME TypeOK, NEW e \in Execs, ExecReturns(e) \/ CancelExec(e)
  PROVE  TypeOK'
<1>0. sock \in BOOLEAN /\ conns \subseteq Clients
      /\ calls \in [Execs -> [by : Clients \union {None}, got : Execs \union {None},
                          st : {"none", "waiting", "answered", "returned", "lost", "canceled"}]]
  BY DEF TypeOK, HostTypes, RunTypes
<1>1. UNCHANGED <<procVars, dialVars, connVars, execs, served, down, remoteVars, prompt, uses>>
  BY DEF ExecReturns, CancelExec
<1>2. calls' \in [Execs -> [by : Clients \union {None}, got : Execs \union {None},
                          st : {"none", "waiting", "answered", "returned", "lost", "canceled"}]]
  BY <1>0 DEF ExecReturns, CancelExec, Return
<1>3. up' \in [Clients -> Seq(UpFrame)]
  BY UpFrames, AsksIs, RunStays DEF ExecReturns, CancelExec
<1>4. RunTypes' /\ WireTypes'
  BY <1>1, <1>2, <1>3, RunStays DEF TypeOK, RunTypes, WireTypes, remoteVars
<1> QED BY <1>0, <1>1, <1>4, RunWrites DEF procVars, connVars

LEMMA TypeStep == TypeOK /\ [Next]_vars => TypeOK'
<1> SUFFICES ASSUME TypeOK, [Next]_vars PROVE TypeOK'
  OBVIOUS
<1>1. CASE UNCHANGED vars
  BY <1>1 DEF TypeOK, HostTypes, RunTypes, WireTypes, vars, procVars, dialVars, connVars, remoteVars, userVars
<1>2. CASE HostStep
  BY <1>2, GoneTypes, DialTypes, ExecTypes, HandleTypes, LoopTypes DEF HostStep
<1>3. ASSUME NEW c \in Clients, RemoteStep(c) PROVE TypeOK'
  BY <1>3, ConnectTypes, ReadTypes DEF RemoteStep
<1>4. CASE World
  <2>1. Spawner \in Clients
    BY DEF Clients
  <2> QED BY <1>4, <2>1, GoneTypes, DialTypes, ExecTypes, ConnectTypes, UserTypes, CallTypes DEF World
<1> QED BY <1>1, <1>2, <1>3, <1>4 DEF Next

-----------------------------------------------------------------------------
(* One reader of the output *)

\* A run whose connection stands and which is not attached was not attached before.
Calm(c) == c \in open' \intersect served' /\ pc'[c] \notin {"attached", "gone"} =>
             pc[c] \notin {"attached", "gone"}

\* What a step may do to the frames of a client and to who is attached.
Turned(c) ==
  \/ up'[c] = up[c] /\ Calm(c) /\ (attached' = c => attached = c)
  \/ /\ Shrinks(up'[c], up[c]) /\ Calm(c)
     /\ attached' = c => (attached = c /\ up[c][1].kind # "detach") \/ up[c][1].kind = "attach"
  \/ \E f : /\ Grows(up'[c], up[c], f) /\ f.kind # "attach" /\ (f.kind = "detach" \/ Calm(c))
            /\ attached' = c => attached = c
  \/ \E f : /\ Grows(up'[c], up[c], f) /\ attached' = attached
            /\ c \in open \intersect served /\ pc[c] \notin {"attached", "gone"} /\ pc'[c] = "attached"

LEMMA WireIs ==
  ASSUME TypeOK
  PROVE  \A c \in Clients : Len(up[c]) \in Nat /\ Len(down[c]) \in Nat
BY LenProperties DEF TypeOK, WireTypes

LEMMA TurnsKept ==
  ASSUME TypeOK, TypeOK', NEW c \in Clients, Turns(c), Turned(c), served' \subseteq served, open' \subseteq open
  PROVE  Turns(c)'
<1>a. PICK s : s = up[c]
  OBVIOUS
<1>b. PICK t : t = up'[c]
  OBVIOUS
<1>1. PICK l \in Nat : s = up[c] /\ l = Len(s)
  BY <1>a, WireIs
<1>2. PICK m \in Nat : t = up'[c] /\ m = Len(t)
  <2>1. Len(up'[c]) \in Nat
    BY LenProperties DEF TypeOK, WireTypes
  <2> QED BY <1>b, <2>1
<1>3. PICK on \in BOOLEAN, on2 \in BOOLEAN : on = (attached = c) /\ on2 = (attached' = c)
  OBVIOUS
<1>4. /\ Alternates(s, on)
      /\ c \in open \intersect served /\ pc[c] \notin {"attached", "gone"} => Settled(s, on, l)
  BY <1>1, <1>3 DEF Turns
<1>5. SUFFICES /\ Alternates(t, on2)
               /\ c \in open' \intersect served' /\ pc'[c] \notin {"attached", "gone"} => Settled(t, on2, m)
  BY <1>2, <1>3 DEF Turns
<1>6. CASE up'[c] = up[c] /\ Calm(c) /\ (attached' = c => attached = c)
  <2>1. t = s /\ m = l /\ (on2 => on)
    BY <1>1, <1>2, <1>3, <1>6
  <2> QED BY <1>4, <1>6, <2>1, SettledWeakens DEF Calm
<1>7. CASE /\ Shrinks(up'[c], up[c]) /\ Calm(c)
           /\ attached' = c => (attached = c /\ up[c][1].kind # "detach") \/ up[c][1].kind = "attach"
  <2>1. Shrinks(t, s) /\ (on2 => (on /\ s[1].kind # "detach") \/ s[1].kind = "attach")
    BY <1>1, <1>2, <1>3, <1>7
  <2>2. l = m + 1 /\ m \in 0..m
    BY <1>1, <1>2, <2>1 DEF Shrinks
  <2>3. (Settled(s, on, m + 1) => Settled(t, on2, m)) /\ Alternates(t, on2)
    BY <1>2, <1>4, <2>1, <2>2, SettledShrinks
  <2> QED BY <1>4, <1>7, <2>2, <2>3 DEF Calm
<1>8. ASSUME NEW f, Grows(up'[c], up[c], f), f.kind # "attach", f.kind = "detach" \/ Calm(c),
             attached' = c => attached = c
      PROVE  /\ Alternates(t, on2)
             /\ c \in open' \intersect served' /\ pc'[c] \notin {"attached", "gone"} => Settled(t, on2, m)
  <2>1. Grows(t, s, f) /\ (on2 => on)
    BY <1>1, <1>2, <1>3, <1>8
  <2>2. /\ Settled(s, on, l) \/ f.kind = "detach" => Settled(t, on, m)
        /\ Alternates(t, on)
    <3>1. /\ Settled(s, on, Len(s)) /\ f.kind # "attach" => Settled(t, on, Len(t))
          /\ f.kind = "detach" => Settled(t, on, Len(t))
          /\ Alternates(s, on) /\ (f.kind = "attach" => Settled(s, on, Len(s))) => Alternates(t, on)
      BY <1>1, <2>1, SettledGrows
    <3> QED BY <1>1, <1>2, <1>4, <1>8, <3>1
  <2>3. (Settled(t, on, m) => Settled(t, on2, m)) /\ Alternates(t, on2)
    BY <2>1, <2>2, SettledWeakens
  <2> QED BY <1>4, <1>8, <2>2, <2>3 DEF Calm
<1>9. ASSUME NEW f, Grows(up'[c], up[c], f), attached' = attached, c \in open \intersect served,
             pc[c] \notin {"attached", "gone"}, pc'[c] = "attached"
      PROVE  /\ Alternates(t, on2)
             /\ c \in open' \intersect served' /\ pc'[c] \notin {"attached", "gone"} => Settled(t, on2, m)
  <2>1. Grows(t, s, f) /\ on2 = on /\ Settled(s, on, l)
    BY <1>1, <1>2, <1>3, <1>4, <1>9
  <2> QED BY <1>1, <1>4, <1>9, <2>1, SettledGrows
<1> QED BY <1>6, <1>7, <1>8, <1>9 DEF Turned

\* Nothing moves between the host and the one that streams.
Still ==
  /\ UNCHANGED <<attached, live, hpc, conns>> /\ (sess => sess')
  /\ served' \subseteq served /\ open' \subseteq open /\ (hp' # "done" => hp # "done")
  /\ \A c \in Clients : pc'[c] \in {"off", "spawned"} => pc[c] \in {"off", "spawned"}

LEMMA StreamsKept ==
  ASSUME TypeOK, TypeOK', StreamInv, Still, \A c \in Clients : Turned(c)
  PROVE  StreamInv'
<1>1. \A c \in Clients : Turns(c)'
  BY TurnsKept DEF StreamInv, Still
<1>2. Streaming'
  BY DEF StreamInv, Streaming, Still, TypeOK, HostTypes, RunTypes
<1>3. OneStream'
  BY DEF StreamInv, OneStream, Still
<1> QED BY <1>1, <1>2, <1>3 DEF StreamInv

\* Steps of the host that read nothing.
LEMMA HostStream ==
  ASSUME TypeOK, TypeOK', StreamInv,
         \/ Watchdog \/ SessionEnded \/ ShellEnds \/ DialStart \/ AskPrompt \/ TakeReply \/ DialOrphaned
         \/ AuthReturns \/ DialFailed \/ DialKept \/ DialInstalled
         \/ \E e \in Execs : ExecStart(e) \/ ExecEnds(e) \/ ExecOrphaned(e)
  PROVE  StreamInv'
<1>0. sess => sess'
  <2>1. CASE DialInstalled
    BY <2>1 DEF DialInstalled
  <2>2. CASE ~DialInstalled
    <3>1. sess' = sess
      BY <2>2 DEF Watchdog, SessionEnded, ShellEnds, DialStart, AskPrompt, TakeReply, DialOrphaned,
                  AuthReturns, DialFailed, DialKept, ExecStart, ExecEnds, ExecOrphaned, procVars
    <3> QED BY <3>1
  <2> QED BY <2>1, <2>2
<1>1. UNCHANGED <<up, served, remoteVars, connVars>>
  BY DEF Watchdog, SessionEnded, ShellEnds, DialStart, AskPrompt, TakeReply, DialOrphaned, AuthReturns,
         DialFailed, DialKept, DialInstalled, ExecStart, ExecEnds, ExecOrphaned
<1>2. hp' # "done" => hp # "done"
  <2>1. ShutDown \/ UNCHANGED <<hp, down>> \/ hp # "done"
    BY DEF Watchdog, SessionEnded, ShellEnds, DialStart, AskPrompt, TakeReply, DialOrphaned, AuthReturns,
         DialFailed, DialKept, DialInstalled, ExecStart, ExecEnds, ExecOrphaned, procVars
  <2> QED BY <2>1, ShutDownIs
<1>3. Still
  <2>1. UNCHANGED <<attached, live, hpc, conns, served, open, pc>>
    BY <1>1 DEF remoteVars, connVars
  <2> QED BY <1>0, <1>2, <2>1 DEF Still
<1>4. \A c \in Clients : Turned(c)
  BY <1>1 DEF Turned, Calm, remoteVars, connVars
<1> QED BY <1>3, <1>4, StreamsKept

\* Frames that do not move the stream.
LEMMA HandleStream ==
  ASSUME TypeOK, TypeOK', StreamInv, NEW c \in Clients,
         HandleInfo(c) \/ HandleDial(c) \/ HandleReply(c) \/ HandleExec(c) \/ HandleCancel(c) \/ HandleKill(c)
  PROVE  StreamInv'
<1>0. UNCHANGED <<sess, served, remoteVars, connVars>>
  BY DEF HandleInfo, HandleDial, HandleReply, HandleExec, HandleCancel, HandleKill, procVars
<1>1. Reads(c, Head(up[c]).kind) /\ Head(up[c]).kind \notin {"attach", "detach"}
  BY DEF HandleInfo, HandleDial, HandleReply, HandleExec, HandleCancel, HandleKill, Reads
<1>2. hp # "done" /\ Shrinks(up'[c], up[c]) /\ \A b \in Clients : b # c => up'[b] = up[b]
  BY <1>1, ReadsIs
<1>3. up[c][1].kind \notin {"attach", "detach"}
  BY <1>1, ReadsIs
<1>4. Still
  <2>1. UNCHANGED <<attached, live, hpc, conns, sess, served, open, pc>> /\ hp # "done"
    BY <1>0, <1>2 DEF remoteVars, connVars
  <2> QED BY <2>1 DEF Still
<1>5. \A b \in Clients : Turned(b)
  BY <1>0, <1>2, <1>3 DEF Turned, Calm, remoteVars, connVars
<1> QED BY <1>4, <1>5, StreamsKept

\* Steps of a run that send nothing.
LEMMA RunStream ==
  ASSUME TypeOK, TypeOK', StreamInv,
         \/ \E e \in Execs : ExecReturns(e)
         \/ \E c \in Clients :
              \/ ConnectFails(c) \/ DialAnswered(c) \/ DialAbandoned(c) \/ ProbeFails(c) \/ Enlist(c)
              \/ ReadCtl(c) \/ ReadPrompt(c) \/ ReadExecEnd(c) \/ ReadEnded(c) \/ ReadFails(c)
              \/ Killed(c) \/ Quit(c)
  PROVE  StreamInv'
<1>1. UNCHANGED <<hp, sess, up, served, connVars>>
  BY DEF ExecReturns, ConnectFails, DialAnswered, DialAbandoned, ProbeFails, Enlist, ReadCtl, ReadPrompt,
         ReadExecEnd, ReadEnded, ReadFails, Killed, Quit, procVars
<1>2. open' \subseteq open
  BY DEF ExecReturns, ConnectFails, DialAnswered, DialAbandoned, ProbeFails, Enlist, ReadCtl, ReadPrompt,
         ReadExecEnd, ReadEnded, ReadFails, Killed, Quit, CloseConn, remoteVars
<1>3. \A c \in Clients : /\ pc'[c] \in {"off", "spawned"} => pc[c] \in {"off", "spawned"}
                         /\ pc'[c] \notin {"attached", "gone"} => pc[c] \notin {"attached", "gone"}
  <2>1. \/ pc' = pc
        \/ \E c \in Clients : Goes(c, "gone")
        \/ \E c \in Clients : /\ pc[c] \notin {"attached", "gone"}
                              /\ Goes(c, "failed") \/ Goes(c, "dialled") \/ Goes(c, "listed")
    BY DEF ExecReturns, ConnectFails, DialAnswered, DialAbandoned, ProbeFails, Enlist, ReadCtl, ReadPrompt,
         ReadExecEnd, ReadEnded, ReadFails, Killed, Quit, remoteVars
  <2>2. pc \in [Clients -> {"off", "spawned", "dialing", "probing", "dialled", "listed", "attached",
                         "killing", "failed", "gone"}]
    BY DEF TypeOK, RunTypes
  <2> QED BY <2>1, <2>2 DEF Goes
<1>4. Still
  BY <1>1, <1>2, <1>3 DEF Still, connVars
<1>5. \A c \in Clients : Turned(c)
  BY <1>1, <1>2, <1>3 DEF Turned, Calm, connVars
<1> QED BY <1>4, <1>5, StreamsKept

\* Steps of a run that send a frame.
LEMMA AskStream ==
  ASSUME TypeOK, TypeOK', StreamInv, NEW c \in Clients, NEW f \in UpFrame, up' = Asks(c, f),
         UNCHANGED <<hp, sess, served, connVars>>, open' \subseteq open,
         \/ /\ f.kind # "attach"
            /\ \/ pc' = pc
               \/ pc[c] \notin {"attached", "gone"}
                  /\ (Goes(c, "failed") \/ Goes(c, "dialled") \/ Goes(c, "killing"))
               \/ f.kind = "detach" /\ pc[c] = "attached" /\ Goes(c, "listed")
         \/ f.kind = "attach" /\ pc[c] = "listed" /\ Goes(c, IF c \in open THEN "attached" ELSE "listed")
  PROVE  StreamInv'
<1>1. pc \in [Clients -> {"off", "spawned", "dialing", "probing", "dialled", "listed", "attached",
                         "killing", "failed", "gone"}]
  BY DEF TypeOK, RunTypes
<1>2. \A b \in Clients : /\ pc'[b] \in {"off", "spawned"} => pc[b] \in {"off", "spawned"}
                         /\ b # c => pc'[b] = pc[b]
  BY <1>1 DEF Goes
<1>3. Still
  BY <1>2 DEF Still, connVars
<1>4. ASSUME NEW b \in Clients, b # c PROVE Turned(b)
  <2>1. up'[b] = up[b]
    BY <1>4, AsksIs
  <2> QED BY <1>2, <1>4, <2>1 DEF Turned, Calm, connVars
<1>5. Turned(c)
  <2>1. CASE c \in open \intersect served
    <3>1. Grows(up'[c], up[c], f) /\ attached' = attached
      BY <2>1, AsksIs DEF connVars
    <3>2. f.kind = "attach" => pc[c] = "listed" /\ pc'[c] = "attached"
      BY <1>1, <2>1 DEF Goes
    <3>3. f.kind # "attach" => f.kind = "detach" \/ (pc'[c] \notin {"attached", "gone"} => pc[c] \notin {"attached", "gone"})
      BY <1>1 DEF Goes
    <3> QED BY <2>1, <3>1, <3>2, <3>3 DEF Turned, Calm
  <2>2. CASE c \notin open \intersect served
    <3>1. up'[c] = up[c] /\ attached' = attached /\ c \notin open' \intersect served'
      BY <2>2, AsksIs DEF connVars
    <3> QED BY <3>1 DEF Turned, Calm
  <2> QED BY <2>1, <2>2
<1> QED BY <1>3, <1>4, <1>5, StreamsKept

\* conn.attach: the client that may stream was neither attached nor left with a writer.
LEMMA AttachStream ==
  ASSUME TypeOK, TypeOK', StreamInv, NEW c \in Clients, HandleAttach(c)
  PROVE  StreamInv'
<1>0. UNCHANGED <<hp, sess, conns, live, served, remoteVars>> /\ Reads(c, "attach")
  BY DEF HandleAttach, procVars
<1>1. /\ hp # "done" /\ Shrinks(up'[c], up[c]) /\ \A b \in Clients : b # c => up'[b] = up[b]
      /\ up[c][1].kind = "attach" /\ 1 \in 1..Len(up[c]) /\ c \in conns \intersect served /\ hpc[c] = "read"
  BY <1>0, ReadsIs
<1>2. attached' \in {attached, c}
  BY DEF HandleAttach
<1>3. \A b \in Clients : Turned(b)
  <2>1. ASSUME NEW b \in Clients, b # c PROVE Turned(b)
    BY <1>0, <1>1, <1>2, <2>1 DEF Turned, Calm, remoteVars
  <2>2. Turned(c)
    BY <1>0, <1>1 DEF Turned, Calm, remoteVars
  <2> QED BY <2>1, <2>2
<1>4. CASE ~MayAttach(c)
  <2>1. UNCHANGED <<attached, hpc>>
    BY <1>4 DEF HandleAttach
  <2>2. Still
    BY <1>0, <2>1 DEF Still, remoteVars
  <2> QED BY <1>3, <2>2, StreamsKept
<1>5. CASE MayAttach(c)
  <2>1. sess /\ attached \in {None, c} /\ attached' = c /\ hpc' = [hpc EXCEPT ![c] = "golive"]
    BY <1>5 DEF HandleAttach, MayAttach
  <2>2. attached = None /\ c # None
    <3>1. Settled(up[c], attached = c, 1 - 1)
      BY <1>1 DEF StreamInv, Turns, Alternates
    <3>2. attached # c
      BY <3>1 DEF Settled
    <3> QED BY <2>1, <3>2, SessionAssumption
  <2>3. live # None => live # c /\ hpc[live] \in {"unset", "dropped"}
    BY <1>1, <2>2 DEF StreamInv, OneStream
  <2>4. hpc \in [Clients -> {"read", "golive", "unset", "dropped", "droppedEarly", "droppedLast", "gone"}]
        /\ live \in Clients \union {None}
    BY DEF TypeOK, HostTypes
  <2>5. Streaming'
    <3>1. \A b \in Clients : hpc'[b] = "golive" => b = c
      BY <2>1, <2>2, <2>4, SessionAssumption DEF StreamInv, Streaming
    <3>2. live # c
      BY <2>2, <2>3
    <3>3. hpc'[c] = "golive"
      BY <2>1, <2>4
    <3> QED BY <1>0, <1>1, <2>1, <3>1, <3>2, <3>3 DEF StreamInv, Streaming, remoteVars
  <2>6. OneStream'
    <3>1. live # None => hpc'[live] \in {"unset", "dropped"}
      BY <2>1, <2>3, <2>4
    <3>2. hpc'[c] # "read"
      BY <2>1, <2>4
    <3> QED BY <1>0, <2>1, <3>1, <3>2 DEF OneStream
  <2>7. \A b \in Clients : Turns(b)'
    BY <1>0, <1>3, TurnsKept DEF StreamInv, remoteVars
  <2> QED BY <2>5, <2>6, <2>7 DEF StreamInv
<1> QED BY <1>4, <1>5

\* The frames stay, and nobody is attached who was not.
LEMMA TurnsStay ==
  ASSUME TypeOK, TypeOK', StreamInv, UNCHANGED <<up, pc, open>>, served' \subseteq served,
         attached' \in {attached, None}
  PROVE  \A c \in Clients : Turns(c)'
<1>1. \A c \in Clients : Turned(c)
  BY SessionAssumption DEF Turned, Calm
<1> QED BY <1>1, TurnsKept DEF StreamInv

LEMMA GoLiveStream ==
  ASSUME TypeOK, TypeOK', StreamInv, NEW c \in Clients, GoLive(c)
  PROVE  StreamInv'
<1>1. /\ UNCHANGED <<hp, sess, conns, up, served, remoteVars>> /\ hpc[c] = "golive"
      /\ hpc' = [hpc EXCEPT ![c] = "read"] /\ c # None
      /\ (live' = c /\ attached' = attached) \/ (c \notin open /\ attached' = None /\ live' = live)
  BY SessionAssumption DEF GoLive, procVars
<1>2. hpc \in [Clients -> {"read", "golive", "unset", "dropped", "droppedEarly", "droppedLast", "gone"}]
      /\ live \in Clients \union {None}
  BY DEF TypeOK, HostTypes
<1>3. /\ attached = c /\ live # c /\ sess /\ c \in conns
      /\ live # None => hpc[live] \in {"unset", "dropped"}
      /\ \A b \in Clients : hpc[b] = "golive" => b = c
  BY <1>1 DEF StreamInv, Streaming, OneStream
<1>4. /\ hpc'[c] = "read" /\ \A b \in Clients : b # c => hpc'[b] = hpc[b]
      /\ \A b \in Clients : hpc'[b] # "golive"
  BY <1>1, <1>2, <1>3
<1>5. Streaming'
  BY <1>1, <1>3, <1>4 DEF StreamInv, Streaming, remoteVars
<1>6. OneStream'
  <2>1. CASE live' = c /\ attached' = attached
    <3>1. attached' = live'
      BY <1>3, <2>1
    <3> QED BY <2>1, <3>1 DEF OneStream
  <2>2. CASE attached' = None /\ live' = live
    <3>1. live # None => hpc'[live] \in {"unset", "dropped"}
      BY <1>2, <1>3, <1>4
    <3>2. \A b \in open' \intersect served' : b # None
      BY <1>1, SessionAssumption DEF TypeOK, RunTypes, remoteVars
    <3> QED BY <2>2, <3>1, <3>2 DEF OneStream
  <2> QED BY <1>1, <2>1, <2>2
<1>7. \A b \in Clients : Turns(b)'
  BY <1>1, TurnsStay DEF remoteVars
<1> QED BY <1>5, <1>6, <1>7 DEF StreamInv

LEMMA DetachStream ==
  ASSUME TypeOK, TypeOK', StreamInv, NEW c \in Clients, HandleDetach(c)
  PROVE  StreamInv'
<1>0. UNCHANGED <<hp, sess, conns, live, served, remoteVars>> /\ Reads(c, "detach")
      /\ attached' = (IF attached = c THEN None ELSE attached)
      /\ hpc' = (IF sess THEN [hpc EXCEPT ![c] = "unset"] ELSE hpc)
  BY DEF HandleDetach, procVars
<1>1. /\ hp # "done" /\ Shrinks(up'[c], up[c]) /\ \A b \in Clients : b # c => up'[b] = up[b]
      /\ c \in conns \intersect served /\ hpc[c] = "read" /\ c # None
  BY <1>0, ReadsIs, SessionAssumption
<1>2. hpc \in [Clients -> {"read", "golive", "unset", "dropped", "droppedEarly", "droppedLast", "gone"}]
      /\ live \in Clients \union {None} /\ attached \in Clients \union {None}
  BY DEF TypeOK, HostTypes
<1>3. attached' # c /\ attached' \in {attached, None}
  BY <1>0, <1>1
<1>4. \A b \in Clients : Turned(b)
  <2>1. ASSUME NEW b \in Clients, b # c PROVE Turned(b)
    BY <1>0, <1>1, <1>3, <2>1, SessionAssumption DEF Turned, Calm, remoteVars
  <2>2. Turned(c)
    BY <1>0, <1>1, <1>3 DEF Turned, Calm, remoteVars
  <2> QED BY <2>1, <2>2
<1>5. \A b \in Clients : Turns(b)'
  BY <1>0, <1>4, TurnsKept DEF StreamInv, remoteVars
<1>6. \A b \in Clients : (hpc'[b] = hpc[b] /\ b # c) \/ (b = c /\ hpc'[b] = (IF sess THEN "unset" ELSE "read"))
  BY <1>0, <1>1, <1>2
<1>7. Streaming'
  BY <1>0, <1>1, <1>2, <1>3, <1>6 DEF StreamInv, Streaming, remoteVars
<1>8. OneStream'
  <2>1. live # None => attached' = live \/ hpc'[live] \in {"unset", "dropped"}
    BY <1>0, <1>1, <1>2, <1>6 DEF StreamInv, Streaming, OneStream
  <2>2. ASSUME NEW b \in open' \intersect served', attached' = b, hpc'[b] = "read", hp' # "done"
        PROVE  live' = b
    <3>1. b \in Clients /\ b # c /\ attached = b
      BY <1>0, <1>2, <1>3, <2>2, SessionAssumption DEF remoteVars, TypeOK, RunTypes
    <3> QED BY <1>0, <1>6, <2>2, <3>1 DEF StreamInv, OneStream, remoteVars
  <2> QED BY <1>0, <2>1, <2>2 DEF OneStream
<1> QED BY <1>5, <1>7, <1>8 DEF StreamInv

LEMMA WriterStream ==
  ASSUME TypeOK, TypeOK', StreamInv, LiveFails \/ \E c \in Clients : UnsetLive(c)
  PROVE  StreamInv'
<1>1. UNCHANGED <<hp, sess, conns, attached, up, served, remoteVars>>
  BY DEF LiveFails, UnsetLive, procVars
<1>2. \A c \in Clients : Turns(c)'
  BY <1>1, TurnsStay DEF remoteVars
<1>3. hpc \in [Clients -> {"read", "golive", "unset", "dropped", "droppedEarly", "droppedLast", "gone"}]
      /\ live \in Clients \union {None} /\ attached \in Clients \union {None}
  BY DEF TypeOK, HostTypes
<1>4. CASE LiveFails
  <2>1. live \notin open \intersect served /\ live' = None /\ hpc' = hpc
    BY <1>4 DEF LiveFails
  <2>2. Streaming'
    BY <1>1, <2>1, SessionAssumption DEF StreamInv, Streaming, remoteVars
  <2>3. OneStream'
    BY <1>1, <2>1 DEF StreamInv, OneStream, remoteVars
  <2> QED BY <1>2, <2>2, <2>3 DEF StreamInv
<1>5. ASSUME NEW c \in Clients, UnsetLive(c) PROVE StreamInv'
  <2>1. hpc[c] = "unset" /\ hpc' = [hpc EXCEPT ![c] = "read"] /\ live' = (IF live = c THEN None ELSE live)
    BY <1>5 DEF UnsetLive, LiveWithout
  <2>2. attached # c
    BY <2>1, SessionAssumption DEF StreamInv, Streaming
  <2>3. hpc'[c] = "read" /\ \A b \in Clients : b # c => hpc'[b] = hpc[b]
    BY <1>3, <2>1
  <2>4. Streaming'
    BY <1>1, <1>3, <2>1, <2>2, <2>3, SessionAssumption DEF StreamInv, Streaming, remoteVars
  <2>5. OneStream'
    <3>1. live' # None => attached' = live' \/ hpc'[live'] \in {"unset", "dropped"}
      BY <1>1, <1>3, <2>1, <2>3 DEF StreamInv, OneStream
    <3>2. ASSUME NEW b \in open' \intersect served', attached' = b, hpc'[b] = "read", hp' # "done"
          PROVE  live' = b
      <4>1. b \in Clients /\ b # c
        BY <1>1, <2>2, <3>2 DEF remoteVars, TypeOK, RunTypes
      <4> QED BY <1>1, <2>1, <2>3, <3>2, <4>1 DEF StreamInv, OneStream, remoteVars
    <3> QED BY <3>1, <3>2 DEF OneStream
  <2> QED BY <1>2, <2>4, <2>5 DEF StreamInv
<1> QED BY <1>4, <1>5

LEMMA DropStream ==
  ASSUME TypeOK, TypeOK', StreamInv, NEW c \in Clients, Drop(c) \/ Dropped(c)
  PROVE  StreamInv'
<1>1. UNCHANGED <<sess, up, remoteVars>> /\ served' \subseteq served /\ hp # "done" /\ c # None
  BY SessionAssumption DEF Drop, Dropped, procVars
<1>3. hpc \in [Clients -> {"read", "golive", "unset", "dropped", "droppedEarly", "droppedLast", "gone"}]
      /\ live \in Clients \union {None} /\ attached \in Clients \union {None}
  BY DEF TypeOK, HostTypes
<1>4. CASE Drop(c)
  <2>1. /\ UNCHANGED <<hp, live, served>> /\ conns' = conns \ {c} /\ hpc[c] = "read"
        /\ attached' = (IF attached = c THEN None ELSE attached)
        /\ hpc' = [hpc EXCEPT ![c] = IF sess THEN "dropped"
                                 ELSE IF conns = {c} THEN "droppedLast" ELSE "droppedEarly"]
    BY <1>4 DEF Drop, procVars
  <2>2. \A b \in Clients : Turns(b)'
    BY <1>1, <2>1, TurnsStay DEF remoteVars
  <2>3. /\ hpc'[c] \in {"dropped", "droppedLast", "droppedEarly"} /\ (sess => hpc'[c] = "dropped")
        /\ \A b \in Clients : b # c => hpc'[b] = hpc[b]
    BY <1>3, <2>1
  <2>4. Streaming'
    BY <1>1, <1>3, <2>1, <2>3 DEF StreamInv, Streaming, remoteVars
  <2>5. OneStream'
    <3>1. live' # None => attached' = live' \/ hpc'[live'] \in {"unset", "dropped"}
      BY <1>3, <2>1, <2>3 DEF StreamInv, OneStream, Streaming
    <3>2. ASSUME NEW b \in open' \intersect served', attached' = b, hpc'[b] = "read", hp' # "done"
          PROVE  live' = b
      <4>1. b \in Clients /\ b # c /\ attached = b
        BY <1>1, <2>1, <2>3, <3>2, SessionAssumption DEF remoteVars, TypeOK, RunTypes
      <4> QED BY <1>1, <2>1, <2>3, <3>2, <4>1 DEF StreamInv, OneStream, remoteVars
    <3> QED BY <3>1, <3>2 DEF OneStream
  <2> QED BY <2>2, <2>4, <2>5 DEF StreamInv
<1>5. CASE Dropped(c)
  <2>1. /\ UNCHANGED <<conns, attached>> /\ hpc[c] \in {"dropped", "droppedEarly", "droppedLast"}
        /\ hpc' = [hpc EXCEPT ![c] = "gone"]
        /\ live' = (IF hpc[c] = "dropped" /\ live = c THEN None ELSE live)
    BY <1>5 DEF Dropped, LiveWithout
  <2>2. \A b \in Clients : Turns(b)'
    BY <1>1, <2>1, TurnsStay DEF remoteVars
  <2>3. hpc'[c] = "gone" /\ \A b \in Clients : b # c => hpc'[b] = hpc[b]
    BY <1>3, <2>1
  <2>4. attached # c /\ (live # None => live = attached \/ hpc[live] \in {"unset", "dropped"})
    BY <1>1, <2>1 DEF StreamInv, Streaming, OneStream
  <2>5. live' # c
    BY <1>1, <2>1, <2>4
  <2>6. Streaming'
    <3>1. attached # None \/ live' # None => sess'
      BY <1>1, <2>1 DEF StreamInv, Streaming
    <3>2. attached # None => attached \in conns' /\ hpc'[attached] \in {"read", "golive"}
      BY <1>3, <2>1, <2>3, <2>4 DEF StreamInv, Streaming
    <3>3. \A b \in Clients : hpc'[b] = "golive" => attached = b /\ live' # b
      <4> SUFFICES ASSUME NEW b \in Clients, hpc'[b] = "golive" PROVE attached = b /\ live' # b
        OBVIOUS
      <4>1. b # c /\ hpc[b] = "golive"
        BY <2>3
      <4>2. attached = b /\ live # b /\ b # None
        BY <4>1, SessionAssumption DEF StreamInv, Streaming
      <4> QED BY <2>1, <4>2
    <3>4. \A b \in conns' \union open' \union served' : pc'[b] \notin {"off", "spawned"}
      BY <1>1, <2>1 DEF StreamInv, Streaming, remoteVars
    <3> QED BY <2>1, <3>1, <3>2, <3>3, <3>4 DEF Streaming
  <2>7. OneStream'
    <3>1. live' # None => attached' = live' \/ hpc'[live'] \in {"unset", "dropped"}
      BY <1>3, <2>1, <2>3, <2>4, <2>5
    <3>2. ASSUME NEW b \in open' \intersect served', attached' = b, hpc'[b] = "read", hp' # "done"
          PROVE  live' = b
      <4>1. b \in Clients /\ b # c /\ b \in open \intersect served /\ attached = b
        BY <1>1, <2>1, <2>4, <3>2 DEF remoteVars, TypeOK, RunTypes
      <4>2. hpc[b] = "read"
        BY <2>3, <3>2, <4>1
      <4>3. live = b
        BY <1>1, <4>1, <4>2 DEF StreamInv, OneStream
      <4> QED BY <2>1, <4>1, <4>3
    <3> QED BY <3>1, <3>2 DEF OneStream
  <2> QED BY <2>2, <2>6, <2>7 DEF StreamInv
<1> QED BY <1>4, <1>5

LEMMA ConnectStream ==
  ASSUME TypeOK, TypeOK', StreamInv, NEW c \in Clients, Connect(c)
  PROVE  StreamInv'
<1>1. /\ UNCHANGED <<hp, sess, attached, live, hpc>> /\ pc[c] \in {"off", "spawned"} /\ c # None
      /\ conns' = conns \union {c} /\ open' = open \union {c} /\ served' = served \union {c}
      /\ Goes(c, IF c = Spawner THEN "dialing" ELSE "probing")
  BY SessionAssumption DEF Connect, procVars
<1>2. PICK f \in UpFrame : /\ f = Frame(IF c = Spawner THEN "dial" ELSE "info", 0)
                           /\ f.kind \in {"dial", "info"} /\ up' = [up EXCEPT ![c] = <<f>>]
  <2>1. PICK f \in UpFrame : f = Frame(IF c = Spawner THEN "dial" ELSE "info", 0)
    BY UpFrames
  <2>2. f.kind \in {"dial", "info"}
    BY <2>1, FrameIs
  <2>3. up' = [up EXCEPT ![c] = <<f>>]
    BY <2>1 DEF Connect
  <2> QED BY <2>1, <2>2, <2>3
<1>3. pc \in [Clients -> {"off", "spawned", "dialing", "probing", "dialled", "listed", "attached",
                         "killing", "failed", "gone"}] /\ up \in [Clients -> Seq(UpFrame)]
  BY DEF TypeOK, RunTypes, WireTypes
<1>4. c \notin conns \union open \union served /\ attached # c
  BY <1>1 DEF StreamInv, Streaming
<1>5. pc'[c] \in {"dialing", "probing"} /\ \A b \in Clients : b # c => pc'[b] = pc[b] /\ up'[b] = up[b]
  BY <1>1, <1>2, <1>3 DEF Goes
<1>6. Streaming'
  BY <1>1, <1>5 DEF StreamInv, Streaming, TypeOK, HostTypes, RunTypes
<1>7. OneStream'
  BY <1>1, <1>4 DEF StreamInv, OneStream
<1>8. Turns(c)'
  <2>1. up'[c] = <<f>> /\ Len(<<f>>) = 1 /\ <<f>>[1] = f
    BY <1>2, <1>3
  <2>2. Alternates(<<f>>, FALSE) /\ Settled(<<f>>, FALSE, 1)
    BY <1>2, <2>1 DEF Alternates, Settled
  <2>3. (attached' = c) = FALSE
    BY <1>1, <1>4
  <2> QED BY <2>1, <2>2, <2>3 DEF Turns
<1>9. ASSUME NEW b \in Clients, b # c PROVE Turns(b)'
  <2>1. up'[b] = up[b] /\ pc'[b] = pc[b] /\ attached' = attached
        /\ (b \in open' \intersect served' <=> b \in open \intersect served)
    BY <1>1, <1>5, <1>9
  <2> QED BY <2>1 DEF StreamInv, Turns
<1> QED BY <1>6, <1>7, <1>8, <1>9 DEF StreamInv

LEMMA GoneStream ==
  ASSUME TypeOK, TypeOK', StreamInv, Exit \/ Crash
  PROVE  StreamInv'
<1>1. ProcessGone
  BY DEF Exit, Crash
<1>2. /\ attached' = None /\ live' = None /\ conns' = {} /\ served' = {} /\ pc' = pc /\ open' = open
      /\ hpc' = [c \in Clients |-> "gone"] /\ up' = [c \in Clients |-> <<>>]
  BY <1>1 DEF ProcessGone, remoteVars
<1>3. Streaming' /\ OneStream'
  BY <1>2 DEF StreamInv, Streaming, OneStream
<1>4. ASSUME NEW c \in Clients PROVE Turns(c)'
  <2>1. Len(up'[c]) = 0 /\ (attached' = c) = FALSE
    BY <1>2, SessionAssumption
  <2>2. Alternates(up'[c], FALSE)
    BY <2>1, EmptySettled
  <2> QED BY <1>2, <2>1, <2>2 DEF Turns
<1> QED BY <1>3, <1>4 DEF StreamInv

LEMMA StreamStep == TypeOK /\ TypeOK' /\ StreamInv /\ [Next]_vars => StreamInv'
<1> SUFFICES ASSUME TypeOK, TypeOK', StreamInv, [Next]_vars PROVE StreamInv'
  OBVIOUS
<1>1. CASE UNCHANGED vars
  <2>1. Still /\ \A c \in Clients : Turned(c)
    BY <1>1 DEF Still, Turned, Calm, vars, procVars, connVars, remoteVars
  <2> QED BY <2>1, StreamsKept
<1>2. CASE HostStep
  BY <1>2, GoneStream, HostStream, HandleStream, AttachStream, GoLiveStream, DetachStream, WriterStream,
     DropStream DEF HostStep
<1>3. ASSUME NEW c \in Clients, Probed(c) PROVE StreamInv'
  <2>1. /\ UNCHANGED <<hp, sess, served, connVars>> /\ pc[c] = "probing"
        /\ Goes(c, "failed") \/ Goes(c, "dialled")
    BY <1>3 DEF Probed
  <2>2. open' \subseteq open
    BY <1>3 DEF Probed, CloseConn
  <2>3. PICK f \in UpFrame : f = Frame("kill", 0) /\ f.kind = "kill"
    BY UpFrames, FrameIs
  <2>4. up' = Asks(c, f) \/ up' = up
    BY <1>3, <2>3 DEF Probed, RetireFrame
  <2>5. CASE up' = Asks(c, f)
    BY <2>1, <2>2, <2>3, <2>5, AskStream
  <2>6. CASE up' = up
    <3>1. pc \in [Clients -> {"off", "spawned", "dialing", "probing", "dialled", "listed", "attached",
                         "killing", "failed", "gone"}]
      BY DEF TypeOK, RunTypes
    <3>2. \A b \in Clients : pc'[b] = pc[b] \/ (b = c /\ pc[b] = "probing" /\ pc'[b] \in {"failed", "dialled"})
      BY <2>1, <3>1 DEF Goes
    <3>3. Still
      BY <2>1, <2>2, <3>2 DEF Still, connVars
    <3>4. \A b \in Clients : Turned(b)
      BY <2>1, <2>2, <2>6, <3>2 DEF Turned, Calm, connVars
    <3> QED BY <3>3, <3>4, StreamsKept
  <2> QED BY <2>4, <2>5, <2>6
<1>4. ASSUME NEW c \in Clients, RemoteStep(c), ~Probed(c) PROVE StreamInv'
  BY <1>4, RunStream DEF RemoteStep
<1>5. ASSUME NEW c \in Clients, NEW ok \in BOOLEAN, AnswerPrompt(c, ok) PROVE StreamInv'
  <2>1. PICK f \in UpFrame : f = Frame("reply", [n |-> prompt, ok |-> ok]) /\ f.kind = "reply"
    <3>1. [n |-> prompt, ok |-> ok] \in Reply
      BY DEF TypeOK, RunTypes, Reply
    <3> QED BY <3>1, UpFrames, FrameIs
  <2>2. up' = Asks(c, f) /\ UNCHANGED <<hp, sess, served, connVars, pc, open>>
    BY <1>5, <2>1 DEF AnswerPrompt, procVars, remoteVars
  <2> QED BY <2>1, <2>2, AskStream
<1>6. ASSUME NEW c \in Clients, Attach(c) \/ Detach(c) \/ Kill(c) PROVE StreamInv'
  <2>1. PICK k \in {"attach", "detach", "kill"} :
          /\ up' = Asks(c, Frame(k, 0)) /\ (k = "attach" => Attach(c)) /\ (k = "detach" => Detach(c))
          /\ (k = "kill" => Kill(c))
    BY <1>6 DEF Attach, Detach, Kill
  <2>2. PICK f \in UpFrame : f = Frame(k, 0) /\ f.kind = k
    BY UpFrames, FrameIs
  <2>3. UNCHANGED <<hp, sess, served, connVars, open>>
    BY <1>6 DEF Attach, Detach, Kill, procVars
  <2>4. /\ k = "attach" => pc[c] = "listed" /\ Goes(c, IF c \in open THEN "attached" ELSE "listed")
        /\ k = "detach" => pc[c] = "attached" /\ Goes(c, "listed")
        /\ k = "kill" => pc[c] = "listed" /\ Goes(c, "killing")
    BY <2>1 DEF Attach, Detach, Kill, Listed
  <2> QED BY <2>1, <2>2, <2>3, <2>4, AskStream
<1>7. ASSUME NEW c \in Clients, NEW e \in Execs, Exec(c, e) PROVE StreamInv'
  <2>1. PICK f \in UpFrame : f = Frame("exec", e) /\ f.kind = "exec"
    BY UpFrames, FrameIs
  <2>2. UNCHANGED <<hp, sess, served, connVars, pc, open>> /\ (up' = Asks(c, f) \/ up' = up)
    BY <1>7, <2>1 DEF Exec, procVars, remoteVars
  <2>3. CASE up' = up
    <3>1. Still /\ \A b \in Clients : Turned(b)
      BY <2>2, <2>3 DEF Still, Turned, Calm, connVars
    <3> QED BY <3>1, StreamsKept
  <2> QED BY <2>1, <2>2, <2>3, AskStream
<1>8. ASSUME NEW e \in Execs, CancelExec(e) PROVE StreamInv'
  <2>1. PICK f \in UpFrame : f = Frame("cancel", e) /\ f.kind = "cancel"
    BY UpFrames, FrameIs
  <2>2. UNCHANGED <<hp, sess, served, connVars, pc, open>> /\ up' = Asks(By(e), f)
    BY <1>8, <2>1 DEF CancelExec, procVars, remoteVars
  <2>3. CASE By(e) \in Clients
    BY <2>1, <2>2, <2>3, AskStream
  <2>4. CASE By(e) \notin Clients
    <3>1. up' = up
      BY <2>2, <2>4 DEF Asks, TypeOK, RunTypes
    <3>2. Still /\ \A b \in Clients : Turned(b)
      BY <2>2, <3>1 DEF Still, Turned, Calm, connVars
    <3> QED BY <3>2, StreamsKept
  <2> QED BY <2>3, <2>4
<1>9. CASE World
  <2>1. Spawner \in Clients
    BY DEF Clients
  <2> QED BY <1>5, <1>6, <1>7, <1>8, <1>9, <2>1, GoneStream, HostStream, WriterStream, ConnectStream, RunStream
          DEF World
<1> QED BY <1>1, <1>2, <1>3, <1>4, <1>9 DEF Next

-----------------------------------------------------------------------------
(* The prompt a reply answers *)

\* No prompt is raised or answered: the places a prompt can be in only empty.
Quiet ==
  /\ asked' = asked /\ (prompt' = prompt \/ prompt' = 0) /\ (replies' = replies \/ replies' = None)
  /\ \/ dialPc' = dialPc \/ dialPc' \in {"failed", "over"}
     \/ dialPc \in Unasked /\ dialPc' \in Unasked
  /\ \A c \in Clients : Fewer(down'[c], down[c], "prompt") /\ Fewer(up'[c], up[c], "reply")

\* No request to dial is sent or read.
Undialled ==
  /\ dialPc' = dialPc \/ dialPc # "none"
  /\ hp' # "done" => hp # "done"
  /\ pc'[Spawner] \in {"off", "spawned"} => pc[Spawner] \in {"off", "spawned"}
  /\ \A c \in Clients : \/ up'[c] = up[c] \/ Shrinks(up'[c], up[c])
                        \/ \E f : Grows(up'[c], up[c], f) /\ f.kind # "dial"

LEMMA PlacesKept ==
  ASSUME TypeOK, PromptInv, Quiet
  PROVE  OnePrompt' /\ OnePlace'
<1>0. Spawner \in Clients /\ Adopters \subseteq Clients
  BY DEF Clients
<1>1. /\ (Prompted' => Prompted) /\ (Replied' => Replied)
      /\ OnlyOne(down'[Spawner], "prompt", asked) /\ OnlyOne(up'[Spawner], "reply", asked)
      /\ \A c \in Adopters : ~Has(down'[c], "prompt") /\ ~Has(up'[c], "reply")
  <2>1. (Prompted' => Prompted) /\ (Replied' => Replied)
    BY <1>0 DEF Quiet, Prompted, Replied, Fewer
  <2>2. OnlyOne(down'[Spawner], "prompt", asked) /\ OnlyOne(up'[Spawner], "reply", asked)
    BY <1>0 DEF Quiet, PromptInv, OnePrompt, Fewer
  <2>3. \A c \in Adopters : ~Has(down'[c], "prompt") /\ ~Has(up'[c], "reply")
    BY <1>0 DEF Quiet, PromptInv, OnePrompt, Fewer
  <2> QED BY <2>1, <2>2, <2>3
<1>2. OnePrompt'
  BY <1>1 DEF Quiet, PromptInv, OnePrompt
<1>3. OnePlace'
  BY <1>1 DEF Quiet, PromptInv, OnePlace, Unasked
<1> QED BY <1>2, <1>3

LEMMA DialsKept ==
  ASSUME TypeOK, TypeOK', PromptInv, Undialled
  PROVE  OneDial'
<1>1. ASSUME NEW c \in Clients, NEW i \in 1..Len(up'[c]), up'[c][i].kind = "dial"
      PROVE  i = 1 /\ c = Spawner /\ dialPc' = "none"
  <2>1. PICK s : s = up[c]
    OBVIOUS
  <2>2. PICK t : t = up'[c]
    OBVIOUS
  <2>3. PICK l \in Nat : l = Len(s)
    BY <2>1, WireIs
  <2>4. \A j \in 1..l : s[j].kind = "dial" => j = 1 /\ c = Spawner /\ dialPc = "none"
    BY <2>1, <2>3 DEF PromptInv, OneDial
  <2>5. i = 1 /\ c = Spawner /\ dialPc = "none"
    <3>1. CASE t = s
      BY <1>1, <2>2, <2>3, <2>4, <3>1
    <3>2. CASE Shrinks(t, s)
      <4>1. l = Len(t) + 1 /\ t[i] = s[i + 1] /\ i \in 1..Len(t) /\ Len(t) \in Nat
        <5>1. Len(t) \in Nat
          BY <2>2, LenProperties DEF TypeOK, WireTypes
        <5> QED BY <1>1, <2>2, <2>3, <3>2, <5>1 DEF Shrinks
      <4>2. i + 1 \in 1..l /\ i + 1 # 1
        BY <4>1
      <4> QED BY <1>1, <2>2, <2>4, <4>1, <4>2
    <3>3. ASSUME NEW f, Grows(t, s, f), f.kind # "dial" PROVE i = 1 /\ c = Spawner /\ dialPc = "none"
      <4>1. Len(t) = l + 1 /\ t[l + 1] = f /\ \A j \in 1..l : t[j] = s[j]
        BY <2>3, <3>3 DEF Grows
      <4>2. i \in 1..l
        BY <1>1, <2>2, <3>3, <4>1
      <4> QED BY <1>1, <2>2, <2>4, <4>1, <4>2
    <3> QED BY <2>1, <2>2, <3>1, <3>2, <3>3 DEF Undialled
  <2> QED BY <2>5 DEF Undialled
<1>2. pc'[Spawner] \in {"off", "spawned"} /\ hp' # "done" => dialPc' = "none"
  BY DEF Undialled, PromptInv, OneDial
<1> QED BY <1>1, <1>2 DEF OneDial

LEMMA PromptsKept ==
  ASSUME TypeOK, TypeOK', PromptInv, Quiet, Undialled
  PROVE  PromptInv'
BY PlacesKept, DialsKept DEF PromptInv

\* What a write of the host leaves of the prompts on their way.
LEMMA SentFewer ==
  ASSUME TypeOK, NEW c, NEW f \in DownFrame, f.kind # "prompt"
  PROVE  \A b \in Clients : Fewer(Sent(c, f)[b], down[b], "prompt")
BY SentIs, FewerGrows, FewerIsPartial

LEMMA ShutFewer ==
  ASSUME TypeOK, ShutDown \/ UNCHANGED <<hp, down>>
  PROVE  (\A b \in Clients : Fewer(down'[b], down[b], "prompt")) /\ (hp' # "done" => hp # "done")
<1>1. Frame("ended", 0).kind # "prompt"
  BY FrameIs
<1> QED BY <1>1, ShutDownIs, FewerGrows, FewerIsPartial

\* Steps of the host that read nothing and raise no prompt.
LEMMA HostPrompts ==
  ASSUME TypeOK, TypeOK', PromptInv,
         \/ Watchdog \/ SessionEnded \/ ShellEnds \/ DialStart \/ DialOrphaned
         \/ AuthReturns \/ DialFailed \/ DialKept \/ DialInstalled \/ LiveFails
         \/ \E e \in Execs : ExecStart(e) \/ ExecEnds(e) \/ ExecOrphaned(e)
         \/ \E c \in Clients : GoLive(c) \/ UnsetLive(c) \/ Drop(c) \/ Dropped(c)
  PROVE  PromptInv'
<1>1. UNCHANGED <<up, asked, replies, remoteVars, userVars>>
  BY DEF Watchdog, SessionEnded, ShellEnds, DialStart, DialOrphaned, AuthReturns, DialFailed, DialKept,
         DialInstalled, LiveFails, ExecStart, ExecEnds, ExecOrphaned, GoLive, UnsetLive, Drop, Dropped, dialVars
<1>2. \/ dialPc' = dialPc
      \/ dialPc \in {"auth", "asking", "failed", "made", "kept"} /\ dialPc' \in {"failed", "over"}
      \/ dialPc \in Unasked \ {"none"} /\ dialPc' \in Unasked
  BY DEF Watchdog, SessionEnded, ShellEnds, DialStart, DialOrphaned, AuthReturns, DialFailed, DialKept, Unasked,
         DialInstalled, LiveFails, ExecStart, ExecEnds, ExecOrphaned, GoLive, UnsetLive, Drop, Dropped, dialVars
<1>3. (\A c \in Clients : Fewer(down'[c], down[c], "prompt")) /\ (hp' # "done" => hp # "done")
  <2>1. CASE \/ Watchdog \/ SessionEnded \/ DialKept \/ ShellEnds \/ DialStart \/ DialOrphaned \/ AuthReturns
             \/ LiveFails \/ \E e \in Execs : ExecOrphaned(e)
             \/ \E c \in Clients : GoLive(c) \/ UnsetLive(c) \/ Drop(c) \/ Dropped(c)
    <3>1. ShutDown \/ UNCHANGED <<hp, down>>
      BY <2>1 DEF Watchdog, SessionEnded, ShellEnds, DialStart, DialOrphaned, AuthReturns, DialKept,
         LiveFails, ExecOrphaned, GoLive, UnsetLive, Drop, Dropped, procVars
    <3> QED BY <3>1, ShutFewer
  <2>2. CASE DialInstalled
    <3>1. PICK f \in DownFrame : f = Frame("dialok", 0) /\ f.kind = "dialok"
      BY DownFrames, FrameIs
    <3>2. down' = Sent(Spawner, f) /\ hp' = hp
      BY <2>2, <3>1 DEF DialInstalled
    <3> QED BY <3>1, <3>2, SentFewer
  <2>3. ASSUME NEW e \in Execs, ExecStart(e) \/ ExecEnds(e)
        PROVE  (\A c \in Clients : Fewer(down'[c], down[c], "prompt")) /\ (hp' # "done" => hp # "done")
    <3>1. hp' = hp
      BY <2>3 DEF ExecStart, ExecEnds, procVars
    <3>2. PICK g \in Execs \union {None} :
            down' = down \/ down' = Sent(By(e), Frame("execEnd", [id |-> e, got |-> g]))
      BY <2>3 DEF ExecStart, ExecEnds
    <3>3. PICK f \in DownFrame : f = Frame("execEnd", [id |-> e, got |-> g]) /\ f.kind = "execEnd"
      BY DownFrames, FrameIs
    <3> QED BY <3>1, <3>2, <3>3, SentFewer, FewerIsPartial
  <2>4. CASE DialFailed
    <3>1. PICK f \in DownFrame : f = Frame("error", 0) /\ f.kind = "error"
      BY DownFrames, FrameIs
    <3>2. PICK told \in [Clients -> Seq(DownFrame)] :
            /\ told = Sent(Spawner, f) /\ \A c \in Clients : Fewer(told[c], down[c], "prompt")
      BY <3>1, SentIs, SentFewer
    <3>3. PICK g \in DownFrame : g = Frame("ended", 0) /\ g.kind = "ended"
      BY DownFrames, FrameIs
    <3>4. \A c \in Clients : Fewer(Append(told[c], g), told[c], "prompt")
      BY <3>3, AppendGrows, FewerGrows
    <3>5. \A c \in Clients : down'[c] = told[c] \/ down'[c] = Append(told[c], g)
      BY <2>4, <3>1, <3>2, <3>3 DEF DialFailed
    <3>6. hp # "done"
      BY <2>4 DEF DialFailed
    <3> QED BY <3>2, <3>4, <3>5, <3>6, FewerIsPartial
  <2> QED BY <2>1, <2>2, <2>3, <2>4
<1>4. Quiet
  BY <1>1, <1>2, <1>3, FewerIsPartial DEF Quiet, userVars
<1>5. Undialled
  <2>1. dialPc' = dialPc \/ dialPc # "none"
    BY <1>2 DEF Unasked
  <2> QED BY <1>1, <1>3, <2>1 DEF Undialled, remoteVars
<1> QED BY <1>4, <1>5, PromptsKept

\* Frames that neither dial nor answer.
LEMMA HandlePrompts ==
  ASSUME TypeOK, TypeOK', PromptInv, NEW c \in Clients,
         HandleInfo(c) \/ HandleExec(c) \/ HandleCancel(c) \/ HandleAttach(c) \/ HandleDetach(c) \/ HandleKill(c)
  PROVE  PromptInv'
<1>1. UNCHANGED <<dialVars, remoteVars, userVars>>
  BY DEF HandleInfo, HandleExec, HandleCancel, HandleAttach, HandleDetach, HandleKill
<1>2. Reads(c, Head(up[c]).kind)
  BY DEF HandleInfo, HandleExec, HandleCancel, HandleAttach, HandleDetach, HandleKill, Reads
<1>3. /\ Len(up'[c]) \in Nat /\ Shrinks(up'[c], up[c]) /\ hp # "done"
      /\ \A b \in Clients : b # c => up'[b] = up[b]
  BY <1>2, ReadsIs
<1>4. \A b \in Clients : Fewer(up'[b], up[b], "reply")
  BY <1>3, FewerShrinks, FewerIsPartial
<1>5. \A b \in Clients : Fewer(down'[b], down[b], "prompt")
  <2>1. (sess /\ shell = "live") \in BOOLEAN
    BY DEF TypeOK, HostTypes
  <2>2. PICK f \in DownFrame : f = Frame("infook", sess /\ shell = "live") /\ f.kind = "infook"
    BY <2>1, DownFrames, FrameIs
  <2>3. PICK g \in DownFrame : g = Frame("error", 0) /\ g.kind = "error"
    BY DownFrames, FrameIs
  <2>4. down' = Sent(c, f) \/ down' = Sent(c, g) \/ ShutDown \/ down' = down
    BY <2>2, <2>3 DEF HandleInfo, HandleExec, HandleCancel, HandleAttach, HandleDetach, HandleKill
  <2> QED BY <2>2, <2>3, <2>4, SentFewer, ShutFewer, FewerIsPartial
<1>6. Quiet
  BY <1>1, <1>4, <1>5 DEF Quiet, dialVars, userVars
<1>7. Undialled
  BY <1>1, <1>3 DEF Undialled, dialVars, remoteVars
<1> QED BY <1>6, <1>7, PromptsKept

LEMMA AskPrompts ==
  ASSUME TypeOK, TypeOK', PromptInv, AskPrompt
  PROVE  PromptInv'
<1>0. Spawner \in Clients /\ Adopters \subseteq Clients /\ asked \in Nat
  BY DEF Clients, TypeOK, HostTypes
<1>1. /\ UNCHANGED <<hp, up, replies, remoteVars, userVars>> /\ dialPc = "auth" /\ dialPc' \in {"failed", "asking"}
  BY DEF AskPrompt, procVars
<1>2. ~Prompted /\ ~Replied /\ prompt = 0 /\ replies = None
  BY <1>1 DEF PromptInv, OnePlace, Unasked
<1>3. Undialled
  BY <1>1 DEF Undialled, remoteVars
<1>4. CASE dialConn = None
  <2>1. Quiet
    BY <1>1, <1>4, FewerIsPartial DEF AskPrompt, Quiet, userVars
  <2> QED BY <1>3, <2>1, PromptsKept
<1>5. CASE dialConn # None
  <2>1. /\ dialConn = Spawner /\ dialPc' = "asking" /\ asked' = asked + 1 /\ asked + 1 \in 1..MaxPrompts
        /\ down' = Sent(Spawner, Frame("prompt", asked + 1))
    BY <1>0, <1>5, SessionAssumption DEF AskPrompt, TypeOK, HostTypes
  <2>2. PICK f \in DownFrame : f = Frame("prompt", asked + 1) /\ f.kind = "prompt" /\ Value(f) = asked + 1
    BY <2>1, DownFrames, FrameIs DEF Value
  <2>3. down'[Spawner] = down[Spawner] \/ Grows(down'[Spawner], down[Spawner], f)
    BY <1>0, <2>1, <2>2, SentIs
  <2>4. OnlyOne(down'[Spawner], "prompt", asked + 1)
    <3>1. CASE down'[Spawner] = down[Spawner]
      BY <1>2, <3>1 DEF Prompted, Has, OnlyOne
    <3>2. CASE Grows(down'[Spawner], down[Spawner], f)
      BY <1>0, <1>2, <2>2, <3>2, WireIs, FewerGrows DEF Prompted
    <3> QED BY <2>3, <3>1, <3>2
  <2>5. OnlyOne(up'[Spawner], "reply", asked + 1)
    BY <1>1, <1>2 DEF Replied, Has, OnlyOne
  <2>6. \A c \in Adopters : down'[c] = down[c]
    BY <1>0, <2>1, SessionAssumption DEF Sent, TypeOK, WireTypes
  <2>7. OnePrompt'
    BY <1>1, <1>2, <2>1, <2>4, <2>5, <2>6 DEF PromptInv, OnePrompt, userVars
  <2>8. OnePlace'
    BY <1>1, <1>2, <2>1 DEF OnePlace, Unasked, Replied, userVars
  <2> QED BY <1>3, <2>7, <2>8, DialsKept DEF PromptInv
<1> QED BY <1>4, <1>5

LEMMA TakePrompts ==
  ASSUME TypeOK, TypeOK', PromptInv, TakeReply
  PROVE  PromptInv'
<1>1. /\ UNCHANGED <<hp, up, down, asked, remoteVars, userVars>> /\ dialPc = "asking" /\ replies # None
      /\ replies' = None
  BY DEF TakeReply, procVars
<1>2. ~Prompted /\ ~Replied /\ prompt = 0
  BY <1>1 DEF PromptInv, OnePlace
<1>3. Undialled
  BY <1>1 DEF Undialled, remoteVars
<1>4. OnePrompt'
  BY <1>1 DEF PromptInv, OnePrompt, userVars
<1>5. OnePlace'
  BY <1>1, <1>2 DEF OnePlace, Replied, Prompted, userVars
<1> QED BY <1>3, <1>4, <1>5, DialsKept DEF PromptInv

\* The host reads a reply: nothing else of its prompt is left anywhere.
LEMMA ReplyPrompts ==
  ASSUME TypeOK, TypeOK', PromptInv, NEW c \in Clients, HandleReply(c)
  PROVE  PromptInv'
<1>0. /\ UNCHANGED <<dialConn, dialPc, asked, down, remoteVars, userVars>> /\ Reads(c, "reply")
      /\ replies' = (IF replies = None THEN Head(up[c]).arg ELSE replies)
  BY DEF HandleReply
<1>1. /\ Len(up'[c]) \in Nat /\ Shrinks(up'[c], up[c]) /\ hp # "done"
      /\ \A b \in Clients : b # c => up'[b] = up[b]
      /\ Head(up[c]) = up[c][1] /\ up[c][1].kind = "reply" /\ 1 \in 1..Len(up[c])
  BY <1>0, ReadsIs
<1>2. c = Spawner /\ Replied
  BY <1>1 DEF PromptInv, OnePrompt, Has, Replied, Clients
<1>3. ~Prompted /\ prompt = 0 /\ replies = None /\ dialPc \notin Unasked
  BY <1>2 DEF PromptInv, OnePlace
<1>4. up[c][1].arg.n = asked /\ ~Has(up'[c], "reply")
  <2>1. OnlyOne(up[c], "reply", asked)
    BY <1>2 DEF PromptInv, OnePrompt
  <2>2. Value(up[c][1]) = asked /\ ~Has(up'[c], "reply")
    BY <1>1, <2>1, FewerShrinks
  <2> QED BY <1>1, <2>2 DEF Value
<1>5. Undialled
  BY <1>0, <1>1 DEF Undialled, remoteVars
<1>6. OnePrompt'
  <2>1. OnlyOne(up'[Spawner], "reply", asked)
    BY <1>2, <1>4 DEF OnlyOne, Has
  <2>2. replies'.n = asked
    BY <1>0, <1>1, <1>3, <1>4
  <2>3. \A b \in Adopters : up'[b] = up[b]
    BY <1>1, <1>2, SessionAssumption DEF Clients
  <2> QED BY <1>0, <2>1, <2>2, <2>3 DEF PromptInv, OnePrompt, userVars
<1>7. OnePlace'
  BY <1>0, <1>2, <1>3, <1>4 DEF OnePlace, Replied, Prompted, userVars
<1> QED BY <1>5, <1>6, <1>7, DialsKept DEF PromptInv

\* The host reads the request to dial, the first frame of its spawner.
LEMMA DialPrompts ==
  ASSUME TypeOK, TypeOK', StreamInv, PromptInv, NEW c \in Clients, HandleDial(c)
  PROVE  PromptInv'
<1>0. /\ UNCHANGED <<replies, asked, down, remoteVars, userVars>> /\ Reads(c, "dial")
      /\ dialPc' = "start"
  BY DEF HandleDial
<1>1. /\ Len(up'[c]) \in Nat /\ Shrinks(up'[c], up[c]) /\ hp # "done" /\ c \in conns
      /\ \A b \in Clients : b # c => up'[b] = up[b]
      /\ up[c][1].kind = "dial" /\ 1 \in 1..Len(up[c])
  BY <1>0, ReadsIs
<1>2. c = Spawner /\ dialPc = "none"
  BY <1>1 DEF PromptInv, OneDial
<1>3. \A b \in Clients : Fewer(up'[b], up[b], "reply")
  BY <1>1, FewerShrinks, FewerIsPartial
<1>4. Quiet
  BY <1>0, <1>2, <1>3, FewerIsPartial DEF Quiet, userVars, Unasked
<1>5. pc'[Spawner] \notin {"off", "spawned"}
  BY <1>0, <1>1, <1>2 DEF StreamInv, Streaming, remoteVars
<1>6. ASSUME NEW b \in Clients, NEW i \in 1..Len(up'[b]), up'[b][i].kind = "dial" PROVE FALSE
  <2>1. CASE b = c
    <3>1. i + 1 \in 1..Len(up[c]) /\ up[c][i + 1].kind = "dial" /\ i + 1 # 1
      BY <1>1, <1>6, <2>1 DEF Shrinks
    <3> QED BY <3>1 DEF PromptInv, OneDial
  <2>2. CASE b # c
    <3>1. up[b][i].kind = "dial" /\ i \in 1..Len(up[b])
      BY <1>1, <1>6, <2>2
    <3> QED BY <1>2, <2>2, <3>1 DEF PromptInv, OneDial
  <2> QED BY <2>1, <2>2
<1>7. OneDial'
  BY <1>5, <1>6 DEF OneDial
<1> QED BY <1>4, <1>7, PlacesKept DEF PromptInv

\* Steps of a run that send nothing and show no prompt.
LEMMA RunPrompts ==
  ASSUME TypeOK, TypeOK', PromptInv,
         \/ \E e \in Execs : ExecReturns(e)
         \/ \E c \in Clients :
              \/ ConnectFails(c) \/ DialAnswered(c) \/ DialAbandoned(c) \/ ProbeFails(c) \/ Enlist(c)
              \/ ReadCtl(c) \/ ReadExecEnd(c) \/ ReadEnded(c) \/ ReadFails(c) \/ Killed(c) \/ Quit(c)
  PROVE  PromptInv'
<1>1. UNCHANGED <<hp, up, dialVars>> /\ (prompt' = prompt \/ prompt' = 0)
  BY DEF ExecReturns, ConnectFails, DialAnswered, DialAbandoned, ProbeFails, Enlist, ReadCtl,
         ReadExecEnd, ReadEnded, ReadFails, Killed, Quit, procVars, userVars
<1>2. \A c \in Clients : pc'[c] \in {"off", "spawned"} => pc[c] \in {"off", "spawned"}
  <2>1. \/ pc' = pc
        \/ \E c \in Clients, where \in {"failed", "dialled", "listed", "gone"} : Goes(c, where)
    BY DEF ExecReturns, ConnectFails, DialAnswered, DialAbandoned, ProbeFails, Enlist, ReadCtl,
         ReadExecEnd, ReadEnded, ReadFails, Killed, Quit, remoteVars
  <2>2. pc \in [Clients -> {"off", "spawned", "dialing", "probing", "dialled", "listed", "attached",
                         "killing", "failed", "gone"}]
    BY DEF TypeOK, RunTypes
  <2> QED BY <2>1, <2>2 DEF Goes
<1>3. \A c \in Clients : Fewer(down'[c], down[c], "prompt")
  <2>1. \/ down' = down
        \/ \E c \in Clients : \E kinds : Receives(c, kinds)
        \/ \E c \in Clients : down' = [down EXCEPT ![c] = <<>>]
    BY DEF ExecReturns, ConnectFails, DialAnswered, DialAbandoned, ProbeFails, Enlist, ReadCtl,
         ReadExecEnd, ReadEnded, ReadFails, Killed, Quit
  <2>2. CASE down' = down
    BY <2>2, FewerIsPartial
  <2>3. ASSUME NEW c \in Clients, NEW kinds, Receives(c, kinds)
        PROVE  \A b \in Clients : Fewer(down'[b], down[b], "prompt")
    BY <2>3, ReceivesIs, FewerShrinks, FewerIsPartial
  <2>4. ASSUME NEW c \in Clients, down' = [down EXCEPT ![c] = <<>>]
        PROVE  \A b \in Clients : Fewer(down'[b], down[b], "prompt")
    <3>1. Len(down'[c]) = 0 /\ \A b \in Clients : b # c => down'[b] = down[b]
      BY <2>4 DEF TypeOK, WireTypes
    <3> QED BY <3>1, FewerIsPartial
  <2> QED BY <2>1, <2>2, <2>3, <2>4
<1>4. Quiet
  BY <1>1, <1>3, FewerIsPartial DEF Quiet, dialVars
<1>5. Undialled
  <2>1. Spawner \in Clients
    BY DEF Clients
  <2> QED BY <1>1, <1>2, <2>1 DEF Undialled, dialVars
<1> QED BY <1>4, <1>5, PromptsKept

\* The spawner shows the prompt that reached it.
LEMMA ShowPrompts ==
  ASSUME TypeOK, TypeOK', PromptInv, NEW c \in Clients, ReadPrompt(c)
  PROVE  PromptInv'
<1>0. /\ UNCHANGED <<hp, up, dialVars, remoteVars>> /\ Receives(c, {"prompt"})
      /\ prompt' = Head(down[c]).arg
  BY DEF ReadPrompt, procVars
<1>1. /\ Len(down'[c]) \in Nat /\ Shrinks(down'[c], down[c])
      /\ \A b \in Clients : b # c => down'[b] = down[b]
      /\ Head(down[c]) = down[c][1] /\ down[c][1].kind = "prompt" /\ 1 \in 1..Len(down[c])
  BY <1>0, ReceivesIs
<1>2. c = Spawner /\ Prompted
  BY <1>1 DEF PromptInv, OnePrompt, Has, Prompted, Clients
<1>3. ~Replied /\ replies = None /\ dialPc \notin Unasked
  BY <1>2 DEF PromptInv, OnePlace
<1>4. prompt' = asked /\ ~Has(down'[c], "prompt")
  <2>1. OnlyOne(down[c], "prompt", asked)
    BY <1>2 DEF PromptInv, OnePrompt
  <2>2. Value(down[c][1]) = asked /\ ~Has(down'[c], "prompt")
    BY <1>1, <2>1, FewerShrinks
  <2> QED BY <1>0, <1>1, <2>2 DEF Value
<1>5. Undialled
  BY <1>0 DEF Undialled, dialVars, remoteVars
<1>6. OnePrompt'
  <2>1. OnlyOne(down'[Spawner], "prompt", asked)
    BY <1>2, <1>4 DEF OnlyOne, Has
  <2>2. \A b \in Adopters : down'[b] = down[b]
    BY <1>1, <1>2, SessionAssumption DEF Clients
  <2> QED BY <1>0, <1>3, <1>4, <2>1, <2>2 DEF PromptInv, OnePrompt, dialVars
<1>7. OnePlace'
  BY <1>0, <1>2, <1>3, <1>4 DEF OnePlace, Replied, Prompted, dialVars
<1> QED BY <1>5, <1>6, <1>7, DialsKept DEF PromptInv

\* The user answers the prompt on the screen.
LEMMA AnswerPrompts ==
  ASSUME TypeOK, TypeOK', PromptInv, NEW ok \in BOOLEAN, AnswerPrompt(Spawner, ok)
  PROVE  PromptInv'
<1>0. /\ UNCHANGED <<hp, down, dialVars, remoteVars>> /\ prompt # 0 /\ prompt' = 0
      /\ up' = Asks(Spawner, Frame("reply", [n |-> prompt, ok |-> ok]))
  BY DEF AnswerPrompt, procVars
<1>1. PICK f \in UpFrame : /\ f = Frame("reply", [n |-> prompt, ok |-> ok]) /\ f.kind = "reply"
                           /\ Value(f) = prompt
  <2>1. [n |-> prompt, ok |-> ok] \in Reply
    BY DEF TypeOK, RunTypes, Reply
  <2> QED BY <2>1, UpFrames, FrameIs DEF Value
<1>2. ~Prompted /\ ~Replied /\ replies = None /\ dialPc \notin Unasked /\ prompt = asked
  BY <1>0 DEF PromptInv, OnePlace, OnePrompt
<1>3. /\ \A b \in Clients : b # Spawner => up'[b] = up[b]
      /\ up'[Spawner] = up[Spawner] \/ Grows(up'[Spawner], up[Spawner], f)
      /\ Len(up[Spawner]) \in Nat
  <2>1. up' = Asks(Spawner, f) /\ Spawner \in Clients
    BY <1>0, <1>1 DEF Clients
  <2> QED BY <2>1, AsksIs
<1>4. Undialled
  BY <1>0, <1>1, <1>3 DEF Undialled, dialVars, remoteVars
<1>5. OnlyOne(up'[Spawner], "reply", asked)
  <2>1. CASE up'[Spawner] = up[Spawner]
    BY <1>2, <2>1 DEF Replied, Has, OnlyOne
  <2>2. CASE Grows(up'[Spawner], up[Spawner], f)
    BY <1>1, <1>2, <1>3, <2>2, FewerGrows DEF Replied
  <2> QED BY <1>3, <2>1, <2>2
<1>6. OnePrompt'
  <2>1. \A b \in Adopters : up'[b] = up[b]
    BY <1>3, SessionAssumption DEF Clients
  <2> QED BY <1>0, <1>2, <1>5, <2>1 DEF PromptInv, OnePrompt, dialVars
<1>7. OnePlace'
  BY <1>0, <1>2 DEF OnePlace, Prompted, dialVars
<1> QED BY <1>4, <1>6, <1>7, DialsKept DEF PromptInv

\* Frames of a run that neither dial nor answer.
LEMMA AskedPrompts ==
  ASSUME TypeOK, TypeOK', PromptInv, NEW c, NEW f \in UpFrame, f.kind \notin {"dial", "reply"},
         up' = Asks(c, f) \/ up' = up, UNCHANGED <<hp, down, dialVars, prompt>>,
         pc'[Spawner] \in {"off", "spawned"} => pc[Spawner] \in {"off", "spawned"}
  PROVE  PromptInv'
<1>1. \A b \in Clients : Len(up[b]) \in Nat /\ (up'[b] = up[b] \/ Grows(up'[b], up[b], f))
  BY AsksIs, WireIs
<1>2. Quiet
  BY <1>1, FewerGrows, FewerIsPartial DEF Quiet, dialVars
<1>3. Undialled
  BY <1>1 DEF Undialled, dialVars
<1> QED BY <1>2, <1>3, PromptsKept

LEMMA ConnectPrompts ==
  ASSUME TypeOK, TypeOK', PromptInv, NEW c \in Clients, Connect(c)
  PROVE  PromptInv'
<1>1. /\ UNCHANGED <<hp, dialVars, down, prompt>> /\ pc[c] \in {"off", "spawned"} /\ hp # "done"
      /\ Goes(c, IF c = Spawner THEN "dialing" ELSE "probing")
  BY DEF Connect, procVars, userVars
<1>2. PICK f \in UpFrame : /\ f.kind = (IF c = Spawner THEN "dial" ELSE "info")
                           /\ up' = [up EXCEPT ![c] = <<f>>]
  <2>1. PICK f \in UpFrame : f = Frame(IF c = Spawner THEN "dial" ELSE "info", 0)
    BY UpFrames
  <2>2. f.kind = (IF c = Spawner THEN "dial" ELSE "info")
    BY <2>1, FrameIs
  <2>3. up' = [up EXCEPT ![c] = <<f>>]
    BY <2>1 DEF Connect
  <2> QED BY <2>2, <2>3
<1>3. /\ pc \in [Clients -> {"off", "spawned", "dialing", "probing", "dialled", "listed", "attached",
                         "killing", "failed", "gone"}]
      /\ up \in [Clients -> Seq(UpFrame)] /\ Spawner \in Clients
  BY DEF TypeOK, RunTypes, WireTypes, Clients
<1>4. up'[c] = <<f>> /\ Len(<<f>>) = 1 /\ <<f>>[1] = f /\ \A b \in Clients : b # c => up'[b] = up[b]
  BY <1>2, <1>3
<1>5. \A b \in Clients : Fewer(up'[b], up[b], "reply")
  <2>1. Fewer(up'[c], up[c], "reply")
    BY <1>2, <1>4 DEF Fewer, Has, OnlyOne
  <2> QED BY <1>4, <2>1, FewerIsPartial
<1>6. Quiet
  BY <1>1, <1>5, FewerIsPartial DEF Quiet, dialVars
<1>7. OneDial'
  <2>1. ASSUME NEW b \in Clients, NEW i \in 1..Len(up'[b]), up'[b][i].kind = "dial"
        PROVE  i = 1 /\ b = Spawner /\ dialPc' = "none"
    <3>1. CASE b = c
      BY <1>1, <1>2, <1>4, <2>1, <3>1 DEF PromptInv, OneDial, dialVars
    <3>2. CASE b # c
      BY <1>1, <1>4, <2>1, <3>2 DEF PromptInv, OneDial, dialVars
    <3> QED BY <3>1, <3>2
  <2>2. pc'[Spawner] \in {"off", "spawned"} => pc[Spawner] \in {"off", "spawned"}
    BY <1>1, <1>3 DEF Goes
  <2> QED BY <1>1, <2>1, <2>2 DEF PromptInv, OneDial, dialVars
<1> QED BY <1>6, <1>7, PlacesKept DEF PromptInv

LEMMA GonePrompts ==
  ASSUME TypeOK, TypeOK', PromptInv, Exit \/ Crash
  PROVE  PromptInv'
<1>1. /\ hp' = "done" /\ dialPc' = "over" /\ replies' = None /\ up' = [c \in Clients |-> <<>>]
      /\ UNCHANGED <<asked, down, prompt, pc>>
  BY DEF Exit, Crash, ProcessGone, remoteVars, userVars
<1>2. \A c \in Clients : Len(up'[c]) = 0
  BY <1>1
<1>3. Quiet
  BY <1>1, <1>2, FewerIsPartial DEF Quiet
<1>4. OneDial'
  BY <1>1, <1>2 DEF OneDial
<1> QED BY <1>3, <1>4, PlacesKept DEF PromptInv

LEMMA PromptStep == TypeOK /\ TypeOK' /\ StreamInv /\ PromptInv /\ [Next]_vars => PromptInv'
<1> SUFFICES ASSUME TypeOK, TypeOK', StreamInv, PromptInv, [Next]_vars PROVE PromptInv'
  OBVIOUS
<1>0. /\ Spawner \in Clients
      /\ pc \in [Clients -> {"off", "spawned", "dialing", "probing", "dialled", "listed", "attached",
                         "killing", "failed", "gone"}]
  BY DEF Clients, TypeOK, RunTypes
<1>1. CASE UNCHANGED vars
  <2>1. Quiet /\ Undialled
    BY <1>1, FewerIsPartial DEF Quiet, Undialled, vars, procVars, dialVars, remoteVars, userVars
  <2> QED BY <2>1, PromptsKept
<1>2. CASE HostStep
  BY <1>2, GonePrompts, HostPrompts, HandlePrompts, TakePrompts, ReplyPrompts, DialPrompts DEF HostStep
<1>3. ASSUME NEW c \in Clients, RemoteStep(c) PROVE PromptInv'
  <2>1. CASE Probed(c)
    <3>1. PICK f \in UpFrame : f = Frame("kill", 0) /\ f.kind = "kill"
      BY UpFrames, FrameIs
    <3>2. up' = Asks(c, f) \/ up' = up
      BY <2>1, <3>1 DEF Probed, RetireFrame
    <3>3. UNCHANGED <<hp, down, dialVars, prompt>>
      BY <2>1 DEF Probed, userVars
    <3>4. pc'[Spawner] \in {"off", "spawned"} => pc[Spawner] \in {"off", "spawned"}
      BY <1>0, <2>1 DEF Probed, Goes
    <3> QED BY <3>1, <3>2, <3>3, <3>4, AskedPrompts
  <2> QED BY <1>3, <2>1, RunPrompts, ShowPrompts DEF RemoteStep
<1>4. ASSUME NEW c \in Clients, Attach(c) \/ Detach(c) \/ Kill(c) PROVE PromptInv'
  <2>1. PICK k \in {"attach", "detach", "kill"} : up' = Asks(c, Frame(k, 0))
    BY <1>4 DEF Attach, Detach, Kill
  <2>2. PICK f \in UpFrame : f = Frame(k, 0) /\ f.kind = k
    BY UpFrames, FrameIs
  <2>3. UNCHANGED <<hp, down, dialVars, prompt>>
    BY <1>4 DEF Attach, Detach, Kill, procVars, userVars
  <2>4. pc'[Spawner] \in {"off", "spawned"} => pc[Spawner] \in {"off", "spawned"}
    BY <1>0, <1>4 DEF Attach, Detach, Kill, Goes
  <2> QED BY <2>1, <2>2, <2>3, <2>4, AskedPrompts
<1>5. ASSUME NEW c \in Clients, NEW e \in Execs, Exec(c, e) \/ CancelExec(e) PROVE PromptInv'
  <2>1. PICK k \in {"exec", "cancel"} : \E b \in {c, By(e)} : up' = Asks(b, Frame(k, e)) \/ up' = up
    BY <1>5 DEF Exec, CancelExec
  <2>2. PICK f \in UpFrame : f = Frame(k, e) /\ f.kind = k
    BY UpFrames, FrameIs
  <2>3. UNCHANGED <<hp, down, dialVars, prompt, pc>>
    BY <1>5 DEF Exec, CancelExec, procVars, remoteVars
  <2> QED BY <2>1, <2>2, <2>3, AskedPrompts
<1>6. CASE World
  BY <1>0, <1>4, <1>5, <1>6, GonePrompts, HostPrompts, AskPrompts, ConnectPrompts, RunPrompts, AnswerPrompts
     DEF World
<1> QED BY <1>1, <1>2, <1>3, <1>6 DEF Next

-----------------------------------------------------------------------------
(* The invariant *)

LEMMA InitInv == (\E old \in BOOLEAN : \E absent, idle : Start(old, absent, idle, MaxUses)) => IInv
<1> SUFFICES ASSUME NEW old \in BOOLEAN, NEW absent, NEW idle, Start(old, absent, idle, MaxUses)
             PROVE  IInv
  OBVIOUS
<1>1. TypeOK
  BY InitTypes
<1>2. /\ attached = None /\ live = None /\ conns = {} /\ open = {} /\ served = {} /\ replies = None
      /\ hpc = [c \in Clients |-> "read"] /\ prompt = 0 /\ asked = 0
      /\ up = [c \in Clients |-> <<>>] /\ down = [c \in Clients |-> <<>>]
      /\ (old => dialPc = "over") /\ (~old => dialPc = "none")
      /\ pc = [c \in Clients |->
               IF c # Spawner THEN IF c \in absent THEN "gone" ELSE "off" ELSE IF old THEN "gone" ELSE "spawned"]
  BY DEF Start
<1>3. \A c \in Clients : Len(up[c]) = 0 /\ Len(down[c]) = 0 /\ c # None
  BY <1>2, SessionAssumption
<1>4. StreamInv
  <2>1. Streaming /\ OneStream
    BY <1>2 DEF Streaming, OneStream
  <2>2. ASSUME NEW c \in Clients PROVE Turns(c)
    <3>1. (attached = c) = FALSE
      BY <1>2, <1>3
    <3> QED BY <1>2, <1>3, <3>1, EmptySettled DEF Turns
  <2> QED BY <2>1, <2>2 DEF StreamInv
<1>5. PromptInv
  <2>1. Spawner \in Clients /\ Adopters \subseteq Clients
    BY DEF Clients
  <2>2. \A c \in Clients : \A n : /\ ~Has(up[c], "reply") /\ ~Has(down[c], "prompt")
                                  /\ OnlyOne(up[c], "reply", n) /\ OnlyOne(down[c], "prompt", n)
    BY <1>3 DEF Has, OnlyOne
  <2>3. OnePrompt
    BY <1>2, <2>1, <2>2 DEF OnePrompt
  <2>4. OnePlace
    BY <1>2, <2>1, <2>2 DEF OnePlace, Prompted, Replied
  <2>5. OneDial
    BY <1>2, <1>3, <2>1 DEF OneDial
  <2> QED BY <2>3, <2>4, <2>5 DEF PromptInv
<1> QED BY <1>1, <1>4, <1>5 DEF IInv

LEMMA StepInv == IInv /\ [Next]_vars => IInv'
BY TypeStep, StreamStep, PromptStep DEF IInv

\* The invariant behind the two: frames come in the order the protocol of a run sends them,
\* and a prompt is in one place at a time.  It holds in every state the host and its runs reach.
THEOREM Inductive == Spec => []IInv
<1>1. Init => IInv
  BY InitInv DEF Init
<1> QED BY <1>1, StepInv, PTL DEF Spec

\* Every variable, and every frame on a wire, keeps its type.
THEOREM TypeCorrect == Spec => []TypeOK
<1>1. IInv => TypeOK
  BY DEF IInv
<1> QED BY <1>1, Inductive, PTL

\* The output of a session has one reader: the writer in the tee belongs to the client the
\* host calls attached, or to one whose own read loop is about to take it out; a client that
\* attached and is connected has its writer installed.  (host.go attach, detach, drop;
\* ring.go goLive, unsetLive)
THEOREM OneReader == Spec => []OneStream
<1>1. IInv => OneStream
  BY DEF IInv, StreamInv
<1> QED BY <1>1, Inductive, PTL

\* A reply in the buffer answers the prompt that is outstanding, never an earlier one: the
\* auth chain is not handed the password typed for something else.  (host.go relayPrompt)
THEOREM RightAnswer == Spec => []AnswerFitsPrompt
<1>1. IInv => AnswerFitsPrompt
  BY DEF IInv, PromptInv, OnePrompt, OnePlace, Unasked, AnswerFitsPrompt
<1> QED BY <1>1, Inductive, PTL
=============================================================================
