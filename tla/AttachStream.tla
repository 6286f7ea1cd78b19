---------------------------- MODULE AttachStream ----------------------------
(***************************************************************************)
(* The bytes of a session: its scrollback ring and tee (sshx/ring.go), the  *)
(* two pumps that feed them (sshx/session.go), and the attach loop that     *)
(* replays the ring, mirrors the output and watches the typed bytes for its *)
(* two keys (sshx/attach.go and its socket-backed twin sessd/attach.go).    *)
(*                                                                         *)
(* Bytes of output are the numbers of their order on the wire, so a screen  *)
(* shows what was lost or doubled.  Locks are explicit: what a pump does    *)
(* under the tee's lock, ring first and live writer second, is two steps.   *)
(***************************************************************************)
EXTENDS Integers, Sequences

CONSTANTS
    Cap,         \* ringSize
    MaxBytes,    \* bound: bytes the remote emits and the user types, together
    MaxChunk,    \* bound: bytes of one read, of output and of input
    MaxAttach    \* bound: attaches, by the same or by another client

ASSUME StreamAssumption ==
    /\ Cap \in Nat \ {0} /\ MaxChunk \in Nat \ {0}
    /\ MaxBytes \in Nat /\ MaxAttach \in Nat

VARIABLES
    ring,      \* [data, start, len]
    emitted,   \* bytes written to the tee so far, the history of the ring
    lock,      \* holder of the tee's lock: a pump, an attach or nobody
    live,      \* the attach whose terminal is the live writer
    screen,    \* screen[a]: the output the terminal of attach a was given
    chunk,     \* what the pump that holds the lock still owes the live writer
    att,       \* att[a]: the loop of attach a
    typed,     \* typed[a]: every byte it has read from the terminal
    sent,      \* sent[a]: what it has written to the remote's stdin
    calls      \* calls[a]: hotkey callbacks that have not returned

outputs == <<ring, emitted, lock, live, screen, chunk>>
inputs  == <<typed, sent, calls>>
vars    == <<ring, emitted, lock, live, screen, chunk, att, typed, sent, calls>>

Attaches == 1..MaxAttach
Nobody   == 0
Pump     == -1

\* Only the bound of a run looks at it.
Traffic == LET Typed[a \in 0..MaxAttach] == IF a = 0 THEN 0 ELSE Typed[a - 1] + Len(typed[a])
           IN  emitted + Typed[MaxAttach]

Smaller(m, n) == IF m < n THEN m ELSE n

---------------------------------------------------------------------------
(* The ring *)

EmptyRing == [data |-> [i \in 0..(Cap - 1) |-> 0], start |-> 0, len |-> 0]

\* At most two segments: to the physical end, and from the beginning.
Copied(data, pos, p) ==
    [i \in 0..(Cap - 1) |->
        CASE i >= pos /\ i < pos + Len(p)           -> p[i - pos + 1]
          [] i < pos /\ i < pos + Len(p) - Cap      -> p[i - pos + Cap + 1]
          [] OTHER                                  -> data[i]]

\* Mutant: a write that fills the ring exactly leaves the oldest byte in place.
RingWriteTight(r, p) ==
    [data  |-> Copied(r.data, (r.start + r.len) % Cap, p),
     start |-> r.start,
     len   |-> Smaller(r.len + Len(p), Cap)]

\* Write.  A chunk as long as the ring or longer leaves its tail only.
RingWrite(r, p) ==
    IF Len(p) >= Cap
    THEN [data |-> [i \in 0..(Cap - 1) |-> p[Len(p) - Cap + i + 1]], start |-> 0, len |-> Cap]
    ELSE [data  |-> Copied(r.data, (r.start + r.len) % Cap, p),
          start |-> IF r.len + Len(p) > Cap
                    THEN (r.start + (r.len + Len(p) - Cap)) % Cap ELSE r.start,
          len   |-> Smaller(r.len + Len(p), Cap)]

\* Snapshot, in write order.
Snapshot(r) ==
    LET tail == Cap - r.start
    IN  [i \in 1..r.len |-> IF i <= tail THEN r.data[r.start + i - 1] ELSE r.data[i - tail - 1]]

---------------------------------------------------------------------------
(* The tee *)

\* tee.Write, first half: a pump with the next chunk takes the lock and records.
Record ==
    /\ lock = Nobody
    /\ \E n \in 1..MaxChunk :
          /\ Traffic + n <= MaxBytes
          /\ LET p == [i \in 1..n |-> emitted + i]
             IN  ring' = RingWrite(ring, p) /\ chunk' = p
          /\ emitted' = emitted + n
    /\ lock' = Pump
    /\ UNCHANGED <<live, screen, att, inputs>>

\* Second half: the live writer gets the chunk, or fails and is dropped.
Mirror ==
    /\ lock = Pump
    /\ \/ /\ live # Nobody
          /\ screen' = [screen EXCEPT ![live] = @ \o chunk]
          /\ UNCHANGED live
       \/ /\ live' = Nobody
          /\ UNCHANGED screen
    /\ lock' = Nobody /\ chunk' = <<>>
    /\ UNCHANGED <<ring, emitted, att, inputs>>

\* Mutant: the lock is not held from the snapshot to the handover.
LockedNot(a) == lock' = lock

Locked(a) == lock' = a

\* goLive: the snapshot goes to the terminal under the lock ...
Replay(a) ==
    /\ att[a].pc = "attaching" /\ lock = Nobody
    /\ screen' = [screen EXCEPT ![a] = Snapshot(ring)]
    /\ Locked(a)
    /\ att' = [att EXCEPT ![a].pc = "replayed"]
    /\ UNCHANGED <<ring, emitted, live, chunk, inputs>>

\* ... and then the terminal is the live writer, or the replay failed and the
\* one before it stays.
GoLive(a) ==
    /\ att[a].pc = "replayed"
    /\ \/ live' = a /\ att' = [att EXCEPT ![a].pc = "reading"]
       \/ UNCHANGED live /\ att' = [att EXCEPT ![a].pc = "off"]
    /\ lock' = IF lock = a THEN Nobody ELSE lock
    /\ UNCHANGED <<ring, emitted, screen, chunk, inputs>>

\* Mutant: a leaving attach takes down whatever writer is installed.
ClearsAny(a) == Nobody

Cleared(a) == IF live = a THEN Nobody ELSE live

UnsetLive(a) ==
    /\ att[a].pc = "leaving" /\ lock = Nobody
    /\ live' = Cleared(a)
    /\ att' = [att EXCEPT ![a].pc = "off"]
    /\ UNCHANGED <<ring, emitted, lock, screen, chunk, inputs>>

---------------------------------------------------------------------------
(* The attach loop *)

Bytes   == {"x", "d", "h"}
NoByte  == "unset"

\* AttachWith: a collision disables the remote-access key.
AttachWith(detach, remote) ==
    [pc |-> "attaching", detach |-> detach, buf |-> <<>>,
     remote |-> IF remote = detach THEN NoByte ELSE remote]

\* Another attach, with whatever keys are configured by now.
Run(a) ==
    /\ att[a].pc = "idle" /\ \A b \in 1..(a - 1) : att[b].pc # "idle"
    /\ \E remote \in {"h", "d", NoByte} : att' = [att EXCEPT ![a] = AttachWith("d", remote)]
    /\ UNCHANGED <<outputs, inputs>>

IndexByte(buf, b) ==
    LET at == {i \in 1..Len(buf) : buf[i] = b}
    IN  IF at = {} THEN 0 ELSE CHOOSE i \in at : \A j \in at : i <= j

\* Mutant: the detach key is looked for in the whole read first.
ScanDetachFirst(l) ==
    LET d == IndexByte(l.buf, l.detach)
        h == IF l.remote = NoByte THEN 0 ELSE IndexByte(l.buf, l.remote)
    IN  IF d > 0 THEN [at |-> d, isDetach |-> TRUE] ELSE [at |-> h, isDetach |-> FALSE]

\* scan: the first watched byte; a tie goes to detach.
Scan(l) ==
    LET d == IndexByte(l.buf, l.detach)
        h == IF l.remote = NoByte THEN 0 ELSE IndexByte(l.buf, l.remote)
    IN  IF h = 0 \/ (d > 0 /\ d <= h) THEN [at |-> d, isDetach |-> TRUE]
                                     ELSE [at |-> h, isDetach |-> FALSE]

\* One read of the terminal, up to a whole buffer of what was typed.
Read(a) ==
    /\ att[a].pc = "reading" /\ att[a].buf = <<>>
    /\ \E n \in 1..MaxChunk : \E c \in [1..n -> Bytes] :
          /\ Traffic + n <= MaxBytes
          /\ typed' = [typed EXCEPT ![a] = @ \o c]
          /\ att' = [att EXCEPT ![a].buf = c]
    /\ UNCHANGED <<outputs, sent, calls>>

\* forward returns on end of input, and when the session is done.
ReadEnds(a) ==
    /\ att[a].pc = "reading" /\ att[a].buf = <<>>
    /\ att' = [att EXCEPT ![a].pc = "leaving"]
    /\ UNCHANGED <<outputs, inputs>>

\* One turn of dispatch: the run before the watched byte goes out, then the byte
\* acts.  A write that fails ends the takeover.
Dispatch(a) ==
    LET l    == att[a]
        hit  == Scan(l)
        run  == IF hit.at = 0 THEN l.buf ELSE SubSeq(l.buf, 1, hit.at - 1)
        rest == IF hit.at = 0 THEN <<>> ELSE SubSeq(l.buf, hit.at + 1, Len(l.buf))
    IN  /\ l.pc = "reading" /\ l.buf # <<>>
        /\ \/ /\ run # <<>>
              /\ att' = [att EXCEPT ![a].pc = "leaving"]
              /\ UNCHANGED <<sent, calls>>
           \/ /\ sent' = [sent EXCEPT ![a] = @ \o run]
              /\ IF hit.at > 0 /\ ~hit.isDetach
                 THEN /\ att' = [att EXCEPT ![a].pc = "firing", ![a].buf = rest]
                      /\ calls' = [calls EXCEPT ![a] = @ + 1]
                 ELSE /\ att' = [att EXCEPT ![a].pc = IF hit.at > 0 THEN "leaving" ELSE @,
                                            ![a].buf = rest]
                      /\ UNCHANGED calls
        /\ UNCHANGED <<outputs, typed>>

\* fireRemoteAccess: the callback's text, a panic's or the timeout's is printed,
\* and the loop goes on with the rest of the read.
Returns(a) == att' = [att EXCEPT ![a].pc = "reading"]

CallReturns(a) ==
    /\ att[a].pc = "firing" /\ calls[a] > 0
    /\ Returns(a)
    /\ calls' = [calls EXCEPT ![a] = @ - 1]
    /\ UNCHANGED <<outputs, typed, sent>>

CallTimesOut(a) ==
    /\ att[a].pc = "firing"
    /\ Returns(a)
    /\ UNCHANGED <<outputs, typed, sent, calls>>

Waits(a) == IF att[a].pc = "firing" THEN 1 ELSE 0

\* A result nobody waits for any more is dropped.
CallReturnsLate(a) ==
    /\ calls[a] > Waits(a)
    /\ calls' = [calls EXCEPT ![a] = @ - 1]
    /\ UNCHANGED <<outputs, typed, sent, att>>

---------------------------------------------------------------------------

Init ==
    /\ ring = EmptyRing /\ emitted = 0 /\ lock = Nobody /\ live = Nobody /\ chunk = <<>>
    /\ screen = [a \in Attaches |-> <<>>]
    /\ att = [a \in Attaches |-> [AttachWith("d", NoByte) EXCEPT !.pc = "idle"]]
    /\ typed = [a \in Attaches |-> <<>>]
    /\ sent = [a \in Attaches |-> <<>>]
    /\ calls = [a \in Attaches |-> 0]

\* Mutant: a callback that does not return is waited for.
LoopWithoutTimer(a) == Dispatch(a)

Loop(a) == Dispatch(a) \/ CallTimesOut(a)

Next ==
    \/ Record \/ Mirror
    \/ \E a \in Attaches : \/ Run(a) \/ Replay(a) \/ GoLive(a) \/ Read(a) \/ ReadEnds(a)
                           \/ UnsetLive(a) \/ Loop(a) \/ CallReturns(a) \/ CallReturnsLate(a)

Spec == Init /\ [][Next]_vars

\* The loop is a goroutine that runs, its timer fires, and whoever holds the
\* tee's lock drops it (a terminal that stops taking bytes ends in an error).
\* A sync.Mutex does not starve a waiter, hence the strong fairness.
FairSpec ==
    /\ Spec
    /\ WF_vars(Mirror)
    /\ \A a \in Attaches : WF_vars(Loop(a)) /\ WF_vars(GoLive(a)) /\ SF_vars(UnsetLive(a))

---------------------------------------------------------------------------
(* Properties *)

\* ring.go: the ring is "a fixed-capacity circular byte buffer keeping the most
\* recent ringSize bytes written to it", however the chunks fall.
RingKeepsTheTail ==
    LET n == Smaller(emitted, Cap)
    IN  Snapshot(ring) = [i \in 1..n |-> emitted - n + i]

\* goLive: "every chunk is either in the replay it hands out or delivered live
\* afterwards, never both and never neither".
Owed == Len(chunk)
NoGapNoDouble ==
    \A a \in Attaches :
        LET s == screen[a]
        IN  /\ \A i \in 1..(Len(s) - 1) : s[i + 1] = s[i] + 1
            /\ live = a => IF s = <<>> THEN emitted = Owed
                                        ELSE s[Len(s)] = emitted - Owed

\* unsetLive: a terminal that reads its keys stays live until a write to it fails
\* or a later attach takes over; no leaving attach takes it down.
LeavingSparesOthers ==
    [][\A a \in Attaches : live = a /\ live' = Nobody =>
          lock = Pump \/ att[a].pc = "leaving"]_vars

Before(s, b) == LET i == IndexByte(s, b) IN IF i = 0 THEN s ELSE SubSeq(s, 1, i - 1)
Consumed(a)  == SubSeq(typed[a], 1, Len(typed[a]) - Len(att[a].buf))

\* t is s without the bytes b, in order: f[i] is where t[i] stands in s.
Without(t, s, b) ==
    \E f \in [1..Len(t) -> 1..Len(s)] :
        /\ \A i \in 1..Len(t) : t[i] = s[f[i]] /\ \A j \in 1..(i - 1) : f[j] < f[i]
        /\ \A k \in 1..Len(s) : s[k] # b <=> \E i \in 1..Len(t) : f[i] = k

\* dispatch: the remote gets what was typed before the detach key, without the
\* hotkeys and in order, whatever reads the bytes arrived in.
RemoteGetsTheText ==
    \A a \in Attaches : Without(sent[a], Before(Consumed(a), att[a].detach), att[a].remote)

\* fireRemoteAccess, scan: whatever the callback does, the loop comes back to the
\* keys, and a detach key that was typed is obeyed or the takeover is over.
NeverWedged ==
    \A a \in Attaches :
        IndexByte(typed[a], att[a].detach) > 0 /\ att[a].pc = "reading" ~> att[a].pc = "off"
=============================================================================
